---------------------------- MODULE ObjectStore ----------------------------
(***************************************************************************)
(* The object data path of the SFree API: PutObject, CopyObject,           *)
(* DeleteObject and GetObject of one bucket, as concurrent HTTP requests   *)
(* over two stores that share no transaction:                              *)
(*                                                                         *)
(*   files   the MongoDB collection of object documents, unique by         *)
(*           (bucket, name), each listing the chunks of one object body;   *)
(*   store   the chunks that exist at the backing sources (Google Drive,   *)
(*           Telegram, S3), written and deleted one by one.                *)
(*                                                                         *)
(* Every call to MongoDB or to a source is one atomic step; everything     *)
(* between two calls may be interleaved with any step of another request.  *)
(* A request runs once, so the chunk names it creates and the document id  *)
(* it draws are its own, as the ObjectIDs of the code are.                 *)
(***************************************************************************)
EXTENDS Naturals, FiniteSets

CONSTANTS
  Requests,    \* HTTP requests; each is served at most once
  Keys,        \* object names of the bucket
  MaxChunks,   \* bound on the chunks of one uploaded body
  Ops,         \* the operations clients send, a subset of AllOps
  Faults,      \* what may go wrong, a subset of AllFaults
  None         \* no document, no request

AllOps == {"put", "copy", "delete", "get"}

(***************************************************************************)
(* "source": a source call or the read of the request body fails;          *)
(* "meta": a MongoDB call fails and has no effect; "reply": a MongoDB      *)
(* write is applied and its reply is lost; "crash": the process serving a  *)
(* request dies and the request never resumes.                             *)
(***************************************************************************)
AllFaults == {"source", "meta", "reply", "crash"}

Chunk == Requests \X (1..MaxChunks)
Owner(c) == c[1]

\* The copies of chunks that timed-out attempts to upload them left. No call
\* ever names one of them, so one mark stands for all.
Stray == <<None, 0>>

\* repository.File: id is _id, body stands for the content and its metadata
\* (named by the put that wrote it), chunks for the chunk list.
Doc == [id : Requests, body : Requests, chunks : SUBSET Chunk]

\* What a client asks for. src is the key that is looked up: the copy source
\* of a copy, the key itself otherwise.
Request == {q \in [op : AllOps, key : Keys, src : Keys] :
              q.op # "copy" => q.src = q.key}

ASSUME ConstantsAssumption ==
  /\ MaxChunks \in Nat
  /\ Ops \subseteq AllOps
  /\ Faults \subseteq AllFaults
  /\ None \notin Doc \cup Request

VARIABLES
  files,   \* [Keys -> Doc or None]
  store,   \* chunks and Stray present at the sources
  pc,      \* control point of each request
  req,     \* what it was asked, None before it starts
  sent,    \* chunks it has uploaded so far
  snap,    \* the document GetByName returned to it
  work,    \* chunks it still has to check or to read
  doomed,  \* chunks it deletes at the sources without a further check
  res,     \* its answer, once decided
  overlapped  \* history: the requests served while another one was

vars == <<files, store, pc, req, sent, snap, work, doomed, res, overlapped>>

Steps == {"idle", "lookup", "upload", "cleanup", "replace", "insert", "retry",
          "purge", "delete", "count", "stream", "done", "crashed"}

\* "warn" is success with a CleanupErr, which the handlers only log.
Results == {"none", "ok", "warn", "absent", "err", "broken"}
Succeeded == {"ok", "warn"}

\* Control points of a put before its document is in the collection.
Uploading == {"upload", "replace", "insert", "retry"}

TypeOK ==
  /\ files \in [Keys -> Doc \cup {None}]
  /\ store \subseteq Chunk \cup {Stray}
  /\ pc \in [Requests -> Steps]
  /\ req \in [Requests -> Request \cup {None}]
  /\ \A r \in Requests : pc[r] # "idle" => req[r] \in Request
  /\ sent \in [Requests -> 0..MaxChunks]
  /\ snap \in [Requests -> Doc \cup {None}]
  /\ work \in [Requests -> SUBSET Chunk]
  /\ doomed \in [Requests -> SUBSET Chunk]
  /\ res \in [Requests -> Results]
  /\ overlapped \subseteq Requests

Init ==
  /\ files = [k \in Keys |-> None]
  /\ store = {}
  /\ pc = [r \in Requests |-> "idle"]
  /\ req = [r \in Requests |-> None]
  /\ sent = [r \in Requests |-> 0]
  /\ snap = [r \in Requests |-> None]
  /\ work = [r \in Requests |-> {}]
  /\ doomed = [r \in Requests |-> {}]
  /\ res = [r \in Requests |-> "none"]
  /\ overlapped = {}
-----------------------------------------------------------------------------
\* Helpers.

Active(r) == pc[r] \notin {"idle", "done", "crashed"}
ChunksAt(k) == IF files[k] = None THEN {} ELSE files[k].chunks

\* Mutant: a body's first chunk gets index 0.
UploadedFromZero(r) == {r} \X (0..sent[r])

\* The chunks of the body of r that are stored so far.
Uploaded(r) == {r} \X (1..sent[r])

\* CountByChunk: some document of the collection lists c.
Referenced(c) == \E k \in Keys : c \in ChunksAt(k)

\* Document order: lists of chunks are walked from their lowest index.
IsFirst(c, S) == c \in S /\ \A d \in S : c[2] <= d[2]

Goto(r, step) == pc' = [pc EXCEPT ![r] = step]
Answer(r, result) == res' = [res EXCEPT ![r] = result]
Finish(r, result) == Goto(r, "done") /\ Answer(r, result)
-----------------------------------------------------------------------------
(***************************************************************************)
(* Entering the object service.                                            *)
(***************************************************************************)

Start(r) ==
  /\ pc[r] = "idle"
  /\ \E q \in Request :
       /\ q.op \in Ops
       /\ req' = [req EXCEPT ![r] = q]
       /\ Goto(r, IF q.op = "put" THEN "upload" ELSE "lookup")
  /\ LET others == {q \in Requests : Active(q)}
     IN  overlapped' = IF others = {} THEN overlapped
                       ELSE overlapped \cup others \cup {r}
  /\ UNCHANGED <<files, store, sent, snap, work, doomed, res>>

(***************************************************************************)
(* uploadChunks: the body is read chunk by chunk, each chunk is stored     *)
(* under a fresh name before the next one is read. An attempt that times   *)
(* out may have stored its chunk all the same: the wrapper retries it and  *)
(* uploadChunk goes on to the next source, neither knows of that copy.     *)
(***************************************************************************)

UploadChunk(r) ==
  /\ pc[r] = "upload"
  /\ sent[r] < MaxChunks
  /\ \/ store' = store \cup {<<r, sent[r] + 1>>}
     \/ "source" \in Faults /\ store' = store \cup {<<r, sent[r] + 1>>, Stray}
  /\ sent' = [sent EXCEPT ![r] = @ + 1]
  /\ UNCHANGED <<files, pc, req, snap, work, doomed, res>>

\* The end of the body, possibly before the first byte.
EndOfBody(r) ==
  /\ pc[r] = "upload"
  /\ Goto(r, "replace")
  /\ UNCHANGED <<files, store, req, sent, snap, work, doomed, res>>

\* Mutant: the error of a chunk's upload is swallowed, the chunk recorded.
UploadErrorSwallowed(r) ==
  /\ pc[r] = "upload"
  /\ "source" \in Faults
  /\ sent[r] < MaxChunks
  /\ sent' = [sent EXCEPT ![r] = @ + 1]
  /\ UNCHANGED <<files, store, pc, req, snap, work, doomed, res>>

\* Reading the body, selecting a source, or the upload to every source
\* failed.
UploadFails(r) ==
  /\ pc[r] = "upload"
  /\ "source" \in Faults
  /\ \/ UNCHANGED store
     \/ sent[r] < MaxChunks /\ store' = store \cup {Stray}
  /\ doomed' = [doomed EXCEPT ![r] = Uploaded(r)]
  /\ Goto(r, "cleanup")
  /\ Answer(r, "err")
  /\ UNCHANGED <<files, req, sent, snap, work>>

\* Mutant: no return after the cleanup, the document is written all the same.
CleanupFallsThrough(r) ==
  /\ pc[r] = "cleanup"
  /\ IF doomed[r] = {}
     THEN Goto(r, "replace") /\ UNCHANGED <<store, doomed>>
     ELSE \E c \in doomed[r] :
            /\ store' = store \ {c}
            /\ doomed' = [doomed EXCEPT ![r] = @ \ {c}]
            /\ UNCHANGED pc
  /\ UNCHANGED <<files, req, sent, snap, work, res>>

\* cleanupUploadedChunks goes on past a chunk it cannot delete.
CleanupUploaded(r) ==
  /\ pc[r] = "cleanup"
  /\ IF doomed[r] = {}
     THEN Goto(r, "done") /\ UNCHANGED <<store, doomed>>
     ELSE \E c \in doomed[r] :
            /\ IsFirst(c, doomed[r])
            /\ doomed' = [doomed EXCEPT ![r] = @ \ {c}]
            /\ \/ store' = store \ {c}
               \/ "source" \in Faults /\ UNCHANGED store
            /\ UNCHANGED pc
  /\ UNCHANGED <<files, req, sent, snap, work, res>>

(***************************************************************************)
(* GetByName, the first call of a copy, a delete and a read.               *)
(***************************************************************************)

Lookup(r) ==
  /\ pc[r] = "lookup"
  /\ LET doc == files[req[r].src]
     IN  IF doc = None
         THEN Finish(r, "absent") /\ UNCHANGED <<snap, work>>
         ELSE /\ snap' = [snap EXCEPT ![r] = doc]
              /\ work' = [work EXCEPT ![r] =
                            IF req[r].op = "get" THEN doc.chunks ELSE {}]
              /\ Goto(r, CASE req[r].op = "copy" -> "replace"
                           [] req[r].op = "delete" -> "delete"
                           [] OTHER -> "stream")
              /\ UNCHANGED res
  /\ UNCHANGED <<files, store, req, sent, doomed>>

LookupFails(r) ==
  /\ pc[r] = "lookup"
  /\ "meta" \in Faults
  /\ Finish(r, "err")
  /\ UNCHANGED <<files, store, req, sent, snap, work, doomed>>

(***************************************************************************)
(* ReplaceByName: an upsert that returns the document it replaced. On a    *)
(* key without a document the server looks, then inserts; when another     *)
(* insert came first the unique index refuses this one and the update is   *)
(* tried once more, without upsert.                                        *)
(***************************************************************************)

\* The document a put or a copy wants to have under its key.
NewDoc(r, id) ==
  IF req[r].op = "copy"
  THEN [id |-> id, body |-> snap[r].body, chunks |-> snap[r].chunks]
  ELSE [id |-> id, body |-> r, chunks |-> Uploaded(r)]

\* The caller's path when ReplaceByName returned an error: PutObject deletes
\* the chunks it uploaded, CopyObject owns none.
ReplaceError(r) ==
  /\ Answer(r, "err")
  /\ IF req[r].op = "copy" \/ Uploaded(r) = {}
     THEN Goto(r, "done") /\ UNCHANGED doomed
     ELSE Goto(r, "purge") /\ doomed' = [doomed EXCEPT ![r] = Uploaded(r)]
  /\ UNCHANGED <<store, req, sent, snap, work>>

\* The document at the key of r was replaced; its _id stays.
Update(r) ==
  LET k == req[r].key
      previous == files[k]
  IN  /\ previous # None
      /\ files' = [files EXCEPT ![k] = NewDoc(r, previous.id)]
      /\ \/ /\ Answer(r, "ok")
            /\ work' = [work EXCEPT ![r] = previous.chunks]
            /\ Goto(r, "count")
            /\ UNCHANGED <<store, req, sent, snap, doomed>>
         \/ "reply" \in Faults /\ ReplaceError(r)

Replace(r) ==
  /\ pc[r] = "replace"
  /\ \/ Update(r)
     \/ /\ files[req[r].key] = None
        /\ Goto(r, "insert")
        /\ UNCHANGED <<files, store, req, sent, snap, work, doomed, res>>

Insert(r) ==
  /\ pc[r] = "insert"
  /\ LET k == req[r].key
     IN  \/ /\ files[k] = None
            /\ files' = [files EXCEPT ![k] = NewDoc(r, r)]
            /\ \/ /\ Finish(r, "ok")
                  /\ UNCHANGED <<store, req, sent, snap, work, doomed>>
               \/ "reply" \in Faults /\ ReplaceError(r)
         \/ /\ files[k] # None
            /\ Goto(r, "retry")
            /\ UNCHANGED <<files, store, req, sent, snap, work, doomed, res>>

\* Without upsert a document deleted meanwhile is an error of the call.
Retry(r) ==
  /\ pc[r] = "retry"
  /\ \/ Update(r)
     \/ files[req[r].key] = None /\ ReplaceError(r) /\ UNCHANGED files

ReplaceFails(r) ==
  /\ pc[r] \in {"replace", "insert", "retry"}
  /\ "meta" \in Faults
  /\ ReplaceError(r)
  /\ UNCHANGED files

(***************************************************************************)
(* deleteChunks stops at the first chunk it cannot delete. Drive and       *)
(* Telegram report an error for a chunk that is gone, S3 does not.         *)
(***************************************************************************)

\* Mutant: a cleanup error fails the request it belongs to.
CleanupErrorFailsRequest(r) == Finish(r, "err")

StopCleanup(r) ==
  /\ Goto(r, "done")
  /\ Answer(r, IF res[r] = "ok" THEN "warn" ELSE res[r])

\* Mutant: returns after the first chunk it deleted.
DeleteOneChunk(r) ==
  /\ pc[r] = "purge"
  /\ \E c \in doomed[r] : IsFirst(c, doomed[r]) /\ store' = store \ {c}
  /\ Goto(r, "done")
  /\ UNCHANGED <<files, req, sent, snap, work, doomed, res>>

DeleteChunk(r) ==
  /\ pc[r] = "purge"
  /\ \E c \in doomed[r] :
       /\ IsFirst(c, doomed[r])
       /\ \/ /\ store' = store \ {c}
             /\ doomed' = [doomed EXCEPT ![r] = @ \ {c}]
             /\ Goto(r, IF doomed[r] = {c} THEN "count" ELSE "purge")
             /\ UNCHANGED res
          \/ /\ "source" \in Faults \/ c \notin store
             /\ StopCleanup(r)
             /\ UNCHANGED <<store, doomed>>
  /\ UNCHANGED <<files, req, sent, snap, work>>

(***************************************************************************)
(* deleteFileChunksIfUnreferenced: one CountByChunk per chunk, and a       *)
(* delete at the source when no document lists it.                         *)
(***************************************************************************)

\* Mutant: chunks are deleted without counting the documents that list them.
DeleteUncounted(r) ==
  /\ pc[r] = "count"
  /\ IF work[r] = {}
     THEN Goto(r, "done") /\ UNCHANGED <<work, doomed>>
     ELSE \E c \in work[r] :
            /\ IsFirst(c, work[r])
            /\ work' = [work EXCEPT ![r] = @ \ {c}]
            /\ doomed' = [doomed EXCEPT ![r] = {c}]
            /\ Goto(r, "purge")
  /\ UNCHANGED <<files, store, req, sent, snap, res>>

CountReferences(r) ==
  /\ pc[r] = "count"
  /\ IF work[r] = {}
     THEN Goto(r, "done") /\ UNCHANGED <<work, doomed>>
     ELSE \E c \in work[r] :
            /\ IsFirst(c, work[r])
            /\ work' = [work EXCEPT ![r] = @ \ {c}]
            /\ IF Referenced(c)
               THEN UNCHANGED <<pc, doomed>>
               ELSE Goto(r, "purge") /\ doomed' = [doomed EXCEPT ![r] = {c}]
  /\ UNCHANGED <<files, store, req, sent, snap, res>>

CountFails(r) ==
  /\ pc[r] = "count"
  /\ "meta" \in Faults
  /\ StopCleanup(r)
  /\ UNCHANGED <<files, store, req, sent, snap, work, doomed>>

(***************************************************************************)
(* DeleteObject: the document is deleted by the _id that was looked up,    *)
(* whatever it holds by now; the chunks cleaned up are the ones seen then. *)
(***************************************************************************)

DeleteDocument(r) ==
  /\ pc[r] = "delete"
  /\ LET k == req[r].key
     IN  IF files[k] # None /\ files[k].id = snap[r].id
         THEN /\ files' = [files EXCEPT ![k] = None]
              /\ \/ /\ Answer(r, "ok")
                    /\ work' = [work EXCEPT ![r] = snap[r].chunks]
                    /\ Goto(r, "count")
                 \/ "reply" \in Faults /\ Finish(r, "err") /\ UNCHANGED work
         ELSE Finish(r, "absent") /\ UNCHANGED <<files, work>>
  /\ UNCHANGED <<store, req, sent, snap, doomed>>

DeleteFails(r) ==
  /\ pc[r] = "delete"
  /\ "meta" \in Faults
  /\ Finish(r, "err")
  /\ UNCHANGED <<files, store, req, sent, snap, work, doomed>>

(***************************************************************************)
(* GetObject: the chunks of the document looked up are downloaded in       *)
(* order. Headers go out with the first byte, so a missing chunk is an     *)
(* InternalError or a body that breaks off; both are "broken" here.        *)
(***************************************************************************)

StreamChunk(r) ==
  /\ pc[r] = "stream"
  /\ IF work[r] = {}
     THEN Finish(r, "ok") /\ UNCHANGED work
     ELSE \E c \in work[r] :
            /\ IsFirst(c, work[r])
            /\ IF c \in store
               THEN /\ work' = [work EXCEPT ![r] = @ \ {c}]
                    /\ UNCHANGED <<pc, res>>
               ELSE Finish(r, "broken") /\ UNCHANGED work
  /\ UNCHANGED <<files, store, req, sent, snap, doomed>>

StreamFails(r) ==
  /\ pc[r] = "stream"
  /\ "source" \in Faults
  /\ Finish(r, "err")
  /\ UNCHANGED <<files, store, req, sent, snap, work, doomed>>

\* The process dies between two calls.
Crash(r) ==
  /\ Active(r)
  /\ "crash" \in Faults
  /\ Goto(r, "crashed")
  /\ UNCHANGED <<files, store, req, sent, snap, work, doomed, res>>
-----------------------------------------------------------------------------
PutStep(r) ==
  UploadChunk(r) \/ EndOfBody(r) \/ UploadFails(r) \/ CleanupUploaded(r)

ReplaceStep(r) == Replace(r) \/ Insert(r) \/ Retry(r) \/ ReplaceFails(r)

ReclaimStep(r) == DeleteChunk(r) \/ CountReferences(r) \/ CountFails(r)

DeleteStep(r) == DeleteDocument(r) \/ DeleteFails(r)

ReadStep(r) ==
  Lookup(r) \/ LookupFails(r) \/ StreamChunk(r) \/ StreamFails(r)

Step(r) ==
  \/ Start(r)
  \/ /\ \/ PutStep(r) \/ ReplaceStep(r) \/ ReclaimStep(r)
        \/ DeleteStep(r) \/ ReadStep(r) \/ Crash(r)
     /\ UNCHANGED overlapped

Quiescent == \A r \in Requests : pc[r] \in {"done", "crashed"}

\* Every request was served: nothing is left to do.
AllServed == Quiescent /\ UNCHANGED vars

Next == (\E r \in Requests : Step(r)) \/ AllServed

Spec == Init /\ [][Next]_vars
-----------------------------------------------------------------------------
(***************************************************************************)
(* Safety.                                                                 *)
(***************************************************************************)

\* Some CopyObject holds c in the list it read, and was not alone.
CopiedAmongOthers(c) ==
  \E r \in overlapped : /\ req[r] # None
                        /\ req[r].op = "copy"
                        /\ snap[r] # None
                        /\ c \in snap[r].chunks

\* The two ways a listed chunk may be missing: such a copy, or a write whose
\* reply was lost, so that its put was answered with an error and rolled back.
Excused(c) == CopiedAmongOthers(c) \/ res[Owner(c)] = "err"

Dangling(c) == Referenced(c) /\ c \notin store

\* An object a client was told is stored stays readable, whatever requests
\* interleave, fail or crash: a chunk listed by a committed document is at its
\* source, but for the two excuses. Chunks may be deleted only after the last
\* document listing them went, and references are counted after that.
StoredObjectsReadable == \A c \in Chunk : Dangling(c) => Excused(c)

\* Where no copy runs and no reply is lost there is no excuse: whatever else
\* fails or crashes, a document never outlives one of its chunks.
NoDangling == \A c \in Chunk : ~Dangling(c)

\* A download breaks off for want of a chunk only when the document it reads
\* was replaced or deleted since it was looked up, or with the same excuses.
BrokenReadsAreOvertaken ==
  [][\A r \in Requests :
       res'[r] = "broken" /\ res[r] # "broken" =>
         \/ files[req[r].key] # snap[r]
         \/ \E c \in snap[r].chunks : Excused(c)]_vars

\* d removed a version of its document that it had not read: DeleteObject
\* deletes by _id, which a put that overwrites the object keeps.
OvertakenDelete(d, c) ==
  /\ req[d].op = "delete" /\ res[d] \in Succeeded
  /\ d \in overlapped /\ c \notin snap[d].chunks

\* When every request was served, a chunk that no document lists is still at
\* its source only if some request died, failed or logged a cleanup error, or
\* a delete was overtaken by a put. In one way only space is lost with no sign
\* at all: the copy of a timed-out attempt at an upload that went on
\* to succeed. No chunk that an upload returned is ever lost so.
NoSilentLeak ==
  Quiescent =>
    \A c \in store :
      \/ Referenced(c)
      \/ \E r \in Requests : pc[r] = "crashed" \/ res[r] \in {"err", "warn"}
      \/ \E d \in Requests : OvertakenDelete(d, c)
      \/ c = Stray

\* docs/s3-compatibility.md on CopyObject: "COPY preserves object bytes". A
\* copy that was answered "ok" and is still under its key can be read.
CopyPreservesBytes ==
  \A r \in Requests :
    (/\ req[r] # None /\ req[r].op = "copy" /\ res[r] \in Succeeded
     /\ files[req[r].key] # None
     /\ files[req[r].key].body = snap[r].body)
      => snap[r].chunks \subseteq store
=============================================================================
