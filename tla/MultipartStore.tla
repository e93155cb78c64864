--------------------------- MODULE MultipartStore ---------------------------
(***************************************************************************)
(* Multipart uploads: UploadPart, CompleteMultipartUpload and              *)
(* AbortMultipartUpload as concurrent HTTP requests over the collection of *)
(* upload records, the collection of object documents and the sources.     *)
(* Every handler reads the upload record first and works from that copy;   *)
(* each call to MongoDB or to a source is one atomic step.                 *)
(*                                                                         *)
(* A part is one chunk, named by the request that uploaded it (its ETag is *)
(* a hash of that name). How lists of several chunks are uploaded and      *)
(* cleaned up, and how ReplaceByName races with itself, is in ObjectStore; *)
(* here ReplaceByName is one step.                                         *)
(***************************************************************************)
EXTENDS Naturals, FiniteSets

CONSTANTS
  Requests,     \* HTTP requests; each is served at most once
  Uploads,      \* upload ids
  PartNumbers,  \* part numbers clients use
  Keys,         \* object names of the bucket
  Faults,       \* what may go wrong, a subset of AllFaults
  Old,          \* the chunk of an object put before, and of its copies
  Stray,        \* the copies that timed-out attempts to upload a chunk left
  None          \* no document, no part, no request

\* As in ObjectStore: a source call fails, a MongoDB call fails without
\* effect, a MongoDB write is applied and its reply is lost, the process
\* serving a request dies.
AllFaults == {"source", "meta", "reply", "crash"}

ASSUME MultipartAssumption ==
  /\ Faults \subseteq AllFaults
  /\ None \notin Requests
  /\ Old \notin Requests \cup {None}

ASSUME StrayAssumption == Stray \notin Requests \cup {None, Old}

VARIABLES
  record,   \* [Uploads -> "new", "open" or "gone"]: the upload document
  target,   \* [Uploads -> Keys]: its object key
  parts,    \* [Uploads -> [PartNumbers -> Requests or None]]: its parts
  files,    \* [Keys -> set of chunks, or None]: the object documents
  store,    \* chunks and Stray present at the sources
  pc,       \* control point of each request
  req,      \* what it was asked, None before it starts
  snap,     \* the parts of the record it read
  work,     \* chunks of a replaced object it still has to check
  doomed,   \* chunks it deletes without a check
  res,      \* its answer, once decided
  overlapped  \* history: requests served beside another one of their upload

uploadVars == <<record, target, parts>>
localVars == <<snap, work, doomed>>
vars == <<uploadVars, files, store, pc, req, localVars, res, overlapped>>

\* A chunk has the name of the request that uploads it.
Chunk == Requests \cup {Old}

NoParts == [n \in PartNumbers |-> None]
\* Mutant: part numbers without a part are taken for parts.
ChunksAndGaps(p) == {p[n] : n \in PartNumbers}

ChunksIn(p) == {p[n] : n \in PartNumbers} \ {None}

\* What clients ask. list holds the part requests a completion names, by
\* part number and ETag.
PartRequest == [op : {"part"}, upload : Uploads, part : PartNumbers]
CompleteRequest ==
  [op : {"complete"}, upload : Uploads, list : (SUBSET Requests) \ {{}}]
AbortRequest == [op : {"abort"}, upload : Uploads]

\* None is neither a request nor a list of chunks.
ASSUME NoneAssumption ==
  /\ None \notin PartRequest \cup CompleteRequest \cup AbortRequest
  /\ \A S \in SUBSET Chunk : S # None

Final == {"done", "leftopen", "crashed"}
Steps == {"idle", "lookup", "upload", "setpart", "purge", "commit", "count",
          "drop", "discard", "close"} \cup Final
Results == {"none", "ok", "warn", "absent", "err"}
Succeeded == {"ok", "warn"}

TypeOK ==
  /\ record \in [Uploads -> {"new", "open", "gone"}]
  /\ target \in [Uploads -> Keys]
  /\ parts \in [Uploads -> [PartNumbers -> Requests \cup {None}]]
  /\ files \in [Keys -> (SUBSET Chunk) \cup {None}]
  /\ store \subseteq Chunk \cup {Stray}
  /\ pc \in [Requests -> Steps]
  /\ DOMAIN req = Requests
  /\ \A r \in Requests :
       IF pc[r] = "idle" THEN req[r] = None
       ELSE req[r] \in PartRequest \cup CompleteRequest \cup AbortRequest
  /\ snap \in [Requests -> [PartNumbers -> Requests \cup {None}]]
  /\ work \in [Requests -> SUBSET Chunk]
  /\ doomed \in [Requests -> SUBSET Chunk]
  /\ res \in [Requests -> Results]
  /\ overlapped \subseteq Requests

Init ==
  /\ record = [u \in Uploads |-> "new"]
  /\ target \in [Uploads -> Keys]
  /\ parts = [u \in Uploads |-> NoParts]
  /\ files \in [Keys -> {None, {Old}}]
  /\ store = IF \E k \in Keys : files[k] # None THEN {Old} ELSE {}
  /\ pc = [r \in Requests |-> "idle"]
  /\ req = [r \in Requests |-> None]
  /\ snap = [r \in Requests |-> NoParts]
  /\ work = [r \in Requests |-> {}]
  /\ doomed = [r \in Requests |-> {}]
  /\ res = [r \in Requests |-> "none"]
  /\ overlapped = {}
-----------------------------------------------------------------------------
Active(r) == pc[r] \notin {"idle"} \cup Final
UploadOf(r) == req[r].upload
Is(r, o) == req[r] # None /\ req[r].op = o

\* CountByChunk looks at object documents only.
InObject(c) == \E k \in Keys : files[k] # None /\ c \in files[k]
InRecord(c) == \E u \in Uploads : record[u] = "open" /\ c \in ChunksIn(parts[u])

Goto(r, step) == pc' = [pc EXCEPT ![r] = step]
Answer(r, result) == res' = [res EXCEPT ![r] = result]
Finish(r, result) == Goto(r, "done") /\ Answer(r, result)
Warn(r) == Answer(r, IF res[r] = "ok" THEN "warn" ELSE res[r])
-----------------------------------------------------------------------------
\* CreateMultipartUpload.
Create(u) ==
  /\ record[u] = "new"
  /\ record' = [record EXCEPT ![u] = "open"]
  /\ UNCHANGED <<target, parts, files, store, pc, req, localVars, res, overlapped>>

\* A completion names parts in ascending order whose ETags its client was
\* answered with or finds in the record, with ListParts.
Completable(q) ==
  /\ \A p \in q.list :
       /\ Is(p, "part") /\ UploadOf(p) = q.upload
       /\ res[p] \in Succeeded \/ p \in ChunksIn(parts[q.upload])
  /\ \A p1, p2 \in q.list : req[p1].part = req[p2].part => p1 = p2

Start(r) ==
  /\ pc[r] = "idle"
  /\ \E q \in PartRequest \cup CompleteRequest \cup AbortRequest :
       /\ record[q.upload] # "new"
       /\ q.op = "complete" => Completable(q)
       /\ req' = [req EXCEPT ![r] = q]
       /\ LET others == {p \in Requests : Active(p) /\ UploadOf(p) = q.upload}
          IN  overlapped' = IF others = {} THEN overlapped
                            ELSE overlapped \cup others \cup {r}
  /\ Goto(r, "lookup")
  /\ UNCHANGED <<uploadVars, files, store, localVars, res>>

\* GetByUploadID, and the checks of CompleteMultipartUpload against that copy.
Lookup(r) ==
  /\ pc[r] = "lookup"
  /\ LET u == UploadOf(r)
         here == parts[u]
     IN  IF record[u] # "open"
         THEN Finish(r, "absent") /\ UNCHANGED <<snap, doomed>>
         ELSE /\ snap' = [snap EXCEPT ![r] = here]
              /\ \/ Is(r, "part") /\ Goto(r, "upload") /\ UNCHANGED <<doomed, res>>
                 \/ /\ Is(r, "abort")
                    /\ doomed' = [doomed EXCEPT ![r] = ChunksIn(here)]
                    /\ Goto(r, "discard")
                    /\ UNCHANGED res
                 \/ /\ Is(r, "complete")
                    /\ IF req[r].list \subseteq ChunksIn(here)
                       THEN Goto(r, "commit") /\ UNCHANGED res
                       ELSE Finish(r, "err")
                    /\ UNCHANGED doomed
  /\ UNCHANGED <<uploadVars, files, store, req, work>>

LookupFails(r) ==
  /\ pc[r] = "lookup"
  /\ "meta" \in Faults
  /\ Finish(r, "err")
  /\ UNCHANGED <<uploadVars, files, store, req, localVars>>

(***************************************************************************)
(* UploadMultipartPartRecord: store the chunk, put the part into the       *)
(* record in one update, delete the chunk of the part it replaced.         *)
(***************************************************************************)

\* What the attempts that timed out before the last one may have stored.
Left == IF "source" \in Faults THEN {{}, {Stray}} ELSE {{}}

UploadChunk(r) ==
  /\ pc[r] = "upload"
  /\ \E left \in Left :
       \/ /\ store' = store \cup {r} \cup left
          /\ Goto(r, "setpart") /\ UNCHANGED res
       \/ /\ "source" \in Faults
          /\ store' = store \cup left
          /\ Finish(r, "err")
  /\ UNCHANGED <<uploadVars, files, req, localVars>>

\* The chunk is deleted again, whether or not that works.
Withdraw(r, result) ==
  /\ Answer(r, result)
  /\ doomed' = [doomed EXCEPT ![r] = {r}]
  /\ Goto(r, "purge")

\* Mutant: the parts read earlier are written back with the new one.
SetPartFromCopy(r) ==
  /\ pc[r] = "setpart"
  /\ record[UploadOf(r)] = "open"
  /\ parts' = [parts EXCEPT ![UploadOf(r)] = [snap[r] EXCEPT ![req[r].part] = r]]
  /\ Finish(r, "ok")
  /\ UNCHANGED <<record, target, files, store, req, snap, work, doomed>>

\* Mutant: the chunk just uploaded is deleted in place of the previous one.
SetPartDropsNew(r) ==
  /\ pc[r] = "setpart"
  /\ record[UploadOf(r)] = "open"
  /\ parts' = [parts EXCEPT ![UploadOf(r)][req[r].part] = r]
  /\ Answer(r, "ok")
  /\ doomed' = [doomed EXCEPT ![r] = {r}]
  /\ Goto(r, "purge")
  /\ UNCHANGED <<record, target, files, store, req, snap, work>>

SetPart(r) ==
  /\ pc[r] = "setpart"
  /\ LET u == UploadOf(r)
         n == req[r].part
         previous == parts[u][n]
     IN  IF record[u] # "open"
         THEN Withdraw(r, "absent") /\ UNCHANGED parts
         ELSE /\ parts' = [parts EXCEPT ![u][n] = r]
              /\ IF previous = None
                 THEN Finish(r, "ok") /\ UNCHANGED doomed
                 ELSE /\ Answer(r, "ok")
                      /\ doomed' = [doomed EXCEPT ![r] = {previous}]
                      /\ Goto(r, "purge")
  /\ UNCHANGED <<record, target, files, store, req, snap, work>>

SetPartFails(r) ==
  /\ pc[r] = "setpart"
  /\ "meta" \in Faults
  /\ Withdraw(r, "err")
  /\ UNCHANGED <<uploadVars, files, store, req, snap, work>>

\* The part is in the record, and its chunk is deleted again.
SetPartReplyLost(r) ==
  /\ pc[r] = "setpart"
  /\ "reply" \in Faults
  /\ record[UploadOf(r)] = "open"
  /\ parts' = [parts EXCEPT ![UploadOf(r)][req[r].part] = r]
  /\ Withdraw(r, "err")
  /\ UNCHANGED <<record, target, files, store, req, snap, work>>

\* deleteChunks of one chunk. Drive and Telegram report an error for a chunk
\* that is gone, S3 does not.
Purge(r) ==
  /\ pc[r] = "purge"
  /\ Goto(r, "done")
  /\ \/ store' = store \ doomed[r] /\ UNCHANGED res
     \/ /\ "source" \in Faults \/ ~(doomed[r] \subseteq store)
        /\ Warn(r)
        /\ UNCHANGED store
  /\ UNCHANGED <<uploadVars, files, req, localVars>>

(***************************************************************************)
(* CompleteMultipartUploadRecord: the document is written from the copy of *)
(* the record; then the replaced object is cleaned up by reference count,  *)
(* the parts not named are deleted, and the record is deleted.             *)
(***************************************************************************)

\* Mutant: the object that was replaced is forgotten.
CommitForgetsReplaced(r) ==
  /\ pc[r] = "commit"
  /\ files' = [files EXCEPT ![target[UploadOf(r)]] = req[r].list]
  /\ Answer(r, "ok")
  /\ Goto(r, "count")
  /\ UNCHANGED <<uploadVars, store, req, snap, work, doomed>>

Commit(r) ==
  /\ pc[r] = "commit"
  /\ LET k == target[UploadOf(r)]
     IN  /\ work' = [work EXCEPT ![r] = IF files[k] = None THEN {} ELSE files[k]]
         /\ files' = [files EXCEPT ![k] = req[r].list]
  /\ Answer(r, "ok")
  /\ Goto(r, "count")
  /\ UNCHANGED <<uploadVars, store, req, snap, doomed>>

CommitFails(r) ==
  /\ pc[r] = "commit"
  /\ "meta" \in Faults
  /\ Finish(r, "err")
  /\ UNCHANGED <<uploadVars, files, store, req, localVars>>

\* The object is complete, and nothing is cleaned up.
CommitReplyLost(r) ==
  /\ pc[r] = "commit"
  /\ "reply" \in Faults
  /\ files' = [files EXCEPT ![target[UploadOf(r)]] = req[r].list]
  /\ Finish(r, "err")
  /\ UNCHANGED <<uploadVars, store, req, localVars>>

\* Mutant: the named parts are deleted as well.
DiscardEveryPart(r) ==
  /\ Goto(r, "discard")
  /\ doomed' = [doomed EXCEPT ![r] = ChunksIn(snap[r])]

\* On to the parts of the record that the client did not name.
DiscardUnnamed(r) ==
  /\ Goto(r, "discard")
  /\ doomed' = [doomed EXCEPT ![r] = ChunksIn(snap[r]) \ req[r].list]

CountReferences(r) ==
  /\ pc[r] = "count"
  /\ IF work[r] = {}
     THEN DiscardUnnamed(r) /\ UNCHANGED work
     ELSE \E c \in work[r] :
            /\ work' = [work EXCEPT ![r] = @ \ {c}]
            /\ IF InObject(c)
               THEN UNCHANGED <<pc, doomed>>
               ELSE Goto(r, "drop") /\ doomed' = [doomed EXCEPT ![r] = {c}]
  /\ UNCHANGED <<uploadVars, files, store, req, snap, res>>

CountFails(r) ==
  /\ pc[r] = "count"
  /\ "meta" \in Faults
  /\ Warn(r)
  /\ DiscardUnnamed(r)
  /\ UNCHANGED <<uploadVars, files, store, req, snap, work>>

\* The checked cleanup stops at the first chunk it cannot delete.
Drop(r) ==
  /\ pc[r] = "drop"
  /\ \/ /\ store' = store \ doomed[r]
        /\ Goto(r, "count")
        /\ UNCHANGED <<doomed, res>>
     \/ /\ "source" \in Faults \/ ~(doomed[r] \subseteq store)
        /\ Warn(r)
        /\ DiscardUnnamed(r)
        /\ UNCHANGED store
  /\ UNCHANGED <<uploadVars, files, req, snap, work>>

(***************************************************************************)
(* The parts of a record, one by one and without a reference check: those  *)
(* a completion does not name, and all of them in an abort. Both go on     *)
(* past a part that cannot be deleted; an abort then keeps the record.     *)
(***************************************************************************)

Discard(r) ==
  /\ pc[r] = "discard"
  /\ IF doomed[r] = {}
     THEN /\ Goto(r, IF res[r] = "err" THEN "done" ELSE "close")
          /\ UNCHANGED <<store, doomed, res>>
     ELSE \E c \in doomed[r] :
            /\ doomed' = [doomed EXCEPT ![r] = @ \ {c}]
            /\ \/ store' = store \ {c} /\ UNCHANGED res
               \/ /\ "source" \in Faults \/ c \notin store
                  /\ IF Is(r, "abort") THEN Answer(r, "err") ELSE Warn(r)
                  /\ UNCHANGED store
            /\ UNCHANGED pc
  /\ UNCHANGED <<uploadVars, files, req, snap, work>>

\* multipart.Delete: an error, a missing record included, is only logged by a
\* completion and is the answer of an abort.
Close(r) ==
  /\ pc[r] = "close"
  /\ LET u == UploadOf(r)
     IN  IF record[u] = "open"
         THEN /\ record' = [record EXCEPT ![u] = "gone"]
              /\ parts' = [parts EXCEPT ![u] = NoParts]
              /\ Finish(r, IF Is(r, "abort") THEN "ok" ELSE res[r])
         ELSE /\ Goto(r, "done")
              /\ IF Is(r, "abort") THEN Answer(r, "absent") ELSE Warn(r)
              /\ UNCHANGED <<record, parts>>
  /\ UNCHANGED <<target, files, store, req, localVars>>

CloseFails(r) ==
  /\ pc[r] = "close"
  /\ "meta" \in Faults
  /\ IF Is(r, "abort")
     THEN Finish(r, "err")
     ELSE Goto(r, "leftopen") /\ Warn(r)
  /\ UNCHANGED <<uploadVars, files, store, req, localVars>>

CloseReplyLost(r) ==
  /\ pc[r] = "close"
  /\ "reply" \in Faults
  /\ record[UploadOf(r)] = "open"
  /\ record' = [record EXCEPT ![UploadOf(r)] = "gone"]
  /\ parts' = [parts EXCEPT ![UploadOf(r)] = NoParts]
  /\ Goto(r, "done")
  /\ IF Is(r, "abort") THEN Answer(r, "err") ELSE Warn(r)
  /\ UNCHANGED <<target, files, store, req, localVars>>

\* The process dies, and with it what the request had read.
Crash(r) ==
  /\ Active(r)
  /\ "crash" \in Faults
  /\ Goto(r, "crashed")
  /\ snap' = [snap EXCEPT ![r] = NoParts]
  /\ work' = [work EXCEPT ![r] = {}]
  /\ doomed' = [doomed EXCEPT ![r] = {}]
  /\ UNCHANGED <<uploadVars, files, store, req, res>>
-----------------------------------------------------------------------------
Step(r) ==
  \/ Lookup(r) \/ LookupFails(r)
  \/ UploadChunk(r) \/ SetPart(r) \/ SetPartFails(r) \/ SetPartReplyLost(r)
  \/ Purge(r) \/ Commit(r) \/ CommitFails(r) \/ CommitReplyLost(r)
  \/ CountReferences(r) \/ CountFails(r) \/ Drop(r) \/ Discard(r)
  \/ Close(r) \/ CloseFails(r) \/ CloseReplyLost(r) \/ Crash(r)

Quiescent == \A r \in Requests : pc[r] \in Final

AllServed == Quiescent /\ UNCHANGED vars

Next ==
  \/ \E u \in Uploads : Create(u)
  \/ \E r \in Requests : Start(r)
  \/ \E r \in Requests : Step(r) /\ UNCHANGED overlapped
  \/ AllServed

Spec == Init /\ [][Next]_vars
-----------------------------------------------------------------------------
\* Upload u did not go through its life undisturbed: a completion or an abort
\* of it ran beside another of its requests, was cut off, or left the record.
Disturbed(u) ==
  \E r \in Requests :
    /\ Is(r, "complete") \/ Is(r, "abort")
    /\ UploadOf(r) = u
    /\ r \in overlapped \/ pc[r] \in {"leftopen", "crashed"} \/ res[r] = "err"

\* The part of c was recorded and the reply was lost: the upload answered with
\* an error and deleted its chunk, which the record goes on to list.
ReplyLost(c) == "reply" \in Faults /\ Is(c, "part") /\ res[c] = "err"

\* Parts are deleted without a reference check, by whoever read the record. A
\* completed object keeps all its parts as long as no completion or abort of
\* the upload overlapped another request, failed half-way or left its record;
\* but for a part whose reply was lost, which a client may find with ListParts
\* and name in its completion.
CompletedObjectsReadable ==
  \A c \in Chunk :
    InObject(c) /\ c \notin store =>
      c \in Requests /\ (Disturbed(UploadOf(c)) \/ ReplyLost(c))

\* A part a client was told is stored is in the record until another upload of
\* the same part took its place, and that one succeeded or its reply was lost:
\* concurrent UploadParts lose no part.
NoPartLost ==
  \A r \in Requests :
    (Is(r, "part") /\ res[r] \in Succeeded /\ record[UploadOf(r)] = "open") =>
      LET recorded == parts[UploadOf(r)][req[r].part]
      IN  /\ recorded # None
          /\ recorded # r =>
               /\ Is(recorded, "part")
               /\ res[recorded] \in Succeeded \/ ReplyLost(recorded)

\* A recorded part is at its source, until an abort or a completion of its
\* upload has begun to delete parts; but for one whose reply was lost.
RecordedPartsKept ==
  \A c \in Requests : InRecord(c) /\ c \notin store =>
    \/ ReplyLost(c)
    \/ \E r \in Requests : /\ Is(r, "complete") \/ Is(r, "abort")
                           /\ UploadOf(r) = UploadOf(c)
                           /\ snap[r] # NoParts \/ pc[r] = "crashed"

\* A chunk that neither an object nor a record lists stays only if some
\* request died, failed or logged a cleanup error, or ran beside another one
\* of its upload. In one way only space is lost with no sign at all: the copy
\* of a timed-out attempt at an upload that went on to succeed.
NoSilentLeak ==
  Quiescent =>
    \A c \in store :
      \/ InObject(c) \/ InRecord(c)
      \/ \E r \in Requests : pc[r] = "crashed" \/ res[r] \in {"err", "warn"}
      \/ c \in overlapped
      \/ c = Stray

\* docs/s3-compatibility.md on CompleteMultipartUpload: "Validates part
\* existence, ETags, ascending part order". The parts of a completed object
\* that is still under its key exist.
CompletedPartsExist ==
  \A r \in Requests :
    (Is(r, "complete") /\ res[r] \in Succeeded
     /\ files[target[UploadOf(r)]] = req[r].list)
      => req[r].list \subseteq store
=============================================================================
