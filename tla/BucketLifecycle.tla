-------------------------- MODULE BucketLifecycle --------------------------
(***************************************************************************)
(* Buckets and everything that hangs on them: the sources a bucket stores  *)
(* its chunks on, the object documents, multipart records, share links and *)
(* grants in it. Every operation of the REST handlers that creates, uses   *)
(* or removes one of them is a request of this module, and each call it    *)
(* makes to MongoDB or to a source is one step. None of the collections    *)
(* knows of the others: what keeps them consistent is the order in which   *)
(* each handler looks and writes, and that is what is modelled here.       *)
(*                                                                         *)
(* Abstractions. One account, Owner, owns every source and bucket (a       *)
(* foreign source, bucket or copy is refused like an absent one); Guest    *)
(* has at most a grant. An object has one chunk and keeps its document     *)
(* until it is deleted: bodies of several chunks and overwritten keys are  *)
(* the subject of ObjectStore. An S3 request holds the secret of a bucket, *)
(* which the creation gave to Owner, and is one of Owner.                  *)
(***************************************************************************)
EXTENDS Naturals, FiniteSets

CONSTANTS
  Requests,  \* HTTP requests; each is served at most once
  Owner,     \* the account that owns the sources and the buckets
  Guest,     \* an account that owns nothing
  Sources,   \* the sources Owner registered
  Buckets,   \* buckets that exist or may be created
  Home,      \* the bucket that exists and has contents at the start
  Ops,       \* the operations clients send, a subset of AllOps
  Faults,    \* what may go wrong, a subset of AllFaults
  Stray,     \* the copies that timed-out attempts to upload a chunk left
  None       \* no document, no request

AllOps == {"createBucket", "deleteBucket", "deleteSource",
           "put", "copy", "deleteObject",
           "download", "deleteFiles",
           "share", "unshare", "read",
           "grant", "setRole", "revoke"}

\* "meta": a call to MongoDB fails and has no effect. "reply": a write to
\* MongoDB takes effect and is reported failed, its reply being lost or its
\* context cancelled. "source": a call to a source fails.
AllFaults == {"meta", "reply", "source"}

ASSUME ConstantsAssumption ==
  /\ Owner # Guest
  /\ Home \in Buckets
  /\ Sources # {}
  /\ Ops \subseteq AllOps
  /\ Faults \subseteq AllFaults

\* Documents are named by the request that wrote them; the others were there
\* before: an object of Home with a multipart record, a share link and a
\* grant, and an object of another bucket that is a copy of Home's.
Old == {"file", "copy", "part", "link", "grant"}
Ids == Requests \cup Old

\* A chunk is named by the upload that stored it and lies at one source.
Chunk == Ids \X Sources
At(c) == c[2]

Roles == {"viewer", "editor", "owner"}
Rank == [role \in Roles |->
           CASE role = "viewer" -> 1 [] role = "editor" -> 2 [] OTHER -> 3]

File == [id : Ids, bucket : Buckets, chunk : Chunk]
\* expiry: an expiring link is one whose expires_at lies ahead.
Link == [id : Ids, file : Ids, bucket : Buckets, user : {Owner, Guest},
         expiry : {"never", "ahead", "past"}]
\* The index on (bucket_id, user_id) is unique and grants to the owner are
\* refused, so a grant is always Guest's.
Grant == [id : Ids, bucket : Buckets, role : Roles]
Bucket == [state : {"unborn", "live", "gone"}, sources : SUBSET Sources,
           by : Ids \cup {None}]

\* What is asked: the account, the bucket in the route, the bucket copied
\* from, the documents and sources named, the role given.
Request == [op : AllOps, user : {Owner, Guest}, bucket : Buckets,
            from : Buckets, ids : SUBSET Ids, sources : SUBSET Sources,
            role : Roles]

\* A request names no document that was there before, and None is no value
\* of the model.
ASSUME NamesAssumption ==
  /\ Requests \cap Old = {}
  /\ None \notin Ids
  /\ None \notin File
  /\ None \notin Request

\* All those copies are one mark: no document will ever name any of them.
ASSUME StrayAssumption == Stray \notin Chunk

VARIABLES
  sources,  \* the source documents
  buckets,  \* [Buckets -> Bucket]
  files,    \* the object documents
  uploads,  \* the multipart records, one part each: [id, bucket, chunk]
  links,    \* the share links
  grants,   \* the bucket grants
  store,    \* the chunks, and Stray, that exist at the sources
  pc,       \* control point of each request
  req,      \* what it was asked, None before it starts
  doc,      \* the object document it read; the chunk a deletion is at
  work,     \* chunks it still has to look at
  todo,     \* what it has to look up next
  res,      \* its answer; the worst so far while a batch goes on
  met,      \* history: the requests that were served beside it
  may,      \* history: it was entitled to its effect at some time
  torn      \* history: chunks a copy listed that ran beside a deletion

catalog == <<sources, buckets, files, uploads, links, grants>>
locals == <<doc, work, todo>>
vars == <<catalog, store, pc, req, locals, res, met, may,
          torn>>

Steps == {"idle", "load", "probe", "insertBucket", "references", "dropSource",
          "bucket", "grant", "links", "listFiles", "listUploads", "dropFiles",
          "dropUploads", "countFiles", "countParts", "reclaim", "dropGrants",
          "dropBucket", "resolve", "upload", "insert", "undo", "origin",
          "find", "file", "insertLink", "unlink", "link", "linkedFile",
          "stream", "fileLinks", "again", "dropFile", "count", "insertGrant",
          "updateGrant", "dropGrant", "done"}

\* "refused": a 4xx other than 404; "warn": done, cleanup left something.
Results == {"none", "ok", "warn", "absent", "refused", "err"}

TypeOK ==
  /\ sources \subseteq Sources
  /\ buckets \in [Buckets -> Bucket]
  /\ files \subseteq File
  /\ uploads \subseteq File
  /\ links \subseteq Link
  /\ grants \subseteq Grant
  /\ store \subseteq Chunk \cup {Stray}
  /\ pc \in [Requests -> Steps]
  /\ \A r \in Requests : IF pc[r] = "idle" THEN req[r] = None
                                           ELSE req[r] \in Request
  /\ DOMAIN req = Requests
  /\ doc \in [Requests -> File \cup {None}]
  /\ work \in [Requests -> SUBSET Chunk]
  /\ todo \in [Requests -> SUBSET (Ids \cup Sources)]
  /\ res \in [Requests -> Results]
  /\ met \in [Requests -> SUBSET Requests]
  /\ may \in [Requests -> BOOLEAN]
  /\ torn \subseteq Chunk

(***************************************************************************)
(* Home is live on some of the sources, with an object, its link and a     *)
(* multipart record. Another bucket is unborn, or live with a copy of      *)
(* Home's object; Guest has a grant on Home.                               *)
(***************************************************************************)
Contents(home, copied, role) ==
  LET body == <<"file", home>>
      other == IF copied = Home THEN {} ELSE {copied}
  IN /\ sources = Sources
     /\ buckets = [b \in Buckets |->
          [state |-> IF b = Home \/ b \in other THEN "live" ELSE "unborn",
           sources |-> IF b = Home THEN {home}
                       ELSE IF b \in other THEN Sources \ {home} ELSE {},
           by |-> None]]
     /\ files = {[id |-> "file", bucket |-> Home, chunk |-> body]} \cup
                {[id |-> "copy", bucket |-> b, chunk |-> body] : b \in other}
     /\ uploads = {[id |-> "part", bucket |-> Home,
                    chunk |-> <<"part", home>>]}
     /\ links = {[id |-> "link", file |-> "file", bucket |-> Home,
                  user |-> Owner, expiry |-> "ahead"]}
     /\ grants = {[id |-> "grant", bucket |-> Home, role |-> role]}
     /\ store = {body, <<"part", home>>}

Init ==
  /\ \E home \in Sources, copied \in {Home} \cup Buckets, role \in Roles :
       Contents(home, copied, role)
  /\ pc = [r \in Requests |-> "idle"]
  /\ req = [r \in Requests |-> None]
  /\ doc = [r \in Requests |-> None]
  /\ work = [r \in Requests |-> {}]
  /\ todo = [r \in Requests |-> {}]
  /\ res = [r \in Requests |-> "none"]
  /\ met = [r \in Requests |-> {}]
  /\ may = [r \in Requests |-> FALSE]
  /\ torn = {}
-----------------------------------------------------------------------------
\* Helpers.

Active(r) == pc[r] \notin {"idle", "done"}
Live(b) == buckets[b].state = "live"

\* The rank of an account on a bucket: its own, or by a grant.
RankOf(user, b) ==
  IF ~Live(b) THEN 0
  ELSE IF user = Owner THEN 3
  ELSE IF \E g \in grants : g.bucket = b
       THEN Rank[(CHOOSE g \in grants : g.bucket = b).role] ELSE 0

\* The role a route asks for; an S3 request holds the bucket's secret.
Needed(op) ==
  CASE op = "download" -> 1
    [] op \in {"put", "share", "deleteFiles"} -> 2
    [] OTHER -> 3

\* The first call of an operation once access to the bucket is granted.
First(op) ==
  CASE op = "deleteBucket" -> "links"
    [] op = "put" -> "resolve"
    [] op = "copy" -> "origin"
    [] op = "deleteObject" -> "find"
    [] op \in {"download", "share", "deleteFiles"} -> "file"
    [] op = "grant" -> "insertGrant"
    [] op = "setRole" -> "updateGrant"
    [] op = "revoke" -> "dropGrant"

\* The first call of a request.
Entry(op) ==
  CASE op = "createBucket" -> "load"
    [] op = "deleteSource" -> "references"
    [] op = "unshare" -> "unlink"
    [] op = "read" -> "link"
    [] OTHER -> "bucket"

Goto(r, step) == pc' = [pc EXCEPT ![r] = step]

\* The answer of r; what it holds is forgotten with it.
Finish(r, result) ==
  /\ Goto(r, "done")
  /\ res' = [res EXCEPT ![r] = result]
  /\ doc' = [doc EXCEPT ![r] = None]
  /\ work' = [work EXCEPT ![r] = {}]
  /\ todo' = [todo EXCEPT ![r] = {}]

Worse(a, b) ==
  LET severity == [none |-> 0, ok |-> 1, absent |-> 2, refused |-> 3,
                   warn |-> 4, err |-> 5]
  IN  IF severity[a] >= severity[b] THEN a ELSE b

\* handleBatchDeleteFiles goes on with the next id, whatever became of the
\* last one; handleDeleteFile is a batch of one.
NextFile(r, result) ==
  IF todo[r] = {}
  THEN Finish(r, Worse(res[r], result))
  ELSE /\ Goto(r, "file")
       /\ res' = [res EXCEPT ![r] = Worse(@, result)]
       /\ doc' = [doc EXCEPT ![r] = None]
       /\ UNCHANGED <<work, todo>>

\* The one chunk or document r goes on with.
Keep(r, f) == doc' = [doc EXCEPT ![r] = f]
Chunks(S) == {f.chunk : f \in S}
In(S, b) == {x \in S : x.bucket = b}
Named(S, ids) == {x \in S : x.id \in ids}
-----------------------------------------------------------------------------
(***************************************************************************)
(* What clients ask. Document ids are random, so a client names ids that   *)
(* existed when it asked, of any bucket. A bucket may be gone by the time  *)
(* it is looked up; one that was gone before is only a 404.                *)
(***************************************************************************)

Ask(op, user, b) ==
  [op |-> op, user |-> user, bucket |-> b, from |-> b, ids |-> {},
   sources |-> {}, role |-> "viewer"]

AskFor(op, user, b, ids) == [Ask(op, user, b) EXCEPT !.ids = ids]
AskCopy(b, f) == [AskFor("copy", Owner, b, {f.id}) EXCEPT !.from = f.bucket]

Known == {b \in Buckets : Live(b)}
IdsOf(S) == {{x.id} : x \in S}
Users == {Owner, Guest}

Asked ==
  {[Ask("createBucket", Owner, b) EXCEPT !.sources = S] :
      b \in {c \in Buckets : buckets[c].state = "unborn"},
      S \in (SUBSET Sources) \ {{}}} \cup
  {[Ask("deleteSource", Owner, Home) EXCEPT !.sources = {s}] : s \in sources}
  \cup {Ask(op, u, b) :
          op \in {"deleteBucket", "put"}, u \in Users, b \in Known}
  \cup {AskCopy(b, f) : b \in Known, f \in files}
  \cup {AskFor("deleteObject", Owner, f.bucket, {f.id}) :
          f \in files}
  \cup {AskFor(op, u, b, i) : op \in {"download", "share"},
          u \in Users, b \in Known, i \in IdsOf(files)}
  \cup {AskFor("deleteFiles", u, b, {f.id, g.id}) :
          u \in Users, b \in Known, f \in files, g \in files}
  \cup {AskFor(op, u, Home, i) : op \in {"unshare", "read"},
          u \in Users, i \in IdsOf(links)}
  \cup {[Ask("grant", u, b) EXCEPT !.role = role] :
          u \in Users, b \in Known, role \in Roles}
  \cup {[AskFor("setRole", u, b, i) EXCEPT !.role = role] :
          u \in Users, b \in Known, i \in IdsOf(grants), role \in Roles}
  \cup {AskFor("revoke", u, b, i) :
          u \in Users, b \in Known, i \in IdsOf(grants)}

Start(r) ==
  /\ pc[r] = "idle"
  /\ \E q \in Asked :
       /\ q.op \in Ops
       /\ req' = [req EXCEPT ![r] = q]
       /\ Goto(r, Entry(q.op))
       /\ todo' = [todo EXCEPT ![r] =
                     IF q.op = "createBucket" THEN q.sources ELSE q.ids]
  /\ LET others == {q \in Requests : Active(q)}
     IN  met' = [q \in Requests |->
                   IF q = r THEN others
                   ELSE IF q \in others THEN met[q] \cup {r} ELSE met[q]]
  /\ UNCHANGED <<catalog, store, doc, work, res>>

(***************************************************************************)
(* The writes to MongoDB, each at its step. The index on bucket keys       *)
(* refuses a second bucket of that name, the one on grants a second grant. *)
(* ReplaceByName does not look at the bucket's document; a copy gives the  *)
(* chunk it found a second document. DeleteShareLink asks for no role: the *)
(* link must be the account's own. UpdateGrant and DeleteGrant go by id    *)
(* and bucket. The object of a link may have been deleted meanwhile.       *)
(***************************************************************************)

FileWritten(r) ==
  /\ pc[r] = "insert"
  /\ LET chunk == IF req[r].op = "copy" THEN doc[r].chunk
                  ELSE CHOOSE c \in work[r] : TRUE
     IN  files' = files \cup
           {[id |-> r, bucket |-> req[r].bucket, chunk |-> chunk]}
  /\ UNCHANGED <<sources, buckets, uploads, links, grants>>

LinkWritten(r) ==
  /\ pc[r] = "insertLink"
  /\ \E expiry \in {"never", "ahead"} :
       links' = links \cup
         {[id |-> r, file |-> doc[r].id, bucket |-> req[r].bucket,
           user |-> req[r].user, expiry |-> expiry]}
  /\ UNCHANGED <<sources, buckets, files, uploads, grants>>

BucketWritten(r) ==
  /\ pc[r] = "insertBucket"
  /\ buckets[req[r].bucket].state = "unborn"
  /\ buckets' = [buckets EXCEPT ![req[r].bucket] =
                   [state |-> "live", sources |-> req[r].sources, by |-> r]]
  /\ UNCHANGED <<sources, files, uploads, links, grants>>

GrantWritten(r) ==
  /\ pc[r] = "insertGrant"
  /\ In(grants, req[r].bucket) = {}
  /\ grants' = grants \cup
                 {[id |-> r, bucket |-> req[r].bucket, role |-> req[r].role]}
  /\ UNCHANGED <<sources, buckets, files, uploads, links>>

FoundGrants(r) == In(Named(grants, req[r].ids), req[r].bucket)
OwnLinks(r) == {l \in Named(links, req[r].ids) : l.user = req[r].user}

GrantsRewritten(r) ==
  /\ \/ /\ pc[r] = "updateGrant"
        /\ grants' = (grants \ FoundGrants(r)) \cup
                       {[g EXCEPT !.role = req[r].role] : g \in FoundGrants(r)}
     \/ pc[r] = "dropGrant" /\ grants' = grants \ FoundGrants(r)
     \/ pc[r] = "dropGrants" /\ grants' = grants \ In(grants, req[r].bucket)
  /\ UNCHANGED <<sources, buckets, files, uploads, links>>

FilesDropped(r) ==
  /\ \/ pc[r] = "dropFile" /\ files' = files \ {doc[r]}
     \/ pc[r] = "dropFiles" /\ files' = files \ In(files, req[r].bucket)
  /\ UNCHANGED <<sources, buckets, uploads, links, grants>>

UploadsDropped(r) ==
  /\ pc[r] = "dropUploads"
  /\ uploads' = uploads \ In(uploads, req[r].bucket)
  /\ UNCHANGED <<sources, buckets, files, links, grants>>

LinksDropped(r) ==
  /\ \/ pc[r] = "unlink" /\ links' = links \ OwnLinks(r)
     \/ pc[r] = "fileLinks" /\ links' = {l \in links : l.file # doc[r].id}
     \/ pc[r] = "links" /\ links' = links \ In(links, req[r].bucket)
  /\ UNCHANGED <<sources, buckets, files, uploads, grants>>

BucketDropped(r) ==
  /\ pc[r] = "dropBucket"
  /\ buckets' = [buckets EXCEPT ![req[r].bucket].state = "gone"]
  /\ UNCHANGED <<sources, files, uploads, links, grants>>

SourceDropped(r) ==
  /\ pc[r] = "dropSource"
  /\ sources' = sources \ req[r].sources
  /\ UNCHANGED <<buckets, files, uploads, links, grants>>

Write(r) ==
  \/ FileWritten(r) \/ LinkWritten(r) \/ BucketWritten(r) \/ GrantWritten(r)
  \/ GrantsRewritten(r) \/ FilesDropped(r) \/ UploadsDropped(r)
  \/ LinksDropped(r) \/ BucketDropped(r) \/ SourceDropped(r)

\* What r does when a call to MongoDB is reported failed. A batch goes on
\* with its next id; a deletion whose document is gone answers with a
\* warning; a put takes its chunk back.
CallFailed(r) ==
  /\ Active(r)
  /\ pc[r] \notin {"probe", "upload", "undo", "reclaim", "stream"}
  /\ CASE pc[r] = "count" ->
            IF req[r].op = "deleteFiles" THEN NextFile(r, "warn")
                                         ELSE Finish(r, "warn")
       [] pc[r] # "count" /\ req[r].op = "deleteFiles"
          /\ pc[r] \notin {"bucket", "grant"} -> NextFile(r, "err")
       [] pc[r] = "insert" /\ req[r].op = "put" ->
            Goto(r, "undo") /\ UNCHANGED <<res, locals>>
       [] OTHER -> Finish(r, "err")

MetaFails(r) ==
  /\ "meta" \in Faults
  /\ CallFailed(r)
  /\ UNCHANGED <<catalog, store, req>>

ReplyLost(r) ==
  /\ "reply" \in Faults
  /\ Write(r)
  /\ CallFailed(r)
  /\ UNCHANGED <<store, req>>

(***************************************************************************)
(* requireBucketAccess: the bucket by its id, and for an account that is   *)
(* not its owner the grant. An S3 request reads the bucket by its key.     *)
(***************************************************************************)

\* RoleAtLeast of the grant, if there is one.
GrantSuffices(r) ==
  \E g \in grants : /\ g.bucket = req[r].bucket
                    /\ Rank[g.role] >= Needed(req[r].op)

ReadBucket(r) ==
  /\ pc[r] = "bucket"
  /\ IF ~Live(req[r].bucket)
     THEN Finish(r, "absent")
     ELSE /\ Goto(r, IF req[r].user = Owner THEN First(req[r].op)
                                            ELSE "grant")
          /\ UNCHANGED <<res, locals>>
  /\ UNCHANGED <<catalog, store, req>>

ReadGrant(r) ==
  /\ pc[r] = "grant"
  /\ IF GrantSuffices(r)
     THEN Goto(r, First(req[r].op)) /\ UNCHANGED <<res, locals>>
     ELSE Finish(r, "absent")
  /\ UNCHANGED <<catalog, store, req>>

(***************************************************************************)
(* CreateBucket: every source is read, then probed, and the bucket that    *)
(* lists them is inserted. The probes decide whether it may be: a source   *)
(* that is unhealthy blocks it, one that is degraded, cannot be probed or  *)
(* has less than 5% of its quota left needs the client's acknowledgement.  *)
(***************************************************************************)

LoadSource(r) ==
  /\ pc[r] = "load"
  /\ IF todo[r] = {}
     THEN Goto(r, "probe") /\ UNCHANGED <<res, locals>>
     ELSE \E s \in todo[r] :
            IF s \in sources
            THEN /\ todo' = [todo EXCEPT ![r] = @ \ {s}]
                 /\ UNCHANGED <<pc, res, doc, work>>
            ELSE Finish(r, "refused")
  /\ UNCHANGED <<catalog, store, req>>

Healths == {"healthy", "quotaLow", "degraded", "unsupported", "unhealthy"}

\* bucketPreflightDecision of the probed sources.
Admitted(verdicts, acknowledged) ==
  /\ "unhealthy" \notin verdicts
  /\ verdicts \subseteq {"healthy"} \/ acknowledged

Probe(r) ==
  /\ pc[r] = "probe"
  /\ \E health \in [req[r].sources -> Healths], acknowledged \in BOOLEAN :
       IF Admitted({health[s] : s \in req[r].sources}, acknowledged)
       THEN Goto(r, "insertBucket") /\ UNCHANGED <<res, locals>>
       ELSE Finish(r, "refused")
  /\ UNCHANGED <<catalog, store, req>>

InsertBucket(r) ==
  /\ pc[r] = "insertBucket"
  /\ IF buckets[req[r].bucket].state # "unborn"
     THEN Finish(r, "refused") /\ UNCHANGED catalog
     ELSE BucketWritten(r) /\ Finish(r, "ok")
  /\ UNCHANGED <<store, req>>

(***************************************************************************)
(* DeleteSource is refused while a bucket lists the source.                *)
(***************************************************************************)

\* Mutant: only buckets that hold an object are looked at.
ReferencedByContents(s) ==
  \E b \in Buckets : Live(b) /\ s \in buckets[b].sources /\ In(files, b) # {}

HasSourceReference(s) ==
  \E b \in Buckets : Live(b) /\ s \in buckets[b].sources

CheckReferences(r) ==
  /\ pc[r] = "references"
  /\ IF \E s \in req[r].sources : HasSourceReference(s)
     THEN Finish(r, "refused")
     ELSE Goto(r, "dropSource") /\ UNCHANGED <<res, locals>>
  /\ UNCHANGED <<catalog, store, req>>

DropSource(r) ==
  /\ SourceDropped(r)
  /\ IF req[r].sources \subseteq sources
     THEN Finish(r, "ok") ELSE Finish(r, "absent")
  /\ UNCHANGED <<store, req>>

(***************************************************************************)
(* PutObject: the bucket's sources must all be there; the chunk is stored  *)
(* on one of them, by a client made from the document just read, and the   *)
(* object document inserted. When that fails the chunk is deleted.         *)
(***************************************************************************)

Resolve(r) ==
  /\ pc[r] = "resolve"
  /\ IF buckets[req[r].bucket].sources \subseteq sources
     THEN Goto(r, "upload") /\ UNCHANGED <<res, locals>>
     ELSE Finish(r, "refused")
  /\ UNCHANGED <<catalog, store, req>>

\* An attempt that times out may have stored a copy before the retry, or the
\* failover to the next source, succeeds or fails too.
Left == IF "source" \in Faults THEN {{}, {Stray}} ELSE {{}}

Upload(r) ==
  /\ pc[r] = "upload"
  /\ \E left \in Left :
       \/ \E s \in buckets[req[r].bucket].sources :
            /\ store' = store \cup left \cup {<<r, s>>}
            /\ work' = [work EXCEPT ![r] = {<<r, s>>}]
            /\ Goto(r, "insert")
            /\ UNCHANGED <<res, doc, todo>>
       \/ /\ "source" \in Faults
          /\ store' = store \cup left
          /\ Finish(r, "err")
  /\ UNCHANGED <<catalog, req>>

InsertFile(r) ==
  /\ FileWritten(r)
  /\ Finish(r, "ok")
  /\ UNCHANGED <<store, req>>

(***************************************************************************)
(* deleteChunks makes its client from the source document, which must      *)
(* still be there. A chunk that is gone is an error of Drive and Telegram, *)
(* and none of S3.                                                         *)
(***************************************************************************)

ChunkDeleted(c) == At(c) \in sources /\ store' = store \ {c}
ChunkKept(c) ==
  /\ At(c) \notin sources \/ c \notin store \/ "source" \in Faults
  /\ UNCHANGED store

UndoUpload(r) ==
  /\ pc[r] = "undo"
  /\ \E c \in work[r] : ChunkDeleted(c) \/ ChunkKept(c)
  /\ Finish(r, "err")
  /\ UNCHANGED <<catalog, req>>

\* CopyObject: the bucket copied from, by its key, then the object in it.
ReadOrigin(r) ==
  /\ pc[r] = "origin"
  /\ IF Live(req[r].from)
     THEN Goto(r, "find") /\ UNCHANGED <<res, locals>>
     ELSE Finish(r, "absent")
  /\ UNCHANGED <<catalog, store, req>>

\* GetByName, of a copy or a DeleteObject. S3 deletes what is not there.
FindByName(r) ==
  /\ pc[r] = "find"
  /\ LET found == In(Named(files, req[r].ids), req[r].from)
     IN  IF found = {}
         THEN Finish(r, IF req[r].op = "copy" THEN "absent" ELSE "ok")
         ELSE /\ \E f \in found : Keep(r, f)
              /\ Goto(r, IF req[r].op = "copy" THEN "insert" ELSE "dropFile")
              /\ UNCHANGED <<res, work, todo>>
  /\ UNCHANGED <<catalog, store, req>>

(***************************************************************************)
(* The handlers that name an object by its id: a download, a share link    *)
(* for it, a deletion of one or several. Each checks that the object is of *)
(* the bucket it has access to.                                            *)
(***************************************************************************)

AfterFile(op) == CASE op = "download" -> "stream"
                   [] op = "share" -> "insertLink"
                   [] OTHER -> "fileLinks"

\* Mutant: the bucket of the object is not compared.
GetAnyFile(r) ==
  /\ pc[r] = "file"
  /\ \E id \in todo[r] :
       LET found == Named(files, {id})
       IN  IF found = {}
           THEN Finish(r, "absent")
           ELSE /\ \E f \in found : Keep(r, f)
                /\ todo' = [todo EXCEPT ![r] = @ \ {id}]
                /\ Goto(r, AfterFile(req[r].op))
                /\ UNCHANGED <<res, work>>
  /\ UNCHANGED <<catalog, store, req>>

GetFile(r) ==
  /\ pc[r] = "file"
  /\ \E id \in todo[r] :
       LET found == In(Named(files, {id}), req[r].bucket)
           rest == todo[r] \ {id}
       IN  IF found # {}
           THEN /\ \E f \in found : Keep(r, f)
                /\ todo' = [todo EXCEPT ![r] = rest]
                /\ Goto(r, AfterFile(req[r].op))
                /\ UNCHANGED <<res, work>>
           ELSE IF rest = {}
           THEN Finish(r, Worse(res[r], "absent"))
           ELSE /\ res' = [res EXCEPT ![r] = Worse(@, "absent")]
                /\ todo' = [todo EXCEPT ![r] = rest]
                /\ UNCHANGED <<pc, doc, work>>
  /\ UNCHANGED <<catalog, store, req>>

\* The file is read from its source, through a client made from the source
\* document.
Stream(r) ==
  /\ pc[r] = "stream"
  /\ \/ /\ doc[r].chunk \in store /\ At(doc[r].chunk) \in sources
        /\ Finish(r, "ok")
     \/ /\ \/ doc[r].chunk \notin store
           \/ At(doc[r].chunk) \notin sources
           \/ "source" \in Faults
        /\ Finish(r, "err")
  /\ UNCHANGED <<catalog, store, req>>

\* Mutant: the account that shares is not recorded.
InsertLinkOfNobody(r) ==
  /\ pc[r] = "insertLink"
  /\ links' = links \cup
       {[id |-> r, file |-> doc[r].id, bucket |-> req[r].bucket,
         user |-> None, expiry |-> "never"]}
  /\ Finish(r, "ok")
  /\ UNCHANGED <<sources, buckets, files, uploads, grants, store, req>>

InsertLink(r) ==
  /\ LinkWritten(r)
  /\ Finish(r, "ok")
  /\ UNCHANGED <<store, req>>

Unlink(r) ==
  /\ pc[r] = "unlink"
  /\ LinksDropped(r)
  /\ Finish(r, IF OwnLinks(r) = {} THEN "absent" ELSE "ok")
  /\ UNCHANGED <<store, req>>

\* The deadline of a link passes.
LinkExpires ==
  /\ \E l \in links :
       /\ l.expiry = "ahead"
       /\ links' = (links \ {l}) \cup {[l EXCEPT !.expiry = "past"]}
  /\ UNCHANGED <<sources, buckets, files, uploads, grants, store, pc, req,
                 locals, res, met>>

\* getSharedFile: anyone who knows the token reads the link, then the file.
ReadLink(r) ==
  /\ pc[r] = "link"
  /\ LET found == Named(links, req[r].ids)
     IN  IF found = {} THEN Finish(r, "absent")
         ELSE IF \E l \in found : l.expiry = "past" THEN Finish(r, "refused")
         ELSE /\ todo' = [todo EXCEPT ![r] = {l.file : l \in found}]
              /\ Goto(r, "linkedFile")
              /\ UNCHANGED <<res, doc, work>>
  /\ UNCHANGED <<catalog, store, req>>

ReadLinkedFile(r) ==
  /\ pc[r] = "linkedFile"
  /\ LET found == Named(files, todo[r])
     IN  IF found = {} THEN Finish(r, "absent")
         ELSE /\ \E f \in found : Keep(r, f)
              /\ Goto(r, "stream")
              /\ UNCHANGED <<res, work, todo>>
  /\ UNCHANGED <<catalog, store, req>>

(***************************************************************************)
(* deleteBucketFile: the links of the object, then the object, read once   *)
(* more, then its chunks if no document lists them. An S3 DeleteObject     *)
(* starts at dropFile and leaves the links.                                *)
(***************************************************************************)

\* Mutant: the share links are left behind.
KeepFileLinks(r) ==
  /\ pc[r] = "fileLinks"
  /\ Goto(r, "again")
  /\ UNCHANGED <<catalog, res, store, req, locals>>

DropFileLinks(r) ==
  /\ pc[r] = "fileLinks"
  /\ LinksDropped(r)
  /\ Goto(r, "again")
  /\ UNCHANGED <<res, store, req, locals>>

GetFileAgain(r) ==
  /\ pc[r] = "again"
  /\ IF doc[r] \in files
     THEN Goto(r, "dropFile") /\ UNCHANGED <<res, locals>>
     ELSE NextFile(r, "absent")
  /\ UNCHANGED <<catalog, store, req>>

DropFile(r) ==
  /\ pc[r] = "dropFile"
  /\ IF doc[r] \in files
     THEN Goto(r, "count") /\ UNCHANGED <<res, locals>>
     ELSE IF req[r].op = "deleteFiles" THEN NextFile(r, "absent")
                                       ELSE Finish(r, "ok")
  /\ FilesDropped(r)
  /\ UNCHANGED <<store, req>>

\* The end of one object of a deletion.
AfterFileDeleted(r, result) ==
  IF req[r].op = "deleteFiles" THEN NextFile(r, result) ELSE Finish(r, result)

\* CountByChunk over the documents of every bucket.
CountReferences(r) ==
  /\ pc[r] = "count"
  /\ IF doc[r].chunk \in Chunks(files)
     THEN AfterFileDeleted(r, "ok")
     ELSE Goto(r, "reclaim") /\ UNCHANGED <<res, locals>>
  /\ UNCHANGED <<catalog, store, req>>

ReclaimFile(r) ==
  /\ pc[r] = "reclaim"
  /\ req[r].op # "deleteBucket"
  /\ \/ ChunkDeleted(doc[r].chunk) /\ AfterFileDeleted(r, "ok")
     \/ ChunkKept(doc[r].chunk) /\ AfterFileDeleted(r, "warn")
  /\ UNCHANGED <<catalog, req>>

(***************************************************************************)
(* DeleteBucket: links, contents, grants and the bucket itself, in that    *)
(* order. The contents are listed first, then their documents deleted by   *)
(* bucket, then the chunks listed, each unless a document or a record of   *)
(* another bucket holds it; the first error ends the deletion.             *)
(***************************************************************************)

\* Mutant: the grants go with the links.
DropGrantsFirst(r) ==
  /\ pc[r] = "links"
  /\ links' = links \ In(links, req[r].bucket)
  /\ grants' = grants \ In(grants, req[r].bucket)
  /\ Goto(r, "listFiles")
  /\ UNCHANGED <<sources, buckets, files, uploads, store, req, locals, res>>

DropLinks(r) ==
  /\ pc[r] = "links"
  /\ LinksDropped(r)
  /\ Goto(r, "listFiles")
  /\ UNCHANGED <<store, req, locals, res>>

ListFiles(r) ==
  /\ pc[r] = "listFiles"
  /\ work' = [work EXCEPT ![r] = Chunks(In(files, req[r].bucket))]
  /\ Goto(r, "listUploads")
  /\ UNCHANGED <<catalog, store, req, doc, todo, res>>

\* Mutant: the parts of unfinished uploads are forgotten.
ListNoUploads(r) ==
  /\ pc[r] = "listUploads"
  /\ Goto(r, "dropFiles")
  /\ UNCHANGED <<catalog, store, req, locals, res>>

ListUploads(r) ==
  /\ pc[r] = "listUploads"
  /\ work' = [work EXCEPT ![r] = @ \cup Chunks(In(uploads, req[r].bucket))]
  /\ Goto(r, "dropFiles")
  /\ UNCHANGED <<catalog, store, req, doc, todo, res>>

DropFiles(r) ==
  /\ pc[r] = "dropFiles"
  /\ FilesDropped(r)
  /\ Goto(r, "dropUploads")
  /\ UNCHANGED <<store, req, locals, res>>

DropUploads(r) ==
  /\ UploadsDropped(r)
  /\ Goto(r, "countFiles")
  /\ UNCHANGED <<store, req, locals, res>>

\* Mutant: the documents of other buckets are not looked at.
NothingElsewhere(S, b) == {}

Elsewhere(S, b) == S \ In(S, b)

\* The next chunk listed is counted, in no particular order.
CountFilesElsewhere(r) ==
  /\ pc[r] = "countFiles"
  /\ IF work[r] = {}
     THEN Goto(r, "dropGrants") /\ UNCHANGED <<doc, work>>
     ELSE \E c \in work[r] :
            /\ work' = [work EXCEPT ![r] = @ \ {c}]
            /\ IF c \in Chunks(Elsewhere(files, req[r].bucket))
               THEN UNCHANGED <<pc, doc>>
               ELSE /\ Keep(r, [id |-> c[1], bucket |-> req[r].bucket,
                                chunk |-> c])
                    /\ Goto(r, "countParts")
  /\ UNCHANGED <<catalog, store, req, todo, res>>

CountPartsElsewhere(r) ==
  /\ pc[r] = "countParts"
  /\ IF doc[r].chunk \in Chunks(Elsewhere(uploads, req[r].bucket))
     THEN Goto(r, "countFiles") /\ Keep(r, None)
     ELSE Goto(r, "reclaim") /\ UNCHANGED doc
  /\ UNCHANGED <<catalog, store, req, todo, work, res>>

ReclaimContents(r) ==
  /\ pc[r] = "reclaim"
  /\ req[r].op = "deleteBucket"
  /\ \/ /\ ChunkDeleted(doc[r].chunk)
        /\ Goto(r, "countFiles")
        /\ Keep(r, None)
        /\ UNCHANGED <<res, work, todo>>
     \/ ChunkKept(doc[r].chunk) /\ Finish(r, "err")
  /\ UNCHANGED <<catalog, req>>

\* Mutant: the grants are left behind.
KeepGrants(r) ==
  /\ pc[r] = "dropGrants"
  /\ Goto(r, "dropBucket")
  /\ UNCHANGED <<catalog, store, req, locals, res>>

DropGrants(r) ==
  /\ pc[r] = "dropGrants"
  /\ GrantsRewritten(r)
  /\ Goto(r, "dropBucket")
  /\ UNCHANGED <<store, req, locals, res>>

DropBucket(r) ==
  /\ BucketDropped(r)
  /\ IF Live(req[r].bucket)
     THEN Finish(r, "ok") ELSE Finish(r, "absent")
  /\ UNCHANGED <<store, req>>

\* CreateGrant, UpdateGrant and DeleteGrant.

InsertGrant(r) ==
  /\ pc[r] = "insertGrant"
  /\ IF In(grants, req[r].bucket) # {}
     THEN Finish(r, "refused") /\ UNCHANGED catalog
     ELSE GrantWritten(r) /\ Finish(r, "ok")
  /\ UNCHANGED <<store, req>>

UpdateGrant(r) ==
  /\ pc[r] = "updateGrant"
  /\ GrantsRewritten(r)
  /\ Finish(r, IF FoundGrants(r) = {} THEN "absent" ELSE "ok")
  /\ UNCHANGED <<store, req>>

DropGrant(r) ==
  /\ pc[r] = "dropGrant"
  /\ GrantsRewritten(r)
  /\ Finish(r, IF FoundGrants(r) = {} THEN "absent" ELSE "ok")
  /\ UNCHANGED <<store, req>>
-----------------------------------------------------------------------------
(***************************************************************************)
(* The specification. met is the history of Start; may notes, in every     *)
(* state, who is entitled to what it asked for; torn notes the chunk of a  *)
(* copy that is inserted after it ran beside a deletion.                   *)
(***************************************************************************)

\* The owner of a bucket that is there, or an account by its grant. (The
\* bucket may go while the grant is being read.)
Entitled(r) ==
  LET q == req[r]
  IN  CASE q.op \in {"createBucket", "deleteSource"} -> q.user = Owner
        [] q.op = "unshare" -> \E l \in Named(links, q.ids) : l.user = q.user
        [] q.op = "read" -> \E l \in Named(links, q.ids) : l.expiry # "past"
        [] OTHER -> IF q.user = Owner THEN Live(q.bucket)
                                      ELSE GrantSuffices(r)

Handle(r) ==
  \/ MetaFails(r) \/ ReplyLost(r) \/ ReadBucket(r) \/ ReadGrant(r)
  \/ LoadSource(r) \/ Probe(r) \/ InsertBucket(r)
  \/ CheckReferences(r) \/ DropSource(r)
  \/ Resolve(r) \/ Upload(r) \/ InsertFile(r) \/ UndoUpload(r)
  \/ ReadOrigin(r) \/ FindByName(r)
  \/ GetFile(r) \/ Stream(r) \/ InsertLink(r)
  \/ Unlink(r) \/ ReadLink(r) \/ ReadLinkedFile(r)
  \/ DropFileLinks(r) \/ GetFileAgain(r) \/ DropFile(r)
  \/ CountReferences(r) \/ ReclaimFile(r)
  \/ DropLinks(r) \/ ListFiles(r) \/ ListUploads(r)
  \/ DropFiles(r) \/ DropUploads(r)
  \/ CountFilesElsewhere(r) \/ CountPartsElsewhere(r) \/ ReclaimContents(r)
  \/ DropGrants(r) \/ DropBucket(r)
  \/ InsertGrant(r) \/ UpdateGrant(r) \/ DropGrant(r)

NoteEntitled ==
  may' = [r \in Requests |->
            pc'[r] \notin {"idle", "done"} /\ (may[r] \/ Entitled(r)')]

Deletes(q) == req[q].op \in {"deleteBucket", "deleteFiles", "deleteObject"}

NoteCopies ==
  torn' = torn \cup
            Chunks({f \in files' \ files : /\ req[f.id].op = "copy"
                                          /\ \E q \in met[f.id] : Deletes(q)})

AllServed ==
  /\ \A r \in Requests : pc[r] = "done"
  /\ UNCHANGED vars

Step ==
  \/ \E r \in Requests : Start(r)
  \/ \E r \in Requests : Handle(r) /\ UNCHANGED met
  \/ LinkExpires

Next == (Step /\ NoteEntitled /\ NoteCopies) \/ AllServed

Spec == Init /\ [][Next]_vars
-----------------------------------------------------------------------------
(***************************************************************************)
(* Properties.                                                             *)
(***************************************************************************)

\* A request of this kind ran beside r.
Met(r, ops) == \E q \in met[r] : req[q].op \in ops

CreationRaced(b) ==
  \E r \in Requests : buckets[b].by = r /\ Met(r, {"deleteSource"})

(***************************************************************************)
(* Every source a live bucket lists exists, so that an upload to it        *)
(* resolves: deleting a source that is in use is refused. The one excuse   *)
(* is a source deleted while the bucket's creation was being checked.      *)
(***************************************************************************)
BucketSourcesExist ==
  \A b \in Buckets :
    Live(b) => buckets[b].sources \subseteq sources \/ CreationRaced(b)

(***************************************************************************)
(* When DeleteBucket has answered 200 nothing of the bucket is left: no    *)
(* object, no multipart record, no share link that still resolves to it,   *)
(* and no grant, except what a request that ran beside the deletion wrote. *)
(***************************************************************************)
DeletionIsComplete ==
  \A r \in Requests :
    req[r] # None /\ req[r].op = "deleteBucket" /\ res[r] = "ok" =>
      LET b == req[r].bucket
      IN  /\ In(uploads, b) = {}
          /\ \A x \in In(files, b) \cup In(links, b) \cup In(grants, b) :
               x.id \in met[r]

(***************************************************************************)
(* When every request has been answered and none reported an error, each   *)
(* chunk at the sources belongs to an object or an upload: whichever of    *)
(* the deletions that share a chunk comes last deletes it. The excuses are *)
(* an object written while its bucket's contents were being deleted, and   *)
(* the copy of an upload's timed-out attempt, which nothing ever reports.  *)
(***************************************************************************)
NoStrayChunks ==
  (/\ \A r \in Requests : ~Active(r) /\ res[r] \notin {"warn", "err"}
   /\ \A r \in Requests : req[r] # None /\ req[r].op \in {"put", "copy"}
                            => ~Met(r, {"deleteBucket"}))
  => store \subseteq Chunks(files \cup uploads) \cup {Stray}

(***************************************************************************)
(* A share link leads to an object of its bucket. The excuses are an S3    *)
(* DeleteObject of the object, which leaves its links, and a link created  *)
(* while the object was being deleted.                                     *)
(***************************************************************************)
LinksResolve ==
  \A l \in links :
    \/ In(Named(files, {l.file}), l.bucket) # {}
    \/ \E q \in Requests : /\ req[q] # None /\ req[q].op = "deleteObject"
                           /\ l.file \in req[q].ids
    \/ l.id \in Requests /\ \E q \in met[l.id] : Deletes(q)

(***************************************************************************)
(* An object of a live bucket can be read, whatever was deleted around it: *)
(* other objects, buckets that hold a copy of it, sources. The excuses are *)
(* a chunk that was copied while something was deleted, a chunk whose put  *)
(* was answered with an error although its document had been written, and  *)
(* a chunk that a copy brought to a bucket which does not list the chunk's *)
(* source.                                                                 *)
(***************************************************************************)
PutReplyLost(c) == c[1] \in Requests /\ res[c[1]] = "err"

FilesReadable ==
  \A f \in files :
    Live(f.bucket) =>
      /\ f.chunk \in store \cup torn \/ PutReplyLost(f.chunk)
      /\ \/ At(f.chunk) \in sources
         \/ At(f.chunk) \notin buckets[f.bucket].sources
         \/ CreationRaced(f.bucket)

(***************************************************************************)
(* A DeleteBucket that fails before its last call leaves the bucket and    *)
(* the caller's right to try again. Only another request may have taken    *)
(* them. The excuse is the deletion of the grants that takes effect and is *)
(* reported failed: an owner by grant then has no right left, as at the    *)
(* last call, and only the owner of the bucket can finish what it began.   *)
(***************************************************************************)
RetryableDeletion ==
  [][\A r \in Requests :
       /\ pc[r] \notin {"idle", "bucket", "grant", "dropBucket", "done"}
       /\ req[r].op = "deleteBucket"
       /\ pc'[r] = "done"
       => \/ RankOf(req[r].user, req[r].bucket)' = 3
          \/ pc[r] = "dropGrants" /\ grants' # grants
          \/ Met(r, {"deleteBucket", "revoke", "setRole"})]_vars

(***************************************************************************)
(* A request changes something, or is answered 200, only if its account    *)
(* was entitled to it at some time while it was served; and what it        *)
(* changes or streams belongs to the bucket the role was checked on, or is *)
(* the account's own link. A role revoked meanwhile is still honoured.     *)
(***************************************************************************)
Changed(S, T) == (S \ T) \cup (T \ S)
OnlyAuthorizedEffects ==
  [][\A r \in Requests : pc'[r] # pc[r] /\ pc[r] # "idle" =>
       /\ catalog' # catalog \/ (pc'[r] = "done" /\ res'[r] = "ok") => may[r]
       /\ \A x \in Changed(files, files') \cup Changed(grants, grants') :
            x.bucket = req[r].bucket
       /\ \A l \in Changed(links, links') :
            IF req[r].op = "unshare" THEN l.user = req[r].user
                                     ELSE l.bucket = req[r].bucket
       /\ pc[r] = "stream" /\ req[r].op = "download"
            => doc[r].bucket = req[r].bucket]_vars

(***************************************************************************)
(* docs/api-go-testing-plan.md: "deleting an in-use source returns 409     *)
(* Conflict". A source some object of a live bucket needs is in use.       *)
(***************************************************************************)
SourcesInUseStay ==
  \A f \in files : Live(f.bucket) => At(f.chunk) \in sources
=============================================================================
