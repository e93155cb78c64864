----------------------- MODULE BucketLifecycleProofs -----------------------
(***************************************************************************)
(* Proofs about BucketLifecycle, for every set of buckets, sources and     *)
(* requests.                                                               *)
(*                                                                         *)
(* TypeInv relates each step of a request to the operation it serves and   *)
(* to what the request has in hand there; Beside says what the history     *)
(* of meetings is. On these rest CreationInv (BucketSourcesExist),         *)
(* DeletionInv (DeletionIsComplete), LinkInv (LinksResolve), ReadInv       *)
(* (FilesReadable), StrayInv (NoStrayChunks), AuthInv and NamesInv         *)
(* (OnlyAuthorizedEffects) and RetryInv (RetryableDeletion). A step of a   *)
(* request is cut down first by what it may write (HandleWriters), where   *)
(* it may arrive (HandleArrivals) and what it leaves of the others         *)
(* (Others), so that each of those proofs looks at few actions.            *)
(***************************************************************************)
EXTENDS BucketLifecycle, TLAPS

\* Which steps belong to which operation, and where no result is known yet.
ControlOf(r) ==
  LET op == req[r].op
  IN  /\ pc[r] \in {"load", "probe", "insertBucket"} => op = "createBucket"
      /\ pc[r] \in {"references", "dropSource"} => op = "deleteSource"
      /\ pc[r] \in {"links", "listFiles", "listUploads", "dropFiles",
                    "dropUploads", "countFiles", "countParts", "dropGrants",
                    "dropBucket"} => op = "deleteBucket"
      /\ pc[r] \in {"resolve", "upload", "undo"} => op = "put"
      /\ pc[r] = "insert" => op \in {"put", "copy"}
      /\ pc[r] = "origin" => op = "copy"
      /\ pc[r] = "find" => op \in {"copy", "deleteObject"}
      /\ pc[r] = "file" => op \in {"download", "share", "deleteFiles"}
      /\ pc[r] = "insertLink" => op = "share"
      /\ pc[r] = "unlink" => op = "unshare"
      /\ pc[r] \in {"link", "linkedFile"} => op = "read"
      /\ pc[r] = "stream" => op \in {"download", "read"}
      /\ pc[r] \in {"fileLinks", "again"} => op = "deleteFiles"
      /\ pc[r] \in {"dropFile", "count"} => op \in {"deleteFiles", "deleteObject"}
      /\ pc[r] = "reclaim" => op \in {"deleteFiles", "deleteObject", "deleteBucket"}
      /\ pc[r] = "insertGrant" => op = "grant"
      /\ pc[r] = "updateGrant" => op = "setRole"
      /\ pc[r] = "dropGrant" => op = "revoke"
      /\ pc[r] \in {"bucket", "grant"} =>
           /\ op \notin {"createBucket", "deleteSource", "unshare", "read"}
           /\ res[r] = "none"
      /\ pc[r] = "idle" => res[r] = "none"
      /\ pc[r] # "done" /\ (pc[r] = "idle" \/ op # "deleteFiles") => res[r] = "none"

\* The steps at which r has a document in hand.
HasDoc(r) ==
  \/ pc[r] \in {"stream", "insertLink", "fileLinks", "again", "dropFile",
                "count", "reclaim", "countParts"}
  \/ pc[r] = "insert" /\ req[r].op = "copy"
\* The steps at which r may have chunks to store or to delete in hand.
HasWork(r) ==
  \/ pc[r] \in {"insert", "undo"} /\ req[r].op = "put"
  \/ /\ pc[r] \in {"listUploads", "dropFiles", "dropUploads", "countFiles",
                   "countParts", "reclaim"}
     /\ req[r].op = "deleteBucket"
\* What r has in hand at each of its steps.
HoldsOf(r) ==
  /\ doc[r] # None <=> HasDoc(r)
  /\ work[r] # {} => HasWork(r)
  /\ pc[r] \in {"insert", "undo"} /\ req[r].op = "put"
       => \E s \in Sources : work[r] = {<<r, s>>}
  /\ HasDoc(r) /\ req[r].op \notin {"copy", "read"} => doc[r].bucket = req[r].bucket
  /\ HasDoc(r) /\ req[r].op = "deleteObject" => doc[r].id \in req[r].ids
  /\ pc[r] \in {"bucket", "grant", "file"}
     /\ req[r].op \in {"download", "share"} => \E id \in Ids : todo[r] = {id}
  /\ pc[r] # "idle" =>
       /\ req[r].op # "copy" => req[r].from = req[r].bucket
       /\ req[r].op \in {"createBucket", "deleteSource"} => req[r].user = Owner
Flow == \A r \in Requests : ControlOf(r) /\ HoldsOf(r)
TypeInv == TypeOK /\ Flow

\* The step is not one of q.
Untouched(q) ==
  /\ pc'[q] = pc[q] /\ doc'[q] = doc[q] /\ work'[q] = work[q]
  /\ todo'[q] = todo[q] /\ res'[q] = res[q]

\* The step is one of r and of no other request.
OthersKept(r) ==
  /\ Active(r)
  /\ req' = req
  /\ \A q \in Requests \ {r} : Untouched(q)

LEMMA Others ==
  ASSUME TypeOK, NEW r \in Requests, Handle(r)
  PROVE  OthersKept(r)
<1> USE DEF TypeOK, Finish, Goto, NextFile, AfterFileDeleted, Keep, Active, locals,
            OthersKept, Untouched
<1>0. ASSUME MetaFails(r) \/ ReplyLost(r)
      PROVE  OthersKept(r)
  BY <1>0 DEF MetaFails, ReplyLost, CallFailed
<1>1. ASSUME ReadBucket(r) \/ ReadGrant(r) \/ LoadSource(r)
      PROVE  OthersKept(r)
  BY <1>1 DEF ReadBucket, ReadGrant, LoadSource
<1>7. ASSUME Probe(r)
      PROVE  OthersKept(r)
  BY <1>7 DEF Probe
<1>6. ASSUME InsertBucket(r) \/ CheckReferences(r) \/ DropSource(r)
      PROVE  OthersKept(r)
  BY <1>6 DEF InsertBucket, BucketWritten, CheckReferences, DropSource, SourceDropped
<1>2. ASSUME Resolve(r) \/ Upload(r) \/ InsertFile(r) \/ UndoUpload(r) \/
             ReadOrigin(r) \/ FindByName(r) \/ GetFile(r) \/ Stream(r)
      PROVE  OthersKept(r)
  BY <1>2
    DEF Resolve, Upload, InsertFile, FileWritten, UndoUpload, ReadOrigin, FindByName,
        GetFile, Stream
<1>3. ASSUME InsertLink(r) \/ Unlink(r) \/ ReadLink(r) \/ ReadLinkedFile(r) \/
             DropFileLinks(r) \/ GetFileAgain(r) \/ DropFile(r) \/ CountReferences(r)
      PROVE  OthersKept(r)
  BY <1>3
    DEF InsertLink, LinkWritten, Unlink, LinksDropped, OwnLinks, ReadLink,
        ReadLinkedFile, DropFileLinks, GetFileAgain, DropFile, FilesDropped,
        CountReferences
<1>4. ASSUME ReclaimFile(r) \/ DropLinks(r) \/ ListFiles(r) \/ ListUploads(r) \/
             DropFiles(r) \/ DropUploads(r) \/ CountFilesElsewhere(r) \/
             CountPartsElsewhere(r)
      PROVE  OthersKept(r)
  BY <1>4
    DEF ReclaimFile, DropLinks, LinksDropped, ListFiles, ListUploads, DropFiles,
        FilesDropped, DropUploads, UploadsDropped, CountFilesElsewhere,
        CountPartsElsewhere
<1>5. ASSUME ReclaimContents(r) \/ DropGrants(r) \/ DropBucket(r) \/
             InsertGrant(r) \/ UpdateGrant(r) \/ DropGrant(r)
      PROVE  OthersKept(r)
  BY <1>5
    DEF ReclaimContents, DropGrants, GrantsRewritten, DropBucket, BucketDropped,
        InsertGrant, GrantWritten, UpdateGrant, DropGrant
<1> QED
  BY <1>0, <1>1, <1>2, <1>3, <1>4, <1>5, <1>6, <1>7 DEF Handle

\* The types of what the requests hold, after the step.
LocalTypeOK ==
  /\ pc' \in [Requests -> Steps]
  /\ doc' \in [Requests -> File \cup {None}]
  /\ work' \in [Requests -> SUBSET Chunk]
  /\ todo' \in [Requests -> SUBSET (Ids \cup Sources)]
  /\ res' \in [Requests -> Results]
LocalTypes(r) == LocalTypeOK /\ pc'[r] # "idle"

LEMMA WorseResult ==
  ASSUME NEW a \in Results, NEW b \in Results
  PROVE  Worse(a, b) \in Results
BY DEF Worse

LEMMA WorseIsLoud ==
  ASSUME NEW a \in Results, NEW b \in Results, a \in {"warn", "err"} \/
         b \in {"warn", "err"}
  PROVE  Worse(a, b) \in {"warn", "err"}
BY DEF Worse, Results

\* After the bucket and the grant, each operation goes its own way.
LEMMA FirstSteps ==
  ASSUME NEW op \in AllOps \ {"createBucket", "deleteSource", "unshare", "read"}
  PROVE  /\ First(op) \in {"links", "resolve", "origin", "find", "file",
            "insertGrant", "updateGrant", "dropGrant"}
         /\ op = "deleteBucket" <=> First(op) = "links"
         /\ op = "put" <=> First(op) = "resolve"
         /\ op = "copy" <=> First(op) = "origin"
         /\ op = "deleteObject" <=> First(op) = "find"
         /\ op \in {"download", "share", "deleteFiles"} <=> First(op) = "file"
         /\ op = "grant" <=> First(op) = "insertGrant"
         /\ op = "setRole" <=> First(op) = "updateGrant"
         /\ op = "revoke" <=> First(op) = "dropGrant"
BY DEF First, AllOps

LEMMA FileParts ==
  ASSUME NEW f \in File
  PROVE  /\ f.id \in Ids /\ f.bucket \in Buckets /\ f.chunk \in Chunk
         /\ f # None
BY NamesAssumption DEF File

LEMMA ChunkParts ==
  ASSUME NEW c \in Chunk
  PROVE  c[1] \in Ids /\ c[2] \in Sources /\ c = <<c[1], c[2]>>
BY DEF Chunk

\* The chunks of documents are chunks.
LEMMA ChunksOfFiles ==
  ASSUME NEW S, S \subseteq File
  PROVE  Chunks(S) \subseteq Chunk
BY DEF Chunks, File

LEMMA RequestParts ==
  ASSUME TypeOK, NEW r \in Requests, pc[r] # "idle"
  PROVE  /\ req[r] \in Request /\ req[r] # None
         /\ req[r].op \in AllOps /\ req[r].user \in {Owner, Guest}
         /\ req[r].bucket \in Buckets /\ req[r].from \in Buckets
         /\ req[r].ids \subseteq Ids /\ req[r].sources \subseteq Sources
         /\ req[r].role \in Roles
BY NamesAssumption DEF TypeOK, Request

LEMMA FinishTypes ==
  ASSUME TypeOK, NEW r \in Requests, NEW result \in Results, Finish(r, result)
  PROVE  /\ LocalTypes(r)
         /\ pc'[r] = "done" /\ res'[r] = result /\ doc'[r] = None /\ work'[r] = {}
BY DEF TypeOK, Finish, Goto, LocalTypes, LocalTypeOK, Steps

LEMMA GotoTypes ==
  ASSUME TypeOK, NEW r \in Requests, NEW s \in Steps \ {"idle"}, Goto(r, s)
  PROVE  pc' \in [Requests -> Steps] /\ pc'[r] = s
BY DEF TypeOK, Goto

LEMMA NextFileTypes ==
  ASSUME TypeOK, NEW r \in Requests, NEW result \in Results, NextFile(r, result)
  PROVE  /\ LocalTypes(r)
         /\ pc'[r] \in {"file", "done"} /\ res'[r] = Worse(res[r], result) /\ doc'[r] = None
         /\ work'[r] = IF todo[r] = {} THEN {} ELSE work[r]
<1>1. res[r] \in Results /\ Worse(res[r], result) \in Results
  BY WorseResult DEF TypeOK
<1>2. CASE todo[r] = {}
  BY <1>1, <1>2, FinishTypes DEF NextFile
<1>3. CASE todo[r] # {}
  BY <1>1, <1>3 DEF NextFile, TypeOK, Goto, LocalTypes, LocalTypeOK, Steps
<1> QED
  BY <1>2, <1>3

\* Each step keeps the types of what the requests hold.
LEMMA HandleLocalTypes ==
  ASSUME TypeInv, NEW r \in Requests, Handle(r)
  PROVE LocalTypes(r)
<1> USE DEF LocalTypes, LocalTypeOK, TypeInv, Flow
<1>0. /\ ControlOf(r) /\ HoldsOf(r) /\ req[r] \in Request /\ TypeOK
  BY Others, RequestParts DEF OthersKept, Active
<1>a. req[r].op \in AllOps /\ pc \in [Requests -> Steps]
  BY <1>0 DEF Request, TypeOK
<1>b. req[r].bucket \in Buckets /\ buckets[req[r].bucket].sources \subseteq Sources
  BY <1>0 DEF TypeOK, Request, Bucket
<1> DEFINE Goal == LocalTypes(r)
<1> SUFFICES Goal OBVIOUS
<1> HIDE DEF Goal
<1>1. ASSUME MetaFails(r) \/ ReplyLost(r) PROVE Goal
  BY <1>1, <1>0, <1>a, FinishTypes, NextFileTypes
    DEF MetaFails, ReplyLost, CallFailed, Goal, Goto, Keep, Steps, Results, TypeOK, locals
<1>2. ASSUME ReadBucket(r) PROVE Goal
  BY <1>2, <1>0, <1>a, FinishTypes, NextFileTypes, FirstSteps
    DEF ReadBucket, Goal, Goto, Keep, Steps, Results, TypeOK, locals, ControlOf
<1>3. ASSUME ReadGrant(r) PROVE Goal
  BY <1>3, <1>0, <1>a, FinishTypes, NextFileTypes, FirstSteps
    DEF ReadGrant, Goal, Goto, Keep, Steps, Results, TypeOK, locals, ControlOf
<1>4. ASSUME LoadSource(r) PROVE Goal
  BY <1>4, <1>0, <1>a, FinishTypes, NextFileTypes
    DEF LoadSource, Goal, Goto, Keep, Steps, Results, TypeOK, locals
<1>5. ASSUME Probe(r) PROVE Goal
  BY <1>5, <1>0, <1>a, FinishTypes, NextFileTypes
    DEF Probe, Goal, Goto, Keep, Steps, Results, TypeOK, locals
<1>6. ASSUME InsertBucket(r) PROVE Goal
  BY <1>6, <1>0, <1>a, FinishTypes, NextFileTypes
    DEF InsertBucket, BucketWritten, Goal, Goto, Keep, Steps, Results, TypeOK, locals
<1>7. ASSUME CheckReferences(r) PROVE Goal
  BY <1>7, <1>0, <1>a, FinishTypes, NextFileTypes
    DEF CheckReferences, Goal, Goto, Keep, Steps, Results, TypeOK, locals
<1>8. ASSUME DropSource(r) PROVE Goal
  BY <1>8, <1>0, <1>a, FinishTypes, NextFileTypes
    DEF DropSource, SourceDropped, Goal, Goto, Keep, Steps, Results, TypeOK, locals
<1>9. ASSUME Resolve(r) PROVE Goal
  BY <1>9, <1>0, <1>a, FinishTypes, NextFileTypes
    DEF Resolve, Goal, Goto, Keep, Steps, Results, TypeOK, locals
<1>10. ASSUME Upload(r) PROVE Goal
  <2>1. CASE Finish(r, "err")
    BY <2>1, <1>0, FinishTypes DEF Goal, Results
  <2>2. CASE ~Finish(r, "err")
    <3>1. PICK s \in buckets[req[r].bucket].sources :
             /\ work' = [work EXCEPT ![r] = {<<r, s>>}]
             /\ Goto(r, "insert")
             /\ UNCHANGED <<res, doc, todo>>
      BY <1>10, <2>2 DEF Upload
    <3>2. <<r, s>> \in Chunk
      BY <1>b DEF Chunk, Ids
    <3> QED
      BY <3>1, <3>2, <1>0 DEF Goal, Goto, Steps, TypeOK
  <2> QED
    BY <2>1, <2>2
<1>11. ASSUME InsertFile(r) PROVE Goal
  BY <1>11, <1>0, <1>a, FinishTypes, NextFileTypes
    DEF InsertFile, FileWritten, Goal, Goto, Keep, Steps, Results, TypeOK, locals
<1>12. ASSUME UndoUpload(r) PROVE Goal
  BY <1>12, <1>0, <1>a, FinishTypes, NextFileTypes
    DEF UndoUpload, Goal, Goto, Keep, Steps, Results, TypeOK, locals
<1>13. ASSUME ReadOrigin(r) PROVE Goal
  BY <1>13, <1>0, <1>a, FinishTypes, NextFileTypes
    DEF ReadOrigin, Goal, Goto, Keep, Steps, Results, TypeOK, locals
<1>14. ASSUME FindByName(r) PROVE Goal
  BY <1>14, <1>0, <1>a, FinishTypes, NextFileTypes
    DEF FindByName, Goal, Goto, Keep, Steps, Results, TypeOK, locals, In, Named
<1>15. ASSUME GetFile(r) PROVE Goal
  BY <1>15, <1>0, <1>a, FinishTypes, NextFileTypes, WorseResult
    DEF GetFile, Goal, Goto, Keep, Steps, Results, TypeOK, locals, In, Named,
        AfterFile
<1>16. ASSUME Stream(r) PROVE Goal
  BY <1>16, <1>0, <1>a, FinishTypes, NextFileTypes
    DEF Stream, Goal, Goto, Keep, Steps, Results, TypeOK, locals
<1>17. ASSUME InsertLink(r) PROVE Goal
  BY <1>17, <1>0, <1>a, FinishTypes, NextFileTypes
    DEF InsertLink, LinkWritten, Goal, Goto, Keep, Steps, Results, TypeOK, locals
<1>18. ASSUME Unlink(r) PROVE Goal
  BY <1>18, <1>0, <1>a, FinishTypes, NextFileTypes
    DEF Unlink, LinksDropped, OwnLinks, Goal, Goto, Keep, Steps, Results, TypeOK, locals
<1>19. ASSUME ReadLink(r) PROVE Goal
  BY <1>19, <1>0, <1>a, FinishTypes, NextFileTypes
    DEF ReadLink, Goal, Goto, Keep, Steps, Results, TypeOK, locals, Named, Link
<1>20. ASSUME ReadLinkedFile(r) PROVE Goal
  BY <1>20, <1>0, <1>a, FinishTypes, NextFileTypes
    DEF ReadLinkedFile, Goal, Goto, Keep, Steps, Results, TypeOK, locals, Named
<1>21. ASSUME DropFileLinks(r) PROVE Goal
  BY <1>21, <1>0, <1>a, FinishTypes, NextFileTypes
    DEF DropFileLinks, LinksDropped, Goal, Goto, Keep, Steps, Results, TypeOK, locals
<1>22. ASSUME GetFileAgain(r) PROVE Goal
  BY <1>22, <1>0, <1>a, FinishTypes, NextFileTypes
    DEF GetFileAgain, Goal, Goto, Keep, Steps, Results, TypeOK, locals
<1>23. ASSUME DropFile(r) PROVE Goal
  BY <1>23, <1>0, <1>a, FinishTypes, NextFileTypes
    DEF DropFile, FilesDropped, Goal, Goto, Keep, Steps, Results, TypeOK, locals
<1>24. ASSUME CountReferences(r) PROVE Goal
  BY <1>24, <1>0, <1>a, FinishTypes, NextFileTypes
    DEF CountReferences, Goal, Goto, Keep, Steps, Results, TypeOK, locals,
        AfterFileDeleted
<1>25. ASSUME ReclaimFile(r) PROVE Goal
  BY <1>25, <1>0, <1>a, FinishTypes, NextFileTypes
    DEF ReclaimFile, Goal, Goto, Keep, Steps, Results, TypeOK, locals,
        AfterFileDeleted
<1>26. ASSUME DropLinks(r) PROVE Goal
  BY <1>26, <1>0, <1>a, FinishTypes, NextFileTypes
    DEF DropLinks, LinksDropped, Goal, Goto, Keep, Steps, Results, TypeOK, locals
<1>27. ASSUME ListFiles(r) PROVE Goal
  BY <1>27, <1>0, <1>a, FinishTypes, NextFileTypes, ChunksOfFiles
    DEF ListFiles, Goal, Goto, Keep, Steps, Results, TypeOK, locals, In
<1>28. ASSUME ListUploads(r) PROVE Goal
  BY <1>28, <1>0, <1>a, FinishTypes, NextFileTypes, ChunksOfFiles
    DEF ListUploads, Goal, Goto, Keep, Steps, Results, TypeOK, locals, In
<1>29. ASSUME DropFiles(r) PROVE Goal
  BY <1>29, <1>0, <1>a, FinishTypes, NextFileTypes
    DEF DropFiles, FilesDropped, Goal, Goto, Keep, Steps, Results, TypeOK, locals
<1>30. ASSUME DropUploads(r) PROVE Goal
  BY <1>30, <1>0, <1>a, FinishTypes, NextFileTypes
    DEF DropUploads, UploadsDropped, Goal, Goto, Keep, Steps, Results, TypeOK, locals
<1>31. ASSUME CountFilesElsewhere(r) PROVE Goal
  <2>1. CASE work[r] = {}
    BY <1>31, <2>1, <1>0 DEF CountFilesElsewhere, Goal, Goto, Steps, TypeOK
  <2>2. ASSUME NEW c \in work[r]
        PROVE  [id |-> c[1], bucket |-> req[r].bucket, chunk |-> c] \in File
    BY <2>2, <1>0, <1>b, ChunkParts DEF File, TypeOK
  <2> QED
    BY <1>31, <2>1, <2>2, <1>0
       DEF CountFilesElsewhere, Goal, Goto, Keep, Steps, TypeOK
<1>32. ASSUME CountPartsElsewhere(r) PROVE Goal
  BY <1>32, <1>0, <1>a, FinishTypes, NextFileTypes
    DEF CountPartsElsewhere, Goal, Goto, Keep, Steps, Results, TypeOK, locals
<1>33. ASSUME ReclaimContents(r) PROVE Goal
  BY <1>33, <1>0, <1>a, FinishTypes, NextFileTypes
    DEF ReclaimContents, Goal, Goto, Keep, Steps, Results, TypeOK, locals
<1>34. ASSUME DropGrants(r) PROVE Goal
  BY <1>34, <1>0, <1>a, FinishTypes, NextFileTypes
    DEF DropGrants, GrantsRewritten, Goal, Goto, Keep, Steps, Results, TypeOK, locals
<1>35. ASSUME DropBucket(r) PROVE Goal
  BY <1>35, <1>0, <1>a, FinishTypes, NextFileTypes
    DEF DropBucket, BucketDropped, Goal, Goto, Keep, Steps, Results, TypeOK, locals
<1>36. ASSUME InsertGrant(r) PROVE Goal
  BY <1>36, <1>0, <1>a, FinishTypes, NextFileTypes
    DEF InsertGrant, GrantWritten, Goal, Goto, Keep, Steps, Results, TypeOK, locals
<1>37. ASSUME UpdateGrant(r) PROVE Goal
  BY <1>37, <1>0, <1>a, FinishTypes, NextFileTypes
    DEF UpdateGrant, GrantsRewritten, Goal, Goto, Keep, Steps, Results, TypeOK, locals
<1>38. ASSUME DropGrant(r) PROVE Goal
  BY <1>38, <1>0, <1>a, FinishTypes, NextFileTypes
    DEF DropGrant, GrantsRewritten, Goal, Goto, Keep, Steps, Results, TypeOK, locals
<1> QED
  BY <1>1, <1>2, <1>3, <1>4, <1>5, <1>6, <1>7, <1>8, <1>9, <1>10, <1>11, <1>12,
     <1>13, <1>14, <1>15, <1>16, <1>17, <1>18, <1>19, <1>20, <1>21, <1>22, <1>23,
     <1>24, <1>25, <1>26, <1>27, <1>28, <1>29, <1>30, <1>31, <1>32, <1>33, <1>34,
     <1>35, <1>36, <1>37, <1>38
    DEF Handle

\* The writes of r that change each part of the catalog, and the actions that
\* change what is at the sources.
Writers(r) ==
  /\ sources' # sources => SourceDropped(r)
  /\ buckets' # buckets => BucketWritten(r) \/ BucketDropped(r)
  /\ files' # files => FileWritten(r) \/ FilesDropped(r)
  /\ uploads' # uploads => UploadsDropped(r)
  /\ links' # links => LinkWritten(r) \/ LinksDropped(r)
  /\ grants' # grants => GrantWritten(r) \/ GrantsRewritten(r)
  /\ store' # store =>
       Upload(r) \/ UndoUpload(r) \/ ReclaimFile(r) \/ ReclaimContents(r)

LEMMA HandleWriters ==
  ASSUME NEW r \in Requests, Handle(r)
  PROVE  Writers(r)
<1> USE DEF Writers, catalog
<1>1. ASSUME MetaFails(r)
      PROVE  Writers(r)
  BY <1>1 DEF MetaFails
<1>2. ASSUME ReadBucket(r) \/ ReadGrant(r) \/ LoadSource(r) \/ Probe(r) \/
             CheckReferences(r) \/ Resolve(r) \/ ReadOrigin(r)
      PROVE  Writers(r)
  BY <1>2
    DEF ReadBucket, ReadGrant, LoadSource, Probe, CheckReferences, Resolve,
        ReadOrigin
<1>3. ASSUME FindByName(r) \/ GetFile(r) \/ Stream(r) \/ ReadLink(r) \/
             ReadLinkedFile(r) \/ GetFileAgain(r) \/ CountReferences(r)
      PROVE  Writers(r)
  BY <1>3
    DEF FindByName, GetFile, Stream, ReadLink, ReadLinkedFile, GetFileAgain,
        CountReferences
<1>4. ASSUME ListFiles(r) \/ ListUploads(r) \/ CountFilesElsewhere(r) \/
             CountPartsElsewhere(r)
      PROVE  Writers(r)
  BY <1>4 DEF ListFiles, ListUploads, CountFilesElsewhere, CountPartsElsewhere
<1>5. ASSUME DropSource(r)
      PROVE  Writers(r)
  BY <1>5 DEF DropSource, SourceDropped
<1>6. ASSUME InsertBucket(r)
      PROVE  Writers(r)
  BY <1>6 DEF InsertBucket, BucketWritten
<1>7. ASSUME DropBucket(r)
      PROVE  Writers(r)
  BY <1>7 DEF DropBucket, BucketDropped
<1>8. ASSUME InsertFile(r)
      PROVE  Writers(r)
  BY <1>8 DEF InsertFile, FileWritten
<1>9. ASSUME DropFile(r)
      PROVE  Writers(r)
  BY <1>9 DEF DropFile, FilesDropped
<1>10. ASSUME DropFiles(r)
      PROVE  Writers(r)
  BY <1>10 DEF DropFiles, FilesDropped
<1>11. ASSUME DropUploads(r)
      PROVE  Writers(r)
  BY <1>11 DEF DropUploads, UploadsDropped
<1>12. ASSUME InsertLink(r)
      PROVE  Writers(r)
  BY <1>12 DEF InsertLink, LinkWritten
<1>13. ASSUME Unlink(r)
      PROVE  Writers(r)
  BY <1>13 DEF Unlink, LinksDropped, OwnLinks
<1>14. ASSUME DropFileLinks(r)
      PROVE  Writers(r)
  BY <1>14 DEF DropFileLinks, LinksDropped
<1>15. ASSUME DropLinks(r)
      PROVE  Writers(r)
  BY <1>15 DEF DropLinks, LinksDropped
<1>16. ASSUME DropGrants(r)
      PROVE  Writers(r)
  BY <1>16 DEF DropGrants, GrantsRewritten
<1>17. ASSUME InsertGrant(r)
      PROVE  Writers(r)
  BY <1>17 DEF InsertGrant, GrantWritten
<1>18. ASSUME UpdateGrant(r)
      PROVE  Writers(r)
  BY <1>18 DEF UpdateGrant, GrantsRewritten
<1>19. ASSUME DropGrant(r)
      PROVE  Writers(r)
  BY <1>19 DEF DropGrant, GrantsRewritten
<1>20. ASSUME Upload(r)
      PROVE  Writers(r)
  BY <1>20 DEF Upload
<1>21. ASSUME UndoUpload(r)
      PROVE  Writers(r)
  BY <1>21 DEF UndoUpload
<1>22. ASSUME ReclaimFile(r)
      PROVE  Writers(r)
  BY <1>22 DEF ReclaimFile
<1>23. ASSUME ReclaimContents(r)
      PROVE  Writers(r)
  BY <1>23 DEF ReclaimContents
<1>24. ASSUME ReplyLost(r)
      PROVE  Writers(r)
  BY <1>24
    DEF ReplyLost, Write, SourceDropped, BucketWritten, BucketDropped, FileWritten,
        FilesDropped, UploadsDropped, LinkWritten, LinksDropped, GrantWritten,
        GrantsRewritten
<1> QED
  BY <1>1, <1>2, <1>3, <1>4, <1>5, <1>6, <1>7, <1>8, <1>9, <1>10, <1>11, <1>12,
     <1>13, <1>14, <1>15, <1>16, <1>17, <1>18, <1>19, <1>20, <1>21, <1>22, <1>23,
     <1>24
    DEF Handle

\* The action of r that brings it to each of its steps.
Arrivals(r) ==
  /\ pc'[r] # "bucket"
  /\ pc'[r] = "grant" => ReadBucket(r)
  /\ pc'[r] \in {"links", "resolve", "origin", "insertGrant", "updateGrant",
     "dropGrant"} => ReadBucket(r) \/ ReadGrant(r)
  /\ pc'[r] = "load" \/ pc'[r] = "probe" => LoadSource(r)
  /\ pc'[r] = "insertBucket" => Probe(r)
  /\ pc'[r] # "references"
  /\ pc'[r] = "dropSource" => CheckReferences(r)
  /\ pc'[r] = "upload" => Resolve(r)
  /\ pc'[r] = "undo" => CallFailed(r) /\ pc[r] = "insert"
  /\ pc'[r] = "insert" => Upload(r) \/ FindByName(r)
  /\ pc'[r] = "find" => ReadBucket(r) \/ ReadGrant(r) \/ ReadOrigin(r)
  /\ pc'[r] = "insertLink" => GetFile(r)
  /\ pc'[r] = "stream" => GetFile(r) \/ ReadLinkedFile(r)
  /\ pc'[r] # "unlink" /\ pc'[r] # "link"
  /\ pc'[r] = "linkedFile" => ReadLink(r)
  /\ pc'[r] = "fileLinks" => GetFile(r)
  /\ pc'[r] = "again" => DropFileLinks(r)
  /\ pc'[r] = "dropFile" => GetFileAgain(r) \/ FindByName(r)
  /\ pc'[r] = "count" => DropFile(r)
  /\ pc'[r] = "reclaim" => CountReferences(r) \/ CountPartsElsewhere(r)
  /\ pc'[r] = "listFiles" => DropLinks(r)
  /\ pc'[r] = "listUploads" => ListFiles(r)
  /\ pc'[r] = "dropFiles" => ListUploads(r)
  /\ pc'[r] = "dropUploads" => DropFiles(r)
  /\ pc'[r] = "countFiles" => DropUploads(r) \/ CountFilesElsewhere(r) \/
     CountPartsElsewhere(r) \/ ReclaimContents(r)
  /\ pc'[r] = "countParts" => CountFilesElsewhere(r)
  /\ pc'[r] = "dropGrants" => CountFilesElsewhere(r)
  /\ pc'[r] = "dropBucket" => DropGrants(r)
  /\ pc'[r] = "done" => doc'[r] = None /\ work'[r] = {}
  /\ pc'[r] = "done" /\ req[r].op = "deleteBucket" /\ res'[r] = "ok" => DropBucket(r)

LEMMA HandleArrivals ==
  ASSUME TypeInv, NEW r \in Requests, Handle(r)
  PROVE  Arrivals(r)
<1>0. /\ ControlOf(r) /\ HoldsOf(r) /\ req[r] \in Request /\ TypeOK
  BY Others, RequestParts DEF OthersKept, Active, TypeInv, Flow
<1>a. req[r].op \in AllOps /\ pc \in [Requests -> Steps]
  BY <1>0 DEF Request, TypeOK
<1> DEFINE Goal == Arrivals(r)
<1> SUFFICES Goal OBVIOUS
<1> HIDE DEF Goal
<1>1. ASSUME MetaFails(r) \/ ReplyLost(r) PROVE Goal
  BY <1>1, <1>0, <1>a
    DEF MetaFails, ReplyLost, CallFailed, Goal, Arrivals, Goto, Finish, NextFile, ControlOf,
        Keep, TypeOK, locals
<1>2. ASSUME ReadBucket(r) PROVE Goal
  BY <1>2, <1>0, <1>a, FirstSteps
    DEF ReadBucket, Goal, Arrivals, Goto, Finish, NextFile, ControlOf, Keep, TypeOK,
        locals
<1>3. ASSUME ReadGrant(r) PROVE Goal
  BY <1>3, <1>0, <1>a, FirstSteps
    DEF ReadGrant, Goal, Arrivals, Goto, Finish, NextFile, ControlOf, Keep, TypeOK,
        locals
<1>4. ASSUME LoadSource(r) PROVE Goal
  BY <1>4, <1>0, <1>a
    DEF LoadSource, Goal, Arrivals, Goto, Finish, NextFile, ControlOf, Keep, TypeOK,
        locals
<1>5. ASSUME Probe(r) PROVE Goal
  <2>1. Goto(r, "insertBucket") \/ Finish(r, "refused")
    BY <1>5 DEF Probe
  <2> QED
    BY <1>5, <1>0, <2>1 DEF Goal, Arrivals, Goto, Finish, TypeOK, ControlOf
<1>6. ASSUME InsertBucket(r) PROVE Goal
  BY <1>6, <1>0, <1>a
    DEF InsertBucket, BucketWritten, Goal, Arrivals, Goto, Finish, NextFile,
        ControlOf, Keep, TypeOK, locals
<1>7. ASSUME CheckReferences(r) PROVE Goal
  BY <1>7, <1>0, <1>a
    DEF CheckReferences, Goal, Arrivals, Goto, Finish, NextFile, ControlOf, Keep,
        TypeOK, locals
<1>8. ASSUME DropSource(r) PROVE Goal
  BY <1>8, <1>0, <1>a
    DEF DropSource, SourceDropped, Goal, Arrivals, Goto, Finish, NextFile, ControlOf,
        Keep, TypeOK, locals
<1>9. ASSUME Resolve(r) PROVE Goal
  BY <1>9, <1>0, <1>a
    DEF Resolve, Goal, Arrivals, Goto, Finish, NextFile, ControlOf, Keep, TypeOK,
        locals
<1>10. ASSUME Upload(r) PROVE Goal
  BY <1>10, <1>0, <1>a
    DEF Upload, Goal, Arrivals, Goto, Finish, NextFile, ControlOf, Keep, TypeOK,
        locals
<1>11. ASSUME InsertFile(r) PROVE Goal
  BY <1>11, <1>0, <1>a
    DEF InsertFile, FileWritten, Goal, Arrivals, Goto, Finish, NextFile, ControlOf,
        Keep, TypeOK, locals
<1>12. ASSUME UndoUpload(r) PROVE Goal
  BY <1>12, <1>0, <1>a
    DEF UndoUpload, Goal, Arrivals, Goto, Finish, NextFile, ControlOf, Keep, TypeOK,
        locals
<1>13. ASSUME ReadOrigin(r) PROVE Goal
  BY <1>13, <1>0, <1>a
    DEF ReadOrigin, Goal, Arrivals, Goto, Finish, NextFile, ControlOf, Keep, TypeOK,
        locals
<1>14. ASSUME FindByName(r) PROVE Goal
  BY <1>14, <1>0, <1>a
    DEF FindByName, Goal, Arrivals, Goto, Finish, NextFile, ControlOf, Keep, TypeOK,
        locals
<1>15. ASSUME GetFile(r) PROVE Goal
  <2>1. pc[r] = "file" /\ req[r].op \in {"download", "share", "deleteFiles"}
    BY <1>0, <1>15 DEF ControlOf, GetFile
  <2>2. \/ Goto(r, AfterFile(req[r].op))
        \/ Finish(r, Worse(res[r], "absent"))
        \/ pc' = pc
    BY <1>15 DEF GetFile
  <2> QED
    BY <1>15, <1>0, <2>1, <2>2
       DEF Goal, Arrivals, Goto, Finish, TypeOK, AfterFile
<1>16. ASSUME Stream(r) PROVE Goal
  BY <1>16, <1>0, <1>a
    DEF Stream, Goal, Arrivals, Goto, Finish, NextFile, ControlOf, Keep, TypeOK,
        locals
<1>17. ASSUME InsertLink(r) PROVE Goal
  BY <1>17, <1>0, <1>a
    DEF InsertLink, LinkWritten, Goal, Arrivals, Goto, Finish, NextFile, ControlOf,
        Keep, TypeOK, locals
<1>18. ASSUME Unlink(r) PROVE Goal
  BY <1>18, <1>0, <1>a
    DEF Unlink, LinksDropped, OwnLinks, Goal, Arrivals, Goto, Finish, NextFile,
        ControlOf, Keep, TypeOK, locals
<1>19. ASSUME ReadLink(r) PROVE Goal
  BY <1>19, <1>0, <1>a
    DEF ReadLink, Goal, Arrivals, Goto, Finish, NextFile, ControlOf, Keep, TypeOK,
        locals
<1>20. ASSUME ReadLinkedFile(r) PROVE Goal
  BY <1>20, <1>0, <1>a
    DEF ReadLinkedFile, Goal, Arrivals, Goto, Finish, NextFile, ControlOf, Keep,
        TypeOK, locals
<1>21. ASSUME DropFileLinks(r) PROVE Goal
  BY <1>21, <1>0, <1>a
    DEF DropFileLinks, LinksDropped, Goal, Arrivals, Goto, Finish, NextFile,
        ControlOf, Keep, TypeOK, locals
<1>22. ASSUME GetFileAgain(r) PROVE Goal
  BY <1>22, <1>0, <1>a
    DEF GetFileAgain, Goal, Arrivals, Goto, Finish, NextFile, ControlOf, Keep,
        TypeOK, locals
<1>23. ASSUME DropFile(r) PROVE Goal
  BY <1>23, <1>0, <1>a
    DEF DropFile, FilesDropped, Goal, Arrivals, Goto, Finish, NextFile, ControlOf,
        Keep, TypeOK, locals
<1>24. ASSUME CountReferences(r) PROVE Goal
  BY <1>24, <1>0, <1>a
    DEF CountReferences, Goal, Arrivals, Goto, Finish, NextFile, ControlOf, Keep,
        TypeOK, locals, AfterFileDeleted
<1>25. ASSUME ReclaimFile(r) PROVE Goal
  BY <1>25, <1>0, <1>a
    DEF ReclaimFile, Goal, Arrivals, Goto, Finish, NextFile, ControlOf, Keep,
        TypeOK, locals, AfterFileDeleted
<1>26. ASSUME DropLinks(r) PROVE Goal
  BY <1>26, <1>0, <1>a
    DEF DropLinks, LinksDropped, Goal, Arrivals, Goto, Finish, NextFile, ControlOf,
        Keep, TypeOK, locals
<1>27. ASSUME ListFiles(r) PROVE Goal
  BY <1>27, <1>0, <1>a
    DEF ListFiles, Goal, Arrivals, Goto, Finish, NextFile, ControlOf, Keep, TypeOK,
        locals
<1>28. ASSUME ListUploads(r) PROVE Goal
  BY <1>28, <1>0, <1>a
    DEF ListUploads, Goal, Arrivals, Goto, Finish, NextFile, ControlOf, Keep,
        TypeOK, locals
<1>29. ASSUME DropFiles(r) PROVE Goal
  BY <1>29, <1>0, <1>a
    DEF DropFiles, FilesDropped, Goal, Arrivals, Goto, Finish, NextFile, ControlOf,
        Keep, TypeOK, locals
<1>30. ASSUME DropUploads(r) PROVE Goal
  BY <1>30, <1>0, <1>a
    DEF DropUploads, UploadsDropped, Goal, Arrivals, Goto, Finish, NextFile,
        ControlOf, Keep, TypeOK, locals
<1>31. ASSUME CountFilesElsewhere(r) PROVE Goal
  BY <1>31, <1>0, <1>a
    DEF CountFilesElsewhere, Goal, Arrivals, Goto, Finish, NextFile, ControlOf,
        Keep, TypeOK, locals
<1>32. ASSUME CountPartsElsewhere(r) PROVE Goal
  BY <1>32, <1>0, <1>a
    DEF CountPartsElsewhere, Goal, Arrivals, Goto, Finish, NextFile, ControlOf,
        Keep, TypeOK, locals
<1>33. ASSUME ReclaimContents(r) PROVE Goal
  BY <1>33, <1>0, <1>a
    DEF ReclaimContents, Goal, Arrivals, Goto, Finish, NextFile, ControlOf, Keep,
        TypeOK, locals
<1>34. ASSUME DropGrants(r) PROVE Goal
  BY <1>34, <1>0, <1>a
    DEF DropGrants, GrantsRewritten, Goal, Arrivals, Goto, Finish, NextFile,
        ControlOf, Keep, TypeOK, locals
<1>35. ASSUME DropBucket(r) PROVE Goal
  BY <1>35, <1>0, <1>a
    DEF DropBucket, BucketDropped, Goal, Arrivals, Goto, Finish, NextFile, ControlOf,
        Keep, TypeOK, locals
<1>36. ASSUME InsertGrant(r) PROVE Goal
  BY <1>36, <1>0, <1>a
    DEF InsertGrant, GrantWritten, Goal, Arrivals, Goto, Finish, NextFile, ControlOf,
        Keep, TypeOK, locals
<1>37. ASSUME UpdateGrant(r) PROVE Goal
  BY <1>37, <1>0, <1>a
    DEF UpdateGrant, GrantsRewritten, Goal, Arrivals, Goto, Finish, NextFile,
        ControlOf, Keep, TypeOK, locals
<1>38. ASSUME DropGrant(r) PROVE Goal
  BY <1>38, <1>0, <1>a
    DEF DropGrant, GrantsRewritten, Goal, Arrivals, Goto, Finish, NextFile,
        ControlOf, Keep, TypeOK, locals
<1> QED
  BY <1>1, <1>2, <1>3, <1>4, <1>5, <1>6, <1>7, <1>8, <1>9, <1>10, <1>11, <1>12,
     <1>13, <1>14, <1>15, <1>16, <1>17, <1>18, <1>19, <1>20, <1>21, <1>22, <1>23,
     <1>24, <1>25, <1>26, <1>27, <1>28, <1>29, <1>30, <1>31, <1>32, <1>33, <1>34,
     <1>35, <1>36, <1>37, <1>38
    DEF Handle

\* Each step keeps Flow.
LEMMA HandleFlow ==
  ASSUME TypeInv, NEW r \in Requests, Handle(r)
  PROVE  ControlOf(r)' /\ HoldsOf(r)'
<1>0. /\ ControlOf(r) /\ HoldsOf(r) /\ req[r] \in Request /\ TypeOK
  BY Others, RequestParts DEF OthersKept, Active, TypeInv, Flow
<1>a. /\ req[r].op \in AllOps /\ pc \in [Requests -> Steps] /\ req' = req
      /\ res[r] \in Results /\ pc[r] # "idle"
      /\ buckets[req[r].bucket].sources \subseteq Sources
  BY <1>0, Others DEF Request, TypeOK, OthersKept, Active, Bucket
<1> DEFINE Goal == ControlOf(r)' /\ HoldsOf(r)'
<1> SUFFICES Goal OBVIOUS
<1>b. ASSUME pc'[r] = "done", doc'[r] = None, work'[r] = {} PROVE Goal
  BY <1>b, <1>0, <1>a DEF ControlOf, HoldsOf, HasDoc, HasWork
<1>c. ASSUME NEW result \in Results, Finish(r, result) PROVE Goal
  BY <1>b, <1>c, <1>0, FinishTypes
<1>d. ASSUME NEW result \in Results, NextFile(r, result),
             req[r].op = "deleteFiles" PROVE Goal
  BY <1>d, <1>0, <1>a, NextFileTypes, <1>b DEF ControlOf, HoldsOf, HasDoc, HasWork
<1> HIDE DEF Goal
<1>1. ASSUME MetaFails(r) \/ ReplyLost(r) PROVE Goal
  BY <1>1, <1>0, <1>a, <1>b, <1>c, <1>d
    DEF MetaFails, ReplyLost, CallFailed, Goal, Goto, ControlOf, HoldsOf, HasDoc, HasWork, Keep,
        TypeOK, locals, Results
<1>2. ASSUME ReadBucket(r) PROVE Goal
  BY <1>2, <1>0, <1>a, <1>b, <1>c, <1>d, FirstSteps
    DEF ReadBucket, Goal, Goto, ControlOf, HoldsOf, HasDoc, HasWork, Keep, TypeOK,
        locals, Results
<1>3. ASSUME ReadGrant(r) PROVE Goal
  BY <1>3, <1>0, <1>a, <1>b, <1>c, <1>d, FirstSteps
    DEF ReadGrant, Goal, Goto, ControlOf, HoldsOf, HasDoc, HasWork, Keep, TypeOK,
        locals, Results
<1>4. ASSUME LoadSource(r) PROVE Goal
  BY <1>4, <1>0, <1>a, <1>b, <1>c, <1>d
    DEF LoadSource, Goal, Goto, ControlOf, HoldsOf, HasDoc, HasWork, Keep, TypeOK,
        locals, Results
<1>5. ASSUME Probe(r) PROVE Goal
  BY <1>5, <1>0, <1>a, <1>b, <1>c, <1>d
    DEF Probe, Goal, Goto, ControlOf, HoldsOf, HasDoc, HasWork, Keep, TypeOK,
        locals, Results
<1>6. ASSUME InsertBucket(r) PROVE Goal
  BY <1>6, <1>0, <1>a, <1>b, <1>c, <1>d
    DEF InsertBucket, BucketWritten, Goal, Goto, ControlOf, HoldsOf, HasDoc, HasWork,
        Keep, TypeOK, locals, Results
<1>7. ASSUME CheckReferences(r) PROVE Goal
  BY <1>7, <1>0, <1>a, <1>b, <1>c, <1>d
    DEF CheckReferences, Goal, Goto, ControlOf, HoldsOf, HasDoc, HasWork, Keep,
        TypeOK, locals, Results
<1>8. ASSUME DropSource(r) PROVE Goal
  BY <1>8, <1>0, <1>a, <1>b, <1>c, <1>d
    DEF DropSource, SourceDropped, Goal, Goto, ControlOf, HoldsOf, HasDoc, HasWork,
        Keep, TypeOK, locals, Results
<1>9. ASSUME Resolve(r) PROVE Goal
  BY <1>9, <1>0, <1>a, <1>b, <1>c, <1>d
    DEF Resolve, Goal, Goto, ControlOf, HoldsOf, HasDoc, HasWork, Keep, TypeOK,
        locals, Results
<1>10. ASSUME Upload(r) PROVE Goal
  BY <1>10, <1>0, <1>a, <1>b, <1>c, <1>d
    DEF Upload, Goal, Goto, ControlOf, HoldsOf, HasDoc, HasWork, Keep, TypeOK,
        locals, Results
<1>11. ASSUME InsertFile(r) PROVE Goal
  BY <1>11, <1>0, <1>a, <1>b, <1>c, <1>d
    DEF InsertFile, FileWritten, Goal, Goto, ControlOf, HoldsOf, HasDoc, HasWork,
        Keep, TypeOK, locals, Results
<1>12. ASSUME UndoUpload(r) PROVE Goal
  BY <1>12, <1>0, <1>a, <1>b, <1>c, <1>d
    DEF UndoUpload, Goal, Goto, ControlOf, HoldsOf, HasDoc, HasWork, Keep, TypeOK,
        locals, Results
<1>13. ASSUME ReadOrigin(r) PROVE Goal
  BY <1>13, <1>0, <1>a, <1>b, <1>c, <1>d
    DEF ReadOrigin, Goal, Goto, ControlOf, HoldsOf, HasDoc, HasWork, Keep, TypeOK,
        locals, Results
<1>14. ASSUME FindByName(r) PROVE Goal
  BY <1>14, <1>0, <1>a, <1>b, <1>c, <1>d, FileParts
    DEF FindByName, Goal, Goto, ControlOf, HoldsOf, HasDoc, HasWork, Keep, TypeOK,
        locals, Results, In, Named
<1>15. ASSUME GetFile(r) PROVE Goal
  <2>1. pc[r] = "file" /\ req[r].op \in {"download", "share", "deleteFiles"}
    BY <1>0, <1>15 DEF ControlOf, GetFile
  <2>2. ASSUME Finish(r, Worse(res[r], "absent")) PROVE Goal
    BY <1>a, <1>c, <2>2, WorseResult DEF Results
  <2>3. ASSUME NEW id \in todo[r], todo[r] \ {id} # {}, pc' = pc,
               todo' = [todo EXCEPT ![r] = @ \ {id}],
               doc' = doc, work' = work
        PROVE  Goal
    <3>1. req[r].op = "deleteFiles" 
      BY <1>0, <2>1, <2>3 DEF HoldsOf
    <3> QED
      BY <1>0, <1>a, <2>1, <2>3, <3>1
         DEF Goal, ControlOf, HoldsOf, HasDoc, HasWork
  <2>4. ASSUME NEW f \in files, f.bucket = req[r].bucket, Keep(r, f),
               Goto(r, AfterFile(req[r].op)), UNCHANGED <<res, work>>
        PROVE  Goal
    <3>1. f # None /\ doc'[r] = f /\ pc'[r] = AfterFile(req[r].op)
      BY <1>0, <2>4, FileParts DEF TypeOK, Keep, Goto
    <3> QED
      BY <1>0, <1>a, <2>1, <2>4, <3>1
         DEF Goal, ControlOf, HoldsOf, HasDoc, HasWork, AfterFile
  <2> QED
    BY <1>15, <2>2, <2>3, <2>4 DEF GetFile, In, Named
<1>16. ASSUME Stream(r) PROVE Goal
  BY <1>16, <1>0, <1>a, <1>b, <1>c, <1>d
    DEF Stream, Goal, Goto, ControlOf, HoldsOf, HasDoc, HasWork, Keep, TypeOK,
        locals, Results
<1>17. ASSUME InsertLink(r) PROVE Goal
  BY <1>17, <1>0, <1>a, <1>b, <1>c, <1>d
    DEF InsertLink, LinkWritten, Goal, Goto, ControlOf, HoldsOf, HasDoc, HasWork,
        Keep, TypeOK, locals, Results
<1>18. ASSUME Unlink(r) PROVE Goal
  BY <1>18, <1>0, <1>a, <1>b, <1>c, <1>d
    DEF Unlink, LinksDropped, OwnLinks, Goal, Goto, ControlOf, HoldsOf, HasDoc,
        HasWork, Keep, TypeOK, locals, Results
<1>19. ASSUME ReadLink(r) PROVE Goal
  BY <1>19, <1>0, <1>a, <1>b, <1>c, <1>d
    DEF ReadLink, Goal, Goto, ControlOf, HoldsOf, HasDoc, HasWork, Keep, TypeOK,
        locals, Results
<1>20. ASSUME ReadLinkedFile(r) PROVE Goal
  BY <1>20, <1>0, <1>a, <1>b, <1>c, <1>d, FileParts
    DEF ReadLinkedFile, Goal, Goto, ControlOf, HoldsOf, HasDoc, HasWork, Keep,
        TypeOK, locals, Results, Named
<1>21. ASSUME DropFileLinks(r) PROVE Goal
  BY <1>21, <1>0, <1>a, <1>b, <1>c, <1>d
    DEF DropFileLinks, LinksDropped, Goal, Goto, ControlOf, HoldsOf, HasDoc, HasWork,
        Keep, TypeOK, locals, Results
<1>22. ASSUME GetFileAgain(r) PROVE Goal
  BY <1>22, <1>0, <1>a, <1>b, <1>c, <1>d
    DEF GetFileAgain, Goal, Goto, ControlOf, HoldsOf, HasDoc, HasWork, Keep, TypeOK,
        locals, Results
<1>23. ASSUME DropFile(r) PROVE Goal
  BY <1>23, <1>0, <1>a, <1>b, <1>c, <1>d
    DEF DropFile, FilesDropped, Goal, Goto, ControlOf, HoldsOf, HasDoc, HasWork,
        Keep, TypeOK, locals, Results
<1>24. ASSUME CountReferences(r) PROVE Goal
  BY <1>24, <1>0, <1>a, <1>b, <1>c, <1>d
    DEF CountReferences, Goal, Goto, ControlOf, HoldsOf, HasDoc, HasWork, Keep,
        TypeOK, locals, Results, AfterFileDeleted
<1>25. ASSUME ReclaimFile(r) PROVE Goal
  BY <1>25, <1>0, <1>a, <1>b, <1>c, <1>d
    DEF ReclaimFile, Goal, Goto, ControlOf, HoldsOf, HasDoc, HasWork, Keep, TypeOK,
        locals, Results, AfterFileDeleted
<1>26. ASSUME DropLinks(r) PROVE Goal
  BY <1>26, <1>0, <1>a, <1>b, <1>c, <1>d
    DEF DropLinks, LinksDropped, Goal, Goto, ControlOf, HoldsOf, HasDoc, HasWork,
        Keep, TypeOK, locals, Results
<1>27. ASSUME ListFiles(r) PROVE Goal
  BY <1>27, <1>0, <1>a, <1>b, <1>c, <1>d
    DEF ListFiles, Goal, Goto, ControlOf, HoldsOf, HasDoc, HasWork, Keep, TypeOK,
        locals, Results
<1>28. ASSUME ListUploads(r) PROVE Goal
  BY <1>28, <1>0, <1>a, <1>b, <1>c, <1>d
    DEF ListUploads, Goal, Goto, ControlOf, HoldsOf, HasDoc, HasWork, Keep, TypeOK,
        locals, Results
<1>29. ASSUME DropFiles(r) PROVE Goal
  BY <1>29, <1>0, <1>a, <1>b, <1>c, <1>d
    DEF DropFiles, FilesDropped, Goal, Goto, ControlOf, HoldsOf, HasDoc, HasWork,
        Keep, TypeOK, locals, Results
<1>30. ASSUME DropUploads(r) PROVE Goal
  BY <1>30, <1>0, <1>a, <1>b, <1>c, <1>d
    DEF DropUploads, UploadsDropped, Goal, Goto, ControlOf, HoldsOf, HasDoc, HasWork,
        Keep, TypeOK, locals, Results
<1>31. ASSUME CountFilesElsewhere(r) PROVE Goal
  <2>1. CASE pc'[r] = "dropGrants" /\ doc' = doc /\ work' = work /\ work[r] = {}
    BY <1>0, <1>a, <1>31, <2>1
       DEF CountFilesElsewhere, Goal, ControlOf, HoldsOf, HasDoc, HasWork
  <2>2. CASE pc' = pc /\ doc' = doc
    BY <1>0, <1>a, <1>31, <2>2
       DEF CountFilesElsewhere, Goal, ControlOf, HoldsOf, HasDoc, HasWork
  <2>3. CASE pc'[r] = "countParts" /\ doc'[r] # None
             /\ doc'[r].bucket = req[r].bucket
    BY <1>0, <1>a, <1>31, <2>3
       DEF CountFilesElsewhere, Goal, ControlOf, HoldsOf, HasDoc, HasWork
  <2>4. ASSUME NEW c \in work[r]
        PROVE  [id |-> c[1], bucket |-> req[r].bucket, chunk |-> c] # None
    BY <2>4, <1>0, NamesAssumption, ChunkParts DEF File, TypeOK, Request
  <2> QED
    BY <1>31, <1>0, <2>1, <2>2, <2>3, <2>4
       DEF CountFilesElsewhere, Goto, Keep, TypeOK
<1>32. ASSUME CountPartsElsewhere(r) PROVE Goal
  BY <1>32, <1>0, <1>a, <1>b, <1>c, <1>d
    DEF CountPartsElsewhere, Goal, Goto, ControlOf, HoldsOf, HasDoc, HasWork, Keep,
        TypeOK, locals, Results
<1>33. ASSUME ReclaimContents(r) PROVE Goal
  BY <1>33, <1>0, <1>a, <1>b, <1>c, <1>d
    DEF ReclaimContents, Goal, Goto, ControlOf, HoldsOf, HasDoc, HasWork, Keep,
        TypeOK, locals, Results
<1>34. ASSUME DropGrants(r) PROVE Goal
  BY <1>34, <1>0, <1>a, <1>b, <1>c, <1>d
    DEF DropGrants, GrantsRewritten, Goal, Goto, ControlOf, HoldsOf, HasDoc, HasWork,
        Keep, TypeOK, locals, Results
<1>35. ASSUME DropBucket(r) PROVE Goal
  BY <1>35, <1>0, <1>a, <1>b, <1>c, <1>d
    DEF DropBucket, BucketDropped, Goal, Goto, ControlOf, HoldsOf, HasDoc, HasWork,
        Keep, TypeOK, locals, Results
<1>36. ASSUME InsertGrant(r) PROVE Goal
  BY <1>36, <1>0, <1>a, <1>b, <1>c, <1>d
    DEF InsertGrant, GrantWritten, Goal, Goto, ControlOf, HoldsOf, HasDoc, HasWork,
        Keep, TypeOK, locals, Results
<1>37. ASSUME UpdateGrant(r) PROVE Goal
  BY <1>37, <1>0, <1>a, <1>b, <1>c, <1>d
    DEF UpdateGrant, GrantsRewritten, Goal, Goto, ControlOf, HoldsOf, HasDoc,
        HasWork, Keep, TypeOK, locals, Results
<1>38. ASSUME DropGrant(r) PROVE Goal
  BY <1>38, <1>0, <1>a, <1>b, <1>c, <1>d
    DEF DropGrant, GrantsRewritten, Goal, Goto, ControlOf, HoldsOf, HasDoc, HasWork,
        Keep, TypeOK, locals, Results
<1> QED
  BY <1>1, <1>2, <1>3, <1>4, <1>5, <1>6, <1>7, <1>8, <1>9, <1>10, <1>11, <1>12,
     <1>13, <1>14, <1>15, <1>16, <1>17, <1>18, <1>19, <1>20, <1>21, <1>22, <1>23,
     <1>24, <1>25, <1>26, <1>27, <1>28, <1>29, <1>30, <1>31, <1>32, <1>33, <1>34,
     <1>35, <1>36, <1>37, <1>38
    DEF Handle

\* The types of the catalog and of what the providers store, after the step.
CatalogTypeOK ==
  /\ sources' \subseteq Sources
  /\ buckets' \in [Buckets -> Bucket]
  /\ files' \subseteq File
  /\ uploads' \subseteq File
  /\ links' \subseteq Link
  /\ grants' \subseteq Grant
  /\ store' \subseteq Chunk \cup {Stray}

\* Each step keeps the types of the catalog.
LEMMA HandleCatalogTypes ==
  ASSUME TypeInv, NEW r \in Requests, Handle(r)
  PROVE  CatalogTypeOK
<1>1. /\ ControlOf(r) /\ HoldsOf(r) /\ TypeOK /\ Writers(r)
      /\ pc[r] # "idle" /\ r \in Ids
  BY Others, HandleWriters DEF OthersKept, Active, TypeInv, Flow, Ids
<1>2. /\ req[r].bucket \in Buckets /\ req[r].user \in {Owner, Guest}
      /\ req[r].sources \subseteq Sources /\ req[r].role \in Roles
      /\ buckets[req[r].bucket] \in Bucket
      /\ buckets[req[r].bucket].sources \subseteq Sources
  BY <1>1, RequestParts DEF TypeOK, Bucket
<1>3. sources' \subseteq Sources
  BY <1>1 DEF Writers, SourceDropped, TypeOK
<1>4. buckets' \in [Buckets -> Bucket]
  <2> DEFINE b == req[r].bucket
  <2>1. CASE BucketWritten(r)
    <3>1. [state |-> "live", sources |-> req[r].sources, by |-> r] \in Bucket
      BY <1>1, <1>2 DEF Bucket
    <3> QED
      BY <1>1, <1>2, <2>1, <3>1 DEF BucketWritten, TypeOK
  <2>2. CASE BucketDropped(r)
    <3>1. [buckets[b] EXCEPT !.state = "gone"] \in Bucket
      BY <1>2 DEF Contents, Bucket
    <3> QED
      BY <1>1, <1>2, <2>2, <3>1 DEF BucketDropped, TypeOK
  <2>3. CASE ~BucketWritten(r) /\ ~BucketDropped(r)
    BY <1>1, <2>3 DEF Writers, TypeOK
  <2> QED
    BY <2>1, <2>2, <2>3
<1>5. files' \subseteq File
  <2>1. CASE FileWritten(r)
    <3> DEFINE c == IF req[r].op = "copy" THEN doc[r].chunk
                    ELSE CHOOSE c \in work[r] : TRUE
    <3>1. c \in Chunk
      <4>1. CASE req[r].op = "copy"
        BY <1>1, <2>1, <4>1, FileParts
          DEF FileWritten, HoldsOf, HasDoc, TypeOK
      <4>2. CASE req[r].op # "copy"
        <5>1. work[r] # {} /\ work[r] \subseteq Chunk
          BY <1>1, <2>1, <4>2 DEF FileWritten, HoldsOf, ControlOf, TypeOK
        <5> QED
          BY <4>2, <5>1
      <4> QED
        BY <4>1, <4>2
    <3>2. [id |-> r, bucket |-> req[r].bucket, chunk |-> c] \in File
      BY <1>1, <1>2, <3>1 DEF File
    <3>3. files' = files \cup {[id |-> r, bucket |-> req[r].bucket, chunk |-> c]}
      BY <2>1 DEF FileWritten
    <3> QED
      BY <1>1, <3>2, <3>3 DEF TypeOK
  <2>2. CASE ~FileWritten(r)
    BY <1>1, <2>2 DEF Writers, FilesDropped, TypeOK
  <2> QED
    BY <2>1, <2>2
<1>6. uploads' \subseteq File
  BY <1>1 DEF Writers, UploadsDropped, TypeOK
<1>7. links' \subseteq Link
  <2>1. CASE LinkWritten(r)
    <3>1. doc[r].id \in Ids
      BY <1>1, <2>1, FileParts DEF LinkWritten, HoldsOf, HasDoc, TypeOK
    <3> QED
      BY <1>1, <1>2, <2>1, <3>1 DEF LinkWritten, Link, TypeOK
  <2>2. CASE ~LinkWritten(r)
    BY <1>1, <2>2
      DEF Writers, LinksDropped, OwnLinks, TypeOK
  <2> QED
    BY <2>1, <2>2
<1>8. grants' \subseteq Grant
  <2>1. CASE GrantsRewritten(r)
    BY <1>1, <1>2, <2>1
      DEF GrantsRewritten, FoundGrants, In, Named, Grant, TypeOK
  <2>2. CASE GrantWritten(r)
    BY <1>1, <1>2, <2>2 DEF GrantWritten, Grant, TypeOK
  <2>3. CASE ~GrantsRewritten(r) /\ ~GrantWritten(r)
    BY <1>1, <2>3 DEF Writers, GrantsRewritten, TypeOK
  <2> QED
    BY <2>1, <2>2, <2>3
<1>9. store' \subseteq Chunk \cup {Stray}
  <2>1. CASE Upload(r)
    BY <1>1, <1>2, <2>1 DEF Upload, Left, Chunk, TypeOK
  <2>2. CASE ~Upload(r)
    BY <1>1, <2>2
       DEF Writers, UndoUpload, ReclaimFile, ReclaimContents, ChunkDeleted,
           ChunkKept, TypeOK
  <2> QED
    BY <2>1, <2>2
<1> QED
  BY <1>3, <1>4, <1>5, <1>6, <1>7, <1>8, <1>9 DEF CatalogTypeOK

\* What every request asked for looks like.
Shape(q) ==
  /\ q \in Request
  /\ q.op # "copy" => q.from = q.bucket
  /\ q.op \in {"createBucket", "deleteSource"} => q.user = Owner
  /\ q.op \in {"download", "share"} => \E id \in Ids : q.ids = {id}

LEMMA AskedShape ==
  ASSUME TypeOK, NEW q \in Asked
  PROVE  Shape(q)
<1> DEFINE  S3 == {[Ask("createBucket", Owner, b) EXCEPT !.sources = S] :
                  b \in {c \in Buckets : buckets[c].state = "unborn"},
                  S \in (SUBSET Sources) \ {{}}}
           S4 == {[Ask("deleteSource", Owner, Home) EXCEPT !.sources = {s}] : s \in sources}
           S5 == {Ask(op, u, b) : op \in {"deleteBucket", "put"}, u \in Users, b \in Known}
           S6 == {AskCopy(b, f) : b \in Known, f \in files}
           S7 == {AskFor("deleteObject", Owner, f.bucket, {f.id}) : f \in files}
           S8 == {AskFor(op, u, b, i) : op \in {"download", "share"}, u \in Users,
                 b \in Known, i \in IdsOf(files)}
           S9 == {AskFor("deleteFiles", u, b, {f.id, g.id}) : u \in Users,
                 b \in Known, f \in files, g \in files}
           S10 == {AskFor(op, u, Home, i) : op \in {"unshare", "read"}, u \in Users,
                  i \in IdsOf(links)}
           S11 == {[Ask("grant", u, b) EXCEPT !.role = role] : u \in Users,
                  b \in Known, role \in Roles}
           S12 == {[AskFor("setRole", u, b, i) EXCEPT !.role = role] : u \in Users,
                  b \in Known, i \in IdsOf(grants), role \in Roles}
           S13 == {AskFor("revoke", u, b, i) : u \in Users, b \in Known,
                  i \in IdsOf(grants)}
<1> HIDE DEF S3, S4, S5, S6, S7, S8, S9, S10, S11, S12, S13
<1>1. /\ \A f \in files : f.id \in Ids /\ f.bucket \in Buckets
      /\ Known \subseteq Buckets /\ Home \in Buckets
      /\ sources \subseteq Sources /\ Users = {Owner, Guest}
  BY ConstantsAssumption DEF TypeOK, File, Known, Users
<1>2. /\ \A i \in IdsOf(files) : i \in SUBSET Ids /\ \E id \in Ids : i = {id}
      /\ \A i \in IdsOf(links) : i \in SUBSET Ids
      /\ \A i \in IdsOf(grants) : i \in SUBSET Ids
  BY DEF TypeOK, IdsOf, File, Link, Grant
<1>3. CASE q \in S3
  <2>0. PICK b \in {c \in Buckets : buckets[c].state = "unborn"},
             S \in (SUBSET Sources) \ {{}} :
               q = [Ask("createBucket", Owner, b) EXCEPT !.sources = S]
    BY <1>3 DEF S3
  <2>1. q = [op |-> "createBucket", user |-> Owner, bucket |-> b, from |-> b,
             ids |-> {}, sources |-> S, role |-> "viewer"]
    BY <2>0 DEF Ask, AskFor, AskCopy
  <2>2. /\ "createBucket" \in AllOps /\ Owner \in {Owner, Guest}
        /\ b \in Buckets /\ b \in Buckets
        /\ {} \in SUBSET Ids /\ S \in SUBSET Sources /\ "viewer" \in Roles
    BY <1>1 DEF AllOps, Roles
  <2>3. q \in Request
    BY <2>1, <2>2 DEF Request
  <2> QED
    BY <1>1, <2>1, <2>3 DEF Shape
<1>4. CASE q \in S4
  <2>0. PICK s \in sources : q = [Ask("deleteSource", Owner, Home) EXCEPT !.sources = {s}]
    BY <1>4 DEF S4
  <2>1. q = [op |-> "deleteSource", user |-> Owner, bucket |-> Home, from |-> Home,
             ids |-> {}, sources |-> {s}, role |-> "viewer"]
    BY <2>0 DEF Ask, AskFor, AskCopy
  <2>2. /\ "deleteSource" \in AllOps /\ Owner \in {Owner, Guest}
        /\ Home \in Buckets /\ Home \in Buckets
        /\ {} \in SUBSET Ids /\ {s} \in SUBSET Sources /\ "viewer" \in Roles
    BY <1>1 DEF AllOps, Roles
  <2>3. q \in Request
    BY <2>1, <2>2 DEF Request
  <2> QED
    BY <1>1, <2>1, <2>3 DEF Shape
<1>5. CASE q \in S5
  <2>0. PICK op \in {"deleteBucket", "put"}, u \in Users, b \in Known : q = Ask(op, u, b)
    BY <1>5 DEF S5
  <2>1. q = [op |-> op, user |-> u, bucket |-> b, from |-> b, ids |-> {},
             sources |-> {}, role |-> "viewer"]
    BY <2>0 DEF Ask, AskFor, AskCopy
  <2>2. /\ op \in AllOps /\ u \in {Owner, Guest}
        /\ b \in Buckets /\ b \in Buckets
        /\ {} \in SUBSET Ids /\ {} \in SUBSET Sources /\ "viewer" \in Roles
    BY <1>1 DEF AllOps, Roles
  <2>3. q \in Request
    BY <2>1, <2>2 DEF Request
  <2> QED
    BY <1>1, <2>1, <2>3 DEF Shape
<1>6. CASE q \in S6
  <2>0. PICK b \in Known, f \in files : q = AskCopy(b, f)
    BY <1>6 DEF S6
  <2>1. q = [op |-> "copy", user |-> Owner, bucket |-> b, from |-> f.bucket,
             ids |-> {f.id}, sources |-> {}, role |-> "viewer"]
    BY <2>0 DEF Ask, AskFor, AskCopy
  <2>2. /\ "copy" \in AllOps /\ Owner \in {Owner, Guest}
        /\ b \in Buckets /\ f.bucket \in Buckets
        /\ {f.id} \in SUBSET Ids /\ {} \in SUBSET Sources /\ "viewer" \in Roles
    BY <1>1 DEF AllOps, Roles
  <2>3. q \in Request
    BY <2>1, <2>2 DEF Request
  <2> QED
    BY <1>1, <2>1, <2>3 DEF Shape
<1>7. CASE q \in S7
  <2>0. PICK f \in files : q = AskFor("deleteObject", Owner, f.bucket, {f.id})
    BY <1>7 DEF S7
  <2>1. q = [op |-> "deleteObject", user |-> Owner, bucket |-> f.bucket,
             from |-> f.bucket, ids |-> {f.id}, sources |-> {}, role |-> "viewer"]
    BY <2>0 DEF Ask, AskFor, AskCopy
  <2>2. /\ "deleteObject" \in AllOps /\ Owner \in {Owner, Guest}
        /\ f.bucket \in Buckets /\ f.bucket \in Buckets
        /\ {f.id} \in SUBSET Ids /\ {} \in SUBSET Sources /\ "viewer" \in Roles
    BY <1>1 DEF AllOps, Roles
  <2>3. q \in Request
    BY <2>1, <2>2 DEF Request
  <2> QED
    BY <1>1, <2>1, <2>3 DEF Shape
<1>8. CASE q \in S8
  <2>0. PICK op \in {"download", "share"}, u \in Users, b \in Known,
             i \in IdsOf(files) : q = AskFor(op, u, b, i)
    BY <1>8 DEF S8
  <2>1. q = [op |-> op, user |-> u, bucket |-> b, from |-> b, ids |-> i,
             sources |-> {}, role |-> "viewer"]
    BY <2>0 DEF Ask, AskFor, AskCopy
  <2>2. /\ op \in AllOps /\ u \in {Owner, Guest}
        /\ b \in Buckets /\ b \in Buckets
        /\ i \in SUBSET Ids /\ {} \in SUBSET Sources /\ "viewer" \in Roles
    BY <1>1, <1>2 DEF AllOps, Roles
  <2>3. q \in Request
    BY <2>1, <2>2 DEF Request
  <2> QED
    BY <1>1, <1>2, <2>1, <2>3 DEF Shape
<1>9. CASE q \in S9
  <2>0. PICK u \in Users, b \in Known, f \in files, g \in files :
             q = AskFor("deleteFiles", u, b, {f.id, g.id})
    BY <1>9 DEF S9
  <2>1. q = [op |-> "deleteFiles", user |-> u, bucket |-> b, from |-> b,
             ids |-> {f.id, g.id}, sources |-> {}, role |-> "viewer"]
    BY <2>0 DEF Ask, AskFor, AskCopy
  <2>2. /\ "deleteFiles" \in AllOps /\ u \in {Owner, Guest}
        /\ b \in Buckets /\ b \in Buckets
        /\ {f.id, g.id} \in SUBSET Ids /\ {} \in SUBSET Sources /\ "viewer" \in Roles
    BY <1>1 DEF AllOps, Roles
  <2>3. q \in Request
    BY <2>1, <2>2 DEF Request
  <2> QED
    BY <1>1, <2>1, <2>3 DEF Shape
<1>10. CASE q \in S10
  <2>0. PICK op \in {"unshare", "read"}, u \in Users, i \in IdsOf(links) :
             q = AskFor(op, u, Home, i)
    BY <1>10 DEF S10
  <2>1. q = [op |-> op, user |-> u, bucket |-> Home, from |-> Home, ids |-> i,
             sources |-> {}, role |-> "viewer"]
    BY <2>0 DEF Ask, AskFor, AskCopy
  <2>2. /\ op \in AllOps /\ u \in {Owner, Guest}
        /\ Home \in Buckets /\ Home \in Buckets
        /\ i \in SUBSET Ids /\ {} \in SUBSET Sources /\ "viewer" \in Roles
    BY <1>1, <1>2 DEF AllOps, Roles
  <2>3. q \in Request
    BY <2>1, <2>2 DEF Request
  <2> QED
    BY <1>1, <1>2, <2>1, <2>3 DEF Shape
<1>11. CASE q \in S11
  <2>0. PICK u \in Users, b \in Known, role \in Roles : q = [Ask("grant", u,
             b) EXCEPT !.role = role]
    BY <1>11 DEF S11
  <2>1. q = [op |-> "grant", user |-> u, bucket |-> b, from |-> b, ids |-> {},
             sources |-> {}, role |-> role]
    BY <2>0 DEF Ask, AskFor, AskCopy
  <2>2. /\ "grant" \in AllOps /\ u \in {Owner, Guest}
        /\ b \in Buckets /\ b \in Buckets
        /\ {} \in SUBSET Ids /\ {} \in SUBSET Sources /\ role \in Roles
    BY <1>1 DEF AllOps, Roles
  <2>3. q \in Request
    BY <2>1, <2>2 DEF Request
  <2> QED
    BY <1>1, <2>1, <2>3 DEF Shape
<1>12. CASE q \in S12
  <2>0. PICK u \in Users, b \in Known, i \in IdsOf(grants), role \in Roles :
             q = [AskFor("setRole", u, b, i) EXCEPT !.role = role]
    BY <1>12 DEF S12
  <2>1. q = [op |-> "setRole", user |-> u, bucket |-> b, from |-> b, ids |-> i,
             sources |-> {}, role |-> role]
    BY <2>0 DEF Ask, AskFor, AskCopy
  <2>2. /\ "setRole" \in AllOps /\ u \in {Owner, Guest}
        /\ b \in Buckets /\ b \in Buckets
        /\ i \in SUBSET Ids /\ {} \in SUBSET Sources /\ role \in Roles
    BY <1>1, <1>2 DEF AllOps, Roles
  <2>3. q \in Request
    BY <2>1, <2>2 DEF Request
  <2> QED
    BY <1>1, <1>2, <2>1, <2>3 DEF Shape
<1>13. CASE q \in S13
  <2>0. PICK u \in Users, b \in Known, i \in IdsOf(grants) : q = AskFor("revoke", u, b, i)
    BY <1>13 DEF S13
  <2>1. q = [op |-> "revoke", user |-> u, bucket |-> b, from |-> b, ids |-> i,
             sources |-> {}, role |-> "viewer"]
    BY <2>0 DEF Ask, AskFor, AskCopy
  <2>2. /\ "revoke" \in AllOps /\ u \in {Owner, Guest}
        /\ b \in Buckets /\ b \in Buckets
        /\ i \in SUBSET Ids /\ {} \in SUBSET Sources /\ "viewer" \in Roles
    BY <1>1, <1>2 DEF AllOps, Roles
  <2>3. q \in Request
    BY <2>1, <2>2 DEF Request
  <2> QED
    BY <1>1, <1>2, <2>1, <2>3 DEF Shape
<1>20. Asked = S3 \cup S4 \cup S5 \cup S6 \cup S7 \cup S8 \cup S9 \cup S10 \cup
       S11 \cup S12 \cup S13
  BY DEF Asked, S3, S4, S5, S6, S7, S8, S9, S10, S11, S12, S13
<1> QED
  BY <1>20, <1>3, <1>4, <1>5, <1>6, <1>7, <1>8, <1>9, <1>10, <1>11, <1>12, <1>13

\* What the start of r writes: its own request and its first step.
Begins(r) ==
  /\ pc[r] = "idle"
  /\ doc' = doc /\ work' = work /\ res' = res
  /\ UNCHANGED catalog /\ store' = store
  /\ \A q \in Requests \ {r} : pc'[q] = pc[q] /\ req'[q] = req[q] /\ todo'[q] = todo[q]
  /\ Shape(req'[r])
  /\ pc'[r] = Entry(req'[r].op)
  /\ pc'[r] = "load" => todo'[r] = req'[r].sources
  /\ pc'[r] = "bucket" => todo'[r] = req'[r].ids

\* The steps at which requests enter.
LEMMA EntrySteps ==
  ASSUME NEW op \in AllOps
  PROVE  /\ Entry(op) \in {"load", "references", "unlink", "link", "bucket"}
         /\ Entry(op) = "load" <=> op = "createBucket"
         /\ Entry(op) = "references" <=> op = "deleteSource"
         /\ Entry(op) = "unlink" <=> op = "unshare"
         /\ Entry(op) = "link" <=> op = "read"
BY DEF Entry, AllOps

LEMMA StartBegins ==
  ASSUME TypeInv, NEW r \in Requests, Start(r)
  PROVE  /\ Begins(r)
         /\ ControlOf(r)' /\ HoldsOf(r)'
         /\ req' = [req EXCEPT ![r] = req'[r]]
         /\ pc' \in [Requests -> Steps]
         /\ todo' \in [Requests -> SUBSET (Ids \cup Sources)]
<1>1. TypeOK /\ ControlOf(r) /\ HoldsOf(r) /\ pc[r] = "idle"
  BY DEF TypeInv, Flow, Start
<1>2. PICK q \in Asked :
         /\ req' = [req EXCEPT ![r] = q]
         /\ Goto(r, Entry(q.op))
         /\ todo' = [todo EXCEPT ![r] =
                       IF q.op = "createBucket" THEN q.sources ELSE q.ids]
  BY DEF Start
<1>3. Shape(q) /\ q \in Request /\ q.op \in AllOps /\ q.sources \subseteq Sources /\
      q.ids \subseteq Ids
  BY <1>1, AskedShape DEF Shape, Request
<1>4. /\ req'[r] = q /\ pc'[r] = Entry(q.op)
      /\ todo'[r] = IF q.op = "createBucket" THEN q.sources ELSE q.ids
      /\ pc' \in [Requests -> Steps]
      /\ todo' \in [Requests -> SUBSET (Ids \cup Sources)]
      /\ \A p \in Requests \ {r} : pc'[p] = pc[p] /\ req'[p] = req[p] /\ todo'[p] = todo[p]
  BY <1>1, <1>2, <1>3, EntrySteps DEF TypeOK, Goto, Steps
<1>5. doc' = doc /\ work' = work /\ res' = res /\ UNCHANGED catalog /\ store' = store
  BY DEF Start
<1>6. Begins(r)
  BY <1>1, <1>3, <1>4, <1>5, EntrySteps DEF Begins
<1>7. doc[r] = None /\ work[r] = {} /\ res[r] = "none"
  BY <1>1 DEF ControlOf, HoldsOf, HasDoc, HasWork
<1>8. ControlOf(r)'
  BY <1>3, <1>4, <1>5, <1>7, EntrySteps DEF ControlOf
<1>9. HoldsOf(r)'
  BY <1>3, <1>4, <1>5, <1>7, EntrySteps DEF HoldsOf, HasDoc, HasWork, Shape
<1> QED
  BY <1>2, <1>4, <1>6, <1>8, <1>9

\* The history that is noted in every step is of its sort.
LEMMA NotesTypes ==
  ASSUME TypeOK, NoteEntitled, NoteCopies, files' \subseteq File
  PROVE  /\ may' \in [Requests -> BOOLEAN]
         /\ torn' \subseteq Chunk
<1>1. may' \in [Requests -> BOOLEAN]
  BY DEF NoteEntitled
<1>2. Chunks({f \in files' \ files : /\ req[f.id].op = "copy"
                                     /\ \E q \in met[f.id] : Deletes(q)}) \subseteq Chunk
  BY ChunksOfFiles
<1> QED
  BY <1>1, <1>2 DEF TypeOK, NoteCopies

\* Flow of a request the step leaves alone.
LEMMA OthersFlow ==
  ASSUME TypeInv, NEW r \in Requests, NEW q \in Requests \ {r}, Untouched(q),
         req'[q] = req[q]
  PROVE  ControlOf(q)' /\ HoldsOf(q)'
BY DEF TypeInv, Flow, Untouched, ControlOf, HoldsOf, HasDoc, HasWork

LEMMA TypeInvStart ==
  ASSUME TypeInv, NEW r \in Requests, Start(r), NoteEntitled, NoteCopies
  PROVE  TypeInv'
<1>1. TypeOK /\ Begins(r) /\ ControlOf(r)' /\ HoldsOf(r)'
      /\ pc' \in [Requests -> Steps]
      /\ todo' \in [Requests -> SUBSET (Ids \cup Sources)]
      /\ req' = [req EXCEPT ![r] = req'[r]]
  BY StartBegins DEF TypeInv
<1>2. \A q \in Requests : ControlOf(q)' /\ HoldsOf(q)'
  BY <1>1, OthersFlow DEF Begins, Untouched
<1>3. may' \in [Requests -> BOOLEAN] /\ torn' \subseteq Chunk
  BY <1>1, NotesTypes DEF TypeOK, Begins, catalog
<1>4. req'[r] \in Request /\ pc'[r] # "idle" /\ req'[r] # None
  BY <1>1, EntrySteps, NamesAssumption DEF Begins, Shape, Request
<1>5. met' \in [Requests -> SUBSET Requests]
  BY <1>1 DEF Start, TypeOK
<1>6. DOMAIN req' = Requests
  BY <1>1 DEF TypeOK
<1>7. \A q \in Requests : IF pc'[q] = "idle" THEN req'[q] = None ELSE req'[q] \in Request
  BY <1>1, <1>4 DEF TypeOK, Begins
<1> QED
  BY <1>1, <1>2, <1>3, <1>5, <1>6, <1>7 DEF TypeInv, TypeOK, Flow, Begins, catalog

LEMMA TypeInvHandle ==
  ASSUME TypeInv, NEW r \in Requests, Handle(r), UNCHANGED met,
         NoteEntitled, NoteCopies
  PROVE  TypeInv'
<1>1. TypeOK /\ OthersKept(r) /\ CatalogTypeOK /\ LocalTypes(r)
      /\ ControlOf(r)' /\ HoldsOf(r)'
  BY Others, HandleCatalogTypes, HandleLocalTypes, HandleFlow DEF TypeInv
<1>2. \A q \in Requests : ControlOf(q)' /\ HoldsOf(q)'
  BY <1>1, OthersFlow DEF OthersKept
<1>3. may' \in [Requests -> BOOLEAN] /\ torn' \subseteq Chunk
  BY <1>1, NotesTypes DEF TypeOK, CatalogTypeOK
<1>4. \A q \in Requests : IF pc'[q] = "idle" THEN req'[q] = None ELSE req'[q] \in Request
  BY <1>1 DEF TypeOK, OthersKept, Untouched, LocalTypes, Active
<1> QED
  BY <1>1, <1>2, <1>3, <1>4
     DEF TypeInv, TypeOK, Flow, OthersKept, LocalTypes, LocalTypeOK, CatalogTypeOK

LEMMA TypeInvExpires ==
  ASSUME TypeInv, LinkExpires, NoteEntitled, NoteCopies
  PROVE  TypeInv'
<1>1. links' \subseteq Link
  BY DEF LinkExpires, TypeInv, TypeOK, Link
<1>2. may' \in [Requests -> BOOLEAN] /\ torn' \subseteq Chunk
  BY NotesTypes DEF TypeInv, TypeOK, LinkExpires
<1> QED
  BY <1>1, <1>2
     DEF LinkExpires, locals, TypeInv, TypeOK, Flow, ControlOf, HoldsOf, HasDoc, HasWork

LEMMA TypeInvInit == Init => TypeInv
<1> SUFFICES ASSUME Init PROVE TypeInv
  OBVIOUS
<1>1. Flow
  BY DEF Init, Flow, ControlOf, HoldsOf, HasDoc, HasWork
<1>2. PICK home \in Sources, copied \in {Home} \cup Buckets, role \in Roles :
        Contents(home, copied, role)
  BY DEF Init
<1>3. {"file", "copy", "part", "link",
      "grant"} \subseteq Ids /\ Home \in Buckets /\ copied \in Buckets
  BY ConstantsAssumption DEF Ids, Old
<1>4. buckets \in [Buckets -> Bucket] /\ sources \subseteq Sources
  BY <1>2 DEF Contents, Bucket
<1>5. <<"file", home>> \in Chunk /\ <<"part", home>> \in Chunk
  BY <1>3 DEF Chunk
<1>6. files \subseteq File /\ uploads \subseteq File /\ store \subseteq Chunk
  BY <1>2, <1>3, <1>5 DEF Contents, File
<1>7. links \subseteq Link /\ grants \subseteq Grant
  BY <1>2, <1>3 DEF Contents, Link, Grant
<1> QED
  BY <1>1, <1>4, <1>6, <1>7 DEF Init, TypeInv, TypeOK, Steps, Results

(***************************************************************************)
(* A step is the start of a request, a step of one, the passing of a       *)
(* link's deadline, or none.                                               *)
(***************************************************************************)
LEMMA NextCases ==
  ASSUME [Next]_vars
  PROVE  \/ \E r \in Requests : Start(r) /\ NoteEntitled /\ NoteCopies
         \/ \E r \in Requests :
              Handle(r) /\ UNCHANGED met /\ NoteEntitled /\ NoteCopies
         \/ LinkExpires /\ NoteEntitled /\ NoteCopies
         \/ UNCHANGED vars
BY DEF Next, Step, AllServed

\* TypeInv is inductive.
LEMMA TypeInvStep == TypeInv /\ [Next]_vars => TypeInv'
<1>1. ASSUME TypeInv, UNCHANGED vars PROVE TypeInv'
  BY <1>1
    DEF vars, catalog, locals, TypeInv, TypeOK, Flow, ControlOf, HoldsOf, HasDoc,
        HasWork
<1> QED
  BY <1>1, NextCases, TypeInvStart, TypeInvHandle, TypeInvExpires

\* TypeOK holds in every reachable state.
THEOREM TypeCorrect == Spec => []TypeOK
<1>1. TypeInv => TypeOK
  BY DEF TypeInv
<1> QED
  BY <1>1, TypeInvInit, TypeInvStep, PTL DEF Spec

(***************************************************************************)
(* The history of who was served beside whom. Requests that are being      *)
(* served together have met, and meeting is mutual.                        *)
(***************************************************************************)
Beside ==
  \A r \in Requests :
    /\ \A q \in met[r] : /\ q # r /\ r \in met[q]
                         /\ pc[q] # "idle" /\ pc[r] # "idle"
    /\ \A q \in Requests \ {r} : Active(r) /\ Active(q) => q \in met[r]

LEMMA BesideInit == Init => Beside
BY DEF Init, Beside, Active

\* What is asked and who was met is never taken back.
LEMMA Persistence ==
  ASSUME TypeInv, Beside, [Next]_vars
  PROVE  /\ torn \subseteq torn'
         /\ \A r \in Requests : /\ met[r] \subseteq met'[r]
                                /\ pc[r] # "idle" => pc'[r] # "idle" /\ req'[r] = req[r]
                                /\ pc[r] = "done" => Untouched(r)
<1>0. TypeOK
  BY DEF TypeInv
<1>1. ASSUME NEW r \in Requests, Start(r), NoteCopies
      PROVE  torn \subseteq torn' /\ \A q \in Requests :
                    /\ met[q] \subseteq met'[q]
                    /\ pc[q] # "idle" => pc'[q] # "idle" /\ req'[q] = req[q]
                    /\ pc[q] = "done" => Untouched(q)
  <2>1. Begins(r)
    BY <1>1, StartBegins
  <2>2. met[r] = {}
    BY <2>1 DEF Begins, Beside
  <2>3. \A q \in Requests : met[q] \subseteq met'[q]
    BY <1>0, <1>1, <2>2 DEF Start, TypeOK
  <2> QED
    BY <1>0, <1>1, <2>1, <2>3 DEF Begins, NoteCopies, Untouched
<1>2. ASSUME NEW r \in Requests, Handle(r), UNCHANGED met, NoteCopies
      PROVE  torn \subseteq torn' /\ \A q \in Requests :
                    /\ met[q] \subseteq met'[q]
                    /\ pc[q] # "idle" => pc'[q] # "idle" /\ req'[q] = req[q]
                    /\ pc[q] = "done" => Untouched(q)
  BY <1>0, <1>2, Others, HandleLocalTypes
     DEF OthersKept, Active, LocalTypes, Untouched, NoteCopies
<1>3. ASSUME LinkExpires \/ UNCHANGED vars, NoteCopies \/ UNCHANGED vars
      PROVE  torn \subseteq torn' /\ \A q \in Requests :
                    /\ met[q] \subseteq met'[q]
                    /\ pc[q] # "idle" => pc'[q] # "idle" /\ req'[q] = req[q]
                    /\ pc[q] = "done" => Untouched(q)
  BY <1>3 DEF LinkExpires, vars, locals, catalog, NoteCopies, Untouched
<1> QED
  BY <1>1, <1>2, <1>3, NextCases

\* Beside is inductive.
LEMMA BesideStep == TypeInv /\ Beside /\ [Next]_vars => Beside'
<1> SUFFICES ASSUME TypeInv, Beside, [Next]_vars PROVE Beside'
  OBVIOUS
<1>0. TypeOK /\ (\A q \in Requests : met[q] \subseteq Requests)
  BY DEF TypeInv, TypeOK
<1>1. ASSUME NEW r \in Requests, Start(r), Begins(r) PROVE Beside'
  <2> DEFINE others == {q \in Requests : Active(q)}
  <2>1. /\ met'[r] = others
        /\ \A q \in Requests \ {r} :
             met'[q] = IF q \in others THEN met[q] \cup {r} ELSE met[q]
    BY <1>1, <1>0 DEF Start
  <2>2. /\ r \notin others /\ met[r] = {} /\ (\A q \in Requests : r \notin met[q])
        /\ pc'[r] # "idle" /\ pc'[r] # "done"
        /\ \A q \in Requests \ {r} : pc'[q] = pc[q]
    <3>1. req'[r].op \in AllOps
      BY <1>1 DEF Begins, Shape, Request
    <3> QED
      BY <1>1, <3>1, EntrySteps DEF Begins, Beside, Active
  <2>3. ASSUME NEW q \in Requests, NEW p \in met'[q]
        PROVE  p # q /\ q \in met'[p] /\ pc'[p] # "idle" /\ pc'[q] # "idle"
    <3>1. CASE q = r
      BY <1>0, <2>1, <2>2, <2>3, <3>1 DEF Active
    <3>2. CASE q # r /\ p = r
      BY <1>0, <2>1, <2>2, <2>3, <3>2 DEF Active
    <3>3. CASE q # r /\ p # r
      <4>1. p \in met[q] /\ p \in Requests
        BY <1>0, <2>1, <2>3, <3>3
      <4> QED
        <5>1. p # q /\ q \in met[p] /\ pc[p] # "idle" /\ pc[q] # "idle"
          BY <4>1 DEF Beside
        <5> QED
          BY <2>1, <2>2, <3>3, <4>1, <5>1
    <3> QED
      BY <3>1, <3>2, <3>3
  <2>4. ASSUME NEW q \in Requests, NEW p \in Requests \ {q},
               Active(q)', Active(p)'
        PROVE  p \in met'[q]
    <3>1. CASE q = r
      BY <2>1, <2>2, <2>4, <3>1 DEF Active
    <3>2. CASE q # r /\ p = r
      BY <2>1, <2>2, <2>4, <3>2 DEF Active
    <3>3. CASE q # r /\ p # r
      <4>1. Active(q) /\ Active(p)
        BY <2>2, <2>4, <3>3 DEF Active
      <4>2. p \in met[q]
        BY <2>4, <4>1 DEF Beside
      <4> QED
        BY <2>1, <3>3, <4>2
    <3> QED
      BY <3>1, <3>2, <3>3
  <2> QED
    BY <2>3, <2>4 DEF Beside
<1>2. ASSUME NEW r \in Requests, Handle(r), UNCHANGED met, NoteCopies PROVE Beside'
  <2>1. OthersKept(r) /\ pc'[r] # "idle"
    BY <1>0, <1>2, Others, HandleLocalTypes DEF LocalTypes
  <2> QED
    BY <1>0, <1>2, <2>1 DEF OthersKept, Untouched, Beside, Active
<1>3. ASSUME LinkExpires \/ UNCHANGED vars PROVE Beside'
  BY <1>3 DEF LinkExpires, vars, Beside, Active
<1> QED
  BY <1>1, <1>2, <1>3, NextCases, StartBegins

LEMMA MetPersists ==
  ASSUME TypeInv, Beside, [Next]_vars, NEW r \in Requests, NEW ops, Met(r, ops)
  PROVE  Met(r, ops)'
<1>1. PICK q \in met[r] : req[q].op \in ops
  BY DEF Met
<1>2. q \in Requests /\ pc[q] # "idle"
  BY <1>1 DEF Beside, TypeInv, TypeOK
<1> QED
  BY <1>1, <1>2, Persistence DEF Met

\* r was served beside a deletion.
MetDeletion(r) == \E q \in met[r] : Deletes(q)

LEMMA MetDeletionPersists ==
  ASSUME TypeInv, Beside, [Next]_vars, NEW r \in Requests, MetDeletion(r)
  PROVE  MetDeletion(r)'
<1>1. PICK q \in met[r] : Deletes(q)
  BY DEF MetDeletion
<1>2. q \in Requests /\ pc[q] # "idle"
  BY <1>1 DEF Beside, TypeInv, TypeOK
<1> QED
  BY <1>1, <1>2, Persistence DEF MetDeletion, Deletes

\* Two requests that are being served have met.
LEMMA ActiveMeet ==
  ASSUME TypeInv, Beside, NEW r \in Requests, NEW q \in Requests, q # r,
         Active(r), Active(q)
  PROVE  q \in met[r] /\ r \in met[q]
BY DEF Beside

(***************************************************************************)
(* BucketSourcesExist. A deletion that found no bucket that lists its      *)
(* source may still race a creation, and the creation then met it; a       *)
(* creation has read each of its sources, unless it met the deletion.      *)
(***************************************************************************)
DropsSource(d) ==
  pc[d] = "dropSource" =>
    \A b \in Buckets : \A s \in req[d].sources :
      Live(b) /\ s \in buckets[b].sources => CreationRaced(b)

Creates(r) ==
  pc[r] \in {"load", "probe", "insertBucket"} =>
    \A s \in req[r].sources : \/ s \in sources
                              \/ pc[r] = "load" /\ s \in todo[r]
                              \/ Met(r, {"deleteSource"})

CreationInv ==
  /\ BucketSourcesExist
  /\ \A r \in Requests : DropsSource(r) /\ Creates(r)

LEMMA CreationInit == Init => CreationInv
<1> SUFFICES ASSUME Init PROVE CreationInv
  OBVIOUS
<1>1. PICK home \in Sources, copied \in {Home} \cup Buckets, role \in Roles :
        Contents(home, copied, role)
  BY DEF Init
<1>2. BucketSourcesExist
  BY <1>1 DEF Contents, BucketSourcesExist, Live
<1>3. \A r \in Requests : pc[r] = "idle"
  BY DEF Init
<1> QED
  BY <1>2, <1>3 DEF CreationInv, DropsSource, Creates

\* A creation that raced a deletion of its source stays one that did.
LEMMA RacePersists ==
  ASSUME TypeInv, Beside, [Next]_vars, NEW b \in Buckets, CreationRaced(b),
         buckets'[b].by = buckets[b].by
  PROVE  CreationRaced(b)'
BY MetPersists DEF CreationRaced

LEMMA CreationStart ==
  ASSUME TypeInv, Beside, CreationInv, [Next]_vars, NEW r \in Requests, Start(r)
  PROVE  CreationInv'
<1>0. Begins(r) /\ req'[r].op \in AllOps
  BY StartBegins DEF Begins, Shape, Request
<1>1. buckets' = buckets /\ sources' = sources
  BY <1>0 DEF Begins, catalog
<1>2. BucketSourcesExist'
  BY <1>1, RacePersists DEF CreationInv, BucketSourcesExist, Live
<1>3. ASSUME NEW q \in Requests PROVE DropsSource(q)' /\ Creates(q)'
  <2>1. CASE q = r
    BY <1>0, <2>1, EntrySteps DEF Begins, DropsSource, Creates
  <2>2. CASE q # r
    <3>1. pc'[q] = pc[q] /\ req'[q] = req[q] /\ todo'[q] = todo[q]
      BY <1>0, <2>2 DEF Begins
    <3>2. DropsSource(q) /\ Creates(q)
      BY DEF CreationInv
    <3>3. Met(q, {"deleteSource"}) => Met(q, {"deleteSource"})'
      BY MetPersists
    <3> QED
      BY <1>1, <3>1, <3>2, <3>3, RacePersists DEF DropsSource, Creates, Live
  <2> QED
    BY <2>1, <2>2
<1> QED
  BY <1>2, <1>3 DEF CreationInv

LEMMA CreationHandle ==
  ASSUME TypeInv, Beside, CreationInv, [Next]_vars, NEW r \in Requests, Handle(r)
  PROVE  CreationInv'
<1>0. /\ TypeOK /\ ControlOf(r) /\ OthersKept(r) /\ Writers(r) /\ Arrivals(r)
      /\ Creates(r) /\ DropsSource(r)
      /\ req[r].bucket \in Buckets /\ req[r].sources \subseteq Sources
  BY Others, HandleWriters, HandleArrivals, RequestParts
     DEF TypeInv, Flow, CreationInv, OthersKept, Active
<1>1. ASSUME NEW b \in Buckets, ~BucketWritten(r) \/ b # req[r].bucket
      PROVE  /\ buckets'[b].by = buckets[b].by
             /\ buckets'[b].sources = buckets[b].sources
             /\ Live(b)' => Live(b)
             /\ CreationRaced(b) => CreationRaced(b)'
  <2>1. CASE BucketWritten(r)
    BY <1>0, <1>1, <2>1, RacePersists DEF BucketWritten, TypeOK, Live
  <2>2. CASE BucketDropped(r)
    BY <1>0, <2>2, RacePersists DEF BucketDropped, TypeOK, Live, Bucket
  <2>3. CASE ~BucketWritten(r) /\ ~BucketDropped(r)
    BY <1>0, <2>3, RacePersists DEF Writers, Live
  <2> QED
    BY <2>1, <2>2, <2>3
<1>2. ASSUME BucketWritten(r), buckets' # buckets
      PROVE  /\ buckets'[req[r].bucket].by = r
             /\ buckets'[req[r].bucket].sources = req[r].sources
             /\ sources' = sources
             /\ Met(r, {"deleteSource"}) => CreationRaced(req[r].bucket)'
  <2>1. /\ buckets'[req[r].bucket] =
             [state |-> "live", sources |-> req[r].sources, by |-> r]
        /\ sources' = sources
    BY <1>0, <1>2 DEF BucketWritten, TypeOK
  <2>2. Met(r, {"deleteSource"}) => Met(r, {"deleteSource"})'
    BY MetPersists
  <2>3. req' = req /\ buckets'[req[r].bucket].by = r
    BY <1>0, <2>1 DEF OthersKept
  <2> QED
    BY <2>1, <2>2, <2>3 DEF CreationRaced
<1>3. ASSUME NEW b \in Buckets, Live(b)'
      PROVE  buckets'[b].sources \subseteq sources' \/ CreationRaced(b)'
  <2>1. CASE BucketWritten(r) /\ buckets' # buckets /\ b = req[r].bucket
    <3>1. \A s \in req[r].sources : s \in sources \/ Met(r, {"deleteSource"})
      BY <1>0, <2>1 DEF Creates, BucketWritten
    <3> QED
      BY <1>0, <1>2, <2>1, <3>1 DEF OthersKept
  <2>2. CASE ~(BucketWritten(r) /\ b = req[r].bucket) \/ buckets' = buckets
    <3>1. /\ Live(b) /\ buckets'[b].sources = buckets[b].sources
          /\ CreationRaced(b) => CreationRaced(b)'
      BY <1>1, <1>3, <2>2, RacePersists DEF Live
    <3>2. buckets[b].sources \subseteq sources \/ CreationRaced(b)
      BY <3>1 DEF CreationInv, BucketSourcesExist
    <3>3. CASE SourceDropped(r)
      BY <1>0, <3>1, <3>2, <3>3 DEF SourceDropped, DropsSource
    <3>4. CASE ~SourceDropped(r)
      BY <1>0, <3>1, <3>2, <3>4 DEF Writers
    <3> QED
      BY <3>3, <3>4
  <2> QED
    BY <2>1, <2>2
<1>4. ASSUME NEW d \in Requests PROVE DropsSource(d)'
  <2>1. CASE d = r
    <3>1. ASSUME pc'[r] = "dropSource"
          PROVE  /\ CheckReferences(r) /\ buckets' = buckets
                 /\ ~ \E s \in req[r].sources : HasSourceReference(s)
      BY <1>0, <3>1 DEF Arrivals, CheckReferences, catalog, Finish, Goto, TypeOK
    <3> QED
      BY <1>0, <2>1, <3>1 DEF OthersKept, DropsSource, HasSourceReference, Live
  <2>2. CASE d # r
    <3> SUFFICES ASSUME pc'[d] = "dropSource", NEW b \in Buckets, Live(b)',
                        NEW s \in req'[d].sources, s \in buckets'[b].sources
                 PROVE  CreationRaced(b)'
      BY DEF DropsSource
    <3>1. pc[d] = "dropSource" /\ req'[d] = req[d] /\ req[d].op = "deleteSource"
      BY <1>0, <2>2 DEF OthersKept, Untouched, TypeInv, Flow, ControlOf
    <3>2. CASE BucketWritten(r) /\ buckets' # buckets /\ b = req[r].bucket
      <4>1. Met(r, {"deleteSource"})
        BY <1>0, <2>2, <3>1, ActiveMeet DEF OthersKept, Active, Met
      <4> QED
        BY <1>0, <1>2, <3>2, <4>1 DEF OthersKept, CreationRaced
    <3>3. CASE ~(BucketWritten(r) /\ b = req[r].bucket) \/ buckets' = buckets
      <4>1. /\ Live(b) /\ buckets'[b].sources = buckets[b].sources
            /\ CreationRaced(b) => CreationRaced(b)'
        BY <1>1, <3>3, RacePersists DEF Live
      <4>2. DropsSource(d)
        BY DEF CreationInv
      <4> QED
        BY <3>1, <4>1, <4>2 DEF DropsSource
    <3> QED
      BY <3>2, <3>3
  <2> QED
    BY <2>1, <2>2
<1>5. ASSUME NEW q \in Requests PROVE Creates(q)'
  <2>1. CASE q = r
    <3> SUFFICES ASSUME pc'[r] \in {"load", "probe", "insertBucket"},
                        NEW s \in req[r].sources
                 PROVE  \/ s \in sources'
                        \/ pc'[r] = "load" /\ s \in todo'[r]
                        \/ Met(r, {"deleteSource"})'
      BY <1>0, <2>1 DEF Creates, OthersKept
    <3>1. CASE LoadSource(r)
      BY <1>0, <3>1, MetPersists
         DEF LoadSource, Creates, catalog, Goto, Finish, locals, TypeOK
    <3>2. CASE Probe(r)
      BY <1>0, <3>2, MetPersists DEF Probe, Creates, catalog
    <3> QED
      BY <1>0, <3>1, <3>2 DEF Arrivals
  <2>2. CASE q # r
    <3>1. pc'[q] = pc[q] /\ req'[q] = req[q] /\ todo'[q] = todo[q] /\ Creates(q)
      BY <1>0, <2>2 DEF OthersKept, Untouched, CreationInv
    <3>2. Met(q, {"deleteSource"}) => Met(q, {"deleteSource"})'
      BY MetPersists
    <3>3. CASE SourceDropped(r) /\ Active(q)
      <4>1. Met(q, {"deleteSource"})
        BY <1>0, <2>2, <3>3, ActiveMeet
           DEF OthersKept, Met, SourceDropped, ControlOf
      <4> QED
        BY <3>2, <4>1 DEF Creates
    <3>4. CASE ~SourceDropped(r)
      BY <1>0, <3>1, <3>2, <3>4 DEF Writers, Creates
    <3>5. CASE ~Active(q)
      BY <3>1, <3>5 DEF Active, Creates
    <3> QED
      BY <3>3, <3>4, <3>5
  <2> QED
    BY <2>1, <2>2
<1> QED
  BY <1>3, <1>4, <1>5 DEF CreationInv, BucketSourcesExist

\* CreationInv is inductive.
LEMMA CreationStep ==
  TypeInv /\ Beside /\ CreationInv /\ [Next]_vars => CreationInv'
<1> SUFFICES ASSUME TypeInv, Beside, CreationInv, [Next]_vars PROVE CreationInv'
  OBVIOUS
<1>1. ASSUME LinkExpires \/ UNCHANGED vars PROVE CreationInv'
  <2>1. /\ buckets' = buckets /\ sources' = sources /\ pc' = pc /\ req' = req
        /\ todo' = todo /\ met' = met
    BY <1>1 DEF LinkExpires, vars, catalog, locals
  <2> QED
    BY <2>1
       DEF CreationInv, BucketSourcesExist, DropsSource, Creates, CreationRaced,
           Met, Live
<1> QED
  BY <1>1, CreationStart, CreationHandle, NextCases

(***************************************************************************)
(* A live bucket's sources exist (BucketSourcesExist), for any number of   *)
(* requests in flight.                                                     *)
(***************************************************************************)
THEOREM SourcesExist == Spec => []BucketSourcesExist
<1> DEFINE IInv == TypeInv /\ Beside /\ CreationInv
<1>1. Init => IInv
  BY TypeInvInit, BesideInit, CreationInit
<1>2. IInv /\ [Next]_vars => IInv'
  BY TypeInvStep, BesideStep, CreationStep
<1>3. IInv => BucketSourcesExist
  BY DEF CreationInv
<1> QED
  BY <1>1, <1>2, <1>3, PTL DEF Spec

(***************************************************************************)
(* What a step may add to the catalog.                                     *)
(***************************************************************************)
Adds(r) ==
  /\ \A l \in links' : \/ l \in links
                       \/ /\ LinkWritten(r)
                          /\ l.id = r /\ l.bucket = req[r].bucket
                          /\ l.file = doc[r].id /\ l.user = req[r].user
  /\ \A f \in files' : \/ f \in files
                       \/ /\ FileWritten(r)
                          /\ f.id = r /\ f.bucket = req[r].bucket
                          /\ req[r].op = "copy" => f.chunk = doc[r].chunk
                          /\ req[r].op = "put" => work[r] = {f.chunk}
  /\ uploads' \subseteq uploads
  /\ \A g \in grants' : \/ \E h \in grants : h.id = g.id /\ h.bucket = g.bucket
                        \/ /\ GrantWritten(r)
                           /\ g.id = r /\ g.bucket = req[r].bucket

LEMMA HandleAdds ==
  ASSUME TypeInv, NEW r \in Requests, Handle(r)
  PROVE  Adds(r)
<1>1. TypeOK /\ ControlOf(r) /\ HoldsOf(r) /\ Writers(r)
  BY HandleWriters DEF TypeInv, Flow
<1>2. \A l \in links' : \/ l \in links
                        \/ /\ LinkWritten(r)
                           /\ l.id = r /\ l.bucket = req[r].bucket
                           /\ l.file = doc[r].id /\ l.user = req[r].user
  BY <1>1
    DEF Writers, LinkWritten, Unlink, LinksDropped, OwnLinks,
        DropFileLinks, DropLinks
<1>3. \A f \in files' : \/ f \in files
                        \/ /\ FileWritten(r)
                           /\ f.id = r /\ f.bucket = req[r].bucket
                           /\ req[r].op = "copy" => f.chunk = doc[r].chunk
                           /\ req[r].op = "put" => work[r] = {f.chunk}
  <2>1. CASE FileWritten(r)
    <3>1. pc[r] = "insert" /\ req[r].op \in {"put", "copy"}
      BY <1>1, <2>1 DEF FileWritten, ControlOf
    <3>2. files' = files \cup
            {[id |-> r, bucket |-> req[r].bucket,
              chunk |-> IF req[r].op = "copy" THEN doc[r].chunk
                        ELSE CHOOSE c \in work[r] : TRUE]}
      BY <2>1 DEF FileWritten
    <3>3. CASE req[r].op = "copy"
      BY <2>1, <3>2, <3>3
    <3>4. CASE req[r].op = "put"
      <4>1. PICK s \in Sources : work[r] = {<<r, s>>}
        BY <1>1, <3>1, <3>4 DEF HoldsOf
      <4>2. (CHOOSE c \in work[r] : TRUE) = <<r, s>>
        BY <4>1
      <4> QED
        BY <2>1, <3>2, <3>4, <4>1, <4>2
    <3> QED
      BY <3>1, <3>3, <3>4
  <2>2. CASE ~FileWritten(r)
    BY <1>1, <2>2 DEF Writers, DropFile, FilesDropped, DropFiles
  <2> QED
    BY <2>1, <2>2
<1>4. uploads' \subseteq uploads
  BY <1>1 DEF Writers, DropUploads, UploadsDropped
<1>5. \A g \in grants' : \/ \E h \in grants : h.id = g.id /\ h.bucket = g.bucket
                         \/ /\ GrantWritten(r)
                            /\ g.id = r /\ g.bucket = req[r].bucket
  <2>1. CASE GrantsRewritten(r)
    BY <1>1, <2>1
      DEF UpdateGrant, GrantsRewritten, FoundGrants, In, Named, Grant, TypeOK
  <2>2. CASE GrantWritten(r)
    BY <1>1, <2>2 DEF GrantWritten
  <2>3. CASE ~GrantsRewritten(r) /\ ~GrantWritten(r)
    BY <1>1, <2>3 DEF Writers, DropGrants, GrantsRewritten, DropGrant
  <2> QED
    BY <2>1, <2>2, <2>3
<1> QED
  BY <1>2, <1>3, <1>4, <1>5 DEF Adds

\* A request goes on from the look at the bucket only if it is there.
LEMMA BucketIsRead ==
  ASSUME TypeInv, NEW r \in Requests, Handle(r), pc[r] = "bucket", pc'[r] # "done"
  PROVE  ReadBucket(r) /\ Live(req[r].bucket)
<1>1. TypeOK
  BY DEF TypeInv
<1> USE DEF Goto, Finish, TypeOK
<1>2. ASSUME MetaFails(r) \/ ReadBucket(r)
      PROVE  ReadBucket(r) /\ Live(req[r].bucket)
  BY <1>1, <1>2 DEF MetaFails, CallFailed, ReadBucket
<1>3. ~(ReadGrant(r) \/ LoadSource(r) \/ Probe(r) \/ InsertBucket(r) \/
        CheckReferences(r) \/ DropSource(r) \/ Resolve(r) \/ Upload(r) \/ InsertFile(r))
  BY DEF ReadGrant, LoadSource, Probe, InsertBucket, CheckReferences, DropSource,
         SourceDropped, Resolve, Upload, InsertFile, FileWritten
<1>4. ~(UndoUpload(r) \/ ReadOrigin(r) \/ FindByName(r) \/ GetFile(r) \/ Stream(r) \/
        InsertLink(r) \/ Unlink(r) \/ ReadLink(r) \/ ReadLinkedFile(r))
  BY DEF UndoUpload, ReadOrigin, FindByName, GetFile, Stream, InsertLink, LinkWritten,
         Unlink, ReadLink, ReadLinkedFile
<1>5. ~(DropFileLinks(r) \/ GetFileAgain(r) \/ DropFile(r) \/ CountReferences(r) \/
        ReclaimFile(r) \/ DropLinks(r) \/ ListFiles(r) \/ ListUploads(r) \/ DropFiles(r))
  BY DEF DropFileLinks, GetFileAgain, DropFile, CountReferences, ReclaimFile,
         DropLinks, ListFiles, ListUploads, DropFiles
<1>6. ~(DropUploads(r) \/ CountFilesElsewhere(r) \/ CountPartsElsewhere(r) \/
        ReclaimContents(r) \/ DropGrants(r) \/ DropBucket(r) \/ InsertGrant(r) \/
        UpdateGrant(r) \/ DropGrant(r))
  BY DEF DropUploads, UploadsDropped, CountFilesElsewhere, CountPartsElsewhere,
         ReclaimContents, DropGrants, DropBucket, BucketDropped, InsertGrant,
         UpdateGrant, DropGrant
<1>7. ~ReplyLost(r)
  BY DEF ReplyLost, Write, FileWritten, LinkWritten, BucketWritten, GrantWritten,
         GrantsRewritten, FilesDropped, UploadsDropped, LinksDropped, BucketDropped,
         SourceDropped
<1> QED
  BY <1>2, <1>3, <1>4, <1>5, <1>6, <1>7 DEF Handle

(***************************************************************************)
(* DeletionIsComplete: after each of its calls a deletion knows that what  *)
(* is left, or has come since, was written by a request it met; and when   *)
(* it has answered no other request can come past the look at the bucket.  *)
(***************************************************************************)
Ended(r) == pc[r] = "done" /\ res[r] = "ok"

\* The steps of DeleteBucket after it deleted the uploads, the files, the links.
AfterUploads ==
  {"countFiles", "countParts", "reclaim", "dropGrants", "dropBucket"}
AfterFiles == AfterUploads \cup {"dropUploads"}
AfterLinks == AfterFiles \cup {"listFiles", "listUploads", "dropFiles"}

\* q found the bucket it works in.
Entered(q) ==
  /\ Active(q)
  /\ pc[q] # "bucket"
  /\ req[q].op \notin {"createBucket", "deleteSource", "unshare", "read"}

\* What DeleteBucket has removed by each of its steps, but for what it met.
DeletionOf(r) ==
  LET b == req[r].bucket
  IN  /\ pc[r] \in AfterLinks \/ Ended(r) =>
           \A l \in links : l.bucket = b => l.id \in met[r]
      /\ pc[r] \in AfterFiles \/ Ended(r) =>
           \A f \in files : f.bucket = b => f.id \in met[r]
      /\ pc[r] \in AfterUploads \/ Ended(r) =>
           \A f \in uploads : f.bucket # b
      /\ pc[r] = "dropBucket" \/ Ended(r) =>
           \A g \in grants : g.bucket = b => g.id \in met[r]
      /\ Ended(r) =>
           /\ buckets[b].state = "gone"
           /\ \A q \in Requests : Entered(q) /\ req[q].bucket = b => q \in met[r]

DeletionInv ==
  \A r \in Requests :
    pc[r] # "idle" /\ req[r].op = "deleteBucket" => DeletionOf(r)

LEMMA DeletionInit == Init => DeletionInv
BY DEF Init, DeletionInv

LEMMA DeletionStart ==
  ASSUME TypeInv, Beside, DeletionInv, [Next]_vars, NEW r \in Requests, Start(r)
  PROVE  DeletionInv'
<1>0. /\ Begins(r) /\ req'[r].op \in AllOps
      /\ links' = links /\ files' = files /\ uploads' = uploads
      /\ grants' = grants /\ buckets' = buckets /\ res' = res
  BY StartBegins DEF Begins, Shape, Request, catalog
<1> SUFFICES ASSUME NEW d \in Requests, pc'[d] # "idle", req'[d].op = "deleteBucket"
             PROVE  DeletionOf(d)'
  BY DEF DeletionInv
<1>1. CASE d = r
  BY <1>0, <1>1, EntrySteps
     DEF Begins, DeletionOf, Ended, AfterLinks, AfterFiles, AfterUploads
<1>2. CASE d # r
  <2>1. pc'[d] = pc[d] /\ req'[d] = req[d] /\ DeletionOf(d) /\ met[d] \subseteq met'[d]
    BY <1>0, <1>2, Persistence DEF Begins, DeletionInv
  <2>2. ASSUME NEW q \in Requests, Entered(q)'
        PROVE  Entered(q) /\ req'[q] = req[q]
    BY <1>0, <2>2, EntrySteps DEF Begins, Entered, Active
  <2> QED
    BY <1>0, <2>1, <2>2 DEF DeletionOf, Ended
<1> QED
  BY <1>1, <1>2

\* The order of a deletion's calls.
LEMMA DeletionChain ==
  ASSUME TypeInv, NEW r \in Requests, Handle(r), req[r].op = "deleteBucket"
  PROVE  /\ pc'[r] \in AfterLinks \/ Ended(r)' => DropLinks(r) \/ pc[r] \in AfterLinks
         /\ pc'[r] \in AfterFiles \/ Ended(r)' => DropFiles(r) \/ pc[r] \in AfterFiles
         /\ pc'[r] \in AfterUploads \/ Ended(r)' => DropUploads(r) \/ pc[r] \in AfterUploads
         /\ pc'[r] = "dropBucket" => DropGrants(r)
         /\ Ended(r)' => DropBucket(r) /\ pc[r] = "dropBucket"
<1>1. Arrivals(r) /\ ControlOf(r)
  BY HandleArrivals DEF TypeInv, Flow
<1> QED
  BY <1>1
     DEF Arrivals, ControlOf, AfterLinks, AfterFiles, AfterUploads, Ended, DropLinks,
         LinksDropped, ListFiles, ListUploads, DropFiles, FilesDropped, DropUploads,
         UploadsDropped, CountFilesElsewhere, CountPartsElsewhere, ReclaimContents,
         DropGrants, GrantsRewritten, DropBucket, BucketDropped, CountReferences

LEMMA DeletionHandle ==
  ASSUME TypeInv, Beside, DeletionInv, [Next]_vars, NEW r \in Requests, Handle(r)
  PROVE  DeletionInv'
<1>0. /\ TypeOK /\ ControlOf(r) /\ OthersKept(r) /\ Adds(r) /\ Writers(r)
  BY Others, HandleWriters, HandleAdds DEF TypeInv, Flow
<1>1. /\ LinkWritten(r) => pc[r] = "insertLink" /\ req[r].op = "share"
      /\ FileWritten(r) => pc[r] = "insert" /\ req[r].op \in {"put", "copy"}
      /\ GrantWritten(r) => pc[r] = "insertGrant" /\ req[r].op = "grant"
  BY <1>0
    DEF ControlOf, LinkWritten, FileWritten, InsertGrant,
        GrantWritten
<1> SUFFICES ASSUME NEW d \in Requests, pc'[d] # "idle", req'[d].op = "deleteBucket"
             PROVE  DeletionOf(d)'
  BY DEF DeletionInv
<1>2. /\ pc[d] # "idle" /\ req'[d] = req[d] /\ DeletionOf(d) /\ met[d] \subseteq met'[d]
      /\ req[d].op = "deleteBucket" /\ req[d].bucket \in Buckets
  BY <1>0, Persistence, RequestParts DEF OthersKept, Untouched, Active, DeletionInv
<1> DEFINE b == req[d].bucket
<1>3. CASE d = r
  <2>1. ~LinkWritten(r) /\ ~FileWritten(r) /\ ~GrantWritten(r)
    BY <1>1, <1>2, <1>3
  <2>2. ASSUME pc'[d] \in AfterLinks \/ Ended(d)', NEW l \in links', l.bucket = b
        PROVE  l.id \in met'[d]
    BY <1>0, <1>2, <1>3, <2>1, <2>2, DeletionChain
       DEF Adds, DeletionOf, DropLinks, LinksDropped, In
  <2>3. ASSUME pc'[d] \in AfterFiles \/ Ended(d)', NEW f \in files', f.bucket = b
        PROVE  f.id \in met'[d]
    BY <1>0, <1>2, <1>3, <2>1, <2>3, DeletionChain
       DEF Adds, DeletionOf, DropFiles, FilesDropped, In
  <2>4. ASSUME pc'[d] \in AfterUploads \/ Ended(d)', NEW f \in uploads'
        PROVE  f.bucket # b
    BY <1>0, <1>2, <1>3, <2>4, DeletionChain
       DEF Adds, DeletionOf, DropUploads, UploadsDropped, In
  <2>5. ASSUME pc'[d] = "dropBucket" \/ Ended(d)', NEW g \in grants', g.bucket = b
        PROVE  g.id \in met'[d]
    BY <1>0, <1>2, <1>3, <2>1, <2>5, DeletionChain
       DEF Adds, DeletionOf, DropGrants, GrantsRewritten, In
  <2>6. ASSUME Ended(d)'
        PROVE  /\ buckets'[b].state = "gone"
               /\ \A q \in Requests : Entered(q)' => q \in met'[d]
    <3>1. DropBucket(r)
      BY <1>2, <1>3, <2>6, DeletionChain
    <3>2. buckets'[b].state = "gone"
      BY <1>0, <1>2, <1>3, <3>1 DEF DropBucket, BucketDropped, TypeOK, Bucket
    <3>3. ASSUME NEW q \in Requests, Entered(q)' PROVE q \in met'[d]
      BY <1>0, <1>2, <1>3, <2>6, <3>3, ActiveMeet
         DEF Entered, Active, OthersKept, Untouched, Ended
    <3> QED
      BY <3>2, <3>3
  <2> QED
    BY <1>2, <2>2, <2>3, <2>4, <2>5, <2>6 DEF DeletionOf
<1>4. CASE d # r
  <2>1. pc'[d] = pc[d] /\ (Ended(d)' <=> Ended(d)) /\ Active(r)
    BY <1>0, <1>4 DEF OthersKept, Untouched, Ended
  <2>2. ASSUME Active(d) \/ Ended(d), req[r].bucket = b,
               LinkWritten(r) \/ FileWritten(r) \/ GrantWritten(r)
        PROVE  r \in met[d]
    <3>1. CASE Active(d)
      BY <1>4, <2>1, <3>1, ActiveMeet
    <3>2. CASE Ended(d)
      BY <1>1, <1>2, <2>1, <2>2, <3>2 DEF DeletionOf, Entered
    <3> QED
      BY <2>2, <3>1, <3>2
  <2>3. pc[d] \in AfterLinks => Active(d)
    BY DEF AfterLinks, AfterFiles, AfterUploads, Active
  <2>4. AfterUploads \subseteq AfterFiles /\ AfterFiles \subseteq AfterLinks /\
        "dropBucket" \in AfterUploads
    BY DEF AfterLinks, AfterFiles, AfterUploads
  <2>5. ASSUME Ended(d)
        PROVE  /\ buckets'[b].state = "gone"
               /\ \A q \in Requests : Entered(q)' /\ req'[q].bucket = b => q \in met'[d]
    <3>1. buckets[b].state = "gone"
      BY <1>2, <2>5 DEF DeletionOf
    <3>2. buckets'[b].state = "gone"
      BY <1>0, <1>2, <3>1
        DEF Writers, BucketWritten, BucketDropped, TypeOK,
            Bucket
    <3>3. ASSUME NEW q \in Requests, Entered(q)', req'[q].bucket = b
          PROVE  q \in met'[d]
      <4>1. req'[q] = req[q]
        BY <1>0 DEF OthersKept
      <4>2. Entered(q)
        <5>1. CASE q # r
          BY <1>0, <3>3, <5>1 DEF OthersKept, Untouched, Entered, Active
        <5>2. CASE q = r
          BY <2>1, <3>1, <3>3, <4>1, <5>2, BucketIsRead DEF Entered, Active, Live
        <5> QED
          BY <5>1, <5>2
      <4> QED
        BY <1>2, <2>5, <3>3, <4>1, <4>2 DEF DeletionOf
    <3> QED
      BY <3>2, <3>3
  <2>6. ASSUME pc'[d] \in AfterLinks \/ Ended(d)', NEW l \in links', l.bucket = b
        PROVE  l.id \in met'[d]
    BY <1>0, <1>2, <2>1, <2>2, <2>3, <2>6 DEF Adds, DeletionOf
  <2>7. ASSUME pc'[d] \in AfterFiles \/ Ended(d)', NEW f \in files', f.bucket = b
        PROVE  f.id \in met'[d]
    BY <1>0, <1>2, <2>1, <2>2, <2>3, <2>4, <2>7 DEF Adds, DeletionOf
  <2>8. ASSUME pc'[d] \in AfterUploads \/ Ended(d)', NEW f \in uploads'
        PROVE  f.bucket # b
    BY <1>0, <1>2, <2>1, <2>8 DEF Adds, DeletionOf
  <2>9. ASSUME pc'[d] = "dropBucket" \/ Ended(d)', NEW g \in grants', g.bucket = b
        PROVE  g.id \in met'[d]
    BY <1>0, <1>2, <2>1, <2>2, <2>3, <2>4, <2>9 DEF Adds, DeletionOf
  <2> QED
    BY <1>2, <2>1, <2>5, <2>6, <2>7, <2>8, <2>9 DEF DeletionOf
<1> QED
  BY <1>3, <1>4

LEMMA ExpiredLinks ==
  ASSUME TypeInv, LinkExpires
  PROVE  /\ \A l \in links' : \E k \in links : /\ k.id = l.id /\ k.bucket = l.bucket
                                               /\ k.file = l.file /\ k.user = l.user
                                               /\ l.expiry # "past" => k.expiry # "past"
         /\ UNCHANGED <<sources, buckets, files, uploads, grants, store, pc, req,
                        doc, work, todo, res, met>>
BY DEF LinkExpires, TypeInv, TypeOK, Link, locals

\* DeletionInv is inductive.
LEMMA DeletionStep ==
  TypeInv /\ Beside /\ DeletionInv /\ [Next]_vars => DeletionInv'
<1> SUFFICES ASSUME TypeInv, Beside, DeletionInv, [Next]_vars PROVE DeletionInv'
  OBVIOUS
<1>1. ASSUME LinkExpires PROVE DeletionInv'
  BY <1>1, ExpiredLinks DEF DeletionInv, DeletionOf, Ended, Entered, Active
<1>2. ASSUME UNCHANGED vars PROVE DeletionInv'
  BY <1>2 DEF vars, catalog, locals, DeletionInv, DeletionOf, Ended, Entered, Active
<1> QED
  BY <1>1, <1>2, DeletionStart, DeletionHandle, NextCases

(***************************************************************************)
(* A DeleteBucket that answered 200 left nothing (DeletionIsComplete),     *)
(* whatever ran beside it.                                                 *)
(***************************************************************************)
THEOREM CompleteDeletion == Spec => []DeletionIsComplete
<1> DEFINE IInv == TypeInv /\ Beside /\ DeletionInv
<1>1. Init => IInv
  BY TypeInvInit, BesideInit, DeletionInit
<1>2. IInv /\ [Next]_vars => IInv'
  BY TypeInvStep, BesideStep, DeletionStep
<1>3. IInv => DeletionIsComplete
  <2> SUFFICES ASSUME TypeInv, DeletionInv, NEW r \in Requests, req[r] # None,
                      req[r].op = "deleteBucket", res[r] = "ok"
               PROVE  /\ In(uploads, req[r].bucket) = {}
                      /\ \A x \in In(files, req[r].bucket) \cup In(links, req[r].bucket)
                                    \cup In(grants, req[r].bucket) : x.id \in met[r]
    BY DEF DeletionIsComplete
  <2>1. pc[r] # "idle" /\ Ended(r)
    BY DEF TypeInv, TypeOK, Flow, ControlOf, Ended
  <2> QED
    BY <2>1 DEF DeletionInv, DeletionOf, In
<1> QED
  BY <1>1, <1>2, <1>3, PTL DEF Spec

(***************************************************************************)
(* LinksResolve: a link is created for an object that was there or whose   *)
(* deletion was met, and the links of an object go before the object.      *)
(***************************************************************************)
DeletedByName(id) ==
  \E q \in Requests : /\ req[q] # None /\ req[q].op = "deleteObject"
                      /\ id \in req[q].ids

\* l leads to a file, or its file was deleted by name or beside its creation.
Resolves(l) ==
  \/ In(Named(files, {l.file}), l.bucket) # {}
  \/ DeletedByName(l.file)
  \/ l.id \in Requests /\ MetDeletion(l.id)

\* The file a link is about to be created for is there, or its deletion was met.
Shares(r) == pc[r] = "insertLink" => doc[r] \in files \/ MetDeletion(r)

\* What is left of the links of a file about to be deleted was created beside.
Unlinked(q) ==
  pc[q] \in {"again", "dropFile"} /\ req[q].op = "deleteFiles" =>
    \A l \in links : l.file = doc[q].id => l.id \in Requests /\ q \in met[l.id]

LinkInv ==
  /\ \A l \in links : Resolves(l)
  /\ \A r \in Requests : Shares(r) /\ Unlinked(r)

LEMMA LinkInit == Init => LinkInv
<1> SUFFICES ASSUME Init PROVE LinkInv
  OBVIOUS
<1>1. PICK home \in Sources, copied \in {Home} \cup Buckets, role \in Roles :
        Contents(home, copied, role)
  BY DEF Init
<1>2. \A l \in links : Resolves(l)
  <2>1. \A l \in links : l.file = "file" /\ l.bucket = Home
    BY <1>1 DEF Contents
  <2>2. PICK f \in files : f.id = "file" /\ f.bucket = Home
    <3> DEFINE f0 == [id |-> "file", bucket |-> Home, chunk |-> <<"file", home>>]
    <3>1. f0 \in files
      BY <1>1 DEF Contents
    <3> QED
      BY <3>1
  <2> QED
    BY <2>1, <2>2 DEF Resolves, In, Named
<1>3. \A r \in Requests : pc[r] = "idle"
  BY DEF Init
<1> QED
  BY <1>2, <1>3 DEF LinkInv, Shares, Unlinked

\* A deletion by name stays asked.
LEMMA DeletedByNamePersists ==
  ASSUME TypeInv, Beside, [Next]_vars, NEW id, DeletedByName(id)
  PROVE  DeletedByName(id)'
<1>1. PICK q \in Requests : /\ req[q] # None /\ req[q].op = "deleteObject"
                            /\ id \in req[q].ids
  BY DEF DeletedByName
<1>2. pc[q] # "idle"
  BY <1>1 DEF TypeInv, TypeOK
<1> QED
  BY <1>1, <1>2, Persistence DEF DeletedByName

\* A link that resolved still does if the objects it may lead to are there.
LEMMA StillResolves ==
  ASSUME TypeInv, Beside, [Next]_vars, NEW l, NEW k,
         Resolves(k), l.id = k.id, l.file = k.file, l.bucket = k.bucket,
         \A f \in files : f.id = k.file /\ f.bucket = k.bucket => f \in files'
  PROVE  /\ \/ In(Named(files', {l.file}), l.bucket) # {}
            \/ DeletedByName(l.file)'
            \/ l.id \in Requests /\ MetDeletion(l.id)'
BY DeletedByNamePersists, MetDeletionPersists DEF Resolves, In, Named

LEMMA LinkStart ==
  ASSUME TypeInv, Beside, LinkInv, [Next]_vars, NEW r \in Requests, Start(r)
  PROVE  LinkInv'
<1>0. /\ Begins(r) /\ req'[r].op \in AllOps
      /\ links' = links /\ files' = files /\ doc' = doc
  BY StartBegins DEF Begins, Shape, Request, catalog
<1>1. ASSUME NEW l \in links' PROVE Resolves(l)'
  BY <1>0, <1>1, StillResolves DEF LinkInv, Resolves
<1>2. ASSUME NEW q \in Requests PROVE Shares(q)' /\ Unlinked(q)'
  <2>1. CASE q = r
    BY <1>0, <2>1, EntrySteps DEF Begins, Shares, Unlinked
  <2>2. CASE q # r
    <3>1. pc'[q] = pc[q] /\ req'[q] = req[q] /\ Shares(q) /\ Unlinked(q)
      BY <1>0, <2>2 DEF Begins, LinkInv
    <3> QED
      BY <1>0, <3>1, Persistence, MetDeletionPersists DEF Shares, Unlinked
  <2> QED
    BY <2>1, <2>2
<1> QED
  BY <1>1, <1>2 DEF LinkInv

\* Who removes an object, and from where.
LEMMA Removals ==
  ASSUME TypeInv, NEW r \in Requests, Handle(r), NEW f \in files, f \notin files'
  PROVE  /\ Deletes(r) /\ req' = req /\ links' = links /\ Active(r)
         /\ f.bucket = req[r].bucket
         /\ \/ pc[r] = "dropFile" /\ f = doc[r]
            \/ pc[r] = "dropFiles"
<1>1. OthersKept(r) /\ Writers(r) /\ ControlOf(r) /\ HoldsOf(r)
  BY Others, HandleWriters DEF TypeInv, Flow
<1>2. FilesDropped(r)
  BY <1>1 DEF Writers, FileWritten
<1>3. CASE pc[r] = "dropFile"
  BY <1>1, <1>2, <1>3 DEF FilesDropped, ControlOf, HoldsOf, HasDoc, Deletes, OthersKept
<1>4. CASE pc[r] = "dropFiles"
  BY <1>1, <1>2, <1>4 DEF FilesDropped, ControlOf, Deletes, OthersKept, In
<1> QED
  BY <1>2, <1>3, <1>4 DEF FilesDropped

LEMMA LinkHandle ==
  ASSUME TypeInv, Beside, DeletionInv, LinkInv, [Next]_vars,
         NEW r \in Requests, Handle(r)
  PROVE  LinkInv'
<1>0. /\ TypeOK /\ ControlOf(r) /\ HoldsOf(r) /\ OthersKept(r) /\ Adds(r)
      /\ Arrivals(r) /\ Writers(r) /\ req' = req /\ Active(r)
  BY Others, HandleWriters, HandleAdds, HandleArrivals
     DEF TypeInv, Flow, OthersKept
<1>1. ASSUME NEW l \in links' PROVE Resolves(l)'
  <2>1. CASE l \notin links
    <3>1. /\ l.id = r /\ l.bucket = req[r].bucket /\ l.file = doc[r].id
          /\ pc[r] = "insertLink" /\ req[r].op = "share" /\ LinkWritten(r)
      BY <1>0, <2>1 DEF Adds, LinkWritten, ControlOf
    <3>2. doc[r].bucket = req[r].bucket /\ files' = files /\ Shares(r)
      BY <1>0, <3>1 DEF HoldsOf, HasDoc, LinkWritten, LinkInv
    <3> QED
      BY <3>1, <3>2, MetDeletionPersists DEF Shares, Resolves, In, Named
  <2>2. CASE l \in links
    <3>1. Resolves(l)
      BY <2>2 DEF LinkInv
    <3>2. CASE \A f \in files : f.id = l.file /\ f.bucket = l.bucket => f \in files'
      BY <3>1, <3>2, StillResolves DEF Resolves
    <3>3. ASSUME NEW f \in files, f.id = l.file, f.bucket = l.bucket, f \notin files'
          PROVE  Resolves(l)'
      <4>1. /\ Deletes(r) /\ f.bucket = req[r].bucket
            /\ \/ pc[r] = "dropFile" /\ f = doc[r]
               \/ pc[r] = "dropFiles"
        BY <3>3, Removals
      <4>2. CASE pc[r] = "dropFile" /\ f = doc[r] /\ req[r].op = "deleteObject"
        <5>1. l.file \in req[r].ids /\ req[r] # None
          BY <1>0, <3>3, <4>2, RequestParts
            DEF HoldsOf, HasDoc, Active
        <5> QED
          BY <1>0, <4>2, <5>1 DEF Resolves, DeletedByName
      <4>3. CASE pc[r] = "dropFile" /\ f = doc[r] /\ req[r].op = "deleteFiles"
        <5>1. l.id \in Requests /\ r \in met[l.id]
          BY <2>2, <3>3, <4>3 DEF LinkInv, Unlinked
        <5>2. MetDeletion(l.id)
          BY <4>1, <5>1 DEF MetDeletion
        <5> QED
          BY <5>1, <5>2, MetDeletionPersists DEF Resolves
      <4>4. CASE pc[r] = "dropFiles"
        <5>1. pc[r] \in AfterLinks /\ req[r].op = "deleteBucket" /\ pc[r] # "idle"
          BY <1>0, <4>4 DEF ControlOf, AfterLinks
        <5>2. l.id \in met[r]
          BY <2>2, <3>3, <4>1, <5>1 DEF DeletionInv, DeletionOf
        <5>3. l.id \in Requests /\ r \in met[l.id]
          BY <1>0, <5>2 DEF Beside, TypeOK
        <5>4. MetDeletion(l.id)
          BY <4>1, <5>3 DEF MetDeletion
        <5> QED
          BY <5>3, <5>4, MetDeletionPersists DEF Resolves
      <4>5. pc[r] = "dropFile" => req[r].op \in {"deleteFiles", "deleteObject"}
        BY <1>0 DEF ControlOf
      <4> QED
        BY <4>1, <4>2, <4>3, <4>4, <4>5
    <3> QED
      BY <3>2, <3>3
  <2> QED
    BY <2>1, <2>2
<1>2. ASSUME NEW q \in Requests, pc'[q] = "insertLink"
      PROVE  doc'[q] \in files' \/ MetDeletion(q)'
  <2>1. CASE q = r
    <3>1. GetFile(r) /\ files' = files
      BY <1>0, <1>2, <2>1 DEF Arrivals, GetFile, catalog
    <3>2. doc'[r] \in files
      BY <1>0, <1>2, <2>1, <3>1
         DEF GetFile, Keep, Finish, Goto, TypeOK, In, Named
    <3> QED
      BY <2>1, <3>1, <3>2
  <2>2. CASE q # r
    <3>1. pc[q] = "insertLink" /\ doc'[q] = doc[q] /\ Shares(q)
      BY <1>0, <1>2, <2>2 DEF OthersKept, Untouched, LinkInv
    <3>2. CASE MetDeletion(q)
      BY <3>2, MetDeletionPersists
    <3>3. CASE doc[q] \in files /\ doc[q] \notin files'
      <4>1. Deletes(r)
        BY <3>3, Removals
      <4>2. MetDeletion(q)
        BY <1>0, <2>2, <3>1, <4>1, ActiveMeet DEF Active, MetDeletion
      <4> QED
        BY <4>2, MetDeletionPersists
    <3> QED
      BY <3>1, <3>2, <3>3 DEF Shares
  <2> QED
    BY <2>1, <2>2
<1>3. ASSUME NEW q \in Requests, pc'[q] \in {"again", "dropFile"},
             req[q].op = "deleteFiles", NEW l \in links', l.file = doc'[q].id
      PROVE  l.id \in Requests /\ q \in met'[l.id]
  <2>1. CASE q = r
    <3>1. CASE DropFileLinks(r)
      BY <1>0, <1>3, <2>1, <3>1 DEF DropFileLinks, LinksDropped, locals
    <3>2. CASE GetFileAgain(r)
      <4>1. pc[r] = "again" /\ doc' = doc /\ links' = links
        BY <1>0, <1>3, <2>1, <3>2
           DEF GetFileAgain, catalog, locals, NextFile, Finish, Goto, TypeOK
      <4> QED
        BY <1>0, <1>3, <2>1, <4>1, Persistence DEF LinkInv, Unlinked
    <3> QED
      BY <1>0, <1>3, <2>1, <3>1, <3>2 DEF Arrivals, FindByName, ControlOf
  <2>2. CASE q # r
    <3>1. /\ pc[q] \in {"again", "dropFile"} /\ doc'[q] = doc[q] /\ Unlinked(q)
          /\ Active(q)
      BY <1>0, <1>3, <2>2 DEF OthersKept, Untouched, LinkInv, Active
    <3>2. CASE l \in links
      <4>1. l.id \in Requests /\ q \in met[l.id]
        BY <1>3, <3>1, <3>2 DEF Unlinked
      <4> QED
        BY <4>1, Persistence
    <3>3. CASE l \notin links
      <4>1. l.id = r /\ q \in met[r]
        BY <1>0, <2>2, <3>1, <3>3, ActiveMeet DEF Adds
      <4> QED
        BY <4>1, Persistence
    <3> QED
      BY <3>2, <3>3
  <2> QED
    BY <2>1, <2>2
<1> QED
  BY <1>0, <1>1, <1>2, <1>3 DEF LinkInv, Shares, Unlinked

\* LinkInv is inductive.
LEMMA LinkStep ==
  TypeInv /\ Beside /\ DeletionInv /\ LinkInv /\ [Next]_vars => LinkInv'
<1> SUFFICES ASSUME TypeInv, Beside, DeletionInv, LinkInv, [Next]_vars PROVE LinkInv'
  OBVIOUS
<1>1. ASSUME LinkExpires PROVE LinkInv'
  <2>1. \A l \in links' : Resolves(l)'
    <3> SUFFICES ASSUME NEW l \in links' PROVE Resolves(l)'
      OBVIOUS
    <3>1. PICK k \in links : k.id = l.id /\ k.bucket = l.bucket /\ k.file = l.file
      BY <1>1, ExpiredLinks
    <3> QED
      BY <1>1, <3>1, ExpiredLinks, StillResolves DEF LinkInv, Resolves
  <2> QED
    BY <1>1, <2>1, ExpiredLinks DEF LinkInv, Shares, Unlinked, MetDeletion, Deletes
<1>2. ASSUME UNCHANGED vars PROVE LinkInv'
  BY <1>2
     DEF vars, catalog, locals, LinkInv, Shares, Unlinked, Resolves,
         DeletedByName, MetDeletion, Deletes
<1> QED
  BY <1>1, <1>2, LinkStart, LinkHandle, NextCases

(***************************************************************************)
(* A share link leads to an object of its bucket, or one of the named      *)
(* excuses holds (LinksResolve).                                           *)
(***************************************************************************)
THEOREM LinksLeadToObjects == Spec => []LinksResolve
<1> DEFINE IInv == TypeInv /\ Beside /\ DeletionInv /\ LinkInv
<1>1. Init => IInv
  BY TypeInvInit, BesideInit, DeletionInit, LinkInit
<1>2. IInv /\ [Next]_vars => IInv'
  BY TypeInvStep, BesideStep, DeletionStep, LinkStep
<1>3. IInv => LinksResolve
  BY DEF LinkInv, Resolves, LinksResolve, DeletedByName, MetDeletion
<1> QED
  BY <1>1, <1>2, <1>3, PTL DEF Spec

(***************************************************************************)
(* What a request may come to hold.                                        *)
(***************************************************************************)
Comes(r) ==
  /\ \/ doc'[r] = None
     \/ doc'[r] = doc[r]
     \/ doc'[r] \in files /\ (FindByName(r) \/ GetFile(r) \/ ReadLinkedFile(r))
     \/ CountFilesElsewhere(r) /\ doc'[r].chunk \in work[r]
  /\ \A c \in work'[r] :
       \/ c \in work[r]
       \/ (ListFiles(r) \/ ListUploads(r)) /\ c \in Chunks(files \cup uploads)
       \/ Upload(r) /\ \E s \in Sources : c = <<r, s>>

LEMMA HandleComes ==
  ASSUME TypeInv, NEW r \in Requests, Handle(r)
  PROVE  Comes(r)
<1>0. TypeOK /\ req[r].bucket \in Buckets
  BY Others, RequestParts DEF TypeInv, OthersKept, Active
<1> USE DEF Comes, Finish, Goto, NextFile, AfterFileDeleted, Keep, locals
<1>1. ASSUME ListFiles(r) \/ ListUploads(r) PROVE Comes(r)
  BY <1>0, <1>1 DEF ListFiles, ListUploads, TypeOK, In, Chunks
<1>2. ASSUME Upload(r) PROVE Comes(r)
  <2>1. buckets[req[r].bucket].sources \subseteq Sources
    BY <1>0 DEF TypeOK, Bucket
  <2> QED
    BY <1>0, <1>2, <2>1 DEF Upload, TypeOK
<1>3. ASSUME FindByName(r) PROVE Comes(r)
  BY <1>0, <1>3 DEF FindByName, TypeOK, In, Named
<1>4. ASSUME GetFile(r) PROVE Comes(r)
  BY <1>0, <1>4 DEF GetFile, TypeOK, In, Named
<1>5. ASSUME ReadLinkedFile(r) PROVE Comes(r)
  BY <1>0, <1>5 DEF ReadLinkedFile, TypeOK, Named
<1>6. ASSUME CountFilesElsewhere(r) PROVE Comes(r)
  BY <1>0, <1>6 DEF CountFilesElsewhere, TypeOK
<1>7. ASSUME ReadBucket(r) \/ ReadGrant(r) \/ LoadSource(r) \/ Probe(r) \/
             InsertBucket(r) \/ CheckReferences(r) \/ DropSource(r)
      PROVE  Comes(r)
  BY <1>0, <1>7
    DEF TypeOK, ReadBucket, ReadGrant, LoadSource, Probe, InsertBucket,
        BucketWritten, CheckReferences, DropSource, SourceDropped
<1>11. ASSUME MetaFails(r) \/ ReplyLost(r) PROVE Comes(r)
  BY <1>0, <1>11 DEF TypeOK, MetaFails, ReplyLost, CallFailed
<1>8. ASSUME Resolve(r) \/ InsertFile(r) \/ UndoUpload(r) \/ ReadOrigin(r) \/
             Stream(r) \/ InsertLink(r) \/ Unlink(r) \/ ReadLink(r)
      PROVE  Comes(r)
  BY <1>0, <1>8
    DEF TypeOK, Resolve, InsertFile, FileWritten, UndoUpload, ReadOrigin, Stream,
        InsertLink, LinkWritten, Unlink, LinksDropped, OwnLinks, ReadLink
<1>9. ASSUME DropFileLinks(r) \/ GetFileAgain(r) \/ DropFile(r) \/
             CountReferences(r) \/ ReclaimFile(r) \/ DropLinks(r) \/ DropFiles(r) \/
             DropUploads(r)
      PROVE  Comes(r)
  BY <1>0, <1>9
    DEF TypeOK, DropFileLinks, LinksDropped, GetFileAgain, DropFile, FilesDropped,
        CountReferences, ReclaimFile, DropLinks, DropFiles, DropUploads,
        UploadsDropped
<1>10. ASSUME CountPartsElsewhere(r) \/ ReclaimContents(r) \/ DropGrants(r) \/
              DropBucket(r) \/ InsertGrant(r) \/ UpdateGrant(r) \/ DropGrant(r)
      PROVE  Comes(r)
  BY <1>0, <1>10
    DEF TypeOK, CountPartsElsewhere, ReclaimContents, DropGrants, GrantsRewritten,
        DropBucket, BucketDropped, InsertGrant, GrantWritten, UpdateGrant, DropGrant
<1> QED
  BY <1>1, <1>2, <1>3, <1>4, <1>5, <1>6, <1>7, <1>8, <1>9, <1>10, <1>11 DEF Handle

\* What a request does once its chunk is stored, or its copy's origin found.
LEMMA InsertionEnds ==
  ASSUME TypeInv, NEW r \in Requests, Handle(r), pc[r] \in {"insert", "undo"}
  PROVE  InsertFile(r) \/ UndoUpload(r) \/ MetaFails(r) \/ ReplyLost(r)
<1>1. ~(ReadBucket(r) \/ ReadGrant(r) \/ LoadSource(r) \/ Probe(r) \/ InsertBucket(r) \/
        CheckReferences(r) \/ DropSource(r) \/ Resolve(r) \/ Upload(r))
  BY DEF ReadBucket, ReadGrant, LoadSource, Probe, InsertBucket, CheckReferences,
         DropSource, SourceDropped, Resolve, Upload
<1>2. ~(ReadOrigin(r) \/ FindByName(r) \/ GetFile(r) \/ Stream(r) \/
        InsertLink(r) \/ Unlink(r) \/ ReadLink(r) \/ ReadLinkedFile(r))
  BY DEF ReadOrigin, FindByName, GetFile, Stream, InsertLink, LinkWritten,
         Unlink, ReadLink, ReadLinkedFile
<1>3. ~(DropFileLinks(r) \/ GetFileAgain(r) \/ DropFile(r) \/ CountReferences(r) \/
        ReclaimFile(r) \/ DropLinks(r) \/ ListFiles(r) \/ ListUploads(r) \/ DropFiles(r))
  BY DEF DropFileLinks, GetFileAgain, DropFile, CountReferences, ReclaimFile,
         DropLinks, ListFiles, ListUploads, DropFiles
<1>4. ~(DropUploads(r) \/ CountFilesElsewhere(r) \/ CountPartsElsewhere(r) \/
        ReclaimContents(r) \/ DropGrants(r) \/ DropBucket(r) \/ InsertGrant(r) \/
        UpdateGrant(r) \/ DropGrant(r))
  BY DEF DropUploads, UploadsDropped, CountFilesElsewhere, CountPartsElsewhere,
         ReclaimContents, DropGrants, DropBucket, BucketDropped, InsertGrant,
         UpdateGrant, DropGrant
<1> QED
  BY <1>1, <1>2, <1>3, <1>4 DEF Handle

\* An undone put answers with an error.
LEMMA UndoEnds ==
  ASSUME TypeInv, NEW r \in Requests, Handle(r), pc[r] = "undo"
  PROVE  UndoUpload(r) /\ pc'[r] = "done" /\ res'[r] = "err"
<1>1. UndoUpload(r)
  BY InsertionEnds DEF InsertFile, FileWritten, MetaFails, ReplyLost, CallFailed
<1> QED
  BY <1>1, FinishTypes DEF UndoUpload, Results, TypeInv

(***************************************************************************)
(* A chunk is named by the put that stored it: until that has written its  *)
(* document, no document and no other request names the chunk.             *)
(***************************************************************************)
Unwritten(q) ==
  pc[q] \notin {"undo", "done"} =>
   \A s \in Sources :
     /\ \A f \in files \cup uploads : f.chunk # <<q, s>>
     /\ \A r \in Requests : /\ doc[r] # None => doc[r].chunk # <<q, s>>
                            /\ <<q, s>> \in work[r] => r = q /\ req[q].op = "put"

UnwrittenInv == \A q \in Requests : Unwritten(q)

LEMMA UnwrittenInit == Init => UnwrittenInv
<1> SUFFICES ASSUME Init PROVE UnwrittenInv
  OBVIOUS
<1>1. PICK home \in Sources, copied \in {Home} \cup Buckets, role \in Roles :
        Contents(home, copied, role)
  BY DEF Init
<1>2. \A f \in files \cup uploads : f.chunk[1] \in {"file", "part"}
  BY <1>1 DEF Contents
<1>3. \A q \in Requests : q \notin {"file", "part"}
  BY NamesAssumption DEF Old
<1> QED
  BY <1>2, <1>3 DEF Init, UnwrittenInv, Unwritten

LEMMA UnwrittenHandle ==
  ASSUME TypeInv, Beside, UnwrittenInv, [Next]_vars, NEW r \in Requests, Handle(r)
  PROVE  UnwrittenInv'
<1>0. /\ TypeOK /\ ControlOf(r) /\ OthersKept(r) /\ Adds(r) /\ Comes(r)
      /\ pc[r] # "done" /\ req' = req /\ (pc[r] = "undo" => pc'[r] = "done")
  BY UndoEnds, Others, HandleAdds, HandleComes DEF TypeInv, Flow, OthersKept, Active
<1> SUFFICES ASSUME NEW q \in Requests, pc'[q] \notin {"undo", "done"},
                    NEW s \in Sources
             PROVE  /\ \A f \in files' \cup uploads' : f.chunk # <<q, s>>
                    /\ \A p \in Requests :
                         /\ doc'[p] # None => doc'[p].chunk # <<q, s>>
                         /\ <<q, s>> \in work'[p] => p = q /\ req'[q].op = "put"
  BY DEF UnwrittenInv, Unwritten
<1>1. /\ \A f \in files \cup uploads : f.chunk # <<q, s>>
      /\ \A p \in Requests : /\ doc[p] # None => doc[p].chunk # <<q, s>>
                             /\ <<q, s>> \in work[p] => p = q /\ req[q].op = "put"
  BY <1>0 DEF UnwrittenInv, Unwritten, OthersKept, Untouched
<1>2. ASSUME NEW f \in files' \cup uploads' PROVE f.chunk # <<q, s>>
  <2>1. CASE f \in files \cup uploads
    BY <1>1, <2>1
  <2>2. CASE f \notin files \cup uploads
    <3>1. /\ FileWritten(r) /\ f.id = r
          /\ req[r].op = "copy" => f.chunk = doc[r].chunk
          /\ req[r].op = "put" => work[r] = {f.chunk}
      BY <1>0, <1>2, <2>2 DEF Adds
    <3>2. req[r].op \in {"put", "copy"} /\ (req[r].op = "copy" => doc[r] # None)
      BY <1>0, <3>1 DEF FileWritten, ControlOf, TypeInv, Flow, HoldsOf, HasDoc
    <3>3. pc'[r] \in {"undo", "done"}
      BY <1>0, <3>1, InsertionEnds
         DEF FileWritten, InsertFile, UndoUpload, MetaFails, ReplyLost, CallFailed,
             ControlOf, Finish, Goto, TypeOK
    <3> QED
      BY <1>1, <3>1, <3>2, <3>3
  <2> QED
    BY <2>1, <2>2
<1>3. ASSUME NEW p \in Requests
      PROVE  /\ doc'[p] # None => doc'[p].chunk # <<q, s>>
             /\ <<q, s>> \in work'[p] => p = q /\ req'[q].op = "put"
  <2>1. CASE p # r
    BY <1>0, <1>1, <2>1 DEF OthersKept, Untouched
  <2>2. CASE p = r
    <3>1. CountFilesElsewhere(r) => req[r].op = "deleteBucket"
      BY <1>0 DEF CountFilesElsewhere, ControlOf
    <3>2. Upload(r) => req[r].op = "put"
      BY <1>0 DEF Upload, ControlOf
    <3>3. \A c \in Chunks(files \cup uploads) : c # <<q, s>>
      BY <1>1 DEF Chunks
    <3>4. doc'[r] # None => doc'[r].chunk # <<q, s>>
      BY <1>0, <1>1, <3>1 DEF Comes
    <3>5. <<q, s>> \in work'[r] => r = q /\ req[q].op = "put"
      BY <1>0, <1>1, <3>2, <3>3 DEF Comes
    <3> QED
      BY <1>0, <2>2, <3>4, <3>5
  <2> QED
    BY <2>1, <2>2
<1> QED
  BY <1>2, <1>3

\* UnwrittenInv is inductive.
LEMMA UnwrittenStep ==
  TypeInv /\ Beside /\ UnwrittenInv /\ [Next]_vars => UnwrittenInv'
<1> SUFFICES ASSUME TypeInv, Beside, UnwrittenInv, [Next]_vars PROVE UnwrittenInv'
  OBVIOUS
<1>1. ASSUME NEW r \in Requests, Start(r) PROVE UnwrittenInv'
  <2>1. /\ Begins(r) /\ files' = files /\ uploads' = uploads /\ doc' = doc
        /\ work' = work /\ work[r] = {}
    BY <1>1, StartBegins
       DEF Begins, catalog, TypeInv, Flow, HoldsOf, HasWork
  <2> QED
    BY <2>1 DEF Begins, UnwrittenInv, Unwritten
<1>2. ASSUME LinkExpires PROVE UnwrittenInv'
  BY <1>2, ExpiredLinks DEF UnwrittenInv, Unwritten
<1>3. ASSUME UNCHANGED vars PROVE UnwrittenInv'
  BY <1>3 DEF vars, catalog, locals, UnwrittenInv, Unwritten
<1> QED
  BY <1>1, <1>2, <1>3, UnwrittenHandle, NextCases

(***************************************************************************)
(* FilesReadable: a deletion takes a chunk only when it has seen that no   *)
(* document lists it; the documents that list it by then came from a copy  *)
(* that met the deletion. A put that was told its document had not been    *)
(* written takes its chunk back whatever lists it.                         *)
(***************************************************************************)
TakenBack(c) ==
  c[1] \in Requests /\ pc[c[1]] = "done" /\ res[c[1]] = "err"

ReadOf(r) ==
  /\ pc[r] = "insert" /\ req[r].op = "copy" =>
       doc[r].chunk \in store \cup torn \/ TakenBack(doc[r].chunk) \/ MetDeletion(r)
  /\ pc[r] = "insert" /\ req[r].op = "put" => work[r] \subseteq store
  /\ pc[r] \in {"countParts", "reclaim"} =>
       \A f \in files : f.chunk = doc[r].chunk => f.chunk \in torn
  /\ pc[r] \in AfterFiles /\ req[r].op = "deleteBucket" =>
       \A f \in files : f.bucket = req[r].bucket /\ f.chunk \in work[r]
                          => f.chunk \in torn

ReadInv ==
  /\ \A f \in files : f.chunk \in store \cup torn \/ TakenBack(f.chunk)
  /\ \A r \in Requests : ReadOf(r)

LEMMA ReadInit == Init => ReadInv
<1> SUFFICES ASSUME Init PROVE ReadInv
  OBVIOUS
<1>1. PICK home \in Sources, copied \in {Home} \cup Buckets, role \in Roles :
        Contents(home, copied, role)
  BY DEF Init
<1>2. \A f \in files : f.chunk \in store
  BY <1>1 DEF Contents
<1> QED
  BY <1>2 DEF Init, ReadInv, ReadOf, AfterFiles, AfterUploads

\* What was taken back stays so.
LEMMA TakenBackPersists ==
  ASSUME TypeInv, NEW r \in Requests, Handle(r), NEW c, TakenBack(c)
  PROVE  TakenBack(c)'
BY Others DEF TakenBack, OthersKept, Untouched, Active, TypeInv

\* What a step may take from the sources.
LEMMA Losses ==
  ASSUME TypeInv, NEW r \in Requests, Handle(r), NEW c \in store, c \notin store'
  PROVE  /\ files' = files
         /\ \/ /\ pc[r] = "undo" /\ TakenBack(c)'
               /\ \E s \in Sources : c = <<r, s>>
            \/ pc[r] = "reclaim" /\ c = doc[r].chunk /\ Deletes(r)
<1>1. /\ ControlOf(r) /\ HoldsOf(r) /\ Writers(r)
      /\ UndoUpload(r) \/ ReclaimFile(r) \/ ReclaimContents(r)
  BY HandleWriters DEF TypeInv, Flow, Writers, Upload
<1>2. CASE UndoUpload(r)
  <2>1. pc[r] = "undo" /\ c \in work[r] /\ files' = files
    BY <1>2 DEF UndoUpload, ChunkDeleted, ChunkKept, catalog
  <2>2. PICK s \in Sources : c = <<r, s>>
    BY <1>1, <2>1 DEF ControlOf, HoldsOf
  <2>3. TakenBack(c)'
    BY <2>1, <2>2, UndoEnds DEF TakenBack
  <2> QED
    BY <2>1, <2>2, <2>3
<1>3. CASE ReclaimFile(r) \/ ReclaimContents(r)
  BY <1>1, <1>3
     DEF ReclaimFile, ReclaimContents, ChunkDeleted, ChunkKept, catalog,
         ControlOf, Deletes
<1> QED
  BY <1>1, <1>2, <1>3

\* What a step may add to the objects.
LEMMA NewObject ==
  ASSUME TypeInv, Beside, UnwrittenInv, NoteCopies, NEW r \in Requests, Handle(r),
         NEW f \in files', f \notin files
  PROVE  /\ pc[r] = "insert" /\ f.id = r /\ f.bucket = req[r].bucket /\ store' = store
         /\ \/ /\ req[r].op = "copy" /\ f.chunk = doc[r].chunk
               /\ MetDeletion(r) => f.chunk \in torn'
            \/ /\ req[r].op = "put" /\ work[r] = {f.chunk}
               /\ \A q \in Requests : doc[q] # None => doc[q].chunk # f.chunk
               /\ \A q \in Requests \ {r} : f.chunk \notin work[q]
<1>1. /\ ControlOf(r) /\ HoldsOf(r) /\ FileWritten(r)
      /\ f.id = r /\ f.bucket = req[r].bucket
      /\ req[r].op = "copy" => f.chunk = doc[r].chunk
      /\ req[r].op = "put" => work[r] = {f.chunk}
  BY HandleAdds DEF TypeInv, Flow, Adds
<1>2. pc[r] = "insert" /\ store' = store /\ req[r].op \in {"put", "copy"}
  BY <1>1, InsertionEnds
     DEF InsertFile, FileWritten, UndoUpload, MetaFails, ReplyLost, CallFailed, ControlOf
<1>3. CASE req[r].op = "copy"
  <2>1. MetDeletion(r) => f.chunk \in torn'
    BY <1>1, <1>3 DEF NoteCopies, MetDeletion, Chunks
  <2> QED
    BY <1>1, <1>2, <1>3, <2>1
<1>4. CASE req[r].op = "put"
  <2>1. PICK s \in Sources : f.chunk = <<r, s>>
    BY <1>1, <1>2, <1>4 DEF HoldsOf
  <2> QED
    BY <1>1, <1>2, <1>4, <2>1 DEF UnwrittenInv, Unwritten
<1> QED
  BY <1>2, <1>3, <1>4

LEMMA ReadHandle ==
  ASSUME TypeInv, Beside, UnwrittenInv, ReadInv, [Next]_vars, NoteCopies,
         NEW r \in Requests, Handle(r)
  PROVE  ReadInv'
<1>0. /\ TypeOK /\ ControlOf(r) /\ HoldsOf(r) /\ OthersKept(r) /\ Arrivals(r)
      /\ Comes(r) /\ ReadOf(r) /\ Active(r) /\ req' = req /\ torn \subseteq torn'
      /\ Writers(r)
  BY Others, HandleArrivals, HandleComes, HandleWriters, Persistence
     DEF TypeInv, Flow, OthersKept, ReadInv
<1>1. ASSUME NEW f \in files' PROVE f.chunk \in store' \cup torn' \/ TakenBack(f.chunk)'
  <2>1. CASE f \in files
    <3>1. f.chunk \in store \cup torn \/ TakenBack(f.chunk)
      BY <2>1 DEF ReadInv
    <3>2. CASE f.chunk \in store /\ f.chunk \notin store'
      <4>1. TakenBack(f.chunk)' \/ (pc[r] = "reclaim" /\ f.chunk = doc[r].chunk)
        BY <2>1, <3>2, Losses
      <4> QED
        BY <1>0, <2>1, <4>1 DEF ReadOf
    <3> QED
      BY <1>0, <3>1, <3>2, TakenBackPersists
  <2>2. CASE f \notin files
    BY <1>0, <2>2, NewObject, TakenBackPersists DEF ReadOf
  <2> QED
    BY <2>1, <2>2
<1>2. ASSUME NEW q \in Requests, q # r PROVE ReadOf(q)'
  <2>0. /\ pc'[q] = pc[q] /\ doc'[q] = doc[q] /\ work'[q] = work[q]
        /\ req'[q] = req[q] /\ ReadOf(q) /\ ControlOf(q) /\ HoldsOf(q)
    BY <1>0, <1>2 DEF OthersKept, Untouched, ReadInv, TypeInv, Flow
  <2>1. ASSUME pc[q] = "insert", req[q].op = "copy"
        PROVE  \/ doc[q].chunk \in store' \cup torn' \/ TakenBack(doc[q].chunk)'
               \/ MetDeletion(q)'
    <3>0. doc[q] # None
      BY <2>0, <2>1 DEF HoldsOf, HasDoc
    <3>1. CASE doc[q].chunk \in store /\ doc[q].chunk \notin store'
      <4>1. TakenBack(doc[q].chunk)' \/ Deletes(r)
        BY <2>0, <3>1, Losses
      <4>2. Deletes(r) => MetDeletion(q)
        BY <1>0, <1>2, <2>1, ActiveMeet DEF MetDeletion, Active
      <4> QED
        BY <4>1, <4>2, MetDeletionPersists
    <3> QED
      BY <1>0, <2>0, <2>1, <3>1, MetDeletionPersists, TakenBackPersists DEF ReadOf
  <2>2. ASSUME pc[q] = "insert", req[q].op = "put" PROVE work[q] \subseteq store'
    <3> SUFFICES ASSUME NEW c \in work[q], c \notin store' PROVE FALSE
      OBVIOUS
    <3>1. PICK s \in Sources : c = <<q, s>>
      BY <2>0, <2>2 DEF HoldsOf
    <3>2. c \in store
      BY <2>0, <2>2 DEF ReadOf
    <3>3. \A p \in Requests : /\ doc[p] # None => doc[p].chunk # c
                              /\ c \in work[p] => p = q
      BY <2>2, <3>1 DEF UnwrittenInv, Unwritten
    <3>4. pc[r] = "reclaim" => doc[r] # None
      BY <1>0 DEF HoldsOf, HasDoc
    <3> QED
      BY <1>2, <3>1, <3>2, <3>3, <3>4, Losses
  <2>3. ASSUME pc[q] \in {"countParts", "reclaim"}, NEW f \in files',
               f.chunk = doc[q].chunk
        PROVE  f.chunk \in torn'
    <3>1. CASE f \in files
      BY <1>0, <2>0, <2>3, <3>1 DEF ReadOf
    <3>2. CASE f \notin files
      <4>1. Deletes(q) /\ Active(q) /\ doc[q] # None
        BY <2>0, <2>3 DEF ControlOf, HoldsOf, HasDoc, Deletes, Active
      <4>2. MetDeletion(r)
        BY <1>0, <1>2, <4>1, ActiveMeet DEF MetDeletion
      <4> QED
        BY <2>3, <3>2, <4>1, <4>2, NewObject
    <3> QED
      BY <3>1, <3>2
  <2>4. ASSUME pc[q] \in AfterFiles, req[q].op = "deleteBucket", NEW f \in files',
               f.bucket = req[q].bucket, f.chunk \in work[q]
        PROVE  f.chunk \in torn'
    <3>1. CASE f \in files
      BY <1>0, <2>0, <2>4, <3>1 DEF ReadOf
    <3>2. CASE f \notin files
      <4>1. Deletes(q) /\ Active(q)
        BY <2>4 DEF Deletes, Active, AfterFiles, AfterUploads
      <4>2. MetDeletion(r)
        BY <1>0, <1>2, <4>1, ActiveMeet DEF MetDeletion
      <4> QED
        BY <1>2, <2>4, <3>2, <4>2, NewObject
    <3> QED
      BY <3>1, <3>2
  <2> QED
    BY <2>0, <2>1, <2>2, <2>3, <2>4 DEF ReadOf
<1>3. ReadOf(r)'
  <2>1. ASSUME pc'[r] = "insert", req[r].op = "copy"
        PROVE  (doc[r].chunk \in store \cup torn \/ TakenBack(doc[r].chunk))'
    <3>1. FindByName(r) /\ store' = store
      BY <1>0, <2>1 DEF Arrivals, Upload, ControlOf, FindByName
    <3>2. doc'[r] \in files
      BY <1>0, <2>1, <3>1 DEF FindByName, Keep, Finish, Goto, In, Named, TypeOK
    <3>3. PICK f \in files : f = doc'[r]
      BY <3>2
    <3>4. f.chunk \in store \cup torn \/ TakenBack(f.chunk)
      BY DEF ReadInv
    <3>5. f.chunk \in store' \cup torn' \/ TakenBack(f.chunk)'
      BY <1>0, <3>1, <3>4, TakenBackPersists
    <3> QED
      BY <3>3, <3>5
  <2>2. ASSUME pc'[r] = "insert", req[r].op = "put"
        PROVE  work'[r] \subseteq store'
    BY <1>0, <2>2 DEF Arrivals, Upload, FindByName, ControlOf, Finish, Goto, TypeOK
  <2>3. ASSUME pc'[r] \in {"countParts", "reclaim"}, NEW f \in files',
               f.chunk = doc'[r].chunk
        PROVE  f.chunk \in torn'
    <3>1. CASE CountReferences(r)
      BY <1>0, <2>3, <3>1
         DEF CountReferences, AfterFileDeleted, NextFile, Finish, Goto, TypeOK,
             locals, catalog, Chunks
    <3>2. CASE CountPartsElsewhere(r)
      BY <1>0, <2>3, <3>2
         DEF CountPartsElsewhere, Goto, Keep, TypeOK, catalog, ReadOf
    <3>3. CASE CountFilesElsewhere(r)
      <4>1. /\ doc'[r].chunk \in work[r] /\ files' = files /\ pc[r] = "countFiles"
            /\ doc'[r].chunk \notin Chunks(Elsewhere(files, req[r].bucket))
        BY <1>0, <2>3, <3>3 DEF CountFilesElsewhere, Goto, Keep, TypeOK, catalog
      <4>2. f.bucket = req[r].bucket
        BY <2>3, <4>1 DEF Chunks, Elsewhere, In
      <4>3. req[r].op = "deleteBucket" /\ pc[r] \in AfterFiles
        BY <1>0, <4>1 DEF ControlOf, AfterFiles, AfterUploads
      <4> QED
        BY <1>0, <2>3, <4>1, <4>2, <4>3 DEF ReadOf
    <3> QED
      BY <1>0, <2>3, <3>1, <3>2, <3>3 DEF Arrivals
  <2>4. ASSUME pc'[r] \in AfterFiles, req[r].op = "deleteBucket", NEW f \in files',
               f.bucket = req[r].bucket, f.chunk \in work'[r]
        PROVE  f.chunk \in torn'
    <3>1. f \in files
      BY <1>0, <2>4, NewObject DEF ControlOf
    <3>2. ~DropFiles(r) /\ pc[r] \in AfterFiles
      BY <1>0, <2>4, DeletionChain DEF DropFiles, FilesDropped, In
    <3>3. f.chunk \in work[r]
      BY <1>0, <2>4, <3>2
         DEF Comes, ListFiles, ListUploads, Upload, AfterFiles, AfterUploads
    <3> QED
      BY <1>0, <2>4, <3>1, <3>2, <3>3 DEF ReadOf
  <2> QED
    BY <1>0, <2>1, <2>2, <2>3, <2>4 DEF ReadOf
<1> QED
  BY <1>1, <1>2, <1>3 DEF ReadInv

\* ReadInv is inductive.
LEMMA ReadStep ==
  TypeInv /\ Beside /\ UnwrittenInv /\ ReadInv /\ [Next]_vars => ReadInv'
<1> SUFFICES ASSUME TypeInv, Beside, UnwrittenInv, ReadInv, [Next]_vars PROVE ReadInv'
  OBVIOUS
<1>1. ASSUME NEW r \in Requests, Start(r) PROVE ReadInv'
  <2>1. /\ Begins(r) /\ files' = files /\ doc' = doc /\ work' = work
        /\ store' = store /\ torn \subseteq torn' /\ req'[r].op \in AllOps
        /\ res' = res
    BY <1>1, StartBegins, Persistence DEF Begins, catalog, Shape, Request
  <2>3. ASSUME NEW c, TakenBack(c) PROVE TakenBack(c)'
    BY <2>1, <2>3 DEF Begins, TakenBack
  <2>2. ASSUME NEW q \in Requests PROVE ReadOf(q)'
    <3>1. CASE q = r
      BY <2>1, <3>1, EntrySteps DEF Begins, ReadOf, AfterFiles, AfterUploads
    <3>2. CASE q # r
      <4>1. pc'[q] = pc[q] /\ req'[q] = req[q] /\ ReadOf(q)
        BY <2>1, <3>2 DEF Begins, ReadInv
      <4> QED
        BY <2>1, <2>3, <4>1, MetDeletionPersists DEF ReadOf
    <3> QED
      BY <3>1, <3>2
  <2> QED
    BY <2>1, <2>2, <2>3 DEF ReadInv
<1>2. ASSUME LinkExpires PROVE ReadInv'
  BY <1>2, ExpiredLinks, Persistence DEF ReadInv, ReadOf, MetDeletion, Deletes, TakenBack
<1>3. ASSUME UNCHANGED vars PROVE ReadInv'
  BY <1>3 DEF vars, catalog, locals, ReadInv, ReadOf, MetDeletion, Deletes, TakenBack
<1> QED
  BY <1>1, <1>2, <1>3, ReadHandle, NextCases

(***************************************************************************)
(* An object of a live bucket can be read, or one of the named excuses     *)
(* holds (FilesReadable).                                                  *)
(***************************************************************************)
THEOREM ObjectsReadable == Spec => []FilesReadable
<1> DEFINE IInv == TypeInv /\ Beside /\ CreationInv /\ UnwrittenInv /\ ReadInv
<1>1. Init => IInv
  BY TypeInvInit, BesideInit, CreationInit, UnwrittenInit, ReadInit
<1>2. IInv /\ [Next]_vars => IInv'
  BY TypeInvStep, BesideStep, CreationStep, UnwrittenStep, ReadStep
<1>3. IInv => FilesReadable
  BY FileParts
     DEF CreationInv, BucketSourcesExist, ReadInv, FilesReadable, PutReplyLost,
         TakenBack, TypeInv, TypeOK
<1> QED
  BY <1>1, <1>2, <1>3, PTL DEF Spec

(***************************************************************************)
(* NoStrayChunks: a chunk without a document is the copy of a timed-out    *)
(* upload, or is still held by the request                                 *)
(* that took the last document away, or some answer was an error or a      *)
(* warning, or a put or copy met a DeleteBucket.                           *)
(***************************************************************************)
Loud == \E r \in Requests : res[r] \in {"warn", "err"}

\* A put or a copy met a DeleteBucket.
WriteRaced ==
  \E r \in Requests : /\ pc[r] # "idle"
                      /\ req[r].op \in {"put", "copy"}
                      /\ Met(r, {"deleteBucket"})

\* r has c in hand, to store it or to delete it.
Holds(r, c) ==
  \/ c \in work[r]
  \/ /\ pc[r] \in {"count", "countParts", "reclaim"}
     /\ c = doc[r].chunk

\* A document names c, or a request has it in hand.
Placed(c) ==
  \/ c \in Chunks(files \cup uploads)
  \/ \E r \in Requests : Holds(r, c)

\* What DeleteBucket deletes next is among the chunks it has collected.
StrayOf(r) ==
  /\ pc[r] \in {"listUploads", "dropFiles"} =>
       \A f \in files : f.bucket = req[r].bucket => f.chunk \in work[r]
  /\ pc[r] \in {"dropFiles", "dropUploads"} =>
       \A f \in uploads : f.bucket = req[r].bucket => f.chunk \in work[r]

StrayInv ==
  \/ Loud
  \/ WriteRaced
  \/ /\ \A c \in store \ {Stray} : Placed(c)
     /\ \A r \in Requests : StrayOf(r)

LEMMA StrayInit == Init => StrayInv
<1> SUFFICES ASSUME Init PROVE StrayInv
  OBVIOUS
<1>1. PICK home \in Sources, copied \in {Home} \cup Buckets, role \in Roles :
        Contents(home, copied, role)
  BY DEF Init
<1>2. \A c \in store : c \in Chunks(files \cup uploads)
  <2> DEFINE f == [id |-> "file", bucket |-> Home, chunk |-> <<"file", home>>]
             u == [id |-> "part", bucket |-> Home, chunk |-> <<"part", home>>]
  <2>1. f \in files \cup uploads /\ u \in files \cup uploads
    BY <1>1 DEF Contents
  <2>2. store = {f.chunk, u.chunk}
    BY <1>1 DEF Contents
  <2> QED
    BY <2>1, <2>2 DEF Chunks
<1> QED
  BY <1>2 DEF Init, StrayInv, StrayOf, Placed

\* A write that met a DeleteBucket stays one that did.
LEMMA WriteRacedPersists ==
  ASSUME TypeInv, Beside, [Next]_vars, WriteRaced
  PROVE  WriteRaced'
<1>1. PICK r \in Requests : /\ pc[r] # "idle" /\ req[r].op \in {"put", "copy"}
                            /\ Met(r, {"deleteBucket"})
  BY DEF WriteRaced
<1>2. Met(r, {"deleteBucket"})' /\ pc'[r] # "idle" /\ req'[r] = req[r]
  BY <1>1, MetPersists, Persistence
<1> QED
  BY <1>1, <1>2 DEF WriteRaced

\* A failed call to MongoDB ends in an error or a warning, or the put takes
\* its chunk back.
LEMMA FailuresAreTold ==
  ASSUME TypeInv, NEW r \in Requests, MetaFails(r) \/ ReplyLost(r)
  PROVE  \/ res'[r] \in {"warn", "err"}
         \/ /\ pc[r] = "insert" /\ pc'[r] = "undo" /\ req[r].op = "put"
            /\ UNCHANGED <<res, locals>>
<1>0. TypeOK /\ res[r] \in Results /\ CallFailed(r)
  BY DEF TypeInv, TypeOK, MetaFails, ReplyLost
<1>1. ASSUME NEW result \in {"warn", "err"}, Finish(r, result) \/ NextFile(r, result)
      PROVE  res'[r] \in {"warn", "err"}
  BY <1>0, <1>1, FinishTypes, NextFileTypes, WorseIsLoud DEF Results
<1> QED
  BY <1>0, <1>1 DEF CallFailed, Goto, TypeOK

\* A batch's answer is never better than the worst so far.
LEMMA LoudPersists ==
  ASSUME TypeInv, NEW r \in Requests, Handle(r), Loud
  PROVE  Loud'
<1>0. /\ TypeOK /\ ControlOf(r) /\ OthersKept(r)
  BY Others DEF TypeInv, Flow
<1>1. PICK q \in Requests : res[q] \in {"warn", "err"}
  BY DEF Loud
<1>2. CASE q # r
  BY <1>0, <1>1, <1>2 DEF OthersKept, Untouched, Loud
<1>3. CASE q = r
  <2>1. /\ req[r].op = "deleteFiles" /\ pc[r] \notin {"bucket", "grant"}
        /\ res[r] \in Results
    BY <1>0, <1>1, <1>3 DEF ControlOf, OthersKept, Active, TypeOK
  <2> DEFINE Goal == res'[r] \in {"warn", "err"}
  <2>2. ASSUME NEW result \in Results, NextFile(r, result) PROVE Goal
    BY <1>0, <1>1, <1>3, <2>1, <2>2, WorseIsLoud, NextFileTypes
  <2>3. ASSUME NEW result \in Results, Finish(r, Worse(res[r], result)) PROVE Goal
    BY <1>0, <1>1, <1>3, <2>1, <2>3, WorseIsLoud DEF Finish, TypeOK
  <2>4. ASSUME res' = res PROVE Goal
    BY <1>1, <1>3, <2>4
  <2>5. ASSUME NEW result \in Results, res' = [res EXCEPT ![r] = Worse(@,
               result)] PROVE Goal
    BY <1>0, <1>1, <1>3, <2>1, <2>5, WorseIsLoud DEF TypeOK
  <2> HIDE DEF Goal
  <2>6. ASSUME GetFileAgain(r) \/ DropFile(r) \/ CountReferences(r) \/ ReclaimFile(r)
        PROVE  Goal
    BY <2>1, <2>2, <2>4, <2>6
       DEF GetFileAgain, DropFile, FilesDropped, CountReferences, ReclaimFile,
           AfterFileDeleted, Results
  <2>11. ASSUME MetaFails(r) \/ ReplyLost(r) PROVE Goal
    BY <2>1, <2>11, FailuresAreTold DEF Goal
  <2>7. ASSUME GetFile(r) PROVE Goal
    BY <2>3, <2>4, <2>5, <2>7 DEF GetFile, Results
  <2>8. ASSUME DropFileLinks(r) PROVE Goal
    BY <2>4, <2>8 DEF DropFileLinks, LinksDropped
  <2>9. /\ ~(ReadBucket(r) \/ ReadGrant(r) \/ LoadSource(r) \/ Probe(r) \/
             InsertBucket(r) \/ CheckReferences(r) \/ DropSource(r) \/ Resolve(r) \/
             Upload(r))
        /\ ~(InsertFile(r) \/ UndoUpload(r) \/ ReadOrigin(r) \/ FindByName(r) \/
             Stream(r) \/ InsertLink(r) \/ Unlink(r) \/ ReadLink(r) \/ ReadLinkedFile(r))
        /\ ~(DropLinks(r) \/ ListFiles(r) \/ ListUploads(r) \/ DropFiles(r) \/
             DropUploads(r) \/ CountFilesElsewhere(r) \/ CountPartsElsewhere(r) \/
             ReclaimContents(r))
        /\ ~(DropGrants(r) \/ DropBucket(r) \/ InsertGrant(r) \/ UpdateGrant(r) \/
             DropGrant(r))
    BY <1>0, <2>1
       DEF ControlOf, ReadBucket, ReadGrant, LoadSource, Probe, InsertBucket,
           BucketWritten, CheckReferences, DropSource, SourceDropped, Resolve,
           Upload, InsertFile, FileWritten, UndoUpload, ReadOrigin, FindByName,
           Stream, InsertLink, LinkWritten, Unlink, LinksDropped, OwnLinks, ReadLink,
           ReadLinkedFile, DropLinks, ListFiles, ListUploads, DropFiles,
           FilesDropped, DropUploads, UploadsDropped, CountFilesElsewhere,
           CountPartsElsewhere, ReclaimContents, DropGrants, GrantsRewritten,
           DropBucket, BucketDropped, InsertGrant, GrantWritten, UpdateGrant,
           DropGrant
  <2>10. Goal
    BY <2>6, <2>7, <2>8, <2>9, <2>11 DEF Handle
  <2> QED
    BY <2>10 DEF Loud, Goal
<1> QED
  BY <1>2, <1>3

\* A request keeps hold of a chunk it may have to delete until it has seen
\* another document of it, or deleted it, or reported that it could not.
LEMMA StillHeld ==
  ASSUME TypeInv, NEW r \in Requests, Handle(r), ~Loud',
         NEW c \in store', Holds(r, c)
  PROVE  c \in Chunks(files' \cup uploads') \/ Holds(r, c)'
<1>0. /\ TypeOK /\ ControlOf(r) /\ HoldsOf(r) /\ OthersKept(r) /\ res[r] \in Results
  BY Others DEF TypeInv, Flow, TypeOK
<1>1. res'[r] \notin {"warn", "err"}
  BY DEF Loud
<1> DEFINE Goal == c \in Chunks(files' \cup uploads') \/ Holds(r, c)'
<1>2. ASSUME NEW result \in {"warn", "err"}, Finish(r, result) \/ NextFile(r, result)
      PROVE  FALSE
  BY <1>0, <1>1, <1>2, FinishTypes, NextFileTypes, WorseIsLoud DEF Results
<1> SUFFICES Goal OBVIOUS
<1>4. pc[r] \in {"insert", "undo", "listUploads", "dropFiles", "dropUploads",
      "countFiles", "countParts", "count", "reclaim"}
  BY <1>0 DEF Holds, HoldsOf, HasWork
<1> HIDE DEF Goal
<1>5. CASE MetaFails(r) \/ ReplyLost(r)
  <2>1. pc[r] = "insert" /\ UNCHANGED locals
    BY <1>1, <1>5, FailuresAreTold
  <2> QED
    BY <2>1 DEF Goal, Holds, locals
<1>6. CASE InsertFile(r)
  <2>1. c \in work[r] /\ req[r].op = "put"
    BY <1>0, <1>6 DEF InsertFile, FileWritten, Holds, HoldsOf, HasWork
  <2>2. PICK s \in Sources : work[r] = {<<r, s>>}
    BY <1>0, <1>6, <2>1 DEF InsertFile, FileWritten, HoldsOf
  <2>3. c = CHOOSE k \in work[r] : TRUE
    BY <2>1, <2>2
  <2>4. [id |-> r, bucket |-> req[r].bucket, chunk |-> c] \in files'
    BY <1>6, <2>1, <2>3 DEF InsertFile, FileWritten
  <2>5. c \in Chunks(files' \cup uploads')
    BY <2>4 DEF Chunks
  <2> QED
    BY <2>5 DEF Goal
<1>7. CASE UndoUpload(r)
  BY <1>2, <1>7 DEF UndoUpload
<1>8. CASE ListUploads(r) \/ DropFiles(r) \/ DropUploads(r)
  BY <1>0, <1>8, <1>4
     DEF ListUploads, DropFiles, FilesDropped, DropUploads, UploadsDropped, locals,
         Goal, Holds, TypeOK, ControlOf, Goto
<1>9. CASE CountFilesElsewhere(r)
  <2>1. pc[r] = "countFiles" /\ c \in work[r] /\ work[r] # {}
    BY <1>9 DEF CountFilesElsewhere, Holds
  <2>2. PICK k \in work[r] :
          /\ work' = [work EXCEPT ![r] = @ \ {k}]
          /\ IF k \in Chunks(Elsewhere(files, req[r].bucket))
             THEN UNCHANGED <<pc, doc>>
             ELSE /\ Keep(r, [id |-> k[1], bucket |-> req[r].bucket, chunk |-> k])
                  /\ Goto(r, "countParts")
    BY <1>9, <2>1 DEF CountFilesElsewhere
  <2>3. files' = files
    BY <1>9 DEF CountFilesElsewhere, catalog
  <2>4. CASE c # k
    BY <1>0, <2>1, <2>2, <2>4 DEF Goal, Holds, TypeOK
  <2>5. CASE c = k
    BY <1>0, <2>2, <2>3, <2>5 DEF Goal, Holds, TypeOK, Keep, Goto, Chunks, Elsewhere
  <2> QED
    BY <2>4, <2>5
<1>10. CASE CountPartsElsewhere(r)
  <2>1. pc[r] = "countParts" /\ uploads' = uploads /\ work' = work
    BY <1>10 DEF CountPartsElsewhere, catalog
  <2> QED
    BY <1>0, <1>10, <2>1
       DEF CountPartsElsewhere, Goal, Holds, TypeOK, Goto, Keep, Chunks, Elsewhere
<1>11. CASE CountReferences(r)
  <2>1. pc[r] = "count" /\ files' = files
    BY <1>11 DEF CountReferences, catalog
  <2>2. c = doc[r].chunk
    BY <1>0, <2>1 DEF Holds, HoldsOf, HasWork
  <2> QED
    BY <1>0, <1>11, <2>1, <2>2
      DEF CountReferences, Goal, Holds, TypeOK, Goto, locals, Chunks
<1>12. CASE ReclaimFile(r)
  <2>1. pc[r] = "reclaim" /\ c = doc[r].chunk
    BY <1>0, <1>12 DEF ReclaimFile, Holds, HoldsOf, HasWork
  <2> QED
    BY <1>2, <1>12, <2>1 DEF ReclaimFile, ChunkDeleted, AfterFileDeleted
<1>13. CASE ReclaimContents(r)
  <2>1. pc[r] = "reclaim" /\ (c = doc[r].chunk \/ c \in work[r])
    BY <1>13 DEF ReclaimContents, Holds
  <2> QED
    BY <1>2, <1>13, <2>1 DEF ReclaimContents, ChunkDeleted, Goal, Holds
<1>14. ~(ReadBucket(r) \/ ReadGrant(r) \/ LoadSource(r) \/ Probe(r) \/
         InsertBucket(r) \/ CheckReferences(r) \/ DropSource(r) \/ Resolve(r) \/ Upload(r))
  BY <1>4
    DEF ReadBucket, ReadGrant, LoadSource, Probe, InsertBucket, BucketWritten,
        CheckReferences, DropSource, SourceDropped, Resolve, Upload
<1>15. ~(ReadOrigin(r) \/ FindByName(r) \/ GetFile(r) \/ Stream(r) \/
         InsertLink(r) \/ Unlink(r) \/ ReadLink(r) \/ ReadLinkedFile(r) \/ DropFileLinks(r))
  BY <1>4
    DEF ReadOrigin, FindByName, GetFile, Stream, InsertLink, LinkWritten, Unlink,
        LinksDropped, OwnLinks, ReadLink, ReadLinkedFile, DropFileLinks
<1>16. ~(GetFileAgain(r) \/ DropFile(r) \/ DropLinks(r) \/ ListFiles(r) \/
         DropGrants(r) \/ DropBucket(r) \/ InsertGrant(r) \/ UpdateGrant(r) \/ DropGrant(r))
  BY <1>4
    DEF GetFileAgain, DropFile, FilesDropped, DropLinks, LinksDropped, ListFiles,
        DropGrants, GrantsRewritten, DropBucket, BucketDropped, InsertGrant,
        GrantWritten, UpdateGrant, DropGrant
<1> QED
  BY <1>5, <1>6, <1>7, <1>8, <1>9, <1>10, <1>11, <1>12, <1>13, <1>14, <1>15, <1>16
    DEF Handle

\* Who takes documents away, when it is not told of as a failure.
LEMMA DropsAreCollected ==
  ASSUME TypeInv, NEW r \in Requests, Handle(r), ~Loud',
         pc[r] \in {"dropFile", "dropFiles", "dropUploads"}
  PROVE  DropFile(r) \/ DropFiles(r) \/ DropUploads(r)
<1>0. ~(MetaFails(r) \/ ReplyLost(r))
  BY FailuresAreTold DEF Loud
<1>1. ~(ReadBucket(r) \/ ReadGrant(r) \/ LoadSource(r) \/ Probe(r) \/ InsertBucket(r) \/
        CheckReferences(r) \/ DropSource(r) \/ Resolve(r) \/ Upload(r))
  BY DEF ReadBucket, ReadGrant, LoadSource, Probe, InsertBucket, CheckReferences,
         DropSource, SourceDropped, Resolve, Upload
<1>2. ~(InsertFile(r) \/ UndoUpload(r) \/ ReadOrigin(r) \/ FindByName(r) \/ GetFile(r) \/
        Stream(r) \/ InsertLink(r) \/ Unlink(r) \/ ReadLink(r) \/ ReadLinkedFile(r))
  BY DEF InsertFile, FileWritten, UndoUpload, ReadOrigin, FindByName, GetFile, Stream,
         InsertLink, LinkWritten, Unlink, ReadLink, ReadLinkedFile
<1>3. ~(DropFileLinks(r) \/ GetFileAgain(r) \/ CountReferences(r) \/ ReclaimFile(r) \/
        DropLinks(r) \/ ListFiles(r) \/ ListUploads(r))
  BY DEF DropFileLinks, GetFileAgain, CountReferences, ReclaimFile, DropLinks, ListFiles,
         ListUploads
<1>4. ~(CountFilesElsewhere(r) \/ CountPartsElsewhere(r) \/ ReclaimContents(r) \/
        DropGrants(r) \/ DropBucket(r) \/ InsertGrant(r) \/ UpdateGrant(r) \/ DropGrant(r))
  BY DEF CountFilesElsewhere, CountPartsElsewhere, ReclaimContents, DropGrants,
         DropBucket, BucketDropped, InsertGrant, UpdateGrant, DropGrant
<1> QED
  BY <1>0, <1>1, <1>2, <1>3, <1>4 DEF Handle

LEMMA StrayHandle ==
  ASSUME TypeInv, Beside, StrayInv, [Next]_vars, NEW r \in Requests, Handle(r)
  PROVE  StrayInv'
<1> SUFFICES ASSUME ~Loud', ~WriteRaced'
             PROVE  /\ \A c \in store' \ {Stray} : Placed(c)'
                    /\ \A q \in Requests : StrayOf(q)'
  BY DEF StrayInv
<1>0. /\ TypeOK /\ ControlOf(r) /\ HoldsOf(r) /\ OthersKept(r) /\ Arrivals(r)
      /\ Adds(r) /\ Writers(r) /\ Active(r) /\ req' = req
  BY Others, HandleArrivals, HandleAdds, HandleWriters DEF TypeInv, Flow, OthersKept
<1>1. (\A c \in store \ {Stray} : Placed(c)) /\ (\A q \in Requests : StrayOf(q))
  BY LoudPersists, WriteRacedPersists DEF StrayInv
<1>3. ASSUME NEW c \in store' \ {Stray} PROVE Placed(c)'
  <2>1. CASE c \notin store
    <3>1. Upload(r)
      BY <1>0, <2>1
        DEF Writers, UndoUpload, ReclaimFile, ReclaimContents, ChunkDeleted,
            ChunkKept
    <3>2. c \in work'[r]
      BY <1>0, <2>1, <3>1 DEF Upload, Left, TypeOK
    <3> QED
      BY <3>2 DEF Placed, Holds
  <2>2. ASSUME NEW q \in Requests, Holds(q, c) PROVE Placed(c)'
    <3>1. CASE q = r
      BY <2>2, <3>1, StillHeld DEF Placed
    <3>2. CASE q # r
      BY <1>0, <2>2, <3>2 DEF OthersKept, Untouched, Holds, Placed
    <3> QED
      BY <3>1, <3>2
  <2>3. ASSUME NEW f \in files \cup uploads, c = f.chunk PROVE Placed(c)'
    <3>1. CASE f \in files' \cup uploads'
      BY <2>3, <3>1 DEF Placed, Chunks
    <3>2. CASE f \in files /\ f \notin files'
      <4>0. FilesDropped(r) /\ pc[r] \in {"dropFile", "dropFiles"}
        BY <1>0, <3>2 DEF Writers, FileWritten, FilesDropped
      <4>1. CASE pc[r] = "dropFile"
        <5>1. DropFile(r)
          BY <4>1, DropsAreCollected DEF DropFiles, DropUploads, UploadsDropped
        <5>2. f = doc[r]
          BY <3>2, <4>0, <4>1 DEF FilesDropped
        <5>3. pc'[r] = "count" /\ doc' = doc
          BY <1>0, <3>2, <5>1, <5>2 DEF DropFile, Goto, locals, TypeOK
        <5> QED
          BY <2>3, <5>2, <5>3 DEF Placed, Holds
      <4>2. CASE pc[r] = "dropFiles"
        <5>1. DropFiles(r)
          BY <4>2, DropsAreCollected DEF DropFile, DropUploads, UploadsDropped
        <5>2. f.bucket = req[r].bucket /\ work' = work
          BY <3>2, <4>0, <4>2, <5>1 DEF DropFiles, FilesDropped, In, locals
        <5> QED
          BY <1>1, <2>3, <3>2, <4>2, <5>2 DEF StrayOf, Placed, Holds
      <4> QED
        BY <4>0, <4>1, <4>2
    <3>3. CASE f \in uploads /\ f \notin uploads'
      <4>1. UploadsDropped(r) /\ pc[r] = "dropUploads"
        BY <1>0, <3>3 DEF Writers, UploadsDropped
      <4>2. DropUploads(r)
        BY <4>1, DropsAreCollected DEF DropFile, DropFiles
      <4>3. f.bucket = req[r].bucket /\ work' = work
        BY <3>3, <4>1, <4>2 DEF DropUploads, UploadsDropped, In, locals
      <4> QED
        BY <1>1, <2>3, <3>3, <4>1, <4>3 DEF StrayOf, Placed, Holds
    <3> QED
      BY <2>3, <3>1, <3>2, <3>3
  <2>4. CASE c \in store
    BY <1>1, <2>2, <2>3, <2>4 DEF Placed, Chunks
  <2> QED
    BY <2>1, <2>4
<1>4. ASSUME NEW q \in Requests PROVE StrayOf(q)'
  <2>1. CASE q # r
    <3>1. pc'[q] = pc[q] /\ work'[q] = work[q] /\ StrayOf(q) /\ ControlOf(q)
      BY <1>0, <1>1, <2>1 DEF OthersKept, Untouched, TypeInv, Flow
    <3>2. ASSUME pc[q] \in {"listUploads", "dropFiles"}, NEW f \in files', f \notin files
          PROVE  FALSE
      <4>1. pc[r] = "insert"
        BY <1>0, <3>2 DEF Adds, FileWritten
      <4>2. req[r].op \in {"put", "copy"} /\ req[q].op = "deleteBucket"
        BY <1>0, <3>1, <3>2, <4>1 DEF ControlOf
      <4>3. q \in met[r]
        BY <1>0, <2>1, <3>2, ActiveMeet DEF Active
      <4>4. WriteRaced
        BY <4>1, <4>2, <4>3 DEF WriteRaced, Met
      <4> QED
        BY <4>4, WriteRacedPersists
    <3> QED
      BY <1>0, <3>1, <3>2 DEF StrayOf, Adds
  <2>2. CASE q = r
    <3>1. ASSUME pc'[r] \in {"listUploads", "dropFiles"}, NEW f \in files',
                 f.bucket = req[r].bucket
          PROVE  f.chunk \in work'[r]
      <4>1. CASE ListFiles(r)
        BY <1>0, <3>1, <4>1 DEF ListFiles, catalog, In, Chunks, TypeOK
      <4>2. CASE ListUploads(r)
        BY <1>0, <1>1, <3>1, <4>2 DEF ListUploads, catalog, StrayOf, TypeOK
      <4> QED
        BY <1>0, <3>1, <4>1, <4>2 DEF Arrivals
    <3>2. ASSUME pc'[r] \in {"dropFiles", "dropUploads"}, NEW f \in uploads',
                 f.bucket = req[r].bucket
          PROVE  f.chunk \in work'[r]
      <4>1. CASE ListUploads(r)
        BY <1>0, <3>2, <4>1 DEF ListUploads, catalog, In, Chunks, TypeOK
      <4>2. CASE DropFiles(r)
        BY <1>0, <1>1, <3>2, <4>2 DEF DropFiles, FilesDropped, locals, StrayOf
      <4> QED
        BY <1>0, <3>2, <4>1, <4>2 DEF Arrivals
    <3> QED
      BY <1>0, <2>2, <3>1, <3>2 DEF StrayOf
  <2> QED
    BY <2>1, <2>2
<1> QED
  BY <1>3, <1>4

\* StrayInv is inductive.
LEMMA StrayStep ==
  TypeInv /\ Beside /\ StrayInv /\ [Next]_vars => StrayInv'
<1> SUFFICES ASSUME TypeInv, Beside, StrayInv, [Next]_vars PROVE StrayInv'
  OBVIOUS
<1>1. ASSUME NEW r \in Requests, Start(r) PROVE StrayInv'
  <2>1. /\ Begins(r) /\ files' = files /\ uploads' = uploads /\ doc' = doc
        /\ work' = work /\ store' = store /\ res' = res /\ work[r] = {}
        /\ req'[r].op \in AllOps
    BY <1>1, StartBegins
       DEF Begins, catalog, Shape, Request, TypeInv, Flow, HoldsOf, HasWork
  <2>2. CASE Loud
    BY <2>1, <2>2 DEF StrayInv, Loud
  <2>3. CASE WriteRaced
    BY <2>3, WriteRacedPersists DEF StrayInv
  <2>4. CASE ~Loud /\ ~WriteRaced
    <3>1. ASSUME NEW c \in store' \ {Stray} PROVE Placed(c)'
      <4>1. Placed(c)
        BY <2>1, <2>4, <3>1 DEF StrayInv
      <4>2. ASSUME NEW q \in Requests, Holds(q, c) PROVE Holds(q, c)'
        BY <2>1, <4>2 DEF Begins, Holds
      <4> QED
        BY <2>1, <4>1, <4>2 DEF Placed
    <3>2. ASSUME NEW q \in Requests PROVE StrayOf(q)'
      <4>1. CASE q = r
        BY <2>1, <4>1, EntrySteps DEF Begins, StrayOf
      <4>2. CASE q # r
        BY <2>1, <2>4, <4>2 DEF Begins, StrayInv, StrayOf
      <4> QED
        BY <4>1, <4>2
    <3> QED
      BY <3>1, <3>2 DEF StrayInv
  <2> QED
    BY <2>2, <2>3, <2>4
<1>2. ASSUME LinkExpires PROVE StrayInv'
  <2>1. UNCHANGED <<files, uploads, store, pc, req, doc, work, res, met>>
    BY <1>2, ExpiredLinks
  <2> QED
    BY <2>1 DEF StrayInv, Loud, WriteRaced, Met, Placed, Holds, StrayOf
<1>3. ASSUME UNCHANGED vars PROVE StrayInv'
  BY <1>3
     DEF vars, catalog, locals, StrayInv, Loud, WriteRaced, Met, Placed, Holds,
         StrayOf
<1> QED
  BY <1>1, <1>2, <1>3, StrayHandle, NextCases

(***************************************************************************)
(* Once everything is answered, no answer was an error or a warning and no *)
(* put or copy met a DeleteBucket, no chunk is left that nothing lists,    *)
(* but the copies of timed-out uploads (NoStrayChunks).                    *)
(***************************************************************************)
THEOREM NothingStrays == Spec => []NoStrayChunks
<1> DEFINE IInv == TypeInv /\ Beside /\ StrayInv
<1>1. Init => IInv
  BY TypeInvInit, BesideInit, StrayInit
<1>2. IInv /\ [Next]_vars => IInv'
  BY TypeInvStep, BesideStep, StrayStep
<1>3. IInv => NoStrayChunks
  <2> SUFFICES ASSUME TypeInv, StrayInv,
                      \A r \in Requests : ~Active(r) /\ res[r] \notin {"warn", "err"},
                      \A r \in Requests : req[r] # None /\ req[r].op \in {"put", "copy"}
                                            => ~Met(r, {"deleteBucket"})
               PROVE  store \subseteq Chunks(files \cup uploads) \cup {Stray}
    BY DEF NoStrayChunks
  <2>1. ~Loud /\ ~WriteRaced
    BY RequestParts DEF Loud, WriteRaced, TypeInv
  <2>2. ASSUME NEW r \in Requests, NEW c PROVE ~Holds(r, c)
    BY <2>2 DEF Holds, Active, TypeInv, Flow, HoldsOf, HasWork
  <2> QED
    BY <2>1, <2>2 DEF StrayInv, Placed
<1> QED
  BY <1>1, <1>2, <1>3, PTL DEF Spec

(***************************************************************************)
(* OnlyAuthorizedEffects rests on two facts. A request is past the look at *)
(* its bucket, grant or link only if it was entitled when it looked. And a *)
(* document's id stands for one bucket: the links that name an object the  *)
(* request holds are links of that object's bucket.                        *)
(***************************************************************************)
Unchecked == {"idle", "done", "bucket", "grant", "unlink", "link"}

\* From the grant on, r is entitled to what it asked.
AuthOf(r) ==
  /\ Active(r) /\ Entitled(r) => may[r]
  /\ pc[r] \notin Unchecked => may[r]
  /\ pc[r] = "grant" => req[r].user # Owner

AuthInv == \A r \in Requests : AuthOf(r)

LEMMA AuthInit == Init => AuthInv
BY DEF Init, AuthInv, AuthOf, Unchecked, Active

\* What is noted stays noted while the request is served.
LEMMA Noted ==
  ASSUME NoteEntitled, NEW r \in Requests, pc'[r] \notin {"idle", "done"}
  PROVE  may'[r] <=> (may[r] \/ Entitled(r)')
BY DEF NoteEntitled

\* The look at the bucket, the grant or the link finds what entitles.
LEMMA LooksEntitle ==
  ASSUME TypeInv, AuthInv, NEW r \in Requests, Handle(r),
         pc[r] \in Unchecked, pc'[r] \notin Unchecked
  PROVE  Entitled(r)
<1>0. TypeOK /\ ControlOf(r) /\ AuthOf(r) /\ Arrivals(r) /\ Active(r)
  BY Others, HandleArrivals DEF TypeInv, Flow, AuthInv, OthersKept
<1>1. ReadBucket(r) \/ ReadGrant(r) \/ ReadLink(r)
  <2>1. CASE pc[r] = "bucket"
    BY <2>1, BucketIsRead DEF Unchecked
  <2>2. CASE pc[r] \in {"grant", "unlink", "link"}
    <3> USE <1>0, <2>2 DEF Finish, Goto, TypeOK, Unchecked
    <3>1. ~(MetaFails(r) \/ ReplyLost(r) \/ Unlink(r))
      BY DEF MetaFails, ReplyLost, CallFailed, Unlink, ControlOf
    <3>2. ~(LoadSource(r) \/ Probe(r) \/ InsertBucket(r) \/ CheckReferences(r) \/
            DropSource(r) \/ Resolve(r) \/ Upload(r) \/ InsertFile(r))
      BY 
        DEF LoadSource, Probe, InsertBucket, BucketWritten, CheckReferences,
            DropSource, SourceDropped, Resolve, Upload, InsertFile, FileWritten
    <3>3. ~(UndoUpload(r) \/ ReadOrigin(r) \/ FindByName(r) \/ GetFile(r) \/
            Stream(r) \/ InsertLink(r) \/ ReadLinkedFile(r))
      BY
        DEF UndoUpload, ReadOrigin, FindByName, GetFile, Stream, InsertLink,
            LinkWritten, ReadLinkedFile
    <3>4. ~(DropFileLinks(r) \/ GetFileAgain(r) \/ DropFile(r) \/
            CountReferences(r) \/ ReclaimFile(r) \/ DropLinks(r) \/ ListFiles(r) \/
            ListUploads(r) \/ DropFiles(r))
      BY 
        DEF DropFileLinks, LinksDropped, GetFileAgain, DropFile, FilesDropped,
            CountReferences, ReclaimFile, DropLinks, ListFiles, ListUploads,
            DropFiles
    <3>5. ~(DropUploads(r) \/ CountFilesElsewhere(r) \/ CountPartsElsewhere(r) \/
            ReclaimContents(r) \/ DropGrants(r) \/ DropBucket(r) \/ InsertGrant(r) \/
            UpdateGrant(r) \/ DropGrant(r))
      BY 
        DEF DropUploads, UploadsDropped, CountFilesElsewhere, CountPartsElsewhere,
            ReclaimContents, DropGrants, GrantsRewritten, DropBucket, BucketDropped,
            InsertGrant, GrantWritten, UpdateGrant, DropGrant
    <3> QED
      BY <3>1, <3>2, <3>3, <3>4, <3>5 DEF Handle
  <2> QED
    BY <1>0, <2>1, <2>2 DEF Unchecked, Active
<1>2. CASE ReadBucket(r)
  <2>1. pc[r] = "bucket" /\ Live(req[r].bucket) /\ req[r].user = Owner
    BY <1>0, <1>2 DEF ReadBucket, Finish, Goto, TypeOK, Unchecked
  <2> QED
    BY <1>0, <2>1 DEF ControlOf, Entitled
<1>3. CASE ReadGrant(r)
  <2>1. pc[r] = "grant" /\ GrantSuffices(r)
    BY <1>0, <1>3 DEF ReadGrant, Finish, Goto, TypeOK, Unchecked
  <2> QED
    BY <1>0, <2>1 DEF ControlOf, AuthOf, Entitled
<1>4. CASE ReadLink(r)
  <2>1. /\ pc[r] = "link" /\ Named(links, req[r].ids) # {}
        /\ \A l \in Named(links, req[r].ids) : l.expiry # "past"
    BY <1>0, <1>4 DEF ReadLink, Finish, Goto, TypeOK, Unchecked
  <2> QED
    BY <1>0, <2>1 DEF ControlOf, Entitled
<1> QED
  BY <1>1, <1>2, <1>3, <1>4

\* Only another account's grant is looked at.
LEMMA BucketGrant ==
  ASSUME TypeInv, NEW r \in Requests, ReadBucket(r), pc'[r] = "grant"
  PROVE  req[r].user # Owner
<1>1. TypeOK /\ ControlOf(r) /\ pc[r] = "bucket" /\ req[r].op \in AllOps
  BY RequestParts DEF TypeInv, Flow, ReadBucket
<1> QED
  BY <1>1, FirstSteps DEF ReadBucket, ControlOf, Finish, Goto, TypeOK

\* AuthInv is inductive.
LEMMA AuthStep ==
  TypeInv /\ AuthInv /\ [Next]_vars => AuthInv'
<1> SUFFICES ASSUME TypeInv, AuthInv, [Next]_vars, NEW q \in Requests PROVE AuthOf(q)'
  BY DEF AuthInv
<1>0. TypeOK /\ AuthOf(q)
  BY DEF TypeInv, AuthInv
<1>1. ASSUME NEW r \in Requests, Start(r), NoteEntitled PROVE AuthOf(q)'
  <2>1. Begins(r) /\ Shape(req'[r]) /\ req'[r].op \in AllOps
    BY <1>1, StartBegins DEF Begins, Shape, Request
  <2>2. CASE q = r
    <3>1. pc'[r] \notin Unchecked => Entitled(r)'
      BY <2>1, EntrySteps DEF Begins, Unchecked, Entitled, Shape
    <3> QED
      BY <1>1, <2>1, <2>2, <3>1, Noted, EntrySteps DEF Begins, AuthOf, Active, Unchecked
  <2>3. CASE q # r
    BY <1>0, <1>1, <2>1, <2>3, Noted DEF Begins, AuthOf, Active, Unchecked
  <2> QED
    BY <2>2, <2>3
<1>2. ASSUME NEW r \in Requests, Handle(r), NoteEntitled PROVE AuthOf(q)'
  <2>1. OthersKept(r) /\ Arrivals(r) /\ req' = req
    BY <1>2, Others, HandleArrivals DEF TypeInv, OthersKept
  <2>2. CASE q = r
    <3>1. pc'[r] \notin Unchecked => may[r]
      BY <1>0, <1>2, <2>1, <2>2, LooksEntitle DEF AuthOf, OthersKept
    <3>2. pc'[r] = "grant" => req[r].user # Owner
      BY <1>0, <2>1, BucketGrant DEF Arrivals
    <3> QED
      BY <1>2, <2>1, <2>2, <3>1, <3>2, Noted DEF AuthOf, Active, Unchecked
  <2>3. CASE q # r
    BY <1>0, <1>2, <2>1, <2>3, Noted
      DEF OthersKept, Untouched, AuthOf, Active, Unchecked
  <2> QED
    BY <2>2, <2>3
<1>3. ASSUME LinkExpires, NoteEntitled PROVE AuthOf(q)'
  <2>1. pc' = pc /\ req' = req
    BY <1>3 DEF LinkExpires
  <2> QED
    BY <1>0, <1>3, <2>1, Noted DEF AuthOf, Active, Unchecked
<1>4. ASSUME UNCHANGED vars PROVE AuthOf(q)'
  BY <1>0, <1>4
    DEF vars, catalog, AuthOf, Active, Entitled, GrantSuffices, Live, Unchecked
<1> QED
  BY <1>1, <1>2, <1>3, <1>4, NextCases

\* The documents that are there or that a request has read. (A deletion of
\* a bucket holds chunks, not documents.)
Held == {doc[r] : r \in {q \in Requests : doc[q] # None /\ req[q].op # "deleteBucket"}}
Docs == files \cup Held

\* A request may have written its document.
Past(q) == pc[q] \in {"undo", "done"}

NamesInv ==
  /\ \A d \in Docs : \A e \in Docs : d.id = e.id => d.bucket = e.bucket
  /\ \A d \in Docs : d.id \in Requests => Past(d.id)
  /\ \A l \in links : l.file \in Requests => Past(l.file)
  /\ \A l \in links : \A d \in Docs : l.file = d.id => l.bucket = d.bucket

LEMMA NamesInit == Init => NamesInv
<1> SUFFICES ASSUME Init PROVE NamesInv
  OBVIOUS
<1>1. PICK home \in Sources, copied \in {Home} \cup Buckets, role \in Roles :
        Contents(home, copied, role)
  BY DEF Init
<1>2. /\ \A d \in Docs : \/ d.id = "file" /\ d.bucket = Home
                         \/ d.id = "copy" /\ d.bucket = copied
      /\ \A l \in links : l.file = "file" /\ l.bucket = Home
  BY <1>1 DEF Init, Contents, Docs, Held
<1>3. "file" \notin Requests /\ "copy" \notin Requests
  BY NamesAssumption DEF Old
<1> QED
  BY <1>2, <1>3 DEF NamesInv

LEMMA NamesHandle ==
  ASSUME TypeInv, Beside, NamesInv, [Next]_vars, NEW r \in Requests, Handle(r)
  PROVE  NamesInv'
<1>0. /\ TypeOK /\ ControlOf(r) /\ HoldsOf(r) /\ OthersKept(r) /\ Adds(r)
      /\ Comes(r) /\ Active(r) /\ req' = req
  BY Others, HandleAdds, HandleComes DEF TypeInv, Flow, OthersKept
<1>1. \A q \in Requests : Past(q) => Past(q)'
  BY <1>0, UndoEnds DEF OthersKept, Untouched, Past, Active
<1>2. FileWritten(r) => pc[r] = "insert" /\ Past(r)' /\ links' = links
  <2>1. FileWritten(r) => pc[r] = "insert" /\ links' = links
    BY DEF FileWritten
  <2>2. pc[r] = "insert" => Past(r)'
    BY <1>0, InsertionEnds
       DEF InsertFile, UndoUpload, MetaFails, ReplyLost, CallFailed, ControlOf, Past,
           Finish, Goto, TypeOK
  <2> QED
    BY <2>1, <2>2
<1>3. LinkWritten(r) => /\ doc[r] \in Docs /\ doc[r].bucket = req[r].bucket
                        /\ files' = files
  BY <1>0 DEF LinkWritten, ControlOf, HoldsOf, HasDoc, Docs, Held
<1>4. Held' \subseteq Docs
  <2> SUFFICES ASSUME NEW q \in Requests, doc'[q] # None, req'[q].op # "deleteBucket"
               PROVE  doc'[q] \in Docs
    BY DEF Held
  <2>1. CASE q = r
    BY <1>0, <2>1 DEF Comes, CountFilesElsewhere, ControlOf, Docs, Held
  <2>2. CASE q # r
    BY <1>0, <2>2 DEF OthersKept, Untouched, Docs, Held
  <2> QED
    BY <2>1, <2>2
<1>12. ASSUME NEW d \in Docs', d \notin Docs
       PROVE  FileWritten(r) /\ d.id = r /\ d.bucket = req[r].bucket
  BY <1>0, <1>4, <1>12 DEF Adds, Docs
<1>5. ASSUME NEW l \in links'
      PROVE  \/ l \in links
             \/ LinkWritten(r) /\ l.file = doc[r].id /\ l.bucket = doc[r].bucket
  BY <1>0, <1>3, <1>5 DEF Adds
<1>6. \A d \in Docs : FileWritten(r) => d.id # r
  BY <1>2 DEF NamesInv, Past
<1>7. \A l \in links : FileWritten(r) => l.file # r
  BY <1>2 DEF NamesInv, Past
<1>8. \A d \in Docs' : \A e \in Docs' : d.id = e.id => d.bucket = e.bucket
  <2> SUFFICES ASSUME NEW d \in Docs', NEW e \in Docs', d.id = e.id
               PROVE  d.bucket = e.bucket
    OBVIOUS
  <2>1. CASE d \in Docs /\ e \in Docs
    BY <2>1 DEF NamesInv
  <2>2. CASE d \notin Docs \/ e \notin Docs
    BY <1>6, <1>12, <2>2
  <2> QED
    BY <2>1, <2>2
<1>9. \A d \in Docs' : d.id \in Requests => Past(d.id)'
  <2> SUFFICES ASSUME NEW d \in Docs', d.id \in Requests PROVE Past(d.id)'
    OBVIOUS
  <2>1. CASE d \in Docs
    BY <1>1, <2>1 DEF NamesInv
  <2>2. CASE d \notin Docs
    BY <1>2, <1>12, <2>2
  <2> QED
    BY <2>1, <2>2
<1>10. \A l \in links' : l.file \in Requests => Past(l.file)'
  BY <1>1, <1>3, <1>5 DEF NamesInv
<1>11. \A l \in links' : \A d \in Docs' : l.file = d.id => l.bucket = d.bucket
  <2> SUFFICES ASSUME NEW l \in links', NEW d \in Docs', l.file = d.id
               PROVE  l.bucket = d.bucket
    OBVIOUS
  <2>1. CASE d \in Docs
    BY <1>3, <1>5, <2>1 DEF NamesInv
  <2>2. CASE d \notin Docs
    BY <1>2, <1>5, <1>7, <1>12, <2>2
  <2> QED
    BY <2>1, <2>2
<1> QED
  BY <1>8, <1>9, <1>10, <1>11 DEF NamesInv

\* NamesInv is inductive.
LEMMA NamesStep ==
  TypeInv /\ Beside /\ NamesInv /\ [Next]_vars => NamesInv'
<1> SUFFICES ASSUME TypeInv, Beside, NamesInv, [Next]_vars PROVE NamesInv'
  OBVIOUS
<1>1. ASSUME NEW r \in Requests, Start(r) PROVE NamesInv'
  <2>1. /\ Begins(r) /\ files' = files /\ doc' = doc /\ links' = links
        /\ doc[r] = None
    BY <1>1, StartBegins
       DEF Begins, catalog, TypeInv, Flow, HoldsOf, HasDoc
  <2>2. Docs' = Docs
    BY <2>1 DEF Begins, Docs, Held
  <2>3. \A q \in Requests : Past(q) => Past(q)'
    BY <2>1 DEF Begins, Past
  <2> QED
    BY <2>1, <2>2, <2>3 DEF NamesInv
<1>2. ASSUME LinkExpires PROVE NamesInv'
  <2>1. Docs' = Docs /\ pc' = pc
    BY <1>2, ExpiredLinks DEF Docs, Held
  <2> QED
    BY <1>2, <2>1, ExpiredLinks DEF NamesInv, Past
<1>3. ASSUME UNCHANGED vars PROVE NamesInv'
  BY <1>3 DEF vars, catalog, locals, NamesInv, Docs, Held, Past
<1> QED
  BY <1>1, <1>2, <1>3, NamesHandle, NextCases

\* What one step of a request may do (a step of OnlyAuthorizedEffects).
Authorized(r) ==
  /\ catalog' # catalog \/ (pc'[r] = "done" /\ res'[r] = "ok") => may[r]
  /\ \A x \in Changed(files, files') \cup Changed(grants, grants') :
       x.bucket = req[r].bucket
  /\ \A l \in Changed(links, links') :
       IF req[r].op = "unshare" THEN l.user = req[r].user
                                ELSE l.bucket = req[r].bucket
  /\ pc[r] = "stream" /\ req[r].op = "download"
       => doc[r].bucket = req[r].bucket

\* Until the look is over nothing changes, but for the links of an unshare.
LEMMA NoEffectBefore ==
  ASSUME TypeInv, NEW r \in Requests, Handle(r), pc[r] \in Unchecked
  PROVE  \/ catalog' = catalog /\ ~(pc'[r] = "done" /\ res'[r] = "ok")
         \/ pc[r] = "unlink" /\ OwnLinks(r) # {}
<1>0. TypeOK /\ ControlOf(r) /\ Active(r)
  BY Others DEF TypeInv, Flow, OthersKept
<1>1. pc[r] \in {"bucket", "grant", "unlink", "link"}
  BY <1>0 DEF Unchecked, Active
<1> USE DEF Finish, Goto, TypeOK
<1>2. CASE MetaFails(r)
  BY <1>0, <1>1, <1>2 DEF MetaFails, CallFailed, ControlOf
<1>10. CASE ReplyLost(r)
  <2>1. LinksDropped(r) /\ pc[r] = "unlink" /\ CallFailed(r)
    BY <1>1, <1>10
      DEF ReplyLost, Write, FileWritten, LinkWritten, BucketWritten, GrantWritten,
          GrantsRewritten, FilesDropped, UploadsDropped, LinksDropped, BucketDropped,
          SourceDropped
  <2>2. OwnLinks(r) = {} => catalog' = catalog
    BY <2>1 DEF LinksDropped, catalog
  <2> QED
    BY <1>0, <2>1, <2>2 DEF CallFailed, ControlOf
<1>11. CASE Unlink(r)
  <2>1. OwnLinks(r) = {} => catalog' = catalog /\ res'[r] = "absent"
    BY <1>0, <1>11 DEF Unlink, LinksDropped, catalog
  <2> QED
    BY <1>11, <2>1 DEF Unlink
<1>3. CASE ReadBucket(r)
  <2>1. catalog' = catalog
    BY <1>3 DEF ReadBucket
  <2>2. First(req[r].op) # "done"
    BY <1>0, <1>3, FirstSteps, RequestParts DEF ReadBucket, ControlOf
  <2> QED
    BY <1>0, <1>3, <2>1, <2>2 DEF ReadBucket
<1>4. CASE ReadGrant(r)
  <2>1. catalog' = catalog
    BY <1>4 DEF ReadGrant
  <2>2. First(req[r].op) # "done"
    BY <1>0, <1>4, FirstSteps, RequestParts DEF ReadGrant, ControlOf
  <2> QED
    BY <1>0, <1>4, <2>1, <2>2 DEF ReadGrant
<1>5. CASE ReadLink(r)
  BY <1>0, <1>5 DEF ReadLink
<1>6. ~(LoadSource(r) \/ Probe(r) \/ InsertBucket(r) \/ CheckReferences(r) \/
        DropSource(r) \/ Resolve(r) \/ Upload(r) \/ InsertFile(r))
  BY <1>1
    DEF LoadSource, Probe, InsertBucket, BucketWritten, CheckReferences, DropSource,
        SourceDropped, Resolve, Upload, InsertFile, FileWritten
<1>7. ~(UndoUpload(r) \/ ReadOrigin(r) \/ FindByName(r) \/ GetFile(r) \/ Stream(r) \/
        InsertLink(r) \/ ReadLinkedFile(r))
  BY <1>1
    DEF UndoUpload, ReadOrigin, FindByName, GetFile, Stream, InsertLink, LinkWritten,
        ReadLinkedFile
<1>8. ~(DropFileLinks(r) \/ GetFileAgain(r) \/ DropFile(r) \/ CountReferences(r) \/
        ReclaimFile(r) \/ DropLinks(r) \/ ListFiles(r) \/ ListUploads(r) \/ DropFiles(r))
  BY <1>1
    DEF DropFileLinks, LinksDropped, GetFileAgain, DropFile, FilesDropped,
        CountReferences, ReclaimFile, DropLinks, ListFiles, ListUploads, DropFiles
<1>9. ~(DropUploads(r) \/ CountFilesElsewhere(r) \/ CountPartsElsewhere(r) \/
        ReclaimContents(r) \/ DropGrants(r) \/ DropBucket(r) \/ InsertGrant(r) \/
        UpdateGrant(r) \/ DropGrant(r))
  BY <1>1
    DEF DropUploads, UploadsDropped, CountFilesElsewhere, CountPartsElsewhere,
        ReclaimContents, DropGrants, GrantsRewritten, DropBucket, BucketDropped,
        InsertGrant, GrantWritten, UpdateGrant, DropGrant
<1> QED
  BY <1>2, <1>3, <1>4, <1>5, <1>6, <1>7, <1>8, <1>9, <1>10, <1>11 DEF Handle

LEMMA HandleAuthorized ==
  ASSUME TypeInv, AuthInv, NamesInv, NEW r \in Requests, Handle(r)
  PROVE  Authorized(r)
<1>0. /\ TypeOK /\ ControlOf(r) /\ HoldsOf(r) /\ AuthOf(r) /\ Active(r)
      /\ Writers(r) /\ Adds(r)
  BY Others, HandleWriters, HandleAdds DEF TypeInv, Flow, AuthInv, OthersKept
<1>1. ASSUME catalog' # catalog \/ (pc'[r] = "done" /\ res'[r] = "ok")
      PROVE  may[r]
  <2>1. CASE pc[r] \notin Unchecked
    BY <1>0, <2>1 DEF AuthOf
  <2>2. CASE pc[r] \in Unchecked
    <3>1. pc[r] = "unlink" /\ OwnLinks(r) # {}
      BY <1>1, <2>2, NoEffectBefore
    <3>2. Entitled(r)
      BY <1>0, <3>1 DEF OwnLinks, ControlOf, Entitled
    <3> QED
      BY <1>0, <3>2 DEF AuthOf
  <2> QED
    BY <2>1, <2>2
<1>2. ASSUME NEW f \in Changed(files, files') PROVE f.bucket = req[r].bucket
  <2>1. CASE f \notin files
    BY <1>0, <1>2, <2>1 DEF Changed, Adds
  <2>2. CASE f \in files
    BY <1>2, <2>2, Removals DEF Changed
  <2> QED
    BY <2>1, <2>2
<1>3. ASSUME NEW g \in Changed(grants, grants') PROVE g.bucket = req[r].bucket
  <2>1. CASE pc[r] = "updateGrant" /\ GrantsRewritten(r)
    BY <1>0, <1>3, <2>1
      DEF Changed, GrantsRewritten, FoundGrants, In, Named, TypeOK, Grant
  <2>2. CASE pc[r] # "updateGrant" /\ GrantsRewritten(r)
    BY <1>3, <2>2 DEF Changed, GrantsRewritten, FoundGrants, In
  <2>3. CASE GrantWritten(r)
    BY <1>3, <2>3 DEF Changed, GrantWritten
  <2> QED
    BY <1>0, <1>3, <2>1, <2>2, <2>3 DEF Changed, Writers
<1>4. ASSUME NEW l \in Changed(links, links')
      PROVE  IF req[r].op = "unshare" THEN l.user = req[r].user
                                      ELSE l.bucket = req[r].bucket
  <2>1. CASE LinkWritten(r)
    <3>1. l.bucket = req[r].bucket /\ req[r].op = "share"
      BY <1>0, <1>4, <2>1 DEF Changed, Adds, LinkWritten, ControlOf
    <3> QED
      BY <3>1
  <2>2. CASE LinksDropped(r) /\ pc[r] = "unlink"
    BY <1>0, <1>4, <2>2 DEF Changed, LinksDropped, OwnLinks, ControlOf
  <2>3. CASE LinksDropped(r) /\ pc[r] = "fileLinks"
    <3>1. /\ req[r].op = "deleteFiles" /\ doc[r].bucket = req[r].bucket
          /\ doc[r] \in Docs
      BY <1>0, <2>3 DEF ControlOf, HoldsOf, HasDoc, Docs, Held
    <3>2. l \in links /\ l.file = doc[r].id
      BY <1>4, <2>3 DEF Changed, LinksDropped
    <3> QED
      BY <3>1, <3>2 DEF NamesInv
  <2>4. CASE LinksDropped(r) /\ pc[r] = "links"
    BY <1>0, <1>4, <2>4 DEF Changed, LinksDropped, In, ControlOf
  <2>5. LinksDropped(r) => pc[r] \in {"unlink", "fileLinks", "links"}
    BY DEF LinksDropped
  <2> QED
    BY <1>0, <1>4, <2>1, <2>2, <2>3, <2>4, <2>5 DEF Changed, Writers
<1>5. pc[r] = "stream" /\ req[r].op = "download" => doc[r].bucket = req[r].bucket
  BY <1>0 DEF HoldsOf, HasDoc
<1> QED
  BY <1>1, <1>2, <1>3, <1>4, <1>5 DEF Authorized

(***************************************************************************)
(* Every effect and every 200 is one its account was entitled to while it  *)
(* was served, in the bucket the role was checked on                       *)
(* (OnlyAuthorizedEffects).                                                *)
(***************************************************************************)
THEOREM EffectsAuthorized == Spec => OnlyAuthorizedEffects
<1> DEFINE IInv == TypeInv /\ Beside /\ AuthInv /\ NamesInv
<1>1. Init => IInv
  BY TypeInvInit, BesideInit, AuthInit, NamesInit
<1>2. IInv /\ [Next]_vars => IInv'
  BY TypeInvStep, BesideStep, AuthStep, NamesStep
<1>3. ASSUME IInv, [Next]_vars, NEW r \in Requests, pc'[r] # pc[r], pc[r] # "idle"
      PROVE  Authorized(r)
  <2>1. ASSUME NEW q \in Requests, Start(q) PROVE FALSE
    <3>1. Begins(q)
      BY <1>3, <2>1, StartBegins
    <3> QED
      BY <1>3, <3>1 DEF Begins
  <2>2. ASSUME NEW q \in Requests, Handle(q) PROVE Handle(r)
    <3>1. OthersKept(q)
      BY <1>3, <2>2, Others DEF TypeInv
    <3> QED
      BY <1>3, <2>2, <3>1 DEF OthersKept, Untouched
  <2>3. ASSUME LinkExpires \/ UNCHANGED vars PROVE FALSE
    BY <1>3, <2>3 DEF LinkExpires, vars
  <2>4. Handle(r)
    BY <1>3, <2>1, <2>2, <2>3, NextCases
  <2> QED
    BY <1>3, <2>4, HandleAuthorized
<1>4. IInv /\ [Next]_vars =>
        [\A r \in Requests : pc'[r] # pc[r] /\ pc[r] # "idle" =>
           /\ catalog' # catalog \/ (pc'[r] = "done" /\ res'[r] = "ok") => may[r]
           /\ \A x \in Changed(files, files') \cup Changed(grants, grants') :
                x.bucket = req[r].bucket
           /\ \A l \in Changed(links, links') :
                IF req[r].op = "unshare" THEN l.user = req[r].user
                                         ELSE l.bucket = req[r].bucket
           /\ pc[r] = "stream" /\ req[r].op = "download"
                => doc[r].bucket = req[r].bucket]_vars
  BY <1>3 DEF Authorized
<1> HIDE DEF IInv
<1> QED
  BY <1>1, <1>2, <1>4, PTL DEF Spec, OnlyAuthorizedEffects

(***************************************************************************)
(* RetryableDeletion: until the grants go a deletion's account still owns  *)
(* the bucket, by itself or by the one grant there is, unless the request  *)
(* met one that takes the bucket or the role away.                         *)
(***************************************************************************)
Owns(user, b) ==
  /\ Live(b)
  /\ user = Owner \/ \E g \in grants : g.bucket = b /\ g.role = "owner"

\* The operations that may take a grant away.
Takes == {"deleteBucket", "revoke", "setRole"}

\* A bucket has at most one grant.
OneGrant == \A g \in grants : \A h \in grants : g.bucket = h.bucket => g = h

\* A DeleteBucket finds its bucket and its user's grant, or met what took them.
RetryOf(r) ==
  /\ pc[r] = "grant" => Live(req[r].bucket) \/ Met(r, Takes)
  /\ Active(r) /\ pc[r] \notin {"bucket", "grant", "dropBucket"} =>
       Owns(req[r].user, req[r].bucket) \/ Met(r, Takes)

RetryInv ==
  /\ OneGrant
  /\ \A r \in Requests : req[r] # None /\ req[r].op = "deleteBucket" => RetryOf(r)

LEMMA RetryInit == Init => RetryInv
<1> SUFFICES ASSUME Init PROVE RetryInv
  OBVIOUS
<1>1. PICK home \in Sources, copied \in {Home} \cup Buckets, role \in Roles :
        Contents(home, copied, role)
  BY DEF Init
<1>2. OneGrant
  BY <1>1 DEF Contents, OneGrant
<1> QED
  BY <1>2 DEF Init, RetryInv

\* The unique index on grants, kept by every writer.
LEMMA OneGrantKept ==
  ASSUME TypeInv, OneGrant, NEW r \in Requests, Handle(r)
  PROVE  OneGrant'
<1>0. TypeOK /\ Writers(r)
  BY HandleWriters DEF TypeInv
<1>1. CASE pc[r] = "updateGrant" /\ GrantsRewritten(r)
  <2>1. \A g \in grants' : \E h \in grants : /\ h.id = g.id /\ h.bucket = g.bucket
                                             /\ g = IF h \in FoundGrants(r)
                                                    THEN [h EXCEPT !.role = req[r].role]
                                                    ELSE h
    BY <1>0, <1>1 DEF GrantsRewritten, TypeOK, Grant, FoundGrants, In, Named
  <2> QED
    BY <2>1 DEF OneGrant
<1>2. CASE GrantWritten(r)
  BY <1>2 DEF GrantWritten, OneGrant, In
<1>3. CASE ~(pc[r] = "updateGrant" /\ GrantsRewritten(r)) /\ ~GrantWritten(r)
  BY <1>0, <1>3 DEF Writers, GrantsRewritten, OneGrant
<1> QED
  BY <1>1, <1>2, <1>3

\* Who takes a bucket or an owner's grant away.
LEMMA Taken ==
  ASSUME TypeInv, NEW r \in Requests, Handle(r), NEW user, NEW b \in Buckets,
         Owns(user, b), ~Owns(user, b)'
  PROVE  /\ req[r].op \in Takes
         /\ \/ pc[r] \in {"dropBucket", "dropGrant", "updateGrant"}
            \/ pc[r] = "dropGrants" /\ grants' # grants
<1>0. TypeOK /\ ControlOf(r) /\ Writers(r)
  BY HandleWriters DEF TypeInv, Flow
<1>1. CASE Live(b)'
  <2>1. PICK g \in grants : g.bucket = b /\ g.role = "owner" /\ g \notin grants'
    BY <1>1 DEF Owns
  <2>2. GrantsRewritten(r)
    BY <1>0, <2>1 DEF Writers, GrantWritten
  <2> QED
    BY <1>0, <2>1, <2>2 DEF ControlOf, GrantsRewritten, Takes
<1>2. CASE ~Live(b)'
  <2>1. buckets[b].state = "live" /\ buckets'[b].state # "live"
    BY <1>2 DEF Owns, Live
  <2>2. ~BucketWritten(r)
    BY <1>0, <2>1 DEF BucketWritten, TypeOK
  <2>3. BucketDropped(r)
    BY <1>0, <2>1, <2>2 DEF Writers
  <2> QED
    BY <1>0, <2>3 DEF ControlOf, BucketDropped, Takes
<1> QED
  BY <1>1, <1>2

LEMMA BucketTaken ==
  ASSUME TypeInv, NEW r \in Requests, Handle(r), NEW b \in Buckets, Live(b), ~Live(b)'
  PROVE  req[r].op = "deleteBucket"
<1>0. TypeOK /\ ControlOf(r) /\ Writers(r)
  BY HandleWriters DEF TypeInv, Flow
<1>1. ~BucketWritten(r)
  BY <1>0 DEF BucketWritten, TypeOK, Live
<1>2. BucketDropped(r)
  BY <1>0, <1>1 DEF Writers, Live
<1> QED
  BY <1>0, <1>2 DEF ControlOf, BucketDropped

\* Where a deletion may be once it has come past the look at the bucket.
LEMMA DeletionPoints ==
  ASSUME TypeInv, NEW r \in Requests, Handle(r), req[r].op = "deleteBucket",
         Active(r)', pc'[r] \notin {"bucket", "grant", "dropBucket"}
  PROVE  /\ pc'[r] \in {"links", "listFiles", "listUploads", "dropFiles", "dropUploads",
                        "countFiles", "countParts", "reclaim", "dropGrants"}
         /\ pc[r] \notin {"dropGrants", "dropBucket"}
<1>1. pc'[r] \in Steps /\ ControlOf(r)' /\ req'[r] = req[r] /\ Arrivals(r)
  BY HandleLocalTypes, HandleFlow, HandleArrivals, Others
     DEF LocalTypes, LocalTypeOK, TypeInv, OthersKept
<1>2. pc'[r] \in {"links", "listFiles", "listUploads", "dropFiles", "dropUploads",
                  "countFiles", "countParts", "reclaim", "dropGrants"}
  BY <1>1 DEF ControlOf, Steps, Active
<1>3. pc[r] \notin {"dropGrants", "dropBucket"}
  BY <1>1, <1>2
     DEF Arrivals, ReadBucket, ReadGrant, DropLinks, LinksDropped, ListFiles,
         ListUploads, DropFiles, FilesDropped, DropUploads, UploadsDropped,
         CountFilesElsewhere, CountPartsElsewhere, ReclaimContents, CountReferences
<1> QED
  BY <1>2, <1>3

\* The look that lets a request past entitles it (LooksEntitle).
LEMMA Unhurried ==
  ASSUME TypeInv, AuthInv, NEW r \in Requests, Handle(r),
         pc[r] \in {"bucket", "grant"}, Active(r)', pc'[r] \notin {"bucket", "grant"}
  PROVE  Entitled(r)
<1>1. pc'[r] \notin Unchecked
  BY HandleArrivals DEF Arrivals, Unchecked, Active
<1> QED
  BY <1>1, LooksEntitle DEF Unchecked

LEMMA OwnerRank ==
  ASSUME NEW role \in Roles, Rank[role] >= 3
  PROVE  role = "owner"
BY DEF Roles, Rank

LEMMA RetryHandle ==
  ASSUME TypeInv, Beside, AuthInv, RetryInv, [Next]_vars, NEW r \in Requests,
         Handle(r), NEW d \in Requests, req'[d] # None, req'[d].op = "deleteBucket"
  PROVE  RetryOf(d)'
<1>0. /\ TypeOK /\ ControlOf(r) /\ OthersKept(r) /\ Arrivals(r) /\ Active(r)
      /\ req' = req /\ req[d].bucket \in Buckets /\ RetryOf(d)
  BY Others, HandleArrivals, NamesAssumption
     DEF TypeInv, Flow, OthersKept, RetryInv, TypeOK, Request
<1>1. Met(d, Takes) => Met(d, Takes)'
  BY MetPersists
<1>2. ASSUME d # r, Active(d), req[r].op \in Takes PROVE Met(d, Takes)
  BY <1>0, <1>2, ActiveMeet DEF Met
<1>3. CASE d # r
  <2>1. pc'[d] = pc[d]
    BY <1>0, <1>3 DEF OthersKept, Untouched
  <2>2. ASSUME pc[d] = "grant" PROVE Live(req[d].bucket)' \/ Met(d, Takes)'
    BY <1>0, <1>1, <1>2, <1>3, <2>2, BucketTaken DEF RetryOf, Active, Takes
  <2>3. ASSUME Active(d), pc[d] \notin {"bucket", "grant", "dropBucket"}
        PROVE  Owns(req[d].user, req[d].bucket)' \/ Met(d, Takes)'
    <3>1. Owns(req[d].user, req[d].bucket) => Owns(req[d].user, req[d].bucket)' \/
          Met(d, Takes)
      BY <1>0, <1>2, <1>3, <2>3, Taken DEF Owns
    <3> QED
      BY <1>0, <1>1, <2>3, <3>1 DEF RetryOf
  <2> QED
    BY <1>0, <2>1, <2>2, <2>3 DEF RetryOf, Active
<1>4. CASE d = r
  <2>0. pc[r] \in Steps /\ req[r].op \in AllOps
    BY <1>0, RequestParts DEF TypeOK, Active
  <2>1. ASSUME pc'[r] = "grant" PROVE Live(req[r].bucket)'
    BY <1>0, <2>1 DEF Arrivals, ReadBucket, Finish, Goto, TypeOK, catalog, Live
  <2>2. ASSUME Active(r)', pc'[r] \notin {"bucket", "grant", "dropBucket"}
        PROVE  Owns(req[r].user, req[r].bucket)' \/ Met(r, Takes)'
    <3>1. CASE pc[r] \in {"bucket", "grant"}
      <4>1. Entitled(r)
        BY <2>2, <3>1, Unhurried DEF Active
      <4>2. catalog' = catalog
        BY <1>4, <1>0, <3>1, NoEffectBefore
          DEF Unchecked
      <4>3. Live(req[r].bucket) => Owns(req[r].user, req[r].bucket)
        BY <1>0, <1>4, <4>1, OwnerRank
          DEF Entitled, GrantSuffices, Owns, Needed, TypeOK, Grant
      <4>4. Live(req[r].bucket) \/ Met(r, Takes)
        BY <1>0, <1>4, <2>2, <3>1, BucketIsRead DEF RetryOf, Active
      <4>5. Owns(req[r].user, req[r].bucket) => Owns(req[r].user, req[r].bucket)'
        BY <1>0, <4>2 DEF catalog, Owns, Live
      <4> QED
        BY <1>1, <1>4, <4>3, <4>4, <4>5
    <3>2. CASE pc[r] \notin {"bucket", "grant"}
      <4>1. /\ pc'[r] \in {"links", "listFiles", "listUploads", "dropFiles", "dropUploads",
                           "countFiles", "countParts", "reclaim", "dropGrants"}
            /\ pc[r] \notin {"dropGrants", "dropBucket"}
        BY <1>0, <1>4, <2>2, <3>2, DeletionPoints
      <4>2. pc[r] \notin {"dropBucket", "dropGrants", "dropGrant", "updateGrant"}
        BY <1>0, <1>4, <4>1 DEF ControlOf
      <4>3. Owns(req[r].user, req[r].bucket) => Owns(req[r].user, req[r].bucket)'
        BY <1>0, <1>4, <4>2, Taken DEF Owns
      <4> QED
        BY <1>0, <1>1, <1>4, <3>2, <4>1, <4>3 DEF RetryOf
    <3> QED
      BY <3>1, <3>2
  <2> QED
    BY <1>0, <1>4, <2>1, <2>2 DEF RetryOf, Active
<1> QED
  BY <1>3, <1>4

\* RetryInv is inductive.
LEMMA RetryStep ==
  TypeInv /\ Beside /\ AuthInv /\ RetryInv /\ [Next]_vars => RetryInv'
<1> SUFFICES ASSUME TypeInv, Beside, AuthInv, RetryInv, [Next]_vars PROVE RetryInv'
  OBVIOUS
<1>1. ASSUME NEW r \in Requests, Start(r) PROVE RetryInv'
  <2>1. /\ Begins(r) /\ grants' = grants /\ buckets' = buckets
        /\ req'[r].op \in AllOps
    BY <1>1, StartBegins DEF Begins, catalog, Shape, Request
  <2>2. ASSUME NEW d \in Requests, req'[d] # None, req'[d].op = "deleteBucket"
        PROVE  RetryOf(d)'
    <3>1. CASE d = r
      BY <2>1, <2>2, <3>1, EntrySteps DEF Begins, RetryOf
    <3>2. CASE d # r
      <4>1. pc'[d] = pc[d] /\ req'[d] = req[d] /\ RetryOf(d)
        BY <2>1, <2>2, <3>2 DEF Begins, RetryInv
      <4>2. /\ Live(req[d].bucket)' <=> Live(req[d].bucket)
            /\ Owns(req[d].user, req[d].bucket)' <=> Owns(req[d].user, req[d].bucket)
        BY <2>1, <4>1 DEF Live, Owns
      <4>3. Met(d, Takes) => Met(d, Takes)'
        BY MetPersists
      <4> QED
        BY <2>1, <4>1, <4>3 DEF RetryOf, Active, Live, Owns
    <3> QED
      BY <3>1, <3>2
  <2> QED
    BY <2>1, <2>2 DEF RetryInv, OneGrant
<1>2. ASSUME NEW r \in Requests, Handle(r) PROVE RetryInv'
  BY <1>2, RetryHandle, OneGrantKept DEF RetryInv
<1>3. ASSUME LinkExpires PROVE RetryInv'
  <2>1. UNCHANGED <<buckets, grants, pc, req, met>>
    BY <1>3, ExpiredLinks
  <2> QED
    BY <2>1 DEF RetryInv, OneGrant, RetryOf, Active, Live, Owns, Met
<1>4. ASSUME UNCHANGED vars PROVE RetryInv'
  BY <1>4 DEF vars, catalog, RetryInv, OneGrant, RetryOf, Active, Live, Owns, Met
<1> QED
  BY <1>1, <1>2, <1>3, <1>4, NextCases

\* An owner's rank is the highest there is (stated of the next state, in
\* which the theorem needs it).
LEMMA OwnersRank ==
  ASSUME OneGrant', NEW user, NEW b, Owns(user, b)'
  PROVE  RankOf(user, b)' = 3
<1>1. CASE user = Owner
  BY <1>1 DEF Owns, RankOf
<1>2. CASE user # Owner
  <2>1. PICK g \in grants' : g.bucket = b /\ g.role = "owner"
    BY <1>2 DEF Owns
  <2>2. (CHOOSE h \in grants' : h.bucket = b) = g
    BY <2>1 DEF OneGrant
  <2> QED
    BY <1>2, <2>1, <2>2 DEF Owns, RankOf, Rank, Roles
<1> QED
  BY <1>1, <1>2

(***************************************************************************)
(* A DeleteBucket that fails half-way can be tried again: the bucket is    *)
(* there and the account still owns it, unless another request it met took *)
(* one of them away, or the grants were deleted and the deletion of them   *)
(* was reported failed (RetryableDeletion).                                *)
(***************************************************************************)
THEOREM DeletionRetryable == Spec => RetryableDeletion
<1> DEFINE IInv == TypeInv /\ Beside /\ AuthInv /\ RetryInv
<1>1. Init => IInv
  BY TypeInvInit, BesideInit, AuthInit, RetryInit
<1>2. IInv /\ [Next]_vars => IInv'
  BY TypeInvStep, BesideStep, AuthStep, RetryStep
<1>3. ASSUME IInv, [Next]_vars, NEW r \in Requests, req[r].op = "deleteBucket",
             pc[r] \notin {"idle", "bucket", "grant", "dropBucket", "done"},
             pc'[r] = "done"
      PROVE  \/ RankOf(req[r].user, req[r].bucket)' = 3
             \/ pc[r] = "dropGrants" /\ grants' # grants
             \/ Met(r, {"deleteBucket", "revoke", "setRole"})
  <2>1. ASSUME NEW q \in Requests, Start(q) PROVE FALSE
    <3>1. Begins(q)
      BY <1>3, <2>1, StartBegins
    <3> QED
      BY <1>3, <3>1 DEF Begins
  <2>2. ASSUME NEW q \in Requests, Handle(q) PROVE Handle(r)
    <3>1. OthersKept(q)
      BY <1>3, <2>2, Others DEF TypeInv
    <3> QED
      BY <1>3, <2>2, <3>1 DEF OthersKept, Untouched
  <2>3. Handle(r)
    BY <1>3, <2>1, <2>2, NextCases DEF LinkExpires, vars
  <2>4. Owns(req[r].user, req[r].bucket) \/ Met(r, Takes)
    BY <1>3, RequestParts DEF TypeInv, RetryInv, RetryOf, Active
  <2>5. CASE /\ Owns(req[r].user, req[r].bucket)
             /\ ~(pc[r] = "dropGrants" /\ grants' # grants)
    <3>1. pc[r] \notin {"dropBucket", "dropGrant", "updateGrant"}
      BY <1>3 DEF TypeInv, Flow, ControlOf
    <3>2. PICK user \in {Owner, Guest}, b \in Buckets :
               user = req[r].user /\ b = req[r].bucket
      BY <1>3, RequestParts DEF TypeInv
    <3>3. req'[r].user = user /\ req'[r].bucket = b
      BY <1>3, <2>3, <3>2, Others DEF TypeInv, OthersKept
    <3>4. Owns(user, b)'
      BY <1>3, <2>3, <2>5, <3>1, <3>2, Taken
    <3>5. OneGrant'
      BY <1>3, <2>3, OneGrantKept DEF RetryInv
    <3>6. RankOf(user, b)' = 3
      BY <3>4, <3>5, OwnersRank
    <3> QED
      BY <3>3, <3>6
  <2> QED
    BY <2>4, <2>5 DEF Takes
<1>4. IInv /\ [Next]_vars =>
        [\A r \in Requests :
           /\ pc[r] \notin {"idle", "bucket", "grant", "dropBucket", "done"}
           /\ req[r].op = "deleteBucket"
           /\ pc'[r] = "done"
           => \/ RankOf(req[r].user, req[r].bucket)' = 3
              \/ pc[r] = "dropGrants" /\ grants' # grants
              \/ Met(r, {"deleteBucket", "revoke", "setRole"})]_vars
  BY <1>3
<1> HIDE DEF IInv
<1> QED
  BY <1>1, <1>2, <1>4, PTL DEF Spec, RetryableDeletion
====
