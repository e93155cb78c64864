------------------------- MODULE ObjectStoreProofs -------------------------
(***************************************************************************)
(* Proofs about ObjectStore, for all constants that satisfy                *)
(* ConstantsAssumption: any number of requests, keys and chunks, any mix   *)
(* of operations and of faults; and that ObjectStore implements            *)
(* ObjectStoreSpec where no copy runs and no reply is lost.                *)
(***************************************************************************)
EXTENDS ObjectStoreRefinement, TLAPS

\* Sorts of the values the actions compute.
LEMMA StrayIsNoChunk == Stray \notin Chunk
BY ConstantsAssumption DEF Stray, Chunk

LEMMA UploadedInChunk ==
  ASSUME TypeOK, NEW r \in Requests
  PROVE  Uploaded(r) \subseteq Chunk
BY ConstantsAssumption DEF TypeOK, Uploaded, Chunk

LEMMA NewDocInDoc ==
  ASSUME TypeOK, NEW r \in Requests, NEW id \in Requests,
         pc[r] # "idle", req[r].op = "copy" => snap[r] # None
  PROVE  NewDoc(r, id) \in Doc
<1>1. CASE req[r].op = "copy"
  <2>1. snap[r] \in Doc
    BY <1>1 DEF TypeOK
  <2> QED
    BY <1>1, <2>1 DEF NewDoc, Doc
<1>2. CASE req[r].op # "copy"
  BY <1>2, UploadedInChunk DEF NewDoc, Doc
<1> QED
  BY <1>1, <1>2

(***************************************************************************)
(* The control flow of one request: what is known at each control point.   *)
(***************************************************************************)
FlowOf(r) ==
  /\ pc[r] = "idle" => req[r] = None
  /\ pc[r] \in {"idle", "lookup", "delete", "stream"} \cup Uploading
       => res[r] = "none"
  /\ pc[r] \in {"cleanup", "purge", "count"} => res[r] # "none"
  /\ pc[r] \in {"idle", "lookup"} => snap[r] = None
  /\ pc[r] \in {"upload", "cleanup"} => req[r].op = "put"
  /\ pc[r] = "lookup" => req[r].op \in {"copy", "delete", "get"}
  /\ pc[r] \in Uploading =>
       req[r].op = "put" \/ (req[r].op = "copy" /\ snap[r] # None)
  /\ pc[r] = "delete" => req[r].op = "delete" /\ snap[r] # None
  /\ pc[r] = "stream" => /\ req[r].op = "get" /\ snap[r] # None
                         /\ work[r] \subseteq snap[r].chunks

Flow == \A r \in Requests : FlowOf(r)

TypeInv == TypeOK /\ Flow

LEMMA TypeInvInit == Init => TypeInv
BY ConstantsAssumption
   DEF Init, TypeInv, TypeOK, Flow, FlowOf, Uploading, Steps, Results

\* The two ways out of a ReplaceByName that does not insert.
LEMMA ReplaceErrorTypeInv ==
  ASSUME TypeInv, NEW r \in Requests, pc[r] \in {"replace", "insert", "retry"},
         ReplaceError(r), files' \in [Keys -> Doc \cup {None}],
         UNCHANGED overlapped
  PROVE  TypeInv'
BY UploadedInChunk
   DEF TypeInv, TypeOK, Flow, FlowOf, Uploading, Steps, Results, Goto, Answer,
       ReplaceError

LEMMA UpdateTypeInv ==
  ASSUME TypeInv, NEW r \in Requests, pc[r] \in {"replace", "retry"},
         Update(r), UNCHANGED overlapped
  PROVE  TypeInv'
<1> DEFINE k == req[r].key
           previous == files[k]
<1>1. k \in Keys /\ previous \in Doc
  BY DEF TypeInv, TypeOK, Request, Update
<1>2. previous.id \in Requests /\ previous.chunks \subseteq Chunk
  BY <1>1 DEF Doc
<1>3. NewDoc(r, previous.id) \in Doc
  BY <1>2, NewDocInDoc DEF TypeInv, TypeOK, Flow, FlowOf, Uploading
<1>4. files' \in [Keys -> Doc \cup {None}]
  BY <1>1, <1>3 DEF TypeInv, TypeOK, Update
<1>5. CASE ReplaceError(r)
  BY <1>4, <1>5, ReplaceErrorTypeInv
<1>6. CASE ~ReplaceError(r)
  <2>1. /\ Answer(r, "ok")
        /\ work' = [work EXCEPT ![r] = previous.chunks]
        /\ Goto(r, "count")
        /\ UNCHANGED <<store, req, sent, snap, doomed>>
    BY <1>6 DEF Update
  <2> QED
    BY <1>2, <1>4, <2>1
       DEF TypeInv, TypeOK, Flow, FlowOf, Uploading, Steps, Results, Goto, Answer
<1> QED
  BY <1>5, <1>6

LEMMA TypeInvStep == TypeInv /\ [Next]_vars => TypeInv'
<1> SUFFICES ASSUME TypeInv, [Next]_vars PROVE TypeInv'
  OBVIOUS
<1> USE ConstantsAssumption DEF TypeInv
<1> USE DEF TypeOK, Flow, FlowOf, Uploading, Steps, Results, Goto, Answer, Finish
<1>1. ASSUME NEW r \in Requests, Start(r) PROVE TypeInv'
  BY <1>1 DEF Start, Request, AllOps
<1>2. ASSUME NEW r \in Requests, UploadChunk(r), UNCHANGED overlapped PROVE TypeInv'
  BY <1>2 DEF UploadChunk, Chunk
<1>3. ASSUME NEW r \in Requests, EndOfBody(r), UNCHANGED overlapped PROVE TypeInv'
  BY <1>3 DEF EndOfBody
<1>4. ASSUME NEW r \in Requests, UploadFails(r), UNCHANGED overlapped PROVE TypeInv'
  BY <1>4, UploadedInChunk DEF UploadFails, Chunk
<1>5. ASSUME NEW r \in Requests, CleanupUploaded(r), UNCHANGED overlapped PROVE TypeInv'
  BY <1>5 DEF CleanupUploaded
<1>6. ASSUME NEW r \in Requests, Lookup(r), UNCHANGED overlapped PROVE TypeInv'
  <2> DEFINE doc == files[req[r].src]
  <2>1. req[r] \in Request /\ doc \in Doc \cup {None}
    BY <1>6 DEF Lookup, Request
  <2>2. CASE doc = None
    BY <1>6, <2>2 DEF Lookup
  <2>3. CASE doc # None
    <3>1. doc.chunks \subseteq Chunk
      BY <2>1, <2>3 DEF Doc
    <3> QED
      BY <1>6, <2>1, <2>3, <3>1 DEF Lookup
  <2> QED
    BY <2>2, <2>3
<1>7. ASSUME NEW r \in Requests, LookupFails(r), UNCHANGED overlapped PROVE TypeInv'
  BY <1>7 DEF LookupFails
<1>8. ASSUME NEW r \in Requests, Replace(r), UNCHANGED overlapped PROVE TypeInv'
  BY <1>8, UpdateTypeInv DEF Replace
<1>9. ASSUME NEW r \in Requests, Insert(r), UNCHANGED overlapped PROVE TypeInv'
  BY <1>9, UploadedInChunk, NewDocInDoc DEF Insert, ReplaceError, Request
<1>10. ASSUME NEW r \in Requests, Retry(r), UNCHANGED overlapped PROVE TypeInv'
  BY <1>10, UpdateTypeInv, ReplaceErrorTypeInv DEF Retry
<1>11. ASSUME NEW r \in Requests, ReplaceFails(r), UNCHANGED overlapped PROVE TypeInv'
  BY <1>11, UploadedInChunk DEF ReplaceFails, ReplaceError
<1>12. ASSUME NEW r \in Requests, DeleteChunk(r), UNCHANGED overlapped PROVE TypeInv'
  BY <1>12 DEF DeleteChunk, StopCleanup
<1>13. ASSUME NEW r \in Requests, CountReferences(r), UNCHANGED overlapped PROVE TypeInv'
  BY <1>13 DEF CountReferences
<1>14. ASSUME NEW r \in Requests, CountFails(r), UNCHANGED overlapped PROVE TypeInv'
  BY <1>14 DEF CountFails, StopCleanup
<1>15. ASSUME NEW r \in Requests, DeleteDocument(r), UNCHANGED overlapped PROVE TypeInv'
  <2> DEFINE k == req[r].key
  <2>1. k \in Keys /\ snap[r] \in Doc
    BY <1>15 DEF DeleteDocument, Request
  <2>2. snap[r].chunks \subseteq Chunk
    BY <2>1 DEF Doc
  <2>3. CASE files[k] # None /\ files[k].id = snap[r].id
    BY <1>15, <2>1, <2>2, <2>3 DEF DeleteDocument
  <2>4. CASE ~(files[k] # None /\ files[k].id = snap[r].id)
    BY <1>15, <2>4 DEF DeleteDocument
  <2> QED
    BY <2>3, <2>4
<1>16. ASSUME NEW r \in Requests, DeleteFails(r), UNCHANGED overlapped PROVE TypeInv'
  BY <1>16 DEF DeleteFails
<1>17. ASSUME NEW r \in Requests, StreamChunk(r), UNCHANGED overlapped PROVE TypeInv'
  BY <1>17 DEF StreamChunk
<1>18. ASSUME NEW r \in Requests, StreamFails(r), UNCHANGED overlapped PROVE TypeInv'
  BY <1>18 DEF StreamFails
<1>19. ASSUME NEW r \in Requests, Crash(r), UNCHANGED overlapped PROVE TypeInv'
  BY <1>19 DEF Crash, Active
<1>20. ASSUME UNCHANGED vars PROVE TypeInv'
  BY <1>20 DEF vars
<1> QED
  BY <1>1, <1>2, <1>3, <1>4, <1>5, <1>6, <1>7, <1>8, <1>9, <1>10, <1>11,
     <1>12, <1>13, <1>14, <1>15, <1>16, <1>17, <1>18, <1>19, <1>20
     DEF Next, Step, PutStep, ReplaceStep, ReclaimStep, DeleteStep, ReadStep,
         AllServed

\* Every variable of the data path keeps its sort, and every request its
\* control flow, in every reachable state.
THEOREM TypeCorrect == Spec => []TypeOK
<1>1. Spec => []TypeInv
  BY TypeInvInit, TypeInvStep, PTL DEF Spec
<1> QED
  BY <1>1, PTL DEF TypeInv
-----------------------------------------------------------------------------
(***************************************************************************)
(* What a step can never take back: what a request was asked, the list it  *)
(* looked up, that it ran beside another, and a decided answer.            *)
(***************************************************************************)
Persists(r) ==
  /\ req[r] # None => req'[r] = req[r]
  /\ snap[r] # None => snap'[r] = snap[r]
  /\ r \in overlapped => r \in overlapped'
  /\ res[r] # "none" => res'[r] # "none"
  /\ res[r] = "err" => res'[r] = "err"

LEMMA PersistsStep ==
  ASSUME TypeInv, [Next]_vars, NEW p \in Requests
  PROVE  Persists(p)
<1> USE DEF TypeInv, TypeOK, Flow, FlowOf, Uploading, Goto, Answer, Finish, Persists
<1>1. ASSUME NEW r \in Requests, Start(r) PROVE Persists(p)
  BY <1>1 DEF Start
<1>2. ASSUME NEW r \in Requests, UploadChunk(r), UNCHANGED overlapped PROVE Persists(p)
  BY <1>2 DEF UploadChunk
<1>3. ASSUME NEW r \in Requests, EndOfBody(r), UNCHANGED overlapped PROVE Persists(p)
  BY <1>3 DEF EndOfBody
<1>4. ASSUME NEW r \in Requests, UploadFails(r), UNCHANGED overlapped PROVE Persists(p)
  BY <1>4 DEF UploadFails
<1>5. ASSUME NEW r \in Requests, CleanupUploaded(r), UNCHANGED overlapped PROVE Persists(p)
  BY <1>5 DEF CleanupUploaded
<1>6. ASSUME NEW r \in Requests, Lookup(r), UNCHANGED overlapped PROVE Persists(p)
  BY <1>6 DEF Lookup
<1>7. ASSUME NEW r \in Requests, LookupFails(r), UNCHANGED overlapped PROVE Persists(p)
  BY <1>7 DEF LookupFails
<1>8. ASSUME NEW r \in Requests, Replace(r), UNCHANGED overlapped PROVE Persists(p)
  BY <1>8 DEF Replace, Update, ReplaceError
<1>9. ASSUME NEW r \in Requests, Insert(r), UNCHANGED overlapped PROVE Persists(p)
  BY <1>9 DEF Insert, ReplaceError
<1>10. ASSUME NEW r \in Requests, Retry(r), UNCHANGED overlapped PROVE Persists(p)
  BY <1>10 DEF Retry, Update, ReplaceError
<1>11. ASSUME NEW r \in Requests, ReplaceFails(r), UNCHANGED overlapped PROVE Persists(p)
  BY <1>11 DEF ReplaceFails, ReplaceError
<1>12. ASSUME NEW r \in Requests, DeleteChunk(r), UNCHANGED overlapped PROVE Persists(p)
  BY <1>12 DEF DeleteChunk, StopCleanup
<1>13. ASSUME NEW r \in Requests, CountReferences(r), UNCHANGED overlapped PROVE Persists(p)
  BY <1>13 DEF CountReferences
<1>14. ASSUME NEW r \in Requests, CountFails(r), UNCHANGED overlapped PROVE Persists(p)
  BY <1>14 DEF CountFails, StopCleanup
<1>15. ASSUME NEW r \in Requests, DeleteDocument(r), UNCHANGED overlapped PROVE Persists(p)
  BY <1>15 DEF DeleteDocument
<1>16. ASSUME NEW r \in Requests, DeleteFails(r), UNCHANGED overlapped PROVE Persists(p)
  BY <1>16 DEF DeleteFails
<1>17. ASSUME NEW r \in Requests, StreamChunk(r), UNCHANGED overlapped PROVE Persists(p)
  BY <1>17 DEF StreamChunk
<1>18. ASSUME NEW r \in Requests, StreamFails(r), UNCHANGED overlapped PROVE Persists(p)
  BY <1>18 DEF StreamFails
<1>19. ASSUME NEW r \in Requests, Crash(r), UNCHANGED overlapped PROVE Persists(p)
  BY <1>19 DEF Crash
<1>20. ASSUME UNCHANGED vars PROVE Persists(p)
  BY <1>20 DEF vars
<1> QED
  BY <1>1, <1>2, <1>3, <1>4, <1>5, <1>6, <1>7, <1>8, <1>9, <1>10, <1>11,
     <1>12, <1>13, <1>14, <1>15, <1>16, <1>17, <1>18, <1>19, <1>20
     DEF Next, Step, PutStep, ReplaceStep, ReclaimStep, DeleteStep, ReadStep,
         AllServed
-----------------------------------------------------------------------------
(***************************************************************************)
(* What one step of request r can do to the chunks, read off the actions.  *)
(***************************************************************************)
Writing == {"replace", "insert", "retry"}
Deleting == {"purge", "cleanup"}

\* The other requests are left alone, and overlapping ones are remembered.
LeavesOthers(r) ==
  /\ \A q \in Requests \ {r} :
       /\ pc'[q] = pc[q] /\ req'[q] = req[q] /\ sent'[q] = sent[q]
       /\ snap'[q] = snap[q] /\ work'[q] = work[q]
       /\ doomed'[q] = doomed[q] /\ res'[q] = res[q]
  /\ Active(r)' => \/ Active(r)
                   \/ \A q \in Requests \ {r} :
                        Active(q) => {q, r} \subseteq overlapped'

\* A chunk becomes referenced only by the write of a put that uploaded it or
\* of a copy that looked it up.
RefersTo(r, c) ==
  /\ pc[r] \in Writing
  /\ \/ req[r].op = "put" /\ c \in Uploaded(r) /\ res'[r] # "none"
     \/ req[r].op = "copy" /\ snap[r] # None /\ c \in snap[r].chunks

Effect(r) ==
  /\ LeavesOthers(r)
  /\ \A c \in Chunk : Referenced(c)' => Referenced(c) \/ RefersTo(r, c)
  /\ \A c \in store \ store' : pc[r] \in Deleting /\ c \in doomed[r]
  /\ Uploaded(r)' \subseteq Uploaded(r) \cup store'
  /\ \A c \in doomed'[r] :
       \/ c \in doomed[r] /\ (pc'[r] \in Deleting => pc[r] \in Deleting)
       \/ Owner(c) = r /\ res'[r] = "err"
       \/ c \in work[r] /\ ~Referenced(c)'
  /\ \A c \in work'[r] :
       \/ c \in work[r]
       \/ Referenced(c)
       \/ snap[r] # None /\ c \in snap[r].chunks
  /\ \/ snap'[r] = snap[r] /\ (pc'[r] \in Writing => pc[r] \in Writing \cup {"upload"})
     \/ \A c \in snap'[r].chunks : Referenced(c)
     \/ pc[r] = "idle" /\ snap'[r] = snap[r] /\ pc'[r] \notin Writing

LEMMA UpdateEffect ==
  ASSUME TypeInv, NEW r \in Requests, pc[r] \in {"replace", "retry"},
         Update(r), UNCHANGED overlapped
  PROVE  Effect(r)
<1> USE DEF TypeInv, TypeOK, Flow, FlowOf, Uploading, Writing, Deleting
<1> DEFINE k == req[r].key
           previous == files[k]
           new == NewDoc(r, previous.id)
<1>1. k \in Keys /\ previous # None /\ files' = [files EXCEPT ![k] = new]
  BY DEF Request, Update
<1>2. new \in Doc
  BY <1>1, NewDocInDoc DEF Doc
<1>3. ASSUME NEW c \in Chunk, Referenced(c)'
      PROVE  Referenced(c) \/ c \in new.chunks
  BY <1>1, <1>2, <1>3 DEF Referenced, ChunksAt
<1>4. \A c \in new.chunks : \/ req[r].op = "put" /\ c \in Uploaded(r)
                            \/ req[r].op = "copy" /\ c \in snap[r].chunks
  BY DEF NewDoc
<1>5. \A c \in previous.chunks : Referenced(c)
  BY <1>1 DEF Referenced, ChunksAt
<1>6. CASE ReplaceError(r)
  BY <1>1, <1>3, <1>4, <1>6
     DEF ReplaceError, Goto, Answer, Effect, LeavesOthers, RefersTo, Active,
         Uploaded, Owner
<1>7. CASE ~ReplaceError(r)
  <2>1. /\ Answer(r, "ok")
        /\ work' = [work EXCEPT ![r] = previous.chunks]
        /\ Goto(r, "count")
        /\ UNCHANGED <<store, req, sent, snap, doomed>>
    BY <1>7 DEF Update
  <2> QED
    BY <1>1, <1>3, <1>4, <1>5, <2>1
       DEF Goto, Answer, Effect, LeavesOthers, RefersTo, Active, Uploaded
<1> QED
  BY <1>6, <1>7

LEMMA EffectStep ==
  ASSUME TypeInv, NEW r \in Requests, Step(r)
  PROVE  Effect(r)
<1> USE DEF TypeInv, TypeOK, Flow, FlowOf, Uploading, Writing, Deleting, Goto,
            Answer, Finish, Effect, LeavesOthers, RefersTo, Active, Referenced,
            ChunksAt, Uploaded, Owner, IsFirst
<1>1. CASE Start(r)
  BY <1>1 DEF Start, Request
<1>2. CASE UploadChunk(r) /\ UNCHANGED overlapped
  BY <1>2 DEF UploadChunk
<1>3. CASE EndOfBody(r) /\ UNCHANGED overlapped
  BY <1>3 DEF EndOfBody
<1>4. CASE UploadFails(r) /\ UNCHANGED overlapped
  BY <1>4 DEF UploadFails
<1>5. CASE CleanupUploaded(r) /\ UNCHANGED overlapped
  BY <1>5 DEF CleanupUploaded
<1>6. CASE Lookup(r) /\ UNCHANGED overlapped
  <2> DEFINE k == req[r].src
  <2>1. k \in Keys
    BY <1>6 DEF Lookup, Request
  <2>2. CASE files[k] = None
    BY <1>6, <2>2 DEF Lookup
  <2>3. CASE files[k] # None
    <3>1. \A c \in files[k].chunks : Referenced(c)
      BY <2>1, <2>3
    <3>2. /\ snap' = [snap EXCEPT ![r] = files[k]]
          /\ work'[r] \subseteq files[k].chunks
      BY <1>6, <2>3 DEF Lookup
    <3> QED
      BY <1>6, <2>3, <3>1, <3>2 DEF Lookup
  <2> QED
    BY <2>2, <2>3
<1>7. CASE LookupFails(r) /\ UNCHANGED overlapped
  BY <1>7 DEF LookupFails
<1>8. CASE Replace(r) /\ UNCHANGED overlapped
  BY <1>8, UpdateEffect DEF Replace
<1>9. CASE Insert(r) /\ UNCHANGED overlapped
  BY <1>9 DEF Insert, ReplaceError, NewDoc
<1>10. CASE Retry(r) /\ UNCHANGED overlapped
  BY <1>10, UpdateEffect DEF Retry, ReplaceError
<1>11. CASE ReplaceFails(r) /\ UNCHANGED overlapped
  BY <1>11 DEF ReplaceFails, ReplaceError
<1>12. CASE DeleteChunk(r) /\ UNCHANGED overlapped
  BY <1>12 DEF DeleteChunk, StopCleanup
<1>13. CASE CountReferences(r) /\ UNCHANGED overlapped
  BY <1>13 DEF CountReferences
<1>14. CASE CountFails(r) /\ UNCHANGED overlapped
  BY <1>14 DEF CountFails, StopCleanup
<1>15. CASE DeleteDocument(r) /\ UNCHANGED overlapped
  BY <1>15 DEF DeleteDocument
<1>16. CASE DeleteFails(r) /\ UNCHANGED overlapped
  BY <1>16 DEF DeleteFails
<1>17. CASE StreamChunk(r) /\ UNCHANGED overlapped
  BY <1>17 DEF StreamChunk
<1>18. CASE StreamFails(r) /\ UNCHANGED overlapped
  BY <1>18 DEF StreamFails
<1>19. CASE Crash(r) /\ UNCHANGED overlapped
  BY <1>19 DEF Crash
<1> QED
  BY <1>1, <1>2, <1>3, <1>4, <1>5, <1>6, <1>7, <1>8, <1>9, <1>10, <1>11,
     <1>12, <1>13, <1>14, <1>15, <1>16, <1>17, <1>18, <1>19
     DEF Step, PutStep, ReplaceStep, ReclaimStep, DeleteStep, ReadStep
-----------------------------------------------------------------------------
(***************************************************************************)
(* The inductive invariant behind StoredObjectsReadable. The property is   *)
(* not inductive: that a chunk may be deleted depends on who holds it.     *)
(***************************************************************************)
\* Nobody but the put itself knows a chunk before that put has an answer.
UnknownBeforeAnswer ==
  \A c \in Chunk : res[Owner(c)] = "none" =>
    /\ ~Referenced(c)
    /\ \A r \in Requests : /\ c \notin work[r] \cup doomed[r]
                           /\ snap[r] # None => c \notin snap[r].chunks

\* What an unanswered put has uploaded is there.
UploadsKept == \A r \in Requests : res[r] = "none" => Uploaded(r) \subseteq store

\* Two requests that are served at once overlap.
ActiveOverlap ==
  \A q, r \in Requests : q # r /\ Active(q) /\ Active(r) => q \in overlapped

\* A request deletes only chunks that no document lists.
DoomedUnreferenced ==
  \A r \in Requests : pc[r] \in Deleting =>
    \A c \in doomed[r] : Excused(c) \/ ~Referenced(c)

\* The chunks a copy is about to list are there.
CopySourceKept ==
  \A r \in Requests : pc[r] \in Writing /\ req[r].op = "copy" =>
    \A c \in snap[r].chunks : Excused(c) \/ c \in store

Readable == \A c \in Chunk : Referenced(c) => Excused(c) \/ c \in store

SafeInv ==
  /\ TypeInv
  /\ UnknownBeforeAnswer
  /\ UploadsKept
  /\ ActiveOverlap
  /\ DoomedUnreferenced
  /\ CopySourceKept
  /\ Readable

LEMMA SafeInvInit == Init => SafeInv
<1> SUFFICES ASSUME Init PROVE SafeInv
  OBVIOUS
<1>1. TypeInv
  BY TypeInvInit
<1>2. ~\E c \in Chunk : Referenced(c)
  BY DEF Init, Referenced, ChunksAt
<1>3. \A r \in Requests : Uploaded(r) = {} /\ ~Active(r)
  BY DEF Init, Uploaded, Active
<1> QED
  BY <1>1, <1>2, <1>3
     DEF Init, SafeInv, UnknownBeforeAnswer, UploadsKept, ActiveOverlap,
         DoomedUnreferenced, CopySourceKept, Readable, Deleting, Writing

LEMMA ExcusedPersists ==
  ASSUME TypeInv, [Next]_vars, NEW c \in Chunk, Excused(c)
  PROVE  Excused(c)'
<1>1. \A p \in Requests : Persists(p)
  BY PersistsStep
<1>2. Owner(c) \in Requests
  BY DEF Chunk, Owner
<1> QED
  BY <1>1, <1>2 DEF Excused, CopiedAmongOthers, Persists, TypeInv, TypeOK

\* A step of r keeps the invariant, by its effect.
LEMMA SafeInvByEffect ==
  ASSUME SafeInv, [Next]_vars, TypeInv', NEW r \in Requests, Effect(r)
  PROVE  SafeInv'
<1> USE DEF SafeInv
<1>1. \A p \in Requests : Persists(p)
  BY PersistsStep
<1>2. \A c \in Chunk : Owner(c) \in Requests /\ (Excused(c) => Excused(c)')
  BY ExcusedPersists DEF Chunk, Owner
<1>3. \A q \in Requests \ {r} : Uploaded(q)' = Uploaded(q)
  BY DEF Effect, LeavesOthers, Uploaded
<1>4. \A c \in Uploaded(r) : Owner(c) = r
  BY DEF Uploaded, Owner
<1>5. UnknownBeforeAnswer'
  <2> SUFFICES ASSUME NEW c \in Chunk, res'[Owner(c)] = "none"
               PROVE  /\ ~Referenced(c)'
                      /\ \A q \in Requests :
                           /\ c \notin work'[q] \cup doomed'[q]
                           /\ snap'[q] # None => c \notin snap'[q].chunks
    BY DEF UnknownBeforeAnswer
  <2>1. res[Owner(c)] = "none"
    BY <1>1, <1>2 DEF Persists
  <2>2. /\ ~Referenced(c)
        /\ \A q \in Requests : /\ c \notin work[q] \cup doomed[q]
                               /\ snap[q] # None => c \notin snap[q].chunks
    BY <2>1 DEF UnknownBeforeAnswer
  <2>3. ~Referenced(c)'
    BY <1>4, <2>2 DEF Effect, RefersTo
  <2>4. c \notin work'[r] \cup doomed'[r]
    BY <2>2 DEF Effect
  <2>5. snap'[r] # None => c \notin snap'[r].chunks
    BY <2>2 DEF Effect
  <2> QED
    BY <2>2, <2>3, <2>4, <2>5 DEF Effect, LeavesOthers
<1>6. \A c \in store : c \in store' \/ res[Owner(c)] # "none"
  BY DEF Effect, UnknownBeforeAnswer, TypeInv, TypeOK
<1>7. UploadsKept'
  <2> SUFFICES ASSUME NEW q \in Requests, res'[q] = "none"
               PROVE  Uploaded(q)' \subseteq store'
    BY DEF UploadsKept
  <2>1. Uploaded(q) \subseteq store
    BY <1>1 DEF UploadsKept, Persists
  <2>2. \A c \in Uploaded(q) : res[Owner(c)] = "none"
    BY <1>1 DEF Persists, Uploaded, Owner
  <2>3. Uploaded(q) \subseteq store'
    BY <1>6, <2>1, <2>2
  <2> QED
    BY <1>3, <2>3 DEF Effect
<1>8. ActiveOverlap'
  BY <1>1 DEF ActiveOverlap, Effect, LeavesOthers, Active, Persists
\* A copy that writes alone meets nobody who deletes.
<1>9. ASSUME NEW q \in Requests, q # r, pc[r] \in Deleting \cup Writing,
             pc[q] \in Deleting \cup Writing
      PROVE  {q, r} \subseteq overlapped
  BY <1>9 DEF ActiveOverlap, Active, Deleting, Writing
<1>10. ASSUME NEW c \in Chunk, RefersTo(r, c), req[r].op = "copy", r \in overlapped
       PROVE  Excused(c)
  <2>1. req[r] # None
    BY <1>10, ConstantsAssumption DEF RefersTo, Writing, TypeInv, TypeOK
  <2> QED
    BY <1>10, <2>1 DEF RefersTo, Excused, CopiedAmongOthers
<1>11. DoomedUnreferenced'
  <2> SUFFICES ASSUME NEW q \in Requests, pc'[q] \in Deleting,
                      NEW c \in doomed'[q], Referenced(c)'
               PROVE  Excused(c)'
    BY DEF DoomedUnreferenced
  <2>1. c \in Chunk
    BY DEF TypeInv, TypeOK
  <2>2. CASE q = r
    <3>1. pc[r] \in Deleting => ~RefersTo(r, c)
      BY DEF RefersTo, Deleting, Writing
    <3> QED
      BY <1>2, <2>1, <2>2, <3>1 DEF Effect, DoomedUnreferenced, Excused
  <2>3. CASE q # r
    <3>1. pc[q] \in Deleting /\ c \in doomed[q]
      BY <2>3 DEF Effect, LeavesOthers
    <3>2. CASE Referenced(c)
      BY <1>2, <2>1, <3>1, <3>2 DEF DoomedUnreferenced
    <3>3. CASE RefersTo(r, c)
      <4>1. {q, r} \subseteq overlapped
        BY <1>9, <2>3, <3>1, <3>3 DEF RefersTo
      <4>2. CASE req[r].op = "copy"
        BY <1>2, <1>10, <2>1, <3>3, <4>1, <4>2
      <4>3. CASE req[r].op # "copy"
        <5>1. c \in Uploaded(r) /\ pc[r] \in Writing
          BY <3>3, <4>3 DEF RefersTo
        <5>2. res[Owner(c)] = "none"
          BY <1>4, <5>1 DEF TypeInv, Flow, FlowOf, Writing, Uploading
        <5> QED
          BY <2>1, <3>1, <5>2 DEF UnknownBeforeAnswer
      <4> QED
        BY <4>2, <4>3
    <3> QED
      BY <2>1, <3>2, <3>3 DEF Effect
  <2> QED
    BY <2>2, <2>3
\* A chunk leaves the sources only from the hands of one who may delete it.
<1>12. ASSUME NEW c \in store, c \notin store', Referenced(c) PROVE Excused(c)
  BY <1>12 DEF Effect, DoomedUnreferenced
<1>13. CopySourceKept'
  <2> SUFFICES ASSUME NEW q \in Requests, pc'[q] \in Writing, req'[q].op = "copy",
                      NEW c \in snap'[q].chunks
               PROVE  Excused(c)' \/ c \in store'
    BY DEF CopySourceKept
  <2>0. snap'[q] \in Doc
    BY DEF TypeInv, TypeOK, Flow, FlowOf, Writing, Uploading
  <2>1. c \in Chunk
    BY <2>0 DEF Doc
  <2>2. CASE Referenced(c)
    BY <1>2, <1>12, <2>1, <2>2 DEF Readable
  <2>3. CASE ~Referenced(c)
    <3>1. /\ pc[q] \in Writing /\ snap'[q] = snap[q] /\ req[q].op = "copy"
      <4>1. CASE q # r
        BY <4>1 DEF Effect, LeavesOthers
      <4>2. CASE q = r
        <5>1. /\ snap'[q] = snap[q]
              /\ pc[q] \in Writing \cup {"upload"}
          BY <2>3, <4>2 DEF Effect
        <5>2. req'[q] = req[q]
          BY <1>1, <5>1, ConstantsAssumption
             DEF Persists, TypeInv, TypeOK, Writing
        <5>3. pc[q] # "upload"
          BY <5>2 DEF TypeInv, Flow, FlowOf
        <5> QED
          BY <5>1, <5>2, <5>3
      <4> QED
        BY <4>1, <4>2
    <3>2. Excused(c) \/ c \in store
      BY <3>1 DEF CopySourceKept
    <3>3. CASE q \in overlapped
      <4>1. req[q] # None /\ snap[q] # None
        BY <3>1, ConstantsAssumption
           DEF TypeInv, TypeOK, Flow, FlowOf, Writing, Uploading
      <4> QED
        BY <1>2, <2>1, <3>1, <3>3, <4>1 DEF Excused, CopiedAmongOthers
    <3>4. CASE q \notin overlapped
      <4>1. pc[r] \notin Deleting
        BY <1>9, <3>1, <3>4 DEF Deleting, Writing
      <4> QED
        BY <1>2, <2>1, <3>2, <4>1 DEF Effect
    <3> QED
      BY <3>3, <3>4
  <2> QED
    BY <2>2, <2>3
<1>14. Readable'
  <2> SUFFICES ASSUME NEW c \in Chunk, Referenced(c)'
               PROVE  Excused(c)' \/ c \in store'
    BY DEF Readable
  <2>1. CASE Referenced(c)
    BY <1>2, <1>12, <2>1 DEF Readable
  <2>2. CASE RefersTo(r, c)
    <3>1. pc[r] \notin Deleting
      BY <2>2 DEF RefersTo, Writing, Deleting
    <3>2. Excused(c) \/ c \in store
      <4>1. CASE req[r].op = "copy"
        BY <2>2, <4>1 DEF RefersTo, CopySourceKept
      <4>2. CASE req[r].op # "copy"
        BY <2>2, <4>2 DEF RefersTo, UploadsKept, TypeInv, Flow, FlowOf,
                          Writing, Uploading
      <4> QED
        BY <4>1, <4>2
    <3> QED
      BY <1>2, <3>1, <3>2 DEF Effect
  <2> QED
    BY <2>1, <2>2 DEF Effect
<1> QED
  BY <1>5, <1>7, <1>8, <1>11, <1>13, <1>14

LEMMA SafeInvStep == SafeInv /\ [Next]_vars => SafeInv'
<1> SUFFICES ASSUME SafeInv, [Next]_vars PROVE SafeInv'
  OBVIOUS
<1>1. TypeInv /\ TypeInv'
  BY TypeInvStep DEF SafeInv
<1>2. CASE \E r \in Requests : Step(r)
  <2> PICK r \in Requests : Step(r)
    BY <1>2
  <2>1. Effect(r)
    BY <1>1, EffectStep
  <2> QED
    BY <1>1, <2>1, SafeInvByEffect
<1>3. CASE UNCHANGED vars
  BY <1>1, <1>3
     DEF vars, SafeInv, UnknownBeforeAnswer, UploadsKept, ActiveOverlap,
         DoomedUnreferenced, CopySourceKept, Readable, Excused, Referenced,
         ChunksAt, Uploaded, Active, CopiedAmongOthers
<1> QED
  BY <1>2, <1>3 DEF Next, AllServed

\* An object a client was told is stored stays readable under every
\* interleaving and every fault, unless a copy that ran beside another request
\* shares its chunks.
THEOREM StoredObjectsStayReadable == Spec => []StoredObjectsReadable
<1>1. Spec => []SafeInv
  BY SafeInvInit, SafeInvStep, PTL DEF Spec
<1>2. SafeInv => StoredObjectsReadable
  BY DEF SafeInv, Readable, StoredObjectsReadable, Dangling, Excused
<1> QED
  BY <1>1, <1>2, PTL

\* A download that breaks off was reading a document that is no longer current,
\* or has one of the two excuses.
THEOREM OnlyOvertakenReadsBreak == Spec => BrokenReadsAreOvertaken
<1> DEFINE Fair == \A r \in Requests :
                     res'[r] = "broken" /\ res[r] # "broken" =>
                       \/ files[req[r].key] # snap[r]
                       \/ \E c \in snap[r].chunks : Excused(c)
<1>1. Spec => []SafeInv
  BY SafeInvInit, SafeInvStep, PTL DEF Spec
<1>2. SafeInv /\ [Next]_vars => [Fair]_vars
  <2> SUFFICES ASSUME SafeInv, Next, NEW r \in Requests,
                      res'[r] = "broken", res[r] # "broken",
                      files[req[r].key] = snap[r]
               PROVE  \E c \in snap[r].chunks : Excused(c)
    OBVIOUS
  <2>1. StreamChunk(r) /\ res' # res
    <3>1. PICK p \in Requests : Step(p)
      BY DEF Next, AllServed, vars
    <3>2. p = r
      BY <3>1, EffectStep DEF SafeInv, Effect, LeavesOthers
    <3> USE <3>2 DEF SafeInv, TypeInv, TypeOK, Goto, Answer, Finish
    <3>3. ~(PutStep(p) \/ Start(p) \/ Crash(p) \/ DeleteStep(p))
      BY DEF PutStep, UploadChunk, EndOfBody, UploadFails, CleanupUploaded,
             Start, Crash, DeleteStep, DeleteDocument, DeleteFails
    <3>4. ~ReplaceStep(p)
      BY DEF ReplaceStep, Replace, Update, ReplaceError, Insert, Retry,
             ReplaceFails
    <3>5. ~ReclaimStep(p)
      BY DEF ReclaimStep, DeleteChunk, StopCleanup, CountReferences, CountFails
    <3>6. ~(Lookup(p) \/ LookupFails(p) \/ StreamFails(p))
      BY DEF Lookup, LookupFails, StreamFails
    <3> QED
      BY <3>1, <3>3, <3>4, <3>5, <3>6 DEF Step, ReadStep
  <2>2. PICK c \in work[r] : c \notin store
    BY <2>1 DEF StreamChunk, Finish, Answer, SafeInv, TypeInv, TypeOK
  <2>3. c \in snap[r].chunks /\ snap[r] # None /\ c \in Chunk
    BY <2>1, <2>2 DEF StreamChunk, SafeInv, TypeInv, TypeOK, Flow, FlowOf
  <2>4. req[r].key \in Keys
    BY <2>1 DEF StreamChunk, SafeInv, TypeInv, TypeOK, Request
  <2>5. Referenced(c)
    BY <2>3, <2>4 DEF Referenced, ChunksAt
  <2> QED
    BY <2>2, <2>3, <2>5 DEF SafeInv, Readable
<1> QED
  BY <1>1, <1>2, PTL DEF Spec, BrokenReadsAreOvertaken
-----------------------------------------------------------------------------
(***************************************************************************)
(* Without copies and lost replies there is no excuse.                     *)
(***************************************************************************)

\* A put that is answered with an error has left no document behind.
RolledBack == \A c \in Chunk : res[Owner(c)] = "err" => ~Referenced(c)

OnlyOps == \A r \in Requests : req[r] # None => req[r].op \in Ops

LEMMA OnlyOpsStep == TypeOK /\ OnlyOps /\ [Next]_vars => OnlyOps'
<1> SUFFICES ASSUME TypeOK, OnlyOps, [Next]_vars PROVE OnlyOps'
  OBVIOUS
<1>1. ASSUME NEW r \in Requests, Start(r) PROVE OnlyOps'
  BY <1>1 DEF Start, OnlyOps, TypeOK
<1>2. CASE UNCHANGED req
  BY <1>2 DEF OnlyOps
<1> QED
  BY <1>1, <1>2
     DEF Next, AllServed, vars, Step, PutStep, UploadChunk, EndOfBody,
         UploadFails, CleanupUploaded, ReplaceStep, Replace, Update,
         ReplaceError, Insert, Retry, ReplaceFails, ReclaimStep, DeleteChunk,
         CountReferences, CountFails, DeleteStep, DeleteDocument, DeleteFails,
         ReadStep, Lookup, LookupFails, StreamChunk, StreamFails, Crash

\* A decided answer other than the warning about a cleanup is final.
LEMMA AnswerStays ==
  ASSUME TypeInv, NEW r \in Requests, Step(r), NEW p \in Requests,
         res[p] \notin {"none", "err"}
  PROVE  res'[p] # "err"
<1> USE DEF TypeInv, TypeOK, Flow, FlowOf, Uploading, Goto, Answer, Finish
<1>1. CASE p # r
  BY <1>1, EffectStep DEF Effect, LeavesOthers
<1>2. CASE p = r
  BY <1>2
     DEF Step, Start, PutStep, UploadChunk, EndOfBody, UploadFails,
         CleanupUploaded, ReplaceStep, Replace, Update, ReplaceError, Insert,
         Retry, ReplaceFails, ReclaimStep, DeleteChunk, StopCleanup,
         CountReferences, CountFails, DeleteStep, DeleteDocument, DeleteFails,
         ReadStep, Lookup, LookupFails, StreamChunk, StreamFails, Crash
<1> QED
  BY <1>1, <1>2

LEMMA ErrorWritesNothing ==
  ASSUME TypeInv, NEW r \in Requests, Step(r), pc[r] \in Writing,
         res'[r] = "err", "reply" \notin Faults
  PROVE  files' = files
<1> USE DEF TypeInv, TypeOK, Flow, FlowOf, Writing, Uploading, Goto, Answer, Finish
<1>1. CASE ReplaceStep(r)
  BY <1>1 DEF ReplaceStep, Replace, Update, ReplaceError, Insert, Retry, ReplaceFails
<1>2. CASE ~ReplaceStep(r)
  BY <1>2
     DEF Step, Start, PutStep, UploadChunk, EndOfBody, UploadFails,
         CleanupUploaded, ReclaimStep, DeleteChunk, CountReferences, CountFails,
         DeleteStep, DeleteDocument, DeleteFails, ReadStep, Lookup, LookupFails,
         StreamChunk, StreamFails, Crash
<1> QED
  BY <1>1, <1>2

LEMMA RolledBackStep ==
  ASSUME "copy" \notin Ops, "reply" \notin Faults,
         SafeInv, OnlyOps, RolledBack, [Next]_vars
  PROVE  RolledBack'
<1>1. CASE UNCHANGED vars
  BY <1>1 DEF vars, RolledBack, Referenced, ChunksAt
<1>2. ASSUME NEW r \in Requests, Step(r) PROVE RolledBack'
  <2> SUFFICES ASSUME NEW c \in Chunk, res'[Owner(c)] = "err", Referenced(c)'
               PROVE  FALSE
    BY DEF RolledBack
  <2>1. TypeInv /\ Effect(r) /\ Owner(c) \in Requests
    BY <1>2, EffectStep DEF SafeInv, Chunk, Owner
  <2>2. CASE Referenced(c)
    <3>1. res[Owner(c)] \notin {"none", "err"}
      BY <2>2 DEF SafeInv, UnknownBeforeAnswer, RolledBack
    <3> QED
      BY <1>2, <2>1, <3>1, AnswerStays
  <2>3. CASE RefersTo(r, c)
    <3>1. req[r].op = "put" /\ c \in Uploaded(r) /\ pc[r] \in Writing
      BY <2>1, <2>3, ConstantsAssumption
         DEF RefersTo, OnlyOps, TypeInv, TypeOK, Writing
    <3>2. Owner(c) = r /\ res[r] = "none"
      BY <2>1, <3>1 DEF Uploaded, Owner, TypeInv, Flow, FlowOf, Writing, Uploading
    <3>3. files' = files
      BY <1>2, <2>1, <3>1, <3>2, ErrorWritesNothing
    <3> QED
      BY <3>2, <3>3 DEF SafeInv, UnknownBeforeAnswer, Referenced, ChunksAt
  <2> QED
    BY <2>1, <2>2, <2>3 DEF Effect
<1> QED
  BY <1>1, <1>2 DEF Next, AllServed

\* Where nothing is copied and no reply is lost, every chunk that a document
\* lists is at its source, whatever else fails or crashes.
THEOREM NothingDanglesWithoutCopies ==
  ASSUME "copy" \notin Ops, "reply" \notin Faults
  PROVE  Spec => []NoDangling
<1> DEFINE I == SafeInv /\ OnlyOps /\ RolledBack
<1>1. Init => I
  BY SafeInvInit DEF Init, OnlyOps, RolledBack, Referenced, ChunksAt
<1>2. I /\ [Next]_vars => I'
  BY SafeInvStep, OnlyOpsStep, RolledBackStep DEF SafeInv, TypeInv
<1>3. I => NoDangling
  <2> SUFFICES ASSUME I, NEW c \in Chunk, Dangling(c) PROVE FALSE
    BY DEF NoDangling
  <2>1. ~CopiedAmongOthers(c)
    BY DEF OnlyOps, CopiedAmongOthers, SafeInv, TypeInv, TypeOK
  <2> QED
    BY <2>1 DEF SafeInv, Readable, Dangling, RolledBack, Excused
<1> QED
  BY <1>1, <1>2, <1>3, PTL DEF Spec
-----------------------------------------------------------------------------
(***************************************************************************)
(* Who still accounts for a chunk at a source.                             *)
(***************************************************************************)
\* A request that died, failed or logged an error tells of the chunks it left;
\* so does a delete that removed a version it had not read.
Told(c) ==
  \E r \in Requests : \/ pc[r] = "crashed" \/ res[r] \in {"err", "warn"}
                      \/ req[r] # None /\ OvertakenDelete(r, c)

\* Request r will list chunk c, delete it, or has it to check.
HeldBy(r, c) ==
  \/ pc[r] \in Uploading /\ req[r].op = "put" /\ c \in Uploaded(r)
  \/ pc[r] \in {"count", "purge"} /\ c \in work[r]
  \/ pc[r] \in Deleting /\ c \in doomed[r]

Accounted(c) == \/ c \notin store \/ Referenced(c) \/ Told(c)
                \/ \E r \in Requests : HeldBy(r, c)

\* What a cleanup has answered, and what a delete that ran alone finds.
LeakFlowOf(r) ==
  /\ pc[r] \in {"purge", "count"} => res[r] \in {"ok", "err"}
  /\ pc[r] = "cleanup" => res[r] = "err"
  /\ pc[r] = "delete" /\ r \notin overlapped => files[req[r].key] = snap[r]

LeakInv == /\ SafeInv
           /\ \A r \in Requests : LeakFlowOf(r)
           /\ \A c \in Chunk : Accounted(c)

LEMMA LeakInvInit == Init => LeakInv
<1> SUFFICES ASSUME Init PROVE LeakInv
  OBVIOUS
<1>1. SafeInv
  BY SafeInvInit
<1> QED
  BY <1>1 DEF Init, LeakInv, LeakFlowOf, Accounted

\* An answer, once given, gets at most a warning; what a cleanup has answered.
AnswersOf(r) ==
  /\ res[r] = "warn" => res'[r] = "warn"
  /\ res[r] = "ok" => res'[r] \in Succeeded
  /\ pc[r] = "crashed" => pc'[r] = "crashed"
  /\ pc'[r] \in {"purge", "count"} => res'[r] \in {"ok", "err"}
  /\ pc'[r] = "cleanup" => res'[r] = "err"
  /\ pc'[r] = "delete" => files'[req'[r].key] = snap'[r]
  /\ res[r] \in Succeeded => snap'[r] = snap[r]
  /\ Active(r) \/ Active(r)'

LEMMA AnswersStep ==
  ASSUME TypeInv, NEW r \in Requests, LeakFlowOf(r), Step(r)
  PROVE  AnswersOf(r)
<1> USE DEF TypeInv, TypeOK, Flow, FlowOf, Uploading, LeakFlowOf, AnswersOf,
            Succeeded, Active, Goto, Answer, Finish
<1>1. CASE Start(r)
  BY <1>1 DEF Start
<1>2. CASE UploadChunk(r) /\ UNCHANGED overlapped
  BY <1>2 DEF UploadChunk
<1>3. CASE EndOfBody(r) /\ UNCHANGED overlapped
  BY <1>3 DEF EndOfBody
<1>4. CASE UploadFails(r) /\ UNCHANGED overlapped
  BY <1>4 DEF UploadFails
<1>5. CASE CleanupUploaded(r) /\ UNCHANGED overlapped
  BY <1>5 DEF CleanupUploaded
<1>6. CASE Lookup(r) /\ UNCHANGED overlapped
  BY <1>6 DEF Lookup, Request
<1>7. CASE LookupFails(r) /\ UNCHANGED overlapped
  BY <1>7 DEF LookupFails
<1>8. CASE Replace(r) /\ UNCHANGED overlapped
  BY <1>8 DEF Replace, Update, ReplaceError
<1>9. CASE Insert(r) /\ UNCHANGED overlapped
  BY <1>9 DEF Insert, ReplaceError, NewDoc
<1>10. CASE Retry(r) /\ UNCHANGED overlapped
  BY <1>10 DEF Retry, Update, ReplaceError
<1>11. CASE ReplaceFails(r) /\ UNCHANGED overlapped
  BY <1>11 DEF ReplaceFails, ReplaceError
<1>12. CASE DeleteChunk(r) /\ UNCHANGED overlapped
  BY <1>12 DEF DeleteChunk, StopCleanup
<1>13. CASE CountReferences(r) /\ UNCHANGED overlapped
  BY <1>13 DEF CountReferences
<1>14. CASE CountFails(r) /\ UNCHANGED overlapped
  BY <1>14 DEF CountFails, StopCleanup
<1>15. CASE DeleteDocument(r) /\ UNCHANGED overlapped
  BY <1>15 DEF DeleteDocument
<1>16. CASE DeleteFails(r) /\ UNCHANGED overlapped
  BY <1>16 DEF DeleteFails
<1>17. CASE StreamChunk(r) /\ UNCHANGED overlapped
  BY <1>17 DEF StreamChunk
<1>18. CASE StreamFails(r) /\ UNCHANGED overlapped
  BY <1>18 DEF StreamFails
<1>19. CASE Crash(r) /\ UNCHANGED overlapped
  BY <1>19 DEF Crash, Active
<1> QED
  BY <1>1, <1>2, <1>3, <1>4, <1>5, <1>6, <1>7, <1>8, <1>9, <1>10, <1>11,
     <1>12, <1>13, <1>14, <1>15, <1>16, <1>17, <1>18, <1>19
     DEF Step, PutStep, ReplaceStep, ReclaimStep, DeleteStep, ReadStep

\* What one step of r does to what accounts for chunk c.
LeakEffect(r, c) ==
  /\ c \in store' \ store => HeldBy(r, c)' \/ res'[r] = "err"
  /\ Referenced(c) =>
       \/ Referenced(c)' \/ HeldBy(r, c)' \/ res'[r] = "err"
       \/ req'[r] # None /\ OvertakenDelete(r, c)'
  /\ HeldBy(r, c) =>
       \/ HeldBy(r, c)' \/ Referenced(c)' \/ c \notin store'
       \/ pc'[r] = "crashed" \/ res'[r] \in {"err", "warn"}

\* A document that is replaced hands its chunks to the one who replaced it.
LEMMA UpdateLeakEffect ==
  ASSUME TypeInv, NEW r \in Requests, pc[r] \in {"replace", "retry"},
         Update(r), NEW c \in Chunk
  PROVE  LeakEffect(r, c)
<1> USE DEF TypeInv, TypeOK, Flow, FlowOf, Uploading, Deleting
<1> DEFINE k == req[r].key
           previous == files[k]
           new == NewDoc(r, previous.id)
<1>1. /\ k \in Keys /\ previous # None /\ store' = store
      /\ files' = [files EXCEPT ![k] = new]
  BY DEF Request, Update, ReplaceError
<1>2. new \in Doc
  BY <1>1, NewDocInDoc DEF Doc
<1>3. CASE ReplaceError(r)
  BY <1>1, <1>3 DEF LeakEffect, ReplaceError, Answer
<1>4. CASE ~ReplaceError(r)
  <2>1. /\ work' = [work EXCEPT ![r] = previous.chunks]
        /\ Goto(r, "count")
    BY <1>4 DEF Update
  <2>2. c \in previous.chunks => HeldBy(r, c)'
    BY <2>1 DEF HeldBy, Goto
  <2>3. Referenced(c) => Referenced(c)' \/ c \in previous.chunks
    BY <1>1 DEF Referenced, ChunksAt
  <2>4. c \in new.chunks => Referenced(c)'
    BY <1>1, <1>2, ConstantsAssumption DEF Referenced, ChunksAt
  <2>5. HeldBy(r, c) => c \in new.chunks
    BY DEF HeldBy, NewDoc
  <2> QED
    BY <1>1, <2>2, <2>3, <2>4, <2>5 DEF LeakEffect
<1> QED
  BY <1>3, <1>4

LEMMA LeakEffectStep ==
  ASSUME TypeInv, NEW r \in Requests, LeakFlowOf(r), Step(r), NEW c \in Chunk
  PROVE  LeakEffect(r, c)
<1> USE DEF TypeInv, TypeOK, Flow, FlowOf, Uploading, LeakFlowOf, Deleting,
            LeakEffect, HeldBy, Uploaded, Goto, Answer, Finish, Referenced,
            ChunksAt
<1>1. CASE Start(r)
  BY <1>1 DEF Start
<1>2. CASE UploadChunk(r) /\ UNCHANGED overlapped
  <2>1. /\ files' = files /\ pc' = pc /\ req' = req /\ snap' = snap
        /\ work' = work /\ doomed' = doomed /\ res' = res
        /\ sent' = [sent EXCEPT ![r] = sent[r] + 1] /\ pc[r] = "upload"
    BY <1>2 DEF UploadChunk
  <2>2. c \in store' \ store => c = <<r, sent[r] + 1>>
    BY <1>2, StrayIsNoChunk DEF UploadChunk
  <2> QED
    BY <2>1, <2>2
<1>3. CASE EndOfBody(r) /\ UNCHANGED overlapped
  BY <1>3 DEF EndOfBody
<1>4. CASE UploadFails(r) /\ UNCHANGED overlapped
  BY <1>4 DEF UploadFails
<1>5. CASE CleanupUploaded(r) /\ UNCHANGED overlapped
  BY <1>5 DEF CleanupUploaded
<1>6. CASE Lookup(r) /\ UNCHANGED overlapped
  BY <1>6 DEF Lookup
<1>7. CASE LookupFails(r) /\ UNCHANGED overlapped
  BY <1>7 DEF LookupFails
<1>8. CASE Replace(r) /\ UNCHANGED overlapped
  BY <1>8, UpdateLeakEffect DEF Replace
<1>9. CASE Insert(r) /\ UNCHANGED overlapped
  <2> DEFINE k == req[r].key
             new == NewDoc(r, r)
  <2>1. k \in Keys /\ new \in Doc
    BY <1>9, NewDocInDoc DEF Insert, Request
  <2>2. CASE files[k] # None
    <3>1. pc'[r] = "retry" /\ UNCHANGED <<files, store, req, sent>>
      BY <1>9, <2>2 DEF Insert
    <3> QED
      BY <1>9, <3>1 DEF Insert
  <2>3. CASE files[k] = None
    <3>1. files' = [files EXCEPT ![k] = new] /\ store' = store
      BY <1>9, <2>3 DEF Insert, ReplaceError
    <3>2. Referenced(c) => Referenced(c)'
      BY <2>1, <2>3, <3>1
    <3>3. c \in new.chunks => Referenced(c)'
      BY <2>1, <3>1, ConstantsAssumption
    <3>4. HeldBy(r, c) => c \in new.chunks
      BY <1>9 DEF Insert, NewDoc
    <3> QED
      BY <3>1, <3>2, <3>3, <3>4
  <2> QED
    BY <2>2, <2>3
<1>10. CASE Retry(r) /\ UNCHANGED overlapped
  BY <1>10, UpdateLeakEffect DEF Retry, ReplaceError
<1>11. CASE ReplaceFails(r) /\ UNCHANGED overlapped
  BY <1>11 DEF ReplaceFails, ReplaceError
<1>12. CASE DeleteChunk(r) /\ UNCHANGED overlapped
  BY <1>12 DEF DeleteChunk, StopCleanup
<1>13. CASE CountReferences(r) /\ UNCHANGED overlapped
  BY <1>13 DEF CountReferences
<1>14. CASE CountFails(r) /\ UNCHANGED overlapped
  BY <1>14 DEF CountFails, StopCleanup
<1>15. CASE DeleteDocument(r) /\ UNCHANGED overlapped
  <2> DEFINE k == req[r].key
  <2>1. k \in Keys /\ store' = store /\ req' = req /\ snap' = snap
    BY <1>15 DEF DeleteDocument, Request
  <2>2. ~HeldBy(r, c) /\ req[r].op = "delete" /\ req[r] # None
    BY <1>15, ConstantsAssumption DEF DeleteDocument
  <2>3. CASE ~(files[k] # None /\ files[k].id = snap[r].id)
    <3>1. files' = files
      BY <1>15, <2>3 DEF DeleteDocument
    <3> QED
      BY <2>1, <2>2, <3>1
  <2>4. CASE files[k] # None /\ files[k].id = snap[r].id
    <3>1. files' = [files EXCEPT ![k] = None]
      BY <1>15, <2>4 DEF DeleteDocument
    <3>2. Referenced(c) => Referenced(c)' \/ c \in files[k].chunks
      BY <2>1, <2>4, <3>1
    <3>3. CASE res'[r] = "err"
      BY <2>1, <2>2, <3>3
    <3>4. CASE res'[r] # "err"
      <4>1. /\ res'[r] = "ok" /\ pc'[r] = "count"
            /\ work'[r] = snap[r].chunks
        BY <1>15, <2>4, <3>4 DEF DeleteDocument
      <4>2. c \in snap[r].chunks => HeldBy(r, c)'
        BY <4>1
      <4>3. c \in files[k].chunks /\ c \notin snap[r].chunks
              => r \in overlapped'
        BY <1>15 DEF DeleteDocument
      <4>4. c \in files[k].chunks /\ c \notin snap[r].chunks
              => OvertakenDelete(r, c)'
        BY <2>1, <2>2, <4>1, <4>3 DEF OvertakenDelete, Succeeded
      <4> QED
        BY <2>1, <2>2, <3>2, <4>2, <4>4
    <3> QED
      BY <3>3, <3>4
  <2> QED
    BY <2>3, <2>4
<1>16. CASE DeleteFails(r) /\ UNCHANGED overlapped
  BY <1>16 DEF DeleteFails
<1>17. CASE StreamChunk(r) /\ UNCHANGED overlapped
  BY <1>17 DEF StreamChunk
<1>18. CASE StreamFails(r) /\ UNCHANGED overlapped
  BY <1>18 DEF StreamFails
<1>19. CASE Crash(r) /\ UNCHANGED overlapped
  BY <1>19 DEF Crash
<1> QED
  BY <1>1, <1>2, <1>3, <1>4, <1>5, <1>6, <1>7, <1>8, <1>9, <1>10, <1>11,
     <1>12, <1>13, <1>14, <1>15, <1>16, <1>17, <1>18, <1>19
     DEF Step, PutStep, ReplaceStep, ReclaimStep, DeleteStep, ReadStep

LEMMA ToldLasts ==
  ASSUME LeakInv, [Next]_vars, NEW c \in Chunk, Told(c)
  PROVE  Told(c)'
<1> USE DEF LeakInv, SafeInv
<1> PICK p \in Requests : \/ pc[p] = "crashed" \/ res[p] \in {"err", "warn"}
                          \/ req[p] # None /\ OvertakenDelete(p, c)
  BY DEF Told
<1>1. Persists(p)
  BY PersistsStep
<1>2. CASE UNCHANGED vars
  BY <1>2 DEF vars, Told, OvertakenDelete
<1>3. ASSUME NEW r \in Requests, Step(r)
      PROVE  /\ pc[p] = "crashed" => pc'[p] = "crashed"
             /\ res[p] = "warn" => res'[p] = "warn"
             /\ res[p] \in Succeeded =>
                  res'[p] \in Succeeded /\ snap'[p] = snap[p]
  <2>1. CASE p = r
    BY <1>3, <2>1, AnswersStep DEF AnswersOf, Succeeded
  <2>2. CASE p # r
    BY <1>3, <2>2, EffectStep DEF Effect, LeavesOthers
  <2> QED
    BY <2>1, <2>2
<1>4. ASSUME NEW r \in Requests, Step(r) PROVE Told(c)'
  <2>1. CASE pc[p] = "crashed" \/ res[p] \in {"err", "warn"}
    BY <1>1, <1>3, <1>4, <2>1 DEF Told, Persists
  <2>2. CASE req[p] # None /\ OvertakenDelete(p, c)
    <3>1. snap'[p] = snap[p]
      BY <1>3, <1>4, <2>2 DEF OvertakenDelete
    <3> QED
      BY <1>1, <1>3, <1>4, <2>2, <3>1 DEF Told, OvertakenDelete, Persists
  <2> QED
    BY <2>1, <2>2
<1> QED
  BY <1>2, <1>4 DEF Next, AllServed

LEMMA AccountedStep ==
  ASSUME LeakInv, [Next]_vars, NEW c \in Chunk
  PROVE  Accounted(c)'
<1> USE DEF LeakInv, SafeInv
<1>1. CASE UNCHANGED vars
  BY <1>1 DEF vars, Accounted, Referenced, ChunksAt, Told, OvertakenDelete,
              HeldBy, Uploaded
<1>2. ASSUME NEW r \in Requests, Step(r) PROVE Accounted(c)'
  <2>1. LeakEffect(r, c) /\ Effect(r)
    BY <1>2, LeakEffectStep, EffectStep
  <2>2. CASE c \in store' \ store
    BY <2>1, <2>2 DEF LeakEffect, Accounted, Told
  <2>3. CASE Referenced(c)
    BY <2>1, <2>3 DEF LeakEffect, Accounted, Told
  <2>4. CASE Told(c)
    BY <2>4, ToldLasts DEF Accounted
  <2>5. ASSUME NEW q \in Requests, HeldBy(q, c) PROVE Accounted(c)'
    <3>1. CASE q = r
      BY <2>1, <2>5, <3>1 DEF LeakEffect, Accounted, Told
    <3>2. CASE q # r
      <4>1. HeldBy(q, c)'
        BY <2>1, <2>5, <3>2 DEF Effect, LeavesOthers, HeldBy, Uploaded
      <4> QED
        BY <4>1 DEF Accounted
    <3> QED
      BY <3>1, <3>2
  <2> QED
    BY <2>2, <2>3, <2>4, <2>5 DEF Accounted
<1> QED
  BY <1>1, <1>2 DEF Next, AllServed

LEMMA LeakFlowStep ==
  ASSUME LeakInv, [Next]_vars, NEW q \in Requests
  PROVE  LeakFlowOf(q)'
<1> USE DEF LeakInv, SafeInv
<1>1. CASE UNCHANGED vars
  BY <1>1 DEF vars, LeakFlowOf
<1>2. ASSUME NEW r \in Requests, Step(r) PROVE LeakFlowOf(q)'
  <2>1. CASE q = r
    <3>1. AnswersOf(q) 
      BY <1>2, <2>1, AnswersStep
    <3> QED
      BY <3>1 DEF AnswersOf, LeakFlowOf
  <2>2. CASE q # r
    <3>1. /\ pc'[q] = pc[q] /\ res'[q] = res[q]
          /\ snap'[q] = snap[q] /\ req'[q] = req[q]
      BY <1>2, <2>2, EffectStep DEF Effect, LeavesOthers
    <3>2. CASE pc[q] = "delete" /\ q \notin overlapped'
      <4>1. Active(r) => q \in overlapped
        BY <2>2, <3>2 DEF ActiveOverlap, Active
      <4>2. ~Active(r) => Active(r)'
        BY <1>2, AnswersStep DEF AnswersOf
      <4>3. ~Active(r) /\ Active(r)' => q \in overlapped'
        BY <1>2, <2>2, <3>2, EffectStep DEF Effect, LeavesOthers, Active
      <4>4. q \in overlapped => q \in overlapped'
        BY PersistsStep DEF Persists
      <4> QED
        BY <3>2, <4>1, <4>2, <4>3, <4>4
    <3> QED
      BY <3>1, <3>2 DEF LeakFlowOf
  <2> QED
    BY <2>1, <2>2
<1> QED
  BY <1>1, <1>2 DEF Next, AllServed

LEMMA LeakInvStep == LeakInv /\ [Next]_vars => LeakInv'
BY SafeInvStep, LeakFlowStep, AccountedStep DEF LeakInv

\* Once every request was served, a chunk that no document lists is there only
\* because some request died, failed or logged a cleanup error, or a delete
\* removed a version of its document that it had not read; or it is the copy of
\* a timed-out attempt at an upload that went on.
THEOREM NoLeakIsSilent == Spec => []NoSilentLeak
<1>1. LeakInv => NoSilentLeak
  <2> SUFFICES ASSUME LeakInv, Quiescent, NEW c \in store
               PROVE  \/ Referenced(c)
                      \/ \E r \in Requests :
                           pc[r] = "crashed" \/ res[r] \in {"err", "warn"}
                      \/ \E d \in Requests : OvertakenDelete(d, c)
                      \/ c = Stray
    BY DEF NoSilentLeak
  <2> SUFFICES ASSUME c # Stray
               PROVE  \/ Referenced(c)
                      \/ \E r \in Requests :
                           pc[r] = "crashed" \/ res[r] \in {"err", "warn"}
                      \/ \E d \in Requests : OvertakenDelete(d, c)
    OBVIOUS
  <2>1. c \in Chunk
    BY DEF LeakInv, SafeInv, TypeInv, TypeOK
  <2>2. ASSUME NEW r \in Requests PROVE ~HeldBy(r, c)
    BY <2>2 DEF Quiescent, HeldBy, Uploading, Deleting
  <2> QED
    BY <2>1, <2>2 DEF LeakInv, Accounted, Told
<1> QED
  BY LeakInvInit, LeakInvStep, <1>1, PTL DEF Spec
-----------------------------------------------------------------------------
(***************************************************************************)
(* The refinement of ObjectStoreSpec.                                      *)
(***************************************************************************)

\* A document that is in the collection or was read from it.
Known(d) == \/ \E k \in Keys : files[k] = d
            \/ \E r \in Requests : snap[r] = d

\* Without copies a body belongs to one document, written by the put it is
\* named after, which has answered since.
Bodies ==
  \A d \in Doc : Known(d) =>
    /\ res[d.body] # "none"
    /\ \A e \in Doc : Known(e) /\ e.body = d.body => e = d

KeepInv == SafeInv /\ OnlyOps /\ RolledBack /\ Bodies

\* What one step of r does to the documents: it writes its own, deletes one,
\* reads one, or leaves them alone.
Writes(r) ==
  /\ pc[r] \in Writing /\ res'[r] = "ok" /\ snap' = snap
  /\ LET k == req[r].key
     IN  files' = [files EXCEPT ![k] =
                     NewDoc(r, IF files[k] = None THEN r ELSE files[k].id)]

DocumentsOf(r) ==
  \/ Writes(r)
  \/ \E k \in Keys : files' = [files EXCEPT ![k] = None] /\ snap' = snap
  \/ \E k \in Keys : files[k] # None /\ files' = files
                     /\ snap' = [snap EXCEPT ![r] = files[k]]
  \/ files' = files /\ snap' = snap

LEMMA DocumentsStep ==
  ASSUME TypeInv, NEW r \in Requests, Step(r), "reply" \notin Faults
  PROVE  DocumentsOf(r)
<1> USE DEF TypeInv, TypeOK, Flow, FlowOf, Uploading, Writing, DocumentsOf,
            Writes, Goto, Answer, Finish
<1>1. CASE Start(r)
  BY <1>1 DEF Start
<1>2. CASE UploadChunk(r) /\ UNCHANGED overlapped
  BY <1>2 DEF UploadChunk
<1>3. CASE EndOfBody(r) /\ UNCHANGED overlapped
  BY <1>3 DEF EndOfBody
<1>4. CASE UploadFails(r) /\ UNCHANGED overlapped
  BY <1>4 DEF UploadFails
<1>5. CASE CleanupUploaded(r) /\ UNCHANGED overlapped
  BY <1>5 DEF CleanupUploaded
<1>6. CASE Lookup(r) /\ UNCHANGED overlapped
  BY <1>6 DEF Lookup, Request
<1>7. CASE LookupFails(r) /\ UNCHANGED overlapped
  BY <1>7 DEF LookupFails
<1>8. CASE Replace(r) /\ UNCHANGED overlapped
  BY <1>8 DEF Replace, Update, ReplaceError
<1>9. CASE Insert(r) /\ UNCHANGED overlapped
  BY <1>9 DEF Insert, ReplaceError, NewDoc
<1>10. CASE Retry(r) /\ UNCHANGED overlapped
  BY <1>10 DEF Retry, Update, ReplaceError
<1>11. CASE ReplaceFails(r) /\ UNCHANGED overlapped
  BY <1>11 DEF ReplaceFails, ReplaceError
<1>12. CASE DeleteChunk(r) /\ UNCHANGED overlapped
  BY <1>12 DEF DeleteChunk, StopCleanup
<1>13. CASE CountReferences(r) /\ UNCHANGED overlapped
  BY <1>13 DEF CountReferences
<1>14. CASE CountFails(r) /\ UNCHANGED overlapped
  BY <1>14 DEF CountFails, StopCleanup
<1>15. CASE DeleteDocument(r) /\ UNCHANGED overlapped
  BY <1>15 DEF DeleteDocument, Request
<1>16. CASE DeleteFails(r) /\ UNCHANGED overlapped
  BY <1>16 DEF DeleteFails
<1>17. CASE StreamChunk(r) /\ UNCHANGED overlapped
  BY <1>17 DEF StreamChunk
<1>18. CASE StreamFails(r) /\ UNCHANGED overlapped
  BY <1>18 DEF StreamFails
<1>19. CASE Crash(r) /\ UNCHANGED overlapped
  BY <1>19 DEF Crash, Active
<1> QED
  BY <1>1, <1>2, <1>3, <1>4, <1>5, <1>6, <1>7, <1>8, <1>9, <1>10, <1>11,
     <1>12, <1>13, <1>14, <1>15, <1>16, <1>17, <1>18, <1>19
     DEF Step, PutStep, ReplaceStep, ReclaimStep, DeleteStep, ReadStep

\* Without copies what a request writes is its own body.
LEMMA OwnDoc ==
  ASSUME TypeInv, OnlyOps, "copy" \notin Ops, NEW r \in Requests,
         pc[r] \in Writing, NEW id \in Requests
  PROVE  /\ req[r].op = "put" /\ req[r].key \in Keys
         /\ NewDoc(r, id) \in Doc /\ NewDoc(r, id).body = r
         /\ res[r] = "none"
<1> USE DEF TypeInv, TypeOK, Flow, FlowOf, Writing, Uploading
<1>1. req[r] # None /\ req[r].key \in Keys
  BY ConstantsAssumption DEF Request
<1>2. req[r].op = "put"
  BY <1>1 DEF OnlyOps
<1>3. NewDoc(r, id) \in Doc
  BY <1>2, NewDocInDoc
<1> QED
  BY <1>1, <1>2, <1>3 DEF NewDoc

LEMMA BodiesStep ==
  ASSUME "copy" \notin Ops, "reply" \notin Faults, KeepInv, [Next]_vars
  PROVE  Bodies'
<1> USE DEF KeepInv, SafeInv
<1>1. CASE UNCHANGED vars
  BY <1>1 DEF vars, Bodies, Known
<1>2. ASSUME NEW r \in Requests, Step(r) PROVE Bodies'
  <2>1. DocumentsOf(r) /\ \A p \in Requests : Persists(p)
    BY <1>2, DocumentsStep, PersistsStep
  <2>2. ASSUME \A d \in Doc : Known(d)' => Known(d) PROVE Bodies'
    <3>1. \A d \in Doc : d.body \in Requests
      BY DEF Doc
    <3> QED
      BY <2>1, <2>2, <3>1 DEF Bodies, Known, Persists
  <2>3. CASE Writes(r)
    <3> DEFINE k == req[r].key
               id == IF files[k] = None THEN r ELSE files[k].id
               new == NewDoc(r, id)
    <3>1. k \in Keys
      BY <2>3, OwnDoc DEF Writes
    <3>2. id \in Requests
      BY <3>1 DEF TypeInv, TypeOK, Doc
    <3>3. new \in Doc /\ new.body = r /\ res[r] = "none" /\ res'[r] = "ok"
      BY <2>3, <3>2, OwnDoc DEF Writes
    <3>4. ASSUME NEW d \in Doc, Known(d)' PROVE Known(d) \/ d = new
      BY <2>3, <3>1, <3>4 DEF Writes, Known, TypeInv, TypeOK
    <3>5. ASSUME NEW d \in Doc, Known(d) PROVE d.body # r
      BY <3>3, <3>5 DEF Bodies
    <3>6. \A d \in Doc : d.body \in Requests
      BY DEF Doc
    <3> HIDE DEF new
    <3> QED
      BY <2>1, <3>3, <3>4, <3>5, <3>6 DEF Bodies, Known, Persists
  <2>4. ASSUME NEW k \in Keys, files' = [files EXCEPT ![k] = None],
               snap' = snap, NEW d \in Doc, Known(d)'
        PROVE  Known(d)
    BY <2>4, ConstantsAssumption DEF Known, TypeInv, TypeOK
  <2>5. ASSUME NEW k \in Keys, files' = files,
               snap' = [snap EXCEPT ![r] = files[k]], NEW d \in Doc, Known(d)'
        PROVE  Known(d)
    BY <2>5 DEF Known, TypeInv, TypeOK
  <2>6. CASE files' = files /\ snap' = snap
    BY <2>2, <2>6 DEF Known
  <2> QED
    BY <2>1, <2>2, <2>3, <2>4, <2>5, <2>6 DEF DocumentsOf
<1> QED
  BY <1>1, <1>2 DEF Next, AllServed

LEMMA KeepInvInit == Init => KeepInv
<1> SUFFICES ASSUME Init PROVE KeepInv
  OBVIOUS
<1>1. SafeInv
  BY SafeInvInit
<1>2. ~\E d \in Doc : Known(d)
  BY ConstantsAssumption DEF Init, Known
<1> QED
  BY <1>1, <1>2
     DEF Init, KeepInv, OnlyOps, RolledBack, Bodies, Referenced, ChunksAt

LEMMA KeepInvStep ==
  ASSUME "copy" \notin Ops, "reply" \notin Faults, KeepInv, [Next]_vars
  PROVE  KeepInv'
<1>1. Bodies'
  BY BodiesStep
<1>2. SafeInv'
  BY SafeInvStep DEF KeepInv
<1>3. OnlyOps' /\ RolledBack'
  BY OnlyOpsStep, RolledBackStep DEF KeepInv, SafeInv, TypeInv
<1> QED
  BY <1>1, <1>2, <1>3 DEF KeepInv
-----------------------------------------------------------------------------
(***************************************************************************)
(* Each step as a step of the promise.                                     *)
(***************************************************************************)
LEMMA AnsweredStep ==
  ASSUME TypeOK, NEW r \in Requests, NEW x, Answer(r, x)
  PROVE  Answered' = [Answered EXCEPT ![r] = IF x = "warn" THEN "ok" ELSE x]
BY DEF TypeOK, Answer, Answered

LEMMA BeginStep ==
  ASSUME "copy" \notin Ops, KeepInv, NEW r \in Requests, Start(r)
  PROVE  Promise!Begin(r)
<1>1. req[r] = None
  BY DEF Start, KeepInv, SafeInv, TypeInv, Flow, FlowOf
<1>2. PICK q \in Request : q.op \in Ops /\ req' = [req EXCEPT ![r] = q]
  BY DEF Start
<1>3. q.op \in {"put", "delete", "get"} /\ q.key \in Keys /\ q.src = q.key
  BY <1>2, ConstantsAssumption DEF Request, AllOps
<1>4. q = [op |-> q.op, key |-> q.key, src |-> q.key]
  BY <1>3 DEF Request
<1>5. Held' = Held /\ Found' = Found /\ Answered' = Answered
  BY DEF Start, Held, Found, Answered
<1> QED
  BY <1>1, <1>2, <1>3, <1>4, <1>5 DEF Promise!Begin

LEMMA FailStep ==
  ASSUME TypeOK, NEW r \in Requests, req[r] # None, res[r] = "none",
         Answer(r, "err"), UNCHANGED <<files, req, snap>>
  PROVE  Promise!Fail(r)
<1>1. Answered' = [Answered EXCEPT ![r] = "err"] /\ Answered[r] = "none"
  BY AnsweredStep DEF Answered
<1>2. Held' = Held /\ Found' = Found
  BY DEF Held, Found
<1> QED
  BY <1>1, <1>2 DEF Promise!Fail

\* The write of a put, whichever call of ReplaceByName makes it.
LEMMA PutWrites ==
  ASSUME "copy" \notin Ops, KeepInv, NEW r \in Requests, Writes(r),
         Answer(r, "ok"), req' = req
  PROVE  Promise!Put(r)
<1> DEFINE k == req[r].key
           id == IF files[k] = None THEN r ELSE files[k].id
           new == NewDoc(r, id)
<1>1. k \in Keys
  BY OwnDoc DEF Writes, KeepInv, SafeInv
<1>2. id \in Requests
  BY <1>1 DEF KeepInv, SafeInv, TypeInv, TypeOK, Doc
<1>3. /\ req[r] # None /\ req[r].op = "put" /\ res[r] = "none"
      /\ new \in Doc /\ new.body = r
  BY <1>2, OwnDoc, ConstantsAssumption
     DEF Writes, KeepInv, SafeInv, TypeInv, TypeOK, Writing, Request
<1>4. files' = [files EXCEPT ![k] = new] /\ files \in [Keys -> Doc \cup {None}]
  BY DEF Writes, KeepInv, SafeInv, TypeInv, TypeOK
<1>5. Held' = [Held EXCEPT ![k] = r]
  <2> HIDE DEF new, k
  <2> QED
    BY <1>1, <1>3, <1>4, ConstantsAssumption DEF Held
<1>6. Found' = Found
  BY DEF Writes, Found
<1>7. Answered' = [Answered EXCEPT ![r] = "ok"] /\ Answered[r] = "none"
  BY <1>3, AnsweredStep DEF Answered, KeepInv, SafeInv, TypeInv
<1> QED
  BY <1>3, <1>5, <1>6, <1>7 DEF Promise!Put, Promise!Open

LEMMA LookupStep ==
  ASSUME "copy" \notin Ops, KeepInv, NEW r \in Requests, Lookup(r)
  PROVE  Promise!Look(r) \/ Promise!Miss(r)
<1> DEFINE k == req[r].key
           doc == files[k]
<1>1. /\ req[r] # None /\ k \in Keys /\ req[r].src = k
      /\ req[r].op \in {"delete", "get"} /\ res[r] = "none" /\ snap[r] = None
  BY ConstantsAssumption
     DEF Lookup, KeepInv, SafeInv, TypeInv, TypeOK, Flow, FlowOf, OnlyOps,
         Request
<1>2. Held' = Held /\ Found[r] = None /\ Answered[r] = "none"
      /\ req' = req /\ Held[k] = IF doc = None THEN None ELSE doc.body
  BY <1>1 DEF Lookup, Held, Found, Answered
<1>3. Promise!Open(r, "get") \/ Promise!Open(r, "delete")
  BY <1>1, <1>2 DEF Promise!Open
<1>4. CASE doc = None
  <2>1. Answer(r, "absent") /\ snap' = snap
    BY <1>1, <1>4 DEF Lookup, Finish
  <2>2. Answered' = [Answered EXCEPT ![r] = "absent"] /\ Found' = Found
    BY <2>1, AnsweredStep DEF KeepInv, SafeInv, TypeInv, Found
  <2> QED
    BY <1>2, <1>3, <1>4, <2>2 DEF Promise!Miss
<1>5. CASE doc # None
  <2>1. snap' = [snap EXCEPT ![r] = doc] /\ res' = res
    BY <1>1, <1>5 DEF Lookup
  <2>2. Answered' = Answered /\ doc \in Doc
    BY <1>1, <1>5, <2>1 DEF Answered, KeepInv, SafeInv, TypeInv, TypeOK
  <2>3. Found' = [Found EXCEPT ![r] = doc.body]
    BY <1>5, <2>1, <2>2 DEF Found, KeepInv, SafeInv, TypeInv, TypeOK
  <2>4. doc.body # None
    BY <2>2, NoneAssumption DEF Doc
  <2> QED
    BY <1>2, <1>3, <1>5, <2>2, <2>3, <2>4 DEF Promise!Look
<1> QED
  BY <1>4, <1>5

\* A delete removes a document by its id; another id is another body.
LEMMA DeleteEffect ==
  ASSUME "reply" \notin Faults, KeepInv, NEW r \in Requests, DeleteDocument(r)
  PROVE  Promise!Delete(r) \/ Promise!Miss(r)
<1> DEFINE k == req[r].key
<1>1. /\ req[r] # None /\ k \in Keys /\ req[r].op = "delete"
      /\ res[r] = "none" /\ snap[r] # None /\ snap[r] \in Doc
  BY ConstantsAssumption
     DEF DeleteDocument, KeepInv, SafeInv, TypeInv, TypeOK, Flow, FlowOf,
         Request
<1>2. /\ Found' = Found /\ Found[r] = snap[r].body /\ Found[r] # None
      /\ Answered[r] = "none" /\ req' = req
  BY <1>1, NoneAssumption DEF DeleteDocument, Found, Answered, Doc
<1>3. Promise!Open(r, "delete")
  BY <1>1, <1>2 DEF Promise!Open
<1>4. CASE files[k] # None /\ files[k].id = snap[r].id
  <2>1. files' = [files EXCEPT ![k] = None] /\ Answer(r, "ok")
    BY <1>4 DEF DeleteDocument
  <2>2. Held' = [Held EXCEPT ![k] = None]
    BY <2>1 DEF Held, KeepInv, SafeInv, TypeInv, TypeOK
  <2>3. Held[k] # None
    BY <1>1, <1>4, NoneAssumption
       DEF Held, KeepInv, SafeInv, TypeInv, TypeOK, Doc
  <2>4. Answered' = [Answered EXCEPT ![r] = "ok"]
    BY <2>1, AnsweredStep DEF KeepInv, SafeInv, TypeInv
  <2> QED
    BY <1>2, <1>3, <2>2, <2>3, <2>4 DEF Promise!Delete
<1>5. CASE ~(files[k] # None /\ files[k].id = snap[r].id)
  <2>1. files' = files /\ Answer(r, "absent")
    BY <1>5 DEF DeleteDocument, Finish
  <2>2. Held[k] # snap[r].body
    BY <1>1, <1>2, <1>5
       DEF Held, KeepInv, SafeInv, TypeInv, TypeOK, Bodies, Known
  <2>3. Held' = Held /\ Answered' = [Answered EXCEPT ![r] = "absent"]
    BY <2>1, AnsweredStep DEF KeepInv, SafeInv, TypeInv, Held
  <2> QED
    BY <1>2, <1>3, <2>2, <2>3 DEF Promise!Miss
<1> QED
  BY <1>4, <1>5

\* A read breaks off only when the document it looked up is gone: the chunks
\* of a document that is in the collection are there.
LEMMA StreamEffect ==
  ASSUME "copy" \notin Ops, KeepInv, NEW r \in Requests, StreamChunk(r)
  PROVE  \/ Promise!Deliver(r) \/ Promise!BreakOff(r)
         \/ UNCHANGED <<files, req, snap, res>>
<1> DEFINE k == req[r].key
<1>1. /\ req[r] # None /\ k \in Keys /\ req[r].op = "get"
      /\ res[r] = "none" /\ snap[r] # None /\ snap[r] \in Doc
      /\ work[r] \subseteq snap[r].chunks /\ work[r] \subseteq Chunk
  BY ConstantsAssumption
     DEF StreamChunk, KeepInv, SafeInv, TypeInv, TypeOK, Flow, FlowOf, Request
<1>2. /\ Found' = Found /\ Found[r] = snap[r].body /\ Found[r] # None
      /\ Answered[r] = "none" /\ req' = req /\ Held' = Held
  BY <1>1, NoneAssumption DEF StreamChunk, Found, Answered, Doc, Held
<1>3. Promise!Open(r, "get")
  BY <1>1, <1>2 DEF Promise!Open
<1>4. CASE work[r] = {}
  <2>1. Answer(r, "ok")
    BY <1>4 DEF StreamChunk, Finish
  <2>2. Answered' = [Answered EXCEPT ![r] = "ok"]
    BY <2>1, AnsweredStep DEF KeepInv, SafeInv, TypeInv
  <2> QED
    BY <1>2, <1>3, <2>2 DEF Promise!Deliver
<1>5. ASSUME NEW c \in work[r], c \notin store, Finish(r, "broken")
      PROVE  Promise!BreakOff(r)
  <2>1. Answered' = [Answered EXCEPT ![r] = "broken"]
    BY <1>5, AnsweredStep DEF Finish, KeepInv, SafeInv, TypeInv
  <2>2. ~Referenced(c)
    <3>1. ~CopiedAmongOthers(c)
      BY DEF KeepInv, OnlyOps, CopiedAmongOthers, SafeInv, TypeInv, TypeOK
    <3> QED
      BY <1>1, <1>5, <3>1
         DEF KeepInv, SafeInv, Readable, RolledBack, Excused
  <2>3. files[k] # snap[r]
    BY <1>1, <1>5, <2>2 DEF Referenced, ChunksAt
  <2>4. Held[k] # snap[r].body
    BY <1>1, <1>2, <2>3
       DEF Held, KeepInv, SafeInv, TypeInv, TypeOK, Bodies, Known
  <2> QED
    BY <1>2, <1>3, <2>1, <2>4 DEF Promise!BreakOff
<1>6. CASE work[r] # {}
  BY <1>5, <1>6 DEF StreamChunk
<1> QED
  BY <1>4, <1>6

LEMMA PromiseStep ==
  ASSUME "copy" \notin Ops, "reply" \notin Faults, KeepInv,
         NEW r \in Requests, Step(r)
  PROVE  Promise!Next \/ UNCHANGED Promise!vars
<1> DEFINE Kept == Promise!Next \/ UNCHANGED Promise!vars
<1>a. /\ TypeOK /\ TypeInv /\ req[r] \in Request \cup {None}
      /\ pc[r] # "idle" => req[r] # None
  BY ConstantsAssumption DEF KeepInv, SafeInv, TypeInv, TypeOK
<1>b. FlowOf(r)
  BY <1>a DEF TypeInv, Flow
<1>c. ASSUME UNCHANGED <<files, req, snap, Answered>> PROVE Kept
  BY <1>c DEF Promise!vars, Held, Found
<1>d. ASSUME pc[r] \in {"lookup", "delete", "stream"} \cup Uploading,
             Answer(r, "err"), UNCHANGED <<files, req, snap>>
      PROVE  Kept
  <2>1. req[r] # None /\ res[r] = "none"
    BY <1>a, <1>b, <1>d DEF FlowOf, Uploading
  <2> QED
    BY <1>a, <1>d, <2>1, FailStep DEF Promise!Next
<1>e. ASSUME pc[r] \in Writing, Answer(r, "ok"), UNCHANGED <<req, snap>>,
             files' = [files EXCEPT ![req[r].key] =
                         NewDoc(r, IF files[req[r].key] = None THEN r
                                   ELSE files[req[r].key].id)]
      PROVE  Kept
  <2>1. Writes(r)
    BY <1>a, <1>e DEF Writes, TypeOK, Answer
  <2> QED
    BY <1>e, <2>1, PutWrites DEF Promise!Next
<1>f. ASSUME Answer(r, IF res[r] = "ok" THEN "warn" ELSE res[r])
      PROVE  Answered' = Answered
  BY <1>a, <1>f DEF Answered, Answer, TypeOK
<1>g. ASSUME res' = res PROVE Answered' = Answered
  BY <1>g DEF Answered
<1>h. ASSUME ReplaceError(r), files' = files, pc[r] \in Writing PROVE Kept
  BY <1>d, <1>h DEF ReplaceError, Writing, Uploading
<1>i. ASSUME Update(r), pc[r] \in Writing PROVE Kept
  <2>1. files[req[r].key] # None
    BY <1>i DEF Update
  <2> QED
    BY <1>e, <1>i, <2>1 DEF Update
<1> HIDE DEF Kept
<1> SUFFICES Kept
  BY DEF Kept
<1>1. CASE Start(r)
  BY <1>1, BeginStep DEF Kept, Promise!Next
<1>2. CASE UploadChunk(r) /\ UNCHANGED overlapped
  BY <1>2, <1>c, <1>g DEF UploadChunk
<1>3. CASE EndOfBody(r) /\ UNCHANGED overlapped
  BY <1>3, <1>c, <1>g DEF EndOfBody
<1>4. CASE UploadFails(r) /\ UNCHANGED overlapped
  BY <1>4, <1>d DEF UploadFails, Uploading
<1>5. CASE CleanupUploaded(r) /\ UNCHANGED overlapped
  BY <1>5, <1>c, <1>g DEF CleanupUploaded
<1>6. CASE Lookup(r) /\ UNCHANGED overlapped
  BY <1>6, LookupStep DEF Kept, Promise!Next
<1>7. CASE LookupFails(r) /\ UNCHANGED overlapped
  BY <1>7, <1>d DEF LookupFails, Finish
<1>8. CASE Replace(r) /\ UNCHANGED overlapped
  BY <1>8, <1>c, <1>g, <1>i DEF Replace, Writing
<1>9. CASE Insert(r) /\ UNCHANGED overlapped
  BY <1>9, <1>c, <1>e, <1>g DEF Insert, Finish, Writing
<1>10. CASE Retry(r) /\ UNCHANGED overlapped
  BY <1>10, <1>h, <1>i DEF Retry, Writing
<1>11. CASE ReplaceFails(r) /\ UNCHANGED overlapped
  BY <1>11, <1>h DEF ReplaceFails, Writing
<1>12. CASE DeleteChunk(r) /\ UNCHANGED overlapped
  BY <1>12, <1>c, <1>f, <1>g DEF DeleteChunk, StopCleanup
<1>13. CASE CountReferences(r) /\ UNCHANGED overlapped
  BY <1>13, <1>c, <1>g DEF CountReferences
<1>14. CASE CountFails(r) /\ UNCHANGED overlapped
  BY <1>14, <1>c, <1>f DEF CountFails, StopCleanup
<1>15. CASE DeleteDocument(r) /\ UNCHANGED overlapped
  BY <1>15, DeleteEffect DEF Kept, Promise!Next
<1>16. CASE DeleteFails(r) /\ UNCHANGED overlapped
  BY <1>16, <1>d DEF DeleteFails, Finish
<1>17. CASE StreamChunk(r) /\ UNCHANGED overlapped
  BY <1>17, <1>c, <1>g, StreamEffect DEF Kept, Promise!Next
<1>18. CASE StreamFails(r) /\ UNCHANGED overlapped
  BY <1>18, <1>d DEF StreamFails, Finish
<1>19. CASE Crash(r) /\ UNCHANGED overlapped
  BY <1>19, <1>c, <1>g DEF Crash
<1> QED
  BY <1>1, <1>2, <1>3, <1>4, <1>5, <1>6, <1>7, <1>8, <1>9, <1>10, <1>11,
     <1>12, <1>13, <1>14, <1>15, <1>16, <1>17, <1>18, <1>19
     DEF Step, PutStep, ReplaceStep, ReclaimStep, DeleteStep, ReadStep

(***************************************************************************)
(* Where no copy runs and no reply of a MongoDB write is lost, the two     *)
(* stores, chunk by chunk and call by call, look to every client like one  *)
(* atomic map from keys to bodies: PutObject and DeleteObject take effect  *)
(* in their one write, a failed request has no effect, and GetObject       *)
(* delivers what it looked up or is overtaken.                             *)
(***************************************************************************)
THEOREM ObjectStoreKeepsPromise ==
  ASSUME "copy" \notin Ops, "reply" \notin Faults
  PROVE  Spec => ImplementsPromise
<1>1. Init => KeepInv /\ Promise!Init
  <2>1. Init => Promise!Init
    BY DEF Init, Promise!Init, Held, Found, Answered
  <2> QED
    BY <2>1, KeepInvInit
<1>2. KeepInv /\ [Next]_vars => KeepInv'
  BY KeepInvStep
<1>3. KeepInv /\ [Next]_vars => [Promise!Next]_Promise!vars
  <2>1. UNCHANGED vars => UNCHANGED Promise!vars
    BY DEF vars, Promise!vars, Held, Found, Answered
  <2> QED
    BY <2>1, PromiseStep DEF Next, AllServed
<1> QED
  BY <1>1, <1>2, <1>3, PTL DEF Spec, ImplementsPromise, Promise!Spec
=============================================================================
