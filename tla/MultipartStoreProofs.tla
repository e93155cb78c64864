------------------------ MODULE MultipartStoreProofs ------------------------
(***************************************************************************)
(* Proofs about MultipartStore, for any number of requests, uploads, part  *)
(* numbers and keys, and any mix of faults.                                *)
(***************************************************************************)
EXTENDS MultipartStore, TLAPS

(***************************************************************************)
(* The control flow of one request: what is known at each control point.   *)
(***************************************************************************)

\* Control points before a part is recorded, after the record was read, and
\* where a completion or an abort deletes parts.
Early == {"idle", "lookup", "upload", "setpart"}
PastLookup == {"upload", "setpart", "purge", "commit", "count", "drop",
               "discard", "close"}
Deleting == {"count", "drop", "discard", "close"}

Closes(r) == Is(r, "complete") \/ Is(r, "abort")

\* The write is done, whether its reply arrives or not.
Records(r) == SetPart(r) \/ SetPartReplyLost(r)
Stores(r) == Commit(r) \/ CommitReplyLost(r)
Ends(r) == Close(r) \/ CloseReplyLost(r)

\* Request c uploaded part n of upload u and was told so, or its reply was lost.
PartOf(c, u, n) == /\ Is(c, "part") /\ UploadOf(c) = u /\ req[c].part = n
                   /\ res[c] \in Succeeded \/ ReplyLost(c)

ControlOf(r) ==
  /\ pc[r] \in {"upload", "setpart", "purge"} => Is(r, "part")
  /\ pc[r] \in {"commit", "count", "drop", "leftopen"} => Is(r, "complete")
  /\ pc[r] \in {"discard", "close"} => Closes(r)
  /\ pc[r] \in Early \cup {"commit"} => res[r] = "none"
  /\ pc[r] \in Deleting \cup {"leftopen"} /\ Is(r, "complete")
       => res[r] \in Succeeded
  /\ pc[r] = "close" => res[r] # "err"
  /\ pc[r] \in {"idle", "lookup"} => snap[r] = NoParts
  /\ Is(r, "complete") /\ pc[r] # "crashed"
     /\ (pc[r] = "commit" \/ res[r] \in Succeeded)
       => req[r].list \subseteq ChunksIn(snap[r])

\* What a request names: its upload, the parts of a completion, and those of
\* its copy of the record.
NamesOf(r) ==
  /\ pc[r] # "idle" => record[UploadOf(r)] # "new"
  /\ Is(r, "complete") =>
       \A p \in req[r].list : /\ Is(p, "part") /\ UploadOf(p) = UploadOf(r)
                              /\ res[p] \in Succeeded \/ ReplyLost(p)
  /\ \A n \in PartNumbers :
       snap[r][n] # None => PartOf(snap[r][n], UploadOf(r), n)

FlowOf(r) == ControlOf(r) /\ NamesOf(r)

Recorded ==
  \A u \in Uploads :
    /\ record[u] # "open" => parts[u] = NoParts
    /\ \A n \in PartNumbers : parts[u][n] # None => PartOf(parts[u][n], u, n)

\* A part that was acknowledged was not forgotten.
Acknowledged ==
  \A r \in Requests :
    Is(r, "part") /\ res[r] \in Succeeded /\ record[UploadOf(r)] = "open"
      => parts[UploadOf(r)][req[r].part] # None

FlowInv ==
  TypeOK /\ (\A r \in Requests : FlowOf(r)) /\ Recorded /\ Acknowledged

LEMMA FlowInit == Init => FlowInv
<1> SUFFICES ASSUME Init PROVE FlowInv
  OBVIOUS
<1>1. TypeOK
  BY MultipartAssumption DEF Init, TypeOK, Steps, Final, Results, Chunk, NoParts
<1>2. ASSUME NEW r \in Requests PROVE FlowOf(r)
  BY <1>2 DEF Init, FlowOf, ControlOf, NamesOf, NoParts, Is, Closes, Early,
              Deleting
<1>3. Recorded
  BY DEF Init, Recorded, NoParts
<1>4. Acknowledged
  BY DEF Init, Acknowledged, Is
<1> QED
  BY <1>1, <1>2, <1>3, <1>4 DEF FlowInv

\* A request under way was asked something.
LEMMA Asked ==
  ASSUME TypeOK, NEW r \in Requests, pc[r] # "idle"
  PROVE  /\ req[r] # None
         /\ req[r] \in PartRequest \cup CompleteRequest \cup AbortRequest
         /\ UploadOf(r) \in Uploads
BY NoneAssumption
   DEF TypeOK, PartRequest, CompleteRequest, AbortRequest, UploadOf

LEMMA PartNumber ==
  ASSUME TypeOK, NEW r \in Requests, pc[r] # "idle", Is(r, "part")
  PROVE  req[r].part \in PartNumbers
BY Asked DEF Is, PartRequest, CompleteRequest, AbortRequest

LEMMA CompletionList ==
  ASSUME TypeOK, NEW r \in Requests, Is(r, "complete")
  PROVE  req[r].list \subseteq Requests /\ req[r].list # {}
BY Asked DEF Is, TypeOK, PartRequest, CompleteRequest, AbortRequest

LEMMA ChunksInRequests ==
  ASSUME NEW p \in [PartNumbers -> Requests \cup {None}]
  PROVE  ChunksIn(p) \subseteq Requests
BY DEF ChunksIn

LEMMA SnapChunks ==
  ASSUME TypeOK, NEW r \in Requests
  PROVE  ChunksIn(snap[r]) \subseteq Chunk
<1>1. snap[r] \in [PartNumbers -> Requests \cup {None}]
  BY DEF TypeOK
<1> QED
  BY <1>1, ChunksInRequests DEF Chunk

\* What a step makes of one request's local chunks.
LEMMA NewDoomed ==
  ASSUME TypeOK, NEW r \in Requests, NEW S \in SUBSET Chunk,
         doomed' = [doomed EXCEPT ![r] = S]
  PROVE  doomed' \in [Requests -> SUBSET Chunk]
BY DEF TypeOK

LEMMA NewWork ==
  ASSUME TypeOK, NEW r \in Requests, NEW S \in SUBSET Chunk,
         work' = [work EXCEPT ![r] = S]
  PROVE  work' \in [Requests -> SUBSET Chunk]
BY DEF TypeOK

LEMMA TypeStep == FlowInv /\ [Next]_vars => TypeOK'
<1> SUFFICES ASSUME FlowInv, [Next]_vars PROVE TypeOK'
  OBVIOUS
<1> USE MultipartAssumption DEF FlowInv
<1> USE DEF TypeOK, Steps, Final, Results, Goto, Answer, Finish, Warn, NoParts,
            uploadVars, localVars
<1>1. ASSUME NEW u \in Uploads, Create(u) PROVE TypeOK'
  BY <1>1 DEF Create
<1>2. ASSUME NEW r \in Requests, Start(r) PROVE TypeOK'
  BY <1>2 DEF Start, Active
<1>3. ASSUME NEW r \in Requests, Lookup(r), UNCHANGED overlapped PROVE TypeOK'
  <2> DEFINE here == parts[UploadOf(r)]
  <2>1. here \in [PartNumbers -> Requests \cup {None}]
    BY <1>3, Asked DEF Lookup
  <2>2. ChunksIn(here) \subseteq Chunk
    BY <2>1, ChunksInRequests DEF Chunk
  <2>3. CASE record[UploadOf(r)] # "open"
    BY <1>3, <2>3 DEF Lookup
  <2>4. CASE record[UploadOf(r)] = "open"
    <3>1. /\ snap' = [snap EXCEPT ![r] = here]
          /\ \/ UNCHANGED doomed
             \/ doomed' = [doomed EXCEPT ![r] = ChunksIn(here)]
      BY <1>3, <2>4 DEF Lookup
    <3>2. snap' \in [Requests -> [PartNumbers -> Requests \cup {None}]]
      BY <2>1, <3>1
    <3>4. doomed' \in [Requests -> SUBSET Chunk]
      BY <2>2, <3>1
    <3>3. pc' \in [Requests -> Steps]
          /\ pc[r] # "idle" /\ pc'[r] # "idle"
          /\ \A q \in Requests : q # r => pc'[q] = pc[q]
      <4>1. PICK step \in {"upload", "discard", "commit", "done"} :
              pc' = [pc EXCEPT ![r] = step]
        BY <1>3, <2>4 DEF Lookup
      <4> QED
        BY <1>3, <4>1 DEF Lookup
    <3>5. res' \in [Requests -> Results]
      BY <1>3, <2>4 DEF Lookup
    <3> QED
      BY <1>3, <3>2, <3>3, <3>4, <3>5 DEF Lookup
  <2> QED
    BY <2>3, <2>4
<1>4. ASSUME NEW r \in Requests, LookupFails(r), UNCHANGED overlapped PROVE TypeOK'
  BY <1>4 DEF LookupFails
<1>5. ASSUME NEW r \in Requests, UploadChunk(r), UNCHANGED overlapped PROVE TypeOK'
  <2>1. store' \subseteq Chunk \cup {Stray}
    BY <1>5 DEF UploadChunk, Left, Chunk
  <2>2. /\ pc' \in [Requests -> Steps] /\ pc[r] # "idle" /\ pc'[r] # "idle"
        /\ \A q \in Requests : q # r => pc'[q] = pc[q]
    <3>1. PICK step \in {"setpart", "done"} : pc' = [pc EXCEPT ![r] = step]
      BY <1>5 DEF UploadChunk
    <3> QED
      BY <1>5, <3>1 DEF UploadChunk
  <2>2a. res' \in [Requests -> Results]
    BY <1>5 DEF UploadChunk
  <2>3. UNCHANGED <<uploadVars, files, req, localVars, overlapped>>
    BY <1>5 DEF UploadChunk
  <2> QED
    BY <2>1, <2>2, <2>2a, <2>3
<1>6. ASSUME NEW r \in Requests, SetPart(r), UNCHANGED overlapped PROVE TypeOK'
  <2> DEFINE u == UploadOf(r)
             n == req[r].part
  <2>1. u \in Uploads /\ n \in PartNumbers
    BY <1>6, Asked, PartNumber DEF SetPart, FlowOf, ControlOf
  <2>2. doomed' \in [Requests -> SUBSET Chunk]
    BY <1>6, <2>1, NewDoomed DEF SetPart, Withdraw, Chunk
  <2>3. parts' \in [Uploads -> [PartNumbers -> Requests \cup {None}]]
    <3>1. UNCHANGED parts \/ parts' = [parts EXCEPT ![u][n] = r]
      BY <1>6 DEF SetPart, Withdraw
    <3>2. [parts[u] EXCEPT ![n] = r] \in [PartNumbers -> Requests \cup {None}]
      BY <2>1
    <3> QED
      BY <2>1, <3>1, <3>2
  <2>4. /\ pc' \in [Requests -> Steps] /\ pc[r] # "idle" /\ pc'[r] # "idle"
        /\ \A q \in Requests : q # r => pc'[q] = pc[q]
        /\ res' \in [Requests -> Results]
    BY <1>6 DEF SetPart, Withdraw
  <2>5. UNCHANGED <<record, target, files, store, req, snap, work, overlapped>>
    BY <1>6 DEF SetPart
  <2> QED
    BY <2>2, <2>3, <2>4, <2>5
<1>7. ASSUME NEW r \in Requests, SetPartFails(r), UNCHANGED overlapped PROVE TypeOK'
  BY <1>7 DEF SetPartFails, Withdraw, Chunk
<1>7a. ASSUME NEW r \in Requests, SetPartReplyLost(r), UNCHANGED overlapped
       PROVE  TypeOK'
  <2> DEFINE u == UploadOf(r)
             n == req[r].part
  <2>1. u \in Uploads /\ n \in PartNumbers
    BY <1>7a, Asked, PartNumber DEF SetPartReplyLost, FlowOf, ControlOf
  <2>2. doomed' \in [Requests -> SUBSET Chunk]
    BY <1>7a, NewDoomed DEF SetPartReplyLost, Withdraw, Chunk
  <2>3. parts' \in [Uploads -> [PartNumbers -> Requests \cup {None}]]
    <3>1. parts' = [parts EXCEPT ![u][n] = r]
      BY <1>7a DEF SetPartReplyLost
    <3>2. [parts[u] EXCEPT ![n] = r] \in [PartNumbers -> Requests \cup {None}]
      BY <2>1
    <3> QED
      BY <2>1, <3>1, <3>2
  <2>4. /\ pc' \in [Requests -> Steps] /\ pc[r] # "idle" /\ pc'[r] # "idle"
        /\ \A q \in Requests : q # r => pc'[q] = pc[q]
        /\ res' \in [Requests -> Results]
    BY <1>7a DEF SetPartReplyLost, Withdraw
  <2>5. UNCHANGED <<record, target, files, store, req, snap, work, overlapped>>
    BY <1>7a DEF SetPartReplyLost
  <2> QED
    BY <2>2, <2>3, <2>4, <2>5
<1>8. ASSUME NEW r \in Requests, Purge(r), UNCHANGED overlapped PROVE TypeOK'
  BY <1>8 DEF Purge
<1>9. ASSUME NEW r \in Requests, Commit(r), UNCHANGED overlapped PROVE TypeOK'
  BY <1>9, Asked, CompletionList DEF Commit, Chunk, FlowOf, ControlOf
<1>10. ASSUME NEW r \in Requests, CommitFails(r), UNCHANGED overlapped PROVE TypeOK'
  BY <1>10 DEF CommitFails
<1>10a. ASSUME NEW r \in Requests, CommitReplyLost(r), UNCHANGED overlapped
       PROVE  TypeOK'
  <2>1. req[r].list \subseteq Chunk
    BY <1>10a, CompletionList DEF CommitReplyLost, Chunk, FlowOf, ControlOf
  <2>2. files' \in [Keys -> (SUBSET Chunk) \cup {None}]
    BY <1>10a, <2>1 DEF CommitReplyLost
  <2> QED
    BY <1>10a, <2>2 DEF CommitReplyLost
<1>11. ASSUME NEW r \in Requests, CountReferences(r), UNCHANGED overlapped PROVE TypeOK'
  <2>1. CASE work[r] = {}
    <3>1. doomed' \in [Requests -> SUBSET Chunk]
      BY <1>11, <2>1, SnapChunks, NewDoomed DEF CountReferences, DiscardUnnamed
    <3> QED
      BY <1>11, <2>1, <3>1 DEF CountReferences, DiscardUnnamed
  <2>2. CASE work[r] # {}
    <3>1. PICK c \in work[r] :
            /\ work' = [work EXCEPT ![r] = @ \ {c}]
            /\ \/ UNCHANGED <<pc, doomed>>
               \/ Goto(r, "drop") /\ doomed' = [doomed EXCEPT ![r] = {c}]
      BY <1>11, <2>2 DEF CountReferences
    <3>2. work' \in [Requests -> SUBSET Chunk]
      BY <3>1, NewWork
    <3>3. doomed' \in [Requests -> SUBSET Chunk]
      BY <3>1, NewDoomed
    <3> QED
      BY <1>11, <2>2, <3>1, <3>2, <3>3 DEF CountReferences
  <2> QED
    BY <2>1, <2>2
<1>12. ASSUME NEW r \in Requests, CountFails(r), UNCHANGED overlapped PROVE TypeOK'
  BY <1>12, SnapChunks DEF CountFails, DiscardUnnamed
<1>13. ASSUME NEW r \in Requests, Drop(r), UNCHANGED overlapped PROVE TypeOK'
  <2>1. doomed' \in [Requests -> SUBSET Chunk]
    BY <1>13, SnapChunks, NewDoomed DEF Drop, DiscardUnnamed
  <2> QED
    BY <1>13, <2>1 DEF Drop, DiscardUnnamed
<1>14. ASSUME NEW r \in Requests, Discard(r), UNCHANGED overlapped PROVE TypeOK'
  <2>1. doomed' \in [Requests -> SUBSET Chunk]
    BY <1>14, NewDoomed DEF Discard
  <2>2. store' \subseteq store
    BY <1>14 DEF Discard
  <2>3. /\ pc' \in [Requests -> Steps] /\ pc[r] # "idle" /\ pc'[r] # "idle"
        /\ \A q \in Requests : q # r => pc'[q] = pc[q]
    BY <1>14 DEF Discard
  <2>4. res' \in [Requests -> Results]
    BY <1>14 DEF Discard
  <2>5. UNCHANGED <<uploadVars, files, req, snap, work, overlapped>>
    BY <1>14 DEF Discard
  <2> QED
    BY <2>1, <2>2, <2>3, <2>4, <2>5
<1>15. ASSUME NEW r \in Requests, Close(r), UNCHANGED overlapped PROVE TypeOK'
  <2>0. \/ UNCHANGED <<parts, record>>
        \/ /\ parts' = [parts EXCEPT ![UploadOf(r)] = NoParts]
           /\ record' = [record EXCEPT ![UploadOf(r)] = "gone"]
    BY <1>15 DEF Close
  <2>1. parts' \in [Uploads -> [PartNumbers -> Requests \cup {None}]]
    <3>1. NoParts \in [PartNumbers -> Requests \cup {None}]
      OBVIOUS
    <3> HIDE DEF NoParts
    <3> QED
      BY <2>0, <3>1
  <2>2. record' \in [Uploads -> {"new", "open", "gone"}]
    BY <2>0
  <2> QED
    BY <1>15, <2>1, <2>2 DEF Close
<1>16. ASSUME NEW r \in Requests, CloseFails(r), UNCHANGED overlapped PROVE TypeOK'
  BY <1>16 DEF CloseFails
<1>16a. ASSUME NEW r \in Requests, CloseReplyLost(r), UNCHANGED overlapped
       PROVE  TypeOK'
  BY <1>16a DEF CloseReplyLost
<1>17. ASSUME NEW r \in Requests, Crash(r), UNCHANGED overlapped PROVE TypeOK'
  BY <1>17 DEF Crash, Active
<1>18. CASE UNCHANGED vars
  BY <1>18 DEF vars
<1> QED
  BY <1>1, <1>2, <1>3, <1>4, <1>5, <1>6, <1>7, <1>7a, <1>8, <1>9, <1>10,
     <1>10a, <1>11, <1>12, <1>13, <1>14, <1>15, <1>16, <1>16a, <1>17, <1>18
     DEF Next, Step, AllServed

(***************************************************************************)
(* What lasts: a request keeps what it was asked and goes forward, answers *)
(* do not turn bad, and a completion that stored its object has done so.   *)
(***************************************************************************)

\* A completion that stored its object, or may have stored it without a reply,
\* and a chunk of one.
Committed(q) ==
  /\ Is(q, "complete")
  /\ \/ pc[q] \in Deleting \cup Final /\ res[q] \in Succeeded
     \/ /\ pc[q] = "done" /\ res[q] = "err"
        /\ req[q].list \subseteq ChunksIn(snap[q])
Named(c) == \E q \in Requests : Committed(q) /\ c \in req[q].list

LastingOf(q) ==
  /\ pc[q] = "idle" => pc'[q] = "idle" \/ Start(q)
  /\ pc[q] # "idle" => pc'[q] # "idle" /\ req'[q] = req[q]
  /\ pc[q] \notin Early => pc'[q] \notin Early
  /\ pc[q] \in Deleting => pc'[q] \in Deleting \cup Final
  /\ pc[q] \in Final => pc'[q] = pc[q] /\ res'[q] = res[q]
  /\ Is(q, "part") /\ res[q] \in Succeeded => res'[q] \in Succeeded
  /\ Is(q, "part") /\ res'[q] \in Succeeded
       => res[q] \in Succeeded \/ SetPart(q)
  /\ Is(q, "part") /\ res[q] = "err" => res'[q] = "err"
  /\ Committed(q) => Committed(q)'
  /\ snap[q] # NoParts => snap'[q] = snap[q] \/ pc'[q] = "crashed"
  /\ \/ snap'[q] \in {snap[q], NoParts}
     \/ pc[q] = "lookup" /\ snap'[q] = parts[UploadOf(q)]
  /\ Closes(q) /\ res[q] = "err" => res'[q] = "err"
  /\ q \in overlapped => q \in overlapped'

LEMMA Lasting ==
  ASSUME FlowInv, [Next]_vars, NEW q \in Requests
  PROVE  LastingOf(q)
<1> USE MultipartAssumption DEF FlowInv, FlowOf, ControlOf, TypeOK, LastingOf, Committed
<1> USE DEF Steps, Final, Results, Succeeded, Goto, Answer, Finish, Warn,
            uploadVars, localVars, Is, Closes, Early, Deleting
<1>1. ASSUME NEW u \in Uploads, Create(u) PROVE LastingOf(q)
  BY <1>1 DEF Create
<1>2. ASSUME NEW r \in Requests, Start(r) PROVE LastingOf(q)
  <2>1. pc[q] = "idle" => pc'[q] = "idle" \/ Start(q)
    <3>1. q # r => pc'[q] = pc[q]
      BY <1>2 DEF Start
    <3> QED
      BY <1>2, <3>1
  <2>2. /\ pc[q] # "idle" => UNCHANGED <<pc[q], req[q]>>
        /\ UNCHANGED <<snap[q], res[q]>>
        /\ q \in overlapped => q \in overlapped'
    BY <1>2 DEF Start
  <2> QED
    BY <2>1, <2>2
<1>3. ASSUME NEW r \in Requests, Lookup(r), UNCHANGED overlapped PROVE LastingOf(q)
  BY <1>3 DEF Lookup
<1>4. ASSUME NEW r \in Requests, LookupFails(r), UNCHANGED overlapped PROVE LastingOf(q)
  BY <1>4 DEF LookupFails
<1>5. ASSUME NEW r \in Requests, UploadChunk(r), UNCHANGED overlapped PROVE LastingOf(q)
  BY <1>5 DEF UploadChunk
<1>6. ASSUME NEW r \in Requests, SetPart(r), UNCHANGED overlapped PROVE LastingOf(q)
  <2>1. Is(q, "part") /\ res'[q] \in Succeeded
          => res[q] \in Succeeded \/ SetPart(q)
    <3>1. q # r => res'[q] = res[q]
      BY <1>6 DEF SetPart, Withdraw
    <3> QED
      BY <1>6, <3>1
  <2>2. /\ pc[q] = "idle" => pc'[q] = "idle"
        /\ req' = req /\ snap' = snap
        /\ pc[q] # "idle" => pc'[q] # "idle"
        /\ pc[q] \notin Early => pc'[q] = pc[q] /\ res'[q] = res[q]
        /\ Is(q, "part") /\ res[q] \in Succeeded => res'[q] \in Succeeded
        /\ Closes(q) => pc'[q] = pc[q] /\ res'[q] = res[q]
    BY <1>6 DEF SetPart, Withdraw
  <2> QED
    BY <1>6, <2>1, <2>2
<1>7. ASSUME NEW r \in Requests, SetPartFails(r), UNCHANGED overlapped PROVE LastingOf(q)
  BY <1>7 DEF SetPartFails, Withdraw
<1>7a. ASSUME NEW r \in Requests, SetPartReplyLost(r), UNCHANGED overlapped
       PROVE  LastingOf(q)
  BY <1>7a DEF SetPartReplyLost, Withdraw
<1>8. ASSUME NEW r \in Requests, Purge(r), UNCHANGED overlapped PROVE LastingOf(q)
  BY <1>8 DEF Purge
<1>9. ASSUME NEW r \in Requests, Commit(r), UNCHANGED overlapped PROVE LastingOf(q)
  BY <1>9 DEF Commit
<1>10. ASSUME NEW r \in Requests, CommitFails(r), UNCHANGED overlapped PROVE LastingOf(q)
  BY <1>10 DEF CommitFails
<1>10a. ASSUME NEW r \in Requests, CommitReplyLost(r), UNCHANGED overlapped
       PROVE  LastingOf(q)
  BY <1>10a DEF CommitReplyLost
<1>11. ASSUME NEW r \in Requests, CountReferences(r), UNCHANGED overlapped PROVE LastingOf(q)
  BY <1>11 DEF CountReferences, DiscardUnnamed
<1>12. ASSUME NEW r \in Requests, CountFails(r), UNCHANGED overlapped PROVE LastingOf(q)
  BY <1>12 DEF CountFails, DiscardUnnamed
<1>13. ASSUME NEW r \in Requests, Drop(r), UNCHANGED overlapped PROVE LastingOf(q)
  BY <1>13 DEF Drop, DiscardUnnamed
<1>14. ASSUME NEW r \in Requests, Discard(r), UNCHANGED overlapped PROVE LastingOf(q)
  BY <1>14 DEF Discard
<1>15. ASSUME NEW r \in Requests, Close(r), UNCHANGED overlapped PROVE LastingOf(q)
  BY <1>15 DEF Close
<1>16. ASSUME NEW r \in Requests, CloseFails(r), UNCHANGED overlapped PROVE LastingOf(q)
  BY <1>16 DEF CloseFails
<1>16a. ASSUME NEW r \in Requests, CloseReplyLost(r), UNCHANGED overlapped
       PROVE  LastingOf(q)
  BY <1>16a DEF CloseReplyLost
<1>17. ASSUME NEW r \in Requests, Crash(r), UNCHANGED overlapped PROVE LastingOf(q)
  BY <1>17 DEF Crash, Active
<1>18. CASE UNCHANGED vars
  BY <1>18 DEF vars
<1> QED
  BY <1>1, <1>2, <1>3, <1>4, <1>5, <1>6, <1>7, <1>7a, <1>8, <1>9, <1>10,
     <1>10a, <1>11, <1>12, <1>13, <1>14, <1>15, <1>16, <1>16a, <1>17, <1>18
     DEF Next, Step, AllServed

\* Only Create, SetPart and Close write to the records.
LEMMA RecordWriters ==
  ASSUME [Next]_vars
  PROVE  \/ \E u \in Uploads : Create(u)
         \/ \E r \in Requests : Records(r) \/ Ends(r)
         \/ UNCHANGED <<record, parts>>
BY DEF Next, Step, AllServed, vars, uploadVars, Start, Lookup, LookupFails,
       UploadChunk, SetPartFails, Withdraw, Purge, Commit, CommitFails,
       CommitReplyLost, CountReferences, CountFails, Drop, Discard, CloseFails,
       Crash, Records, Ends

LEMMA LastingRecord ==
  ASSUME FlowInv, [Next]_vars, NEW v \in Uploads
  PROVE  /\ record[v] # "new" => record'[v] # "new"
         /\ record[v] = "gone" => record'[v] = "gone"
<1>1. ASSUME NEW u \in Uploads, Create(u)
      PROVE  record[v] # "new" => record'[v] = record[v]
  BY <1>1 DEF Create, FlowInv, TypeOK
<1>2. ASSUME NEW r \in Requests, Ends(r)
      PROVE  record'[v] # record[v] => record'[v] = "gone"
  BY <1>2 DEF Ends, Close, CloseReplyLost, FlowInv, TypeOK
<1>3. ASSUME NEW r \in Requests, Records(r)
      PROVE  UNCHANGED record
  BY <1>3 DEF Records, SetPartReplyLost, SetPart
<1> QED
  BY <1>1, <1>2, <1>3, RecordWriters

\* A record gains a part only when that part is set.
LEMMA RecordsGrow ==
  ASSUME FlowInv, [Next]_vars, NEW u \in Uploads, NEW n \in PartNumbers
  PROVE  \/ parts'[u][n] \in {parts[u][n], None}
         \/ \E r \in Requests : Records(r) /\ parts'[u][n] = r
<1> USE DEF FlowInv, TypeOK
<1>1. ASSUME NEW v \in Uploads, Create(v) PROVE parts' = parts
  BY <1>1 DEF Create
<1>2. ASSUME NEW r \in Requests, Ends(r)
      PROVE  parts'[u] \in {parts[u], NoParts}
  BY <1>2 DEF Ends, Close, CloseReplyLost
<1>3. ASSUME NEW r \in Requests, Records(r)
      PROVE  parts'[u][n] \in {parts[u][n], r}
  <2>1. \/ UNCHANGED parts
        \/ parts' = [parts EXCEPT ![UploadOf(r)][req[r].part] = r]
    BY <1>3 DEF Records, SetPartReplyLost, SetPart, Withdraw
  <2>2. parts'[u] \in {parts[u], [parts[u] EXCEPT ![req[r].part] = r]}
    BY <2>1
  <2>3. parts[u] \in [PartNumbers -> Requests \cup {None}]
    OBVIOUS
  <2> QED
    BY <2>2, <2>3
<1> QED
  BY <1>1, <1>2, <1>3, RecordWriters DEF NoParts

LEMMA PartLasts ==
  ASSUME FlowInv, [Next]_vars, NEW c \in Requests, NEW u, NEW n, PartOf(c, u, n)
  PROVE  PartOf(c, u, n)'
BY Lasting DEF LastingOf, PartOf, ReplyLost, Is, UploadOf, FlowInv, TypeOK

LEMMA ControlStep ==
  ASSUME FlowInv, [Next]_vars, NEW q \in Requests
  PROVE  ControlOf(q)'
<1> USE MultipartAssumption DEF FlowInv, FlowOf, ControlOf, TypeOK
<1> USE DEF Steps, Final, Results, Succeeded, Goto, Answer, Finish, Warn,
            uploadVars, localVars, Is, Closes, Early, Deleting
<1>1. ASSUME NEW u \in Uploads, Create(u) PROVE ControlOf(q)'
  BY <1>1 DEF Create
<1>2. ASSUME NEW r \in Requests, Start(r) PROVE ControlOf(q)'
  BY <1>2 DEF Start
<1>3. ASSUME NEW r \in Requests, Lookup(r), UNCHANGED overlapped PROVE ControlOf(q)'
  BY <1>3 DEF Lookup
<1>4. ASSUME NEW r \in Requests, LookupFails(r), UNCHANGED overlapped PROVE ControlOf(q)'
  BY <1>4 DEF LookupFails
<1>5. ASSUME NEW r \in Requests, UploadChunk(r), UNCHANGED overlapped PROVE ControlOf(q)'
  BY <1>5 DEF UploadChunk
<1>6. ASSUME NEW r \in Requests, SetPart(r), UNCHANGED overlapped PROVE ControlOf(q)'
  BY <1>6 DEF SetPart, Withdraw
<1>7. ASSUME NEW r \in Requests, SetPartFails(r), UNCHANGED overlapped PROVE ControlOf(q)'
  BY <1>7 DEF SetPartFails, Withdraw
<1>7a. ASSUME NEW r \in Requests, SetPartReplyLost(r), UNCHANGED overlapped
       PROVE  ControlOf(q)'
  BY <1>7a DEF SetPartReplyLost, Withdraw
<1>8. ASSUME NEW r \in Requests, Purge(r), UNCHANGED overlapped PROVE ControlOf(q)'
  BY <1>8 DEF Purge
<1>9. ASSUME NEW r \in Requests, Commit(r), UNCHANGED overlapped PROVE ControlOf(q)'
  BY <1>9 DEF Commit
<1>10. ASSUME NEW r \in Requests, CommitFails(r), UNCHANGED overlapped PROVE ControlOf(q)'
  BY <1>10 DEF CommitFails
<1>10a. ASSUME NEW r \in Requests, CommitReplyLost(r), UNCHANGED overlapped
       PROVE  ControlOf(q)'
  BY <1>10a DEF CommitReplyLost
<1>11. ASSUME NEW r \in Requests, CountReferences(r), UNCHANGED overlapped PROVE ControlOf(q)'
  BY <1>11 DEF CountReferences, DiscardUnnamed
<1>12. ASSUME NEW r \in Requests, CountFails(r), UNCHANGED overlapped PROVE ControlOf(q)'
  BY <1>12 DEF CountFails, DiscardUnnamed
<1>13. ASSUME NEW r \in Requests, Drop(r), UNCHANGED overlapped PROVE ControlOf(q)'
  BY <1>13 DEF Drop, DiscardUnnamed
<1>14. ASSUME NEW r \in Requests, Discard(r), UNCHANGED overlapped PROVE ControlOf(q)'
  BY <1>14 DEF Discard
<1>15. ASSUME NEW r \in Requests, Close(r), UNCHANGED overlapped PROVE ControlOf(q)'
  BY <1>15 DEF Close
<1>16. ASSUME NEW r \in Requests, CloseFails(r), UNCHANGED overlapped PROVE ControlOf(q)'
  BY <1>16 DEF CloseFails
<1>16a. ASSUME NEW r \in Requests, CloseReplyLost(r), UNCHANGED overlapped
       PROVE  ControlOf(q)'
  BY <1>16a DEF CloseReplyLost
<1>17. ASSUME NEW r \in Requests, Crash(r), UNCHANGED overlapped PROVE ControlOf(q)'
  <2>1. CASE q = r
    <3>1. pc'[q] = "crashed"
      BY <1>17, <2>1 DEF Crash
    <3> QED
      BY <3>1
  <2>2. CASE q # r
    <3>1. /\ pc'[q] = pc[q] /\ res' = res /\ req' = req
          /\ snap'[q] = snap[q]
      BY <1>17, <2>2 DEF Crash
    <3> QED
      BY <3>1
  <2> QED
    BY <2>1, <2>2
<1>18. CASE UNCHANGED vars
  BY <1>18 DEF vars
<1> QED
  BY <1>1, <1>2, <1>3, <1>4, <1>5, <1>6, <1>7, <1>7a, <1>8, <1>9, <1>10,
     <1>10a, <1>11, <1>12, <1>13, <1>14, <1>15, <1>16, <1>16a, <1>17, <1>18
     DEF Next, Step, AllServed

LEMMA NamesStep ==
  ASSUME FlowInv, [Next]_vars, NEW q \in Requests
  PROVE  NamesOf(q)'
<1> USE DEF FlowInv, FlowOf
<1>1. TypeOK'
  BY TypeStep
<1>2. CASE Start(q)
  <2>1. PICK k \in PartRequest \cup CompleteRequest \cup AbortRequest :
             /\ req' = [req EXCEPT ![q] = k] /\ record[k.upload] # "new"
             /\ k.op = "complete" => Completable(k)
    BY <1>2 DEF Start
  <2>2. /\ pc[q] = "idle" /\ snap[q] = NoParts /\ snap' = snap
        /\ record' = record /\ res' = res /\ req'[q] = k
        /\ \A p \in Requests : p # q => req'[p] = req[p]
    BY <1>2, <2>1 DEF Start, TypeOK, localVars, uploadVars, ControlOf
  <2>3. k.op = "complete" => k.list \subseteq Requests
    BY DEF PartRequest, CompleteRequest, AbortRequest
  <2>4. \A p \in Requests : Is(p, "part") => /\ p # q /\ Is(p, "part")'
                                             /\ UploadOf(p)' = UploadOf(p)
    BY <2>2 DEF Is, UploadOf, TypeOK
  <2>5. ASSUME k.op = "complete", NEW p \in k.list
        PROVE  /\ Is(p, "part") /\ UploadOf(p) = k.upload
               /\ res[p] \in Succeeded \/ ReplyLost(p)
    <3>1. k.upload \in Uploads
      BY DEF PartRequest, CompleteRequest, AbortRequest
    <3>2. /\ Is(p, "part") /\ UploadOf(p) = k.upload
          /\ res[p] \in Succeeded \/ p \in ChunksIn(parts[k.upload])
      BY <2>1, <2>5 DEF Completable
    <3>3. p \in ChunksIn(parts[k.upload])
            => res[p] \in Succeeded \/ ReplyLost(p)
      BY <3>1 DEF ChunksIn, Recorded, PartOf
    <3> QED
      BY <3>2, <3>3
  <2>6. ASSUME Is(q, "complete")', NEW p \in req'[q].list
        PROVE  /\ Is(p, "part")' /\ UploadOf(p)' = UploadOf(q)'
               /\ res'[p] \in Succeeded \/ ReplyLost(p)'
    <3>1. k.op = "complete" /\ p \in k.list /\ p \in Requests
      BY <2>2, <2>3, <2>6 DEF Is
    <3> QED
      BY <2>2, <2>4, <2>5, <3>1 DEF ReplyLost, UploadOf
  <2>7. record'[UploadOf(q)'] # "new" /\ \A n \in PartNumbers : snap'[q][n] = None
    BY <2>1, <2>2 DEF UploadOf, NoParts
  <2> QED
    BY <2>6, <2>7 DEF NamesOf
<1>3. CASE ~Start(q)
  <2>1. req'[q] = req[q] /\ (pc'[q] # "idle" => pc[q] # "idle")
    BY <1>1, <1>3, Lasting DEF LastingOf, TypeOK
  <2>2. pc'[q] # "idle" => record'[UploadOf(q)] # "new"
    BY <2>1, Asked, LastingRecord DEF NamesOf
  <2>3. ASSUME Is(q, "complete"), NEW p \in req[q].list
        PROVE  /\ Is(p, "part")' /\ UploadOf(p)' = UploadOf(q)
               /\ res'[p] \in Succeeded \/ ReplyLost(p)'
    <3>1. p \in Requests
      BY <2>3, CompletionList
    <3>2. LastingOf(p)
      BY <3>1, Lasting
    <3> QED
      BY <2>3, <3>1, <3>2 DEF NamesOf, LastingOf, ReplyLost, Is, UploadOf, TypeOK
  <2>4. ASSUME NEW n \in PartNumbers, snap'[q][n] # None
        PROVE  PartOf(snap[q][n], UploadOf(q), n)'
    <3>1. CASE snap'[q] = snap[q]
      <4>1. snap[q][n] \in Requests
        BY <2>4, <3>1 DEF TypeOK
      <4>2. PartOf(snap[q][n], UploadOf(q), n)
        BY <2>4, <3>1 DEF NamesOf
      <4> QED
        BY <2>1, <3>1, <4>1, <4>2, PartLasts DEF PartOf, Is, UploadOf
    <3>2. CASE snap'[q] = NoParts
      BY <2>4, <3>2 DEF NoParts
    <3>3. CASE pc[q] = "lookup" /\ snap'[q] = parts[UploadOf(q)]
      <4>1. UploadOf(q) \in Uploads
        BY <3>3, Asked
      <4>2. parts[UploadOf(q)][n] \in Requests
        BY <2>4, <3>3, <4>1 DEF TypeOK
      <4>3. PartOf(parts[UploadOf(q)][n], UploadOf(q), n)
        BY <2>4, <3>3, <4>1 DEF Recorded
      <4> QED
        BY <2>1, <3>3, <4>2, <4>3, PartLasts DEF PartOf, Is, UploadOf
    <3> QED
      BY <3>1, <3>2, <3>3, Lasting DEF LastingOf
  <2>5. ASSUME Is(q, "complete")', NEW p \in req'[q].list
        PROVE  /\ Is(p, "part")' /\ UploadOf(p)' = UploadOf(q)'
               /\ res'[p] \in Succeeded \/ ReplyLost(p)'
    <3>1. Is(q, "complete") /\ UploadOf(q)' = UploadOf(q)
      BY <2>1, <2>5 DEF Is, UploadOf
    <3> QED
      BY <2>1, <2>3, <2>5, <3>1
  <2>6. ASSUME NEW n \in PartNumbers, snap'[q][n] # None
        PROVE  PartOf(snap[q][n], UploadOf(q), n)'
    BY <2>4, <2>6
  <2>7. pc'[q] # "idle" => record'[UploadOf(q)'] # "new"
    BY <2>1, <2>2 DEF UploadOf
  <2> QED
    BY <2>5, <2>6, <2>7 DEF NamesOf
<1> QED
  BY <1>2, <1>3

LEMMA RecordedStep == FlowInv /\ [Next]_vars => Recorded'
<1> SUFFICES ASSUME FlowInv, [Next]_vars, NEW u \in Uploads
             PROVE  /\ record'[u] # "open" => parts'[u] = NoParts
                    /\ \A n \in PartNumbers :
                         parts'[u][n] # None => PartOf(parts[u][n], u, n)'
  BY DEF Recorded
<1> USE DEF FlowInv
<1>1. ASSUME parts'[u] \in {parts[u], NoParts}, NEW n \in PartNumbers,
             parts'[u][n] # None
      PROVE  PartOf(parts[u][n], u, n)'
  <2>1. parts'[u] = parts[u]
    BY <1>1 DEF NoParts
  <2>2. parts[u][n] \in Requests /\ PartOf(parts[u][n], u, n)
    BY <1>1, <2>1 DEF TypeOK, Recorded
  <2> QED
    BY <2>1, <2>2, PartLasts DEF PartOf, Is, UploadOf
<1>2. ASSUME NEW v \in Uploads, Create(v)
      PROVE  /\ record'[u] # "open" => parts'[u] = NoParts
             /\ parts'[u] = parts[u]
  BY <1>2 DEF Create, TypeOK, Recorded
<1>3. ASSUME NEW r \in Requests, Ends(r)
      PROVE  /\ record'[u] # "open" => parts'[u] = NoParts
             /\ parts'[u] \in {parts[u], NoParts}
  BY <1>3 DEF Ends, Close, CloseReplyLost, TypeOK, Recorded
<1>4. ASSUME NEW r \in Requests, Records(r)
      PROVE  /\ record'[u] # "open" => parts'[u] = NoParts
             /\ \A n \in PartNumbers :
                  parts'[u][n] # None => PartOf(parts[u][n], u, n)'
  <2> DEFINE k == req[r].part
  <2>1. CASE UNCHANGED parts \/ UploadOf(r) # u
    <3>1. record' = record /\ parts'[u] = parts[u]
      BY <1>4, <2>1 DEF Records, SetPart, SetPartReplyLost, Withdraw, TypeOK
    <3> QED
      BY <1>1, <3>1 DEF Recorded
  <2>2. CASE UploadOf(r) = u /\ ~UNCHANGED parts
    <3>1. /\ record[u] = "open" /\ record' = record
          /\ parts' = [parts EXCEPT ![u][k] = r]
          /\ req' = req /\ pc[r] = "setpart"
          /\ res'[r] = "ok" \/ ("reply" \in Faults /\ res'[r] = "err")
      BY <1>4, <2>2
         DEF Records, SetPart, SetPartReplyLost, Withdraw, Answer, Finish, TypeOK
    <3>2. k \in PartNumbers /\ Is(r, "part")
      BY <3>1, PartNumber DEF FlowOf, ControlOf
    <3>3. ASSUME NEW n \in PartNumbers, n # k, parts'[u][n] # None
          PROVE  PartOf(parts[u][n], u, n)'
      <4>1. parts'[u][n] = parts[u][n]
        BY <3>1, <3>2, <3>3 DEF TypeOK
      <4>2. parts[u][n] \in Requests /\ PartOf(parts[u][n], u, n)
        BY <3>3, <4>1 DEF TypeOK, Recorded
      <4> QED
        BY <4>1, <4>2, PartLasts DEF PartOf, Is, UploadOf
    <3>4. parts'[u][k] = r
      BY <3>1, <3>2 DEF TypeOK
    <3>5. PartOf(parts[u][k], u, k)'
      BY <2>2, <3>1, <3>2, <3>4 DEF PartOf, ReplyLost, Is, UploadOf, Succeeded
    <3> QED
      BY <3>1, <3>3, <3>5
  <2> QED
    BY <2>1, <2>2
<1>5. ASSUME UNCHANGED <<record, parts>>
      PROVE  /\ record'[u] # "open" => parts'[u] = NoParts
             /\ parts'[u] = parts[u]
  BY <1>5 DEF Recorded
<1> QED
  BY <1>1, <1>2, <1>3, <1>4, <1>5, RecordWriters

LEMMA AcknowledgedStep == FlowInv /\ [Next]_vars => Acknowledged'
<1> SUFFICES ASSUME FlowInv, [Next]_vars, NEW r \in Requests,
                    Is(r, "part")', res'[r] \in Succeeded,
                    (record[UploadOf(r)] = "open")'
             PROVE  (parts[UploadOf(r)][req[r].part])' # None
  BY DEF Acknowledged
<1> USE MultipartAssumption DEF FlowInv
<1>1. res[r] # "none" \/ SetPart(r)
  <2>1. TypeOK' /\ ControlOf(r)'
    BY TypeStep, ControlStep
  <2>2. pc'[r] \notin Early
    BY <2>1 DEF ControlOf, Early, Succeeded
  <2>3. ~Start(r)
    BY <2>2 DEF Start, Goto, Early, TypeOK
  <2>4. pc[r] # "idle"
    BY <2>2, <2>3, Lasting DEF LastingOf, Early
  <2>5. Is(r, "part")
    BY <2>4, Asked, Lasting DEF LastingOf, Is
  <2> QED
    BY <2>5, Lasting DEF LastingOf, Succeeded
<1>2. pc[r] # "idle"
  BY <1>1 DEF FlowOf, ControlOf, Early, SetPart
<1>3. Is(r, "part") /\ req'[r] = req[r]
  BY <1>2, Asked, Lasting DEF LastingOf, Is
<1> DEFINE u == UploadOf(r)
           n == req[r].part
<1>4. u \in Uploads /\ n \in PartNumbers
  BY <1>2, <1>3, Asked, PartNumber
<1>5. record[u] # "new" /\ record'[u] = "open"
  BY <1>2, <1>3 DEF FlowOf, NamesOf, UploadOf
<1>6. record[u] = "open"
  BY <1>4, <1>5, LastingRecord DEF TypeOK
<1>7. SetPart(r) \/ parts[u][n] # None
  BY <1>3, <1>6, Lasting DEF LastingOf, Acknowledged
<1>8. ASSUME SetPart(r) PROVE parts'[u][n] # None
  <2>1. parts' = [parts EXCEPT ![u][n] = r]
    BY <1>6, <1>8 DEF SetPart
  <2> QED
    BY <1>4, <2>1 DEF TypeOK
<1>9. ASSUME NEW q \in Requests, Records(q), parts[u][n] # None
      PROVE  parts'[u][n] # None
  <2>1. UNCHANGED parts \/ parts' = [parts EXCEPT ![UploadOf(q)][req[q].part] = q]
    BY <1>9 DEF Records, SetPart, SetPartReplyLost, Withdraw
  <2>2. parts'[u] \in {parts[u], [parts[u] EXCEPT ![req[q].part] = q]}
    BY <1>4, <2>1 DEF TypeOK
  <2>3. parts[u] \in [PartNumbers -> Requests \cup {None}]
    BY <1>4 DEF TypeOK
  <2> QED
    BY <1>4, <1>9, <2>2, <2>3
<1>10. ASSUME NEW v \in Uploads, Create(v)
       PROVE  parts' = parts
  BY <1>10 DEF Create
<1>11. ASSUME NEW q \in Requests, Ends(q)
       PROVE  parts'[u] = parts[u]
  BY <1>4, <1>5, <1>11 DEF Ends, Close, CloseReplyLost, TypeOK
<1>12. parts'[u][n] # None
  BY <1>7, <1>8, <1>9, <1>10, <1>11, RecordWriters
<1> QED
  BY <1>3, <1>12 DEF UploadOf

LEMMA FlowInvariant == Spec => []FlowInv
<1>1. FlowInv /\ [Next]_vars => FlowInv'
  BY TypeStep, ControlStep, NamesStep, RecordedStep, AcknowledgedStep
     DEF FlowInv, FlowOf
<1> QED
  BY FlowInit, <1>1, PTL DEF Spec

\* Every variable keeps its type, whatever interleaves, fails or crashes.
THEOREM MultipartTypeCorrect == Spec => []TypeOK
BY FlowInvariant, PTL DEF FlowInv

\* A part a client was told is stored is in the record until another upload of
\* the same part took its place, however many UploadParts run at once; and that
\* one was told so too, or its reply was lost.
THEOREM NoPartIsLost == Spec => []NoPartLost
<1>1. ASSUME FlowInv, NEW r \in Requests, Is(r, "part"),
             res[r] \in Succeeded, record[UploadOf(r)] = "open"
      PROVE  LET recorded == parts[UploadOf(r)][req[r].part]
             IN  /\ recorded # None
                 /\ recorded # r =>
                      /\ Is(recorded, "part")
                      /\ res[recorded] \in Succeeded \/ ReplyLost(recorded)
  <2>1. pc[r] # "idle"
    BY <1>1 DEF FlowInv, FlowOf, ControlOf, Early, Succeeded
  <2>2. UploadOf(r) \in Uploads /\ req[r].part \in PartNumbers
    BY <1>1, <2>1, Asked, PartNumber DEF FlowInv
  <2> QED
    BY <1>1, <2>2 DEF FlowInv, Acknowledged, Recorded, PartOf
<1>2. FlowInv => NoPartLost
  BY <1>1 DEF NoPartLost
<1> QED
  BY FlowInvariant, <1>2, PTL

(***************************************************************************)
(* Where chunks are named, and what is deleted.                            *)
(***************************************************************************)

\* A completion or an abort of u has read the record.
Witness(u) ==
  \E r \in Requests : /\ Closes(r) /\ UploadOf(r) = u
                      /\ snap[r] # NoParts \/ pc[r] = "crashed"

\* Chunks that are being purged are in no record and never will be, but for one
\* whose recording had its reply lost.
PurgeOf(r) ==
  pc[r] = "purge" =>
    \A c \in doomed[r] :
      /\ c \in Requests /\ Is(c, "part") /\ UploadOf(c) = UploadOf(r)
      /\ pc[c] \notin Early
      /\ ReplyLost(c) \/ \A u \in Uploads, n \in PartNumbers : parts[u][n] # c

DiscardOf(r) ==
  pc[r] = "discard" =>
    /\ doomed[r] \subseteq ChunksIn(snap[r])
    /\ Is(r, "complete") => doomed[r] \cap req[r].list = {}

\* Chunks of a replaced object were named by a completion.
CleanupOf(r) ==
  /\ pc[r] = "drop" => \A c \in doomed[r] \cap Requests : Named(c)
  /\ \A c \in work[r] \cap Requests : Named(c)

DoomedOf(r) == /\ pc[r] = "setpart" => r \in store
               /\ PurgeOf(r) /\ DiscardOf(r) /\ CleanupOf(r)

ObjectsNamed == \A c \in Requests : InObject(c) => Named(c)

RecordedKept ==
  \A u \in Uploads, n \in PartNumbers :
    parts[u][n] \notin store \cup {None} => Witness(u) \/ ReplyLost(parts[u][n])

DoomedInv ==
  FlowInv /\ (\A r \in Requests : DoomedOf(r)) /\ ObjectsNamed /\ RecordedKept

LEMMA DoomedInit == Init => DoomedInv
<1> SUFFICES ASSUME Init PROVE DoomedInv
  OBVIOUS
<1>1. FlowInv
  BY FlowInit
<1> QED
  BY <1>1, MultipartAssumption
     DEF Init, DoomedInv, DoomedOf, PurgeOf, DiscardOf, CleanupOf,
         ObjectsNamed, RecordedKept, InObject, NoParts

LEMMA NamedLasts ==
  ASSUME FlowInv, [Next]_vars, NEW c \in Requests, Named(c)
  PROVE  Named(c)'
<1>1. PICK q \in Requests : Committed(q) /\ c \in req[q].list
  BY DEF Named
<1>2. req'[q] = req[q] /\ Committed(q)'
  BY <1>1, Lasting DEF LastingOf, Committed, Deleting, Final, FlowInv, TypeOK
<1> QED
  BY <1>1, <1>2 DEF Named

LEMMA WitnessLasts ==
  ASSUME FlowInv, [Next]_vars, NEW u \in Uploads, Witness(u)
  PROVE  Witness(u)'
<1>1. PICK r \in Requests : /\ Closes(r) /\ UploadOf(r) = u
                            /\ snap[r] # NoParts \/ pc[r] = "crashed"
  BY DEF Witness
<1>2. pc[r] # "idle"
  BY <1>1 DEF Closes, Is, FlowInv, TypeOK
<1>3. Closes(r)' /\ UploadOf(r)' = u
  BY <1>1, <1>2, Lasting DEF LastingOf, Closes, Is, UploadOf
<1>4. snap'[r] # NoParts \/ pc'[r] = "crashed"
  BY <1>1, Lasting DEF LastingOf, Final
<1> QED
  BY <1>3, <1>4 DEF Witness, NoParts

\* A chunk that a completion named is a part of that completion's upload,
\* which has read its record.
LEMMA NamedParts ==
  ASSUME FlowInv, NEW c \in Requests, Named(c)
  PROVE  Is(c, "part") /\ pc[c] \notin Early /\ Witness(UploadOf(c))
<1>1. PICK q \in Requests : Committed(q) /\ c \in req[q].list
  BY DEF Named
<1>2. /\ Is(c, "part") /\ UploadOf(c) = UploadOf(q)
      /\ res[c] \in Succeeded \/ ReplyLost(c)
  BY <1>1 DEF FlowInv, FlowOf, NamesOf, Committed
<1>3. pc[c] \notin Early
  BY <1>2 DEF FlowInv, FlowOf, ControlOf, ReplyLost, Early, Succeeded
<1>4. snap[q] # NoParts \/ pc[q] = "crashed"
  <2>1. req[q].list \subseteq ChunksIn(snap[q]) \/ pc[q] = "crashed"
    BY <1>1 DEF FlowInv, FlowOf, ControlOf, Committed
  <2> QED
    BY <1>1, <2>1 DEF ChunksIn, NoParts
<1> QED
  BY <1>1, <1>2, <1>3, <1>4 DEF Witness, Committed, Closes

\* Where a request gets the chunks it is to delete from.
DoomedFrom(q) ==
  /\ pc'[q] = "setpart" => pc[q] = "setpart" \/ q \in store'
  /\ pc'[q] = "purge" =>
       \/ pc[q] = "purge" /\ doomed'[q] = doomed[q]
       \/ pc[q] = "setpart" /\ doomed'[q] = {q} /\ parts' = parts
       \/ /\ pc[q] = "setpart" /\ doomed'[q] = {q}
          /\ "reply" \in Faults /\ res'[q] = "err"
       \/ LET u == UploadOf(q)
              n == req[q].part
          IN  /\ pc[q] = "setpart" /\ parts[u][n] # None
              /\ doomed'[q] = {parts[u][n]}
              /\ parts' = [parts EXCEPT ![u][n] = q]
  /\ pc'[q] = "drop" =>
       \/ pc[q] = "drop" /\ doomed'[q] = doomed[q]
       \/ \E c \in work[q] : doomed'[q] = {c}
  /\ \/ work'[q] \subseteq work[q]
     \/ \E k \in Keys : files[k] # None /\ work'[q] = files[k]
  /\ DiscardOf(q)'

LEMMA DoomedFromOf ==
  ASSUME DoomedInv, [Next]_vars, NEW q \in Requests
  PROVE  DoomedFrom(q)
<1> USE MultipartAssumption
    DEF DoomedInv, DoomedOf, FlowInv, TypeOK, DoomedFrom, DiscardOf
<1> USE DEF Steps, Final, Goto, Answer, Finish, Warn, uploadVars, localVars, Is
<1>1. ASSUME NEW u \in Uploads, Create(u) PROVE DoomedFrom(q)
  BY <1>1 DEF Create
<1>2. ASSUME NEW r \in Requests, Start(r) PROVE DoomedFrom(q)
  BY <1>2 DEF Start
<1>3. ASSUME NEW r \in Requests, Lookup(r), UNCHANGED overlapped PROVE DoomedFrom(q)
  BY <1>3 DEF Lookup
<1>4. ASSUME NEW r \in Requests, LookupFails(r), UNCHANGED overlapped PROVE DoomedFrom(q)
  BY <1>4 DEF LookupFails
<1>5. ASSUME NEW r \in Requests, UploadChunk(r), UNCHANGED overlapped PROVE DoomedFrom(q)
  BY <1>5 DEF UploadChunk
<1>6. ASSUME NEW r \in Requests, SetPart(r), UNCHANGED overlapped PROVE DoomedFrom(q)
  BY <1>6 DEF SetPart, Withdraw
<1>7. ASSUME NEW r \in Requests, SetPartFails(r), UNCHANGED overlapped PROVE DoomedFrom(q)
  BY <1>7 DEF SetPartFails, Withdraw
<1>7a. ASSUME NEW r \in Requests, SetPartReplyLost(r), UNCHANGED overlapped
       PROVE  DoomedFrom(q)
  BY <1>7a DEF SetPartReplyLost, Withdraw
<1>8. ASSUME NEW r \in Requests, Purge(r), UNCHANGED overlapped PROVE DoomedFrom(q)
  BY <1>8 DEF Purge
<1>9. ASSUME NEW r \in Requests, Commit(r), UNCHANGED overlapped PROVE DoomedFrom(q)
  BY <1>9, Asked DEF Commit, FlowOf, ControlOf
<1>10. ASSUME NEW r \in Requests, CommitFails(r), UNCHANGED overlapped PROVE DoomedFrom(q)
  BY <1>10 DEF CommitFails
<1>10a. ASSUME NEW r \in Requests, CommitReplyLost(r), UNCHANGED overlapped
       PROVE  DoomedFrom(q)
  BY <1>10a DEF CommitReplyLost
<1>11. ASSUME NEW r \in Requests, CountReferences(r), UNCHANGED overlapped PROVE DoomedFrom(q)
  <2>1. CASE q # r
    <3>1. /\ pc'[q] = pc[q] /\ work'[q] = work[q] /\ doomed'[q] = doomed[q]
          /\ UNCHANGED <<store, snap, req>>
      BY <1>11, <2>1 DEF CountReferences, DiscardUnnamed
    <3> QED
      BY <3>1
  <2>2. CASE q = r /\ work[r] = {}
    BY <1>11, <2>2 DEF CountReferences, DiscardUnnamed
  <2>3. CASE q = r /\ work[r] # {}
    <3>1. PICK c \in work[r] :
            /\ work' = [work EXCEPT ![r] = @ \ {c}]
            /\ \/ UNCHANGED <<pc, doomed>>
               \/ Goto(r, "drop") /\ doomed' = [doomed EXCEPT ![r] = {c}]
      BY <1>11, <2>3 DEF CountReferences
    <3>2. pc[r] = "count" /\ UNCHANGED <<store, snap, req>>
      BY <1>11 DEF CountReferences
    <3>3. work'[q] \subseteq work[q]
      BY <2>3, <3>1
    <3>4. CASE UNCHANGED <<pc, doomed>>
      BY <2>3, <3>2, <3>3, <3>4
    <3>5. CASE Goto(r, "drop") /\ doomed' = [doomed EXCEPT ![r] = {c}]
      <4>1. pc'[q] = "drop" /\ doomed'[q] = {c}
        BY <2>3, <3>5
      <4> QED
        BY <2>3, <3>1, <3>3, <4>1
    <3> QED
      BY <3>1, <3>4, <3>5
  <2> QED
    BY <2>1, <2>2, <2>3
<1>12. ASSUME NEW r \in Requests, CountFails(r), UNCHANGED overlapped PROVE DoomedFrom(q)
  BY <1>12 DEF CountFails, DiscardUnnamed
<1>13. ASSUME NEW r \in Requests, Drop(r), UNCHANGED overlapped PROVE DoomedFrom(q)
  BY <1>13 DEF Drop, DiscardUnnamed
<1>14. ASSUME NEW r \in Requests, Discard(r), UNCHANGED overlapped PROVE DoomedFrom(q)
  BY <1>14 DEF Discard
<1>15. ASSUME NEW r \in Requests, Close(r), UNCHANGED overlapped PROVE DoomedFrom(q)
  BY <1>15 DEF Close
<1>16. ASSUME NEW r \in Requests, CloseFails(r), UNCHANGED overlapped PROVE DoomedFrom(q)
  BY <1>16 DEF CloseFails
<1>16a. ASSUME NEW r \in Requests, CloseReplyLost(r), UNCHANGED overlapped
       PROVE  DoomedFrom(q)
  BY <1>16a DEF CloseReplyLost
<1>17. ASSUME NEW r \in Requests, Crash(r), UNCHANGED overlapped PROVE DoomedFrom(q)
  BY <1>17 DEF Crash, Active
<1>18. CASE UNCHANGED vars
  BY <1>18 DEF vars
<1> QED
  BY <1>1, <1>2, <1>3, <1>4, <1>5, <1>6, <1>7, <1>7a, <1>8, <1>9, <1>10,
     <1>10a, <1>11, <1>12, <1>13, <1>14, <1>15, <1>16, <1>16a, <1>17, <1>18
     DEF Next, Step, AllServed

\* Only Purge, Drop and Discard delete chunks.
LEMMA StoreWriters ==
  ASSUME [Next]_vars
  PROVE  \/ store \subseteq store'
         \/ \E r \in Requests : /\ pc[r] \in {"purge", "drop"}
                                /\ store' = store \ doomed[r]
         \/ \E r \in Requests : /\ pc[r] = "discard"
                                /\ \E c \in doomed[r] : store' = store \ {c}
BY DEF Next, Step, AllServed, vars, uploadVars, Create, Start, Lookup,
       LookupFails, UploadChunk, SetPart, SetPartFails, SetPartReplyLost, Purge,
       Commit, CommitFails, CommitReplyLost, CountReferences, CountFails, Drop,
       Discard, Close, CloseFails, CloseReplyLost, Crash

\* A chunk in a copy of the record is a part of that upload.
LEMMA SnapParts ==
  ASSUME FlowInv, NEW r \in Requests, NEW c \in ChunksIn(snap[r])
  PROVE  /\ c \in Requests /\ Is(c, "part") /\ UploadOf(c) = UploadOf(r)
         /\ pc[c] \notin Early
<1>1. PICK n \in PartNumbers : snap[r][n] = c /\ c # None
  BY DEF ChunksIn
<1>2. c \in Requests
  BY <1>1 DEF FlowInv, TypeOK
<1>3. PartOf(c, UploadOf(r), n)
  BY <1>1 DEF FlowInv, FlowOf, NamesOf
<1>4. ControlOf(c)
  BY <1>2 DEF FlowInv, FlowOf
<1> QED
  BY <1>2, <1>3, <1>4 DEF PartOf, ControlOf, ReplyLost, Early, Succeeded

\* The three ways in which a part can be deleted.
LEMMA Deletions ==
  ASSUME DoomedInv, [Next]_vars,
         NEW c \in Requests, c \in store, c \notin store'
  PROVE  /\ Is(c, "part") /\ pc[c] \notin Early
         /\ \/ \A u \in Uploads, n \in PartNumbers : parts[u][n] # c
            \/ ReplyLost(c) \/ Named(c)
            \/ \E r \in Requests : /\ pc[r] = "discard" /\ c \in doomed[r]
                                   /\ UploadOf(r) = UploadOf(c)
                                   /\ c \in ChunksIn(snap[r])
<1> USE DEF DoomedInv, DoomedOf
<1>1. ASSUME NEW r \in Requests, pc[r] = "purge", c \in doomed[r]
      PROVE  /\ Is(c, "part") /\ pc[c] \notin Early
             /\ \/ ReplyLost(c)
                \/ \A u \in Uploads, n \in PartNumbers : parts[u][n] # c
  BY <1>1 DEF PurgeOf
<1>2. ASSUME NEW r \in Requests, pc[r] = "drop", c \in doomed[r]
      PROVE  Is(c, "part") /\ pc[c] \notin Early /\ Named(c)
  BY <1>2, NamedParts DEF CleanupOf
<1>3. ASSUME NEW r \in Requests, pc[r] = "discard", c \in doomed[r]
      PROVE  /\ Is(c, "part") /\ pc[c] \notin Early
             /\ UploadOf(r) = UploadOf(c) /\ c \in ChunksIn(snap[r])
  BY <1>3, SnapParts DEF DiscardOf
<1> QED
  BY <1>1, <1>2, <1>3, StoreWriters

\* A request that has not recorded its part is in no record.
LEMMA NotYetRecorded ==
  ASSUME FlowInv, NEW r \in Requests, pc[r] \in Early,
         NEW u \in Uploads, NEW n \in PartNumbers
  PROVE  parts[u][n] # r
BY MultipartAssumption
   DEF FlowInv, FlowOf, ControlOf, Recorded, PartOf, ReplyLost, Early, Succeeded

LEMMA PurgeStep ==
  ASSUME DoomedInv, [Next]_vars, NEW q \in Requests
  PROVE  PurgeOf(q)'
<1> USE DEF DoomedInv
<1> SUFFICES ASSUME pc'[q] = "purge", NEW c \in doomed'[q]
             PROVE  /\ c \in Requests /\ Is(c, "part")'
                    /\ UploadOf(c)' = UploadOf(q)' /\ pc'[c] \notin Early
                    /\ \/ ReplyLost(c)'
                       \/ \A u \in Uploads, n \in PartNumbers : parts'[u][n] # c
  BY DEF PurgeOf
<1>1. pc[q] # "idle" /\ req'[q] = req[q]
  <2>1. DoomedFrom(q)
    BY DoomedFromOf
  <2>2. pc[q] # "idle"
    BY <2>1 DEF DoomedFrom
  <2> QED
    BY <2>2, Lasting DEF LastingOf
<1>2. CASE pc[q] = "purge" /\ doomed'[q] = doomed[q]
  <2>1. /\ c \in Requests /\ Is(c, "part") /\ UploadOf(c) = UploadOf(q)
        /\ pc[c] \notin Early
        /\ ReplyLost(c) \/ \A u \in Uploads, n \in PartNumbers : parts[u][n] # c
    BY <1>2 DEF DoomedOf, PurgeOf
  <2>2. req'[c] = req[c] /\ pc'[c] \notin Early
    BY <2>1, Lasting DEF LastingOf, Early
  <2>3. ReplyLost(c)' \/ \A u \in Uploads, n \in PartNumbers : parts'[u][n] # c
    <3>1. ~Records(c) /\ c # None
      BY <2>1, MultipartAssumption
         DEF Records, SetPart, SetPartReplyLost, Early
    <3>2. ReplyLost(c) => ReplyLost(c)'
      BY <2>1, <2>2, Lasting DEF LastingOf, ReplyLost, Is
    <3> QED
      BY <2>1, <3>1, <3>2, RecordsGrow
  <2> QED
    BY <1>1, <2>1, <2>2, <2>3 DEF Is, UploadOf
<1>3. CASE pc[q] = "setpart" /\ doomed'[q] = {q} /\ parts' = parts
  <2>1. Is(q, "part") /\ c = q
    BY <1>3 DEF FlowInv, FlowOf, ControlOf
  <2>2. \A u \in Uploads, n \in PartNumbers : parts[u][n] # q
    BY <1>3, NotYetRecorded DEF Early
  <2> QED
    BY <1>1, <1>3, <2>1, <2>2 DEF Is, UploadOf, Early
<1>3a. CASE /\ pc[q] = "setpart" /\ doomed'[q] = {q}
            /\ "reply" \in Faults /\ res'[q] = "err"
  <2>1. Is(q, "part") /\ c = q
    BY <1>3a DEF FlowInv, FlowOf, ControlOf
  <2> QED
    BY <1>1, <1>3a, <2>1 DEF ReplyLost, Is, UploadOf, Early
<1>4. ASSUME NEW v, NEW k, v = UploadOf(q), k = req[q].part,
             pc[q] = "setpart", parts[v][k] # None,
             doomed'[q] = {parts[v][k]},
             parts' = [parts EXCEPT ![v][k] = q]
      PROVE  /\ c \in Requests /\ Is(c, "part")'
             /\ UploadOf(c)' = UploadOf(q)' /\ pc'[c] \notin Early
             /\ \A u \in Uploads, n \in PartNumbers : parts'[u][n] # c
  <2>1. Is(q, "part") /\ v \in Uploads /\ k \in PartNumbers
    <3>1. Is(q, "part")
      BY <1>4 DEF FlowInv, FlowOf, ControlOf
    <3> QED
      BY <1>1, <1>4, <3>1, Asked, PartNumber DEF FlowInv
  <2>2. c = parts[v][k] /\ c \in Requests /\ PartOf(c, v, k)
    BY <1>4, <2>1 DEF FlowInv, TypeOK, Recorded
  <2>3. PartOf(c, v, k)' /\ pc[c] \notin Early /\ c # q
    <3>1. PartOf(c, v, k)'
      BY <2>2, PartLasts DEF PartOf, Is, UploadOf, FlowInv
    <3>2. pc[c] \notin Early
      BY <2>1, <2>2, NotYetRecorded DEF FlowInv
    <3> QED
      BY <1>4, <3>1, <3>2 DEF Early
  <2>4. pc'[c] \notin Early
    BY <2>2, <2>3, Lasting DEF LastingOf
  <2>5. ASSUME NEW u \in Uploads, NEW n \in PartNumbers, parts'[u][n] = c
        PROVE  FALSE
    <3>1. parts'[u][n] = IF u = v /\ n = k THEN q ELSE parts[u][n]
      BY <1>4, <2>1 DEF FlowInv, TypeOK
    <3>2. parts[u][n] = c /\ (u # v \/ n # k)
      BY <2>3, <2>5, <3>1
    <3>3. PartOf(c, u, n)
      BY <2>2, <3>2, MultipartAssumption DEF FlowInv, Recorded
    <3> QED
      BY <2>2, <3>2, <3>3 DEF PartOf
  <2> QED
    BY <1>1, <1>4, <2>2, <2>3, <2>4, <2>5 DEF PartOf, Is, UploadOf
<1> QED
  BY <1>2, <1>3, <1>3a, <1>4, DoomedFromOf DEF DoomedFrom

LEMMA CleanupStep ==
  ASSUME DoomedInv, [Next]_vars, NEW q \in Requests
  PROVE  CleanupOf(q)'
<1> USE DEF DoomedInv
<1>1. DoomedFrom(q)
  BY DoomedFromOf
<1>2. ASSUME pc'[q] = "drop", NEW c \in doomed'[q] \cap Requests
      PROVE  Named(c)'
  <2>1. Named(c)
    BY <1>1, <1>2 DEF DoomedFrom, DoomedOf, CleanupOf
  <2> QED
    BY <2>1, NamedLasts DEF Named, Committed, Is
<1>3. ASSUME NEW c \in work'[q] \cap Requests
      PROVE  Named(c)'
  <2>1. Named(c)
    BY <1>1, <1>3 DEF DoomedFrom, DoomedOf, CleanupOf, ObjectsNamed, InObject
  <2> QED
    BY <2>1, NamedLasts DEF Named, Committed, Is
<1> QED
  BY <1>2, <1>3 DEF CleanupOf, Named, Committed, Is

LEMMA DoomedStep ==
  ASSUME DoomedInv, [Next]_vars, NEW q \in Requests
  PROVE  DoomedOf(q)'
<1>1. DoomedFrom(q)
  BY DoomedFromOf
<1>2. pc'[q] = "setpart" => q \in store'
  <2>1. CASE pc[q] = "setpart"
    BY <2>1, Deletions DEF DoomedInv, DoomedOf, Early
  <2> QED
    BY <1>1, <2>1 DEF DoomedFrom
<1>3. PurgeOf(q)'
  BY PurgeStep
<1>4. CleanupOf(q)'
  BY CleanupStep
<1> QED
  BY <1>1, <1>2, <1>3, <1>4 DEF DoomedOf, DoomedFrom

\* Only Commit writes object documents.
LEMMA FilesWriters ==
  ASSUME [Next]_vars
  PROVE  UNCHANGED files \/ \E r \in Requests : Stores(r)
BY DEF Next, Step, AllServed, vars, uploadVars, Create, Start, Lookup,
       LookupFails, UploadChunk, SetPart, SetPartFails, SetPartReplyLost, Purge,
       CommitFails, CountReferences, CountFails, Drop, Discard, Close,
       CloseFails, CloseReplyLost, Crash, Stores

LEMMA ObjectsNamedStep == DoomedInv /\ [Next]_vars => ObjectsNamed'
<1> SUFFICES ASSUME DoomedInv, [Next]_vars, NEW c \in Requests,
                    NEW k \in Keys, files'[k] # None, c \in files'[k]
             PROVE  Named(c)'
  BY DEF ObjectsNamed, InObject, Named, Committed, Is
<1> USE DEF DoomedInv
<1>1. CASE files'[k] = files[k]
  <2>1. Named(c)
    BY <1>1 DEF ObjectsNamed, InObject
  <2> QED
    BY <2>1, NamedLasts DEF Named, Committed, Is
<1>2. ASSUME NEW r \in Requests, Stores(r), files'[k] # files[k]
      PROVE  Named(c)'
  <2>1. /\ files'[k] = req[r].list /\ Is(r, "complete") /\ req' = req
        /\ snap' = snap /\ req[r].list \subseteq ChunksIn(snap[r])
    BY <1>2 DEF Stores, Commit, CommitReplyLost, FlowInv, TypeOK, FlowOf,
                ControlOf, localVars
  <2>2. \/ pc'[r] = "count" /\ res'[r] = "ok"
        \/ pc'[r] = "done" /\ res'[r] = "err"
    BY <1>2 DEF Stores, Commit, CommitReplyLost, Goto, Answer, Finish,
                FlowInv, TypeOK
  <2> QED
    BY <2>1, <2>2 DEF Named, Committed, Is, Deleting, Succeeded
<1> QED
  BY <1>1, <1>2, FilesWriters

LEMMA RecordedKeptStep == DoomedInv /\ [Next]_vars => RecordedKept'
<1> SUFFICES ASSUME DoomedInv, [Next]_vars,
                    NEW u \in Uploads, NEW n \in PartNumbers,
                    parts'[u][n] \notin store' \cup {None}
             PROVE  Witness(u)' \/ ReplyLost(parts[u][n])'
  BY DEF RecordedKept, Witness, Closes, Is, UploadOf
<1> USE DEF DoomedInv
<1> DEFINE c == parts'[u][n]
<1>1. CASE parts[u][n] = c
  <2>1. c \in Requests /\ PartOf(c, u, n)
    BY <1>1 DEF FlowInv, TypeOK, Recorded
  <2>1a. CASE ReplyLost(c)
    BY <2>1, <2>1a, Lasting DEF LastingOf, ReplyLost, Is, FlowInv, TypeOK
  <2>2. CASE c \notin store /\ ~ReplyLost(c)
    <3>1. Witness(u)
      BY <1>1, <2>2 DEF RecordedKept
    <3> QED
      BY <3>1, WitnessLasts DEF Witness, Closes, Is, UploadOf
  <2>3. CASE c \in store /\ ~ReplyLost(c)
    <3>1. \/ Named(c)
          \/ \E r \in Requests : /\ pc[r] = "discard" /\ UploadOf(r) = u
                                 /\ c \in ChunksIn(snap[r])
      BY <1>1, <2>1, <2>3, Deletions DEF PartOf
    <3>2. Witness(u)
      <4>1. CASE Named(c)
        BY <2>1, <4>1, NamedParts DEF PartOf
      <4>2. ASSUME NEW r \in Requests, pc[r] = "discard", UploadOf(r) = u,
                   c \in ChunksIn(snap[r])
            PROVE  Witness(u)
        BY <4>2 DEF Witness, ChunksIn, NoParts, FlowInv, FlowOf, ControlOf
      <4> QED
        BY <3>1, <4>1, <4>2
    <3> QED
      BY <3>2, WitnessLasts DEF Witness, Closes, Is, UploadOf
  <2> QED
    BY <2>1a, <2>2, <2>3
<1>2. CASE parts[u][n] # c
  <2>1. PICK r \in Requests : Records(r) /\ c = r
    BY <1>2, RecordsGrow DEF FlowInv
  <2>2. r \in store /\ store' = store
    BY <2>1 DEF DoomedOf, Records, SetPart, SetPartReplyLost
  <2> QED
    BY <2>1, <2>2
<1> QED
  BY <1>1, <1>2

LEMMA DoomedInvariant == Spec => []DoomedInv
<1>1. FlowInv /\ [Next]_vars => FlowInv'
  BY TypeStep, ControlStep, NamesStep, RecordedStep, AcknowledgedStep
     DEF FlowInv, FlowOf
<1>2. DoomedInv /\ [Next]_vars => DoomedInv'
  BY <1>1, DoomedStep, ObjectsNamedStep, RecordedKeptStep DEF DoomedInv
<1> QED
  BY DoomedInit, <1>2, PTL DEF Spec

\* A recorded part is at its source until an abort or a completion of its
\* upload has read the record: neither a concurrent upload of a part nor the
\* cleanup of a replaced object deletes it. Only the upload whose own reply from
\* MongoDB was lost deletes what it recorded.
THEOREM RecordedPartsStay == Spec => []RecordedPartsKept
<1>1. ASSUME DoomedInv, NEW c \in Requests, InRecord(c), c \notin store,
             ~ReplyLost(c)
      PROVE  \E r \in Requests : /\ Is(r, "complete") \/ Is(r, "abort")
                                 /\ UploadOf(r) = UploadOf(c)
                                 /\ snap[r] # NoParts \/ pc[r] = "crashed"
  <2>1. PICK u \in Uploads, n \in PartNumbers : parts[u][n] = c /\ c # None
    BY <1>1 DEF InRecord, ChunksIn
  <2>2. UploadOf(c) = u /\ Witness(u)
    BY <1>1, <2>1 DEF DoomedInv, RecordedKept, FlowInv, Recorded, PartOf
  <2> QED
    BY <2>2 DEF Witness, Closes
<1>2. DoomedInv => RecordedPartsKept
  BY <1>1 DEF RecordedPartsKept
<1> QED
  BY DoomedInvariant, <1>2, PTL

(***************************************************************************)
(* Requests of one upload that run beside each other.                      *)
(***************************************************************************)

Beside ==
  \A q, r \in Requests :
    Active(q) /\ Active(r) /\ q # r /\ UploadOf(q) = UploadOf(r)
      => q \in overlapped /\ r \in overlapped

RaceOf(r) ==
  /\ Closes(r) /\ pc[r] = "done" /\ res[r] # "err"
       => record[UploadOf(r)] = "gone"
  /\ pc[r] \in PastLookup /\ record[UploadOf(r)] = "gone"
       => Disturbed(UploadOf(r))
  /\ pc[r] = "commit" /\ r \notin overlapped => parts[UploadOf(r)] = snap[r]
  /\ pc[r] = "drop" =>
       \A c \in doomed[r] :
         InObject(c) => c \in Requests /\ Disturbed(UploadOf(c))

\* A recorded part is missing only while a completion or an abort deletes, or
\* if its reply was lost.
RecordedSafe ==
  \A u \in Uploads, n \in PartNumbers :
    parts[u][n] \notin store \cup {None} =>
      \/ Disturbed(u) \/ ReplyLost(parts[u][n])
      \/ \E q \in Requests : Closes(q) /\ UploadOf(q) = u /\ pc[q] \in Deleting

RaceInv == /\ DoomedInv /\ Beside /\ (\A r \in Requests : RaceOf(r))
           /\ RecordedSafe /\ CompletedObjectsReadable

LEMMA RaceInit == Init => RaceInv
<1> SUFFICES ASSUME Init PROVE RaceInv
  OBVIOUS
<1>1. DoomedInv
  BY DoomedInit
<1>2. Beside /\ RecordedSafe
  BY DEF Init, Beside, Active, RecordedSafe, NoParts
<1>3. ASSUME NEW r \in Requests PROVE RaceOf(r)
  BY <1>3 DEF Init, RaceOf, PastLookup
<1>4. CompletedObjectsReadable
  BY DEF Init, CompletedObjectsReadable, InObject
<1> QED
  BY <1>1, <1>2, <1>3, <1>4 DEF RaceInv

LEMMA DisturbedLasts ==
  ASSUME FlowInv, [Next]_vars, NEW u, Disturbed(u)
  PROVE  Disturbed(u)'
<1>1. PICK r \in Requests :
        /\ Closes(r) /\ UploadOf(r) = u
        /\ r \in overlapped \/ pc[r] \in {"leftopen", "crashed"} \/ res[r] = "err"
  BY DEF Disturbed, Closes
<1>2. pc[r] # "idle"
  BY <1>1 DEF Closes, Is, FlowInv, TypeOK
<1>3. Closes(r)' /\ UploadOf(r)' = u
  BY <1>1, <1>2, Lasting DEF LastingOf, Closes, Is, UploadOf
<1>4. \/ r \in overlapped' \/ pc'[r] \in {"leftopen", "crashed"}
      \/ res'[r] = "err"
  BY <1>1, Lasting DEF LastingOf, Final
<1> QED
  BY <1>3, <1>4 DEF Disturbed, Closes

LEMMA BesideStep == RaceInv /\ [Next]_vars => Beside'
<1> SUFFICES ASSUME RaceInv, [Next]_vars,
                    NEW q \in Requests, NEW r \in Requests,
                    Active(q)', Active(r)', q # r,
                    UploadOf(q)' = UploadOf(r)'
             PROVE  q \in overlapped' /\ r \in overlapped'
  BY DEF Beside
<1> USE DEF RaceInv, DoomedInv, FlowInv
<1>1. ASSUME NEW p \in Requests, Active(p)'
      PROVE  (Active(p) /\ req'[p] = req[p]) \/ Start(p)
  BY <1>1, Lasting DEF LastingOf, Active, Final
<1>2. ASSUME NEW p \in Requests, NEW o \in Requests, p # o,
             Start(p), Active(o)', UploadOf(p)' = UploadOf(o)'
      PROVE  p \in overlapped' /\ o \in overlapped'
  <2>1. PICK k \in PartRequest \cup CompleteRequest \cup AbortRequest :
          /\ req' = [req EXCEPT ![p] = k]
          /\ LET others == {x \in Requests : Active(x) /\ UploadOf(x) = k.upload}
             IN  overlapped' = IF others = {} THEN overlapped
                               ELSE overlapped \cup others \cup {p}
    BY <1>2 DEF Start
  <2>2. req'[o] = req[o] /\ req'[p] = k /\ pc'[o] = pc[o]
    BY <1>2, <2>1 DEF Start, Goto, TypeOK
  <2>3. Active(o) /\ UploadOf(o) = k.upload
    BY <1>2, <2>2 DEF Active, UploadOf
  <2> QED
    BY <2>1, <2>3
<1>3. CASE Active(q) /\ req'[q] = req[q] /\ Active(r) /\ req'[r] = req[r]
  BY <1>3, Lasting DEF LastingOf, Beside, UploadOf
<1> QED
  BY <1>1, <1>2, <1>3

\* Two requests read the record of an upload that was completed only if one of
\* its completions or aborts did not run undisturbed.
LEMMA SecondLook ==
  ASSUME RaceInv, NEW q \in Requests, NEW r \in Requests, q # r,
         Committed(q), pc[r] \in PastLookup, UploadOf(q) = UploadOf(r)
  PROVE  Disturbed(UploadOf(q))
<1>1. CASE pc[q] \in Deleting
  BY <1>1 DEF RaceInv, Beside, Active, Disturbed, Committed, Deleting,
              PastLookup, Final
<1>2. CASE pc[q] = "done" /\ res[q] # "err"
  BY <1>2 DEF RaceInv, RaceOf, Committed, Closes, Succeeded
<1>3. CASE pc[q] \in {"leftopen", "crashed"} \/ res[q] = "err"
  BY <1>3 DEF Disturbed, Committed
<1> QED
  BY <1>1, <1>2, <1>3 DEF Committed, Final

\* How a request gets where the record, its copy or its chunks matter.
PassingOf(q) ==
  /\ pc'[q] \in PastLookup =>
       \/ pc[q] \in PastLookup
       \/ record'[UploadOf(q)] = "open"
  /\ pc'[q] = "commit" =>
       \/ pc[q] = "commit" /\ snap'[q] = snap[q]
       \/ pc[q] = "lookup" /\ snap'[q] = parts'[UploadOf(q)]
  /\ pc'[q] = "drop" =>
       \/ pc[q] = "drop" /\ doomed'[q] = doomed[q]
       \/ files' = files /\ \A c \in doomed'[q] : ~InObject(c)
  /\ Closes(q) /\ pc[q] \notin Final /\ pc'[q] = "done" /\ res'[q] # "err"
       => record'[UploadOf(q)] = "gone"

LEMMA Passing ==
  ASSUME FlowInv, [Next]_vars, NEW q \in Requests
  PROVE  PassingOf(q)
<1> USE MultipartAssumption
    DEF FlowInv, FlowOf, ControlOf, NamesOf, TypeOK, PassingOf, PastLookup
<1> USE DEF Steps, Final, Succeeded, Deleting, Goto, Answer, Finish, Warn,
            uploadVars, localVars, Is, Closes
<1>1. ASSUME NEW u \in Uploads, Create(u) PROVE PassingOf(q)
  BY <1>1 DEF Create
<1>2. ASSUME NEW r \in Requests, Start(r) PROVE PassingOf(q)
  BY <1>2 DEF Start
<1>3. ASSUME NEW r \in Requests, Lookup(r), UNCHANGED overlapped PROVE PassingOf(q)
  <2>1. UploadOf(r) \in Uploads
    BY <1>3, Asked DEF Lookup
  <2>2. CASE q # r
    <3>1. pc'[q] = pc[q] /\ snap'[q] = snap[q] /\ doomed'[q] = doomed[q]
      BY <1>3, <2>2 DEF Lookup
    <3> QED
      BY <2>2, <3>1
  <2>3. CASE q = r /\ record[UploadOf(r)] # "open"
    <3>1. pc'[q] = "done" /\ record'[UploadOf(r)] = "gone"
      BY <1>3, <2>1, <2>3 DEF Lookup
    <3> QED
      BY <2>3, <3>1
  <2>4. CASE q = r /\ record[UploadOf(r)] = "open"
    <3>1. /\ record'[UploadOf(r)] = "open" /\ pc[r] = "lookup"
          /\ snap'[r] = parts'[UploadOf(r)]
      BY <1>3, <2>4 DEF Lookup
    <3>2. \/ pc'[r] \in {"upload", "discard", "commit"}
          \/ pc'[r] = "done" /\ res'[r] = "err"
      BY <1>3, <2>4 DEF Lookup
    <3> QED
      BY <2>4, <3>1, <3>2
  <2> QED
    BY <2>2, <2>3, <2>4
<1>4. ASSUME NEW r \in Requests, LookupFails(r), UNCHANGED overlapped PROVE PassingOf(q)
  BY <1>4 DEF LookupFails
<1>5. ASSUME NEW r \in Requests, UploadChunk(r), UNCHANGED overlapped PROVE PassingOf(q)
  BY <1>5 DEF UploadChunk
<1>6. ASSUME NEW r \in Requests, SetPart(r), UNCHANGED overlapped PROVE PassingOf(q)
  BY <1>6 DEF SetPart, Withdraw
<1>7. ASSUME NEW r \in Requests, SetPartFails(r), UNCHANGED overlapped PROVE PassingOf(q)
  BY <1>7 DEF SetPartFails, Withdraw
<1>7a. ASSUME NEW r \in Requests, SetPartReplyLost(r), UNCHANGED overlapped
       PROVE  PassingOf(q)
  BY <1>7a DEF SetPartReplyLost, Withdraw
<1>8. ASSUME NEW r \in Requests, Purge(r), UNCHANGED overlapped PROVE PassingOf(q)
  BY <1>8 DEF Purge
<1>9. ASSUME NEW r \in Requests, Commit(r), UNCHANGED overlapped PROVE PassingOf(q)
  BY <1>9 DEF Commit
<1>10. ASSUME NEW r \in Requests, CommitFails(r), UNCHANGED overlapped PROVE PassingOf(q)
  BY <1>10 DEF CommitFails
<1>10a. ASSUME NEW r \in Requests, CommitReplyLost(r), UNCHANGED overlapped
       PROVE  PassingOf(q)
  BY <1>10a DEF CommitReplyLost
<1>11. ASSUME NEW r \in Requests, CountReferences(r), UNCHANGED overlapped PROVE PassingOf(q)
  BY <1>11 DEF CountReferences, DiscardUnnamed
<1>12. ASSUME NEW r \in Requests, CountFails(r), UNCHANGED overlapped PROVE PassingOf(q)
  BY <1>12 DEF CountFails, DiscardUnnamed
<1>13. ASSUME NEW r \in Requests, Drop(r), UNCHANGED overlapped PROVE PassingOf(q)
  BY <1>13 DEF Drop, DiscardUnnamed
<1>14. ASSUME NEW r \in Requests, Discard(r), UNCHANGED overlapped PROVE PassingOf(q)
  BY <1>14 DEF Discard
<1>15. ASSUME NEW r \in Requests, Close(r), UNCHANGED overlapped PROVE PassingOf(q)
  <2>1. UploadOf(r) \in Uploads
    BY <1>15, Asked DEF Close
  <2>2. CASE q # r
    <3>1. pc'[q] = pc[q] /\ UNCHANGED <<snap, doomed>>
      BY <1>15, <2>2 DEF Close
    <3> QED
      BY <2>2, <3>1
  <2>3. CASE q = r
    <3>1. pc'[q] = "done"
      BY <1>15, <2>3 DEF Close
    <3>2. record'[UploadOf(q)] = "gone"
      BY <1>15, <2>1, <2>3 DEF Close
    <3> QED
      BY <3>1, <3>2
  <2> QED
    BY <2>2, <2>3
<1>16. ASSUME NEW r \in Requests, CloseFails(r), UNCHANGED overlapped PROVE PassingOf(q)
  BY <1>16 DEF CloseFails
<1>16a. ASSUME NEW r \in Requests, CloseReplyLost(r), UNCHANGED overlapped
       PROVE  PassingOf(q)
  <2>1. UploadOf(r) \in Uploads
    BY <1>16a, Asked DEF CloseReplyLost
  <2>2. CASE q # r
    <3>1. pc'[q] = pc[q] /\ UNCHANGED <<snap, doomed>>
      BY <1>16a, <2>2 DEF CloseReplyLost
    <3> QED
      BY <2>2, <3>1
  <2>3. CASE q = r
    <3>1. pc'[q] = "done" /\ record'[UploadOf(q)] = "gone"
      BY <1>16a, <2>1, <2>3 DEF CloseReplyLost
    <3> QED
      BY <3>1
  <2> QED
    BY <2>2, <2>3
<1>17. ASSUME NEW r \in Requests, Crash(r), UNCHANGED overlapped PROVE PassingOf(q)
  BY <1>17 DEF Crash, Active
<1>18. CASE UNCHANGED vars
  BY <1>18 DEF vars
<1> QED
  BY <1>1, <1>2, <1>3, <1>4, <1>5, <1>6, <1>7, <1>7a, <1>8, <1>9, <1>10,
     <1>10a, <1>11, <1>12, <1>13, <1>14, <1>15, <1>16, <1>16a, <1>17, <1>18
     DEF Next, Step, AllServed

LEMMA RaceStep ==
  ASSUME RaceInv, [Next]_vars, NEW r \in Requests
  PROVE  RaceOf(r)'
<1> USE DEF RaceInv, DoomedInv, FlowInv
<1>1. TypeOK' /\ PassingOf(r) /\ LastingOf(r)
  BY TypeStep, Passing, Lasting
<1> DEFINE u == UploadOf(r)
<1>2. pc[r] # "idle" => u \in Uploads /\ UploadOf(r)' = u
  BY <1>1, Asked DEF LastingOf, UploadOf
<1>3. ASSUME Closes(r)', pc'[r] = "done", res'[r] # "err"
      PROVE  record'[UploadOf(r)'] = "gone"
  <2>1. pc[r] # "idle"
    BY <1>1, <1>3 DEF LastingOf, Start, Goto, TypeOK
  <2>2. Closes(r)
    BY <1>1, <1>3, <2>1, Asked DEF LastingOf, Closes, Is
  <2>3. CASE pc[r] \in Final
    <3>1. record[u] = "gone"
      BY <1>1, <1>3, <2>2, <2>3 DEF LastingOf, RaceOf
    <3> QED
      BY <1>2, <2>1, <3>1, LastingRecord
  <2>4. CASE pc[r] \notin Final
    BY <1>1, <1>2, <1>3, <2>1, <2>2, <2>4 DEF PassingOf
  <2> QED
    BY <2>3, <2>4
<1>4. ASSUME pc'[r] \in PastLookup, record'[UploadOf(r)'] = "gone"
      PROVE  Disturbed(UploadOf(r))'
  <2>1. pc[r] # "idle"
    BY <1>1, <1>4 DEF LastingOf, Start, Goto, TypeOK, PastLookup
  <2>2. pc[r] \in PastLookup /\ record'[u] = "gone" /\ u \in Uploads
    BY <1>1, <1>2, <1>4, <2>1 DEF PassingOf
  <2>3. ASSUME record[u] # "gone" PROVE Disturbed(u)
    <3>1. PICK q \in Requests : Ends(q)
      BY <2>2, <2>3, RecordWriters
         DEF Create, Records, SetPart, SetPartReplyLost, TypeOK
    <3>2. UploadOf(q) = u /\ pc'[q] = "done" /\ pc[q] = "close"
      BY <2>2, <2>3, <3>1
         DEF Ends, Close, CloseReplyLost, Finish, Goto, TypeOK
    <3>3. q # r /\ Closes(q)
      BY <1>4, <3>2 DEF PastLookup, FlowOf, ControlOf
    <3>4. q \in overlapped
      BY <2>2, <3>2, <3>3 DEF Beside, Active, Final, PastLookup
    <3> QED
      BY <3>2, <3>3, <3>4 DEF Disturbed, Closes
  <2>4. Disturbed(u)
    BY <2>2, <2>3 DEF RaceOf
  <2>5. UploadOf(r)' = u
    BY <1>2, <2>1
  <2> QED
    BY <2>4, <2>5, DisturbedLasts DEF Disturbed, UploadOf, Is
<1>5. ASSUME pc'[r] = "commit", r \notin overlapped'
      PROVE  parts'[UploadOf(r)'] = snap'[r]
  <2>1. pc[r] # "idle"
    BY <1>1, <1>5 DEF LastingOf, Start, Goto, TypeOK
  <2>2. CASE pc[r] = "commit" /\ snap'[r] = snap[r]
    <3>1. parts[u] = snap[r] /\ r \notin overlapped /\ u \in Uploads
      BY <1>1, <1>2, <1>5, <2>2 DEF LastingOf, RaceOf
    <3>2. ASSUME NEW q \in Requests, Records(q) \/ Ends(q)
          PROVE  parts'[u] = parts[u]
      <4> USE DEF Records, SetPart, SetPartReplyLost, Ends, Close, CloseReplyLost
      <4>1. pc[q] \in {"setpart", "close"} /\ q # r
        BY <2>2, <3>2
      <4>2. UploadOf(q) # u
        BY <2>2, <3>1, <4>1 DEF Beside, Active, Final
      <4> QED
        BY <3>1, <3>2, <4>2 DEF TypeOK
    <3>3. ASSUME NEW v \in Uploads, Create(v)
          PROVE  parts' = parts
      BY <3>3 DEF Create
    <3> QED
      BY <1>2, <2>1, <2>2, <3>1, <3>2, <3>3, RecordWriters
  <2> QED
    BY <1>1, <1>2, <1>5, <2>1, <2>2 DEF PassingOf
<1>6. ASSUME pc'[r] = "drop", NEW c \in doomed'[r], InObject(c)'
      PROVE  c \in Requests /\ Disturbed(UploadOf(c))'
  <2>1. pc[r] = "drop" /\ doomed'[r] = doomed[r]
    BY <1>1, <1>6 DEF PassingOf, InObject
  <2>2. c \in Requests /\ Disturbed(UploadOf(c))
    <3>1. CASE InObject(c)
      BY <2>1, <3>1, <1>6 DEF RaceOf
    <3>2. CASE ~InObject(c)
      <4>1. PICK q \in Requests : Stores(q)
        BY <1>6, <3>2, FilesWriters DEF InObject
      <4>2. c \in req[q].list /\ pc[q] = "commit" /\ Is(q, "complete")
        BY <1>6, <3>2, <4>1 DEF Stores, Commit, CommitReplyLost, InObject,
                                TypeOK, FlowOf, ControlOf
      <4>3. c \in Requests /\ UploadOf(c) = UploadOf(q)
        BY <4>2, CompletionList DEF FlowOf, NamesOf
      <4>4. Named(c)
        BY <1>6, <2>1, <4>3 DEF DoomedOf, CleanupOf
      <4>5. PICK p \in Requests : Committed(p) /\ c \in req[p].list
        BY <4>4 DEF Named
      <4>6. UploadOf(p) = UploadOf(c) /\ p # q
        BY <4>2, <4>5 DEF Committed, FlowOf, NamesOf, Deleting, Final
      <4> QED
        BY <4>2, <4>3, <4>5, <4>6, SecondLook DEF PastLookup
    <3> QED
      BY <3>1, <3>2
  <2>3. req'[c] = req[c]
    <3>1. pc[c] # "idle"
      <4>1. Is(c, "part")
        BY <1>6, <2>1, <2>2, NamedParts DEF DoomedOf, CleanupOf
      <4> QED
        BY <2>2, <4>1 DEF Is, TypeOK
    <3> QED
      BY <2>2, <3>1, Lasting DEF LastingOf
  <2>4. Disturbed(UploadOf(c))'
    <3> DEFINE v == UploadOf(c)
    <3>1. UploadOf(c)' = v
      BY <2>3 DEF UploadOf
    <3>2. Disturbed(v)
      BY <2>2
    <3> QED
      BY <3>1, <3>2, DisturbedLasts DEF Disturbed, UploadOf, Is
  <2> QED
    BY <2>2, <2>4
<1> QED
  BY <1>3, <1>4, <1>5, <1>6 DEF RaceOf

LEMMA RecordedSafeStep == RaceInv /\ [Next]_vars => RecordedSafe'
<1> SUFFICES ASSUME RaceInv, [Next]_vars,
                    NEW u \in Uploads, NEW n \in PartNumbers,
                    parts'[u][n] \notin store' \cup {None}
             PROVE  \/ Disturbed(u)' \/ ReplyLost(parts[u][n])'
                    \/ \E q \in Requests : /\ Closes(q)' /\ UploadOf(q)' = u
                                           /\ pc'[q] \in Deleting
  BY DEF RecordedSafe, Closes, Is, UploadOf, Disturbed
<1> USE DEF RaceInv, DoomedInv
<1> DEFINE c == parts'[u][n]
<1>1. record'[u] = "open"
  BY RecordedStep DEF Recorded, NoParts
<1>2. ASSUME NEW q \in Requests, Closes(q), UploadOf(q) = u,
             pc[q] \in Deleting \/ Committed(q)
      PROVE  \/ Disturbed(u)'
             \/ Closes(q)' /\ UploadOf(q)' = u /\ pc'[q] \in Deleting
  <2>1. pc[q] \in Deleting \cup Final /\ pc'[q] \in Deleting \cup Final
    BY <1>2, Lasting DEF LastingOf, Committed, Final
  <2>2. req'[q] = req[q]
    BY <2>1, Lasting DEF LastingOf, Deleting, Final
  <2>3. Closes(q)' /\ UploadOf(q)' = u
    BY <1>2, <2>2 DEF Closes, Is, UploadOf
  <2>4. pc'[q] = "done" => res'[q] = "err"
    <3>1. RaceOf(q)'
      BY RaceStep
    <3> QED
      BY <1>1, <2>3, <3>1 DEF RaceOf
  <2> QED
    BY <2>1, <2>3, <2>4 DEF Disturbed, Closes, Final
<1>3. CASE parts[u][n] # c
  <2>1. PICK r \in Requests : Records(r) /\ c = r
    BY <1>3, RecordsGrow DEF FlowInv
  <2>2. r \in store /\ store' = store
    BY <2>1 DEF DoomedOf, Records, SetPart, SetPartReplyLost
  <2> QED
    BY <2>1, <2>2
<1>3a. CASE parts[u][n] = c /\ ReplyLost(c)
  <2>1. c \in Requests
    BY <1>3a DEF FlowInv, TypeOK
  <2> QED
    BY <1>3a, <2>1, Lasting DEF LastingOf, ReplyLost, Is, FlowInv, TypeOK
<1>4. CASE parts[u][n] = c /\ c \notin store /\ ~ReplyLost(c)
  <2>1. CASE Disturbed(u)
    BY <2>1, DisturbedLasts DEF Disturbed, UploadOf, Is
  <2>2. CASE ~Disturbed(u)
    BY <1>2, <1>4, <2>2 DEF RecordedSafe
  <2> QED
    BY <2>1, <2>2
<1>5. CASE parts[u][n] = c /\ c \in store /\ ~ReplyLost(c)
  <2>1. c \in Requests /\ UploadOf(c) = u
    BY <1>5 DEF FlowInv, TypeOK, Recorded, PartOf
  <2>2. \/ Named(c)
        \/ \E r \in Requests : pc[r] = "discard" /\ UploadOf(r) = u
    BY <1>5, <2>1, Deletions
  <2>3. CASE Named(c)
    <3>1. PICK q \in Requests : Committed(q) /\ c \in req[q].list
      BY <2>3 DEF Named
    <3>2. Closes(q) /\ UploadOf(q) = u
      BY <2>1, <3>1 DEF Committed, Closes, FlowInv, FlowOf, NamesOf
    <3> QED
      BY <1>2, <3>1, <3>2
  <2>4. ASSUME NEW r \in Requests, pc[r] = "discard", UploadOf(r) = u
        PROVE  \/ Disturbed(u)'
               \/ Closes(r)' /\ UploadOf(r)' = u /\ pc'[r] \in Deleting
    BY <1>2, <2>4 DEF FlowInv, FlowOf, ControlOf, Deleting
  <2> QED
    BY <2>2, <2>3, <2>4
<1> QED
  BY <1>3, <1>3a, <1>4, <1>5

\* The chunk of an object is deleted only if its upload was disturbed.
LEMMA ObjectDeletions ==
  ASSUME RaceInv, [Next]_vars, NEW c \in Chunk, InObject(c),
         c \in store, c \notin store'
  PROVE  c \in Requests /\ Disturbed(UploadOf(c))
<1> USE DEF RaceInv, DoomedInv, DoomedOf
<1>1. ASSUME NEW r \in Requests, pc[r] = "drop", c \in doomed[r]
      PROVE  c \in Requests /\ Disturbed(UploadOf(c))
  BY <1>1 DEF RaceOf
<1>2. ASSUME NEW r \in Requests, pc[r] = "purge" \/ pc[r] = "discard",
             c \in doomed[r]
      PROVE  c \in Requests /\ Disturbed(UploadOf(c))
  <2>1. c \in Requests /\ UploadOf(c) = UploadOf(r)
    BY <1>2, SnapParts DEF PurgeOf, DiscardOf
  <2>2. PICK q \in Requests : Committed(q) /\ c \in req[q].list
    BY <2>1 DEF ObjectsNamed, Named
  <2>3. UploadOf(c) = UploadOf(q) /\ Is(q, "complete")
    BY <2>2 DEF Committed, FlowInv, FlowOf, NamesOf
  <2>4. q # r
    BY <1>2, <2>2, <2>3
       DEF DiscardOf, Is, FlowInv, FlowOf, ControlOf
  <2> QED
    BY <1>2, <2>1, <2>2, <2>3, <2>4, SecondLook DEF PastLookup
<1> QED
  BY <1>1, <1>2, StoreWriters

\* A completion that runs beside no other request finds its parts stored.
LEMMA CommitFindsParts ==
  ASSUME RaceInv, NEW r \in Requests, Stores(r),
         NEW c \in req[r].list, c \notin store
  PROVE  /\ c \in Requests /\ UploadOf(c) = UploadOf(r)
         /\ Disturbed(UploadOf(r)) \/ ReplyLost(c)
<1> USE DEF RaceInv, DoomedInv, FlowInv, FlowOf
<1> DEFINE u == UploadOf(r)
<1>1. pc[r] = "commit" /\ Is(r, "complete") /\ u \in Uploads
  BY Asked DEF Stores, Commit, CommitReplyLost, ControlOf
<1>2. c \in ChunksIn(snap[r])
  BY <1>1 DEF ControlOf
<1>3. c \in Requests /\ UploadOf(c) = u
  BY <1>2, SnapParts
<1>4. CASE r \in overlapped
  <2>1. Disturbed(UploadOf(r))
    <3> HIDE DEF RaceInv, DoomedInv, FlowInv, FlowOf
    <3> QED
      BY <1>1, <1>4 DEF Disturbed
  <2> QED
    BY <1>3, <2>1
<1>5. CASE r \notin overlapped
  <2>1. PICK n \in PartNumbers : parts[u][n] = c /\ c # None
    BY <1>1, <1>2, <1>5 DEF RaceOf, ChunksIn
  <2>2. ASSUME NEW q \in Requests, UploadOf(q) = u, pc[q] \in Deleting
        PROVE  FALSE
    BY <1>1, <1>5, <2>2 DEF Beside, Active, Deleting, Final
  <2> QED
    BY <1>1, <2>1, <2>2, <1>3 DEF RecordedSafe
<1> QED
  BY <1>3, <1>4, <1>5

LEMMA ReadableStep == RaceInv /\ [Next]_vars => CompletedObjectsReadable'
<1> SUFFICES ASSUME RaceInv, [Next]_vars,
                    NEW c \in Chunk, InObject(c)', c \notin store'
             PROVE  /\ c \in Requests
                    /\ Disturbed(UploadOf(c))' \/ ReplyLost(c)'
  BY DEF CompletedObjectsReadable, Chunk
<1> USE DEF RaceInv, DoomedInv
<1>1. c \in Requests /\ (Disturbed(UploadOf(c)) \/ ReplyLost(c))
  <2>1. CASE InObject(c) /\ c \notin store
    BY <2>1 DEF CompletedObjectsReadable
  <2>2. CASE InObject(c) /\ c \in store
    BY <2>2, ObjectDeletions
  <2>3. CASE ~InObject(c)
    <3>1. PICK r \in Requests : Stores(r)
      BY <2>3, FilesWriters DEF InObject
    <3>2. c \in req[r].list /\ c \notin store
      BY <2>3, <3>1
         DEF Stores, Commit, CommitReplyLost, InObject, FlowInv, TypeOK
    <3> QED
      BY <3>1, <3>2, CommitFindsParts
  <2> QED
    BY <2>1, <2>2, <2>3
<1>2. /\ UploadOf(c)' = UploadOf(c)
      /\ ReplyLost(c) => ReplyLost(c)'
  <2>1. Named(c) \/ \E r \in Requests : Stores(r) /\ c \in req[r].list
    BY <1>1, FilesWriters DEF ObjectsNamed, InObject, Stores, Commit,
                              CommitReplyLost, FlowInv, TypeOK
  <2>2. Is(c, "part")
    BY <1>1, <2>1, NamedParts DEF Stores, Commit, CommitReplyLost, FlowInv,
                                  FlowOf, ControlOf, NamesOf
  <2>3. pc[c] # "idle"
    BY <1>1, <2>2 DEF Is, FlowInv, TypeOK
  <2> QED
    BY <1>1, <2>3, Lasting DEF LastingOf, UploadOf, ReplyLost, Is
<1> QED
  BY <1>1, <1>2, DisturbedLasts DEF Disturbed, UploadOf, Is

LEMMA RaceInvariant == Spec => []RaceInv
<1>1. FlowInv /\ [Next]_vars => FlowInv'
  BY TypeStep, ControlStep, NamesStep, RecordedStep, AcknowledgedStep
     DEF FlowInv, FlowOf
<1>2. DoomedInv /\ [Next]_vars => DoomedInv'
  BY <1>1, DoomedStep, ObjectsNamedStep, RecordedKeptStep DEF DoomedInv
<1>3. RaceInv /\ [Next]_vars => RaceInv'
  BY <1>2, BesideStep, RaceStep, RecordedSafeStep, ReadableStep DEF RaceInv
<1> QED
  BY RaceInit, <1>3, PTL DEF Spec

\* A completed object keeps all its parts unless a completion or an abort of
\* its upload overlapped another request, failed half-way or left the record;
\* but for a part whose reply from MongoDB was lost.
THEOREM CompletedObjectsStayReadable == Spec => []CompletedObjectsReadable
BY RaceInvariant, PTL DEF RaceInv

(***************************************************************************)
(* Who still accounts for a chunk at a source.                             *)
(***************************************************************************)

Complains == {"err", "warn"}
Unsent == {"idle", "lookup", "upload"}

Excused(c) ==
  \/ c \in overlapped
  \/ \E r \in Requests : pc[r] = "crashed" \/ res[r] \in Complains

\* Request r will still delete chunk c, or has it to check.
HeldBy(r, c) ==
  \/ /\ pc[r] \in {"count", "drop"}
     /\ c \in work[r] \/ c \in ChunksIn(snap[r]) \ req[r].list
  \/ pc[r] \in {"purge", "drop", "discard"} /\ c \in doomed[r]

Accounted(c) == \/ c \notin store \/ InObject(c) \/ Excused(c)
                \/ \E r \in Requests : HeldBy(r, c)

LeakOf(r) ==
  /\ Is(r, "abort") => res[r] # "warn"
  /\ pc[r] = "purge" => res[r] # "none"
  /\ pc[r] \in Unsent => r \notin store
  /\ pc[r] \in {"upload", "setpart"} /\ record[UploadOf(r)] # "open"
       => r \in overlapped
  /\ pc[r] = "purge" /\ res[r] = "absent"
       => doomed[r] = {r} /\ r \in overlapped
  /\ Closes(r) /\ pc[r] \in PastLookup =>
       \A n \in PartNumbers :
         parts[UploadOf(r)][n] # None =>
           parts[UploadOf(r)][n] \in ChunksIn(snap[r]) \cup overlapped
  /\ Closes(r) /\ pc[r] \in Deleting =>
       \A c \in ChunksIn(snap[r]) : Accounted(c)

Traced ==
  \A c \in store \ {Stray} :
    InRecord(c) \/ (c \in Requests /\ pc[c] = "setpart") \/ Accounted(c)

LeakInv == RaceInv /\ (\A r \in Requests : LeakOf(r)) /\ Traced

LEMMA LeakInit == Init => LeakInv
<1> SUFFICES ASSUME Init PROVE LeakInv
  OBVIOUS
<1>1. RaceInv
  BY RaceInit
<1>2. ASSUME NEW r \in Requests PROVE LeakOf(r)
  BY <1>2, MultipartAssumption
     DEF Init, LeakOf, PastLookup, Deleting, Is
<1>3. Traced
  BY DEF Init, Traced, Accounted, InObject
<1> QED
  BY <1>1, <1>2, <1>3 DEF LeakInv

\* How a step changes what a request accounts for.
TracksOf(q) ==
  /\ res[q] \in Complains => res'[q] \in Complains
  /\ Is(q, "abort") => res'[q] # "warn"
  /\ pc'[q] \in Unsent => pc[q] \in Unsent
  /\ pc[q] = "setpart" =>
       \/ pc'[q] \in {"setpart", "crashed"}
       \/ pc'[q] = "purge" /\ doomed'[q] = {q}
       \/ /\ Records(q) /\ parts'[UploadOf(q)][req[q].part] = q
          /\ record'[UploadOf(q)] = "open"
  /\ pc'[q] \in {"upload", "setpart"} =>
       pc[q] \in {"upload", "setpart"} \/ record'[UploadOf(q)] = "open"
  /\ pc'[q] = "purge" =>
       \/ pc[q] = "purge" /\ res'[q] = res[q] /\ doomed'[q] = doomed[q]
       \/ pc[q] = "setpart" /\ res'[q] \in {"ok", "err"}
       \/ /\ pc[q] = "setpart" /\ record[UploadOf(q)] # "open"
          /\ res'[q] = "absent" /\ doomed'[q] = {q}
  /\ pc'[q] \in PastLookup =>
       pc[q] \in PastLookup \/ snap'[q] = parts'[UploadOf(q)]
  /\ pc'[q] \in Deleting =>
       \/ pc[q] \in Deleting
       \/ pc'[q] = "discard" /\ doomed'[q] = ChunksIn(snap'[q])
       \/ pc'[q] = "count" /\ \E k \in Keys : files'[k] = req[q].list

LEMMA Tracks ==
  ASSUME LeakInv, [Next]_vars, NEW q \in Requests
  PROVE  TracksOf(q)
<1> USE MultipartAssumption
    DEF LeakInv, RaceInv, DoomedInv, FlowInv, FlowOf, ControlOf, TypeOK,
        LeakOf, TracksOf, PastLookup
<1> USE DEF Steps, Results, Final, Succeeded, Deleting, Complains, Unsent, Early, 
            Goto, Answer, Finish, Warn, uploadVars, localVars, Is, Closes
<1>1. ASSUME NEW u \in Uploads, Create(u) PROVE TracksOf(q)
  BY <1>1 DEF Create
<1>2. ASSUME NEW r \in Requests, Start(r) PROVE TracksOf(q)
  BY <1>2 DEF Start
<1>3. ASSUME NEW r \in Requests, Lookup(r), UNCHANGED overlapped PROVE TracksOf(q)
  <2>1. CASE q # r
    <3>1. /\ pc'[q] = pc[q] /\ res'[q] = res[q] /\ doomed'[q] = doomed[q]
          /\ snap'[q] = snap[q]
      BY <1>3, <2>1 DEF Lookup
    <3> QED
      BY <2>1, <3>1
  <2>2. CASE q = r /\ record[UploadOf(r)] # "open"
    <3>1. pc'[q] = "done" /\ res'[q] = "absent" /\ pc[q] = "lookup"
      BY <1>3, <2>2 DEF Lookup
    <3> QED
      BY <2>2, <3>1
  <2>3. CASE q = r /\ record[UploadOf(r)] = "open"
    <3>1. /\ pc[q] = "lookup" /\ res'[q] \in {"none", "err"}
          /\ pc'[q] \in {"upload", "discard", "commit", "done"}
          /\ record'[UploadOf(q)] = "open"
          /\ snap'[q] = parts'[UploadOf(q)]
      BY <1>3, <2>3 DEF Lookup
    <3>2. pc'[q] = "discard" => doomed'[q] = ChunksIn(snap'[q])
      BY <1>3, <2>3 DEF Lookup
    <3> QED
      BY <2>3, <3>1, <3>2
  <2> QED
    BY <2>1, <2>2, <2>3
<1>4. ASSUME NEW r \in Requests, LookupFails(r), UNCHANGED overlapped PROVE TracksOf(q)
  BY <1>4 DEF LookupFails
<1>5. ASSUME NEW r \in Requests, UploadChunk(r), UNCHANGED overlapped PROVE TracksOf(q)
  BY <1>5 DEF UploadChunk
<1>6. ASSUME NEW r \in Requests, SetPart(r), UNCHANGED overlapped PROVE TracksOf(q)
  <2>1. CASE q # r
    <3>1. /\ pc'[q] = pc[q] /\ res'[q] = res[q] /\ doomed'[q] = doomed[q]
          /\ snap'[q] = snap[q]
      BY <1>6, <2>1 DEF SetPart, Withdraw
    <3> QED
      BY <2>1, <3>1
  <2>2. CASE q = r /\ record[UploadOf(r)] # "open"
    <3>1. /\ pc[q] = "setpart" /\ pc'[q] = "purge" /\ res'[q] = "absent"
          /\ doomed'[q] = {q}
      BY <1>6, <2>2 DEF SetPart, Withdraw
    <3> QED
      BY <2>2, <3>1
  <2>3. CASE q = r /\ record[UploadOf(r)] = "open"
    <3>1. UploadOf(r) \in Uploads /\ req[r].part \in PartNumbers
      BY <1>6, Asked, PartNumber DEF SetPart
    <3>2. /\ pc[q] = "setpart" /\ pc'[q] \in {"purge", "done"}
          /\ res'[q] = "ok" /\ record' = record
          /\ parts' = [parts EXCEPT ![UploadOf(r)][req[r].part] = r]
      BY <1>6, <2>3 DEF SetPart
    <3>3. parts'[UploadOf(q)][req[q].part] = q
      BY <2>3, <3>1, <3>2
    <3> QED
      BY <1>6, <2>3, <3>2, <3>3 DEF Records
  <2> QED
    BY <2>1, <2>2, <2>3
<1>7. ASSUME NEW r \in Requests, SetPartFails(r), UNCHANGED overlapped PROVE TracksOf(q)
  BY <1>7 DEF SetPartFails, Withdraw
<1>7a. ASSUME NEW r \in Requests, SetPartReplyLost(r), UNCHANGED overlapped
       PROVE  TracksOf(q)
  BY <1>7a DEF SetPartReplyLost, Withdraw
<1>8. ASSUME NEW r \in Requests, Purge(r), UNCHANGED overlapped PROVE TracksOf(q)
  BY <1>8 DEF Purge
<1>9. ASSUME NEW r \in Requests, Commit(r), UNCHANGED overlapped PROVE TracksOf(q)
  <2>1. CASE q # r
    <3>1. /\ pc'[q] = pc[q] /\ res'[q] = res[q] /\ doomed'[q] = doomed[q]
          /\ snap'[q] = snap[q]
      BY <1>9, <2>1 DEF Commit
    <3> QED
      BY <2>1, <3>1
  <2>2. CASE q = r
    <3>1. UploadOf(r) \in Uploads
      BY <1>9, Asked DEF Commit
    <3>2. /\ pc[q] = "commit" /\ pc'[q] = "count" /\ res'[q] = "ok"
          /\ files'[target[UploadOf(r)]] = req[q].list
      BY <1>9, <2>2, <3>1 DEF Commit
    <3> QED
      BY <2>2, <3>1, <3>2
  <2> QED
    BY <2>1, <2>2
<1>10. ASSUME NEW r \in Requests, CommitFails(r), UNCHANGED overlapped PROVE TracksOf(q)
  BY <1>10 DEF CommitFails
<1>10a. ASSUME NEW r \in Requests, CommitReplyLost(r), UNCHANGED overlapped
       PROVE  TracksOf(q)
  BY <1>10a DEF CommitReplyLost
<1>11. ASSUME NEW r \in Requests, CountReferences(r), UNCHANGED overlapped PROVE TracksOf(q)
  BY <1>11 DEF CountReferences, DiscardUnnamed
<1>12. ASSUME NEW r \in Requests, CountFails(r), UNCHANGED overlapped PROVE TracksOf(q)
  BY <1>12 DEF CountFails, DiscardUnnamed
<1>13. ASSUME NEW r \in Requests, Drop(r), UNCHANGED overlapped PROVE TracksOf(q)
  BY <1>13 DEF Drop, DiscardUnnamed
<1>14. ASSUME NEW r \in Requests, Discard(r), UNCHANGED overlapped PROVE TracksOf(q)
  BY <1>14 DEF Discard
<1>15. ASSUME NEW r \in Requests, Close(r), UNCHANGED overlapped PROVE TracksOf(q)
  BY <1>15 DEF Close
<1>16. ASSUME NEW r \in Requests, CloseFails(r), UNCHANGED overlapped PROVE TracksOf(q)
  BY <1>16 DEF CloseFails
<1>16a. ASSUME NEW r \in Requests, CloseReplyLost(r), UNCHANGED overlapped
       PROVE  TracksOf(q)
  BY <1>16a DEF CloseReplyLost
<1>17. ASSUME NEW r \in Requests, Crash(r), UNCHANGED overlapped PROVE TracksOf(q)
  BY <1>17 DEF Crash, Active
<1>18. CASE UNCHANGED vars
  BY <1>18 DEF vars
<1> QED
  BY <1>1, <1>2, <1>3, <1>4, <1>5, <1>6, <1>7, <1>7a, <1>8, <1>9, <1>10,
     <1>10a, <1>11, <1>12, <1>13, <1>14, <1>15, <1>16, <1>16a, <1>17, <1>18
     DEF Next, Step, AllServed

\* What a request holds is handed on, deleted, or its failure is told.
HandsOnOf(q, c) ==
  HeldBy(q, c) =>
    \/ HeldBy(q, c)'
    \/ InObject(c) /\ files' = files
    \/ c \notin store'
    \/ c \in overlapped
    \/ pc'[q] = "crashed" \/ res'[q] \in Complains

LEMMA HandsOn ==
  ASSUME LeakInv, [Next]_vars, NEW q \in Requests, NEW c \in Chunk
  PROVE  HandsOnOf(q, c)
<1> USE MultipartAssumption
    DEF LeakInv, RaceInv, DoomedInv, FlowInv, FlowOf, ControlOf, TypeOK,
        LeakOf, HandsOnOf, HeldBy
<1> USE DEF Steps, Results, Final, Succeeded, Deleting, Complains, Goto,
            Answer, Finish, Warn, uploadVars, localVars, Is, Closes
<1>1. ASSUME NEW u \in Uploads, Create(u) PROVE HandsOnOf(q, c)
  BY <1>1 DEF Create
<1>2. ASSUME NEW r \in Requests, Start(r) PROVE HandsOnOf(q, c)
  BY <1>2 DEF Start
<1>3. ASSUME NEW r \in Requests, Lookup(r), UNCHANGED overlapped PROVE HandsOnOf(q, c)
  BY <1>3 DEF Lookup
<1>4. ASSUME NEW r \in Requests, LookupFails(r), UNCHANGED overlapped PROVE HandsOnOf(q, c)
  BY <1>4 DEF LookupFails
<1>5. ASSUME NEW r \in Requests, UploadChunk(r), UNCHANGED overlapped PROVE HandsOnOf(q, c)
  BY <1>5 DEF UploadChunk
<1>6. ASSUME NEW r \in Requests, SetPart(r), UNCHANGED overlapped PROVE HandsOnOf(q, c)
  BY <1>6 DEF SetPart, Withdraw
<1>7. ASSUME NEW r \in Requests, SetPartFails(r), UNCHANGED overlapped PROVE HandsOnOf(q, c)
  BY <1>7 DEF SetPartFails, Withdraw
<1>7a. ASSUME NEW r \in Requests, SetPartReplyLost(r), UNCHANGED overlapped
       PROVE  HandsOnOf(q, c)
  BY <1>7a DEF SetPartReplyLost, Withdraw
<1>8. ASSUME NEW r \in Requests, Purge(r), UNCHANGED overlapped PROVE HandsOnOf(q, c)
  BY <1>8 DEF Purge
<1>9. ASSUME NEW r \in Requests, Commit(r), UNCHANGED overlapped PROVE HandsOnOf(q, c)
  BY <1>9 DEF Commit
<1>10. ASSUME NEW r \in Requests, CommitFails(r), UNCHANGED overlapped PROVE HandsOnOf(q, c)
  BY <1>10 DEF CommitFails
<1>10a. ASSUME NEW r \in Requests, CommitReplyLost(r), UNCHANGED overlapped
       PROVE  HandsOnOf(q, c)
  BY <1>10a DEF CommitReplyLost
<1>11. ASSUME NEW r \in Requests, CountReferences(r), UNCHANGED overlapped PROVE HandsOnOf(q, c)
  BY <1>11 DEF CountReferences, DiscardUnnamed
<1>12. ASSUME NEW r \in Requests, CountFails(r), UNCHANGED overlapped PROVE HandsOnOf(q, c)
  BY <1>12 DEF CountFails, DiscardUnnamed
<1>13. ASSUME NEW r \in Requests, Drop(r), UNCHANGED overlapped PROVE HandsOnOf(q, c)
  BY <1>13 DEF Drop, DiscardUnnamed
<1>14. ASSUME NEW r \in Requests, Discard(r), UNCHANGED overlapped PROVE HandsOnOf(q, c)
  BY <1>14 DEF Discard
<1>15. ASSUME NEW r \in Requests, Close(r), UNCHANGED overlapped PROVE HandsOnOf(q, c)
  BY <1>15 DEF Close
<1>16. ASSUME NEW r \in Requests, CloseFails(r), UNCHANGED overlapped PROVE HandsOnOf(q, c)
  BY <1>16 DEF CloseFails
<1>16a. ASSUME NEW r \in Requests, CloseReplyLost(r), UNCHANGED overlapped
       PROVE  HandsOnOf(q, c)
  BY <1>16a DEF CloseReplyLost
<1>17. ASSUME NEW r \in Requests, Crash(r), UNCHANGED overlapped PROVE HandsOnOf(q, c)
  BY <1>17 DEF Crash, Active
<1>18. CASE UNCHANGED vars
  BY <1>18 DEF vars
<1> QED
  BY <1>1, <1>2, <1>3, <1>4, <1>5, <1>6, <1>7, <1>7a, <1>8, <1>9, <1>10,
     <1>10a, <1>11, <1>12, <1>13, <1>14, <1>15, <1>16, <1>16a, <1>17, <1>18
     DEF Next, Step, AllServed

\* Only UploadChunk adds a chunk.
LEMMA StoreGrows ==
  ASSUME [Next]_vars, NEW c, c \in store', c \notin store, c # Stray
  PROVE  c \in Requests /\ UploadChunk(c) /\ Goto(c, "setpart")
<1>1. ASSUME NEW r \in Requests, UploadChunk(r)
      PROVE  c = r /\ Goto(r, "setpart")
  BY <1>1 DEF UploadChunk, Left
<1>2. CASE ~\E r \in Requests : UploadChunk(r)
  BY <1>2
     DEF Next, Step, AllServed, vars, uploadVars, Create, Start, Lookup,
         LookupFails, SetPart, SetPartFails, SetPartReplyLost, Purge, Commit,
         CommitFails, CommitReplyLost, CountReferences, CountFails, Drop,
         Discard, Close, CloseFails, CloseReplyLost, Crash
<1> QED
  BY <1>1, <1>2

LEMMA ExcusedLasts ==
  ASSUME LeakInv, [Next]_vars, NEW c, Excused(c)
  PROVE  Excused(c)'
<1> USE DEF LeakInv, RaceInv, DoomedInv
<1>1. CASE c \in overlapped
  <2>1. c \in Requests
    BY <1>1 DEF FlowInv, TypeOK
  <2> QED
    BY <1>1, <2>1, Lasting DEF LastingOf, Excused
<1>2. ASSUME NEW r \in Requests, pc[r] = "crashed" \/ res[r] \in Complains
      PROVE  Excused(c)'
  <2>1. LastingOf(r) /\ TracksOf(r)
    BY Lasting, Tracks
  <2> QED
    BY <1>2, <2>1 DEF LastingOf, TracksOf, Excused, Final
<1> QED
  BY <1>1, <1>2 DEF Excused

\* A chunk that is accounted for stays so.
LEMMA AccountedLasts ==
  ASSUME LeakInv, [Next]_vars, NEW c \in Chunk, Accounted(c),
         c \in Requests => pc[c] \notin Early
  PROVE  Accounted(c)'
<1> USE DEF LeakInv, RaceInv, DoomedInv
<1>1. CASE c \notin store
  BY <1>1, StoreGrows, StrayAssumption DEF UploadChunk, Early, Accounted, Chunk
<1>2. CASE InObject(c)
  <2>1. CASE files' = files
    BY <1>2, <2>1 DEF InObject, Accounted
  <2>1a. ASSUME NEW r \in Requests, CommitReplyLost(r)
         PROVE  Excused(c)'
    <3>1. res'[r] = "err"
      BY <2>1a DEF CommitReplyLost, Finish, Answer, FlowInv, TypeOK
    <3> QED
      BY <3>1 DEF Excused, Complains
  <2>2. ASSUME NEW r \in Requests, Commit(r)
        PROVE  InObject(c)' \/ HeldBy(r, c)'
    <3> DEFINE k == target[UploadOf(r)]
    <3>1. CASE files[k] # None /\ c \in files[k]
      <4>1. pc'[r] = "count" /\ work'[r] = files[k]
        BY <2>2, <3>1 DEF Commit, Goto, FlowInv, TypeOK
      <4> QED
        BY <3>1, <4>1 DEF HeldBy
    <3>2. CASE ~(files[k] # None /\ c \in files[k])
      <4>1. PICK j \in Keys : files[j] # None /\ c \in files[j]
        BY <1>2 DEF InObject
      <4>2. files'[j] = files[j]
        BY <2>2, <3>2, <4>1 DEF Commit, FlowInv, TypeOK
      <4> QED
        BY <4>1, <4>2 DEF InObject
    <3> QED
      BY <3>1, <3>2
  <2> QED
    BY <2>1, <2>1a, <2>2, FilesWriters DEF Accounted, Stores
<1>3. CASE Excused(c)
  BY <1>3, ExcusedLasts DEF Accounted
<1>4. ASSUME NEW r \in Requests, HeldBy(r, c), ~Excused(c)
      PROVE  Accounted(c)'
  <2>1. \/ HeldBy(r, c)'
        \/ InObject(c) /\ files' = files
        \/ c \notin store'
        \/ pc'[r] = "crashed" \/ res'[r] \in Complains
    BY <1>4, HandsOn DEF HandsOnOf, Excused
  <2>2. CASE InObject(c) /\ files' = files
    BY <1>2, <2>2
  <2> QED
    BY <2>1, <2>2 DEF Accounted, Excused
<1> QED
  BY <1>1, <1>2, <1>3, <1>4 DEF Accounted

\* A completion counts references right after it stored the object.
LEMMA CountFrom ==
  ASSUME FlowInv, [Next]_vars, NEW q \in Requests, pc'[q] = "count"
  PROVE  pc[q] \in {"commit", "count", "drop"}
BY DEF FlowInv, TypeOK, Next, Step, AllServed, vars, Goto, Finish,
       Create, Start, Lookup, LookupFails, UploadChunk, SetPart, SetPartFails,
       SetPartReplyLost, Withdraw, Purge, Commit, CommitFails, CommitReplyLost,
       CountReferences, CountFails, DiscardUnnamed, Drop, Discard, Close,
       CloseFails, CloseReplyLost, Crash

\* What a completion or an abort read is all the record has, but for parts set
\* beside it, and it is accounted for once it deletes.
LEMMA ClosingStep ==
  ASSUME LeakInv, [Next]_vars, NEW q \in Requests, Closes(q)',
         pc'[q] \in PastLookup
  PROVE  /\ \A n \in PartNumbers :
              parts'[UploadOf(q)'][n] # None =>
                parts'[UploadOf(q)'][n] \in ChunksIn(snap'[q]) \cup overlapped'
         /\ pc'[q] \in Deleting =>
              \A c \in ChunksIn(snap'[q]) : Accounted(c)'
<1> USE DEF LeakInv, RaceInv, DoomedInv
<1> DEFINE u == UploadOf(q)
<1>1. TracksOf(q) /\ LastingOf(q) /\ TypeOK'
  BY Tracks, Lasting, TypeStep
<1>2. pc[q] # "idle"
  BY <1>1 DEF LastingOf, Start, Goto, FlowInv, TypeOK, PastLookup
<1>3. req'[q] = req[q] /\ UploadOf(q)' = u /\ Closes(q) /\ u \in Uploads
  BY <1>1, <1>2, Asked DEF LastingOf, UploadOf, Closes, Is, FlowInv
<1>4. CASE pc[q] \notin PastLookup
  <2>1. snap'[q] = parts'[u]
    BY <1>1, <1>4 DEF TracksOf
  <2>2. \A n \in PartNumbers :
          parts'[u][n] # None => parts'[u][n] \in ChunksIn(snap'[q])
    BY <2>1 DEF ChunksIn
  <2>3. ASSUME pc'[q] \in Deleting
        PROVE  pc'[q] = "discard" /\ doomed'[q] = ChunksIn(snap'[q])
    <3>1. pc[q] \notin Deleting
      BY <1>4 DEF PastLookup, Deleting
    <3>2. pc'[q] # "count"
      BY <1>4, CountFrom DEF PastLookup
    <3> QED
      BY <1>1, <2>3, <3>1, <3>2 DEF TracksOf
  <2> QED
    BY <1>3, <2>2, <2>3 DEF Accounted, HeldBy
<1>5. CASE pc[q] \in PastLookup
  <2>1. snap'[q] = snap[q]
    BY <1>1, <1>5 DEF LastingOf, PastLookup
  <2>2. ASSUME NEW n \in PartNumbers, parts'[u][n] # None
        PROVE  parts'[u][n] \in ChunksIn(snap'[q]) \cup overlapped'
    <3>1. CASE parts'[u][n] = parts[u][n]
      <4>1. parts[u][n] \in ChunksIn(snap[q]) \cup overlapped
        BY <1>3, <1>5, <2>2, <3>1 DEF LeakOf
      <4>2. parts[u][n] \in Requests
        BY <1>3, <2>2, <3>1 DEF FlowInv, TypeOK
      <4> QED
        BY <2>1, <3>1, <4>1, <4>2, Lasting DEF LastingOf
    <3>2. ASSUME NEW c \in Requests, Records(c), parts'[u][n] = c
          PROVE  c \in overlapped'
      <4>1. pc[c] = "setpart" /\ req' = req
        BY <3>2 DEF Records, SetPart, SetPartReplyLost
      <4>2. PartOf(c, u, n)'
        BY <1>3, <3>2, RecordedStep, MultipartAssumption DEF Recorded, PartOf, Is, UploadOf
      <4>3. UploadOf(c) = u
        BY <4>1, <4>2 DEF PartOf, UploadOf
      <4>4. c # q
        BY <1>3, <4>1 DEF FlowInv, FlowOf, ControlOf, Closes, Is
      <4>5. c \in overlapped
        BY <1>5, <4>1, <4>3, <4>4 DEF Beside, Active, Final, PastLookup
      <4> QED
        BY <4>5, Lasting DEF LastingOf
    <3> QED
      BY <1>3, <2>2, <3>1, <3>2, RecordsGrow
  <2>3. ASSUME pc'[q] \in Deleting, NEW c \in ChunksIn(snap'[q])
        PROVE  Accounted(c)'
    <3>1. c \in Requests /\ pc[c] \notin Early
      BY <2>1, <2>3, SnapParts
    <3>2. CASE pc[q] \in Deleting
      BY <1>3, <1>5, <2>1, <2>3, <3>1, <3>2, AccountedLasts DEF LeakOf, Chunk
    <3>3. CASE pc'[q] = "discard" /\ doomed'[q] = ChunksIn(snap'[q])
      BY <2>3, <3>3 DEF Accounted, HeldBy
    <3>4. ASSUME NEW k \in Keys, pc'[q] = "count", files'[k] = req[q].list
          PROVE  Accounted(c)'
      <4>1. CASE c \in req[q].list
        <5>1. files'[k] # None
          <6>1. Is(q, "complete")
            BY <3>4, ControlStep, <1>3 DEF ControlOf, Is
          <6> QED
            BY <3>4, <6>1, CompletionList, NoneAssumption DEF FlowInv, Chunk
        <5> QED
          BY <3>4, <4>1, <5>1 DEF Accounted, InObject
      <4>2. CASE c \notin req[q].list
        BY <1>3, <2>3, <3>4, <4>2 DEF Accounted, HeldBy
      <4> QED
        BY <4>1, <4>2
    <3> QED
      BY <1>1, <2>3, <3>2, <3>3, <3>4 DEF TracksOf
  <2> QED
    BY <1>3, <2>2, <2>3
<1> QED
  BY <1>4, <1>5

LEMMA LeakStep ==
  ASSUME LeakInv, [Next]_vars, NEW q \in Requests
  PROVE  LeakOf(q)'
<1> USE DEF LeakInv, RaceInv, DoomedInv
<1> DEFINE u == UploadOf(q)
<1>1. TracksOf(q) /\ LastingOf(q) /\ TypeOK'
  BY Tracks, Lasting, TypeStep
<1>2. Is(q, "abort")' => res'[q] # "warn"
  <2>1. CASE pc[q] = "idle"
    <3>1. pc'[q] \in {"idle", "lookup"}
      BY <1>1, <2>1 DEF LastingOf, Start, Goto, FlowInv, TypeOK
    <3> QED
      BY <3>1, ControlStep DEF ControlOf, Early
  <2>2. CASE pc[q] # "idle"
    BY <1>1, <2>2 DEF LastingOf, TracksOf, Is
  <2> QED
    BY <2>1, <2>2
<1>3. pc'[q] = "purge" => res'[q] # "none"
  BY <1>1 DEF TracksOf, LeakOf
<1>4. pc'[q] \in Unsent => q \notin store'
  <2>1. ASSUME pc'[q] \in Unsent, q \in store' PROVE FALSE
    <3>1. q \notin store
      BY <1>1, <2>1 DEF TracksOf, LeakOf
    <3>2. Goto(q, "setpart")
      BY <2>1, <3>1, StoreGrows, StrayAssumption
    <3> QED
      BY <2>1, <3>2 DEF Unsent, Goto, FlowInv, TypeOK
  <2> QED
    BY <2>1
<1>5. pc[q] \in {"upload", "setpart"} =>
        \/ record'[u] = "open" \/ q \in overlapped
  <2>1. SUFFICES ASSUME pc[q] \in {"upload", "setpart"}, record'[u] # "open"
                 PROVE  q \in overlapped
    OBVIOUS
  <2>2. u \in Uploads
    BY <2>1, Asked DEF FlowInv
  <2>3. CASE record[u] # "open"
    BY <2>1, <2>3 DEF LeakOf
  <2>4. CASE record[u] = "open"
    <3>1. PICK p \in Requests : Ends(p)
      BY <2>1, <2>2, <2>4, RecordWriters
         DEF Create, Records, SetPart, SetPartReplyLost, FlowInv, TypeOK
    <3>2. UploadOf(p) = u /\ pc[p] = "close"
      BY <2>1, <2>2, <2>4, <3>1 DEF Ends, Close, CloseReplyLost, FlowInv, TypeOK
    <3> QED
      BY <2>1, <3>2 DEF Beside, Active, Final
  <2> QED
    BY <2>3, <2>4
<1>6. pc'[q] \in {"upload", "setpart"} /\ record'[UploadOf(q)'] # "open"
        => q \in overlapped'
  <2>1. pc'[q] \in {"upload", "setpart"} => UploadOf(q)' = u
    BY <1>1 DEF LastingOf, UploadOf, Start, Goto, FlowInv, TypeOK
  <2> QED
    BY <1>1, <1>5, <2>1 DEF TracksOf, LastingOf
<1>7. pc'[q] = "purge" /\ res'[q] = "absent"
        => doomed'[q] = {q} /\ q \in overlapped'
  BY <1>1 DEF TracksOf, LeakOf, LastingOf
<1> QED
  BY <1>2, <1>3, <1>4, <1>6, <1>7, ClosingStep DEF LeakOf, Closes, Is,
     UploadOf, Accounted, Deleting, PastLookup

LEMMA TracedStep == LeakInv /\ [Next]_vars => Traced'
<1> SUFFICES ASSUME LeakInv, [Next]_vars, NEW c \in store' \ {Stray}
             PROVE  \/ InRecord(c)' \/ (c \in Requests /\ pc'[c] = "setpart")
                    \/ Accounted(c)'
  BY DEF Traced
<1> USE DEF LeakInv, RaceInv, DoomedInv
<1>1. CASE c \notin store
  BY <1>1, StoreGrows DEF Goto, FlowInv, TypeOK
<1>2. CASE c \in Requests /\ pc[c] = "setpart"
  <2>1. TracksOf(c)
    BY <1>2, Tracks
  <2>2. ASSUME parts'[UploadOf(c)][req[c].part] = c,
               record'[UploadOf(c)] = "open"
        PROVE  InRecord(c)'
    <3>1. UploadOf(c) \in Uploads /\ req[c].part \in PartNumbers
      BY <1>2, Asked, PartNumber DEF FlowInv, FlowOf, ControlOf
    <3> QED
      BY <1>2, <2>2, <3>1, MultipartAssumption DEF InRecord, ChunksIn
  <2> QED
    BY <1>2, <2>1, <2>2 DEF TracksOf, Accounted, HeldBy, Excused
<1>3. CASE c \in store /\ Accounted(c) /\ ~(c \in Requests /\ pc[c] = "setpart")
  <2>1. c \in Requests => pc[c] \notin Early
    BY <1>3 DEF LeakOf, Early, Unsent
  <2> QED
    BY <1>3, <2>1, AccountedLasts DEF FlowInv, TypeOK
<1>4. ASSUME NEW v \in Uploads, NEW n \in PartNumbers,
             record[v] = "open", parts[v][n] = c, c # None
      PROVE  InRecord(c)' \/ Accounted(c)'
  <2>1. c \in Requests /\ PartOf(c, v, n)
    BY <1>4 DEF FlowInv, TypeOK, Recorded
  <2>2. pc[c] \notin Early
    BY <1>4, <2>1, NotYetRecorded DEF FlowInv
  <2>3. CASE record'[v] = "open" /\ parts'[v][n] = c
    BY <1>4, <2>3 DEF InRecord, ChunksIn
  <2>3a. ASSUME NEW r \in Requests, SetPartReplyLost(r) \/ CloseReplyLost(r)
         PROVE  Accounted(c)'
    <3>1. res'[r] \in Complains
      <4>1. CASE SetPartReplyLost(r)
        BY <4>1
           DEF SetPartReplyLost, Withdraw, Answer, Complains, FlowInv, TypeOK
      <4>2. CASE CloseReplyLost(r)
        BY <4>2 DEF CloseReplyLost, Warn, Answer, Complains, Succeeded, Closes,
                    Deleting, FlowInv, TypeOK, FlowOf, ControlOf
      <4> QED
        BY <2>3a, <4>1, <4>2
    <3> QED
      BY <3>1 DEF Accounted, Excused
  <2>4. ASSUME NEW r \in Requests, SetPart(r), parts'[v][n] # c
        PROVE  Accounted(c)'
    <3> DEFINE u == UploadOf(r)
               k == req[r].part
    <3>1. u \in Uploads /\ k \in PartNumbers
      BY <2>4, Asked, PartNumber DEF SetPart, FlowInv, FlowOf, ControlOf
    <3>2. UNCHANGED parts \/ parts' = [parts EXCEPT ![u][k] = r]
      BY <2>4 DEF SetPart, Withdraw
    <3>3. parts' = [parts EXCEPT ![u][k] = r]
      BY <1>4, <2>4, <3>2
    <3>4. parts'[v][n] = IF v = u /\ n = k THEN r ELSE parts[v][n]
      BY <3>1, <3>3 DEF FlowInv, TypeOK
    <3>5. u = v /\ k = n
      BY <1>4, <2>4, <3>4
    <3>6. pc'[r] = "purge" /\ doomed'[r] = {c}
      BY <1>4, <2>4, <3>5 DEF SetPart, Withdraw, Goto, FlowInv, TypeOK
    <3> QED
      BY <3>6 DEF Accounted, HeldBy
  <2>5. ASSUME NEW r \in Requests, Close(r), record'[v] # "open"
        PROVE  Accounted(c)'
    <3>1. UploadOf(r) = v /\ pc[r] = "close"
      BY <1>4, <2>5 DEF Close, FlowInv, TypeOK
    <3>2. Closes(r)
      BY <3>1 DEF FlowInv, FlowOf, ControlOf
    <3>3. c \in ChunksIn(snap[r]) \cup overlapped
      BY <1>4, <3>1, <3>2 DEF LeakOf, PastLookup
    <3>4. Accounted(c)
      BY <3>1, <3>2, <3>3 DEF LeakOf, Deleting, Accounted, Excused
    <3> QED
      BY <2>1, <2>2, <3>4, AccountedLasts DEF Chunk
  <2>6. ASSUME NEW w \in Uploads, Create(w)
        PROVE  record'[v] = "open" /\ parts'[v][n] = c
    BY <1>4, <2>6 DEF Create, FlowInv, TypeOK
  <2>7. ASSUME NEW r \in Requests, SetPart(r) PROVE record' = record
    BY <2>7 DEF SetPart
  <2>8. ASSUME NEW r \in Requests, Close(r), record'[v] = "open"
        PROVE  parts'[v] = parts[v]
    BY <1>4, <2>8 DEF Close, FlowInv, TypeOK
  <2> QED
    BY <1>4, <2>3, <2>3a, <2>4, <2>5, <2>6, <2>7, <2>8, RecordWriters
       DEF Records, Ends
<1> QED
  BY <1>1, <1>2, <1>3, <1>4 DEF Traced, InRecord, ChunksIn

LEMMA LeakInvariant == Spec => []LeakInv
<1>1. FlowInv /\ [Next]_vars => FlowInv'
  BY TypeStep, ControlStep, NamesStep, RecordedStep, AcknowledgedStep
     DEF FlowInv, FlowOf
<1>2. DoomedInv /\ [Next]_vars => DoomedInv'
  BY <1>1, DoomedStep, ObjectsNamedStep, RecordedKeptStep DEF DoomedInv
<1>3. RaceInv /\ [Next]_vars => RaceInv'
  BY <1>2, BesideStep, RaceStep, RecordedSafeStep, ReadableStep DEF RaceInv
<1>4. LeakInv /\ [Next]_vars => LeakInv'
  BY <1>3, LeakStep, TracedStep DEF LeakInv
<1> QED
  BY LeakInit, <1>4, PTL DEF Spec

\* Once every request was served, a chunk that neither an object nor a record
\* lists is there only because some request died, failed or logged a cleanup
\* error, or ran beside another one of its upload; but for the copies of timed
\* out attempts.
THEOREM NoLeakIsSilent == Spec => []NoSilentLeak
<1>1. LeakInv => NoSilentLeak
  <2> SUFFICES ASSUME LeakInv, Quiescent, NEW c \in store
               PROVE  \/ InObject(c) \/ InRecord(c)
                      \/ \E r \in Requests :
                           pc[r] = "crashed" \/ res[r] \in {"err", "warn"}
                      \/ c \in overlapped \/ c = Stray
    BY DEF NoSilentLeak
  <2>1. ASSUME NEW r \in Requests PROVE ~HeldBy(r, c) /\ pc[r] # "setpart"
    BY <2>1 DEF Quiescent, Final, HeldBy
  <2> QED
    BY <2>1 DEF LeakInv, Traced, Accounted, Excused, Complains
<1> QED
  BY LeakInvariant, <1>1, PTL
=============================================================================
