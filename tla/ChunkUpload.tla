---------------------------- MODULE ChunkUpload ----------------------------
(***************************************************************************)
(* UploadFileChunksWithStrategy and its caller PutObject: one body is read *)
(* in pieces of chunkSize bytes, a selector spreads the pieces over the    *)
(* bucket's sources, a piece whose upload fails is offered to the other    *)
(* sources in turn, and the list of chunks is committed to MongoDB or the  *)
(* chunks are deleted again. Byte i of the body is the number i, so that   *)
(* what is stored and what is read back can be told apart.                 *)
(*                                                                         *)
(* Each call to a source or to MongoDB is one step; an upload that fails   *)
(* may have stored its copy all the same, which nobody knows of (stray).   *)
(* When the client goes away net/http fails the read of the body and       *)
(* cancels the request's context, after which every call fails.            *)
(***************************************************************************)
EXTENDS Integers, Sequences, FiniteSets

CONSTANTS
  NumSources,  \* how many sources the bucket has, in its order
  MaxBody,     \* bound on the length of a body
  ChunkSizes,  \* the chunk sizes that may be configured
  MaxWeight,   \* bound on source_weights; 0 is a source without an entry
  Faults       \* what may go wrong, a subset of AllFaults

\* "source": a call to a source fails; "timeout": it fails and is carried
\* out; "client": a source's client cannot be made; "body": the read of the
\* body fails; "leave": the client goes away; "meta": the commit fails;
\* "corrupt": a source returns other bytes than it was given.
AllFaults == {"source", "timeout", "client", "body", "leave", "meta",
              "corrupt"}

ASSUME ConstantsAssumption ==
  /\ NumSources \in Nat \ {0}
  /\ MaxBody \in Nat
  /\ ChunkSizes \subseteq Nat \ {0}
  /\ MaxWeight \in Nat
  /\ Faults \subseteq AllFaults

Source == 1..NumSources

VARIABLES
  chunkSize,  \* the configured size
  body,       \* the length of the body
  phase,      \* where the upload is
  pos,        \* bytes read so far
  piece,      \* bytes in hand
  last,       \* the end of the body was read with them
  strategy,   \* the selector: its kind,
  weights,    \* the weights of the bucket it was made with
  next,       \* and its position
  index,      \* the source the selector picked for the piece
  offset,     \* how far failover is from it
  clients,    \* sources whose client is cached
  chunks,     \* FileChunk list: order is the index, bytes its content
  store,      \* the copies at the sources: <<order, source>>
  stray,      \* copies exist that no list mentions
  cancelled,  \* the request's context is cancelled
  refusals,   \* history: sources that failed for the piece in hand
  picks,      \* history: how often the selector picked each source
  undeleted   \* history: orders whose deletion failed

settings == <<chunkSize, body>>
reading == <<pos, piece, last>>
selector == <<strategy, weights>>
placing == <<selector, next, index, offset, clients, refusals, picks>>
placed == <<chunks, store, stray>>
uploadVars == <<settings, phase, reading, placing, placed, cancelled,
                undeleted>>

Phases == {"read", "select", "upload", "failover", "cleanup", "commit",
           "undo", "failed", "stored"}

Bytes(from, to) == [i \in 1..(to - from + 1) |-> from + i - 1]

UploadTypeOK ==
  /\ chunkSize \in ChunkSizes
  /\ body \in 0..MaxBody
  /\ strategy \in {"round_robin", "weighted"}
  /\ weights \in [Source -> 0..MaxWeight]
  /\ phase \in Phases
  /\ pos \in 0..MaxBody
  /\ piece \in 0..chunkSize
  /\ last \in BOOLEAN
  /\ next \in Nat
  /\ index \in Source
  /\ offset \in 0..NumSources
  /\ clients \subseteq Source
  /\ \A i \in DOMAIN chunks : /\ chunks[i].source \in Source
                              /\ chunks[i].bytes \in Seq(1..MaxBody)
  /\ Len(chunks) <= MaxBody
  /\ store \subseteq (1..MaxBody) \X Source
  /\ stray \in BOOLEAN
  /\ cancelled \in BOOLEAN
  /\ refusals \subseteq Source
  /\ picks \in [Source -> 0..MaxBody]
  /\ undeleted \subseteq 1..MaxBody

UploadInit ==
  /\ chunkSize \in ChunkSizes
  /\ body \in 0..MaxBody
  /\ strategy \in {"round_robin", "weighted"}
  /\ weights \in IF strategy = "weighted" THEN [Source -> 0..MaxWeight]
                                          ELSE {[s \in Source |-> 0]}
  /\ phase = "read"
  /\ pos = 0 /\ piece = 0 /\ last = FALSE
  /\ next = 0 /\ index = 1 /\ offset = 0
  /\ clients = {}
  /\ chunks = <<>> /\ store = {} /\ stray = FALSE
  /\ cancelled = FALSE
  /\ refusals = {} /\ undeleted = {}
  /\ picks = [s \in Source |-> 0]
-----------------------------------------------------------------------------
(***************************************************************************)
(* The selectors.                                                          *)
(***************************************************************************)

\* NewWeightedSelector: a source without a weight counts once.
Weight(s) == IF weights[s] <= 0 THEN 1 ELSE weights[s]

\* cumulativeWeights; Cumulative[NumSources] is totalWeight.
Cumulative ==
  LET C[s \in 0..NumSources] == IF s = 0 THEN 0 ELSE C[s - 1] + Weight(s)
  IN  C

\* Mutant: the boundary offset goes to the lower source.
PickLow ==
  IF strategy = "round_robin"
  THEN (next % NumSources) + 1
  ELSE CHOOSE s \in Source :
         /\ next % Cumulative[NumSources] <= Cumulative[s]
         /\ \A t \in 1..(s - 1) :
              next % Cumulative[NumSources] > Cumulative[t]

\* NextSource: the first source whose cumulative weight exceeds the offset.
Pick ==
  IF strategy = "round_robin"
  THEN (next % NumSources) + 1
  ELSE CHOOSE s \in Source :
         /\ next % Cumulative[NumSources] < Cumulative[s]
         /\ \A t \in 1..(s - 1) :
              next % Cumulative[NumSources] >= Cumulative[t]

Period == IF strategy = "round_robin" THEN NumSources
                                      ELSE Cumulative[NumSources]

\* Mutant: failover does not wrap round at the last source.
TargetUnwrapped == index + offset

\* The source failover tries at the present offset.
Target == ((index - 1 + offset) % NumSources) + 1
-----------------------------------------------------------------------------
(***************************************************************************)
(* Reading the body.                                                       *)
(***************************************************************************)

\* The end of the loop without a piece in hand: nothing more to upload.
EndOfLoop == phase' = "commit"

\* io.ReadFull; a body that ends within the piece, or before it, ends the
\* loop. Of a body that ended with the piece the next read finds nothing.
ReadPiece ==
  /\ phase = "read"
  /\ LET n == IF body - pos < chunkSize THEN body - pos ELSE chunkSize
     IN  /\ piece' = n
         /\ pos' = pos + n
         /\ last' = (n < chunkSize)
         /\ IF n = 0 THEN EndOfLoop ELSE phase' = "select"
  /\ UNCHANGED <<settings, placing, placed, cancelled, undeleted>>

\* The client goes away in the middle of the body: what was read of the
\* piece is taken for the end of the body, with the context cancelled.
ClientLeaves ==
  /\ phase = "read"
  /\ "leave" \in Faults
  /\ pos < body
  /\ \E n \in 0..(chunkSize - 1) :
       /\ pos + n < body
       /\ piece' = n
       /\ pos' = pos + n
       /\ IF n = 0 THEN EndOfLoop ELSE phase' = "select"
  /\ last' = TRUE
  /\ cancelled' = TRUE
  /\ UNCHANGED <<settings, placing, placed, undeleted>>

\* Any other error of the read.
ReadFails ==
  /\ phase = "read"
  /\ "body" \in Faults
  /\ phase' = "cleanup"
  /\ UNCHANGED <<settings, reading, placing, placed, cancelled, undeleted>>

(***************************************************************************)
(* Placing the piece.                                                      *)
(***************************************************************************)

\* pickSourceClient; when the client cannot be made the upload ends here,
\* without failover.
SelectSource ==
  /\ phase = "select"
  /\ index' = Pick
  /\ next' = (next + 1) % Period
  /\ picks' = [picks EXCEPT ![Pick] = @ + 1]
  /\ offset' = 0
  /\ refusals' = {}
  /\ \/ clients' = clients \cup {Pick} /\ phase' = "upload"
     \/ /\ "client" \in Faults /\ Pick \notin clients
        /\ phase' = "cleanup"
        /\ UNCHANGED clients
  /\ UNCHANGED <<settings, reading, placed, selector, cancelled, undeleted>>

Placed ==
  /\ phase = "upload"
  /\ ~cancelled
  /\ chunks' = Append(chunks, [source |-> Target,
                               bytes |-> Bytes(pos - piece + 1, pos)])
  /\ store' = store \cup {<<Len(chunks) + 1, Target>>}
  /\ IF last THEN EndOfLoop ELSE phase' = "read"
  /\ UNCHANGED <<settings, reading, placing, stray, cancelled, undeleted>>

Refused ==
  /\ phase = "upload"
  /\ cancelled \/ Faults \cap {"source", "timeout"} # {}
  /\ \/ UNCHANGED stray
     \/ "timeout" \in Faults /\ ~cancelled /\ stray' = TRUE
  /\ refusals' = refusals \cup {Target}
  /\ phase' = "failover"
  /\ UNCHANGED <<settings, reading, chunks, store, selector, next, index,
                 offset, clients, picks, cancelled, undeleted>>

\* Mutant: failover looks at one other source only.
FailoverOnce ==
  /\ phase = "failover"
  /\ IF offset = 1 \/ NumSources = 1
     THEN phase' = "cleanup" /\ UNCHANGED <<offset, clients, refusals>>
     ELSE LET alt == ((index + offset) % NumSources) + 1
          IN /\ offset' = offset + 1
             /\ clients' = clients \cup {alt}
             /\ phase' = "upload"
             /\ UNCHANGED refusals
  /\ UNCHANGED <<settings, reading, placed, selector, next, index, picks,
                 cancelled, undeleted>>

\* Mutant: failover tries the same other source again and again.
FailoverForever ==
  /\ phase = "failover"
  /\ LET alt == (index % NumSources) + 1
     IN /\ offset' = 1
        /\ clients' = clients \cup {alt}
        /\ phase' = "upload"
  /\ UNCHANGED <<settings, reading, placed, refusals, selector, next, index,
                 picks, cancelled, undeleted>>

\* The next source in the bucket's order, which is skipped when its client
\* cannot be made; after the last one the upload has failed. A bucket's
\* sources are distinct, so that the set of sources tried is not needed.
Failover ==
  /\ phase = "failover"
  /\ IF offset + 1 >= NumSources
     THEN phase' = "cleanup" /\ UNCHANGED <<offset, clients, refusals>>
     ELSE LET alt == ((index + offset) % NumSources) + 1
          IN /\ offset' = offset + 1
             /\ \/ /\ clients' = clients \cup {alt}
                   /\ phase' = "upload"
                   /\ UNCHANGED refusals
                \/ /\ "client" \in Faults /\ alt \notin clients
                   /\ refusals' = refusals \cup {alt}
                   /\ UNCHANGED <<phase, clients>>
  /\ UNCHANGED <<settings, reading, placed, selector, next, index, picks,
                 cancelled, undeleted>>

(***************************************************************************)
(* Giving up, or committing.                                               *)
(***************************************************************************)

\* The chunks of the list that the cleanup has not looked at.
Remaining == {i \in DOMAIN chunks : /\ <<i, chunks[i].source>> \in store
                                    /\ i \notin undeleted}
IsNext(i) == i \in Remaining /\ \A j \in Remaining : i <= j

Deleted(i) ==
  /\ ~cancelled
  /\ store' = store \ {<<i, chunks[i].source>>}
  /\ UNCHANGED undeleted

NotDeleted(i) ==
  /\ cancelled \/ "source" \in Faults
  /\ undeleted' = undeleted \cup {i}
  /\ UNCHANGED store

\* Mutant: the cleanup ends at the first chunk it cannot delete.
CleanupGivesUp ==
  /\ phase = "cleanup"
  /\ IF Remaining = {}
     THEN phase' = "failed" /\ UNCHANGED <<store, undeleted>>
     ELSE \E i \in Remaining :
            /\ IsNext(i)
            /\ \/ Deleted(i) /\ UNCHANGED phase
               \/ NotDeleted(i) /\ phase' = "failed"
  /\ UNCHANGED <<settings, reading, placing, chunks, stray, cancelled>>

\* cleanupUploadedChunks goes on past a chunk it cannot delete.
Cleanup ==
  /\ phase = "cleanup"
  /\ IF Remaining = {}
     THEN phase' = "failed" /\ UNCHANGED <<store, undeleted>>
     ELSE \E i \in Remaining :
            /\ IsNext(i)
            /\ Deleted(i) \/ NotDeleted(i)
            /\ UNCHANGED phase
  /\ UNCHANGED <<settings, reading, placing, chunks, stray, cancelled>>

\* Mutant: the commit does not depend on the request's context.
CommitDetached ==
  /\ phase = "commit"
  /\ phase' = "stored"
  /\ UNCHANGED <<settings, reading, placing, placed, cancelled, undeleted>>

\* ReplaceByName; what the selector and the failover held goes with the
\* call that held it.
Commit ==
  /\ phase = "commit"
  /\ \/ /\ ~cancelled
        /\ phase' = "stored"
        /\ strategy' = "round_robin"
        /\ weights' = [s \in Source |-> 0]
        /\ next' = 0 /\ index' = 1 /\ offset' = 0
        /\ clients' = {} /\ refusals' = {}
        /\ picks' = [s \in Source |-> 0]
     \/ /\ cancelled \/ "meta" \in Faults
        /\ phase' = "undo"
        /\ UNCHANGED placing
  /\ UNCHANGED <<settings, reading, placed, cancelled, undeleted>>

\* deleteChunks ends at the first chunk it cannot delete.
Undo ==
  /\ phase = "undo"
  /\ IF Remaining = {}
     THEN phase' = "failed" /\ UNCHANGED <<store, undeleted>>
     ELSE \E i \in Remaining :
            /\ IsNext(i)
            /\ \/ Deleted(i) /\ UNCHANGED phase
               \/ NotDeleted(i) /\ phase' = "failed"
  /\ UNCHANGED <<settings, reading, placing, chunks, stray, cancelled>>

UploadNext ==
  \/ ReadPiece \/ ClientLeaves \/ ReadFails
  \/ SelectSource \/ Placed \/ Refused \/ Failover
  \/ Cleanup \/ Commit \/ Undo
-----------------------------------------------------------------------------
(***************************************************************************)
(* Properties of the upload.                                               *)
(***************************************************************************)

(***************************************************************************)
(* An object that was committed is the whole body: its chunks in order are *)
(* the consecutive pieces of chunkSize bytes, the last one what is left,   *)
(* and each is at the source its list entry names. A body the client did   *)
(* not finish is never committed, though the loop takes its end for the    *)
(* end of the object.                                                      *)
(***************************************************************************)
CommittedWhole ==
  phase = "stored" =>
    /\ (Len(chunks) - 1) * chunkSize < body \/ chunks = <<>>
    /\ body <= Len(chunks) * chunkSize
    /\ \A i \in DOMAIN chunks :
         LET end == IF i * chunkSize < body THEN i * chunkSize ELSE body
         IN  /\ chunks[i].bytes = Bytes((i - 1) * chunkSize + 1, end)
             /\ <<i, chunks[i].source>> \in store

(***************************************************************************)
(* Whenever the selector is back at its start the sources were picked in   *)
(* proportion to their weights (equally, in turn), whatever became of the  *)
(* pieces; no source is starved or favoured at a boundary of the weights.  *)
(***************************************************************************)
ProportionalPicks ==
  next = 0 => \A s, t \in Source : picks[s] * Weight(t) = picks[t] * Weight(s)

(***************************************************************************)
(* A piece is given up only after every source of the bucket failed for it.*)
(***************************************************************************)
FailoverExhausts ==
  [][phase = "failover" /\ phase' = "cleanup" => refusals = Source]_uploadVars

(***************************************************************************)
(* When an upload has failed, a chunk is left at a source only if its own  *)
(* deletion failed; after a failed commit, only if some deletion failed.   *)
(* Copies of uploads that timed out are left in any case (stray).          *)
(***************************************************************************)
FailedUploadsClean ==
  [][phase # "failed" /\ phase' = "failed" =>
       IF phase = "cleanup"
       THEN \A copy \in store' : copy[1] \in undeleted'
       ELSE store' # {} => undeleted' # {}]_uploadVars
=============================================================================
