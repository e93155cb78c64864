--------------------------- MODULE ChunkTransfer ---------------------------
(***************************************************************************)
(* An object is uploaded (ChunkUpload) and then read back: getObject reads *)
(* the whole object or one range of it, chunk by chunk, through            *)
(* streamFileWithFactory and streamFileRangeWithFactory. The response is   *)
(* committed by the first byte that is written, so that an earlier error   *)
(* can still be answered with a 500 and a later one only by cutting the    *)
(* connection short of the length the header promised.                     *)
(***************************************************************************)
EXTENDS ChunkUpload

VARIABLES
  serving,   \* "idle", "chunks", "answered", "cut"
  ask,       \* what the client asks for
  legacy,    \* the object was written before checksums were
  range,     \* bytes [first, last] to send, counted from 0
  at,        \* the chunk the loop is at
  base,      \* bytes of the chunks before it
  status,    \* the committed status, 0 before
  promised,  \* Content-Length of the committed header
  sent       \* bytes of the body that were written

downloadVars == <<serving, ask, legacy, range, at, base, status, promised,
                  sent>>
vars == <<uploadVars, downloadVars>>

\* Range: none, bytes=a-b, bytes=a-, bytes=-b, or anything else; and
\* whether an If-Range validator is given that does not match.
Asks == {q \in [form : {"none", "bounded", "from", "suffix", "other"},
                a : 0..MaxBody, b : 0..MaxBody, stale : BOOLEAN] :
           /\ q.form \in {"none", "suffix", "other"} => q.a = 0
           /\ q.form \in {"none", "from", "other"} => q.b = 0
           /\ q.form \in {"none", "other"} => ~q.stale}

Whole == [first |-> 0, last |-> -1]

TypeOK ==
  /\ UploadTypeOK
  /\ serving \in {"idle", "chunks", "answered", "cut"}
  /\ ask \in Asks
  /\ legacy \in BOOLEAN
  /\ range \in [first : 0..MaxBody, last : -1..MaxBody]
  /\ at \in 1..(MaxBody + 1)
  /\ base \in 0..MaxBody
  /\ status \in {0, 200, 206, 416, 500}
  /\ promised \in 0..MaxBody
  /\ sent \in Seq(0..MaxBody)
  /\ Len(sent) <= promised

Init ==
  /\ UploadInit
  /\ serving = "idle"
  /\ ask = [form |-> "none", a |-> 0, b |-> 0, stale |-> FALSE]
  /\ legacy = FALSE
  /\ range = Whole
  /\ at = 1 /\ base = 0
  /\ status = 0 /\ promised = 0 /\ sent = <<>>
-----------------------------------------------------------------------------
(***************************************************************************)
(* The request.                                                            *)
(***************************************************************************)

FileSize ==
  LET Total[i \in 0..Len(chunks)] ==
        IF i = 0 THEN 0 ELSE Total[i - 1] + Len(chunks[i].bytes)
  IN  Total[Len(chunks)]

\* Mutant: the end of a range is taken to be exclusive.
ParseRangeExclusive(q, total) ==
  LET lo == IF q.form # "suffix" THEN q.a
            ELSE IF q.b >= total THEN 0 ELSE total - q.b
      hi == IF q.form = "bounded" /\ q.b < total THEN q.b - 1 ELSE total - 1
  IN  [ok |-> total > 0 /\ q.form # "other" /\ lo < total /\ lo <= hi,
       range |-> [first |-> lo, last |-> hi]]

\* parseObjectRange: first and last are clamped to the object; a range that
\* lies beyond it, is empty or turned round is not satisfiable.
ParseRange(q, total) ==
  LET lo == IF q.form # "suffix" THEN q.a
            ELSE IF q.b >= total THEN 0 ELSE total - q.b
      hi == IF q.form = "bounded" /\ q.b < total THEN q.b ELSE total - 1
  IN  [ok |-> /\ total > 0
              /\ q.form # "other"
              /\ lo < total
              /\ q.form = "bounded" => q.a <= q.b
              /\ q.form = "suffix" => q.b > 0,
       range |-> [first |-> lo, last |-> hi]]

\* If-Range is looked at for a bounded range only.
RangeApplies(q) ==
  q.form # "none" /\ ~(q.form = "bounded" /\ q.stale)

Get ==
  /\ phase = "stored"
  /\ serving = "idle"
  /\ \E q \in Asks :
       LET parsed == ParseRange(q, FileSize)
       IN  /\ ask' = q
           /\ IF ~RangeApplies(q)
              THEN /\ range' = Whole
                   /\ serving' = "chunks"
                   /\ UNCHANGED status
              ELSE IF parsed.ok
              THEN /\ range' = parsed.range
                   /\ serving' = "chunks"
                   /\ UNCHANGED status
              ELSE /\ serving' = "answered"
                   /\ status' = 416
                   /\ UNCHANGED range
  /\ legacy' \in BOOLEAN
  /\ UNCHANGED <<uploadVars, at, base, promised, sent>>

(***************************************************************************)
(* Streaming.                                                              *)
(***************************************************************************)

Partial == RangeApplies(ask)
Length == IF Partial THEN range.last - range.first + 1 ELSE FileSize

\* deferredResponseWriter.commitNow: status and header, once.
CommitHeader ==
  IF status = 0
  THEN status' = (IF Partial THEN 206 ELSE 200) /\ promised' = Length
  ELSE UNCHANGED <<status, promised>>

\* The part of chunk i that is wanted, counted from 0 in the chunk.
Size(i) == Len(chunks[i].bytes)
LocalFirst(i) == IF Partial /\ range.first > base THEN range.first - base
                                                  ELSE 0
LocalLast(i) == IF Partial /\ range.last < base + Size(i) - 1
                THEN range.last - base ELSE Size(i) - 1
Beyond(i) == Partial /\ (Size(i) <= 0 \/ range.last < base)
LoopEnded == IF at > Len(chunks) THEN TRUE ELSE Beyond(at)
Before(i) == Partial /\ range.first > base + Size(i) - 1

\* What a source may return for a chunk: its bytes, or with a fault one
\* byte less or, where that can be told, one more or a wrong one.
Returned(i) ==
  LET true == chunks[i].bytes
  IN  {true} \cup
      (IF "corrupt" \notin Faults THEN {}
       ELSE {SubSeq(true, 1, Len(true) - 1)} \cup
            (IF legacy THEN {} ELSE {Append(true, 0), [true EXCEPT ![1] = 0]}))

\* Mutant: only the size of the chunk is compared.
VerifiedBySize(i, data) == legacy \/ Len(data) = Size(i)

\* readChecksummedChunk: the size and the SHA-256 of the bytes read.
Verified(i, data) == legacy \/ data = chunks[i].bytes

\* The bytes of data that are written. Of an unchecked chunk a full read
\* copies what there is, a range what it needs.
Wanted(i, data) ==
  IF ~Partial THEN data
  ELSE SubSeq(data, LocalFirst(i) + 1,
              IF LocalLast(i) + 1 <= Len(data) THEN LocalLast(i) + 1
                                               ELSE Len(data))

NextChunk == at' = at + 1 /\ base' = base + Size(at)

\* An error, before and after the header was committed.
Fail ==
  IF status = 0
  THEN status' = 500 /\ serving' = "answered" /\ UNCHANGED promised
  ELSE serving' = "cut" /\ UNCHANGED <<status, promised>>

SkipChunk ==
  /\ serving = "chunks" /\ ~LoopEnded
  /\ Before(at)
  /\ NextChunk
  /\ UNCHANGED <<uploadVars, serving, ask, legacy, range, status, promised,
                 sent>>

\* The server refuses a write beyond the Content-Length of the header.
SendChunk ==
  /\ serving = "chunks" /\ ~LoopEnded
  /\ ~Before(at)
  /\ <<at, chunks[at].source>> \in store
  /\ \E data \in Returned(at) :
       LET wanted == Wanted(at, data)
           short == Partial /\ Len(data) < LocalLast(at) + 1
       IN  IF ~Verified(at, data)
           THEN Fail /\ UNCHANGED <<sent, at, base>>
           ELSE IF wanted = <<>>
           THEN /\ IF short THEN Fail /\ UNCHANGED <<at, base>>
                            ELSE NextChunk /\ UNCHANGED <<serving, status,
                                                          promised>>
                /\ UNCHANGED sent
           ELSE /\ CommitHeader
                /\ IF Len(sent) + Len(wanted) > promised'
                   THEN UNCHANGED sent ELSE sent' = sent \o wanted
                /\ IF short \/ Len(sent) + Len(wanted) > promised'
                   THEN serving' = "cut" /\ UNCHANGED <<at, base>>
                   ELSE NextChunk /\ UNCHANGED serving
  /\ UNCHANGED <<uploadVars, ask, legacy, range>>

\* No client for the chunk's source, or its download failed; or the client
\* went away, and with the request's context goes the read of the source.
SendFails ==
  /\ serving = "chunks" /\ ~LoopEnded
  /\ ~Before(at)
  /\ \/ Faults \cap {"client", "source", "leave"} # {}
     \/ <<at, chunks[at].source>> \notin store
  /\ Fail
  /\ UNCHANGED <<uploadVars, ask, legacy, range, at, base, sent>>

\* The loop ends; an empty object is committed now.
EndOfChunks ==
  /\ serving = "chunks"
  /\ LoopEnded
  /\ CommitHeader
  /\ serving' = "answered"
  /\ UNCHANGED <<uploadVars, ask, legacy, range, at, base, sent>>

Done ==
  /\ phase = "failed" \/ serving \in {"answered", "cut"}
  /\ UNCHANGED vars

Next ==
  \/ UploadNext /\ UNCHANGED downloadVars
  \/ Get \/ SkipChunk \/ SendChunk \/ SendFails \/ EndOfChunks
  \/ Done

(***************************************************************************)
(* The resilience wrapper bounds each upload and deletion, and a loop goes *)
(* on between two calls. Nothing bounds the transfer of a body: the server *)
(* has no timeouts for what its client sends or takes, and a download's    *)
(* timer is stopped when the source's headers arrive.                      *)
(***************************************************************************)
BoundedCall ==
  \/ SelectSource \/ Placed \/ Refused \/ Failover
  \/ Cleanup \/ Commit \/ Undo

Fairness == /\ WF_vars(BoundedCall /\ UNCHANGED downloadVars)
            /\ WF_vars(SkipChunk \/ EndOfChunks)

Spec == Init /\ [][Next]_vars /\ Fairness
-----------------------------------------------------------------------------
(***************************************************************************)
(* Properties of the read.                                                 *)
(***************************************************************************)

\* The bytes a client means, in terms of positions in the object: what is
\* asked for and exists, or everything when the range does not apply.
Meant ==
  {i \in 1..body :
     CASE ask.form = "bounded" /\ ~ask.stale ->
            ask.a + 1 <= i /\ i <= ask.b + 1
       [] ask.form = "from" -> ask.a + 1 <= i
       [] ask.form = "suffix" -> i > body - ask.b
       [] ask.form = "other" -> FALSE
       [] OTHER -> TRUE}

\* s is a sequence of consecutive bytes that begins like the meant ones.
BeginsLike(s, S) ==
  /\ {s[k] : k \in DOMAIN s} \subseteq S
  /\ \A k \in DOMAIN s, i \in S : s[k] <= i \/ \E j \in 1..(k - 1) : s[j] = i

(***************************************************************************)
(* A response that ended well carries exactly the bytes the client meant,  *)
(* in order, and its header promised as many, whatever way the range, the  *)
(* chunk boundaries and the ends of the object fall. A 416 is answered     *)
(* exactly when the object has none of the bytes meant. (An object from    *)
(* before checksums is only as good as what its source returns.)           *)
(***************************************************************************)
ExactAnswer ==
  serving = "answered" =>
    /\ status = 416 <=> RangeApplies(ask) /\ Meant = {}
    /\ status \in {200, 206} =>
         /\ promised = Cardinality(Meant)
         /\ ~legacy => /\ Len(sent) = promised
                       /\ BeginsLike(sent, Meant)
    /\ status \in {416, 500} => sent = <<>>

(***************************************************************************)
(* At any time, also when the connection is cut, a client of a checksummed *)
(* object has received a beginning of what it meant and not one byte that  *)
(* a source corrupted, and it can tell a cut answer by its length.         *)
(***************************************************************************)
NoWrongByte ==
  /\ ~legacy => BeginsLike(sent, Meant)
  /\ serving = "cut" /\ ~legacy => Len(sent) < promised

\* No request is being served.
AtRest == \/ phase = "failed"
          \/ phase = "stored" /\ serving \in {"idle", "answered", "cut"}

\* The request waits for bytes of the body from the client, or for a source to
\* send a chunk and the client to take it.
AwaitsBytes == \/ phase = "read"
               \/ serving = "chunks" /\ ~LoopEnded /\ ~Before(at)

\* Clients and sources send and take what they began to, or go away.
BytesKeepComing ==
  /\ WF_vars((ReadPiece \/ ClientLeaves \/ ReadFails) /\ UNCHANGED downloadVars)
  /\ WF_vars(SendChunk \/ SendFails)

(***************************************************************************)
(* However the calls to the sources turn out, failover, cleanup, commit    *)
(* and streaming end. A request can hang in one way only: a client or a    *)
(* source stops in the middle of a body, for which the code has no limit.  *)
(* As long as none does, every upload is stored or given up and every read *)
(* is answered or cut.                                                     *)
(***************************************************************************)
EveryRequestEnds ==
  /\ <>[](AtRest \/ AwaitsBytes)
  /\ BytesKeepComing => <>[]AtRest
=============================================================================
