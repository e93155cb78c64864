------------------------ MODULE ChunkTransferProofs ------------------------
(***************************************************************************)
(* Proofs about ChunkUpload and ChunkTransfer, for every set of sources    *)
(* and weights, every chunk size, retry budget and body.                   *)
(*                                                                         *)
(* What an object adds up to comes first: the running sums of Cumulative   *)
(* and FileSize (Totals), and from them the chunk an offset falls into.    *)
(* The upload's invariant is UploadInv: the weights and the pick they      *)
(* decide (SelectorInv), the sources tried for a chunk (TryInv), the       *)
(* pieces read of the body (PieceInv) and the copies made of them          *)
(* (CopyInv). The download's is ReadInv: what has been sent is the         *)
(* beginning of the range asked for, and the rest is still to come.        *)
(***************************************************************************)
EXTENDS ChunkTransfer, OrderLemmas, SequenceTheorems

(***************************************************************************)
(* Running totals: f[i] is the sum of the first i values of w. There is    *)
(* one such function, and it does not fall.                                *)
(***************************************************************************)

Totals(f, w, n) ==
  f = [i \in 0..n |-> IF i = 0 THEN 0 ELSE f[i - 1] + w[i]]

LEMMA TotalsExist ==
  ASSUME NEW n \in Nat, NEW w \in [1..n -> Nat]
  PROVE  \E f : Totals(f, w, n)
<1> DEFINE S == {m \in Nat : m <= n => \E f \in [0..m -> Nat] : Totals(f, w, m)}
<1>1. 0 \in S
  <2> DEFINE f == [i \in 0..0 |-> 0]
  <2>1. f \in [0..0 -> Nat] /\ Totals(f, w, 0)
    BY DEF Totals
  <2> QED BY <2>1
<1>2. ASSUME NEW m \in Nat, m \in S PROVE m + 1 \in S
  <2> SUFFICES ASSUME m + 1 <= n
               PROVE  \E f \in [0..(m + 1) -> Nat] : Totals(f, w, m + 1)
    OBVIOUS
  <2>1. PICK f \in [0..m -> Nat] : Totals(f, w, m)
    BY <1>2
  <2> DEFINE g == [i \in 0..(m + 1) |-> IF i <= m THEN f[i] ELSE f[m] + w[i]]
  <2>2. g \in [0..(m + 1) -> Nat]
    BY <2>1
  <2>3. ASSUME NEW i \in 0..(m + 1)
        PROVE  g[i] = IF i = 0 THEN 0 ELSE g[i - 1] + w[i]
    <3>1. CASE i <= m
      BY <2>1, <3>1 DEF Totals
    <3>2. CASE i = m + 1
      BY <2>1, <3>2
    <3> QED BY <3>1, <3>2
  <2>4. Totals(g, w, m + 1)
    BY <2>2, <2>3 DEF Totals
  <2> QED BY <2>2, <2>4
<1>3. n \in S
  <2> HIDE DEF S
  <2> QED BY <1>1, <1>2, NatSetInduction
<1> QED BY <1>3

\* The totals are the only function that starts at 0 and adds the values.
LEMMA TotalsUnique ==
  ASSUME NEW n \in Nat, NEW w, NEW f, NEW g, Totals(f, w, n),
         g[0] = 0, \A i \in 1..n : g[i] = g[i - 1] + w[i]
  PROVE  \A i \in 0..n : f[i] = g[i]
<1> DEFINE S == {m \in Nat : m <= n => f[m] = g[m]}
<1>1. 0 \in S
  BY DEF Totals
<1>2. ASSUME NEW m \in Nat, m \in S PROVE m + 1 \in S
  BY <1>2 DEF Totals
<1>3. Nat \subseteq S
  <2> HIDE DEF S
  <2> QED BY <1>1, <1>2, NatSetInduction
<1> QED BY <1>3

LEMMA TotalsType ==
  ASSUME NEW n \in Nat, NEW w \in [1..n -> Nat], NEW f, Totals(f, w, n)
  PROVE  /\ f \in [0..n -> Nat]
         /\ f[0] = 0 /\ \A i \in 1..n : f[i] = f[i - 1] + w[i]
<1> DEFINE S == {m \in Nat : m <= n => f[m] \in Nat}
<1>1. 0 \in S
  BY DEF Totals
<1>2. ASSUME NEW m \in Nat, m \in S PROVE m + 1 \in S
  BY <1>2 DEF Totals
<1>3. Nat \subseteq S
  <2> HIDE DEF S
  <2> QED BY <1>1, <1>2, NatSetInduction
<1>4. \A m \in 0..n : f[m] \in Nat
  BY <1>3
<1> QED BY <1>4 DEF Totals

LEMMA TotalsGrow ==
  ASSUME NEW n \in Nat, NEW w \in [1..n -> Nat], NEW f, Totals(f, w, n),
         NEW a \in 0..n
  PROVE  \A b \in a..n : f[a] <= f[b]
<1> DEFINE S == {m \in Nat : a <= m /\ m <= n => f[a] <= f[m]}
<1>0. /\ f \in [0..n -> Nat]
      /\ \A i \in 1..n : f[i] = f[i - 1] + w[i]
  BY TotalsType
<1>1. 0 \in S
  BY <1>0
<1>2. ASSUME NEW m \in Nat, m \in S PROVE m + 1 \in S
  <2>1. CASE a <= m /\ m + 1 <= n
    <3>1. f[m + 1] = f[m] + w[m + 1] /\ w[m + 1] \in Nat /\ f[m] \in Nat /\ f[a] \in Nat
      BY <1>0, <2>1
    <3> QED BY <1>2, <2>1, <3>1
  <2>2. CASE ~(a <= m /\ m + 1 <= n)
    BY <1>0, <2>2
  <2> QED BY <2>1, <2>2
<1>3. Nat \subseteq S
  <2> HIDE DEF S
  <2> QED BY <1>1, <1>2, NatSetInduction
<1> QED BY <1>3
-----------------------------------------------------------------------------
(***************************************************************************)
(* The selectors.                                                          *)
(***************************************************************************)

WeightsOk == weights \in [Source -> Nat]

LEMMA WeightType ==
  ASSUME WeightsOk
  PROVE  [s \in Source |-> Weight(s)] \in [1..NumSources -> Nat \ {0}]
BY DEF WeightsOk, Weight, Source

LEMMA CumulativeTotals ==
  ASSUME WeightsOk
  PROVE  Totals(Cumulative, [s \in Source |-> Weight(s)], NumSources)
<1> DEFINE w == [s \in Source |-> Weight(s)]
           C == CHOOSE C : C = [s \in 0..NumSources |->
                                  IF s = 0 THEN 0 ELSE C[s - 1] + Weight(s)]
<1>1. Cumulative = C
  BY DEF Cumulative
<1>2. \A f : Totals(f, w, NumSources) <=>
              f = [s \in 0..NumSources |->
                     IF s = 0 THEN 0 ELSE f[s - 1] + Weight(s)]
  <2> TAKE f
  <2>1. \A i \in 0..NumSources : i # 0 => i \in Source
    BY ConstantsAssumption DEF Source
  <2>2. [i \in 0..NumSources |-> IF i = 0 THEN 0 ELSE f[i - 1] + w[i]]
          = [i \in 0..NumSources |->
               IF i = 0 THEN 0 ELSE f[i - 1] + Weight(i)]
    BY <2>1
  <2> QED BY <2>2 DEF Totals
<1>3. \E f : Totals(f, w, NumSources)
  <2>1. w \in [1..NumSources -> Nat]
    BY WeightType
  <2> HIDE DEF w
  <2> QED BY <2>1, TotalsExist, ConstantsAssumption
<1> QED BY <1>1, <1>2, <1>3

\* The weights divide 0..Cumulative[NumSources] into one interval a source.
LEMMA CumulativeSteps ==
  ASSUME WeightsOk
  PROVE  /\ Cumulative \in [0..NumSources -> Nat]
         /\ Cumulative[0] = 0
         /\ \A s \in Source : /\ Weight(s) \in Nat \ {0}
                              /\ Cumulative[s] = Cumulative[s - 1] + Weight(s)
         /\ \A s, t \in 0..NumSources :
              s <= t => Cumulative[s] <= Cumulative[t]
         /\ Cumulative[NumSources] \in Nat \ {0}
<1> DEFINE w == [s \in Source |-> Weight(s)]
<1>1. Totals(Cumulative, w, NumSources) /\ w \in [1..NumSources -> Nat]
  BY CumulativeTotals, WeightType
<1>2. \A s \in Source : w[s] = Weight(s) /\ Weight(s) \in Nat \ {0}
  BY WeightType DEF Source
<1>3. NumSources \in Nat \ {0} /\ Source = 1..NumSources
  BY ConstantsAssumption DEF Source
<1> HIDE DEF w
<1>4. /\ Cumulative \in [0..NumSources -> Nat]
      /\ Cumulative[0] = 0
      /\ \A s \in 1..NumSources : Cumulative[s] = Cumulative[s - 1] + w[s]
  BY <1>1, <1>3, TotalsType
<1>5. \A s, t \in 0..NumSources : s <= t => Cumulative[s] <= Cumulative[t]
  BY <1>1, <1>3, TotalsGrow
<1>6. Cumulative[NumSources] \in Nat \ {0}
  BY <1>2, <1>3, <1>4
<1> QED BY <1>2, <1>3, <1>4, <1>5, <1>6

\* Without weights the intervals have length one.
LEMMA CumulativeInTurn ==
  ASSUME weights = [s \in Source |-> 0]
  PROVE  \A s \in 0..NumSources : Cumulative[s] = s
<1> DEFINE w == [s \in Source |-> Weight(s)]
           g == [s \in 0..NumSources |-> s]
<1>1. WeightsOk /\ \A s \in Source : w[s] = 1
  BY DEF WeightsOk, Weight
<1>2. Totals(Cumulative, w, NumSources)
  BY <1>1, CumulativeTotals
<1>3. g[0] = 0 /\ \A s \in 1..NumSources : g[s] = g[s - 1] + w[s]
  BY <1>1, ConstantsAssumption DEF Source
<1>4. \A s \in 0..NumSources : Cumulative[s] = g[s]
  <2> HIDE DEF w, g
  <2> QED BY <1>2, <1>3, TotalsUnique, ConstantsAssumption
<1> QED BY <1>4

SelectorOk ==
  /\ WeightsOk
  /\ strategy \in {"round_robin", "weighted"}
  /\ strategy = "round_robin" => weights = [s \in Source |-> 0]
  /\ next \in Nat /\ next < Period

LEMMA PeriodIsTotal ==
  ASSUME WeightsOk, strategy \in {"round_robin", "weighted"},
         strategy = "round_robin" => weights = [s \in Source |-> 0]
  PROVE  Period = Cumulative[NumSources]
BY CumulativeInTurn, ConstantsAssumption DEF Period

\* The selector picks the source in whose interval its position lies.
LEMMA PickSpans ==
  ASSUME SelectorOk
  PROVE  /\ Pick \in Source
         /\ Cumulative[Pick - 1] <= next /\ next < Cumulative[Pick]
<1> DEFINE N == NumSources
<1>1. N \in Nat \ {0} /\ Source = 1..N
  BY ConstantsAssumption DEF Source
<1>2. /\ Cumulative \in [0..N -> Nat] /\ Cumulative[0] = 0
      /\ next \in Nat /\ next < Cumulative[N]
  BY CumulativeSteps, PeriodIsTotal DEF SelectorOk
<1>3. CASE strategy = "round_robin"
  <2>1. next < N /\ \A s \in 0..N : Cumulative[s] = s
    BY <1>3, CumulativeInTurn DEF SelectorOk, Period
  <2>2. Pick = next + 1
    BY <1>1, <1>2, <1>3, <2>1 DEF Pick
  <2> QED BY <1>1, <1>2, <2>1, <2>2
<1>4. CASE strategy # "round_robin"
  <2> DEFINE T == {s \in Source : next < Cumulative[s]}
             Is(s) == /\ next % Cumulative[N] < Cumulative[s]
                      /\ \A t \in 1..(s - 1) : next % Cumulative[N] >= Cumulative[t]
  <2>1. next % Cumulative[N] = next
    BY <1>1, <1>2
  <2>2. T \subseteq Nat /\ N \in T
    BY <1>1, <1>2
  <2>3. PICK s \in T : \A t \in T : s <= t
    <3> HIDE DEF T
    <3> QED BY <2>2, LeastNatural
  <2>4. s \in Source /\ Is(s)
    BY <1>1, <1>2, <2>1, <2>3
  <2>5. Pick = CHOOSE s0 \in Source : Is(s0)
    BY <1>4 DEF Pick
  <2>6. Pick \in Source /\ Is(Pick)
    <3> HIDE DEF Is
    <3> QED BY <2>4, <2>5
  <2>7. CASE Pick = 1
    BY <1>1, <1>2, <2>1, <2>6, <2>7
  <2>8. CASE Pick # 1
    <3>1. Pick - 1 \in 1..(Pick - 1) /\ Pick - 1 \in 0..N
      BY <1>1, <2>6, <2>8
    <3>2. Cumulative[Pick - 1] \in Nat
      BY <1>2, <3>1
    <3> QED BY <1>2, <2>1, <2>6, <3>1, <3>2
  <2> QED BY <2>7, <2>8
<1> QED BY <1>3, <1>4

\* How much of its interval source s has had when the position is n.
Part(s, n) ==
  IF n <= Cumulative[s - 1] THEN 0
  ELSE IF n >= Cumulative[s] THEN Weight(s) ELSE n - Cumulative[s - 1]

\* A pick takes one from the interval of the source it picks.
LEMMA PartGrows ==
  ASSUME SelectorOk, NEW s \in Source
  PROVE  Part(s, next + 1) = Part(s, next) + IF s = Pick THEN 1 ELSE 0
<1>1. NumSources \in Nat \ {0} /\ Source = 1..NumSources
  BY ConstantsAssumption DEF Source
<1>2. /\ Pick \in Source
      /\ Cumulative[Pick - 1] <= next /\ next < Cumulative[Pick]
      /\ next \in Nat
  BY PickSpans DEF SelectorOk
<1>3. /\ Cumulative \in [0..NumSources -> Nat]
      /\ \A t \in Source : /\ Weight(t) \in Nat \ {0}
                           /\ Cumulative[t] = Cumulative[t - 1] + Weight(t)
      /\ \A a, b \in 0..NumSources : a <= b => Cumulative[a] <= Cumulative[b]
  BY CumulativeSteps DEF SelectorOk
<1>4. /\ s - 1 \in 0..NumSources /\ s \in 0..NumSources /\ s \in Int
      /\ Pick - 1 \in 0..NumSources /\ Pick \in 0..NumSources /\ Pick \in Int
  BY <1>1, <1>2
<1>5. CASE s = Pick
  BY <1>2, <1>3, <1>4, <1>5 DEF Part
<1>6. CASE s < Pick
  <2>1. Cumulative[s] <= Cumulative[Pick - 1]
    BY <1>3, <1>4, <1>6
  <2> QED BY <1>2, <1>3, <1>4, <1>6, <2>1 DEF Part
<1>7. CASE s > Pick
  <2>1. Cumulative[Pick] <= Cumulative[s - 1]
    BY <1>3, <1>4, <1>7
  <2> QED BY <1>2, <1>3, <1>4, <1>7, <2>1 DEF Part
<1> QED BY <1>4, <1>5, <1>6, <1>7
-----------------------------------------------------------------------------
(***************************************************************************)
(* The invariant of the upload.                                            *)
(***************************************************************************)

\* The selector goes round and round: every source had its weight as often,
\* and of the present round the part of its interval that was passed.
InProportion ==
  \E rounds \in Nat : \A s \in Source :
    picks[s] = rounds * Weight(s) + Part(s, next)

SelectorInv == SelectorOk /\ InProportion

\* The source that failover tries after k others.
Alternative(k) == ((index - 1 + k) % NumSources) + 1

\* Every source that was tried for the piece has refused it.
TryInv ==
  /\ phase \in {"upload", "failover"} => offset < NumSources
  /\ phase = "upload" =>
       \A k \in 0..(offset - 1) : Alternative(k) \in refusals
  /\ phase = "failover" => \A k \in 0..offset : Alternative(k) \in refusals

\* The end of piece i of e bytes in pieces of c.
End(i, c, e) == IF i * c < e THEN i * c ELSE e

\* The list is the first e bytes of the body in pieces of c.
Spread(list, c, e) ==
  /\ IF list = <<>> THEN e = 0 ELSE (Len(list) - 1) * c < e
  /\ e <= Len(list) * c
  /\ \A i \in DOMAIN list :
       list[i].bytes = Bytes((i - 1) * c + 1, End(i, c, e))

Chunk == [source : Source, bytes : Seq(1..MaxBody)]

PieceInv ==
  /\ chunks \in Seq(Chunk)
  /\ pos <= body
  /\ phase = "read" =>
       /\ pos = Len(chunks) * chunkSize
       /\ Spread(chunks, chunkSize, pos)
       /\ ~last /\ ~cancelled
       /\ \A s \in Source : picks[s] <= Len(chunks)
  /\ phase \in {"select", "upload", "failover"} =>
       /\ pos - piece = Len(chunks) * chunkSize
       /\ Spread(chunks, chunkSize, pos - piece)
       /\ piece > 0
       /\ ~last => piece = chunkSize
       /\ last /\ ~cancelled => pos = body
       /\ \A s \in Source :
            picks[s] <= Len(chunks) + IF phase = "select" THEN 0 ELSE 1
  /\ phase = "commit" => Spread(chunks, chunkSize, pos) /\ (~cancelled => pos = body)
  /\ phase = "stored" => Spread(chunks, chunkSize, body)

Copies == {<<i, chunks[i].source>> : i \in DOMAIN chunks}

CopyInv ==
  /\ store \subseteq Copies
  /\ phase \notin {"cleanup", "undo", "failed"} => Copies \subseteq store

UploadInv == UploadTypeOK /\ SelectorInv /\ TryInv /\ PieceInv /\ CopyInv

-----------------------------------------------------------------------------
\* Products that are not linear.
LEMMA TimesOrder == \A a, b, c \in Nat : a <= b => a * c <= b * c
OBVIOUS

LEMMA TimesNext == \A a, c \in Nat : (a + 1) * c = a * c + c
OBVIOUS

LEMMA TimesGrows == \A a \in Nat, c \in Nat \ {0} : a <= a * c
OBVIOUS

LEMMA SelectorKept ==
  ASSUME UNCHANGED <<strategy, weights>>
  PROVE  /\ Cumulative' = Cumulative /\ Period' = Period
         /\ \A s : Weight(s)' = Weight(s)
         /\ \A s, n : (Part(s, n) = Part(s, n))'
BY DEF Cumulative, Period, Weight, Part

\* A selector that begins its round.
Fresh ==
  /\ strategy \in {"round_robin", "weighted"}
  /\ WeightsOk
  /\ strategy = "round_robin" => weights = [s \in Source |-> 0]
  /\ next = 0
  /\ picks = [s \in Source |-> 0]

LEMMA FreshSelector == Fresh => SelectorInv
<1> SUFFICES ASSUME Fresh PROVE SelectorInv
  OBVIOUS
<1> USE DEF Fresh
<1>1. /\ Period \in Nat \ {0}
      /\ \A s \in Source : /\ Weight(s) \in Nat \ {0}
                           /\ s - 1 \in 0..NumSources
                           /\ Cumulative[s - 1] \in Nat
  BY CumulativeSteps, PeriodIsTotal, ConstantsAssumption DEF Source
<1>2. \A s \in Source : picks[s] = 0 * Weight(s) + Part(s, next)
  BY <1>1 DEF Part
<1>3. InProportion
  BY <1>2 DEF InProportion
<1> QED BY <1>1, <1>3 DEF SelectorInv, SelectorOk

LEMMA SelectorStep ==
  UploadTypeOK /\ SelectorInv /\ [UploadNext]_uploadVars => SelectorInv'
<1> SUFFICES ASSUME UploadTypeOK, SelectorInv, [UploadNext]_uploadVars
             PROVE  SelectorInv'
  OBVIOUS
<1>1. CASE SelectSource
  <2>1. /\ UNCHANGED <<strategy, weights>>
        /\ next' = (next + 1) % Period
        /\ picks' = [picks EXCEPT ![Pick] = @ + 1]
    BY <1>1 DEF SelectSource, selector
  <2>2. /\ SelectorOk /\ WeightsOk /\ next \in Nat /\ next < Period
        /\ Period = Cumulative[NumSources] /\ Period \in Nat \ {0}
        /\ picks \in [Source -> Nat]
    BY CumulativeSteps, PeriodIsTotal, ConstantsAssumption
       DEF SelectorInv, SelectorOk, UploadTypeOK
  <2>3. /\ NumSources \in Nat \ {0} /\ Source = 1..NumSources
        /\ \A s \in Source : /\ Weight(s) \in Nat \ {0}
                             /\ s - 1 \in 0..NumSources
                             /\ Cumulative[s - 1] \in Nat /\ Cumulative[s] \in Nat
                             /\ Cumulative[s] = Cumulative[s - 1] + Weight(s)
                             /\ Cumulative[s] <= Period
    BY <2>2, CumulativeSteps, ConstantsAssumption DEF Source
  <2>4. PICK rounds \in Nat : \A s \in Source :
          picks[s] = rounds * Weight(s) + Part(s, next)
    BY DEF SelectorInv, InProportion
  <2>5. \A s \in Source : picks'[s] = rounds * Weight(s) + Part(s, next + 1)
    <3> TAKE s \in Source
    <3>1. picks'[s] = picks[s] + IF s = Pick THEN 1 ELSE 0
      BY <2>1, <2>2
    <3>2. Part(s, next) \in Nat
      BY <2>2, <2>3 DEF Part
    <3>3. rounds * Weight(s) \in Nat
      BY <2>3
    <3> QED BY <2>2, <2>4, <3>1, <3>2, <3>3, PartGrows
  <2>6. CASE next + 1 < Period
    <3>1. next' = next + 1
      BY <2>1, <2>2, <2>6
    <3>2. InProportion'
      BY <2>1, <2>5, <3>1 DEF InProportion, Part, Weight, Cumulative
    <3> QED BY <2>1, <2>2, <2>6, <3>1, <3>2, SelectorKept
            DEF SelectorInv, SelectorOk, WeightsOk
  <2>7. CASE next + 1 = Period
    <3>1. next' = 0
      BY <2>1, <2>2, <2>7
    <3>2. \A s \in Source : /\ Part(s, next + 1) = Weight(s)
                            /\ Part(s, 0) = 0
      BY <2>2, <2>3, <2>7 DEF Part
    <3>3. \A s \in Source : picks'[s] = (rounds + 1) * Weight(s) + Part(s, 0)
      BY <2>3, <2>5, <3>2
    <3>4. InProportion'
      BY <2>1, <3>1, <3>3 DEF InProportion, Part, Weight, Cumulative
    <3> QED BY <2>1, <2>2, <3>1, <3>4, SelectorKept
            DEF SelectorInv, SelectorOk, WeightsOk
  <2> QED BY <2>2, <2>6, <2>7
<1>2. CASE Commit /\ phase' = "stored"
  <2>1. /\ strategy' = "round_robin" /\ weights' = [s \in Source |-> 0]
        /\ next' = 0 /\ picks' = [s \in Source |-> 0]
    BY <1>2 DEF Commit
  <2>2. Fresh'
    BY <2>1 DEF Fresh, WeightsOk
  <2> QED BY <2>2, FreshSelector, PTL
<1>3. CASE UNCHANGED <<strategy, weights, next, picks>>
  <2>1. SelectorOk'
    BY <1>3, SelectorKept DEF SelectorInv, SelectorOk, WeightsOk
  <2>2. InProportion'
    BY <1>3 DEF SelectorInv, InProportion, Part, Weight, Cumulative
  <2> QED BY <2>1, <2>2 DEF SelectorInv
<1> QED BY <1>1, <1>2, <1>3
        DEF UploadNext, uploadVars, placing, selector, ReadPiece, ClientLeaves,
            ReadFails, Placed, Refused, Failover, Cleanup, Commit, Undo

LEMMA TryStep ==
  UploadTypeOK /\ TryInv /\ [UploadNext]_uploadVars => TryInv'
<1> SUFFICES ASSUME UploadTypeOK, TryInv, [UploadNext]_uploadVars
             PROVE  TryInv'
  OBVIOUS
<1>0. NumSources \in Nat \ {0} /\ index \in Int /\ offset \in Nat
  BY ConstantsAssumption DEF UploadTypeOK, Source
<1>1. CASE SelectSource
  BY <1>0, <1>1 DEF SelectSource, TryInv
<1>2. CASE Refused
  <2>1. /\ phase = "upload" /\ phase' = "failover"
        /\ UNCHANGED <<index, offset>> /\ refusals' = refusals \cup {Target}
    BY <1>2 DEF Refused
  <2>2. \A k \in 0..offset : k \in 0..(offset - 1) \/ k = offset
    BY <1>0
  <2>3. \A k \in 0..offset : Alternative(k) \in refusals'
    BY <2>1, <2>2 DEF TryInv, Alternative, Target
  <2> QED BY <2>1, <2>3 DEF TryInv, Alternative
<1>3. CASE Failover
  <2>1. CASE offset + 1 >= NumSources
    BY <1>3, <2>1 DEF Failover, TryInv
  <2>2. CASE ~(offset + 1 >= NumSources)
    <3>1. Alternative(offset + 1) = ((index + offset) % NumSources) + 1
      <4>1. index - 1 + (offset + 1) = index + offset
        BY <1>0
      <4> QED BY <4>1 DEF Alternative
    <3>2. /\ phase = "failover" /\ UNCHANGED index /\ offset' = offset + 1
          /\ \/ phase' = "upload" /\ refusals' = refusals
             \/ /\ phase' = "failover"
                /\ refusals' = refusals \cup {Alternative(offset + 1)}
      BY <1>3, <2>2, <3>1 DEF Failover
    <3>3. \A k \in 0..(offset + 1) : k \in 0..offset \/ k = offset + 1
      BY <1>0
    <3>4. \A k \in 0..offset : Alternative(k) \in refusals
      BY <3>2 DEF TryInv
    <3>5. offset' < NumSources /\ offset' - 1 = offset
      BY <1>0, <2>2, <3>2
    <3> QED BY <3>2, <3>3, <3>4, <3>5 DEF TryInv, Alternative
  <2> QED BY <2>1, <2>2
<1>4. CASE UNCHANGED <<phase, index, offset, refusals>>
  BY <1>4 DEF TryInv, Alternative
<1>5. CASE phase' \notin {"upload", "failover"}
  BY <1>5 DEF TryInv
<1> QED BY <1>1, <1>2, <1>3, <1>4, <1>5
        DEF UploadNext, uploadVars, placing, ReadPiece, ClientLeaves,
            ReadFails, Placed, Cleanup, Commit, Undo, EndOfLoop

LEMMA BytesType ==
  \A from, to \in 1..MaxBody : Bytes(from, to) \in Seq(1..MaxBody)
<1> SUFFICES ASSUME NEW from \in 1..MaxBody, NEW to \in 1..MaxBody
             PROVE  Bytes(from, to) \in Seq(1..MaxBody)
  OBVIOUS
<1>1. MaxBody \in Nat
  BY ConstantsAssumption
<1>2. CASE from <= to
  <2>1. to - from + 1 \in Nat
    BY <1>1, <1>2
  <2>2. \A i \in 1..(to - from + 1) : from + i - 1 \in 1..MaxBody
    BY <1>1
  <2> QED BY <2>1, <2>2 DEF Bytes
<1>3. CASE from > to
  <2>1. 1..(to - from + 1) = 1..0
    BY <1>1, <1>3
  <2>2. Bytes(from, to) = [i \in 1..0 |-> from + i - 1]
    BY <2>1 DEF Bytes
  <2> QED BY <2>2
<1> QED BY <1>1, <1>2, <1>3

\* A list of full pieces takes the next piece, up to e.
LEMMA SpreadOn ==
  ASSUME NEW list \in Seq(Chunk), NEW c \in Nat \ {0}, NEW e \in Nat,
         Spread(list, c, Len(list) * c),
         Len(list) * c < e, e <= Len(list) * c + c,
         NEW s, NEW chunk,
         chunk = [source |-> s, bytes |-> Bytes(Len(list) * c + 1, e)]
  PROVE  Spread(Append(list, chunk), c, e)
<1> DEFINE n == Len(list)
           list1 == Append(list, chunk)
<1>1. n \in Nat /\ n * c \in Nat /\ DOMAIN list = 1..n
  OBVIOUS
<1>2. /\ Len(list1) = n + 1 /\ list1 # <<>> /\ DOMAIN list1 = 1..(n + 1)
      /\ \A i \in 1..n : list1[i] = list[i]
      /\ list1[n + 1].bytes = Bytes(n * c + 1, e)
  BY <1>1
<1>3. (n + 1) * c = n * c + c
  BY <1>1, TimesNext
<1>4. ASSUME NEW i \in 1..n
      PROVE  list[i].bytes = Bytes((i - 1) * c + 1, End(i, c, e))
  <2>1. i * c <= n * c /\ i * c \in Nat
    BY <1>1, TimesOrder
  <2>2. End(i, c, n * c) = i * c /\ End(i, c, e) = i * c
    BY <1>1, <2>1 DEF End
  <2> QED BY <1>1, <2>2 DEF Spread
<1>5. list1[n + 1].bytes = Bytes((n + 1 - 1) * c + 1, End(n + 1, c, e))
  BY <1>1, <1>2, <1>3 DEF End
<1>6. \A i \in 1..(n + 1) : i \in 1..n \/ i = n + 1
  BY <1>1
<1>7. \A i \in DOMAIN list1 :
        list1[i].bytes = Bytes((i - 1) * c + 1, End(i, c, e))
  BY <1>2, <1>4, <1>5, <1>6
<1> QED BY <1>1, <1>2, <1>3, <1>7 DEF Spread

LEMMA PieceStep ==
  UploadTypeOK /\ SelectorInv /\ PieceInv /\ [UploadNext]_uploadVars => PieceInv'
<1> SUFFICES ASSUME UploadTypeOK, SelectorInv, PieceInv, [UploadNext]_uploadVars
             PROVE  PieceInv'
  OBVIOUS
<1>0. /\ chunkSize \in Nat \ {0} /\ body \in Nat /\ pos \in Nat /\ piece \in Nat
      /\ piece <= chunkSize /\ pos <= body /\ body <= MaxBody /\ MaxBody \in Nat
      /\ chunks \in Seq(Chunk) /\ Len(chunks) \in Nat
      /\ picks \in [Source -> Nat] /\ last \in BOOLEAN
  BY ConstantsAssumption DEF UploadTypeOK, PieceInv
<1>1. CASE ReadPiece
  <2>1. /\ phase = "read" /\ phase' \in {"commit", "select"}
        /\ UNCHANGED <<chunkSize, body, picks, chunks, cancelled>>
        /\ pos' \in Nat /\ piece' \in Nat /\ pos' <= body
        /\ pos' - piece' = pos
        /\ phase' = "commit" => pos' = body /\ pos' = pos
        /\ phase' = "select" => piece' > 0
        /\ ~last' => piece' = chunkSize
        /\ last' => pos' = body
    <3> DEFINE n == IF body - pos < chunkSize THEN body - pos ELSE chunkSize
    <3>1. /\ phase = "read" /\ piece' = n /\ pos' = pos + n
          /\ last' <=> n < chunkSize
          /\ phase' = IF n = 0 THEN "commit" ELSE "select"
          /\ UNCHANGED <<chunkSize, body, picks, chunks, cancelled>>
      BY <1>1 DEF ReadPiece, EndOfLoop, settings, placing, placed
    <3>2. /\ n \in Nat /\ n <= chunkSize /\ pos + n <= body
          /\ n < chunkSize => pos + n = body
          /\ pos + n - n = pos
      BY <1>0
    <3> HIDE DEF n
    <3>3. CASE n < chunkSize
      <4>1. last' /\ pos' = body
        BY <3>1, <3>2, <3>3
      <4> QED BY <1>0, <3>1, <3>2, <4>1
    <3>4. CASE ~(n < chunkSize)
      <4>1. n = chunkSize /\ n > 0
        BY <1>0, <3>2, <3>4
      <4>2. ~last'
        BY <3>1, <3>4
      <4> QED BY <1>0, <3>1, <3>2, <4>1, <4>2
    <3> QED BY <3>3, <3>4
  <2> QED BY <1>0, <2>1 DEF PieceInv
<1>2. CASE ClientLeaves
  <2>1. PICK n \in 0..(chunkSize - 1) :
          /\ pos + n < body /\ piece' = n /\ pos' = pos + n
          /\ IF n = 0 THEN EndOfLoop ELSE phase' = "select"
    BY <1>2 DEF ClientLeaves
  <2>2. /\ phase = "read" /\ last' = TRUE /\ cancelled' = TRUE
        /\ UNCHANGED <<chunkSize, body, picks, chunks>>
    BY <1>2 DEF ClientLeaves, settings, placing, placed
  <2>3. /\ pos' - piece' = pos /\ pos' <= body
        /\ \/ phase' = "commit" /\ pos' = pos
           \/ phase' = "select" /\ piece' > 0
    <3>1. n \in Nat /\ pos + n - n = pos /\ pos + n <= body
      BY <1>0, <2>1
    <3>2. CASE n = 0
      BY <1>0, <2>1, <3>1, <3>2 DEF EndOfLoop
    <3>3. CASE n # 0
      BY <1>0, <2>1, <3>1, <3>3
    <3> QED BY <3>2, <3>3
  <2> QED BY <1>0, <2>2, <2>3 DEF PieceInv
<1>3. CASE ReadFails \/ Cleanup \/ Undo
  <2>1. /\ phase' \in {"cleanup", "undo", "failed"}
        /\ UNCHANGED <<pos, body, chunks>>
    BY <1>3 DEF ReadFails, Cleanup, Undo, settings, reading, placed
  <2> QED BY <2>1 DEF PieceInv
<1>4. CASE SelectSource
  <2>1. /\ phase = "select" /\ phase' \in {"upload", "cleanup"}
        /\ UNCHANGED <<chunkSize, body, pos, piece, last, chunks, cancelled>>
        /\ picks' = [picks EXCEPT ![Pick] = @ + 1]
    BY <1>4 DEF SelectSource, settings, reading, placed
  <2>2. \A s \in Source : picks'[s] <= picks[s] + 1
    BY <1>0, <2>1
  <2>3. \A s \in Source : picks'[s] <= Len(chunks) + 1
    BY <1>0, <2>1, <2>2 DEF PieceInv
  <2> QED BY <2>1, <2>3 DEF PieceInv
<1>5. CASE Placed
  <2> DEFINE chunk == [source |-> Target, bytes |-> Bytes(pos - piece + 1, pos)]
             n == Len(chunks)
  <2>1. /\ phase = "upload" /\ ~cancelled
        /\ chunks' = Append(chunks, chunk)
        /\ phase' = IF last THEN "commit" ELSE "read"
        /\ UNCHANGED <<chunkSize, body, pos, piece, last, picks, cancelled>>
    BY <1>5 DEF Placed, EndOfLoop, settings, reading, placing
  <2>2. /\ pos - piece = n * chunkSize /\ piece > 0
        /\ Spread(chunks, chunkSize, n * chunkSize)
        /\ ~last => piece = chunkSize
        /\ last => pos = body
        /\ \A s \in Source : picks[s] <= n + 1
    BY <2>1 DEF PieceInv
  <2>3. n * chunkSize < pos /\ pos <= n * chunkSize + chunkSize
    BY <1>0, <2>2
  <2>4. Spread(chunks', chunkSize, pos)
    BY <1>0, <2>1, <2>2, <2>3, SpreadOn
  <2>5. chunk \in Chunk
    <3>1. Target \in Source
      BY <1>0, ConstantsAssumption DEF Target, UploadTypeOK, Source
    <3>2. pos - piece + 1 \in 1..MaxBody /\ pos \in 1..MaxBody
      BY <1>0, <2>2
    <3> QED BY <3>1, <3>2, BytesType DEF Chunk
  <2> HIDE DEF chunk
  <2>6. chunks' \in Seq(Chunk) /\ Len(chunks') = n + 1
    BY <1>0, <2>1, <2>5
  <2>7. ~last => pos = Len(chunks') * chunkSize
    BY <1>0, <2>2, <2>6, TimesNext
  <2> QED BY <1>0, <2>1, <2>2, <2>4, <2>6, <2>7 DEF PieceInv
<1>6. CASE Refused \/ Failover
  <2>1. /\ phase \in {"upload", "failover"}
        /\ phase' \in {"upload", "failover", "cleanup"}
        /\ UNCHANGED <<chunkSize, body, pos, piece, last, chunks, picks,
                       cancelled>>
    BY <1>6 DEF Refused, Failover, settings, reading, placed
  <2> QED BY <2>1 DEF PieceInv
<1>7. CASE Commit
  <2>1. /\ phase = "commit" /\ UNCHANGED <<chunkSize, body, pos, chunks, cancelled>>
        /\ (phase' = "stored" /\ ~cancelled) \/ phase' = "undo"
    BY <1>7 DEF Commit, settings, reading, placed
  <2> QED BY <2>1 DEF PieceInv
<1>8. CASE UNCHANGED uploadVars
  <2>1. UNCHANGED <<phase, chunkSize, body, pos, piece, last, chunks, picks,
                    cancelled>>
    BY <1>8 DEF uploadVars, settings, reading, placing, placed
  <2> QED BY <2>1 DEF PieceInv
<1> QED BY <1>1, <1>2, <1>3, <1>4, <1>5, <1>6, <1>7, <1>8 DEF UploadNext

LEMMA CopyStep ==
  UploadTypeOK /\ PieceInv /\ CopyInv /\ [UploadNext]_uploadVars => CopyInv'
<1> SUFFICES ASSUME UploadTypeOK, PieceInv, CopyInv, [UploadNext]_uploadVars
             PROVE  CopyInv'
  OBVIOUS
<1>1. CASE Placed
  <2> DEFINE n == Len(chunks)
             copy == <<n + 1, Target>>
  <2>1. /\ phase = "upload"
        /\ chunks' = Append(chunks, [source |-> Target,
                                     bytes |-> Bytes(pos - piece + 1, pos)])
        /\ store' = store \cup {copy}
    BY <1>1 DEF Placed
  <2>2. /\ n \in Nat /\ DOMAIN chunks = 1..n /\ DOMAIN chunks' = 1..(n + 1)
        /\ \A i \in 1..n : chunks'[i] = chunks[i]
        /\ chunks'[n + 1].source = Target
    BY <2>1 DEF PieceInv
  <2>3. \A i \in 1..(n + 1) : i \in 1..n \/ i = n + 1
    BY <2>2
  <2>4. Copies' = Copies \cup {copy}
    BY <2>2, <2>3 DEF Copies
  <2> QED BY <2>1, <2>4 DEF CopyInv
<1>2. CASE Cleanup \/ Undo
  <2>1. /\ phase' \in {"cleanup", "undo", "failed"}
        /\ UNCHANGED chunks /\ store' \subseteq store
    BY <1>2 DEF Cleanup, Undo, Deleted, NotDeleted
  <2> QED BY <2>1 DEF CopyInv, Copies
<1>3. CASE UNCHANGED <<chunks, store>> /\ (phase' \in {"cleanup", "undo", "failed"}
                        \/ phase \notin {"cleanup", "undo", "failed"})
  BY <1>3 DEF CopyInv, Copies
<1>4. CASE UNCHANGED uploadVars
  BY <1>4 DEF CopyInv, Copies, uploadVars, placed
<1> QED BY <1>1, <1>2, <1>3, <1>4
        DEF UploadNext, placed, ReadPiece, ClientLeaves, ReadFails,
            SelectSource, Refused, Failover, Commit

\* There is room for the piece in hand: the list is shorter than the body.
LEMMA RoomForPiece ==
  ASSUME UploadTypeOK, PieceInv, phase \in {"select", "upload", "failover"}
  PROVE  Len(chunks) \in Nat /\ Len(chunks) + 1 <= MaxBody
<1>1. /\ Len(chunks) \in Nat /\ chunkSize \in Nat \ {0}
      /\ pos \in 0..MaxBody /\ piece \in Nat /\ MaxBody \in Nat
      /\ pos - piece = Len(chunks) * chunkSize /\ piece > 0
  BY ConstantsAssumption DEF UploadTypeOK, PieceInv
<1>2. Len(chunks) <= Len(chunks) * chunkSize
  BY <1>1, TimesGrows
<1>3. Len(chunks) * chunkSize \in Nat
  BY <1>1
<1> QED BY <1>1, <1>2, <1>3

LEMMA UploadTypeStep ==
  UploadInv /\ [UploadNext]_uploadVars => UploadTypeOK'
<1> SUFFICES ASSUME UploadInv, [UploadNext]_uploadVars
             PROVE  UploadTypeOK'
  OBVIOUS
<1> USE DEF settings, reading, selector, placing, placed
<1>0. /\ UploadTypeOK /\ SelectorInv /\ PieceInv
      /\ NumSources \in Nat \ {0} /\ MaxBody \in Nat
      /\ chunkSize \in Nat \ {0} /\ pos \in Nat
  BY ConstantsAssumption DEF UploadInv, UploadTypeOK
<1>1. SelectorInv' /\ PieceInv'
  BY <1>0, SelectorStep, PieceStep
<1>2. /\ next' \in Nat /\ chunks' \in Seq(Chunk)
      /\ \A i \in DOMAIN chunks' : /\ chunks'[i].source \in Source
                                   /\ chunks'[i].bytes \in Seq(1..MaxBody)
  <2>1. next' \in Nat /\ chunks' \in Seq(Chunk)
    BY <1>1 DEF SelectorInv, SelectorOk, PieceInv
  <2>2. \A i \in DOMAIN chunks' : chunks'[i] \in Chunk
    BY <2>1
  <2> QED BY <2>1, <2>2 DEF Chunk
<1>3. CASE ReadPiece
  <2> DEFINE n == IF body - pos < chunkSize THEN body - pos ELSE chunkSize
  <2>1. n \in 0..chunkSize /\ pos + n \in 0..MaxBody /\ (n < chunkSize) \in BOOLEAN
    BY <1>0 DEF UploadTypeOK, PieceInv
  <2>2. piece' = n /\ pos' = pos + n /\ last' = (n < chunkSize)
    BY <1>3 DEF ReadPiece
  <2> HIDE DEF n
  <2>3. piece' \in 0..chunkSize /\ pos' \in 0..MaxBody /\ last' \in BOOLEAN
    BY <2>1, <2>2
  <2> QED BY <1>0, <1>2, <1>3, <2>3
          DEF ReadPiece, EndOfLoop, UploadTypeOK, Phases
<1>4. CASE ClientLeaves
  <2>1. piece' \in 0..chunkSize /\ pos' \in 0..MaxBody
    BY <1>0, <1>4 DEF ClientLeaves, UploadTypeOK
  <2> QED BY <1>0, <1>2, <1>4, <2>1
          DEF ClientLeaves, EndOfLoop, UploadTypeOK, Phases
<1>5. CASE ReadFails
  BY <1>0, <1>2, <1>5 DEF ReadFails, UploadTypeOK, Phases
<1>6. CASE SelectSource
  <2>1. Pick \in Source
    BY <1>0, PickSpans DEF SelectorInv
  <2>2. Len(chunks) \in Nat /\ Len(chunks) + 1 <= MaxBody /\ phase = "select"
    BY <1>0, <1>6, RoomForPiece DEF SelectSource
  <2>3. picks \in [Source -> Nat] /\ \A s \in Source : picks[s] <= Len(chunks)
    BY <1>0, <2>2 DEF UploadTypeOK, PieceInv
  <2>4. picks[Pick] + 1 \in 0..MaxBody
    BY <1>0, <2>1, <2>2, <2>3
  <2>5. picks' \in [Source -> 0..MaxBody]
    BY <1>0, <1>6, <2>4 DEF SelectSource, UploadTypeOK
  <2> QED BY <1>0, <1>2, <1>6, <2>1, <2>5 DEF SelectSource, UploadTypeOK, Phases
<1>7. CASE Placed
  <2>1. Len(chunks) \in Nat /\ Len(chunks) + 1 <= MaxBody
    BY <1>0, <1>7, RoomForPiece DEF Placed
  <2>2. Target \in Source
    BY <1>0 DEF Target, UploadTypeOK, Source
  <2>3. store' \subseteq (1..MaxBody) \X Source
    BY <1>0, <1>7, <2>1, <2>2 DEF Placed, UploadTypeOK
  <2>4. Len(chunks') <= MaxBody
    BY <1>0, <1>7, <2>1 DEF Placed, PieceInv
  <2> QED BY <1>0, <1>2, <1>7, <2>3, <2>4
          DEF Placed, EndOfLoop, UploadTypeOK, Phases
<1>8. CASE Refused
  <2>1. Target \in Source
    BY <1>0 DEF Target, UploadTypeOK, Source
  <2> QED BY <1>0, <1>2, <1>8, <2>1 DEF Refused, UploadTypeOK, Phases
<1>9. CASE Failover
  <2>1. ((index + offset) % NumSources) + 1 \in Source
    BY <1>0 DEF UploadTypeOK, Source
  <2>2. offset' \in 0..NumSources
    BY <1>0, <1>9 DEF Failover, UploadTypeOK
  <2> QED BY <1>0, <1>2, <1>9, <2>1, <2>2 DEF Failover, UploadTypeOK, Phases
<1>10. CASE Cleanup \/ Undo
  <2>1. /\ store' \subseteq store
        /\ undeleted' \subseteq undeleted \cup DOMAIN chunks
        /\ phase' \in {"cleanup", "undo", "failed"}
        /\ UNCHANGED <<settings, reading, placing, chunks, stray, cancelled>>
    BY <1>10 DEF Cleanup, Undo, Deleted, NotDeleted, Remaining
  <2>2. DOMAIN chunks \subseteq 1..MaxBody
    BY <1>0 DEF UploadTypeOK, PieceInv
  <2> QED BY <1>0, <1>2, <2>1, <2>2 DEF UploadTypeOK, Phases
<1>11. CASE Commit
  <2>1. 1 \in Source /\ 0 \in 0..MaxBody /\ 0 \in 0..MaxWeight /\ 0 \in 0..NumSources
    BY <1>0, ConstantsAssumption DEF Source
  <2> QED BY <1>0, <1>2, <1>11, <2>1 DEF Commit, UploadTypeOK, Phases
<1>12. CASE UNCHANGED uploadVars
  BY <1>0, <1>12 DEF uploadVars, UploadTypeOK
<1> QED BY <1>3, <1>4, <1>5, <1>6, <1>7, <1>8, <1>9, <1>10, <1>11, <1>12
        DEF UploadNext

LEMMA UploadInvStep == UploadInv /\ [UploadNext]_uploadVars => UploadInv'
BY UploadTypeStep, SelectorStep, TryStep, PieceStep, CopyStep DEF UploadInv

LEMMA UploadInvInit == UploadInit => UploadInv
<1> SUFFICES ASSUME UploadInit PROVE UploadInv
  OBVIOUS
<1>1. NumSources \in Nat \ {0} /\ MaxBody \in Nat /\ MaxWeight \in Nat
      /\ ChunkSizes \subseteq Nat \ {0}
  BY ConstantsAssumption
<1>2. chunkSize \in Nat \ {0} /\ body \in Nat /\ chunks = <<>>
  BY <1>1 DEF UploadInit
<1>3. weights \in [Source -> 0..MaxWeight]
  BY <1>1 DEF UploadInit
<1>4. UploadTypeOK
  <2>1. /\ DOMAIN chunks = {} /\ Len(chunks) <= MaxBody
        /\ 0 \in 0..MaxBody /\ 0 \in 0..chunkSize /\ 0 \in 0..NumSources
        /\ 1 \in Source
    BY <1>1, <1>2 DEF Source
  <2>2. picks \in [Source -> 0..MaxBody]
    BY <2>1 DEF UploadInit
  <2> QED BY <1>2, <1>3, <2>1, <2>2 DEF UploadInit, UploadTypeOK, Phases
<1>5. SelectorInv
  <2>1. Fresh
    BY <1>1, <1>3 DEF Fresh, UploadInit, WeightsOk
  <2> QED BY <2>1, FreshSelector
<1>6. TryInv
  BY DEF UploadInit, TryInv
<1>7. PieceInv
  BY <1>1, <1>2 DEF UploadInit, PieceInv, Spread
<1>8. CopyInv
  BY <1>2 DEF UploadInit, CopyInv, Copies
<1> QED BY <1>4, <1>5, <1>6, <1>7, <1>8 DEF UploadInv

-----------------------------------------------------------------------------
(***************************************************************************)
(* What the invariant of the upload says of its properties.                *)
(***************************************************************************)

LEMMA UploadInvCommitted == UploadInv => CommittedWhole
BY DEF UploadInv, PieceInv, CopyInv, CommittedWhole, Spread, End, Copies

LEMMA ProductsSwap == \A r, a, b \in Nat : (r * a) * b = (r * b) * a
OBVIOUS

LEMMA UploadInvProportional == UploadInv => ProportionalPicks
<1> SUFFICES ASSUME UploadInv, next = 0, NEW s \in Source, NEW t \in Source
             PROVE  picks[s] * Weight(t) = picks[t] * Weight(s)
  BY DEF ProportionalPicks
<1>1. SelectorInv
  BY DEF UploadInv
<1>2. PICK rounds \in Nat : \A x \in Source :
        picks[x] = rounds * Weight(x) + Part(x, next)
  BY <1>1 DEF SelectorInv, InProportion
<1>3. \A x \in Source : Weight(x) \in Nat /\ Cumulative[x - 1] \in Nat
  <2>1. \A x \in Source : x - 1 \in 0..NumSources
    BY ConstantsAssumption DEF Source
  <2> QED BY <1>1, <2>1, CumulativeSteps DEF SelectorInv, SelectorOk
<1>4. \A x \in Source : Part(x, next) = 0 /\ rounds * Weight(x) \in Nat
  BY <1>3 DEF Part
<1>5. picks[s] = rounds * Weight(s) /\ picks[t] = rounds * Weight(t)
  BY <1>2, <1>4
<1> QED BY <1>3, <1>5, ProductsSwap

\* Round the bucket's sources from any one, failover comes to each.
LEMMA AlternativesAreAll ==
  ASSUME index \in Source, NEW s \in Source
  PROVE  \E k \in 0..(NumSources - 1) : Alternative(k) = s
<1>1. /\ NumSources \in Nat \ {0} /\ index \in 1..NumSources
      /\ s \in 1..NumSources
  BY ConstantsAssumption DEF Source
<1>2. CASE s >= index
  <2>1. s - index \in 0..(NumSources - 1) /\ index - 1 + (s - index) = s - 1
    BY <1>1, <1>2
  <2>2. (s - 1) % NumSources = s - 1
    BY <1>1
  <2>3. Alternative(s - index) = s
    BY <1>1, <2>1, <2>2 DEF Alternative
  <2> QED BY <2>1, <2>3
<1>3. CASE s < index
  <2> DEFINE k == s - index + NumSources
  <2>1. k \in 0..(NumSources - 1) /\ index - 1 + k = s - 1 + NumSources
    BY <1>1, <1>3
  <2>2. (s - 1 + NumSources) % NumSources = s - 1
    BY <1>1
  <2>3. Alternative(k) = s
    BY <1>1, <2>1, <2>2 DEF Alternative
  <2> QED BY <2>1, <2>3
<1> QED BY <1>1, <1>2, <1>3

LEMMA FailoverStep ==
  UploadInv /\ [UploadNext]_uploadVars =>
    (phase = "failover" /\ phase' = "cleanup" => refusals = Source)
<1> SUFFICES ASSUME UploadInv, [UploadNext]_uploadVars,
                    phase = "failover", phase' = "cleanup"
             PROVE  refusals = Source
  OBVIOUS
<1>1. Failover /\ offset + 1 >= NumSources
  BY DEF UploadNext, uploadVars, ReadPiece, ClientLeaves, ReadFails,
         SelectSource, Placed, Refused, Failover, Cleanup, Commit, Undo
<1>2. /\ \A k \in 0..offset : Alternative(k) \in refusals
      /\ offset \in Nat /\ offset < NumSources /\ NumSources \in Nat
      /\ index \in Source /\ refusals \subseteq Source
  BY ConstantsAssumption DEF UploadInv, TryInv, UploadTypeOK
<1>3. offset = NumSources - 1
  BY <1>1, <1>2
<1> QED BY <1>2, <1>3, AlternativesAreAll

LEMMA FailedStep ==
  UploadInv /\ [UploadNext]_uploadVars =>
    (phase # "failed" /\ phase' = "failed" =>
       IF phase = "cleanup"
       THEN \A copy \in store' : copy[1] \in undeleted'
       ELSE store' # {} => undeleted' # {})
<1> SUFFICES ASSUME UploadInv, [UploadNext]_uploadVars,
                    phase # "failed", phase' = "failed"
             PROVE  IF phase = "cleanup"
                    THEN \A copy \in store' : copy[1] \in undeleted'
                    ELSE store' # {} => undeleted' # {}
  OBVIOUS
<1>1. \/ Cleanup /\ phase = "cleanup"
      \/ Undo /\ phase = "undo"
  BY DEF UploadNext, uploadVars, ReadPiece, ClientLeaves, ReadFails, EndOfLoop,
         SelectSource, Placed, Refused, Failover, Cleanup, Commit, Undo
<1>2. CASE Remaining = {}
  <2>1. UNCHANGED <<store, undeleted>>
    BY <1>1, <1>2 DEF Cleanup, Undo
  <2>2. \A copy \in store : copy[1] \in undeleted
    BY <1>2 DEF Remaining, UploadInv, CopyInv, Copies
  <2> QED BY <2>1, <2>2
<1>3. CASE Remaining # {}
  BY <1>1, <1>3 DEF Cleanup, Undo, NotDeleted
<1> QED BY <1>2, <1>3

-----------------------------------------------------------------------------
(***************************************************************************)
(* The invariant of the read. Positions are counted from 0.                *)
(***************************************************************************)

\* Where chunk i of the committed object ends.
Edge(i) == End(i, chunkSize, body)

\* The part of the object that is sent: the positions Lo..Hi.
Lo == IF Partial THEN range.first ELSE 0
Hi == IF Partial THEN range.last ELSE body - 1

\* Where what lies before position n of the part lo..hi ends.
Upto(n, lo, hi) == IF n <= lo THEN lo ELSE IF n > hi + 1 THEN hi + 1 ELSE n

\* The range was found to be one of the object.
RangeSound ==
  Partial => LET parsed == ParseRange(ask, body)
             IN  parsed.ok /\ range = parsed.range

ReadInv ==
  /\ serving = "idle" => at = 1 /\ base = 0 /\ status = 0
  /\ serving # "idle" => phase = "stored" /\ (status # 416 => RangeSound)
  /\ serving \in {"chunks", "cut"} =>
       /\ at <= Len(chunks) + 1
       /\ base = End(at - 1, chunkSize, body)
       /\ ~legacy => sent = Bytes(Lo + 1, Upto(base, Lo, Hi))
  /\ status \in {0, 416, 500} => sent = <<>> /\ promised = 0
  /\ status \in {200, 206} => serving # "idle" /\ promised = Hi - Lo + 1
  /\ status \in {416, 500} => serving = "answered"
  /\ status = 416 => RangeApplies(ask) /\ ~ParseRange(ask, body).ok
  /\ serving = "cut" =>
       /\ status \in {200, 206}
       /\ ~legacy => Upto(base, Lo, Hi) < Hi + 1
  /\ serving = "answered" =>
       /\ status # 0
       /\ ~legacy /\ status \in {200, 206} => sent = Bytes(Lo + 1, Hi + 1)

(***************************************************************************)
(* Runs of bytes.                                                          *)
(***************************************************************************)

LEMMA BytesAre ==
  ASSUME NEW a \in Nat, NEW b \in Nat, a <= b
  PROVE  /\ Bytes(a + 1, b) \in Seq(Nat)
         /\ Len(Bytes(a + 1, b)) = b - a
         /\ DOMAIN Bytes(a + 1, b) = 1..(b - a)
         /\ \A k \in 1..(b - a) : Bytes(a + 1, b)[k] = a + k
<1>1. b - (a + 1) + 1 = b - a /\ b - a \in Nat
  OBVIOUS
<1>2. Bytes(a + 1, b) = [i \in 1..(b - a) |-> a + 1 + i - 1]
  BY <1>1 DEF Bytes
<1> HIDE DEF Bytes
<1>3. \A i \in 1..(b - a) : a + 1 + i - 1 = a + i /\ a + i \in Nat
  OBVIOUS
<1> QED BY <1>1, <1>2, <1>3

LEMMA BytesJoin ==
  ASSUME NEW a \in Nat, NEW b \in Nat, NEW c \in Nat, a <= b, b <= c
  PROVE  Bytes(a + 1, b) \o Bytes(b + 1, c) = Bytes(a + 1, c)
<1> DEFINE s == Bytes(a + 1, b)
           t == Bytes(b + 1, c)
           u == Bytes(a + 1, c)
<1>1. s \in Seq(Nat) /\ Len(s) = b - a /\ \A k \in 1..(b - a) : s[k] = a + k
  BY BytesAre
<1>2. t \in Seq(Nat) /\ Len(t) = c - b /\ \A k \in 1..(c - b) : t[k] = b + k
  BY BytesAre
<1>3. u \in Seq(Nat) /\ Len(u) = c - a /\ \A k \in 1..(c - a) : u[k] = a + k
  <2>1. a <= c
    OBVIOUS
  <2> QED BY <2>1, BytesAre
<1> HIDE DEF s, t, u
<1>4. /\ s \o t \in Seq(Nat) /\ Len(s \o t) = c - a
      /\ \A k \in 1..(c - a) : (s \o t)[k] = IF k <= b - a THEN s[k]
                                                      ELSE t[k - (b - a)]
  <2>1. Len(s) + Len(t) = c - a
    BY <1>1, <1>2
  <2>2. /\ s \o t \in Seq(Nat) /\ Len(s \o t) = Len(s) + Len(t)
        /\ \A k \in 1..(Len(s) + Len(t)) :
             (s \o t)[k] = IF k <= Len(s) THEN s[k] ELSE t[k - Len(s)]
    BY <1>1, <1>2, ConcatProperties
  <2>3. Len(s) = b - a
    BY <1>1
  <2> QED BY <2>1, <2>2, <2>3
<1>5. ASSUME NEW k \in 1..(c - a) PROVE (s \o t)[k] = u[k]
  <2>1. CASE k <= b - a
    BY <1>1, <1>3, <1>4, <2>1
  <2>2. CASE k > b - a
    <3>1. k - (b - a) \in 1..(c - b) /\ b + (k - (b - a)) = a + k
      BY <2>2
    <3>2. (s \o t)[k] = t[k - (b - a)]
      BY <1>4, <2>2
    <3> QED BY <1>2, <1>3, <3>1, <3>2
  <2>3. k <= b - a \/ k > b - a
    OBVIOUS
  <2> QED BY <2>1, <2>2, <2>3
<1>6. s \o t = u
  BY <1>3, <1>4, <1>5, SeqEqual
<1> QED BY <1>6 DEF s, t, u

LEMMA BytesPart ==
  ASSUME NEW a \in Nat, NEW b \in Nat, NEW m \in Nat, NEW n \in Nat,
         m <= n, a + n <= b
  PROVE  SubSeq(Bytes(a + 1, b), m + 1, n) = Bytes(a + m + 1, a + n)
<1> DEFINE s == Bytes(a + 1, b)
           t == Bytes(a + m + 1, a + n)
<1>1. s \in Seq(Nat) /\ Len(s) = b - a /\ \A k \in 1..(b - a) : s[k] = a + k
  BY BytesAre
<1>2. /\ t \in Seq(Nat) /\ Len(t) = n - m
      /\ \A k \in 1..(n - m) : t[k] = a + m + k
  <2> DEFINE lo == a + m
             hi == a + n
  <2>1. lo \in Nat /\ hi \in Nat /\ lo <= hi /\ hi - lo = n - m
    OBVIOUS
  <2>2. t = Bytes(lo + 1, hi)
    OBVIOUS
  <2> HIDE DEF lo, hi, t
  <2>3. /\ t \in Seq(Nat) /\ Len(t) = n - m
        /\ \A k \in 1..(n - m) : t[k] = lo + k
    BY <2>1, <2>2, BytesAre
  <2> QED BY <2>3 DEF lo
<1> HIDE DEF s, t
<1>3. SubSeq(s, m + 1, n) \in Seq(Nat) /\ Len(SubSeq(s, m + 1, n)) = n - m
  BY <1>1
<1>4. ASSUME NEW k \in 1..(n - m) PROVE SubSeq(s, m + 1, n)[k] = t[k]
  BY <1>1, <1>2
<1>5. SubSeq(s, m + 1, n) = t
  BY <1>2, <1>3, <1>4, SeqEqual
<1> QED BY <1>5 DEF s, t

LEMMA BytesBegin ==
  ASSUME NEW a \in Nat, NEW b \in Nat, NEW c \in Nat, a <= b, b <= c
  PROVE  BeginsLike(Bytes(a + 1, b), (a + 1)..c)
<1> DEFINE s == Bytes(a + 1, b)
<1>1. DOMAIN s = 1..(b - a) /\ \A k \in 1..(b - a) : s[k] = a + k
  BY BytesAre
<1> HIDE DEF s
<1>2. \A k \in DOMAIN s : s[k] \in (a + 1)..c
  BY <1>1
<1>3. ASSUME NEW k \in DOMAIN s, NEW i \in (a + 1)..c, ~(s[k] <= i)
      PROVE  \E j \in 1..(k - 1) : s[j] = i
  <2>1. i - a \in 1..(k - 1) /\ i - a \in 1..(b - a)
    BY <1>1, <1>3
  <2>2. s[i - a] = i
    BY <1>1, <2>1
  <2> QED BY <2>1, <2>2
<1> QED BY <1>2, <1>3 DEF BeginsLike, s

(***************************************************************************)
(* The committed object.                                                   *)
(***************************************************************************)

\* The chunks of a committed object lie edge to edge.
LEMMA Edges ==
  ASSUME UploadInv, phase = "stored"
  PROVE  /\ Len(chunks) \in Nat /\ DOMAIN chunks = 1..Len(chunks)
         /\ Len(chunks) <= MaxBody /\ body \in Nat /\ body <= MaxBody
         /\ \A i \in 0..Len(chunks) : Edge(i) \in 0..body
         /\ Edge(0) = 0 /\ Edge(Len(chunks)) = body
         /\ \A i \in 1..Len(chunks) :
              /\ Edge(i - 1) < Edge(i)
              /\ chunks[i].bytes = Bytes(Edge(i - 1) + 1, Edge(i))
              /\ chunks[i].bytes \in Seq(1..MaxBody)
              /\ Size(i) = Edge(i) - Edge(i - 1)
<1> DEFINE n == Len(chunks)
           c == chunkSize
<1>1. /\ n \in Nat /\ DOMAIN chunks = 1..n /\ n <= MaxBody /\ MaxBody \in Nat
      /\ c \in Nat \ {0} /\ body \in Nat /\ body <= MaxBody
      /\ chunks \in Seq(Chunk)
      /\ Spread(chunks, c, body)
  BY ConstantsAssumption DEF UploadInv, UploadTypeOK, PieceInv
<1>2. /\ n = 0 => body = 0
      /\ n > 0 => (n - 1) * c < body
      /\ body <= n * c
      /\ \A i \in 1..n : chunks[i].bytes = Bytes((i - 1) * c + 1, Edge(i))
  BY <1>1 DEF Spread, Edge
<1>3. \A i \in 0..n : i * c \in Nat /\ Edge(i) \in 0..body
  BY <1>1 DEF Edge, End
<1>4. Edge(0) = 0 /\ Edge(n) = body
  BY <1>1, <1>2, <1>3 DEF Edge, End
<1>5. ASSUME NEW i \in 1..n
      PROVE  /\ Edge(i - 1) < Edge(i)
             /\ chunks[i].bytes = Bytes(Edge(i - 1) + 1, Edge(i))
             /\ chunks[i].bytes \in Seq(1..MaxBody)
             /\ Size(i) = Edge(i) - Edge(i - 1)
  <2>1. (i - 1) * c <= (n - 1) * c /\ (i - 1) * c \in Nat
    <3>1. i - 1 \in Nat /\ n - 1 \in Nat /\ i - 1 <= n - 1
      BY <1>1
    <3> QED BY <1>1, <3>1, TimesOrder
  <2>2. (n - 1) * c \in Nat /\ (n - 1) * c < body
    BY <1>1, <1>2
  <2>3. (i - 1) * c < body
    BY <1>1, <2>1, <2>2
  <2>4. i * c = (i - 1) * c + c
    <3>1. i - 1 \in Nat /\ i - 1 + 1 = i
      BY <1>1
    <3> QED BY <1>1, <3>1, TimesNext
  <2>5. Edge(i - 1) = (i - 1) * c
    BY <2>3 DEF Edge, End
  <2>6. Edge(i - 1) < Edge(i) /\ Edge(i) \in Nat /\ Edge(i - 1) \in Nat
    BY <1>1, <1>3, <2>1, <2>3, <2>4, <2>5 DEF Edge, End
  <2>7. chunks[i].bytes = Bytes(Edge(i - 1) + 1, Edge(i))
    BY <1>2, <2>5
  <2>8. chunks[i].bytes \in Seq(1..MaxBody)
    <3>1. chunks[i] \in Chunk
      BY <1>1, ElementOfSeq
    <3> QED BY <3>1 DEF Chunk
  <2>9. Size(i) = Edge(i) - Edge(i - 1)
    BY <2>6, <2>7, BytesAre DEF Size
  <2> QED BY <2>6, <2>7, <2>8, <2>9
<1> QED BY <1>1, <1>3, <1>4, <1>5

LEMMA FileSizeIsBody ==
  ASSUME UploadInv, phase = "stored"
  PROVE  FileSize = body
<1> DEFINE n == Len(chunks)
           w == [i \in 1..n |-> Len(chunks[i].bytes)]
           T == CHOOSE T : T = [i \in 0..n |->
                  IF i = 0 THEN 0 ELSE T[i - 1] + Len(chunks[i].bytes)]
           g == [i \in 0..n |-> Edge(i)]
<1>1. n \in Nat /\ \A i \in 1..n : /\ Edge(i - 1) \in Nat /\ Edge(i) \in Nat
                                   /\ i - 1 \in 0..n /\ i \in 0..n
                                   /\ w[i] = Edge(i) - Edge(i - 1)
                                   /\ w[i] \in Nat
  BY Edges DEF Size
<1>2. \A f : Totals(f, w, n) <=>
              f = [i \in 0..n |->
                     IF i = 0 THEN 0 ELSE f[i - 1] + Len(chunks[i].bytes)]
  <2> TAKE f
  <2>1. [i \in 0..n |-> IF i = 0 THEN 0 ELSE f[i - 1] + w[i]]
          = [i \in 0..n |->
               IF i = 0 THEN 0 ELSE f[i - 1] + Len(chunks[i].bytes)]
    OBVIOUS
  <2> QED BY <2>1 DEF Totals
<1>3. g[0] = 0 /\ \A i \in 1..n : g[i] = g[i - 1] + w[i]
  BY <1>1, Edges
<1>4. \E f : Totals(f, w, n)
  <2>1. w \in [1..n -> Nat]
    BY <1>1
  <2> HIDE DEF w
  <2> QED BY <1>1, <2>1, TotalsExist
<1>5. Totals(T, w, n)
  BY <1>2, <1>4
<1>6. \A i \in 0..n : T[i] = g[i]
  <2> HIDE DEF T, w, g
  <2> QED BY <1>1, <1>3, <1>5, TotalsUnique
<1>7. FileSize = T[n]
  BY DEF FileSize
<1>8. T[n] = Edge(n)
  <2> HIDE DEF T
  <2> QED BY <1>1, <1>6
<1> QED BY <1>7, <1>8, Edges

(***************************************************************************)
(* The range.                                                              *)
(***************************************************************************)

LEMMA ParsedRange ==
  ASSUME NEW q \in Asks, NEW total \in Nat, ParseRange(q, total).ok
  PROVE  LET r == ParseRange(q, total).range
         IN  /\ r.first \in Nat /\ r.last \in Nat
             /\ r.first <= r.last /\ r.last < total
<1>1. /\ q.form \in {"none", "bounded", "from", "suffix", "other"}
      /\ q.a \in Nat /\ q.b \in Nat
      /\ q.form = "none" => q.a = 0
  BY ConstantsAssumption DEF Asks
<1> QED BY <1>1 DEF ParseRange

\* The part that is sent lies in the object and is what the client means.
LEMMA PartIsMeant ==
  ASSUME body \in Nat, ask \in Asks, RangeSound
  PROVE  /\ Lo \in Nat /\ Hi \in Int /\ Lo <= Hi + 1 /\ Hi < body
         /\ Partial => Lo <= Hi
         /\ Meant = (Lo + 1)..(Hi + 1)
<1>1. /\ ask.form \in {"none", "bounded", "from", "suffix", "other"}
      /\ ask.a \in Nat /\ ask.b \in Nat /\ ask.stale \in BOOLEAN
  BY ConstantsAssumption DEF Asks
<1>2. CASE Partial
  <2>1. /\ Lo \in Nat /\ Hi \in Nat /\ Lo <= Hi /\ Hi < body
    BY <1>2, ParsedRange DEF RangeSound, Lo, Hi
  <2>2. Meant = (Lo + 1)..(Hi + 1)
    <3>1. ASSUME NEW i \in 1..body
          PROVE  i \in Meant <=> Lo + 1 <= i /\ i <= Hi + 1
      BY <1>1, <1>2, <2>1
         DEF Meant, Partial, RangeApplies, RangeSound, ParseRange, Lo, Hi
    <3>2. Meant \subseteq 1..body
      BY DEF Meant
    <3>3. ASSUME NEW i \in (Lo + 1)..(Hi + 1) PROVE i \in 1..body
      BY <2>1
    <3>4. ASSUME NEW i \in Meant PROVE i \in (Lo + 1)..(Hi + 1)
      <4>1. i \in 1..body /\ Lo + 1 <= i /\ i <= Hi + 1
        BY <3>1, <3>2
      <4> QED BY <2>1, <4>1
    <3>5. ASSUME NEW i \in (Lo + 1)..(Hi + 1) PROVE i \in Meant
      <4>1. Lo + 1 <= i /\ i <= Hi + 1
        BY <2>1
      <4> QED BY <3>1, <3>3, <4>1
    <3> QED BY <3>4, <3>5
  <2> QED BY <2>1, <2>2
<1>3. CASE ~Partial
  <2>1. Lo = 0 /\ Hi = body - 1
    BY <1>3 DEF Lo, Hi
  <2>2. Meant = 1..body
    BY <1>1, <1>3 DEF Meant, Partial, RangeApplies
  <2> QED BY <1>3, <2>1, <2>2
<1> QED BY <1>2, <1>3

\* A range that is refused is one of which the object has nothing.
LEMMA RefusedMeansNothing ==
  ASSUME body \in Nat, ask \in Asks, RangeApplies(ask),
         ~ParseRange(ask, body).ok
  PROVE  Meant = {}
<1>1. /\ ask.form \in {"none", "bounded", "from", "suffix", "other"}
      /\ ask.a \in Nat /\ ask.b \in Nat /\ ask.stale \in BOOLEAN
  BY ConstantsAssumption DEF Asks
<1>2. ASSUME NEW i \in Meant PROVE FALSE
  <2>1. i \in 1..body
    BY DEF Meant
  <2> QED BY <1>1, <1>2, <2>1 DEF Meant, RangeApplies, ParseRange
<1> QED BY <1>2
-----------------------------------------------------------------------------
(***************************************************************************)
(* The chunk the loop is at.                                               *)
(***************************************************************************)

Inv == UploadInv /\ TypeOK /\ ReadInv

Sending == serving = "chunks" /\ ~LoopEnded

LEMMA ReadFacts ==
  ASSUME Inv, serving # "idle", status # 416
  PROVE  /\ phase = "stored" /\ body \in Nat /\ body <= MaxBody /\ ask \in Asks
         /\ FileSize = body
         /\ Lo \in Nat /\ Hi \in Int /\ Lo <= Hi + 1 /\ Hi < body
         /\ Partial => Lo <= Hi
         /\ Length = Hi - Lo + 1 /\ Length \in 0..MaxBody
         /\ Meant = (Lo + 1)..(Hi + 1)
         /\ legacy \in BOOLEAN
<1>1. /\ phase = "stored" /\ RangeSound /\ ask \in Asks /\ UploadInv
      /\ legacy \in BOOLEAN
  BY DEF Inv, ReadInv, TypeOK
<1>2. body \in Nat /\ body <= MaxBody /\ MaxBody \in Nat /\ FileSize = body
  BY <1>1, Edges, FileSizeIsBody, ConstantsAssumption
<1>3. /\ Lo \in Nat /\ Hi \in Int /\ Lo <= Hi + 1 /\ Hi < body
      /\ Partial => Lo <= Hi
      /\ Meant = (Lo + 1)..(Hi + 1)
  BY <1>1, <1>2, PartIsMeant
<1>4. Length = Hi - Lo + 1
  BY <1>2 DEF Length, Lo, Hi
<1> QED BY <1>1, <1>2, <1>3, <1>4

LEMMA ChunkFacts ==
  ASSUME Inv, Sending
  PROVE  /\ at \in 1..Len(chunks) /\ Len(chunks) <= MaxBody
         /\ base \in Nat /\ Edge(at) \in Nat /\ base < Edge(at) /\ Edge(at) <= body
         /\ Size(at) = Edge(at) - base /\ base + Size(at) = Edge(at)
         /\ chunks[at].bytes = Bytes(base + 1, Edge(at))
         /\ chunks[at].bytes \in Seq(1..MaxBody)
         /\ Len(chunks[at].bytes) = Edge(at) - base
         /\ Partial => base <= Hi
         /\ status \in {0, 200, 206}
<1>1. /\ phase = "stored" /\ UploadInv /\ at <= Len(chunks) + 1 /\ at \in Nat \ {0}
      /\ base = Edge(at - 1) /\ status \in {0, 200, 206}
  BY ConstantsAssumption DEF Inv, ReadInv, TypeOK, Sending, Edge
<1>2. at <= Len(chunks) /\ ~Beyond(at) /\ Len(chunks) \in Nat
  BY <1>1, Edges DEF Sending, LoopEnded
<1>3. at \in 1..Len(chunks)
  BY <1>1, <1>2
<1>4. /\ base \in Nat /\ Edge(at) \in Nat /\ base < Edge(at) /\ Edge(at) <= body
      /\ Size(at) = Edge(at) - base
      /\ chunks[at].bytes = Bytes(base + 1, Edge(at))
      /\ chunks[at].bytes \in Seq(1..MaxBody)
      /\ Len(chunks) <= MaxBody
  <2>1. Edge(at - 1) \in 0..body /\ Edge(at) \in 0..body /\ body \in Nat
    BY <1>1, <1>3, Edges
  <2> QED BY <1>1, <1>3, <2>1, Edges
<1>5. Partial => base <= Hi
  <2>1. ASSUME Partial PROVE range.last \in Int
    BY <2>1, ConstantsAssumption DEF Inv, TypeOK
  <2> QED BY <1>2, <1>4, <2>1 DEF Beyond, Hi
<1> QED BY <1>1, <1>3, <1>4, <1>5 DEF Size

\* While the loop is at a chunk, some of what is wanted is still to come.
LEMMA NotAtEnd ==
  ASSUME Inv, Sending
  PROVE  Upto(base, Lo, Hi) \in Nat /\ Upto(base, Lo, Hi) < Hi + 1
<1>1. /\ Lo \in Nat /\ Hi \in Int /\ Lo <= Hi + 1 /\ Hi < body /\ body \in Nat
      /\ Partial => Lo <= Hi
      /\ base \in Nat /\ base < body
      /\ Partial => base <= Hi
  BY ReadFacts, ChunkFacts DEF Sending
<1>2. ~Partial => Lo = 0 /\ Hi = body - 1
  BY DEF Lo, Hi
<1>3. CASE Partial
  BY <1>1, <1>3 DEF Upto
<1>4. CASE ~Partial
  BY <1>1, <1>2, <1>4 DEF Upto
<1> QED BY <1>3, <1>4

\* What is written of a whole chunk continues what was written before.
LEMMA WantedContinues ==
  ASSUME Inv, Sending, ~Before(at)
  PROVE  /\ Wanted(at, chunks[at].bytes)
              = Bytes(Upto(base, Lo, Hi) + 1, Upto(Edge(at), Lo, Hi))
         /\ Upto(base, Lo, Hi) \in Nat /\ Upto(Edge(at), Lo, Hi) \in Nat
         /\ Lo <= Upto(base, Lo, Hi)
         /\ Upto(base, Lo, Hi) < Upto(Edge(at), Lo, Hi)
         /\ Upto(Edge(at), Lo, Hi) <= Hi + 1
         /\ Partial => Len(chunks[at].bytes) >= LocalLast(at) + 1
<1> DEFINE e == Edge(at)
           data == chunks[at].bytes
<1>1. /\ Lo \in Nat /\ Hi \in Int /\ Lo <= Hi + 1 /\ Hi < body /\ body \in Nat
      /\ Partial => Lo <= Hi
      /\ base \in Nat /\ e \in Nat /\ base < e /\ e <= body
      /\ base + Size(at) = e /\ Size(at) = e - base
      /\ data = Bytes(base + 1, e) /\ Len(data) = e - base
      /\ Partial => base <= Hi
  BY ReadFacts, ChunkFacts DEF Sending
<1> HIDE DEF e, data
<1>2. CASE Partial
  <2> DEFINE m == IF Lo > base THEN Lo - base ELSE 0
             n == IF Hi < e - 1 THEN Hi - base + 1 ELSE e - base
  <2>1. Lo < e
    BY <1>1, <1>2 DEF Before, Lo
  <2>2. LocalFirst(at) = m /\ LocalLast(at) + 1 = n
    BY <1>1, <1>2 DEF LocalFirst, LocalLast, Lo, Hi
  <2>3. m \in Nat /\ n \in Nat /\ m < n /\ base + n <= e /\ n <= Len(data)
    BY <1>1, <1>2, <2>1
  <2>4. Wanted(at, data) = SubSeq(data, m + 1, n)
    BY <1>2, <2>2, <2>3 DEF Wanted
  <2>5. base + m = Upto(base, Lo, Hi) /\ base + n = Upto(e, Lo, Hi)
    BY <1>1, <1>2, <2>1 DEF Upto
  <2> HIDE DEF m, n
  <2>6. SubSeq(data, m + 1, n) = Bytes(base + m + 1, base + n)
    <3>1. /\ base \in Nat /\ e \in Nat /\ m \in Nat /\ n \in Nat
          /\ m <= n /\ base + n <= e
      BY <1>1, <2>3
    <3>2. SubSeq(Bytes(base + 1, e), m + 1, n) = Bytes(base + m + 1, base + n)
      BY <3>1, BytesPart
    <3> QED BY <1>1, <3>2
  <2>7. /\ Lo <= Upto(base, Lo, Hi) /\ Upto(e, Lo, Hi) <= Hi + 1
    BY <1>1, <1>2 DEF Upto
  <2>8. base + m < base + n /\ base + m \in Nat /\ base + n \in Nat
    BY <1>1, <2>3
  <2> QED BY <2>2, <2>3, <2>4, <2>5, <2>6, <2>7, <2>8 DEF e, data
<1>3. CASE ~Partial
  <2>1. Lo = 0 /\ Hi = body - 1
    BY <1>3 DEF Lo, Hi
  <2>2. Upto(base, Lo, Hi) = base /\ Upto(e, Lo, Hi) = e
    BY <1>1, <2>1 DEF Upto
  <2>3. Wanted(at, data) = data
    BY <1>3 DEF Wanted
  <2> QED BY <1>1, <1>3, <2>1, <2>2, <2>3 DEF e, data
<1> QED BY <1>2, <1>3

\* Only data of an object without checksums may not be the chunk.
LEMMA VerifiedData ==
  ASSUME Inv, Sending, NEW data \in Returned(at), Verified(at, data)
  PROVE  /\ data \in Seq(0..MaxBody)
         /\ ~legacy => data = chunks[at].bytes
<1> DEFINE true == chunks[at].bytes
<1>1. true \in Seq(1..MaxBody) /\ Len(true) \in Nat \ {0}
  BY ChunkFacts
<1>2. true \in Seq(0..MaxBody)
  <2>1. 1..MaxBody \subseteq 0..MaxBody
    BY ConstantsAssumption
  <2> QED BY <1>1, <2>1, SeqMonotonic
<1>3. CASE legacy
  <2>1. data = true \/ data = SubSeq(true, 1, Len(true) - 1)
    BY <1>3 DEF Returned
  <2>2. SubSeq(true, 1, Len(true) - 1) \in Seq(0..MaxBody)
    <3>1. \A i \in 1..(Len(true) - 1) : true[i] \in 0..MaxBody
      <4> TAKE i \in 1..(Len(true) - 1)
      <4>1. i \in 1..Len(true)
        BY <1>1
      <4> QED BY <1>2, <4>1, ElementOfSeq
    <3> QED BY <1>1, <3>1, SubSeqProperties
  <2> QED BY <1>2, <1>3, <2>1, <2>2
<1>4. CASE ~legacy
  BY <1>2, <1>4 DEF Verified
<1> QED BY <1>3, <1>4

LEMMA WantedType ==
  ASSUME Inv, Sending, NEW data \in Seq(0..MaxBody)
  PROVE  Wanted(at, data) \in Seq(0..MaxBody)
<1>1. CASE ~Partial
  BY <1>1 DEF Wanted
<1>2. CASE Partial
  <2> DEFINE m == LocalFirst(at) + 1
             n == IF LocalLast(at) + 1 <= Len(data) THEN LocalLast(at) + 1
                                                    ELSE Len(data)
  <2>1. /\ base \in Nat /\ Size(at) \in Int
        /\ range.first \in Int /\ range.last \in Int /\ Len(data) \in Nat
    BY ChunkFacts, ReadFacts, <1>2 DEF Sending, Lo, Hi
  <2>2. LocalFirst(at) \in Nat /\ LocalLast(at) \in Int
    BY <2>1 DEF LocalFirst, LocalLast
  <2>3. m \in Int /\ n \in Int /\ m >= 1 /\ n <= Len(data)
    BY <2>1, <2>2
  <2> HIDE DEF m, n
  <2>4. \A i \in m..n : data[i] \in 0..MaxBody
    <3>1. \A i \in m..n : i \in 1..Len(data)
      BY <2>1, <2>3
    <3> QED BY <3>1, ElementOfSeq
  <2>5. SubSeq(data, m, n) \in Seq(0..MaxBody)
    BY <2>3, <2>4, SubSeqProperties
  <2> QED BY <1>2, <2>5 DEF Wanted, m, n
<1> QED BY <1>1, <1>2

-----------------------------------------------------------------------------
(***************************************************************************)
(* The steps of the read.                                                  *)
(***************************************************************************)

LEMMA RangeKept ==
  ASSUME UNCHANGED <<uploadVars, ask, range>>
  PROVE  /\ Partial' = Partial /\ Lo' = Lo /\ Hi' = Hi
         /\ RangeSound' = RangeSound /\ UNCHANGED <<chunkSize, body, chunks, phase>>
BY DEF Partial, Lo, Hi, RangeSound, uploadVars, settings, placed

LEMMA UploadKept ==
  ASSUME Inv, UNCHANGED uploadVars
  PROVE  UploadInv' /\ UploadTypeOK'
BY UploadInvStep DEF Inv, UploadInv

\* The header promises what is wanted.
LEMMA Committed ==
  ASSUME Inv, serving = "chunks", CommitHeader
  PROVE  /\ status' \in {200, 206}
         /\ promised' = Hi - Lo + 1 /\ promised' \in 0..MaxBody
<1>1. /\ status \in {0, 200, 206}
      /\ status \in {200, 206} => promised = Hi - Lo + 1
      /\ promised \in 0..MaxBody
  BY DEF Inv, ReadInv, TypeOK
<1>2. Length = Hi - Lo + 1 /\ Length \in 0..MaxBody
  BY <1>1, ReadFacts
<1> QED BY <1>1, <1>2 DEF CommitHeader

LEMMA GetStep ==
  Inv /\ Get => TypeOK' /\ ReadInv'
<1> SUFFICES ASSUME Inv, Get PROVE TypeOK' /\ ReadInv'
  OBVIOUS
<1>1. /\ phase = "stored" /\ serving = "idle" /\ legacy' \in BOOLEAN
      /\ UNCHANGED <<uploadVars, at, base, promised, sent>>
      /\ at = 1 /\ base = 0 /\ status = 0 /\ sent = <<>> /\ promised = 0
  BY DEF Get, Inv, ReadInv
<1>2. UploadInv /\ UploadTypeOK' /\ UNCHANGED <<chunkSize, body, chunks, phase>>
  BY <1>1, UploadKept DEF Inv, uploadVars, settings, placed
<1>3. FileSize = body /\ body \in Nat /\ body <= MaxBody /\ MaxBody \in Nat
  BY <1>1, <1>2, FileSizeIsBody, Edges, ConstantsAssumption
<1>4. PICK q \in Asks :
        /\ ask' = q
        /\ \/ ~RangeApplies(q) /\ range' = Whole /\ serving' = "chunks"
                               /\ status' = 0
           \/ /\ RangeApplies(q) /\ ParseRange(q, body).ok
              /\ range' = ParseRange(q, body).range
              /\ serving' = "chunks" /\ status' = 0
           \/ /\ RangeApplies(q) /\ ~ParseRange(q, body).ok
              /\ serving' = "answered" /\ status' = 416 /\ range' = range
  BY <1>1, <1>3 DEF Get
<1>5. range' \in [first : 0..MaxBody, last : -1..MaxBody]
  <2>1. Whole \in [first : 0..MaxBody, last : -1..MaxBody]
    BY <1>3 DEF Whole
  <2>2. ASSUME ParseRange(q, body).ok
        PROVE  ParseRange(q, body).range \in [first : 0..MaxBody, last : -1..MaxBody]
    <3> DEFINE r == ParseRange(q, body).range
    <3>1. r = [first |-> r.first, last |-> r.last]
      BY DEF ParseRange
    <3>2. r.first \in 0..MaxBody /\ r.last \in -1..MaxBody
      BY <1>3, <2>2, ParsedRange
    <3> QED BY <3>1, <3>2
  <2> QED BY <1>4, <2>1, <2>2 DEF Inv, TypeOK
<1>6. TypeOK'
  BY <1>1, <1>2, <1>4, <1>5 DEF Inv, TypeOK
<1>7. Partial' = RangeApplies(q)
  BY <1>4 DEF Partial
<1>8. status' # 416 => RangeSound'
  BY <1>2, <1>4, <1>7 DEF RangeSound
<1>9. End(0, chunkSize, body) = 0
  <2>1. chunkSize \in Nat /\ 0 * chunkSize = 0
    BY <1>2, ConstantsAssumption DEF UploadInv, UploadTypeOK
  <2> QED BY <1>3, <2>1 DEF End
<1>10. serving' = "chunks" => Bytes(Lo' + 1, Upto(0, Lo', Hi')) = <<>>
  <2> SUFFICES ASSUME serving' = "chunks"
               PROVE  Bytes(Lo' + 1, Upto(0, Lo', Hi')) = <<>>
    OBVIOUS
  <2>1. Lo' \in Nat
    BY <1>4, <1>5, <1>7 DEF Lo
  <2>2. Upto(0, Lo', Hi') = Lo'
    BY <2>1 DEF Upto
  <2>3. Bytes(Lo' + 1, Lo') \in Seq(Nat) /\ Len(Bytes(Lo' + 1, Lo')) = 0
    BY <2>1, BytesAre
  <2> QED BY <2>2, <2>3, EmptySeq
<1> HIDE DEF Upto, End
<1>11. ReadInv'
  <2>1. at' <= Len(chunks') + 1
    BY <1>1, <1>2, Edges
  <2> QED BY <1>1, <1>2, <1>4, <1>8, <1>9, <1>10, <2>1 DEF ReadInv
<1> QED BY <1>6, <1>11

\* The loop goes on to the next chunk.
LEMMA NextChunkStep ==
  ASSUME Inv, Sending, NextChunk,
         UNCHANGED <<uploadVars, serving, ask, legacy, range>>,
         \/ status' = status /\ promised' = promised
         \/ status' \in {200, 206} /\ promised' = Hi - Lo + 1,
         promised' \in 0..MaxBody,
         sent' \in Seq(0..MaxBody), Len(sent') <= promised',
         status' = 0 => sent' = <<>>,
         ~legacy => sent' = Bytes(Lo + 1, Upto(Edge(at), Lo, Hi))
  PROVE  TypeOK' /\ ReadInv'
<1>1. /\ at \in 1..Len(chunks) /\ Len(chunks) <= MaxBody
      /\ base + Size(at) = Edge(at) /\ Edge(at) <= body /\ Edge(at) \in Nat
      /\ status \in {0, 200, 206} /\ serving = "chunks"
      /\ body <= MaxBody /\ Len(chunks) \in Nat /\ body \in Nat /\ MaxBody \in Nat
  BY ChunkFacts, ReadFacts, Edges, ConstantsAssumption DEF Sending, Inv
<1>2. at' = at + 1 /\ base' = Edge(at)
  BY <1>1 DEF NextChunk
<1>3. at' \in 1..(MaxBody + 1) /\ base' \in 0..MaxBody /\ at' - 1 = at
      /\ at' <= Len(chunks) + 1
  BY <1>1, <1>2
<1>4. TypeOK'
  <2>1. UploadTypeOK'
    BY UploadKept
  <2>2. status' \in {0, 200, 206, 416, 500}
    BY <1>1
  <2>3. TypeOK
    BY DEF Inv
  <2> QED BY <1>3, <2>1, <2>2, <2>3 DEF TypeOK
<1>5. base' = End(at' - 1, chunkSize, body)
  BY <1>2, <1>3 DEF Edge
<1>6. ReadInv'
  BY <1>1, <1>2, <1>3, <1>5, RangeKept DEF Inv, ReadInv
<1> QED BY <1>4, <1>6

\* An error ends the answer; before the end of what is wanted.
LEMMA FailStep ==
  ASSUME Inv, Sending, Fail,
         UNCHANGED <<uploadVars, ask, legacy, range, at, base, sent>>
  PROVE  TypeOK' /\ ReadInv'
<1>1. /\ status \in {0, 200, 206} /\ serving = "chunks"
      /\ Upto(base, Lo, Hi) < Hi + 1
  BY ChunkFacts, NotAtEnd DEF Sending
<1>2. /\ promised' = promised /\ serving' \in {"answered", "cut"}
      /\ status = 0 => status' = 500 /\ serving' = "answered"
      /\ status # 0 => status' = status /\ serving' = "cut"
  BY DEF Fail
<1>3. TypeOK'
  <2>1. UploadTypeOK' /\ TypeOK
    BY UploadKept DEF Inv
  <2> QED BY <1>1, <1>2, <2>1 DEF TypeOK
<1>4. ReadInv'
  BY <1>1, <1>2, RangeKept DEF Inv, ReadInv
<1> QED BY <1>3, <1>4

LEMMA SkipStep ==
  Inv /\ SkipChunk => TypeOK' /\ ReadInv'
<1> SUFFICES ASSUME Inv, SkipChunk PROVE TypeOK' /\ ReadInv'
  OBVIOUS
<1>1. /\ Sending /\ Before(at) /\ NextChunk
      /\ UNCHANGED <<uploadVars, serving, ask, legacy, range, status, promised,
                     sent>>
  BY DEF SkipChunk, Sending
<1>2. /\ promised \in 0..MaxBody /\ sent \in Seq(0..MaxBody)
      /\ Len(sent) <= promised
      /\ status = 0 => sent = <<>>
      /\ ~legacy => sent = Bytes(Lo + 1, Upto(base, Lo, Hi))
  BY <1>1 DEF Inv, TypeOK, ReadInv, Sending
<1>3. Upto(base, Lo, Hi) = Upto(Edge(at), Lo, Hi)
  <2>1. /\ base \in Nat /\ Edge(at) \in Nat /\ base < Edge(at)
        /\ base + Size(at) = Edge(at) /\ Lo \in Nat /\ Size(at) \in Int
    BY <1>1, ChunkFacts, ReadFacts DEF Sending
  <2>2. Edge(at) <= Lo
    BY <1>1, <2>1 DEF Before, Lo
  <2> QED BY <2>1, <2>2 DEF Upto
<1> QED BY <1>1, <1>2, <1>3, NextChunkStep

LEMMA SendFailsStep ==
  Inv /\ SendFails => TypeOK' /\ ReadInv'
BY FailStep DEF SendFails, Sending

LEMMA SendStep ==
  Inv /\ SendChunk => TypeOK' /\ ReadInv'
<1> SUFFICES ASSUME Inv, SendChunk PROVE TypeOK' /\ ReadInv'
  OBVIOUS
<1>1. /\ Sending /\ ~Before(at)
      /\ UNCHANGED <<uploadVars, ask, legacy, range>>
  BY DEF SendChunk, Sending
<1> DEFINE W(data) == Wanted(at, data)
           Short(data) == Partial /\ Len(data) < LocalLast(at) + 1
<1>2. PICK data \in Returned(at) :
        \/ ~Verified(at, data) /\ Fail /\ UNCHANGED <<sent, at, base>>
        \/ /\ Verified(at, data) /\ W(data) = <<>> /\ UNCHANGED sent
           /\ \/ Short(data) /\ Fail /\ UNCHANGED <<at, base>>
              \/ ~Short(data) /\ NextChunk /\ UNCHANGED <<serving, status, promised>>
        \/ /\ Verified(at, data) /\ W(data) # <<>> /\ CommitHeader
           /\ IF Len(sent) + Len(W(data)) > promised'
              THEN UNCHANGED sent ELSE sent' = sent \o W(data)
           /\ IF Short(data) \/ Len(sent) + Len(W(data)) > promised'
              THEN serving' = "cut" /\ UNCHANGED <<at, base>>
              ELSE NextChunk /\ UNCHANGED serving
  BY DEF SendChunk
<1>3. CASE Fail /\ UNCHANGED <<sent, at, base>>
  BY <1>1, <1>3, FailStep
<1>4. ASSUME Verified(at, data)
      PROVE  /\ data \in Seq(0..MaxBody)
             /\ W(data) \in Seq(0..MaxBody)
             /\ ~legacy => /\ W(data) = Bytes(Upto(base, Lo, Hi) + 1,
                                              Upto(Edge(at), Lo, Hi))
                           /\ ~Short(data)
  <2>1. data \in Seq(0..MaxBody) /\ (~legacy => data = chunks[at].bytes)
    BY <1>1, <1>4, VerifiedData
  <2>2. W(data) \in Seq(0..MaxBody)
    BY <1>1, <2>1, WantedType
  <2>3. ~legacy => /\ W(data) = Bytes(Upto(base, Lo, Hi) + 1,
                                      Upto(Edge(at), Lo, Hi))
                   /\ ~Short(data)
    <3> SUFFICES ASSUME ~legacy
                 PROVE  /\ W(data) = Bytes(Upto(base, Lo, Hi) + 1,
                                           Upto(Edge(at), Lo, Hi))
                        /\ ~Short(data)
      OBVIOUS
    <3>1. data = chunks[at].bytes
      BY <2>1
    <3>2. Partial => Len(data) >= LocalLast(at) + 1
      BY <1>1, <3>1, WantedContinues
    <3>3. Len(data) \in Nat /\ (Partial => LocalLast(at) \in Int)
      <4>1. Size(at) \in Int /\ base \in Int /\ Hi \in Int
        BY <1>1, ChunkFacts, ReadFacts DEF Sending
      <4> QED BY <2>1, <4>1 DEF LocalLast, Hi
    <3> QED BY <1>1, <3>1, <3>2, <3>3, WantedContinues
  <2> QED BY <2>1, <2>2, <2>3
<1> DEFINE u == Upto(base, Lo, Hi)
           v == Upto(Edge(at), Lo, Hi)
<1>5. /\ u \in Nat /\ v \in Nat /\ Lo \in Nat /\ Hi \in Int
      /\ Lo <= u /\ u < v /\ v <= Hi + 1
  <2>1. Lo \in Nat /\ Hi \in Int
    BY <1>1, ChunkFacts, ReadFacts DEF Sending
  <2> QED BY <1>1, <2>1, WantedContinues
<1>6. /\ promised \in 0..MaxBody /\ sent \in Seq(0..MaxBody)
      /\ Len(sent) <= promised
      /\ status = 0 => sent = <<>>
      /\ ~legacy => sent = Bytes(Lo + 1, u) /\ Len(sent) = u - Lo
  <2>1. ~legacy => sent = Bytes(Lo + 1, u)
    BY <1>1 DEF Inv, ReadInv, Sending
  <2> HIDE DEF u
  <2>2. Len(Bytes(Lo + 1, u)) = u - Lo
    BY <1>5, BytesAre
  <2> QED BY <1>1, <2>1, <2>2 DEF Inv, TypeOK, ReadInv, Sending
<1>7. ASSUME Verified(at, data), ~legacy
      PROVE  /\ W(data) # <<>>
             /\ sent \o W(data) = Bytes(Lo + 1, v)
             /\ Len(sent) + Len(W(data)) <= Hi - Lo + 1
  <2>1. W(data) = Bytes(u + 1, v)
    BY <1>4, <1>7
  <2> HIDE DEF W, u, v
  <2>2. Len(W(data)) = v - u
    BY <1>5, <2>1, BytesAre
  <2>3. sent \o W(data) = Bytes(Lo + 1, v)
    <3>1. Lo <= u /\ u <= v
      BY <1>5
    <3>2. Bytes(Lo + 1, u) \o Bytes(u + 1, v) = Bytes(Lo + 1, v)
      BY <1>5, <3>1, BytesJoin
    <3> QED BY <1>6, <1>7, <2>1, <3>2
  <2>4. W(data) # <<>>
    BY <1>5, <2>2, EmptySeq
  <2>5. Len(sent) + Len(W(data)) <= Hi - Lo + 1
    BY <1>5, <1>6, <1>7, <2>2
  <2> QED BY <2>3, <2>4, <2>5
<1> HIDE DEF W, Short
<1>8. CASE /\ Verified(at, data) /\ W(data) = <<>> /\ UNCHANGED sent
           /\ NextChunk /\ UNCHANGED <<serving, status, promised>>
  <2>1. legacy
    BY <1>7, <1>8
  <2> QED BY <1>1, <1>6, <1>8, <2>1, NextChunkStep
<1>9. CASE /\ Verified(at, data) /\ CommitHeader
           /\ IF Len(sent) + Len(W(data)) > promised'
              THEN UNCHANGED sent ELSE sent' = sent \o W(data)
           /\ IF Short(data) \/ Len(sent) + Len(W(data)) > promised'
              THEN serving' = "cut" /\ UNCHANGED <<at, base>>
              ELSE NextChunk /\ UNCHANGED serving
  <2>1. /\ status' \in {200, 206} /\ promised' = Hi - Lo + 1
        /\ promised' \in 0..MaxBody
    BY <1>1, <1>9, Committed DEF Sending
  <2>2. Len(sent) \in Nat /\ Len(W(data)) \in Nat
    BY <1>4, <1>6, <1>9
  <2>3. sent' \in Seq(0..MaxBody) /\ Len(sent') <= promised'
    <3>1. CASE Len(sent) + Len(W(data)) > promised'
      <4>1. Len(sent) <= promised'
        BY <1>1, <1>6, <1>9, <2>1 DEF CommitHeader
      <4> QED BY <1>6, <1>9, <3>1, <4>1
    <3>2. CASE ~(Len(sent) + Len(W(data)) > promised')
      <4>1. sent' = sent \o W(data)
        BY <1>9, <3>2
      <4>2. sent' \in Seq(0..MaxBody) /\ Len(sent') = Len(sent) + Len(W(data))
        BY <1>4, <1>6, <1>9, <4>1, ConcatProperties
      <4> QED BY <2>1, <2>2, <3>2, <4>2
    <3> QED BY <3>1, <3>2
  <2>4. CASE Short(data) \/ Len(sent) + Len(W(data)) > promised'
    <3>1. serving' = "cut" /\ UNCHANGED <<at, base>>
      BY <1>9, <2>4
    <3>2. legacy
      <4>1. ASSUME ~legacy PROVE FALSE
        <5>1. ~Short(data) /\ Len(sent) + Len(W(data)) <= promised'
          BY <1>4, <1>7, <1>9, <2>1, <4>1
        <5> QED BY <2>1, <2>2, <2>4, <5>1
      <4> QED BY <4>1
    <3>3. TypeOK'
      <4>1. UploadTypeOK' /\ TypeOK
        BY <1>1, UploadKept DEF Inv
      <4> QED BY <1>1, <2>1, <2>3, <3>1, <4>1 DEF TypeOK
    <3>4. ReadInv'
      <4>1. /\ phase = "stored" /\ at <= Len(chunks) + 1
            /\ base = End(at - 1, chunkSize, body) /\ RangeSound
        BY <1>1, ChunkFacts DEF Inv, ReadInv, Sending
      <4> QED BY <1>1, <2>1, <3>1, <3>2, <4>1, RangeKept DEF ReadInv
    <3> QED BY <3>3, <3>4
  <2>5. CASE ~(Short(data) \/ Len(sent) + Len(W(data)) > promised')
    <3>1. ~legacy => sent' = Bytes(Lo + 1, Upto(Edge(at), Lo, Hi))
      BY <1>7, <1>9, <2>5
    <3>2. NextChunk /\ UNCHANGED serving
      BY <1>9, <2>5
    <3> QED BY <1>1, <2>1, <2>3, <3>1, <3>2, NextChunkStep
  <2> QED BY <2>4, <2>5
<1> QED BY <1>2, <1>3, <1>8, <1>9

LEMMA EndStep ==
  Inv /\ EndOfChunks => TypeOK' /\ ReadInv'
<1> SUFFICES ASSUME Inv, EndOfChunks PROVE TypeOK' /\ ReadInv'
  OBVIOUS
<1>1. /\ serving = "chunks" /\ LoopEnded /\ CommitHeader /\ serving' = "answered"
      /\ UNCHANGED <<uploadVars, ask, legacy, range, at, base, sent>>
  BY DEF EndOfChunks
<1>2. /\ status' \in {200, 206} /\ promised' = Hi - Lo + 1
      /\ promised' \in 0..MaxBody
  BY <1>1, Committed
<1>3. /\ phase = "stored" /\ UploadInv /\ RangeSound /\ status \in {0, 200, 206}
      /\ at <= Len(chunks) + 1 /\ at \in Nat \ {0} /\ base = Edge(at - 1)
      /\ status = 0 => sent = <<>>
      /\ Len(sent) <= promised /\ sent \in Seq(0..MaxBody)
      /\ ~legacy => sent = Bytes(Lo + 1, Upto(base, Lo, Hi))
  BY <1>1, ConstantsAssumption DEF Inv, ReadInv, TypeOK, Edge
<1>4. /\ Lo \in Nat /\ Hi \in Int /\ Lo <= Hi + 1 /\ Hi < body /\ body \in Nat
      /\ Partial => Lo <= Hi
  BY <1>1, <1>3, ReadFacts
<1>5. Upto(base, Lo, Hi) = Hi + 1
  <2>1. CASE at > Len(chunks)
    <3>1. at - 1 = Len(chunks) /\ base = body
      <4>1. Len(chunks) \in Nat /\ Edge(Len(chunks)) = body
        BY <1>3, Edges
      <4>2. at - 1 = Len(chunks)
        BY <1>3, <2>1, <4>1
      <4> QED BY <1>3, <4>1, <4>2
    <3>2. ~Partial => Lo = 0 /\ Hi = body - 1
      BY DEF Lo, Hi
    <3> QED BY <1>4, <3>1, <3>2 DEF Upto
  <2>2. CASE ~(at > Len(chunks))
    <3>1. Beyond(at) /\ at \in 1..Len(chunks) /\ at - 1 \in 0..Len(chunks)
      BY <1>1, <1>3, <2>2, Edges DEF LoopEnded
    <3>2. Size(at) > 0 /\ base \in Nat
      <4>1. Edge(at - 1) \in 0..body /\ Edge(at) \in 0..body
        BY <1>3, <3>1, Edges
      <4> QED BY <1>3, <1>4, <3>1, <4>1, Edges
    <3>3. Partial /\ Hi < base
      <4>1. Size(at) \in Int
        BY <1>3, <3>1, Edges DEF Size
      <4> QED BY <3>1, <3>2, <4>1 DEF Beyond, Hi
    <3> QED BY <1>4, <3>2, <3>3 DEF Upto
  <2> QED BY <2>1, <2>2
<1>6. Len(sent) <= promised'
  BY <1>1, <1>2, <1>3 DEF CommitHeader
<1>7. TypeOK'
  <2>1. UploadTypeOK' /\ TypeOK
    BY <1>1, UploadKept DEF Inv
  <2> QED BY <1>1, <1>2, <1>6, <2>1 DEF TypeOK
<1>8. ReadInv'
  BY <1>1, <1>2, <1>3, <1>5, RangeKept DEF ReadInv
<1> QED BY <1>7, <1>8

\* While an upload goes on, nothing was asked for.
LEMMA UploadStep ==
  Inv /\ UploadNext /\ UNCHANGED downloadVars => TypeOK' /\ ReadInv'
<1> SUFFICES ASSUME Inv, UploadNext, UNCHANGED downloadVars
             PROVE  TypeOK' /\ ReadInv'
  OBVIOUS
<1>1. phase # "stored"
  BY DEF UploadNext, ReadPiece, ClientLeaves, ReadFails, SelectSource, Placed,
         Refused, Failover, Cleanup, Commit, Undo
<1>2. serving = "idle"
  BY <1>1 DEF Inv, ReadInv
<1>3. UploadTypeOK' /\ TypeOK /\ ReadInv
  BY UploadInvStep DEF Inv, UploadInv
<1>4. TypeOK'
  BY <1>3 DEF TypeOK, downloadVars
<1>5. ReadInv'
  BY <1>2, <1>3 DEF ReadInv, downloadVars
<1> QED BY <1>4, <1>5

LEMMA InvStep == Inv /\ [Next]_vars => Inv'
<1> SUFFICES ASSUME Inv, [Next]_vars PROVE Inv'
  OBVIOUS
<1>1. [UploadNext]_uploadVars
  BY DEF Next, vars, Done, Get, SkipChunk, SendChunk, SendFails, EndOfChunks
<1>2. UploadInv'
  BY <1>1, UploadInvStep DEF Inv
<1>3. CASE UNCHANGED vars
  <2>1. UNCHANGED uploadVars /\ UNCHANGED downloadVars
    BY <1>3 DEF vars
  <2>2. TypeOK'
    BY <2>1, UploadKept DEF Inv, TypeOK, downloadVars
  <2>3. ReadInv'
    BY <2>1, RangeKept DEF Inv, ReadInv, downloadVars
  <2> QED BY <1>2, <2>2, <2>3 DEF Inv
<1>4. CASE ~UNCHANGED vars
  BY <1>2, <1>4, UploadStep, GetStep, SkipStep, SendStep, SendFailsStep, EndStep
     DEF Inv, Next, Done
<1> QED BY <1>3, <1>4

LEMMA InvInit == Init => Inv
<1> SUFFICES ASSUME Init PROVE Inv
  OBVIOUS
<1>1. UploadInv
  BY UploadInvInit DEF Init
<1>2. TypeOK
  <2>1. MaxBody \in Nat /\ 0 \in 0..MaxBody /\ 1 \in 1..(MaxBody + 1)
        /\ -1 \in -1..MaxBody
    BY ConstantsAssumption
  <2>2. [form |-> "none", a |-> 0, b |-> 0, stale |-> FALSE] \in Asks
    BY <2>1 DEF Asks
  <2>3. Whole \in [first : 0..MaxBody, last : -1..MaxBody]
    BY <2>1 DEF Whole
  <2>4. <<>> \in Seq(0..MaxBody) /\ Len(<<>>) <= 0
    OBVIOUS
  <2> QED BY <1>1, <2>1, <2>2, <2>3, <2>4 DEF Init, TypeOK, UploadInv
<1>3. ReadInv
  BY DEF Init, ReadInv
<1> QED BY <1>1, <1>2, <1>3 DEF Inv

LEMMA Invariant == Spec => []Inv
BY InvInit, InvStep, PTL DEF Spec
-----------------------------------------------------------------------------
(***************************************************************************)
(* What the invariant says of the properties of the read.                  *)
(***************************************************************************)

LEMMA InvExact == Inv => ExactAnswer
<1> SUFFICES ASSUME Inv, serving = "answered"
             PROVE  /\ status = 416 <=> RangeApplies(ask) /\ Meant = {}
                    /\ status \in {200, 206} =>
                         /\ promised = Cardinality(Meant)
                         /\ ~legacy => /\ Len(sent) = promised
                                       /\ BeginsLike(sent, Meant)
                    /\ status \in {416, 500} => sent = <<>>
  BY DEF ExactAnswer
<1>1. /\ ReadInv /\ phase = "stored" /\ ask \in Asks /\ body \in Nat
      /\ status \in {200, 206, 416, 500}
  BY Edges DEF Inv, ReadInv, TypeOK
<1>2. CASE status = 416
  BY <1>1, <1>2, RefusedMeansNothing DEF ReadInv
<1>3. CASE status # 416
  <2>1. /\ Lo \in Nat /\ Hi \in Int /\ Lo <= Hi + 1
        /\ Partial => Lo <= Hi
        /\ Meant = (Lo + 1)..(Hi + 1)
    BY <1>3, ReadFacts
  <2>2. RangeApplies(ask) => Meant # {}
    <3>1. ASSUME Partial PROVE Lo + 1 \in Meant
      BY <2>1, <3>1
    <3> QED BY <3>1 DEF Partial
  <2>3. ASSUME status \in {200, 206}
        PROVE  /\ promised = Cardinality(Meant)
               /\ ~legacy => /\ Len(sent) = promised
                             /\ BeginsLike(sent, Meant)
    <3>1. /\ promised = Hi - Lo + 1
          /\ ~legacy => sent = Bytes(Lo + 1, Hi + 1)
      BY <1>1, <2>3 DEF ReadInv
    <3>2. promised = Cardinality(Meant)
      <4>1. PICK a, b : a = Lo + 1 /\ b = Hi + 1
        OBVIOUS
      <4>2. a \in Int /\ b \in Int /\ a <= b + 1 /\ promised = b - a + 1
        BY <2>1, <3>1, <4>1
      <4>3. Cardinality(a..b) = IF a > b THEN 0 ELSE b - a + 1
        BY <4>2, FS_Interval
      <4>4. Meant = a..b
        BY <2>1, <4>1
      <4> QED BY <4>2, <4>3, <4>4
    <3>3. Hi + 1 \in Nat /\ Hi + 1 - Lo = Hi - Lo + 1
      BY <2>1
    <3>4. Len(Bytes(Lo + 1, Hi + 1)) = Hi + 1 - Lo
      BY <2>1, <3>3, BytesAre
    <3>5. BeginsLike(Bytes(Lo + 1, Hi + 1), (Lo + 1)..(Hi + 1))
      BY <2>1, <3>3, BytesBegin
    <3> QED BY <2>1, <3>1, <3>2, <3>3, <3>4, <3>5
  <2>4. status = 500 => sent = <<>>
    BY <1>1 DEF ReadInv
  <2> QED BY <1>3, <2>2, <2>3, <2>4
<1> QED BY <1>2, <1>3

LEMMA InvNoWrong == Inv => NoWrongByte
<1> SUFFICES ASSUME Inv, ~legacy
             PROVE  /\ BeginsLike(sent, Meant)
                    /\ serving = "cut" => Len(sent) < promised
  BY DEF NoWrongByte
<1>1. /\ ReadInv /\ serving \in {"idle", "chunks", "answered", "cut"}
      /\ status \in {0, 200, 206, 416, 500}
  BY DEF Inv, TypeOK
<1>2. CASE sent = <<>>
  <2>1. BeginsLike(sent, Meant)
    BY <1>2 DEF BeginsLike
  <2>2. ASSUME serving = "cut" PROVE Len(sent) < promised
    <3>1. /\ status \in {200, 206} /\ promised = Hi - Lo + 1
          /\ Upto(base, Lo, Hi) < Hi + 1
      BY <1>1, <2>2 DEF ReadInv
    <3>2. Lo \in Nat /\ Hi \in Int /\ base \in Nat
      BY <2>2, <3>1, ReadFacts DEF Inv, TypeOK
    <3> QED BY <1>2, <3>1, <3>2 DEF Upto
  <2> QED BY <2>1, <2>2
<1>3. CASE sent # <<>>
  <2>1. serving # "idle" /\ status \in {200, 206} /\ promised = Hi - Lo + 1
    BY <1>1, <1>3 DEF ReadInv
  <2>2. /\ Lo \in Nat /\ Hi \in Int /\ Lo <= Hi + 1 /\ Meant = (Lo + 1)..(Hi + 1)
        /\ base \in Nat
    BY <2>1, ReadFacts DEF Inv, TypeOK
  <2> DEFINE u == IF serving = "answered" THEN Hi + 1 ELSE Upto(base, Lo, Hi)
  <2>3. /\ sent = Bytes(Lo + 1, u)
        /\ serving = "cut" => u < Hi + 1
    BY <1>1, <2>1 DEF ReadInv
  <2>4. u \in Nat /\ Lo <= u /\ u <= Hi + 1 /\ Hi + 1 \in Nat
    BY <2>2 DEF Upto
  <2> HIDE DEF u
  <2>5. BeginsLike(Bytes(Lo + 1, u), (Lo + 1)..(Hi + 1))
    BY <2>2, <2>4, BytesBegin
  <2>6. Len(Bytes(Lo + 1, u)) = u - Lo
    BY <2>2, <2>4, BytesAre
  <2> QED BY <2>1, <2>2, <2>3, <2>4, <2>5, <2>6
<1> QED BY <1>2, <1>3
-----------------------------------------------------------------------------
(***************************************************************************)
(* Theorems.                                                               *)
(***************************************************************************)

\* Upload and read keep their types: in particular the list of chunks is
\* never longer than the body, and no more is sent than was promised.
THEOREM TransferTypeCorrect == Spec => []TypeOK
<1>1. Inv => TypeOK
  BY DEF Inv
<1> QED BY <1>1, Invariant, PTL

\* What Commit stores is the whole body, in order, where its list says,
\* for every length of body, chunk size and order of failures.
THEOREM CommittedObjectsAreWhole == Spec => []CommittedWhole
<1>1. Inv => CommittedWhole
  BY UploadInvCommitted DEF Inv
<1> QED BY <1>1, Invariant, PTL

\* The selectors pick every source in proportion to its weight, for any
\* number of sources and any weights.
THEOREM PicksAreProportional == Spec => []ProportionalPicks
<1>1. Inv => ProportionalPicks
  BY UploadInvProportional DEF Inv
<1> QED BY <1>1, Invariant, PTL

\* Failover gives a piece up only after every source of the bucket failed.
THEOREM FailoverTriesAll == Spec => FailoverExhausts
<1>1. Inv /\ [Next]_vars =>
        [phase = "failover" /\ phase' = "cleanup" => refusals = Source]_uploadVars
  <2> SUFFICES ASSUME Inv, [Next]_vars
               PROVE  [phase = "failover" /\ phase' = "cleanup"
                         => refusals = Source]_uploadVars
    OBVIOUS
  <2>1. UploadInv /\ [UploadNext]_uploadVars
    BY DEF Inv, Next, vars, Done, Get, SkipChunk, SendChunk, SendFails,
           EndOfChunks
  <2> QED BY <2>1, FailoverStep
<1> QED BY <1>1, Invariant, PTL DEF Spec, FailoverExhausts

\* After a failed upload a chunk is left only where its deletion failed.
THEOREM FailedUploadsAreClean == Spec => FailedUploadsClean
<1>1. Inv /\ [Next]_vars =>
        [phase # "failed" /\ phase' = "failed" =>
           IF phase = "cleanup"
           THEN \A copy \in store' : copy[1] \in undeleted'
           ELSE store' # {} => undeleted' # {}]_uploadVars
  <2> SUFFICES ASSUME Inv, [Next]_vars
               PROVE  [phase # "failed" /\ phase' = "failed" =>
                         IF phase = "cleanup"
                         THEN \A copy \in store' : copy[1] \in undeleted'
                         ELSE store' # {} => undeleted' # {}]_uploadVars
    OBVIOUS
  <2>1. UploadInv /\ [UploadNext]_uploadVars
    BY DEF Inv, Next, vars, Done, Get, SkipChunk, SendChunk, SendFails,
           EndOfChunks
  <2> QED BY <2>1, FailedStep
<1> QED BY <1>1, Invariant, PTL DEF Spec, FailedUploadsClean

\* An answer that ended well is exactly the bytes the client meant, for
\* every range, chunk size and length of object.
THEOREM AnswersAreExact == Spec => []ExactAnswer
BY InvExact, Invariant, PTL

\* No byte that a source corrupted reaches the client of a checksummed
\* object, and a cut answer is shorter than its header promised.
THEOREM NoWrongByteIsSent == Spec => []NoWrongByte
BY InvNoWrong, Invariant, PTL
=============================================================================
