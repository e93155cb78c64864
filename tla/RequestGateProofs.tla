------------------------- MODULE RequestGateProofs -------------------------
(***************************************************************************)
(* Proofs about RequestGate and the two modules it is made of, for any     *)
(* keys, buckets, people, limits, windows and bounds.                      *)
(*                                                                         *)
(* RateLimiter: what carries its two properties is what a bucket holds     *)
(* (Refilled), which nothing but a grant lowers: Cleanup, for any MaxAge   *)
(* of at least a minute, drops a bucket only when it is full again, and a  *)
(* refused request changes nothing.                                        *)
(*                                                                         *)
(* SignatureV4: a signature that passes never lets through what differs    *)
(* from what was signed in anything the canonical request covers, but for  *)
(* how its pairs are spelled and ordered (PassesAtMost); and where a query *)
(* and a life can be read in one way only, a message passes exactly when   *)
(* it asks the handlers for what its sender meant, in time                 *)
(* (ValidatesExactly). The canonical request works on what the pairs say to *)
(* the validator, what is asked on what url.ParseQuery leaves of them.     *)
(*                                                                         *)
(* RequestGate: every step of the gate is a step of the limiter, so that   *)
(* what the limiter promises carries over, and validation is right because *)
(* the canonical request is.                                               *)
(***************************************************************************)
EXTENDS RequestGate, FiniteSetTheorems, TLAPS

(***************************************************************************)
(* The rate limiter.                                                       *)
(***************************************************************************)

\* What is in a bucket now and what was taken from it since the mark.
LedgerOk(k) == Refilled(k) + used[k] * Minute <= Full(k) + Burst[k] * (now - mark)

\* What will be in a bucket at the promised time.
PromiseOk(k) ==
  promised[k] # 0 =>
    IF now <= promised[k]
    THEN Refilled(k) + Burst[k] * (promised[k] - now) >= Minute
    ELSE Refilled(k) >= Minute

LimiterInv ==
  /\ LimiterTypeOK
  /\ \A k \in Key : LedgerOk(k)
  /\ \A k \in Key : PromiseOk(k)
-----------------------------------------------------------------------------
\* Arithmetic that is not linear, of a capacity b and times.

LEMMA ProductIsNat == \A b, x \in Nat : b * x \in Nat
OBVIOUS

LEMMA ProductGrows == \A b, x, y \in Nat : x <= y => b * x <= b * y
OBVIOUS

LEMMA Distributes == \A b, x, y \in Int : b * (x + y) = b * x + b * y
OBVIOUS

LEMMA RoundsUp ==
  \A b \in Nat \ {0}, a \in Nat : b * ((a + b - 1) \div b) >= a
<1> SUFFICES ASSUME NEW b \in Nat \ {0}, NEW a \in Nat
             PROVE  b * ((a + b - 1) \div b) >= a
  OBVIOUS
<1> DEFINE x == a + b - 1
<1>1. x \in Nat
  OBVIOUS
<1>2. x = b * (x \div b) + (x % b) /\ x % b < b /\ x \div b \in Nat
  BY <1>1, SMT
<1> QED
  BY <1>1, <1>2, SMT
-----------------------------------------------------------------------------
\* What a bucket holds.

LEMMA CapacityIsNat == \A k \in Key : Burst[k] \in Nat \ {0} /\ Full(k) \in Nat
BY LimiterAssumption, ProductIsNat DEF Full

LEMMA RefilledType ==
  ASSUME LimiterTypeOK
  PROVE  \A k \in Key : Refilled(k) \in Nat /\ Refilled(k) <= Full(k)
<1> SUFFICES ASSUME NEW k \in Key
             PROVE  Refilled(k) \in Nat /\ Refilled(k) <= Full(k)
  OBVIOUS
<1>1. now - last[k] \in Nat
  BY DEF LimiterTypeOK
<1>2. Burst[k] * (now - last[k]) \in Nat
  BY <1>1, CapacityIsNat, ProductIsNat
<1> QED
  BY <1>2, CapacityIsNat DEF Refilled, Lower, LimiterTypeOK

\* An entry that was just written holds what was written.
LEMMA EntryHolds ==
  ASSUME LimiterTypeOK, NEW k \in Key, NEW left \in Nat, left <= Full(k),
         Entry(k, left), now' = now
  PROVE  /\ Refilled(k)' = left
         /\ \A j \in Key \ {k} : Refilled(j)' = Refilled(j)
<1>1. /\ k \in held' /\ tokens'[k] = left /\ last'[k] = now
      /\ \A j \in Key \ {k} : /\ (j \in held' <=> j \in held)
                              /\ tokens'[j] = tokens[j] /\ last'[j] = last[j]
  BY DEF Entry, LimiterTypeOK
<1>2. Burst[k] * (now - now) = 0
  BY CapacityIsNat DEF LimiterTypeOK
<1>3. Refilled(k)' = left
  BY <1>1, <1>2, CapacityIsNat DEF Refilled, Lower, Full
<1>4. ASSUME NEW j \in Key \ {k} PROVE Refilled(j)' = Refilled(j)
  BY <1>1 DEF Refilled, Lower, Full
<1> QED
  BY <1>3, <1>4

\* In a second a bucket gains Burst parts, up to its capacity.
LEMMA RefilledTick ==
  ASSUME LimiterTypeOK, Tick, NEW k \in Key
  PROVE  Refilled(k)' = Lower(Full(k), Refilled(k) + Burst[k])
<1>1. Burst[k] * (now' - last[k]) = Burst[k] * (now - last[k]) + Burst[k]
  <2>1. now' - last[k] = (now - last[k]) + 1 /\ now - last[k] \in Nat
    BY DEF Tick, LimiterTypeOK
  <2> QED
    BY <2>1, Distributes, CapacityIsNat
<1>2. Burst[k] * (now - last[k]) \in Nat
  BY ProductIsNat, CapacityIsNat DEF LimiterTypeOK
<1>3. held' = held /\ tokens' = tokens /\ last' = last
  BY DEF Tick, entries
<1> QED
  BY <1>1, <1>2, <1>3, CapacityIsNat DEF Refilled, Lower, Full, LimiterTypeOK

\* Cleanup forgets full buckets only.
LEMMA RefilledCleanup ==
  ASSUME LimiterTypeOK, NEW keys, Cleanup(keys), NEW k \in Key
  PROVE  Refilled(k)' = Refilled(k)
<1>1. CASE k \in held /\ k \notin held'
  <2>1. now - last[k] \in Nat /\ Minute <= now - last[k]
    BY <1>1, LimiterAssumption DEF Cleanup, LimiterTypeOK
  <2>2. Full(k) <= Burst[k] * (now - last[k])
    BY <2>1, ProductGrows, CapacityIsNat, LimiterAssumption DEF Full
  <2>3. Burst[k] * (now - last[k]) \in Nat
    BY <2>1, ProductIsNat, CapacityIsNat
  <2>4. Refilled(k) = Full(k)
    BY <1>1, <2>2, <2>3, CapacityIsNat DEF Refilled, Lower, LimiterTypeOK
  <2> QED
    BY <1>1, <2>4 DEF Refilled, Full
<1>2. CASE k \in held <=> k \in held'
  BY <1>2 DEF Cleanup, Refilled, Lower, Full
<1> QED
  BY <1>1, <1>2 DEF Cleanup

\* A cancelled reservation gives back at most one token.
LEMMA RefilledCancel ==
  ASSUME LimiterTypeOK, NEW k \in Key, Cancel(k)
  PROVE  /\ Refilled(k) <= Refilled(k)' /\ Refilled(k)' <= Refilled(k) + Minute
         /\ Refilled(k)' \in Nat
         /\ \A j \in Key \ {k} : Refilled(j)' = Refilled(j)
<1>1. held' = held /\ last' = last /\ now' = now
  BY DEF Cancel
<1>2. \A j \in Key \ {k} : tokens'[j] = tokens[j]
  BY DEF Cancel, LimiterTypeOK
<1>3. k \in held => tokens'[k] = Lower(Full(k), tokens[k] + Minute)
  BY DEF Cancel, LimiterTypeOK
<1>4. Burst[k] * (now - last[k]) \in Nat
  BY ProductIsNat, CapacityIsNat DEF LimiterTypeOK
<1>5. /\ Refilled(k) <= Refilled(k)' /\ Refilled(k)' <= Refilled(k) + Minute
      /\ Refilled(k)' \in Nat
  BY <1>1, <1>3, <1>4, CapacityIsNat, LimiterAssumption
     DEF Refilled, Lower, Full, LimiterTypeOK
<1> QED
  BY <1>1, <1>2, <1>5 DEF Refilled, Lower, Full
-----------------------------------------------------------------------------
\* The inductive invariant.

LEMMA LimiterInvInit == LimiterInit => LimiterInv
<1> SUFFICES ASSUME LimiterInit PROVE LimiterInv
  OBVIOUS
<1>1. LimiterTypeOK
  BY CapacityIsNat DEF LimiterInit, LimiterTypeOK
<1>2. ASSUME NEW k \in Key PROVE LedgerOk(k) /\ PromiseOk(k)
  <2>1. Refilled(k) = Full(k) /\ used[k] = 0 /\ promised[k] = 0 /\ now - mark = 0
    BY DEF LimiterInit, Refilled
  <2>2. Burst[k] * 0 = 0 /\ 0 * Minute = 0
    BY CapacityIsNat, LimiterAssumption
  <2> QED
    BY <2>1, <2>2, CapacityIsNat DEF LedgerOk, PromiseOk
<1> QED
  BY <1>1, <1>2 DEF LimiterInv

LEMMA LimiterTypeStep == LimiterTypeOK /\ [LimiterNext]_limiterVars => LimiterTypeOK'
<1> SUFFICES ASSUME LimiterTypeOK, [LimiterNext]_limiterVars
             PROVE  LimiterTypeOK'
  OBVIOUS
<1> USE LimiterAssumption, CapacityIsNat, RefilledType
<1>1. ASSUME NEW k \in Key, Grant(k) PROVE LimiterTypeOK'
  <2>1. Refilled(k) - Minute \in Nat /\ Refilled(k) - Minute <= Full(k)
    BY <1>1 DEF Grant
  <2> QED
    BY <1>1, <2>1 DEF Grant, Entry, LimiterTypeOK, Full
<1>2. ASSUME NEW k \in Key, Deny(k) PROVE LimiterTypeOK'
  <2>1. RetryAfter(k) \in Nat
    <3>1. Burst[k] \in Nat \ {0} /\ Minute - Refilled(k) + Burst[k] - 1 \in Nat
      BY <1>2 DEF Deny
    <3> QED
      BY <3>1, SMT DEF RetryAfter
  <2> QED
    BY <1>2, <2>1 DEF Deny, Entry, LimiterTypeOK, Full
<1>3. ASSUME NEW k \in Key, Cancel(k) PROVE LimiterTypeOK'
  BY <1>3 DEF Cancel, LimiterTypeOK, Lower, Full
<1>4. ASSUME NEW keys \in Limiters, Cleanup(keys) PROVE LimiterTypeOK'
  BY <1>4 DEF Cleanup, LimiterTypeOK, Full
<1>5. CASE Tick
  BY <1>5 DEF Tick, entries, LimiterTypeOK, Full
<1>6. CASE Mark
  BY <1>6 DEF Mark, entries, LimiterTypeOK, Full
<1>7. CASE UNCHANGED limiterVars
  BY <1>7 DEF limiterVars, entries, LimiterTypeOK, Full
<1> QED
  BY <1>1, <1>2, <1>3, <1>4, <1>5, <1>6, <1>7 DEF LimiterNext

LEMMA LedgerStep ==
  ASSUME LimiterInv, [LimiterNext]_limiterVars, NEW k \in Key
  PROVE  LedgerOk(k)'
<1> DEFINE grown == Burst[k] * (now - mark)
<1>1. LimiterTypeOK /\ LedgerOk(k)
  BY DEF LimiterInv
<1>2. /\ Refilled(k) \in Nat /\ Refilled(k) <= Full(k) /\ Full(k) \in Nat
      /\ Burst[k] \in Nat \ {0} /\ Minute \in Nat \ {0} /\ used[k] \in Int
      /\ grown \in Nat
  BY <1>1, RefilledType, CapacityIsNat, LimiterAssumption, ProductIsNat
     DEF LimiterTypeOK
<1>3. (used[k] + 1) * Minute = used[k] * Minute + Minute
  BY <1>2, Distributes
<1>4. (used[k] - 1) * Minute = used[k] * Minute - Minute
  BY <1>2, Distributes
<1>5. ASSUME NEW j \in Key, Grant(j) PROVE LedgerOk(k)'
  <2>1. Refilled(j) \in Nat /\ Refilled(j) - Minute \in Nat
        /\ Refilled(j) - Minute <= Full(j)
    BY <1>5, <1>1, RefilledType, CapacityIsNat, LimiterAssumption DEF Grant
  <2>2. /\ Refilled(j)' = Refilled(j) - Minute
        /\ \A i \in Key \ {j} : Refilled(i)' = Refilled(i)
    BY <1>5, <1>1, <2>1, EntryHolds DEF Grant
  <2>3. now' = now /\ mark' = mark /\ used' = [used EXCEPT ![j] = @ + 1]
    BY <1>5 DEF Grant
  <2>4. CASE j = k
    BY <1>1, <1>2, <1>3, <2>2, <2>3, <2>4 DEF LedgerOk, LimiterTypeOK, Full
  <2>5. CASE j # k
    BY <1>1, <2>2, <2>3, <2>5 DEF LedgerOk, LimiterTypeOK, Full
  <2> QED
    BY <2>4, <2>5
<1>6. ASSUME NEW j \in Key, Deny(j) PROVE LedgerOk(k)'
  <2>1. Refilled(k)' = Refilled(k)
    BY <1>6, <1>1, RefilledType, EntryHolds DEF Deny
  <2> QED
    BY <1>6, <1>1, <2>1 DEF Deny, LedgerOk, Full
<1>7. ASSUME NEW j \in Key, Cancel(j) PROVE LedgerOk(k)'
  <2>1. now' = now /\ mark' = mark /\ used' = [used EXCEPT ![j] = @ - 1]
    BY <1>7 DEF Cancel
  <2>2. CASE j = k
    <3>1. Refilled(k)' \in Nat /\ Refilled(k)' <= Refilled(k) + Minute
      BY <1>7, <1>1, <2>2, RefilledCancel
    <3> QED
      BY <1>1, <1>2, <1>4, <2>1, <2>2, <3>1 DEF LedgerOk, LimiterTypeOK, Full
  <2>3. CASE j # k
    <3>1. Refilled(k)' = Refilled(k)
      BY <1>7, <1>1, <2>3, RefilledCancel
    <3> QED
      BY <1>1, <2>1, <2>3, <3>1 DEF LedgerOk, LimiterTypeOK, Full
  <2> QED
    BY <2>2, <2>3
<1>8. ASSUME NEW keys \in Limiters, Cleanup(keys) PROVE LedgerOk(k)'
  BY <1>8, <1>1, RefilledCleanup DEF Cleanup, LedgerOk, Full
<1>9. CASE Tick
  <2>1. Refilled(k)' <= Refilled(k) + Burst[k]
    BY <1>9, <1>1, <1>2, RefilledTick DEF Lower
  <2>2. Refilled(k)' \in Nat
    BY <1>9, <1>1, <1>2, RefilledTick DEF Lower
  <2>3. Burst[k] * (now' - mark) = grown + Burst[k]
    <3>1. now' - mark = (now - mark) + 1 /\ now - mark \in Nat
      BY <1>9, <1>1 DEF Tick, LimiterTypeOK
    <3> QED
      BY <1>2, <3>1, Distributes
  <2>4. mark' = mark /\ used' = used
    BY <1>9 DEF Tick
  <2> QED
    BY <1>1, <1>2, <2>1, <2>2, <2>3, <2>4 DEF LedgerOk, Full
<1>10. CASE Mark
  <2>1. Refilled(k)' = Refilled(k) /\ now' - mark' = 0 /\ used'[k] = 0
    BY <1>10, <1>1 DEF Mark, entries, Refilled, Lower, Full, LimiterTypeOK
  <2>2. Burst[k] * 0 = 0 /\ 0 * Minute = 0
    BY <1>2
  <2> QED
    BY <1>2, <2>1, <2>2 DEF LedgerOk, Full
<1>11. CASE UNCHANGED limiterVars
  BY <1>11, <1>1 DEF limiterVars, entries, LedgerOk, Refilled, Lower, Full
<1> QED
  BY <1>5, <1>6, <1>7, <1>8, <1>9, <1>10, <1>11 DEF LimiterNext

LEMMA PromiseStep ==
  ASSUME LimiterInv, [LimiterNext]_limiterVars, NEW k \in Key
  PROVE  PromiseOk(k)'
<1>1. LimiterTypeOK /\ PromiseOk(k)
  BY DEF LimiterInv
<1>2. /\ Refilled(k) \in Nat /\ Refilled(k) <= Full(k) /\ Full(k) \in Nat
      /\ Burst[k] \in Nat \ {0} /\ Minute \in Nat \ {0}
      /\ now \in Nat /\ promised[k] \in Nat /\ Minute <= Full(k)
  BY <1>1, RefilledType, CapacityIsNat, LimiterAssumption
     DEF LimiterTypeOK, Full
<1>3. ASSUME NEW j \in Key, Grant(j) PROVE PromiseOk(k)'
  <2>1. CASE j = k
    BY <1>1, <1>3, <2>1 DEF Grant, PromiseOk, LimiterTypeOK
  <2>2. CASE j # k
    <3>1. Refilled(j) - Minute \in Nat /\ Refilled(j) - Minute <= Full(j)
      BY <1>3, <1>1, RefilledType, CapacityIsNat, LimiterAssumption DEF Grant
    <3>2. Refilled(k)' = Refilled(k)
      BY <1>3, <1>1, <2>2, <3>1, EntryHolds DEF Grant
    <3> QED
      BY <1>1, <1>3, <2>2, <3>2 DEF Grant, PromiseOk, LimiterTypeOK
  <2> QED
    BY <2>1, <2>2
<1>4. ASSUME NEW j \in Key, Deny(j) PROVE PromiseOk(k)'
  <2>1. Refilled(k)' = Refilled(k)
    BY <1>4, <1>1, RefilledType, EntryHolds DEF Deny
  <2>2. CASE j = k /\ promised[k] = 0
    <3>1. Minute - Refilled(k) \in Nat
      BY <1>4, <1>2, <2>2 DEF Deny
    <3>2. Burst[k] * RetryAfter(k) >= Minute - Refilled(k)
      BY <1>2, <3>1, RoundsUp DEF RetryAfter
    <3>3. RetryAfter(k) \in Nat
      BY <1>2, <3>1, SMT DEF RetryAfter
    <3>4. promised'[k] = now + RetryAfter(k) /\ now' = now
      BY <1>1, <1>4, <2>2 DEF Deny, LimiterTypeOK
    <3>5. promised'[k] - now = RetryAfter(k) /\ now <= promised'[k]
      BY <1>2, <3>3, <3>4
    <3>6. Burst[k] * RetryAfter(k) \in Nat
      BY <1>2, <3>3, ProductIsNat
    <3> QED
      BY <1>2, <2>1, <3>2, <3>4, <3>5, <3>6 DEF PromiseOk
  <2>3. CASE ~(j = k /\ promised[k] = 0)
    BY <1>1, <1>4, <2>1, <2>3 DEF Deny, PromiseOk, LimiterTypeOK
  <2> QED
    BY <2>2, <2>3
<1>5. ASSUME NEW j \in Key, Cancel(j) PROVE PromiseOk(k)'
  <2>1. Refilled(k)' \in Nat /\ Refilled(k) <= Refilled(k)'
    BY <1>5, <1>1, <1>2, RefilledCancel
  <2>2. promised' = promised /\ now' = now
    BY <1>5 DEF Cancel
  <2>3. now <= promised[k] => Burst[k] * (promised[k] - now) \in Nat
    BY <1>2, ProductIsNat
  <2> QED
    BY <1>1, <1>2, <2>1, <2>2, <2>3 DEF PromiseOk
<1>6. ASSUME NEW keys \in Limiters, Cleanup(keys) PROVE PromiseOk(k)'
  BY <1>6, <1>1, RefilledCleanup DEF Cleanup, PromiseOk
<1>7. CASE Tick
  <2>1. Refilled(k)' = IF Full(k) <= Refilled(k) + Burst[k]
                       THEN Full(k) ELSE Refilled(k) + Burst[k]
    BY <1>7, <1>1, RefilledTick DEF Lower
  <2>2. promised' = promised /\ now' = now + 1
    BY <1>7 DEF Tick
  <2>3. CASE now' <= promised[k]
    <3>1. promised[k] - now = (promised[k] - now') + 1 /\ promised[k] - now' \in Nat
      BY <1>2, <2>2, <2>3
    <3>2. Burst[k] * (promised[k] - now) = Burst[k] * (promised[k] - now') + Burst[k]
      BY <1>2, <3>1, Distributes
    <3>3. Burst[k] * (promised[k] - now') \in Nat
      BY <1>2, <3>1, ProductIsNat
    <3> QED
      BY <1>1, <1>2, <2>1, <2>2, <2>3, <3>2, <3>3 DEF PromiseOk
  <2>4. CASE now = promised[k]
    <3>1. Burst[k] * (promised[k] - now) = 0
      BY <1>2, <2>4
    <3> QED
      BY <1>1, <1>2, <2>1, <2>2, <2>4, <3>1 DEF PromiseOk
  <2>5. CASE now > promised[k]
    BY <1>1, <1>2, <2>1, <2>2, <2>5 DEF PromiseOk
  <2> QED
    BY <1>2, <2>2, <2>3, <2>4, <2>5
<1>8. CASE Mark
  BY <1>8, <1>1 DEF Mark, entries, PromiseOk, Refilled, Lower, Full
<1>9. CASE UNCHANGED limiterVars
  BY <1>9, <1>1 DEF limiterVars, entries, PromiseOk, Refilled, Lower, Full
<1> QED
  BY <1>3, <1>4, <1>5, <1>6, <1>7, <1>8, <1>9 DEF LimiterNext

LEMMA LimiterInvStep == LimiterInv /\ [LimiterNext]_limiterVars => LimiterInv'
BY LimiterTypeStep, LedgerStep, PromiseStep DEF LimiterInv

LEMMA LimiterInvImplies == LimiterInv => LimiterTypeOK /\ GrantsBounded /\ RetryAfterHonest
<1> SUFFICES ASSUME LimiterInv PROVE GrantsBounded /\ RetryAfterHonest
  BY DEF LimiterInv
<1>1. ASSUME NEW k \in Key
      PROVE  used[k] * Minute <= Full(k) + Burst[k] * (now - mark)
  <2>1. LimiterTypeOK /\ LedgerOk(k)
    BY DEF LimiterInv
  <2>2. Refilled(k) \in Nat /\ Full(k) \in Nat /\ used[k] * Minute \in Int
        /\ Burst[k] * (now - mark) \in Nat
    BY <2>1, RefilledType, CapacityIsNat, LimiterAssumption, ProductIsNat
       DEF LimiterTypeOK
  <2> QED
    BY <2>1, <2>2 DEF LedgerOk
<1>2. ASSUME NEW k \in Key, promised[k] # 0, promised[k] <= now
      PROVE  Refilled(k) >= Minute
  <2>1. LimiterTypeOK /\ PromiseOk(k)
    BY DEF LimiterInv
  <2>2. /\ now \in Nat /\ promised[k] \in Nat /\ Refilled(k) \in Nat
        /\ Burst[k] * (now - now) = 0
    BY <2>1, RefilledType, CapacityIsNat DEF LimiterTypeOK
  <2>3. CASE now = promised[k]
    BY <1>2, <2>1, <2>2, <2>3, LimiterAssumption DEF PromiseOk
  <2>4. CASE now # promised[k]
    BY <1>2, <2>1, <2>2, <2>4 DEF PromiseOk
  <2> QED
    BY <2>3, <2>4
<1> QED
  BY <1>1, <1>2 DEF GrantsBounded, RetryAfterHonest

LEMMA LimiterInvariant == LimiterSpec => []LimiterInv
BY LimiterInvInit, LimiterInvStep, PTL DEF LimiterSpec
-----------------------------------------------------------------------------
(***************************************************************************)
(* The signatures.                                                         *)
(***************************************************************************)

LEMMA MemberType ==
  ASSUME NEW T, NEW s \in Seq(T), NEW x \in Members(s)
  PROVE  x \in T
BY DEF Members

\* Pairs have numbers, and there are three headers to sign.
LEMMA MessageParts ==
  ASSUME NEW m, IsMessage(m)
  PROVE  /\ Signed(m) \subseteq DOMAIN m.params /\ DOMAIN m.params \subseteq Nat
         /\ \A h \in Members(m.signs) : h \in {Authorization, Host, RangeHeader}
<1>1. /\ m.params \in Seq(Text \X Text \X Spelling)
      /\ m.signs \in Seq(Authorization .. RangeHeader)
  BY DEF IsMessage
<1>2. DOMAIN m.params \subseteq Nat
  <2> DEFINE T == Text \X Text \X Spelling
  <2> HIDE DEF T
  <2>1. m.params \in Seq(T)
    BY <1>1 DEF T
  <2> QED
    BY <2>1
<1>3. ASSUME NEW h \in Members(m.signs) PROVE h \in {Authorization, Host, RangeHeader}
  <2>1. h \in Authorization .. RangeHeader
    BY <1>1, <1>3, MemberType
  <2> QED
    BY <2>1 DEF Authorization, Host, RangeHeader
<1> QED
  BY <1>2, <1>3 DEF Signed

\* All that the pairs of a message say to the validator.
Said(m) == {Says(m, i) : i \in Signed(m)}

\* A query that gives each name once means all that it says, and its
\* canonical form tells no more.
LEMMA OnceEachSays ==
  ASSUME NEW m, IsMessage(m), OnceEach(m)
  PROVE  Meant(m) = Said(m) /\ CanonicalQuery(m) = [x \in Said(m) |-> 1]
<1>1. \A i \in Signed(m) : i \in Nat
  BY MessageParts
<1>2. Meant(m) = Said(m)
  <2>1. {i \in Signed(m) : \A j \in Signed(m) :
           m.params[j][1] = m.params[i][1] => i <= j} = Signed(m)
    BY <1>1 DEF OnceEach
  <2> QED
    BY <2>1 DEF Meant, FirstOfEach, Said
<1>3. ASSUME NEW x \in Said(m)
      PROVE  Cardinality({i \in Signed(m) : Says(m, i) = x}) = 1
  <2>1. PICK i \in Signed(m) : Says(m, i) = x
    BY DEF Said
  <2>2. ASSUME NEW j \in Signed(m), Says(m, j) = x PROVE j = i
    <3>1. m.params[j][1] = m.params[i][1]
      BY <2>1, <2>2 DEF Says
    <3> QED
      BY <3>1 DEF OnceEach
  <2>3. {j \in Signed(m) : Says(m, j) = x} = {i}
    BY <2>1, <2>2
  <2> QED
    BY <2>3, FS_Singleton
<1> QED
  BY <1>2, <1>3 DEF CanonicalQuery, Said

\* What the handlers read when nothing is raw is what the query means.
LEMMA LegibleAsks ==
  ASSUME NEW m, Legible(m)
  PROVE  Asks(m) = Meant(m)
<1>1. {i \in Signed(m) : m.params[i][3] # "raw"} = Signed(m)
  BY DEF Legible
<1> QED
  BY <1>1 DEF Asks, Meant

\* Messages with the same canonical query say the same, and as often.
LEMMA SameQuerySays ==
  ASSUME NEW m, NEW n, CanonicalQuery(m) = CanonicalQuery(n)
  PROVE  Said(m) = Said(n)
<1>1. \A x : DOMAIN CanonicalQuery(x) = Said(x)
  BY DEF CanonicalQuery, Said
<1> QED
  BY <1>1

LEMMA SameQuery ==
  ASSUME NEW sent, NEW got, IsMessage(sent), IsMessage(got), Plain(sent, got)
  PROVE  Asks(got) = Meant(sent) <=> CanonicalQuery(got) = CanonicalQuery(sent)
<1>1. Asks(got) = Said(got) /\ Meant(sent) = Said(sent)
  BY LegibleAsks, OnceEachSays DEF Plain
<1>2. ASSUME Said(got) = Said(sent)
      PROVE  CanonicalQuery(got) = CanonicalQuery(sent)
  BY <1>2, OnceEachSays DEF Plain
<1> QED
  BY <1>1, <1>2, SameQuerySays

\* The same request has the same canonical form, but for its query.
LEMMA SameRequestSameForm ==
  ASSUME NEW sent, NEW got, IsMessage(sent), IsMessage(got),
         WellFormed(sent), SameButForQuery(sent, got),
         CanonicalQuery(got) = CanonicalQuery(sent)
  PROVE  CanonicalRequest(got) = CanonicalRequest(sent)
<1>1. \A h \in Members(sent.signs) : CanonicalHeader(got, h) = CanonicalHeader(sent, h)
  <2> SUFFICES ASSUME NEW h \in Members(sent.signs)
               PROVE  CanonicalHeader(got, h) = CanonicalHeader(sent, h)
    OBVIOUS
  <2>1. CASE h = Host
    BY <2>1 DEF CanonicalHeader, CanonicalHost, SameButForQuery, SameServer
  <2>2. CASE h = RangeHeader
    BY <2>2 DEF CanonicalHeader, SameButForQuery, Host, RangeHeader
  <2>3. h # Authorization
    BY DEF WellFormed, SignedHeadersOk
  <2> QED
    BY <2>1, <2>2, <2>3, MessageParts
<1> QED
  BY <1>1 DEF CanonicalRequest, SameButForQuery

\* The same canonical form, of messages that are well formed and whose
\* signatures agree, is the same request, but for its query.
LEMMA SameFormSameRequest ==
  ASSUME NEW sent, NEW got, IsMessage(sent), IsMessage(got),
         WellFormed(got), got.date = sent.date, got.day = sent.day,
         CanonicalRequest(got) = CanonicalRequest(sent)
  PROVE  SameButForQuery(sent, got) /\ CanonicalQuery(got) = CanonicalQuery(sent)
<1>1. /\ got.method = sent.method /\ got.target = sent.target
      /\ got.signs = sent.signs
      /\ CanonicalQuery(got) = CanonicalQuery(sent)
      /\ PayloadHash(got) = PayloadHash(sent)
  BY DEF CanonicalRequest
<1>2. got.mode = sent.mode /\ (sent.mode = "presign" => got.ttl = sent.ttl)
  <2>1. /\ got.mode \in {"header", "presign"} /\ sent.mode \in {"header", "presign"}
        /\ got.ttl \in Nat /\ sent.ttl \in Nat
    BY DEF IsMessage
  <2>2. (IF got.mode = "presign" THEN got.ttl ELSE -1)
          = (IF sent.mode = "presign" THEN sent.ttl ELSE -1)
    BY DEF CanonicalRequest
  <2> QED
    BY <2>1, <2>2
<1>3. \A h \in Members(sent.signs) : CanonicalHeader(got, h) = CanonicalHeader(sent, h)
  <2>1. [h \in Members(got.signs) |-> CanonicalHeader(got, h)]
          = [h \in Members(sent.signs) |-> CanonicalHeader(sent, h)]
    BY DEF CanonicalRequest
  <2> QED
    BY <1>1, <2>1
<1>4. SameServer(sent, got)
  <2>1. CanonicalHost(got) = CanonicalHost(sent)
    BY <1>1, <1>3 DEF WellFormed, SignedHeadersOk, CanonicalHeader
  <2> QED
    BY <2>1 DEF CanonicalHost, SameServer
<1>5. RangeHeader \in Members(sent.signs) => got.range = sent.range
  BY <1>3 DEF CanonicalHeader, Host, RangeHeader
<1> QED
  BY <1>1, <1>2, <1>4, <1>5 DEF SameButForQuery

\* The lifetime of a message whose seconds fit is that many seconds; of any
\* message it is one of the numbers a word holds.
LEMMA LifetimeFits ==
  ASSUME NEW m, IsMessage(m), m.ttl * Second < Limit
  PROVE  Lifetime(m) = m.ttl * Second /\ m.ttl * Second \in Nat
<1>1. m.ttl \in Nat /\ Second \in Nat /\ Limit \in Nat \ {0}
  BY SignatureAssumption DEF IsMessage
<1>2. m.ttl * Second \in Nat
  BY <1>1
<1> DEFINE x == m.ttl * Second
<1>3. ((x + Limit) % (2 * Limit)) - Limit = x
  <2> HIDE DEF x
  <2>1. x \in Nat /\ x < Limit
    BY <1>2 DEF x
  <2>2. x + Limit \in Nat /\ x + Limit < 2 * Limit /\ 2 * Limit \in Nat \ {0}
    BY <1>1, <2>1
  <2>3. (x + Limit) % (2 * Limit) = x + Limit
    BY <2>2, SMT
  <2> QED
    BY <1>1, <2>1, <2>3
<1> QED
  BY <1>2, <1>3 DEF Lifetime

LEMMA LifetimeType ==
  ASSUME NEW m, IsMessage(m)
  PROVE  Lifetime(m) \in Int
<1>1. m.ttl \in Nat /\ Second \in Nat /\ Limit \in Nat \ {0}
  BY SignatureAssumption DEF IsMessage
<1>2. m.ttl * Second \in Nat
  BY <1>1
<1> DEFINE x == m.ttl * Second
<1> HIDE DEF x
<1>3. x + Limit \in Int /\ 2 * Limit \in Nat \ {0}
  BY <1>1, <1>2 DEF x
<1>4. (x + Limit) % (2 * Limit) \in Int
  BY <1>3, SMT
<1>5. ((x + Limit) % (2 * Limit)) - Limit \in Int
  BY <1>1, <1>4
<1> QED
  BY <1>5 DEF Lifetime, x

LEMMA TimesKeepOrder ==
  ASSUME NEW a \in Int, NEW b \in Int
  PROVE  a * Second <= b * Second <=> a <= b
<1>1. Second \in Nat \ {0}
  BY SignatureAssumption
<1>2. ASSUME NEW c \in Nat, NEW d \in Nat \ {0} PROVE c * d >= 0 /\ (c > 0 => c * d > 0)
  BY <1>2
<1>3. \A c, d \in Int : (d - c) * Second = d * Second - c * Second
  BY <1>1
<1>4. CASE a <= b
  <2>1. (b - a) * Second >= 0
    BY <1>1, <1>2, <1>4
  <2> QED
    BY <1>1, <1>3, <1>4, <2>1
<1>5. CASE b < a
  <2>1. (a - b) * Second > 0
    BY <1>1, <1>2, <1>5
  <2> QED
    BY <1>1, <1>3, <1>5, <2>1
<1> QED
  BY <1>4, <1>5

\* When its seconds fit, a message is taken exactly while it is in time.
LEMMA TimelyWhenFits ==
  ASSUME NEW m, IsMessage(m), Fits(m), NEW t \in Int
  PROVE  Timely(m, t) <=> InTime(m, t)
<1>1. CASE m.mode = "header"
  BY <1>1 DEF Timely, InTime
<1>2. CASE m.mode = "presign"
  <2>1. Lifetime(m) = m.ttl * Second /\ m.ttl * Second < Limit
    BY <1>2, LifetimeFits DEF Fits
  <2>2. m.ttl \in Nat /\ m.date \in Int /\ MaxTTL \in Int /\ Second \in Nat \ {0}
        /\ Limit \in Nat
    <3>1. m.ttl \in Nat /\ m.date \in Int
      BY DEF IsMessage
    <3>2. MaxTTL \in Int /\ Second \in Nat \ {0} /\ Limit \in Nat
      BY SignatureAssumption
    <3> QED
      BY <3>1, <3>2
  <2>3. m.ttl * Second <= MaxTTL * Second <=> m.ttl <= MaxTTL
    BY <2>2, TimesKeepOrder
  <2>4. m.date * Second + m.ttl * Second = (m.date + m.ttl) * Second
    BY <2>2
  <2>5. t * Second <= (m.date + m.ttl) * Second <=> t <= m.date + m.ttl
    BY <2>2, TimesKeepOrder
  <2>6. m.ttl < Limit
    <3>1. 1 <= Second
      BY <2>2
    <3>2. \A c, d \in Nat : 1 <= d => c <= c * d
      OBVIOUS
    <3>3. m.ttl <= m.ttl * Second /\ m.ttl * Second \in Nat
      BY <2>2, <3>1, <3>2
    <3> QED
      BY <2>1, <2>2, <3>3
  <2> QED
    BY <1>2, <2>1, <2>3, <2>4, <2>5, <2>6 DEF Timely, InTime
<1> QED
  BY <1>1, <1>2 DEF IsMessage

\* Whatever its seconds, it is not taken longer after its date than MaxTTL.
LEMMA TimelyBounded ==
  ASSUME NEW m, IsMessage(m), m.mode = "presign", NEW t \in Int, Timely(m, t)
  PROVE  m.date - Skew <= t /\ t <= m.date + MaxTTL
<1>1. /\ m.date \in Int /\ MaxTTL \in Int /\ Second \in Nat \ {0}
      /\ Lifetime(m) \in Int
  <2>1. m.date \in Int
    BY DEF IsMessage
  <2>2. MaxTTL \in Int /\ Second \in Nat \ {0}
    BY SignatureAssumption
  <2> QED
    BY <2>1, <2>2, LifetimeType
<1>2. /\ Lifetime(m) <= MaxTTL * Second
      /\ m.date - Skew <= t /\ t * Second <= m.date * Second + Lifetime(m)
  BY DEF Timely
<1>3. m.date * Second + MaxTTL * Second = (m.date + MaxTTL) * Second
  BY <1>1
<1>4. t * Second <= (m.date + MaxTTL) * Second
  <2>1. \A a, b, c, d \in Int : a <= b + c /\ c <= d => a <= b + d
    OBVIOUS
  <2>2. t * Second \in Int /\ m.date * Second \in Int /\ MaxTTL * Second \in Int
    BY <1>1
  <2>3. t * Second <= m.date * Second + MaxTTL * Second
    BY <1>1, <1>2, <2>1, <2>2
  <2> QED
    BY <1>3, <2>3
<1> QED
  BY <1>1, <1>2, <1>4, TimesKeepOrder

\* What Validate compares.
LEMMA SignaturesAgree ==
  ASSUME NEW sent, NEW got, NEW mine, NEW secret
  PROVE  Signature(mine, sent) = Signature(secret, got)
           <=> /\ mine = secret /\ sent.day = got.day /\ sent.date = got.date
               /\ CanonicalRequest(sent) = CanonicalRequest(got)
BY DEF Signature

(***************************************************************************)
(* What can be read in one way only passes with a signature exactly when   *)
(* the secret is right, the message was sent well formed, it is in time,   *)
(* and what the handlers are going to read is what was meant, however the  *)
(* query was spelled and ordered on its way.                               *)
(***************************************************************************)
THEOREM ValidatesExactly ==
  ASSUME NEW sent, NEW got, IsMessage(sent), IsMessage(got), Plain(sent, got),
         NEW mine, NEW secret, NEW t \in Int
  PROVE  Validates(got, Signature(mine, sent), secret, t)
           <=> /\ mine = secret
               /\ WellFormed(sent) /\ InTime(sent, t)
               /\ SameRequest(sent, got)
<1>1. Timely(got, t) <=> InTime(got, t)
  BY TimelyWhenFits DEF Plain
<1>2. ASSUME SameButForQuery(sent, got)
      PROVE  /\ WellFormed(got) <=> WellFormed(sent)
             /\ InTime(got, t) <=> InTime(sent, t)
  <2>1. WellFormed(got) <=> WellFormed(sent)
    BY <1>2 DEF SameButForQuery, WellFormed, SignedHeadersPresent
  <2>2. sent.mode \in {"header", "presign"}
    BY DEF IsMessage
  <2> QED
    BY <1>2, <2>1, <2>2 DEF SameButForQuery, InTime
<1>3. ASSUME Validates(got, Signature(mine, sent), secret, t)
      PROVE  /\ mine = secret
             /\ WellFormed(sent) /\ InTime(sent, t)
             /\ SameRequest(sent, got)
  <2>1. WellFormed(got) /\ Timely(got, t)
        /\ Signature(mine, sent) = Signature(secret, got)
    BY <1>3 DEF Validates
  <2>2. SameButForQuery(sent, got) /\ CanonicalQuery(got) = CanonicalQuery(sent)
    BY <2>1, SignaturesAgree, SameFormSameRequest
  <2> QED
    BY <1>1, <1>2, <2>1, <2>2, SignaturesAgree, SameQuery DEF SameRequest
<1>4. ASSUME mine = secret, WellFormed(sent), InTime(sent, t),
             SameRequest(sent, got)
      PROVE  Validates(got, Signature(mine, sent), secret, t)
  <2>1. SameButForQuery(sent, got) /\ CanonicalQuery(got) = CanonicalQuery(sent)
    BY <1>4, SameQuery DEF SameRequest
  <2>2. CanonicalRequest(got) = CanonicalRequest(sent)
    BY <1>4, <2>1, SameRequestSameForm
  <2>3. got.day = sent.day /\ got.date = sent.date
    BY <2>1 DEF SameButForQuery
  <2> QED
    BY <1>1, <1>2, <1>4, <2>1, <2>2, <2>3, SignaturesAgree DEF Validates
<1> QED
  BY <1>3, <1>4

(***************************************************************************)
(* Of any message that passes, whatever its query and its life: all but    *)
(* the query is as it was sent; every value the handlers read was signed;  *)
(* what was meant and they do not read is a pair spelled raw, or of a name *)
(* that comes twice; and the time is within Skew of its date or, of a      *)
(* presigned URL, less than MaxTTL after it.                               *)
(***************************************************************************)
THEOREM PassesAtMost ==
  ASSUME NEW sent, NEW got, IsMessage(sent), IsMessage(got),
         NEW mine, NEW secret, NEW t \in Int,
         Validates(got, Signature(mine, sent), secret, t)
  PROVE  /\ mine = secret /\ SameButForQuery(sent, got)
         /\ Asks(got) \subseteq Said(sent)
         /\ \A x \in Meant(sent) \ Asks(got) : \E i \in Signed(got) :
              /\ Says(got, i) = x
              /\ \/ got.params[i][3] = "raw"
                 \/ \E j \in Signed(got) \ {i} :
                      got.params[j][1] = got.params[i][1]
         /\ sent.date - Skew <= t
         /\ t <= sent.date + (IF sent.mode = "header" THEN Skew ELSE MaxTTL)
<1>1. WellFormed(got) /\ Timely(got, t)
      /\ Signature(mine, sent) = Signature(secret, got)
  BY DEF Validates
<1>2. SameButForQuery(sent, got) /\ CanonicalQuery(got) = CanonicalQuery(sent)
  BY <1>1, SignaturesAgree, SameFormSameRequest
<1>3. mine = secret /\ Said(got) = Said(sent)
  BY <1>1, <1>2, SignaturesAgree, SameQuerySays
<1>4. Asks(got) \subseteq Said(got)
  BY DEF Asks, FirstOfEach, Said
<1>5. Meant(sent) \subseteq Said(got)
  BY <1>3 DEF Meant, FirstOfEach, Said
<1>6. ASSUME NEW i \in Signed(got), got.params[i][3] # "raw",
             \A j \in Signed(got) \ {i} : got.params[j][1] # got.params[i][1]
      PROVE  Says(got, i) \in Asks(got)
  <2>1. i \in Nat
    BY MessageParts
  <2> QED
    BY <1>6, <2>1 DEF Asks, FirstOfEach
<1>7. ASSUME NEW x \in Meant(sent) \ Asks(got)
      PROVE  \E i \in Signed(got) :
               /\ Says(got, i) = x
               /\ \/ got.params[i][3] = "raw"
                  \/ \E j \in Signed(got) \ {i} :
                       got.params[j][1] = got.params[i][1]
  <2>1. PICK i \in Signed(got) : Says(got, i) = x
    BY <1>5, <1>7 DEF Said
  <2> QED
    BY <1>6, <1>7, <2>1
<1>8. /\ sent.date - Skew <= t
      /\ t <= sent.date + (IF sent.mode = "header" THEN Skew ELSE MaxTTL)
  <2>1. got.mode = sent.mode /\ got.date = sent.date
    BY <1>2 DEF SameButForQuery
  <2>2. sent.date \in Int /\ Skew \in Nat /\ got.mode \in {"header", "presign"}
    BY SignatureAssumption DEF IsMessage
  <2>3. CASE got.mode = "header"
    BY <1>1, <2>1, <2>2, <2>3 DEF Timely
  <2>4. CASE got.mode = "presign"
    BY <1>1, <2>1, <2>2, <2>4, TimelyBounded
  <2> QED
    BY <2>2, <2>3, <2>4
<1> QED
  BY <1>2, <1>3, <1>4, <1>7, <1>8
-----------------------------------------------------------------------------
(***************************************************************************)
(* The gate.                                                               *)
(***************************************************************************)

\* x is p's own bucket, or one of its accounts, in a collection acc.
Own(x, p, acc) ==
  \/ x \in Buckets /\ x = p
  \/ x \in Accounts /\ acc[x] # None /\ acc[x].owner = p

\* What is known of a request s in each phase, with collections acc and tok.
RequestOk(s, acc, tok, where) ==
  /\ s.phase = "secret" => s.due = "no"
  /\ s.phase \in {"secret", "validate"} =>
       where = "s3" /\ s.by \in Buckets /\ s.key \in Buckets
  /\ s.phase \in {"bearer", "basic", "create", "find", "createLogin",
                  "createSuffixed", "issue"} => where = "rest" /\ s.by \in People
  /\ s.phase = "bearer" => tok[s.by] # None
  /\ s.phase = "issue" => s.shown \in Accounts /\ Own(s.shown, s.by, acc)
  /\ s.phase \in {"limit", "handle"} =>
       /\ Own(s.key, s.by, acc)
       /\ where = "s3" => s.key \in Buckets
       /\ where = "rest" => s.key \in Accounts /\ s.by \in People
  /\ s.phase = "served" => Own(s.shown, s.by, acc)
  /\ s.phase \in Identified => s.due # "no"
  /\ s.phase = "refused" => s.due # "yes"

TokenOk(p, acc, tok) == tok[p] # None => Own(tok[p].account, p, acc)

\* What VerdictIsRight needs to be inductive: who is known to own what a
\* request or a token names.
GateInv ==
  /\ TypeOK
  /\ \A r \in Slots : RequestOk(slot[r], account, token, site)
  /\ \A p \in People : TokenOk(p, account, token)
-----------------------------------------------------------------------------
\* All messages considered are messages.

LEMMA AlteredMessages ==
  ASSUME NEW m, IsMessage(m)
  PROVE  /\ \A v \in BOOLEAN : IsMessage([m EXCEPT !.body = v])
         /\ \A v \in {"no port", "default port", "other port"} :
              IsMessage([m EXCEPT !.host = v])
         /\ \A v \in Text : IsMessage([m EXCEPT !.method = v])
         /\ \A v \in Text : IsMessage([m EXCEPT !.target = v])
         /\ \A v \in Text : IsMessage([m EXCEPT !.range = v])
         /\ \A v \in Text : IsMessage([m EXCEPT !.sha = v])
         /\ \A v \in Nat : IsMessage([m EXCEPT !.ttl = v])
         /\ \A v \in Int : IsMessage([m EXCEPT !.date = v])
         /\ \A v \in Int : IsMessage([m EXCEPT !.day = v])
         /\ \A v \in Seq(Authorization .. RangeHeader) :
              IsMessage([m EXCEPT !.signs = v])
         /\ \A v \in Seq(Text \X Text \X Spelling) :
              IsMessage([m EXCEPT !.params = v])
<1>1. ASSUME NEW v \in BOOLEAN PROVE IsMessage([m EXCEPT !.body = v])
  BY <1>1 DEF IsMessage
<1>2. ASSUME NEW v \in {"no port", "default port", "other port"}
      PROVE  IsMessage([m EXCEPT !.host = v])
  BY <1>2 DEF IsMessage
<1>3. ASSUME NEW v \in Text PROVE IsMessage([m EXCEPT !.method = v])
  BY <1>3 DEF IsMessage
<1>4. ASSUME NEW v \in Text PROVE IsMessage([m EXCEPT !.target = v])
  BY <1>4 DEF IsMessage
<1>5. ASSUME NEW v \in Text PROVE IsMessage([m EXCEPT !.range = v])
  BY <1>5 DEF IsMessage
<1>6. ASSUME NEW v \in Text PROVE IsMessage([m EXCEPT !.sha = v])
  BY <1>6 DEF IsMessage
<1>7. ASSUME NEW v \in Nat PROVE IsMessage([m EXCEPT !.ttl = v])
  BY <1>7 DEF IsMessage
<1>8. ASSUME NEW v \in Int PROVE IsMessage([m EXCEPT !.date = v])
  BY <1>8 DEF IsMessage
<1>9. ASSUME NEW v \in Int PROVE IsMessage([m EXCEPT !.day = v])
  BY <1>9 DEF IsMessage
<1>10. ASSUME NEW v \in Seq(Authorization .. RangeHeader) PROVE IsMessage([m EXCEPT !.signs = v])
  BY <1>10 DEF IsMessage
<1>11. ASSUME NEW v \in Seq(Text \X Text \X Spelling) PROVE IsMessage([m EXCEPT !.params = v])
  BY <1>11 DEF IsMessage
<1> QED
  BY <1>1, <1>2, <1>3, <1>4, <1>5, <1>6, <1>7, <1>8, <1>9, <1>10, <1>11

LEMMA ShortSequences ==
  ASSUME NEW T, NEW x \in T, NEW y \in T
  PROVE  <<>> \in Seq(T) /\ <<x>> \in Seq(T) /\ <<x, y>> \in Seq(T)
OBVIOUS

LEMMA OnePairMore ==
  ASSUME NEW T, NEW s \in Seq(T), NEW x \in T
  PROVE  Append(s, x) \in Seq(T)
OBVIOUS

\* The queries of the messages considered.
Pairs == Text \X Text \X Spelling

LEMMA Queries ==
  /\ Prefix \in Pairs /\ Shorter \in Pairs /\ Delimiter \in Pairs
  /\ SignatureParam \in Pairs
  /\ \A spelling \in Spelling : Respelled(Prefix, spelling) \in Pairs
  /\ \A x, y \in Pairs : {<<>>, <<x>>, <<x, y>>} \subseteq Seq(Pairs)
<1>1. \A x, y \in Text, spelling \in Spelling : <<x, y, spelling>> \in Pairs
  BY DEF Pairs
<1>2. {"prefix", "b;", "b", "delimiter", "/", "X-Amz-Signature", "sig"} \subseteq Text
  BY GateAssumption DEF Written
<1>3. "minimal" \in Spelling
  BY DEF Spelling
<1>4. ASSUME NEW spelling \in Spelling
      PROVE  Respelled(Prefix, spelling) = <<"prefix", "b;", spelling>>
  BY DEF Respelled, Prefix
<1> QED
  BY <1>1, <1>2, <1>3, <1>4, ShortSequences DEF Prefix, Shorter, Delimiter, SignatureParam

LEMMA QueriedMessages ==
  ASSUME NEW m, IsMessage(m)
  PROVE  /\ \A x, y \in Pairs : /\ IsMessage([m EXCEPT !.params = <<>>])
                                /\ IsMessage([m EXCEPT !.params = <<x>>])
                                /\ IsMessage([m EXCEPT !.params = <<x, y>>])
         /\ IsMessage(Delivered(m))
<1>1. \A q \in Seq(Pairs) : IsMessage([m EXCEPT !.params = q])
  BY AlteredMessages DEF Pairs
<1>2. m.params \in Seq(Pairs)
  BY DEF IsMessage, Pairs
<1>3. Append(m.params, SignatureParam) \in Seq(Pairs)
  BY <1>2, Queries, OnePairMore
<1>4. IsMessage(Delivered(m))
  BY <1>1, <1>3 DEF Delivered
<1> QED
  BY <1>1, <1>4, Queries

LEMMA DayIsInt == \A d \in Int : DateOf(d) \in Int
BY SignatureAssumption, SMT DEF DateOf

LEMMA RecordIsMessage ==
  ASSUME NEW mode \in {"header", "presign"}, NEW date \in Int, NEW day \in Int,
         NEW ttl \in Nat, NEW method \in Text, NEW target \in Text,
         NEW q \in Seq(Text \X Text \X Spelling),
         NEW range \in Text, NEW signs \in Seq(Authorization .. RangeHeader),
         NEW sha \in Text
  PROVE  IsMessage([mode |-> mode, date |-> date, day |-> day, ttl |-> ttl,
                    method |-> method, target |-> target, params |-> q,
                    host |-> "no port", range |-> range, signs |-> signs,
                    sha |-> sha, body |-> FALSE])
BY DEF IsMessage

LEMMA BaseMessage ==
  ASSUME NEW mode \in {"header", "presign"}, NEW date \in Int
  PROVE  IsMessage(Message(mode, date))
<1> DEFINE q == <<Prefix, Delimiter>>
           day == DateOf(date)
           signs == <<Host>>
<1>1. q \in Seq(Text \X Text \X Spelling)
  BY Queries DEF Pairs
<1>2. day \in Int /\ signs \in Seq(Authorization .. RangeHeader) /\ 1 \in Nat
  BY DayIsInt DEF Authorization, Host, RangeHeader
<1>3. "GET" \in Text /\ "b" \in Text /\ "none" \in Text
  BY GateAssumption DEF Written
<1>4. Message(mode, date) =
        [mode |-> mode, date |-> date, day |-> day, ttl |-> 1,
         method |-> "GET", target |-> "b", params |-> q,
         host |-> "no port", range |-> "none", signs |-> signs,
         sha |-> "none", body |-> FALSE]
  BY DEF Message
<1> HIDE DEF q, day, signs
<1>5. IsMessage([mode |-> mode, date |-> date, day |-> day, ttl |-> 1,
                 method |-> "GET", target |-> "b", params |-> q,
                 host |-> "no port", range |-> "none", signs |-> signs,
                 sha |-> "none", body |-> FALSE])
  BY <1>1, <1>2, <1>3, RecordIsMessage
<1> QED
  BY <1>4, <1>5, Zenon

LEMMA FewHeaders ==
  /\ <<RangeHeader>> \in Seq(Authorization .. RangeHeader)
  /\ <<Host, Host>> \in Seq(Authorization .. RangeHeader)
  /\ <<Host, RangeHeader>> \in Seq(Authorization .. RangeHeader)
  /\ <<RangeHeader, Host>> \in Seq(Authorization .. RangeHeader)
  /\ <<Authorization, Host>> \in Seq(Authorization .. RangeHeader)
<1> DEFINE headers == Authorization .. RangeHeader
<1>1. Authorization \in headers /\ Host \in headers /\ RangeHeader \in headers
  BY DEF Authorization, Host, RangeHeader
<1> HIDE DEF headers
<1>2. /\ <<RangeHeader>> \in Seq(headers) /\ <<Host, Host>> \in Seq(headers)
      /\ <<Host, RangeHeader>> \in Seq(headers)
      /\ <<RangeHeader, Host>> \in Seq(headers)
      /\ <<Authorization, Host>> \in Seq(headers)
  BY <1>1, ShortSequences
<1> QED
  BY <1>2 DEF headers

LEMMA OverflowingIsNat == Overflowing \in Nat
<1>1. 2 * Limit \in Nat /\ Second \in Nat \ {0}
  BY SignatureAssumption
<1>2. (2 * Limit) \div Second \in Nat
  <2> DEFINE x == 2 * Limit
  <2> HIDE DEF x
  <2>1. x \in Nat
    BY <1>1 DEF x
  <2>2. x \div Second \in Nat
    BY <1>1, <2>1, SMT
  <2> QED
    BY <2>2 DEF x
<1> QED
  BY <1>2 DEF Overflowing

LEMMA SentMessages ==
  ASSUME NEW t \in Nat, NEW m \in Sent(t)
  PROVE  IsMessage(m)
<1>1. PICK mode \in {"header", "presign"}, date \in DatesAround(t) :
        m \in Variants(Message(mode, date))
  BY DEF Sent
<1> DEFINE b == Message(mode, date)
<1>2. IsMessage(b) /\ b.day \in Int
  <2>1. date \in Int
    BY DEF DatesAround
  <2> QED
    BY <2>1, BaseMessage DEF IsMessage
<1>3. /\ {"POST", "declared", "0-9"} \subseteq Text
      /\ MaxTTL \in Nat /\ MaxTTL + 1 \in Nat /\ 0 \in Nat /\ b.day + 1 \in Int
      /\ Overflowing \in Nat
  <2>1. {"POST", "declared", "0-9"} \subseteq Text
    BY GateAssumption DEF Written
  <2>2. MaxTTL \in Nat
    BY SignatureAssumption
  <2> HIDE DEF b
  <2>3. b.day + 1 \in Int
    BY <1>2
  <2> QED
    BY <2>1, <2>2, <2>3, OverflowingIsNat
<1> HIDE DEF b
<1>4. /\ IsMessage([b EXCEPT !.day = b.day + 1])
      /\ IsMessage([b EXCEPT !.params = <<>>])
      /\ IsMessage([b EXCEPT !.params = <<Shorter, Prefix>>])
      /\ IsMessage([b EXCEPT !.range = "0-9"])
      /\ IsMessage([b EXCEPT !.method = "POST"])
      /\ \A ttl \in {0, MaxTTL, MaxTTL + 1, Overflowing} :
           IsMessage([b EXCEPT !.ttl = ttl])
      /\ \A signs \in {<<RangeHeader>>, <<Host, Host>>, <<Host, RangeHeader>>,
                       <<RangeHeader, Host>>, <<Authorization, Host>>} :
           IsMessage([b EXCEPT !.signs = signs])
  BY <1>2, <1>3, AlteredMessages, QueriedMessages, Queries, FewHeaders
<1>5. IsMessage([[b EXCEPT !.method = "POST"] EXCEPT !.body = TRUE])
  BY <1>4, AlteredMessages
<1>6. IsMessage([[[b EXCEPT !.method = "POST"] EXCEPT !.body = TRUE]
                   EXCEPT !.sha = "declared"])
  BY <1>3, <1>5, AlteredMessages
<1>7. IsMessage([[b EXCEPT !.range = "0-9"] EXCEPT !.signs = <<Host, RangeHeader>>])
  BY <1>4, FewHeaders, AlteredMessages
<1> QED
  <2>1. m \in Variants(b)
    BY <1>1 DEF b
  <2>2. CASE \E ttl \in {0, MaxTTL, MaxTTL + 1, Overflowing} :
               m = [b EXCEPT !.ttl = ttl]
    BY <2>2, <1>4
  <2>3. CASE \E signs \in {<<RangeHeader>>, <<Host, Host>>, <<Host, RangeHeader>>,
                          <<RangeHeader, Host>>, <<Authorization, Host>>} :
               m = [b EXCEPT !.signs = signs]
    BY <2>3, <1>4, Zenon
  <2> QED
    BY <2>1, <2>2, <2>3, <1>2, <1>4, <1>5, <1>6, <1>7, Zenon DEF Variants

LEMMA RewrittenMessages ==
  ASSUME NEW m, IsMessage(m), NEW n \in Rewritten(m)
  PROVE  IsMessage(n)
<1>1. /\ {"HEAD", "c", "0-8", "none", "other"} \subseteq Text
      /\ MaxTTL \in Nat /\ {"escaped", "raw"} \subseteq Spelling
  BY GateAssumption, SignatureAssumption DEF Written, Spelling
<1>2. m.date + 1 \in Int /\ m.day + 1 \in Int
  <2>1. m.date \in Int /\ m.day \in Int
    BY DEF IsMessage
  <2> QED
    BY <2>1
<1>3. /\ IsMessage([m EXCEPT !.params = <<Delimiter, Prefix>>])
      /\ IsMessage([m EXCEPT !.params = <<Prefix>>])
      /\ IsMessage([m EXCEPT !.params = <<Respelled(Prefix, "escaped"), Delimiter>>])
      /\ IsMessage([m EXCEPT !.params = <<Respelled(Prefix, "raw"), Delimiter>>])
      /\ IsMessage([m EXCEPT !.params = <<Prefix, Shorter>>])
  BY <1>1, Queries, QueriedMessages
<1>4. /\ IsMessage([m EXCEPT !.body = TRUE])
      /\ IsMessage([m EXCEPT !.host = "default port"])
      /\ IsMessage([m EXCEPT !.host = "other port"])
      /\ IsMessage([m EXCEPT !.method = "HEAD"])
      /\ IsMessage([m EXCEPT !.target = "c"])
      /\ IsMessage([m EXCEPT !.range = "0-8"])
      /\ IsMessage([m EXCEPT !.range = "none"])
      /\ IsMessage([m EXCEPT !.sha = "other"])
      /\ IsMessage([m EXCEPT !.ttl = MaxTTL])
      /\ IsMessage([m EXCEPT !.date = m.date + 1])
      /\ IsMessage([m EXCEPT !.day = m.day + 1])
  BY <1>1, <1>2, AlteredMessages
<1> QED
  BY <1>3, <1>4, Zenon DEF Rewritten

\* Validation says what it ought to, where that can be said.
LEMMA VerdictsAgree ==
  ASSUME NEW t \in 0 .. MaxTime, NEW right \in BOOLEAN,
         NEW v \in Verdicts[t][right]
  PROVE  /\ v.valid \in BOOLEAN /\ v.due \in {"yes", "no", "either"}
         /\ v.valid => right /\ v.due # "no"
         /\ ~v.valid => v.due # "yes"
<1>1. t \in Nat /\ t \in Int
  <2>1. MaxTime \in Nat
    BY GateAssumption
  <2> QED
    BY <2>1
<1>2. PICK m \in Sent(t) : \E n \in Rewritten(m) :
        v = [due |-> Due(Genuine(m, Delivered(n), right, t), Plain(m, Delivered(n))),
             valid |-> Validates(Delivered(n), Signature(right, m), TRUE, t)]
  BY Zenon DEF Verdicts
<1>3. PICK n \in Rewritten(m) :
        v = [due |-> Due(Genuine(m, Delivered(n), right, t), Plain(m, Delivered(n))),
             valid |-> Validates(Delivered(n), Signature(right, m), TRUE, t)]
  BY <1>2
<1> DEFINE got == Delivered(n)
           valid == Validates(got, Signature(right, m), TRUE, t)
<1>4. IsMessage(m) /\ IsMessage(got)
  BY <1>1, SentMessages, RewrittenMessages, QueriedMessages
<1>5. Plain(m, got) => (valid <=> Genuine(m, got, right, t))
  <2>1. ASSUME Plain(m, got)
        PROVE  valid <=> /\ right = TRUE
                         /\ WellFormed(m) /\ InTime(m, t) /\ SameRequest(m, got)
    BY <1>1, <1>4, <2>1, ValidatesExactly
  <2>2. (right = TRUE) <=> right
    OBVIOUS
  <2> QED
    BY <2>1, <2>2, Zenon DEF Genuine
<1>6. valid => right
  <2>1. valid => Signature(right, m) = Signature(TRUE, got)
    BY DEF Validates
  <2>2. Signature(right, m) = Signature(TRUE, got) => right = TRUE
    BY DEF Signature
  <2> QED
    BY <2>1, <2>2, Zenon
<1>7. valid \in BOOLEAN
  BY DEF Validates
<1>8. v.due = Due(Genuine(m, got, right, t), Plain(m, got)) /\ v.valid = valid
  BY <1>3
<1> HIDE DEF got, valid
<1> QED
  BY <1>5, <1>6, <1>7, <1>8 DEF Due
-----------------------------------------------------------------------------
(***************************************************************************)
(* A step of the gate. Accounts are only ever added, and a request that    *)
(* moves on does so to a phase in which what is known of it holds.         *)
(***************************************************************************)
NothingTaken ==
  /\ \A a \in Accounts : account[a] # None => account'[a] = account[a]
  /\ \A p \in People : token[p] # None => token'[p] # None

MovesOn(r) ==
  \E x \in Requests :
    slot' = [slot EXCEPT ![r] = x] /\ RequestOk(x, account', token', site)

\* None is no account, no token and no identity.
LEMMA NoneApart ==
  /\ None \notin Users /\ None \notin Tokens
  /\ Buckets \cap Accounts = {}
  /\ Ip \in Key /\ Buckets \subseteq Key /\ Accounts \subseteq Key
  /\ MaxTime \in Nat /\ MaxRequests \in Nat /\ TokenLife \in Nat
BY GateAssumption

LEMMA OwnKept ==
  ASSUME NothingTaken, NEW x, NEW p, Own(x, p, account)
  PROVE  Own(x, p, account')
BY DEF NothingTaken, Own

LEMMA RequestKept ==
  ASSUME NothingTaken, NEW s, RequestOk(s, account, token, site)
  PROVE  RequestOk(s, account', token', site)
<1>1. Own(s.shown, s.by, account) => Own(s.shown, s.by, account')
  BY OwnKept
<1>2. Own(s.key, s.by, account) => Own(s.key, s.by, account')
  BY OwnKept
<1>3. s.by \in People /\ token[s.by] # None => token'[s.by] # None
  BY DEF NothingTaken
<1> QED
  BY <1>1, <1>2, <1>3 DEF RequestOk

\* What is left to show of a step, when a request moves on.
LEMMA GateInvKept ==
  ASSUME GateInv, LimiterTypeOK', now' <= MaxTime, site' = site, live' \subseteq live,
         begun' \in 0 .. MaxRequests, NothingTaken,
         account' \in [Accounts -> Users \cup {None}],
         token' \in [People -> Tokens \cup {None}],
         \A p \in People : token'[p] = token[p] \/ Own(token'[p].account, p, account'),
         slot' = slot \/ \E r \in Slots : MovesOn(r)
  PROVE  GateInv'
<1>1. /\ slot' \in [Slots -> Requests]
      /\ \A r \in Slots : RequestOk(slot'[r], account', token', site')
  <2>1. /\ slot \in [Slots -> Requests]
        /\ \A r \in Slots : RequestOk(slot[r], account', token', site)
    BY RequestKept DEF GateInv, TypeOK
  <2>2. CASE slot' = slot
    BY <2>1, <2>2
  <2>3. ASSUME NEW r \in Slots, MovesOn(r)
        PROVE  /\ slot' \in [Slots -> Requests]
               /\ \A q \in Slots : RequestOk(slot'[q], account', token', site')
    <3>1. PICK x \in Requests :
            slot' = [slot EXCEPT ![r] = x] /\ RequestOk(x, account', token', site)
      BY <2>3 DEF MovesOn
    <3>2. slot'[r] = x /\ \A q \in Slots \ {r} : slot'[q] = slot[q]
      BY <2>1, <3>1
    <3> QED
      BY <2>1, <3>1, <3>2
  <2> QED
    BY <2>2, <2>3
<1>2. \A p \in People : TokenOk(p, account', token')
  <2> SUFFICES ASSUME NEW p \in People, token'[p] # None
               PROVE  Own(token'[p].account, p, account')
    BY DEF TokenOk
  <2>1. CASE token'[p] = token[p]
    BY <2>1, OwnKept DEF GateInv, TokenOk
  <2> QED
    BY <2>1
<1>3. site' \in {"s3", "rest"} /\ live' \subseteq Buckets
  BY DEF GateInv, TypeOK
<1> QED
  BY <1>1, <1>2, <1>3 DEF GateInv, TypeOK

\* Every step of the gate is one of the limiter, or leaves it alone.
LEMMA GateIsLimiter == GateInv /\ [Next]_vars => [LimiterNext]_limiterVars
<1> SUFFICES ASSUME GateInv, [Next]_vars PROVE [LimiterNext]_limiterVars
  OBVIOUS
<1> USE NoneApart
<1>1. ASSUME NEW r \in Slots, Serve(r) PROVE [LimiterNext]_limiterVars
  <2>1. ASSUME NEW request, NEW phase, Arrive(r, request, phase)
        PROVE  LimiterNext
    <3>1. Grant(Ip) \/ Deny(Ip)
      BY <2>1, Zenon DEF Arrive
    <3> QED
      BY <3>1 DEF LimiterNext
  <2>2. CASE ArriveS3(r) \/ ArriveWithoutKey(r) \/ ArrivePublic(r) \/ ArriveProtected(r)
    BY <2>1, <2>2, Zenon DEF ArriveS3, ArriveWithoutKey, ArrivePublic, ArriveProtected
  <2>3. CASE Finish(r)
    BY <2>3 DEF Finish, CancelWhenIdentified, LimiterNext
  <2>4. CASE LimitIdentity(r)
    <3>1. RequestOk(slot[r], account, token, site)
      BY DEF GateInv
    <3>2. slot[r].key \in Key
      BY <2>4, <3>1 DEF LimitIdentity, RequestOk, Own
    <3> QED
      BY <2>4, <3>2 DEF LimitIdentity, LimiterNext
  <2>5. CASE UNCHANGED limiterVars
    BY <2>5
  <2>6. CASE \/ CallFails(r) \/ ReadSecret(r) \/ Validate(r) \/ LookupBucket(r)
             \/ ListBuckets(r) \/ Register(r) \/ FindByGitHubID(r) \/ CreateLogin(r)
             \/ CreateSuffixed(r) \/ ReplyLost(r) \/ FinishCallback(r)
             \/ AuthBearer(r) \/ AuthBasic(r) \/ GetCurrentUser(r) \/ TokenLogin(r)
    <3>1. UNCHANGED limiterVars
      BY <2>6 DEF CallFails, ReadSecret, Validate, LookupBucket, ListBuckets,
                  Register, FindByGitHubID, CreateLogin, CreateSuffixed, ReplyLost,
                  FinishCallback, AuthBearer, AuthBasic, GetCurrentUser, TokenLogin
    <3> QED
      BY <3>1
  <2> QED
    BY <1>1, <2>2, <2>3, <2>4, <2>6 DEF Serve
<1>2. ASSUME NEW b \in Buckets, DeleteBucket(b) PROVE [LimiterNext]_limiterVars
  BY <1>2 DEF DeleteBucket
<1>3. ASSUME CleanupLimiters \/ TimePasses \/ BeginToCount
      PROVE  [LimiterNext]_limiterVars
  BY <1>3 DEF CleanupLimiters, TimePasses, BeginToCount, LimiterNext
<1>4. ASSUME UNCHANGED vars PROVE [LimiterNext]_limiterVars
  BY <1>4 DEF vars
<1> QED
  BY <1>1, <1>2, <1>3, <1>4 DEF Next

LEMMA IdleIsRequest ==
  Idle \in Requests /\ Idle.phase = "idle" /\ Idle.due = "no"
BY DEF Idle, Requests, Phases, Identified

\* How a request may be answered.
LEMMA LeaveMoves ==
  ASSUME GateInv, NEW r \in Slots, NothingTaken, UNCHANGED site,
         NEW phase \in {"done", "dropped", "refused"}, Leave(r, phase),
         phase = "dropped" => slot[r].due # "no",
         phase = "refused" => slot[r].due # "yes"
  PROVE  MovesOn(r)
<1> DEFINE x == [Idle EXCEPT !.phase = phase, !.due = slot[r].due]
<1>1. slot[r] \in Requests
  BY DEF GateInv, TypeOK
<1>2. /\ x \in Requests
      /\ x.phase = phase /\ x.due = slot[r].due
  <2>1. slot[r].due \in {"yes", "no", "either"}
    BY <1>1 DEF Requests
  <2>2. phase \in Phases
    BY DEF Phases, Identified
  <2>3. \A g \in {"yes", "no", "either"} :
          LET y == [Idle EXCEPT !.phase = phase, !.due = g] IN
          y \in Requests /\ y.phase = phase /\ y.due = g
    BY <2>2, IdleIsRequest DEF Requests
  <2> QED
    BY <2>1, <2>3
<1> HIDE DEF x
<1>4. RequestOk(x, account', token', site)
  BY <1>2 DEF RequestOk, Identified
<1> QED
  BY <1>2, <1>4 DEF Leave, MovesOn, x

LEMMA GoMoves ==
  ASSUME GateInv, NEW r \in Slots, NEW phase \in Phases, Go(r, phase),
         RequestOk([slot[r] EXCEPT !.phase = phase], account', token', site)
  PROVE  MovesOn(r)
<1> DEFINE x == [slot[r] EXCEPT !.phase = phase]
<1>1. slot[r] \in Requests
  BY DEF GateInv, TypeOK
<1>2. x \in Requests
  BY <1>1 DEF Requests
<1>3. slot' = [slot EXCEPT ![r] = x]
  BY DEF Go
<1> QED
  BY <1>2, <1>3 DEF MovesOn

LEMMA ShowMoves ==
  ASSUME GateInv, NEW r \in Slots, NEW phase \in {"served", "issue"},
         NEW what \in Buckets \cup Accounts, Show(r, phase, what),
         Own(what, slot[r].by, account'),
         phase = "issue" => /\ what \in Accounts /\ site = "rest"
                            /\ slot[r].by \in People,
         phase = "served" => slot[r].due # "no"
  PROVE  MovesOn(r)
<1> DEFINE x == [slot[r] EXCEPT !.phase = phase, !.shown = what]
<1>1. slot[r] \in Requests
  BY DEF GateInv, TypeOK
<1>2. /\ x \in Requests
      /\ x.phase = phase /\ x.shown = what /\ x.by = slot[r].by
      /\ x.due = slot[r].due
  BY <1>1 DEF Requests, Phases, Identified
<1>3. slot' = [slot EXCEPT ![r] = x]
  BY DEF Show
<1> HIDE DEF x
<1>4. RequestOk(x, account', token', site)
  BY <1>2 DEF RequestOk, Identified
<1> QED
  BY <1>2, <1>3, <1>4 DEF MovesOn

LEMMA UnchangedTakesNothing == UNCHANGED <<account, token>> => NothingTaken
BY DEF NothingTaken

\* What an arriving request says.
Keyed(by, key) ==
  [[Idle EXCEPT !.by = by, !.key = key] EXCEPT !.phase = "secret"]

LEMMA KeyedArrival ==
  ASSUME NEW by \in Buckets, NEW key \in Buckets
  PROVE  LET x == Keyed(by, key) IN
         x \in Requests /\ x.phase = "secret" /\ x.due = "no"
           /\ x.by = by /\ x.key = key
BY IdleIsRequest DEF Requests, Phases, Keyed

LEMMA PersonArrival ==
  ASSUME NEW by \in People, NEW phase \in {"create", "find", "bearer", "basic"}
  PROVE  LET y == [[Idle EXCEPT !.by = by] EXCEPT !.phase = phase] IN
         y \in Requests /\ y.phase = phase /\ y.due = "no" /\ y.by = by
<1>1. phase \in Phases
  BY DEF Phases
<1> QED
  BY <1>1, IdleIsRequest DEF Requests

LEMMA NamelessArrival ==
  LET z == [Idle EXCEPT !.phase = "refused"] IN
  z \in Requests /\ z.phase = "refused" /\ z.due = "no"
BY IdleIsRequest DEF Requests, Phases

LEMMA ArriveMoves ==
  ASSUME NEW r \in Slots, NEW request, NEW phase, Arrive(r, request, phase),
         [request EXCEPT !.phase = phase] \in Requests,
         RequestOk([request EXCEPT !.phase = phase], account, token, site)
  PROVE  slot' = slot \/ MovesOn(r)
BY Zenon DEF Arrive, MovesOn

LEMMA Arrivals ==
  ASSUME GateInv, NEW r \in Slots,
         ArriveS3(r) \/ ArriveWithoutKey(r) \/ ArrivePublic(r) \/ ArriveProtected(r)
  PROVE  /\ slot' = slot \/ MovesOn(r)
         /\ UNCHANGED <<site, live, account, token>>
         /\ begun' \in 0 .. MaxRequests
<1>1. ASSUME NEW request, NEW phase, Arrive(r, request, phase)
      PROVE  UNCHANGED <<site, live, account, token>> /\ begun' \in 0 .. MaxRequests
  BY <1>1, NoneApart DEF Arrive, GateInv, TypeOK
<1>2. ASSUME ArriveS3(r) PROVE slot' = slot \/ MovesOn(r)
  <2>1. PICK by \in Buckets, key \in Buckets :
          Arrive(r, [Idle EXCEPT !.by = by, !.key = key], "secret")
    BY <1>2 DEF ArriveS3
  <2> DEFINE x == Keyed(by, key)
  <2>2. /\ x \in Requests /\ x.phase = "secret" /\ x.due = "no"
        /\ x.by = by /\ x.key = key
    BY KeyedArrival
  <2>3. RequestOk(x, account, token, site)
    <3> HIDE DEF x
    <3> QED
      BY <1>2, <2>2 DEF RequestOk, ArriveS3, Identified
  <2> QED
    BY <2>1, <2>2, <2>3, ArriveMoves DEF Keyed
<1>3. ASSUME Arrive(r, Idle, "refused") PROVE slot' = slot \/ MovesOn(r)
  <2> DEFINE z == [Idle EXCEPT !.phase = "refused"]
  <2>1. z \in Requests /\ z.phase = "refused" /\ z.due = "no"
    BY NamelessArrival
  <2>2. RequestOk(z, account, token, site)
    <3> HIDE DEF z
    <3> QED
      BY <2>1 DEF RequestOk, Identified
  <2> QED
    BY <1>3, <2>1, <2>2, ArriveMoves
<1>4. ASSUME site = "rest", NEW by \in People,
             NEW phase \in {"create", "find", "bearer", "basic"},
             Arrive(r, [Idle EXCEPT !.by = by], phase),
             phase = "bearer" => token[by] # None
      PROVE  slot' = slot \/ MovesOn(r)
  <2> DEFINE y == [[Idle EXCEPT !.by = by] EXCEPT !.phase = phase]
  <2>1. y \in Requests /\ y.phase = phase /\ y.due = "no" /\ y.by = by
    BY PersonArrival
  <2>2. RequestOk(y, account, token, site)
    <3> HIDE DEF y
    <3> QED
      BY <1>4, <2>1 DEF RequestOk, Identified
  <2> QED
    BY <1>4, <2>1, <2>2, ArriveMoves
<1>5. CASE ArriveS3(r)
  <2>1. PICK by \in Buckets, key \in Buckets :
          Arrive(r, [Idle EXCEPT !.by = by, !.key = key], "secret")
    BY <1>5 DEF ArriveS3
  <2> QED
    BY <1>1, <1>2, <1>5, <2>1
<1>6. CASE ArriveWithoutKey(r)
  BY <1>1, <1>3, <1>6, Zenon DEF ArriveWithoutKey
<1>7. CASE ArrivePublic(r)
  <2>1. site = "rest" /\ \E by \in People, phase \in {"create", "find"} :
          Arrive(r, [Idle EXCEPT !.by = by], phase)
    BY <1>7 DEF ArrivePublic
  <2>2. PICK by \in People, phase \in {"create", "find"} :
          Arrive(r, [Idle EXCEPT !.by = by], phase)
    BY <2>1
  <2>3. phase \in {"create", "find", "bearer", "basic"} /\ phase # "bearer"
    OBVIOUS
  <2> QED
    BY <1>1, <1>4, <2>1, <2>2, <2>3
<1>8. CASE ArriveProtected(r)
  <2>1. site = "rest"
    BY <1>8 DEF ArriveProtected
  <2>2. CASE Arrive(r, Idle, "refused")
    BY <1>1, <1>3, <2>2
  <2>3. ASSUME NEW by \in People, Arrive(r, [Idle EXCEPT !.by = by], "basic")
        PROVE  /\ slot' = slot \/ MovesOn(r)
               /\ UNCHANGED <<site, live, account, token>>
               /\ begun' \in 0 .. MaxRequests
    BY <1>1, <1>4, <2>1, <2>3
  <2>4. ASSUME NEW by \in People, Arrive(r, [Idle EXCEPT !.by = by], "bearer"),
               token[by] # None
        PROVE  /\ slot' = slot \/ MovesOn(r)
               /\ UNCHANGED <<site, live, account, token>>
               /\ begun' \in 0 .. MaxRequests
    BY <1>1, <1>4, <2>1, <2>4
  <2> QED
    BY <1>8, <2>2, <2>3, <2>4, Zenon DEF ArriveProtected
<1> QED
  BY <1>5, <1>6, <1>7, <1>8

LEMMA RefuseMoves ==
  ASSUME GateInv, NEW r \in Slots, NEW due \in {"no", "either"}, Refuse(r, due)
  PROVE  MovesOn(r)
<1> DEFINE x == [Idle EXCEPT !.phase = "refused", !.due = due]
<1>1. x \in Requests /\ x.phase = "refused" /\ x.due = due
  BY IdleIsRequest DEF Requests, Phases
<1>2. RequestOk(x, account', token', site)
  <2> HIDE DEF x
  <2> QED
    BY <1>1 DEF RequestOk, Identified
<1> QED
  BY <1>1, <1>2 DEF MovesOn, Refuse

LEMMA AdmitMoves ==
  ASSUME GateInv, NEW r \in Slots, NEW key \in Buckets \cup Accounts,
         NEW due \in {"yes", "either"}, Admit(r, key, due),
         Own(key, slot[r].by, account'),
         site = "s3" => key \in Buckets,
         site = "rest" => key \in Accounts /\ slot[r].by \in People
  PROVE  MovesOn(r)
<1> DEFINE x == [slot[r] EXCEPT !.phase = "limit", !.key = key, !.due = due]
<1>1. slot[r] \in Requests
  BY DEF GateInv, TypeOK
<1>2. /\ x \in Requests /\ x.phase = "limit" /\ x.due = due
      /\ x.by = slot[r].by /\ x.key = key
  BY <1>1 DEF Requests, Phases, Identified
<1>3. RequestOk(x, account', token', site)
  <2> HIDE DEF x
  <2> QED
    BY <1>2 DEF RequestOk, Identified
<1> QED
  BY <1>2, <1>3 DEF MovesOn, Admit

\* Who is let in has shown that it owns what it claims.
LEMMA ValidateMoves ==
  ASSUME GateInv, NEW r \in Slots, Validate(r)
  PROVE  MovesOn(r)
<1> DEFINE s == slot[r]
<1>1. s \in Requests /\ RequestOk(s, account, token, site) /\ now \in 0 .. MaxTime
  BY NoneApart DEF GateInv, TypeOK, LimiterTypeOK
<1>2. s.phase = "validate" /\ site = "s3" /\ s.by \in Buckets /\ s.key \in Buckets
  BY <1>1 DEF Validate, RequestOk
<1>3. PICK v \in Verdicts[now][s.by = s.key] :
        IF v.valid THEN Admit(r, s.key, v.due) ELSE Refuse(r, v.due)
  BY DEF Validate
<1>4. /\ v.valid \in BOOLEAN /\ v.due \in {"yes", "no", "either"}
      /\ v.valid => s.by = s.key /\ v.due # "no"
      /\ ~v.valid => v.due # "yes"
  <2>1. (s.by = s.key) \in BOOLEAN
    OBVIOUS
  <2> QED
    BY <1>1, <1>3, <2>1, VerdictsAgree
<1>5. CASE ~v.valid
  BY <1>3, <1>4, <1>5, RefuseMoves
<1>6. CASE v.valid
  <2>1. Admit(r, s.key, v.due) /\ v.due \in {"yes", "either"}
    BY <1>3, <1>4, <1>6
  <2>2. Own(s.key, s.by, account')
    BY <1>2, <1>4, <1>6 DEF Own
  <2> QED
    BY <1>2, <2>1, <2>2, AdmitMoves
<1> QED
  BY <1>5, <1>6

LEMMA AuthMoves ==
  ASSUME GateInv, NEW r \in Slots, AuthBearer(r) \/ AuthBasic(r)
  PROVE  MovesOn(r)
<1> DEFINE s == slot[r]
<1>1. s \in Requests /\ RequestOk(s, account, token, site)
  BY DEF GateInv, TypeOK
<1>2. s.phase \in {"bearer", "basic"} /\ site = "rest" /\ s.by \in People
  BY <1>1 DEF AuthBearer, AuthBasic, RequestOk
<1>3. UNCHANGED <<site, account, token>>
  BY DEF AuthBearer, AuthBasic
<1>4. ASSUME NEW a \in Accounts, Admit(r, a, "yes"), Own(a, s.by, account)
      PROVE  MovesOn(r)
  BY <1>2, <1>3, <1>4, AdmitMoves
<1>5. CASE AuthBearer(r)
  <2> DEFINE t == token[s.by]
  <2>1. t # None /\ t \in Tokens /\ Own(t.account, s.by, account)
    <3>1. t # None
      BY <1>1, <1>5 DEF AuthBearer, RequestOk
    <3> QED
      BY <1>2, <3>1 DEF GateInv, TypeOK, TokenOk
  <2>2. t.account \in Accounts /\ ~Free(t.account) /\ account[t.account].owner = s.by
    BY <2>1, NoneApart DEF Tokens, Own, Free
  <2>3. Due(account[t.account].owner = s.by, TRUE) = "yes"
    BY <2>2 DEF Due
  <2>4. \/ Admit(r, t.account, "yes") \/ Refuse(r, "either") \/ Refuse(r, "no")
    BY <1>5, <2>2, <2>3 DEF AuthBearer
  <2> QED
    BY <1>4, <2>1, <2>2, <2>4, RefuseMoves
<1>6. CASE AuthBasic(r)
  <2>1. PICK a \in Accounts :
          IF account[a] = [owner |-> s.by, how |-> "password"]
          THEN Admit(r, a, "yes") ELSE Refuse(r, "no")
    BY <1>6 DEF AuthBasic
  <2>2. CASE account[a] = [owner |-> s.by, how |-> "password"]
    <3>1. [owner |-> s.by, how |-> "password"] \in Users
      BY <1>2 DEF Users
    <3>2. Own(a, s.by, account)
      BY <2>2, <3>1, NoneApart DEF Own
    <3> QED
      BY <1>4, <2>1, <2>2, <3>2
  <2>3. CASE account[a] # [owner |-> s.by, how |-> "password"]
    BY <2>1, <2>3, RefuseMoves
  <2> QED
    BY <2>2, <2>3
<1> QED
  BY <1>5, <1>6

\* The steps that change neither accounts nor tokens.
LEMMA Readings ==
  ASSUME GateInv, NEW r \in Slots,
         \/ Finish(r) \/ LimitIdentity(r) \/ CallFails(r) \/ ReadSecret(r)
         \/ Validate(r) \/ LookupBucket(r) \/ ListBuckets(r) \/ FindByGitHubID(r)
         \/ AuthBearer(r) \/ AuthBasic(r) \/ GetCurrentUser(r)
  PROVE  MovesOn(r) /\ UNCHANGED <<begun, site, live, account, token>>
<1> DEFINE s == slot[r]
<1>1. s \in Requests /\ RequestOk(s, account, token, site)
  BY DEF GateInv, TypeOK
<1>2. UNCHANGED <<begun, site, live, account, token>>
  BY DEF Finish, LimitIdentity, CallFails, ReadSecret, Validate, LookupBucket,
         ListBuckets, FindByGitHubID, AuthBearer, AuthBasic, GetCurrentUser
<1>3. NothingTaken
  BY <1>2, UnchangedTakesNothing
<1>4. CASE Finish(r)
  <2>1. RequestOk(Idle, account', token', site)
    BY IdleIsRequest DEF RequestOk, Identified
  <2> QED
    BY <1>4, <2>1, IdleIsRequest DEF Finish, MovesOn
<1>5. CASE LimitIdentity(r)
  <2>1. CASE Leave(r, "dropped")
    BY <1>1, <1>2, <1>3, <1>5, <2>1, LeaveMoves DEF LimitIdentity, RequestOk, Identified
  <2>2. CASE Go(r, "handle")
    <3> DEFINE x == [s EXCEPT !.phase = "handle"]
    <3>1. /\ x.phase = "handle" /\ x.by = s.by /\ x.key = s.key /\ x.shown = s.shown
          /\ x.due = s.due
      BY <1>1 DEF Requests
    <3>2. RequestOk(x, account', token', site)
      <4> HIDE DEF x, s
      <4>1. s.phase = "limit"
        BY <1>5 DEF LimitIdentity, s
      <4> QED
        BY <1>1, <1>2, <3>1, <4>1 DEF RequestOk, Identified
    <3>3. "handle" \in Phases
      BY DEF Phases, Identified
    <3> QED
      BY <1>2, <2>2, <3>2, <3>3, GoMoves
  <2> QED
    BY <1>5, <2>1, <2>2 DEF LimitIdentity
<1>6. CASE CallFails(r)
  <2>1. CASE Leave(r, "done")
    BY <1>2, <1>3, <2>1, LeaveMoves
  <2>2. CASE s.phase = "handle" /\ Leave(r, "dropped")
    BY <1>1, <1>2, <1>3, <2>2, LeaveMoves DEF RequestOk, Identified
  <2> QED
    BY <1>6, <2>1, <2>2 DEF CallFails
<1>7. CASE ReadSecret(r)
  <2>1. s.phase = "secret"
    BY <1>7 DEF ReadSecret
  <2>2. CASE Leave(r, "refused")
    BY <1>1, <1>2, <1>3, <2>1, <2>2, LeaveMoves DEF RequestOk
  <2>3. CASE Go(r, "validate")
    <3> DEFINE x == [s EXCEPT !.phase = "validate"]
    <3>1. /\ x.phase = "validate" /\ x.by = s.by /\ x.key = s.key
          /\ x.due = s.due
      BY <1>1 DEF Requests
    <3>2. RequestOk(x, account', token', site)
      <4> HIDE DEF x, s
      <4> QED
        BY <1>1, <1>2, <2>1, <3>1 DEF RequestOk, Identified
    <3>3. "validate" \in Phases
      BY DEF Phases
    <3> QED
      BY <1>2, <2>3, <3>2, <3>3, GoMoves
  <2> QED
    BY <1>7, <2>2, <2>3 DEF ReadSecret
<1>8. CASE Validate(r)
  BY <1>1, <1>2, <1>8, ValidateMoves
<1>9. CASE LookupBucket(r) \/ ListBuckets(r)
  <2>1. site = "s3" /\ s.phase = "handle"
    BY <1>9 DEF LookupBucket, ListBuckets
  <2>2. s.due # "no" /\ s.key \in Buckets /\ Own(s.key, s.by, account)
    BY <1>1, <2>1 DEF RequestOk, Identified
  <2>3. Leave(r, "dropped") \/ Show(r, "served", s.key)
    BY <1>9 DEF LookupBucket, ListBuckets
  <2>4. CASE Leave(r, "dropped")
    BY <1>2, <1>3, <2>2, <2>4, LeaveMoves
  <2>5. CASE Show(r, "served", s.key)
    BY <1>2, <2>2, <2>5, ShowMoves
  <2> QED
    BY <2>3, <2>4, <2>5
<1>10. CASE FindByGitHubID(r)
  <2>1. s.phase = "find" /\ site = "rest" /\ s.by \in People
    BY <1>1, <1>10 DEF FindByGitHubID, RequestOk
  <2>2. CASE Go(r, "createLogin")
    <3> DEFINE x == [s EXCEPT !.phase = "createLogin"]
    <3>1. x.phase = "createLogin" /\ x.by = s.by
      BY <1>1 DEF Requests
    <3>2. RequestOk(x, account', token', site)
      <4> HIDE DEF x, s
      <4> QED
        BY <2>1, <3>1 DEF RequestOk, Identified
    <3>3. "createLogin" \in Phases
      BY DEF Phases
    <3> QED
      BY <1>2, <2>2, <3>2, <3>3, GoMoves
  <2>3. ASSUME NEW a \in Accounts, account[a] = [owner |-> s.by, how |-> "github"],
               Show(r, "issue", a)
        PROVE  MovesOn(r)
    <3>1. account[a] # None /\ account[a].owner = s.by
      <4>1. [owner |-> s.by, how |-> "github"] \in Users
        BY <2>1 DEF Users
      <4> QED
        BY <2>3, <4>1, NoneApart
    <3>2. Own(a, s.by, account')
      BY <1>2, <3>1 DEF Own
    <3> QED
      BY <2>1, <2>3, <3>2, ShowMoves
  <2> QED
    BY <1>10, <2>2, <2>3 DEF FindByGitHubID
<1>11. CASE AuthBearer(r) \/ AuthBasic(r)
  BY <1>1, <1>2, <1>11, AuthMoves
<1>12. CASE GetCurrentUser(r)
  <2>1. site = "rest" /\ s.phase = "handle" /\ Show(r, "served", s.key)
    BY <1>12 DEF GetCurrentUser
  <2>2. s.due # "no" /\ s.key \in Accounts /\ Own(s.key, s.by, account)
    BY <1>1, <2>1 DEF RequestOk, Identified
  <2> QED
    BY <1>2, <2>1, <2>2, ShowMoves
<1> QED
  BY <1>2, <1>4, <1>5, <1>6, <1>7, <1>8, <1>9, <1>10, <1>11, <1>12

\* Only names that are free are taken.
LEMMA InsertTakesNothing ==
  ASSUME GateInv, NEW name \in Accounts, NEW owner \in People,
         NEW how \in {"password", "github"},
         Free(name), Insert(name, owner, how), UNCHANGED token
  PROVE  /\ NothingTaken
         /\ account' \in [Accounts -> Users \cup {None}]
         /\ Own(name, owner, account')
<1> DEFINE user == [owner |-> owner, how |-> how]
<1>1. user \in Users /\ user # None /\ user.owner = owner
  BY NoneApart DEF Users
<1>2. account \in [Accounts -> Users \cup {None}] /\ account[name] = None
  BY DEF GateInv, TypeOK, Free
<1>3. account' = [account EXCEPT ![name] = user]
  BY DEF Insert
<1> HIDE DEF user
<1> QED
  BY <1>1, <1>2, <1>3 DEF NothingTaken, Own

\* The steps that make accounts.
LEMMA Insertions ==
  ASSUME GateInv, NEW r \in Slots,
         Register(r) \/ CreateLogin(r) \/ CreateSuffixed(r) \/ ReplyLost(r)
  PROVE  /\ MovesOn(r) /\ NothingTaken
         /\ account' \in [Accounts -> Users \cup {None}]
         /\ UNCHANGED <<begun, site, live, token>>
<1> DEFINE s == slot[r]
           Result == /\ MovesOn(r) /\ NothingTaken
                     /\ account' \in [Accounts -> Users \cup {None}]
<1>1. s \in Requests /\ RequestOk(s, account, token, site)
  BY DEF GateInv, TypeOK
<1>2. UNCHANGED <<begun, site, live, token>>
  BY DEF Register, CreateLogin, CreateSuffixed, ReplyLost
<1>3. s.by \in People /\ site = "rest"
  BY <1>1 DEF Register, CreateLogin, CreateSuffixed, ReplyLost, RequestOk
<1>4. Login[s.by] \in Accounts /\ Suffixed[s.by] \in Accounts
  BY <1>3 DEF Accounts
<1>5. ASSUME UNCHANGED account
      PROVE  NothingTaken /\ account' \in [Accounts -> Users \cup {None}]
  BY <1>2, <1>5, UnchangedTakesNothing DEF GateInv, TypeOK
<1>6. ASSUME NEW name \in Accounts, NEW how \in {"password", "github"},
             Free(name), Insert(name, s.by, how)
      PROVE  /\ NothingTaken /\ account' \in [Accounts -> Users \cup {None}]
             /\ Own(name, s.by, account')
  BY <1>2, <1>3, <1>6, InsertTakesNothing
<1>7. ASSUME NothingTaken, Leave(r, "done") PROVE MovesOn(r)
  BY <1>2, <1>7, LeaveMoves
<1>8. ASSUME NEW name \in Accounts, Free(name), Insert(name, s.by, "github"),
             Show(r, "issue", name)
      PROVE  Result
  <2>1. /\ NothingTaken /\ account' \in [Accounts -> Users \cup {None}]
        /\ Own(name, s.by, account')
    BY <1>6, <1>8
  <2> QED
    BY <1>3, <1>8, <2>1, ShowMoves
<1>9. CASE Register(r)
  <2>1. PICK name \in Accounts :
          IF Free(name) THEN Insert(name, s.by, "password") ELSE UNCHANGED account
    BY <1>9 DEF Register
  <2>2. NothingTaken /\ account' \in [Accounts -> Users \cup {None}]
    BY <1>5, <1>6, <2>1
  <2>3. Leave(r, "done")
    BY <1>9 DEF Register
  <2> QED
    BY <1>2, <1>7, <2>2, <2>3
<1>10. CASE CreateLogin(r)
  <2>1. CASE Free(Login[s.by])
    <3>1. Insert(Login[s.by], s.by, "github") /\ Show(r, "issue", Login[s.by])
      BY <1>10, <2>1 DEF CreateLogin
    <3> QED
      BY <1>2, <1>4, <1>8, <2>1, <3>1
  <2>2. CASE ~Free(Login[s.by])
    <3>1. Go(r, "createSuffixed") /\ UNCHANGED account
      BY <1>10, <2>2 DEF CreateLogin
    <3> DEFINE x == [s EXCEPT !.phase = "createSuffixed"]
    <3>2. x.phase = "createSuffixed" /\ x.by = s.by
      BY <1>1 DEF Requests
    <3>3. RequestOk(x, account', token', site)
      <4> HIDE DEF x, s
      <4> QED
        BY <1>3, <3>2 DEF RequestOk, Identified
    <3>4. "createSuffixed" \in Phases
      BY DEF Phases
    <3>5. MovesOn(r)
      BY <3>1, <3>3, <3>4, GoMoves
    <3> QED
      BY <1>2, <1>5, <3>1, <3>5
  <2> QED
    BY <2>1, <2>2
<1>11. CASE CreateSuffixed(r)
  <2>1. CASE Free(Suffixed[s.by])
    <3>1. Insert(Suffixed[s.by], s.by, "github") /\ Show(r, "issue", Suffixed[s.by])
      BY <1>11, <2>1 DEF CreateSuffixed
    <3> QED
      BY <1>2, <1>4, <1>8, <2>1, <3>1
  <2>2. CASE ~Free(Suffixed[s.by])
    <3>1. Leave(r, "done") /\ UNCHANGED account
      BY <1>11, <2>2 DEF CreateSuffixed
    <3> QED
      BY <1>2, <1>5, <1>7, <3>1
  <2> QED
    BY <2>1, <2>2
<1>12. CASE ReplyLost(r)
  <2>1. PICK name \in Accounts, how \in {"password", "github"} :
          Free(name) /\ Insert(name, s.by, how)
    <3>1. CASE \E name \in Accounts : Free(name) /\ Insert(name, s.by, "password")
      BY <3>1
    <3>2. CASE Free(Login[s.by]) /\ Insert(Login[s.by], s.by, "github")
      BY <1>4, <3>2
    <3>3. CASE Free(Suffixed[s.by]) /\ Insert(Suffixed[s.by], s.by, "github")
      BY <1>4, <3>3
    <3> QED
      BY <1>12, <3>1, <3>2, <3>3 DEF ReplyLost
  <2>2. Leave(r, "done")
    BY <1>12 DEF ReplyLost
  <2>3. NothingTaken /\ account' \in [Accounts -> Users \cup {None}]
    BY <1>6, <2>1
  <2> QED
    BY <1>2, <1>7, <2>2, <2>3
<1> QED
  BY <1>9, <1>10, <1>11, <1>12

\* The steps that give tokens, to the owner of the account.
LEMMA Issues ==
  ASSUME GateInv, NEW r \in Slots, FinishCallback(r) \/ TokenLogin(r)
  PROVE  /\ MovesOn(r) /\ NothingTaken
         /\ token' \in [People -> Tokens \cup {None}]
         /\ \A p \in People :
              token'[p] = token[p] \/ Own(token'[p].account, p, account')
         /\ UNCHANGED <<begun, site, live, account>>
<1> DEFINE s == slot[r]
<1>1. s \in Requests /\ RequestOk(s, account, token, site)
  BY DEF GateInv, TypeOK
<1>2. UNCHANGED <<begun, site, live, account>>
  BY DEF FinishCallback, TokenLogin
<1>3. ASSUME NEW a \in Accounts, s.by \in People, Own(a, s.by, account), IssueJWT(r, a)
      PROVE  /\ NothingTaken /\ token' \in [People -> Tokens \cup {None}]
             /\ \A p \in People :
                  token'[p] = token[p] \/ Own(token'[p].account, p, account')
  <2> DEFINE t == [account |-> a, exp |-> now + TokenLife]
  <2>1. t \in Tokens /\ t # None /\ t.account = a
    <3>1. now + TokenLife \in Nat
      BY NoneApart DEF GateInv, TypeOK, LimiterTypeOK
    <3> QED
      BY <3>1, NoneApart DEF Tokens
  <2>2. token' = [token EXCEPT ![s.by] = t] /\ token \in [People -> Tokens \cup {None}]
    BY <1>3 DEF IssueJWT, GateInv, TypeOK
  <2> HIDE DEF t
  <2> QED
    BY <1>2, <1>3, <2>1, <2>2 DEF NothingTaken
<1>4. CASE FinishCallback(r)
  <2>1. s.phase = "issue" /\ IssueJWT(r, s.shown) /\ Leave(r, "done")
    BY <1>4 DEF FinishCallback
  <2>2. s.by \in People /\ s.shown \in Accounts /\ Own(s.shown, s.by, account)
    BY <1>1, <2>1 DEF RequestOk
  <2> QED
    BY <1>2, <1>3, <2>1, <2>2, LeaveMoves
<1>5. CASE TokenLogin(r)
  <2>1. /\ s.phase = "handle" /\ site = "rest"
        /\ IssueJWT(r, s.key) /\ Show(r, "served", s.key)
    BY <1>5 DEF TokenLogin
  <2>2. s.by \in People /\ s.key \in Accounts /\ Own(s.key, s.by, account) /\ s.due # "no"
    BY <1>1, <2>1 DEF RequestOk, Identified
  <2> QED
    BY <1>2, <1>3, <2>1, <2>2, ShowMoves
<1> QED
  BY <1>4, <1>5
-----------------------------------------------------------------------------
LEMMA GateClock ==
  ASSUME TypeOK, [Next]_vars
  PROVE  now' <= MaxTime
<1>1. now \in Nat /\ now <= MaxTime /\ MaxTime \in Nat
  BY NoneApart DEF TypeOK, LimiterTypeOK
<1>2. now' = now \/ (now < MaxTime /\ now' = now + 1)
  <2>1. ASSUME NEW r \in Slots, Serve(r) PROVE now' = now
    <3>1. ASSUME NEW request, NEW phase, Arrive(r, request, phase) PROVE now' = now
      BY <3>1, Zenon DEF Arrive, Grant, Deny
    <3>2. CASE ArriveS3(r) \/ ArriveWithoutKey(r) \/ ArrivePublic(r) \/ ArriveProtected(r)
      BY <3>1, <3>2, Zenon DEF ArriveS3, ArriveWithoutKey, ArrivePublic, ArriveProtected
    <3>3. CASE Finish(r) \/ LimitIdentity(r)
      BY <3>3 DEF Finish, LimitIdentity, CancelWhenIdentified, Cancel, Grant, Deny,
                  limiterVars
    <3>4. CASE \/ CallFails(r) \/ ReadSecret(r) \/ Validate(r) \/ LookupBucket(r)
               \/ ListBuckets(r) \/ Register(r) \/ FindByGitHubID(r) \/ CreateLogin(r)
               \/ CreateSuffixed(r) \/ ReplyLost(r) \/ FinishCallback(r)
               \/ AuthBearer(r) \/ AuthBasic(r) \/ GetCurrentUser(r) \/ TokenLogin(r)
      BY <3>4 DEF CallFails, ReadSecret, Validate, LookupBucket, ListBuckets,
                  Register, FindByGitHubID, CreateLogin, CreateSuffixed, ReplyLost,
                  FinishCallback, AuthBearer, AuthBasic, GetCurrentUser, TokenLogin,
                  limiterVars
    <3> QED
      BY <2>1, <3>2, <3>3, <3>4 DEF Serve
  <2>2. ASSUME \/ \E b \in Buckets : DeleteBucket(b)
               \/ CleanupLimiters \/ TimePasses \/ BeginToCount \/ UNCHANGED vars
        PROVE  now' = now \/ (now < MaxTime /\ now' = now + 1)
    BY <2>2 DEF DeleteBucket, CleanupLimiters, Cleanup, TimePasses, Tick,
                BeginToCount, Mark, vars, limiterVars
  <2> QED
    BY <2>1, <2>2, Zenon DEF Next
<1> QED
  BY <1>1, <1>2

LEMMA GateInvInit == Init => GateInv
<1> SUFFICES ASSUME Init PROVE GateInv
  OBVIOUS
<1>1. LimiterTypeOK /\ now = 0
  BY LimiterInvInit DEF Init, LimiterInv, LimiterInit
<1>2. TypeOK
  BY <1>1, NoneApart, IdleIsRequest DEF Init, TypeOK
<1>3. RequestOk(Idle, account, token, site)
  BY IdleIsRequest DEF RequestOk, Identified
<1> QED
  BY <1>2, <1>3 DEF Init, GateInv, TokenOk

LEMMA GateInvStep == GateInv /\ [Next]_vars => GateInv'
<1> SUFFICES ASSUME GateInv, [Next]_vars PROVE GateInv'
  OBVIOUS
<1>1. LimiterTypeOK' /\ TypeOK
  BY GateIsLimiter, LimiterTypeStep DEF GateInv, TypeOK
<1>2. now' <= MaxTime
  BY <1>1, NoneApart, GateClock DEF TypeOK
<1>3. ASSUME UNCHANGED <<site, account, token>>
      PROVE  /\ NothingTaken /\ site' = site
             /\ account' \in [Accounts -> Users \cup {None}]
             /\ token' \in [People -> Tokens \cup {None}]
             /\ \A p \in People :
                  token'[p] = token[p] \/ Own(token'[p].account, p, account')
  BY <1>1, <1>3, UnchangedTakesNothing DEF TypeOK
<1>4. ASSUME NEW r \in Slots,
             ArriveS3(r) \/ ArriveWithoutKey(r) \/ ArrivePublic(r) \/ ArriveProtected(r)
      PROVE  GateInv'
  <2>1. /\ slot' = slot \/ MovesOn(r)
        /\ UNCHANGED <<site, live, account, token>> /\ begun' \in 0 .. MaxRequests
    BY <1>4, Arrivals
  <2> QED
    BY <1>1, <1>2, <1>3, <2>1, GateInvKept
<1>5. ASSUME NEW r \in Slots,
             \/ Finish(r) \/ LimitIdentity(r) \/ CallFails(r) \/ ReadSecret(r)
             \/ Validate(r) \/ LookupBucket(r) \/ ListBuckets(r) \/ FindByGitHubID(r)
             \/ AuthBearer(r) \/ AuthBasic(r) \/ GetCurrentUser(r)
      PROVE  GateInv'
  <2>1. MovesOn(r) /\ UNCHANGED <<begun, site, live, account, token>>
    BY <1>5, Readings
  <2> QED
    BY <1>1, <1>2, <1>3, <2>1, GateInvKept DEF TypeOK
<1>6. ASSUME NEW r \in Slots,
             Register(r) \/ CreateLogin(r) \/ CreateSuffixed(r) \/ ReplyLost(r)
      PROVE  GateInv'
  <2>1. /\ MovesOn(r) /\ NothingTaken
        /\ account' \in [Accounts -> Users \cup {None}]
        /\ UNCHANGED <<begun, site, live, token>>
    BY <1>6, Insertions
  <2> QED
    BY <1>1, <1>2, <2>1, GateInvKept DEF TypeOK
<1>7. ASSUME NEW r \in Slots, FinishCallback(r) \/ TokenLogin(r) PROVE GateInv'
  <2>1. /\ MovesOn(r) /\ NothingTaken
        /\ token' \in [People -> Tokens \cup {None}]
        /\ \A p \in People :
             token'[p] = token[p] \/ Own(token'[p].account, p, account')
        /\ UNCHANGED <<begun, site, live, account>>
    BY <1>7, Issues
  <2> QED
    BY <1>1, <1>2, <2>1, GateInvKept DEF TypeOK
<1>8. ASSUME \/ \E b \in Buckets : DeleteBucket(b)
             \/ CleanupLimiters \/ TimePasses \/ BeginToCount \/ UNCHANGED vars
      PROVE  GateInv'
  <2>1. /\ UNCHANGED <<site, account, token, slot, begun>>
        /\ live' \subseteq live
    BY <1>8 DEF DeleteBucket, CleanupLimiters, TimePasses, BeginToCount, vars, gateVars
  <2> QED
    BY <1>1, <1>2, <1>3, <2>1, GateInvKept DEF TypeOK
<1> QED
  BY <1>4, <1>5, <1>6, <1>7, <1>8, Zenon DEF Next, Serve

LEMMA GateInvariant == Spec => []GateInv
<1> QED
  BY GateInvInit, GateInvStep, PTL DEF Spec

(***************************************************************************)
(* Every variable has its type: routes, accounts and tokens that exist,    *)
(* requests in the phases of their routes, the clock within its bound.     *)
(***************************************************************************)
THEOREM GateTypeCorrect == Spec => []TypeOK
<1>1. GateInv => TypeOK
  BY DEF GateInv
<1> QED
  BY <1>1, GateInvariant, PTL

(***************************************************************************)
(* What stands before the handlers lets in exactly the requests it ought   *)
(* to, and shows each its own, for any number of buckets, people and       *)
(* requests under way.                                                     *)
(***************************************************************************)
THEOREM GateVerdictIsRight == Spec => []VerdictIsRight
<1>1. GateInv => VerdictIsRight
  <2> SUFFICES ASSUME GateInv, NEW r \in Slots
               PROVE  /\ slot[r].phase \in Identified => slot[r].due # "no"
                      /\ slot[r].phase = "refused" => slot[r].due # "yes"
                      /\ slot[r].phase = "served" => OwnerOf(slot[r].shown) = slot[r].by
    BY DEF VerdictIsRight
  <2>1. RequestOk(slot[r], account, token, site)
    BY DEF GateInv
  <2> QED
    BY <2>1, NoneApart DEF RequestOk, Own, OwnerOf
<1> QED
  BY <1>1, GateInvariant, PTL

\* The limiter keeps its invariant when the gate uses it.
LEMMA GateLimiterInvariant == Spec => []LimiterInv
<1>1. Init => LimiterInv
  BY LimiterInvInit DEF Init
<1>2. GateInv /\ LimiterInv /\ [Next]_vars => LimiterInv'
  BY GateIsLimiter, LimiterInvStep
<1> QED
  BY <1>1, <1>2, GateInvariant, PTL DEF Spec

(***************************************************************************)
(* No address and no identity is granted more than its limit in any        *)
(* stretch of time, whatever requests are under way and however late a     *)
(* reservation is given back.                                              *)
(***************************************************************************)
THEOREM GateGrantsBounded == Spec => []GrantsBounded
<1>1. LimiterInv => GrantsBounded
  BY LimiterInvImplies
<1> QED
  BY <1>1, GateLimiterInvariant, PTL

(***************************************************************************)
(* A client that was refused and comes again after Retry-After finds a     *)
(* token, unless another request of its address or identity took it.       *)
(***************************************************************************)
THEOREM GateRetryAfterHonest == Spec => []RetryAfterHonest
<1>1. LimiterInv => RetryAfterHonest
  BY LimiterInvImplies
<1> QED
  BY <1>1, GateLimiterInvariant, PTL
=============================================================================
