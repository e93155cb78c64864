------------------------ MODULE CircuitBreakerProofs ------------------------
(* Proofs about CircuitBreaker, for any callers, threshold and timeout. *)
EXTENDS CircuitBreaker, TLAPS

\* A caller in its backoff has used up an attempt, so that there is none when
\* retries are off; and the counter tells a closed circuit from the others.
BreakerInv ==
  /\ TypeOK
  /\ ClosedBelowThreshold
  /\ \A c \in Callers : pc[c] = "waiting" => attempt[c] > 0
  /\ ProbeDecidedWithoutRetries

LEMMA BreakerInvInit == Init => BreakerInv
BY ParametersAssumption
   DEF Init, BreakerInv, TypeOK, ClosedBelowThreshold,
       ProbeDecidedWithoutRetries, HalfOpenIsProbed

LEMMA BreakerInvStep == BreakerInv /\ [Next]_vars => BreakerInv'
<1> SUFFICES ASSUME BreakerInv, [Next]_vars PROVE BreakerInv'
  OBVIOUS
<1> USE ParametersAssumption
    DEF BreakerInv, TypeOK, ClosedBelowThreshold, ProbeDecidedWithoutRetries,
        HalfOpenIsProbed, InFlight, Return
<1>1. ASSUME NEW c \in Callers, Call(c) PROVE BreakerInv'
  BY <1>1 DEF Call, Allow, Admits
<1>2. ASSUME NEW c \in Callers, Succeed(c) PROVE BreakerInv'
  BY <1>2 DEF Succeed, RecordSuccess
<1>3. ASSUME NEW c \in Callers, FailAndWait(c) PROVE BreakerInv'
  BY <1>3 DEF FailAndWait
<1>4. ASSUME NEW c \in Callers, FailForGood(c) PROVE BreakerInv'
  BY <1>4 DEF FailForGood, RecordFailure
<1>5. ASSUME NEW c \in Callers, Retry(c) PROVE BreakerInv'
  BY <1>5 DEF Retry, Allow, Admits
<1>6. ASSUME NEW c \in Callers, RetryRefused(c) PROVE BreakerInv'
  BY <1>6 DEF RetryRefused, Admits
<1>7. ASSUME NEW c \in Callers, CancelWait(c) PROVE BreakerInv'
  BY <1>7 DEF CancelWait, RecordFailure
<1>8. CASE Tick
  BY <1>8 DEF Tick
<1>9. CASE HealthChanges
  BY <1>9 DEF HealthChanges
<1>10. CASE UNCHANGED vars
  BY <1>10 DEF vars
<1> QED
  BY <1>1, <1>2, <1>3, <1>4, <1>5, <1>6, <1>7, <1>8, <1>9, <1>10
     DEF Next, Finish, Resume

LEMMA BreakerInvariant == Spec => []BreakerInv
BY BreakerInvInit, BreakerInvStep, PTL DEF Spec

\* Every variable keeps its type, whatever callers and health do.
THEOREM BreakerTypeCorrect == Spec => []TypeOK
BY BreakerInvariant, PTL DEF BreakerInv

\* The circuit is closed exactly while fewer than Threshold calls in a row
\* failed, for any number of concurrent callers and any retries.
THEOREM ClosedExactlyBelowThreshold == Spec => []ClosedBelowThreshold
BY BreakerInvariant, PTL DEF BreakerInv

\* Without retries a half-open circuit is always waiting for a call under way.
THEOREM ProbesAreDecided == Spec => []ProbeDecidedWithoutRetries
BY BreakerInvariant, PTL DEF BreakerInv
=============================================================================
