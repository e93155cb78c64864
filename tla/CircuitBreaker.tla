--------------------------- MODULE CircuitBreaker ---------------------------
(***************************************************************************)
(* The resilience wrapper around one source client: calls to the source    *)
(* are retried with a backoff and guarded by a circuit breaker whose state *)
(* is shared, under a mutex, by all calls through that wrapper. Upload,    *)
(* Download, DownloadStream and Delete run the same loop (withRetry).      *)
(* A transfer or a cleanup wraps a client of its own for each source and   *)
(* calls it for one chunk after the other: one caller. The wrapper itself  *)
(* is written for any number of callers, and is checked for several.       *)
(*                                                                         *)
(* Each critical section of the breaker (Allow, RecordSuccess,             *)
(* RecordFailure) is one atomic step. The last attempt of a call and the   *)
(* record of its outcome are one step: nothing is read in between.         *)
(***************************************************************************)
EXTENDS Naturals

CONSTANTS
  Callers,    \* goroutines that call through the wrapper, again and again
  Threshold,  \* FailureThreshold
  Recovery,   \* RecoveryTimeout, in ticks
  Retries     \* the values of MaxRetries a deployment may choose

ASSUME ParametersAssumption ==
  /\ Threshold \in Nat \ {0}
  /\ Recovery \in Nat \ {0}
  /\ Retries \subseteq Nat

VARIABLES
  maxRetries,  \* MaxRetries of this wrapper
  state,       \* of the breaker
  failures,    \* its counter, capped at Threshold (it is only compared to it)
  sinceOpened, \* now - openedAt, capped at Recovery
  pc,          \* of each caller: idle, trying (call running), waiting (backoff)
  attempt,     \* attempts each caller has used up
  healthy      \* the source answers, and answers in time

vars == <<maxRetries, state, failures, sinceOpened, pc, attempt, healthy>>

TypeOK ==
  /\ maxRetries \in Retries
  /\ state \in {"closed", "open", "half-open"}
  /\ failures \in 0..Threshold
  /\ sinceOpened \in 0..Recovery
  /\ pc \in [Callers -> {"idle", "trying", "waiting"}]
  /\ attempt \in [Callers -> 0..maxRetries]
  /\ healthy \in BOOLEAN

Init ==
  /\ maxRetries \in Retries
  /\ state = "closed"
  /\ failures = 0
  /\ sinceOpened = 0
  /\ pc = [c \in Callers |-> "idle"]
  /\ attempt = [c \in Callers |-> 0]
  /\ healthy \in BOOLEAN
-----------------------------------------------------------------------------
\* The breaker.

\* Allow: an open circuit lets one caller through as the probe once the
\* recovery timeout has passed.
Admits == state = "closed" \/ (state = "open" /\ sinceOpened >= Recovery)

Allow ==
  /\ Admits
  /\ state' = IF state = "open" THEN "half-open" ELSE state
  /\ UNCHANGED <<failures, sinceOpened>>

\* Mutant: a success resets the counter but does not close the circuit.
SuccessKeepsState == failures' = 0 /\ UNCHANGED <<state, sinceOpened>>

RecordSuccess ==
  /\ failures' = 0
  /\ state' = "closed"
  /\ UNCHANGED sinceOpened

\* Mutant: the circuit opens one failure too late.
OpensPastThreshold ==
  /\ failures' = IF failures < Threshold THEN failures + 1 ELSE failures
  /\ IF failures + 1 > Threshold
     THEN state' = "open" /\ sinceOpened' = 0
     ELSE UNCHANGED <<state, sinceOpened>>

\* Mutant: the circuit opens when the counter is the threshold, not beyond.
OpensAtExactCount ==
  /\ failures' = IF failures < Threshold THEN failures + 1 ELSE failures
  /\ IF failures + 1 = Threshold
     THEN state' = "open" /\ sinceOpened' = 0
     ELSE UNCHANGED <<state, sinceOpened>>

RecordFailure ==
  /\ failures' = IF failures < Threshold THEN failures + 1 ELSE failures
  /\ IF failures + 1 >= Threshold
     THEN state' = "open" /\ sinceOpened' = 0
     ELSE UNCHANGED <<state, sinceOpened>>
-----------------------------------------------------------------------------
\* One call through the wrapper.

Return(c) ==
  /\ pc' = [pc EXCEPT ![c] = "idle"]
  /\ attempt' = [attempt EXCEPT ![c] = 0]

\* A call that is not admitted returns ErrCircuitOpen and changes nothing.
Call(c) ==
  /\ pc[c] = "idle"
  /\ Allow
  /\ pc' = [pc EXCEPT ![c] = "trying"]
  /\ UNCHANGED <<maxRetries, attempt, healthy>>

Succeed(c) ==
  /\ pc[c] = "trying"
  /\ healthy
  /\ RecordSuccess
  /\ Return(c)
  /\ UNCHANGED <<maxRetries, healthy>>

\* Mutant: one retry more than configured.
FailAndWaitOnceMore(c) ==
  /\ pc[c] = "trying"
  /\ ~healthy
  /\ attempt[c] <= maxRetries
  /\ pc' = [pc EXCEPT ![c] = "waiting"]
  /\ attempt' = [attempt EXCEPT ![c] = @ + 1]
  /\ UNCHANGED <<maxRetries, state, failures, sinceOpened, healthy>>

\* A failed attempt with retries left goes into the backoff; nothing is
\* recorded yet.
FailAndWait(c) ==
  /\ pc[c] = "trying"
  /\ ~healthy
  /\ attempt[c] < maxRetries
  /\ pc' = [pc EXCEPT ![c] = "waiting"]
  /\ attempt' = [attempt EXCEPT ![c] = @ + 1]
  /\ UNCHANGED <<maxRetries, state, failures, sinceOpened, healthy>>

\* The retries are used up, or the error is not worth a retry: a body that
\* cannot be replayed, an answer that came after the timeout.
FailForGood(c) ==
  /\ pc[c] = "trying"
  /\ ~healthy
  /\ RecordFailure
  /\ Return(c)
  /\ UNCHANGED <<maxRetries, healthy>>

\* After the backoff the breaker is asked again.
Retry(c) ==
  /\ pc[c] = "waiting"
  /\ Allow
  /\ pc' = [pc EXCEPT ![c] = "trying"]
  /\ UNCHANGED <<maxRetries, attempt, healthy>>

\* It refuses: the call returns ErrCircuitOpen, and no outcome is recorded.
RetryRefused(c) ==
  /\ pc[c] = "waiting"
  /\ ~Admits
  /\ Return(c)
  /\ UNCHANGED <<maxRetries, state, failures, sinceOpened, healthy>>

\* The request context ended during the backoff.
CancelWait(c) ==
  /\ pc[c] = "waiting"
  /\ RecordFailure
  /\ Return(c)
  /\ UNCHANGED <<maxRetries, healthy>>

Tick ==
  /\ sinceOpened < Recovery
  /\ sinceOpened' = sinceOpened + 1
  /\ UNCHANGED <<maxRetries, state, failures, pc, attempt, healthy>>

\* The source goes down or comes back.
HealthChanges ==
  /\ healthy' = ~healthy
  /\ UNCHANGED <<maxRetries, state, failures, sinceOpened, pc, attempt>>

Finish(c) == Succeed(c) \/ FailAndWait(c) \/ FailForGood(c)
Resume(c) == Retry(c) \/ RetryRefused(c) \/ CancelWait(c)

Next ==
  \/ \E c \in Callers : Call(c) \/ Finish(c) \/ Resume(c)
  \/ Tick
  \/ HealthChanges

\* Clocks advance, clients keep calling, every attempt ends (each has a
\* timeout) and every backoff ends. Nothing is assumed of the source.
Fairness ==
  /\ WF_vars(Tick)
  /\ \A c \in Callers :
       WF_vars(Call(c)) /\ WF_vars(Finish(c)) /\ WF_vars(Resume(c))

Spec == Init /\ [][Next]_vars /\ Fairness
-----------------------------------------------------------------------------
InFlight(c) == pc[c] # "idle"

\* The circuit is closed exactly as long as fewer than Threshold calls in a row
\* failed: the counter is not reset when the circuit opens, so that one failed
\* probe re-opens it.
ClosedBelowThreshold == state = "closed" <=> failures < Threshold

\* circuitbreaker.go: "one probe request is allowed (half-open). If it
\* succeeds, the circuit closes; if it fails, the circuit re-opens." So a
\* half-open circuit is waiting for a call that is still under way.
HalfOpenIsProbed == state = "half-open" => \E c \in Callers : InFlight(c)

\* What the code makes of that: without retries a probe is always decided.
ProbeDecidedWithoutRetries == maxRetries = 0 => HalfOpenIsProbed

\* Half-open with nobody to decide it: every later call is refused.
Wedged == state = "half-open" /\ \A c \in Callers : ~InFlight(c)

\* A source that is back for good is used again for good, unless retries are
\* on and the breaker refused the retry of its own probe.
RecoveredSourceReadmitted ==
  <>[]healthy => <>[](state = "closed") \/ (maxRetries > 0 /\ <>[]Wedged)
=============================================================================
