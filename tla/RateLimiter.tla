---------------------------- MODULE RateLimiter ----------------------------
(***************************************************************************)
(* The token bucket limiter: reserve, cancel and Cleanup, each under the   *)
(* limiter's mutex and so one step, for all keys of all limiters. A token  *)
(* is counted in parts of 1/Minute, as a bucket that refills Burst tokens  *)
(* a minute gains Burst such parts a second; the code counts in floating   *)
(* point and in nanoseconds.                                               *)
(***************************************************************************)
EXTENDS Integers

CONSTANTS
  Key,      \* what is limited: addresses, users, access keys
  Limiters, \* the keys of each limiter: the sets Cleanup goes over
  Burst,    \* requests per minute of each key's limiter, and its capacity
  Minute,   \* seconds in a minute
  MaxAge    \* Cleanup drops what was idle for longer: 3 * CleanupInterval

\* The code keeps an entry for 30 minutes.
ASSUME LimiterAssumption ==
  /\ Limiters \subseteq SUBSET Key
  /\ Burst \in [Key -> Nat \ {0}]
  /\ Minute \in Nat \ {0}
  /\ MaxAge \in Nat /\ MaxAge >= Minute

VARIABLES
  now,      \* the clock, in seconds
  held,     \* keys with an entry in `buckets`
  tokens,   \* tokens, in parts of a token, and
  last,     \* lastTime of the entry
  mark,     \* history: when an observer began to count
  used,     \* history: grants since then, less what was cancelled
  promised  \* history: when a refused client may come again, 0 if nobody waits

entries == <<held, tokens, last>>
limiterVars == <<now, entries, mark, used, promised>>

Lower(a, b) == IF a <= b THEN a ELSE b

Full(k) == Burst[k] * Minute

\* What is in the bucket of a key now; a missing entry is a full one.
Refilled(k) ==
  IF k \in held THEN Lower(Full(k), tokens[k] + Burst[k] * (now - last[k]))
                ELSE Full(k)

\* Retry-After, in whole seconds.
RetryAfter(k) == (Minute - Refilled(k) + Burst[k] - 1) \div Burst[k]

LimiterTypeOK ==
  /\ now \in Nat
  /\ held \subseteq Key
  /\ tokens \in [Key -> Nat] /\ \A k \in Key : tokens[k] <= Full(k)
  /\ last \in [Key -> Nat] /\ \A k \in Key : last[k] <= now
  /\ mark \in Nat /\ mark <= now
  /\ used \in [Key -> Int]
  /\ promised \in [Key -> Nat]

LimiterInit ==
  /\ now = 0
  /\ held = {}
  /\ tokens = [k \in Key |-> 0] /\ last = [k \in Key |-> 0]
  /\ mark = 0 /\ used = [k \in Key |-> 0]
  /\ promised = [k \in Key |-> 0]
-----------------------------------------------------------------------------
Entry(k, left) ==
  /\ held' = held \cup {k}
  /\ tokens' = [tokens EXCEPT ![k] = left]
  /\ last' = [last EXCEPT ![k] = now]

\* reserve: a token is there.
Grant(k) ==
  /\ Refilled(k) >= Minute
  /\ Entry(k, Refilled(k) - Minute)
  /\ used' = [used EXCEPT ![k] = @ + 1]
  /\ promised' = [promised EXCEPT ![k] = 0]
  /\ UNCHANGED <<now, mark>>

\* Mutant: a refused request loses what refilled since the last one.
DenyForgetful(k) ==
  /\ Refilled(k) < Minute
  /\ Entry(k, tokens[k])
  /\ promised' = [promised EXCEPT ![k] =
                    IF @ = 0 THEN now + RetryAfter(k) ELSE @]
  /\ UNCHANGED <<now, mark, used>>

\* reserve: none is; the first client that waits is the first to come again.
Deny(k) ==
  /\ Refilled(k) < Minute
  /\ Entry(k, Refilled(k))
  /\ promised' = [promised EXCEPT ![k] =
                    IF @ = 0 THEN now + RetryAfter(k) ELSE @]
  /\ UNCHANGED <<now, mark, used>>

\* Mutant: what is given back is not held to the capacity.
CancelUncapped(k) ==
  /\ tokens' = IF k \in held THEN [tokens EXCEPT ![k] = @ + Minute] ELSE tokens
  /\ used' = [used EXCEPT ![k] = @ - 1]
  /\ UNCHANGED <<now, held, last, mark, promised>>

\* cancel: of an entry that Cleanup dropped meanwhile there is nothing to do.
Cancel(k) ==
  /\ tokens' = IF k \in held
               THEN [tokens EXCEPT ![k] = Lower(Full(k), @ + Minute)]
               ELSE tokens
  /\ used' = [used EXCEPT ![k] = @ - 1]
  /\ UNCHANGED <<now, held, last, mark, promised>>

\* Mutant: what was not used this very moment is dropped.
CleanupIdle(keys) ==
  /\ held' = held \ {k \in keys : last[k] < now}
  /\ UNCHANGED <<now, tokens, last, mark, used, promised>>

\* What was idle for longer than MaxAge is dropped.
Cleanup(keys) ==
  /\ held' = held \ {k \in keys : last[k] < now - MaxAge}
  /\ UNCHANGED <<now, tokens, last, mark, used, promised>>

Tick ==
  /\ now' = now + 1
  /\ UNCHANGED <<entries, mark, used, promised>>

\* An observer begins to count.
Mark ==
  /\ mark' = now
  /\ used' = [k \in Key |-> 0]
  /\ UNCHANGED <<now, entries, promised>>

LimiterNext ==
  \/ \E k \in Key : Grant(k) \/ Deny(k) \/ Cancel(k)
  \/ \E keys \in Limiters : Cleanup(keys)
  \/ Tick \/ Mark

LimiterSpec == LimiterInit /\ [][LimiterNext]_limiterVars
-----------------------------------------------------------------------------
(***************************************************************************)
(* In any stretch of time a key is granted no more than its capacity and   *)
(* what refilled meanwhile, less the reservations that were cancelled:     *)
(* neither Cleanup, which forgets the bucket, nor a cancel that comes long *)
(* after its reservation, or after Cleanup, gives a client more.           *)
(***************************************************************************)
GrantsBounded ==
  \A k \in Key : used[k] * Minute <= Full(k) + Burst[k] * (now - mark)

(***************************************************************************)
(* A client that was refused and waits as long as Retry-After tells it     *)
(* finds a token, unless another one of the same key took it first.        *)
(***************************************************************************)
RetryAfterHonest ==
  \A k \in Key : promised[k] # 0 /\ promised[k] <= now => Refilled(k) >= Minute
=============================================================================
