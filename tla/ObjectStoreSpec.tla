-------------------------- MODULE ObjectStoreSpec --------------------------
(***************************************************************************)
(* What the object API promises its clients, without chunks, documents or  *)
(* sources: each key holds at most one body; a put or a delete takes       *)
(* effect at one instant, at most once, and never after it was answered    *)
(* with an error; a read answers with a body its key held during the read, *)
(* and breaks off only when the key no longer holds that body.             *)
(***************************************************************************)
CONSTANTS Requests, Keys, None

VARIABLES
  obj,   \* [Keys -> Requests or None]: the put whose body the key holds
  req,   \* what each request was asked, None before it starts
  seen,  \* the body a read or a delete found, None before it looked
  res    \* the answer, "none" while the request is being served

vars == <<obj, req, seen, res>>

Init ==
  /\ obj = [k \in Keys |-> None]
  /\ req = [r \in Requests |-> None]
  /\ seen = [r \in Requests |-> None]
  /\ res = [r \in Requests |-> "none"]

Open(r, o) == req[r] # None /\ req[r].op = o /\ res[r] = "none"

Begin(r) ==
  /\ req[r] = None
  /\ \E o \in {"put", "delete", "get"}, k \in Keys :
       req' = [req EXCEPT ![r] = [op |-> o, key |-> k, src |-> k]]
  /\ UNCHANGED <<obj, seen, res>>

Look(r) ==
  /\ Open(r, "get") \/ Open(r, "delete")
  /\ seen[r] = None
  /\ obj[req[r].key] # None
  /\ seen' = [seen EXCEPT ![r] = obj[req[r].key]]
  /\ UNCHANGED <<obj, req, res>>

Put(r) ==
  /\ Open(r, "put")
  /\ obj' = [obj EXCEPT ![req[r].key] = r]
  /\ res' = [res EXCEPT ![r] = "ok"]
  /\ UNCHANGED <<req, seen>>

\* A delete removes the body it found or one that was put over it since.
Delete(r) ==
  /\ Open(r, "delete")
  /\ seen[r] # None
  /\ obj[req[r].key] # None
  /\ obj' = [obj EXCEPT ![req[r].key] = None]
  /\ res' = [res EXCEPT ![r] = "ok"]
  /\ UNCHANGED <<req, seen>>

Deliver(r) ==
  /\ Open(r, "get")
  /\ seen[r] # None
  /\ res' = [res EXCEPT ![r] = "ok"]
  /\ UNCHANGED <<obj, req, seen>>

\* The body a read was delivering is gone from the key.
BreakOff(r) ==
  /\ Open(r, "get")
  /\ seen[r] # None
  /\ obj[req[r].key] # seen[r]
  /\ res' = [res EXCEPT ![r] = "broken"]
  /\ UNCHANGED <<obj, req, seen>>

\* Nothing there: either at once, or what a delete found went first.
Miss(r) ==
  /\ Open(r, "get") \/ Open(r, "delete")
  /\ seen[r] = None => obj[req[r].key] = None
  /\ seen[r] # None => Open(r, "delete") /\ obj[req[r].key] # seen[r]
  /\ res' = [res EXCEPT ![r] = "absent"]
  /\ UNCHANGED <<obj, req, seen>>

Fail(r) ==
  /\ req[r] # None
  /\ res[r] = "none"
  /\ res' = [res EXCEPT ![r] = "err"]
  /\ UNCHANGED <<obj, req, seen>>

Next ==
  \E r \in Requests :
    \/ Begin(r) \/ Look(r) \/ Put(r) \/ Delete(r)
    \/ Deliver(r) \/ BreakOff(r) \/ Miss(r) \/ Fail(r)

Spec == Init /\ [][Next]_vars
=============================================================================
