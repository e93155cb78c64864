----------------------- MODULE ObjectStoreRefinement -----------------------
(***************************************************************************)
(* ObjectStore without CopyObject and without lost replies implements      *)
(* ObjectStoreSpec. A key holds the body of its document; a request has    *)
(* seen the body of the document it looked up; a CleanupErr is not part of *)
(* the answer.                                                             *)
(***************************************************************************)
EXTENDS ObjectStore

\* A body is named by its put; None names none.
ASSUME NoneAssumption == None \notin Requests

\* What a client can see of the state.
Held     == [k \in Keys |-> IF files[k] = None THEN None ELSE files[k].body]
Found    == [r \in Requests |-> IF snap[r] = None THEN None ELSE snap[r].body]
Answered == [r \in Requests |-> IF res[r] = "warn" THEN "ok" ELSE res[r]]

Promise == INSTANCE ObjectStoreSpec WITH
  obj <- Held, seen <- Found, res <- Answered

\* The two stores, chunk by chunk and call by call, behave as one atomic map
\* from keys to bodies: PutObject and DeleteObject take effect in their one
\* MongoDB write, GetObject delivers what it looked up or is overtaken.
ImplementsPromise == Promise!Spec
=============================================================================
