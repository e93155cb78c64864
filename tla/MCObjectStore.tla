--------------------------- MODULE MCObjectStore ---------------------------
(* Instances of ObjectStore for TLC. *)
EXTENDS ObjectStore, TLC

\* Requests and keys are interchangeable: no definition orders them.
Symmetry == Permutations(Requests) \cup Permutations(Keys)
=============================================================================
