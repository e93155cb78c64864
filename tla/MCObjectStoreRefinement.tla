---------------------- MODULE MCObjectStoreRefinement ----------------------
(* An instance of ObjectStoreRefinement for TLC. *)
EXTENDS ObjectStoreRefinement, TLC

\* Requests and keys are interchangeable: no definition orders them.
Symmetry == Permutations(Requests) \cup Permutations(Keys)
=============================================================================
