------------------------- MODULE MCBucketLifecycle -------------------------
(***************************************************************************)
(* Requests start alike, and so do sources: Init and every action treat    *)
(* them uniformly.                                                         *)
(***************************************************************************)
EXTENDS BucketLifecycle, TLC

Symmetry == Permutations(Requests) \cup Permutations(Sources)
=============================================================================
