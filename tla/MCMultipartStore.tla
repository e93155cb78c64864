-------------------------- MODULE MCMultipartStore --------------------------
(* Instances of MultipartStore for TLC. *)
EXTENDS MultipartStore, TLC

\* Requests, uploads, part numbers and keys are interchangeable.
Symmetry == Permutations(Requests) \cup Permutations(Uploads)
              \cup Permutations(PartNumbers) \cup Permutations(Keys)
=============================================================================
