-------------------------- MODULE MCObjectListing --------------------------
(* Instance of ObjectListing for TLC. *)
EXTENDS ObjectListing

\* No delimiter; the delimiter "/"; the prefix "b/".
AllViews ==
  {[lo |-> 1, hi |-> 5, groups |-> {}],
   [lo |-> 1, hi |-> 5, groups |-> {[from |-> 2, mark |-> 3, to |-> 4]}],
   [lo |-> 2, hi |-> 4, groups |-> {}]}
=============================================================================
