--------------------------- MODULE MCRequestGate ---------------------------
(***************************************************************************)
(* Instance of RequestGate for TLC. Both people had the name "ann" at      *)
(* GitHub, one after the other.                                            *)
(***************************************************************************)
EXTENDS RequestGate, TLC

MCText == Written
MCKey == {Ip} \cup Buckets \cup Accounts
MCLimiters == {{Ip}, Buckets \cup Accounts}
MCBurst == [k \in MCKey |-> IF k = Ip THEN 2 ELSE 1]
MCLogin == [p \in People |-> "ann"]
MCSuffixed == [p \in People |-> IF p = "p" THEN "ann-1" ELSE "ann-2"]

Symmetry == Permutations(Slots) \cup Permutations(Buckets)
=============================================================================
