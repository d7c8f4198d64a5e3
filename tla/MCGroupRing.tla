----------------------------- MODULE MCGroupRing -----------------------------
(* GroupRing for TLC. No definition orders or chooses among accounts, so   *)
(* they may be permuted.                                                   *)
EXTENDS GroupRing, TLC

Symmetry == Permutations(Account)

==============================================================================
