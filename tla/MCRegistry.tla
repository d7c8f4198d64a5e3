------------------------------ MODULE MCRegistry ------------------------------
(* Registry for TLC.                                                       *)
EXTENDS Registry, TLC

CONSTANTS p1, p2

OneAccount == 1 :> p1

TwoAccounts == 1 :> p1 @@ 2 :> p2

==============================================================================
