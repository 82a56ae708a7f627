--------------------------- MODULE MCDepositRequest ---------------------------
(***************************************************************************)
(* The instances of DepositRequest that are model-checked.                 *)
(***************************************************************************)
EXTENDS DepositRequest, TLC

CONSTANTS d1, d2, r1, r2

Symmetry == Permutations(Deposit) \cup Permutations(Req)
==============================================================================
