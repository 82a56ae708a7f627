-------------------------- MODULE MCTransferCreation --------------------------
(***************************************************************************)
(* The instance of TransferCreation that is model-checked.                 *)
(***************************************************************************)
EXTENDS TransferCreation, TLC

CONSTANTS r1, r2, r3, k1, p1, p2

Symmetry == Permutations(Req)
==============================================================================
