------------------------ MODULE MCProviderDispatch ------------------------
(***************************************************************************)
(* Constants of the model-checking runs of ProviderDispatch.               *)
(***************************************************************************)
EXTENDS ProviderCalm

CONSTANTS t1, w1, w2, a1, a2, g1, g2, m1
==============================================================================
