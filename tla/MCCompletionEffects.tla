------------------------- MODULE MCCompletionEffects -------------------------
(***************************************************************************)
(* Constants of the model-checking runs of CompletionEffects.              *)
(***************************************************************************)
EXTENDS CompletionEffects

CONSTANTS t1, t2, k1, k2
==============================================================================
