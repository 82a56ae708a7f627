--------------------------- MODULE MCWebhookOutbox ---------------------------
(***************************************************************************)
(* The instance of WebhookOutbox that is model-checked.                    *)
(***************************************************************************)
EXTENDS WebhookOutbox

CONSTANTS e1, e2, v1, v2, w1, w2
==============================================================================
