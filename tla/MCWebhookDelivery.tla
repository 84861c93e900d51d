------------------------- MODULE MCWebhookDelivery -------------------------
(* Instances of WebhookDelivery for TLC.                                    *)
EXTENDS WebhookDelivery, TLC

(* No constant tells two workers, or two endpoints that can be called,      *)
(* apart.                                                                   *)
Symmetry == Permutations(Workers) \cup Permutations(Endpoints \ Poison)
=============================================================================
