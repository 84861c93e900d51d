--------------------------- MODULE MCEslConsumer ---------------------------
(* An instance of EslConsumer for TLC: three workers and two events, and no *)
(* symmetry, since a liveness property is checked with the invariants.      *)
EXTENDS EslConsumer
=============================================================================
