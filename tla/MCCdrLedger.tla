---------------------------- MODULE MCCdrLedger ----------------------------
(* Two calls that are posted up to three times.                             *)
EXTENDS CdrLedger
=============================================================================
