--------------------------- MODULE MCAuthSessions ---------------------------
(* An instance of AuthSessions for TLC.                                     *)
EXTENDS AuthSessions, TLC

Symmetry == Permutations(Requests)
=============================================================================
