----------------------------- MODULE MCRecords -----------------------------
(* Two clients of every table of the catalogue, or of one of them.          *)
EXTENDS Records, TLC

AllTables == Tables
OneTable == {"subscription_items"}
Interchangeable == Permutations(Clients)

=============================================================================
