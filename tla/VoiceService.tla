---------------------------- MODULE VoiceService ----------------------------
(***************************************************************************)
(* What the provisioning API promises a customer, without requests,        *)
(* sessions, locks or PBX calls.                                           *)
(*                                                                         *)
(* There is one record per customer and one set of entries per PBX domain. *)
(* Whoever holds a customer may change the entries of its domain, a piece  *)
(* at a time, and nobody else's.  The holder ends in one of two ways: it   *)
(* publishes a record, which calls itself synced only when the domain      *)
(* offers exactly what the record says, or it gives up and leaves the      *)
(* record as it was.                                                       *)
(*                                                                         *)
(* Nothing is promised of the entries of a customer whose record is        *)
(* removed or whose last holder gave up, and synced means nothing for      *)
(* customers who share a domain, those not in Sole.                        *)
(***************************************************************************)
CONSTANTS Customers, Domains, Items, Sole, None

VARIABLES
  record,   \* the published record of each customer, or None
  offered,  \* the entries of each PBX domain
  held      \* the domain a customer is held for, or None

vars == <<record, offered, held>>

Record == [dom : Domains, active : BOOLEAN, items : SUBSET Items, synced : BOOLEAN]

Due(row) == IF row.active THEN row.items ELSE {}
True(row) == row.synced => offered[row.dom] = Due(row)

Init ==
  /\ record \in [Customers -> Record \cup {None}]
  /\ offered \in [Domains -> SUBSET Items]
  /\ held = [c \in Customers |-> None]
  /\ \A c \in Customers \cap Sole : record[c] # None => True(record[c])

Hold(c, d) ==
  /\ held[c] = None
  /\ record[c] # None => d = record[c].dom
  /\ held' = [held EXCEPT ![c] = d]
  /\ UNCHANGED <<record, offered>>

Serve(c) ==
  /\ held[c] # None
  /\ \E S \in SUBSET Items : offered' = [offered EXCEPT ![held[c]] = S]
  /\ UNCHANGED <<record, held>>

Let(C) ==
  /\ \A c \in C : held[c] # None
  /\ held' = [c \in Customers |-> IF c \in C THEN None ELSE held[c]]
  /\ UNCHANGED offered

Publish(C) ==
  /\ Let(C)
  /\ record' \in [Customers -> Record \cup {None}]
  /\ \A c \in Customers \ C : record'[c] = record[c]
  /\ \A c \in C : record'[c] # None => record'[c].dom = held[c] /\ (c \in Sole => True(record'[c]))

GiveUp(C) == Let(C) /\ UNCHANGED record

Next ==
  \/ \E c \in Customers : Serve(c) \/ \E d \in Domains : Hold(c, d)
  \/ \E C \in (SUBSET Customers) \ {{}} : Publish(C) \/ GiveUp(C)

Spec == Init /\ [][Next]_vars
=============================================================================
