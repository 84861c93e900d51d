---------------------------- MODULE CallBilling ----------------------------
(***************************************************************************)
(* What the ledger promises of a call, without posts, marks or pages of    *)
(* the feed: it is recorded, then charged once, then settled, and never    *)
(* goes back.  Recording happens call by call; a batch may be charged, or  *)
(* settled, at once.                                                       *)
(*                                                                         *)
(* Nothing is promised of a call that was recorded by two posts at once:   *)
(* it is disputed.                                                         *)
(***************************************************************************)
CONSTANT Calls

VARIABLE life

Init == life = [c \in Calls |-> "unknown"]

Advance(C, from, to) ==
  /\ \A c \in C : life[c] = from
  /\ life' = [c \in Calls |-> IF c \in C THEN to ELSE life[c]]

Record(c) == Advance({c}, "unknown", "recorded")
Charge(C) == Advance(C, "recorded", "charged")
Settle(C) == Advance(C, "charged", "settled")
Dispute(c) == life' = [life EXCEPT ![c] = "disputed"]

Next ==
  \/ \E c \in Calls : Record(c) \/ Dispute(c)
  \/ \E C \in SUBSET Calls : Charge(C) \/ Settle(C)

Spec == Init /\ [][Next]_life

=============================================================================
