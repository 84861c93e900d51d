------------------------ MODULE MCVoiceProvisioning ------------------------
(* Instances of VoiceProvisioning for TLC.                                  *)
EXTENDS VoiceProvisioning, TLC

CONSTANTS c1, c2, d1, d2, d3, n1, n2, p1, q1

Base == [op |-> "resync", c |-> c1, dom |-> d1, items |-> {}, rec |-> FALSE]
Ask(op) == [Base EXCEPT !.op = op]
Put(items) == [Base EXCEPT !.op = "put", !.items = items]
Features(items) == [Base EXCEPT !.op = "features", !.items = items]

(* A customer with one extension and one feature, active or suspended, or  *)
(* not provisioned yet, beside another one.                                *)
Held(active) == [dom |-> d1, active |-> active, rec |-> FALSE, items |-> {n1, p1}]
Second == [Held(TRUE) EXCEPT !.dom = d3]
BesideSecond == {(c1 :> x) @@ (c2 :> Second) : x \in {Held(TRUE), Held(FALSE), NoDomain}}

(* All operations on one customer, and some on the other.                  *)
AllIntents ==
  {Put({n1}), Put({n1, n2}), [Put({n2}) EXCEPT !.rec = TRUE], [Put({}) EXCEPT !.dom = d2],
   Features({}), Features({p1, q1})}
  \cup {[Ask(op) EXCEPT !.items = {x}] : op \in {"post", "remove"}, x \in {p1, q1}}
  \cup {Ask(op) : op \in {"suspend", "resume", "deprovision", "resync", "resyncAll"}}
  \cup {[Put({n2}) EXCEPT !.c = c2, !.dom = d3], [Ask("suspend") EXCEPT !.c = c2]}

(* Edits of one customer that race when clients do not wait for each other,*)
(* with requests for a second customer and fleet-wide resyncs.             *)
RacingIntents ==
  {Put({n1, n2}), Put({}), Features({q1}), [Ask("remove") EXCEPT !.items = {p1}]}
  \cup {Ask(op) : op \in {"suspend", "resume", "deprovision", "resync", "resyncAll"}}
  \cup {[Put({n1}) EXCEPT !.c = c2, !.dom = d3], [Ask("remove") EXCEPT !.c = c2, !.items = {p1}]}
Pairs ==
  {(c1 :> x) @@ (c2 :> y) : x \in {Held(TRUE), NoDomain}, y \in {Second, NoDomain}}

(* Instances in which the code departs from what the repository says.       *)
StaleIntents == {Ask("suspend"), Ask("resync")}
OneActive == {(c1 :> Held(TRUE))}

Symmetry == Permutations(Requests)
=============================================================================
