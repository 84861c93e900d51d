-------------------------- MODULE CallCenter_proofs --------------------------
(***************************************************************************)
(* Proofs about CallCenter for any queues, agents, requests and faults:    *)
(* the rows of FusionPBX agree among themselves at every commit, a         *)
(* reconcile that nothing interrupts leaves what is wanted, types, and a   *)
(* resync restores what mod_callcenter knows.                              *)
(*                                                                         *)
(* The argument: a reconcile ensures only what is wanted, and nothing      *)
(* wanted is without members (Asked); no client call touches the tiers of  *)
(* another queue, so a queue that was ensured stays as it is wanted while  *)
(* the others are ensured and the unwanted ones are deleted (Progress).    *)
(* While no command is lost, whatever the tables have was told to          *)
(* mod_callcenter or is about to be (Told).                                *)
(***************************************************************************)
EXTENDS CallCenter, TLAPS

USE CallCenterAssumption

Staffed(w) == \A q \in DOMAIN w : w[q].agents # {}

(* What is ensured is wanted, and what is wanted has members.               *)
Asked ==
  /\ Staffed(wanted) /\ Staffed(before[1])
  /\ phase = "ensure" => left \subseteq DOMAIN Desired
  /\ faults \in Nat

(* A queue as it is wanted.                                                 *)
Ensured(q) ==
  /\ q \in DOMAIN queueRow
  /\ Members(q) = Desired[q].agents /\ queueRow[q] = Desired[q].strategy

Progress ==
  /\ phase = "ensure" => \A q \in DOMAIN Desired \ left : Ensured(q)
  /\ phase = "prune" => /\ \A q \in DOMAIN Desired : Ensured(q)
                        /\ DOMAIN queueRow = DOMAIN Desired \cup left
                        /\ left \cap DOMAIN Desired = {}

Inv == RowsAgree /\ Asked /\ Progress

-----------------------------------------------------------------------------
(* Tables.                                                                  *)

LEMMA PutDomain ==
  ASSUME NEW f, NEW k, NEW v
  PROVE  /\ DOMAIN Put(f, k, v) = DOMAIN f \cup {k} /\ Put(f, k, v)[k] = v
         /\ \A x \in DOMAIN f \ {k} : Put(f, k, v)[x] = f[x]
  BY DEF Put

LEMMA DropDomain ==
  ASSUME NEW f, NEW ks
  PROVE  DOMAIN Drop(f, ks) = DOMAIN f \ ks /\ \A x \in DOMAIN f \ ks : Drop(f, ks)[x] = f[x]
  BY DEF Drop

(* Agents go exactly when their last tier goes.                             *)
LEMMA RemovedLeaves ==
  ASSUME RowsAgree, NEW gone \in SUBSET tierRow
  PROVE  DOMAIN Drop(agentRow, Removed(gone)) = {t[2] : t \in tierRow \ gone}
<1> DEFINE Keep == {t[2] : t \in tierRow \ gone}
           Gone == {t[2] : t \in gone}
<1>1. DOMAIN agentRow = Keep \cup Gone
  BY DEF RowsAgree
<1>2. Removed(gone) = Gone \ Keep
  BY DEF Removed, Orphaned
<1>3. DOMAIN Drop(agentRow, Removed(gone)) = DOMAIN agentRow \ Removed(gone)
  BY DropDomain
<1> HIDE DEF Keep, Gone
<1>4. DOMAIN Drop(agentRow, Removed(gone)) = Keep
  BY <1>1, <1>2, <1>3
<1> QED
  BY <1>4 DEF Keep

LEMMA InitInv == Init => Inv
<1> SUFFICES ASSUME Init PROVE Inv
  OBVIOUS
<1>1. DOMAIN wanted = {} /\ DOMAIN before[1] = {} /\ DOMAIN queueRow = {} /\ DOMAIN agentRow = {}
  BY DEF Init
<1> QED
  BY <1>1 DEF Init, Inv, RowsAgree, Asked, Staffed, Progress

-----------------------------------------------------------------------------
(* The client's calls.                                                      *)

(* What ensure_queue drops, keeps and joins, and what it makes of the rows, *)
(* its uuids left open.                                                     *)
Over(q) == TiersOver(q, Desired[q].agents)
Kept(q) == Drop(agentRow, Removed(Over(q)))
Joining(q) == Desired[q].agents \ Members(q)

LEMMA EnsureRows ==
  ASSUME NEW q \in Queues, EnsureQueue(q)
  PROVE  /\ queueRow' = Put(queueRow, q, Desired[q].strategy)
         /\ DOMAIN agentRow' = DOMAIN Kept(q) \cup Desired[q].agents
         /\ \A x \in DOMAIN Kept(q) : agentRow'[x] = Kept(q)[x]
         /\ tierRow' = (tierRow \ Over(q)) \cup {<<q, x, agentRow'[x]>> : x \in Joining(q)}
         /\ dialplan' = dialplan \cup {q}
<1> DEFINE added   == Desired[q].agents \ DOMAIN Kept(q)
           uuid(x) == IF x \in added THEN <<x, lastUuid + 1>> ELSE Kept(q)[x]
<1>1. /\ queueRow' = Put(queueRow, q, Desired[q].strategy)
      /\ agentRow' = [x \in DOMAIN Kept(q) \cup added |-> uuid(x)]
      /\ tierRow' = (tierRow \ Over(q)) \cup {<<q, x, uuid(x)>> : x \in Joining(q)}
      /\ dialplan' = dialplan \cup {q}
  BY Zenon DEF EnsureQueue, Kept, Over, Joining
<1> HIDE DEF uuid
<1>2. DOMAIN agentRow' = DOMAIN Kept(q) \cup Desired[q].agents
  BY <1>1
<1>3. \A x \in Joining(q) : uuid(x) = agentRow'[x]
  BY <1>1 DEF Joining
<1>4. \A x \in DOMAIN Kept(q) : agentRow'[x] = Kept(q)[x]
  BY <1>1 DEF uuid
<1>5. tierRow' = (tierRow \ Over(q)) \cup {<<q, x, agentRow'[x]>> : x \in Joining(q)}
  <2> DEFINE given == {<<q, x, uuid(x)>> : x \in Joining(q)}
             taken == {<<q, x, agentRow'[x]>> : x \in Joining(q)}
  <2>1. tierRow' = (tierRow \ Over(q)) \cup given
    BY <1>1
  <2>2. given = taken
    BY <1>3
  <2> HIDE DEF given, taken
  <2>3. tierRow' = (tierRow \ Over(q)) \cup taken
    BY <2>1, <2>2
  <2> QED
    BY <2>3 DEF taken
<1>6. queueRow' = Put(queueRow, q, Desired[q].strategy) /\ dialplan' = dialplan \cup {q}
  BY <1>1
<1> QED
  BY <1>2, <1>4, <1>5, <1>6, Zenon

LEMMA EnsureAgrees ==
  ASSUME Inv, NEW q \in Queues, EnsureQueue(q)
  PROVE  RowsAgree' /\ Ensured(q)' /\ \A x \in DOMAIN queueRow \ {q} : Ensured(x) => Ensured(x)'
<1> DEFINE over    == Over(q)
           agents0 == Kept(q)
           joining == Joining(q)
           joined  == {<<q, x, agentRow'[x]>> : x \in joining}
<1>1. /\ queueRow' = Put(queueRow, q, Desired[q].strategy)
      /\ DOMAIN agentRow' = DOMAIN agents0 \cup Desired[q].agents
      /\ \A x \in DOMAIN agents0 : agentRow'[x] = agents0[x]
      /\ tierRow' = (tierRow \ over) \cup joined
      /\ dialplan' = dialplan \cup {q}
  BY EnsureRows
<1>2. over \in SUBSET tierRow /\ \A t \in tierRow : t \in over <=> t[1] = q /\ t[2] \notin Desired[q].agents
  BY DEF Over, TiersOver, TiersOf
<1>3. DOMAIN agents0 = {t[2] : t \in tierRow \ over} /\ \A x \in DOMAIN agents0 : agents0[x] = agentRow[x]
  <2>0. agents0 = Drop(agentRow, Removed(over))
    BY DEF Kept
  <2> HIDE DEF over, agents0
  <2>1. RowsAgree
    BY DEF Inv
  <2>2. DOMAIN agents0 = {t[2] : t \in tierRow \ over}
    BY <1>2, <2>0, <2>1, RemovedLeaves
  <2>3. \A x \in DOMAIN agents0 : agents0[x] = agentRow[x]
    <3>1. DOMAIN agents0 = DOMAIN agentRow \ Removed(over)
      BY <2>0, DropDomain
    <3> QED
      BY <2>0, <3>1 DEF Drop
  <2> QED
    BY <2>2, <2>3
<1>4. q \in DOMAIN Desired /\ Desired[q].agents # {} /\ UNCHANGED <<wanted, active>>
  <2>1. q \in left /\ phase = "ensure" /\ UNCHANGED <<wanted, active>>
    BY DEF EnsureQueue, desire
  <2>2. q \in DOMAIN Desired
    BY <2>1 DEF Inv, Asked
  <2>3. \A x \in DOMAIN Desired : Desired[x].agents # {}
    BY DEF Inv, Asked, Staffed, Desired
  <2> QED
    BY <2>1, <2>2, <2>3
<1>5. Desired' = Desired
  BY <1>4 DEF Desired
<1>6. \A t \in joined : t[1] = q /\ t[2] \in joining /\ t[3] = agentRow'[t[2]]
  OBVIOUS
<1>7. \A x \in joining : <<q, x, agentRow'[x]>> \in joined
  OBVIOUS
<1> HIDE DEF joined
<1>8. \A x : x \in Members(q) <=> \E t \in tierRow : t[1] = q /\ t[2] = x
  BY DEF Members, TiersOf
<1>9. \A x : x \in Members(q)' <=> x \in Desired[q].agents
  <2>1. \A x : x \in Members(q)' <=> \E t \in tierRow' : t[1] = q /\ t[2] = x
    BY DEF Members, TiersOf
  <2>2. ASSUME NEW x, x \in Members(q)' PROVE x \in Desired[q].agents
    BY <1>1, <1>2, <1>6, <2>1, <2>2 DEF Joining
  <2>3. ASSUME NEW x, x \in Desired[q].agents PROVE x \in Members(q)'
    <3>1. CASE x \in Members(q)
      BY <1>1, <1>2, <1>8, <2>1, <2>3, <3>1
    <3>2. CASE x \notin Members(q)
      <4>1. <<q, x, agentRow'[x]>> \in tierRow'
        BY <1>1, <1>7, <2>3, <3>2 DEF Joining
      <4> QED
        BY <2>1, <4>1
    <3> QED
      BY <3>1, <3>2
  <2> QED
    BY <2>2, <2>3
<1>10. DOMAIN queueRow' = DOMAIN queueRow \cup {q} /\ queueRow'[q] = Desired[q].strategy
       /\ \A x \in DOMAIN queueRow \ {q} : queueRow'[x] = queueRow[x]
  <2>1. queueRow' = Put(queueRow, q, Desired[q].strategy)
    BY <1>1
  <2> QED
    BY <2>1 DEF Put
<1>11. Ensured(q)'
  BY <1>5, <1>9, <1>10 DEF Ensured
<1>12. ASSUME NEW x \in DOMAIN queueRow \ {q}, Ensured(x) PROVE Ensured(x)'
  <2>1. \A t : t \in TiersOf(x)' <=> t \in TiersOf(x)
    BY <1>1, <1>2, <1>6 DEF TiersOf
  <2>2. Members(x)' = Members(x)
    <3>1. TiersOf(x)' = TiersOf(x)
      BY <2>1
    <3> QED
      BY <3>1 DEF Members
  <2> QED
    BY <2>2, <1>5, <1>10, <1>12 DEF Ensured
<1>13. \A x : x \in DOMAIN agents0 <=> \E t \in tierRow \ over : t[2] = x
  BY <1>3
<1> HIDE DEF over, agents0
<1>14. \A t \in tierRow' : t[1] \in DOMAIN queueRow' /\ t[2] \in DOMAIN agentRow'
                           /\ agentRow'[t[2]] = t[3]
  <2> SUFFICES ASSUME NEW t \in tierRow'
               PROVE  t[1] \in DOMAIN queueRow' /\ t[2] \in DOMAIN agentRow' /\ agentRow'[t[2]] = t[3]
    OBVIOUS
  <2>1. CASE t \in joined
    BY <2>1, <1>1, <1>6, <1>10 DEF Joining
  <2>2. CASE t \in tierRow \ over
    <3>1. t[2] \in DOMAIN agents0
      BY <2>2, <1>13
    <3>2. t[1] \in DOMAIN queueRow /\ agentRow[t[2]] = t[3]
      BY <2>2 DEF Inv, RowsAgree
    <3> QED
      BY <3>1, <3>2, <1>1, <1>3, <1>10
  <2> QED
    BY <2>1, <2>2, <1>1
<1>15. DOMAIN agentRow' = {t[2] : t \in tierRow'}
  <2>1. ASSUME NEW x \in DOMAIN agentRow' PROVE \E t \in tierRow' : t[2] = x
    <3>1. CASE x \in DOMAIN agents0
      BY <3>1, <1>1, <1>13
    <3>2. CASE x \in Desired[q].agents
      BY <3>2, <1>9 DEF Members, TiersOf
    <3> QED
      BY <2>1, <3>1, <3>2, <1>1
  <2> QED
    BY <2>1, <1>14
<1>16. DOMAIN queueRow' = {t[1] : t \in tierRow'}
  <2>1. \E t \in tierRow' : t[1] = q
    BY <1>4, <1>9 DEF Members, TiersOf
  <2>2. ASSUME NEW x \in DOMAIN queueRow, x # q PROVE \E t \in tierRow' : t[1] = x
    <3>1. PICK t \in tierRow : t[1] = x
      BY <2>2 DEF Inv, RowsAgree
    <3> QED
      BY <3>1, <2>2, <1>1, <1>2
  <2> QED
    BY <2>1, <2>2, <1>10, <1>14
<1>17. dialplan' = DOMAIN queueRow'
  BY <1>1, <1>10 DEF Inv, RowsAgree
<1>18. RowsAgree'
  BY <1>14, <1>15, <1>16, <1>17 DEF RowsAgree
<1> QED
  BY <1>11, <1>12, <1>18

LEMMA EnsureQueueKeeps ==
  ASSUME Inv, NEW q \in Queues, EnsureQueue(q)
  PROVE  Inv'
<1>1. /\ phase = "ensure" /\ phase' = phase /\ left' = left \ {q}
      /\ UNCHANGED <<wanted, active, before, faults>>
  BY DEF EnsureQueue, desire
<1>2. Desired' = Desired
  BY <1>1 DEF Desired
<1>3. Asked'
  BY <1>1, <1>2 DEF Inv, Asked, Staffed
<1>4. ASSUME NEW x \in DOMAIN Desired' \ left' PROVE Ensured(x)'
  <2>1. CASE x = q
    BY <2>1, EnsureAgrees
  <2>2. CASE x # q
    <3>1. Ensured(x) /\ x \in DOMAIN queueRow
      BY <1>1, <1>2, <1>4, <2>2 DEF Inv, Progress, Ensured
    <3> QED
      BY <2>2, <3>1, EnsureAgrees
  <2> QED
    BY <2>1, <2>2
<1>5. Progress'
  BY <1>1, <1>4 DEF Progress
<1> QED
  BY <1>3, <1>5, EnsureAgrees DEF Inv

LEMMA RemoveQueueKeeps ==
  ASSUME Inv, NEW q \in Queues, RemoveQueue(q)
  PROVE  Inv'
<1> DEFINE gone == TiersOf(q)
<1>1. /\ queueRow' = Drop(queueRow, {q})
      /\ agentRow' = Drop(agentRow, Removed(gone))
      /\ tierRow' = tierRow \ gone /\ dialplan' = dialplan \ {q}
  BY DEF RemoveQueue
<1>2. /\ phase = "prune" /\ phase' = phase /\ q \in left /\ left' = left \ {q}
      /\ UNCHANGED <<wanted, active, before, faults>>
  BY DEF RemoveQueue, desire
<1>3. gone \in SUBSET tierRow /\ \A t \in tierRow : t \in gone <=> t[1] = q
  BY DEF TiersOf
<1> HIDE DEF gone
<1>4. Desired' = Desired
  BY <1>2 DEF Desired
<1>5. Asked'
  BY <1>2, <1>4 DEF Inv, Asked, Staffed
<1>6. /\ DOMAIN queueRow' = DOMAIN queueRow \ {q}
      /\ \A x \in DOMAIN queueRow \ {q} : queueRow'[x] = queueRow[x]
  BY <1>1 DEF Drop
<1>7. DOMAIN agentRow' = {t[2] : t \in tierRow'}
  BY <1>1, <1>3, RemovedLeaves DEF Inv
<1>8. \A x \in DOMAIN agentRow' : agentRow'[x] = agentRow[x]
  <2>1. DOMAIN agentRow' = DOMAIN agentRow \ Removed(gone)
    BY <1>1, DropDomain
  <2> QED
    BY <1>1, <2>1 DEF Drop
<1>9. RowsAgree'
  <2>1. \A t \in tierRow' : t[1] \in DOMAIN queueRow' /\ t[2] \in DOMAIN agentRow'
                            /\ agentRow'[t[2]] = t[3]
    BY <1>1, <1>3, <1>6, <1>7, <1>8 DEF Inv, RowsAgree
  <2>2. ASSUME NEW x \in DOMAIN queueRow' PROVE \E t \in tierRow' : t[1] = x
    <3>1. PICK t \in tierRow : t[1] = x
      BY <1>6, <2>2 DEF Inv, RowsAgree
    <3> QED
      BY <3>1, <2>2, <1>1, <1>3, <1>6
  <2>3. DOMAIN queueRow' = {t[1] : t \in tierRow'}
    BY <2>1, <2>2
  <2>4. dialplan' = DOMAIN queueRow'
    BY <1>1, <1>6 DEF Inv, RowsAgree
  <2> QED
    BY <2>1, <2>3, <2>4, <1>7 DEF RowsAgree
<1>10. q \notin DOMAIN Desired
  BY <1>2 DEF Inv, Progress
<1>11. ASSUME NEW x \in DOMAIN Desired PROVE Ensured(x)'
  <2>1. x # q /\ Ensured(x)
    BY <1>2, <1>10, <1>11 DEF Inv, Progress
  <2>2. \A t : t \in TiersOf(x)' <=> t \in TiersOf(x)
    BY <1>1, <1>3, <2>1 DEF TiersOf
  <2>3. TiersOf(x)' = TiersOf(x)
    BY <2>2
  <2>4. Members(x)' = Members(x)
    BY <2>3 DEF Members
  <2> QED
    BY <2>1, <2>4, <1>4, <1>6 DEF Ensured
<1>12. Progress'
  <2>1. DOMAIN queueRow' = DOMAIN Desired' \cup left' /\ left' \cap DOMAIN Desired' = {}
    BY <1>2, <1>4, <1>6, <1>10 DEF Inv, Progress
  <2> QED
    BY <2>1, <1>2, <1>4, <1>11 DEF Progress
<1> QED
  BY <1>5, <1>9, <1>12 DEF Inv

LEMMA ListQueuesKeeps == Inv /\ ListQueues => Inv'
<1> SUFFICES ASSUME Inv, ListQueues PROVE Inv'
  OBVIOUS
<1>1. /\ phase = "ensure" /\ left = {} /\ phase' = "prune"
      /\ left' = DOMAIN queueRow \ DOMAIN Desired
      /\ UNCHANGED <<wanted, active, before, queueRow, agentRow, tierRow, dialplan, faults>>
  BY DEF ListQueues, desire, tables
<1>2. Desired' = Desired
  BY <1>1 DEF Desired
<1>3. \A q \in DOMAIN Desired : Ensured(q) /\ q \in DOMAIN queueRow
  BY <1>1 DEF Inv, Progress, Ensured
<1>4. \A q \in DOMAIN Desired : Ensured(q)'
  BY <1>1, <1>2, <1>3 DEF Ensured, Members, TiersOf
<1>5. Progress'
  BY <1>1, <1>2, <1>3, <1>4 DEF Progress
<1> QED
  BY <1>1, <1>5 DEF Inv, Asked, Staffed, RowsAgree

-----------------------------------------------------------------------------
(* The requests, the commands and the faults.                               *)

(* A request whose queues have members begins with all of them to ensure.   *)
LEMMA RequestKeeps ==
  ASSUME Inv, NEW w, NEW a, NEW r, Staffed(w), Request(w, a, r)
  PROVE  Inv'
<1>1. /\ wanted' = w /\ active' = a /\ before' = <<wanted, active>>
      /\ phase' = "ensure" /\ left' = IF a THEN DOMAIN w ELSE {}
      /\ UNCHANGED <<queueRow, agentRow, tierRow, dialplan, faults>>
  BY DEF Request, tables
<1>2. left' = DOMAIN Desired'
  BY <1>1 DEF Desired
<1>3. before'[1] = wanted
  BY <1>1
<1> QED
  BY <1>1, <1>2, <1>3 DEF Inv, Asked, Staffed, Progress, RowsAgree

LEMMA RequestsKeep ==
  ASSUME Inv, PutQueue \/ DeleteQueue \/ Suspend \/ Resume \/ ResyncDomain
  PROVE  Inv'
<1>0. Staffed(wanted)
  BY DEF Inv, Asked
<1>1. CASE PutQueue
  <2>1. PICK q \in Queues, as \in (SUBSET Agents) \ {{}}, s \in Strategies :
               Request(Put(wanted, q, [agents |-> as, strategy |-> s]), active, FALSE)
    BY <1>1 DEF PutQueue
  <2> DEFINE v == [agents |-> as, strategy |-> s]
  <2>2. v.agents # {}
    OBVIOUS
  <2> HIDE DEF v
  <2>3. Staffed(Put(wanted, q, v))
    BY <1>0, <2>2 DEF Staffed, Put
  <2> QED
    BY <2>1, <2>3, RequestKeeps DEF v
<1>2. CASE DeleteQueue
  <2>1. PICK q \in DOMAIN wanted : Request(Drop(wanted, {q}), active, FALSE)
    BY <1>2 DEF DeleteQueue
  <2>2. Staffed(Drop(wanted, {q}))
    BY <1>0 DEF Staffed, Drop
  <2> QED
    BY <2>1, <2>2, RequestKeeps
<1>3. CASE Suspend \/ Resume \/ ResyncDomain
  BY <1>0, <1>3, RequestKeeps DEF Suspend, Resume, ResyncDomain
<1> QED
  BY <1>1, <1>2, <1>3

(* What changes neither wishes nor rows nor the place in the reconcile.     *)
LEMMA AsideKeeps ==
  ASSUME Inv, UNCHANGED <<desire, tables, phase, left>>, faults' \in Nat
  PROVE  Inv'
<1>1. UNCHANGED <<wanted, active, before, queueRow, agentRow, tierRow, dialplan, phase, left>>
  BY DEF desire, tables
<1>2. Desired' = Desired
  BY <1>1 DEF Desired
<1>3. \A q : Ensured(q)' <=> Ensured(q)
  BY <1>1, <1>2 DEF Ensured, Members, TiersOf
<1> QED
  BY <1>1, <1>2, <1>3 DEF Inv, Asked, Staffed, Progress, RowsAgree

(* What ends a reconcile: nothing is left to say but that the rows agree.   *)
LEMMA EndKeeps ==
  ASSUME Inv, UNCHANGED tables, phase' \in {"idle", "resync"},
         Staffed(wanted)', Staffed(before[1])', faults' \in Nat
  PROVE  Inv'
<1>1. UNCHANGED <<queueRow, agentRow, tierRow, dialplan>>
  BY DEF tables
<1>2. phase' # "ensure" /\ phase' # "prune"
  OBVIOUS
<1> QED
  BY <1>1, <1>2 DEF Inv, Asked, Progress, RowsAgree

LEMMA NextKeeps == Inv /\ [Next]_vars => Inv'
<1> SUFFICES ASSUME Inv, [Next]_vars PROVE Inv'
  OBVIOUS
<1>0. Staffed(wanted) /\ Staffed(before[1]) /\ faults \in Nat
  BY DEF Inv, Asked
<1>1. CASE PutQueue \/ DeleteQueue \/ Suspend \/ Resume \/ ResyncDomain
  BY <1>1, RequestsKeep
<1>2. CASE \E q \in Queues : EnsureQueue(q) \/ RemoveQueue(q)
  BY <1>2, EnsureQueueKeeps, RemoveQueueKeeps
<1>3. CASE ListQueues
  BY <1>3, ListQueuesKeeps
<1>4. CASE Reconciled \/ Resynced
  <2>1. phase' \in {"idle", "resync"} /\ UNCHANGED <<wanted, before, tables, faults>>
    BY <1>4 DEF Reconciled, Resynced, desire
  <2> QED
    BY <1>0, <2>1, EndKeeps DEF Staffed
<1>5. CASE Deliver \/ LoseCommand \/ SwitchRestarts
  BY <1>0, <1>5, AsideKeeps DEF Deliver, LoseCommand, SwitchRestarts, Fault
<1>6. CASE Outage
  <2>1. phase' \in {"idle", "resync"} /\ faults' = faults + 1 /\ UNCHANGED <<wanted, before, tables>>
    BY <1>6 DEF Outage, desire
  <2> QED
    BY <1>0, <2>1, EndKeeps DEF Staffed
<1>7. CASE Die
  <2>1. phase' = "idle" /\ faults' = faults + 1 /\ wanted' = before[1] /\ UNCHANGED <<before, tables>>
    BY <1>7 DEF Die, Fault
  <2> QED
    BY <1>0, <2>1, EndKeeps DEF Staffed
<1>8. CASE Quiet \/ UNCHANGED vars
  BY <1>0, <1>8, AsideKeeps DEF Quiet, vars
<1> QED
  BY <1>1, <1>2, <1>3, <1>4, <1>5, <1>6, <1>7, <1>8 DEF Next, Work

-----------------------------------------------------------------------------
(* Whatever is interrupted, and wherever, the rows that FusionPBX keeps for *)
(* the queues of a customer agree among themselves (client.py, ensure_queue *)
(* and delete_queue).                                                       *)
THEOREM RowsStayConsistent == Spec => []RowsAgree
<1>1. Inv => RowsAgree
  BY DEF Inv
<1> QED
  BY <1>1, InitInv, NextKeeps, PTL DEF Spec

(* A reconcile that nothing interrupts leaves exactly the wanted queues,    *)
(* with exactly their agents (voice.py, the queue part of reconcile_voice). *)
THEOREM ReconcileConverges == Spec => RowsMatch
<1> DEFINE Matches == DOMAIN queueRow = DOMAIN Desired
                      /\ \A q \in DOMAIN Desired :
                           Members(q) = Desired[q].agents /\ queueRow[q] = Desired[q].strategy
           Through == phase = "prune" /\ phase' \in {"idle", "resync"} /\ faults' = faults
<1>1. ASSUME Inv, [Next]_vars, Through PROVE left = {}
  <2>1. faults' # faults + 1
    BY <1>1 DEF Inv, Asked
  <2>2. phase' # phase /\ phase' # "ensure" /\ phase' # "prune" /\ phase = "prune"
    BY <1>1
  <2>3. CASE Reconciled
    BY <2>3 DEF Reconciled
  <2>4. CASE Resynced
    BY <2>4, <2>2 DEF Resynced
  <2>5. CASE PutQueue \/ DeleteQueue \/ Suspend \/ Resume \/ ResyncDomain
    BY <2>5, <2>2 DEF PutQueue, DeleteQueue, Suspend, Resume, ResyncDomain, Request
  <2>6. CASE \E q \in Queues : EnsureQueue(q) \/ RemoveQueue(q)
    BY <2>6, <2>2 DEF EnsureQueue, RemoveQueue
  <2>7. CASE ListQueues
    BY <2>7, <2>2 DEF ListQueues
  <2>8. CASE Deliver
    BY <2>8, <2>2 DEF Deliver
  <2>9. CASE LoseCommand \/ SwitchRestarts \/ Outage \/ Die
    BY <2>9, <2>1 DEF LoseCommand, SwitchRestarts, Outage, Die, Fault
  <2>10. CASE Quiet \/ UNCHANGED vars
    BY <2>10, <2>2 DEF Quiet, vars
  <2> QED
    BY <1>1, <2>3, <2>4, <2>5, <2>6, <2>7, <2>8, <2>9, <2>10 DEF Next, Work
<1>2. ASSUME Inv, [Next]_vars, Through PROVE Matches
  BY <1>1, <1>2 DEF Inv, Progress, Ensured
<1>3. Inv /\ [Next]_vars => [Through => Matches]_vars
  BY <1>2
<1> QED
  BY <1>3, InitInv, NextKeeps, PTL DEF Spec, RowsMatch

-----------------------------------------------------------------------------
(* Types.                                                                   *)

Wishes(w) == DOMAIN w \subseteq Queues /\ \A q \in DOMAIN w : w[q] \in Want

(* The wishes a death brings back are typed like those it takes away.       *)
Remembered == Wishes(before[1]) /\ before[2] \in BOOLEAN

Typed == TypeOK /\ Remembered

DesireType == Wishes(wanted) /\ active \in BOOLEAN /\ Remembered

TableType ==
  /\ DOMAIN queueRow \subseteq Queues
  /\ \A q \in DOMAIN queueRow : queueRow[q] \in Strategies
  /\ DOMAIN agentRow \subseteq Agents
  /\ \A x \in DOMAIN agentRow : agentRow[x] \in Uuid
  /\ lastUuid \in Nat
  /\ tierRow \subseteq Queues \X Agents \X Uuid /\ dialplan \subseteq Queues

MemoryType ==
  /\ DOMAIN loaded \subseteq Queues
  /\ \A q \in DOMAIN loaded : loaded[q] \in Strategies
  /\ known \subseteq Uuid /\ tiers \subseteq Queues \X Uuid

RunType ==
  /\ phase \in {"idle", "ensure", "prune", "resync"} /\ left \subseteq Queues
  /\ requests \in 0 .. MaxRequests /\ faults \in 0 .. MaxFaults

FlagType == again \in BOOLEAN /\ intact \in BOOLEAN

CommandType == cmds \subseteq Command

LEMMA TypedParts ==
  Typed <=> DesireType /\ TableType /\ MemoryType /\ RunType /\ FlagType /\ CommandType
  BY DEF Typed, TypeOK, DesireType, Wishes, TableType, MemoryType, RunType, FlagType, CommandType

LEMMA InitTyped == Init => Typed
<1> SUFFICES ASSUME Init PROVE Typed
  OBVIOUS
<1>1. /\ DOMAIN wanted = {} /\ DOMAIN before[1] = {} /\ before[2] = TRUE
      /\ DOMAIN queueRow = {} /\ DOMAIN agentRow = {} /\ DOMAIN loaded = {}
  BY DEF Init
<1>2. DesireType /\ TableType /\ MemoryType
  BY <1>1 DEF Init, DesireType, Remembered, Wishes, TableType, MemoryType
<1>3. RunType
  BY DEF Init, RunType
<1>4. FlagType
  BY DEF Init, FlagType
<1>5. CommandType
  BY DEF Init, CommandType
<1> QED
  BY <1>2, <1>3, <1>4, <1>5, TypedParts

(* More uuids, the same ones among them.                                    *)
LEMMA UuidGrows ==
  ASSUME lastUuid \in Nat, lastUuid' \in {lastUuid, lastUuid + 1}
  PROVE  Uuid \subseteq Uuid' /\ Command \subseteq Command' /\ lastUuid' \in Nat
<1>1. 1 .. lastUuid \subseteq 1 .. lastUuid' /\ lastUuid' \in Nat
  OBVIOUS
<1>2. Uuid \subseteq Uuid'
  BY <1>1 DEF Uuid
<1> QED
  BY <1>1, <1>2 DEF Command

(* What each command is.                                                    *)
LEMMA CommandsTyped ==
  /\ \A q \in Queues, n \in 0 .. 2 : Load(q, n) \in Command /\ Unload(q) \in Command
  /\ \A u \in Uuid : AddAgent(u) \in Command
  /\ \A q \in Queues, u \in Uuid, n \in {1, 2} : AddTier(q, u, n) \in Command
  BY DEF Command, Load, Unload, AddAgent, AddTier

LEMMA DesiredTyped == DesireType => Wishes(Desired)
  BY DEF DesireType, Wishes, Desired

LEMMA EnsureTyped ==
  ASSUME Typed, Inv, NEW q \in Queues, EnsureQueue(q)
  PROVE  Typed'
<1> DEFINE added   == Desired[q].agents \ DOMAIN Kept(q)
           uuid(x) == IF x \in added THEN <<x, lastUuid + 1>> ELSE Kept(q)[x]
           reload  == q \in DOMAIN queueRow /\ (queueRow[q] # Desired[q].strategy \/ Over(q) # {})
<1>0. DesireType /\ TableType /\ MemoryType /\ RunType /\ FlagType /\ CommandType
  BY TypedParts
<1>1. /\ queueRow' = Put(queueRow, q, Desired[q].strategy)
      /\ agentRow' = [x \in DOMAIN Kept(q) \cup added |-> uuid(x)]
      /\ tierRow' = (tierRow \ Over(q)) \cup {<<q, x, uuid(x)>> : x \in Joining(q)}
      /\ dialplan' = dialplan \cup {q}
      /\ lastUuid' = IF added = {} THEN lastUuid ELSE lastUuid + 1
      /\ phase = "ensure" /\ q \in left /\ left' = left \ {q}
  BY Zenon DEF EnsureQueue, Kept, Over, Joining
<1>2. cmds' = (IF q \notin DOMAIN queueRow THEN {Load(q, 0)} ELSE {})
              \cup (IF reload THEN {Unload(q), Load(q, 2)} ELSE {})
              \cup {AddAgent(uuid(x)) : x \in added}
              \cup {AddTier(q, uuid(x), 1) : x \in Joining(q)}
  BY Zenon DEF EnsureQueue, Kept, Over, Joining
<1>3. UNCHANGED <<wanted, active, before, loaded, known, tiers, phase, again, intact, requests, faults>>
  BY DEF EnsureQueue, desire, memory
<1>4. q \in DOMAIN Desired /\ Desired[q] \in Want
  BY <1>0, <1>1, DesiredTyped DEF Inv, Asked, Wishes
<1>5. Desired[q].agents \subseteq Agents /\ Desired[q].strategy \in Strategies
  BY <1>4 DEF Want
<1>6. Uuid \subseteq Uuid' /\ Command \subseteq Command' /\ lastUuid' \in Nat
  BY <1>0, <1>1, UuidGrows DEF TableType
<1>7. DOMAIN Kept(q) \subseteq DOMAIN agentRow /\ \A x \in DOMAIN Kept(q) : Kept(q)[x] = agentRow[x]
  BY DropDomain DEF Kept
<1>8. \A x \in DOMAIN Kept(q) \cup Desired[q].agents : x \in Agents /\ uuid(x) \in Uuid'
  <2>1. ASSUME NEW x \in added PROVE x \in Agents /\ <<x, lastUuid + 1>> \in Uuid'
    <3>1. lastUuid' = lastUuid + 1 /\ x \in Agents /\ lastUuid \in Nat
      BY <1>0, <1>1, <1>5, <2>1 DEF TableType
    <3>2. lastUuid + 1 \in 1 .. lastUuid'
      BY <3>1
    <3> QED
      BY <3>1, <3>2 DEF Uuid
  <2>2. ASSUME NEW x \in DOMAIN Kept(q) PROVE x \in Agents /\ Kept(q)[x] \in Uuid'
    BY <1>0, <1>6, <1>7, <2>2 DEF TableType
  <2> QED
    BY <2>1, <2>2
<1> HIDE DEF uuid
<1>9. Joining(q) \subseteq Desired[q].agents /\ added \subseteq Desired[q].agents
  BY DEF Joining
<1> HIDE DEF added, reload
<1>10. TableType'
  <2>1. DOMAIN queueRow' \subseteq Queues /\ \A p \in DOMAIN queueRow' : queueRow'[p] \in Strategies
    BY <1>0, <1>1, <1>5, PutDomain DEF TableType, Put
  <2>2. DOMAIN agentRow' \subseteq Agents /\ \A x \in DOMAIN agentRow' : agentRow'[x] \in Uuid'
    BY <1>1, <1>8, <1>9
  <2>3. ASSUME NEW t \in tierRow' PROVE t \in Queues \X Agents \X Uuid'
    <3>1. CASE t \in tierRow
      BY <1>0, <1>6, <3>1 DEF TableType
    <3>2. CASE t \in {<<q, x, uuid(x)>> : x \in Joining(q)}
      BY <1>8, <1>9, <3>2
    <3> QED
      BY <1>1, <2>3, <3>1, <3>2
  <2>4. dialplan' \subseteq Queues
    BY <1>0, <1>1 DEF TableType
  <2> QED
    BY <1>6, <2>1, <2>2, <2>3, <2>4 DEF TableType
<1>11. CommandType'
  <2>1. \A m \in cmds' :
          \/ m \in {Load(q, 0), Unload(q), Load(q, 2)}
          \/ \E x \in added : m = AddAgent(uuid(x))
          \/ \E x \in Joining(q) : m = AddTier(q, uuid(x), 1)
    BY <1>2
  <2>2. /\ {Load(q, 0), Unload(q), Load(q, 2)} \subseteq Command'
        /\ \A x \in added : AddAgent(uuid(x)) \in Command'
        /\ \A x \in Joining(q) : AddTier(q, uuid(x), 1) \in Command'
    BY <1>8, <1>9 DEF Command, Load, Unload, AddAgent, AddTier
  <2> QED
    BY <2>1, <2>2 DEF CommandType
<1>12. DesireType' /\ MemoryType' /\ RunType' /\ FlagType'
  BY <1>0, <1>1, <1>3, <1>6 DEF DesireType, Remembered, MemoryType, RunType, FlagType, Want
<1> QED
  BY <1>10, <1>11, <1>12, TypedParts, PTL

LEMMA RemoveTyped ==
  ASSUME Typed, NEW q \in Queues, RemoveQueue(q)
  PROVE  Typed'
<1>0. DesireType /\ TableType /\ MemoryType /\ RunType /\ FlagType /\ CommandType
  BY TypedParts
<1>1. /\ queueRow' = Drop(queueRow, {q})
      /\ agentRow' = Drop(agentRow, Removed(TiersOf(q)))
      /\ tierRow' \subseteq tierRow /\ dialplan' \subseteq dialplan
      /\ cmds' = {Unload(q)} /\ left' \subseteq left
      /\ UNCHANGED <<wanted, active, before, lastUuid, loaded, known, tiers,
                     phase, again, intact, requests, faults>>
  BY DEF RemoveQueue, desire, memory
<1>2. Uuid' = Uuid /\ Command' = Command
  BY <1>1 DEF Uuid, Command
<1>3. TableType'
  <2>1. DOMAIN queueRow' \subseteq Queues /\ \A p \in DOMAIN queueRow' : queueRow'[p] \in Strategies
    BY <1>0, <1>1, DropDomain DEF TableType, Drop
  <2>2. DOMAIN agentRow' \subseteq Agents /\ \A x \in DOMAIN agentRow' : agentRow'[x] \in Uuid
    BY <1>0, <1>1, DropDomain DEF TableType, Drop
  <2> QED
    BY <1>0, <1>1, <1>2, <2>1, <2>2 DEF TableType
<1>4. CommandType'
  BY <1>1, <1>2, CommandsTyped DEF CommandType
<1>5. DesireType' /\ MemoryType'
  BY <1>0, <1>1, <1>2 DEF DesireType, Remembered, MemoryType
<1>6. RunType' /\ FlagType'
  BY <1>0, <1>1 DEF RunType, FlagType
<1> QED
  BY <1>3, <1>4, <1>5, <1>6, TypedParts, PTL

(* A request leaves a wish of the right type.                               *)
LEMMA RequestTyped ==
  ASSUME Typed, NEW w, NEW a \in BOOLEAN, NEW r \in BOOLEAN, Wishes(w), Request(w, a, r)
  PROVE  Typed'
<1>0. DesireType /\ TableType /\ MemoryType /\ RunType /\ FlagType /\ CommandType
  BY TypedParts
<1>1. /\ wanted' = w /\ active' = a /\ before' = <<wanted, active>>
      /\ phase' = "ensure" /\ left' = IF a THEN DOMAIN w ELSE {}
      /\ again' = r
      /\ UNCHANGED <<queueRow, agentRow, tierRow, dialplan, lastUuid, loaded, known,
                     tiers, cmds, intact, faults>>
  BY DEF Request, tables, memory
<1>2. Uuid' = Uuid /\ Command' = Command
  BY <1>1 DEF Uuid, Command
<1>3. DesireType'
  <2>1. before'[1] = wanted /\ before'[2] = active
    BY <1>1
  <2> QED
    BY <1>0, <1>1, <2>1 DEF DesireType, Remembered, Wishes, Want
<1>4. RunType'
  <2>1. requests < MaxRequests /\ requests' = requests + 1
    BY DEF Request
  <2>2. requests' \in 0 .. MaxRequests
    BY <1>0, <2>1 DEF RunType
  <2> QED
    BY <1>0, <1>1, <2>2 DEF RunType, Wishes
<1>5. FlagType' /\ TableType' /\ MemoryType' /\ CommandType'
  BY <1>0, <1>1, <1>2 DEF FlagType, TableType, MemoryType, CommandType
<1> QED
  BY <1>3, <1>4, <1>5, TypedParts, PTL

LEMMA RequestsTyped ==
  ASSUME Typed, PutQueue \/ DeleteQueue \/ Suspend \/ Resume \/ ResyncDomain
  PROVE  Typed'
<1>0. Wishes(wanted) /\ active \in BOOLEAN
  BY TypedParts DEF DesireType
<1>1. CASE PutQueue
  <2>1. PICK q \in Queues, as \in (SUBSET Agents) \ {{}}, s \in Strategies :
               Request(Put(wanted, q, [agents |-> as, strategy |-> s]), active, FALSE)
    BY <1>1 DEF PutQueue
  <2> DEFINE v == [agents |-> as, strategy |-> s]
  <2>2. v \in Want
    BY DEF Want
  <2> HIDE DEF v
  <2>3. Wishes(Put(wanted, q, v))
    BY <1>0, <2>2 DEF Wishes, Put
  <2> QED
    BY <1>0, <2>1, <2>3, RequestTyped DEF v
<1>2. CASE DeleteQueue
  <2>1. PICK q \in DOMAIN wanted : Request(Drop(wanted, {q}), active, FALSE)
    BY <1>2 DEF DeleteQueue
  <2>2. Wishes(Drop(wanted, {q}))
    BY <1>0 DEF Wishes, Drop
  <2> QED
    BY <1>0, <2>1, <2>2, RequestTyped
<1>3. CASE Suspend \/ Resume \/ ResyncDomain
  BY <1>0, <1>3, RequestTyped DEF Suspend, Resume, ResyncDomain
<1> QED
  BY <1>1, <1>2, <1>3

LEMMA EverythingTyped ==
  ASSUME TableType
  PROVE  Everything \subseteq Command
<1>1. ASSUME NEW q \in DOMAIN queueRow PROVE Load(q, 0) \in Command
  BY <1>1, CommandsTyped DEF TableType
<1>2. ASSUME NEW x \in DOMAIN agentRow PROVE AddAgent(agentRow[x]) \in Command
  BY <1>2, CommandsTyped DEF TableType
<1>3. ASSUME NEW t \in tierRow PROVE AddTier(t[1], t[3], 2) \in Command
  <2>1. t[1] \in Queues /\ t[3] \in Uuid
    BY <1>3 DEF TableType
  <2> QED
    BY <2>1, CommandsTyped
<1> QED
  BY <1>1, <1>2, <1>3 DEF Everything

(* Where the reconcile is moves on; the rows and the memory stay.           *)
LEMMA MoveTyped ==
  ASSUME Typed, UNCHANGED <<tables, memory>>, DesireType', FlagType',
         phase' \in {"idle", "prune", "resync"}, left' \in {{}, left, DOMAIN queueRow \ DOMAIN Desired},
         cmds' \in {{}, cmds, Everything}, UNCHANGED requests,
         faults' \in 0 .. MaxFaults
  PROVE  Typed'
<1>0. TableType /\ MemoryType /\ RunType /\ CommandType
  BY TypedParts
<1>1. UNCHANGED <<queueRow, agentRow, tierRow, dialplan, lastUuid, loaded, known, tiers>>
  BY DEF tables, memory
<1>2. Uuid' = Uuid /\ Command' = Command
  BY <1>1 DEF Uuid, Command
<1>3. TableType' /\ MemoryType'
  BY <1>0, <1>1, <1>2 DEF TableType, MemoryType
<1>4. RunType'
  BY <1>0 DEF RunType, TableType
<1>5. CommandType'
  BY <1>0, <1>2, EverythingTyped DEF CommandType
<1> QED
  BY <1>3, <1>4, <1>5, TypedParts, PTL

LEMMA FaultTyped == ASSUME RunType, Fault PROVE faults' \in 0 .. MaxFaults
  BY DEF RunType, Fault

LEMMA ReconcileTyped ==
  ASSUME Typed, ListQueues \/ Reconciled \/ Resynced \/ Outage \/ Die
  PROVE  Typed'
<1>0. DesireType /\ TableType /\ MemoryType /\ RunType /\ FlagType /\ CommandType
  BY TypedParts
<1>1. UNCHANGED <<tables, memory, again, requests>>
  BY DEF ListQueues, Reconciled, Resynced, Outage, Die
<1>2. FlagType'
  BY <1>0 DEF FlagType, ListQueues, Reconciled, Resynced, Outage, Die, Fault
<1>3. DesireType'
  <2>1. CASE UNCHANGED desire
    BY <1>0, <2>1 DEF DesireType, Remembered, Wishes, Want, desire
  <2>2. CASE Die
    BY <1>0, <2>2 DEF DesireType, Remembered, Wishes, Want, Die
  <2> QED
    BY <2>1, <2>2 DEF ListQueues, Reconciled, Resynced, Outage
<1>4. faults' \in 0 .. MaxFaults
  <2>1. CASE faults' = faults
    BY <1>0, <2>1 DEF RunType
  <2>2. CASE faults < MaxFaults /\ faults' = faults + 1
    BY <1>0, <2>2 DEF RunType
  <2> QED
    BY <2>1, <2>2 DEF ListQueues, Reconciled, Resynced, Outage, Die, Fault
<1>5. CASE ListQueues
  <2>1. phase' = "prune" /\ left' = DOMAIN queueRow \ DOMAIN Desired /\ UNCHANGED cmds
    BY <1>5 DEF ListQueues
  <2> QED
    BY <2>1, <1>1, <1>2, <1>3, <1>4, MoveTyped
<1>6. CASE Reconciled \/ Resynced
  <2>1. phase' \in {"idle", "resync"} /\ UNCHANGED left /\ cmds' \in {cmds, Everything}
    BY <1>6 DEF Reconciled, Resynced
  <2> QED
    BY <2>1, <1>1, <1>2, <1>3, <1>4, MoveTyped
<1>7. CASE Outage
  <2>1. phase' \in {"idle", "resync"} /\ left' = {} /\ cmds' \in {cmds, Everything}
    BY <1>7 DEF Outage
  <2> QED
    BY <2>1, <1>1, <1>2, <1>3, <1>4, MoveTyped
<1>8. CASE Die
  <2>1. phase' = "idle" /\ left' = {} /\ cmds' = {}
    BY <1>8 DEF Die
  <2> QED
    BY <2>1, <1>1, <1>2, <1>3, <1>4, MoveTyped
<1> QED
  BY <1>5, <1>6, <1>7, <1>8

(* A command is sent, or lost, or the memory is.                            *)
LEMMA CommandStepsTyped ==
  ASSUME Typed, Deliver \/ LoseCommand \/ SwitchRestarts
  PROVE  Typed'
<1>0. DesireType /\ TableType /\ MemoryType /\ RunType /\ FlagType /\ CommandType
  BY TypedParts
<1>1. UNCHANGED <<wanted, active, before, queueRow, agentRow, tierRow, dialplan,
                 lastUuid, phase, left, again, requests>>
  BY DEF Deliver, LoseCommand, SwitchRestarts, desire, tables
<1>2. Uuid' = Uuid /\ Command' = Command
  BY <1>1 DEF Uuid, Command
<1>3. faults' \in 0 .. MaxFaults
  <2>1. CASE faults' = faults
    BY <1>0, <2>1 DEF RunType
  <2> QED
    BY <1>0, <2>1, FaultTyped DEF Deliver, LoseCommand, SwitchRestarts
<1>4. CommandType'
  BY <1>0, <1>2 DEF CommandType, Deliver, LoseCommand, SwitchRestarts
<1>5. DesireType' /\ TableType'
  BY <1>0, <1>1, <1>2 DEF DesireType, Remembered, TableType
<1>6. RunType'
  BY <1>0, <1>1, <1>3 DEF RunType
<1>7. MemoryType' /\ FlagType'
  <2>1. CASE Deliver
    <3>1. PICK m \in cmds : Accept(m)
      BY <2>1 DEF Deliver
    <3>2. m \in Command
      BY <1>0 DEF CommandType
    <3>3. CASE m.do = "unload"
      BY <1>0, <1>1, <1>2, <3>1, <3>3 DEF Accept, MemoryType, FlagType, Drop
    <3>4. CASE m.do = "load"
      <4>1. UNCHANGED <<known, tiers, intact>> /\ loaded' \in {loaded, Put(loaded, m.queue, queueRow[m.queue])}
            /\ (loaded' # loaded => m.queue \in DOMAIN queueRow)
        BY <3>1, <3>4 DEF Accept
      <4>2. DOMAIN loaded' \subseteq Queues /\ \A q \in DOMAIN loaded' : loaded'[q] \in Strategies
        BY <1>0, <4>1 DEF MemoryType, TableType, Put
      <4> QED
        BY <1>0, <1>1, <1>2, <4>1, <4>2 DEF MemoryType, FlagType
    <3>5. CASE m.do = "agent"
      <4>1. m.agent \in Uuid
        BY <3>2, <3>5 DEF Command
      <4> QED
        BY <1>0, <1>1, <1>2, <3>1, <3>5, <4>1 DEF Accept, MemoryType, FlagType
    <3>6. CASE m.do = "tier"
      <4>1. m.agent \in Uuid /\ m.queue \in Queues
        BY <3>2, <3>6 DEF Command
      <4> QED
        BY <1>0, <1>1, <1>2, <3>1, <3>6, <4>1 DEF Accept, MemoryType, FlagType
    <3> QED
      BY <3>1, <3>3, <3>4, <3>5, <3>6 DEF Accept
  <2>2. CASE LoseCommand
    BY <1>0, <1>1, <1>2, <2>2 DEF LoseCommand, Fault, memory, MemoryType, FlagType
  <2>3. CASE SwitchRestarts
    <3>1. DOMAIN loaded' = {} /\ known' = {} /\ tiers' = {} /\ intact' = FALSE
      BY <2>3 DEF SwitchRestarts, Fault
    <3> QED
      BY <1>0, <1>1, <3>1 DEF MemoryType, FlagType
  <2> QED
    BY <2>1, <2>2, <2>3
<1> QED
  BY <1>4, <1>5, <1>6, <1>7, TypedParts, PTL

LEMMA NextTyped == Typed /\ Inv /\ [Next]_vars => Typed'
<1> SUFFICES ASSUME Typed, Inv, [Next]_vars PROVE Typed'
  OBVIOUS
<1>1. CASE UNCHANGED vars
  BY <1>1 DEF vars, desire, tables, memory, Typed, TypeOK, Remembered, Wishes, Want, Uuid, Command
<1>2. CASE Quiet
  BY <1>1, <1>2 DEF Quiet
<1> QED
  BY <1>1, <1>2, EnsureTyped, RemoveTyped, RequestsTyped, ReconcileTyped, CommandStepsTyped DEF Next, Work

(* Every variable of the model has its type.                                *)
THEOREM TypeCorrect == Spec => []TypeOK
<1>1. Typed => TypeOK
  BY DEF Typed
<1> QED
  BY <1>1, InitTyped, InitInv, NextTyped, NextKeeps, PTL DEF Spec

-----------------------------------------------------------------------------
(* What mod_callcenter was told.                                            *)

Pending(kind) == {m \in cmds : m.do = kind}

QueueTold(q) == q \in DOMAIN loaded \/ \E m \in Pending("load") : m.queue = q
AgentTold(x) == agentRow[x] \in known \/ \E m \in Pending("agent") : m.agent = agentRow[x]
TierTold(t) == \/ <<t[1], t[3]>> \in tiers
               \/ \E m \in Pending("tier") : m.queue = t[1] /\ m.agent = t[3]

(* While every command arrives, what the tables have and the memory lacks   *)
(* is in a command that is still to be sent.                                *)
Told ==
  intact => /\ \A q \in DOMAIN queueRow : QueueTold(q)
            /\ \A x \in DOMAIN agentRow : AgentTold(x)
            /\ \A t \in tierRow : TierTold(t)

(* A request ends with its last command.                                    *)
Silent == phase = "idle" => cmds = {}

Informed == Told /\ Silent

LEMMA InitInformed == Init => Informed
<1> SUFFICES ASSUME Init PROVE Informed
  OBVIOUS
<1>1. DOMAIN queueRow = {} /\ DOMAIN agentRow = {} /\ tierRow = {} /\ cmds = {}
  BY DEF Init
<1> QED
  BY <1>1 DEF Informed, Told, Silent

LEMMA CommandFields ==
  /\ \A q, n : Load(q, n).do = "load" /\ Load(q, n).queue = q
  /\ \A u : AddAgent(u).do = "agent" /\ AddAgent(u).agent = u
  /\ \A q, u, n : /\ AddTier(q, u, n).do = "tier"
                  /\ AddTier(q, u, n).queue = q /\ AddTier(q, u, n).agent = u
  BY DEF Load, AddAgent, AddTier

(* A new row comes with the command that tells of it; the rows that were    *)
(* there are known already, as no command is pending.                       *)
LEMMA EnsureInforms ==
  ASSUME Informed, Inv, NEW q \in Queues, EnsureQueue(q)
  PROVE  Informed'
<1> DEFINE added   == Desired[q].agents \ DOMAIN Kept(q)
           uuid(x) == IF x \in added THEN <<x, lastUuid + 1>> ELSE Kept(q)[x]
           reload  == q \in DOMAIN queueRow /\ (queueRow[q] # Desired[q].strategy \/ Over(q) # {})
<1>1. /\ queueRow' = Put(queueRow, q, Desired[q].strategy)
      /\ agentRow' = [x \in DOMAIN Kept(q) \cup added |-> uuid(x)]
      /\ tierRow' = (tierRow \ Over(q)) \cup {<<q, x, uuid(x)>> : x \in Joining(q)}
      /\ phase = "ensure" /\ phase' = phase /\ cmds = {}
      /\ UNCHANGED <<loaded, known, tiers, intact>>
  BY Zenon DEF EnsureQueue, Kept, Over, Joining, memory
<1>2. cmds' = (IF q \notin DOMAIN queueRow THEN {Load(q, 0)} ELSE {})
              \cup (IF reload THEN {Unload(q), Load(q, 2)} ELSE {})
              \cup {AddAgent(uuid(x)) : x \in added}
              \cup {AddTier(q, uuid(x), 1) : x \in Joining(q)}
  BY Zenon DEF EnsureQueue, Kept, Over, Joining
<1>3. DOMAIN Kept(q) \subseteq DOMAIN agentRow /\ \A x \in DOMAIN Kept(q) : Kept(q)[x] = agentRow[x]
  BY DropDomain DEF Kept
<1>4. \A x \in DOMAIN Kept(q) : x \notin added /\ uuid(x) = agentRow[x]
  BY <1>3
<1> HIDE DEF uuid, added, reload
<1>5. /\ q \notin DOMAIN queueRow => Load(q, 0) \in cmds'
      /\ \A x \in added : AddAgent(uuid(x)) \in cmds'
      /\ \A x \in Joining(q) : AddTier(q, uuid(x), 1) \in cmds'
  BY <1>2
<1>6. ASSUME intact, NEW p \in DOMAIN queueRow' PROVE QueueTold(p)'
  <2>1. CASE p \in DOMAIN queueRow
    BY <1>1, <1>6, <2>1 DEF Informed, Told, QueueTold, Pending
  <2>2. CASE p = q /\ q \notin DOMAIN queueRow
    <3>1. Load(q, 0) \in cmds'
      BY <1>5, <2>2
    <3>2. QueueTold(q)'
      BY <3>1, CommandFields DEF QueueTold, Pending
    <3> QED
      BY <2>2, <3>2
  <2> QED
    <3>1. p \in DOMAIN queueRow \cup {q}
      BY <1>1, <1>6 DEF Put
    <3> QED
      BY <2>1, <2>2, <3>1
<1>7. ASSUME intact, NEW x \in DOMAIN agentRow' PROVE AgentTold(x)'
  <2>1. agentRow'[x] = uuid(x)
    BY <1>1, <1>7
  <2>2. CASE x \in DOMAIN Kept(q)
    <3>1. agentRow[x] \in known
      BY <1>1, <1>3, <1>7, <2>2 DEF Informed, Told, AgentTold, Pending
    <3> QED
      BY <1>1, <1>4, <2>1, <2>2, <3>1 DEF AgentTold
  <2>3. CASE x \in added
    <3>1. AddAgent(agentRow'[x]) \in cmds'
      BY <1>5, <2>1, <2>3
    <3> QED
      BY <3>1, CommandFields DEF AgentTold, Pending
  <2> QED
    BY <1>1, <1>7, <2>2, <2>3
<1>8. ASSUME intact, NEW t \in tierRow' PROVE TierTold(t)'
  <2>1. CASE t \in tierRow
    BY <1>1, <1>8, <2>1 DEF Informed, Told, TierTold, Pending
  <2>2. CASE t \in {<<q, x, uuid(x)>> : x \in Joining(q)}
    <3>1. PICK x \in Joining(q) : t = <<q, x, uuid(x)>>
      BY <2>2
    <3> QED
      <4>1. AddTier(q, uuid(x), 1) \in cmds' /\ t[1] = q /\ t[3] = uuid(x)
        BY <1>5, <3>1
      <4>2. AddTier(t[1], t[3], 1) \in Pending("tier")'
        BY <4>1, CommandFields DEF Pending
      <4> QED
        BY <4>2, CommandFields DEF TierTold
  <2> QED
    BY <1>1, <1>8, <2>1, <2>2
<1> QED
  BY <1>1, <1>6, <1>7, <1>8 DEF Informed, Told, Silent

LEMMA RemoveInforms ==
  ASSUME Informed, NEW q \in Queues, RemoveQueue(q)
  PROVE  Informed'
<1>1. /\ queueRow' = Drop(queueRow, {q})
      /\ agentRow' = Drop(agentRow, Removed(TiersOf(q)))
      /\ tierRow' \subseteq tierRow /\ cmds = {}
      /\ phase = "prune" /\ phase' = phase
      /\ UNCHANGED <<loaded, known, tiers, intact>>
  BY DEF RemoveQueue, memory
<1>2. /\ DOMAIN queueRow' \subseteq DOMAIN queueRow /\ DOMAIN agentRow' \subseteq DOMAIN agentRow
      /\ \A x \in DOMAIN agentRow' : agentRow'[x] = agentRow[x]
  BY <1>1 DEF Drop
<1> QED
  BY <1>1, <1>2 DEF Informed, Told, QueueTold, AgentTold, TierTold, Pending, Silent

(* resync_queues tells of every row.                                        *)
LEMMA EverythingTells ==
  ASSUME cmds' = Everything, UNCHANGED <<queueRow, agentRow, tierRow>>
  PROVE  Told'
<1>1. /\ \A q \in DOMAIN queueRow : Load(q, 0) \in cmds'
      /\ \A x \in DOMAIN agentRow : AddAgent(agentRow[x]) \in cmds'
      /\ \A t \in tierRow : AddTier(t[1], t[3], 2) \in cmds'
  BY DEF Everything
<1>2. \A q \in DOMAIN queueRow' : QueueTold(q)'
  BY <1>1, CommandFields DEF QueueTold, Pending
<1>3. \A x \in DOMAIN agentRow' : AgentTold(x)'
  BY <1>1, CommandFields DEF AgentTold, Pending
<1>4. \A t \in tierRow' : TierTold(t)'
  BY <1>1, CommandFields DEF TierTold, Pending
<1> QED
  BY <1>2, <1>3, <1>4 DEF Told

(* What is intact is known once its command is taken.  A tier finds its     *)
(* agent, whose command was due before; unloading a queue that is kept      *)
(* leaves nothing intact.                                                   *)
LEMMA DeliverInforms ==
  ASSUME Typed, Inv, Informed, Deliver
  PROVE  Informed'
<1>1. PICK m \in cmds : Due(m) /\ cmds' = cmds \ {m} /\ Accept(m)
  BY DEF Deliver
<1>2. UNCHANGED <<queueRow, agentRow, tierRow, phase>>
  BY DEF Deliver, tables
<1>3. m \in Command
  BY DEF Typed, TypeOK
<1>4. \A k : \A n \in Pending(k) : n # m => n \in Pending(k)'
  BY <1>1 DEF Pending
<1>5. Silent'
  BY <1>1, <1>2 DEF Informed, Silent
<1>6. SUFFICES ASSUME intact' PROVE Told'
  BY <1>5 DEF Informed, Told
<1>7. intact
  BY <1>1, <1>6 DEF Accept
<1>8. /\ \A q \in DOMAIN queueRow : QueueTold(q)
      /\ \A x \in DOMAIN agentRow : AgentTold(x)
      /\ \A t \in tierRow : TierTold(t)
  BY <1>7 DEF Informed, Told
<1>9. ASSUME NEW q \in DOMAIN queueRow PROVE QueueTold(q)'
  <2>1. CASE q \in DOMAIN loaded
    <3>1. CASE m.do = "unload"
      BY <1>1, <1>6, <1>9, <2>1, <3>1 DEF Accept, QueueTold, Drop
    <3>2. CASE m.do # "unload"
      BY <1>1, <2>1, <3>2 DEF Accept, QueueTold, Put
    <3> QED
      BY <3>1, <3>2
  <2>2. CASE m.do = "load" /\ m.queue = q
    BY <1>1, <1>9, <1>2, <2>2 DEF Accept, QueueTold, Put
  <2>3. CASE \E n \in Pending("load") : n.queue = q /\ n # m
    BY <1>4, <2>3 DEF QueueTold
  <2> QED
    BY <1>8, <1>9, <2>1, <2>2, <2>3 DEF QueueTold, Pending
<1>10. ASSUME NEW x \in DOMAIN agentRow PROVE AgentTold(x)'
  <2>1. CASE agentRow[x] \in known
    BY <1>1, <1>2, <2>1 DEF Accept, AgentTold
  <2>2. CASE m.do = "agent" /\ m.agent = agentRow[x]
    BY <1>1, <1>2, <2>2 DEF Accept, AgentTold
  <2>3. CASE \E n \in Pending("agent") : n.agent = agentRow[x] /\ n # m
    BY <1>2, <1>4, <2>3 DEF AgentTold
  <2> QED
    BY <1>8, <1>10, <2>1, <2>2, <2>3 DEF AgentTold, Pending
<1>11. ASSUME NEW t \in tierRow PROVE TierTold(t)'
  <2>0. t[1] \in DOMAIN queueRow /\ t[2] \in DOMAIN agentRow /\ agentRow[t[2]] = t[3]
    BY <1>11 DEF Inv, RowsAgree
  <2>1. CASE <<t[1], t[3]>> \in tiers
    <3>1. CASE m.do = "unload"
      <4>1. m.queue # t[1]
        BY <1>1, <1>6, <2>0, <3>1 DEF Accept
      <4>2. <<t[1], t[3]>>[1] = t[1]
        OBVIOUS
      <4> QED
        BY <1>1, <2>1, <3>1, <4>1, <4>2 DEF Accept, TierTold
    <3>2. CASE m.do # "unload"
      BY <1>1, <2>1, <3>2 DEF Accept, TierTold
    <3> QED
      BY <3>1, <3>2
  <2>2. CASE m.do = "tier" /\ m.queue = t[1] /\ m.agent = t[3]
    <3>1. t[3] \in known
      <4>1. ~\E n \in Pending("agent") : n.agent = t[3]
        BY <1>1, <2>2 DEF Due, Pending
      <4> QED
        BY <1>8, <2>0, <4>1 DEF AgentTold
    <3> QED
      BY <1>1, <2>2, <3>1 DEF Accept, TierTold
  <2>3. CASE \E n \in Pending("tier") : n.queue = t[1] /\ n.agent = t[3] /\ n # m
    BY <1>4, <2>3 DEF TierTold
  <2> QED
    BY <1>8, <1>11, <2>1, <2>2, <2>3 DEF TierTold, Pending
<1> QED
  BY <1>2, <1>9, <1>10, <1>11 DEF Told

(* The rows, the memory and the commands stay.                              *)
LEMMA QuietInforms ==
  ASSUME Informed, UNCHANGED <<queueRow, agentRow, tierRow, memory, cmds, intact>>, Silent'
  PROVE  Informed'
  BY DEF Informed, Told, QueueTold, AgentTold, TierTold, Pending, memory

LEMMA NextInforms == Typed /\ Inv /\ Informed /\ [Next]_vars => Informed'
<1> SUFFICES ASSUME Typed, Inv, Informed, [Next]_vars PROVE Informed'
  OBVIOUS
<1>1. CASE PutQueue \/ DeleteQueue \/ Suspend \/ Resume \/ ResyncDomain
  <2>1. phase' = "ensure" /\ UNCHANGED <<tables, memory, cmds, intact>>
    BY <1>1 DEF PutQueue, DeleteQueue, Suspend, Resume, ResyncDomain, Request
  <2> QED
    BY <2>1, QuietInforms DEF Silent, tables
<1>2. CASE \E q \in Queues : EnsureQueue(q) \/ RemoveQueue(q)
  BY <1>2, EnsureInforms, RemoveInforms
<1>3. CASE ListQueues \/ Resynced
  <2>1. UNCHANGED <<tables, memory, cmds, intact>> /\ cmds = {}
    BY <1>3 DEF ListQueues, Resynced
  <2> QED
    BY <2>1, QuietInforms DEF Silent, tables
<1>4. CASE Reconciled \/ Outage
  <2>1. UNCHANGED <<tables, memory>> /\ cmds = {}
    BY <1>4 DEF Reconciled, Outage
  <2>2. CASE phase' = "resync" /\ cmds' = Everything
    BY <2>1, <2>2, EverythingTells DEF Informed, Silent, tables
  <2>3. CASE UNCHANGED <<cmds, intact>>
    BY <2>1, <2>3, QuietInforms DEF Silent, tables
  <2>4. CASE intact' = FALSE /\ UNCHANGED cmds
    BY <2>1, <2>4 DEF Informed, Told, Silent
  <2> QED
    BY <1>4, <2>2, <2>3, <2>4 DEF Reconciled, Outage
<1>5. CASE Deliver
  BY <1>5, DeliverInforms
<1>6. CASE LoseCommand \/ SwitchRestarts
  <2>1. intact' = FALSE /\ UNCHANGED phase /\ cmds' \subseteq cmds
    BY <1>6 DEF LoseCommand, SwitchRestarts, Fault
  <2> QED
    BY <2>1 DEF Informed, Told, Silent
<1>7. CASE Die
  BY <1>7 DEF Die, Fault, Informed, Told, Silent
<1>8. CASE Quiet \/ UNCHANGED vars
  <2>1. UNCHANGED <<tables, memory, phase, cmds, intact>>
    BY <1>8 DEF Quiet, vars
  <2>2. Silent'
    BY <2>1 DEF Informed, Silent
  <2> QED
    BY <2>1, <2>2, QuietInforms DEF tables
<1> QED
  BY <1>1, <1>2, <1>3, <1>4, <1>5, <1>6, <1>7, <1>8 DEF Next, Work

(* After a restart of FreeSWITCH a resync whose commands all arrive, in the *)
(* order client.py sends them, leaves mod_callcenter with every queue and   *)
(* every member of the tables, and later requests keep it so.               *)
THEOREM ResyncRestores == Spec => []Restored
<1>1. Informed => Restored
  <2> SUFFICES ASSUME Informed, intact, phase = "idle"
               PROVE  /\ DOMAIN queueRow \subseteq DOMAIN loaded
                      /\ {<<t[1], t[3]>> : t \in tierRow} \subseteq tiers
    BY DEF Restored
  <2>1. \A k : Pending(k) = {}
    BY DEF Informed, Silent, Pending
  <2> QED
    BY <2>1 DEF Informed, Told, QueueTold, TierTold
<1> QED
  BY <1>1, InitTyped, InitInv, InitInformed, NextTyped, NextKeeps, NextInforms, PTL DEF Spec

=============================================================================
