----------------------------- MODULE CallCenter -----------------------------
(***************************************************************************)
(* The call-centre queues of one customer: what the voice database wants,  *)
(* the rows FusionPBX keeps, and what mod_callcenter holds in memory.      *)
(*                                                                         *)
(*   app/services/fusionpbx/client.py   ensure_queue, delete_queue,        *)
(*                                      list_queues, resync_queues         *)
(*   app/services/reconcile/voice.py    the queue part of reconcile_voice  *)
(*   app/api/provisioning.py            resync                             *)
(*                                                                         *)
(* The rows are changed in one transaction per client call; the commands   *)
(* that tell mod_callcenter follow it, one by one, and a failure of one is *)
(* swallowed.  The customer's row lock keeps reconciles of one customer    *)
(* apart (VoiceProvisioning), so there is one caller here.                 *)
(*                                                                         *)
(* mod_callcenter is external: it knows nothing but what it was told since *)
(* FreeSWITCH started, reads a queue's strategy from the tables when it    *)
(* loads the queue, ignores a second load, and takes a tier only for an    *)
(* agent it knows.  Whether unloading a queue drops its tiers is left open.*)
(*                                                                         *)
(* Left out: dialplan contents and the caches behind reloadxml.            *)
(***************************************************************************)
EXTENDS Integers

CONSTANTS
  Queues,      \* numbers
  Agents,      \* extensions
  Strategies,
  MaxRequests, \* bound: requests of the customer
  MaxFaults    \* bound: lost commands, outages, deaths, restarts

ASSUME CallCenterAssumption ==
  /\ MaxRequests \in Nat /\ MaxFaults \in Nat
  /\ Queues # {} /\ Agents # {} /\ Strategies # {}

VARIABLES
  wanted,   \* voice_queues rows: number -> agents and strategy
  active,   \* VoiceDomain.is_active
  before,   \* both as they were before the running request
  queueRow, \* v_call_center_queues: number -> strategy
  agentRow, \* v_call_center_agents: extension -> uuid
  tierRow,  \* v_call_center_tiers: queue, extension, agent uuid
  dialplan, \* queues with a public dialplan entry
  lastUuid, \* how many times uuids were given to new agents
  loaded,   \* mod_callcenter's queues: number -> strategy
  known,    \* its agents, by uuid
  tiers,    \* its tiers: queue, agent uuid
  phase,    \* where the reconcile is
  left,     \* queues it has still to ensure or delete
  cmds,     \* commands it has still to send, each in its turn
  again,    \* the request ends with resync_queues
  intact,   \* every command since the last complete resync arrived
  requests, faults

desire == <<wanted, active, before>>
tables == <<queueRow, agentRow, tierRow, dialplan, lastUuid>>
memory == <<loaded, known, tiers>>
vars == <<desire, tables, memory, phase, left, cmds, again, intact, requests, faults>>

NoQueue == "none"
NoAgent == <<>>

Desired == IF active THEN wanted ELSE <<>>

Init ==
  /\ wanted = <<>> /\ active = TRUE /\ before = <<wanted, active>>
  /\ queueRow = <<>> /\ agentRow = <<>> /\ tierRow = {} /\ dialplan = {}
  /\ lastUuid = 0
  /\ loaded = <<>> /\ known = {} /\ tiers = {}
  /\ phase = "idle" /\ left = {} /\ cmds = {} /\ again = FALSE
  /\ intact = TRUE /\ requests = 0 /\ faults = 0

-----------------------------------------------------------------------------
(* Functions as tables: rows set, rows removed.                             *)
Put(f, k, v) == [x \in DOMAIN f \cup {k} |-> IF x = k THEN v ELSE f[x]]
Drop(f, ks) == [x \in DOMAIN f \ ks |-> f[x]]

(* A command.  Of one list, those of a lower turn are sent first, and an    *)
(* agent is added before its tiers; beyond that, the order is that of a     *)
(* payload or of a SELECT, and left open.                                   *)
Unload(q) == [do |-> "unload", queue |-> q, agent |-> NoAgent, turn |-> 0]

(* Mutant of Load: the queue is sent with the agent command.                *)
BugLoad(q, n) == [do |-> "agent", queue |-> q, agent |-> NoAgent, turn |-> n]

Load(q, n) == [do |-> "load", queue |-> q, agent |-> NoAgent, turn |-> n]

AddAgent(u) == [do |-> "agent", queue |-> NoQueue, agent |-> u, turn |-> 1]
AddTier(q, u, n) == [do |-> "tier", queue |-> q, agent |-> u, turn |-> n]

Due(m) ==
  \A n \in cmds :
    m.turn <= n.turn /\ ~(m.do = "tier" /\ n.do = "agent" /\ n.agent = m.agent)

TiersOf(q) == {t \in tierRow : t[1] = q}
Members(q) == {t[2] : t \in TiersOf(q)}

(* The agents of removed tiers that no tier of the table refers to.         *)
Orphaned(gone) == {t[2] : t \in gone} \ {t[2] : t \in tierRow \ gone}

(* Mutant of Removed: agents are removed with their first tier.             *)
BugRemoved(gone) == {t[2] : t \in gone}

(* delete tiers; then each agent whose remaining_refs is 0.                 *)
Removed(gone) == Orphaned(gone)

(* Mutant of TiersOver: membership only grows.                              *)
BugTiersOver(q, agents) == {}

(* Tiers of agents that are no longer desired.                              *)
TiersOver(q, agents) == {t \in TiersOf(q) : t[2] \notin agents}

-----------------------------------------------------------------------------
(* Requests: a queue is put or deleted, the customer is suspended or        *)
(* resumed, a resync is asked for.  Each reconciles.                        *)

Request(w, a, r) ==
  /\ phase = "idle" /\ requests < MaxRequests
  /\ wanted' = w /\ active' = a /\ before' = <<wanted, active>>
  /\ phase' = "ensure" /\ left' = IF a THEN DOMAIN w ELSE {}
  /\ again' = r
  /\ requests' = requests + 1
  /\ UNCHANGED <<tables, memory, cmds, intact, faults>>

PutQueue ==
  \E q \in Queues, as \in (SUBSET Agents) \ {{}}, s \in Strategies :
    Request(Put(wanted, q, [agents |-> as, strategy |-> s]), active, FALSE)
DeleteQueue == \E q \in DOMAIN wanted : Request(Drop(wanted, {q}), active, FALSE)
Suspend == Request(wanted, FALSE, FALSE)
Resume == Request(wanted, TRUE, FALSE)
ResyncDomain == Request(wanted, active, TRUE)

-----------------------------------------------------------------------------
(* The client's calls.                                                      *)

(* ensure_queue: the rows, then the commands.  A tier that goes or another  *)
(* strategy brackets the commands with unload and load.                     *)
EnsureQueue(q) ==
  LET want    == Desired[q]
      new     == q \notin DOMAIN queueRow
      over    == TiersOver(q, want.agents)
      agents0 == Drop(agentRow, Removed(over))
      added   == want.agents \ DOMAIN agents0
      uuid(x) == IF x \in added THEN <<x, lastUuid + 1>> ELSE agents0[x]
      joining == want.agents \ Members(q)
      reload  == ~new /\ (queueRow[q] # want.strategy \/ over # {})
  IN  /\ phase = "ensure" /\ cmds = {} /\ q \in left
      /\ queueRow' = Put(queueRow, q, want.strategy)
      /\ agentRow' = [x \in DOMAIN agents0 \cup added |-> uuid(x)]
      /\ tierRow' = (tierRow \ over) \cup {<<q, x, uuid(x)>> : x \in joining}
      /\ dialplan' = dialplan \cup {q}
      /\ lastUuid' = IF added = {} THEN lastUuid ELSE lastUuid + 1
      /\ cmds' = (IF new THEN {Load(q, 0)} ELSE {})
                 \cup (IF reload THEN {Unload(q), Load(q, 2)} ELSE {})
                 \cup {AddAgent(uuid(x)) : x \in added}
                 \cup {AddTier(q, uuid(x), 1) : x \in joining}
      /\ left' = left \ {q}
      /\ UNCHANGED <<desire, memory, phase, again, intact, requests, faults>>

(* list_queues minus the desired ones are deleted.                          *)
ListQueues ==
  /\ phase = "ensure" /\ cmds = {} /\ left = {}
  /\ phase' = "prune"
  /\ left' = DOMAIN queueRow \ DOMAIN Desired
  /\ UNCHANGED <<desire, tables, memory, cmds, again, intact, requests, faults>>

(* delete_queue.                                                            *)
RemoveQueue(q) ==
  LET gone == TiersOf(q)
  IN  /\ phase = "prune" /\ cmds = {} /\ q \in left
      /\ queueRow' = Drop(queueRow, {q})
      /\ agentRow' = Drop(agentRow, Removed(gone))
      /\ tierRow' = tierRow \ gone
      /\ dialplan' = dialplan \ {q}
      /\ cmds' = {Unload(q)}
      /\ left' = left \ {q}
      /\ UNCHANGED <<desire, lastUuid, memory, phase, again, intact, requests, faults>>

(* Mutant of Everything: the resync forgets the tiers.                      *)
BugEverything ==
  {Load(q, 0) : q \in DOMAIN queueRow} \cup {AddAgent(agentRow[x]) : x \in DOMAIN agentRow}

(* resync_queues: every queue, then every agent, then every tier.           *)
Everything ==
  {Load(q, 0) : q \in DOMAIN queueRow}
  \cup {AddAgent(agentRow[x]) : x \in DOMAIN agentRow}
  \cup {AddTier(t[1], t[3], 2) : t \in tierRow}

(* The reconcile is done: the request answers, or goes on to resync_queues. *)
Reconciled ==
  /\ phase = "prune" /\ cmds = {} /\ left = {}
  /\ \/ again /\ active /\ phase' = "resync" /\ cmds' = Everything /\ intact' = TRUE
     \/ ~(again /\ active) /\ phase' = "idle" /\ UNCHANGED <<cmds, intact>>
  /\ UNCHANGED <<desire, tables, memory, left, again, requests, faults>>

Resynced ==
  /\ phase = "resync" /\ cmds = {}
  /\ phase' = "idle"
  /\ UNCHANGED <<desire, tables, memory, left, cmds, again, intact, requests, faults>>

-----------------------------------------------------------------------------
(* mod_callcenter takes a command.                                          *)
Accept(m) ==
  \/ /\ m.do = "unload"
     /\ loaded' = Drop(loaded, {m.queue})
     /\ tiers' \in {tiers, {t \in tiers : t[1] # m.queue}}
     /\ intact' = (intact /\ m.queue \notin DOMAIN queueRow)
     /\ UNCHANGED known
  \/ /\ m.do = "load"
     /\ loaded' = IF m.queue \in DOMAIN loaded \/ m.queue \notin DOMAIN queueRow
                  THEN loaded ELSE Put(loaded, m.queue, queueRow[m.queue])
     /\ UNCHANGED <<known, tiers, intact>>
  \/ /\ m.do = "agent"
     /\ known' = known \cup {m.agent}
     /\ UNCHANGED <<loaded, tiers, intact>>
  \/ /\ m.do = "tier"
     /\ tiers' = IF m.agent \in known THEN tiers \cup {<<m.queue, m.agent>>} ELSE tiers
     /\ UNCHANGED <<loaded, known, intact>>

Deliver ==
  \E m \in {n \in cmds : Due(n)} :
    /\ cmds' = cmds \ {m}
    /\ Accept(m)
    /\ UNCHANGED <<desire, tables, phase, left, again, requests, faults>>

Fault == faults < MaxFaults /\ faults' = faults + 1 /\ intact' = FALSE

(* The commander fails: logged, and the next command is sent.               *)
LoseCommand ==
  /\ Fault
  /\ \E m \in {n \in cmds : Due(n)} : cmds' = cmds \ {m}
  /\ UNCHANGED <<desire, tables, memory, phase, left, again, requests>>

(* FreeSWITCH restarts: mod_callcenter has forgotten everything.            *)
SwitchRestarts ==
  /\ Fault
  /\ loaded' = <<>> /\ known' = {} /\ tiers' = {}
  /\ UNCHANGED <<desire, tables, phase, left, cmds, again, requests>>

(* ServiceUnavailable: reconcile_voice returns with sync_status error, and  *)
(* its caller commits what is wanted; a resync goes on to resync_queues.    *)
Outage ==
  /\ phase \in {"ensure", "prune"} /\ cmds = {}
  /\ faults < MaxFaults /\ faults' = faults + 1
  /\ left' = {}
  /\ \/ ~(again /\ active) /\ phase' = "idle" /\ intact' = FALSE /\ UNCHANGED cmds
     \/ again /\ active /\ phase' = "resync" /\ cmds' = Everything /\ intact' = TRUE
  /\ UNCHANGED <<desire, tables, memory, again, requests>>

(* The process dies, or resync_queues finds the database unavailable: the   *)
(* voice database rolls back, the rows stay.                                *)
Die ==
  /\ phase # "idle" /\ Fault
  /\ wanted' = before[1] /\ active' = before[2]
  /\ phase' = "idle" /\ left' = {} /\ cmds' = {}
  /\ UNCHANGED <<before, tables, memory, again, requests>>

(* The customer asks for nothing more.                                      *)
Quiet == phase = "idle" /\ requests = MaxRequests /\ UNCHANGED vars

Work ==
  \/ \E q \in Queues : EnsureQueue(q) \/ RemoveQueue(q)
  \/ ListQueues \/ Reconciled \/ Resynced \/ Deliver

Next ==
  \/ PutQueue \/ DeleteQueue \/ Suspend \/ Resume \/ ResyncDomain
  \/ Work \/ LoseCommand \/ SwitchRestarts \/ Outage \/ Die \/ Quiet

Spec == Init /\ [][Next]_vars

-----------------------------------------------------------------------------
Uuid == Agents \X (1 .. lastUuid)
Command ==
  [do : {"unload", "load"}, queue : Queues, agent : {NoAgent}, turn : 0 .. 2]
  \cup [do : {"agent"}, queue : {NoQueue}, agent : Uuid, turn : {1}]
  \cup [do : {"tier"}, queue : Queues, agent : Uuid, turn : {1, 2}]
Want == [agents : (SUBSET Agents) \ {{}}, strategy : Strategies]

(* Every variable has its type.                                             *)
TypeOK ==
  /\ DOMAIN wanted \subseteq Queues /\ \A q \in DOMAIN wanted : wanted[q] \in Want
  /\ active \in BOOLEAN
  /\ DOMAIN queueRow \subseteq Queues
  /\ \A q \in DOMAIN queueRow : queueRow[q] \in Strategies
  /\ DOMAIN agentRow \subseteq Agents
  /\ \A x \in DOMAIN agentRow : agentRow[x] \in Uuid
  /\ lastUuid \in Nat
  /\ tierRow \subseteq Queues \X Agents \X Uuid /\ dialplan \subseteq Queues
  /\ DOMAIN loaded \subseteq Queues
  /\ \A q \in DOMAIN loaded : loaded[q] \in Strategies
  /\ known \subseteq Uuid
  /\ tiers \subseteq Queues \X Uuid
  /\ phase \in {"idle", "ensure", "prune", "resync"} /\ left \subseteq Queues
  /\ cmds \subseteq Command
  /\ again \in BOOLEAN /\ intact \in BOOLEAN
  /\ requests \in 0 .. MaxRequests /\ faults \in 0 .. MaxFaults

(* Whatever was interrupted, the rows of FusionPBX agree among themselves:  *)
(* a tier joins a queue and an agent that exist, an agent is a member of    *)
(* some queue, and a queue has members and a dialplan entry.                *)
RowsAgree ==
  /\ \A t \in tierRow :
       t[1] \in DOMAIN queueRow /\ t[2] \in DOMAIN agentRow /\ agentRow[t[2]] = t[3]
  /\ DOMAIN agentRow = {t[2] : t \in tierRow}
  /\ DOMAIN queueRow = {t[1] : t \in tierRow} /\ dialplan = DOMAIN queueRow

(* A reconcile that went through left exactly the wanted queues, each with  *)
(* exactly its agents and its strategy.                                     *)
RowsMatch ==
  [][phase = "prune" /\ phase' \in {"idle", "resync"} /\ faults' = faults =>
       /\ DOMAIN queueRow = DOMAIN Desired
       /\ \A q \in DOMAIN Desired :
            Members(q) = Desired[q].agents /\ queueRow[q] = Desired[q].strategy]_vars

(* After a restart of FreeSWITCH, and whatever was lost before, a resync    *)
(* whose commands all arrive gives mod_callcenter every queue and every     *)
(* member the tables have; later requests whose commands arrive, and that   *)
(* unload no queue they keep, leave it so.                                  *)
Restored ==
  intact /\ phase = "idle" =>
    /\ DOMAIN queueRow \subseteq DOMAIN loaded
    /\ {<<t[1], t[3]>> : t \in tierRow} \subseteq tiers

(* tests/test_fusionpbx_client.py: queue membership shrinks to the exact    *)
(* agents.  Of what mod_callcenter was told, with nothing lost.             *)
ShrinksExactly ==
  faults = 0 /\ phase = "idle" =>
    \A q \in DOMAIN queueRow : {t[3] : t \in TiersOf(q)} = {t[2] : t \in {m \in tiers : m[1] = q}}

=============================================================================
