------------------------- MODULE VoiceProvisioning -------------------------
(***************************************************************************)
(* The provisioning API: requests that edit a customer's desired voice     *)
(* state in the application database and then reconcile it onto FusionPBX. *)
(*                                                                         *)
(*   app/api/provisioning.py, app/api/voice_features.py   the handlers     *)
(*   app/services/reconcile/voice.py                      the reconciler   *)
(*   app/services/fusionpbx/client.py                     the PBX writes   *)
(*   app/models/voice.py, app/db.py                       the tables       *)
(*                                                                         *)
(* A request is a thread with one SQLAlchemy session.  The session is one  *)
(* READ COMMITTED transaction: db and rows are what is committed, mem,     *)
(* wrote, ins and del are what the session holds on top of it, and nothing *)
(* of it shows before Commit.  Objects the session already holds are not   *)
(* refreshed by a later SELECT, FOR UPDATE included (no populate_existing),*)
(* and an attribute set to the value it was loaded with is not written.    *)
(* Every FusionPBX call is a transaction of its own in another database:   *)
(* it takes effect at once and stays when the request rolls back.          *)
(*                                                                         *)
(* Left out: display names, feature contents (members, options, agents),   *)
(* passwords, timestamps; mod_callcenter's runtime state.                  *)
(***************************************************************************)
EXTENDS Integers, FiniteSets

CONSTANTS
  Customers,    \* customer_id values
  PbxDomains,   \* fusionpbx_domain values
  Numbers,      \* extension numbers
  Dialplans,    \* features that are dialplan entries (conference, ring group, IVR)
  Queues,       \* call-centre queues
  Requests,     \* API requests, each served once
  Intents,      \* what clients may ask for
  Start,        \* settled states the system may start from
  NoDomain,     \* no voice_domains row
  Seed          \* creator of the rows that exist at the start

Item == Numbers \cup Dialplans \cup Queues
Feature == Dialplans \cup Queues
Status == {"pending", "synced", "error"}
Creator == Requests \cup {Seed}
(* id is the row's primary key: a customer deprovisioned and provisioned   *)
(* again has a new row, which the sessions that hold the old one never saw. *)
Domain == [id : Creator, dom : PbxDomains, active : BOOLEAN, rec : BOOLEAN, sync : Status]
Column == {"row", "drop", "active", "rec", "sync"}
Row == [c : Customers, item : Item, by : Creator]
Op == {"put", "features", "post", "remove", "suspend", "resume",
       "deprovision", "resync", "resyncAll"}
Intent == [op : Op, c : Customers, dom : PbxDomains, items : SUBSET Item,
           rec : BOOLEAN]
Provisioned == [dom : PbxDomains, active : BOOLEAN, rec : BOOLEAN, items : SUBSET Item]
(* PostgreSQL row locks on a voice_domains row: the foreign-key check of an *)
(* INSERT, an UPDATE of non-key columns, SELECT .. FOR UPDATE.              *)
LockMode == {"share", "nokey", "update"}

ASSUME ConstantsAssumption ==
  /\ Numbers \cap Feature = {} /\ Dialplans \cap Queues = {}
  /\ Intents \subseteq Intent
  /\ Start \subseteq [Customers -> Provisioned \cup {NoDomain}]
  /\ NoDomain \notin Domain \cup Provisioned
  /\ Seed \notin Requests

VARIABLES
  db,       \* committed voice_domains rows, by customer
  rows,     \* committed extension and feature rows
  pbx,      \* FusionPBX: extensions, tagged dialplans and queues, by PBX domain
  boxes,    \* FusionPBX: voicemail boxes, by PBX domain
  routing,  \* the one internal routing dialplan: "none", "plain" or "recording"
  pc,       \* where each request is
  ask,      \* the intent of each request
  mem,      \* VoiceDomain objects each session holds
  wrote,    \* columns of them the session has changed
  seen,     \* rows a request loaded before its flush
  ins, del, \* rows inserted and deleted in the open transaction
  lock,     \* locks on voice_domains rows
  cur,      \* customer being reconciled
  todo,     \* customers a resync-all has still to visit
  want,     \* the items the reconciler read as desired
  calls,    \* PBX calls the reconciler has still to make
  result    \* sync status the last reconcile returned

store == <<db, rows>>
pbxVars == <<pbx, boxes, routing>>
session == <<ask, mem, wrote, seen>>
txn == <<ins, del, lock>>
run == <<cur, todo, want, calls, result>>
vars == <<store, pbxVars, pc, session, txn, run>>

Nobody == [c \in Customers |-> NoDomain]
Unlocked == [c \in Customers |-> {}]
Over == {"done", "failed"}

RowsOf(S, c) == {w \in S : w.c = c}
ItemsOf(S, c) == {w.item : w \in RowsOf(S, c)}
(* What a SELECT of r sees: committed rows under its own changes.          *)
View(r) == (rows \ del[r]) \cup ins[r]

(* No request in flight and FusionPBX as the last reconciles left it.      *)
InitFrom(s) ==
  /\ db = [c \in Customers |->
             IF s[c] = NoDomain THEN NoDomain
             ELSE [id |-> Seed, dom |-> s[c].dom, active |-> s[c].active, rec |-> s[c].rec,
                   sync |-> "synced"]]
  /\ rows = {w \in Row : w.by = Seed /\ s[w.c] # NoDomain /\ w.item \in s[w.c].items}
  /\ pbx = [d \in PbxDomains |->
              UNION {s[c].items : c \in {x \in Customers :
                       s[x] # NoDomain /\ s[x].dom = d /\ s[x].active}}]
  /\ boxes = [d \in PbxDomains |-> pbx[d] \cap Numbers]
  /\ routing \in {"plain", "recording"}
  /\ pc = [r \in Requests |-> "idle"]
  /\ ask \in [Requests -> Intents]
  /\ mem = [r \in Requests |-> Nobody]
  /\ wrote = [r \in Requests |-> {}]
  /\ seen = [r \in Requests |-> {}]
  /\ ins = [r \in Requests |-> {}]
  /\ del = [r \in Requests |-> {}]
  /\ lock = [r \in Requests |-> Unlocked]
  /\ cur = [r \in Requests |-> ask[r].c]
  /\ todo = [r \in Requests |-> {}]
  /\ want = [r \in Requests |-> {}]
  /\ calls = [r \in Requests |-> {}]
  /\ result = [r \in Requests |-> "pending"]

Init == \E s \in Start : InitFrom(s)

Goto(r, label) == pc' = [pc EXCEPT ![r] = label]

(* The end of the transaction: the session, its locks and plan are gone.   *)
Leave(r, label) ==
  /\ Goto(r, label)
  /\ mem' = [mem EXCEPT ![r] = Nobody]
  /\ wrote' = [wrote EXCEPT ![r] = {}]
  /\ seen' = [seen EXCEPT ![r] = {}]
  /\ ins' = [ins EXCEPT ![r] = {}]
  /\ del' = [del EXCEPT ![r] = {}]
  /\ lock' = [lock EXCEPT ![r] = Unlocked]
  /\ todo' = [todo EXCEPT ![r] = {}]
  /\ want' = [want EXCEPT ![r] = {}]
  /\ calls' = [calls EXCEPT ![r] = {}]
  /\ result' = [result EXCEPT ![r] = "pending"]
  /\ UNCHANGED <<ask, cur>>

(* Mutant of Rollback: the session is never closed and keeps its locks.    *)
BugRollback(r) ==
  Goto(r, "failed") /\ UNCHANGED <<store, session, txn, run>>

(* An exception leaves the handler: get_db closes the session unchanged.   *)
Rollback(r) == Leave(r, "failed") /\ UNCHANGED store

-----------------------------------------------------------------------------
(* Locks.                                                                   *)

Conflicts(m, held) == \/ m = "update" /\ held # {}
                      \/ m = "nokey" /\ held \cap {"nokey", "update"} # {}
                      \/ m = "share" /\ "update" \in held

(* Mutant of Free: the domain is read without FOR UPDATE.                  *)
BugFree(r, c, modes) ==
  \A s \in Requests \ {r} : \A m \in modes \ {"update"} : ~Conflicts(m, lock[s][c])

Free(r, c, modes) ==
  \A s \in Requests \ {r} : \A m \in modes : ~Conflicts(m, lock[s][c])

(* An INSERT of the same unique customer_id waits for the one in flight.   *)
InsertedBy(s, c) == "update" \in lock[s][c] /\ <<c, "row">> \in wrote[s]

-----------------------------------------------------------------------------
(* The handlers up to the reconcile.                                        *)

(* The row the session of r holds for c still exists.                      *)
Current(r, c) == \/ <<c, "row">> \in wrote[r]
                 \/ /\ db[c] # NoDomain /\ mem[r][c] # NoDomain
                    /\ db[c].id = mem[r][c].id

(* What the handlers set on the domain they loaded.                        *)
Edited(i, row) ==
  [row EXCEPT !.rec = IF i.op = "put" THEN i.rec ELSE @,
              !.active = IF i.op \in {"resume", "deprovision"} THEN TRUE
                         ELSE IF i.op = "suspend" THEN FALSE ELSE @]

Dirty(i, row) == {col \in {"active", "rec"} : Edited(i, row)[col] # row[col]}
                 \cup {col \in {"drop"} : i.op = "deprovision"}

(* The unlocked SELECT found the customer's domain.                        *)
Begin(r) ==
  LET i == ask[r]
      held == db[i.c]
  IN /\ pc[r] = "idle" /\ i.op # "resyncAll"
     /\ held # NoDomain
     /\ i.op = "put" => held.dom = i.dom
     /\ mem' = [mem EXCEPT ![r][i.c] = Edited(i, held)]
     /\ wrote' = [wrote EXCEPT ![r] = {i.c} \X Dirty(i, held)]
     /\ Goto(r, CASE i.op = "resync" -> "lock"
                  [] i.op \in {"suspend", "resume"} -> "flush"
                  [] OTHER -> "load")
     /\ UNCHANGED <<store, pbxVars, ask, seen, txn, run>>

(* put_domain of a customer that has none.                                 *)
BeginNew(r) ==
  LET i == ask[r]
  IN /\ pc[r] = "idle" /\ i.op = "put" /\ db[i.c] = NoDomain
     /\ mem' = [mem EXCEPT ![r][i.c] = [id |-> r, dom |-> i.dom, active |-> TRUE,
                                        rec |-> i.rec, sync |-> "pending"]]
     /\ wrote' = [wrote EXCEPT ![r] = {<<i.c, "row">>}]
     /\ Goto(r, "insert")
     /\ UNCHANGED <<store, pbxVars, ask, seen, txn, run>>

(* NotFoundError, or ConflictError: fusionpbx_domain is immutable.         *)
Refuse(r) ==
  LET i == ask[r]
  IN /\ pc[r] = "idle" /\ i.op # "resyncAll"
     /\ \/ db[i.c] = NoDomain /\ i.op # "put"
        \/ db[i.c] # NoDomain /\ i.op = "put" /\ db[i.c].dom # i.dom
     /\ Rollback(r)
     /\ UNCHANGED pbxVars

(* resync-all loads every domain and keeps the objects for its whole loop. *)
BeginAll(r) ==
  LET all == {c \in Customers : db[c] # NoDomain}
  IN /\ pc[r] = "idle" /\ ask[r].op = "resyncAll"
     /\ mem' = [mem EXCEPT ![r] = db]
     /\ \/ /\ all = {} /\ Goto(r, "commit")
           /\ UNCHANGED <<cur, todo>>
        \/ \E c \in all :
             /\ cur' = [cur EXCEPT ![r] = c]
             /\ todo' = [todo EXCEPT ![r] = all \ {c}]
             /\ Goto(r, "lock")
     /\ UNCHANGED <<store, pbxVars, ask, wrote, seen, txn, want, calls, result>>

(* INSERT of a new domain row: the unique customer_id makes it wait for    *)
(* another insert of it in flight and fail when that one committed.        *)
InsertDomain(r) ==
  LET c == ask[r].c
  IN /\ pc[r] = "insert"
     /\ \A s \in Requests \ {r} : ~InsertedBy(s, c)
     /\ \/ /\ db[c] = NoDomain
           /\ lock' = [lock EXCEPT ![r][c] = {"update"}]
           /\ Goto(r, "load")
           /\ UNCHANGED <<store, session, ins, del, run>>
        \/ /\ db[c] # NoDomain /\ Rollback(r)
     /\ UNCHANGED pbxVars

Scope(i) == CASE i.op = "put" -> Numbers
              [] i.op = "features" -> Feature
              [] i.op \in {"post", "remove"} -> i.items
              [] OTHER -> Item

(* SELECT of the rows the handler edits.  put_domain keeps one row per     *)
(* number (a dict), _upsert and _delete fetch one row (scalar).            *)
Load(r) ==
  LET i == ask[r]
      found == {w \in RowsOf(rows, i.c) : w.item \in Scope(i) /\ Current(r, i.c)}
      one(S) == \A v, w \in S : v.item = w.item => v = w
  IN /\ pc[r] = "load"
     /\ \E S \in SUBSET found :
          /\ ItemsOf(S, i.c) = ItemsOf(found, i.c)
          /\ IF i.op \in {"features", "deprovision"} THEN S = found ELSE one(S)
          /\ seen' = [seen EXCEPT ![r] = S]
     /\ Goto(r, "flush")
     /\ UNCHANGED <<store, pbxVars, ask, mem, wrote, txn, run>>

(* Mutant of Doomed: the rows absent from a payload are kept.              *)
BugDoomed(r) == IF ask[r].op \in {"remove", "deprovision"} THEN seen[r] ELSE {}

Doomed(r) == CASE ask[r].op \in {"put", "features"} -> {w \in seen[r] : w.item \notin ask[r].items}
               [] ask[r].op \in {"remove", "deprovision"} -> seen[r]
               [] OTHER -> {}

Added(r) == IF ask[r].op \in {"put", "features", "post"}
            THEN {w \in Row : /\ w.c = ask[r].c /\ w.by = r /\ w.item \in ask[r].items
                              /\ ~\E v \in seen[r] : v.item = w.item}
            ELSE {}

FlushModes(r) == (IF Added(r) # {} THEN {"share"} ELSE {})
                 \cup (IF <<ask[r].c, "active">> \in wrote[r] \/ <<ask[r].c, "rec">> \in wrote[r]
                       THEN {"nokey"} ELSE {})

(* db.flush(): the pending INSERTs, UPDATEs and DELETEs, with their locks.  *)
(* A row that went away meanwhile makes an INSERT or UPDATE fail (foreign  *)
(* key violation, StaleDataError) and a DELETE a no-op.                    *)
Flush(r) ==
  LET c == ask[r].c
      alive == Current(r, c) \/ FlushModes(r) = {}
  IN /\ pc[r] = "flush"
     /\ Free(r, c, FlushModes(r)) \/ ~alive
     /\ \A s \in Requests \ {r} : del[s] \cap Doomed(r) = {}
     /\ \/ /\ alive
           /\ ins' = [ins EXCEPT ![r] = Added(r)]
           /\ del' = [del EXCEPT ![r] = Doomed(r) \cap rows]
           /\ lock' = [lock EXCEPT ![r][c] = @ \cup FlushModes(r)]
           /\ Goto(r, "lock")
           /\ UNCHANGED <<store, session, run>>
        \/ /\ ~alive /\ Rollback(r)
     /\ UNCHANGED pbxVars

-----------------------------------------------------------------------------
(* reconcile_voice.                                                         *)

(* post_* and delete_* drop their VoiceDomain object before the reconcile,  *)
(* so the session reads it anew; the other handlers still hold theirs.      *)
Dropped(r) == ask[r].op \in {"post", "remove"}

(* SELECT .. FOR UPDATE of the domain and the SELECT of the desired rows.  *)
Lock(r) ==
  LET c == cur[r]
      exists == <<c, "row">> \in wrote[r] \/ db[c] # NoDomain
  IN /\ pc[r] = "lock"
     /\ \/ /\ exists
           /\ Free(r, c, {"update"})
           /\ lock' = [lock EXCEPT ![r][c] = @ \cup {"update"}]
           /\ IF <<c, "row">> \notin wrote[r] /\ (Dropped(r) \/ ~Current(r, c))
              THEN /\ mem' = [mem EXCEPT ![r][c] = db[c]]
                   /\ wrote' = [wrote EXCEPT ![r] = {p \in @ : p[1] # c}]
              ELSE UNCHANGED <<mem, wrote>>
           /\ want' = [want EXCEPT ![r] = ItemsOf(View(r), c)]
           /\ Goto(r, "list")
           /\ UNCHANGED <<store, ask, seen, ins, del, cur, todo, calls, result>>
        \/ /\ ~exists /\ Rollback(r) \* NotFoundError
     /\ UNCHANGED pbxVars

(* The PBX calls of one reconcile: <<kind, item>>, made in the order of     *)
(* Rank.  A "list" call reads the PBX and adds the drift to delete.         *)
Rank == [createExt |-> 1, dropBox |-> 2, dropExt |-> 3, ensureBox |-> 4, switch |-> 5,
         route |-> 6, applyDialplan |-> 7, listDialplans |-> 8, dropDialplan |-> 9,
         applyQueue |-> 10, listQueues |-> 11, dropQueue |-> 12]
Each(kind, S) == {<<kind, x>> : x \in S}
None == "none"
Call == ({"createExt", "dropBox", "dropExt", "ensureBox"} \X Numbers)
        \cup ({"applyDialplan", "dropDialplan"} \X Dialplans)
        \cup ({"applyQueue", "dropQueue"} \X Queues)
        \cup ({"switch", "route", "listDialplans", "listQueues"} \X {None})

Ready(r) == {k \in calls[r] : \A l \in calls[r] : Rank[k[1]] <= Rank[l[1]]}

Active(r) == mem[r][cur[r]].active
Dom(r) == mem[r][cur[r]].dom

(* Mutant of Plan: every row of the domain is taken for an extension.      *)
BugPlan(desired, drift, wanted, active) ==
  Each("createExt", wanted) \cup Each("dropExt", drift)

(* client.list_extensions, compute_delta and the loops that follow.        *)
Plan(desired, drift, wanted, active) ==
  Each("createExt", desired) \cup Each("dropExt", drift)
  \cup {<<"listDialplans", None>>, <<"listQueues", None>>}
  \cup IF active
       THEN Each("ensureBox", desired)
            \cup {<<"switch", None>>, <<"route", None>>}
            \cup Each("applyDialplan", wanted \cap Dialplans)
            \cup Each("applyQueue", wanted \cap Queues)
       ELSE {}

List(r) ==
  LET desired == IF Active(r) THEN want[r] \cap Numbers ELSE {}
      actual == pbx[Dom(r)] \cap Numbers
  IN /\ pc[r] = "list"
     /\ calls' = [calls EXCEPT ![r] = Plan(desired, actual \ desired, want[r], Active(r))]
     /\ Goto(r, "calls")
     /\ UNCHANGED <<store, pbxVars, session, txn, cur, todo, want, result>>

(* Mutant of Kept: suspension forgets the feature entry points.            *)
BugKept(r) == want[r]

(* The features kept by the drift step: none of a suspended customer.      *)
Kept(r) == IF Active(r) THEN want[r] ELSE {}

Followups(r, k) ==
  CASE k[1] = "dropExt" -> {<<"dropBox", k[2]>>}
    [] k[1] = "listDialplans" -> Each("dropDialplan", (pbx[Dom(r)] \cap Dialplans) \ Kept(r))
    [] k[1] = "listQueues" -> Each("dropQueue", (pbx[Dom(r)] \cap Queues) \ Kept(r))
    [] OTHER -> {}

(* What a call writes: directory entries, dialplans and queues ...          *)
PbxAfter(r, k) ==
  CASE k[1] \in {"createExt", "applyDialplan", "applyQueue"} ->
         [pbx EXCEPT ![Dom(r)] = @ \cup {k[2]}]
    [] k[1] \in {"dropExt", "dropDialplan", "dropQueue"} ->
         [pbx EXCEPT ![Dom(r)] = @ \ {k[2]}]
    [] OTHER -> pbx

(* ... voicemail boxes ...                                                  *)
BoxesAfter(r, k) ==
  CASE k[1] = "ensureBox" -> [boxes EXCEPT ![Dom(r)] = @ \cup {k[2]}]
    [] k[1] = "dropBox" -> [boxes EXCEPT ![Dom(r)] = @ \ {k[2]}]
    [] OTHER -> boxes

(* ... and the routing dialplan, one row for the whole switch.              *)
RoutingAfter(r, k) ==
  IF k[1] # "route" THEN routing
  ELSE IF mem[r][cur[r]].rec THEN "recording" ELSE "plain"

Effect(r, k) ==
  /\ pbx' = PbxAfter(r, k)
  /\ boxes' = BoxesAfter(r, k)
  /\ routing' = RoutingAfter(r, k)

(* One PBX call that succeeds.                                              *)
PbxCall(r) ==
  /\ pc[r] = "calls"
  /\ \E k \in Ready(r) :
       /\ Effect(r, k)
       /\ calls' = [calls EXCEPT ![r] = (@ \ {k}) \cup Followups(r, k)]
  /\ UNCHANGED <<store, pc, session, txn, cur, todo, want, result>>

(* The end of reconcile_voice: the status is set and flushed.  Assigning    *)
(* the value the session already holds writes nothing.                     *)
Conclude(r, status) ==
  LET c == cur[r]
  IN /\ mem' = [mem EXCEPT ![r][c].sync = status]
     /\ wrote' = [wrote EXCEPT ![r] =
                    @ \cup (IF mem[r][c].sync = status THEN {} ELSE {<<c, "sync">>})]
     /\ calls' = [calls EXCEPT ![r] = {}]
     /\ result' = [result EXCEPT ![r] = status]
     /\ Goto(r, IF ask[r].op \in {"resync", "resyncAll"} /\ Active(r) THEN "runtime"
                ELSE IF todo[r] # {} THEN "next" ELSE "commit")
     /\ UNCHANGED <<store, ask, seen, txn, cur, todo, want>>

Synced(r) == pc[r] = "calls" /\ calls[r] = {} /\ Conclude(r, "synced") /\ UNCHANGED pbxVars

(* ServiceUnavailableError: the PBX transaction did not commit, or did and  *)
(* the answer was lost.                                                     *)
PbxUnavailable(r) ==
  /\ pc[r] = "list" \/ (pc[r] = "calls" /\ calls[r] # {})
  /\ \/ UNCHANGED pbxVars
     \/ \E k \in Ready(r) : Effect(r, k)
  /\ Conclude(r, "error")

(* BadRequestError (the PBX refused the row) is not caught by reconcile.   *)
PbxRejects(r) ==
  /\ pc[r] = "calls" /\ calls[r] # {}
  /\ Rollback(r)
  /\ UNCHANGED pbxVars

-----------------------------------------------------------------------------
(* The handlers after the reconcile.                                        *)

(* client.resync_queues: an outage is not caught and answers 503.          *)
Runtime(r) ==
  /\ pc[r] = "runtime"
  /\ \/ /\ Goto(r, IF todo[r] # {} THEN "next" ELSE "commit")
        /\ UNCHANGED <<store, session, txn, run>>
     \/ Rollback(r)
  /\ UNCHANGED pbxVars

(* The next domain of resync-all, in the order the SELECT returned them.   *)
NextDomain(r) ==
  /\ pc[r] = "next"
  /\ \E c \in todo[r] :
       /\ cur' = [cur EXCEPT ![r] = c]
       /\ todo' = [todo EXCEPT ![r] = @ \ {c}]
  /\ Goto(r, "lock")
  /\ UNCHANGED <<store, pbxVars, session, txn, want, calls, result>>

(* Mutant of Merged: the status the reconcile set is not stored.           *)
BugMerged(r, c) ==
  IF <<c, "drop">> \in wrote[r] THEN NoDomain
  ELSE IF <<c, "row">> \in wrote[r] THEN mem[r][c]
  ELSE IF <<c, "active">> \in wrote[r] THEN [db[c] EXCEPT !.active = mem[r][c].active]
  ELSE db[c]

(* The domain row of c after the commit of r.                              *)
Merged(r, c) ==
  LET written(col) == <<c, col>> \in wrote[r]
      new == mem[r][c]
  IN IF written("drop") \/ (db[c] = NoDomain /\ ~written("row")) THEN NoDomain
     ELSE IF written("row") THEN new
     ELSE [db[c] EXCEPT !.active = IF written("active") THEN new.active ELSE @,
                        !.rec = IF written("rec") THEN new.rec ELSE @,
                        !.sync = IF written("sync") THEN new.sync ELSE @]

(* Deleting a domain that still has rows violates their foreign key.       *)
Commit(r) ==
  /\ pc[r] = "commit"
  /\ \/ /\ \A c \in Customers : <<c, "drop">> \in wrote[r] => RowsOf(View(r), c) = {}
        /\ db' = [c \in Customers |-> Merged(r, c)]
        /\ rows' = View(r)
        /\ Leave(r, "done")
     \/ /\ \E c \in Customers : <<c, "drop">> \in wrote[r] /\ RowsOf(View(r), c) # {}
        /\ Rollback(r)
  /\ UNCHANGED pbxVars

(* The worker dies, a statement times out or the connection is lost.       *)
Abort(r) ==
  /\ pc[r] \notin Over \cup {"idle"}
  /\ Rollback(r)
  /\ UNCHANGED pbxVars

-----------------------------------------------------------------------------
(* PostgreSQL ends a deadlock by aborting one of the waiting transactions. *)

WaitsFor(r, s) ==
  /\ r # s
  /\ \/ /\ pc[r] = "lock"
        /\ Conflicts("update", lock[s][cur[r]])
     \/ /\ pc[r] = "flush"
        /\ \/ \E m \in FlushModes(r) : Conflicts(m, lock[s][ask[r].c])
           \/ del[s] \cap Doomed(r) # {}
     \/ /\ pc[r] = "insert"
        /\ InsertedBy(s, ask[r].c)

Deadlocked(r) ==
  \E S \in SUBSET Requests :
    r \in S /\ \A s \in S : (\E t \in S : WaitsFor(s, t)) /\ (\E t \in S : WaitsFor(t, s))

DeadlockVictim(r) == Deadlocked(r) /\ Rollback(r) /\ UNCHANGED pbxVars

Work(r) ==
  \/ Begin(r) \/ BeginNew(r) \/ Refuse(r) \/ BeginAll(r) \/ InsertDomain(r) \/ Load(r) \/ Flush(r) \/ Lock(r)
  \/ List(r) \/ PbxCall(r) \/ Synced(r) \/ Runtime(r) \/ NextDomain(r) \/ Commit(r)
  \/ DeadlockVictim(r)

Fault(r) == PbxUnavailable(r) \/ PbxRejects(r) \/ Abort(r)

Next == \E r \in Requests : Work(r) \/ Fault(r)

Spec == Init /\ [][Next]_vars

(* A request that has begun is run to its end by its thread, and the       *)
(* database resolves deadlocks; clients and faults owe nothing.            *)
Fairness == \A r \in Requests : WF_vars(pc[r] # "idle" /\ Work(r))

FairSpec == Spec /\ Fairness

(* A caller that sends its next request after the answer to the last one.  *)
OneAtATime ==
  \A r \in Requests : pc[r] = "idle" /\ pc'[r] # "idle" =>
    \A s \in Requests \ {r} : pc[s] \in {"idle"} \cup Over

SerialSpec == Init /\ [][Next /\ OneAtATime]_vars

-----------------------------------------------------------------------------
(* Properties.                                                              *)

StoreType == db \in [Customers -> Domain \cup {NoDomain}] /\ rows \subseteq Row

PbxType ==
  /\ pbx \in [PbxDomains -> SUBSET Item]
  /\ boxes \in [PbxDomains -> SUBSET Numbers]
  /\ routing \in {"none", "plain", "recording"}

RequestType ==
  /\ pc \in [Requests -> {"idle", "insert", "load", "flush", "lock", "list", "calls",
                          "runtime", "next", "commit"} \cup Over]
  /\ ask \in [Requests -> Intents]
  /\ mem \in [Requests -> [Customers -> Domain \cup {NoDomain}]]
  /\ wrote \in [Requests -> SUBSET (Customers \X Column)]
  /\ seen \in [Requests -> SUBSET Row]
  /\ ins \in [Requests -> SUBSET Row]
  /\ del \in [Requests -> SUBSET Row]
  /\ lock \in [Requests -> [Customers -> SUBSET LockMode]]
  /\ cur \in [Requests -> Customers]
  /\ todo \in [Requests -> SUBSET Customers]
  /\ want \in [Requests -> SUBSET Item]
  /\ calls \in [Requests -> SUBSET Call]
  /\ result \in [Requests -> Status]

(* A session holds the objects it has changed, and the one it reconciles:  *)
(* the handlers never touch a domain they did not load.                    *)
SessionHolds ==
  \A r \in Requests :
    /\ \A p \in wrote[r] : mem[r][p[1]] # NoDomain
    /\ pc[r] \in {"list", "calls"} => mem[r][cur[r]] # NoDomain
    /\ pc[r] = "idle" => wrote[r] = {}

(* Every variable holds values of its type, and the objects a request uses *)
(* are loaded.                                                             *)
TypeOK == StoreType /\ PbxType /\ RequestType /\ SessionHolds

Reconciling(r) == pc[r] \in {"list", "calls", "runtime"}

(* Two requests never reconcile the same customer at once: the comment at  *)
(* reconcile/voice.py:65 ("serialize instead of racing").                  *)
OneReconcilePerCustomer ==
  \A r, s \in Requests : r # s /\ Reconciling(r) /\ Reconciling(s) => cur[r] # cur[s]

LockExclusive ==
  \A r, s \in Requests, c \in Customers :
    r # s /\ "update" \in lock[r][c] => lock[s][c] = {}

LockBacked ==
  \A r \in Requests, c \in Customers :
    lock[r][c] # {} => db[c] # NoDomain \/ <<c, "row">> \in wrote[r]

LockHeld(r) ==
  /\ pc[r] \in {"list", "calls", "runtime", "next"} => "update" \in lock[r][cur[r]]
  /\ pc[r] = "commit" => "update" \in lock[r][cur[r]] \/ ask[r].op = "resyncAll"
  /\ pc[r] \in {"idle", "insert"} => lock[r] = Unlocked
  /\ pc[r] = "insert" => <<ask[r].c, "row">> \in wrote[r]
  /\ pc[r] = "idle" => todo[r] = {}
  /\ todo[r] # {} => ask[r].op = "resyncAll"
  /\ pc[r] = "next" => todo[r] # {}
  /\ ask[r].op # "resyncAll" => cur[r] = ask[r].c
  /\ \A c \in Customers : <<c, "row">> \in wrote[r] =>
       c = ask[r].c /\ (pc[r] = "insert" \/ "update" \in lock[r][c])
  /\ \A c \in Customers : <<c, "drop">> \in wrote[r] =>
       c = ask[r].c /\ ask[r].op = "deprovision"

(* Why: the row lock excludes every other lock on the customer, nobody     *)
(* locks a row that is not there, and the lock is held from the SELECT ..  *)
(* FOR UPDATE (reconcile/voice.py:68) to the end of the transaction.       *)
LocksExclude == LockExclusive /\ LockBacked /\ \A r \in Requests : LockHeld(r)

Committing(r) == pc[r] = "commit" /\ pc'[r] = "done"
Reconciled(r, c) == "update" \in lock[r][c]

PbxIs(d, items) == pbx[d] = items /\ items \cap Numbers \subseteq boxes[d]

(* The PBX domains a customer may have: the one it starts with, and those  *)
(* it is put on.  Two customers may be given one, and then delete each     *)
(* other's extensions: fusionpbx_domain is unique in models/voice.py:27,   *)
(* but not in the migrated schema (007_voice_domains.py:32).               *)
Given(c) ==
  {s[c].dom : s \in {x \in Start : x[c] # NoDomain}}
    \cup {i.dom : i \in {x \in Intents : x.op = "put" /\ x.c = c}}

SoleCustomers ==
  {c \in Customers : \A x \in Customers \ {c} : Given(c) \cap Given(x) = {}}

(* When a request commits a synced reconcile of a customer that shares its *)
(* PBX domain with no other, FusionPBX holds exactly the rows it commits   *)
(* (none if the session held the customer as suspended), whatever other    *)
(* requests did meanwhile: reconcile/voice.py:49-51.                       *)
SyncedCommitApplied ==
  [][\A r \in Requests, c \in SoleCustomers :
       Committing(r) /\ Reconciled(r, c) /\ mem[r][c].sync = "synced" =>
         PbxIs(mem[r][c].dom, IF mem[r][c].active THEN ItemsOf(rows', c) ELSE {})]_vars

(* The commit of a request leaves in the database what its client asked    *)
(* for (provisioning.py:70, :106, :148; voice_features.py:_replace).       *)
IntentRecorded ==
  [][\A r \in Requests :
       LET i == ask[r]
           now == db'[i.c]
           items == ItemsOf(rows', i.c)
       IN Committing(r) =>
            CASE i.op = "put" -> items \cap Numbers = i.items /\ now.rec = i.rec
              [] i.op = "features" -> items \cap Feature = i.items
              [] i.op = "post" -> i.items \subseteq items
              [] i.op = "remove" -> i.items \cap items = {}
              [] i.op = "suspend" -> ~now.active
              [] i.op = "resume" -> now.active
              [] i.op = "deprovision" -> now = NoDomain /\ items = {}
              [] OTHER -> TRUE]_vars

(* The committed sync_status of a reconciled customer is the status the    *)
(* reconcile returned (reconcile/voice.py:52).                             *)
StatusRecorded ==
  [][\A r \in Requests : LET c == cur[r] IN
       Committing(r) /\ Reconciled(r, c) /\ db'[c] # NoDomain => db'[c].sync = result[r]]_vars

(* A request that has begun ends, whatever locks it and the others wait for.*)
EveryRequestEnds == \A r \in Requests : pc[r] \notin {"idle"} \cup Over ~> pc[r] \in Over

-----------------------------------------------------------------------------
(* The refinement: a customer is held by the transaction that has its row   *)
(* FOR UPDATE (or has inserted it), for the domain its session knows.       *)

Published(c) ==
  IF db[c] = NoDomain THEN NoDomain
  ELSE [dom |-> db[c].dom, active |-> db[c].active, items |-> ItemsOf(rows, c),
        synced |-> db[c].sync = "synced"]

Holders(c) == {r \in Requests : "update" \in lock[r][c]}
HeldFor(c) == IF Holders(c) = {} THEN NoDomain
              ELSE mem[CHOOSE r \in Holders(c) : TRUE][c].dom

Service == INSTANCE VoiceService WITH
  Domains <- PbxDomains, Items <- Item, None <- NoDomain, Sole <- SoleCustomers,
  offered <- pbx,
  record <- [c \in Customers |-> Published(c)],
  held <- [c \in Customers |-> HeldFor(c)]

(* The requests of a client that waits for its answers, with every outage,  *)
(* refusal and crash between them, implement the promise of VoiceService:   *)
(* the PBX changes only under the row lock and only in the customer's own   *)
(* domain, and a record that is committed as synced is what the PBX offers, *)
(* nothing while suspended, if no other customer is on that domain          *)
(* (reconcile/voice.py:49-52, models/voice.py:33).                          *)
ServiceKept == Service!Spec

-----------------------------------------------------------------------------
(* What the repository says and the code does not keep.                    *)

Quiet == \A r \in Requests : pc[r] \in {"idle"} \cup Over

(* "suspended (False) -> reconcile removes the customer's FusionPBX        *)
(* extensions (can't register/call)", models/voice.py:33: none is left when *)
(* a reconcile of a suspended customer commits as synced.                  *)
SuspendedIsOff ==
  [][\A r \in Requests : LET c == cur[r] IN
       Committing(r) /\ result[r] = "synced" /\ db'[c] # NoDomain /\ ~db'[c].active =>
         pbx[db'[c].dom] \cap Numbers = {}]_vars

(* Deprovision "removes everything from FusionPBX": provisioning.py:141.   *)
NoOrphans ==
  Quiet => \A d \in PbxDomains :
    (\A c \in Customers : db[c] # NoDomain => db[c].dom # d) => pbx[d] = {}
=============================================================================
