---------------------- MODULE VoiceProvisioning_proofs ----------------------
(***************************************************************************)
(* Proofs about VoiceProvisioning, for any customers, numbers, features,   *)
(* number of requests and intents: its types, its locks, and that a        *)
(* committed synced reconcile is what FusionPBX holds.                     *)
(***************************************************************************)
EXTENDS VoiceProvisioning, TLAPS


-----------------------------------------------------------------------------
(* Types.                                                                   *)

LEMMA InitType == Init => TypeOK
<1> SUFFICES ASSUME NEW s \in Start, InitFrom(s) PROVE TypeOK
  BY DEF Init
<1> USE DEF InitFrom
<1>1. s \in [Customers -> Provisioned \cup {NoDomain}] /\ NoDomain \notin Provisioned
  BY ConstantsAssumption
<1>2. StoreType
  BY <1>1 DEF StoreType, Domain, Provisioned, Creator, Status
<1>3. pbx \in [PbxDomains -> SUBSET Item]
  BY <1>1 DEF Provisioned
<1>4. PbxType
  BY <1>3 DEF PbxType, Item
<1>5. RequestType
  <2>1. \A r \in Requests : ask[r].c \in Customers
    BY ConstantsAssumption DEF Intent
  <2> QED
    BY <2>1 DEF RequestType, Nobody, Unlocked, Status, Over
<1>6. SessionHolds
  BY DEF SessionHolds
<1> QED BY <1>2, <1>4, <1>5, <1>6 DEF TypeOK

(* One entry of a function of functions is updated: the others stay.       *)
LEMMA EntryUpdate ==
  ASSUME NEW A, NEW B, NEW T, NEW f \in [A -> [B -> T]], NEW a \in A, NEW b \in B,
         NEW v \in T
  PROVE  LET g == [f EXCEPT ![a][b] = v]
         IN /\ g \in [A -> [B -> T]]
            /\ \A x \in A, y \in B : g[x][y] = IF x = a /\ y = b THEN v ELSE f[x][y]
  OBVIOUS

(* Leaving the transaction resets the variables of r to typed values.      *)
LEMMA LeaveType ==
  ASSUME RequestType, SessionHolds, NEW r \in Requests, NEW label \in Over, Leave(r, label)
  PROVE  RequestType' /\ SessionHolds'
<1>1. RequestType'
  BY DEF RequestType, Leave, Goto, Over, Nobody, Unlocked, Status
<1>2. ASSUME NEW s \in Requests
      PROVE  /\ \A p \in wrote'[s] : mem'[s][p[1]] # NoDomain
             /\ pc'[s] \in {"list", "calls"} => mem'[s][cur'[s]] # NoDomain
             /\ pc'[s] = "idle" => wrote'[s] = {}
  BY DEF RequestType, SessionHolds, Leave, Goto, Over
<1> QED BY <1>1, <1>2 DEF SessionHolds

LEMMA RollbackType ==
  ASSUME TypeOK, NEW r \in Requests, Rollback(r), UNCHANGED pbxVars
  PROVE  TypeOK'
<1>1. RequestType' /\ SessionHolds'
  BY LeaveType DEF TypeOK, Rollback, Over
<1>2. StoreType' /\ PbxType'
  BY DEF TypeOK, Rollback, store, pbxVars, StoreType, PbxType
<1> QED BY <1>1, <1>2 DEF TypeOK

LEMMA EditedType ==
  ASSUME NEW i \in Intents, NEW row \in Domain
  PROVE  Edited(i, row) \in Domain
  BY ConstantsAssumption DEF Edited, Domain, Intent

LEMMA BeginType ==
  ASSUME TypeOK, NEW r \in Requests, Begin(r)
  PROVE  TypeOK'
<1> DEFINE i == ask[r]
           held == db[i.c]
<1>1. i \in Intents /\ i.c \in Customers /\ NoDomain \notin Domain
  BY ConstantsAssumption DEF TypeOK, RequestType, Intent
<1>2. held \in Domain
  BY <1>1 DEF Begin, TypeOK, StoreType
<1>3. Edited(i, held) \in Domain
  BY <1>1, <1>2, EditedType
<1>4. Dirty(i, held) \subseteq Column
  BY DEF Dirty, Column
<1>5. StoreType' /\ PbxType'
  BY DEF Begin, TypeOK, StoreType, PbxType, store, pbxVars
<1>6. RequestType'
  BY <1>1, <1>3, <1>4 DEF Begin, TypeOK, RequestType, Goto, txn, run
<1>7. SessionHolds'
  BY <1>1, <1>3 DEF Begin, TypeOK, RequestType, SessionHolds, Goto, run
<1> QED BY <1>5, <1>6, <1>7 DEF TypeOK

LEMMA BeginNewType ==
  ASSUME TypeOK, NEW r \in Requests, BeginNew(r)
  PROVE  TypeOK'
<1> DEFINE i == ask[r]
           new == [id |-> r, dom |-> i.dom, active |-> TRUE, rec |-> i.rec, sync |-> "pending"]
<1>1. i \in Intent /\ NoDomain \notin Domain
  BY ConstantsAssumption DEF TypeOK, RequestType
<1>2. new \in Domain /\ i.c \in Customers
  BY <1>1 DEF Domain, Intent, Creator, Status
<1>3. StoreType' /\ PbxType'
  BY DEF BeginNew, TypeOK, StoreType, PbxType, store, pbxVars
<1>4. mem' = [mem EXCEPT ![r][i.c] = new]
      /\ mem \in [Requests -> [Customers -> Domain \cup {NoDomain}]]
  BY DEF BeginNew, TypeOK, RequestType
<1>5. /\ mem' \in [Requests -> [Customers -> Domain \cup {NoDomain}]]
      /\ \A x \in Requests, y \in Customers :
           mem'[x][y] = IF x = r /\ y = i.c THEN new ELSE mem[x][y]
  BY <1>2, <1>4, EntryUpdate
<1>6. RequestType'
  BY <1>2, <1>5 DEF BeginNew, TypeOK, RequestType, Goto, Column, txn, run
<1>7. \A s \in Requests \ {r} : wrote'[s] = wrote[s] /\ pc'[s] = pc[s]
  BY DEF BeginNew, TypeOK, RequestType, Goto
<1>8. wrote'[r] = {<<i.c, "row">>} /\ pc'[r] = "insert" /\ cur' = cur
  BY DEF BeginNew, TypeOK, RequestType, Goto, run
<1>9. SessionHolds'
  <2>1. \A s \in Requests \ {r}, x \in Customers : mem'[s][x] = mem[s][x]
    BY <1>5
  <2>2. \A s \in Requests : cur[s] \in Customers /\ \A p \in wrote[s] : p[1] \in Customers
    BY DEF TypeOK, RequestType
  <2>3. mem'[r][i.c] # NoDomain
    BY <1>1, <1>2, <1>5
  <2> QED BY <1>7, <1>8, <2>1, <2>2, <2>3 DEF TypeOK, SessionHolds
<1> QED BY <1>3, <1>6, <1>9 DEF TypeOK

LEMMA BeginAllType ==
  ASSUME TypeOK, NEW r \in Requests, BeginAll(r)
  PROVE  TypeOK'
<1>1. StoreType' /\ PbxType'
  BY DEF BeginAll, TypeOK, StoreType, PbxType, store, pbxVars
<1>2. /\ mem' \in [Requests -> [Customers -> Domain \cup {NoDomain}]]
      /\ mem'[r] = db /\ \A s \in Requests \ {r} : mem'[s] = mem[s]
  BY DEF BeginAll, TypeOK, StoreType, RequestType
<1>3. /\ pc' \in [Requests -> {pc[s] : s \in Requests} \cup {"commit", "lock"}]
      /\ pc'[r] \in {"commit", "lock"} /\ \A s \in Requests \ {r} : pc'[s] = pc[s]
  BY DEF BeginAll, TypeOK, RequestType, Goto
<1>4. /\ cur' \in [Requests -> Customers] /\ todo' \in [Requests -> SUBSET Customers]
      /\ \A s \in Requests \ {r} : cur'[s] = cur[s]
  <2> DEFINE all == {c \in Customers : db[c] # NoDomain}
  <2>1. cur \in [Requests -> Customers] /\ todo \in [Requests -> SUBSET Customers]
    BY DEF TypeOK, RequestType
  <2>2. CASE UNCHANGED <<cur, todo>>
    BY <2>1, <2>2
  <2>3. CASE \E c \in all : /\ cur' = [cur EXCEPT ![r] = c]
                             /\ todo' = [todo EXCEPT ![r] = all \ {c}]
    <3>1. PICK c \in all : /\ cur' = [cur EXCEPT ![r] = c]
                           /\ todo' = [todo EXCEPT ![r] = all \ {c}]
      BY <2>3
    <3>2. c \in Customers /\ all \ {c} \in SUBSET Customers
      OBVIOUS
    <3> HIDE DEF all
    <3> QED BY <2>1, <3>1, <3>2
  <2> QED BY <2>2, <2>3 DEF BeginAll
<1>5. UNCHANGED <<ask, wrote, seen, ins, del, lock, want, calls, result>>
  BY DEF BeginAll, txn
<1>6. RequestType'
  <2>1. pc' \in [Requests -> {"idle", "insert", "load", "flush", "lock", "list", "calls",
                               "runtime", "next", "commit"} \cup Over]
    BY <1>3 DEF TypeOK, RequestType
  <2> QED BY <1>2, <1>4, <1>5, <2>1 DEF TypeOK, RequestType
<1>7. \A p \in wrote[r] : mem'[r][p[1]] # NoDomain
  BY DEF BeginAll, TypeOK, SessionHolds
<1>8. SessionHolds'
  BY <1>2, <1>3, <1>4, <1>5, <1>7 DEF TypeOK, SessionHolds
<1> QED BY <1>1, <1>6, <1>8 DEF TypeOK

LEMMA InsertDomainType ==
  ASSUME TypeOK, NEW r \in Requests, InsertDomain(r)
  PROVE  TypeOK'
<1>1. CASE Rollback(r)
  BY <1>1, RollbackType DEF InsertDomain
<1>2. CASE ~Rollback(r)
  <2>1. StoreType' /\ PbxType'
    BY <1>2 DEF InsertDomain, TypeOK, StoreType, PbxType, store, pbxVars
  <2>2. RequestType'
    <3>1. /\ lock' = [lock EXCEPT ![r][ask[r].c] = {"update"}]
          /\ lock \in [Requests -> [Customers -> SUBSET LockMode]]
          /\ ask[r].c \in Customers /\ {"update"} \in SUBSET LockMode
      BY <1>2, ConstantsAssumption DEF InsertDomain, TypeOK, RequestType, LockMode, Intent
    <3>2. lock' \in [Requests -> [Customers -> SUBSET LockMode]]
      BY <3>1, EntryUpdate
    <3> QED
      BY <1>2, <3>2 DEF InsertDomain, TypeOK, RequestType, Goto, session, run
  <2>3. SessionHolds'
    BY <1>2 DEF InsertDomain, TypeOK, RequestType, SessionHolds, Goto, session, run
  <2> QED BY <2>1, <2>2, <2>3 DEF TypeOK
<1> QED BY <1>1, <1>2

LEMMA LoadType ==
  ASSUME TypeOK, NEW r \in Requests, Load(r)
  PROVE  TypeOK'
<1>1. StoreType' /\ PbxType'
  BY DEF Load, TypeOK, StoreType, PbxType, store, pbxVars
<1>2. RequestType'
  BY DEF Load, TypeOK, StoreType, RequestType, RowsOf, Goto, txn, run
<1>3. SessionHolds'
  BY DEF Load, TypeOK, RequestType, SessionHolds, Goto, run
<1> QED BY <1>1, <1>2, <1>3 DEF TypeOK

LEMMA FlushType ==
  ASSUME TypeOK, NEW r \in Requests, Flush(r)
  PROVE  TypeOK'
<1>1. CASE Rollback(r)
  BY <1>1, RollbackType DEF Flush
<1>2. CASE ~Rollback(r)
  <2>1. StoreType' /\ PbxType'
    BY <1>2 DEF Flush, TypeOK, StoreType, PbxType, store, pbxVars
  <2>2. Added(r) \subseteq Row /\ Doomed(r) \cap rows \subseteq Row
    BY DEF Added, TypeOK, StoreType
  <2>3. FlushModes(r) \subseteq LockMode
    BY DEF FlushModes, LockMode
  <2>4. RequestType'
    <3>1. /\ lock' = [lock EXCEPT ![r][ask[r].c] = lock[r][ask[r].c] \cup FlushModes(r)]
          /\ lock \in [Requests -> [Customers -> SUBSET LockMode]]
          /\ ask[r].c \in Customers
      BY <1>2, ConstantsAssumption DEF Flush, TypeOK, RequestType, Intent
    <3>2. lock' \in [Requests -> [Customers -> SUBSET LockMode]]
      <4>1. lock[r][ask[r].c] \cup FlushModes(r) \in SUBSET LockMode
        BY <2>3, <3>1
      <4> QED BY <3>1, <4>1, EntryUpdate
    <3>3. /\ ins' = [ins EXCEPT ![r] = Added(r)]
          /\ del' = [del EXCEPT ![r] = Doomed(r) \cap rows]
          /\ pc' = [pc EXCEPT ![r] = "lock"]
          /\ UNCHANGED <<session, run>>
      BY <1>2 DEF Flush, Goto
    <3>4. ins' \in [Requests -> SUBSET Row] /\ del' \in [Requests -> SUBSET Row]
      BY <2>2, <3>3 DEF TypeOK, RequestType
    <3> QED BY <3>2, <3>3, <3>4 DEF TypeOK, RequestType, session, run
  <2>5. SessionHolds'
    BY <1>2 DEF Flush, TypeOK, RequestType, SessionHolds, Goto, session, run
  <2> QED BY <2>1, <2>4, <2>5 DEF TypeOK
<1> QED BY <1>1, <1>2

LEMMA ViewType == TypeOK => \A r \in Requests, c \in Customers : ItemsOf(View(r), c) \subseteq Item
  BY DEF TypeOK, StoreType, RequestType, ItemsOf, RowsOf, View, Row

LEMMA LockType ==
  ASSUME TypeOK, NEW r \in Requests, Lock(r)
  PROVE  TypeOK'
<1> DEFINE c == cur[r]
<1>1. CASE Rollback(r)
  BY <1>1, RollbackType DEF Lock
<1>2. CASE ~Rollback(r)
  <2>0. c \in Customers /\ NoDomain \notin Domain
    BY ConstantsAssumption DEF TypeOK, RequestType
  <2>1. StoreType' /\ PbxType'
    BY <1>2 DEF Lock, TypeOK, StoreType, PbxType, store, pbxVars
  <2>2. ItemsOf(View(r), c) \subseteq Item
    BY <2>0, ViewType
  <2>3. /\ mem' \in [Requests -> [Customers -> Domain \cup {NoDomain}]]
        /\ wrote' \in [Requests -> SUBSET (Customers \X Column)]
    <3>1. CASE UNCHANGED <<mem, wrote>>
      BY <3>1 DEF TypeOK, RequestType
    <3>2. CASE /\ mem' = [mem EXCEPT ![r][c] = db[c]]
               /\ wrote' = [wrote EXCEPT ![r] = {p \in wrote[r] : p[1] # c}]
      <4>1. mem \in [Requests -> [Customers -> Domain \cup {NoDomain}]]
            /\ db[c] \in Domain \cup {NoDomain}
            /\ wrote \in [Requests -> SUBSET (Customers \X Column)]
        BY <2>0 DEF TypeOK, RequestType, StoreType
      <4> QED BY <2>0, <3>2, <4>1, EntryUpdate
    <3> QED BY <1>2, <3>1, <3>2 DEF Lock
  <2>4. RequestType'
    <3>1. want' \in [Requests -> SUBSET Item]
      <4>1. want' = [want EXCEPT ![r] = ItemsOf(View(r), c)]
        BY <1>2 DEF Lock
      <4>2. want \in [Requests -> SUBSET Item]
        BY DEF TypeOK, RequestType
      <4> QED BY <2>2, <4>1, <4>2
    <3>2. lock' \in [Requests -> [Customers -> SUBSET LockMode]]
      <4>1. lock[r][c] \cup {"update"} \in SUBSET LockMode
        BY <2>0 DEF TypeOK, RequestType, LockMode
      <4>2. lock' = [lock EXCEPT ![r][c] = lock[r][c] \cup {"update"}]
        BY <1>2 DEF Lock
      <4>3. lock \in [Requests -> [Customers -> SUBSET LockMode]]
        BY DEF TypeOK, RequestType
      <4> QED BY <2>0, <4>1, <4>2, <4>3
    <3>3. pc' = [pc EXCEPT ![r] = "list"]
          /\ UNCHANGED <<ask, seen, ins, del, cur, todo, calls, result>>
      BY <1>2 DEF Lock, Goto
    <3> QED BY <2>3, <3>1, <3>2, <3>3 DEF TypeOK, RequestType
  <2>5. \A p \in wrote'[r] : mem'[r][p[1]] # NoDomain
    BY <1>2, <2>0 DEF Lock, TypeOK, RequestType, SessionHolds
  <2>6. mem'[r][c] # NoDomain
    BY <1>2, <2>0 DEF Lock, TypeOK, RequestType, SessionHolds, Current
  <2>7. SessionHolds'
    BY <1>2, <2>5, <2>6 DEF Lock, TypeOK, RequestType, SessionHolds, Goto
  <2> QED BY <2>1, <2>4, <2>7 DEF TypeOK
<1> QED BY <1>1, <1>2

(* The calls a reconcile plans are among those the client has.             *)
LEMMA PlanType ==
  ASSUME NEW desired \in SUBSET Numbers, NEW drift \in SUBSET Numbers, NEW wanted,
         NEW active \in BOOLEAN
  PROVE  Plan(desired, drift, wanted, active) \subseteq Call
  BY DEF Plan, Each, Call, None

LEMMA ListType ==
  ASSUME TypeOK, NEW r \in Requests, List(r)
  PROVE  TypeOK'
<1>1. cur[r] \in Customers /\ mem[r][cur[r]] \in Domain
  BY DEF List, TypeOK, RequestType, SessionHolds
<1>2. Active(r) \in BOOLEAN
  BY <1>1 DEF Active, Domain
<1>3. calls'[r] \subseteq Call /\ calls' = [calls EXCEPT ![r] = calls'[r]]
  <2> DEFINE desired == IF Active(r) THEN want[r] \cap Numbers ELSE {}
             actual == pbx[Dom(r)] \cap Numbers
  <2>1. Plan(desired, actual \ desired, want[r], Active(r)) \subseteq Call
    BY <1>2, PlanType
  <2> QED BY <2>1 DEF List, TypeOK, RequestType
<1>4. StoreType' /\ PbxType'
  BY DEF List, TypeOK, StoreType, PbxType, store, pbxVars
<1>5. RequestType'
  BY <1>3 DEF List, TypeOK, RequestType, Goto, session, txn
<1>6. SessionHolds'
  BY DEF List, TypeOK, RequestType, SessionHolds, Goto, session
<1> QED BY <1>4, <1>5, <1>6 DEF TypeOK

LEMMA EffectType ==
  ASSUME TypeOK, NEW r \in Requests, NEW k \in Call, Effect(r, k)
  PROVE  PbxType'
<1>1. pbx' \in [PbxDomains -> SUBSET Item]
  <2>1. k[1] \in {"createExt", "applyDialplan", "applyQueue"} => k[2] \in Item
    BY DEF Call, Item
  <2> QED BY <2>1 DEF TypeOK, PbxType, Effect, PbxAfter
<1>2. boxes' \in [PbxDomains -> SUBSET Numbers]
  <2>1. k[1] = "ensureBox" => k[2] \in Numbers
    BY DEF Call
  <2> QED BY <2>1 DEF TypeOK, PbxType, Effect, BoxesAfter
<1>3. routing' \in {"none", "plain", "recording"}
  BY DEF TypeOK, PbxType, Effect, RoutingAfter
<1> QED BY <1>1, <1>2, <1>3 DEF PbxType

LEMMA FollowupsType ==
  ASSUME NEW r \in Requests, NEW k \in Call
  PROVE  Followups(r, k) \subseteq Call
<1>1. k[1] = "dropExt" => k[2] \in Numbers
  BY DEF Call
<1> QED BY <1>1 DEF Followups, Each, Call

LEMMA PbxCallType ==
  ASSUME TypeOK, NEW r \in Requests, PbxCall(r)
  PROVE  TypeOK'
<1>1. PICK k \in Ready(r) :
        /\ Effect(r, k)
        /\ calls' = [calls EXCEPT ![r] = (@ \ {k}) \cup Followups(r, k)]
  BY DEF PbxCall
<1>2. calls[r] \subseteq Call /\ k \in Call
  BY DEF Ready, TypeOK, RequestType
<1>3. Followups(r, k) \subseteq Call
  BY <1>2, FollowupsType
<1>4. PbxType'
  BY <1>1, <1>2, EffectType
<1>5. StoreType'
  BY DEF PbxCall, TypeOK, StoreType, store
<1>6. RequestType'
  BY <1>1, <1>2, <1>3 DEF PbxCall, TypeOK, RequestType, session, txn
<1>7. SessionHolds'
  BY DEF PbxCall, TypeOK, SessionHolds, session
<1> QED BY <1>4, <1>5, <1>6, <1>7 DEF TypeOK

(* Concluding a reconcile keeps the request's variables typed.             *)
LEMMA ConcludeType ==
  ASSUME TypeOK, NEW r \in Requests, NEW status \in Status,
         pc[r] \in {"list", "calls"}, Conclude(r, status), PbxType'
  PROVE  TypeOK'
<1> DEFINE c == cur[r]
<1>1. c \in Customers /\ mem[r][c] \in Domain /\ NoDomain \notin Domain
  BY ConstantsAssumption DEF TypeOK, RequestType, SessionHolds
<1>2. [mem[r][c] EXCEPT !.sync = status] \in Domain
  BY <1>1 DEF Domain
<1>3. mem' = [mem EXCEPT ![r] = [mem[r] EXCEPT ![c] = [mem[r][c] EXCEPT !.sync = status]]]
  BY DEF Conclude
<1>4. StoreType'
  BY DEF Conclude, TypeOK, StoreType, store
<1>5. RequestType'
  <2>1. mem' \in [Requests -> [Customers -> Domain \cup {NoDomain}]]
    BY <1>1, <1>2, <1>3 DEF TypeOK, RequestType
  <2>2. wrote' \in [Requests -> SUBSET (Customers \X Column)]
    BY <1>1 DEF Conclude, TypeOK, RequestType, Column
  <2> QED
    BY <2>1, <2>2 DEF Conclude, Goto, TypeOK, RequestType, txn
<1>6. SessionHolds'
  <2>1. \A s \in Requests, x \in Customers : mem[s][x] # NoDomain => mem'[s][x] # NoDomain
    BY <1>1, <1>2, <1>3 DEF TypeOK, RequestType
  <2>2. \A p \in wrote'[r] : mem'[r][p[1]] # NoDomain
    <3>1. mem'[r][c] # NoDomain
      BY <1>1, <2>1
    <3>2. \A p \in wrote'[r] : p \in wrote[r] \/ p[1] = c
      BY DEF Conclude, TypeOK, RequestType
    <3>3. \A p \in wrote[r] : p[1] \in Customers /\ mem[r][p[1]] # NoDomain
      BY DEF TypeOK, RequestType, SessionHolds
    <3> QED BY <2>1, <3>1, <3>2, <3>3
  <2>3. pc'[r] \notin {"list", "calls", "idle"}
    BY DEF Conclude, Goto, TypeOK, RequestType
  <2>4. \A s \in Requests \ {r} : mem'[s] = mem[s] /\ wrote'[s] = wrote[s] /\ pc'[s] = pc[s]
    BY DEF Conclude, Goto, TypeOK, RequestType
  <2>5. cur' = cur
    BY DEF Conclude
  <2> QED BY <2>2, <2>3, <2>4, <2>5 DEF TypeOK, SessionHolds
<1> QED BY <1>4, <1>5, <1>6 DEF TypeOK

LEMMA SyncedType ==
  ASSUME TypeOK, NEW r \in Requests, Synced(r)
  PROVE  TypeOK'
<1>1. PbxType'
  BY DEF Synced, TypeOK, PbxType, pbxVars
<1> QED BY <1>1, ConcludeType DEF Synced, Status

LEMMA PbxUnavailableType ==
  ASSUME TypeOK, NEW r \in Requests, PbxUnavailable(r)
  PROVE  TypeOK'
<1>1. PbxType'
  <2>1. ASSUME NEW k \in Ready(r), Effect(r, k) PROVE PbxType'
    <3>1. k \in Call
      BY DEF Ready, TypeOK, RequestType
    <3> QED BY <2>1, <3>1, EffectType
  <2> QED BY <2>1 DEF PbxUnavailable, TypeOK, PbxType, pbxVars
<1> QED BY <1>1, ConcludeType DEF PbxUnavailable, Status

LEMMA RuntimeType ==
  ASSUME TypeOK, NEW r \in Requests, Runtime(r)
  PROVE  TypeOK'
<1>1. CASE Rollback(r)
  BY <1>1, RollbackType DEF Runtime
<1>2. CASE ~Rollback(r)
  BY <1>2 DEF Runtime, Goto, TypeOK, StoreType, PbxType, RequestType, SessionHolds,
              store, pbxVars, session, txn, run
<1> QED BY <1>1, <1>2

LEMMA NextDomainType ==
  ASSUME TypeOK, NEW r \in Requests, NextDomain(r)
  PROVE  TypeOK'
<1>1. StoreType' /\ PbxType'
  BY DEF NextDomain, TypeOK, StoreType, PbxType, store, pbxVars
<1>2. RequestType'
  BY DEF NextDomain, Goto, TypeOK, RequestType, session, txn
<1>3. SessionHolds'
  BY DEF NextDomain, Goto, TypeOK, RequestType, SessionHolds, session
<1> QED BY <1>1, <1>2, <1>3 DEF TypeOK

(* What a commit writes is a domain row or the absence of one.             *)
LEMMA MergedType ==
  ASSUME TypeOK, NEW r \in Requests, NEW c \in Customers
  PROVE  Merged(r, c) \in Domain \cup {NoDomain}
<1>1. mem[r][c] \in Domain \cup {NoDomain} /\ db[c] \in Domain \cup {NoDomain}
  BY DEF TypeOK, StoreType, RequestType
<1>2. ASSUME NEW col \in Column, <<c, col>> \in wrote[r]
      PROVE  mem[r][c] \in Domain
  <2>1. mem[r][c] # NoDomain
    BY <1>2 DEF TypeOK, SessionHolds
  <2> QED BY <1>1, <2>1
<1>3. CASE db[c] = NoDomain
  BY <1>1, <1>3 DEF Merged
<1>4. CASE db[c] # NoDomain
  BY <1>1, <1>2, <1>4 DEF Merged, Domain, Column
<1> QED BY <1>3, <1>4

LEMMA CommitType ==
  ASSUME TypeOK, NEW r \in Requests, Commit(r)
  PROVE  TypeOK'
<1>1. CASE Rollback(r)
  BY <1>1, RollbackType DEF Commit
<1>2. CASE ~Rollback(r)
  <2>1. StoreType'
    <3>1. db' = [c \in Customers |-> Merged(r, c)] /\ rows' = View(r)
      BY <1>2 DEF Commit
    <3>2. View(r) \subseteq Row
      BY DEF View, TypeOK, StoreType, RequestType
    <3> QED BY <3>1, <3>2, MergedType DEF StoreType
  <2>2. PbxType'
    BY DEF Commit, TypeOK, PbxType, pbxVars
  <2>3. RequestType' /\ SessionHolds'
    BY <1>2, LeaveType DEF Commit, TypeOK, Over
  <2> QED BY <2>1, <2>2, <2>3 DEF TypeOK
<1> QED BY <1>1, <1>2

LEMMA NextType == TypeOK /\ [Next]_vars => TypeOK'
<1> SUFFICES ASSUME TypeOK, [Next]_vars PROVE TypeOK'
  OBVIOUS
<1>1. ASSUME NEW r \in Requests, Work(r) PROVE TypeOK'
  <2>1. CASE Begin(r) BY <2>1, BeginType
  <2>2. CASE BeginNew(r) BY <2>2, BeginNewType
  <2>3. CASE Refuse(r) BY <2>3, RollbackType DEF Refuse
  <2>4. CASE BeginAll(r) BY <2>4, BeginAllType
  <2>5. CASE InsertDomain(r) BY <2>5, InsertDomainType
  <2>6. CASE Load(r) BY <2>6, LoadType
  <2>7. CASE Flush(r) BY <2>7, FlushType
  <2>8. CASE Lock(r) BY <2>8, LockType
  <2>9. CASE List(r) BY <2>9, ListType
  <2>10. CASE PbxCall(r) BY <2>10, PbxCallType
  <2>11. CASE Synced(r) BY <2>11, SyncedType
  <2>12. CASE Runtime(r) BY <2>12, RuntimeType
  <2>13. CASE NextDomain(r) BY <2>13, NextDomainType
  <2>14. CASE Commit(r) BY <2>14, CommitType
  <2>15. CASE DeadlockVictim(r) BY <2>15, RollbackType DEF DeadlockVictim
  <2> QED
    BY <1>1, <2>1, <2>2, <2>3, <2>4, <2>5, <2>6, <2>7, <2>8, <2>9, <2>10, <2>11, <2>12,
       <2>13, <2>14, <2>15 DEF Work
<1>2. ASSUME NEW r \in Requests, Fault(r) PROVE TypeOK'
  BY <1>2, PbxUnavailableType, RollbackType DEF Fault, PbxRejects, Abort
<1>3. CASE UNCHANGED vars
  BY <1>3 DEF vars, store, pbxVars, session, txn, run, TypeOK, StoreType, PbxType,
              RequestType, SessionHolds
<1> QED BY <1>1, <1>2, <1>3 DEF Next

(* Every reachable state is well typed and every request works on objects  *)
(* its session has loaded: no handler or reconcile step reads a domain that *)
(* is not there, for any number of customers, requests and intents.         *)
THEOREM TypeCorrect == Spec => []TypeOK
BY InitType, NextType, PTL DEF Spec

-----------------------------------------------------------------------------
(* The row lock.                                                            *)

(* A step of r leaves the other requests alone.                            *)
Local(r) ==
  /\ ask' = ask
  /\ \A s \in Requests \ {r} :
       pc'[s] = pc[s] /\ wrote'[s] = wrote[s] /\ lock'[s] = lock[s] /\ cur'[s] = cur[s]
       /\ todo'[s] = todo[s]

LEMMA InitLocks == Init => LocksExclude
<1> SUFFICES ASSUME NEW s \in Start, InitFrom(s) PROVE LocksExclude
  BY DEF Init
<1>1. \A r \in Requests :
        pc[r] = "idle" /\ lock[r] = Unlocked /\ wrote[r] = {} /\ todo[r] = {}
        /\ cur[r] = ask[r].c
  BY DEF InitFrom
<1> QED
  BY <1>1 DEF LocksExclude, LockExclusive, LockBacked, LockHeld, Unlocked

(* Steps that keep the committed domains and the locks of r.               *)
LEMMA FrameLocks ==
  ASSUME LocksExclude, NEW r \in Requests, Local(r), db' = db, lock'[r] = lock[r],
         LockHeld(r)',
         \A c \in Customers : <<c, "row">> \in wrote[r] /\ lock[r][c] # {} =>
           <<c, "row">> \in wrote'[r]
  PROVE  LocksExclude'
<1>1. LockExclusive'
  BY DEF LocksExclude, LockExclusive, Local
<1>2. LockBacked'
  BY DEF LocksExclude, LockBacked, Local
<1>3. \A s \in Requests \ {r} : LockHeld(s)'
  BY DEF LocksExclude, LockHeld, Local
<1> QED BY <1>1, <1>2, <1>3 DEF LocksExclude

(* A transaction that ends holds no lock.                                  *)
LEMMA LeaveLocks ==
  ASSUME TypeOK, NEW r \in Requests, NEW label \in Over, Leave(r, label)
  PROVE  /\ Local(r) /\ lock'[r] = Unlocked /\ wrote'[r] = {} /\ todo'[r] = {}
         /\ pc'[r] \in Over /\ cur'[r] = cur[r]
  BY DEF Leave, Goto, TypeOK, RequestType, Local

LEMMA RollbackLocks ==
  ASSUME TypeOK, LocksExclude, NEW r \in Requests, Rollback(r)
  PROVE  LocksExclude'
<1>1. /\ Local(r) /\ lock'[r] = Unlocked /\ wrote'[r] = {} /\ todo'[r] = {}
      /\ pc'[r] \in Over /\ cur'[r] = cur[r] /\ db' = db
  BY LeaveLocks DEF Rollback, Over, store
<1>2. LockExclusive'
  BY <1>1 DEF LocksExclude, LockExclusive, Local, Unlocked
<1>3. LockBacked'
  BY <1>1 DEF LocksExclude, LockBacked, Local, Unlocked
<1>4. LockHeld(r)'
  BY <1>1 DEF LocksExclude, LockHeld, Local, Over
<1>5. \A s \in Requests \ {r} : LockHeld(s)'
  BY <1>1 DEF LocksExclude, LockHeld, Local
<1> QED BY <1>2, <1>3, <1>4, <1>5 DEF LocksExclude

LEMMA BeginLocks ==
  ASSUME TypeOK, LocksExclude, NEW r \in Requests, Begin(r)
  PROVE  LocksExclude'
<1>1. /\ Local(r) /\ db' = db /\ lock' = lock /\ cur' = cur /\ todo' = todo
      /\ wrote'[r] = {ask[r].c} \X Dirty(ask[r], db[ask[r].c])
      /\ pc[r] = "idle" /\ pc'[r] \in {"lock", "flush", "load"}
  BY DEF Begin, Goto, TypeOK, RequestType, Local, store, txn, run
<1>2. wrote[r] = {}
  BY <1>1 DEF TypeOK, SessionHolds
<1>3. \A col \in Dirty(ask[r], db[ask[r].c]) :
        col # "row" /\ (col = "drop" => ask[r].op = "deprovision")
  BY DEF Dirty
<1>4. LockHeld(r)'
  <2>1. LockHeld(r)
    BY DEF LocksExclude
  <2> QED BY <1>1, <1>3, <2>1 DEF LockHeld, Local
<1> QED BY <1>1, <1>2, <1>4, FrameLocks

LEMMA BeginNewLocks ==
  ASSUME TypeOK, LocksExclude, NEW r \in Requests, BeginNew(r)
  PROVE  LocksExclude'
<1>1. /\ Local(r) /\ db' = db /\ lock' = lock /\ cur' = cur /\ todo' = todo
      /\ wrote'[r] = {<<ask[r].c, "row">>}
      /\ pc[r] = "idle" /\ pc'[r] = "insert"
  BY DEF BeginNew, Goto, TypeOK, RequestType, Local, store, txn, run
<1>2. wrote[r] = {}
  BY <1>1 DEF TypeOK, SessionHolds
<1>3. LockHeld(r)'
  <2>1. LockHeld(r)
    BY DEF LocksExclude
  <2> QED BY <1>1, <2>1 DEF LockHeld, Local
<1> QED BY <1>1, <1>2, <1>3, FrameLocks

LEMMA BeginAllLocks ==
  ASSUME TypeOK, LocksExclude, NEW r \in Requests, BeginAll(r)
  PROVE  LocksExclude'
<1>1. /\ Local(r) /\ db' = db /\ lock' = lock /\ wrote' = wrote /\ ask[r].op = "resyncAll"
      /\ pc[r] = "idle" /\ pc'[r] \in {"commit", "lock"}
  BY DEF BeginAll, Goto, TypeOK, RequestType, Local, store, txn
<1>2. wrote[r] = {}
  BY <1>1 DEF TypeOK, SessionHolds
<1>3. LockHeld(r)'
  <2>1. LockHeld(r)
    BY DEF LocksExclude
  <2> QED BY <1>1, <1>2, <2>1 DEF LockHeld, Local
<1> QED BY <1>1, <1>2, <1>3, FrameLocks

(* Steps that take one more lock mode on the row of c.                     *)
LEMMA GrowLocks ==
  ASSUME LocksExclude, NEW r \in Requests, NEW c \in Customers, NEW modes,
         Local(r), db' = db, LockHeld(r)',
         \A x \in Customers \ {c} : lock'[r][x] = lock[r][x],
         lock'[r][c] = lock[r][c] \cup modes,
         modes # {} => db[c] # NoDomain \/ <<c, "row">> \in wrote'[r],
         \A x \in Customers : <<x, "row">> \in wrote[r] => <<x, "row">> \in wrote'[r],
         \A s \in Requests \ {r} :
           /\ modes # {} => "update" \notin lock[s][c]
           /\ "update" \in modes => lock[s][c] = {}
  PROVE  LocksExclude'
<1>1. LockExclusive'
  <2> SUFFICES ASSUME NEW a \in Requests, NEW b \in Requests, NEW x \in Customers,
                      a # b, "update" \in lock'[a][x]
               PROVE  lock'[b][x] = {}
    BY DEF LockExclusive
  <2>1. CASE a = r
    BY <2>1 DEF LocksExclude, LockExclusive, Local
  <2>2. CASE b = r
    BY <2>2 DEF LocksExclude, LockExclusive, Local
  <2>3. CASE a # r /\ b # r
    BY <2>3 DEF LocksExclude, LockExclusive, Local
  <2> QED BY <2>1, <2>2, <2>3
<1>2. LockBacked'
  BY DEF LocksExclude, LockBacked, Local
<1>3. \A s \in Requests \ {r} : LockHeld(s)'
  BY DEF LocksExclude, LockHeld, Local
<1> QED BY <1>1, <1>2, <1>3 DEF LocksExclude

LEMMA InsertDomainLocks ==
  ASSUME TypeOK, LocksExclude, NEW r \in Requests, InsertDomain(r)
  PROVE  LocksExclude'
<1>1. CASE Rollback(r)
  BY <1>1, RollbackLocks
<1>2. CASE ~Rollback(r)
  <2> DEFINE c == ask[r].c
  <2>1. c \in Customers
    BY ConstantsAssumption DEF TypeOK, RequestType, Intent
  <2>2. /\ Local(r) /\ db' = db /\ wrote' = wrote /\ cur' = cur /\ todo' = todo
        /\ pc[r] = "insert" /\ pc'[r] = "load" /\ db[c] = NoDomain
        /\ \A s \in Requests \ {r} : ~InsertedBy(s, c)
    BY <1>2 DEF InsertDomain, Goto, TypeOK, RequestType, Local, store, session, run
  <2>3. /\ \A x \in Customers \ {c} : lock'[r][x] = lock[r][x]
        /\ lock'[r][c] = {"update"}
    <3>1. lock' = [lock EXCEPT ![r][c] = {"update"}]
          /\ lock \in [Requests -> [Customers -> SUBSET LockMode]]
          /\ {"update"} \in SUBSET LockMode
      BY <1>2 DEF InsertDomain, TypeOK, RequestType, LockMode
    <3> QED BY <2>1, <3>1, EntryUpdate
  <2> HIDE DEF c
  <2>a. \A s \in Requests : LockHeld(s)
    BY DEF LocksExclude
  <2>4. \A x \in Customers : lock[r][x] = {}
    <3>1. lock[r] = Unlocked
      BY <2>2, <2>a DEF LockHeld
    <3> QED BY <3>1 DEF Unlocked
  <2>5. \A s \in Requests \ {r} : lock[s][c] = {}
    <3> SUFFICES ASSUME NEW s \in Requests \ {r}, lock[s][c] # {} PROVE FALSE
      OBVIOUS
    <3>1. <<c, "row">> \in wrote[s]
      BY <2>1, <2>2 DEF LocksExclude, LockBacked
    <3>2. pc[s] # "insert"
      <4>1. pc[s] = "insert" => lock[s] = Unlocked
        BY <2>a DEF LockHeld
      <4> QED BY <2>1, <4>1 DEF Unlocked
    <3>3. "update" \in lock[s][c]
      BY <2>1, <2>a, <3>1, <3>2 DEF LockHeld
    <3> QED BY <2>2, <3>1, <3>3 DEF InsertedBy
  <2>6. LockHeld(r)'
    <3>1. c = ask[r].c /\ LockHeld(r)
      BY <2>a DEF c
    <3> QED BY <2>1, <2>2, <2>3, <3>1 DEF LockHeld, Local
  <2>7. <<c, "row">> \in wrote[r] /\ lock'[r][c] = lock[r][c] \cup {"update"}
    <3>1. c = ask[r].c /\ LockHeld(r)
      BY <2>a DEF c
    <3> QED BY <2>1, <2>2, <2>3, <2>4, <3>1 DEF LockHeld
  <2> QED BY <2>1, <2>2, <2>3, <2>5, <2>6, <2>7, GrowLocks
<1> QED BY <1>1, <1>2

LEMMA LoadLocks ==
  ASSUME TypeOK, LocksExclude, NEW r \in Requests, Load(r)
  PROVE  LocksExclude'
<1>1. /\ Local(r) /\ db' = db /\ lock' = lock /\ wrote' = wrote /\ cur' = cur
      /\ todo' = todo /\ pc[r] = "load" /\ pc'[r] = "flush"
  BY DEF Load, Goto, TypeOK, RequestType, Local, store, txn, run
<1>2. LockHeld(r)'
  <2>1. LockHeld(r)
    BY DEF LocksExclude
  <2> QED BY <1>1, <2>1 DEF LockHeld, Local
<1> QED BY <1>1, <1>2, FrameLocks

LEMMA FlushLocks ==
  ASSUME TypeOK, LocksExclude, NEW r \in Requests, Flush(r)
  PROVE  LocksExclude'
<1>1. CASE Rollback(r)
  BY <1>1, RollbackLocks
<1>2. CASE ~Rollback(r)
  <2> DEFINE c == ask[r].c
             modes == FlushModes(r)
  <2>1. c \in Customers
    BY ConstantsAssumption DEF TypeOK, RequestType, Intent
  <2>2. /\ Local(r) /\ db' = db /\ wrote' = wrote /\ cur' = cur /\ todo' = todo
        /\ pc[r] = "flush" /\ pc'[r] = "lock"
    BY <1>2 DEF Flush, Goto, TypeOK, RequestType, Local, store, session, run
  <2>3. /\ Current(r, c) \/ modes = {}
        /\ Free(r, c, modes) \/ ~(Current(r, c) \/ modes = {})
        /\ lock' = [lock EXCEPT ![r][c] = lock[r][c] \cup modes]
    BY <1>2 DEF Flush
  <2>4. modes \subseteq LockMode /\ "update" \notin modes
    BY DEF FlushModes, LockMode
  <2>5. /\ \A x \in Customers \ {c} : lock'[r][x] = lock[r][x]
        /\ lock'[r][c] = lock[r][c] \cup modes
    <3>1. /\ lock \in [Requests -> [Customers -> SUBSET LockMode]]
          /\ lock[r][c] \cup modes \in SUBSET LockMode
      BY <2>1, <2>4 DEF TypeOK, RequestType
    <3> QED BY <2>1, <2>3, <3>1, EntryUpdate
  <2>6. modes # {} => db[c] # NoDomain \/ <<c, "row">> \in wrote'[r]
    BY <2>2, <2>3 DEF Current
  <2>7. \A s \in Requests \ {r} : modes # {} => "update" \notin lock[s][c]
    BY <2>3, <2>4 DEF Free, Conflicts, LockMode
  <2>8. LockHeld(r)'
    <3>1. LockHeld(r)
      BY DEF LocksExclude
    <3> QED BY <2>1, <2>2, <2>5, <3>1 DEF LockHeld, Local
  <2> QED BY <2>1, <2>2, <2>4, <2>5, <2>6, <2>7, <2>8, GrowLocks
<1> QED BY <1>1, <1>2

LEMMA LockLocks ==
  ASSUME TypeOK, LocksExclude, NEW r \in Requests, Lock(r)
  PROVE  LocksExclude'
<1>1. CASE Rollback(r)
  BY <1>1, RollbackLocks
<1>2. CASE ~Rollback(r)
  <2> DEFINE c == cur[r]
  <2>1. c \in Customers
    BY DEF TypeOK, RequestType
  <2>2. /\ Local(r) /\ db' = db /\ cur' = cur /\ todo' = todo
        /\ pc[r] = "lock" /\ pc'[r] = "list"
        /\ <<c, "row">> \in wrote[r] \/ db[c] # NoDomain
        /\ Free(r, c, {"update"})
    BY <1>2 DEF Lock, Goto, TypeOK, RequestType, Local, store
  <2>3. \/ wrote'[r] = wrote[r]
        \/ <<c, "row">> \notin wrote[r] /\ wrote'[r] = {p \in wrote[r] : p[1] # c}
    BY <1>2 DEF Lock, TypeOK, RequestType
  <2>a. \A p \in wrote'[r] : p \in wrote[r]
    BY <2>3
  <2>4. \A x \in Customers : <<x, "row">> \in wrote[r] => <<x, "row">> \in wrote'[r]
    BY <2>3
  <2>5. /\ \A x \in Customers \ {c} : lock'[r][x] = lock[r][x]
        /\ lock'[r][c] = lock[r][c] \cup {"update"}
    <3>1. /\ lock' = [lock EXCEPT ![r][c] = lock[r][c] \cup {"update"}]
          /\ lock \in [Requests -> [Customers -> SUBSET LockMode]]
          /\ lock[r][c] \cup {"update"} \in SUBSET LockMode
      <4>1. lock' = [lock EXCEPT ![r][c] = lock[r][c] \cup {"update"}]
        BY <1>2 DEF Lock
      <4> QED BY <2>1, <4>1 DEF TypeOK, RequestType, LockMode
    <3> QED BY <2>1, <3>1, EntryUpdate
  <2>6. \A s \in Requests \ {r} : lock[s][c] = {}
    BY <2>2 DEF Free, Conflicts
  <2>7. LockHeld(r)'
    <3> HIDE DEF c
    <3>1. LockHeld(r) /\ c = cur[r]
      BY DEF LocksExclude, c
    <3>2. \A x \in Customers : lock[r][x] \subseteq lock'[r][x]
      BY <2>5
    <3>3. "update" \in lock'[r][cur[r]]
      BY <2>5, <3>1
    <3>4. \A x \in Customers : <<x, "row">> \in wrote'[r] =>
            x = ask[r].c /\ "update" \in lock'[r][x]
      BY <2>2, <2>a, <3>1, <3>2 DEF LockHeld
    <3>5. \A x \in Customers : <<x, "drop">> \in wrote'[r] =>
            x = ask[r].c /\ ask[r].op = "deprovision"
      BY <2>a, <3>1 DEF LockHeld
    <3> QED BY <2>2, <3>1, <3>3, <3>4, <3>5 DEF LockHeld, Local
  <2> QED BY <2>1, <2>2, <2>4, <2>5, <2>6, <2>7, GrowLocks
<1> QED BY <1>1, <1>2

LEMMA ListLocks ==
  ASSUME TypeOK, LocksExclude, NEW r \in Requests, List(r)
  PROVE  LocksExclude'
<1>1. /\ Local(r) /\ db' = db /\ lock' = lock /\ wrote' = wrote /\ cur' = cur
      /\ todo' = todo /\ pc[r] = "list" /\ pc'[r] = "calls"
  BY DEF List, Goto, TypeOK, RequestType, Local, store, session, txn
<1>2. LockHeld(r)'
  <2>1. LockHeld(r)
    BY DEF LocksExclude
  <2> QED BY <1>1, <2>1 DEF LockHeld, Local
<1> QED BY <1>1, <1>2, FrameLocks

LEMMA PbxCallLocks ==
  ASSUME TypeOK, LocksExclude, NEW r \in Requests, PbxCall(r)
  PROVE  LocksExclude'
<1>1. /\ Local(r) /\ db' = db /\ lock' = lock /\ wrote' = wrote /\ cur' = cur
      /\ todo' = todo /\ pc' = pc
  BY DEF PbxCall, Local, store, session, txn
<1>2. LockHeld(r)'
  <2>1. LockHeld(r)
    BY DEF LocksExclude
  <2> QED BY <1>1, <2>1 DEF LockHeld, Local
<1> QED BY <1>1, <1>2, FrameLocks

LEMMA ConcludeLocks ==
  ASSUME TypeOK, LocksExclude, NEW r \in Requests, NEW status \in Status,
         pc[r] \in {"list", "calls"}, Conclude(r, status)
  PROVE  LocksExclude'
<1>1. /\ Local(r) /\ db' = db /\ lock' = lock /\ cur' = cur /\ todo' = todo
      /\ pc'[r] \in {"runtime", "next", "commit"} /\ (pc'[r] = "next" => todo[r] # {})
  BY DEF Conclude, Goto, TypeOK, RequestType, Local, store, txn
<1>2. /\ \A p \in wrote[r] : p \in wrote'[r]
      /\ \A p \in wrote'[r] : p \in wrote[r] \/ p = <<cur[r], "sync">>
  BY DEF Conclude, TypeOK, RequestType
<1>3. LockHeld(r)'
  <2>1. LockHeld(r)
    BY DEF LocksExclude
  <2> QED BY <1>1, <1>2, <2>1 DEF LockHeld, Local
<1> QED BY <1>1, <1>2, <1>3, FrameLocks

LEMMA RuntimeLocks ==
  ASSUME TypeOK, LocksExclude, NEW r \in Requests, Runtime(r)
  PROVE  LocksExclude'
<1>1. CASE Rollback(r)
  BY <1>1, RollbackLocks
<1>2. CASE ~Rollback(r)
  <2>1. /\ Local(r) /\ db' = db /\ lock' = lock /\ wrote' = wrote /\ cur' = cur
        /\ todo' = todo /\ pc[r] = "runtime" /\ pc'[r] \in {"next", "commit"}
        /\ pc'[r] = "next" => todo[r] # {}
    BY <1>2 DEF Runtime, Goto, TypeOK, RequestType, Local, store, session, txn, run
  <2>2. LockHeld(r)'
    <3>1. LockHeld(r)
      BY DEF LocksExclude
    <3> QED BY <2>1, <3>1 DEF LockHeld, Local
  <2> QED BY <2>1, <2>2, FrameLocks
<1> QED BY <1>1, <1>2

LEMMA NextDomainLocks ==
  ASSUME TypeOK, LocksExclude, NEW r \in Requests, NextDomain(r)
  PROVE  LocksExclude'
<1>1. /\ Local(r) /\ db' = db /\ lock' = lock /\ wrote' = wrote
      /\ pc[r] = "next" /\ pc'[r] = "lock"
  BY DEF NextDomain, Goto, TypeOK, RequestType, Local, store, session, txn
<1>2. ask[r].op = "resyncAll"
  BY <1>1 DEF LocksExclude, LockHeld
<1>3. LockHeld(r)'
  <2>1. LockHeld(r)
    BY DEF LocksExclude
  <2> QED BY <1>1, <1>2, <2>1 DEF LockHeld, Local
<1> QED BY <1>1, <1>3, FrameLocks

(* Only the request that holds the row lock makes the row disappear.       *)
LEMMA CommitLocks ==
  ASSUME TypeOK, LocksExclude, NEW r \in Requests, Commit(r)
  PROVE  LocksExclude'
<1>1. CASE Rollback(r)
  BY <1>1, RollbackLocks
<1>2. CASE ~Rollback(r)
  <2>1. /\ Local(r) /\ lock'[r] = Unlocked /\ wrote'[r] = {} /\ todo'[r] = {}
        /\ pc[r] = "commit" /\ pc'[r] \in Over /\ cur'[r] = cur[r]
        /\ db' = [c \in Customers |-> Merged(r, c)]
    BY <1>2, LeaveLocks DEF Commit, Over
  <2>2. LockExclusive'
    BY <2>1 DEF LocksExclude, LockExclusive, Local, Unlocked
  <2>3. LockBacked'
    <3> SUFFICES ASSUME NEW s \in Requests, NEW c \in Customers, lock'[s][c] # {},
                        <<c, "row">> \notin wrote'[s]
                 PROVE  db'[c] # NoDomain
      BY DEF LockBacked
    <3>1. s # r /\ lock[s][c] # {} /\ db[c] # NoDomain
      BY <2>1 DEF LocksExclude, LockBacked, Local, Unlocked
    <3>2. <<c, "drop">> \notin wrote[r]
      <4> SUFFICES ASSUME <<c, "drop">> \in wrote[r] PROVE FALSE
        OBVIOUS
      <4>1. "update" \in lock[r][c]
        <5>1. LockHeld(r)
          BY DEF LocksExclude
        <5>2. c = ask[r].c /\ ask[r].op = "deprovision"
          BY <5>1 DEF LockHeld
        <5> QED BY <2>1, <5>1, <5>2 DEF LockHeld
      <4> QED BY <3>1, <4>1 DEF LocksExclude, LockExclusive
    <3>3. <<c, "row">> \in wrote[r] => mem[r][c] # NoDomain
      BY DEF TypeOK, SessionHolds
    <3>4. db[c] \in Domain /\ NoDomain \notin Domain
      BY <3>1, ConstantsAssumption DEF TypeOK, StoreType
    <3>5. Merged(r, c) # NoDomain
      <4>1. CASE <<c, "row">> \in wrote[r]
        BY <3>1, <3>2, <3>3, <4>1 DEF Merged
      <4>2. CASE <<c, "row">> \notin wrote[r]
        <5>1. Merged(r, c) \in Domain
          <6>1. \A col \in Column : <<c, col>> \in wrote[r] => mem[r][c] \in Domain
            BY DEF TypeOK, RequestType, SessionHolds
          <6> QED BY <3>1, <3>2, <3>4, <4>2, <6>1 DEF Merged, Domain, Column
        <5> QED BY <3>4, <5>1
      <4> QED BY <4>1, <4>2
    <3> QED BY <2>1, <3>5
  <2>4. LockHeld(r)'
    BY <2>1 DEF LocksExclude, LockHeld, Local, Over
  <2>5. \A s \in Requests \ {r} : LockHeld(s)'
    BY <2>1 DEF LocksExclude, LockHeld, Local
  <2> QED BY <2>2, <2>3, <2>4, <2>5 DEF LocksExclude
<1> QED BY <1>1, <1>2

LEMMA NextLocks == TypeOK /\ LocksExclude /\ [Next]_vars => LocksExclude'
<1> SUFFICES ASSUME TypeOK, LocksExclude, [Next]_vars PROVE LocksExclude'
  OBVIOUS
<1>1. ASSUME NEW r \in Requests, Work(r) PROVE LocksExclude'
  <2>1. CASE Begin(r) BY <2>1, BeginLocks
  <2>2. CASE BeginNew(r) BY <2>2, BeginNewLocks
  <2>3. CASE Refuse(r) BY <2>3, RollbackLocks DEF Refuse
  <2>4. CASE BeginAll(r) BY <2>4, BeginAllLocks
  <2>5. CASE InsertDomain(r) BY <2>5, InsertDomainLocks
  <2>6. CASE Load(r) BY <2>6, LoadLocks
  <2>7. CASE Flush(r) BY <2>7, FlushLocks
  <2>8. CASE Lock(r) BY <2>8, LockLocks
  <2>9. CASE List(r) BY <2>9, ListLocks
  <2>10. CASE PbxCall(r) BY <2>10, PbxCallLocks
  <2>11. CASE Synced(r) BY <2>11, ConcludeLocks DEF Synced, Status
  <2>12. CASE Runtime(r) BY <2>12, RuntimeLocks
  <2>13. CASE NextDomain(r) BY <2>13, NextDomainLocks
  <2>14. CASE Commit(r) BY <2>14, CommitLocks
  <2>15. CASE DeadlockVictim(r) BY <2>15, RollbackLocks DEF DeadlockVictim
  <2> QED
    BY <1>1, <2>1, <2>2, <2>3, <2>4, <2>5, <2>6, <2>7, <2>8, <2>9, <2>10, <2>11, <2>12,
       <2>13, <2>14, <2>15 DEF Work
<1>2. ASSUME NEW r \in Requests, Fault(r) PROVE LocksExclude'
  <2>1. CASE PbxUnavailable(r)
    BY <2>1, ConcludeLocks DEF PbxUnavailable, Status
  <2>2. CASE PbxRejects(r) \/ Abort(r)
    BY <2>2, RollbackLocks DEF PbxRejects, Abort
  <2> QED BY <1>2, <2>1, <2>2 DEF Fault
<1>3. CASE UNCHANGED vars
  BY <1>3 DEF vars, store, session, txn, run, LocksExclude, LockExclusive, LockBacked, LockHeld
<1> QED BY <1>1, <1>2, <1>3 DEF Next

(* The row lock excludes every other lock on its customer for as long as a *)
(* request reconciles, for any number of requests: reconcile/voice.py:68.  *)
THEOREM LocksHeld == Spec => []LocksExclude
BY InitType, NextType, InitLocks, NextLocks, PTL DEF Spec

(* Two requests never reconcile the same customer at once, whatever the    *)
(* number of requests: what the comment at reconcile/voice.py:65 promises. *)
THEOREM Serialized == Spec => []OneReconcilePerCustomer
<1>1. TypeOK /\ LocksExclude => OneReconcilePerCustomer
  <2> SUFFICES ASSUME TypeOK, LocksExclude, NEW r \in Requests, NEW s \in Requests,
                      r # s, Reconciling(r), Reconciling(s), cur[r] = cur[s]
               PROVE  FALSE
    BY DEF OneReconcilePerCustomer
  <2>1. cur[r] \in Customers /\ "update" \in lock[r][cur[r]] /\ "update" \in lock[s][cur[r]]
    BY DEF TypeOK, RequestType, LocksExclude, LockHeld, Reconciling
  <2> QED BY <2>1 DEF LocksExclude, LockExclusive
<1> QED BY <1>1, TypeCorrect, LocksHeld, PTL

-----------------------------------------------------------------------------
(* A committed synced reconcile is what FusionPBX holds, of a customer that *)
(* shares its PBX domain with no other (SoleCustomers).                     *)
(*                                                                          *)
(* The argument: while a request has the customer's row for update, nobody  *)
(* else commits rows of that customer (Scoped) or calls the PBX for its     *)
(* domain (Owned), so what the reconciler read stays what it is about to    *)
(* commit, and the PBX differs from it by no more than the calls it has     *)
(* still to make (Doing).  With no call left they are equal, and a          *)
(* fleet-wide resync that goes on to other customers keeps it so (Settled). *)

(* A domain that a table or a session has for a customer is the customer's. *)
Owned ==
  /\ \A c \in Customers : db[c] # NoDomain => db[c].dom \in Given(c)
  /\ \A r \in Requests, c \in Customers : mem[r][c] # NoDomain => mem[r][c].dom \in Given(c)

(* A request edits rows of its own customer, a fleet-wide resync none.      *)
Scoped ==
  \A r \in Requests :
    /\ \A w \in seen[r] \cup ins[r] \cup del[r] : w.c = ask[r].c
    /\ ask[r].op = "resyncAll" => /\ ins[r] = {} /\ del[r] = {}
                                  /\ pc[r] \notin {"insert", "load", "flush"}

(* What PBX and boxes lack of the items to keep, or have beyond them, the   *)
(* calls that are due will change, and no call that is due spoils the rest. *)
Left(keep, on, box, due) ==
  /\ \A x \in Numbers \cap keep :
       /\ x \in on \/ <<"createExt", x>> \in due
       /\ x \in box \/ <<"ensureBox", x>> \in due
       /\ <<"dropExt", x>> \notin due /\ <<"dropBox", x>> \notin due
  /\ \A x \in Numbers \ keep :
       (x \notin on \/ <<"dropExt", x>> \in due) /\ <<"createExt", x>> \notin due
  /\ \A x \in Dialplans \cap keep :
       (x \in on \/ <<"applyDialplan", x>> \in due) /\ <<"dropDialplan", x>> \notin due
  /\ \A x \in Dialplans \ keep :
       /\ x \notin on \/ <<"dropDialplan", x>> \in due \/ <<"listDialplans", None>> \in due
       /\ <<"applyDialplan", x>> \notin due
  /\ \A x \in Queues \cap keep :
       (x \in on \/ <<"applyQueue", x>> \in due) /\ <<"dropQueue", x>> \notin due
  /\ \A x \in Queues \ keep :
       /\ x \notin on \/ <<"dropQueue", x>> \in due \/ <<"listQueues", None>> \in due
       /\ <<"applyQueue", x>> \notin due

Doing(r) ==
  /\ pc[r] \in {"list", "calls"} => want[r] = ItemsOf(View(r), cur[r])
  /\ pc[r] = "calls" /\ cur[r] \in SoleCustomers =>
       Left(Kept(r), pbx[Dom(r)], boxes[Dom(r)], calls[r])

(* The reconcile of c by r has ended.                                       *)
Visited(r, c) ==
  Reconciled(r, c) /\ (c # cur[r] \/ pc[r] \in {"runtime", "next", "commit"})

Applied(r, c) ==
  PbxIs(mem[r][c].dom, IF mem[r][c].active THEN ItemsOf(View(r), c) ELSE {})

(* What the session holds says the customer, alone on its domain, is synced.*)
Claims(r, c) == c \in SoleCustomers /\ mem[r][c].sync = "synced"

Settled(r) ==
  \A c \in Customers :
    Visited(r, c) => mem[r][c] # NoDomain /\ (Claims(r, c) => Applied(r, c))

Inv ==
  /\ TypeOK /\ LocksExclude /\ Owned /\ Scoped
  /\ \A r \in Requests : Doing(r) /\ Settled(r)

-----------------------------------------------------------------------------
(* One call.                                                                *)

(* What is on the PBX, in the boxes and due after the call k.               *)
OnAfter(on, k) ==
  CASE k[1] \in {"createExt", "applyDialplan", "applyQueue"} -> on \cup {k[2]}
    [] k[1] \in {"dropExt", "dropDialplan", "dropQueue"} -> on \ {k[2]}
    [] OTHER -> on
BoxAfter(box, k) ==
  CASE k[1] = "ensureBox" -> box \cup {k[2]}
    [] k[1] = "dropBox" -> box \ {k[2]}
    [] OTHER -> box
DueAfter(keep, on, due, k) ==
  (due \ {k}) \cup CASE k[1] = "dropExt" -> {<<"dropBox", k[2]>>}
                     [] k[1] = "listDialplans" -> Each("dropDialplan", (on \cap Dialplans) \ keep)
                     [] k[1] = "listQueues" -> Each("dropQueue", (on \cap Queues) \ keep)
                     [] OTHER -> {}

LEMMA CallKeeps ==
  ASSUME NEW keep, NEW on, NEW box, NEW due \in SUBSET Call, NEW k \in due,
         Left(keep, on, box, due)
  PROVE  Left(keep, OnAfter(on, k), BoxAfter(box, k), DueAfter(keep, on, due, k))
<1> USE ConstantsAssumption DEF Feature
<1>1. ASSUME NEW x \in Numbers, k = <<"createExt", x>>
      PROVE  Left(keep, OnAfter(on, k), BoxAfter(box, k), DueAfter(keep, on, due, k))
  BY <1>1 DEF OnAfter, BoxAfter, DueAfter, Left
<1>2. ASSUME NEW x \in Numbers, k = <<"dropBox", x>>
      PROVE  Left(keep, OnAfter(on, k), BoxAfter(box, k), DueAfter(keep, on, due, k))
  BY <1>2 DEF OnAfter, BoxAfter, DueAfter, Left
<1>3. ASSUME NEW x \in Numbers, k = <<"dropExt", x>>
      PROVE  Left(keep, OnAfter(on, k), BoxAfter(box, k), DueAfter(keep, on, due, k))
  BY <1>3 DEF OnAfter, BoxAfter, DueAfter, Left
<1>4. ASSUME NEW x \in Numbers, k = <<"ensureBox", x>>
      PROVE  Left(keep, OnAfter(on, k), BoxAfter(box, k), DueAfter(keep, on, due, k))
  BY <1>4 DEF OnAfter, BoxAfter, DueAfter, Left
<1>5. ASSUME NEW x \in Dialplans, k = <<"applyDialplan", x>>
      PROVE  Left(keep, OnAfter(on, k), BoxAfter(box, k), DueAfter(keep, on, due, k))
  BY <1>5 DEF OnAfter, BoxAfter, DueAfter, Left
<1>6. ASSUME NEW x \in Dialplans, k = <<"dropDialplan", x>>
      PROVE  Left(keep, OnAfter(on, k), BoxAfter(box, k), DueAfter(keep, on, due, k))
  BY <1>6 DEF OnAfter, BoxAfter, DueAfter, Left
<1>7. ASSUME NEW x \in Queues, k = <<"applyQueue", x>>
      PROVE  Left(keep, OnAfter(on, k), BoxAfter(box, k), DueAfter(keep, on, due, k))
  BY <1>7 DEF OnAfter, BoxAfter, DueAfter, Left
<1>8. ASSUME NEW x \in Queues, k = <<"dropQueue", x>>
      PROVE  Left(keep, OnAfter(on, k), BoxAfter(box, k), DueAfter(keep, on, due, k))
  BY <1>8 DEF OnAfter, BoxAfter, DueAfter, Left
<1>9. CASE k = <<"switch", None>> \/ k = <<"route", None>>
  BY <1>9 DEF OnAfter, BoxAfter, DueAfter, Left
<1>10. CASE k = <<"listDialplans", None>>
  BY <1>10 DEF OnAfter, BoxAfter, DueAfter, Left, Each
<1>11. CASE k = <<"listQueues", None>>
  BY <1>11 DEF OnAfter, BoxAfter, DueAfter, Left, Each
<1> QED
  BY <1>1, <1>2, <1>3, <1>4, <1>5, <1>6, <1>7, <1>8, <1>9, <1>10, <1>11 DEF Call

(* The calls a reconcile plans bring the PBX to what is kept.               *)
LEMMA PlanLeft ==
  ASSUME NEW wanted, NEW on, NEW box, NEW active \in BOOLEAN
  PROVE  LET desired == IF active THEN wanted \cap Numbers ELSE {}
             keep    == IF active THEN wanted ELSE {}
         IN  Left(keep, on, box, Plan(desired, (on \cap Numbers) \ desired, wanted, active))
<1>1. CASE active
  BY <1>1 DEF Plan, Each, Left
<1>2. CASE ~active
  BY <1>2 DEF Plan, Each, Left
<1> QED
  BY <1>1, <1>2

(* No call is left: PBX and boxes are as they should be.                    *)
LEMMA NothingLeft ==
  ASSUME NEW keep \in SUBSET Item, NEW on \in SUBSET Item, NEW box, Left(keep, on, box, {})
  PROVE  on = keep /\ keep \cap Numbers \subseteq box
  BY DEF Left, Item, Feature

-----------------------------------------------------------------------------
(* What a step of one request changes.                                      *)

Session(r) ==
  <<pc[r], mem[r], seen[r], ins[r], del[r], lock[r], cur[r], want[r], calls[r], ask[r]>>

(* Calls go to the domain of the customer that is being reconciled.         *)
Calling(r) == pc[r] \in {"list", "calls"}

(* A step of s leaves the others' sessions, the rows of customers it has    *)
(* not locked, and the PBX but for the domain it reconciles.                *)
Apart(s) ==
  /\ ask' = ask
  /\ \A r \in Requests \ {s} : UNCHANGED Session(r)
  /\ \A c \in Customers : "update" \in lock[s][c] \/ RowsOf(rows', c) = RowsOf(rows, c)
  /\ \A d \in PbxDomains : \/ pbx'[d] = pbx[d] /\ boxes'[d] = boxes[d]
                           \/ Calling(s) /\ d = Dom(s)

LEMMA LeaveApart ==
  ASSUME TypeOK, NEW r \in Requests, NEW label, Leave(r, label), UNCHANGED rows, UNCHANGED pbxVars
  PROVE  Apart(r)
  BY DEF Leave, Goto, TypeOK, RequestType, Apart, Session, pbxVars

LEMMA StepApart ==
  ASSUME Inv, NEW r \in Requests, Work(r) \/ Fault(r)
  PROVE  Apart(r)
<1>0. TypeOK
  BY DEF Inv
<1>1. CASE Rollback(r) /\ UNCHANGED pbxVars
  BY <1>0, <1>1, LeaveApart DEF Rollback, store
<1>2. CASE Begin(r) \/ BeginNew(r)
  BY <1>0, <1>2
     DEF Begin, BeginNew, Goto, TypeOK, RequestType, Apart, Session, store, pbxVars, txn, run
<1>3. CASE BeginAll(r)
  <2>1. \A s \in Requests \ {r} : cur'[s] = cur[s] /\ pc'[s] = pc[s]
    BY <1>0, <1>3 DEF BeginAll, Goto, TypeOK, RequestType
  <2>2. /\ mem' = [mem EXCEPT ![r] = db]
        /\ UNCHANGED <<store, pbxVars, ask, seen, txn, want, calls>>
    BY <1>3 DEF BeginAll
  <2> QED
    BY <1>0, <2>1, <2>2 DEF TypeOK, RequestType, Apart, Session, store, pbxVars, txn
<1>4. CASE InsertDomain(r)
  BY <1>0, <1>1, <1>4
     DEF InsertDomain, Goto, TypeOK, RequestType, Apart, Session, store, pbxVars, session, run
<1>5. CASE Load(r)
  BY <1>0, <1>5 DEF Load, Goto, TypeOK, RequestType, Apart, Session, store, pbxVars, txn, run
<1>6. CASE Flush(r)
  BY <1>0, <1>1, <1>6
     DEF Flush, Goto, TypeOK, RequestType, Apart, Session, store, pbxVars, session, run
<1>7. CASE Lock(r)
  BY <1>0, <1>1, <1>7 DEF Lock, Goto, TypeOK, RequestType, Apart, Session, store, pbxVars
<1>8. CASE List(r)
  BY <1>0, <1>8 DEF List, Goto, TypeOK, RequestType, Apart, Session, store, pbxVars, session, txn
<1>9. \A k : Effect(r, k) => \A d \in PbxDomains \ {Dom(r)} : pbx'[d] = pbx[d] /\ boxes'[d] = boxes[d]
  BY <1>0 DEF Effect, PbxAfter, BoxesAfter, TypeOK, PbxType
<1>10. CASE PbxCall(r)
  BY <1>0, <1>9, <1>10
     DEF PbxCall, TypeOK, RequestType, Apart, Calling, Session, store, session, txn
<1>11. ASSUME NEW status, Calling(r), Conclude(r, status),
              \A d \in PbxDomains \ {Dom(r)} : pbx'[d] = pbx[d] /\ boxes'[d] = boxes[d]
       PROVE  Apart(r)
  BY <1>0, <1>11 DEF Conclude, Goto, TypeOK, RequestType, Apart, Session, store, txn
<1>12. CASE Synced(r) \/ PbxUnavailable(r)
  BY <1>9, <1>11, <1>12 DEF Synced, PbxUnavailable, Calling, pbxVars
<1>13. CASE Runtime(r)
  BY <1>0, <1>1, <1>13
     DEF Runtime, Goto, TypeOK, RequestType, Apart, Session, store, pbxVars, session, txn, run
<1>14. CASE NextDomain(r)
  BY <1>0, <1>14
     DEF NextDomain, Goto, TypeOK, RequestType, Apart, Session, store, pbxVars, session, txn
<1>15. CASE Commit(r)
  <2>1. CASE Leave(r, "done") /\ rows' = View(r) /\ pc[r] = "commit"
    <3>1. ask' = ask /\ \A s \in Requests \ {r} : UNCHANGED Session(s)
      BY <1>0, <2>1 DEF Leave, Goto, TypeOK, RequestType, Session
    <3>2. ASSUME NEW c \in Customers, "update" \notin lock[r][c]
          PROVE  RowsOf(rows', c) = RowsOf(rows, c)
      <4>1. \A w \in ins[r] \cup del[r] : w.c # c
        <5>1. LockHeld(r)
          BY DEF Inv, LocksExclude
        <5>2. ask[r].op # "resyncAll" => ask[r].c # c
          BY <2>1, <3>2, <5>1 DEF LockHeld
        <5> QED
          BY <5>2 DEF Inv, Scoped
      <4>2. \A w : w \in RowsOf(rows', c) <=> w \in RowsOf(rows, c)
        BY <2>1, <4>1 DEF RowsOf, View
      <4> QED
        BY <4>2
    <3> QED
      BY <1>15, <3>1, <3>2 DEF Apart, Commit, pbxVars
  <2> QED
    BY <1>1, <1>15, <2>1 DEF Commit
<1> QED
  BY <1>1, <1>2, <1>3, <1>4, <1>5, <1>6, <1>7, <1>8, <1>10, <1>12, <1>13, <1>14, <1>15
     DEF Work, Fault, Refuse, DeadlockVictim, PbxRejects, Abort

(* Nobody else has the domain of a customer that shares none.               *)
LEMMA SoleDomain ==
  ASSUME Owned, NEW r \in Requests, NEW s \in Requests, NEW c \in SoleCustomers,
         NEW x \in Customers \ {c}, mem[r][c] # NoDomain, mem[s][x] # NoDomain
  PROVE  mem[r][c].dom # mem[s][x].dom
<1>1. mem[r][c].dom \in Given(c) /\ mem[s][x].dom \in Given(x)
  BY DEF Owned, SoleCustomers
<1>2. Given(c) \cap Given(x) = {}
  BY DEF SoleCustomers
<1> QED
  BY <1>1, <1>2

(* Whom a request has locked keeps rows, PBX and boxes while others move.   *)
LEMMA OthersKeep ==
  ASSUME Inv, NEW r \in Requests, NEW s \in Requests \ {r}, Apart(s)
  PROVE  Doing(r)' /\ Settled(r)'
<1>1. UNCHANGED Session(r)
  BY DEF Apart
<1>2. UNCHANGED <<pc[r], mem[r], ins[r], del[r], lock[r], cur[r], want[r], calls[r]>>
  BY <1>1 DEF Session
<1>3. cur[r] \in Customers /\ cur[s] \in Customers
  BY DEF Inv, TypeOK, RequestType
<1>4. ASSUME NEW c \in Customers, Reconciled(r, c)
      PROVE  ItemsOf(View(r), c)' = ItemsOf(View(r), c)
  <2>1. RowsOf(rows', c) = RowsOf(rows, c)
    BY <1>4 DEF Apart, Reconciled, Inv, LocksExclude, LockExclusive
  <2>2. \A w : w \in RowsOf(View(r), c)' <=> w \in RowsOf(View(r), c)
    BY <1>2, <2>1 DEF RowsOf, View
  <2>3. RowsOf(View(r), c)' = RowsOf(View(r), c)
    BY <2>2
  <2> QED
    BY <2>3 DEF ItemsOf
<1>5. ASSUME NEW c \in SoleCustomers, Reconciled(r, c), mem[r][c] # NoDomain
      PROVE  pbx'[mem[r][c].dom] = pbx[mem[r][c].dom] /\ boxes'[mem[r][c].dom] = boxes[mem[r][c].dom]
  <2>1. c \in Customers /\ mem[r][c].dom \in PbxDomains
    BY <1>5 DEF SoleCustomers, Inv, TypeOK, RequestType, Domain
  <2>2. CASE Calling(s)
    <3>1. mem[s][cur[s]] # NoDomain /\ "update" \in lock[s][cur[s]]
      BY <2>2 DEF Calling, Inv, TypeOK, SessionHolds, LocksExclude, LockHeld
    <3>2. cur[s] # c
      BY <1>5, <2>1, <3>1 DEF Reconciled, Inv, LocksExclude, LockExclusive
    <3>3. Dom(s) # mem[r][c].dom
      BY <1>3, <1>5, <2>1, <3>1, <3>2, SoleDomain DEF Dom, Inv
    <3> QED
      BY <2>1, <3>3 DEF Apart
  <2>3. CASE ~Calling(s)
    BY <2>1, <2>3 DEF Apart
  <2> QED
    BY <2>2, <2>3
<1>6. Doing(r)'
  <2>1. CASE pc[r] \notin {"list", "calls"}
    BY <1>2, <2>1 DEF Doing
  <2>2. CASE pc[r] \in {"list", "calls"}
    <3>1. Reconciled(r, cur[r]) /\ mem[r][cur[r]] # NoDomain
      BY <2>2 DEF Reconciled, Inv, TypeOK, SessionHolds, LocksExclude, LockHeld
    <3>2. Kept(r)' = Kept(r) /\ Dom(r)' = Dom(r)
      BY <1>2 DEF Kept, Dom, Active
    <3>3. cur[r] \in SoleCustomers => pbx'[Dom(r)] = pbx[Dom(r)] /\ boxes'[Dom(r)] = boxes[Dom(r)]
      BY <1>5, <3>1 DEF Dom
    <3>4. ItemsOf(View(r), cur[r])' = ItemsOf(View(r), cur[r])
      BY <1>2, <1>3, <1>4, <3>1
    <3>5. Doing(r)
      BY DEF Inv
    <3> QED
      BY <1>2, <3>2, <3>3, <3>4, <3>5 DEF Doing
  <2> QED
    BY <2>1, <2>2
<1>7. Settled(r)'
  <2> SUFFICES ASSUME NEW c \in Customers, Visited(r, c)'
               PROVE  mem'[r][c] # NoDomain /\ (Claims(r, c)' => Applied(r, c)')
    BY DEF Settled
  <2>1. Visited(r, c) /\ Reconciled(r, c)
    BY <1>2 DEF Visited, Reconciled
  <2>2. mem[r][c] # NoDomain /\ (Claims(r, c) => Applied(r, c))
    BY <2>1 DEF Inv, Settled
  <2>3. ItemsOf(View(r), c)' = ItemsOf(View(r), c)
    BY <1>4, <2>1
  <2>4. c \in SoleCustomers => (Applied(r, c) => Applied(r, c)')
    BY <1>2, <1>5, <2>1, <2>2, <2>3 DEF Applied, PbxIs
  <2> QED
    BY <1>2, <2>2, <2>4 DEF Claims
<1> QED
  BY <1>6, <1>7

-----------------------------------------------------------------------------
(* Whose domains and rows the sessions have.                                *)

LEMMA StepOwned ==
  ASSUME Inv, NEW r \in Requests, Work(r) \/ Fault(r)
  PROVE  Owned'
<1>0. TypeOK /\ Owned
  BY DEF Inv
<1>1. ask[r] \in Intents /\ ask[r].c \in Customers /\ cur[r] \in Customers
  BY <1>0, ConstantsAssumption DEF TypeOK, RequestType, Intent
<1>2. CASE Rollback(r)
  BY <1>0, <1>2 DEF Rollback, Leave, Nobody, store, TypeOK, RequestType, Owned
<1>3. CASE Begin(r)
  <2> DEFINE held == db[ask[r].c]
  <2>1. held \in Domain /\ held.dom \in Given(ask[r].c)
    BY <1>0, <1>1, <1>3 DEF Begin, TypeOK, StoreType, Owned
  <2>2. Edited(ask[r], held).dom = held.dom
    BY <2>1 DEF Edited, Domain
  <2>3. /\ mem' = [mem EXCEPT ![r][ask[r].c] = Edited(ask[r], held)]
        /\ db' = db
    BY <1>3 DEF Begin, store
  <2> QED
    BY <1>0, <1>1, <2>1, <2>2, <2>3 DEF TypeOK, RequestType, Owned
<1>4. CASE BeginNew(r)
  <2>1. ask[r].dom \in Given(ask[r].c)
    BY <1>1, <1>4 DEF BeginNew, Given
  <2> QED
    BY <1>0, <1>1, <1>4, <2>1 DEF BeginNew, store, TypeOK, RequestType, Owned
<1>5. CASE BeginAll(r)
  BY <1>0, <1>5 DEF BeginAll, store, TypeOK, RequestType, Owned
<1>6. CASE Lock(r)
  <2>1. CASE db' = db /\ mem' = mem
    BY <1>0, <2>1 DEF Owned
  <2>2. CASE db' = db /\ mem' = [mem EXCEPT ![r][cur[r]] = db[cur[r]]]
    <3>1. /\ mem'[r][cur[r]] = db[cur[r]]
          /\ \A s \in Requests, x \in Customers :
               s # r \/ x # cur[r] => mem'[s][x] = mem[s][x]
      BY <1>0, <1>1, <2>2 DEF TypeOK, RequestType
    <3>2. ASSUME NEW s \in Requests, NEW x \in Customers, mem'[s][x] # NoDomain
          PROVE  mem'[s][x].dom \in Given(x)
      <4>1. CASE s = r /\ x = cur[r]
        BY <1>0, <1>1, <3>1, <3>2, <4>1 DEF Owned
      <4>2. CASE s # r \/ x # cur[r]
        BY <1>0, <3>1, <3>2, <4>2 DEF Owned
      <4> QED
        BY <4>1, <4>2
    <3> QED
      BY <1>0, <2>2, <3>2 DEF Owned
  <2> QED
    BY <1>2, <1>6, <2>1, <2>2 DEF Lock, store
<1>7. ASSUME NEW status, Calling(r), Conclude(r, status) PROVE Owned'
  <2>1. mem[r][cur[r]] \in Domain
    BY <1>0, <1>1, <1>7 DEF Calling, TypeOK, RequestType, SessionHolds
  <2>2. /\ mem' = [mem EXCEPT ![r] = [mem[r] EXCEPT ![cur[r]] = [mem[r][cur[r]] EXCEPT !.sync = status]]]
        /\ db' = db
    BY <1>7 DEF Conclude, store
  <2>3. [mem[r][cur[r]] EXCEPT !.sync = status].dom = mem[r][cur[r]].dom
    BY <2>1 DEF Domain
  <2>4. mem[r][cur[r]] # NoDomain
    BY <2>1, ConstantsAssumption
  <2> QED
    BY <1>0, <1>1, <2>2, <2>3, <2>4 DEF TypeOK, RequestType, Owned
<1>8. CASE Commit(r)
  <2>1. CASE db' = [c \in Customers |-> Merged(r, c)] /\ Leave(r, "done")
    <3>1. \A s \in Requests, c \in Customers : mem'[s][c] # NoDomain => mem'[s][c].dom \in Given(c)
      BY <1>0, <2>1 DEF Leave, Nobody, TypeOK, RequestType, Owned
    <3>2. ASSUME NEW c \in Customers, db'[c] # NoDomain PROVE db'[c].dom \in Given(c)
      <4>1. CASE <<c, "row">> \in wrote[r]
        <5>1. mem[r][c] # NoDomain /\ db'[c] = mem[r][c]
          BY <1>0, <2>1, <3>2, <4>1 DEF Merged, TypeOK, SessionHolds
        <5> QED
          BY <1>0, <5>1 DEF Owned
      <4>2. CASE <<c, "row">> \notin wrote[r]
        <5>1. db[c] # NoDomain
          BY <2>1, <3>2, <4>2 DEF Merged
        <5>2. db[c] \in Domain
          BY <1>0, <5>1 DEF TypeOK, StoreType
        <5>3. db'[c].dom = db[c].dom
          BY <2>1, <3>2, <4>2, <5>1, <5>2 DEF Merged, Domain
        <5> QED
          BY <1>0, <5>1, <5>3 DEF Owned
      <4> QED
        BY <4>1, <4>2
    <3> QED
      BY <3>1, <3>2 DEF Owned
  <2> QED
    BY <1>2, <1>8, <2>1 DEF Commit
<1>9. CASE UNCHANGED <<db, mem>>
  BY <1>0, <1>9 DEF Owned
<1> QED
  BY <1>2, <1>3, <1>4, <1>5, <1>6, <1>7, <1>8, <1>9
     DEF Work, Fault, Refuse, DeadlockVictim, PbxRejects, Abort, InsertDomain, Load, Flush, List,
         PbxCall, Synced, PbxUnavailable, Calling, Runtime, NextDomain, store, session

LEMMA StepScoped ==
  ASSUME Inv, NEW r \in Requests, Work(r) \/ Fault(r)
  PROVE  Scoped'
<1> DEFINE Good == /\ \A w \in seen'[r] \cup ins'[r] \cup del'[r] : w.c = ask[r].c
                   /\ ask[r].op = "resyncAll" => /\ ins'[r] = {} /\ del'[r] = {}
                                                 /\ pc'[r] \notin {"insert", "load", "flush"}
<1>0. TypeOK /\ Scoped
  BY DEF Inv
<1>1. CASE Rollback(r) \/ Leave(r, "done")
  <2>1. seen'[r] = {} /\ ins'[r] = {} /\ del'[r] = {} /\ pc'[r] \in Over
    BY <1>0, <1>1 DEF Rollback, Leave, Goto, Over, TypeOK, RequestType
  <2>2. Good
    BY <2>1 DEF Over
  <2> QED
    BY <1>0, <2>2, StepApart DEF Apart, Session, Scoped
<1>2. CASE Load(r)
  <2>1. \A w \in seen'[r] : w.c = ask[r].c
    BY <1>0, <1>2 DEF Load, RowsOf, TypeOK, RequestType
  <2>2. ins'[r] = ins[r] /\ del'[r] = del[r] /\ pc[r] = "load"
    BY <1>2 DEF Load, txn
  <2>3. Good
    BY <1>0, <2>1, <2>2 DEF Scoped
  <2> QED
    BY <1>0, <2>3, StepApart DEF Apart, Session, Scoped
<1>3. CASE Flush(r) /\ ~Rollback(r)
  <2>1. /\ ins' = [ins EXCEPT ![r] = Added(r)] /\ del' = [del EXCEPT ![r] = Doomed(r) \cap rows]
        /\ seen' = seen /\ pc[r] = "flush"
    BY <1>3 DEF Flush, session
  <2>2. \A w \in Added(r) \cup Doomed(r) : w.c = ask[r].c
    BY <1>0 DEF Added, Doomed, Scoped
  <2>3. Good
    BY <1>0, <2>1, <2>2 DEF Scoped, TypeOK, RequestType
  <2> QED
    BY <1>0, <2>3, StepApart DEF Apart, Session, Scoped
<1>4. ASSUME seen'[r] = seen[r], ins'[r] = ins[r], del'[r] = del[r],
             pc'[r] \in {"insert", "load", "flush"} => ask[r].op # "resyncAll"
      PROVE  Scoped'
  BY <1>0, <1>4, StepApart DEF Apart, Session, Scoped
<1>5. CASE Begin(r) \/ BeginNew(r) \/ BeginAll(r)
  BY <1>0, <1>4, <1>5 DEF Begin, BeginNew, BeginAll, Goto, TypeOK, RequestType, txn
<1>6. CASE InsertDomain(r) /\ ~Rollback(r)
  BY <1>0, <1>4, <1>6 DEF InsertDomain, session, Scoped
<1>7. CASE Lock(r) \/ List(r) \/ Runtime(r) \/ NextDomain(r)
  BY <1>0, <1>1, <1>4, <1>7
     DEF Lock, List, Runtime, NextDomain, Goto, TypeOK, RequestType, session, txn
<1>8. CASE PbxCall(r)
  BY <1>0, <1>4, <1>8 DEF PbxCall, session, txn
<1>9. CASE Synced(r) \/ PbxUnavailable(r)
  BY <1>0, <1>4, <1>9 DEF Synced, PbxUnavailable, Conclude, Goto, TypeOK, RequestType, txn
<1> QED
  BY <1>1, <1>2, <1>3, <1>5, <1>6, <1>7, <1>8, <1>9
     DEF Work, Fault, Refuse, DeadlockVictim, PbxRejects, Abort, Commit

-----------------------------------------------------------------------------
(* The request's own steps.                                                 *)

(* What was settled stays so if it is looked at as before.                  *)
LEMMA SettledKept ==
  ASSUME Inv, NEW r \in Requests,
         \A c \in Customers : Visited(r, c)' =>
           /\ Visited(r, c) /\ mem'[r][c] = mem[r][c]
           /\ ItemsOf(View(r), c)' = ItemsOf(View(r), c)
           /\ c \in SoleCustomers /\ mem[r][c] # NoDomain =>
                /\ pbx'[mem[r][c].dom] = pbx[mem[r][c].dom]
                /\ boxes'[mem[r][c].dom] = boxes[mem[r][c].dom]
  PROVE  Settled(r)'
<1> SUFFICES ASSUME NEW c \in Customers, Visited(r, c)'
             PROVE  mem'[r][c] # NoDomain /\ (Claims(r, c)' => Applied(r, c)')
  BY DEF Settled
<1>1. mem[r][c] # NoDomain /\ (Claims(r, c) => Applied(r, c))
  BY DEF Inv, Settled
<1>2. c \in SoleCustomers => (Applied(r, c) => Applied(r, c)')
  BY <1>1 DEF Applied, PbxIs
<1> QED
  BY <1>1, <1>2 DEF Claims

(* A session that ended, or did not lock anything yet, has settled nothing. *)
LEMMA UnlockedKeeps ==
  ASSUME NEW r \in Requests, lock'[r] = Unlocked, pc'[r] \notin {"list", "calls"}
  PROVE  Doing(r)' /\ Settled(r)'
  BY DEF Doing, Settled, Visited, Reconciled, Unlocked

(* Before and after the reconcile the session looks at the same.            *)
LEMMA SameKeeps ==
  ASSUME Inv, NEW r \in Requests,
         UNCHANGED <<mem[r], lock[r], ins[r], del[r], rows, pbx, boxes>>,
         pc'[r] \notin {"list", "calls"},
         \A c \in Customers : Visited(r, c)' => Visited(r, c)
  PROVE  Doing(r)' /\ Settled(r)'
<1>1. \A c \in Customers : ItemsOf(View(r), c)' = ItemsOf(View(r), c)
  BY DEF ItemsOf, RowsOf, View
<1> QED
  BY <1>1, SettledKept DEF Doing

LEMMA BeginKeeps ==
  ASSUME Inv, NEW r \in Requests,
         Begin(r) \/ BeginNew(r) \/ BeginAll(r) \/ InsertDomain(r) \/ Load(r) \/ Flush(r)
  PROVE  Doing(r)' /\ Settled(r)'
<1>0. TypeOK /\ LockHeld(r) /\ cur[r] \in Customers
  BY DEF Inv, TypeOK, RequestType, LocksExclude
<1>1. CASE Rollback(r)
  BY <1>0, <1>1, UnlockedKeeps DEF Rollback, Leave, Goto, TypeOK, RequestType
<1>2. CASE Begin(r) \/ BeginNew(r) \/ BeginAll(r)
  <2>1. lock'[r] = Unlocked
    BY <1>0, <1>2 DEF Begin, BeginNew, BeginAll, LockHeld, txn
  <2>2. pc'[r] \in {"lock", "flush", "load", "insert", "commit"}
    BY <1>0, <1>2 DEF Begin, BeginNew, BeginAll, Goto, TypeOK, RequestType
  <2> QED
    BY <2>1, <2>2, UnlockedKeeps
<1>3. CASE InsertDomain(r) /\ ~Rollback(r)
  <2>1. /\ pc[r] = "insert" /\ lock' = [lock EXCEPT ![r][ask[r].c] = {"update"}]
        /\ pc' = [pc EXCEPT ![r] = "load"] /\ cur' = cur
    BY <1>3 DEF InsertDomain, Goto, run
  <2>2. lock[r] = Unlocked /\ cur[r] = ask[r].c
    BY <1>0, <2>1 DEF LockHeld, Inv, Scoped
  <2>3. \A c \in Customers : ~Visited(r, c)'
    BY <1>0, <2>1, <2>2 DEF TypeOK, RequestType, Visited, Reconciled, Unlocked
  <2> QED
    BY <1>0, <2>1, <2>3 DEF Doing, Settled, TypeOK, RequestType
<1>4. CASE Load(r)
  BY <1>0, <1>4, SameKeeps DEF Load, Goto, TypeOK, RequestType, Visited, Reconciled,
     store, pbxVars, txn, run
<1>5. CASE Flush(r) /\ ~Rollback(r)
  <2>1. /\ pc[r] = "flush" /\ pc' = [pc EXCEPT ![r] = "lock"]
        /\ UNCHANGED <<rows, pbx, boxes, mem, cur>>
        /\ lock' = [lock EXCEPT ![r][ask[r].c] = @ \cup FlushModes(r)]
    BY <1>5 DEF Flush, Goto, store, pbxVars, session, run
  <2>2. cur[r] = ask[r].c
    BY <1>0, <2>1 DEF LockHeld, Inv, Scoped
  <2>3. \A w \in ins[r] \cup del[r] \cup ins'[r] \cup del'[r] : w.c = ask[r].c
    BY <1>5, StepScoped DEF Inv, Scoped, Work, Flush, session
  <2>4. ASSUME NEW c \in Customers, c # ask[r].c
        PROVE  ItemsOf(View(r), c)' = ItemsOf(View(r), c)
    <3>1. \A w : w \in RowsOf(View(r), c)' <=> w \in RowsOf(View(r), c)
      BY <2>1, <2>3, <2>4 DEF RowsOf, View
    <3>2. RowsOf(View(r), c)' = RowsOf(View(r), c)
      BY <3>1
    <3> QED
      BY <3>2 DEF ItemsOf
  <2>5. \A c \in Customers : Visited(r, c)' => Visited(r, c) /\ c # ask[r].c
    BY <1>0, <2>1, <2>2 DEF TypeOK, RequestType, Visited, Reconciled
  <2>6. Settled(r)'
    BY <2>1, <2>4, <2>5, SettledKept
  <2> QED
    BY <1>0, <2>1, <2>6 DEF Doing, TypeOK, RequestType
<1> QED
  BY <1>1, <1>2, <1>3, <1>4, <1>5

LEMMA LockKeeps ==
  ASSUME Inv, NEW r \in Requests, Lock(r)
  PROVE  Doing(r)' /\ Settled(r)'
<1> DEFINE c == cur[r]
<1>0. TypeOK /\ c \in Customers
  BY DEF Inv, TypeOK, RequestType
<1>1. CASE Rollback(r)
  BY <1>0, <1>1, UnlockedKeeps DEF Rollback, Leave, Goto, TypeOK, RequestType
<1>2. CASE ~Rollback(r)
  <2>1. /\ lock' = [lock EXCEPT ![r][c] = @ \cup {"update"}]
        /\ mem' = mem \/ mem' = [mem EXCEPT ![r][c] = db[c]]
        /\ want' = [want EXCEPT ![r] = ItemsOf(View(r), c)]
        /\ pc' = [pc EXCEPT ![r] = "list"]
        /\ UNCHANGED <<rows, pbx, boxes, ins, del, cur>>
    BY <1>2 DEF Lock, Goto, store, pbxVars
  <2>2. \A x : ItemsOf(View(r), x)' = ItemsOf(View(r), x)
    BY <2>1 DEF ItemsOf, RowsOf, View
  <2>3. Doing(r)'
    BY <1>0, <2>1, <2>2 DEF Doing, TypeOK, RequestType
  <2>4. \A x \in Customers : Visited(r, x)' =>
          Visited(r, x) /\ mem'[r][x] = mem[r][x]
    BY <1>0, <2>1 DEF Visited, Reconciled, TypeOK, RequestType
  <2> QED
    BY <2>1, <2>2, <2>3, <2>4, SettledKept
<1> QED
  BY <1>1, <1>2

LEMMA ListKeeps ==
  ASSUME Inv, NEW r \in Requests, List(r)
  PROVE  Doing(r)' /\ Settled(r)'
<1>0. TypeOK /\ Doing(r)
  BY DEF Inv
<1>1. /\ pc[r] = "list" /\ pc' = [pc EXCEPT ![r] = "calls"]
      /\ UNCHANGED <<rows, pbx, boxes, mem, lock, ins, del, cur, want>>
  BY DEF List, Goto, store, pbxVars, session, txn
<1>2. \A x : ItemsOf(View(r), x)' = ItemsOf(View(r), x)
  BY <1>1 DEF ItemsOf, RowsOf, View
<1>3. Kept(r)' = Kept(r) /\ Dom(r)' = Dom(r) /\ Active(r) \in BOOLEAN
  <2>1. mem[r][cur[r]] \in Domain
    BY <1>0, <1>1 DEF TypeOK, RequestType, SessionHolds
  <2> QED
    BY <1>1, <2>1 DEF Kept, Dom, Active, Domain
<1>4. Left(Kept(r), pbx[Dom(r)], boxes[Dom(r)], calls'[r])
  <2> DEFINE desired == IF Active(r) THEN want[r] \cap Numbers ELSE {}
  <2>1. calls'[r] = Plan(desired, (pbx[Dom(r)] \cap Numbers) \ desired, want[r], Active(r))
    BY <1>0 DEF List, TypeOK, RequestType
  <2> QED
    BY <1>3, <2>1, PlanLeft DEF Kept
<1>5. Doing(r)'
  BY <1>0, <1>1, <1>2, <1>3, <1>4 DEF Doing, TypeOK, RequestType
<1>6. \A x \in Customers : Visited(r, x)' => Visited(r, x)
  BY <1>0, <1>1 DEF Visited, Reconciled, TypeOK, RequestType
<1> QED
  BY <1>1, <1>2, <1>5, <1>6, SettledKept

(* A call leaves the domains of other customers of the session alone.       *)
LEMMA CallAside ==
  ASSUME Inv, NEW r \in Requests, Calling(r), NEW k, Effect(r, k),
         NEW c \in SoleCustomers \ {cur[r]}, mem[r][c] # NoDomain
  PROVE  /\ pbx'[mem[r][c].dom] = pbx[mem[r][c].dom]
         /\ boxes'[mem[r][c].dom] = boxes[mem[r][c].dom]
<1>1. mem[r][cur[r]] # NoDomain /\ cur[r] \in Customers
  BY DEF Calling, Inv, TypeOK, RequestType, SessionHolds
<1>2. mem[r][c].dom # Dom(r) /\ mem[r][c].dom \in PbxDomains
  <2>1. mem[r][c] \in Domain
    BY DEF SoleCustomers, Inv, TypeOK, RequestType
  <2> QED
    BY <1>1, <2>1, SoleDomain DEF Dom, Domain, Inv
<1> QED
  BY <1>2 DEF Effect, PbxAfter, BoxesAfter, Inv, TypeOK, PbxType

LEMMA PbxCallKeeps ==
  ASSUME Inv, NEW r \in Requests, PbxCall(r)
  PROVE  Doing(r)' /\ Settled(r)'
<1>0. TypeOK /\ Doing(r)
  BY DEF Inv
<1>1. PICK k \in Ready(r) :
        /\ Effect(r, k)
        /\ calls' = [calls EXCEPT ![r] = (@ \ {k}) \cup Followups(r, k)]
  BY DEF PbxCall
<1>2. /\ pc[r] = "calls" /\ Calling(r)
      /\ UNCHANGED <<rows, pc, mem, lock, ins, del, cur, want>>
  BY DEF PbxCall, store, session, txn, Calling
<1>3. \A x : ItemsOf(View(r), x)' = ItemsOf(View(r), x)
  BY <1>2 DEF ItemsOf, RowsOf, View
<1>4. Kept(r)' = Kept(r) /\ Dom(r)' = Dom(r) /\ Dom(r) \in PbxDomains
  <2>1. mem[r][cur[r]] \in Domain
    BY <1>0, <1>2 DEF TypeOK, RequestType, SessionHolds
  <2> QED
    BY <1>2, <2>1 DEF Kept, Dom, Active, Domain
<1>5. ASSUME cur[r] \in SoleCustomers
      PROVE  Left(Kept(r), pbx'[Dom(r)], boxes'[Dom(r)], calls'[r])
  <2>1. k \in calls[r] /\ calls[r] \in SUBSET Call
    BY <1>0 DEF Ready, TypeOK, RequestType
  <2>2. pbx'[Dom(r)] = OnAfter(pbx[Dom(r)], k)
    BY <1>0, <1>1, <1>4 DEF Effect, PbxAfter, OnAfter, TypeOK, PbxType
  <2>3. boxes'[Dom(r)] = BoxAfter(boxes[Dom(r)], k)
    BY <1>0, <1>1, <1>4 DEF Effect, BoxesAfter, BoxAfter, TypeOK, PbxType
  <2>4. calls'[r] = DueAfter(Kept(r), pbx[Dom(r)], calls[r], k)
    BY <1>0, <1>1 DEF DueAfter, Followups, TypeOK, RequestType, Each
  <2>5. Left(Kept(r), pbx[Dom(r)], boxes[Dom(r)], calls[r])
    BY <1>0, <1>2, <1>5 DEF Doing
  <2> QED
    BY <2>1, <2>2, <2>3, <2>4, <2>5, CallKeeps
<1>6. Doing(r)'
  BY <1>0, <1>2, <1>3, <1>4, <1>5 DEF Doing
<1>7. \A x \in Customers : Visited(r, x)' => Visited(r, x) /\ x # cur[r]
  BY <1>2 DEF Visited, Reconciled
<1> QED
  BY <1>1, <1>2, <1>3, <1>6, <1>7, CallAside, SettledKept

(* A reconcile that concludes as synced has made its customer's PBX what    *)
(* the transaction holds; one that concludes as an error says so.           *)
LEMMA ConcludeKeeps ==
  ASSUME Inv, NEW r \in Requests, NEW status \in Status, Calling(r), Conclude(r, status),
         status = "synced" => pc[r] = "calls" /\ calls[r] = {} /\ UNCHANGED pbxVars,
         UNCHANGED pbxVars \/ \E k : Effect(r, k)
  PROVE  Doing(r)' /\ Settled(r)'
<1>c. PICK c \in Customers : c = cur[r]
  BY DEF Inv, TypeOK, RequestType
<1>0. TypeOK /\ Doing(r) /\ Settled(r)
  BY DEF Inv
<1>1. /\ UNCHANGED <<rows, lock, ins, del, cur>>
      /\ pc'[r] \in {"runtime", "next", "commit"}
  BY <1>0 DEF Conclude, Goto, TypeOK, RequestType, store, txn
<1>2. c \in Customers /\ mem[r][c] \in Domain /\ mem[r][c] # NoDomain
  BY <1>c, <1>0, ConstantsAssumption DEF Calling, TypeOK, RequestType, SessionHolds
<1>3. /\ mem'[r][c] = [mem[r][c] EXCEPT !.sync = status]
      /\ \A x \in Customers \ {c} : mem'[r][x] = mem[r][x]
  BY <1>c, <1>0, <1>2 DEF Conclude, TypeOK, RequestType
<1>4. \A x : ItemsOf(View(r), x)' = ItemsOf(View(r), x)
  BY <1>1 DEF ItemsOf, RowsOf, View
<1>5. mem'[r][c] # NoDomain /\ (Claims(r, c)' => Applied(r, c)')
  <2>1. /\ mem'[r][c].dom = mem[r][c].dom /\ mem'[r][c].active = mem[r][c].active
        /\ mem'[r][c].sync = status /\ mem[r][c].dom \in PbxDomains
        /\ mem[r][c].active \in BOOLEAN
    BY <1>2, <1>3 DEF Domain
  <2>2. mem'[r][c] # NoDomain
    <3>1. mem'[r][c] \in Domain
      BY <1>2, <1>3 DEF Domain
    <3> QED
      BY <3>1, ConstantsAssumption
  <2>3. ASSUME status = "synced", c \in SoleCustomers PROVE Applied(r, c)'
    <3>1. pbx' = pbx /\ boxes' = boxes /\ pc[r] = "calls" /\ calls[r] = {}
      BY <2>3 DEF pbxVars
    <3>2. Left(Kept(r), pbx[Dom(r)], boxes[Dom(r)], {}) /\ want[r] = ItemsOf(View(r), c)
      BY <1>c, <1>0, <2>3, <3>1 DEF Doing
    <3>3. Kept(r) \in SUBSET Item /\ pbx[Dom(r)] \in SUBSET Item
      BY <1>c, <1>0, <2>1 DEF Kept, Dom, TypeOK, RequestType, PbxType
    <3>4. pbx[Dom(r)] = Kept(r) /\ Kept(r) \cap Numbers \subseteq boxes[Dom(r)]
      BY <3>2, <3>3, NothingLeft
    <3>5. Dom(r) = mem[r][c].dom /\ Active(r) = mem[r][c].active
      BY <1>c DEF Dom, Active
    <3>6. Kept(r) = IF mem'[r][c].active THEN ItemsOf(View(r), c)' ELSE {}
      BY <1>4, <2>1, <3>2, <3>5 DEF Kept
    <3>7. /\ pbx'[mem'[r][c].dom] = pbx[Dom(r)]
          /\ boxes'[mem'[r][c].dom] = boxes[Dom(r)]
      BY <2>1, <3>1, <3>5
    <3> QED
      BY <1>1, <3>4, <3>6, <3>7 DEF Applied, PbxIs
  <2> QED
    BY <2>1, <2>2, <2>3 DEF Claims
<1>6. ASSUME NEW x \in Customers \ {c}, Visited(r, x)'
      PROVE  mem'[r][x] # NoDomain /\ (Claims(r, x)' => Applied(r, x)')
  <2>1. Visited(r, x)
    BY <1>c, <1>1, <1>6 DEF Visited, Reconciled
  <2>2. mem[r][x] # NoDomain /\ (Claims(r, x) => Applied(r, x))
    BY <1>0, <2>1 DEF Settled
  <2>3. x \in SoleCustomers => /\ pbx'[mem[r][x].dom] = pbx[mem[r][x].dom]
                              /\ boxes'[mem[r][x].dom] = boxes[mem[r][x].dom]
    BY <1>c, <2>2, CallAside DEF pbxVars
  <2> QED
    BY <1>3, <1>4, <2>2, <2>3 DEF Claims, Applied, PbxIs
<1>7. Settled(r)'
  <2> SUFFICES ASSUME NEW x \in Customers, Visited(r, x)'
               PROVE  mem'[r][x] # NoDomain /\ (Claims(r, x)' => Applied(r, x)')
    BY DEF Settled
  <2>1. CASE x = c
    BY <1>5, <2>1
  <2>2. CASE x # c
    BY <1>6, <2>2
  <2> QED
    BY <2>1, <2>2
<1> QED
  BY <1>1, <1>7 DEF Doing

LEMMA OwnKeeps ==
  ASSUME Inv, NEW r \in Requests, Work(r) \/ Fault(r)
  PROVE  Doing(r)' /\ Settled(r)'
<1>0. TypeOK
  BY DEF Inv
<1>1. CASE Rollback(r) \/ Leave(r, "done")
  BY <1>0, <1>1, UnlockedKeeps DEF Rollback, Leave, Goto, TypeOK, RequestType
<1>2. CASE Begin(r) \/ BeginNew(r) \/ BeginAll(r) \/ InsertDomain(r) \/ Load(r) \/ Flush(r)
  BY <1>2, BeginKeeps
<1>3. CASE Lock(r) \/ List(r) \/ PbxCall(r)
  BY <1>3, LockKeeps, ListKeeps, PbxCallKeeps
<1>4. CASE Synced(r) \/ PbxUnavailable(r)
  BY <1>4, ConcludeKeeps DEF Synced, PbxUnavailable, Calling, Status
<1>5. CASE Runtime(r) /\ ~Rollback(r)
  <2>1. /\ UNCHANGED <<mem, lock, ins, del, rows, pbx, boxes, cur>>
        /\ pc[r] = "runtime" /\ pc'[r] \in {"next", "commit"}
    BY <1>0, <1>5 DEF Runtime, Goto, TypeOK, RequestType, store, pbxVars, session, txn, run
  <2> QED
    BY <2>1, SameKeeps DEF Visited, Reconciled
<1>6. CASE NextDomain(r)
  <2>1. /\ UNCHANGED <<mem, lock, ins, del, rows, pbx, boxes>>
        /\ pc[r] = "next" /\ pc'[r] = "lock"
    BY <1>0, <1>6 DEF NextDomain, Goto, TypeOK, RequestType, store, pbxVars, session, txn
  <2> QED
    BY <2>1, SameKeeps DEF Visited, Reconciled
<1> QED
  BY <1>1, <1>2, <1>3, <1>4, <1>5, <1>6
     DEF Work, Fault, Refuse, Runtime, Commit, DeadlockVictim, PbxRejects, Abort

-----------------------------------------------------------------------------
LEMMA InitInv == Init => Inv
<1> SUFFICES ASSUME NEW s \in Start, InitFrom(s) PROVE Inv
  BY DEF Init
<1>1. TypeOK /\ LocksExclude
  BY InitType, InitLocks DEF Init
<1>2. Owned
  BY ConstantsAssumption DEF InitFrom, Given, Owned, Nobody
<1>3. Scoped
  BY DEF InitFrom, Scoped
<1>4. \A r \in Requests : Doing(r) /\ Settled(r)
  BY DEF InitFrom, Doing, Settled, Visited, Reconciled, Unlocked
<1> QED
  BY <1>1, <1>2, <1>3, <1>4 DEF Inv

LEMMA NextInv == Inv /\ [Next]_vars => Inv'
<1> SUFFICES ASSUME Inv, [Next]_vars PROVE Inv'
  OBVIOUS
<1>1. TypeOK' /\ LocksExclude'
  BY NextType, NextLocks DEF Inv
<1>2. ASSUME NEW r \in Requests, Work(r) \/ Fault(r) PROVE Inv'
  BY <1>1, <1>2, StepOwned, StepScoped, StepApart, OwnKeeps, OthersKeep DEF Inv
<1>3. CASE UNCHANGED vars
  <2>1. UNCHANGED <<db, rows, pbx, boxes, pc, ask, mem, seen, ins, del, lock, cur, want, calls>>
    BY <1>3 DEF vars, store, pbxVars, session, txn, run
  <2>2. Owned' /\ Scoped'
    BY <2>1 DEF Inv, Owned, Scoped
  <2>3. ASSUME NEW r \in Requests PROVE Doing(r)' /\ Settled(r)'
    <3>1. Doing(r) /\ Settled(r)
      BY DEF Inv
    <3> QED
      BY <2>1, <3>1 DEF Doing, Settled, Claims, Visited, Reconciled, Applied, PbxIs, Kept, Active, Dom,
         ItemsOf, RowsOf, View, Left
  <2> QED
    BY <1>1, <2>2, <2>3 DEF Inv
<1> QED
  BY <1>2, <1>3 DEF Next

(* What makes a request done is its commit.                                *)
LEMMA Commits ==
  ASSUME Inv, Next, NEW r \in Requests, Committing(r)
  PROVE  /\ Commit(r) /\ ~Rollback(r) /\ pc[r] = "commit"
         /\ rows' = View(r) /\ db' = [c \in Customers |-> Merged(r, c)]
<1>1. pc[r] = "commit" /\ pc'[r] = "done"
  BY DEF Committing
<1>2. PICK s \in Requests : Work(s) \/ Fault(s)
  BY DEF Next
<1>3. s = r
  BY <1>1, <1>2, StepApart DEF Apart, Session
<1>4. Commit(r) /\ ~Rollback(r)
  BY <1>1, <1>2, <1>3 DEF Inv, TypeOK, RequestType, Work, Fault, Begin, BeginNew, Refuse,
     BeginAll, InsertDomain, Load, Flush, Lock, List, PbxCall, Synced, Runtime, NextDomain,
     DeadlockVictim, PbxUnavailable, PbxRejects, Abort, Rollback, Leave, Goto
<1> QED
  BY <1>1, <1>4 DEF Commit

(* When a request commits a synced reconcile of a customer that shares its  *)
(* PBX domain with no other, FusionPBX holds exactly the rows it commits,   *)
(* none of a customer its session holds as suspended, whatever other        *)
(* requests do (reconcile/voice.py:49-51, :68).                             *)
THEOREM SyncedIsApplied == Spec => SyncedCommitApplied
<1> DEFINE Is(r, c) == Committing(r) /\ Reconciled(r, c) /\ mem[r][c].sync = "synced" =>
             PbxIs(mem[r][c].dom, IF mem[r][c].active THEN ItemsOf(rows', c) ELSE {})
<1>1. ASSUME Inv, Next, NEW r \in Requests, NEW c \in SoleCustomers PROVE Is(r, c)
  <2> SUFFICES ASSUME Committing(r), Reconciled(r, c), mem[r][c].sync = "synced"
               PROVE  PbxIs(mem[r][c].dom, IF mem[r][c].active THEN ItemsOf(rows', c) ELSE {})
    OBVIOUS
  <2>1. pc[r] = "commit" /\ rows' = View(r)
    BY <1>1, Commits DEF SoleCustomers
  <2>2. Applied(r, c)
    BY <1>1, <2>1 DEF SoleCustomers, Inv, Settled, Claims, Visited
  <2> QED
    BY <2>1, <2>2 DEF Applied
<1>2. ASSUME Inv, [Next]_vars PROVE [\A r \in Requests, c \in SoleCustomers : Is(r, c)]_vars
  BY <1>1, <1>2
<1>3. Spec => []Inv
  BY InitInv, NextInv, PTL DEF Spec
<1> QED
  BY <1>2, <1>3, PTL DEF Spec, SyncedCommitApplied
=============================================================================
