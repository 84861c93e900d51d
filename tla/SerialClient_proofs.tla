----------------------- MODULE SerialClient_proofs -----------------------
(***************************************************************************)
(* Proofs about clients that wait for their answers, for any customers,    *)
(* requests and intents: the handlers implement VoiceService, and what is  *)
(* committed is what was asked for, with the status the reconcile          *)
(* returned.                                                               *)
(*                                                                         *)
(* On top of VoiceProvisioning_proofs' invariant (Inv) they need that the  *)
(* session of the one request in flight is up to date (Fresh): what it has *)
(* of a row, but for the columns it wrote, is what the database has, so    *)
(* that its commit publishes the row it reconciled.  That the rows are the *)
(* intent's needs one row per item, all those the request has to edit in   *)
(* what it loaded (Files), and a session that keeps the edit (Edits).      *)
(***************************************************************************)
EXTENDS VoiceProvisioning_proofs

(* The placeholder for no record is none of the records.                   *)
Distinct == NoDomain \notin PbxDomains \cup Service!Record

Resting(r) == pc[r] \in {"idle"} \cup Over

Alone == \A r, s \in Requests : r # s => Resting(r) \/ Resting(s)

(* A request that is not in flight has no session.                         *)
Clean(r) == Resting(r) => mem[r] = Nobody /\ wrote[r] = {} /\ lock[r] = Unlocked

Saved == {"active", "rec", "sync"}

(* What r has of c is what the database has of it and what r wrote.         *)
UpToDate(r, c) ==
  IF <<c, "row">> \in wrote[r] THEN db[c] = NoDomain
  ELSE /\ db[c] # NoDomain /\ mem[r][c].id = db[c].id /\ mem[r][c].dom = db[c].dom
       /\ \A col \in Saved : <<c, col>> \in wrote[r] \/ mem[r][c][col] = db[c][col]

Fresh(r) ==
  \A c \in Customers :
    /\ mem[r][c] # NoDomain => UpToDate(r, c)
    /\ "update" \in lock[r][c] => mem[r][c] # NoDomain
    /\ \A col \in Column : <<c, col>> \in wrote[r] =>
         (ask[r].op # "resyncAll" /\ c = ask[r].c) \/ "update" \in lock[r][c]

SerialInv == Inv /\ Alone /\ \A r \in Requests : Clean(r) /\ Fresh(r)

-----------------------------------------------------------------------------
(* A request in flight is the only one.                                     *)

(* Whoever takes a step is in flight after it or was before it.            *)
LEMMA Runs ==
  ASSUME TypeOK, NEW r \in Requests, Work(r) \/ Fault(r)
  PROVE  pc[r] \notin Over /\ (pc[r] = "idle" => pc'[r] # "idle")
<1>1. CASE DeadlockVictim(r)
  <2>1. \E s \in Requests : WaitsFor(r, s)
    BY <1>1 DEF DeadlockVictim, Deadlocked
  <2> QED
    BY <2>1 DEF WaitsFor, Over
<1>2. CASE Refuse(r)
  BY <1>2 DEF Refuse, Rollback, Leave, Goto, TypeOK, RequestType, Over
<1>3. CASE Begin(r)
  BY <1>3 DEF Begin, Goto, TypeOK, RequestType, Over
<1>4. CASE BeginNew(r) \/ BeginAll(r)
  BY <1>4 DEF BeginNew, BeginAll, Goto, TypeOK, RequestType, Over
<1> QED
  BY <1>1, <1>2, <1>3, <1>4
     DEF Work, Fault, InsertDomain, Load, Flush, Lock, List, PbxCall, Synced, PbxUnavailable,
         PbxRejects, Abort, Runtime, NextDomain, Commit, Over

LEMMA OthersRest ==
  ASSUME SerialInv, OneAtATime, NEW r \in Requests, Work(r) \/ Fault(r),
         NEW s \in Requests \ {r}
  PROVE  Resting(s) /\ mem[s] = Nobody /\ wrote[s] = {} /\ lock[s] = Unlocked
<1>1. Resting(s)
  BY Runs DEF SerialInv, Inv, Alone, OneAtATime, Resting
<1> QED
  BY <1>1 DEF SerialInv, Clean

(* A step of r leaves what the others wrote.                               *)
LEMMA OthersWrote ==
  ASSUME TypeOK, NEW r \in Requests, Work(r) \/ Fault(r)
  PROVE  \A s \in Requests \ {r} : wrote'[s] = wrote[s]
<1>1. CASE Rollback(r) \/ Leave(r, "done")
  BY <1>1 DEF Rollback, Leave, TypeOK, RequestType
<1>2. CASE Begin(r) \/ BeginNew(r) \/ BeginAll(r)
  BY <1>2 DEF Begin, BeginNew, BeginAll, TypeOK, RequestType
<1>3. CASE Lock(r)
  BY <1>1, <1>3 DEF Lock, TypeOK, RequestType
<1>4. ASSUME NEW status, Conclude(r, status) PROVE \A s \in Requests \ {r} : wrote'[s] = wrote[s]
  BY <1>4 DEF Conclude, TypeOK, RequestType
<1> QED
  BY <1>1, <1>2, <1>3, <1>4
     DEF Work, Fault, Refuse, DeadlockVictim, PbxRejects, Abort, InsertDomain, Load, Flush, List,
         PbxCall, Synced, PbxUnavailable, Runtime, NextDomain, Commit, session

-----------------------------------------------------------------------------
(* The session of the request in flight stays fresh.                        *)

LEMMA CleanFresh ==
  ASSUME NEW r \in Requests, mem[r] = Nobody, wrote[r] = {}, lock[r] = Unlocked
  PROVE  Fresh(r)
  BY DEF Fresh, Nobody, Unlocked

LEMMA CleanFreshNext ==
  ASSUME NEW r \in Requests, mem'[r] = Nobody, wrote'[r] = {}, lock'[r] = Unlocked
  PROVE  Fresh(r)'
  BY DEF Fresh, Nobody, Unlocked

(* Steps that change neither the objects of the session nor its row locks.  *)
LEMMA SameFresh ==
  ASSUME NEW r \in Requests, Fresh(r), UNCHANGED <<db, mem, wrote, ask>>,
         \A c \in Customers : "update" \in lock'[r][c] <=> "update" \in lock[r][c]
  PROVE  Fresh(r)'
  BY DEF Fresh, UpToDate

LEMMA BeginFresh ==
  ASSUME SerialInv, NEW r \in Requests, Begin(r)
  PROVE  Fresh(r)'
<1> PICK c \in Customers : c = ask[r].c
  BY ConstantsAssumption DEF SerialInv, Inv, TypeOK, RequestType, Intent
<1> DEFINE held == db[c]
           new == Edited(ask[r], held)
<1>0. TypeOK
  BY DEF SerialInv, Inv
<1>1. /\ pc[r] = "idle" /\ held # NoDomain /\ ask[r].op # "resyncAll"
      /\ mem' = [mem EXCEPT ![r][c] = new]
      /\ wrote' = [wrote EXCEPT ![r] = {c} \X Dirty(ask[r], held)]
      /\ UNCHANGED <<db, lock, ask>>
  BY DEF Begin, store, txn
<1>2. mem[r] = Nobody /\ lock[r] = Unlocked
  BY <1>1 DEF SerialInv, Clean, Resting
<1>3. held \in Domain
  BY <1>0, <1>1 DEF TypeOK, StoreType
<1>4. /\ mem'[r][c] = new /\ \A x \in Customers \ {c} : mem'[r][x] = NoDomain
      /\ wrote'[r] = {c} \X Dirty(ask[r], held) /\ lock'[r] = Unlocked
  BY <1>0, <1>1, <1>2 DEF TypeOK, RequestType, Nobody
<1>5. /\ new.id = held.id /\ new.dom = held.dom /\ new.sync = held.sync
      /\ \A col \in {"active", "rec"} : col \in Dirty(ask[r], held) \/ new[col] = held[col]
      /\ "row" \notin Dirty(ask[r], held)
  BY <1>3 DEF Edited, Dirty, Domain
<1>6. UpToDate(r, c)'
  BY <1>1, <1>4, <1>5 DEF UpToDate, Saved
<1> HIDE DEF new, held
<1> QED
  BY <1>1, <1>4, <1>6 DEF Fresh, Unlocked

LEMMA BeginNewFresh ==
  ASSUME SerialInv, NEW r \in Requests, BeginNew(r)
  PROVE  Fresh(r)'
<1> PICK c \in Customers : c = ask[r].c
  BY ConstantsAssumption DEF SerialInv, Inv, TypeOK, RequestType, Intent
<1>0. TypeOK
  BY DEF SerialInv, Inv
<1>1. /\ pc[r] = "idle" /\ db[c] = NoDomain /\ ask[r].op = "put"
      /\ \E new : mem' = [mem EXCEPT ![r][c] = new]
      /\ wrote' = [wrote EXCEPT ![r] = {<<c, "row">>}]
      /\ UNCHANGED <<db, lock, ask>>
  BY DEF BeginNew, store, txn
<1>2. mem[r] = Nobody /\ lock[r] = Unlocked
  BY <1>1 DEF SerialInv, Clean, Resting
<1>3. /\ \A x \in Customers \ {c} : mem'[r][x] = NoDomain
      /\ wrote'[r] = {<<c, "row">>} /\ lock'[r] = Unlocked
  BY <1>0, <1>1, <1>2 DEF TypeOK, RequestType, Nobody
<1> QED
  BY <1>1, <1>3 DEF Fresh, UpToDate, Unlocked

LEMMA BeginAllFresh ==
  ASSUME SerialInv, NEW r \in Requests, BeginAll(r)
  PROVE  Fresh(r)'
<1>1. /\ pc[r] = "idle" /\ mem' = [mem EXCEPT ![r] = db]
      /\ UNCHANGED <<db, lock, wrote>>
  BY DEF BeginAll, store, txn
<1>2. wrote[r] = {} /\ lock[r] = Unlocked
  BY <1>1 DEF SerialInv, Clean, Resting
<1>3. mem'[r] = db
  BY <1>1 DEF SerialInv, Inv, TypeOK, RequestType
<1> QED
  BY <1>1, <1>2, <1>3 DEF Fresh, UpToDate, Unlocked

LEMMA InsertFresh ==
  ASSUME SerialInv, NEW r \in Requests, InsertDomain(r), ~Rollback(r)
  PROVE  Fresh(r)'
<1> PICK c \in Customers : c = ask[r].c
  BY ConstantsAssumption DEF SerialInv, Inv, TypeOK, RequestType, Intent
<1>1. /\ pc[r] = "insert" /\ lock' = [lock EXCEPT ![r][c] = {"update"}]
      /\ UNCHANGED <<db, mem, wrote, ask>>
  BY DEF InsertDomain, store, session
<1>2. mem[r][c] # NoDomain
  <2>1. <<c, "row">> \in wrote[r]
    BY <1>1 DEF SerialInv, Inv, LocksExclude, LockHeld
  <2>2. \A p \in wrote[r] : mem[r][p[1]] # NoDomain
    BY DEF SerialInv, Inv, TypeOK, SessionHolds
  <2> QED
    BY <2>1, <2>2
<1>3. \A x \in Customers : lock'[r][x] = IF x = c THEN {"update"} ELSE lock[r][x]
  BY <1>1 DEF SerialInv, Inv, TypeOK, RequestType
<1>4. Fresh(r)
  BY DEF SerialInv
<1> QED
  <2> SUFFICES ASSUME NEW x \in Customers
               PROVE  /\ mem'[r][x] # NoDomain => UpToDate(r, x)'
                      /\ "update" \in lock'[r][x] => mem'[r][x] # NoDomain
                      /\ \A col \in Column : <<x, col>> \in wrote'[r] =>
                           (ask'[r].op # "resyncAll" /\ x = ask'[r].c) \/ "update" \in lock'[r][x]
    BY DEF Fresh
  <2>1. mem'[r][x] # NoDomain => UpToDate(r, x)'
    BY <1>1, <1>4 DEF Fresh, UpToDate
  <2>2. "update" \in lock'[r][x] => mem'[r][x] # NoDomain
    BY <1>1, <1>2, <1>3, <1>4 DEF Fresh
  <2>3. ASSUME NEW col \in Column, <<x, col>> \in wrote'[r]
        PROVE  (ask'[r].op # "resyncAll" /\ x = ask'[r].c) \/ "update" \in lock'[r][x]
    BY <1>1, <1>3, <1>4, <2>3 DEF Fresh
  <2> QED
    BY <2>1, <2>2, <2>3

LEMMA FlushFresh ==
  ASSUME SerialInv, NEW r \in Requests, Flush(r), ~Rollback(r)
  PROVE  /\ Fresh(r)'
         /\ \A c \in Customers : "update" \in lock'[r][c] <=> "update" \in lock[r][c]
<1>1. /\ lock' = [lock EXCEPT ![r][ask[r].c] = @ \cup FlushModes(r)]
      /\ UNCHANGED <<db, mem, wrote, ask>>
  BY DEF Flush, store, session
<1>2. \A c \in Customers : "update" \in lock'[r][c] <=> "update" \in lock[r][c]
  BY <1>1 DEF SerialInv, Inv, TypeOK, RequestType, FlushModes
<1> QED
  BY <1>1, <1>2, SameFresh DEF SerialInv

LEMMA LockFresh ==
  ASSUME SerialInv, NEW r \in Requests, Lock(r), ~Rollback(r)
  PROVE  Fresh(r)'
<1> PICK c \in Customers : c = cur[r]
  BY DEF SerialInv, Inv, TypeOK, RequestType
<1> DEFINE Reads == <<c, "row">> \notin wrote[r] /\ (Dropped(r) \/ ~Current(r, c))
<1>0. TypeOK /\ Fresh(r)
  BY DEF SerialInv, Inv
<1>1. /\ <<c, "row">> \in wrote[r] \/ db[c] # NoDomain
      /\ lock' = [lock EXCEPT ![r][c] = @ \cup {"update"}]
      /\ Reads => /\ mem' = [mem EXCEPT ![r][c] = db[c]]
                  /\ wrote' = [wrote EXCEPT ![r] = {p \in @ : p[1] # c}]
      /\ ~Reads => mem' = mem /\ wrote' = wrote
      /\ db' = db /\ ask' = ask
  BY DEF Lock, store
<1>2. \A x \in Customers : lock'[r][x] = IF x = c THEN lock[r][c] \cup {"update"} ELSE lock[r][x]
  BY <1>0, <1>1 DEF TypeOK, RequestType
<1>3. CASE Reads
  <2>1. /\ mem'[r][c] = db[c] /\ db[c] # NoDomain
        /\ \A x \in Customers \ {c} : mem'[r][x] = mem[r][x]
        /\ wrote'[r] = {p \in wrote[r] : p[1] # c}
    BY <1>0, <1>1, <1>3 DEF TypeOK, RequestType
  <2>2. \A col : <<c, col>> \notin wrote'[r]
    BY <2>1
  <2>3. \A x \in Customers \ {c} : \A col : <<x, col>> \in wrote'[r] <=> <<x, col>> \in wrote[r]
    BY <2>1
  <2>4. UpToDate(r, c)'
    BY <1>1, <2>1, <2>2 DEF UpToDate
  <2>5. \A x \in Customers \ {c} : mem'[r][x] # NoDomain => UpToDate(r, x)'
    BY <1>0, <1>1, <2>1, <2>3 DEF UpToDate, Fresh
  <2> HIDE DEF Reads
  <2> QED
    BY <1>0, <1>1, <1>2, <2>1, <2>2, <2>3, <2>4, <2>5 DEF Fresh
<1>4. CASE ~Reads
  <2>1. mem[r][c] # NoDomain
    <3>1. CASE <<c, "row">> \in wrote[r]
      <4>1. \A p \in wrote[r] : mem[r][p[1]] # NoDomain
        BY <1>0 DEF TypeOK, SessionHolds
      <4> QED
        BY <3>1, <4>1
    <3>2. CASE <<c, "row">> \notin wrote[r]
      BY <1>4, <3>2 DEF Current
    <3> QED
      BY <3>1, <3>2
  <2>2. \A x \in Customers : UpToDate(r, x)' <=> UpToDate(r, x)
    BY <1>1, <1>4 DEF UpToDate
  <2> QED
    BY <1>0, <1>1, <1>2, <1>4, <2>1, <2>2 DEF Fresh
<1> QED
  BY <1>3, <1>4

LEMMA ConcludeFresh ==
  ASSUME SerialInv, NEW r \in Requests, NEW status \in Status, Calling(r), Conclude(r, status)
  PROVE  Fresh(r)' /\ \A x \in Customers : mem'[r][x].dom = mem[r][x].dom
<1> PICK c \in Customers : c = cur[r]
  BY DEF SerialInv, Inv, TypeOK, RequestType
<1>0. TypeOK /\ Fresh(r) /\ "update" \in lock[r][c]
  BY DEF SerialInv, Inv, Calling, LocksExclude, LockHeld
<1>1. /\ mem' = [mem EXCEPT ![r][c].sync = status]
      /\ wrote' = [wrote EXCEPT ![r] =
                     @ \cup (IF mem[r][c].sync = status THEN {} ELSE {<<c, "sync">>})]
      /\ UNCHANGED <<db, lock, ask>>
  BY DEF Conclude, store, txn
<1>2. mem[r][c] \in Domain
  BY <1>0 DEF Fresh, TypeOK, RequestType
<1>3. /\ mem'[r][c] = [mem[r][c] EXCEPT !.sync = status]
      /\ \A x \in Customers \ {c} : mem'[r][x] = mem[r][x]
      /\ wrote'[r] = wrote[r] \cup (IF mem[r][c].sync = status THEN {} ELSE {<<c, "sync">>})
  BY <1>0, <1>1 DEF TypeOK, RequestType
<1>4. /\ mem'[r][c].id = mem[r][c].id /\ mem'[r][c].dom = mem[r][c].dom
      /\ mem'[r][c].active = mem[r][c].active /\ mem'[r][c].rec = mem[r][c].rec
      /\ mem'[r][c].sync = status /\ mem[r][c] # NoDomain
  BY <1>2, <1>3, ConstantsAssumption DEF Domain
<1>5. \A x \in Customers : \A col : <<x, col>> \in wrote'[r] <=>
        <<x, col>> \in wrote[r] \/ (x = c /\ col = "sync" /\ mem[r][c].sync # status)
  BY <1>3
<1>6. mem'[r][c] # NoDomain
  <2>1. mem'[r][c] \in Domain
    BY <1>2, <1>3 DEF Domain
  <2> QED
    BY <2>1, ConstantsAssumption
<1>7. UpToDate(r, c)'
  <2>1. UpToDate(r, c)
    BY <1>0, <1>4 DEF Fresh
  <2>2. CASE <<c, "row">> \in wrote[r]
    BY <1>1, <1>5, <2>1, <2>2 DEF UpToDate
  <2>3. CASE <<c, "row">> \notin wrote[r]
    BY <1>1, <1>4, <1>5, <2>1, <2>3 DEF UpToDate, Saved
  <2> QED
    BY <2>2, <2>3
<1>8. \A x \in Customers \ {c} : mem'[r][x] # NoDomain => UpToDate(r, x)'
  BY <1>0, <1>1, <1>3, <1>5 DEF UpToDate, Fresh
<1>9. Fresh(r)'
  BY <1>0, <1>1, <1>3, <1>5, <1>6, <1>7, <1>8 DEF Fresh
<1> QED
  BY <1>3, <1>4, <1>9

LEMMA StepFresh ==
  ASSUME SerialInv, NEW r \in Requests, Work(r) \/ Fault(r)
  PROVE  Clean(r)' /\ Fresh(r)'
<1>0. TypeOK /\ Fresh(r)
  BY DEF SerialInv, Inv
<1>1. CASE Rollback(r) \/ Leave(r, "done")
  <2>1. mem'[r] = Nobody /\ wrote'[r] = {} /\ lock'[r] = Unlocked
    BY <1>0, <1>1 DEF Rollback, Leave, TypeOK, RequestType
  <2> QED
    BY <2>1, CleanFreshNext DEF Clean
<1>2. CASE Begin(r) \/ BeginNew(r) \/ BeginAll(r)
  <2>1. pc'[r] \notin {"idle"} \cup Over
    BY <1>0, <1>2 DEF Begin, BeginNew, BeginAll, Goto, TypeOK, RequestType, Over
  <2> QED
    BY <1>2, <2>1, BeginFresh, BeginNewFresh, BeginAllFresh DEF Clean, Resting
<1>3. CASE ~Rollback(r) /\ (InsertDomain(r) \/ Flush(r) \/ Lock(r))
  <2>1. pc'[r] \notin {"idle"} \cup Over
    BY <1>0, <1>3 DEF InsertDomain, Flush, Lock, Goto, TypeOK, RequestType, Over
  <2> QED
    BY <1>3, <2>1, InsertFresh, FlushFresh, LockFresh DEF Clean, Resting
<1>4. ASSUME NEW status \in Status, Calling(r), Conclude(r, status) PROVE Clean(r)' /\ Fresh(r)'
  <2>1. pc'[r] \notin {"idle"} \cup Over
    BY <1>0, <1>4 DEF Conclude, Goto, TypeOK, RequestType, Over
  <2> QED
    BY <1>4, <2>1, ConcludeFresh DEF Clean, Resting
<1>5. ASSUME UNCHANGED <<db, mem, wrote, ask, lock>>, pc'[r] \notin {"idle"} \cup Over
      PROVE  Clean(r)' /\ Fresh(r)'
  BY <1>0, <1>5, SameFresh DEF Clean, Resting
<1>6. CASE Load(r) \/ List(r) \/ NextDomain(r)
  BY <1>0, <1>5, <1>6 DEF Load, List, NextDomain, Goto, TypeOK, RequestType, Over, store, session, txn
<1>7. CASE PbxCall(r)
  BY <1>0, <1>5, <1>7 DEF PbxCall, Over, store, session, txn
<1>8. CASE Runtime(r) /\ ~Rollback(r)
  BY <1>0, <1>5, <1>8 DEF Runtime, Goto, TypeOK, RequestType, Over, store, session, txn
<1>9. CASE Synced(r) \/ PbxUnavailable(r)
  BY <1>4, <1>9 DEF Synced, PbxUnavailable, Calling, Status
<1> QED
  BY <1>1, <1>2, <1>3, <1>6, <1>7, <1>8, <1>9
     DEF Work, Fault, Refuse, DeadlockVictim, PbxRejects, Abort, InsertDomain, Flush, Lock, Runtime,
         Commit

LEMMA InitSerial == Init => SerialInv
<1> SUFFICES ASSUME NEW s \in Start, InitFrom(s) PROVE SerialInv
  BY DEF Init
<1>1. Inv
  BY InitInv DEF Init
<1>2. \A r \in Requests : pc[r] = "idle" /\ mem[r] = Nobody /\ wrote[r] = {} /\ lock[r] = Unlocked
  BY DEF InitFrom
<1> QED
  BY <1>1, <1>2, CleanFresh DEF SerialInv, Alone, Resting, Clean

LEMMA NextSerial == SerialInv /\ [Next /\ OneAtATime]_vars => SerialInv'
<1> SUFFICES ASSUME SerialInv, [Next /\ OneAtATime]_vars PROVE SerialInv'
  OBVIOUS
<1>1. Inv'
  BY NextInv DEF SerialInv
<1>2. ASSUME NEW r \in Requests, Work(r) \/ Fault(r), OneAtATime PROVE SerialInv'
  <2>1. ASSUME NEW s \in Requests \ {r}
        PROVE  Resting(s)' /\ mem'[s] = Nobody /\ wrote'[s] = {} /\ lock'[s] = Unlocked
    <3>1. UNCHANGED <<pc[s], mem[s], lock[s]>> /\ wrote'[s] = wrote[s]
      BY <1>2, StepApart, OthersWrote DEF SerialInv, Inv, Apart, Session
    <3> QED
      BY <1>2, <3>1, OthersRest DEF Resting
  <2>2. Alone'
    BY <2>1 DEF Alone
  <2>3. \A s \in Requests \ {r} : Clean(s)' /\ Fresh(s)'
    BY <2>1, CleanFreshNext DEF Clean
  <2> QED
    BY <1>1, <1>2, <2>2, <2>3, StepFresh DEF SerialInv
<1>3. CASE UNCHANGED vars
  <2>1. UNCHANGED <<db, pc, ask, mem, wrote, lock>>
    BY <1>3 DEF vars, store, session, txn
  <2>2. Alone' /\ \A r \in Requests : Clean(r)' /\ Fresh(r)'
    BY <2>1, SameFresh DEF SerialInv, Alone, Resting, Clean
  <2> QED
    BY <1>1, <2>2 DEF SerialInv
<1> QED
  BY <1>2, <1>3 DEF Next

-----------------------------------------------------------------------------
(* The mapping.                                                             *)

LEMMA HeldBy ==
  ASSUME NEW r \in Requests, \A s \in Requests \ {r} : lock[s] = Unlocked, NEW c \in Customers
  PROVE  HeldFor(c) = IF "update" \in lock[r][c] THEN mem[r][c].dom ELSE NoDomain
<1>1. Holders(c) = IF "update" \in lock[r][c] THEN {r} ELSE {}
  BY DEF Holders, Unlocked
<1> QED
  BY <1>1 DEF HeldFor

LEMMA HeldByNext ==
  ASSUME NEW r \in Requests, \A s \in Requests \ {r} : lock'[s] = Unlocked, NEW c \in Customers
  PROVE  HeldFor(c)' = IF "update" \in lock'[r][c] THEN mem'[r][c].dom ELSE NoDomain
<1>1. Holders(c)' = IF "update" \in lock'[r][c] THEN {r} ELSE {}
  BY DEF Holders, Unlocked
<1> QED
  BY <1>1 DEF HeldFor

(* The request that takes a step is the one that holds customers.          *)
LEMMA Held ==
  ASSUME SerialInv, OneAtATime, NEW r \in Requests, Work(r) \/ Fault(r), NEW c \in Customers
  PROVE  /\ HeldFor(c) = IF "update" \in lock[r][c] THEN mem[r][c].dom ELSE NoDomain
         /\ HeldFor(c)' = IF "update" \in lock'[r][c] THEN mem'[r][c].dom ELSE NoDomain
<1>1. \A s \in Requests \ {r} : lock[s] = Unlocked
  BY OthersRest
<1>2. \A s \in Requests \ {r} : lock'[s] = Unlocked
  BY <1>1, StepApart DEF SerialInv, Apart, Session
<1> QED
  BY <1>1, <1>2, HeldBy, HeldByNext

LEMMA PublishedType ==
  ASSUME TypeOK, NEW c \in Customers
  PROVE  Published(c) \in Service!Record \cup {NoDomain}
<1>1. ItemsOf(rows, c) \subseteq Item
  BY DEF TypeOK, StoreType, ItemsOf, RowsOf, Row
<1>2. db[c] \in Domain \cup {NoDomain}
  BY DEF TypeOK, StoreType
<1> QED
  BY <1>1, <1>2 DEF Published, Service!Record, Domain

LEMMA PublishedTypeNext ==
  ASSUME TypeOK', NEW c \in Customers
  PROVE  Published(c)' \in Service!Record \cup {NoDomain}
<1>1. ItemsOf(rows, c)' \subseteq Item
  BY DEF TypeOK, StoreType, ItemsOf, RowsOf, Row
<1>2. db'[c] \in Domain \cup {NoDomain}
  BY DEF TypeOK, StoreType
<1> QED
  BY <1>1, <1>2 DEF Published, Service!Record, Domain

LEMMA SamePublished ==
  ASSUME UNCHANGED store, NEW c \in Customers
  PROVE  Published(c)' = Published(c)
  BY DEF Published, ItemsOf, RowsOf, store

(* What a step of the handlers is to the service: nothing, ...             *)
LEMMA Stutters ==
  ASSUME UNCHANGED store, pbx' = pbx, \A c \in Customers : HeldFor(c)' = HeldFor(c)
  PROVE  UNCHANGED Service!vars
  BY SamePublished DEF Service!vars

(* ... the row lock taken, ...                                              *)
LEMMA Holds ==
  ASSUME UNCHANGED store, pbx' = pbx, NEW c \in Customers, NEW d \in PbxDomains,
         HeldFor(c) = NoDomain, HeldFor(c)' = d, db[c] # NoDomain => d = db[c].dom,
         \A x \in Customers \ {c} : HeldFor(x)' = HeldFor(x)
  PROVE  Service!Next
<1>1. Published(c) # NoDomain => Published(c).dom = db[c].dom /\ db[c] # NoDomain
  BY DEF Published
<1>2. Service!Hold(c, d)
  BY <1>1, SamePublished DEF Service!Hold
<1> QED
  BY <1>2 DEF Service!Next

(* ... a call, ...                                                          *)
LEMMA Serves ==
  ASSUME UNCHANGED store, NEW c \in Customers, HeldFor(c) # NoDomain, NEW S \in SUBSET Item,
         pbx' = [pbx EXCEPT ![HeldFor(c)] = S],
         \A x \in Customers : HeldFor(x)' = HeldFor(x)
  PROVE  Service!Next
<1>1. Service!Serve(c)
  BY SamePublished DEF Service!Serve
<1> QED
  BY <1>1 DEF Service!Next

(* ... a rollback, ...                                                      *)
LEMMA GivesUp ==
  ASSUME UNCHANGED store, pbx' = pbx, NEW C \in (SUBSET Customers) \ {{}},
         \A c \in C : HeldFor(c) # NoDomain,
         \A c \in Customers : HeldFor(c)' = IF c \in C THEN NoDomain ELSE HeldFor(c)
  PROVE  Service!Next
<1>1. Service!GiveUp(C)
  BY SamePublished DEF Service!GiveUp, Service!Let
<1> QED
  BY <1>1 DEF Service!Next

(* ... or a commit.                                                         *)
LEMMA Publishes ==
  ASSUME TypeOK', pbx' = pbx, NEW C \in (SUBSET Customers) \ {{}},
         \A c \in C : HeldFor(c) # NoDomain,
         \A c \in Customers : HeldFor(c)' = IF c \in C THEN NoDomain ELSE HeldFor(c),
         \A c \in Customers \ C : Published(c)' = Published(c),
         \A c \in C : Published(c)' # NoDomain =>
           /\ Published(c)'.dom = HeldFor(c)
           /\ c \in SoleCustomers /\ Published(c)'.synced =>
                pbx[HeldFor(c)] = IF Published(c)'.active THEN Published(c)'.items ELSE {}
  PROVE  Service!Next
<1>1. Service!Let(C)
  BY DEF Service!Let
<1>2. \A c \in Customers : Published(c)' \in Service!Record \cup {NoDomain}
  BY PublishedTypeNext
<1>3. Service!Publish(C)
  BY <1>1, <1>2 DEF Service!Publish, Service!True, Service!Due
<1> QED
  BY <1>3 DEF Service!Next

-----------------------------------------------------------------------------
(* Every step of a request is a step of the service or none.               *)

(* The end of a transaction that publishes nothing.                        *)
LEMMA LeaveMaps ==
  ASSUME Distinct, SerialInv, OneAtATime, NEW r \in Requests, Work(r) \/ Fault(r),
         lock'[r] = Unlocked, UNCHANGED store, pbx' = pbx
  PROVE  Service!Next \/ UNCHANGED Service!vars
<1> DEFINE C == {c \in Customers : "update" \in lock[r][c]}
<1>1. \A c \in Customers : HeldFor(c)' = IF c \in C THEN NoDomain ELSE HeldFor(c)
  BY Held DEF Unlocked
<1>2. \A c \in C : HeldFor(c) # NoDomain
  <2> SUFFICES ASSUME NEW c \in C PROVE HeldFor(c) # NoDomain
    OBVIOUS
  <2>1. mem[r][c] \in Domain
    BY DEF SerialInv, Fresh, Inv, TypeOK, RequestType
  <2> QED
    BY <2>1, Held DEF Domain, Distinct
<1>3. CASE C = {}
  BY <1>1, <1>3, Stutters
<1>4. CASE C # {}
  <2> HIDE DEF C
  <2>1. C \in (SUBSET Customers) \ {{}}
    BY <1>4 DEF C
  <2> QED
    BY <1>1, <1>2, <2>1, GivesUp
<1> QED
  BY <1>3, <1>4

(* A row that is committed is the row the session has.                     *)
LEMMA MergedFresh ==
  ASSUME TypeOK, NEW r \in Requests, Fresh(r), NEW c \in Customers,
         mem[r][c] # NoDomain, Merged(r, c) # NoDomain
  PROVE  Merged(r, c) = mem[r][c]
<1>1. UpToDate(r, c) /\ mem[r][c] \in Domain
  BY DEF Fresh, TypeOK, RequestType
<1>2. CASE <<c, "row">> \in wrote[r]
  BY <1>2 DEF Merged
<1>3. CASE <<c, "row">> \notin wrote[r]
  <2> DEFINE now == Merged(r, c)
  <2>1. db[c] \in Domain
    BY <1>1, <1>3 DEF UpToDate, TypeOK, StoreType
  <2>2. /\ now.id = mem[r][c].id /\ now.dom = mem[r][c].dom /\ now.active = mem[r][c].active
        /\ now.rec = mem[r][c].rec /\ now.sync = mem[r][c].sync /\ now \in Domain
    BY <1>1, <1>3, <2>1 DEF Merged, UpToDate, Saved, Domain
  <2> QED
    BY <1>1, <2>2 DEF Domain
<1> QED
  BY <1>2, <1>3

LEMMA CommitMaps ==
  ASSUME Distinct, SerialInv, SerialInv', OneAtATime, NEW r \in Requests, Commit(r), ~Rollback(r)
  PROVE  Service!Next \/ UNCHANGED Service!vars
<1> DEFINE C == {c \in Customers : "update" \in lock[r][c]}
<1>0. TypeOK /\ Fresh(r) /\ Settled(r) /\ Work(r) /\ Apart(r)
  BY StepApart DEF SerialInv, Inv, Work
<1>1. /\ pc[r] = "commit" /\ db' = [c \in Customers |-> Merged(r, c)] /\ rows' = View(r)
      /\ pbx' = pbx /\ lock'[r] = Unlocked
  BY <1>0 DEF Commit, Leave, pbxVars, TypeOK, RequestType
<1>2. \A c \in Customers : HeldFor(c)' = IF c \in C THEN NoDomain ELSE HeldFor(c)
  BY <1>0, <1>1, Held DEF Unlocked
<1>3. ASSUME NEW c \in C
      PROVE  mem[r][c] \in Domain /\ HeldFor(c) = mem[r][c].dom /\ HeldFor(c) # NoDomain
  <2>1. mem[r][c] \in Domain
    BY <1>0 DEF Fresh, TypeOK, RequestType
  <2> QED
    BY <1>0, <2>1, Held DEF Domain, Distinct
<1>4. ASSUME NEW c \in Customers \ C
      PROVE  Published(c)' = Published(c)
  <2>1. ask[r].op # "resyncAll" => c # ask[r].c
    <3>1. ask[r].op # "resyncAll" => "update" \in lock[r][cur[r]] /\ cur[r] = ask[r].c
      BY <1>1 DEF SerialInv, Inv, LocksExclude, LockHeld
    <3> QED
      BY <3>1
  <2>2. \A col \in Column : <<c, col>> \notin wrote[r]
    BY <1>0, <2>1 DEF Fresh
  <2>3. db'[c] = db[c]
    <3>1. db[c] \in Domain \cup {NoDomain}
      BY <1>0 DEF TypeOK, StoreType
    <3> QED
      BY <1>1, <2>2, <3>1 DEF Merged, Column, Domain
  <2>4. ItemsOf(rows, c)' = ItemsOf(rows, c)
    BY <1>0 DEF Apart, ItemsOf
  <2> QED
    BY <2>3, <2>4 DEF Published
<1>5. ASSUME NEW c \in C, Published(c)' # NoDomain
      PROVE  /\ Published(c)'.dom = HeldFor(c)
             /\ c \in SoleCustomers /\ Published(c)'.synced =>
                  pbx[HeldFor(c)] = IF Published(c)'.active THEN Published(c)'.items ELSE {}
  <2>1. db'[c] # NoDomain /\ db'[c] = Merged(r, c)
    BY <1>1, <1>5 DEF Published
  <2>2. db'[c] = mem[r][c]
    BY <1>3, <2>1, MergedFresh, ConstantsAssumption DEF SerialInv, Inv
  <2>3. Published(c)' = [dom |-> mem[r][c].dom, active |-> mem[r][c].active,
                         items |-> ItemsOf(View(r), c), synced |-> mem[r][c].sync = "synced"]
    BY <1>1, <2>1, <2>2 DEF Published, ItemsOf
  <2>4. c \in SoleCustomers /\ mem[r][c].sync = "synced" => Applied(r, c)
    BY <1>0, <1>1 DEF Settled, Claims, Visited, Reconciled
  <2>5. /\ Published(c)'.dom = mem[r][c].dom /\ Published(c)'.active = mem[r][c].active
        /\ Published(c)'.items = ItemsOf(View(r), c)
        /\ Published(c)'.synced = (mem[r][c].sync = "synced")
    BY <2>3
  <2>6. HeldFor(c) = mem[r][c].dom
    BY <1>3
  <2>7. c \in SoleCustomers /\ mem[r][c].sync = "synced" =>
          pbx[mem[r][c].dom] = IF mem[r][c].active THEN ItemsOf(View(r), c) ELSE {}
    BY <2>4 DEF Applied, PbxIs
  <2> QED
    BY <2>5, <2>6, <2>7
<1>6. CASE C = {}
  <2>1. \A c \in Customers : Published(c)' = Published(c) /\ HeldFor(c)' = HeldFor(c)
    BY <1>2, <1>4, <1>6
  <2> QED
    BY <1>1, <2>1 DEF Service!vars
<1>7. CASE C # {}
  <2> HIDE DEF C
  <2>1. C \in (SUBSET Customers) \ {{}}
    BY <1>7 DEF C
  <2>2. TypeOK'
    BY DEF SerialInv, Inv
  <2> QED
    BY <1>1, <1>2, <1>3, <1>4, <1>5, <2>1, <2>2, Publishes
<1> QED
  BY <1>6, <1>7

LEMMA CallMaps ==
  ASSUME Distinct, SerialInv, OneAtATime, NEW r \in Requests, Work(r) \/ Fault(r), Calling(r),
         NEW k \in calls[r], Effect(r, k), UNCHANGED <<store, lock>>,
         \A x \in Customers : mem'[r][x].dom = mem[r][x].dom
  PROVE  Service!Next
<1> PICK c \in Customers : c = cur[r]
  BY DEF SerialInv, Inv, TypeOK, RequestType
<1>0. TypeOK
  BY DEF SerialInv, Inv
<1>1. "update" \in lock[r][c] /\ mem[r][c] \in Domain
  <2>1. "update" \in lock[r][c]
    BY DEF Calling, SerialInv, Inv, LocksExclude, LockHeld
  <2>2. mem[r][c] # NoDomain
    BY <2>1 DEF SerialInv, Fresh
  <2> QED
    BY <1>0, <2>1, <2>2 DEF TypeOK, RequestType
<1>2. HeldFor(c) = Dom(r) /\ HeldFor(c) # NoDomain /\ HeldFor(c) \in PbxDomains
  BY <1>1, Held DEF Dom, Domain, Distinct
<1>3. \A x \in Customers : HeldFor(x)' = HeldFor(x)
  BY Held
<1>4. k \in Call
  BY <1>0 DEF TypeOK, RequestType
<1>5. PICK S \in SUBSET Item : pbx' = [pbx EXCEPT ![Dom(r)] = S]
  <2>1. k[1] \in {"createExt", "applyDialplan", "applyQueue"} => k[2] \in Item
    BY <1>4 DEF Call, Item, Feature
  <2>2. pbx[Dom(r)] \in SUBSET Item /\ pbx = [pbx EXCEPT ![Dom(r)] = pbx[Dom(r)]]
    BY <1>0, <1>2 DEF TypeOK, PbxType
  <2>3. CASE k[1] \in {"createExt", "applyDialplan", "applyQueue"}
    BY <2>1, <2>2, <2>3 DEF Effect, PbxAfter
  <2>4. CASE k[1] \in {"dropExt", "dropDialplan", "dropQueue"}
    BY <2>2, <2>4 DEF Effect, PbxAfter
  <2>5. CASE k[1] \notin {"createExt", "applyDialplan", "applyQueue",
                          "dropExt", "dropDialplan", "dropQueue"}
    BY <2>2, <2>5 DEF Effect, PbxAfter
  <2> QED
    BY <2>3, <2>4, <2>5
<1> QED
  BY <1>2, <1>3, <1>5, Serves

LEMMA HoldMaps ==
  ASSUME Distinct, SerialInv, SerialInv', OneAtATime, NEW r \in Requests,
         InsertDomain(r) \/ Lock(r), ~Rollback(r)
  PROVE  Service!Next \/ UNCHANGED Service!vars
<1> PICK c \in Customers : c = IF InsertDomain(r) THEN ask[r].c ELSE cur[r]
  BY ConstantsAssumption DEF SerialInv, Inv, TypeOK, RequestType, Intent
<1>0. TypeOK /\ Work(r)
  BY DEF SerialInv, Inv, Work
<1>1. /\ UNCHANGED store /\ pbx' = pbx
      /\ "update" \in lock'[r][c]
      /\ \A x \in Customers \ {c} : lock'[r][x] = lock[r][x] /\ mem'[r][x] = mem[r][x]
  <2>1. CASE InsertDomain(r)
    BY <1>0, <2>1 DEF InsertDomain, pbxVars, session, TypeOK, RequestType
  <2>2. CASE Lock(r) /\ ~InsertDomain(r)
    BY <1>0, <2>2 DEF Lock, pbxVars, store, TypeOK, RequestType
  <2> QED
    BY <2>1, <2>2
<1>2. mem'[r][c] \in Domain
  BY <1>1 DEF SerialInv, Fresh, Inv, TypeOK, RequestType
<1>3. \A x \in Customers \ {c} : HeldFor(x)' = HeldFor(x)
  BY <1>0, <1>1, Held
<1>4. HeldFor(c)' = mem'[r][c].dom /\ mem'[r][c].dom \in PbxDomains
  BY <1>0, <1>1, <1>2, Held DEF Domain
<1>5. db[c] # NoDomain => mem'[r][c].dom = db[c].dom
  <2>1. UpToDate(r, c)' /\ db' = db
    BY <1>1, <1>2, ConstantsAssumption DEF SerialInv, Fresh, store
  <2> QED
    BY <2>1 DEF UpToDate
<1>6. CASE "update" \notin lock[r][c]
  BY <1>0, <1>1, <1>3, <1>4, <1>5, <1>6, Held, Holds
<1>7. CASE "update" \in lock[r][c]
  <2>1. mem'[r][c].dom = mem[r][c].dom
    <3>1. UpToDate(r, c) /\ UpToDate(r, c)' /\ db' = db
      BY <1>1, <1>2, <1>7, ConstantsAssumption DEF SerialInv, Fresh, store
    <3>2. CASE db[c] = NoDomain
      BY <3>1, <3>2 DEF UpToDate, InsertDomain, Lock, session
    <3>3. CASE db[c] # NoDomain
      BY <3>1, <3>3 DEF UpToDate
    <3> QED
      BY <3>2, <3>3
  <2>2. \A x \in Customers : HeldFor(x)' = HeldFor(x)
    BY <1>0, <1>3, <1>4, <1>7, <2>1, Held
  <2> QED
    BY <1>1, <2>2, Stutters
<1> QED
  BY <1>6, <1>7

LEMMA StepMaps ==
  ASSUME Distinct, SerialInv, SerialInv', OneAtATime, NEW r \in Requests, Work(r) \/ Fault(r)
  PROVE  Service!Next \/ UNCHANGED Service!vars
<1>0. TypeOK
  BY DEF SerialInv, Inv
<1>1. CASE Rollback(r) /\ UNCHANGED pbxVars
  BY <1>0, <1>1, LeaveMaps DEF Rollback, Leave, pbxVars, TypeOK, RequestType
<1>2. ASSUME UNCHANGED store, pbx' = pbx,
             \A c \in Customers : /\ "update" \in lock'[r][c] <=> "update" \in lock[r][c]
                                  /\ "update" \in lock[r][c] => mem'[r][c].dom = mem[r][c].dom
      PROVE  UNCHANGED Service!vars
  BY <1>2, Held, Stutters
<1>3. CASE Begin(r) \/ BeginNew(r) \/ BeginAll(r)
  <2>1. lock[r] = Unlocked
    BY <1>3 DEF Begin, BeginNew, BeginAll, SerialInv, Clean, Resting
  <2> QED
    BY <1>2, <1>3, <2>1 DEF Begin, BeginNew, BeginAll, pbxVars, txn, Unlocked
<1>4. CASE Load(r) \/ List(r) \/ NextDomain(r)
  BY <1>2, <1>4 DEF Load, List, NextDomain, pbxVars, session, txn
<1>5. CASE Flush(r) /\ ~Rollback(r)
  BY <1>2, <1>5, FlushFresh DEF Flush, pbxVars, session
<1>6. CASE Runtime(r) /\ ~Rollback(r)
  BY <1>2, <1>6 DEF Runtime, pbxVars, session, txn
<1>7. CASE (InsertDomain(r) \/ Lock(r)) /\ ~Rollback(r)
  BY <1>7, HoldMaps
<1>8. CASE Commit(r) /\ ~Rollback(r)
  BY <1>8, CommitMaps
<1>9. CASE PbxCall(r)
  <2>1. PICK k \in Ready(r) : Effect(r, k)
    BY <1>9 DEF PbxCall
  <2> QED
    BY <1>9, <2>1, CallMaps DEF PbxCall, Calling, Ready, session, txn
<1>10. ASSUME NEW status \in Status, Calling(r), Conclude(r, status),
              UNCHANGED pbxVars \/ \E k \in Ready(r) : Effect(r, k)
       PROVE  Service!Next \/ UNCHANGED Service!vars
  <2>1. /\ \A x \in Customers : mem'[r][x].dom = mem[r][x].dom
        /\ UNCHANGED <<store, lock>>
    BY <1>10, ConcludeFresh DEF Conclude, txn
  <2>2. CASE UNCHANGED pbxVars
    BY <1>2, <2>1, <2>2 DEF pbxVars
  <2>3. ASSUME NEW k \in Ready(r), Effect(r, k) PROVE Service!Next
    BY <1>10, <2>1, <2>3, CallMaps DEF Ready
  <2> QED
    BY <1>10, <2>2, <2>3
<1>11. CASE Synced(r) \/ PbxUnavailable(r)
  BY <1>10, <1>11 DEF Synced, PbxUnavailable, Calling, Status
<1> QED
  BY <1>1, <1>3, <1>4, <1>5, <1>6, <1>7, <1>8, <1>9, <1>11
     DEF Work, Fault, Refuse, DeadlockVictim, PbxRejects, Abort, InsertDomain, Flush, Lock, Runtime,
         Commit

LEMMA InitMaps == Distinct /\ Init => Service!Init
<1> SUFFICES ASSUME Distinct, NEW s \in Start, InitFrom(s) PROVE Service!Init
  BY DEF Init
<1>1. TypeOK
  BY InitType DEF Init
<1>2. \A c \in Customers : HeldFor(c) = NoDomain
  <2>1. \A c \in Customers : Holders(c) = {}
    BY DEF InitFrom, Holders, Unlocked
  <2> QED
    BY <2>1 DEF HeldFor
<1>3. ASSUME NEW c \in SoleCustomers, Published(c) # NoDomain
      PROVE  Published(c).synced =>
               pbx[Published(c).dom] = IF Published(c).active THEN Published(c).items ELSE {}
  <2> c \in Customers
    BY DEF SoleCustomers
  <2>1. s[c] # NoDomain /\ db[c].dom = s[c].dom /\ db[c].active = s[c].active
    BY <1>3, ConstantsAssumption DEF InitFrom, Published
  <2>2. s[c] \in Provisioned
    BY <2>1, ConstantsAssumption
  <2>3. ItemsOf(rows, c) = s[c].items
    <3>1. ItemsOf(rows, c) \subseteq s[c].items
      BY DEF InitFrom, ItemsOf, RowsOf
    <3>2. ASSUME NEW x \in s[c].items PROVE x \in ItemsOf(rows, c)
      <4> DEFINE w == [c |-> c, item |-> x, by |-> Seed]
      <4>1. w \in Row
        BY <2>2 DEF Row, Provisioned, Creator
      <4>2. w \in RowsOf(rows, c)
        BY <2>1, <4>1 DEF InitFrom, RowsOf
      <4> QED
        BY <4>2 DEF ItemsOf
    <3> QED
      BY <3>1, <3>2
  <2>4. s[c].dom \in PbxDomains
    BY <2>2 DEF Provisioned
  <2>5. pbx[s[c].dom] = UNION {s[x].items : x \in {y \in Customers :
                                 s[y] # NoDomain /\ s[y].dom = s[c].dom /\ s[y].active}}
    BY <2>4 DEF InitFrom
  <2>6. \A y \in Customers : s[y] # NoDomain /\ s[y].dom = s[c].dom => y = c
    BY <2>1 DEF SoleCustomers, Given
  <2>7. pbx[s[c].dom] = IF s[c].active THEN s[c].items ELSE {}
    BY <2>1, <2>5, <2>6
  <2> QED
    BY <1>3, <2>1, <2>3, <2>7 DEF Published
<1>4. \A c \in Customers : Published(c) \in Service!Record \cup {NoDomain}
  BY <1>1, PublishedType
<1>5. pbx \in [PbxDomains -> SUBSET Item]
  BY <1>1 DEF TypeOK, PbxType
<1> QED
  BY <1>2, <1>3, <1>4, <1>5 DEF Service!Init, Service!True, Service!Due

(* With a client that waits for its answers the handlers implement the     *)
(* service, through every outage, refusal, crash, deprovision and fleet-   *)
(* wide resync (api/provisioning.py, reconcile/voice.py).                  *)
THEOREM HandlersImplement == ASSUME Distinct PROVE SerialSpec => ServiceKept
<1>1. Init => Service!Init /\ SerialInv
  BY InitMaps, InitSerial
<1>2. SerialInv /\ [Next /\ OneAtATime]_vars => SerialInv'
  BY NextSerial
<1>3. SerialInv /\ SerialInv' /\ [Next /\ OneAtATime]_vars => [Service!Next]_Service!vars
  <2>1. CASE UNCHANGED vars
    <3>1. UNCHANGED store /\ pbx' = pbx /\ mem' = mem /\ lock' = lock
      BY <2>1 DEF vars, pbxVars, session, txn
    <3> QED
      BY <3>1, Stutters DEF HeldFor, Holders
  <2> QED
    BY <2>1, StepMaps DEF Next
<1> QED
  BY <1>1, <1>2, <1>3, PTL DEF SerialSpec, ServiceKept, Service!Spec
-----------------------------------------------------------------------------
(* The status.                                                              *)

(* What the last reconcile returned is the status in the session.          *)
Reported(r) ==
  pc[r] \in {"runtime", "next", "commit"} /\ Reconciled(r, cur[r]) =>
    mem[r][cur[r]].sync = result[r]

LEMMA StepReported ==
  ASSUME TypeOK, LocksExclude, NEW r \in Requests, Reported(r), Work(r) \/ Fault(r)
  PROVE  Reported(r)'
<1>1. CASE Rollback(r) \/ Leave(r, "done")
  BY <1>1 DEF Rollback, Leave, Goto, TypeOK, RequestType, Reported
<1>2. CASE Begin(r) \/ BeginNew(r) \/ BeginAll(r)
  <2>1. lock'[r] = Unlocked
    BY <1>2 DEF Begin, BeginNew, BeginAll, LocksExclude, LockHeld, txn
  <2>2. cur'[r] \in Customers
    BY <1>2, BeginType, BeginNewType, BeginAllType DEF TypeOK, RequestType
  <2> QED
    BY <2>1, <2>2 DEF Reported, Reconciled, Unlocked
<1>3. CASE Load(r) \/ NextDomain(r) \/ List(r)
  BY <1>3 DEF Load, NextDomain, List, Goto, TypeOK, RequestType, Reported
<1>4. CASE (InsertDomain(r) \/ Flush(r) \/ Lock(r)) /\ ~Rollback(r)
  BY <1>4 DEF InsertDomain, Flush, Lock, Goto, TypeOK, RequestType, Reported
<1>5. CASE PbxCall(r)
  BY <1>5 DEF PbxCall, Reported
<1>6. ASSUME NEW status, Calling(r), Conclude(r, status) PROVE Reported(r)'
  <2>1. mem[r][cur[r]] \in Domain /\ cur[r] \in Customers
    BY <1>6 DEF Calling, TypeOK, RequestType, SessionHolds
  <2>2. mem'[r][cur[r]].sync = status /\ cur' = cur /\ result'[r] = status
    BY <1>6, <2>1 DEF Conclude, TypeOK, RequestType, Domain
  <2> QED
    BY <2>2 DEF Reported
<1>7. CASE Runtime(r) /\ ~Rollback(r)
  BY <1>7 DEF Runtime, Goto, TypeOK, RequestType, session, txn, run, Reported, Reconciled
<1> QED
  BY <1>1, <1>2, <1>3, <1>4, <1>5, <1>6, <1>7
     DEF Work, Fault, Refuse, DeadlockVictim, PbxRejects, Abort, InsertDomain, Flush, Lock, Runtime,
         Commit, Synced, PbxUnavailable, Calling

(* With a client that waits for its answers, the sync_status a request     *)
(* commits is the one its reconcile returned (reconcile/voice.py:52).      *)
THEOREM StatusesRecorded == SerialSpec => StatusRecorded
<1> DEFINE I == SerialInv /\ \A r \in Requests : Reported(r)
           Is(r) == Committing(r) /\ Reconciled(r, cur[r]) /\ db'[cur[r]] # NoDomain =>
                      db'[cur[r]].sync = result[r]
<1>1. Init => I
  <2>1. Init => SerialInv
    BY InitSerial
  <2>2. Init => \A r \in Requests : Reported(r)
    BY DEF Init, InitFrom, Reported
  <2> QED
    BY <2>1, <2>2
<1>2. I /\ [Next /\ OneAtATime]_vars => I'
  <2> SUFFICES ASSUME I, [Next /\ OneAtATime]_vars PROVE I'
    OBVIOUS
  <2>1. SerialInv'
    BY NextSerial
  <2>2. ASSUME NEW r \in Requests, Work(r) \/ Fault(r), OneAtATime, NEW s \in Requests
        PROVE  Reported(s)'
    <3>1. CASE s = r
      BY <2>2, <3>1, StepReported DEF SerialInv, Inv
    <3>2. CASE s # r
      <4>1. Resting(s) /\ pc'[s] = pc[s]
        BY <2>2, <3>2, OthersRest, StepApart DEF SerialInv, Apart, Session
      <4> QED
        BY <4>1 DEF Reported, Resting, Over
    <3> QED
      BY <3>1, <3>2
  <2>3. CASE UNCHANGED vars
    BY <2>1, <2>3 DEF vars, session, txn, run, Reported, Reconciled
  <2> QED
    BY <2>1, <2>2, <2>3 DEF Next
<1>3. ASSUME I, Next, NEW r \in Requests PROVE Is(r)
  <2> SUFFICES ASSUME Committing(r), Reconciled(r, cur[r]), db'[cur[r]] # NoDomain
               PROVE  db'[cur[r]].sync = result[r]
    OBVIOUS
  <2>1. pc[r] = "commit" /\ db' = [c \in Customers |-> Merged(r, c)] /\ cur[r] \in Customers
    BY <1>3, Commits DEF SerialInv, Inv, TypeOK, RequestType
  <2>2. db'[cur[r]] = mem[r][cur[r]]
    BY <1>3, <2>1, MergedFresh DEF SerialInv, Inv, Fresh, Reconciled
  <2> QED
    BY <1>3, <2>1, <2>2 DEF Reported
<1>4. ASSUME I, [Next /\ OneAtATime]_vars PROVE [\A r \in Requests : Is(r)]_vars
  BY <1>3, <1>4
<1> QED
  BY <1>1, <1>2, <1>4, PTL DEF SerialSpec, StatusRecorded

-----------------------------------------------------------------------------
(* The intent.                                                              *)

(* The items of a payload are of the kind its endpoint takes.              *)
WellAsked ==
  \A i \in Intents : /\ i.op = "put" => i.items \subseteq Numbers
                     /\ i.op = "features" => i.items \subseteq Feature

OnePerItem(S) == \A v, w \in S : v.c = w.c /\ v.item = w.item => v = w

(* What the session has of the domain is what was asked.                   *)
Edits(r) ==
  LET i == ask[r]
      row == mem[r][i.c]
  IN ~Resting(r) =>
       /\ i.op \in {"put", "suspend", "resume"} \/ pc[r] \in {"load", "flush"} => row # NoDomain
       /\ i.op = "put" => row.rec = i.rec
       /\ i.op = "suspend" => ~row.active
       /\ i.op = "resume" => row.active
       /\ i.op = "deprovision" => <<i.c, "drop">> \in wrote[r]

(* Items that are as i asked for.                                          *)
Filed(i, items) ==
  /\ i.op = "put" => items \cap Numbers = i.items
  /\ i.op = "features" => items \cap Feature = i.items
  /\ i.op = "post" => i.items \subseteq items
  /\ i.op = "remove" => i.items \cap items = {}

(* Before its flush a session has changed no row and, once loaded, seen    *)
(* what it has to edit; after it, its rows are as they were asked for.     *)
Files(r) ==
  /\ pc[r] \in {"idle", "insert", "load", "flush"} => ins[r] = {} /\ del[r] = {}
  /\ pc[r] = "flush" /\ ask[r].op \notin {"suspend", "resume"} =>
       seen[r] = {w \in RowsOf(rows, ask[r].c) : w.item \in Scope(ask[r])}
  /\ pc[r] \in {"lock", "list", "calls", "runtime", "next", "commit"} =>
       OnePerItem(View(r)) /\ Filed(ask[r], ItemsOf(View(r), ask[r].c))

IntentInv ==
  SerialInv /\ OnePerItem(rows) /\ \A r \in Requests : Edits(r) /\ Files(r)

LEMMA AskedType ==
  ASSUME TypeOK, NEW r \in Requests
  PROVE  ask[r] \in Intents /\ ask[r] \in Intent /\ ask[r].c \in Customers /\ cur[r] \in Customers
  BY ConstantsAssumption DEF TypeOK, RequestType, Intent

LEMMA BeginEdits ==
  ASSUME SerialInv, NEW r \in Requests, Begin(r) \/ BeginNew(r) \/ BeginAll(r)
  PROVE  Edits(r)'
<1> PICK c \in Customers : c = ask[r].c
  BY AskedType DEF SerialInv, Inv
<1>0. TypeOK /\ ask[r] \in Intent
  BY AskedType DEF SerialInv, Inv
<1>1. CASE Begin(r)
  <2> DEFINE new == Edited(ask[r], db[c])
  <2>1. db[c] \in Domain
    BY <1>0, <1>1 DEF Begin, TypeOK, StoreType
  <2>2. new \in Domain
    BY <1>0, <2>1, EditedType, AskedType
  <2>3. /\ mem'[r][c] = new /\ wrote'[r] = {c} \X Dirty(ask[r], db[c]) /\ ask' = ask
    BY <1>0, <1>1 DEF Begin, TypeOK, RequestType
  <2>4. /\ ask[r].op = "put" => new.rec = ask[r].rec
        /\ ask[r].op = "suspend" => ~new.active
        /\ ask[r].op = "resume" => new.active
    BY <2>1 DEF Edited, Domain
  <2>5. ask[r].op = "deprovision" => "drop" \in Dirty(ask[r], db[c])
    BY DEF Dirty
  <2>6. new # NoDomain
    BY <2>2, ConstantsAssumption
  <2> HIDE DEF new
  <2> QED
    BY <2>3, <2>4, <2>5, <2>6 DEF Edits
<1>2. CASE BeginNew(r)
  <2> DEFINE new == [id |-> r, dom |-> ask[r].dom, active |-> TRUE, rec |-> ask[r].rec,
                     sync |-> "pending"]
  <2>1. mem'[r][c] = new /\ ask' = ask /\ ask[r].op = "put"
    BY <1>0, <1>2 DEF BeginNew, TypeOK, RequestType
  <2>2. new \in Domain
    BY <1>0 DEF Domain, Creator, Intent, Status
  <2>3. new # NoDomain /\ new.rec = ask[r].rec
    BY <2>2, ConstantsAssumption
  <2> HIDE DEF new
  <2> QED
    BY <2>1, <2>3 DEF Edits
<1>3. CASE BeginAll(r)
  BY <1>0, <1>3 DEF BeginAll, Goto, TypeOK, RequestType, Edits
<1> QED
  BY <1>1, <1>2, <1>3

(* Later steps change only the status of what was asked for.               *)
LEMMA StepEdits ==
  ASSUME IntentInv, NEW r \in Requests, Work(r) \/ Fault(r)
  PROVE  Edits(r)'
<1> PICK c \in Customers : c = ask[r].c
  BY AskedType DEF IntentInv, SerialInv, Inv
<1>0. TypeOK /\ Edits(r) /\ Fresh(r) /\ LockHeld(r)
  BY DEF IntentInv, SerialInv, Inv, LocksExclude
<1>1. CASE Rollback(r) \/ Leave(r, "done")
  BY <1>0, <1>1 DEF Rollback, Leave, Goto, TypeOK, RequestType, Edits, Resting, Over
<1>2. CASE Begin(r) \/ BeginNew(r) \/ BeginAll(r)
  BY <1>2, BeginEdits DEF IntentInv
<1>3. ASSUME UNCHANGED <<ask, mem[r], wrote[r]>>, ~Resting(r),
             pc'[r] \in {"load", "flush"} => mem[r][c] # NoDomain
      PROVE  Edits(r)'
  BY <1>0, <1>3 DEF Edits
<1>4. CASE InsertDomain(r) /\ ~Rollback(r)
  <2>1. pc[r] = "insert" /\ UNCHANGED <<ask, mem, wrote>>
    BY <1>4 DEF InsertDomain, session
  <2>2. <<c, "row">> \in wrote[r] /\ \A p \in wrote[r] : mem[r][p[1]] # NoDomain
    BY <1>0, <2>1 DEF LockHeld, TypeOK, SessionHolds
  <2>3. mem[r][c] # NoDomain
    BY <2>2
  <2> QED
    BY <1>3, <2>1, <2>3 DEF Resting, Over
<1>5. CASE Load(r)
  BY <1>0, <1>3, <1>5 DEF Load, Edits, Resting, Over
<1>6. CASE Flush(r) /\ ~Rollback(r)
  BY <1>0, <1>3, <1>6 DEF Flush, Goto, TypeOK, RequestType, session, Resting, Over
<1>7. CASE Lock(r) /\ ~Rollback(r)
  <2>1. pc[r] = "lock" /\ pc'[r] = "list" /\ ask' = ask
    BY <1>0, <1>7 DEF Lock, Goto, TypeOK, RequestType
  <2>2. CASE mem' = mem /\ wrote' = wrote
    BY <1>3, <2>1, <2>2 DEF Resting, Over
  <2>3. CASE ~(mem' = mem /\ wrote' = wrote)
    <3>1. <<cur[r], "row">> \notin wrote[r] /\ (Dropped(r) \/ ~Current(r, cur[r]))
      BY <1>7, <2>3 DEF Lock
    <3>2. CASE Dropped(r)
      BY <2>1, <3>2 DEF Dropped, Edits
    <3>3. CASE ask[r].op = "resyncAll"
      BY <2>1, <3>3 DEF Edits
    <3>4. CASE ~Dropped(r) /\ ask[r].op # "resyncAll"
      <4>1. cur[r] = c /\ ~Current(r, c) /\ <<c, "row">> \notin wrote[r]
        BY <1>0, <3>1, <3>4 DEF LockHeld
      <4>2. mem[r][c] = NoDomain
        BY <1>0, <4>1 DEF Fresh, UpToDate, Current
      <4>3. wrote[r] = {} \/ \A p \in wrote[r] : mem[r][p[1]] # NoDomain
        BY <1>0 DEF TypeOK, SessionHolds
      <4>4. ask[r].op \notin {"put", "suspend", "resume", "deprovision"}
        BY <1>0, <2>1, <4>2, <4>3 DEF Edits, Resting, Over
      <4> QED
        BY <2>1, <4>4 DEF Edits
    <3> QED
      BY <3>2, <3>3, <3>4
  <2> QED
    BY <2>2, <2>3
<1>8. CASE List(r) \/ NextDomain(r)
  BY <1>0, <1>3, <1>8 DEF List, NextDomain, Goto, TypeOK, RequestType, session, Resting, Over
<1>9. CASE PbxCall(r)
  BY <1>0, <1>3, <1>9 DEF PbxCall, session, Resting, Over
<1>10. CASE Runtime(r) /\ ~Rollback(r)
  BY <1>0, <1>3, <1>10 DEF Runtime, Goto, TypeOK, RequestType, session, Resting, Over
<1>11. ASSUME NEW status \in Status, Calling(r), Conclude(r, status) PROVE Edits(r)'
  <2>1. /\ mem' = [mem EXCEPT ![r][cur[r]].sync = status]
        /\ wrote[r] \subseteq wrote'[r] /\ ask' = ask
        /\ pc'[r] \notin {"load", "flush"} /\ ~Resting(r)
    BY <1>0, <1>11 DEF Conclude, Goto, TypeOK, RequestType, Calling, Resting, Over
  <2>2. mem[r][cur[r]] \in Domain /\ cur[r] \in Customers
    BY <1>0, <1>11 DEF Calling, TypeOK, RequestType, SessionHolds
  <2>3. /\ mem'[r][cur[r]] = [mem[r][cur[r]] EXCEPT !.sync = status]
        /\ \A x \in Customers \ {cur[r]} : mem'[r][x] = mem[r][x]
    BY <1>0, <2>1, <2>2 DEF TypeOK, RequestType
  <2>4. mem'[r][cur[r]] \in Domain
    BY <2>2, <2>3 DEF Domain
  <2>5. mem[r][c] # NoDomain => /\ mem'[r][c] # NoDomain /\ mem'[r][c].rec = mem[r][c].rec
                                /\ mem'[r][c].active = mem[r][c].active
    <3>1. CASE c = cur[r]
      BY <2>2, <2>3, <2>4, <3>1, ConstantsAssumption DEF Domain
    <3>2. CASE c # cur[r]
      BY <2>3, <3>2
    <3> QED
      BY <3>1, <3>2
  <2> QED
    BY <1>0, <2>1, <2>5 DEF Edits
<1>12. CASE Synced(r) \/ PbxUnavailable(r)
  BY <1>11, <1>12 DEF Synced, PbxUnavailable, Calling, Status
<1> QED
  BY <1>1, <1>2, <1>4, <1>5, <1>6, <1>7, <1>8, <1>9, <1>10, <1>12
     DEF Work, Fault, Refuse, DeadlockVictim, PbxRejects, Abort, InsertDomain, Flush, Lock, Runtime,
         Commit

(* A flush leaves, of the customer's rows, the items that were asked for.   *)
LEMMA FlushFiles ==
  ASSUME WellAsked, IntentInv, NEW r \in Requests, Flush(r), ~Rollback(r)
  PROVE  Files(r)'
<1> PICK i \in Intent : i = ask[r] /\ i \in Intents
  BY AskedType DEF IntentInv, SerialInv, Inv
<1> PICK c \in Customers : c = i.c
  BY AskedType DEF IntentInv, SerialInv, Inv
<1> DEFINE then == View(r)'
           new  == {w \in Row : w.c = c /\ w.by = r /\ w.item \in i.items}
<1>0. TypeOK /\ Files(r) /\ OnePerItem(rows) /\ rows \subseteq Row
  BY DEF IntentInv, SerialInv, Inv, TypeOK, StoreType
<1>1. /\ pc[r] = "flush" /\ pc'[r] = "lock" /\ UNCHANGED <<rows, ask>>
      /\ ins'[r] = Added(r) /\ del'[r] = Doomed(r) \cap rows
  BY <1>0 DEF Flush, Goto, TypeOK, RequestType, store, session
<1>2. i.op \notin {"suspend", "resume"} =>
        seen[r] = {w \in RowsOf(rows, c) : w.item \in Scope(i)}
  BY <1>0, <1>1 DEF Files
<1>3. \A x \in i.items : \E w \in new : w.item = x
  <2> SUFFICES ASSUME NEW x \in i.items PROVE \E w \in new : w.item = x
    OBVIOUS
  <2> DEFINE w == [c |-> c, item |-> x, by |-> r]
  <2>1. w \in Row
    BY DEF Row, Intent, Creator
  <2>2. w \in new /\ w.item = x
    BY <2>1
  <2> QED
    BY <2>2
<1>4. \A v, w \in new : v.item = w.item => v = w
  BY DEF Row
<1>5. CASE i.op \in {"put", "features"}
  <2> DEFINE kind == IF i.op = "put" THEN Numbers ELSE Feature
  <2>1. i.items \subseteq kind /\ Scope(i) = kind
    BY <1>5 DEF WellAsked, Scope
  <2>2. then = (rows \ {w \in RowsOf(rows, c) : w.item \in kind /\ w.item \notin i.items})
               \cup {w \in new : ~\E v \in RowsOf(rows, c) : v.item = w.item}
    <3>1. seen[r] = {w \in RowsOf(rows, c) : w.item \in kind}
      BY <1>2, <1>5, <2>1
    <3>2. Doomed(r) \cap rows = {w \in RowsOf(rows, c) : w.item \in kind /\ w.item \notin i.items}
      BY <1>5, <3>1 DEF Doomed, RowsOf
    <3>3. Added(r) = {w \in new : ~\E v \in RowsOf(rows, c) : v.item = w.item}
      BY <1>5, <2>1, <3>1 DEF Added
    <3> HIDE DEF kind, new
    <3> QED
      BY <1>1, <3>2, <3>3 DEF View
  <2> HIDE DEF then
  <2>3. OnePerItem(then)
    BY <1>0, <1>4, <2>2 DEF OnePerItem, RowsOf
  <2>4. ItemsOf(then, c) \cap kind = i.items
    <3>1. \A x \in kind : x \in ItemsOf(then, c) => x \in i.items
      BY <2>2 DEF ItemsOf, RowsOf
    <3>2. ASSUME NEW x \in i.items PROVE \E w \in then : w.c = c /\ w.item = x
      <4>1. CASE \E v \in RowsOf(rows, c) : v.item = x
        BY <2>2, <3>2, <4>1 DEF RowsOf
      <4>2. CASE ~\E v \in RowsOf(rows, c) : v.item = x
        <5>1. PICK w \in new : w.item = x
          BY <1>3, <3>2
        <5> QED
          BY <2>2, <4>2, <5>1
      <4> QED
        BY <4>1, <4>2
    <3>3. \A x \in i.items : x \in ItemsOf(then, c)
      BY <3>2 DEF ItemsOf, RowsOf
    <3> QED
      BY <2>1, <3>1, <3>3
  <2>5. Filed(i, ItemsOf(then, c))
    BY <1>5, <2>4 DEF Filed
  <2> QED
    BY <1>1, <2>3, <2>5 DEF Files, then, ItemsOf, RowsOf
<1>6. CASE i.op = "post"
  <2>1. then = rows \cup {w \in new : ~\E v \in RowsOf(rows, c) : v.item = w.item}
    <3>1. seen[r] = {w \in RowsOf(rows, c) : w.item \in i.items}
      BY <1>2, <1>6 DEF Scope
    <3>2. Doomed(r) \cap rows = {}
      BY <1>6 DEF Doomed
    <3>3. Added(r) = {w \in new : ~\E v \in RowsOf(rows, c) : v.item = w.item}
      BY <1>6, <3>1 DEF Added
    <3> HIDE DEF new
    <3> QED
      BY <1>1, <3>2, <3>3 DEF View
  <2> HIDE DEF then
  <2>2. OnePerItem(then)
    BY <1>0, <1>4, <2>1 DEF OnePerItem, RowsOf
  <2>3. ASSUME NEW x \in i.items PROVE \E w \in then : w.c = c /\ w.item = x
    <3>1. CASE \E v \in RowsOf(rows, c) : v.item = x
      BY <2>1, <3>1 DEF RowsOf
    <3>2. CASE ~\E v \in RowsOf(rows, c) : v.item = x
      <4>1. PICK w \in new : w.item = x
        BY <1>3, <2>3
      <4> QED
        BY <2>1, <3>2, <4>1
    <3> QED
      BY <3>1, <3>2
  <2>4. Filed(i, ItemsOf(then, c))
    BY <1>6, <2>3 DEF Filed, ItemsOf, RowsOf
  <2> QED
    BY <1>1, <2>2, <2>4 DEF Files, then, ItemsOf, RowsOf
<1>7. CASE i.op \notin {"put", "features", "post"}
  <2>1. then = rows \ Doomed(r)
    BY <1>1, <1>7 DEF View, Added
  <2>2. i.op = "remove" => Doomed(r) = {w \in RowsOf(rows, c) : w.item \in i.items}
    BY <1>2 DEF Doomed, Scope
  <2> HIDE DEF then
  <2>3. OnePerItem(then)
    BY <1>0, <2>1 DEF OnePerItem
  <2>4. Filed(i, ItemsOf(then, c))
    BY <1>7, <2>1, <2>2 DEF Filed, ItemsOf, RowsOf
  <2> QED
    BY <1>1, <2>3, <2>4 DEF Files, then, ItemsOf, RowsOf
<1> QED
  BY <1>5, <1>6, <1>7

LEMMA StepFiles ==
  ASSUME WellAsked, IntentInv, NEW r \in Requests, Work(r) \/ Fault(r)
  PROVE  Files(r)'
<1> PICK c \in Customers : c = ask[r].c
  BY AskedType DEF IntentInv, SerialInv, Inv
<1>0. TypeOK /\ Files(r) /\ Edits(r) /\ Fresh(r) /\ OnePerItem(rows)
  BY DEF IntentInv, SerialInv, Inv
<1>1. CASE Rollback(r) \/ Leave(r, "done")
  BY <1>0, <1>1 DEF Rollback, Leave, Goto, TypeOK, RequestType, Files, Over
<1>2. ASSUME UNCHANGED <<rows, ask, ins[r], del[r]>>, pc'[r] # "flush",
             pc[r] \in {"idle", "insert", "load", "flush"} => ins[r] = {} /\ del[r] = {},
             pc'[r] \in {"idle", "insert", "load", "flush"} =>
               pc[r] \in {"idle", "insert", "load", "flush"},
             pc'[r] \in {"lock", "list", "calls", "runtime", "next", "commit"} =>
               OnePerItem(View(r)) /\ Filed(ask[r], ItemsOf(View(r), ask[r].c))
      PROVE  Files(r)'
  BY <1>2 DEF Files, View, ItemsOf, RowsOf
<1>3. ASSUME pc[r] = "idle", UNCHANGED <<rows, ask, ins, del>>,
             \/ pc'[r] \in {"insert", "load"}
             \/ pc'[r] = "flush" /\ ask[r].op \in {"suspend", "resume"}
             \/ pc'[r] \in {"lock", "commit"} /\ ask[r].op \in {"resync", "resyncAll"}
      PROVE  Files(r)'
  <2>1. ins[r] = {} /\ del[r] = {} /\ View(r) = rows
    BY <1>0, <1>3 DEF Files, View
  <2>2. ask[r].op \in {"resync", "resyncAll"} => Filed(ask[r], ItemsOf(View(r), ask[r].c))
    BY DEF Filed
  <2> QED
    BY <1>0, <1>3, <2>1, <2>2 DEF Files, View, ItemsOf, RowsOf
<1>4. CASE Begin(r)
  <2>1. ask[r].op # "resyncAll" /\ ask[r] \in Intent
    BY <1>0, <1>4, AskedType DEF Begin
  <2>2. /\ pc[r] = "idle" /\ UNCHANGED <<rows, ask, ins, del>>
        /\ pc'[r] = CASE ask[r].op = "resync" -> "lock"
                      [] ask[r].op \in {"suspend", "resume"} -> "flush"
                      [] OTHER -> "load"
    BY <1>0, <1>4 DEF Begin, Goto, TypeOK, RequestType, store, txn
  <2> QED
    BY <1>3, <2>2
<1>5. CASE BeginNew(r)
  BY <1>0, <1>3, <1>5 DEF BeginNew, Goto, TypeOK, RequestType, store, txn
<1>6. CASE BeginAll(r)
  BY <1>0, <1>3, <1>6 DEF BeginAll, Goto, TypeOK, RequestType, store, txn
<1>7. CASE InsertDomain(r) /\ ~Rollback(r)
  BY <1>0, <1>2, <1>7 DEF InsertDomain, Goto, TypeOK, RequestType, store, session, Files
<1>8. CASE Load(r)
  <2> DEFINE found == {w \in RowsOf(rows, c) : w.item \in Scope(ask[r])}
  <2>1. pc[r] = "load" /\ pc'[r] = "flush" /\ UNCHANGED <<rows, ask, ins, del>>
    BY <1>0, <1>8 DEF Load, Goto, TypeOK, RequestType, store, txn
  <2>2. Current(r, c)
    <3>1. mem[r][c] # NoDomain
      BY <1>0, <2>1 DEF Edits, Resting, Over
    <3>2. UpToDate(r, c)
      BY <1>0, <3>1 DEF Fresh
    <3> QED
      BY <3>1, <3>2 DEF UpToDate, Current
  <2>3. PICK S \in SUBSET found : ItemsOf(S, c) = ItemsOf(found, c) /\ seen'[r] = S
    <3>1. found = {w \in RowsOf(rows, c) : w.item \in Scope(ask[r]) /\ Current(r, c)}
      BY <2>2
    <3>2. PICK S \in SUBSET found : /\ ItemsOf(S, c) = ItemsOf(found, c)
                                    /\ seen' = [seen EXCEPT ![r] = S]
      <4> HIDE DEF found
      <4> QED
        BY <1>8, <3>1 DEF Load
    <3>3. seen'[r] = S
      BY <1>0, <3>2 DEF TypeOK, RequestType
    <3> QED
      BY <3>2, <3>3
  <2>4. S = found
    <3>1. ASSUME NEW w \in found PROVE w \in S
      <4>1. w.item \in ItemsOf(S, c)
        BY <2>3 DEF ItemsOf, RowsOf
      <4>2. PICK v \in S : v.c = c /\ v.item = w.item
        BY <4>1 DEF ItemsOf, RowsOf
      <4>3. v = w
        BY <1>0, <4>2 DEF OnePerItem, RowsOf
      <4> QED
        BY <4>3
    <3> QED
      BY <3>1
  <2> QED
    BY <1>0, <2>1, <2>3, <2>4 DEF Files, Scope
<1>9. CASE Flush(r) /\ ~Rollback(r)
  BY <1>9, FlushFiles
<1>10. CASE (Lock(r) /\ ~Rollback(r)) \/ List(r) \/ NextDomain(r) \/ (Runtime(r) /\ ~Rollback(r))
  <2>1. /\ pc[r] \in {"lock", "list", "runtime", "next"}
        /\ pc'[r] \in {"list", "calls", "lock", "next", "commit"}
        /\ UNCHANGED <<rows, ask, ins, del>>
    BY <1>0, <1>10
       DEF Lock, List, NextDomain, Runtime, Goto, TypeOK, RequestType, store, session, txn
  <2> QED
    BY <1>0, <1>2, <2>1 DEF Files
<1>11. CASE PbxCall(r)
  BY <1>0, <1>2, <1>11 DEF PbxCall, store, session, txn, Files
<1>12. ASSUME NEW status, Calling(r), Conclude(r, status) PROVE Files(r)'
  <2>1. pc'[r] \in {"runtime", "next", "commit"} /\ UNCHANGED <<rows, ask, ins, del>>
    BY <1>0, <1>12 DEF Conclude, Goto, TypeOK, RequestType, store, txn
  <2> QED
    BY <1>0, <1>2, <1>12, <2>1 DEF Files, Calling
<1>13. CASE Synced(r) \/ PbxUnavailable(r)
  BY <1>12, <1>13 DEF Synced, PbxUnavailable, Calling
<1> QED
  BY <1>1, <1>4, <1>5, <1>6, <1>7, <1>8, <1>9, <1>10, <1>11, <1>13
     DEF Work, Fault, Refuse, DeadlockVictim, PbxRejects, Abort, InsertDomain, Flush, Lock, Runtime,
         Commit

LEMMA InitIntent == Init => IntentInv
<1> SUFFICES ASSUME NEW s \in Start, InitFrom(s) PROVE IntentInv
  BY DEF Init
<1>1. SerialInv
  BY InitSerial DEF Init
<1>2. OnePerItem(rows)
  BY DEF InitFrom, OnePerItem, Row
<1>3. \A r \in Requests : Edits(r) /\ Files(r)
  BY DEF InitFrom, Edits, Files, Resting
<1> QED
  BY <1>1, <1>2, <1>3 DEF IntentInv

LEMMA NextIntent ==
  WellAsked /\ IntentInv /\ [Next /\ OneAtATime]_vars => IntentInv'
<1> SUFFICES ASSUME WellAsked, IntentInv, [Next /\ OneAtATime]_vars PROVE IntentInv'
  OBVIOUS
<1>1. SerialInv'
  BY NextSerial DEF IntentInv
<1>2. ASSUME NEW r \in Requests, Work(r) \/ Fault(r), OneAtATime PROVE IntentInv'
  <2>1. OnePerItem(rows')
    <3>1. CASE UNCHANGED store
      BY <3>1 DEF IntentInv, store
    <3>2. CASE Commit(r) /\ ~Rollback(r)
      BY <3>2 DEF Commit, IntentInv, Files
    <3> QED
      BY <1>2, <3>1, <3>2
         DEF Work, Fault, Begin, BeginNew, Refuse, BeginAll, InsertDomain, Load, Flush, Lock, List,
             PbxCall, Synced, Conclude, Runtime, NextDomain, Commit, DeadlockVictim, PbxUnavailable,
             PbxRejects, Abort, Rollback
  <2>2. ASSUME NEW s \in Requests \ {r} PROVE Edits(s)' /\ Files(s)'
    <3>1. Resting(s) /\ UNCHANGED <<pc[s], ins[s], del[s]>>
      BY <1>2, OthersRest, StepApart DEF IntentInv, SerialInv, Apart, Session
    <3>2. Files(s)
      BY DEF IntentInv
    <3> QED
      BY <3>1, <3>2 DEF Edits, Files, Resting, Over
  <2> QED
    BY <1>1, <1>2, <2>1, <2>2, StepEdits, StepFiles DEF IntentInv
<1>3. CASE UNCHANGED vars
  <2>1. UNCHANGED <<rows, pc, ask, mem, wrote, seen, ins, del>>
    BY <1>3 DEF vars, store, session, txn
  <2>2. \A r \in Requests : Edits(r)' /\ Files(r)'
    BY <2>1 DEF IntentInv, Edits, Files, Resting, View, ItemsOf, RowsOf
  <2> QED
    BY <1>1, <2>1, <2>2 DEF IntentInv
<1> QED
  BY <1>2, <1>3 DEF Next

(* With a client that waits for its answers, the commit of a request       *)
(* leaves in the database what was asked for, of the items and of the      *)
(* domain's columns (provisioning.py:70, :106, :148; voice_features.py).   *)
THEOREM IntentsRecorded == ASSUME WellAsked PROVE SerialSpec => IntentRecorded
<1> DEFINE Is(r) == LET i == ask[r]
                        now == db'[i.c]
                        items == ItemsOf(rows', i.c)
                    IN Committing(r) =>
                         CASE i.op = "put" -> items \cap Numbers = i.items /\ now.rec = i.rec
                           [] i.op = "features" -> items \cap Feature = i.items
                           [] i.op = "post" -> i.items \subseteq items
                           [] i.op = "remove" -> i.items \cap items = {}
                           [] i.op = "suspend" -> ~now.active
                           [] i.op = "resume" -> now.active
                           [] i.op = "deprovision" -> now = NoDomain /\ items = {}
                           [] OTHER -> TRUE
<1>1. ASSUME IntentInv, Next, NEW r \in Requests PROVE Is(r)
  <2> SUFFICES ASSUME Committing(r) PROVE Is(r)
    OBVIOUS
  <2> PICK c \in Customers : c = ask[r].c
    BY <1>1, AskedType DEF IntentInv, SerialInv, Inv
  <2>0. TypeOK /\ Fresh(r) /\ Edits(r) /\ Files(r) /\ LockHeld(r)
    BY <1>1 DEF IntentInv, SerialInv, Inv, LocksExclude
  <2>1. /\ Commit(r) /\ ~Rollback(r) /\ pc[r] = "commit" /\ rows' = View(r)
        /\ db'[c] = Merged(r, c)
    BY <1>1, Commits DEF IntentInv, SerialInv
  <2>2. Filed(ask[r], ItemsOf(rows', c))
    BY <2>0, <2>1 DEF Files
  <2>3. ASSUME ask[r].op \in {"put", "suspend", "resume"} PROVE db'[c] = mem[r][c]
    <3>1. mem[r][c] # NoDomain /\ UpToDate(r, c) /\ <<c, "drop">> \notin wrote[r]
      BY <2>0, <2>1, <2>3 DEF Edits, Fresh, LockHeld, Resting, Over
    <3>2. Merged(r, c) # NoDomain
      <4>1. CASE <<c, "row">> \in wrote[r]
        BY <3>1, <4>1 DEF Merged
      <4>2. CASE <<c, "row">> \notin wrote[r]
        <5>1. db[c] \in Domain
          BY <2>0, <3>1, <4>2 DEF UpToDate, TypeOK, StoreType
        <5>2. mem[r][c] \in Domain
          BY <2>0, <3>1 DEF TypeOK, RequestType
        <5>3. Merged(r, c) \in Domain
          BY <3>1, <4>2, <5>1, <5>2, ConstantsAssumption DEF Merged, Domain
        <5> QED
          BY <5>3, ConstantsAssumption
      <4> QED
        BY <4>1, <4>2
    <3> QED
      BY <2>0, <2>1, <3>1, <3>2, MergedFresh
  <2>4. ask[r].op \in {"put", "suspend", "resume"} =>
          /\ ask[r].op = "put" => db'[c].rec = ask[r].rec
          /\ ask[r].op = "suspend" => ~db'[c].active
          /\ ask[r].op = "resume" => db'[c].active
    BY <2>0, <2>1, <2>3 DEF Edits, Resting, Over
  <2>5. ask[r].op = "deprovision" => db'[c] = NoDomain /\ ItemsOf(rows', c) = {}
    <3>1. ask[r].op = "deprovision" => <<c, "drop">> \in wrote[r]
      BY <2>0, <2>1 DEF Edits, Resting, Over
    <3>2. <<c, "drop">> \in wrote[r] => RowsOf(View(r), c) = {}
      BY <2>1 DEF Commit
    <3> QED
      BY <2>1, <3>1, <3>2 DEF Merged, ItemsOf
  <2> QED
    BY <2>2, <2>4, <2>5 DEF Filed
<1>2. ASSUME IntentInv, [Next /\ OneAtATime]_vars PROVE [\A r \in Requests : Is(r)]_vars
  BY <1>1, <1>2
<1>3. SerialSpec => []IntentInv
  BY InitIntent, NextIntent, PTL DEF SerialSpec
<1> QED
  BY <1>2, <1>3, PTL DEF SerialSpec, IntentRecorded
=============================================================================
