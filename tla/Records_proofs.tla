--------------------------- MODULE Records_proofs ---------------------------
(***************************************************************************)
(* Proofs about Records for any number of clients, attempts and faults and *)
(* for every table of the Catalogue.                                       *)
(***************************************************************************)
EXTENDS Records, TLAPS

USE RecordsAssumption

-----------------------------------------------------------------------------
(* The declarations of the table in focus.                                  *)

LEMMA Declared ==
  ASSUME table \in Focus
  PROVE  /\ Refs \subseteq T.model.columns
         /\ T.db.required \subseteq T.model.columns
         /\ T.web.edit \subseteq T.model.columns
         /\ T.model.keys = T.db.keys
<1>1. table \in Tables
  BY DEF RecordsAssumption
<1> QED
  BY <1>1, ModelsMatchMigrations, ColumnsDeclared DEF T, Refs

LEMMA TableStays == [Next]_vars => table' = table
  BY DEF Next, Step, OpenForm, Send, SubmitForm, Retry, Look, Flush, Commit, Reply, Lose,
         Finished, vars

-----------------------------------------------------------------------------
(* What clients send.                                                       *)

Fields == {"op", "via", "id", "set"}

(* An id is known once the request that makes it is past its commit, or     *)
(* given up: no request that will insert a row can meet its id elsewhere.   *)
Making(c) == at[c] \in {"looked", "flushed"} /\ req[c].op = "create"
Made(c, n) == n <= attempt[c] /\ (Making(c) => n # attempt[c])
Known(i) == i = Seed \/ \E c \in Clients, n \in 1 .. MaxAttempts : i = <<c, n>> /\ Made(c, n)

Valued(s) == \A x \in DOMAIN s : s[x] \in Value

Request(r) == DOMAIN r = Fields /\ Valued(r.set) /\ Known(r.id)

LEMMA BodiesValued ==
  ASSUME NEW cols, NEW nullable, NEW s \in Bodies(cols, nullable)
  PROVE  Valued(s)
<1> DEFINE usual == [x \in cols |-> Fresh(x)]
<1>1. \A x : Fresh(x) \in Value
  BY DEF Fresh, Value
<1>2. Valued(usual)
  BY <1>1 DEF Valued
<1>3. CASE \E x \in cols : \E v \in Unusual(x) \cup {Null} : s = [usual EXCEPT ![x] = v]
  <2>1. PICK x \in cols : \E v \in Unusual(x) \cup {Null} : s = [usual EXCEPT ![x] = v]
    BY <1>3
  <2>2. PICK v \in Unusual(x) \cup {Null} : s = [usual EXCEPT ![x] = v]
    BY <2>1
  <2>3. v \in Value
    BY DEF Unusual, Value
  <2> QED
    BY <1>2, <2>2, <2>3 DEF Valued
<1> QED
  BY <1>2, <1>3 DEF Bodies

LEMMA SentRequests ==
  ASSUME NEW r \in Creates \cup Patches \cup Deletes \cup Drops,
         \A i \in DOMAIN rows : Known(i)
  PROVE  Request(r)
<1>0. Known(Seed) /\ Valued(<<>>)
  BY DEF Known, Valued
<1>1. CASE r \in Creates
  BY <1>0, <1>1, BodiesValued DEF Creates, Request, Fields
<1>2. CASE r \in Patches
  <2>1. \A s \in PatchBodies : Valued(s)
    BY BodiesValued DEF PatchBodies
  <2> QED
    BY <1>2, <2>1 DEF Patches, Request, Fields
<1>3. CASE r \in Deletes \cup Drops
  BY <1>0, <1>3 DEF Deletes, Drops, Request, Fields
<1> QED
  BY <1>1, <1>2, <1>3

LEMMA EditRequests ==
  ASSUME NEW c \in Clients, NEW r \in Edits(c), table \in Focus, Known(req[c].id),
         form[c] \in [T.model.columns -> Value]
  PROVE  Request(r)
<1> DEFINE page == [x \in T.web.edit |-> form[c][x]]
<1>1. Valued(page)
  BY Declared DEF Valued
<1>2. PICK x \in T.web.edit, v \in {"v2", "off", Null} :
        r = [op |-> "patch", via |-> "web", id |-> req[c].id, set |-> [page EXCEPT ![x] = v]]
  BY DEF Edits
<1>3. v \in Value
  BY DEF Value
<1>4. Valued([page EXCEPT ![x] = v])
  BY <1>1, <1>3 DEF Valued
<1> QED
  BY <1>2, <1>4 DEF Request, Fields

-----------------------------------------------------------------------------
(* The invariant.  Typed: types, and what is known of the ids.  For a       *)
(* request whose statement has run, Ready: it can commit as things are;     *)
(* and any two of them are Apart: committing one leaves the other ready.    *)

Shaped(c) ==
  /\ Request(req[c])
  /\ at[c] = "editing" => form[c] \in [T.model.columns -> Value]
  /\ at[c] \in {"ready", "editing"} <=> attempt[c] = 0

Typed ==
  /\ TypeOK
  /\ DOMAIN req = Clients /\ DOMAIN loaded = Clients /\ DOMAIN form = Clients
  /\ \A c \in Clients : Shaped(c)
  /\ \A i \in DOMAIN rows : Known(i)

KeysHeldOnce ==
  \A i, j \in DOMAIN rows : i # j => Holds(rows[i]) \cap Holds(rows[j]) = {}

Fits(c) ==
  /\ \A x \in T.db.required : After(c)[x] # Null
  /\ \A i \in DOMAIN rows \ {Target(c)} : Holds(rows[i]) \cap Holds(After(c)) = {}
  /\ Named(c) \subseteq parents

Ready(c) ==
  /\ Kind(c) = "update" => Target(c) \in DOMAIN rows
  /\ Writes(c) => Fits(c)
  /\ Kind(c) = "drop" => Referring = {}

Apart(c, d) ==
  /\ Locks(c) \cap Locks(d) = {}
  /\ Writes(c) /\ Writes(d) => Holds(After(c)) \cap Holds(After(d)) = {}
  /\ Kind(c) = "drop" => "other" \notin Named(d) /\ Kind(d) # "drop"

Flushed(c) == c \in Clients /\ at[c] = "flushed"

Settled ==
  /\ \A c : Flushed(c) => Ready(c)
  /\ \A c, d : Flushed(c) /\ Flushed(d) /\ c # d => Apart(c, d)

Inv == Typed /\ KeysHeldOnce /\ RefsExist /\ Settled

-----------------------------------------------------------------------------
(* What a statement is does not depend on what others do.                   *)

Untouched(c) == req'[c] = req[c] /\ loaded'[c] = loaded[c] /\ attempt'[c] = attempt[c]

LEMMA SameStatement ==
  ASSUME NEW c, table' = table, Untouched(c)
  PROVE  /\ Kind(c)' = Kind(c) /\ Target(c)' = Target(c) /\ Locks(c)' = Locks(c)
         /\ Dirty(c)' = Dirty(c) /\ Writes(c)' = Writes(c)
<1>1. T' = T
  BY DEF T
<1>2. Assigned(req[c])' = Assigned(req[c])
  BY <1>1 DEF Assigned, Untouched
<1>3. Dirty(c)' = Dirty(c)
  BY <1>2 DEF Dirty, Untouched
<1>4. Kind(c)' = Kind(c)
  BY <1>1, <1>3 DEF Kind, Untouched
<1>5. Target(c)' = Target(c)
  BY DEF Target, OwnId, Untouched
<1> QED
  BY <1>3, <1>4, <1>5 DEF Locks, Writes

(* Nor does what it leaves, as long as nobody changes the row it locked.    *)
SameTarget(c) ==
  Kind(c) = "update" =>
    /\ Target(c) \in DOMAIN rows /\ Target(c) \in DOMAIN rows'
    /\ rows'[Target(c)] = rows[Target(c)]

LEMMA SameOutcome ==
  ASSUME NEW c, table' = table, Untouched(c), SameTarget(c)
  PROVE  /\ Writes(c) => After(c)' = After(c)
         /\ Named(c)' = Named(c)
<1>1. T' = T /\ Refs' = Refs
  BY DEF T, Refs
<1>2. Kind(c)' = Kind(c) /\ Target(c)' = Target(c) /\ Dirty(c)' = Dirty(c) /\ Writes(c)' = Writes(c)
  BY SameStatement
<1>3. NewRow(req[c])' = NewRow(req[c])
  <2>1. \A x : Fresh(x)' = Fresh(x)
    BY <1>1 DEF Fresh
  <2> QED
    BY <1>1, <2>1 DEF NewRow, Untouched
<1>4. Assigned(req[c])' = Assigned(req[c])
  BY <1>1 DEF Assigned, Untouched
<1>5. ASSUME Writes(c) PROVE After(c)' = After(c)
  <2>1. CASE Kind(c) = "insert"
    BY <1>2, <1>3, <2>1 DEF After
  <2>2. CASE Kind(c) = "update"
    BY <1>1, <1>2, <1>4, <2>2 DEF After, SameTarget, Untouched
  <2> QED
    BY <1>5, <2>1, <2>2 DEF Writes
<1>6. Writes(c) => (Lands(c)' <=> Lands(c))
  BY <1>2 DEF Writes, Lands, SameTarget
<1>7. Named(c)' = Named(c)
  BY <1>1, <1>2, <1>5, <1>6 DEF Named
<1> QED
  BY <1>5, <1>7

(* A row that can be committed keeps its columns and has the right type.    *)
LEMMA AfterTyped ==
  ASSUME Typed, NEW c \in Clients, Kind(c) = "update" => Target(c) \in DOMAIN rows, Writes(c)
  PROVE  After(c) \in [T.model.columns -> Value]
<1>1. Valued(Assigned(req[c]))
  BY DEF Assigned, Valued, Value, Typed, Shaped, Request
<1>2. CASE Kind(c) = "insert"
  <2>1. \A x : Fresh(x) \in Value
    BY DEF Fresh, Value
  <2>2. Null \in Value
    BY DEF Value
  <2> QED
    BY <1>2, <2>1, <2>2 DEF After, NewRow, Typed, Shaped, Request, Valued
<1>3. CASE Kind(c) = "update"
  <2>1. rows[Target(c)] \in [T.model.columns -> Value]
    BY <1>3 DEF Typed, TypeOK
  <2>2. Dirty(c) \subseteq DOMAIN Assigned(req[c])
    BY DEF Dirty
  <2>3. Kind(c) # "insert"
    BY <1>3
  <2> QED
    BY <1>1, <2>1, <2>2, <2>3 DEF After, Valued
<1> QED
  BY <1>2, <1>3 DEF Writes

-----------------------------------------------------------------------------
(* What a step does to its client and to the others.                        *)

Same(d) == Untouched(d) /\ at'[d] = at[d] /\ form'[d] = form[d]

LEMMA OthersStay ==
  ASSUME NEW c \in Clients, Step(c), NEW d \in Clients, d # c, Typed
  PROVE  Same(d)
BY DEF Step, OpenForm, Send, SubmitForm, Retry, Look, Answer, Flush, Commit, Reply, Lose,
       Same, Untouched, Typed, TypeOK

(* The steps that call the service, with the request they call it with.     *)
LEMMA Calls ==
  ASSUME Typed, NEW c \in Clients, Send(c) \/ SubmitForm(c) \/ Retry(c)
  PROVE  \E r : Look(c, r) /\ Request(r) /\ attempt[c] < MaxAttempts
<1>1. MaxAttempts \in Nat \ {0} /\ Shaped(c) /\ table \in Focus
  BY DEF RecordsAssumption, Typed, TypeOK
<1>2. CASE Send(c)
  BY <1>1, <1>2, SentRequests DEF Send, Shaped, Typed
<1>3. CASE SubmitForm(c)
  BY <1>1, <1>3, EditRequests DEF SubmitForm, Shaped, Request
<1>4. CASE Retry(c)
  BY <1>1, <1>4 DEF Retry, Shaped
<1> QED
  BY <1>2, <1>3, <1>4

LEMMA OwnSteps ==
  ASSUME NEW c \in Clients, Step(c), Typed
  PROVE  \/ attempt'[c] = attempt[c] /\ (Making(c)' => Making(c))
         \/ attempt'[c] = attempt[c] + 1
<1> USE DEF Typed, TypeOK
<1>1. CASE OpenForm(c)
  BY <1>1 DEF OpenForm, Making
<1>2. CASE Send(c) \/ SubmitForm(c) \/ Retry(c)
  BY <1>2, Calls DEF Look
<1>3. CASE Flush(c) \/ Commit(c) \/ Reply(c) \/ Lose(c)
  BY <1>3 DEF Flush, Commit, Reply, Lose, Answer, Making
<1> QED
  BY <1>1, <1>2, <1>3 DEF Step

LEMMA KnownStays ==
  ASSUME Typed, [Next]_vars, NEW i, Known(i)
  PROVE  Known(i)'
<1>1. SUFFICES ASSUME NEW c \in Clients, Step(c) PROVE Known(i)'
  BY DEF Next, Finished, vars, Known, Made, Making
<1>2. ASSUME NEW d \in Clients, NEW n \in 1 .. MaxAttempts, Made(d, n) PROVE Made(d, n)'
  <2>1. attempt[d] \in Nat /\ n \in Nat
    BY DEF Typed, TypeOK, RecordsAssumption
  <2>2. CASE d = c
    BY <1>1, <1>2, <2>1, <2>2, OwnSteps DEF Made
  <2>3. CASE d # c
    BY <1>1, <1>2, <2>3, OthersStay DEF Made, Making, Same, Untouched
  <2> QED
    BY <2>2, <2>3
<1> QED
  BY <1>2 DEF Known

LEMMA ShapedStays ==
  ASSUME Typed, [Next]_vars, NEW d \in Clients, Same(d)
  PROVE  Shaped(d)'
<1>1. T' = T
  BY TableStays DEF T
<1>2. Known(req[d].id)'
  <2>1. PICK i : i = req[d].id /\ i = req'[d].id
    BY DEF Same, Untouched
  <2>2. Known(i)'
    BY <2>1, KnownStays DEF Typed, Shaped, Request
  <2> QED
    BY <2>1, <2>2 DEF Known
<1> QED
  BY <1>1, <1>2 DEF Typed, Shaped, Request, Valued, Same, Untouched

-----------------------------------------------------------------------------
(* Types.                                                                   *)

LEMMA InitInv == Init => Inv
<1> SUFFICES ASSUME Init PROVE Inv
  OBVIOUS
<1> USE DEF Init
<1>0. table \in Focus /\ Refs \subseteq T.model.columns /\ T.db.required \subseteq T.model.columns
  BY Declared
<1>1. \A x : First(x) \in Value /\ First(x) # Null
  BY DEF First, Value, Null
<1>2. DOMAIN rows = {Seed} /\ rows[Seed] = [x \in T.model.columns |-> First(x)]
  OBVIOUS
<1>3. TypeOK
  BY <1>0, <1>1, <1>2, RecordsAssumption DEF TypeOK, Ids
<1>4. Known(Seed)
  BY DEF Known
<1>5. \A c \in Clients : Shaped(c)
  BY <1>4 DEF Shaped, Request, NoRequest, Fields, Valued
<1>6. KeysHeldOnce
  BY <1>2 DEF KeysHeldOnce
<1>7. RefsExist
  <2>1. \A x \in Refs : First(x) = "parent"
    BY DEF First
  <2>2. \A x \in Refs : rows[Seed][x] = "parent"
    BY <1>0, <1>2, <2>1
  <2> QED
    BY <1>2, <2>2 DEF RefsExist, Parents
<1>8. Settled
  BY DEF Settled, Flushed
<1> QED
  BY <1>2, <1>3, <1>4, <1>5, <1>6, <1>7, <1>8 DEF Inv, Typed

LEMMA TypedOpen ==
  ASSUME Typed, NEW c \in Clients, OpenForm(c)
  PROVE  Typed'
<1>0. [Next]_vars
  BY DEF Next, Step
<1>1. T' = T /\ table' = table
  BY <1>0, TableStays DEF T
<1> USE DEF OpenForm
<1>2. PICK i \in DOMAIN rows :
        req' = [req EXCEPT ![c].id = i] /\ form' = [form EXCEPT ![c] = rows[i]]
  OBVIOUS
<1>3. TypeOK'
  BY <1>1 DEF Typed, TypeOK
<1>4. Shaped(c)'
  <2>1. rows[i] \in [T.model.columns -> Value] /\ Known(i)'
    BY <1>0, KnownStays DEF Typed, TypeOK
  <2>2. req'[c] = [req[c] EXCEPT !.id = i] /\ form'[c] = rows[i] /\ at'[c] = "editing"
    BY <1>2 DEF Typed, TypeOK
  <2>3. Request(req[c]) /\ attempt'[c] = 0
    BY DEF Typed, Shaped
  <2>4. Request(req[c])'
    BY <2>1, <2>2, <2>3 DEF Request, Valued, Fields
  <2> QED
    BY <1>1, <2>1, <2>2, <2>3, <2>4 DEF Shaped
<1>5. ASSUME NEW d \in Clients, d # c PROVE Shaped(d)'
  BY <1>0, <1>5, OthersStay, ShapedStays DEF Step
<1>6. \A j \in DOMAIN rows' : Known(j)'
  BY <1>0, KnownStays DEF Typed
<1> QED
  BY <1>2, <1>3, <1>4, <1>5, <1>6 DEF Typed

LEMMA TypedLook ==
  ASSUME Typed, NEW c \in Clients, Send(c) \/ SubmitForm(c) \/ Retry(c)
  PROVE  Typed'
<1>0. [Next]_vars
  BY DEF Next, Step
<1>1. T' = T /\ table' = table
  BY <1>0, TableStays DEF T
<1>2. PICK r : Look(c, r) /\ Request(r) /\ attempt[c] < MaxAttempts
  BY Calls
<1> USE DEF Look, Answer
<1>3. TypeOK'
  <2>1. attempt' \in [Clients -> 0 .. MaxAttempts]
    BY <1>2, RecordsAssumption DEF Typed, TypeOK
  <2> QED
    BY <1>1, <1>2, <2>1 DEF Typed, TypeOK
<1>4. Shaped(c)'
  <2>1. Known(r.id)'
    BY <1>0, <1>2, KnownStays DEF Request
  <2>2. req'[c] = r /\ attempt'[c] = attempt[c] + 1 /\ at'[c] \notin {"ready", "editing"}
    BY <1>2 DEF Typed, TypeOK
  <2>3. attempt'[c] # 0
    BY <2>2 DEF Typed, TypeOK
  <2> QED
    BY <1>2, <2>1, <2>2, <2>3 DEF Shaped, Request, Valued
<1>5. ASSUME NEW d \in Clients, d # c PROVE Shaped(d)'
  BY <1>0, <1>5, OthersStay, ShapedStays DEF Step
<1>6. \A j \in DOMAIN rows' : Known(j)'
  BY <1>0, <1>2, KnownStays DEF Typed
<1> QED
  BY <1>2, <1>3, <1>4, <1>5, <1>6 DEF Typed

LEMMA TypedMove ==
  ASSUME Typed, NEW c \in Clients, Flush(c) \/ Reply(c) \/ Lose(c)
  PROVE  Typed'
<1>0. [Next]_vars
  BY DEF Next, Step
<1>1. T' = T /\ table' = table
  BY <1>0, TableStays DEF T
<1> USE DEF Flush, Reply, Lose, Answer
<1>2. UNCHANGED <<rows, parents, req, form, loaded, attempt>>
  OBVIOUS
<1>3. TypeOK'
  BY <1>1, <1>2, RecordsAssumption DEF Typed, TypeOK
<1>4. Shaped(c)'
  <2>1. Known(req[c].id)'
    BY <1>0, KnownStays DEF Typed, Shaped, Request
  <2>2. at[c] \notin {"ready", "editing"} /\ at'[c] \notin {"ready", "editing"}
    BY DEF Typed, TypeOK
  <2> QED
    BY <1>2, <2>1, <2>2 DEF Typed, Shaped, Request, Valued
<1>5. ASSUME NEW d \in Clients, d # c PROVE Shaped(d)'
  BY <1>0, <1>5, OthersStay, ShapedStays DEF Step
<1>6. \A j \in DOMAIN rows' : Known(j)'
  BY <1>0, <1>2, KnownStays DEF Typed
<1> QED
  BY <1>2, <1>3, <1>4, <1>5, <1>6 DEF Typed

-----------------------------------------------------------------------------
(* What a commit does to the rows.                                          *)

LEMMA CommitRows ==
  ASSUME NEW c, Commit(c)
  PROVE  /\ \A i : i # Target(c) => (i \in DOMAIN rows' <=> i \in DOMAIN rows)
         /\ \A i \in DOMAIN rows : i # Target(c) => rows'[i] = rows[i]
         /\ Writes(c) => Target(c) \in DOMAIN rows' /\ rows'[Target(c)] = After(c)
         /\ ~Writes(c) =>
              \A i \in DOMAIN rows' : i \in DOMAIN rows /\ rows'[i] = rows[i]
         /\ Kind(c) \notin {"insert", "update", "delete"} => rows' = rows
<1>1. CASE Writes(c)
  <2>1. rows' = [i \in DOMAIN rows \cup {Target(c)} |->
                   IF i = Target(c) THEN After(c) ELSE rows[i]]
    BY <1>1 DEF Commit, Writes
  <2> QED
    BY <1>1, <2>1 DEF Writes
<1>2. CASE Kind(c) = "delete"
  <2>1. rows' = [i \in DOMAIN rows \ {Target(c)} |-> rows[i]]
    BY <1>2 DEF Commit, Writes
  <2> QED
    BY <1>2, <2>1 DEF Writes
<1>3. CASE ~Writes(c) /\ Kind(c) # "delete"
  BY <1>3 DEF Commit, Writes
<1> QED
  BY <1>1, <1>2, <1>3

(* A row that is being made has an id that nothing refers to yet.           *)
LEMMA FreshId ==
  ASSUME Typed, NEW c \in Clients, at[c] \in {"looked", "flushed"}, Kind(c) = "insert"
  PROVE  ~Known(Target(c))
<1>1. req[c].op = "create" /\ Target(c) = <<c, attempt[c]>>
  BY DEF Kind, Target, OwnId
<1>2. attempt[c] # 0
  BY DEF Typed, Shaped
<1>3. Target(c) # Seed
  BY <1>1, <1>2 DEF Seed
<1> QED
  BY <1>1, <1>3 DEF Known, Made, Making

(* A commit leaves the row another statement is to update as it was.        *)
LEMMA CommitElsewhere ==
  ASSUME Typed, Settled, NEW c \in Clients, Commit(c), NEW d \in Clients, d # c, Flushed(d)
  PROVE  SameTarget(d)
<1> SUFFICES ASSUME Kind(d) = "update" PROVE SameTarget(d)
  BY DEF SameTarget
<1>1. Flushed(c) /\ Apart(c, d) /\ Target(d) \in DOMAIN rows
  BY DEF Settled, Flushed, Commit, Ready
<1>2. ASSUME Target(c) # Target(d) PROVE SameTarget(d)
  BY <1>1, <1>2, CommitRows DEF SameTarget
<1>3. CASE Kind(c) \in {"update", "delete"}
  BY <1>1, <1>2, <1>3 DEF Apart, Locks
<1>4. CASE Kind(c) = "insert"
  BY <1>1, <1>2, <1>4, FreshId DEF Typed, Flushed
<1>5. CASE Kind(c) \notin {"insert", "update", "delete"}
  BY <1>1, <1>5, CommitRows DEF SameTarget
<1> QED
  BY <1>3, <1>4, <1>5

LEMMA TypedCommit ==
  ASSUME Inv, NEW c \in Clients, Commit(c)
  PROVE  Typed'
<1> USE DEF Inv
<1>0. [Next]_vars
  BY DEF Next, Step
<1>1. T' = T /\ table' = table
  BY <1>0, TableStays DEF T
<1>2. UNCHANGED <<req, form, loaded, attempt, answer, faults>> /\ at' = [at EXCEPT ![c] = "committed"]
  BY DEF Commit
<1>3. Ready(c)
  BY DEF Settled, Flushed, Commit
<1>4. ASSUME NEW i \in DOMAIN rows', i \notin DOMAIN rows PROVE Known(i)'
  <2>1. Writes(c) /\ i = Target(c)
    BY <1>4, CommitRows
  <2>2. req[c].op = "create" /\ i = <<c, attempt[c]>>
    BY <1>3, <1>4, <2>1 DEF Ready, Writes, Kind, Target, OwnId
  <2>3. attempt[c] \in 1 .. MaxAttempts
    BY RecordsAssumption DEF Typed, TypeOK, Shaped, Commit
  <2>4. at'[c] = "committed" /\ attempt'[c] = attempt[c]
    BY <1>2 DEF Typed, TypeOK
  <2> QED
    BY <2>2, <2>3, <2>4 DEF Known, Made, Making
<1>5. \A i \in DOMAIN rows' : Known(i)'
  BY <1>0, <1>4, KnownStays DEF Typed
<1>6. ASSUME NEW i \in DOMAIN rows'
      PROVE  rows'[i] \in [T.model.columns -> Value] /\ \A x \in T.db.required : rows'[i][x] # Null
  <2>1. CASE Writes(c) /\ i = Target(c)
    <3>1. After(c) \in [T.model.columns -> Value]
      BY <1>3, <2>1, AfterTyped DEF Ready
    <3> QED
      BY <1>3, <2>1, <3>1, CommitRows DEF Ready, Fits
  <2>2. CASE ~(Writes(c) /\ i = Target(c))
    BY <2>2, CommitRows DEF Typed, TypeOK
  <2> QED
    BY <2>1, <2>2
<1>7. DOMAIN rows' \subseteq Ids
  <2> SUFFICES ASSUME NEW i \in DOMAIN rows' PROVE i \in Ids
    OBVIOUS
  <2>1. Known(i)'
    BY <1>5
  <2> QED
    BY <2>1 DEF Known, Ids
<1>8. parents' \subseteq Parents
  BY DEF Commit, Typed, TypeOK
<1>9. TypeOK'
  BY <1>1, <1>2, <1>6, <1>7, <1>8 DEF Typed, TypeOK
<1>10. Shaped(c)'
  <2>1. Known(req[c].id)'
    BY <1>0, <1>2, KnownStays DEF Typed, Shaped, Request
  <2>2. at[c] \notin {"ready", "editing"} /\ at'[c] \notin {"ready", "editing"}
    BY <1>2 DEF Typed, TypeOK, Commit
  <2> QED
    BY <1>2, <2>1, <2>2 DEF Typed, Shaped, Request, Valued
<1>11. ASSUME NEW d \in Clients, d # c PROVE Shaped(d)'
  BY <1>0, <1>11, OthersStay, ShapedStays DEF Step
<1> QED
  BY <1>2, <1>5, <1>9, <1>10, <1>11 DEF Typed

-----------------------------------------------------------------------------
(* Keys and references.                                                     *)

LEMMA HoldsStay ==
  ASSUME table' = table, NEW row
  PROVE  Holds(row)' = Holds(row)
BY DEF Holds, T

LEMMA KeysCommit ==
  ASSUME Inv, NEW c \in Clients, Commit(c)
  PROVE  KeysHeldOnce'
<1> USE DEF Inv
<1>1. Ready(c) /\ table' = table
  BY DEF Settled, Flushed, Commit
<1>2. SUFFICES ASSUME NEW i \in DOMAIN rows', NEW j \in DOMAIN rows', i # j
               PROVE  Holds(rows'[i]) \cap Holds(rows'[j]) = {}
  BY <1>1 DEF KeysHeldOnce, Holds, T
<1>3. ASSUME NEW k \in DOMAIN rows', ~(Writes(c) /\ k = Target(c))
      PROVE  k \in DOMAIN rows /\ rows'[k] = rows[k]
  BY <1>3, CommitRows
<1>4. CASE Writes(c) /\ i = Target(c)
  <2>1. j \in DOMAIN rows \ {Target(c)} /\ rows'[j] = rows[j] /\ rows'[i] = After(c)
    BY <1>2, <1>3, <1>4, CommitRows
  <2> QED
    BY <1>1, <1>4, <2>1 DEF Ready, Fits
<1>5. CASE Writes(c) /\ j = Target(c)
  <2>1. i \in DOMAIN rows \ {Target(c)} /\ rows'[i] = rows[i] /\ rows'[j] = After(c)
    BY <1>2, <1>3, <1>5, CommitRows
  <2> QED
    BY <1>1, <1>5, <2>1 DEF Ready, Fits
<1>6. CASE ~(Writes(c) /\ i = Target(c)) /\ ~(Writes(c) /\ j = Target(c))
  BY <1>2, <1>3, <1>6 DEF KeysHeldOnce
<1> QED
  BY <1>4, <1>5, <1>6

(* The values in reference columns that a write leaves and did not find.    *)
LEMMA NewReferences ==
  ASSUME NEW c, Writes(c), Kind(c) = "update" => Target(c) \in DOMAIN rows,
         Refs \subseteq T.model.columns, NEW x \in Refs, After(c)[x] # Null
  PROVE  \/ After(c)[x] \in Named(c)
         \/ Target(c) \in DOMAIN rows /\ After(c)[x] = rows[Target(c)][x]
<1>1. CASE Kind(c) = "insert"
  BY <1>1 DEF Named, Lands
<1>2. CASE Kind(c) = "update" /\ x \in Dirty(c)
  BY <1>2 DEF Named, Lands
<1>3. CASE Kind(c) = "update" /\ x \notin Dirty(c)
  BY <1>3 DEF After
<1> QED
  BY <1>1, <1>2, <1>3 DEF Writes

LEMMA RefsCommit ==
  ASSUME Inv, NEW c \in Clients, Commit(c)
  PROVE  RefsExist'
<1> USE DEF Inv
<1>1. Ready(c) /\ table' = table /\ Refs \subseteq T.model.columns
  BY Declared DEF Settled, Flushed, Commit, Typed, TypeOK
<1>2. SUFFICES ASSUME NEW i \in DOMAIN rows', NEW x \in Refs, rows'[i][x] # Null
               PROVE  rows'[i][x] \in parents'
  BY <1>1 DEF RefsExist, Refs, T
<1>3. CASE Writes(c) /\ i = Target(c)
  <2>1. rows'[i] = After(c) /\ parents' = parents /\ Named(c) \subseteq parents
    BY <1>1, <1>3, CommitRows DEF Commit, Writes, Ready, Fits
  <2>2. Kind(c) = "update" => Target(c) \in DOMAIN rows
    BY <1>1 DEF Ready
  <2> QED
    BY <1>1, <1>2, <1>3, <2>1, <2>2, NewReferences DEF RefsExist
<1>4. CASE ~(Writes(c) /\ i = Target(c))
  <2>1. i \in DOMAIN rows /\ rows'[i] = rows[i]
    BY <1>4, CommitRows
  <2>2. rows[i][x] \in parents
    BY <1>2, <2>1 DEF RefsExist
  <2>3. CASE Kind(c) = "drop"
    BY <1>1, <2>1, <2>2, <2>3 DEF Ready, Referring, Commit
  <2>4. CASE Kind(c) # "drop"
    BY <2>1, <2>2, <2>4 DEF Commit
  <2> QED
    BY <2>3, <2>4
<1> QED
  BY <1>3, <1>4

-----------------------------------------------------------------------------
(* Statements that have run stay ready and apart.                           *)

(* Nobody is in the way of a flush, and the database does not refuse it.    *)
LEMMA FlushReady ==
  ASSUME Inv, NEW c \in Clients, ~Waits(c), ~Refused(c)
  PROVE  /\ Ready(c)
         /\ \A d : Flushed(d) /\ d # c => Apart(c, d) /\ Apart(d, c)
<1>1. Kind(c) = "update" => Target(c) \in DOMAIN rows
  BY DEF Refused, Lands
<1>2. Writes(c) => Lands(c) /\ Wants(c) = Holds(After(c))
  BY <1>1 DEF Writes, Lands, Wants
<1>3. Ready(c)
  BY <1>1, <1>2 DEF Ready, Fits, Refused
<1>4. ASSUME NEW d, Flushed(d), d # c PROVE Apart(c, d) /\ Apart(d, c)
  <2>1. ~Conflict(c, d) /\ Ready(d)
    BY <1>4 DEF Waits, Flushed, Inv, Settled
  <2>2. Writes(d) => Wants(d) = Holds(After(d)) /\ Kind(d) # "nothing"
    BY <2>1 DEF Ready, Writes, Lands, Wants
  <2> QED
    BY <1>2, <2>1, <2>2 DEF Apart, Conflict
<1> QED
  BY <1>3, <1>4

(* Readiness of a statement depends on the rows, the parents and its own    *)
(* request only.                                                            *)
LEMMA SettledStays ==
  ASSUME Inv, table' = table, UNCHANGED <<rows, parents>>,
         \A d : Flushed(d)' => Ready(d) /\ Untouched(d),
         \A d, e : Flushed(d)' /\ Flushed(e)' /\ d # e => Apart(d, e)
  PROVE  Settled'
<1> USE DEF Inv
<1>1. T' = T /\ Refs' = Refs /\ Referring' = Referring
  BY DEF T, Refs, Referring
<1>2. ASSUME NEW d, Flushed(d)'
      PROVE  Ready(d) /\ SameTarget(d) /\ Untouched(d)
  BY <1>2 DEF Ready, SameTarget
<1>3. ASSUME NEW d, Flushed(d)' PROVE Ready(d)'
  <2>1. /\ Kind(d)' = Kind(d) /\ Target(d)' = Target(d) /\ Writes(d)' = Writes(d)
        /\ Named(d)' = Named(d) /\ (Writes(d) => After(d)' = After(d))
    BY <1>2, <1>3, SameStatement, SameOutcome
  <2>2. Writes(d) => Fits(d)'
    BY <1>1, <1>2, <1>3, <2>1 DEF Ready, Fits, Holds
  <2> QED
    BY <1>1, <1>2, <1>3, <2>1, <2>2 DEF Ready
<1>4. ASSUME NEW d, NEW e, Flushed(d)', Flushed(e)', d # e PROVE Apart(d, e)'
  <2>1. /\ Kind(d)' = Kind(d) /\ Locks(d)' = Locks(d) /\ Writes(d)' = Writes(d)
        /\ Named(d)' = Named(d) /\ (Writes(d) => After(d)' = After(d))
    BY <1>2, <1>4, SameStatement, SameOutcome
  <2>2. /\ Kind(e)' = Kind(e) /\ Locks(e)' = Locks(e) /\ Writes(e)' = Writes(e)
        /\ Named(e)' = Named(e) /\ (Writes(e) => After(e)' = After(e))
    BY <1>2, <1>4, SameStatement, SameOutcome
  <2>3. Apart(d, e)
    BY <1>4
  <2> QED
    BY <1>1, <2>1, <2>2, <2>3 DEF Apart, Holds
<1> QED
  BY <1>3, <1>4 DEF Settled

LEMMA SettledFlush ==
  ASSUME Inv, NEW c \in Clients, Flush(c)
  PROVE  Settled'
<1> USE DEF Inv, Typed, TypeOK
<1>1. /\ table' = table /\ UNCHANGED <<rows, parents>>
      /\ \A d : Untouched(d)
  BY DEF Flush, Untouched
<1>2. \A d : d # c => (Flushed(d)' <=> Flushed(d))
  BY DEF Flush, Answer, Flushed
<1>3. Flushed(c)' => ~Waits(c) /\ ~Refused(c)
  BY DEF Flush, Answer, Flushed
<1>4. \A d : Flushed(d)' => Ready(d)
  BY <1>2, <1>3, FlushReady DEF Settled
<1>5. \A d, e : Flushed(d)' /\ Flushed(e)' /\ d # e => Apart(d, e)
  BY <1>2, <1>3, FlushReady DEF Settled
<1> HIDE DEF Inv
<1> QED
  BY <1>1, <1>4, <1>5, SettledStays

(* A commit leaves what has run elsewhere ready.                            *)
LEMMA ReadyCommit ==
  ASSUME Inv, NEW c \in Clients, Commit(c), NEW d \in Clients, d # c, Flushed(d), Untouched(d)
  PROVE  Ready(d)'
<1> USE DEF Inv
<1>1. /\ T' = T /\ Refs' = Refs /\ table' = table /\ Refs \subseteq T.model.columns
  BY Declared DEF Commit, T, Refs, Typed, TypeOK
<1>2. Ready(c) /\ Ready(d) /\ Apart(c, d) /\ Apart(d, c) /\ SameTarget(d)
  BY CommitElsewhere DEF Settled, Flushed, Commit
<1>3. /\ Kind(d)' = Kind(d) /\ Target(d)' = Target(d) /\ Writes(d)' = Writes(d)
      /\ Named(d)' = Named(d) /\ (Writes(d) => After(d)' = After(d))
  BY <1>1, <1>2, SameStatement, SameOutcome
<1>4. ASSUME NEW i \in DOMAIN rows', ~(Writes(c) /\ i = Target(c))
      PROVE  i \in DOMAIN rows /\ rows'[i] = rows[i]
  BY <1>4, CommitRows
<1>5. Writes(c) => rows'[Target(c)] = After(c)
  BY CommitRows
<1>6. ASSUME Writes(d) PROVE Fits(d)'
  <2>1. \A x \in T.db.required : After(d)[x] # Null
    BY <1>2, <1>6 DEF Ready, Fits
  <2>2. ASSUME NEW i \in DOMAIN rows', i # Target(d)
        PROVE  Holds(rows'[i]) \cap Holds(After(d)) = {}
    <3>1. CASE Writes(c) /\ i = Target(c)
      BY <1>2, <1>5, <1>6, <3>1 DEF Apart
    <3>2. CASE ~(Writes(c) /\ i = Target(c))
      BY <1>2, <1>4, <1>6, <2>2, <3>2 DEF Ready, Fits
    <3> QED
      BY <3>1, <3>2
  <2>3. Named(d) \subseteq parents'
    <3>1. Named(d) \subseteq parents
      BY <1>2, <1>6 DEF Ready, Fits
    <3> QED
      BY <1>2, <3>1 DEF Commit, Apart
  <2> QED
    BY <1>1, <1>3, <1>6, <2>1, <2>2, <2>3 DEF Fits, Holds
<1>7. ASSUME Kind(d) = "drop" PROVE Referring' = {}
  <2>1. SUFFICES ASSUME NEW i \in DOMAIN rows', NEW x \in Refs, rows'[i][x] = "other"
                 PROVE  FALSE
    BY <1>1 DEF Referring
  <2>2. Referring = {} /\ "other" \notin Named(c)
    BY <1>2, <1>7 DEF Ready, Apart
  <2>3. ~(i \in DOMAIN rows /\ rows[i][x] = "other")
    BY <2>2 DEF Referring
  <2>4. Writes(c) /\ i = Target(c) /\ After(c)[x] = "other"
    BY <1>4, <1>5, <2>1, <2>3
  <2>5. After(c)[x] # Null /\ (Kind(c) = "update" => Target(c) \in DOMAIN rows)
    BY <1>2, <2>4 DEF Null, Ready
  <2> QED
    BY <1>1, <2>2, <2>3, <2>4, <2>5, NewReferences
<1> QED
  BY <1>2, <1>3, <1>6, <1>7 DEF Ready, SameTarget

LEMMA SettledCommit ==
  ASSUME Inv, NEW c \in Clients, Commit(c)
  PROVE  Settled'
<1> USE DEF Inv
<1>1. T' = T /\ table' = table
  BY DEF Commit, T
<1>2. ASSUME NEW d, Flushed(d)' PROVE d \in Clients /\ d # c /\ Flushed(d) /\ Untouched(d)
  BY <1>2 DEF Commit, Flushed, Untouched, Typed, TypeOK
<1>3. ASSUME NEW d, Flushed(d)' PROVE Ready(d)'
  BY <1>2, <1>3, ReadyCommit
<1>4. ASSUME NEW d, NEW e, Flushed(d)', Flushed(e)', d # e PROVE Apart(d, e)'
  <2>1. SameTarget(d) /\ SameTarget(e)
    BY <1>2, <1>4, CommitElsewhere
  <2>2. /\ Kind(d)' = Kind(d) /\ Locks(d)' = Locks(d) /\ Writes(d)' = Writes(d)
        /\ Named(d)' = Named(d) /\ (Writes(d) => After(d)' = After(d))
    BY <1>1, <1>2, <1>4, <2>1, SameStatement, SameOutcome
  <2>3. /\ Kind(e)' = Kind(e) /\ Locks(e)' = Locks(e) /\ Writes(e)' = Writes(e)
        /\ Named(e)' = Named(e) /\ (Writes(e) => After(e)' = After(e))
    BY <1>1, <1>2, <1>4, <2>1, SameStatement, SameOutcome
  <2>4. Apart(d, e)
    BY <1>2, <1>4 DEF Settled
  <2> QED
    BY <1>1, <2>2, <2>3, <2>4 DEF Apart, Holds
<1> QED
  BY <1>3, <1>4 DEF Settled

-----------------------------------------------------------------------------
(* Every step preserves the invariant.                                      *)

(* The steps that touch neither rows nor parents and flush nothing.         *)
LEMMA QuietStep ==
  ASSUME Inv, NEW c \in Clients,
         \/ OpenForm(c) \/ Send(c) \/ SubmitForm(c) \/ Retry(c) \/ Reply(c) \/ Lose(c)
  PROVE  Settled' /\ UNCHANGED <<rows, parents>>
<1> USE DEF Inv
<1>0. Step(c) /\ [Next]_vars
  BY DEF Next, Step
<1>1. table' = table
  BY <1>0, TableStays
<1>2. UNCHANGED <<rows, parents>> /\ ~Flushed(c)'
  BY DEF OpenForm, Send, SubmitForm, Retry, Reply, Lose, Look, Answer, Flushed, Typed, TypeOK
<1>3. ASSUME NEW d, Flushed(d)' PROVE Flushed(d) /\ Untouched(d)
  BY <1>0, <1>2, <1>3, OthersStay DEF Flushed, Same
<1> QED
  BY <1>1, <1>2, <1>3, SettledStays DEF Settled

LEMMA InvStep == Inv /\ [Next]_vars => Inv'
<1> SUFFICES ASSUME Inv, [Next]_vars PROVE Inv'
  OBVIOUS
<1> USE DEF Inv
<1>1. table' = table
  BY TableStays
<1>2. ASSUME UNCHANGED <<rows, parents>> PROVE KeysHeldOnce' /\ RefsExist'
  BY <1>1, <1>2 DEF KeysHeldOnce, RefsExist, Holds, T, Refs
<1>3. ASSUME NEW c \in Clients, OpenForm(c) PROVE Inv'
  BY <1>2, <1>3, TypedOpen, QuietStep
<1>4. ASSUME NEW c \in Clients, Send(c) \/ SubmitForm(c) \/ Retry(c) PROVE Inv'
  BY <1>2, <1>4, TypedLook, QuietStep
<1>5. ASSUME NEW c \in Clients, Flush(c) PROVE Inv'
  <2>1. UNCHANGED <<rows, parents>>
    BY <1>5 DEF Flush
  <2> QED
    BY <1>2, <1>5, <2>1, TypedMove, SettledFlush
<1>6. ASSUME NEW c \in Clients, Commit(c) PROVE Inv'
  BY <1>6, TypedCommit, KeysCommit, RefsCommit, SettledCommit
<1>7. ASSUME NEW c \in Clients, Reply(c) \/ Lose(c) PROVE Inv'
  BY <1>2, <1>7, TypedMove, QuietStep
<1>8. CASE UNCHANGED vars
  <2>1. Typed'
    BY <1>8 DEF vars, Typed, TypeOK, T, Shaped, Request, Valued, Known, Made, Making
  <2>2. \A d : Untouched(d) /\ (Flushed(d)' => Flushed(d))
    BY <1>8 DEF vars, Untouched, Flushed
  <2>3. UNCHANGED <<rows, parents>>
    BY <1>8 DEF vars
  <2>4. Settled'
    BY <1>1, <2>2, <2>3, SettledStays DEF Settled
  <2> QED
    BY <1>2, <2>1, <2>3, <2>4
<1> QED
  BY <1>3, <1>4, <1>5, <1>6, <1>7, <1>8 DEF Next, Step, Finished

LEMMA Invariance == Spec => []Inv
<1> QED
  BY InitInv, InvStep, PTL DEF Spec

-----------------------------------------------------------------------------
(* Every variable has its type, and a NOT NULL column a value: an update    *)
(* that was checked against a row another request has since changed still   *)
(* leaves one the table accepts.                                            *)
THEOREM TypeCorrect == Spec => []TypeOK
<1>1. Inv => TypeOK
  BY DEF Inv, Typed
<1> QED
  BY <1>1, Invariance, PTL

(* Two rows with one key would both have an entry for it.                   *)
LEMMA HeldOnce == Inv => KeysUnique
<1> SUFFICES ASSUME Inv, NEW i \in DOMAIN rows, NEW j \in DOMAIN rows, NEW k \in T.model.keys,
                    i # j, \A x \in k : rows[i][x] # Null, \A x \in k : rows[i][x] = rows[j][x]
             PROVE  FALSE
  BY DEF KeysUnique
<1>1. k \in T.db.keys
  BY Declared DEF Inv, Typed, TypeOK
<1>2. [x \in k |-> rows[i][x]] = [x \in k |-> rows[j][x]]
  OBVIOUS
<1>3. [x \in k |-> rows[i][x]] \in Holds(rows[i]) /\ [x \in k |-> rows[j][x]] \in Holds(rows[j])
  BY <1>1 DEF Holds
<1> QED
  BY <1>2, <1>3 DEF Inv, KeysHeldOnce

(* No two rows ever hold one key, whatever the requests that wrote them and *)
(* however often they were sent again: the services' lookups play no part.  *)
THEOREM KeysStayUnique == Spec => []KeysUnique
<1> QED
  BY HeldOnce, Invariance, PTL

(* A reference names a row that exists, although nothing in the services    *)
(* keeps a parent from being removed between the lookup and the statement.  *)
THEOREM ReferencesHold == Spec => []RefsExist
<1>1. Inv => RefsExist
  BY DEF Inv
<1> QED
  BY <1>1, Invariance, PTL

LEMMA CommitKeeps ==
  ASSUME Inv, NEW c \in Clients, Commit(c), req[c].op = "patch", req[c].id \in DOMAIN rows,
         NEW x \in T.model.columns, x \notin DOMAIN req[c].set
  PROVE  rows'[req[c].id][x] = rows[req[c].id][x]
<1>1. Target(c) = req[c].id /\ Kind(c) \in {"update", "nothing"}
  BY DEF Target, Kind
<1>2. CASE Kind(c) = "nothing"
  BY <1>2, CommitRows
<1>3. CASE Kind(c) = "update"
  <2>1. x \notin Dirty(c)
    BY DEF Dirty, Assigned
  <2>2. After(c)[x] = rows[Target(c)][x]
    BY <1>3, <2>1 DEF After
  <2> QED
    BY <1>1, <1>3, <2>2, CommitRows DEF Writes
<1> QED
  BY <1>1, <1>2, <1>3

(* A PATCH leaves the columns it does not name as they are when it commits, *)
(* not as they were when the service loaded the row: the edits of others    *)
(* are not undone.                                                          *)
THEOREM PatchesKeep == Spec => PatchKeeps
<1>1. Inv /\ [Next]_vars =>
        [\A c \in Clients :
           at[c] = "flushed" /\ at'[c] = "committed"
             /\ req[c].op = "patch" /\ req[c].id \in DOMAIN rows
           => \A x \in T.model.columns \ DOMAIN req[c].set :
                rows'[req[c].id][x] = rows[req[c].id][x]]_vars
  <2> SUFFICES ASSUME Inv, [Next]_vars, NEW c \in Clients,
                      at[c] = "flushed", at'[c] = "committed",
                      req[c].op = "patch", req[c].id \in DOMAIN rows,
                      NEW x \in T.model.columns, x \notin DOMAIN req[c].set
               PROVE  rows'[req[c].id][x] = rows[req[c].id][x]
    OBVIOUS
  <2>1. PICK d \in Clients : Step(d)
    BY DEF Next, Finished, vars
  <2>2. d = c
    BY <2>1, OthersStay DEF Same, Inv
  <2>3. Commit(c)
    BY <2>1, <2>2 DEF Step, OpenForm, Send, SubmitForm, Retry, Look, Answer, Flush, Reply, Lose,
                      Inv, Typed, TypeOK
  <2> QED
    BY <2>3, CommitKeeps
<1> QED
  BY <1>1, Invariance, PTL DEF Spec, PatchKeeps

=============================================================================
