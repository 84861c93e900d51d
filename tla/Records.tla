------------------------------ MODULE Records ------------------------------
(***************************************************************************)
(* Clients of the REST API and of the admin pages that create, change and  *)
(* delete the records of one table of the Catalogue, concurrently, against *)
(* PostgreSQL at READ COMMITTED.                                           *)
(*                                                                         *)
(* A request is one database transaction in three steps: the service's     *)
(* unlocked lookups, the flush of its one statement, the commit.  Between  *)
(* them every other request may move.  An answer may be lost, a connection *)
(* may die or run into the statement timeout; the client then sends the    *)
(* request again.                                                          *)
(*                                                                         *)
(* Left out: paging, the dates and defaults the ORM fills, and every       *)
(* column that behaves as one that is there (see Catalogue).               *)
(***************************************************************************)
EXTENDS Catalogue, Integers

CONSTANTS
  Clients,
  Focus,       \* the tables whose requests are explored, one at a time
  MaxAttempts, \* bound: how often a client sends one request
  MaxFaults    \* bound: lost answers and lost transactions

ASSUME RecordsAssumption ==
  Focus \subseteq Tables /\ MaxAttempts \in Nat \ {0} /\ MaxFaults \in Nat

VARIABLES
  table,   \* the table in focus
  rows,    \* committed rows, by id
  parents, \* rows of the tables the references name that exist
  at,      \* where each client's request is
  req,     \* the request
  form,    \* the row an edit form was rendered from
  loaded,  \* the row the service's db.get returned
  attempt, \* how often the request was sent
  answer,  \* what the client knows
  faults

vars == <<table, rows, parents, at, req, form, loaded, attempt, answer, faults>>

T == Catalogue[table]
Refs == DOMAIN T.db.refs
KeyColumns == UNION T.db.keys

(* A reference names one of two rows that exist or one that never did; the  *)
(* flag delete resets is on or off; of other columns two values are told    *)
(* apart.  Any column may hold null.                                        *)
Null == "null"
Parents == {"parent", "other"}
First(x) == IF x \in Refs THEN "parent" ELSE IF x = T.service.remove THEN "on" ELSE "v1"
Fresh(x) == IF x \in Refs THEN "other" ELSE IF x = T.service.remove THEN "on" ELSE "v2"
Unusual(x) ==
  CASE x \in Refs -> {"parent", "ghost"}
    [] x = T.service.remove -> {"off"}
    [] x \in KeyColumns -> {"v1"}
    [] OTHER -> {}

Seed == <<"seed", 0>>
OwnId(c) == <<c, attempt[c]>>

NoRow == <<>>
NoRequest == [op |-> "none", via |-> "none", id |-> Seed, set |-> <<>>]

Init ==
  /\ table \in Focus
  /\ rows = [i \in {Seed} |-> [x \in T.model.columns |-> First(x)]]
  /\ parents = Parents
  /\ at = [c \in Clients |-> "ready"]
  /\ req = [c \in Clients |-> NoRequest]
  /\ form = [c \in Clients |-> NoRow] /\ loaded = [c \in Clients |-> NoRow]
  /\ attempt = [c \in Clients |-> 0]
  /\ answer = [c \in Clients |-> "none"]
  /\ faults = 0

-----------------------------------------------------------------------------
(* What clients send.                                                       *)

(* A body that names these columns, with at most one unusual value.  Null   *)
(* only where the schema allows it.                                         *)
Bodies(cols, nullable) ==
  LET usual == [x \in cols |-> Fresh(x)]
      odd(x) == Unusual(x) \cup (IF x \in nullable THEN {Null} ELSE {})
  IN  {usual} \cup UNION {{[usual EXCEPT ![x] = v] : v \in odd(x)} : x \in cols}

Creates ==
  {[op |-> "create", via |-> "api", id |-> Seed, set |-> s] : s \in
     IF "create" \in T.api
     THEN Bodies(T.schema.create, T.schema.create \ T.schema.shown) ELSE {}}
  \cup
  {[op |-> "create", via |-> "web", id |-> Seed, set |-> s] : s \in
     IF T.web.create # {}
     THEN Bodies(T.web.create, T.web.create \ T.schema.shown) ELSE {}}

(* An Update body: one column, which may be an explicit null.               *)
PatchBodies == UNION {Bodies({x}, {x}) : x \in T.schema.patch}

Patches ==
  {[op |-> "patch", via |-> "api", id |-> i, set |-> s] : i \in DOMAIN rows, s \in
     IF "patch" \in T.api THEN PatchBodies ELSE {}}

Deletes ==
  {[op |-> "delete", via |-> v, id |-> i, set |-> <<>>] : i \in DOMAIN rows, v \in
     (IF "delete" \in T.api THEN {"api"} ELSE {}) \cup
     (IF T.web.delete THEN {"web"} ELSE {})}

(* DELETE /people/{id}, when the table refers to people.                    *)
Drops ==
  {[op |-> "drop", via |-> "api", id |-> Seed, set |-> <<>>] :
     x \in {r \in Refs : T.db.refs[r] = "people"}}

(* The edit form posts every column it shows, as it was when the page was   *)
(* rendered but for one the user changed; a blank is sent as None.          *)
Edits(c) ==
  LET page == [x \in T.web.edit |-> form[c][x]]
      changed(x) == IF x = T.service.remove THEN {"off"} ELSE {"v2", Null}
  IN  {[op |-> "patch", via |-> "web", id |-> req[c].id, set |-> s] : s \in
         UNION {{[page EXCEPT ![x] = v] : v \in changed(x)} : x \in T.web.edit}}

-----------------------------------------------------------------------------
(* The statement of a request.                                              *)

(* INSERT: a column that is not named, or named null, gets the ORM default. *)
NewRow(r) ==
  [x \in T.model.columns |->
     IF x \in DOMAIN r.set /\ r.set[x] # Null THEN r.set[x]
     ELSE IF x \in T.model.filled THEN Fresh(x) ELSE Null]

(* What the service assigns: the body, or the flag delete resets.           *)
Assigned(r) ==
  IF r.op = "delete" THEN [x \in {T.service.remove} |-> "off"] ELSE r.set

(* Mutant of Dirty: the UPDATE names every column of the loaded row.        *)
BugDirty(c) == DOMAIN loaded[c]

(* UPDATE: the columns whose value differs from the one db.get loaded.      *)
Dirty(c) ==
  {x \in DOMAIN Assigned(req[c]) : Assigned(req[c])[x] # loaded[c][x]}

Kind(c) ==
  CASE req[c].op = "create" -> "insert"
    [] req[c].op = "drop" -> "drop"
    [] req[c].op = "delete" /\ T.service.remove = "row" -> "delete"
    [] OTHER -> IF Dirty(c) = {} THEN "nothing" ELSE "update"

Target(c) == IF req[c].op = "create" THEN OwnId(c) ELSE req[c].id

(* The row the statement leaves.                                            *)
After(c) ==
  IF Kind(c) = "insert" THEN NewRow(req[c])
  ELSE [x \in T.model.columns |->
          IF x \notin Dirty(c) THEN rows[Target(c)][x]
          ELSE IF x \in DOMAIN Assigned(req[c]) THEN Assigned(req[c])[x]
          ELSE loaded[c][x]]

(* Mutant of Holds: the migration forgot the unique constraint.             *)
BugHolds(row) == {}

(* The entries of a row in the unique indexes; null is never a duplicate.   *)
Holds(row) ==
  {[x \in k |-> row[x]] : k \in {q \in T.db.keys : \A x \in q : row[x] # Null}}

Writes(c) == Kind(c) \in {"insert", "update"}
Lands(c) == Kind(c) = "insert" \/ Target(c) \in DOMAIN rows

Wants(c) == IF Writes(c) /\ Lands(c) THEN Holds(After(c)) ELSE {}
Had(c) == IF Target(c) \in DOMAIN rows THEN Holds(rows[Target(c)]) ELSE {}

(* The row locks the statement takes, and the parents it refers to.         *)
Locks(c) == IF Kind(c) \in {"update", "delete"} THEN {Target(c)} ELSE {}

(* Mutant of Named: a table of people's rows without its foreign key.       *)
BugNamed(c) == {}

Named(c) ==
  IF Writes(c) /\ Lands(c)
  THEN {After(c)[x] : x \in {y \in Refs : Kind(c) = "insert" \/ y \in Dirty(c)}} \ {Null}
  ELSE {}

Referring == {i \in DOMAIN rows : \E x \in Refs : rows[i][x] = "other"}

(* A statement waits for the transactions that hold what it needs: a row    *)
(* lock, an index entry being added or removed, a parent being removed or   *)
(* share-locked by a new reference.                                         *)
Conflict(c, d) ==
  \/ Locks(c) \cap Locks(d) # {}
  \/ Wants(c) \cap (Wants(d) \cup Had(d)) # {} /\ Kind(d) # "nothing"
  \/ Kind(d) = "drop" /\ "other" \in Named(c)
  \/ Kind(c) = "drop" /\ ("other" \in Named(d) \/ Locks(d) \cap Referring # {})
  \/ Kind(c) = "drop" /\ Kind(d) = "drop"

Waits(c) == \E d \in Clients \ {c} : at[d] = "flushed" /\ Conflict(c, d)

(* Mutant of Refused: the column was added without NOT NULL.                *)
BugRefused(c) ==
  \/ Kind(c) \in {"update", "nothing"} /\ ~Lands(c)
  \/ \E i \in DOMAIN rows \ {Target(c)} : Holds(rows[i]) \cap Wants(c) # {}
  \/ ~(Named(c) \subseteq parents)
  \/ Kind(c) = "drop" /\ Referring # {}

(* IntegrityError, or StaleDataError when the row to update is gone.        *)
Refused(c) ==
  \/ Kind(c) \in {"update", "nothing"} /\ ~Lands(c)
  \/ Writes(c) /\ Lands(c) /\ \E x \in T.db.required : After(c)[x] = Null
  \/ \E i \in DOMAIN rows \ {Target(c)} : Holds(rows[i]) \cap Wants(c) # {}
  \/ ~(Named(c) \subseteq parents)
  \/ Kind(c) = "drop" /\ Referring # {}

-----------------------------------------------------------------------------
(* A request, step by step.                                                 *)

Answer(c, a) ==
  /\ at' = [at EXCEPT ![c] = "answered"]
  /\ answer' = [answer EXCEPT ![c] = a]

(* GET .../{id}/edit renders the row.                                       *)
OpenForm(c) ==
  /\ at[c] = "ready" /\ T.web.edit # {}
  /\ \E i \in DOMAIN rows :
       /\ req' = [req EXCEPT ![c].id = i]
       /\ form' = [form EXCEPT ![c] = rows[i]]
  /\ at' = [at EXCEPT ![c] = "editing"]
  /\ UNCHANGED <<table, rows, parents, loaded, attempt, answer, faults>>

(* A reference the service looks up does not exist.                         *)
Missing(r, cols) ==
  \E x \in cols \cap DOMAIN r.set :
    IF r.set[x] = Null THEN r.op = "patch" /\ x \in T.db.required
                       ELSE r.set[x] \notin parents

NotFound(r) ==
  CASE r.op = "create" -> Missing(r, T.service.checked)
    [] r.op = "drop" -> "other" \notin parents
    [] OTHER -> r.id \notin DOMAIN rows \/ Missing(r, T.service.rechecked)

(* The handler calls the service, which looks up what it needs.             *)
Look(c, r) ==
  /\ req' = [req EXCEPT ![c] = r]
  /\ attempt' = [attempt EXCEPT ![c] = @ + 1]
  /\ \/ NotFound(r) /\ Answer(c, "error") /\ UNCHANGED loaded
     \/ /\ ~NotFound(r)
        /\ at' = [at EXCEPT ![c] = "looked"]
        /\ loaded' = [loaded EXCEPT ![c] =
                        IF r.op \in {"patch", "delete"} THEN rows[r.id] ELSE NoRow]
        /\ UNCHANGED answer
  /\ UNCHANGED <<table, rows, parents, form, faults>>

Send(c) ==
  /\ at[c] = "ready"
  /\ \E r \in Creates \cup Patches \cup Deletes \cup Drops : Look(c, r)

SubmitForm(c) ==
  /\ at[c] = "editing"
  /\ \E r \in Edits(c) : Look(c, r)

(* The client sends the same request again.                                 *)
Retry(c) ==
  /\ at[c] = "lost" /\ attempt[c] < MaxAttempts
  /\ Look(c, req[c])

(* _persist, _flush: the statement runs once nobody is in its way.          *)
Flush(c) ==
  /\ at[c] = "looked" /\ ~Waits(c)
  /\ \/ Refused(c) /\ Answer(c, "error")
     \/ ~Refused(c) /\ at' = [at EXCEPT ![c] = "flushed"] /\ UNCHANGED answer
  /\ UNCHANGED <<table, rows, parents, req, form, loaded, attempt, faults>>

(* _commit.                                                                 *)
Commit(c) ==
  /\ at[c] = "flushed"
  /\ at' = [at EXCEPT ![c] = "committed"]
  /\ rows' = CASE Writes(c) ->
                    [i \in DOMAIN rows \cup {Target(c)} |->
                       IF i = Target(c) THEN After(c) ELSE rows[i]]
               [] Kind(c) = "delete" ->
                    [i \in DOMAIN rows \ {Target(c)} |-> rows[i]]
               [] OTHER -> rows
  /\ parents' = IF Kind(c) = "drop" THEN parents \ {"other"} ELSE parents
  /\ UNCHANGED <<table, req, form, loaded, attempt, answer, faults>>

(* Every column Read declares as never null has a value.                    *)
Readable(row) == \A x \in T.schema.shown : row[x] # Null

(* _commit_and_refresh reads the row again and the route renders it: an     *)
(* error when it is gone or cannot be rendered.  A delete and the pages     *)
(* answer without it.                                                       *)
Reply(c) ==
  /\ at[c] = "committed"
  /\ LET shows == req[c].via = "api" /\ req[c].op \in {"create", "patch"}
         fine == Target(c) \in DOMAIN rows /\ Readable(rows[Target(c)])
     IN  Answer(c, IF shows => fine THEN "ok" ELSE "error")
  /\ UNCHANGED <<table, rows, parents, req, form, loaded, attempt, faults>>

(* The connection dies, the statement timeout ends a wait, or the answer is *)
(* lost: what is not committed is rolled back.                              *)
Lose(c) ==
  /\ at[c] \in {"looked", "flushed", "committed"} /\ faults < MaxFaults
  /\ at' = [at EXCEPT ![c] = "lost"]
  /\ faults' = faults + 1
  /\ UNCHANGED <<table, rows, parents, req, form, loaded, attempt, answer>>

Finished ==
  /\ \A c \in Clients : at[c] \in {"answered", "lost"}
  /\ UNCHANGED vars

Step(c) ==
  \/ OpenForm(c) \/ Send(c) \/ SubmitForm(c) \/ Retry(c)
  \/ Flush(c) \/ Commit(c) \/ Reply(c) \/ Lose(c)

Next == (\E c \in Clients : Step(c)) \/ Finished

Spec == Init /\ [][Next]_vars

-----------------------------------------------------------------------------
Value == {"parent", "other", "ghost", "on", "off", "v1", "v2", Null}
Ids == {Seed} \cup (Clients \X (1 .. MaxAttempts))

(* Every variable has its type, and a NOT NULL column a value.              *)
TypeOK ==
  /\ table \in Focus /\ parents \subseteq Parents
  /\ DOMAIN rows \subseteq Ids
  /\ \A i \in DOMAIN rows :
       /\ rows[i] \in [T.model.columns -> Value]
       /\ \A x \in T.db.required : rows[i][x] # Null
  /\ at \in [Clients -> {"ready", "editing", "looked", "flushed",
                         "committed", "answered", "lost"}]
  /\ attempt \in [Clients -> 0 .. MaxAttempts]
  /\ answer \in [Clients -> {"none", "ok", "error"}]
  /\ faults \in 0 .. MaxFaults

(* No two rows hold one key, however the requests that wrote them were      *)
(* interleaved: in particular a create that is sent again after a lost      *)
(* answer is recorded once (usage_records.idempotency_key,                  *)
(* webhook_events.event_id).                                                *)
KeysUnique ==
  \A i, j \in DOMAIN rows, k \in T.model.keys :
    (i # j /\ \A x \in k : rows[i][x] # Null)
      => \E x \in k : rows[i][x] # rows[j][x]

(* A reference names a row that exists, although the services look the      *)
(* parent up without a lock and DELETE /people/{id} looks at no child.      *)
RefsExist ==
  \A i \in DOMAIN rows, x \in Refs : rows[i][x] \in parents \cup {Null}

(* A PATCH changes the columns it names and no other, also when another     *)
(* request changed the row after the service loaded it.                     *)
PatchKeeps ==
  [][\A c \in Clients :
       at[c] = "flushed" /\ at'[c] = "committed"
         /\ req[c].op = "patch" /\ req[c].id \in DOMAIN rows
       => \A x \in T.model.columns \ DOMAIN req[c].set :
            rows'[req[c].id][x] = rows[req[c].id][x]]_vars

(* What app/models declares of its columns (Mapped[int], Mapped[str]): a    *)
(* row never lacks a value that every answer about it must show.            *)
AlwaysReadable == \A i \in DOMAIN rows : Readable(rows[i])

=============================================================================
