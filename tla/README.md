# dotmac_voice in TLA+

A verification project for `dotmac_voice`: TLA+ modules translated from the
Python source, TLC runs over small instances, and TLAPS proofs for all
instances. Paths such as `reconcile/voice.py:68` are relative to
`src/app/services/`, `src/app/api/`, `src/app/web/` or `src/app/` as the
context says; `PROJECT.json` has the full path and lines of every definition.

## 1. The system

`dotmac_voice` is a FastAPI application that keeps the *desired* voice service of
its customers in PostgreSQL and reconciles it onto FusionPBX / FreeSWITCH. It
receives call events from FreeSWITCH (ESL), turns them into webhooks that Celery
workers deliver, ingests call records, and carries the usual administration
around that (logins, roles, billing records, files, notifications).

### Components

| Component | State it keeps | Operations that change it | What makes it correct |
|---|---|---|---|
| Provisioning API (`api/provisioning.py`, `api/voice_features.py`) | `voice_domains`, `voice_extensions`, feature tables | put domain, put/post/delete features, suspend, resume, deprovision, resync, resync-all | the database ends with what was asked; `sync_status` tells the truth; every request ends |
| Reconciler (`reconcile/voice.py`) | FusionPBX's rows, `sync_status` | `reconcile_voice` | one at a time per customer; a synced customer is on the PBX exactly as the database says; none of a suspended one |
| FusionPBX client (`fusionpbx/client.py`) | FusionPBX database, mod_callcenter's memory | one transaction per call | a call is idempotent; runtime and tables agree after a resync |
| ESL consumer (`freeswitch/consumer.py`, `freeswitch/esl.py`, `main.py`) | file lock, ESL connection | start, stop, connect, serve, back off | exactly one worker streams; no event twice; a waiting worker takes over |
| Webhook dispatch and delivery (`events/dispatch.py`, `webhooks/delivery.py`, `tasks/webhook_deliver.py`) | `voice_webhook_deliveries`, the broker's queue | dispatch, deliver, retry, sweep, endpoint create/delete | no message is lost before its POST but by failures of its own; a row says what was done, and stays in reach of the sweep; no task waits for ever |
| CDR ingest and rating export (`cdr/ingest.py`, `api/cdr.py`) | `voice_cdrs` | ingest, feed of raw records, mark | a record is kept, charged once, and never raw again once rated and fed in that order; none is passed over |
| Login sessions (`auth_flow.py`, `api/auth_flow.py`, `web/auth.py`) | `sessions`, MFA methods, credentials | login, refresh, logout, revocations, codes | a token is exchanged once, reuse ends the session, revocation is complete, a code is good once |
| Billing records (`billing.py`, `api/billing.py`, `web/billing/`) | 14 tables, from products to usage records | create, patch, delete, by API and by form | keys unique, references exist, a patch changes what it names, what is stored can be shown |
| People, RBAC, credentials, API keys, scheduled tasks (`person.py`, `rbac.py`, `auth.py`, `scheduler.py`) | 9 tables | the same | the same, when a person is deleted |
| Call control and fraud policy (`api/calls.py`, `routing/fraud.py`) | none | originate, hang up, dial decision | the decision is the policy's |
| Rate limiter, CSRF (`middleware/`) | Redis sorted sets, per-process windows | admit or refuse | never more than the limit in a window |
| WebSockets, notifications (`websocket_manager.py`, `notification.py`) | connections per user, notification rows | connect, disconnect, broadcast, revalidate | a user's open sockets get the message; a revoked session's socket closes |
| Beat scheduler (`celery_scheduler.py`) | beat's schedule | refresh | beat runs the enabled tasks |
| Files and avatars (`file_upload.py`, `storage.py`, `avatar.py`) | object store and rows | upload, delete | a row has its object |
| Audit, settings, branding, e-mail, secrets, other admin pages | rows | append, set | — |

### How they interact

- A provisioning handler edits rows in its SQLAlchemy session, flushes, calls
  `reconcile_voice` in the *same* session, which writes FusionPBX's database (other
  transactions, effective at once), and commits at its end.
- Every gunicorn worker starts an ESL consumer thread; the holder of an `flock` on
  one file receives events, stores delivery rows and publishes a Celery message
  per row. Workers and the periodic sweep work on the same rows.
- The sweep exists for the scheduler only if a `scheduled_tasks` row enables it, and
  a worker knows either task only if something imports `app.tasks.webhook_deliver`,
  which the command of the deployment does not (section 5).
- FreeSWITCH posts call records, and a billing pipeline outside the repository reads
  the raw ones, rates them and marks them; both repeat what is not answered.
- API clients and admin pages change single records, each request one
  transaction; PostgreSQL's constraints and row locks are all that orders them.
- Every authenticated request reads the session row that logins, refreshes and
  revocations write.

### What is hard here

Handlers run concurrently in threads, with READ COMMITTED transactions, an
identity map that does not refresh what it holds, and row locks taken early, late
or not at all; FusionPBX is written before the application commits; messages are
sent before the row they name is committed; tasks are acknowledged late and come
back; a process may be recycled at any time. `PROJECT.json` lists each such place
as a hazard with the properties that cover it, or the reason why none does.

## 2. The modules

| Module | Models | Kind |
|---|---|---|
| `VoiceService` | what provisioning promises, without requests, locks or calls | abstract specification |
| `VoiceProvisioning` | provisioning handlers, reconciler, what FusionPBX holds | specification, implements `VoiceService` |
| `VoiceProvisioning_proofs` | type invariant, row locks, mutual exclusion; a synced commit leaves on FusionPBX what it commits | proofs |
| `SerialClient_proofs` | the refinement of `VoiceService`; intent and status recorded | proofs |
| `MCVoiceProvisioning` | intents and start states of the runs | instances |
| `CallCenter` | queues, agents and tiers of one customer: wanted, stored, in memory | specification |
| `CallCenter_proofs` | type invariant and all its properties | proofs |
| `CallBilling` | what the ledger promises of a call: recorded, charged once, settled | abstract specification |
| `CdrLedger` | posts of call records, the feed, the pipeline's marks | specification, implements `CallBilling` |
| `CdrLedger_proofs` | type invariant, all its safety properties, the refinement of `CallBilling` | proofs |
| `WebhookDelivery` | dispatcher, broker, deliver task, sweep, receiver | specification |
| `WebhookDelivery_proofs` | type invariant and all its safety properties | proofs |
| `EslConsumer` | consumer threads, lock, connections, FreeSWITCH | specification |
| `EslConsumer_proofs` | type invariant, singleton, dispatched once | proofs |
| `AuthSessions` | sessions of one person under concurrent requests | specification |
| `AuthSessions_proofs` | all its properties | proofs |
| `Catalogue` | 23 tables: what migrations, ORM, schemas, services, routes and forms declare | data for `Records` |
| `Records` | concurrent requests on the records of any table of the catalogue | specification |
| `Records_proofs` | type invariant and all its properties, for every table | proofs |
| `MC...` | constants, start states, symmetry of the runs | instances |

An operator named `Bug...` is a plausible defect of the definition that follows
it. No specification uses one; `PROJECT.json` pairs each with the property that
notices it when it replaces that definition.

### VoiceProvisioning

State: `db` and `rows` are the committed tables; `pbx`, `boxes`, `routing` what
FusionPBX holds; `pc` says where each request is; `mem`, `wrote`, `seen`, `ins`,
`del` are its session (identity map, changed columns, rows it read, rows it
inserted and deleted), `lock` its PostgreSQL row locks; `cur`, `todo`, `want`,
`calls`, `result` are the locals of `reconcile_voice` and of `resync-all`.

| Actions | Code |
|---|---|
| `Begin`, `BeginNew`, `Refuse`, `BeginAll` | the handler up to its first flush: the unlocked SELECT, the edit of the domain, 404 and 409 |
| `InsertDomain`, `Load`, `Flush` | INSERT of a new domain; SELECT of the rows to edit; `db.flush()` with the locks it takes and its failures |
| `Lock` | SELECT .. FOR UPDATE in `reconcile_voice`, and the rows it reads as desired; the object already in the session is *not* refreshed |
| `List`, `PbxCall`, `Synced` | `list_extensions` and `compute_delta`; one FusionPBX call (`Rank` is their order); the status |
| `PbxUnavailable`, `PbxRejects` | the caught error (status `error`) and the one that leaves the handler |
| `Runtime`, `NextDomain` | `resync_queues`; the loop of `resync-all` |
| `Commit`, `Abort`, `DeadlockVictim` | the end of the transaction |

A FusionPBX call whose answer is lost may or may not have taken effect. An
UPDATE writes only the columns whose value differs from the loaded one, so
`Merged` keeps the others as they are committed: this is how a stale session can
commit `synced` without touching `is_active`. The flushes of `_replace` (one for
each kind of feature) are one `Load` and one `Flush`; `voicemail_enabled` is
always true through the API, so every extension has a box.

The abstract specification is `VoiceService`: whoever holds a customer may change
what its domain offers, and ends by publishing a record — synced only if the
domain, if the customer has it to itself (`Sole`), offers exactly what the record
says — or by giving up. `ServiceKept` maps
it: the committed domain and its rows are the record, FusionPBX is what is
offered, and a customer is held by the transaction that has its row FOR UPDATE,
for the domain that transaction's session knows. That it holds for serial clients
says that no PBX call happens outside the row lock, none touches another
customer's domain, and no path — outage, refusal, crash, deprovision, resync of
the fleet — publishes a synced record the PBX does not offer. It does not hold for
racing clients (section 5, `stale_session`), for whom `SyncedCommitApplied` is what
remains.

### CallCenter

`wanted`, `active` are the customer's rows in the voice database; `queueRow`,
`agentRow`, `tierRow`, `dialplan` FusionPBX's; `loaded`, `known`, `tiers`
mod_callcenter's memory; `phase`, `left`, `cmds` where the reconcile is, the
queues it has left and the commands it still has to send. Commands are a set: `turn`
and `Due` keep the order the code fixes (unload first, load last, an agent before its
tiers) and leave open the order of a payload or of a SELECT. `EnsureQueue`,
`RemoveQueue` are one transaction each and the commands they collect;
`Deliver`, `LoseCommand` one command (`Accept` is what mod_callcenter makes of it); `ListQueues`, `Reconciled`, `Resynced` the
frame of `reconcile_voice` and `resync_domain`; `Outage`, `Die`, `SwitchRestarts`
the failures. It refines the queues that are single items in `VoiceProvisioning`:
one `ensure_queue` there is one `EnsureQueue` here. mod_callcenter is outside the
repository: it takes a tier only for an agent it knows, ignores a second load of
a queue, and its unloading may or may not drop the queue's tiers.

### CdrLedger

A post is `Send`, `Find` (the SELECT by `call_uuid`), `Write` (INSERT or UPDATE,
commit), `Reply`; a mark is `SendMark`, `LoadMarked`, `WriteMarked`,
`ReplyMarked`; `ReadFeed` is the pipeline reading one answer of the feed and
charging what it got. A record is named by the post that inserted it. `Lose`,
`LoseMark`, `GiveUp` are the lost transactions and answers. The pipeline is
external: rate what is raw, mark it rated, mark it fed, repeat what is not
answered (`docs/superpowers/specs/2026-06-21-dotmac-voice-architecture-design.md:163`, and the docstring of `mark_cdrs`).

The abstract specification is `CallBilling`: a call is recorded, charged, settled,
in this order and each once, or disputed at any time. `Life` reads the stage off the
rows: no record, a raw record nobody charged, a charge whose record is still raw, a
record that left the raw feed. A call of which two posts overlapped is disputed,
since the upsert has no lock and no unique key (section 5), and nothing is promised
of it. A call that is recorded or charged twice without an overlap is "doubled",
which is no stage of `CallBilling`, so that no step may reach it.

### Catalogue and Records

`Catalogue` has six definitions per table: foreign keys, unique keys and NOT NULL
columns of the migration; the columns of the ORM class and those it fills by
itself; what the Create and Update bodies accept and what Read declares never
null; what the service looks up and what its delete does; the routes; the forms.
A table's columns are its references, its keys, the column that delete resets,
and one column for each other way a column can be treated: a definition stands
for every column that behaves as one of these. TLC evaluates
`ModelsMatchMigrations`: ORM and migrations agree on every foreign and unique key.

`Records` runs the requests these declarations allow. A request is one
transaction: `Look` (the service's unlocked `db.get`s; `Missing` is
`_require_exists`), `Flush` (its one INSERT, UPDATE or DELETE, which waits for
whoever is in its way and may be refused), `Commit`, `Reply` (which reads the row
again and has to render it). `OpenForm` and `SubmitForm` are an edit page, which
posts every column it shows. `Lose` is a lost answer, connection or statement,
`Retry` the same request again. `Dirty` is SQLAlchemy's UPDATE of the changed
columns only; `Conflict` is what a statement of PostgreSQL waits for: a row lock,
an index entry, a parent being deleted.

### WebhookDelivery

`coming`, `stage`, `event`, `chosen`, `unsent` are the dispatcher (one thread,
one event at a time); `rows` the committed deliveries, `older` their order by
`updated_at`; `queue` the broker; `at`, `job`, `batch`, `mem`, `changed`, `held`,
`ok` a worker's task and session; `posts` and `accepted` what the receiver saw.
`Receive`, `Insert`, `Send`, `CommitRows`, `DispatchFails` are `handle_event`
and `dispatch`; `Take`, `Discard`, `Post`, `Flush`, `Commit`, `Settle`, `Retry`,
`Ack` the deliver task; `Sweep` loads a batch for the same steps. Its failures are
`LoadFails` (the SELECT of the row), `DbFails` (the SELECT of the endpoint before
the POST, the UPDATE, the COMMIT, or the SELECT of the status after it), `Raise`,
`DeadlockVictim` and `Die`; `RetryFails` is a broker that does not take the retry.
Every exception of `deliver`, before the POST or after it, spends a retry
(`autoretry_for`); a message whose retries are spent, or whose retry cannot be
published, is gone. A message that a dead worker held (or one that Redis redelivers
after its visibility timeout) is in the queue again, with the retries it had.
`Registered` is a worker that has imported the task, `Scheduled` a `scheduled_tasks`
row for the sweep; the module has both cases of both.
The branch for a missing endpoint (`delivery.py:43-53`) cannot be reached while
the foreign key holds, and is left out.

### EslConsumer

`at` is where each worker's thread is in `_run` and `run_once`, `owner` the holder
of the `flock`, `link` and `inbox` the connection of its bridge and what was
received on it, `stopping` the workers whose `stop()` was called, `up` and
`coming` FreeSWITCH. `TryLock`, `Connect`, `ConnectFails`, `Handle`, `ServeEnds`,
`WakeUp`, `Exit` are the thread, `Start` and `Stop` the lifespan, `Die`, `Break`,
`GoDown`, `GoUp`, `Emit` the world. FreeSWITCH keeps nothing for a connection
that is not open, and what a bridge has not handed over when its loop ends is
gone: the model loses events where the code does.

### AuthSessions

`sessions` are the committed rows (status, current token, previous token),
`late` the expired ones, `clock`, `last`, `primary` the one-time-code method,
`known` the tokens clients have. A request is one transaction: `Login`, `WebLogin`,
`UseCode`; `Refresh`, `Find`, `Replay` (the two SELECTs .. FOR UPDATE of
`refresh`); `Begin`, `Select`, `Flush` (logout and the revocations, which read
without a lock and lock when they write); `Commit`, `Abort`. Sessions are named
by the request that opened them and tokens by the request that issued them.
Under READ COMMITTED a SELECT .. FOR UPDATE that waited re-evaluates its WHERE on
the row as it is then: `Find` and `Replay` read when they get the lock.

### External code

greenswitch, PostgreSQL, Celery, Redis, gunicorn, FreeSWITCH and FusionPBX are
modelled from how the code in `src/` uses them. greenswitch is written for gevent and
nothing in the repository patches the standard library; the model takes it that the
handler runs while the consumer thread serves, and no property rests on more.
Tables that a request locks follow PostgreSQL's row-lock conflicts
(`LockMode`, `Conflicts`), and a deadlock is resolved by aborting one of those
who wait.

## 3. The runs

`tlc -workers 2 -config <cfg> <module>`; every run ends without a bound on its
depth. `CHECK_DEADLOCK FALSE` where requests and events are finite and the
instance stops when they are served; `records` and `callcenter` end in a step that
says so (`Finished`, `Quiet`), and TLC checks that nothing else stops them.

| Run | Distinct states | Shows |
|---|---|---|
| `serial` | 124,968 | all operations of one customer, two in sequence by a client that waits for its answers (`SerialSpec`), beside a second customer, with outages, refusals and aborts at every step: `ServiceKept` (the handlers implement `VoiceService`), `IntentRecorded` (the database keeps what was asked), `StatusRecorded` (and the reconcile's status) |
| `racing` | 198,942 | two requests at once for two customers or for the fleet, with deadlocks: `LocksExclude`, `OneReconcilePerCustomer`, `SyncedCommitApplied` (a synced commit leaves on FusionPBX exactly the rows it commits), `EveryRequestEnds` |
| `unattended` | 2,772,832 | tasks and sweeps of workers that know them, on two rows, one of which always raises, with two retries and three faults: `PendingInReach`, `Earned`, `MessageKept` (before its POST a message goes only when an attempt raised and could not be retried), `RetriesPaid` (only failures spend the retries) |
| `overlaps` | 229,485 | tasks and sweeps that update two rows in different orders and deadlock: `EveryTaskEnds` |
| `singleton` | 26,140 | three workers, three faults, two events: `OneStreams`, `FedOnce`, `TakesOver` |
| `rotation` | 1,079,114 | three requests of any kind on one session: `ExchangedOnce`, `ReplayEnds`, `CodeOnce`, `OldSessionsEnd`, `RotatesActive` |
| `records` | 752,471 | two clients, any two requests on any one table, two faults: `KeysUnique`, `RefsExist`, `PatchKeeps` |
| `callcenter` | 2,516,213 | four requests, two queues that share two agents, two faults: `RowsAgree`, `RowsMatch`, `Restored` |
| `ledger` | 487,592 | two calls, two posts of each, four marks, two faults: `BillingKept` (the ledger implements `CallBilling`), `Billable`, `Idempotent`, `NeverRawAgain`, `EveryCallRated` |
| `stale_session`, `null_patch`, `redelivered` | violated | three findings of section 5 |

Every passing run but `racing` and `overlaps` checks the type invariant of its module.

### Bounds

- *Voice.* One customer has up to two extensions, a dialplan feature and a queue:
  an item to keep, one to add and one to drop, of every kind of FusionPBX call. Two
  requests in sequence are an edit and what the next one meets; two at once are a
  holder of the lock and one that waits for it with an old object, and, over two
  customers, a cycle of row locks. The customer is active, suspended or absent at
  the start. `racing` starts active or absent, since a suspended one is reached by
  a request.
- *Webhooks.* `MaxAttempts` 3 or 2 instead of 5 and `Limit` 2 instead of 100: the
  first attempt is not the last one, and two tasks can be one attempt apart.
  `MaxRetries` 2 is less than `MaxAttempts`, as in the code (3 and 5), and less than
  the three faults (a death, a failed statement, a broker that takes no message), so
  that messages are given up before their POST too. In `unattended` one of the rows
  raises in every sweep it shares with the other. In `overlaps` both rows can be
  called: a deliver task changes their order between two sweeps, which then wait for
  each other. That takes a second attempt (`MaxAttempts` 2). It has neither faults
  nor retries, which keeps the liveness check small: a fault only ends a task sooner
  (and all faults are in `unattended`), so what a task could wait for for ever are
  the locks of tasks that go on. The workers of both runs know the tasks:
  with `Registered` FALSE nothing happens that a property could be about. `posts` is
  counted up to `MaxAttempts`.
- *Call centre.* Two queues and two agents: an agent may be in both, in one, move,
  or be the last of a queue. Four requests are a set-up, a change, a resync and what
  undoes it; two faults are a loss and the loss of its repair.
- *Ledger.* Two calls and `Limit` 1: the feed has to choose. Two posts are a post
  and its retry; four marks are the two of each call, or one call's with repeats.
- *Records.* Two clients: every conflict of PostgreSQL is between two transactions.
  Two attempts are a request and its retry. One seed row and two parents, of which
  one can be deleted; a column has one of two values, or null. One table at a time,
  since a request changes rows of one table (a delete of a person is refused, not
  cascaded).
- *ESL.* Three workers: one that streams, one that waits, one that restarts. Three
  faults allow a stop, a death and a broken connection in a row. No symmetry, since
  liveness is checked.
- *Sessions.* One session from the start and three requests: two that use a token
  and one that revokes, or the chain of exchange, exchange, reuse. `MaxClock` 2 is
  a code, the next one and the old one again. `Expire` may strike any session at
  any time.

Symmetry is used only where no liveness property is checked and no constant tells
the permuted values apart.

### Fairness

- `VoiceProvisioning`: weak fairness of `Work(r)` for a request that has begun: its
  thread runs, FusionPBX answers or fails, PostgreSQL resolves deadlocks and grants
  a released row. Clients owe nothing, and no fault is required to happen.
- `WebhookDelivery`: weak fairness of the dispatcher and of each worker's steps;
  strong fairness of `Pull` and `Flush`, whose turn is kept in a queue — the
  broker's list hands out messages in order, and PostgreSQL queues the waiters of a
  row. Sweeps may run, at any time and any number of them, and none has to: what
  beat does with this schedule is not assumed (section 5).
- `EslConsumer`: weak fairness of each worker's own thread, of greenswitch's
  handing over, and of gunicorn starting a worker that is down. Nothing is
  assumed of stops, deaths or FreeSWITCH's return.
- `CdrLedger`: weak fairness of a request that was sent and of the pipeline. Nobody
  has to post, and no fault is required.
- `AuthSessions`, `CallCenter`, `Records`: none; they have safety properties only.

## 4. The proofs

Checked by TLAPS for every value of the constants that satisfies the modules'
assumptions (the sets of customers, items and kinds are disjoint, `NoDomain`,
`Nobody` and the like are none of the values they stand beside, bounds are
naturals). Calls, events and endpoints are finite sets, because the code takes
the newest or the oldest rows of a SELECT with a limit; no other set is assumed
finite.

- `VoiceProvisioning_proofs`. `TypeCorrect`: `TypeOK` is inductive; its part
  `SessionHolds` (a session holds every object it has changed) is what makes the
  steps of the reconciler typed. `LocksHeld`: `TypeOK /\ LocksExclude` is inductive.
  Exclusion alone is not: a request may lock a row only because it is there
  (`LockBacked`), or somebody could insert it again under the holder, and the lock
  is still held later only because of where the request is (`LockHeld`).
  `Serialized` follows: two requests that reconcile one customer would both have
  its row for update.
  `SyncedIsApplied` is an action property on top of `LocksHeld`. Two customers may
  be given one PBX domain, as the API allows (section 5), and nothing is promised of
  them: the property is about `SoleCustomers`, who share theirs with nobody, beside
  any others who do. `Owned` (a row, committed or in a session, names a domain its
  customer was given) and `Scoped` (a request edits rows of its own customer only) give that
  nobody disturbs such a customer whose row one has for update (`SoleDomain`,
  `OthersKeep`). `Doing` relates the calls that are left to what they have yet to change: whatever the PBX
  lacks or has beyond the rows, a call that is due will create or delete, and none
  that is due spoils the rest (`Left`; `CallKeeps` shows it for each kind of call,
  the listings that plan further deletions included). With no call left the two are
  equal (`NothingLeft`), and `Settled` carries that to the commit, past the other
  customers of a fleet-wide resync.
- `SerialClient_proofs`, about `SerialSpec` (a client that waits for its answers). `Alone` and
  `Clean`: the one request in flight is the only one with a session. `Fresh`: what that session has of a row, but for the columns it
  wrote, is what the database has, so a commit publishes the row that was reconciled
  (`MergedFresh`); it is what racing clients break (section 5, `stale_session`).
  `HandlersImplement` is the refinement: `Stutters`, `Holds`, `Serves`, `GivesUp` and
  `Publishes` say what a step of the handlers is to `VoiceService`, and `CommitMaps`
  needs `Settled` from `VoiceProvisioning_proofs`. It assumes that the placeholder
  for no record is none of the records (`Distinct`). `StatusesRecorded` adds
  `Reported`. `IntentsRecorded` adds `OnePerItem` (the row tables carry no unique constraint: the
  handlers alone keep one row per item), `Edits` and `Files`, and assumes that
  payloads hold items of their endpoint's kind (`WellAsked`), as the schemas have it.
- `EslConsumer_proofs`. The invariant is `TypeOK`, `Guarded` (whoever connects or
  serves owns the lock) and `OncePending` (an event that is still coming has not
  been handled, one in an inbox is there once, is not coming and has not been
  handled, and none was handled twice). `Singleton` follows from `Guarded`;
  `DispatchedOnce` needs all three: an event reaches one inbox because one
  connection is open (`TypeOK`: only a serving thread has one), and leaves it when
  it is handled.
- `AuthSessions_proofs`. The invariant is `TypeOK` and `Locked` (a row lock has
  one holder, and whoever waits for its commit holds exactly the rows it will
  write), `Codes` (one request at a time has a code in hand, newer than the last
  accepted one, and no newer code was used), `Tokens` (a token is unknown before
  its request is answered, and is current in at most one session, previous in at
  most one, and never both), `Refreshing` (a refresh about to write still sees its
  session active with the token it presented, or the token is dead), `Answered`
  (what an exchange that was answered says of the session now, without which
  reuse is not inductive) and `Swept` (every active session from the start is a
  target of the revocation in flight, or spared). From it:
  `FirstWins`, `ReuseIsDetected`, `CodesAreOneTime`, `SweepsAreComplete`, and the
  action property `RefreshesAreLive`.

- `WebhookDelivery_proofs`. `EveryEndEarned`: what a row says was done was done,
  in the table and in every worker's session (`Counted`); sessions matter because
  a sweep overwrites what a task committed meanwhile. `PendingStaysInReach` needs
  `Fresh` (an event that is still to be stored has no rows) and `Loaded` (what a
  session knows: a row it did not settle was below the limit, or settled, when it
  was loaded, and rows once settled stay so). `MessagesAreKept` needs `Single` (a
  task attempts the row of its message): before the POST a message is acknowledged
  only when it was published again, or could not be. `RetriesArePaid` says what that
  costs, from `Paid` and `Posted` (a task that flushes has POSTed): the k-th retry of
  a message whose row was not POSTed took k failures, so it is given up for its
  retries only after more than `MaxRetries` of them. The first is about workers that
  know the task, and says so in its statement; the second about any.
- `CdrLedger_proofs`. The invariant is `TypeOK`, `LoadedRows` (what a mark loaded
  is still there, and no rawer than it was), `MarksSet` and `Placed` (where a post
  is says whether its record exists). `RatedStaysRated` is an action property
  from it. `NothingBillableLost` adds `Recorded` and `Charged` (what is marked, or
  about to be, was charged). `ChargedOnce` adds, for calls whose posts do not
  overlap, `Alone` (one post at a time, one record), `Awaited` (the mark the
  pipeline waits for is of its batch) and `Once` (a charged call left the feed,
  unless its batch is still to be marked). `LedgerImplements` needs all of these: a
  call is at one stage for each case of `LifeStage`, the INSERT of `Write` is
  `Record`, `ReadFeed` is `Charge` of its page (`Once`: what the page shows was not
  charged before, but for calls in dispute), the "rated" mark of the pipeline is
  `Settle` of the page, the `Send` of an overlapping post is `Dispute`, and every
  other step leaves each call where it is.
- `CallCenter_proofs`. `RowsAgree` is not inductive: a queue would be stored without
  members if one were wanted without (`Asked`; the schema refuses it).
  `ReconcileConverges` is an action property from `Progress`: a queue that was
  ensured stays as it is wanted while the others are ensured and the unwanted ones
  deleted, although they share agents. `TypeCorrect` needs what the client remembers
  beside the types (`Remembered`: an aborted request falls back on rows that were
  wanted). `ResyncRestores` rests on `Told` (while every
  command arrives, what the tables have and mod_callcenter lacks is in a command that
  is still to be sent, and the agent of a tier that is still to be sent is known or
  sent before it) and on `Silent` (a request ends with its last command).
- `Records_proofs`, for every table of the catalogue at once: what the proofs use of
  the declarations is `ModelsMatchMigrations` and `ColumnsDeclared`, which TLC
  evaluates. Keys and references are not inductive: between flush and commit the rows
  say nothing of a statement that has run. `Settled` does: such a statement is `Ready`
  (it may commit as things are) and any two are `Apart` (neither takes what the other
  holds). `FlushReady` derives both from the waits and the refusals of PostgreSQL, and
  `ReadyCommit` shows that a commit leaves the others ready; it needs that the row they
  locked is still what they loaded their columns over (`CommitElsewhere`), which for
  inserts needs that no request knows the id of a row that is being made (`Known`,
  `FreshId`). `TypeCorrect`, `KeysStayUnique` and `ReferencesHold` follow; `PatchesKeep`
  is an action property of the commit. The services' own lookups appear nowhere in the
  argument: the constraints alone carry it.

What a theorem states was checked by TLC before it was proved. Every invariant and
action property of the passing runs is proved. Only model-checked are the four
liveness properties (`EveryRequestEnds`, `EveryTaskEnds`, `TakesOver`,
`EveryCallRated`): TLAPS does neither fairness nor ENABLED, on which they rest.

## 5. Where the code departs from what the repository says

Three are runs that expect the violation:

- `stale_session` — a reconcile that waited for a suspend to commit goes on with
  the `is_active` its session loaded before (`reconcile/voice.py:68` locks without
  `populate_existing`), puts the extensions back and commits `synced`.
- `null_patch` — a PATCH with an explicit null reaches a column that the models
  declare as never null and the migrations left nullable (`schemas/billing.py:208`,
  `alembic/versions/002_billing_schema.py:132`, and the like in other billing
  tables): it is committed, and the row cannot be rendered again. The tests create
  their tables from the models, and see the PATCH refused.
- `redelivered` — two posts of one call that overlap both insert (`cdr/ingest.py:58`
  takes no lock, the index on `call_uuid` is not unique). `Idempotent` is what
  remains: posts that follow each other keep one record, which is charged once.

Three more are properties of the modules that TLC refutes on small instances when
they are put into a configuration:

- `NoOrphans` — `api/provisioning.py:153` ignores the status of the
  reconcile: in an outage the rows go and the extensions stay on the PBX.
- `WebhooksFire` — `dispatch.py:102` publishes before the commit; a quick worker
  finds no row and drops the message. Only the sweep would help, and nothing
  schedules it by default. With `Registered` FALSE it is refuted without a race: the
  worker of `docker-compose.yml:85` (`celery -A app.celery_app worker`) imports
  `app.tasks.example` only (`celery_app.py:13-14`) and drops every `deliver` message,
  and every sweep, as of a task it does not know. As the repository stands nothing
  is POSTed; the other webhook properties are about a worker that has the import.
- `SignedIn` — `web/auth.py:94` hands out cookies for a session row that no commit
  stores. The test fixtures share one session, which hides it.

The models also show, or the reading brought up, what no run states because the
repository promises nothing to hold it to, or only a single assignment decides it:

- two concurrent puts that insert one extension number leave two rows
  (`api/provisioning.py:63`; the uniqueness is checked within one payload only);
- an outage between the two calls that drop an extension's voicemail leaves a box
  that no later reconcile looks for (`reconcile/voice.py:106`); hence the model
  compares extensions exactly and boxes by inclusion;
- under races `sync_status` may be one that no reconcile of the committed state
  returned, since it is compared with the loaded value (`reconcile/voice.py:185`):
  `StatusRecorded` holds only for a client that waits;
- the internal routing dialplan is one row for all customers, with the last
  reconciled one's recording setting (`fusionpbx/client.py:784`);
- `fusionpbx_domain` is not unique in the migrated schema (migration 007): two
  customers on one domain would delete each other's extensions. The instances give
  each its own, and `SyncedCommitApplied` and `VoiceService` promise a synced domain
  only to those who have (`SoleCustomers`);
- a row whose URL makes httpx raise something other than a transport error aborts
  every sweep that contains it, and the rows it shares them with are rolled back
  (`delivery.py:79`, `Poison`); that every row is settled in the end is therefore not
  claimed, and would need a sweep that runs again and again besides;
- an outage of the database that outlasts the retries, or of the broker when one is
  to be published, loses a message before its POST (`MessageKept` allows exactly
  that); the row stays pending, for a sweep if there is one;
- a sweep may POST a row again that a task settled meanwhile, and overwrite its
  attempts (`delivery.py:70`, `:97`): `Earned` is about what remains true;
- events between the release of the lock and the next connect are lost
  (`consumer.py:135`), as are those of a failed dispatch;
- a queue that loses an agent is unloaded and loaded again, and no tier is deleted
  by name nor are the remaining ones sent again (`client.py:1026`): if unloading
  keeps the tiers, mod_callcenter still has the old member; if it drops them, it has
  none until the next resync (`ShrinksExactly`; it depends on mod_callcenter);
- runtime commands are not repeated when they are lost: a second reconcile finds the
  tables as they should be and sends nothing, only a resync does (`Restored`);
- a mark that was given up on may arrive after the next one and move a record from
  fed back to rated (`api/cdr.py:105`). It never becomes raw (`NeverRawAgain`)
  because the pipeline sends no `raw` mark; the endpoint would accept one, and put
  the records back into the feed, to be charged again;
- an edit form writes back every column it shows, and so undoes what another user
  changed since the page was rendered (`web/billing/`); `PatchKeeps` is about the
  columns a request does not name;
- beat's schedule is replaced by plain dictionaries (`celery_scheduler.py:26`), which
  celery's scheduler has to turn into entries with no last run: its `populate_heap`
  calls `is_due()` on what it finds there, which a dictionary does not have;
- a client whose refresh answer was lost looks like reuse when it tries again and
  loses its session; only one generation of tokens is remembered;
- a login that checked the old password may open its session after the sweep of a
  password change.

## 6. Not modelled

- *Call control, fraud policy, voice tokens*: functions of one request without state.
- *Rate limiter, CSRF*: one atomic Redis script, one comparison of a cookie with a
  field; nothing interleaves within them.
- *WebSockets*: a registry of one process under one asyncio lock; what is hard is the
  behaviour of sockets and of Redis pub/sub.
- *Beat*: celery's loop is outside the repository; where a sweep is enabled
  (`Scheduled`) one may start at any time, and no property needs that it does.
- *Files and avatars*: an object is stored, then its row is written. A failure in
  between leaves an object that no code looks for.
- *Audit, settings, branding, e-mail, secrets*: single rows, rendering, other services.
- Of the login component, the credential (password, lockout counter). Of RBAC, the
  role pages that save several links at once. Of the FusionPBX client, the contents
  of dialplan entries. Of the records, paging, and columns that behave as one that is
  there.
- A connection that stalls without closing (`esl.py:178`) depends on greenswitch.

## 7. Plan

Done: the modules of section 2, with the proofs of section 4. What would come next:

1. `CallCenter`'s queues composed with the row locks of `VoiceProvisioning`.
2. The credential in `AuthSessions`: the lockout counter under concurrent failures.
