-------------------------- MODULE WebhookDelivery --------------------------
(***************************************************************************)
(* Outbound webhooks: a call event becomes one voice_webhook_deliveries    *)
(* row per subscribed endpoint, and Celery workers POST them.              *)
(*                                                                         *)
(*   app/services/freeswitch/consumer.py handle_event   the dispatcher     *)
(*   app/services/events/dispatch.py                    rows and messages  *)
(*   app/tasks/webhook_deliver.py                       deliver and sweep  *)
(*   app/services/webhooks/delivery.py                  one attempt        *)
(*   app/celery_app.py, services/scheduler_config.py    the workers        *)
(*                                                                         *)
(* A task works on the rows it loaded.  An UPDATE stores attempts as the   *)
(* loaded value plus one, and status only when the task changed it; it     *)
(* takes the row lock, held to the commit.  A message is acknowledged when *)
(* its task ends (task_acks_late), so a dead worker's message comes back.  *)
(*                                                                         *)
(* Left out: payloads and signatures, last_error, retry delays; rows are   *)
(* ordered by the commit of their last update.                             *)
(***************************************************************************)
EXTENDS Integers, Sequences, FiniteSets, SequencesExt

CONSTANTS
  Events,       \* call events of mapped types, each received once
  Endpoints,    \* webhook endpoints subscribed to them
  Poison,       \* endpoints whose URL makes httpx raise a non-transport error
  Workers,      \* Celery worker processes
  MaxAttempts,  \* attempt_delivery's max_attempts: 5
  MaxRetries,   \* max_retries of every task: 3 (CELERY_TASK_MAX_RETRIES)
  Limit,        \* rows of one sweep: 100
  Registered,   \* the worker has imported app.tasks.webhook_deliver
  Scheduled,    \* an enabled ScheduledTask runs the sweep
  MaxFaults     \* bound: worker deaths, database and broker errors

ASSUME WebhookAssumption ==
  /\ MaxAttempts \in Nat \ {0} /\ MaxRetries \in Nat /\ Limit \in Nat \ {0}
  /\ MaxFaults \in Nat
  /\ IsFiniteSet(Events) /\ IsFiniteSet(Endpoints) /\ Poison \subseteq Endpoints
  /\ Registered \in BOOLEAN /\ Scheduled \in BOOLEAN

Delivery == Events \X Endpoints
Status == {"absent", "pending", "delivered", "failed"}
Row == [status : Status, attempts : Nat]
Absent == [status |-> "absent", attempts |-> 0]
Message == Delivery \X (0..MaxRetries)
Stage == {"idle", "insert", "send", "commit"}

VARIABLES
  coming,    \* events FreeSWITCH has still to send
  endpoints, \* active endpoints
  stage,     \* where the dispatcher is
  event,     \* the event it handles
  chosen,    \* endpoints it selected for it
  unsent,    \* deliveries it has still to enqueue
  rows,      \* committed rows
  older,     \* for each delivery, the ones with an earlier updated_at
  queue,     \* messages in the broker, counted
  at,        \* where each worker is
  job,       \* the message of its deliver task, <<>> for a sweep
  batch,     \* deliveries it has still to attempt
  mem,       \* rows its session loaded and changed
  changed,   \* deliveries whose status it changed
  held,      \* rows it has updated and not committed
  ok,        \* its last POST was answered 2xx
  posts,     \* POSTs made per delivery, counted up to MaxAttempts
  accepted,  \* deliveries some POST of which was answered 2xx
  faults

dispatcher == <<coming, stage, event, chosen, unsent>>
session == <<batch, mem, changed, held, ok>>
receiver == <<posts, accepted>>
vars == <<coming, endpoints, stage, event, chosen, unsent, rows, older, queue, at, job,
          batch, mem, changed, held, ok, posts, accepted, faults>>

Init ==
  /\ coming = Events /\ endpoints = Endpoints
  /\ stage = "idle" /\ event \in Events /\ chosen = {} /\ unsent = {}
  /\ rows = [d \in Delivery |-> Absent] /\ older = [d \in Delivery |-> {}]
  /\ queue = [m \in Message |-> 0]
  /\ at = [w \in Workers |-> "free"] /\ job = [w \in Workers |-> <<>>]
  /\ batch = [w \in Workers |-> <<>>]
  /\ mem = [w \in Workers |-> [d \in Delivery |-> Absent]]
  /\ changed = [w \in Workers |-> {}] /\ held = [w \in Workers |-> {}]
  /\ ok = [w \in Workers |-> FALSE]
  /\ posts = [d \in Delivery |-> 0] /\ accepted = {} /\ faults = 0

-----------------------------------------------------------------------------
(* The dispatcher: one thread, one event at a time.                         *)

Sent == {<<event, e>> : e \in chosen}
Stored == {d \in Delivery : rows[d].status # "absent"}
Earlier(s, d) == {s[i] : i \in {j \in DOMAIN s : \E k \in DOMAIN s : j < k /\ s[k] = d}}

(* endpoints_for_event.                                                     *)
Receive(e) ==
  /\ stage = "idle" /\ e \in coming
  /\ coming' = coming \ {e} /\ event' = e /\ chosen' = endpoints
  /\ stage' = IF endpoints = {} THEN "idle" ELSE "insert"
  /\ UNCHANGED <<endpoints, unsent, rows, older, queue, at, job, session, receiver, faults>>

(* The INSERTs, flushed; an endpoint deleted meanwhile fails them all.     *)
Insert ==
  /\ stage = "insert"
  /\ IF chosen \subseteq endpoints
     THEN stage' = "send" /\ unsent' = Sent /\ UNCHANGED chosen
     ELSE stage' = "idle" /\ chosen' = {} /\ UNCHANGED unsent
  /\ UNCHANGED <<coming, endpoints, event, rows, older, queue, at, job, session, receiver,
                 faults>>

(* deliver.delay, before the commit; a broker failure is swallowed.        *)
Send(d) ==
  /\ stage = "send" /\ d \in unsent
  /\ unsent' = unsent \ {d}
  /\ stage' = IF unsent = {d} THEN "commit" ELSE "send"
  /\ \/ queue' = [queue EXCEPT ![<<d, 0>>] = @ + 1] /\ UNCHANGED faults
     \/ faults < MaxFaults /\ faults' = faults + 1 /\ UNCHANGED queue
  /\ UNCHANGED <<coming, endpoints, event, chosen, rows, older, at, job, session, receiver>>

CommitRows ==
  /\ stage = "commit"
  /\ rows' = [d \in Delivery |->
                IF d \in Sent THEN [status |-> "pending", attempts |-> 0] ELSE rows[d]]
  /\ \E s \in SetToSeqs(Sent) :
       older' = [d \in Delivery |-> IF d \in Sent THEN Stored \cup Earlier(s, d) ELSE older[d]]
  /\ stage' = "idle" /\ chosen' = {}
  /\ UNCHANGED <<coming, endpoints, event, unsent, queue, at, job, session, receiver, faults>>

(* handle_event logs any exception and drops the event with its rows.      *)
DispatchFails ==
  /\ stage # "idle" /\ faults < MaxFaults
  /\ faults' = faults + 1
  /\ stage' = "idle" /\ chosen' = {} /\ unsent' = {}
  /\ UNCHANGED <<coming, endpoints, event, rows, older, queue, at, job, session, receiver>>

(* POST /webhooks/endpoints.  A deleted endpoint stands for one not created *)
(* yet; the guard keeps the new one apart from the one an event was about  *)
(* to be stored for.                                                       *)
CreateEndpoint(e) ==
  /\ e \notin endpoints
  /\ ~(stage = "insert" /\ e \in chosen)
  /\ endpoints' = endpoints \cup {e}
  /\ UNCHANGED <<dispatcher, rows, older, queue, at, job, session, receiver, faults>>

(* DELETE /webhooks/endpoints/{id}: refused by the foreign key while a row *)
(* refers to the endpoint.                                                 *)
DeleteEndpoint(e) ==
  /\ e \in endpoints
  /\ \A d \in Delivery : d[2] = e => rows[d] = Absent
  /\ ~(stage \in {"send", "commit"} /\ e \in chosen)
  /\ endpoints' = endpoints \ {e}
  /\ UNCHANGED <<dispatcher, rows, older, queue, at, job, session, receiver, faults>>

-----------------------------------------------------------------------------
(* Workers.                                                                 *)

(* Mutant of Close: the row locks outlive the session.                     *)
BugClose(w) ==
  /\ batch' = [batch EXCEPT ![w] = <<>>]
  /\ mem' = [mem EXCEPT ![w] = [d \in Delivery |-> Absent]]
  /\ changed' = [changed EXCEPT ![w] = {}]
  /\ UNCHANGED held

(* The session of w ends, by commit or by rollback.                        *)
Close(w) ==
  /\ batch' = [batch EXCEPT ![w] = <<>>]
  /\ mem' = [mem EXCEPT ![w] = [d \in Delivery |-> Absent]]
  /\ changed' = [changed EXCEPT ![w] = {}]
  /\ held' = [held EXCEPT ![w] = {}]

(* Mutant of Discard: a message whose row is not there yet is retried.      *)
BugDiscard(w, m) ==
  /\ at[w] = "free" /\ queue[m] > 0 /\ m[2] < MaxRetries
  /\ Registered /\ rows[m[1]].status = "absent"
  /\ queue' = [queue EXCEPT ![m] = @ - 1, ![<<m[1], m[2] + 1>>] = @ + 1]
  /\ UNCHANGED <<dispatcher, endpoints, rows, older, at, job, session, receiver, faults>>

(* Celery drops a message of a task it does not know, as the worker of      *)
(* celery_app.py does, which imports app.tasks.example only; deliver       *)
(* returns when the row is not there.                                      *)
Discard(w, m) ==
  /\ at[w] = "free" /\ queue[m] > 0
  /\ Registered => rows[m[1]].status = "absent"
  /\ queue' = [queue EXCEPT ![m] = @ - 1]
  /\ UNCHANGED <<dispatcher, endpoints, rows, older, at, job, session, receiver, faults>>

(* deliver: db.get(WebhookDelivery, id).                                    *)
Take(w, m) ==
  /\ at[w] = "free" /\ queue[m] > 0
  /\ Registered /\ rows[m[1]].status # "absent"
  /\ queue' = [queue EXCEPT ![m] = @ - 1]
  /\ at' = [at EXCEPT ![w] = "post"]
  /\ job' = [job EXCEPT ![w] = m]
  /\ batch' = [batch EXCEPT ![w] = <<m[1]>>]
  /\ mem' = [mem EXCEPT ![w] = rows]
  /\ UNCHANGED <<dispatcher, endpoints, rows, older, changed, held, ok, receiver, faults>>

(* Its SELECT fails: the task is retried, whether or not the row is there.  *)
LoadFails(w, m) ==
  /\ at[w] = "free" /\ queue[m] > 0 /\ Registered
  /\ faults < MaxFaults /\ faults' = faults + 1
  /\ queue' = [queue EXCEPT ![m] = @ - 1]
  /\ at' = [at EXCEPT ![w] = "retry"]
  /\ job' = [job EXCEPT ![w] = m]
  /\ UNCHANGED <<dispatcher, endpoints, rows, older, session, receiver>>

Due == {d \in Delivery : rows[d].status = "pending" /\ rows[d].attempts < MaxAttempts}

(* The SELECT of sweep_deliveries: the oldest of them, in order.            *)
Oldest ==
  {s \in SetToAllKPermutations(Due) :
     /\ Len(s) = IF Cardinality(Due) < Limit THEN Cardinality(Due) ELSE Limit
     /\ \A i \in 1..Len(s) : older[s[i]] \cap Due \subseteq {s[j] : j \in 1..i - 1}}

Sweep(w) ==
  /\ at[w] = "free" /\ Registered /\ Scheduled
  /\ Due # {}
  /\ at' = [at EXCEPT ![w] = "post"]
  /\ \E s \in Oldest : batch' = [batch EXCEPT ![w] = s]
  /\ mem' = [mem EXCEPT ![w] = rows]
  /\ UNCHANGED <<dispatcher, endpoints, rows, older, queue, job, changed, held, ok, receiver,
                 faults>>

(* Mutant of Attempted: the limit is passed before the row fails.          *)
BugAttempted(row, good) ==
  [status |-> IF good THEN "delivered"
              ELSE IF row.attempts + 1 > MaxAttempts THEN "failed" ELSE row.status,
   attempts |-> row.attempts + 1]

(* Mutant of Attempted: a failure counts twice.                            *)
BugCounted(row, good) ==
  [status |-> IF good THEN "delivered"
              ELSE IF row.attempts + 2 >= MaxAttempts THEN "failed" ELSE row.status,
   attempts |-> IF good THEN row.attempts + 1 ELSE row.attempts + 2]

(* What one attempt makes of a row.                                        *)
Attempted(row, good) ==
  [status |-> IF good THEN "delivered"
              ELSE IF row.attempts + 1 >= MaxAttempts THEN "failed" ELSE row.status,
   attempts |-> row.attempts + 1]

(* attempt_delivery up to its flush: the POST and its answer.              *)
Post(w) ==
  LET d == Head(batch[w])
  IN /\ at[w] = "post" /\ d[2] \notin Poison
     /\ \E good \in BOOLEAN :
          LET new == Attempted(mem[w][d], good)
          IN /\ ok' = [ok EXCEPT ![w] = good]
             /\ accepted' = IF good THEN accepted \cup {d} ELSE accepted
             /\ mem' = [mem EXCEPT ![w][d] = new]
             /\ changed' = IF new.status = mem[w][d].status THEN changed
                           ELSE [changed EXCEPT ![w] = @ \cup {d}]
     /\ posts' = [posts EXCEPT ![d] = IF @ < MaxAttempts THEN @ + 1 ELSE @]
     /\ at' = [at EXCEPT ![w] = "flush"]
     /\ UNCHANGED <<dispatcher, endpoints, rows, older, queue, job, batch, held, faults>>

(* db.flush(): the UPDATE, once no other transaction holds the row.        *)
Flush(w) ==
  LET d == Head(batch[w])
  IN /\ at[w] = "flush"
     /\ \A v \in Workers \ {w} : d \notin held[v]
     /\ held' = [held EXCEPT ![w] = @ \cup {d}]
     /\ batch' = [batch EXCEPT ![w] = Tail(@)]
     /\ at' = [at EXCEPT ![w] = IF Tail(batch[w]) = <<>> THEN "commit" ELSE "post"]
     /\ UNCHANGED <<dispatcher, endpoints, rows, older, queue, job, mem, changed, ok, receiver,
                    faults>>

Updated(w, d) == [status |-> IF d \in changed[w] THEN mem[w][d].status ELSE rows[d].status,
                  attempts |-> mem[w][d].attempts]

Commit(w) ==
  /\ at[w] = "commit"
  /\ rows' = [d \in Delivery |-> IF d \in held[w] THEN Updated(w, d) ELSE rows[d]]
  /\ older' = [d \in Delivery |-> IF d \in held[w]
                                  THEN (Stored \ held[w]) \cup (older[d] \cap held[w])
                                  ELSE older[d] \ held[w]]
  /\ at' = [at EXCEPT ![w] = IF job[w] = <<>> THEN "free" ELSE "settle"]
  /\ Close(w)
  /\ UNCHANGED <<dispatcher, endpoints, queue, job, ok, receiver, faults>>

(* deliver after its commit: the status is read anew.                      *)
Settle(w) ==
  /\ at[w] = "settle"
  /\ at' = [at EXCEPT ![w] = IF ok[w] \/ rows[job[w][1]].status = "failed" THEN "ack" ELSE "retry"]
  /\ UNCHANGED <<dispatcher, endpoints, rows, older, queue, job, session, receiver, faults>>

(* self.retry and autoretry_for publish the message again, with its retries *)
(* counted; MaxRetriesExceededError once they are spent.                   *)
Retry(w) ==
  LET m == job[w]
  IN /\ at[w] = "retry"
     /\ queue' = IF m[2] < MaxRetries THEN [queue EXCEPT ![<<m[1], m[2] + 1>>] = @ + 1] ELSE queue
     /\ at' = [at EXCEPT ![w] = "ack"]
     /\ UNCHANGED <<dispatcher, endpoints, rows, older, job, session, receiver, faults>>

(* The broker is out of reach: Task.retry rejects the message for good.     *)
RetryFails(w) ==
  /\ at[w] = "retry" /\ job[w][2] < MaxRetries
  /\ faults < MaxFaults /\ faults' = faults + 1
  /\ at' = [at EXCEPT ![w] = "ack"]
  /\ UNCHANGED <<dispatcher, endpoints, rows, older, queue, job, session, receiver>>

Ack(w) ==
  /\ at[w] = "ack"
  /\ at' = [at EXCEPT ![w] = "free"] /\ job' = [job EXCEPT ![w] = <<>>]
  /\ UNCHANGED <<dispatcher, endpoints, rows, older, queue, session, receiver, faults>>

(* An exception: the session rolls back and autoretry_for retries deliver. *)
(* A sweep's retry adds nothing to the next scheduled one.                 *)
Abandon(w) ==
  /\ Close(w)
  /\ at' = [at EXCEPT ![w] = IF job[w] = <<>> THEN "free" ELSE "retry"]
  /\ UNCHANGED <<dispatcher, endpoints, rows, older, queue, job, ok, receiver>>

(* httpx.InvalidURL is no TransportError: attempt_delivery does not catch it.*)
Raise(w) == at[w] = "post" /\ Head(batch[w])[2] \in Poison /\ Abandon(w) /\ UNCHANGED faults

WaitsFor(w, v) == w # v /\ at[w] = "flush" /\ Head(batch[w]) \in held[v]

(* PostgreSQL aborts one of the transactions of a deadlock.                *)
DeadlockVictim(w) ==
  /\ \E S \in SUBSET Workers :
       w \in S /\ \A s \in S : (\E t \in S : WaitsFor(s, t)) /\ (\E t \in S : WaitsFor(t, s))
  /\ Abandon(w)
  /\ UNCHANGED faults

(* A statement fails: the SELECT of the endpoint before the POST, the       *)
(* UPDATE, the COMMIT, or the SELECT of the status after it.               *)
DbFails(w) ==
  /\ at[w] \in {"post", "flush", "commit"} \/ (at[w] = "settle" /\ ~ok[w])
  /\ faults < MaxFaults
  /\ faults' = faults + 1
  /\ Abandon(w)

(* Mutant of Requeued: the message was acknowledged when it was received.  *)
BugRequeued(w) == queue

(* task_acks_late and task_reject_on_worker_lost.                          *)
Requeued(w) == IF job[w] = <<>> THEN queue ELSE [queue EXCEPT ![job[w]] = @ + 1]

(* The worker process is lost: its message goes back to the queue.         *)
Die(w) ==
  /\ at[w] # "free" /\ faults < MaxFaults
  /\ faults' = faults + 1
  /\ Close(w)
  /\ queue' = Requeued(w)
  /\ at' = [at EXCEPT ![w] = "free"] /\ job' = [job EXCEPT ![w] = <<>>]
  /\ UNCHANGED <<dispatcher, endpoints, rows, older, ok, receiver>>

Dispatch == \/ \E e \in Events : Receive(e)
            \/ Insert
            \/ \E d \in Delivery : Send(d)
            \/ CommitRows

Pull(w) == \E m \in Message : Discard(w, m) \/ Take(w, m)

Step(w) == Post(w) \/ Flush(w) \/ Commit(w) \/ Settle(w) \/ Retry(w) \/ Ack(w) \/ Raise(w) \/ DeadlockVictim(w)

Fault(w) == DbFails(w) \/ RetryFails(w) \/ Die(w) \/ \E m \in Message : LoadFails(w, m)

Next == \/ Dispatch \/ DispatchFails
        \/ \E e \in Endpoints : CreateEndpoint(e) \/ DeleteEndpoint(e)
        \/ \E w \in Workers : Pull(w) \/ Sweep(w) \/ Step(w) \/ Fault(w)

Spec == Init /\ [][Next]_vars

(* Workers finish what they start; a received event is dispatched by its   *)
(* thread.  Strong fairness where the turn is kept in a queue: the broker's *)
(* list hands out messages in order, and PostgreSQL gives a released row   *)
(* to the transaction that waits for it.  Nothing makes a sweep run.       *)
Fairness ==
  /\ WF_vars(Dispatch)
  /\ \A w \in Workers : WF_vars(Step(w)) /\ SF_vars(Flush(w))
  /\ SF_vars(\E w \in Workers : Pull(w))

FairSpec == Spec /\ Fairness

-----------------------------------------------------------------------------
(* Properties.                                                              *)

TypeOK ==
  /\ coming \subseteq Events /\ endpoints \subseteq Endpoints
  /\ stage \in Stage /\ event \in Events /\ chosen \subseteq Endpoints /\ unsent \subseteq Delivery
  /\ rows \in [Delivery -> Row] /\ older \in [Delivery -> SUBSET Delivery]
  /\ queue \in [Message -> Nat]
  /\ at \in [Workers -> {"free", "post", "flush", "commit", "settle", "retry", "ack"}]
  /\ job \in [Workers -> Message \cup {<<>>}]
  /\ batch \in [Workers -> Seq(Delivery)]
  /\ mem \in [Workers -> [Delivery -> Row]]
  /\ changed \in [Workers -> SUBSET Delivery] /\ held \in [Workers -> SUBSET Delivery]
  /\ ok \in [Workers -> BOOLEAN]
  /\ posts \in [Delivery -> 0..MaxAttempts] /\ accepted \subseteq Delivery
  /\ faults \in 0..MaxFaults
  /\ \A w \in Workers : /\ at[w] \in {"post", "flush"} => batch[w] # <<>>
                        /\ at[w] \in {"settle", "retry", "ack"} => job[w] # <<>>
                        /\ at[w] \in {"free", "settle", "retry", "ack"} => held[w] = {}

(* A row still pending is within reach of the sweep, however many tasks    *)
(* overwrote each other's attempts (delivery.py:101, "attempts <           *)
(* max_attempts").                                                         *)
PendingInReach ==
  \A d \in Delivery : rows[d].status = "pending" => rows[d].attempts < MaxAttempts

(* A row is given up only after max_attempts POSTs, and is called delivered *)
(* only when the endpoint took one (delivery.py:38-42).                    *)
Earned ==
  \A d \in Delivery : /\ rows[d].status = "failed" => posts[d] = MaxAttempts
                      /\ rows[d].status = "delivered" => d \in accepted

(* Every task that a worker has begun ends, whatever it waits for: sweeps   *)
(* and deliver tasks keep the lock of each row they updated until they     *)
(* commit, in orders that differ (delivery.py:85, :107).                   *)
EveryTaskEnds == \A w \in Workers : at[w] # "free" ~> at[w] = "free"

Tracked(d) ==
  \/ \E m \in Message : m[1] = d /\ queue[m] > 0
  \/ \E w \in Workers : at[w] \in {"post", "retry"} /\ job[w] # <<>> /\ job[w][1] = d

(* Its attempt raised, and the retry was one too many or not published.     *)
GivenUp(d) ==
  \E w \in Workers : /\ at[w] = "retry" /\ at'[w] = "ack" /\ job[w][1] = d
                     /\ job[w][2] = MaxRetries \/ faults' > faults

(* Before its row was POSTed, a message that the workers know leaves the    *)
(* queue and the workers only because an attempt raised and could not be   *)
(* retried: never by the death of a worker, wherever it strikes, nor by    *)
(* what happens to other rows (scheduler_config.py:121-122, task_acks_late *)
(* and task_reject_on_worker_lost).                                        *)
MessageKept ==
  [][Registered =>
       \A d \in {x \in Delivery : x[2] \notin Poison} :
         rows[d].status = "pending" /\ posts[d] = 0 /\ Tracked(d) =>
           posts'[d] > 0 \/ Tracked(d)' \/ GivenUp(d)]_vars

(* Only failures spend the retries of a message whose row was not POSTed    *)
(* yet: its k-th retry took k of them, and it is given up for max_retries  *)
(* only after one more (scheduler_config.py:134).                          *)
RetriesPaid ==
  \A m \in {x \in Message : x[1][2] \notin Poison /\ posts[x[1]] = 0} :
    /\ queue[m] > 0 => m[2] <= faults
    /\ \A w \in {v \in Workers : job[v] = m} : /\ at[w] = "post" => m[2] <= faults
                                             /\ at[w] = "retry" => m[2] < faults

-----------------------------------------------------------------------------
(* What the repository says and the code does not keep.                     *)

(* Every delivery is POSTed at least once: consumer.py:3-6 ("webhooks      *)
(* actually fire to the CRM in production").                               *)
WebhooksFire == \A d \in Delivery : rows[d].status = "pending" ~> posts[d] > 0
=============================================================================
