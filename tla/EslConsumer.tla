---------------------------- MODULE EslConsumer ----------------------------
(***************************************************************************)
(* The ESL consumers of the gunicorn workers: every worker runs one thread *)
(* that tries to become the single consumer of FreeSWITCH call events.     *)
(*                                                                         *)
(*   app/services/freeswitch/consumer.py   EslConsumer                     *)
(*   app/services/freeswitch/esl.py        EslBridge, normalize_event      *)
(*   app/main.py                           lifespan: start and stop        *)
(*                                                                         *)
(* FreeSWITCH sends an event to the connections that are open when it      *)
(* happens and keeps nothing for later ones.  The lock is an flock on an   *)
(* open file: closing the file or the end of the process releases it.      *)
(* greenswitch (external) runs the handler while the thread serves; what   *)
(* it has received and not handed over is gone when the loop ends.         *)
(*                                                                         *)
(* Left out: event contents, connections that stall without closing, the   *)
(* lengths of the backoff and of the 2 s join.                             *)
(***************************************************************************)
EXTENDS Integers, Sequences

CONSTANTS
  Workers,   \* gunicorn worker processes
  Events,    \* relevant FreeSWITCH events
  Nobody,    \* the lock is free
  MaxFaults  \* bound: worker stops and deaths, lost connections, outages

ASSUME EslAssumption == Nobody \notin Workers /\ MaxFaults \in Nat

VARIABLES
  up,       \* FreeSWITCH accepts ESL connections
  coming,   \* events that have still to happen
  at,       \* where the consumer thread of each worker is
  stopping, \* workers whose lifespan called stop()
  owner,    \* holder of the flock on the lock file
  link,     \* ESL connection of each worker's current bridge
  inbox,    \* events each connection has received and not handed over
  fed,      \* how often handle_event was called with an event
  faults

vars == <<up, coming, at, stopping, owner, link, inbox, fed, faults>>

Place == {"down", "loop", "connecting", "serving", "backoff"}
Link == {"none", "open", "closed"}

Init ==
  /\ up \in BOOLEAN /\ coming = Events
  /\ at = [w \in Workers |-> "down"] /\ stopping = {}
  /\ owner = Nobody
  /\ link = [w \in Workers |-> "none"] /\ inbox = [w \in Workers |-> <<>>]
  /\ fed = [e \in Events |-> 0] /\ faults = 0

Goto(w, place) == at' = [at EXCEPT ![w] = place]
Disturb == faults < MaxFaults /\ faults' = faults + 1

-----------------------------------------------------------------------------
(* The consumer thread.                                                     *)

(* lifespan startup: start().                                               *)
Start(w) ==
  /\ at[w] = "down"
  /\ Goto(w, "loop")
  /\ UNCHANGED <<up, coming, stopping, owner, link, inbox, fed, faults>>

(* Mutant of Grabbed: LOCK_NB fails, and the worker serves all the same.   *)
BugGrabbed(w) == TRUE

(* flock(LOCK_EX | LOCK_NB).                                                *)
Grabbed(w) == owner = Nobody

TryLock(w) ==
  /\ at[w] = "loop" /\ w \notin stopping
  /\ \/ Grabbed(w) /\ owner' = w /\ Goto(w, "connecting")
     \/ ~Grabbed(w) /\ Goto(w, "backoff") /\ UNCHANGED owner
  /\ UNCHANGED <<up, coming, stopping, link, inbox, fed, faults>>

(* Mutant of Release: an exception leaves run_once without the finally.     *)
BugRelease(w) ==
  /\ UNCHANGED owner
  /\ link' = [link EXCEPT ![w] = "none"] /\ inbox' = [inbox EXCEPT ![w] = <<>>]

(* Mutant of Release: the connection outlives run_once.                     *)
BugStale(w) ==
  /\ owner' = IF owner = w THEN Nobody ELSE owner
  /\ UNCHANGED <<link, inbox>>

(* run_once ends: the lock is released and the bridge forgotten.            *)
Release(w) ==
  /\ owner' = IF owner = w THEN Nobody ELSE owner
  /\ link' = [link EXCEPT ![w] = "none"] /\ inbox' = [inbox EXCEPT ![w] = <<>>]

Connect(w) ==
  /\ at[w] = "connecting" /\ up
  /\ link' = [link EXCEPT ![w] = "open"]
  /\ Goto(w, "serving")
  /\ UNCHANGED <<up, coming, stopping, owner, inbox, fed, faults>>

(* FreeSWITCH is not there, or refuses.                                     *)
ConnectFails(w) ==
  /\ at[w] = "connecting"
  /\ (~up /\ UNCHANGED faults) \/ Disturb
  /\ Release(w) /\ Goto(w, "backoff")
  /\ UNCHANGED <<up, coming, stopping, fed>>

(* EslBridge._dispatch on the next event, and handle_event.                 *)
Handle(w) ==
  /\ at[w] = "serving" /\ inbox[w] # <<>>
  /\ fed' = [fed EXCEPT ![Head(inbox[w])] = @ + 1]
  /\ inbox' = [inbox EXCEPT ![w] = Tail(@)]
  /\ UNCHANGED <<up, coming, at, stopping, owner, link, faults>>

(* The loop sees that the connection is closed, or stop().                  *)
ServeEnds(w) ==
  /\ at[w] = "serving"
  /\ w \in stopping \/ link[w] = "closed"
  /\ Release(w) /\ Goto(w, IF w \in stopping THEN "loop" ELSE "backoff")
  /\ UNCHANGED <<up, coming, stopping, fed, faults>>

(* The backoff is over, or stop() cut it short.                             *)
WakeUp(w) ==
  /\ at[w] = "backoff"
  /\ Goto(w, "loop")
  /\ UNCHANGED <<up, coming, stopping, owner, link, inbox, fed, faults>>

(* The thread leaves _run and the process ends.                             *)
Exit(w) ==
  /\ at[w] = "loop" /\ w \in stopping
  /\ Goto(w, "down") /\ stopping' = stopping \ {w}
  /\ UNCHANGED <<up, coming, owner, link, inbox, fed, faults>>

-----------------------------------------------------------------------------
(* What happens to it.                                                      *)

(* lifespan shutdown: deploys, and gunicorn's max_requests.                 *)
Stop(w) ==
  /\ at[w] # "down" /\ w \notin stopping
  /\ Disturb
  /\ stopping' = stopping \cup {w}
  /\ UNCHANGED <<up, coming, at, owner, link, inbox, fed>>

(* The process dies, or stop()'s join times out and the process ends.       *)
Die(w) ==
  /\ at[w] # "down"
  /\ Disturb
  /\ Release(w) /\ Goto(w, "down") /\ stopping' = stopping \ {w}
  /\ UNCHANGED <<up, coming, fed>>

(* The connection breaks.                                                   *)
Break(w) ==
  /\ link[w] = "open"
  /\ Disturb
  /\ link' = [link EXCEPT ![w] = "closed"]
  /\ UNCHANGED <<up, coming, at, stopping, owner, inbox, fed>>

(* FreeSWITCH stops and closes its connections.                             *)
GoDown ==
  /\ up /\ Disturb
  /\ up' = FALSE
  /\ link' = [w \in Workers |-> IF link[w] = "open" THEN "closed" ELSE link[w]]
  /\ UNCHANGED <<coming, at, stopping, owner, inbox, fed>>

GoUp ==
  /\ ~up /\ up' = TRUE
  /\ UNCHANGED <<coming, at, stopping, owner, link, inbox, fed, faults>>

(* A relevant call event: every open connection receives it.               *)
Emit(e) ==
  /\ up /\ e \in coming
  /\ coming' = coming \ {e}
  /\ inbox' = [w \in Workers |-> IF link[w] = "open" THEN Append(inbox[w], e) ELSE inbox[w]]
  /\ UNCHANGED <<up, at, stopping, owner, link, fed, faults>>

Run(w) == TryLock(w) \/ Connect(w) \/ ServeEnds(w) \/ WakeUp(w) \/ Exit(w)
          \/ (~up /\ ConnectFails(w))

Next == \/ \E w \in Workers : \/ Start(w) \/ Run(w) \/ ConnectFails(w) \/ Handle(w)
                              \/ Stop(w) \/ Die(w) \/ Break(w)
        \/ GoDown \/ GoUp
        \/ \E e \in Events : Emit(e)

Spec == Init /\ [][Next]_vars

(* The thread goes on and greenswitch hands events over; the workers are   *)
(* started by gunicorn, and nothing else is promised.                      *)
Fairness == \A w \in Workers : WF_vars(Run(w)) /\ WF_vars(Handle(w)) /\ WF_vars(Start(w))

FairSpec == Spec /\ Fairness

-----------------------------------------------------------------------------
(* Properties.                                                              *)

Serving(w) == at[w] = "serving"

(* Every variable holds values of its type; only a serving thread has a     *)
(* connection, and with it events.                                          *)
TypeOK ==
  /\ up \in BOOLEAN /\ coming \subseteq Events /\ stopping \subseteq Workers
  /\ at \in [Workers -> Place] /\ owner \in Workers \cup {Nobody}
  /\ link \in [Workers -> Link] /\ inbox \in [Workers -> Seq(Events)]
  /\ fed \in [Events -> Nat] /\ faults \in 0..MaxFaults
  /\ \A w \in Workers : /\ Serving(w) <=> link[w] # "none"
                        /\ inbox[w] # <<>> => Serving(w)

(* At most one worker streams ESL events, whatever stops, dies or reconnects *)
(* (consumer.py:27-28, "exactly ONE streams ESL events").                   *)
OneStreams == \A v, w \in Workers : Serving(v) /\ Serving(w) => v = w

(* No event is dispatched twice: consumer.py:28-29 ("otherwise every worker *)
(* dispatches the same event -> duplicate webhooks").                       *)
FedOnce == \A e \in Events : fed[e] <= 1

(* While FreeSWITCH is up and a worker runs, some worker comes to stream:   *)
(* consumer.py:29-30 ("a waiting worker takes over").                       *)
TakesOver ==
  \A w \in Workers :
    up /\ at[w] # "down" ~> ~up \/ at[w] = "down" \/ \E v \in Workers : Serving(v)

=============================================================================
