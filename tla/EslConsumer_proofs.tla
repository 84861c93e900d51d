------------------------- MODULE EslConsumer_proofs -------------------------
(***************************************************************************)
(* Proofs about EslConsumer, for any number of workers, events and faults: *)
(* one worker streams at a time and no event is dispatched twice.          *)
(*                                                                         *)
(* The argument: a thread past the lock owns it (Guarded), so only one has *)
(* a connection and an event that happens reaches one inbox; from then on  *)
(* it is in that inbox once, until it is dispatched or lost (OncePending). *)
(***************************************************************************)
EXTENDS EslConsumer, TLAPS

Guarded == \A w \in Workers : at[w] \in {"connecting", "serving"} => owner = w

(* An event that has still to happen is nowhere, one in an inbox is there   *)
(* once and was not dispatched.                                            *)
OncePending ==
  /\ \A e \in Events : fed[e] <= 1
  /\ \A e \in coming : fed[e] = 0
  /\ \A w \in Workers : \A i \in 1..Len(inbox[w]) :
       /\ inbox[w][i] \notin coming /\ fed[inbox[w][i]] = 0
       /\ \A j \in 1..Len(inbox[w]) : inbox[w][i] = inbox[w][j] => i = j

Inv == TypeOK /\ Guarded /\ OncePending

USE EslAssumption

LEMMA InitInv == Init => Inv
  BY DEF Init, Inv, TypeOK, Guarded, OncePending, Serving, Place, Link

(* A worker's inbox and its thread while no event is dispatched or happens. *)
LEMMA TypeStep == TypeOK /\ [Next]_vars => TypeOK'
<1> SUFFICES ASSUME TypeOK, [Next]_vars PROVE TypeOK'
  OBVIOUS
<1> USE DEF TypeOK, Serving, Place, Link
<1>1. ASSUME NEW w \in Workers, Start(w) PROVE TypeOK'
  BY <1>1 DEF Start, Goto
<1>2. ASSUME NEW w \in Workers, TryLock(w) PROVE TypeOK'
  BY <1>2 DEF TryLock, Grabbed, Goto
<1>3. ASSUME NEW w \in Workers, Connect(w) PROVE TypeOK'
  BY <1>3 DEF Connect, Goto
<1>4. ASSUME NEW w \in Workers, ConnectFails(w) PROVE TypeOK'
  BY <1>4 DEF ConnectFails, Release, Goto, Disturb
<1>5. ASSUME NEW w \in Workers, Handle(w) PROVE TypeOK'
  <2>1. Head(inbox[w]) \in Events /\ Tail(inbox[w]) \in Seq(Events)
    BY <1>5 DEF Handle
  <2>2. fed' \in [Events -> Nat]
    BY <1>5, <2>1 DEF Handle
  <2> QED
    BY <1>5, <2>1, <2>2 DEF Handle
<1>6. ASSUME NEW w \in Workers, ServeEnds(w) PROVE TypeOK'
  BY <1>6 DEF ServeEnds, Release, Goto
<1>7. ASSUME NEW w \in Workers, WakeUp(w) PROVE TypeOK'
  BY <1>7 DEF WakeUp, Goto
<1>8. ASSUME NEW w \in Workers, Exit(w) PROVE TypeOK'
  BY <1>8 DEF Exit, Goto
<1>9. ASSUME NEW w \in Workers, Stop(w) PROVE TypeOK'
  BY <1>9 DEF Stop, Disturb
<1>10. ASSUME NEW w \in Workers, Die(w) PROVE TypeOK'
  BY <1>10 DEF Die, Release, Goto, Disturb
<1>11. ASSUME NEW w \in Workers, Break(w) PROVE TypeOK'
  BY <1>11 DEF Break, Disturb
<1>12. ASSUME GoDown PROVE TypeOK'
  <2>1. /\ up' = FALSE /\ faults' \in 0..MaxFaults
        /\ link' = [w \in Workers |-> IF link[w] = "open" THEN "closed" ELSE link[w]]
        /\ UNCHANGED <<coming, at, stopping, owner, inbox, fed>>
    BY <1>12 DEF GoDown, Disturb
  <2>2. link' \in [Workers -> Link]
    BY <2>1
  <2>3. \A w \in Workers : link'[w] # "none" <=> link[w] # "none"
    BY <2>1
  <2> QED
    BY <2>1, <2>2, <2>3
<1>13. ASSUME GoUp PROVE TypeOK'
  BY <1>13 DEF GoUp
<1>14. ASSUME NEW e \in Events, Emit(e) PROVE TypeOK'
  BY <1>14 DEF Emit
<1>15. CASE UNCHANGED vars
  BY <1>15 DEF vars
<1> QED
  BY <1>1, <1>2, <1>3, <1>4, <1>5, <1>6, <1>7, <1>8, <1>9, <1>10, <1>11, <1>12, <1>13, <1>14,
     <1>15 DEF Next, Run

(* The lock is taken only when it is free and kept until run_once ends.     *)
LEMMA GuardedStep == Inv /\ [Next]_vars => Guarded'
<1> SUFFICES ASSUME Inv, [Next]_vars PROVE Guarded'
  OBVIOUS
<1> USE DEF Inv, TypeOK, Guarded, Goto
<1>1. ASSUME NEW w \in Workers, TryLock(w) PROVE Guarded'
  BY <1>1 DEF TryLock, Grabbed
<1>2. ASSUME NEW w \in Workers, Connect(w) PROVE Guarded'
  BY <1>2 DEF Connect
<1>3. ASSUME NEW w \in Workers,
             (ConnectFails(w) \/ ServeEnds(w) \/ Die(w)) PROVE Guarded'
  BY <1>3 DEF ConnectFails, ServeEnds, Die, Release
<1>4. ASSUME NEW w \in Workers, (Start(w) \/ WakeUp(w) \/ Exit(w)) PROVE Guarded'
  BY <1>4 DEF Start, WakeUp, Exit
<1>5. ASSUME NEW w \in Workers, (Handle(w) \/ Stop(w) \/ Break(w)) PROVE Guarded'
  BY <1>5 DEF Handle, Stop, Break
<1>6. ASSUME GoDown \/ GoUp \/ \E e \in Events : Emit(e) PROVE Guarded'
  BY <1>6 DEF GoDown, GoUp, Emit
<1>7. CASE UNCHANGED vars
  BY <1>7 DEF vars
<1> QED
  BY <1>1, <1>2, <1>3, <1>4, <1>5, <1>6, <1>7 DEF Next, Run

(* Emptying inboxes loses no information OncePending is about.              *)
LEMMA InboxEmptied ==
  ASSUME Inv, NEW w \in Workers, inbox' = [inbox EXCEPT ![w] = <<>>],
         UNCHANGED <<coming, fed>>
  PROVE  OncePending'
<1> USE DEF Inv, TypeOK
<1>1. \A v \in Workers : inbox'[v] = IF v = w THEN <<>> ELSE inbox[v]
  OBVIOUS
<1> QED
  BY <1>1 DEF OncePending

(* A dispatched event leaves the only inbox it was in.                      *)
LEMMA HandleOnce ==
  ASSUME Inv, NEW w \in Workers, Handle(w)
  PROVE  OncePending'
<1> DEFINE e == Head(inbox[w])
<1>1. /\ inbox[w] \in Seq(Events) /\ inbox[w] # <<>> /\ Len(inbox[w]) \in Nat \ {0}
      /\ e = inbox[w][1] /\ e \in Events /\ 1 \in 1..Len(inbox[w])
  BY DEF Inv, TypeOK, Handle
<1>2. fed[e] = 0 /\ e \notin coming
  BY <1>1 DEF Inv, OncePending
<1>3. \A v \in Workers \ {w} : inbox[v] = <<>>
  BY DEF Inv, TypeOK, Guarded, Serving, Handle
<1>4. /\ inbox' = [inbox EXCEPT ![w] = Tail(inbox[w])]
      /\ fed' = [fed EXCEPT ![e] = fed[e] + 1]
      /\ coming' = coming
  BY DEF Handle
<1>5. \A v \in Workers : inbox'[v] = IF v = w THEN Tail(inbox[w]) ELSE <<>>
  BY <1>3, <1>4 DEF Inv, TypeOK
<1>6. \A d \in Events : fed'[d] = IF d = e THEN 1 ELSE fed[d]
  BY <1>1, <1>2, <1>4 DEF Inv, TypeOK
<1>7. /\ Len(Tail(inbox[w])) = Len(inbox[w]) - 1
      /\ \A i \in 1..Len(Tail(inbox[w])) : /\ Tail(inbox[w])[i] = inbox[w][i + 1]
                                           /\ i + 1 \in 1..Len(inbox[w])
  BY <1>1
<1>8. \A i \in 1..Len(Tail(inbox[w])) : Tail(inbox[w])[i] # e /\ Tail(inbox[w])[i] \in Events
  <2> SUFFICES ASSUME NEW i \in 1..Len(Tail(inbox[w]))
               PROVE  inbox[w][i + 1] # e /\ inbox[w][i + 1] \in Events
    BY <1>7
  <2>1. i + 1 \in 1..Len(inbox[w]) /\ i + 1 # 1
    BY <1>7, <1>1
  <2> QED
    BY <2>1, <1>1 DEF Inv, OncePending
<1>9. \A d \in Events : fed'[d] <= 1
  BY <1>6 DEF Inv, OncePending
<1>10. \A d \in coming' : fed'[d] = 0
  BY <1>2, <1>4, <1>6 DEF Inv, OncePending, TypeOK
<1>11. ASSUME NEW v \in Workers, NEW i \in 1..Len(inbox'[v])
       PROVE  /\ inbox'[v][i] \notin coming' /\ fed'[inbox'[v][i]] = 0
              /\ \A j \in 1..Len(inbox'[v]) : inbox'[v][i] = inbox'[v][j] => i = j
  <2>1. v = w /\ inbox'[v] = Tail(inbox[w])
    BY <1>5, <1>11
  <2>2. inbox'[v][i] = inbox[w][i + 1] /\ i + 1 \in 1..Len(inbox[w])
    BY <2>1, <1>7
  <2>3. inbox'[v][i] \notin coming' /\ fed'[inbox'[v][i]] = 0
    BY <2>1, <2>2, <1>4, <1>6, <1>8 DEF Inv, OncePending
  <2>4. ASSUME NEW j \in 1..Len(inbox'[v]), inbox'[v][i] = inbox'[v][j] PROVE i = j
    <3>1. inbox'[v][j] = inbox[w][j + 1] /\ j + 1 \in 1..Len(inbox[w])
      BY <2>1, <1>7
    <3>2. i + 1 = j + 1
      BY <2>2, <2>4, <3>1 DEF Inv, OncePending
    <3> QED
      BY <3>2, <2>1, <1>7
  <2> QED
    BY <2>3, <2>4
<1> QED
  BY <1>9, <1>10, <1>11 DEF OncePending

(* An event reaches at most the inbox of the one worker that serves.        *)
LEMMA EmitOnce ==
  ASSUME Inv, NEW e \in Events, Emit(e)
  PROVE  OncePending'
<1>1. /\ coming' = coming \ {e} /\ fed' = fed /\ e \in coming
      /\ \A v \in Workers : inbox'[v] = IF link[v] = "open" THEN Append(inbox[v], e) ELSE inbox[v]
  BY DEF Emit
<1>2. fed[e] = 0
  BY <1>1 DEF Inv, OncePending
<1>3. \A d \in Events : fed'[d] <= 1
  BY <1>1 DEF Inv, OncePending
<1>4. \A d \in coming' : fed'[d] = 0
  BY <1>1 DEF Inv, OncePending
<1>5. ASSUME NEW v \in Workers, NEW i \in 1..Len(inbox'[v])
      PROVE  /\ inbox'[v][i] \notin coming' /\ fed'[inbox'[v][i]] = 0
             /\ \A j \in 1..Len(inbox'[v]) : inbox'[v][i] = inbox'[v][j] => i = j
  <2>1. inbox[v] \in Seq(Events) /\ Len(inbox[v]) \in Nat
    BY DEF Inv, TypeOK
  <2>2. CASE link[v] # "open"
    BY <1>1, <1>5, <2>2 DEF Inv, OncePending
  <2>3. CASE link[v] = "open"
    <3>1. /\ inbox'[v] = Append(inbox[v], e) /\ Len(inbox'[v]) = Len(inbox[v]) + 1
          /\ inbox'[v][Len(inbox[v]) + 1] = e
          /\ \A k \in 1..Len(inbox[v]) : inbox'[v][k] = inbox[v][k]
      <4>1. inbox'[v] = Append(inbox[v], e)
        BY <1>1, <2>3
      <4> QED
        BY <4>1, <2>1
    <3>2. \A k \in 1..Len(inbox[v]) : /\ inbox[v][k] # e /\ inbox[v][k] \notin coming'
                                      /\ fed'[inbox[v][k]] = 0
      BY <1>1 DEF Inv, OncePending
    <3>3. e \notin coming' /\ fed'[e] = 0
      BY <1>1, <1>2
    <3>4. \A k \in 1..Len(inbox'[v]) : k \in 1..Len(inbox[v]) \/ k = Len(inbox[v]) + 1
      BY <3>1, <2>1
    <3>5. ASSUME NEW j \in 1..Len(inbox'[v]), inbox'[v][i] = inbox'[v][j] PROVE i = j
      <4>1. CASE i \in 1..Len(inbox[v]) /\ j \in 1..Len(inbox[v])
        BY <4>1, <3>1, <3>5 DEF Inv, OncePending
      <4>2. CASE i = Len(inbox[v]) + 1 \/ j = Len(inbox[v]) + 1
        BY <4>2, <3>1, <3>2, <3>4, <3>5, <1>5
      <4> QED
        BY <4>1, <4>2, <3>4, <1>5
    <3> QED
      BY <3>1, <3>2, <3>3, <3>4, <3>5, <1>5
  <2> QED
    BY <2>2, <2>3
<1> QED
  BY <1>3, <1>4, <1>5 DEF OncePending

LEMMA OnceStep == Inv /\ [Next]_vars => OncePending'
<1> SUFFICES ASSUME Inv, [Next]_vars PROVE OncePending'
  OBVIOUS
<1>1. ASSUME NEW w \in Workers, (ConnectFails(w) \/ ServeEnds(w) \/ Die(w)) PROVE OncePending'
  BY <1>1, InboxEmptied DEF ConnectFails, ServeEnds, Die, Release
<1>2. ASSUME NEW w \in Workers, Handle(w) PROVE OncePending'
  BY <1>2, HandleOnce
<1>3. ASSUME NEW e \in Events, Emit(e) PROVE OncePending'
  BY <1>3, EmitOnce
<1>4. ASSUME UNCHANGED <<coming, inbox, fed>> PROVE OncePending'
  BY <1>4 DEF Inv, OncePending
<1>5. ASSUME NEW w \in Workers, (\/ Start(w) \/ TryLock(w) \/ Connect(w) \/ WakeUp(w)
                                 \/ Exit(w) \/ Stop(w) \/ Break(w))
      PROVE  OncePending'
  BY <1>4, <1>5 DEF Start, TryLock, Connect, WakeUp, Exit, Stop, Break
<1>6. ASSUME GoDown \/ GoUp \/ UNCHANGED vars PROVE OncePending'
  BY <1>4, <1>6 DEF GoDown, GoUp, vars
<1> QED
  BY <1>1, <1>2, <1>3, <1>5, <1>6 DEF Next, Run

LEMMA InvHolds == Spec => []Inv
<1>1. Inv /\ [Next]_vars => Inv'
  BY TypeStep, GuardedStep, OnceStep DEF Inv
<1> QED
  BY InitInv, <1>1, PTL DEF Spec

(* Every variable keeps its type, and only a serving thread is connected.   *)
THEOREM TypeCorrect == Spec => []TypeOK
<1>1. Inv => TypeOK
  BY DEF Inv
<1> QED
  BY InvHolds, <1>1, PTL

(* Exactly one worker streams ESL events at a time, for any number of       *)
(* workers (consumer.py:27-28).                                             *)
THEOREM Singleton == Spec => []OneStreams
<1>1. Inv => OneStreams
  BY DEF Inv, Guarded, OneStreams, Serving
<1> QED
  BY InvHolds, <1>1, PTL

(* No call event is dispatched twice, whatever stops, dies or reconnects.   *)
THEOREM DispatchedOnce == Spec => []FedOnce
<1>1. Inv => FedOnce
  BY DEF Inv, OncePending, FedOnce
<1> QED
  BY InvHolds, <1>1, PTL
=============================================================================
