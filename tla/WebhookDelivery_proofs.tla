----------------------- MODULE WebhookDelivery_proofs -----------------------
(***************************************************************************)
(* Proofs about WebhookDelivery for any number of events, endpoints,       *)
(* workers, attempts, retries and faults.                                  *)
(*                                                                         *)
(* The argument: no row is attempted more often than it was posted and     *)
(* none is settled without cause, in the table or in a session (Counted);  *)
(* an event is stored once (Fresh), so a row that was settled stays so     *)
(* (RowsKept); and a session that did not settle a row wrote attempts that *)
(* are below the limit, or the row was settled before it was loaded        *)
(* (Loaded).                                                               *)
(***************************************************************************)
EXTENDS WebhookDelivery, FiniteSetTheorems, SequenceTheorems, TLAPS

USE WebhookAssumption

LEMMA DeliveryFinite == IsFiniteSet(Delivery)
  BY FS_Product DEF Delivery

(* A permutation of some deliveries is a sequence of them.                  *)
LEMMA PermutationType ==
  ASSUME NEW D \in SUBSET Delivery, NEW s \in SetToSeqs(D)
  PROVE  s \in Seq(D) /\ s \in Seq(Delivery) /\ Len(s) = Cardinality(D)
<1>1. IsFiniteSet(D)
  BY DeliveryFinite, FS_Subset
<1>2. Cardinality(D) \in Nat
  BY <1>1, FS_CardinalityType
<1>3. s \in [1..Cardinality(D) -> D]
  BY DEF SetToSeqs
<1> QED
  BY <1>2, <1>3

(* A sweep that finds rows gets some of them.                               *)
LEMMA OldestType ==
  ASSUME Due # {}, NEW s \in Oldest
  PROVE  s \in Seq(Delivery) /\ s # <<>> /\ \A i \in 1..Len(s) : s[i] \in Due
<1>1. PICK D \in SUBSET Due : s \in SetToSeqs(D)
  BY DEF Oldest, SetToAllKPermutations
<1>2. Due \in SUBSET Delivery /\ D \in SUBSET Delivery
  BY DEF Due
<1>3. s \in Seq(D) /\ s \in Seq(Delivery)
  BY <1>1, <1>2, PermutationType
<1>4. Cardinality(Due) \in Nat \ {0}
  BY <1>2, DeliveryFinite, FS_Subset, FS_CardinalityType, FS_EmptySet
<1>5. Len(s) > 0
  BY <1>4 DEF Oldest
<1> QED
  BY <1>1, <1>3, <1>5

-----------------------------------------------------------------------------
(* Types.                                                                   *)

LEMMA NextMessage ==
  ASSUME NEW m \in Message, m[2] < MaxRetries
  PROVE  <<m[1], m[2] + 1>> \in Message
  BY DEF Message

LEMMA MessageNotEmpty == \A m \in Message : m # <<>>
  BY DEF Message

LEMMA InitType == Init => TypeOK
  BY DEF Init, TypeOK, Absent, Row, Status, Stage

LEMMA AttemptedType ==
  ASSUME NEW row \in Row, NEW good \in BOOLEAN
  PROVE  Attempted(row, good) \in Row
  BY DEF Attempted, Row, Status

LEMMA CloseType ==
  ASSUME TypeOK, NEW w \in Workers, Close(w)
  PROVE  /\ batch' \in [Workers -> Seq(Delivery)]
         /\ mem' \in [Workers -> [Delivery -> Row]]
         /\ changed' \in [Workers -> SUBSET Delivery]
         /\ held' \in [Workers -> SUBSET Delivery]
         /\ batch' = [batch EXCEPT ![w] = <<>>]
         /\ held' = [held EXCEPT ![w] = {}]
<1>1. [d \in Delivery |-> Absent] \in [Delivery -> Row]
  BY DEF Absent, Row, Status
<1> QED
  BY <1>1 DEF Close, TypeOK

LEMMA AbandonType ==
  ASSUME TypeOK, NEW w \in Workers, Abandon(w), faults' \in 0..MaxFaults
  PROVE  TypeOK'
  BY CloseType DEF Abandon, TypeOK, receiver, dispatcher

LEMMA CommitRowsType == ASSUME TypeOK, CommitRows PROVE TypeOK'
<1>1. rows' \in [Delivery -> Row]
  BY DEF CommitRows, TypeOK, Row, Status
<1>2. PICK s \in SetToSeqs(Sent) :
        older' = [d \in Delivery |-> IF d \in Sent THEN Stored \cup Earlier(s, d) ELSE older[d]]
  BY DEF CommitRows
<1>3. Sent \subseteq Delivery
  BY DEF TypeOK, Sent, Delivery
<1>4. \A d : Earlier(s, d) \subseteq Delivery
  BY <1>3, PermutationType DEF Earlier
<1>5. older' \in [Delivery -> SUBSET Delivery]
  BY <1>2, <1>4 DEF Stored, TypeOK
<1> QED
  BY <1>1, <1>5 DEF CommitRows, TypeOK, Stage, session, receiver

LEMMA PostType == ASSUME TypeOK, NEW w \in Workers, Post(w) PROVE TypeOK'
<1> DEFINE d == Head(batch[w])
<1>1. d \in Delivery
  BY DEF Post, TypeOK
<1>2. PICK good \in BOOLEAN :
        LET new == Attempted(mem[w][d], good)
        IN  /\ ok' = [ok EXCEPT ![w] = good]
            /\ accepted' = IF good THEN accepted \cup {d} ELSE accepted
            /\ mem' = [mem EXCEPT ![w][d] = new]
            /\ changed' = IF new.status = mem[w][d].status THEN changed
                          ELSE [changed EXCEPT ![w] = @ \cup {d}]
  BY DEF Post
<1>3. mem' \in [Workers -> [Delivery -> Row]]
  BY <1>1, <1>2, AttemptedType DEF TypeOK
<1>4. changed' \in [Workers -> SUBSET Delivery]
  BY <1>1, <1>2 DEF TypeOK
<1>5. posts' \in [Delivery -> 0..MaxAttempts]
  BY <1>1 DEF Post, TypeOK
<1>6. ok' \in [Workers -> BOOLEAN] /\ accepted' \subseteq Delivery
  BY <1>1, <1>2 DEF TypeOK
<1> QED
  BY <1>3, <1>4, <1>5, <1>6 DEF Post, TypeOK, dispatcher

LEMMA FlushType == ASSUME TypeOK, NEW w \in Workers, Flush(w) PROVE TypeOK'
<1>1. batch[w] \in Seq(Delivery) /\ batch[w] # <<>>
  BY DEF Flush, TypeOK
<1>2. Head(batch[w]) \in Delivery /\ Tail(batch[w]) \in Seq(Delivery)
  BY <1>1
<1>3. batch' \in [Workers -> Seq(Delivery)] /\ batch' = [batch EXCEPT ![w] = Tail(batch[w])]
  BY <1>2 DEF Flush, TypeOK
<1>4. held' \in [Workers -> SUBSET Delivery]
  BY <1>2 DEF Flush, TypeOK
<1> QED
  BY <1>3, <1>4 DEF Flush, TypeOK, dispatcher, receiver

LEMMA CommitType == ASSUME TypeOK, NEW w \in Workers, Commit(w) PROVE TypeOK'
<1>1. \A d \in Delivery : Updated(w, d) \in Row
  BY DEF Updated, TypeOK, Row
<1>2. rows' \in [Delivery -> Row]
  BY <1>1 DEF Commit, TypeOK
<1>3. older' \in [Delivery -> SUBSET Delivery]
  BY DEF Commit, TypeOK, Stored
<1>4. Close(w) /\ at' = [at EXCEPT ![w] = IF job[w] = <<>> THEN "free" ELSE "settle"]
  BY DEF Commit
<1>5. \A v \in Workers :
                        /\ at'[v] \in {"post", "flush"} => batch'[v] # <<>>
                        /\ at'[v] \in {"settle", "retry", "ack"} => job[v] # <<>>
                        /\ at'[v] \in {"free", "settle", "retry", "ack"} => held'[v] = {}
  BY <1>4, CloseType DEF TypeOK
<1> QED
  BY <1>2, <1>3, <1>4, <1>5, CloseType DEF Commit, TypeOK, dispatcher, receiver

LEMMA TypeStep == TypeOK /\ [Next]_vars => TypeOK'
<1> SUFFICES ASSUME TypeOK, [Next]_vars PROVE TypeOK'
  OBVIOUS
<1> USE DEF dispatcher, session, receiver
<1>1. ASSUME NEW e \in Events, Receive(e) PROVE TypeOK'
  BY <1>1 DEF Receive, TypeOK, Stage
<1>2. CASE Insert
  <2>1. Sent \subseteq Delivery
    BY DEF TypeOK, Sent, Delivery
  <2>2. chosen' \subseteq Endpoints /\ unsent' \subseteq Delivery /\ stage' \in Stage
    BY <1>2, <2>1 DEF Insert, TypeOK, Stage
  <2> QED
    BY <1>2, <2>2 DEF Insert, TypeOK
<1>3. ASSUME NEW d \in Delivery, Send(d) PROVE TypeOK'
  <2>1. <<d, 0>> \in Message
    BY DEF Message
  <2>2. queue' \in [Message -> Nat]
    <3> DEFINE m == <<d, 0>>
    <3>1. queue' = [queue EXCEPT ![m] = @ + 1] \/ queue' = queue
      BY <1>3 DEF Send
    <3>2. queue \in [Message -> Nat] /\ m \in Message
      BY <2>1 DEF TypeOK
    <3> HIDE DEF m
    <3> QED
      BY <3>1, <3>2
  <2>3. faults' \in 0..MaxFaults
    BY <1>3 DEF Send, TypeOK
  <2> QED
    BY <1>3, <2>2, <2>3 DEF Send, TypeOK, Stage
<1>4. CASE CommitRows
  BY <1>4, CommitRowsType
<1>5. CASE DispatchFails
  BY <1>5 DEF DispatchFails, TypeOK, Stage
<1>6. ASSUME NEW e \in Endpoints, CreateEndpoint(e) \/ DeleteEndpoint(e) PROVE TypeOK'
  BY <1>6 DEF CreateEndpoint, DeleteEndpoint, TypeOK
<1>7. ASSUME NEW w \in Workers, NEW m \in Message, Discard(w, m) PROVE TypeOK'
  BY <1>7 DEF Discard, TypeOK
<1>8. ASSUME NEW w \in Workers, NEW m \in Message, Take(w, m) PROVE TypeOK'
  <2>1. m[1] \in Delivery
    BY DEF Message
  <2>2. <<m[1]>> \in Seq(Delivery) /\ <<m[1]>> # <<>>
    BY <2>1
  <2>3. batch' \in [Workers -> Seq(Delivery)] /\ batch' = [batch EXCEPT ![w] = <<m[1]>>]
    BY <1>8, <2>2 DEF Take, TypeOK
  <2>4. queue' \in [Message -> Nat] /\ mem' \in [Workers -> [Delivery -> Row]]
    BY <1>8 DEF Take, TypeOK
  <2> QED
    BY <1>8, <2>2, <2>3, <2>4 DEF Take, TypeOK
<1>9. ASSUME NEW w \in Workers, Sweep(w) PROVE TypeOK'
  <2>1. PICK s \in Oldest : batch' = [batch EXCEPT ![w] = s]
    BY <1>9 DEF Sweep
  <2>2. s \in Seq(Delivery) /\ s # <<>>
    BY <1>9, OldestType DEF Sweep
  <2>3. batch' \in [Workers -> Seq(Delivery)] /\ mem' \in [Workers -> [Delivery -> Row]]
    BY <1>9, <2>1, <2>2 DEF Sweep, TypeOK
  <2> QED
    BY <1>9, <2>1, <2>2, <2>3 DEF Sweep, TypeOK
<1>10. ASSUME NEW w \in Workers, Settle(w) PROVE TypeOK'
  BY <1>10 DEF Settle, TypeOK
<1>11. ASSUME NEW w \in Workers, Retry(w) PROVE TypeOK'
  <2>1. job[w] \in Message
    BY <1>11 DEF Retry, TypeOK
  <2>2. queue' \in [Message -> Nat]
    <3> DEFINE n == <<job[w][1], job[w][2] + 1>>
    <3>1. queue' = queue \/ (n \in Message /\ queue' = [queue EXCEPT ![n] = @ + 1])
      BY <1>11, <2>1, NextMessage DEF Retry
    <3>2. queue \in [Message -> Nat]
      BY DEF TypeOK
    <3> HIDE DEF n
    <3> QED
      BY <3>1, <3>2
  <2> QED
    BY <1>11, <2>2 DEF Retry, TypeOK
<1>13. ASSUME NEW w \in Workers, RetryFails(w) PROVE TypeOK'
  BY <1>13 DEF RetryFails, TypeOK
<1>14. ASSUME NEW w \in Workers, NEW m \in Message, LoadFails(w, m) PROVE TypeOK'
  <2>1. job' \in [Workers -> Message \cup {<<>>}] /\ job'[w] # <<>> /\ held[w] = {}
    BY <1>14, MessageNotEmpty DEF LoadFails, TypeOK
  <2>2. queue' \in [Message -> Nat] /\ faults' \in 0..MaxFaults
    BY <1>14 DEF LoadFails, TypeOK
  <2> QED
    BY <1>14, <2>1, <2>2 DEF LoadFails, TypeOK
<1>12. ASSUME NEW w \in Workers, Ack(w) PROVE TypeOK'
  BY <1>12 DEF Ack, TypeOK
<1>15. ASSUME NEW w \in Workers, Raise(w) \/ DeadlockVictim(w) PROVE TypeOK'
  BY <1>15, AbandonType DEF Raise, DeadlockVictim, TypeOK
<1>16. ASSUME NEW w \in Workers, DbFails(w) PROVE TypeOK'
  BY <1>16, AbandonType DEF DbFails, TypeOK
<1>17. ASSUME NEW w \in Workers, Die(w) PROVE TypeOK'
  <2>1. queue' \in [Message -> Nat]
    BY <1>17 DEF Die, Requeued, TypeOK
  <2>2. Close(w) /\ faults' \in 0..MaxFaults
    BY <1>17 DEF Die, TypeOK
  <2>3. /\ at' = [at EXCEPT ![w] = "free"] /\ job' = [job EXCEPT ![w] = <<>>]
        /\ UNCHANGED <<dispatcher, endpoints, rows, older, ok, receiver>>
    BY <1>17 DEF Die
  <2>4. \A v \in Workers :
          /\ at'[v] \in {"post", "flush"} => batch'[v] # <<>>
          /\ at'[v] \in {"settle", "retry", "ack"} => job'[v] # <<>>
          /\ at'[v] \in {"free", "settle", "retry", "ack"} => held'[v] = {}
    BY <2>2, <2>3, CloseType DEF TypeOK
  <2>5. /\ at' \in [Workers -> {"free", "post", "flush", "commit", "settle", "retry", "ack"}]
        /\ job' \in [Workers -> Message \cup {<<>>}]
    BY <2>3 DEF TypeOK
  <2> QED
    BY <2>1, <2>2, <2>3, <2>4, <2>5, CloseType DEF TypeOK
<1>18. CASE UNCHANGED vars
  BY <1>18 DEF vars, TypeOK
<1> QED
  BY <1>1, <1>2, <1>3, <1>4, <1>5, <1>6, <1>7, <1>8, <1>9, <1>10, <1>11, <1>12, <1>13, <1>14,
     <1>15, <1>16, <1>17, <1>18, PostType, FlushType, CommitType DEF Next, Dispatch, Pull, Step, Fault

(* Every variable has its type, and the lists and messages a step of a      *)
(* worker reads are there when it takes it.                                *)
THEOREM TypeCorrect == Spec => []TypeOK
  BY InitType, TypeStep, PTL DEF Spec

-----------------------------------------------------------------------------
(* What a step does to the rows and to the sessions.                        *)

Settled == {"delivered", "failed"}
Idle == {"free", "settle", "retry", "ack"}

(* The dispatcher's steps but the last one, and a worker outside a session. *)
Quiet ==
  /\ UNCHANGED <<rows, session, receiver>>
  /\ \A v \in Workers : at'[v] \in Idle => at[v] \in Idle

Loads(w) ==
  /\ at[w] = "free" /\ at' = [at EXCEPT ![w] = "post"]
  /\ mem' = [mem EXCEPT ![w] = rows]
  /\ batch'[w] \in Seq(Delivery) /\ batch' = [batch EXCEPT ![w] = batch'[w]]
  /\ \A i \in 1..Len(batch'[w]) : rows[batch'[w][i]].status # "absent"
  /\ UNCHANGED <<rows, changed, held, receiver>>

Ends(w) ==
  /\ Close(w)
  /\ \E place \in Idle : at' = [at EXCEPT ![w] = place]
  /\ UNCHANGED <<rows, receiver>>

LEMMA Kinds ==
  ASSUME TypeOK, [Next]_vars
  PROVE  Quiet \/ CommitRows \/ \E w \in Workers : Loads(w) \/ Post(w) \/ Flush(w) \/ Commit(w) \/ Ends(w)
<1> USE DEF Idle
<1>1. ASSUME \/ \E e \in Events : Receive(e)
             \/ Insert \/ DispatchFails
             \/ \E d \in Delivery : Send(d)
             \/ \E e \in Endpoints : CreateEndpoint(e) \/ DeleteEndpoint(e)
             \/ \E w \in Workers : \E m \in Message : Discard(w, m)
             \/ UNCHANGED vars
      PROVE  Quiet
  BY <1>1 DEF Receive, Insert, DispatchFails, Send, CreateEndpoint, DeleteEndpoint, Discard, vars,
              Quiet, session, receiver
<1>2. ASSUME NEW w \in Workers, Settle(w) \/ Retry(w) \/ RetryFails(w) \/ Ack(w) PROVE Quiet
  BY <1>2 DEF Settle, Retry, RetryFails, Ack, Quiet, TypeOK
<1>6. ASSUME NEW w \in Workers, NEW m \in Message, LoadFails(w, m) PROVE Quiet
  BY <1>6 DEF LoadFails, Quiet, TypeOK
<1>3. ASSUME NEW w \in Workers, NEW m \in Message, Take(w, m) PROVE Loads(w)
  <2>1. m[1] \in Delivery /\ <<m[1]>> \in Seq(Delivery) /\ Len(<<m[1]>>) = 1
    BY DEF Message
  <2>2. batch' = [batch EXCEPT ![w] = <<m[1]>>] /\ batch'[w] = <<m[1]>>
    BY <1>3 DEF Take, TypeOK
  <2>3. \A i \in 1..Len(batch'[w]) : batch'[w][i] = m[1]
    BY <2>1, <2>2
  <2>4. \A i \in 1..Len(batch'[w]) : rows[batch'[w][i]].status # "absent"
    BY <1>3, <2>3 DEF Take
  <2>5. batch'[w] \in Seq(Delivery) /\ batch' = [batch EXCEPT ![w] = batch'[w]]
    BY <2>1, <2>2
  <2> QED
    BY <1>3, <2>4, <2>5 DEF Take, Loads
<1>4. ASSUME NEW w \in Workers, Sweep(w) PROVE Loads(w)
  <2>1. PICK s \in Oldest : batch' = [batch EXCEPT ![w] = s]
    BY <1>4 DEF Sweep
  <2>2. s \in Seq(Delivery) /\ \A i \in 1..Len(s) : rows[s[i]].status = "pending"
    BY <1>4, OldestType DEF Sweep, Due
  <2>3. batch'[w] = s
    BY <2>1 DEF TypeOK
  <2>4. batch' = [batch EXCEPT ![w] = batch'[w]]
    BY <2>1, <2>3
  <2>5. \A i \in 1..Len(batch'[w]) : rows[batch'[w][i]].status # "absent"
    BY <2>2, <2>3
  <2> QED
    BY <1>4, <2>2, <2>3, <2>4, <2>5 DEF Sweep, Loads
<1>5. ASSUME NEW w \in Workers, Raise(w) \/ DeadlockVictim(w) \/ DbFails(w) \/ Die(w) PROVE Ends(w)
  BY <1>5 DEF Raise, DeadlockVictim, DbFails, Die, Abandon, Ends, receiver
<1> QED
  BY <1>1, <1>2, <1>3, <1>4, <1>5, <1>6 DEF Next, Dispatch, Pull, Step, Fault

-----------------------------------------------------------------------------
(* Attempts are posted.                                                     *)

Honest(row, d, made, taken) ==
  /\ row.attempts <= made[d] \/ made[d] = MaxAttempts
  /\ row.status = "failed" => made[d] = MaxAttempts
  /\ row.status = "delivered" => d \in taken

(* What a row says happened did, in the table and in every session.         *)
Counted ==
  \A d \in Delivery : /\ Honest(rows[d], d, posts, accepted)
                      /\ \A w \in Workers : Honest(mem[w][d], d, posts, accepted)

LEMMA HonestKept ==
  ASSUME TypeOK, NEW row \in Row, NEW d \in Delivery, Honest(row, d, posts, accepted),
         UNCHANGED receiver \/ \E w \in Workers : Post(w)
  PROVE  Honest(row, d, posts', accepted')
<1>1. posts[d] \in 0..MaxAttempts
  BY DEF TypeOK
<1>2. posts'[d] \in {posts[d], posts[d] + 1} /\ (posts[d] = MaxAttempts => posts'[d] = posts[d])
  BY <1>1 DEF receiver, Post, TypeOK
<1>3. accepted \subseteq accepted'
  BY DEF receiver, Post
<1>4. posts'[d] >= posts[d]
  BY <1>1, <1>2
<1>5. row.attempts \in Nat
  BY DEF Row
<1> QED
  BY <1>1, <1>2, <1>3, <1>4, <1>5 DEF Honest

LEMMA HonestNew ==
  ASSUME TypeOK', NEW d \in Delivery
  PROVE  /\ Honest(Absent, d, posts', accepted')
         /\ Honest([status |-> "pending", attempts |-> 0], d, posts', accepted')
  BY DEF Honest, Absent, TypeOK

(* One more POST makes the attempted row an honest one.                     *)
LEMMA HonestAttempt ==
  ASSUME TypeOK, NEW w \in Workers, Post(w), Counted
  PROVE  Honest(mem'[w][Head(batch[w])], Head(batch[w]), posts', accepted')
<1> DEFINE d == Head(batch[w])
<1>1. d \in Delivery
  BY DEF Post, TypeOK
<1>2. PICK good \in BOOLEAN :
        /\ mem' = [mem EXCEPT ![w][d] = Attempted(mem[w][d], good)]
        /\ accepted' = IF good THEN accepted \cup {d} ELSE accepted
  BY DEF Post
<1>3. mem'[w][d] = Attempted(mem[w][d], good)
  BY <1>1, <1>2 DEF TypeOK
<1>4. posts'[d] = IF posts[d] < MaxAttempts THEN posts[d] + 1 ELSE posts[d]
  BY <1>1 DEF Post, TypeOK
<1>5. posts[d] \in 0..MaxAttempts /\ mem[w][d] \in Row /\ mem[w][d].attempts \in Nat
  BY <1>1 DEF TypeOK, Row
<1>6. Honest(mem[w][d], d, posts, accepted)
  BY <1>1 DEF Counted
<1> QED
  BY <1>2, <1>3, <1>4, <1>5, <1>6 DEF Honest, Attempted

Kept(d) ==
  /\ Honest(rows'[d], d, posts', accepted')
  /\ \A w \in Workers : Honest(mem'[w][d], d, posts', accepted')

LEMMA CountedStep == TypeOK /\ Counted /\ [Next]_vars => Counted'
<1> SUFFICES ASSUME TypeOK, TypeOK', Counted, [Next]_vars,
                    NEW d \in Delivery
             PROVE  Kept(d)
  BY TypeStep DEF Counted, Kept
<1> USE DEF Kept
<1>1. Honest(rows[d], d, posts, accepted) /\ \A w \in Workers : Honest(mem[w][d], d, posts, accepted)
  BY DEF Counted
<1>2. rows[d] \in Row /\ (\A w \in Workers : mem[w][d] \in Row) /\ Absent \in Row
      /\ [status |-> "pending", attempts |-> 0] \in Row
  BY DEF TypeOK, Absent, Row, Status
<1>3. CASE Quiet
  BY <1>1, <1>2, <1>3, HonestKept DEF Quiet, session
<1>4. CASE CommitRows
  <2>1. rows'[d] \in {rows[d], [status |-> "pending", attempts |-> 0]}
    BY <1>4 DEF CommitRows
  <2>2. UNCHANGED receiver /\ UNCHANGED mem
    BY <1>4 DEF CommitRows, session
  <2> QED
    BY <1>1, <1>2, <2>1, <2>2, HonestKept, HonestNew
<1>5. ASSUME NEW w \in Workers, Loads(w) PROVE Kept(d)
  <2>1. \A v \in Workers : mem'[v][d] \in {mem[v][d], rows[d]}
    BY <1>5 DEF Loads, TypeOK
  <2> QED
    BY <1>1, <1>2, <1>5, <2>1, HonestKept DEF Loads
<1>6. ASSUME NEW w \in Workers, Post(w) PROVE Kept(d)
  <2>1. \A v \in Workers : v # w \/ d # Head(batch[w]) => mem'[v][d] = mem[v][d]
    BY <1>6 DEF Post, TypeOK
  <2>2. rows' = rows
    BY <1>6 DEF Post
  <2> QED
    BY <1>1, <1>2, <1>6, <2>1, <2>2, HonestKept, HonestAttempt
<1>7. ASSUME NEW w \in Workers, Flush(w) PROVE Kept(d)
  BY <1>1, <1>2, <1>7, HonestKept DEF Flush
<1>8. ASSUME NEW w \in Workers, Commit(w) PROVE Kept(d)
  <2>1. rows'[d] \in {rows[d], Updated(w, d)}
    BY <1>8 DEF Commit
  <2>2. Updated(w, d) \in Row /\ Honest(Updated(w, d), d, posts, accepted)
    BY <1>1, <1>2 DEF Updated, Honest, Row
  <2>3. \A v \in Workers : mem'[v][d] \in {mem[v][d], Absent}
    BY <1>8 DEF Commit, Close, TypeOK
  <2>4. UNCHANGED receiver
    BY <1>8 DEF Commit
  <2> QED
    BY <1>1, <1>2, <2>1, <2>2, <2>3, <2>4, HonestKept, HonestNew
<1>9. ASSUME NEW w \in Workers, Ends(w) PROVE Kept(d)
  <2>1. \A v \in Workers : mem'[v][d] \in {mem[v][d], Absent}
    BY <1>9 DEF Ends, Close, TypeOK
  <2> QED
    BY <1>1, <1>2, <1>9, <2>1, HonestKept, HonestNew DEF Ends
<1> QED
  BY <1>3, <1>4, <1>5, <1>6, <1>7, <1>8, <1>9, Kinds

LEMMA CountedAlways == Spec => []Counted
<1>1. Init => Counted
  BY DEF Init, Counted, Honest, Absent
<1> QED
  BY <1>1, CountedStep, TypeCorrect, PTL DEF Spec

(* A row that is given up was posted MaxAttempts times, one that is called  *)
(* delivered was taken by its endpoint (delivery.py:38-42).                *)
THEOREM EveryEndEarned == Spec => []Earned
<1>1. Counted => Earned
  BY DEF Counted, Honest, Earned
<1> QED
  BY <1>1, CountedAlways, PTL

-----------------------------------------------------------------------------
(* A row is stored once and, once settled, stays so.                        *)

(* An event that is still to be stored has no rows.                         *)
Fresh ==
  /\ stage # "idle" => event \notin coming
  /\ \A d \in Delivery :
       d[1] \in coming \/ (stage # "idle" /\ d[1] = event) => rows[d].status = "absent"

(* What a session knows of the rows: the ones it did not settle, and wrote, *)
(* are below the limit or were settled when it loaded them.                *)
Knows(w, d) ==
  /\ mem[w][d].status # "absent" => rows[d].status # "absent"
  /\ d \notin changed[w] /\ mem[w][d].status \in Settled => rows[d].status \in Settled
  /\ d \notin changed[w] /\ mem[w][d].status = "pending" => mem[w][d].attempts < MaxAttempts
  /\ d \in changed[w] => mem[w][d].status \in Settled
  /\ d \in held[w] => mem[w][d].status # "absent"

Loaded ==
  \A w \in Workers :
    /\ at[w] \in Idle => changed[w] = {}
    /\ \A i \in 1..Len(batch[w]) : mem[w][batch[w][i]].status # "absent"
    /\ \A d \in Delivery : Knows(w, d)

Inv == TypeOK /\ Fresh /\ Loaded /\ PendingInReach

(* What a commit makes of a row it updated.                                 *)
LEMMA UpdatedRow ==
  ASSUME Inv, NEW w \in Workers, NEW d \in held[w]
  PROVE  /\ rows[d].status # "absent" /\ Updated(w, d).status # "absent"
         /\ rows[d].status \in Settled => Updated(w, d).status \in Settled
         /\ Updated(w, d).status = "pending" => Updated(w, d).attempts < MaxAttempts
<1>1. d \in Delivery
  BY DEF Inv, TypeOK
<1>2. Knows(w, d) /\ mem[w][d].status \in Status /\ rows[d].status \in Status
  BY <1>1 DEF Inv, Loaded, TypeOK, Row
<1>3. /\ Updated(w, d).status = IF d \in changed[w] THEN mem[w][d].status ELSE rows[d].status
      /\ Updated(w, d).attempts = mem[w][d].attempts
  BY DEF Updated
<1> QED
  BY <1>2, <1>3 DEF Knows, Settled, Status

LEMMA RowsKept ==
  ASSUME Inv, [Next]_vars, NEW d \in Delivery
  PROVE  /\ rows[d].status # "absent" => rows'[d].status # "absent"
         /\ rows[d].status \in Settled => rows'[d].status \in Settled
<1>1. CASE CommitRows
  <2>1. d \in Sent => rows[d].status = "absent"
    BY <1>1 DEF CommitRows, Inv, Fresh, Sent
  <2> QED
    BY <1>1, <2>1 DEF CommitRows, Settled
<1>2. ASSUME NEW w \in Workers, Commit(w)
      PROVE rows'[d] = rows[d] \/ (d \in held[w] /\ rows'[d] = Updated(w, d))
  BY <1>2 DEF Commit
<1> QED
  BY <1>1, <1>2, Kinds, UpdatedRow DEF Inv, Quiet, Loads, Post, Flush, Ends

LEMMA FreshStep == Inv /\ [Next]_vars => Fresh'
<1> SUFFICES ASSUME Inv, [Next]_vars PROVE Fresh'
  OBVIOUS
<1> USE DEF dispatcher
<1>1. ASSUME NEW e \in Events, Receive(e) PROVE Fresh'
  BY <1>1 DEF Receive, Inv, Fresh
<1>2. CASE CommitRows
  <2>1. stage' = "idle" /\ coming' = coming /\ event \notin coming
    BY <1>2 DEF CommitRows, Inv, Fresh
  <2>2. \A d \in Delivery : d[1] # event => rows'[d] = rows[d]
    BY <1>2 DEF CommitRows, Sent
  <2> QED
    BY <2>1, <2>2 DEF Inv, Fresh
<1>3. CASE Insert \/ DispatchFails \/ \E d \in Delivery : Send(d)
  BY <1>3 DEF Insert, DispatchFails, Send, Inv, Fresh
<1>4. CASE UNCHANGED <<coming, stage, event>> /\ UNCHANGED rows
  BY <1>4 DEF Inv, Fresh
<1>5. ASSUME NEW w \in Workers, Commit(w) PROVE Fresh'
  <2>1. \A d \in Delivery : rows[d].status = "absent" => rows'[d] = rows[d]
    BY <1>5, UpdatedRow DEF Commit
  <2> QED
    BY <1>5, <2>1 DEF Commit, Inv, Fresh
<1>6. ASSUME \/ \E e \in Endpoints : CreateEndpoint(e) \/ DeleteEndpoint(e)
             \/ \E w \in Workers : Pull(w) \/ Sweep(w)
             \/ UNCHANGED vars
      PROVE  UNCHANGED <<coming, stage, event>> /\ UNCHANGED rows
  BY <1>6 DEF CreateEndpoint, DeleteEndpoint, Pull, Discard, Take, Sweep, vars
<1>7. ASSUME NEW w \in Workers, Post(w) \/ Flush(w) \/ Settle(w) \/ Retry(w) \/ Ack(w)
      PROVE  UNCHANGED <<coming, stage, event>> /\ UNCHANGED rows
  BY <1>7 DEF Post, Flush, Settle, Retry, Ack
<1>8. ASSUME NEW w \in Workers, Fault(w) \/ Raise(w) \/ DeadlockVictim(w)
      PROVE  UNCHANGED <<coming, stage, event>> /\ UNCHANGED rows
  BY <1>8 DEF Fault, DbFails, RetryFails, Die, LoadFails, Raise, DeadlockVictim, Abandon
<1> QED
  BY <1>1, <1>2, <1>3, <1>4, <1>5, <1>6, <1>7, <1>8 DEF Next, Dispatch, Step

LEMMA ReachStep == Inv /\ [Next]_vars => PendingInReach'
<1> SUFFICES ASSUME Inv, [Next]_vars, NEW d \in Delivery, rows'[d].status = "pending"
             PROVE  rows'[d].attempts < MaxAttempts
  BY DEF PendingInReach
<1>1. rows[d].status = "pending" => rows[d].attempts < MaxAttempts
  BY DEF Inv, PendingInReach
<1>2. CASE CommitRows
  BY <1>1, <1>2 DEF CommitRows
<1>3. ASSUME NEW w \in Workers, Commit(w)
      PROVE rows'[d] = rows[d] \/ (d \in held[w] /\ rows'[d] = Updated(w, d))
  BY <1>3 DEF Commit
<1> QED
  BY <1>1, <1>2, <1>3, Kinds, UpdatedRow DEF Inv, Quiet, Loads, Post, Flush, Ends

(* The part of Loaded that is about one worker.                             *)
LoadedBy(w) ==
  /\ at[w] \in Idle => changed[w] = {}
  /\ \A i \in 1..Len(batch[w]) : mem[w][batch[w][i]].status # "absent"
  /\ \A d \in Delivery : Knows(w, d)

(* A worker that did nothing: what it knows of the rows stays true.         *)
LEMMA BystanderKeeps ==
  ASSUME Inv, [Next]_vars, NEW w \in Workers,
         batch'[w] = batch[w], mem'[w] = mem[w], changed'[w] = changed[w], held'[w] = held[w],
         at'[w] \in Idle => at[w] \in Idle
  PROVE  LoadedBy(w)'
  BY RowsKept DEF Inv, Loaded, LoadedBy, Knows

LEMMA LoadsKeeps == ASSUME Inv, NEW w \in Workers, Loads(w) PROVE LoadedBy(w)'
<1>1. mem'[w] = rows /\ at'[w] = "post" /\ changed'[w] = {} /\ held'[w] = {} /\ rows' = rows
  BY DEF Loads, Inv, TypeOK, Loaded, Idle
<1>2. \A i \in 1..Len(batch'[w]) : rows[batch'[w][i]].status # "absent"
  BY DEF Loads
<1> QED
  BY <1>1, <1>2 DEF LoadedBy, Knows, Idle, Settled, Inv, PendingInReach

LEMMA ClosedKeeps ==
  ASSUME Inv, NEW w \in Workers, Close(w) PROVE LoadedBy(w)'
<1>1. /\ batch'[w] = <<>> /\ changed'[w] = {} /\ held'[w] = {}
      /\ \A d \in Delivery : mem'[w][d] = Absent
  BY DEF Close, Inv, TypeOK
<1>2. Len(batch'[w]) = 0
  BY <1>1
<1> QED
  BY <1>1, <1>2 DEF LoadedBy, Knows, Absent, Settled

LEMMA PostKeeps ==
  ASSUME Inv, NEW w \in Workers, Post(w) PROVE LoadedBy(w)'
<1>1. batch[w] \in Seq(Delivery) /\ batch[w] # <<>>
  BY DEF Post, Inv, TypeOK
<1>2. PICK h \in Delivery : h = Head(batch[w]) /\ h = batch[w][1] /\ 1 \in 1..Len(batch[w])
  BY <1>1
<1>3. mem[w][h].status # "absent" /\ mem[w][h] \in Row
  BY <1>1, <1>2 DEF Inv, Loaded, TypeOK
<1>4. PICK good \in BOOLEAN :
        /\ mem' = [mem EXCEPT ![w][h] = Attempted(mem[w][h], good)]
        /\ changed' = IF Attempted(mem[w][h], good).status = mem[w][h].status THEN changed
                      ELSE [changed EXCEPT ![w] = @ \cup {h}]
  BY <1>2 DEF Post
<1> DEFINE new == Attempted(mem[w][h], good)
<1>5. mem'[w][h] = new /\ \A d \in Delivery \ {h} : mem'[w][d] = mem[w][d]
  BY <1>2, <1>4 DEF Inv, TypeOK
<1>6. changed'[w] = IF new.status = mem[w][h].status THEN changed[w] ELSE changed[w] \cup {h}
  BY <1>4 DEF Inv, TypeOK
<1>7. rows' = rows /\ batch' = batch /\ held' = held /\ at'[w] = "flush"
  BY DEF Post, session, Inv, TypeOK
<1>8. /\ new.status # "absent"
      /\ new.status # mem[w][h].status => new.status \in Settled
      /\ mem[w][h].status \in Settled => new.status \in Settled
      /\ new.status = "pending" => new.attempts < MaxAttempts
  BY <1>3 DEF Attempted, Row, Status, Settled
<1>9. Knows(w, h)'
  <2>1. Knows(w, h)
    BY <1>2 DEF Inv, Loaded
  <2>2. h \in changed'[w] => new.status \in Settled
    BY <1>6, <1>8, <2>1 DEF Knows
  <2>3. h \notin changed'[w] => h \notin changed[w] /\ new.status = mem[w][h].status
    BY <1>6
  <2> HIDE DEF new
  <2> QED
    BY <1>3, <1>5, <1>7, <1>8, <2>1, <2>2, <2>3 DEF Knows
<1>10. \A d \in Delivery \ {h} : Knows(w, d)'
  <2> SUFFICES ASSUME NEW d \in Delivery \ {h} PROVE Knows(w, d)'
    OBVIOUS
  <2>1. Knows(w, d) /\ (d \in changed'[w] <=> d \in changed[w]) /\ mem'[w][d] = mem[w][d]
    BY <1>5, <1>6 DEF Inv, Loaded
  <2> QED
    BY <1>7, <2>1 DEF Knows
<1>11. \A i \in 1..Len(batch[w]) : batch[w][i] \in Delivery /\ mem'[w][batch[w][i]].status # "absent"
  <2> SUFFICES ASSUME NEW i \in 1..Len(batch[w])
               PROVE  batch[w][i] \in Delivery /\ mem'[w][batch[w][i]].status # "absent"
    OBVIOUS
  <2>1. batch[w][i] \in Delivery /\ mem[w][batch[w][i]].status # "absent"
    BY <1>1 DEF Inv, Loaded
  <2> QED
    BY <1>5, <1>8, <2>1
<1> QED
  BY <1>7, <1>9, <1>10, <1>11 DEF LoadedBy, Idle

LEMMA FlushKeeps ==
  ASSUME Inv, NEW w \in Workers, Flush(w) PROVE LoadedBy(w)'
<1>1. batch[w] \in Seq(Delivery) /\ batch[w] # <<>>
  BY DEF Flush, Inv, TypeOK
<1>2. batch'[w] = Tail(batch[w]) /\ held'[w] = held[w] \cup {Head(batch[w])} /\ at'[w] \notin Idle
      /\ UNCHANGED <<rows, mem, changed>>
  BY DEF Flush, Inv, TypeOK, Idle
<1>3. \A i \in 1..Len(batch'[w]) : i + 1 \in 1..Len(batch[w]) /\ batch'[w][i] = batch[w][i + 1]
  BY <1>1, <1>2
<1>4. mem[w][Head(batch[w])].status # "absent"
  BY <1>1 DEF Inv, Loaded
<1> QED
  BY <1>2, <1>3, <1>4 DEF Inv, Loaded, LoadedBy, Knows

LEMMA LoadedStep == Inv /\ [Next]_vars => Loaded'
<1> SUFFICES ASSUME Inv, [Next]_vars, NEW v \in Workers PROVE LoadedBy(v)'
  BY DEF Loaded, LoadedBy
<1>1. CASE Quiet \/ CommitRows
  BY <1>1, BystanderKeeps DEF Quiet, CommitRows, session
<1>2. ASSUME NEW w \in Workers, Loads(w) \/ Post(w) \/ Flush(w) \/ Commit(w) \/ Ends(w)
      PROVE LoadedBy(v)'
  <2>1. CASE v = w
    BY <1>2, <2>1, LoadsKeeps, PostKeeps, FlushKeeps, ClosedKeeps DEF Commit, Ends
  <2>2. CASE v # w
    <3>1. batch'[v] = batch[v] /\ mem'[v] = mem[v] /\ changed'[v] = changed[v] /\ held'[v] = held[v]
          /\ at'[v] = at[v]
      <4>1. CASE Loads(w)
        BY <2>2, <4>1 DEF Loads, Inv, TypeOK
      <4>2. CASE Post(w)
        BY <2>2, <4>2 DEF Post, Inv, TypeOK
      <4>3. CASE Flush(w)
        BY <2>2, <4>3 DEF Flush, Inv, TypeOK
      <4>4. CASE Commit(w) \/ Ends(w)
        BY <2>2, <4>4 DEF Commit, Ends, Close, Inv, TypeOK
      <4> QED
        BY <1>2, <4>1, <4>2, <4>3, <4>4
    <3> QED
      BY <3>1, BystanderKeeps
  <2> QED
    BY <2>1, <2>2
<1> QED
  BY <1>1, <1>2, Kinds DEF Inv

LEMMA InitInv == Init => Inv
<1> SUFFICES ASSUME Init PROVE Inv
  OBVIOUS
<1>1. Fresh /\ PendingInReach
  BY DEF Init, Fresh, PendingInReach, Absent
<1>2. Loaded
  BY DEF Init, Loaded, Knows, Absent, Settled
<1> QED
  BY <1>1, <1>2, InitType DEF Inv

LEMMA InvAlways == Spec => []Inv
<1>1. Inv /\ [Next]_vars => Inv'
  BY TypeStep, FreshStep, LoadedStep, ReachStep DEF Inv
<1> QED
  BY <1>1, InitInv, PTL DEF Spec

(* Tasks overwrite each other's count of attempts, but never so that a row  *)
(* stays pending out of the sweep's reach (delivery.py:101).               *)
THEOREM PendingStaysInReach == Spec => []PendingInReach
<1>1. Inv => PendingInReach
  BY DEF Inv
<1> QED
  BY <1>1, InvAlways, PTL

-----------------------------------------------------------------------------
(* Messages.                                                                *)

(* A deliver task attempts the row of its message, and no other.            *)
Single ==
  \A w \in Workers :
    /\ at[w] = "free" => job[w] = <<>>
    /\ at[w] \in {"post", "flush"} /\ job[w] # <<>> =>
         Len(batch[w]) = 1 /\ Head(batch[w]) = job[w][1]

(* A step moves no worker but the one that takes it.                        *)
LEMMA BystanderStays ==
  ASSUME TypeOK, NEW w \in Workers, NEW v \in Workers \ {w}, Pull(v) \/ Sweep(v) \/ Step(v) \/ Fault(v)
  PROVE  at'[w] = at[w] /\ job'[w] = job[w]
<1>1. CASE Pull(v) \/ Sweep(v)
  BY <1>1 DEF Pull, Discard, Take, Sweep, TypeOK
<1>2. CASE Step(v)
  BY <1>2 DEF Step, Post, Flush, Commit, Settle, Retry, Ack, Raise, DeadlockVictim, Abandon, TypeOK
<1>3. CASE Fault(v)
  BY <1>3 DEF Fault, DbFails, RetryFails, Die, LoadFails, Abandon, TypeOK
<1> QED
  BY <1>1, <1>2, <1>3

(* The dispatcher and the clients move none.                                *)
LEMMA OutsideStays ==
  ASSUME \/ Dispatch \/ DispatchFails
         \/ \E e \in Endpoints : CreateEndpoint(e) \/ DeleteEndpoint(e)
         \/ UNCHANGED vars
  PROVE  at' = at /\ job' = job
  BY DEF Dispatch, Receive, Insert, Send, CommitRows, DispatchFails, CreateEndpoint, DeleteEndpoint,
         vars

LEMMA SingleStep == TypeOK /\ Single /\ [Next]_vars => Single'
<1> SUFFICES ASSUME TypeOK, Single, [Next]_vars PROVE Single'
  OBVIOUS
<1> USE DEF dispatcher, session, receiver
<1>1. ASSUME \/ Dispatch \/ DispatchFails
             \/ \E e \in Endpoints : CreateEndpoint(e) \/ DeleteEndpoint(e)
             \/ \E w \in Workers : \E m \in Message : Discard(w, m)
             \/ UNCHANGED vars
      PROVE  Single'
  <2>1. UNCHANGED <<at, job, batch>>
    BY <1>1 DEF Dispatch, Receive, Insert, Send, CommitRows, DispatchFails, CreateEndpoint,
                DeleteEndpoint, Discard, vars
  <2> QED
    BY <2>1 DEF Single
<1>2. ASSUME NEW w \in Workers, NEW m \in Message, Take(w, m) PROVE Single'
  <2>1. job'[w] = m /\ Len(batch'[w]) = 1 /\ Head(batch'[w]) = m[1] /\ at'[w] = "post"
    BY <1>2 DEF Take, TypeOK
  <2>2. \A v \in Workers \ {w} : job'[v] = job[v] /\ batch'[v] = batch[v] /\ at'[v] = at[v]
    BY <1>2 DEF Take, TypeOK
  <2> QED
    BY <2>1, <2>2 DEF Single
<1>3. ASSUME NEW w \in Workers, Sweep(w) PROVE Single'
  <2>1. job' = job /\ job[w] = <<>> /\ at' = [at EXCEPT ![w] = "post"]
    BY <1>3 DEF Sweep, Single
  <2>2. \A v \in Workers \ {w} : batch'[v] = batch[v]
    BY <1>3 DEF Sweep, TypeOK
  <2> QED
    BY <2>1, <2>2 DEF Single, TypeOK
<1>4. ASSUME NEW w \in Workers, Post(w) PROVE Single'
  <2>1. job' = job /\ batch' = batch /\ at[w] = "post" /\ at' = [at EXCEPT ![w] = "flush"]
    BY <1>4 DEF Post
  <2> QED
    BY <2>1 DEF Single, TypeOK
<1>5. ASSUME NEW w \in Workers, Flush(w) PROVE Single'
  <2>1. job' = job /\ batch' = [batch EXCEPT ![w] = Tail(@)] /\ at[w] = "flush"
        /\ at' = [at EXCEPT ![w] = IF Tail(batch[w]) = <<>> THEN "commit" ELSE "post"]
    BY <1>5 DEF Flush
  <2>2. job[w] # <<>> => Len(batch[w]) = 1
    BY <2>1 DEF Single
  <2>3. batch[w] \in Seq(Delivery) /\ batch[w] # <<>>
    BY <2>1 DEF TypeOK
  <2>4. job[w] # <<>> => Tail(batch[w]) = <<>>
    <3> SUFFICES ASSUME job[w] # <<>> PROVE Tail(batch[w]) = <<>>
      OBVIOUS
    <3>1. Tail(batch[w]) \in Seq(Delivery) /\ Len(Tail(batch[w])) = 0
      BY <2>2, <2>3
    <3> QED
      BY <3>1, EmptySeq
  <2>5. at'[w] # "free" /\ (job[w] # <<>> => at'[w] = "commit")
    BY <2>1, <2>4 DEF TypeOK
  <2>6. \A v \in Workers \ {w} : batch'[v] = batch[v] /\ at'[v] = at[v]
    BY <2>1 DEF TypeOK
  <2> QED
    BY <2>1, <2>5, <2>6 DEF Single
<1>6. ASSUME NEW w \in Workers, \/ Commit(w) \/ Settle(w) \/ Retry(w) \/ Ack(w) \/ Raise(w)
                                \/ DeadlockVictim(w) \/ DbFails(w) \/ RetryFails(w) \/ Die(w)
      PROVE  Single'
  <2> USE DEF Commit, Settle, Retry, Ack, Raise, DeadlockVictim, DbFails, RetryFails, Die, Abandon
  <2>1. \A v \in Workers \ {w} : job'[v] = job[v] /\ batch'[v] = batch[v] /\ at'[v] = at[v]
    BY <1>6 DEF Close, TypeOK
  <2>2. at'[w] \notin {"post", "flush"} /\ (at'[w] = "free" => job'[w] = <<>>)
    BY <1>6 DEF TypeOK
  <2> QED
    BY <2>1, <2>2 DEF Single
<1>7. ASSUME NEW w \in Workers, NEW m \in Message, LoadFails(w, m) PROVE Single'
  <2>1. \A v \in Workers \ {w} : job'[v] = job[v] /\ batch'[v] = batch[v] /\ at'[v] = at[v]
    BY <1>7 DEF LoadFails, TypeOK
  <2>2. at'[w] = "retry"
    BY <1>7 DEF LoadFails, TypeOK
  <2> QED
    BY <2>1, <2>2 DEF Single
<1> QED
  BY <1>1, <1>2, <1>3, <1>4, <1>5, <1>6, <1>7 DEF Next, Pull, Step, Fault

LEMMA SingleAlways == Spec => []Single
<1>1. Init => Single
  BY DEF Init, Single
<1> QED
  BY <1>1, SingleStep, TypeCorrect, PTL DEF Spec

Takes(w, m) == Discard(w, m) \/ Take(w, m) \/ LoadFails(w, m)

(* The next retry of a message.                                             *)
Again(m) == <<m[1], m[2] + 1>>

(* What a step makes of the queue: one message goes to a worker, or one is  *)
(* sent, retried or handed back.                                           *)
LEMMA QueueStep ==
  ASSUME TypeOK, [Next]_vars
  PROVE  \/ queue' = queue
         \/ \E w \in Workers : \E m \in Message : Takes(w, m) /\ queue' = [queue EXCEPT ![m] = @ - 1]
         \/ \E d \in Delivery : queue' = [queue EXCEPT ![<<d, 0>>] = @ + 1]
         \/ \E w \in Workers : Retry(w) /\ queue' = [queue EXCEPT ![Again(job[w])] = @ + 1]
         \/ \E w \in Workers : Die(w) /\ queue' = [queue EXCEPT ![job[w]] = @ + 1]
<1>1. ASSUME NEW d \in Delivery, Send(d)
      PROVE  queue' = queue \/ queue' = [queue EXCEPT ![<<d, 0>>] = @ + 1]
  BY <1>1 DEF Send
<1>2. ASSUME NEW w \in Workers, NEW m \in Message, Takes(w, m)
      PROVE  queue' = [queue EXCEPT ![m] = @ - 1]
  BY <1>2 DEF Takes, Discard, Take, LoadFails
<1>3. ASSUME NEW w \in Workers, Retry(w)
      PROVE  queue' = queue \/ queue' = [queue EXCEPT ![Again(job[w])] = @ + 1]
  BY <1>3 DEF Retry, Again
<1>4. ASSUME NEW w \in Workers, Die(w)
      PROVE  queue' = queue \/ queue' = [queue EXCEPT ![job[w]] = @ + 1]
  BY <1>4 DEF Die, Requeued
<1>5. ASSUME NEW w \in Workers, \/ Sweep(w) \/ Post(w) \/ Flush(w) \/ Commit(w) \/ Settle(w) \/ Ack(w)
                                \/ Raise(w) \/ DeadlockVictim(w) \/ DbFails(w) \/ RetryFails(w)
      PROVE  queue' = queue
  BY <1>5 DEF Sweep, Post, Flush, Commit, Settle, Ack, Raise, DeadlockVictim, DbFails, RetryFails, Abandon
<1>6. ASSUME \/ (\E e \in Events : Receive(e)) \/ Insert \/ CommitRows \/ DispatchFails
             \/ \E e \in Endpoints : CreateEndpoint(e) \/ DeleteEndpoint(e)
             \/ UNCHANGED vars
      PROVE  queue' = queue
  BY <1>6 DEF Receive, Insert, CommitRows, DispatchFails, CreateEndpoint, DeleteEndpoint, vars
<1> QED
  BY <1>1, <1>2, <1>3, <1>4, <1>5, <1>6 DEF Next, Dispatch, Pull, Step, Fault, Takes

(* Only a worker that receives it takes a message from the queue.           *)
LEMMA QueueKept ==
  ASSUME TypeOK, [Next]_vars, NEW m \in Message, \A w \in Workers : ~Takes(w, m)
  PROVE  queue'[m] >= queue[m]
<1>1. queue \in [Message -> Nat] /\ queue[m] \in Nat
  BY DEF TypeOK
<1>2. ASSUME NEW n, queue' = [queue EXCEPT ![n] = @ + 1] PROVE queue'[m] >= queue[m]
  BY <1>1, <1>2
<1>3. ASSUME NEW w \in Workers, NEW n \in Message, Takes(w, n), queue' = [queue EXCEPT ![n] = @ - 1]
      PROVE  queue'[m] >= queue[m]
  <2>1. n # m
    BY <1>3
  <2> QED
    BY <1>1, <1>3, <2>1
<1>4. ASSUME queue' = queue PROVE queue'[m] >= queue[m]
  BY <1>1, <1>4
<1>5. CASE \E w \in Workers : Retry(w) /\ queue' = [queue EXCEPT ![Again(job[w])] = @ + 1]
  BY <1>2, <1>5
<1>6. CASE \E w \in Workers : Die(w) /\ queue' = [queue EXCEPT ![job[w]] = @ + 1]
  BY <1>2, <1>6
<1>7. CASE \E d \in Delivery : queue' = [queue EXCEPT ![<<d, 0>>] = @ + 1]
  BY <1>2, <1>7
<1> QED
  BY <1>3, <1>4, <1>5, <1>6, <1>7, QueueStep

(* A message that is new in the queue was sent, retried or handed back.     *)
LEMMA QueueGrows ==
  ASSUME TypeOK, [Next]_vars, NEW m \in Message, queue'[m] > 0
  PROVE  \/ queue[m] > 0
         \/ m[2] = 0
         \/ \E w \in Workers : Retry(w) /\ m = Again(job[w])
         \/ \E w \in Workers : Die(w) /\ m = job[w]
<1>1. queue \in [Message -> Nat] /\ queue[m] \in Nat
  BY DEF TypeOK
<1>2. ASSUME NEW n, queue' = [queue EXCEPT ![n] = @ + 1] PROVE queue[m] > 0 \/ m = n
  BY <1>1, <1>2
<1>3. ASSUME NEW n, queue' = [queue EXCEPT ![n] = @ - 1] PROVE queue[m] > 0
  BY <1>1, <1>3
<1>4. ASSUME NEW d \in Delivery, m = <<d, 0>> PROVE m[2] = 0
  BY <1>4
<1> QED
  BY <1>1, <1>2, <1>3, <1>4, QueueStep

-----------------------------------------------------------------------------
(* Retries are paid for.                                                    *)

(* A deliver task that flushes has POSTed; one that carries a message has   *)
(* paid for its number, and for one more where it is about to retry.       *)
Posted ==
  \A w \in Workers :
    at[w] \in {"flush", "commit", "settle"} /\ job[w] # <<>> => posts[job[w][1]] > 0

Unposted == {m \in Message : m[1][2] \notin Poison /\ posts[m[1]] = 0}

Paid ==
  \A m \in Unposted :
    /\ queue[m] > 0 => m[2] <= faults
    /\ \A w \in Workers : job[w] = m => m[2] <= faults /\ (at[w] = "retry" => m[2] < faults)

MInv == TypeOK /\ Single /\ Posted /\ Paid

(* A POST is never unmade.                                                  *)
LEMMA PostsKept ==
  ASSUME TypeOK, [Next]_vars, NEW d \in Delivery
  PROVE  posts'[d] >= posts[d]
<1>1. posts[d] \in Nat
  BY DEF TypeOK
<1>2. ASSUME NEW w \in Workers, Post(w) PROVE posts'[d] >= posts[d]
  BY <1>1, <1>2 DEF Post, TypeOK
<1> QED
  BY <1>1, <1>2, Kinds DEF Quiet, CommitRows, Loads, Flush, Commit, Ends, receiver

(* Nor is a fault.                                                          *)
LEMMA FaultsKept ==
  ASSUME TypeOK, [Next]_vars
  PROVE  faults \in Nat /\ faults' \in Nat /\ faults' >= faults
<1>1. faults \in Nat /\ faults' \in Nat
  BY TypeStep DEF TypeOK
<1>2. faults' = faults \/ faults' = faults + 1
  BY DEF Next, Dispatch, Receive, Insert, Send, CommitRows, DispatchFails, CreateEndpoint,
         DeleteEndpoint, Pull, Discard, Take, Sweep, Step, Post, Flush, Commit, Settle, Retry, Ack,
         Raise, DeadlockVictim, Fault, DbFails, RetryFails, Die, LoadFails, vars
<1> QED
  BY <1>1, <1>2

LEMMA PostedStep == TypeOK /\ Single /\ Posted /\ [Next]_vars => Posted'
<1> SUFFICES ASSUME TypeOK, Single, Posted, [Next]_vars,
                    NEW w \in Workers, at'[w] \in {"flush", "commit", "settle"}, job'[w] # <<>>
             PROVE  posts'[job'[w][1]] > 0
  BY DEF Posted
<1> USE DEF dispatcher, session, receiver
<1>1. CASE at[w] \in {"flush", "commit", "settle"} /\ job'[w] = job[w]
  <2>1. job[w] \in Message /\ job[w][1] \in Delivery /\ posts[job[w][1]] > 0
    BY <1>1 DEF Posted, TypeOK, Message
  <2>2. posts[job[w][1]] \in Nat /\ posts'[job[w][1]] \in Nat
    BY <2>1, TypeStep DEF TypeOK
  <2> QED
    BY <1>1, <2>1, <2>2, PostsKept
<1>2. CASE Post(w)
  <2>1. job[w] \in Message /\ Head(batch[w]) = job[w][1] /\ job' = job
    BY <1>2 DEF Post, Single, TypeOK
  <2>2. job[w][1] \in Delivery
    BY <2>1 DEF Message
  <2>3. posts[job[w][1]] \in 0..MaxAttempts
        /\ posts'[job[w][1]] = IF posts[job[w][1]] < MaxAttempts THEN posts[job[w][1]] + 1 ELSE posts[job[w][1]]
    BY <1>2, <2>1, <2>2 DEF Post, TypeOK
  <2> QED
    BY <2>1, <2>3
<1>3. CASE Flush(w) \/ Commit(w)
  <2>1. at[w] \in {"flush", "commit", "settle"} /\ job'[w] = job[w]
    BY <1>3 DEF Flush, Commit
  <2> QED
    BY <1>1, <2>1
<1>4. ASSUME \/ Pull(w) \/ Sweep(w) \/ Settle(w) \/ Retry(w) \/ Ack(w) \/ Raise(w) \/ DeadlockVictim(w)
             \/ Fault(w)
      PROVE  at'[w] \notin {"flush", "commit", "settle"} \/ (at' = at /\ job' = job)
  BY <1>4 DEF Pull, Discard, Take, Sweep, Settle, Retry, Ack, Raise, DeadlockVictim, Fault, DbFails,
              RetryFails, Die, LoadFails, Abandon, TypeOK
<1>5. ASSUME NEW v \in Workers \ {w}, Pull(v) \/ Sweep(v) \/ Step(v) \/ Fault(v)
      PROVE  at'[w] = at[w] /\ job'[w] = job[w]
  BY <1>5, BystanderStays
<1>6. ASSUME \/ Dispatch \/ DispatchFails
             \/ \E e \in Endpoints : CreateEndpoint(e) \/ DeleteEndpoint(e)
             \/ UNCHANGED vars
      PROVE  at' = at /\ job' = job
  BY <1>6, OutsideStays
<1> QED
  BY <1>1, <1>2, <1>3, <1>4, <1>5, <1>6 DEF Next, Step

(* What is not POSTed after a step was not before.                          *)
LEMMA UnpostedBefore ==
  ASSUME TypeOK, [Next]_vars, NEW m \in Unposted' PROVE m \in Unposted
<1>1. m \in Message /\ m[1] \in Delivery
  BY DEF Unposted, Message
<1>2. posts[m[1]] \in Nat /\ posts'[m[1]] = 0
  BY <1>1 DEF TypeOK, Unposted
<1> QED
  BY <1>1, <1>2, PostsKept DEF Unposted

LEMMA QueuePaid ==
  ASSUME MInv, [Next]_vars, NEW m \in Unposted', queue'[m] > 0
  PROVE  m[2] <= faults'
<1>1. m \in Unposted /\ m \in Message /\ m[2] \in Nat
  BY UnpostedBefore DEF MInv, Unposted, Message
<1>2. faults \in Nat /\ faults' \in Nat /\ faults' >= faults
  BY FaultsKept DEF MInv
<1>3. CASE queue[m] > 0 \/ m[2] = 0
  BY <1>1, <1>2, <1>3 DEF MInv, Paid
<1>4. ASSUME NEW w \in Workers, Retry(w), m = Again(job[w]) PROVE m[2] <= faults'
  <2>1. at[w] = "retry" /\ job[w] \in Message
    BY <1>4 DEF Retry, MInv, TypeOK
  <2>2. m[1] = job[w][1] /\ m[2] = job[w][2] + 1 /\ job[w][2] \in Nat
    BY <1>4, <2>1 DEF Again, Message
  <2>3. job[w] \in Unposted
    BY <1>1, <2>1, <2>2 DEF Unposted
  <2>4. job[w][2] < faults
    BY <2>1, <2>3 DEF MInv, Paid
  <2> QED
    BY <1>2, <2>2, <2>4
<1>5. ASSUME NEW w \in Workers, Die(w), m = job[w] PROVE m[2] <= faults'
  BY <1>1, <1>2, <1>5 DEF MInv, Paid
<1> QED
  BY <1>1, <1>3, <1>4, <1>5, QueueGrows DEF MInv

LEMMA JobPaid ==
  ASSUME MInv, [Next]_vars, NEW m \in Unposted', NEW w \in Workers, job'[w] = m
  PROVE  m[2] <= faults' /\ (at'[w] = "retry" => m[2] < faults')
<1> USE DEF session, receiver
<1>1. m \in Unposted /\ m \in Message /\ m[2] \in Nat /\ m # <<>> /\ posts[m[1]] = 0 /\ m[1][2] \notin Poison
  BY UnpostedBefore, MessageNotEmpty DEF MInv, Unposted, Message
<1>2. faults \in Nat /\ faults' \in Nat /\ faults' >= faults
  BY FaultsKept DEF MInv
<1>3. CASE job[w] = m /\ (at'[w] = "retry" => at[w] = "retry")
  <2>1. m[2] <= faults /\ (at[w] = "retry" => m[2] < faults)
    BY <1>1, <1>3 DEF MInv, Paid
  <2> QED
    BY <1>1, <1>2, <1>3, <2>1
<1>4. CASE job[w] = m /\ faults' = faults + 1
  <2>1. m[2] <= faults
    BY <1>1, <1>4 DEF MInv, Paid
  <2> QED
    BY <1>1, <1>2, <1>4, <2>1
<1>5. ASSUME NEW n \in Message, Take(w, n) \/ LoadFails(w, n)
      PROVE  m[2] <= faults' /\ (at'[w] = "retry" => m[2] < faults')
  <2>1. n = m /\ queue[m] > 0
    BY <1>5 DEF Take, LoadFails, MInv, TypeOK
  <2>2. m[2] <= faults
    BY <1>1, <2>1 DEF MInv, Paid
  <2>3. CASE Take(w, n)
    <3>1. at'[w] = "post"
      BY <2>3 DEF Take, MInv, TypeOK
    <3> QED
      BY <1>1, <1>2, <2>2, <3>1
  <2>4. CASE LoadFails(w, n)
    <3>1. faults' = faults + 1
      BY <2>4 DEF LoadFails
    <3> QED
      BY <1>1, <1>2, <2>2, <3>1
  <2> QED
    BY <1>5, <2>3, <2>4
<1>6. CASE DbFails(w) \/ RetryFails(w)
  BY <1>4, <1>6 DEF DbFails, RetryFails, Abandon
<1>7. CASE Die(w)
  BY <1>1, <1>7 DEF Die, MInv, TypeOK
<1>8. ASSUME Settle(w) \/ DeadlockVictim(w), job[w] = m PROVE FALSE
  <2>1. at[w] \in {"flush", "settle"}
    BY <1>8 DEF Settle, DeadlockVictim, WaitsFor
  <2> QED
    BY <1>1, <1>8, <2>1 DEF MInv, Posted
<1>9. ASSUME Raise(w), job[w] = m PROVE FALSE
  BY <1>1, <1>9 DEF Raise, MInv, Single
<1>10. ASSUME \/ Sweep(w) \/ Post(w) \/ Flush(w) \/ Commit(w) \/ Retry(w) \/ Ack(w)
              \/ \E n \in Message : Discard(w, n)
       PROVE  job[w] = m /\ (at'[w] = "retry" => at[w] = "retry")
  BY <1>1, <1>10 DEF Sweep, Post, Flush, Commit, Retry, Ack, Discard, MInv, TypeOK
<1>11. ASSUME Settle(w) \/ DeadlockVictim(w) \/ Raise(w) PROVE job[w] = m
  BY <1>11 DEF Settle, DeadlockVictim, Raise, Abandon
<1>12. ASSUME NEW v \in Workers \ {w}, Pull(v) \/ Sweep(v) \/ Step(v) \/ Fault(v)
       PROVE  at'[w] = at[w] /\ job'[w] = job[w]
  BY <1>12, BystanderStays DEF MInv
<1>13. ASSUME \/ Dispatch \/ DispatchFails
              \/ \E e \in Endpoints : CreateEndpoint(e) \/ DeleteEndpoint(e)
              \/ UNCHANGED vars
       PROVE  at' = at /\ job' = job
  BY <1>13, OutsideStays
<1> QED
  BY <1>3, <1>5, <1>6, <1>7, <1>8, <1>9, <1>10, <1>11, <1>12, <1>13 DEF Next, Pull, Step, Fault

LEMMA MInvAlways == Spec => []MInv
<1>1. Init => MInv
  <2> SUFFICES ASSUME Init PROVE MInv
    OBVIOUS
  <2>1. \A m \in Message : queue[m] = 0 /\ \A w \in Workers : job[w] # m
    BY MessageNotEmpty DEF Init
  <2> QED
    BY <2>1, InitType DEF Init, MInv, Single, Posted, Paid, Unposted
<1>2. MInv /\ [Next]_vars => MInv'
  <2> SUFFICES ASSUME MInv, [Next]_vars PROVE Paid'
    BY TypeStep, SingleStep, PostedStep DEF MInv
  <2> QED
    BY QueuePaid, JobPaid DEF Paid
<1> QED
  BY <1>1, <1>2, PTL DEF Spec

(* The k-th retry of a message whose row was not POSTed yet took k failures *)
(* (scheduler_config.py:134): neither the deaths of workers nor what other *)
(* rows raise nor a row that is not committed yet uses them up.            *)
THEOREM RetriesArePaid == Spec => []RetriesPaid
<1>1. MInv => RetriesPaid
  BY DEF MInv, Paid, Unposted, RetriesPaid
<1> QED
  BY <1>1, MInvAlways, PTL

-----------------------------------------------------------------------------
(* Messages are kept.                                                       *)

LEMMA MessageStep ==
  ASSUME Registered, TypeOK, Single, [Next]_vars,
         NEW d \in Delivery, d[2] \notin Poison, rows[d].status = "pending", posts[d] = 0, Tracked(d)
  PROVE  posts'[d] > 0 \/ Tracked(d)' \/ GivenUp(d)
<1>1. CASE \E m \in Message : m[1] = d /\ queue[m] > 0
  <2>1. PICK m \in Message : m[1] = d /\ queue[m] > 0
    BY <1>1
  <2>2. queue[m] \in Nat
    BY DEF TypeOK
  <2>3. \A w \in Workers : ~Discard(w, m)
    BY <2>1 DEF Discard
  <2>4. CASE queue'[m] >= queue[m]
    <3>1. TypeOK'
      BY TypeStep
    <3>2. queue'[m] > 0
      BY <2>1, <2>2, <2>4, <3>1 DEF TypeOK
    <3> QED
      BY <2>1, <3>2 DEF Tracked
  <2>5. ASSUME NEW w \in Workers, Take(w, m) \/ LoadFails(w, m) PROVE Tracked(d)'
    <3>1. at'[w] \in {"post", "retry"} /\ job'[w] = m
      BY <2>5 DEF Take, LoadFails, TypeOK
    <3> QED
      BY <2>1, <3>1, MessageNotEmpty DEF Tracked
  <2> QED
    BY <2>3, <2>4, <2>5, QueueKept DEF Takes
<1>2. ASSUME NEW w \in Workers, at[w] \in {"post", "retry"}, job[w] # <<>>, job[w][1] = d
      PROVE  posts'[d] > 0 \/ Tracked(d)' \/ GivenUp(d)
  <2>1. job[w] \in Message /\ (at[w] = "post" => Head(batch[w]) = d)
    BY <1>2 DEF Single, TypeOK
  <2>2. CASE at'[w] \in {"post", "retry"} /\ job'[w] = job[w]
    BY <1>2, <2>2 DEF Tracked
  <2>3. CASE Post(w)
    <3>1. posts[d] \in 0..MaxAttempts /\ posts'[d] = IF posts[d] < MaxAttempts THEN posts[d] + 1 ELSE posts[d]
      BY <2>1, <2>3 DEF Post, TypeOK
    <3> QED
      BY <3>1
  <2>4. CASE Die(w)
    <3>1. queue' = [queue EXCEPT ![job[w]] = @ + 1]
      BY <1>2, <2>4 DEF Die, Requeued
    <3>2. queue'[job[w]] = queue[job[w]] + 1 /\ queue[job[w]] \in Nat
      BY <2>1, <3>1 DEF TypeOK
    <3> QED
      BY <1>2, <2>1, <3>2 DEF Tracked
  <2>5. CASE Retry(w)
    <3>1. at[w] = "retry" /\ at'[w] = "ack"
      BY <2>5 DEF Retry, TypeOK
    <3>2. job[w][2] \in 0..MaxRetries
      BY <2>1 DEF Message
    <3>3. CASE job[w][2] = MaxRetries
      BY <1>2, <3>1, <3>3 DEF GivenUp
    <3>4. CASE job[w][2] < MaxRetries
      <4> DEFINE n == Again(job[w])
      <4>1. n \in Message /\ n[1] = d
        BY <1>2, <2>1, <3>4, NextMessage DEF Again
      <4>2. queue' = [queue EXCEPT ![n] = @ + 1]
        BY <2>5, <3>4 DEF Retry, Again
      <4> HIDE DEF n
      <4>3. queue'[n] = queue[n] + 1 /\ queue[n] \in Nat
        BY <4>1, <4>2 DEF TypeOK
      <4> QED
        BY <4>1, <4>3 DEF Tracked
    <3> QED
      BY <3>2, <3>3, <3>4
  <2>6. CASE RetryFails(w)
    <3>1. at[w] = "retry" /\ at'[w] = "ack" /\ faults' = faults + 1 /\ faults \in Nat
      BY <2>6 DEF RetryFails, TypeOK
    <3> QED
      BY <1>2, <3>1 DEF GivenUp
  <2>7. CASE DbFails(w)
    <3>1. at'[w] = "retry" /\ job'[w] = job[w]
      BY <1>2, <2>7 DEF DbFails, Abandon, TypeOK
    <3> QED
      BY <2>2, <3>1
  <2>8. ~Raise(w)
    BY <2>1, <1>2 DEF Raise
  <2>9. ~DeadlockVictim(w) /\ ~Flush(w) /\ ~Commit(w) /\ ~Settle(w) /\ ~Ack(w) /\ ~Sweep(w)
        /\ \A m \in Message : ~Take(w, m) /\ ~LoadFails(w, m)
    BY <1>2 DEF DeadlockVictim, WaitsFor, Flush, Commit, Settle, Ack, Sweep, Take, LoadFails
  <2>10. ASSUME NEW v \in Workers \ {w}, Pull(v) \/ Sweep(v) \/ Step(v) \/ Fault(v)
         PROVE  at'[w] = at[w] /\ job'[w] = job[w]
    BY <2>10, BystanderStays
  <2>11. ASSUME \/ Dispatch \/ DispatchFails
                \/ \E e \in Endpoints : CreateEndpoint(e) \/ DeleteEndpoint(e)
                \/ UNCHANGED vars
         PROVE  at' = at /\ job' = job
    BY <2>11, OutsideStays
  <2>12. ASSUME NEW m \in Message, Discard(w, m) PROVE at' = at /\ job' = job
    BY <2>12 DEF Discard
  <2> QED
    BY <1>2, <2>2, <2>3, <2>4, <2>5, <2>6, <2>7, <2>8, <2>9, <2>10, <2>11, <2>12
    DEF Next, Pull, Step, Fault
<1> QED
  BY <1>1, <1>2 DEF Tracked

(* A message that the workers know is with the broker or with a worker      *)
(* until its row was POSTed, unless its attempt raised and could not be    *)
(* retried: no death of a worker loses it, and no rollback of another's    *)
(* (scheduler_config.py:121-122, task_acks_late).                          *)
THEOREM MessagesAreKept == Spec => MessageKept
<1>1. TypeOK /\ Single /\ [Next]_vars =>
        [Registered =>
           \A d \in {x \in Delivery : x[2] \notin Poison} :
             rows[d].status = "pending" /\ posts[d] = 0 /\ Tracked(d) =>
               posts'[d] > 0 \/ Tracked(d)' \/ GivenUp(d)]_vars
  BY MessageStep
<1> QED
  BY <1>1, TypeCorrect, SingleAlways, PTL DEF Spec, MessageKept
=============================================================================
