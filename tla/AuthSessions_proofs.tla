------------------------ MODULE AuthSessions_proofs ------------------------
(***************************************************************************)
(* Proofs about AuthSessions for any number of requests and sessions.      *)
(*                                                                         *)
(* The inductive invariant says what the row locks protect (Locked), that  *)
(* tokens are fresh until they are issued and belong to one session        *)
(* (Tokens), what a refresh knows at each of its steps (Refreshing), and   *)
(* what was true of the answered ones when they were (Answered).           *)
(***************************************************************************)
EXTENDS AuthSessions, TLAPS

(* The transactions that wait for their commit hold what they will write.   *)
Locked ==
  /\ \A q, r \in Requests : q # r => lock[q] \cap lock[r] = {}
  /\ \A r \in Requests :
       /\ pc[r] = "commit" => lock[r] = target[r]
       /\ pc[r] # "commit" => lock[r] = {} /\ code[r] = 0
       /\ pc[r] \notin {"flush", "commit"} => effect[r] = "none" /\ target[r] = {}
       /\ pc[r] = "flush" => effect[r] = "revoke"
       /\ pc[r] = "commit" => effect[r] # "none"
       /\ effect[r] \in {"open", "enrol"} => target[r] = {}
       /\ pc[r] \in {"select", "flush"} => op[r] # "refresh"
       /\ pc[r] \in {"find", "replay"} => op[r] = "refresh"
       /\ pc[r] # "done" => result[r] = "none"

Codes ==
  /\ \A q, r \in Requests : q # r => code[q] = 0 \/ code[r] = 0
  /\ \A r \in Requests : code[r] > 0 => code[r] > last
  /\ \A k \in 1..MaxClock : uses[k] <= 1 /\ (k > last => uses[k] = 0)

Unissued(r) == result[r] # "tokens"

Tokens ==
  /\ \A r \in Requests : Unissued(r) => r \notin known /\ sessions[r] = NoSession
  /\ \A r \in Requests, s \in Rows :
       Unissued(r) => sessions[s].token # r /\ sessions[s].previous # r
  /\ \A r \in Requests : given[r] \in known \cup {NoToken}
  /\ \A s, x \in Rows : sessions[s].token = sessions[x].token => s = x
  /\ \A s, x \in Rows : sessions[s].previous # sessions[x].token
  /\ \A s, x \in Rows :
       sessions[s].previous = sessions[x].previous => s = x \/ sessions[s].previous = NoToken

(* No active session has the token any more.                                *)
Dead(r) == \A s \in Live : sessions[s].token # given[r]

(* What a request that presents a refresh token knows of it.                *)
Knows(r) ==
  /\ effect[r] \in {"rotate", "expire"} =>
       op[r] = "refresh" /\ \E s \in Live : target[r] = {s} /\ sessions[s].token = given[r]
  /\ pc[r] \in {"find", "replay"} => given[r] # NoToken
  /\ op[r] = "refresh" /\ effect[r] = "revoke" =>
       /\ Dead(r) /\ given[r] # NoToken
       /\ \E s \in Rows : target[r] = {s} /\ sessions[s].previous = given[r]
  /\ op[r] = "refresh" => effect[r] \in {"none", "rotate", "expire", "revoke"}
  /\ pc[r] = "replay" => Dead(r)

Refreshing == \A r \in Requests : Knows(r)

Answered ==
  /\ \A r \in Requests : op[r] = "refresh" /\ result[r] = "refused" => Dead(r)
  /\ \A q \in Requests, s \in Rows :
       Refreshed(q) => /\ sessions[s].token # given[q]
                       /\ sessions[s].token = q => sessions[s].previous = given[q]
  /\ ReplayEnds
  /\ ExchangedOnce

(* What a revocation will leave active, and has left.                       *)
Sweeping(r) == op[r] \in {"revokeOthers", "revokeAll"}

Swept ==
  \A r \in Requests : Sweeping(r) =>
    /\ pc[r] \in {"idle", "select", "flush", "commit", "done"}
    /\ pc[r] \in {"flush", "commit"} =>
         effect[r] = "revoke" /\ Live \cap Seeds \subseteq target[r] \cup Spared(r)
    /\ result[r] = "ok" => Live \cap Seeds \subseteq Spared(r)

Inv == TypeOK /\ Locked /\ Codes /\ Tokens /\ Refreshing /\ Answered /\ Swept

USE AuthAssumption

LEMMA InitInv == Init => Inv
<1> SUFFICES ASSUME Init PROVE Inv
  OBVIOUS
<1>1. /\ Rows = Seeds /\ Live = Seeds
      /\ \A s \in Seeds : sessions[s] = [status |-> "active", token |-> s, previous |-> NoToken]
  BY DEF Init, Rows, Live, Session, Id, Token
<1>2. TypeOK
  BY <1>1 DEF Init, TypeOK, Session, Id, Token, Op, Effect
<1>3. Locked /\ Codes
  BY DEF Init, Locked, Codes
<1>4. Tokens
  BY <1>1 DEF Init, Tokens, Id, Token, Unissued
<1>5. Refreshing /\ Answered /\ Swept
  BY <1>1 DEF Init, Refreshing, Knows, Answered, Swept, Sweeping, Refreshed, ReplayEnds, ExchangedOnce
<1> QED
  BY <1>2, <1>3, <1>4, <1>5 DEF Inv

(* The steps of time.                                                       *)
LEMMA TimeInv ==
  ASSUME Inv, (\E s \in Id : Expire(s)) \/ Tick
  PROVE  Inv'
<1>1. /\ UNCHANGED <<sessions, known, last, primary, pc, op, given, caller, target, effect, code,
                    lock, result, uses>>
      /\ late' \subseteq Id /\ clock' \in 1..MaxClock
  BY DEF Expire, Tick, store, intent, txn, Inv, TypeOK
<1>2. Rows' = Rows /\ Live' = Live
  BY <1>1 DEF Rows, Live
<1>3. TypeOK'
  BY <1>1, <1>2 DEF Inv, TypeOK
<1>4. Locked' /\ Codes'
  BY <1>1 DEF Inv, Locked, Codes
<1>5. Tokens' /\ Refreshing'
  BY <1>1, <1>2 DEF Inv, Tokens, Refreshing, Knows, Unissued, Dead
<1>6. Answered' /\ Swept'
  BY <1>1, <1>2 DEF Inv, Answered, Swept, Sweeping, Spared, Dead, ReplayEnds, ExchangedOnce, Refreshed
<1> QED
  BY <1>3, <1>4, <1>5, <1>6 DEF Inv

(* A step of one request that leaves the tables and the answers alone.      *)
LEMMA LoginInv ==
  ASSUME NEW r \in Requests, Inv, Login(r)
  PROVE  Inv'
<1>1. /\ UNCHANGED <<sessions, late, clock, last, primary, known, uses, given, caller, target,
                    code, lock, result>>
      /\ op' = [op EXCEPT ![r] = "login"] /\ effect' = [effect EXCEPT ![r] = "open"]
      /\ pc' = [pc EXCEPT ![r] = "commit"] /\ pc[r] = "idle"
  BY DEF Login, Goto, store, world
<1>2. Rows' = Rows /\ Live' = Live
  BY <1>1 DEF Rows, Live
<1>3. TypeOK'
  BY <1>1, <1>2 DEF Inv, TypeOK, Op, Effect
<1>4. Locked'
  BY <1>1, ZenonT(60) DEF Inv, TypeOK, Locked
<1>5. Codes'
  BY <1>1 DEF Inv, Codes
<1>6. Tokens'
  BY <1>1, <1>2 DEF Inv, Tokens, Unissued
<1>7. Refreshing'
  BY <1>1, <1>2 DEF Inv, TypeOK, Locked, Refreshing, Knows, Dead
<1>8. Answered'
  BY <1>1, <1>2 DEF Inv, TypeOK, Locked, Answered, Dead, ReplayEnds, ExchangedOnce, Refreshed
<1>9. Swept'
  BY <1>1, <1>2 DEF Inv, TypeOK, Swept, Sweeping, Spared
<1> QED
  BY <1>3, <1>4, <1>5, <1>6, <1>7, <1>8, <1>9 DEF Inv

LEMMA WebLoginInv ==
  ASSUME NEW r \in Requests, Inv, WebLogin(r)
  PROVE  Inv'
<1>1. /\ UNCHANGED <<sessions, late, clock, last, primary, uses, given, caller>>
      /\ op' = [op EXCEPT ![r] = "webLogin"] /\ pc' = [pc EXCEPT ![r] = "done"]
      /\ result' = [result EXCEPT ![r] = "tokens"] /\ result[r] = "none"
      /\ target' = [target EXCEPT ![r] = {}] /\ effect' = [effect EXCEPT ![r] = "none"]
      /\ code' = [code EXCEPT ![r] = 0] /\ lock' = [lock EXCEPT ![r] = {}]
      /\ known \subseteq known' /\ known' \subseteq known \cup {r}
  BY DEF WebLogin, End, Goto, store, Inv, Locked
<1>2. Rows' = Rows /\ Live' = Live
  BY <1>1 DEF Rows, Live
<1>3. TypeOK'
  BY <1>1, <1>2 DEF Inv, TypeOK, Op, Effect, Token, Id
<1>4. Locked'
  BY <1>1 DEF Inv, TypeOK, Locked
<1>5. Codes'
  BY <1>1 DEF Inv, TypeOK, Codes
<1>6. Tokens'
  <2>1. \A q \in Requests : Unissued(q)' => Unissued(q) /\ q # r
    BY <1>1 DEF Inv, TypeOK, Unissued
  <2> QED
    BY <1>1, <1>2, <2>1 DEF Inv, Tokens
<1>7. Refreshing'
  <2>1. ASSUME NEW q \in Requests, q # r PROVE Knows(q)'
    BY <1>1, <1>2, <2>1 DEF Inv, TypeOK, Refreshing, Knows, Dead
  <2>2. Knows(r)'
    BY <1>1 DEF Inv, TypeOK, Knows
  <2> QED
    BY <2>1, <2>2 DEF Refreshing
<1>8. \A q \in Requests : Refreshed(q)' => Refreshed(q) /\ q # r
  BY <1>1 DEF Inv, TypeOK, Refreshed
<1>9. Answered'
  BY <1>1, <1>2, <1>8 DEF Inv, TypeOK, Answered, Dead, ReplayEnds, ExchangedOnce
<1>10. Swept'
  BY <1>1, <1>2 DEF Inv, TypeOK, Swept, Sweeping, Spared
<1> QED
  BY <1>3, <1>4, <1>5, <1>6, <1>7, <1>9, <1>10 DEF Inv

LEMMA RefreshInv ==
  ASSUME NEW r \in Requests, Inv, Refresh(r)
  PROVE  Inv'
<1>1. /\ UNCHANGED <<sessions, late, clock, last, primary, known, uses, caller, target,
                    effect, code, lock, result>>
      /\ op' = [op EXCEPT ![r] = "refresh"] /\ pc' = [pc EXCEPT ![r] = "find"] /\ pc[r] = "idle"
  BY DEF Refresh, Goto, store, world, txn
<1>2. PICK t \in known : given' = [given EXCEPT ![r] = t]
  BY DEF Refresh
<1>3. Rows' = Rows /\ Live' = Live
  BY <1>1 DEF Rows, Live
<1>4. t \in Token /\ t # NoToken
  BY DEF Inv, TypeOK
<1>5. TypeOK'
  BY <1>1, <1>2, <1>3, <1>4 DEF Inv, TypeOK, Op
<1>6. Locked' /\ Codes'
  BY <1>1 DEF Inv, TypeOK, Locked, Codes
<1>7. Tokens'
  BY <1>1, <1>2, <1>3 DEF Inv, TypeOK, Tokens, Unissued
<1>8. Refreshing'
  <2>1. ASSUME NEW q \in Requests, q # r PROVE Knows(q)'
    BY <1>1, <1>2, <1>3, <2>1 DEF Inv, TypeOK, Refreshing, Knows, Dead
  <2>2. Knows(r)'
    BY <1>1, <1>2, <1>4 DEF Inv, TypeOK, Locked, Knows
  <2> QED
    BY <2>1, <2>2 DEF Refreshing
<1>9. Answered' /\ Swept'
  <2>1. \A q \in Requests : result[q] # "none" => q # r
    BY <1>1 DEF Inv, Locked
  <2>2. Answered'
    BY <1>1, <1>2, <1>3, <2>1
       DEF Inv, TypeOK, Answered, Dead, ReplayEnds, ExchangedOnce, Refreshed
  <2>3. Swept'
    BY <1>1, <1>3 DEF Inv, TypeOK, Swept, Sweeping, Spared
  <2> QED
    BY <2>2, <2>3
<1> QED
  BY <1>5, <1>6, <1>7, <1>8, <1>9 DEF Inv

(* A transaction that ends without a commit: refused or rolled back.        *)
LEMMA EndInv ==
  ASSUME NEW r \in Requests, Inv, NEW what \in Op, NEW answer \in {"refused", "lost"},
         op' = [op EXCEPT ![r] = what], End(r, answer),
         UNCHANGED <<store, world, given, caller, uses>>,
         what = "refresh" /\ answer = "refused" =>
           Dead(r) /\ \A s \in Live : sessions[s].previous # given[r],
         result[r] = "none"
  PROVE  Inv'
<1>1. /\ UNCHANGED <<sessions, late, clock, last, primary, known, uses, given, caller>>
      /\ pc' = [pc EXCEPT ![r] = "done"] /\ result' = [result EXCEPT ![r] = answer]
      /\ target' = [target EXCEPT ![r] = {}] /\ effect' = [effect EXCEPT ![r] = "none"]
      /\ code' = [code EXCEPT ![r] = 0] /\ lock' = [lock EXCEPT ![r] = {}]
  BY DEF End, Goto, store, world
<1>2. Rows' = Rows /\ Live' = Live
  BY <1>1 DEF Rows, Live
<1>3. TypeOK'
  BY <1>1, <1>2 DEF Inv, TypeOK, Effect
<1>4. Locked'
  BY <1>1 DEF Inv, TypeOK, Locked
<1>5. Codes'
  BY <1>1 DEF Inv, TypeOK, Codes
<1>6. Tokens'
  BY <1>1, <1>2 DEF Inv, TypeOK, Tokens, Unissued
<1>7. Refreshing'
  <2>1. ASSUME NEW q \in Requests, q # r PROVE Knows(q)'
    BY <1>1, <1>2, <2>1 DEF Inv, TypeOK, Refreshing, Knows, Dead
  <2>2. Knows(r)'
    BY <1>1, <1>2 DEF Inv, TypeOK, Knows
  <2> QED
    BY <2>1, <2>2 DEF Refreshing
<1>8. Answered'
  <2>1. \A q \in Requests : Refreshed(q)' => Refreshed(q) /\ q # r
    BY <1>1 DEF Inv, TypeOK, Refreshed
  <2>2. \A q \in Requests : (op[q] = "refresh" /\ result[q] = "refused")' => Dead(q)'
    BY <1>1, <1>2 DEF Inv, TypeOK, Answered, Dead
  <2>3. \A q \in Requests, s \in Rows' :
          Refreshed(q)' => /\ sessions'[s].token # given'[q]
                           /\ sessions'[s].token = q => sessions'[s].previous = given'[q]
    BY <1>1, <1>2, <2>1 DEF Inv, Answered
  <2>4. ExchangedOnce'
    BY <1>1, <2>1 DEF Inv, Answered, ExchangedOnce
  <2>5. ReplayEnds'
    <3> SUFFICES ASSUME NEW q \in Requests, NEW p \in Requests, NEW s \in Live,
                        Refreshed(q)', (op[p] = "refresh" /\ result[p] = "refused")',
                        given[p] = given[q]
                 PROVE  sessions[s].token # q
      BY <1>1, <1>2 DEF ReplayEnds
    <3>1. CASE p = r
      BY <1>1, <2>1, <3>1 DEF Inv, TypeOK, Answered, Live
    <3>2. CASE p # r
      BY <1>1, <2>1, <3>2 DEF Inv, TypeOK, Answered, ReplayEnds
    <3> QED
      BY <3>1, <3>2
  <2> QED
    BY <2>2, <2>3, <2>4, <2>5 DEF Answered
<1>9. Swept'
  BY <1>1, <1>2 DEF Inv, TypeOK, Swept, Sweeping, Spared
<1> QED
  BY <1>3, <1>4, <1>5, <1>6, <1>7, <1>8, <1>9 DEF Inv

LEMMA AbortInv ==
  ASSUME NEW r \in Requests, Inv, Abort(r)
  PROVE  Inv'
<1>1. op' = [op EXCEPT ![r] = op[r]] /\ op[r] \in Op /\ result[r] = "none"
  BY DEF Abort, intent, Inv, TypeOK, Locked
<1> QED
  BY <1>1, EndInv DEF Abort, intent

LEMMA UseCodeInv ==
  ASSUME NEW r \in Requests, NEW what \in Op, Inv, UseCode(r, what)
  PROVE  Inv'
<1>1. CASE clock <= last /\ End(r, "refused")
  BY <1>1, EndInv DEF UseCode, Inv, TypeOK, Locked
<1>2. CASE /\ clock > last /\ UNCHANGED <<target, lock, result>>
           /\ code' = [code EXCEPT ![r] = clock] /\ Goto(r, "commit")
           /\ effect' = [effect EXCEPT ![r] = IF what = "verify" THEN "open" ELSE "enrol"]
  <2>1. /\ UNCHANGED <<sessions, late, clock, last, primary, known, uses, given, caller, target,
                      lock, result>>
        /\ op' = [op EXCEPT ![r] = what] /\ what \in {"verify", "confirm"}
        /\ effect' = [effect EXCEPT ![r] = effect'[r]] /\ effect'[r] \in {"open", "enrol"}
        /\ pc' = [pc EXCEPT ![r] = "commit"] /\ pc[r] = "idle"
        /\ code' = [code EXCEPT ![r] = clock] /\ clock > last /\ MethodFree(r)
    BY <1>2 DEF UseCode, Goto, store, world, Inv, TypeOK
  <2>2. Rows' = Rows /\ Live' = Live
    BY <2>1 DEF Rows, Live
  <2>3. TypeOK'
    <3>1. clock \in 0..MaxClock
      BY DEF Inv, TypeOK
    <3>2. code' \in [Requests -> 0..MaxClock]
      BY <2>1, <3>1 DEF Inv, TypeOK
    <3>3. effect' \in [Requests -> Effect]
      BY <2>1 DEF Inv, TypeOK, Effect
    <3>4. TypeOK
      BY DEF Inv
    <3> QED
      BY <2>1, <2>2, <3>2, <3>3, <3>4 DEF TypeOK
  <2>4. Locked'
    BY <2>1, ZenonT(60) DEF Inv, TypeOK, Locked
  <2>5. Codes'
    BY <2>1 DEF Inv, TypeOK, Codes, MethodFree
  <2>6. Tokens'
    BY <2>1, <2>2 DEF Inv, Tokens, Unissued
  <2>7. Refreshing'
    <3>1. ASSUME NEW q \in Requests, q # r PROVE Knows(q)'
      BY <2>1, <2>2, <3>1 DEF Inv, TypeOK, Refreshing, Knows, Dead
    <3>2. Knows(r)'
      BY <2>1, <2>2 DEF Inv, TypeOK, Knows
    <3> QED
      BY <3>1, <3>2 DEF Refreshing
  <2>8. Answered'
    BY <2>1, <2>2 DEF Inv, TypeOK, Locked, Answered, Dead, ReplayEnds, ExchangedOnce, Refreshed
  <2>9. Swept'
    BY <2>1, <2>2 DEF Inv, TypeOK, Swept, Sweeping, Spared
  <2> QED
    BY <2>3, <2>4, <2>5, <2>6, <2>7, <2>8, <2>9 DEF Inv
<1> QED
  BY <1>1, <1>2 DEF UseCode

(* FOR UPDATE: the session is read and locked in one step.                  *)
LEMMA HeldInv ==
  ASSUME NEW r \in Requests, Inv, NEW s \in Live, NEW what \in {"expire", "rotate", "revoke"},
         pc[r] \in {"find", "replay"}, Claimable(r, s), Held(r, s, what),
         UNCHANGED <<store, world, intent, code, result, uses>>,
         what # "revoke" => sessions[s].token = given[r],
         what = "revoke" => Dead(r) /\ sessions[s].previous = given[r]
  PROVE  Inv'
<1>1. /\ UNCHANGED <<sessions, late, clock, last, primary, known, uses, op, given, caller,
                    code, result>>
      /\ pc' = [pc EXCEPT ![r] = "commit"] /\ effect' = [effect EXCEPT ![r] = what]
      /\ lock' = [lock EXCEPT ![r] = {s}] /\ target' = [target EXCEPT ![r] = {s}]
      /\ s \in Rows /\ s \in Id /\ op[r] = "refresh" /\ given[r] # NoToken
  BY DEF Held, Goto, store, world, intent, Inv, Locked, Refreshing, Knows, Live, Rows
<1>2. Rows' = Rows /\ Live' = Live
  BY <1>1 DEF Rows, Live
<1>3. TypeOK'
  BY <1>1, <1>2 DEF Inv, TypeOK, Effect
<1>4. Locked'
  BY <1>1 DEF Inv, TypeOK, Locked, Claimable, Free
<1>5. Codes'
  BY <1>1 DEF Inv, TypeOK, Codes
<1>6. Tokens'
  BY <1>1, <1>2 DEF Inv, TypeOK, Tokens, Unissued
<1>7. Refreshing'
  <2>1. ASSUME NEW q \in Requests, q # r PROVE Knows(q)'
    BY <1>1, <1>2, <2>1 DEF Inv, TypeOK, Refreshing, Knows, Dead
  <2>2. Knows(r)'
    BY <1>1, <1>2 DEF Inv, TypeOK, Knows, Dead
  <2> QED
    BY <2>1, <2>2 DEF Refreshing
<1>8. Answered'
  BY <1>1, <1>2 DEF Inv, Answered, Dead, ReplayEnds, ExchangedOnce, Refreshed
<1>9. Swept'
  BY <1>1, <1>2 DEF Inv, TypeOK, Swept, Sweeping, Spared
<1> QED
  BY <1>3, <1>4, <1>5, <1>6, <1>7, <1>8, <1>9 DEF Inv

LEMMA FindInv ==
  ASSUME NEW r \in Requests, Inv, Find(r)
  PROVE  Inv'
<1> DEFINE found == {s \in Live : sessions[s].token = given[r]}
<1>1. CASE \E s \in found : Claimable(r, s) /\ Held(r, s, IF s \in late THEN "expire" ELSE "rotate")
  BY <1>1, HeldInv DEF Find
<1>2. CASE found = {} /\ Goto(r, "replay") /\ UNCHANGED <<lock, target, effect>>
  <2>1. /\ UNCHANGED <<sessions, late, clock, last, primary, known, uses, op, given, caller,
                      code, result, lock, target, effect>>
        /\ pc' = [pc EXCEPT ![r] = "replay"] /\ pc[r] = "find" /\ Dead(r)
    BY <1>2 DEF Find, Goto, store, world, intent, Dead
  <2>2. Rows' = Rows /\ Live' = Live
    BY <2>1 DEF Rows, Live
  <2>3. TypeOK' /\ Codes'
    BY <2>1, <2>2 DEF Inv, TypeOK, Codes
  <2>4. Locked'
    BY <2>1 DEF Inv, TypeOK, Locked
  <2>5. Tokens' /\ Answered'
    BY <2>1, <2>2
       DEF Inv, Tokens, Unissued, Answered, Dead, ReplayEnds, ExchangedOnce, Refreshed
  <2>6. Refreshing'
    <3>1. ASSUME NEW q \in Requests, q # r PROVE Knows(q)'
      BY <2>1, <2>2, <3>1 DEF Inv, TypeOK, Refreshing, Knows, Dead
    <3>2. Knows(r)'
      BY <2>1, <2>2 DEF Inv, TypeOK, Refreshing, Knows, Dead
    <3> QED
      BY <3>1, <3>2 DEF Refreshing
  <2>7. Swept'
    BY <2>1, <2>2 DEF Inv, TypeOK, Locked, Swept, Sweeping, Spared
  <2> QED
    BY <2>3, <2>4, <2>5, <2>6, <2>7 DEF Inv
<1> QED
  BY <1>1, <1>2 DEF Find

LEMMA ReplayInv ==
  ASSUME NEW r \in Requests, Inv, Replay(r)
  PROVE  Inv'
<1> DEFINE found == {s \in Live : sessions[s].previous = given[r]}
<1>1. op[r] = "refresh" /\ Dead(r) /\ result[r] = "none" /\ op' = [op EXCEPT ![r] = op[r]]
  BY DEF Replay, intent, Inv, TypeOK, Locked, Refreshing, Knows
<1>2. CASE \E s \in found : /\ Claimable(r, s) /\ Held(r, s, "revoke") /\ UNCHANGED <<code, result>>
  BY <1>1, <1>2, HeldInv DEF Replay
<1>3. CASE found = {} /\ End(r, "refused")
  BY <1>1, <1>3, EndInv DEF Replay, intent, Op
<1> QED
  BY <1>2, <1>3 DEF Replay

LEMMA BeginInv ==
  ASSUME NEW r \in Requests, NEW what \in Op, Inv, Begin(r, what)
  PROVE  Inv'
<1>1. /\ UNCHANGED <<sessions, late, clock, last, primary, known, uses, target, effect, code,
                    lock, result>>
      /\ op' = [op EXCEPT ![r] = what] /\ what # "refresh"
      /\ pc' = [pc EXCEPT ![r] = "select"] /\ pc[r] = "idle"
  BY DEF Begin, Goto, store, world, txn
<1>2. Rows' = Rows /\ Live' = Live
  BY <1>1 DEF Rows, Live
<1>3. PICK t \in known \cup {NoToken} : given' = [given EXCEPT ![r] = t]
  <2>1. \/ given' = [given EXCEPT ![r] = given[r]] /\ given[r] \in known \cup {NoToken}
        \/ \E t \in known : given' = [given EXCEPT ![r] = t]
    BY DEF Begin, Inv, TypeOK, Tokens
  <2> QED
    BY <2>1
<1>3a. PICK c \in Id \cup {NoToken} : caller' = [caller EXCEPT ![r] = c]
  <2>1. \/ caller' = [caller EXCEPT ![r] = caller[r]] /\ caller[r] \in Id \cup {NoToken}
        \/ \E c \in Id : caller' = [caller EXCEPT ![r] = c]
    BY DEF Begin, Inv, TypeOK, Live, Rows
  <2> QED
    BY <2>1
<1>4. TypeOK'
  BY <1>1, <1>2, <1>3, <1>3a DEF Inv, TypeOK
<1>5. Locked' /\ Codes'
  BY <1>1 DEF Inv, TypeOK, Locked, Codes
<1>6. Tokens'
  BY <1>1, <1>2, <1>3 DEF Inv, TypeOK, Tokens, Unissued
<1>7. Refreshing'
  <2>1. ASSUME NEW q \in Requests, q # r PROVE Knows(q)'
    BY <1>1, <1>2, <1>3, <2>1 DEF Inv, TypeOK, Refreshing, Knows, Dead
  <2>2. Knows(r)'
    BY <1>1, <1>2 DEF Inv, TypeOK, Locked, Knows
  <2> QED
    BY <2>1, <2>2 DEF Refreshing
<1>8. \A q \in Requests : result[q] # "none" => q # r
  BY <1>1 DEF Inv, Locked
<1>9. Answered'
  BY <1>1, <1>2, <1>3, <1>8
     DEF Inv, TypeOK, Answered, Dead, ReplayEnds, ExchangedOnce, Refreshed
<1>10. Swept'
  BY <1>1, <1>2, <1>3, <1>3a, <1>8 DEF Inv, TypeOK, Swept, Sweeping, Spared
<1> QED
  BY <1>4, <1>5, <1>6, <1>7, <1>9, <1>10 DEF Inv

LEMMA SelectInv ==
  ASSUME NEW r \in Requests, Inv, Select(r)
  PROVE  Inv'
<1>1. pc[r] = "select" /\ result[r] = "none" /\ op[r] # "refresh" /\ op' = [op EXCEPT ![r] = op[r]]
      /\ code[r] = 0
  BY DEF Select, intent, Inv, TypeOK, Locked
<1>2. CASE Chosen(r) = {} /\ End(r, "refused")
  BY <1>1, <1>2, EndInv DEF Select, intent, Inv, TypeOK
<1>3. CASE /\ \E S \in Chosen(r) : /\ target' = [target EXCEPT ![r] = S]
                                   /\ effect' = [effect EXCEPT ![r] = "revoke"]
           /\ Goto(r, "flush") /\ UNCHANGED <<code, lock, result>>
  <2>1. PICK S \in Chosen(r) : target' = [target EXCEPT ![r] = S]
    BY <1>3
  <2>2. S \subseteq Rows /\ (Sweeping(r) => Live \cap Seeds \subseteq S \cup Spared(r))
    BY DEF Chosen, Sweeping, Unrevoked, Live
  <2>3. /\ UNCHANGED <<sessions, late, clock, last, primary, known, uses, op, given, caller,
                      code, result, lock>>
        /\ effect' = [effect EXCEPT ![r] = "revoke"] /\ pc' = [pc EXCEPT ![r] = "flush"]
    BY <1>3 DEF Select, Goto, store, world, intent
  <2>4. Rows' = Rows /\ Live' = Live /\ Rows \subseteq Id
    BY <2>3 DEF Rows, Live
  <2>5. TypeOK'
    <3>1. lock[r] = {}
      BY <1>1 DEF Inv, Locked
    <3> QED
      BY <2>1, <2>2, <2>3, <2>4, <3>1 DEF Inv, TypeOK, Effect
  <2>6. Locked' /\ Codes'
    BY <1>1, <2>1, <2>3 DEF Inv, TypeOK, Locked, Codes
  <2>7. Tokens' /\ Answered'
    BY <2>3, <2>4
       DEF Inv, Tokens, Unissued, Answered, Dead, ReplayEnds, ExchangedOnce, Refreshed
  <2>8. Refreshing'
    <3>1. ASSUME NEW q \in Requests, q # r PROVE Knows(q)'
      BY <2>1, <2>3, <2>4, <3>1 DEF Inv, TypeOK, Refreshing, Knows, Dead
    <3>2. Knows(r)'
      BY <1>1, <2>3 DEF Inv, TypeOK, Knows
    <3> QED
      BY <3>1, <3>2 DEF Refreshing
  <2>9. Swept'
    BY <1>1, <2>1, <2>2, <2>3, <2>4 DEF Inv, TypeOK, Swept, Sweeping, Spared
  <2> QED
    BY <2>5, <2>6, <2>7, <2>8, <2>9 DEF Inv
<1> QED
  BY <1>2, <1>3 DEF Select

LEMMA FlushInv ==
  ASSUME NEW r \in Requests, Inv, Flush(r)
  PROVE  Inv'
<1>1. /\ UNCHANGED <<sessions, late, clock, last, primary, known, uses, op, given, caller,
                    code, result, target, effect>>
      /\ lock' = [lock EXCEPT ![r] = target[r]]
      /\ pc' = [pc EXCEPT ![r] = "commit"] /\ pc[r] = "flush" /\ Free(r, target[r])
      /\ effect[r] = "revoke" /\ op[r] # "refresh" /\ code[r] = 0 /\ result[r] = "none"
  BY DEF Flush, Goto, store, world, intent, Inv, Locked
<1>2. Rows' = Rows /\ Live' = Live
  BY <1>1 DEF Rows, Live
<1>3. TypeOK'
  BY <1>1, <1>2 DEF Inv, TypeOK
<1>4. Locked'
  BY <1>1 DEF Inv, TypeOK, Locked, Free
<1>5. Codes' /\ Tokens' /\ Answered'
  BY <1>1, <1>2
     DEF Inv, Codes, Tokens, Unissued, Answered, Dead, ReplayEnds, ExchangedOnce, Refreshed
<1>6. Refreshing'
  <2>1. ASSUME NEW q \in Requests, q # r PROVE Knows(q)'
    BY <1>1, <1>2, <2>1 DEF Inv, TypeOK, Refreshing, Knows, Dead
  <2>2. Knows(r)'
    BY <1>1 DEF Inv, TypeOK, Knows
  <2> QED
    BY <2>1, <2>2 DEF Refreshing
<1>7. Swept'
  BY <1>1, <1>2 DEF Inv, TypeOK, Swept, Sweeping, Spared
<1> QED
  BY <1>3, <1>4, <1>5, <1>6, <1>7 DEF Inv

(* What a commit does to the rows: most keep their tokens, one may be       *)
(* rotated, one may be new, and a row it revokes or expires is not active.  *)
Kept(s) == s \in Rows /\ sessions'[s].token = sessions[s].token
                      /\ sessions'[s].previous = sessions[s].previous

Rotated(r, s) ==
  /\ effect[r] = "rotate" /\ target[r] = {s} /\ s \in Live /\ sessions[s].token = given[r]
  /\ sessions'[s].token = r /\ sessions'[s].previous = given[r]

New(r, s) ==
  /\ effect[r] = "open" /\ s = r /\ s \notin Rows
  /\ sessions'[s].token = r /\ sessions'[s].previous = NoToken

LEMMA CommitRows ==
  ASSUME NEW r \in Requests, Inv, Commit(r)
  PROVE  /\ \A s \in Rows' : Kept(s) \/ Rotated(r, s) \/ New(r, s)
         /\ \A s \in Id \ target[r] : s # r => sessions'[s] = sessions[s]
         /\ Rows \subseteq Rows' /\ Live' \subseteq Live \cup {r}
         /\ effect[r] \in {"revoke", "expire"} => Live' \subseteq Live \ target[r]
         /\ effect[r] # "open" => sessions'[r] = NoSession /\ Live' \subseteq Live
         /\ sessions' \in [Id -> Session \cup {NoSession}]
<1>1. /\ pc[r] = "commit" /\ result[r] = "none" /\ effect[r] # "none" /\ r \in Id
      /\ r \notin Rows /\ target[r] \subseteq Rows /\ Rows \subseteq Id
      /\ sessions[r] = NoSession
      /\ effect[r] \in {"open", "enrol"} => target[r] = {}
  BY DEF Commit, Inv, TypeOK, Locked, Tokens, Unissued, Rows, Id
<1>2. sessions' = [s \in Id |-> IF effect[r] = "open" /\ s = r THEN Opened(r)
                                ELSE IF s \in target[r] THEN Written(r, sessions[s])
                                ELSE sessions[s]]
  BY DEF Commit
<1>3. \A s \in Rows : sessions[s] \in Session
  BY DEF Inv, TypeOK, Rows
<1>4. \A s \in target[r] :
        /\ sessions'[s] = Written(r, sessions[s]) /\ sessions'[s] \in Session
        /\ sessions'[s].status \in {"revoked", "expired", sessions[s].status}
        /\ effect[r] # "rotate" => /\ sessions'[s].status # "active"
                                   /\ sessions'[s].token = sessions[s].token
                                   /\ sessions'[s].previous = sessions[s].previous
        /\ effect[r] = "rotate" => Rotated(r, s)
  <2>1. ASSUME NEW s \in target[r]
        PROVE  sessions'[s] = Written(r, sessions[s]) /\ s \in Rows
    BY <1>1, <1>2
  <2>2. given[r] \in Token \cup {NoToken} /\ r \in Token
    BY DEF Inv, TypeOK, Token, Id
  <2>3. ASSUME NEW s \in target[r], effect[r] = "rotate"
        PROVE  sessions'[s] \in Session /\ Rotated(r, s)
               /\ sessions'[s].status = sessions[s].status
    <3>1. target[r] = {s} /\ s \in Live /\ sessions[s].token = given[r]
      BY <2>3 DEF Inv, Refreshing, Knows
    <3>2. sessions'[s] = [sessions[s] EXCEPT !.token = r, !.previous = given[r]]
      BY <2>1, <2>3 DEF Written
    <3>3. sessions[s] \in Session
      BY <1>3, <2>1
    <3>4. sessions'[s] \in Session /\ sessions'[s].status = sessions[s].status
      BY <2>2, <3>2, <3>3 DEF Session
    <3>5. sessions'[s].token = r /\ sessions'[s].previous = given[r]
      BY <3>2, <3>3 DEF Session
    <3> QED
      BY <2>3, <3>1, <3>4, <3>5 DEF Rotated
  <2>4. ASSUME NEW s \in target[r], effect[r] # "rotate"
        PROVE  /\ sessions'[s] \in Session /\ sessions'[s].status \in {"revoked", "expired"}
               /\ sessions'[s].token = sessions[s].token
               /\ sessions'[s].previous = sessions[s].previous
    <3>1. \/ sessions'[s] = [sessions[s] EXCEPT !.status = "revoked"]
          \/ sessions'[s] = [sessions[s] EXCEPT !.status = "expired"]
      BY <2>1, <2>4 DEF Written
    <3> QED
      BY <1>3, <2>1, <3>1 DEF Session
  <2> QED
    BY <2>1, <2>3, <2>4
<1>5. effect[r] = "open" => /\ sessions'[r] = Opened(r) /\ Opened(r) \in Session
                            /\ sessions'[r].token = r /\ sessions'[r].previous = NoToken
  BY <1>1, <1>2 DEF Opened, Session, Token
<1>6. \A s \in Id \ target[r] :
        (s # r \/ effect[r] # "open") => sessions'[s] = sessions[s]
  BY <1>2
<1>7. \A s \in Id : sessions'[s] \in Session \cup {NoSession}
  BY <1>3, <1>4, <1>5, <1>6 DEF Rows
<1>8. \A s \in Rows' : Kept(s) \/ Rotated(r, s) \/ New(r, s)
  BY <1>1, <1>4, <1>5, <1>6 DEF Rows, Kept, New
<1>9. Rows \subseteq Rows'
  BY <1>1, <1>4, <1>6 DEF Rows
<1>10. /\ Live' \subseteq Live \cup {r}
       /\ effect[r] \in {"revoke", "expire"} => Live' \subseteq Live \ target[r]
       /\ effect[r] # "open" => sessions'[r] = NoSession /\ Live' \subseteq Live
  BY <1>1, <1>4, <1>6 DEF Rows, Live
<1> QED
  BY <1>2, <1>6, <1>7, <1>8, <1>9, <1>10

LEMMA CommitInv ==
  ASSUME NEW r \in Requests, Inv, Commit(r)
  PROVE  Inv'
<1>1. /\ UNCHANGED <<late, clock, op, given, caller>>
      /\ pc' = [pc EXCEPT ![r] = "done"] /\ result' = [result EXCEPT ![r] = Answer(r)]
      /\ target' = [target EXCEPT ![r] = {}] /\ effect' = [effect EXCEPT ![r] = "none"]
      /\ code' = [code EXCEPT ![r] = 0] /\ lock' = [lock EXCEPT ![r] = {}]
      /\ last' = (IF code[r] > 0 THEN code[r] ELSE last)
      /\ primary' = (primary \/ effect[r] = "enrol")
      /\ known' \in {known} \cup (IF Answer(r) = "tokens" THEN {known \cup {r}} ELSE {})
      /\ uses' = (IF code[r] > 0 THEN [uses EXCEPT ![code[r]] = @ + 1] ELSE uses)
  BY DEF Commit, End, Goto, intent
<1>2. /\ \A s \in Rows' : Kept(s) \/ Rotated(r, s) \/ New(r, s)
      /\ \A s \in Id \ target[r] : s # r => sessions'[s] = sessions[s]
      /\ Rows \subseteq Rows' /\ Live' \subseteq Live \cup {r}
      /\ effect[r] \in {"revoke", "expire"} => Live' \subseteq Live \ target[r]
      /\ effect[r] # "open" => sessions'[r] = NoSession /\ Live' \subseteq Live
      /\ sessions' \in [Id -> Session \cup {NoSession}]
  BY CommitRows
<1>3. /\ pc[r] = "commit" /\ result[r] = "none" /\ effect[r] # "none" /\ r \in Id
      /\ r \notin Rows /\ r \notin known /\ r # NoToken /\ r \notin Seeds
      /\ sessions[r] = NoSession /\ lock[r] = target[r]
      /\ \A s \in Rows : sessions[s].token # r /\ sessions[s].previous # r
      /\ \A q \in Requests : given[q] \in known \cup {NoToken} /\ given[q] # r
      /\ \A s \in Rows : sessions[s] \in Session /\ sessions[s].token # NoToken
      /\ Answer(r) \in {"tokens", "ok", "refused"}
      /\ Answer(r) = "tokens" <=> effect[r] \in {"open", "rotate"}
      /\ Live \subseteq Rows /\ Live' \subseteq Rows' /\ Rows \subseteq Id
  BY DEF Commit, Inv, TypeOK, Locked, Tokens, Unissued, Rows, Live, Id, Token, Answer, Session
<1>4. TypeOK'
  <2>1. /\ known' \subseteq Token /\ last' \in 0..MaxClock /\ primary' \in BOOLEAN
        /\ result' \in [Requests -> {"none", "tokens", "ok", "refused", "lost"}]
    BY <1>1, <1>3 DEF Inv, TypeOK, Token
  <2>2. uses' \in [1..MaxClock -> Nat]
    <3>1. code[r] > 0 => code[r] \in 1..MaxClock
      BY DEF Inv, TypeOK
    <3> QED
      BY <1>1, <3>1 DEF Inv, TypeOK
  <2>3. code' \in [Requests -> 0..MaxClock] /\ effect' \in [Requests -> Effect]
    BY <1>1 DEF Inv, TypeOK, Effect
  <2>4. \A q \in Requests : target'[q] \subseteq Rows' /\ lock'[q] \subseteq target'[q]
    BY <1>1, <1>2 DEF Inv, TypeOK
  <2> QED
    BY <1>1, <1>2, <2>1, <2>2, <2>3, <2>4 DEF Inv, TypeOK
<1>5. Locked'
  BY <1>1 DEF Inv, TypeOK, Locked
<1>6. Codes'
  <2>1. \A q, p \in Requests : q # p => code'[q] = 0 \/ code'[p] = 0
    BY <1>1 DEF Inv, TypeOK, Codes
  <2>2. ASSUME NEW q \in Requests, code'[q] > 0 PROVE code'[q] > last'
    <3>1. q # r /\ code'[q] = code[q] /\ code[r] \in Nat /\ code[q] # 0
      BY <1>1, <2>2 DEF Inv, TypeOK
    <3>2. last' = last
      BY <1>1, <3>1 DEF Inv, Codes
    <3> QED
      BY <2>2, <3>1, <3>2 DEF Inv, Codes
  <2>3. \A k \in 1..MaxClock : uses'[k] <= 1 /\ (k > last' => uses'[k] = 0)
    BY <1>1 DEF Inv, TypeOK, Codes
  <2> QED
    BY <2>1, <2>2, <2>3 DEF Codes
<1>7. Tokens'
  <2>1. \A q \in Requests : Unissued(q)' => q \notin known' /\ sessions'[q] = NoSession
    <3>1. ASSUME NEW q \in Requests, q # r, Unissued(q)'
          PROVE  q \notin known' /\ sessions'[q] = NoSession
      <4>1. Unissued(q)
        BY <1>1, <3>1 DEF Unissued
      <4>2. q \notin Rows /\ sessions[q] = NoSession /\ q \in Id
        BY <4>1 DEF Inv, Tokens, Rows, Id
      <4>3. q \notin target[r]
        BY <4>2 DEF Inv, TypeOK
      <4> QED
        BY <1>1, <1>2, <3>1, <4>1, <4>2, <4>3 DEF Inv, Tokens
    <3>2. Unissued(r)' => r \notin known' /\ sessions'[r] = NoSession
      BY <1>1, <1>2, <1>3 DEF Unissued, Inv, TypeOK
    <3> QED
      BY <3>1, <3>2
  <2>2. ASSUME NEW q \in Requests, NEW s \in Rows', Unissued(q)'
        PROVE  sessions'[s].token # q /\ sessions'[s].previous # q
    <3>1. Unissued(q)
      BY <1>1, <1>3, <2>2 DEF Unissued, Inv, TypeOK
    <3>2. Rotated(r, s) \/ New(r, s) => q # r
      BY <1>1, <1>3, <2>2 DEF Unissued, Rotated, New, Inv, TypeOK
    <3>3. q \notin known /\ q # NoToken
      BY <3>1 DEF Inv, Tokens, Token, Id
    <3> QED
      BY <1>2, <1>3, <3>1, <3>2, <3>3 DEF Kept, Rotated, New, Inv, Tokens
  <2>3. \A q \in Requests : given'[q] \in known' \cup {NoToken}
    BY <1>1, <1>3
  <2>4. \A s, x \in Rows' :
          /\ sessions'[s].token = sessions'[x].token => s = x
          /\ sessions'[s].previous # sessions'[x].token
          /\ sessions'[s].previous = sessions'[x].previous =>
               s = x \/ sessions'[s].previous = NoToken
    <3> SUFFICES ASSUME NEW s \in Rows', NEW x \in Rows'
                 PROVE  /\ sessions'[s].token = sessions'[x].token => s = x
                        /\ sessions'[s].previous # sessions'[x].token
                        /\ sessions'[s].previous = sessions'[x].previous =>
                             s = x \/ sessions'[s].previous = NoToken
      OBVIOUS
    <3>1. given[r] # r
      BY <1>3
    <3>2. CASE Kept(s) /\ Kept(x)
      BY <3>2 DEF Kept, Inv, Tokens
    <3>3. CASE Kept(s) /\ Rotated(r, x)
      BY <1>3, <3>3 DEF Kept, Rotated, Inv, Tokens
    <3>4. CASE Rotated(r, s) /\ Kept(x)
      BY <1>3, <3>4 DEF Kept, Rotated, Inv, Tokens
    <3>5. CASE Kept(s) /\ New(r, x)
      BY <1>3, <3>5 DEF Kept, New, Inv, Tokens
    <3>6. CASE New(r, s) /\ Kept(x)
      BY <1>3, <3>6 DEF Kept, New, Inv, Tokens
    <3>7. CASE Rotated(r, s) /\ Rotated(r, x)
      BY <3>1, <3>7 DEF Rotated
    <3>8. CASE New(r, s) /\ New(r, x)
      BY <1>3, <3>8 DEF New
    <3>9. ~(New(r, s) /\ Rotated(r, x)) /\ ~(Rotated(r, s) /\ New(r, x))
      BY DEF New, Rotated
    <3> QED
      BY <1>2, <3>2, <3>3, <3>4, <3>5, <3>6, <3>7, <3>8, <3>9
  <2> QED
    BY <2>1, <2>2, <2>3, <2>4 DEF Tokens
<1>8. \A q \in Requests : Dead(q) => Dead(q)'
  <2> SUFFICES ASSUME NEW q \in Requests, Dead(q), NEW s \in Live'
               PROVE  sessions'[s].token # given[q]
    BY <1>1 DEF Dead
  <2>1. CASE Kept(s)
    <3>1. s \in Live
      BY <1>2, <1>3, <2>1 DEF Kept
    <3> QED
      BY <2>1, <3>1 DEF Kept, Dead
  <2>2. CASE Rotated(r, s) \/ New(r, s)
    BY <1>3, <2>2 DEF Rotated, New
  <2> QED
    BY <1>2, <1>3, <2>1, <2>2
<1>9. Refreshing'
  <2>1. ASSUME NEW q \in Requests, q # r PROVE Knows(q)'
    <3>1. ASSUME effect[q] \in {"rotate", "expire"} \/ (op[q] = "refresh" /\ effect[q] = "revoke"),
                 NEW s \in Rows, target[q] = {s}
          PROVE  sessions'[s] = sessions[s]
      <4>1. pc[q] = "commit"
        BY <3>1 DEF Inv, TypeOK, Locked
      <4>2. lock[q] = {s} /\ s \notin target[r]
        BY <1>3, <2>1, <3>1, <4>1 DEF Inv, Locked
      <4> QED
        BY <1>2, <1>3, <4>2
    <3>2. effect'[q] = effect[q] /\ target'[q] = target[q] /\ pc'[q] = pc[q]
      BY <1>1, <2>1 DEF Inv, TypeOK
    <3>3. Knows(q)
      BY DEF Inv, Refreshing
    <3>4. effect[q] \in {"rotate", "expire"} =>
            op[q] = "refresh" /\ \E s \in Live' : target[q] = {s} /\ sessions'[s].token = given[q]
      <4>1. ASSUME effect[q] \in {"rotate", "expire"}, NEW s \in Live, target[q] = {s},
                   sessions[s].token = given[q]
            PROVE  s \in Live' /\ sessions'[s].token = given[q]
        <5>1. s \in Rows /\ sessions'[s] = sessions[s]
          BY <1>3, <3>1, <4>1
        <5> QED
          BY <4>1, <5>1 DEF Live, Rows
      <4> QED
        BY <3>3, <4>1 DEF Knows
    <3>5. op[q] = "refresh" /\ effect[q] = "revoke" =>
            \E s \in Rows' : target[q] = {s} /\ sessions'[s].previous = given[q]
      BY <1>2, <3>1, <3>3 DEF Knows
    <3> QED
      BY <1>1, <1>8, <3>2, <3>3, <3>4, <3>5 DEF Knows
  <2>2. Knows(r)'
    BY <1>1 DEF Inv, TypeOK, Knows
  <2> QED
    BY <2>1, <2>2 DEF Refreshing
<1>10. Answered'
  <2>1. \A q \in Requests : (op[q] = "refresh" /\ result[q] = "refused")' => Dead(q)'
    <3>1. ASSUME NEW q \in Requests, q # r, op[q] = "refresh", result'[q] = "refused"
          PROVE  Dead(q)
      BY <1>1, <3>1 DEF Inv, TypeOK, Answered
    <3>2. ASSUME op[r] = "refresh", result'[r] = "refused" PROVE Dead(r)'
      <4>1. effect[r] \in {"expire", "revoke"}
        BY <1>1, <1>3, <3>2 DEF Inv, TypeOK, Refreshing, Knows
      <4>2. CASE effect[r] = "revoke"
        BY <1>8, <3>2, <4>2 DEF Inv, Refreshing, Knows
      <4>3. CASE effect[r] = "expire"
        <5>1. PICK s \in Live : target[r] = {s} /\ sessions[s].token = given[r]
          BY <4>3 DEF Inv, Refreshing, Knows
        <5>2. Live' \subseteq Live \ {s}
          BY <1>2, <4>3, <5>1
        <5>3. \A x \in Live' : sessions'[x].token = sessions[x].token
          BY <1>2, <1>3, <4>3 DEF Kept, Rotated, New
        <5> QED
          BY <1>1, <1>3, <5>1, <5>2, <5>3 DEF Dead, Inv, Tokens
      <4> QED
        BY <4>1, <4>2, <4>3
    <3> QED
      BY <1>1, <1>8, <3>1, <3>2
  <2>2. \A q \in Requests : Refreshed(q)' =>
          \/ q = r /\ effect[r] = "rotate"
          \/ q # r /\ Refreshed(q)
    <3>1. ASSUME NEW q \in Requests, q # r, Refreshed(q)' PROVE Refreshed(q)
      BY <1>1, <3>1 DEF Refreshed, Inv, TypeOK
    <3>2. ASSUME Refreshed(r)' PROVE effect[r] = "rotate"
      <4>1. op[r] = "refresh" /\ Answer(r) = "tokens"
        BY <1>1, <3>2 DEF Refreshed, Inv, TypeOK
      <4> QED
        BY <1>3, <4>1 DEF Inv, Refreshing, Knows
    <3> QED
      BY <3>1, <3>2 DEF Refreshed
  <2>3. effect[r] = "rotate" => \E s \in Live : Rotated(r, s) /\ sessions[s].token = given[r]
    <3>1. ASSUME effect[r] = "rotate"
          PROVE  \E s \in Live : target[r] = {s} /\ sessions[s].token = given[r]
      BY <3>1 DEF Inv, Refreshing, Knows
    <3>2. ASSUME effect[r] = "rotate", NEW s \in Live, target[r] = {s}
          PROVE  sessions'[s] = Written(r, sessions[s])
      BY <1>3, <3>2 DEF Commit
    <3>3. ASSUME effect[r] = "rotate", NEW s \in Live, target[r] = {s}, sessions[s].token = given[r]
          PROVE  Rotated(r, s)
      <4>1. sessions'[s] = [sessions[s] EXCEPT !.token = r, !.previous = given[r]]
        BY <3>2, <3>3 DEF Written
      <4>2. sessions[s] \in Session
        BY DEF Inv, TypeOK, Live, Rows
      <4>3. sessions'[s].token = r /\ sessions'[s].previous = given[r]
        BY <4>1, <4>2 DEF Session
      <4> QED
        BY <3>3, <4>3 DEF Rotated
    <3> QED
      BY <3>1, <3>3
  <2>4. ASSUME NEW q \in Requests, Refreshed(q)', NEW s \in Rows'
        PROVE  /\ sessions'[s].token # given[q]
               /\ sessions'[s].token = q => sessions'[s].previous = given[q]
    <3>1. CASE q # r
      BY <1>2, <1>3, <2>2, <2>4, <3>1 DEF Kept, Rotated, New, Inv, Answered
    <3>2. CASE q = r
      <4>1. PICK x \in Live : Rotated(r, x) /\ sessions[x].token = given[r]
        BY <2>2, <2>3, <2>4, <3>2
      <4>2. ~New(r, s)
        BY <4>1 DEF New, Rotated
      <4>3. CASE Rotated(r, s)
        BY <1>3, <3>2, <4>3 DEF Rotated
      <4>4. CASE Kept(s) /\ ~Rotated(r, s)
        <5>1. s # x
          BY <4>1, <4>4
        <5> QED
          BY <1>3, <3>2, <4>1, <4>4, <5>1 DEF Kept, Inv, Tokens
      <4> QED
        BY <1>2, <4>2, <4>3, <4>4
    <3> QED
      BY <3>1, <3>2
  <2>5. ExchangedOnce'
    <3> SUFFICES ASSUME NEW q \in Requests, NEW p \in Requests, Refreshed(q)', Refreshed(p)',
                        given[p] = given[q], p # q
                 PROVE  FALSE
      BY <1>1 DEF ExchangedOnce
    <3>1. ASSUME NEW x \in Requests, NEW y \in Requests, x # r, Refreshed(x)', y = r,
                 Refreshed(y)', given[x] = given[y]
          PROVE  FALSE
      BY <1>3, <2>2, <2>3, <3>1 DEF Inv, Answered
    <3> QED
      BY <2>2, <3>1 DEF Inv, Answered, ExchangedOnce
  <2>6. ReplayEnds'
    <3> SUFFICES ASSUME NEW q \in Requests, NEW p \in Requests, NEW s \in Live',
                        Refreshed(q)', op[p] = "refresh", result'[p] = "refused",
                        given[p] = given[q], sessions'[s].token = q
                 PROVE  FALSE
      BY <1>1 DEF ReplayEnds
    <3>1. CASE q = r
      <4>1. p # r /\ result[p] = "refused"
        BY <1>1, <1>3, <2>2, <3>1 DEF Inv, TypeOK
      <4>2. Dead(p)
        BY <4>1 DEF Inv, Answered
      <4> QED
        BY <2>2, <2>3, <3>1, <4>2 DEF Dead
    <3>2. CASE q # r
      <4>1. Kept(s) /\ s \in Live /\ sessions[s].token = q /\ Refreshed(q)
        BY <1>2, <1>3, <2>2, <3>2 DEF Kept, Rotated, New
      <4>2. sessions[s].previous = given[p]
        BY <1>3, <4>1 DEF Inv, Answered
      <4>3. p = r
        BY <1>1, <4>1 DEF Inv, TypeOK, Answered, ReplayEnds
      <4>4. effect[r] \in {"expire", "revoke"}
        BY <1>1, <1>3, <4>3 DEF Inv, TypeOK, Refreshing, Knows
      <4>5. CASE effect[r] = "expire"
        BY <1>3, <4>1, <4>3, <4>5 DEF Inv, Refreshing, Knows, Answered
      <4>6. CASE effect[r] = "revoke"
        <5>1. PICK x \in Rows : target[r] = {x} /\ sessions[x].previous = given[r]
          BY <4>3, <4>6 DEF Inv, Refreshing, Knows
        <5>2. given[r] # NoToken
          BY <4>3, <4>6 DEF Inv, Refreshing, Knows
        <5>3. x = s
          BY <1>3, <4>1, <4>2, <4>3, <5>1, <5>2 DEF Inv, Tokens
        <5> QED
          BY <1>2, <4>6, <5>1, <5>3
      <4> QED
        BY <4>4, <4>5, <4>6
    <3> QED
      BY <3>1, <3>2
  <2> QED
    BY <1>1, <2>1, <2>4, <2>5, <2>6 DEF Answered
<1>11. Swept'
  <2>1. Live' \cap Seeds \subseteq Live \cap Seeds
    BY <1>2, <1>3
  <2>2. ASSUME NEW q \in Requests, q # r, Sweeping(q)'
        PROVE  /\ pc'[q] \in {"idle", "select", "flush", "commit", "done"}
               /\ pc'[q] \in {"flush", "commit"} =>
                    effect'[q] = "revoke" /\ (Live' \cap Seeds) \subseteq (target'[q] \cup Spared(q)')
               /\ result'[q] = "ok" => (Live' \cap Seeds) \subseteq Spared(q)'
    BY <1>1, <2>1, <2>2 DEF Inv, TypeOK, Swept, Sweeping, Spared
  <2>3. ASSUME Sweeping(r)' PROVE (Live' \cap Seeds) \subseteq Spared(r)'
    <3>1. effect[r] = "revoke" /\ Live \cap Seeds \subseteq target[r] \cup Spared(r)
      BY <1>1, <1>3, <2>3 DEF Inv, Swept, Sweeping
    <3>2. Spared(r)' = Spared(r)
      BY <1>1 DEF Spared
    <3> QED
      BY <1>2, <3>1, <3>2
  <2>4. pc'[r] = "done"
    BY <1>1 DEF Inv, TypeOK
  <2> QED
    BY <2>2, <2>3, <2>4 DEF Swept
<1> QED
  BY <1>4, <1>5, <1>6, <1>7, <1>9, <1>10, <1>11 DEF Inv

LEMMA NextInv == Inv /\ [Next]_vars => Inv'
<1> SUFFICES ASSUME Inv, [Next]_vars PROVE Inv'
  OBVIOUS
<1>1. CASE UNCHANGED vars
  <2>1. Rows' = Rows /\ Live' = Live
    BY <1>1 DEF vars, Rows, Live
  <2>2. TypeOK' /\ Locked' /\ Codes'
    BY <1>1, <2>1 DEF vars, Inv, TypeOK, Locked, Codes
  <2>3. Tokens' /\ Refreshing' /\ Swept'
    BY <1>1, <2>1
       DEF vars, Inv, Tokens, Unissued, Refreshing, Knows, Dead, Swept, Sweeping, Spared
  <2>4. Answered'
    BY <1>1, <2>1 DEF vars, Inv, Answered, Dead, ReplayEnds, ExchangedOnce, Refreshed
  <2> QED
    BY <2>2, <2>3, <2>4 DEF Inv
<1>2. CASE (\E s \in Id : Expire(s)) \/ Tick
  BY <1>2, TimeInv
<1>3. ASSUME NEW r \in Requests,
             \/ Login(r) \/ WebLogin(r) \/ Refresh(r) \/ Find(r) \/ Replay(r)
             \/ \E what \in Op : UseCode(r, what) \/ Begin(r, what)
             \/ Select(r) \/ Flush(r) \/ Commit(r) \/ Abort(r)
      PROVE  Inv'
  BY <1>3, LoginInv, WebLoginInv, RefreshInv, FindInv, ReplayInv, UseCodeInv, BeginInv, SelectInv, FlushInv,
     CommitInv, AbortInv
<1> QED
  BY <1>1, <1>2, <1>3 DEF Next

THEOREM InvariantHolds == Spec => []Inv
  BY InitInv, NextInv, PTL DEF Spec

(* Every variable always holds values of its type.                          *)
THEOREM TypeCorrect == Spec => []TypeOK
  BY InvariantHolds, PTL DEF Inv

(* A refresh token is exchanged at most once, by however many requests that *)
(* present it at once (auth_flow.py, refresh).                              *)
THEOREM FirstWins == Spec => []ExchangedOnce
<1>1. Inv => ExchangedOnce
  BY DEF Inv, Answered
<1> QED
  BY <1>1, InvariantHolds, PTL

(* A token presented again ends the session its exchange continued.         *)
THEOREM ReuseIsDetected == Spec => []ReplayEnds
<1>1. Inv => ReplayEnds
  BY DEF Inv, Answered
<1> QED
  BY <1>1, InvariantHolds, PTL

(* A one-time code is accepted once (auth_flow.py, _verify_totp_once).      *)
THEOREM CodesAreOneTime == Spec => []CodeOnce
<1>1. Inv => CodeOnce
  BY DEF Inv, Codes, CodeOnce
<1> QED
  BY <1>1, InvariantHolds, PTL

(* A sweep leaves none of the sessions from the start active but the one it *)
(* spares (auth_flow.py, revoke_sessions_for_person).                       *)
THEOREM SweepsAreComplete == Spec => []OldSessionsEnd
<1>1. Inv => OldSessionsEnd
  BY DEF Inv, Swept, Sweeping, Spared, OldSessionsEnd
<1> QED
  BY <1>1, InvariantHolds, PTL

(* A refresh hands out the token of an active session: what it locked is    *)
(* what it writes (auth_flow.py, refresh).                                  *)
THEOREM RefreshesAreLive == Spec => RotatesActive
<1> DEFINE Lives(r) ==
             pc[r] = "commit" /\ pc'[r] = "done" /\ effect[r] = "rotate" /\ result'[r] = "tokens" =>
               \A s \in target[r] : sessions'[s].status = "active" /\ sessions'[s].token = r
<1>1. Inv /\ [Next]_vars => [\A r \in Requests : Lives(r)]_vars
  <2> SUFFICES ASSUME Inv, Next, NEW r \in Requests, pc[r] = "commit", pc'[r] = "done",
                      effect[r] = "rotate", result'[r] = "tokens", NEW s \in target[r]
               PROVE  sessions'[s].status = "active" /\ sessions'[s].token = r
    OBVIOUS
  <2>1. Commit(r)
    <3>1. ~Abort(r)
      BY DEF Abort, End, Inv, TypeOK
    <3>2. ASSUME NEW q \in Requests, pc' = [pc EXCEPT ![q] = pc'[q]] PROVE q = r
      BY <3>2 DEF Inv, TypeOK
    <3>3. pc' # pc
      OBVIOUS
    <3>4. ~(\E x \in Id : Expire(x)) /\ ~Tick
      BY <3>3 DEF Expire, Tick
    <3>5. ASSUME NEW q \in Requests, NEW label, Goto(q, label) PROVE q = r
      BY <3>5 DEF Goto, Inv, TypeOK
    <3>6. ASSUME NEW q \in Requests, Commit(q) \/ Abort(q) PROVE q = r
      BY <3>5, <3>6 DEF Commit, Abort, End
    <3>6a. ASSUME NEW q \in Requests, WebLogin(q) PROVE FALSE
      <4>1. q = r
        BY <3>5, <3>6a DEF WebLogin, End
      <4> QED
        BY <3>6a, <4>1 DEF WebLogin
    <3>7. ASSUME NEW q \in Requests,
                 \/ Login(q) \/ Refresh(q) \/ Find(q) \/ Replay(q) \/ Select(q) \/ Flush(q)
                 \/ \E what \in Op : UseCode(q, what) \/ Begin(q, what)
          PROVE  FALSE
      <4>1. pc[q] # "commit"
        BY <3>7 DEF Login, Refresh, Find, Replay, Select, Flush, UseCode, Begin
      <4>2. \E label : Goto(q, label)
        BY <3>7 DEF Login, Refresh, Find, Replay, Select, Flush, UseCode, Begin, Held, End
      <4> QED
        BY <3>5, <4>1, <4>2
    <3> QED
      BY <3>1, <3>4, <3>6, <3>6a, <3>7 DEF Next
  <2>2. target[r] = {s} /\ s \in Live /\ s \in Id /\ s # r /\ sessions[s] \in Session
    <3>1. target[r] = {s} /\ s \in Live
      BY DEF Inv, Refreshing, Knows
    <3>2. result[r] = "none" /\ sessions[r] = NoSession
      BY DEF Inv, Locked, Tokens, Unissued
    <3>3. s \in Id /\ sessions[s] # NoSession
      BY <3>1 DEF Live, Rows
    <3> QED
      BY <3>1, <3>2, <3>3 DEF Inv, TypeOK
  <2>3. sessions'[s] = [sessions[s] EXCEPT !.token = r, !.previous = given[r]]
    BY <2>1, <2>2 DEF Commit, Written
  <2> QED
    BY <2>2, <2>3 DEF Live, Session
<1> QED
  BY <1>1, InvariantHolds, PTL DEF Spec, RotatesActive
=============================================================================
