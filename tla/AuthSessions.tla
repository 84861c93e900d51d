---------------------------- MODULE AuthSessions ----------------------------
(***************************************************************************)
(* The login sessions of one person: refresh tokens that are rotated when  *)
(* they are used, revocation, and one-time codes.                          *)
(*                                                                         *)
(*   app/services/auth_flow.py           AuthFlow, reset_password          *)
(*   app/services/auth_dependencies.py   require_user_auth                 *)
(*   app/services/auth.py                Sessions.delete                   *)
(*   app/api/auth_flow.py                the handlers and their commits    *)
(*   app/web/auth.py                     login and logout of the admin UI  *)
(*                                                                         *)
(* A request is one READ COMMITTED transaction.  refresh, mfa_verify and   *)
(* mfa_confirm read their row FOR UPDATE; everything else reads without a  *)
(* lock and takes the row locks with its UPDATEs, which write only the     *)
(* columns the handler changed.  The handlers of login and refresh commit  *)
(* when they refuse, too.                                                  *)
(*                                                                         *)
(* Left out: the credential, so login is a login that succeeded (password, *)
(* lockout counter) and a refused one changes nothing; token hashes, which *)
(* are the tokens themselves; the times, but for what they decide; writes  *)
(* of administrators to single columns.                                    *)
(***************************************************************************)
EXTENDS Integers, FiniteSets

CONSTANTS
  Requests,   \* requests, each served once
  Seeds,      \* sessions that exist at the start
  NoSession,  \* no row
  NoToken,    \* previous_token_hash is NULL
  MaxClock    \* bound: time steps of one-time codes

(* A session is named by the request that opened it, a refresh token by the *)
(* request that issued it.                                                 *)
Id == Requests \cup Seeds
Token == Id
Session == [status : {"active", "revoked", "expired"}, token : Token,
            previous : Token \cup {NoToken}]
Op == {"login", "webLogin", "verify", "confirm", "refresh", "logout", "revoke", "revokeOthers", "revokeAll"}
Effect == {"none", "open", "enrol", "rotate", "revoke", "expire"}

ASSUME AuthAssumption ==
  /\ Requests \cap Seeds = {} /\ NoToken \notin Token /\ NoSession \notin Session
  /\ MaxClock \in Nat \ {0}

VARIABLES
  sessions,  \* committed sessions
  late,      \* sessions whose expires_at has passed
  clock,     \* the current time step of one-time codes
  last,      \* committed last_totp_counter, 0 for none
  primary,   \* the method is enabled and primary
  known,     \* refresh tokens that reached the client
  pc,        \* where each request is
  op,        \* what it does
  given,     \* the refresh token it presents
  caller,    \* the session it is authorized by
  target,    \* the sessions it read and will write
  effect,    \* what its commit does to them
  code,      \* the one-time code it has verified, 0 for none
  lock,      \* session rows it has locked
  result,    \* its answer
  uses       \* how often a code was accepted

store == <<sessions, last, primary>>
world == <<late, clock, known>>
txn == <<target, effect, code, lock>>
intent == <<op, given, caller>>
vars == <<sessions, late, clock, last, primary, known, pc, op, given, caller, target, effect,
          code, lock, result, uses>>

Init ==
  /\ sessions = [s \in Id |-> IF s \in Seeds
                              THEN [status |-> "active", token |-> s, previous |-> NoToken]
                              ELSE NoSession]
  /\ late = {} /\ clock = 1 /\ last = 0 /\ primary \in BOOLEAN /\ known = Seeds
  /\ pc = [r \in Requests |-> "idle"]
  /\ op = [r \in Requests |-> "login"]
  /\ given = [r \in Requests |-> NoToken] /\ caller = [r \in Requests |-> NoToken]
  /\ target = [r \in Requests |-> {}]
  /\ effect = [r \in Requests |-> "none"]
  /\ code = [r \in Requests |-> 0]
  /\ lock = [r \in Requests |-> {}]
  /\ result = [r \in Requests |-> "none"]
  /\ uses = [k \in 1..MaxClock |-> 0]

Goto(r, label) == pc' = [pc EXCEPT ![r] = label]
Rows == {s \in Id : sessions[s] # NoSession}
Live == {s \in Rows : sessions[s].status = "active"}

(* Mutant of End: the transaction is over and keeps its row locks.          *)
BugEnd(r, answer) ==
  /\ Goto(r, "done")
  /\ result' = [result EXCEPT ![r] = answer]
  /\ target' = [target EXCEPT ![r] = {}] /\ effect' = [effect EXCEPT ![r] = "none"]
  /\ code' = [code EXCEPT ![r] = 0] /\ UNCHANGED lock

(* The transaction is over.                                                 *)
End(r, answer) ==
  /\ Goto(r, "done")
  /\ result' = [result EXCEPT ![r] = answer]
  /\ target' = [target EXCEPT ![r] = {}] /\ effect' = [effect EXCEPT ![r] = "none"]
  /\ code' = [code EXCEPT ![r] = 0] /\ lock' = [lock EXCEPT ![r] = {}]

(* No other transaction has locked a row of S.                              *)
Free(r, S) == \A q \in Requests \ {r} : lock[q] \cap S = {}

(* Mutant of Claimable: the session is read without FOR UPDATE.            *)
BugClaimable(r, s) == TRUE

(* SELECT .. FOR UPDATE of a session returns once nobody else holds it.     *)
Claimable(r, s) == Free(r, {s})

-----------------------------------------------------------------------------
(* Requests that open a session or use a one-time code.                     *)

(* login of a person without a second factor: _issue_tokens.                *)
Login(r) ==
  /\ pc[r] = "idle" /\ ~primary
  /\ op' = [op EXCEPT ![r] = "login"]
  /\ effect' = [effect EXCEPT ![r] = "open"]
  /\ Goto(r, "commit")
  /\ UNCHANGED <<store, world, given, caller, target, code, lock, result, uses>>

(* login_submit of the admin UI: the same login, but nothing commits it, so *)
(* that the row is rolled back when get_db closes the transaction.          *)
WebLogin(r) ==
  /\ pc[r] = "idle" /\ ~primary
  /\ op' = [op EXCEPT ![r] = "webLogin"]
  /\ known' \in {known, known \cup {r}}
  /\ End(r, "tokens")
  /\ UNCHANGED <<store, late, clock, given, caller, uses>>

(* Mutant of MethodFree: the method is read without FOR UPDATE.            *)
BugMethodFree(r) == TRUE

MethodFree(r) == \A q \in Requests \ {r} : code[q] = 0

(* mfa_verify and mfa_confirm: a code is good for the current time step and *)
(* must be newer than the last one accepted (_verify_totp_once).            *)
UseCode(r, what) ==
  /\ pc[r] = "idle" /\ what \in {"verify", "confirm"}
  /\ what = "verify" => primary
  /\ MethodFree(r)
  /\ op' = [op EXCEPT ![r] = what]
  /\ \/ /\ clock > last
        /\ code' = [code EXCEPT ![r] = clock]
        /\ effect' = [effect EXCEPT ![r] = IF what = "verify" THEN "open" ELSE "enrol"]
        /\ Goto(r, "commit")
        /\ UNCHANGED <<target, lock, result>>
     \/ /\ clock <= last
        /\ End(r, "refused")
  /\ UNCHANGED <<store, world, given, caller, uses>>

-----------------------------------------------------------------------------
(* refresh.                                                                 *)

Refresh(r) ==
  /\ pc[r] = "idle"
  /\ op' = [op EXCEPT ![r] = "refresh"]
  /\ \E t \in known : given' = [given EXCEPT ![r] = t]
  /\ Goto(r, "find")
  /\ UNCHANGED <<store, world, caller, txn, result, uses>>

Held(r, s, what) ==
  /\ lock' = [lock EXCEPT ![r] = {s}] /\ target' = [target EXCEPT ![r] = {s}]
  /\ effect' = [effect EXCEPT ![r] = what]
  /\ Goto(r, "commit")

(* The active session the token belongs to.                                 *)
Find(r) ==
  LET found == {s \in Live : sessions[s].token = given[r]}
  IN /\ pc[r] = "find"
     /\ \/ \E s \in found :
             Claimable(r, s) /\ Held(r, s, IF s \in late THEN "expire" ELSE "rotate")
        \/ found = {} /\ Goto(r, "replay") /\ UNCHANGED <<lock, target, effect>>
     /\ UNCHANGED <<store, world, intent, code, result, uses>>

(* The active session the token was the last one of: reuse is detected.     *)
Replay(r) ==
  LET found == {s \in Live : sessions[s].previous = given[r]}
  IN /\ pc[r] = "replay"
     /\ \/ \E s \in found :
             Claimable(r, s) /\ Held(r, s, "revoke") /\ UNCHANGED <<code, result>>
        \/ found = {} /\ End(r, "refused")
     /\ UNCHANGED <<store, world, intent, uses>>

-----------------------------------------------------------------------------
(* Requests that revoke sessions they read without a lock.                  *)

(* logout presents a refresh token; revoke_all_other and change_password are *)
(* authorized by a session that is active now; reset_password and           *)
(* Sessions.delete by something else (and so, here, is revoke_session).     *)
(* logout of the admin UI is a logout, or a revoke of the session its       *)
(* access token names.                                                      *)
Begin(r, what) ==
  /\ pc[r] = "idle" /\ what \in {"logout", "revoke", "revokeOthers", "revokeAll"}
  /\ op' = [op EXCEPT ![r] = what]
  /\ \/ what = "logout" /\ \E t \in known : given' = [given EXCEPT ![r] = t]
        /\ UNCHANGED caller
     \/ what \in {"revokeOthers", "revokeAll"}
        /\ \E s \in Live \ late : caller' = [caller EXCEPT ![r] = s]
        /\ UNCHANGED given
     \/ what \in {"revoke", "revokeAll"} /\ UNCHANGED <<given, caller>>
  /\ Goto(r, "select")
  /\ UNCHANGED <<store, world, txn, result, uses>>

Unrevoked == {s \in Rows : sessions[s].status # "revoked"}

(* Mutant of Spared: a password change keeps the session it was asked in.   *)
BugSpared(r) == IF op[r] \in {"revokeOthers", "revokeAll"} THEN {caller[r]} ELSE {}

Spared(r) == IF op[r] = "revokeOthers" THEN {caller[r]} ELSE {}

(* The sets of sessions the SELECT may return.                              *)
Chosen(r) ==
  CASE op[r] = "logout" -> {{s} : s \in {x \in Unrevoked : sessions[x].token = given[r]}}
    [] op[r] = "revoke" -> {{s} : s \in Unrevoked}
    [] OTHER -> {Live \ Spared(r)}

Select(r) ==
  /\ pc[r] = "select"
  /\ \/ \E S \in Chosen(r) : /\ target' = [target EXCEPT ![r] = S]
                             /\ effect' = [effect EXCEPT ![r] = "revoke"]
        /\ Goto(r, "flush") /\ UNCHANGED <<code, lock, result>>
     \/ Chosen(r) = {} /\ End(r, "refused")
  /\ UNCHANGED <<store, world, intent, uses>>

(* db.flush(): the UPDATEs wait for their rows.                             *)
Flush(r) ==
  /\ pc[r] = "flush"
  /\ Free(r, target[r])
  /\ lock' = [lock EXCEPT ![r] = target[r]]
  /\ Goto(r, "commit")
  /\ UNCHANGED <<store, world, intent, target, effect, code, result, uses>>

-----------------------------------------------------------------------------

(* Mutant of Written: the rotation does not keep the old token.             *)
BugWritten(r, row) ==
  CASE effect[r] = "rotate" -> [row EXCEPT !.token = r]
    [] effect[r] = "revoke" -> [row EXCEPT !.status = "revoked"]
    [] OTHER -> [row EXCEPT !.status = "expired"]

(* The columns each UPDATE sets.                                            *)
Written(r, row) ==
  CASE effect[r] = "rotate" -> [row EXCEPT !.token = r, !.previous = given[r]]
    [] effect[r] = "revoke" -> [row EXCEPT !.status = "revoked"]
    [] OTHER -> [row EXCEPT !.status = "expired"]

Opened(r) == [status |-> "active", token |-> r, previous |-> NoToken]

Answer(r) == IF effect[r] \in {"open", "rotate"} THEN "tokens"
             ELSE IF op[r] = "refresh" THEN "refused" ELSE "ok"

(* The commit, and the answer, which may be lost on its way.                *)
Commit(r) ==
  /\ pc[r] = "commit"
  /\ sessions' = [s \in Id |-> IF effect[r] = "open" /\ s = r THEN Opened(r)
                               ELSE IF s \in target[r] THEN Written(r, sessions[s])
                               ELSE sessions[s]]
  /\ last' = IF code[r] > 0 THEN code[r] ELSE last
  /\ primary' = (primary \/ effect[r] = "enrol")
  /\ known' \in {known} \cup (IF Answer(r) = "tokens" THEN {known \cup {r}} ELSE {})
  /\ uses' = IF code[r] > 0 THEN [uses EXCEPT ![code[r]] = @ + 1] ELSE uses
  /\ End(r, Answer(r))
  /\ UNCHANGED <<late, clock, intent>>

(* The connection or the worker is lost: rollback.                          *)
Abort(r) ==
  /\ pc[r] \notin {"idle", "done"}
  /\ End(r, "lost")
  /\ UNCHANGED <<store, world, intent, uses>>

(* Time passes.                                                             *)
Expire(s) ==
  /\ s \notin late
  /\ late' = late \cup {s}
  /\ UNCHANGED <<store, clock, known, pc, intent, txn, result, uses>>

Tick ==
  /\ clock < MaxClock
  /\ clock' = clock + 1
  /\ UNCHANGED <<store, late, known, pc, intent, txn, result, uses>>

Next ==
  \/ \E r \in Requests :
       \/ Login(r) \/ WebLogin(r) \/ Refresh(r) \/ Find(r) \/ Replay(r)
       \/ \E what \in Op : UseCode(r, what) \/ Begin(r, what)
       \/ Select(r) \/ Flush(r) \/ Commit(r) \/ Abort(r)
  \/ \E s \in Id : Expire(s)
  \/ Tick

Spec == Init /\ [][Next]_vars

-----------------------------------------------------------------------------
(* Properties.                                                              *)

(* Every variable holds values of its type, and only rows are written.      *)
TypeOK ==
  /\ sessions \in [Id -> Session \cup {NoSession}] /\ late \subseteq Id /\ known \subseteq Token
  /\ clock \in 1..MaxClock /\ last \in 0..MaxClock /\ primary \in BOOLEAN
  /\ pc \in [Requests -> {"idle", "find", "replay", "select", "flush", "commit", "done"}]
  /\ op \in [Requests -> Op] /\ effect \in [Requests -> Effect]
  /\ given \in [Requests -> Token \cup {NoToken}] /\ caller \in [Requests -> Id \cup {NoToken}]
  /\ target \in [Requests -> SUBSET Id] /\ lock \in [Requests -> SUBSET Id]
  /\ code \in [Requests -> 0..MaxClock]
  /\ result \in [Requests -> {"none", "tokens", "ok", "refused", "lost"}]
  /\ uses \in [1..MaxClock -> Nat]
  /\ \A r \in Requests : target[r] \subseteq Rows /\ lock[r] \subseteq target[r]

Refreshed(r) == op[r] = "refresh" /\ result[r] = "tokens"

(* A refresh token is exchanged at most once, however many requests present *)
(* it at once: tests/test_auth_flow_cookies.py:251-273 ("first wins").     *)
ExchangedOnce ==
  \A q, r \in Requests : Refreshed(q) /\ Refreshed(r) /\ given[q] = given[r] => q = r

(* A refresh hands out the token of a session that is active and whose      *)
(* current token it is, whatever revokes it meanwhile (auth_flow.py:697).  *)
RotatesActive ==
  [][\A r \in Requests : pc[r] = "commit" /\ pc'[r] = "done" /\ effect[r] = "rotate"
       /\ result'[r] = "tokens" =>
       \A s \in target[r] : sessions'[s].status = "active" /\ sessions'[s].token = r]_vars

(* A token presented a second time ends its session: when both requests are *)
(* answered, no session is active whose current token is the one the first *)
(* exchange issued (auth_flow.py:705-727).                                 *)
ReplayEnds ==
  \A q, r \in Requests :
    Refreshed(q) /\ op[r] = "refresh" /\ result[r] = "refused" /\ given[r] = given[q] =>
      \A s \in Live : sessions[s].token # q

(* After a password change or a reset none of the sessions from before is  *)
(* active, after revoke_all_other at most the caller's, whatever was        *)
(* refreshed meanwhile (auth_flow.py:419-442, :899-916).                   *)
OldSessionsEnd ==
  \A r \in Requests : op[r] \in {"revokeOthers", "revokeAll"} /\ result[r] = "ok" =>
    Live \cap Seeds \subseteq (IF op[r] = "revokeOthers" THEN {caller[r]} ELSE {})

(* A person who logged in has a session: every token handed out by a login  *)
(* is a row's ("Read JWT from access_token cookie and validate session",    *)
(* web/deps.py:43).                                                         *)
SignedIn ==
  \A r \in Requests : op[r] \in {"login", "webLogin"} /\ result[r] = "tokens" => r \in Rows

(* A one-time code is accepted once (auth_flow.py:386-395).             *)
CodeOnce == \A k \in 1..MaxClock : uses[k] <= 1
=============================================================================
