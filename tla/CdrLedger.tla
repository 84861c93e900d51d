----------------------------- MODULE CdrLedger -----------------------------
(***************************************************************************)
(* Call records: FreeSWITCH posts them, the billing pipeline reads the raw *)
(* ones, rates them and marks them.                                        *)
(*                                                                         *)
(*   app/services/cdr/ingest.py   ingest_cdr                               *)
(*   app/api/cdr.py               post_ingest, get_cdrs, mark_cdrs         *)
(*   app/models/voice.py          Cdr                                      *)
(*                                                                         *)
(* A request is one READ COMMITTED transaction that reads its rows without *)
(* a lock; nothing in the table keeps two rows of one call_uuid apart.     *)
(* mod_json_cdr posts a record again, with the same contents, until it is  *)
(* answered; the pipeline sends a mark again until it is answered.  Either *)
(* may give up waiting for a request that is still being served.           *)
(*                                                                         *)
(* Left out: the contents of a record, payloads without a uuid, and the    *)
(* feed by customer.                                                       *)
(***************************************************************************)
EXTENDS Integers, Sequences, FiniteSets, SequencesExt

CONSTANTS
  Calls,     \* call_uuids
  MaxPosts,  \* bound: posts of one record
  MaxMarks,  \* bound: mark requests
  Limit,     \* records of one answer of the feed
  MaxFaults  \* bound: lost answers, lost transactions, clients that give up

ASSUME CdrAssumption ==
  /\ IsFiniteSet(Calls)
  /\ MaxPosts \in Nat /\ MaxMarks \in Nat /\ Limit \in Nat \ {0} /\ MaxFaults \in Nat

Post == Calls \X (1 .. MaxPosts)
Marks == 1 .. MaxMarks
Rating == {"raw", "rated", "fed"}

VARIABLES
  rows,     \* rating_status of the record each post inserted, or "none"
  newest,   \* the posts that inserted a record, newest first
  at,       \* where each post is
  found,    \* the record it found, as a set
  answered, \* calls a post of which was answered
  overlap,  \* calls that had two posts in service at once
  stage,    \* the status the pipeline gives its batch next
  batch,    \* calls it has read and not finished
  charged,  \* how often it has rated each call
  awaited,  \* the mark it waits for, 0 for none
  mark,     \* where each mark is, its status and calls
  old,      \* the rows as a mark has loaded them
  faults

posts == <<at, found, answered, overlap>>
pipeline == <<stage, batch, charged, awaited>>
marks == <<mark, old>>
vars == <<rows, newest, at, found, answered, overlap, stage, batch, charged, awaited,
          mark, old, faults>>

NoRows == [p \in Post |-> "none"]
Records == {p \in Post : rows[p] # "none"}
RecordsOf(c) == {p \in Records : p[1] = c}
Serving(p) == at[p] \in {"find", "write", "reply"}

Unsent == [at |-> "unsent", status |-> "raw", calls |-> {}]
Over == [Unsent EXCEPT !.at = "over"]

Init ==
  /\ rows = NoRows /\ newest = <<>>
  /\ at = [p \in Post |-> "unsent"] /\ found = [p \in Post |-> {}]
  /\ answered = {} /\ overlap = {}
  /\ stage = "raw" /\ batch = {} /\ charged = [c \in Calls |-> 0] /\ awaited = 0
  /\ mark = [m \in Marks |-> Unsent]
  /\ old = [m \in Marks |-> NoRows]
  /\ faults = 0

Fault == faults < MaxFaults /\ faults' = faults + 1
Move(p, label) == at' = [at EXCEPT ![p] = label]

-----------------------------------------------------------------------------
(* mod_json_cdr and post_ingest.                                            *)

(* The next post of a record that is not answered: the last one failed, or  *)
(* its client stopped waiting for it.                                      *)
Send(p) ==
  /\ at[p] = "unsent" /\ p[1] \notin answered
  /\ \A i \in 1 .. p[2] - 1 : at[<<p[1], i>>] # "unsent"
  /\ IF \E q \in Post : q[1] = p[1] /\ Serving(q)
     THEN Fault /\ overlap' = overlap \cup {p[1]}
     ELSE UNCHANGED <<overlap, faults>>
  /\ Move(p, "find")
  /\ UNCHANGED <<rows, newest, found, answered, pipeline, marks>>

(* Mutant of Matching: the record is not looked for.                        *)
BugMatching(c) == {}

(* select(Cdr).where(call_uuid): any of them, should there be several.      *)
Matching(c) == RecordsOf(c)

Find(p) ==
  /\ at[p] = "find"
  /\ \/ Matching(p[1]) = {} /\ UNCHANGED found
     \/ \E q \in Matching(p[1]) : found' = [found EXCEPT ![p] = {q}]
  /\ Move(p, "write")
  /\ UNCHANGED <<rows, newest, answered, overlap, pipeline, marks, faults>>

(* Mutant of Upserted: the update writes every column, with its default.    *)
BugUpserted(p) == [q \in Post |-> IF q \in found[p] \cup {p} THEN "raw" ELSE rows[q]]

(* Mutant of Upserted: the route does not commit.                           *)
BugUnsaved(p) == rows

(* The insert of a raw record; the update sets what the record has already, *)
(* and rating_status is not among the fields.                              *)
Upserted(p) == IF found[p] = {} THEN [rows EXCEPT ![p] = "raw"] ELSE rows

(* flush, _commit.                                                          *)
Write(p) ==
  /\ at[p] = "write"
  /\ rows' = Upserted(p)
  /\ newest' = IF found[p] = {} THEN <<p>> \o newest ELSE newest
  /\ found' = [found EXCEPT ![p] = {}]
  /\ Move(p, "reply")
  /\ UNCHANGED <<answered, overlap, pipeline, marks, faults>>

Reply(p) ==
  /\ at[p] = "reply"
  /\ Move(p, "over")
  /\ answered' = answered \cup {p[1]}
  /\ UNCHANGED <<rows, newest, found, overlap, pipeline, marks, faults>>

(* The connection or the transaction is lost.                               *)
Lose(p) ==
  /\ Serving(p) /\ Fault
  /\ Move(p, "over")
  /\ found' = [found EXCEPT ![p] = {}]
  /\ UNCHANGED <<rows, newest, answered, overlap, pipeline, marks>>

-----------------------------------------------------------------------------
(* get_cdrs, mark_cdrs and the pipeline that calls them, which keeps its    *)
(* place over failures.                                                     *)

(* Mutant of Feed: the limit is applied before the status.                  *)
BugFeed == {newest[i] : i \in {j \in DOMAIN newest : rows[newest[j]] = "raw" /\ j <= Limit}}

(* The raw records, the newest first, at most Limit of them.                *)
Feed ==
  LET raw == {i \in DOMAIN newest : rows[newest[i]] = "raw"}
  IN  {newest[i] : i \in {j \in raw : Cardinality({k \in raw : k <= j}) <= Limit}}

(* The pipeline reads the feed and rates each record it got.                *)
ReadFeed ==
  /\ stage = "raw" /\ Feed # {}
  /\ batch' = {p[1] : p \in Feed}
  /\ charged' = [c \in Calls |-> charged[c] + Cardinality({p \in Feed : p[1] = c})]
  /\ stage' = "rated"
  /\ UNCHANGED <<rows, newest, posts, awaited, marks, faults>>

(* It sends the mark that is due: rated, then fed.                          *)
SendMark(m) ==
  /\ stage # "raw" /\ awaited = 0
  /\ \A i \in Marks : (mark[i].at = "unsent") <=> i >= m
  /\ mark' = [mark EXCEPT ![m] = [at |-> "load", status |-> stage, calls |-> batch]]
  /\ awaited' = m
  /\ UNCHANGED <<rows, newest, posts, stage, batch, charged, old, faults>>

(* select(Cdr).where(call_uuid.in_).                                        *)
LoadMarked(m) ==
  /\ mark[m].at = "load"
  /\ mark' = [mark EXCEPT ![m].at = "write"]
  /\ old' = [old EXCEPT ![m] = rows]
  /\ UNCHANGED <<rows, newest, posts, pipeline, faults>>

(* Mutant of Marked: the status is written whatever was loaded.             *)
BugOverMarked(m) ==
  [p \in Post |-> IF p[1] \in mark[m].calls THEN mark[m].status ELSE rows[p]]

(* The UPDATEs: of the records it loaded, those that had another status.    *)
Marked(m) ==
  [p \in Post |->
     IF old[m][p] \notin {"none", mark[m].status} /\ p[1] \in mark[m].calls
     THEN mark[m].status ELSE rows[p]]

WriteMarked(m) ==
  /\ mark[m].at = "write"
  /\ rows' = Marked(m)
  /\ mark' = [mark EXCEPT ![m].at = "reply"]
  /\ old' = [old EXCEPT ![m] = NoRows]
  /\ UNCHANGED <<newest, posts, pipeline, faults>>

(* The answer: the batch is rated, or is fed and the next one is read.      *)
ReplyMarked(m) ==
  /\ mark[m].at = "reply"
  /\ mark' = [mark EXCEPT ![m] = Over]
  /\ IF awaited = m
     THEN /\ awaited' = 0
          /\ stage' = IF stage = "rated" THEN "fed" ELSE "raw"
          /\ batch' = IF stage = "rated" THEN batch ELSE {}
     ELSE UNCHANGED <<awaited, stage, batch>>
  /\ UNCHANGED <<rows, newest, posts, charged, old, faults>>

LoseMark(m) ==
  /\ mark[m].at \in {"load", "write", "reply"} /\ Fault
  /\ mark' = [mark EXCEPT ![m] = Over]
  /\ old' = [old EXCEPT ![m] = NoRows]
  /\ awaited' = IF awaited = m THEN 0 ELSE awaited
  /\ UNCHANGED <<rows, newest, posts, stage, batch, charged>>

GiveUp ==
  /\ awaited # 0 /\ Fault
  /\ awaited' = 0
  /\ UNCHANGED <<rows, newest, posts, stage, batch, charged, marks>>

ServePost(p) == Find(p) \/ Write(p) \/ Reply(p)
ServeMark(m) == LoadMarked(m) \/ WriteMarked(m) \/ ReplyMarked(m)

Next ==
  \/ \E p \in Post : Send(p) \/ ServePost(p) \/ Lose(p)
  \/ \E m \in Marks : SendMark(m) \/ ServeMark(m) \/ LoseMark(m)
  \/ ReadFeed \/ GiveUp

Spec == Init /\ [][Next]_vars

(* A request that was sent is served, and the pipeline goes on; nobody has  *)
(* to post, and posts and faults are owed nothing.                          *)
FairSpec ==
  /\ Spec
  /\ \A p \in Post : WF_vars(ServePost(p))
  /\ \A m \in Marks : WF_vars(ServeMark(m))
  /\ WF_vars(ReadFeed \/ \E m \in Marks : SendMark(m))

-----------------------------------------------------------------------------
(* Properties.                                                              *)

(* Every variable has its type, a post that found a record has not inserted *)
(* one, and the list of the records is the records.                         *)
TypeOK ==
  /\ rows \in [Post -> Rating \cup {"none"}]
  /\ newest \in Seq(Post) /\ ToSet(newest) = Records
  /\ at \in [Post -> {"unsent", "find", "write", "reply", "over"}]
  /\ found \in [Post -> SUBSET Records]
  /\ answered \subseteq Calls /\ overlap \subseteq Calls
  /\ stage \in Rating /\ batch \subseteq Calls /\ charged \in [Calls -> Nat]
  /\ awaited \in {0} \cup Marks
  /\ mark \in [Marks -> [at : {"unsent", "load", "write", "reply", "over"},
                         status : Rating, calls : SUBSET Calls]]
  /\ old \in [Marks -> [Post -> Rating \cup {"none"}]]
  /\ faults \in 0 .. MaxFaults

(* A record that was answered is not lost, and rated or fed it is not       *)
(* without having been charged ("never lose billable records",              *)
(* architecture-design.md:163 and :212).                                    *)
Billable ==
  /\ \A c \in answered : RecordsOf(c) # {}
  /\ \A c \in Calls : (\E p \in RecordsOf(c) : rows[p] # "raw") => charged[c] > 0

(* The upsert is idempotent as long as one post of a call ends before the   *)
(* next begins, whatever is lost and marked in between: the call has one    *)
(* record and is charged once (cdr/ingest.py:56-57).                        *)
Idempotent ==
  \A c \in Calls \ overlap : Cardinality(RecordsOf(c)) <= 1 /\ charged[c] <= 1

(* A record that was rated never shows up in the raw feed again, although   *)
(* its call may be posted again and an old mark arrive late, as long as no *)
(* mark says raw: mark_cdrs would accept one (api/cdr.py:98), but the       *)
(* pipeline it is written for sends none (api/cdr.py:95-96).               *)
NeverRawAgain ==
  [][\A p \in Records : rows[p] # "raw" => rows'[p] # "raw"]_vars

(* How far a call has come.  "doubled", recorded or charged more than once, *)
(* is none of the stages of CallBilling.                                    *)
Doubled(c) == charged[c] > 1 \/ \E p, q \in RecordsOf(c) : p # q

Life(c) ==
  IF c \in overlap THEN "disputed"
  ELSE IF Doubled(c) THEN "doubled"
  ELSE IF RecordsOf(c) = {} THEN "unknown"
  ELSE IF charged[c] = 0 THEN "recorded"
  ELSE IF \E p \in RecordsOf(c) : rows[p] = "raw" THEN "charged" ELSE "settled"

Billing == INSTANCE CallBilling WITH life <- [c \in Calls |-> Life(c)]

(* Posts, pages of the feed and marks, lost, late and sent again, implement *)
(* the promise of CallBilling: a call is recorded, charged once, and then   *)
(* leaves the feed for good (cdr/ingest.py:56-57, the pipeline of           *)
(* architecture-design.md:163 and :212).                                    *)
BillingKept == Billing!Spec

(* A call that was recorded leaves the raw feed, as long as there are marks *)
(* to be sent (MaxMarks): the newest come first, but none is passed over.   *)
EveryCallRated ==
  \A c \in Calls :
    RecordsOf(c) # {} ~> (\A p \in RecordsOf(c) : rows[p] # "raw")
                         \/ \A m \in Marks : mark[m].at # "unsent"

(* "mod_json_cdr (or its retry) may deliver the same call more than once;   *)
(* update in place rather than creating duplicates", cdr/ingest.py:56-57.   *)
OneRecordPerCall == \A c \in Calls : Cardinality(RecordsOf(c)) <= 1
=============================================================================
