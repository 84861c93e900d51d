-------------------------- MODULE CdrLedger_proofs --------------------------
(***************************************************************************)
(* Proofs about CdrLedger for any number of calls, posts, marks and faults.*)
(*                                                                         *)
(* The argument: a post inserts its record at most once and before it      *)
(* answers (Placed); what is marked was charged (Charged); records neither *)
(* go nor become raw again (RecordsKept); and a call whose posts do not    *)
(* overlap gets no second record (Alone), so that once it is charged its   *)
(* record stays out of the feed from the answer of its mark on (Once).     *)
(* From these, a call goes through the stages of CallBilling (StepMaps).   *)
(***************************************************************************)
EXTENDS CdrLedger, FiniteSetTheorems, SequenceTheorems, TLAPS

USE CdrAssumption

(* What a mark loaded is still there, and no rawer than it was.             *)
LoadedRows ==
  \A m \in Marks, p \in Post :
    old[m][p] # "none" => p \in Records /\ (old[m][p] # "raw" => rows[p] # "raw")

Underway(m) == mark[m].at \in {"load", "write", "reply"}

MarksSet == \A m \in Marks : Underway(m) => mark[m].status \in {"rated", "fed"}

Placed ==
  \A p \in Post :
    /\ at[p] \in {"unsent", "find", "write"} => p \notin Records
    /\ \A q \in found[p] : q[1] = p[1]
    /\ at[p] = "reply" => RecordsOf(p[1]) # {}

Inv == TypeOK /\ LoadedRows /\ MarksSet /\ Placed

-----------------------------------------------------------------------------
(* Types, and what becomes of a record.                                     *)

LEMMA InitInv == Init => Inv
<1> SUFFICES ASSUME Init PROVE Inv
  OBVIOUS
<1>1. Records = {} /\ ToSet(newest) = {}
  BY DEF Init, Records, NoRows, ToSet
<1>2. TypeOK
  BY <1>1 DEF Init, TypeOK, NoRows, Rating, Unsent
<1>3. LoadedRows /\ MarksSet /\ Placed
  BY <1>1 DEF Init, LoadedRows, MarksSet, Underway, Placed, NoRows, Unsent
<1> QED
  BY <1>2, <1>3 DEF Inv

LEMMA PostFinite == IsFiniteSet(Post)
<1>1. IsFiniteSet(1..MaxPosts)
  BY FS_Interval
<1> QED
  BY <1>1, FS_Product DEF Post

(* The steps that change the rows, and how.                                 *)
LEMMA RowsStep ==
  ASSUME Inv, [Next]_vars
  PROVE  \/ UNCHANGED <<rows, newest>>
         \/ \E p \in Post : Write(p) /\ found[p] = {} /\ rows' = [rows EXCEPT ![p] = "raw"]
                            /\ newest' = <<p>> \o newest
         \/ \E m \in Marks : WriteMarked(m) /\ newest' = newest
<1> USE DEF posts, pipeline, marks
<1>1. ASSUME NEW p \in Post, Write(p)
      PROVE  \/ UNCHANGED <<rows, newest>>
             \/ found[p] = {} /\ rows' = [rows EXCEPT ![p] = "raw"] /\ newest' = <<p>> \o newest
  BY <1>1 DEF Write, Upserted
<1>2. ASSUME NEW p \in Post, Send(p) \/ Find(p) \/ Reply(p) \/ Lose(p)
      PROVE  UNCHANGED <<rows, newest>>
  BY <1>2 DEF Send, Find, Reply, Lose
<1>3. ASSUME NEW m \in Marks, SendMark(m) \/ LoadMarked(m) \/ ReplyMarked(m) \/ LoseMark(m)
      PROVE  UNCHANGED <<rows, newest>>
  BY <1>3 DEF SendMark, LoadMarked, ReplyMarked, LoseMark
<1>4. ASSUME NEW m \in Marks, WriteMarked(m) PROVE newest' = newest
  BY <1>4 DEF WriteMarked
<1>5. CASE ReadFeed \/ GiveUp \/ UNCHANGED vars
  BY <1>5 DEF ReadFeed, GiveUp, vars
<1> QED
  BY <1>1, <1>2, <1>3, <1>4, <1>5 DEF Next, ServePost, ServeMark

LEMMA MarkedRow ==
  ASSUME Inv, NEW m \in Marks, WriteMarked(m), NEW p \in Post
  PROVE  \/ rows'[p] = rows[p]
         \/ /\ p \in Records /\ rows'[p] = mark[m].status /\ rows'[p] \in {"rated", "fed"}
            /\ p[1] \in mark[m].calls
<1>1. rows'[p] = IF old[m][p] \notin {"none", mark[m].status} /\ p[1] \in mark[m].calls
                 THEN mark[m].status ELSE rows[p]
  BY DEF WriteMarked, Marked
<1>2. mark[m].status \in {"rated", "fed"}
  BY DEF WriteMarked, Inv, MarksSet, Underway
<1> QED
  BY <1>1, <1>2 DEF Inv, LoadedRows

(* A record is not lost and, once it is rated, not raw again; the only new  *)
(* one is that of a post that found none.                                  *)
LEMMA RecordsKept ==
  ASSUME Inv, [Next]_vars, NEW p \in Post
  PROVE  /\ p \in Records => p \in Records' /\ (rows[p] # "raw" => rows'[p] # "raw")
         /\ p \in Records' \ Records => Write(p) /\ found[p] = {} /\ rows'[p] = "raw"
<1>1. rows \in [Post -> Rating \cup {"none"}]
  BY DEF Inv, TypeOK
<1>2. CASE UNCHANGED rows
  BY <1>2 DEF Records
<1>3. ASSUME NEW q \in Post, Write(q), found[q] = {}, rows' = [rows EXCEPT ![q] = "raw"]
      PROVE  /\ p \in Records => p \in Records' /\ (rows[p] # "raw" => rows'[p] # "raw")
             /\ p \in Records' \ Records => Write(p) /\ found[p] = {} /\ rows'[p] = "raw"
  <2>1. q \notin Records
    BY <1>3 DEF Write, Inv, Placed
  <2> QED
    BY <1>1, <1>3, <2>1 DEF Records
<1>4. ASSUME NEW m \in Marks, WriteMarked(m)
      PROVE  /\ p \in Records => p \in Records' /\ (rows[p] # "raw" => rows'[p] # "raw")
             /\ p \in Records' \ Records => Write(p) /\ found[p] = {} /\ rows'[p] = "raw"
  BY <1>4, MarkedRow DEF Records
<1> QED
  BY <1>2, <1>3, <1>4, RowsStep

LEMMA RowsType ==
  ASSUME Inv, [Next]_vars
  PROVE  /\ rows' \in [Post -> Rating \cup {"none"}]
         /\ newest' \in Seq(Post) /\ ToSet(newest') = Records'
<1>1. rows \in [Post -> Rating \cup {"none"}] /\ newest \in Seq(Post) /\ ToSet(newest) = Records
  BY DEF Inv, TypeOK
<1>2. CASE UNCHANGED <<rows, newest>>
  BY <1>1, <1>2 DEF Records
<1>3. ASSUME NEW p \in Post, rows' = [rows EXCEPT ![p] = "raw"], newest' = <<p>> \o newest
      PROVE  /\ rows' \in [Post -> Rating \cup {"none"}]
             /\ newest' \in Seq(Post) /\ ToSet(newest') = Records'
  <2>1. rows' \in [Post -> Rating \cup {"none"}]
    BY <1>1, <1>3 DEF Rating
  <2>2. Records' = Records \cup {p}
    BY <1>1, <1>3 DEF Records
  <2>3. /\ newest' \in Seq(Post) /\ Len(newest') = Len(newest) + 1
        /\ newest'[1] = p /\ \A i \in 1..Len(newest) : newest'[i + 1] = newest[i]
    BY <1>1, <1>3
  <2>4. ToSet(newest') \subseteq ToSet(newest) \cup {p}
    <3> SUFFICES ASSUME NEW i \in 1..Len(newest') PROVE newest'[i] \in ToSet(newest) \cup {p}
      BY <2>3 DEF ToSet
    <3>1. i = 1 \/ \E j \in 1..Len(newest) : i = j + 1
      <4>1. i = 1 \/ i - 1 \in 1..Len(newest)
        BY <1>1, <2>3
      <4>2. i = (i - 1) + 1
        OBVIOUS
      <4> QED
        BY <4>1, <4>2
    <3>2. CASE i = 1
      BY <2>3, <3>2
    <3>3. ASSUME NEW j \in 1..Len(newest), i = j + 1 PROVE newest'[i] \in ToSet(newest)
      <4>1. newest'[i] = newest[j] /\ j \in DOMAIN newest
        BY <1>1, <2>3, <3>3
      <4> QED
        BY <4>1 DEF ToSet
    <3> QED
      BY <3>1, <3>2, <3>3
  <2>5. ToSet(newest) \cup {p} \subseteq ToSet(newest')
    <3>1. p \in ToSet(newest')
      BY <1>1, <2>3 DEF ToSet
    <3>2. ASSUME NEW i \in 1..Len(newest) PROVE newest[i] \in ToSet(newest')
      <4>1. newest'[i + 1] = newest[i] /\ i + 1 \in DOMAIN newest'
        BY <1>1, <2>3
      <4> QED
        BY <4>1 DEF ToSet
    <3> QED
      BY <1>1, <3>1, <3>2 DEF ToSet
  <2> QED
    BY <1>1, <2>1, <2>2, <2>3, <2>4, <2>5
<1>4. ASSUME NEW m \in Marks, WriteMarked(m), newest' = newest
      PROVE  /\ rows' \in [Post -> Rating \cup {"none"}]
             /\ newest' \in Seq(Post) /\ ToSet(newest') = Records'
  <2>1. \A p \in Post : rows'[p] \in Rating \cup {"none"} /\ (p \in Records' <=> p \in Records)
    BY <1>1, <1>4, MarkedRow DEF Rating, Records
  <2>2. rows' = [p \in Post |-> rows'[p]]
    BY <1>4 DEF WriteMarked, Marked
  <2>3. Records' = Records
    BY <2>1 DEF Records
  <2> QED
    BY <1>1, <1>4, <2>1, <2>2, <2>3
<1> QED
  BY <1>2, <1>3, <1>4, RowsStep
LEMMA TypeStep == Inv /\ [Next]_vars => TypeOK'
<1> SUFFICES ASSUME Inv, [Next]_vars PROVE TypeOK'
  OBVIOUS
<1> USE DEF posts, pipeline, marks, Fault
<1>1. /\ TypeOK
      /\ rows' \in [Post -> Rating \cup {"none"}] /\ newest' \in Seq(Post)
      /\ ToSet(newest') = Records' /\ Records \subseteq Records'
  BY RowsType, RecordsKept DEF Inv, Records
<1> DEFINE Place == {"unsent", "find", "write", "reply", "over"}
           MarkType == [at : {"unsent", "load", "write", "reply", "over"},
                        status : Rating, calls : SUBSET Calls]
<1>2. ASSUME NEW p \in Post, Send(p) PROVE TypeOK'
  <2>1. p[1] \in Calls /\ overlap' \subseteq Calls /\ faults' \in 0..MaxFaults
    BY <1>1, <1>2 DEF Send, TypeOK, Post
  <2> QED
    BY <1>1, <1>2, <2>1 DEF Send, Move, TypeOK
<1>3. ASSUME NEW p \in Post, Find(p) PROVE TypeOK'
  <2>1. found \in [Post -> SUBSET Records]
    BY <1>1 DEF TypeOK
  <2>2. found' = found \/ \E q \in Records : found' = [found EXCEPT ![p] = {q}]
    BY <1>3 DEF Find, Matching, RecordsOf
  <2>3. found' \in [Post -> SUBSET Records]
    BY <2>1, <2>2
  <2> QED
    BY <1>1, <1>3, <2>3 DEF Find, Move, TypeOK
<1>4. ASSUME NEW p \in Post, Write(p) \/ Lose(p) PROVE TypeOK'
  <2>1. found' = [found EXCEPT ![p] = {}] /\ found \in [Post -> SUBSET Records]
    BY <1>1, <1>4 DEF Write, Lose, TypeOK
  <2>2. found' \in [Post -> SUBSET Records]
    BY <2>1
  <2> QED
    BY <1>1, <1>4, <2>2 DEF Write, Lose, Move, TypeOK
<1>5. ASSUME NEW p \in Post, Reply(p) PROVE TypeOK'
  <2>1. p[1] \in Calls
    BY DEF Post
  <2> QED
    BY <1>1, <1>5, <2>1 DEF Reply, Move, TypeOK
<1>6. CASE ReadFeed
  <2>1. Feed \subseteq Post
    <3>1. \A i \in DOMAIN newest : newest[i] \in Post
      BY <1>1 DEF TypeOK
    <3> QED
      BY <3>1 DEF Feed
  <2>2. batch' \subseteq Calls
    BY <1>6, <2>1 DEF ReadFeed, Post
  <2>3. \A c \in Calls : Cardinality({p \in Feed : p[1] = c}) \in Nat
    BY <2>1, PostFinite, FS_Subset, FS_CardinalityType
  <2>4. charged' \in [Calls -> Nat]
    <3>1. charged' = [c \in Calls |-> charged[c] + Cardinality({p \in Feed : p[1] = c})]
      BY <1>6 DEF ReadFeed
    <3>2. \A c \in Calls : charged[c] \in Nat
      BY <1>1 DEF TypeOK
    <3> QED
      BY <2>3, <3>1, <3>2
  <2> QED
    BY <1>1, <1>6, <2>2, <2>4 DEF ReadFeed, TypeOK, Rating
<1>7. ASSUME NEW m \in Marks, SendMark(m) PROVE TypeOK'
  <2>1. [at |-> "load", status |-> stage, calls |-> batch] \in MarkType
    BY <1>1 DEF TypeOK
  <2>2. mark' \in [Marks -> MarkType]
    BY <1>1, <1>7, <2>1 DEF SendMark, TypeOK
  <2> QED
    BY <1>1, <1>7, <2>2 DEF SendMark, TypeOK
<1>8. ASSUME NEW m \in Marks, LoadMarked(m) PROVE TypeOK'
  <2>0. [mark[m] EXCEPT !.at = "write"] \in MarkType
    <3>1. mark[m] \in MarkType
      BY <1>1 DEF TypeOK
    <3> QED
      BY <3>1
  <2>1. mark' \in [Marks -> MarkType] /\ old' \in [Marks -> [Post -> Rating \cup {"none"}]]
    BY <1>1, <1>8, <2>0 DEF LoadMarked, TypeOK
  <2> QED
    BY <1>1, <1>8, <2>1 DEF LoadMarked, TypeOK
<1>9. ASSUME NEW m \in Marks, WriteMarked(m) PROVE TypeOK'
  <2>0. [mark[m] EXCEPT !.at = "reply"] \in MarkType
    <3>1. mark[m] \in MarkType
      BY <1>1 DEF TypeOK
    <3> QED
      BY <3>1
  <2>1. mark' \in [Marks -> MarkType] /\ old' \in [Marks -> [Post -> Rating \cup {"none"}]]
    BY <1>1, <1>9, <2>0 DEF WriteMarked, TypeOK, NoRows
  <2> QED
    BY <1>1, <1>9, <2>1 DEF WriteMarked, TypeOK
<1>10. ASSUME NEW m \in Marks, ReplyMarked(m) PROVE TypeOK'
  <2>1. mark' \in [Marks -> MarkType]
    BY <1>1, <1>10 DEF ReplyMarked, TypeOK, Over, Unsent, Rating
  <2> QED
    BY <1>1, <1>10, <2>1 DEF ReplyMarked, TypeOK, Rating
<1>11. ASSUME NEW m \in Marks, LoseMark(m) PROVE TypeOK'
  <2>1. mark' \in [Marks -> MarkType] /\ old' \in [Marks -> [Post -> Rating \cup {"none"}]]
    BY <1>1, <1>11 DEF LoseMark, TypeOK, Over, Unsent, Rating, NoRows
  <2> QED
    BY <1>1, <1>11, <2>1 DEF LoseMark, TypeOK
<1>12. CASE GiveUp
  BY <1>1, <1>12 DEF GiveUp, TypeOK
<1>13. CASE UNCHANGED vars
  BY <1>1, <1>13 DEF vars, TypeOK
<1> QED
  BY <1>2, <1>3, <1>4, <1>5, <1>6, <1>7, <1>8, <1>9, <1>10, <1>11, <1>12, <1>13
     DEF Next, ServePost, ServeMark

(* What a mark is set to and what it loaded.                                *)
LEMMA MarksStep == Inv /\ [Next]_vars => LoadedRows' /\ MarksSet'
<1> SUFFICES ASSUME Inv, [Next]_vars PROVE LoadedRows' /\ MarksSet'
  OBVIOUS
<1> USE DEF posts, pipeline, marks
<1>1. ASSUME UNCHANGED marks PROVE LoadedRows' /\ MarksSet'
  BY <1>1, RecordsKept DEF Inv, LoadedRows, MarksSet, Underway
<1>2. ASSUME NEW m \in Marks, SendMark(m) PROVE LoadedRows' /\ MarksSet'
  <2>1. stage \in {"rated", "fed"} /\ old' = old
    BY <1>2 DEF SendMark, Inv, TypeOK, Rating
  <2>2. MarksSet'
    BY <1>2, <2>1 DEF SendMark, Inv, TypeOK, MarksSet, Underway
  <2> QED
    BY <2>1, <2>2, RecordsKept DEF Inv, LoadedRows
<1>3. ASSUME NEW m \in Marks, LoadMarked(m) PROVE LoadedRows' /\ MarksSet'
  <2>1. MarksSet'
    BY <1>3 DEF LoadMarked, Inv, TypeOK, MarksSet, Underway
  <2>2. \A n \in Marks : old'[n] = IF n = m THEN rows ELSE old[n]
    BY <1>3 DEF LoadMarked, Inv, TypeOK
  <2> QED
    BY <2>1, <2>2, RecordsKept DEF Inv, LoadedRows, Records
<1>4. ASSUME NEW m \in Marks, WriteMarked(m) \/ ReplyMarked(m) \/ LoseMark(m)
      PROVE LoadedRows' /\ MarksSet'
  <2>1. MarksSet'
    BY <1>4 DEF WriteMarked, ReplyMarked, LoseMark, Inv, TypeOK, MarksSet, Underway, Over, Unsent
  <2>2. \A n \in Marks, p \in Post : old'[n][p] = old[n][p] \/ old'[n][p] = "none"
    <3>1. old' = old \/ old' = [old EXCEPT ![m] = NoRows]
      BY <1>4 DEF WriteMarked, ReplyMarked, LoseMark
    <3>2. old \in [Marks -> [Post -> Rating \cup {"none"}]]
      BY DEF Inv, TypeOK
    <3>3. \A n \in Marks : old'[n] = old[n] \/ old'[n] = NoRows
      BY <3>1, <3>2
    <3> QED
      BY <3>3 DEF NoRows
  <2> QED
    BY <2>1, <2>2, RecordsKept DEF Inv, LoadedRows
<1> QED
  BY <1>1, <1>2, <1>3, <1>4
     DEF Next, ServePost, ServeMark, Send, Find, Write, Reply, Lose, ReadFeed, GiveUp, vars
LEMMA RecordsOfKept ==
  ASSUME Inv, [Next]_vars, NEW c
  PROVE  RecordsOf(c) \subseteq RecordsOf(c)'
  BY RecordsKept DEF RecordsOf, Records

(* A post that has written has left a record of its call.                   *)
LEMMA WrittenRecord ==
  ASSUME Inv, [Next]_vars, NEW p \in Post, Write(p)
  PROVE  RecordsOf(p[1])' # {}
<1>1. CASE found[p] = {}
  <2>1. rows \in [Post -> Rating \cup {"none"}]
    BY DEF Inv, TypeOK
  <2>2. rows'[p] = "raw"
    BY <1>1, <2>1 DEF Write, Upserted
  <2> QED
    BY <2>2 DEF RecordsOf, Records
<1>2. CASE found[p] # {}
  <2>1. PICK q \in found[p] : q \in Records /\ q[1] = p[1]
    BY <1>2 DEF Inv, TypeOK, Placed
  <2> QED
    BY <2>1, RecordsOfKept DEF RecordsOf
<1> QED
  BY <1>1, <1>2

(* How a post moves.                                                        *)
LEMMA PostMoves ==
  ASSUME Inv, [Next]_vars, NEW p \in Post
  PROVE  \/ at'[p] = at[p] /\ found'[p] = found[p] /\ ~Write(p)
         \/ Send(p) \/ Find(p) \/ Write(p) \/ Reply(p) \/ Lose(p)
<1> USE DEF posts, Move
<1>1. ASSUME NEW q \in Post \ {p}, Send(q) \/ Find(q) \/ Write(q) \/ Reply(q) \/ Lose(q)
      PROVE  at'[p] = at[p] /\ found'[p] = found[p]
  BY <1>1 DEF Send, Find, Write, Reply, Lose, Inv, TypeOK
<1>2. ASSUME \/ \E m \in Marks : SendMark(m) \/ ServeMark(m) \/ LoseMark(m)
             \/ ReadFeed \/ GiveUp \/ UNCHANGED vars
      PROVE  at'[p] = at[p] /\ found'[p] = found[p]
  BY <1>2 DEF SendMark, ServeMark, LoadMarked, WriteMarked, ReplyMarked, LoseMark, ReadFeed,
              GiveUp, vars
<1> QED
  BY <1>1, <1>2 DEF Next, ServePost

LEMMA PlacedStep == Inv /\ [Next]_vars => Placed'
<1> SUFFICES ASSUME Inv, [Next]_vars, NEW p \in Post
             PROVE  /\ at'[p] \in {"unsent", "find", "write"} => p \notin Records'
                    /\ \A q \in found'[p] : q[1] = p[1]
                    /\ at'[p] = "reply" => RecordsOf(p[1])' # {}
  BY DEF Placed
<1> USE DEF Move
<1>1. /\ at[p] \in {"unsent", "find", "write"} => p \notin Records
      /\ \A q \in found[p] : q[1] = p[1]
      /\ at[p] = "reply" => RecordsOf(p[1]) # {}
      /\ at \in [Post -> {"unsent", "find", "write", "reply", "over"}]
      /\ found \in [Post -> SUBSET Records]
  BY DEF Inv, Placed, TypeOK
<1>2. CASE at'[p] = at[p] /\ found'[p] = found[p] /\ ~Write(p)
  BY <1>1, <1>2, RecordsKept, RecordsOfKept
<1>3. CASE Send(p)
  <2>1. at[p] = "unsent" /\ at'[p] = "find" /\ found' = found
    BY <1>1, <1>3 DEF Send
  <2>2. ~Write(p)
    BY <2>1 DEF Write
  <2> QED
    BY <1>1, <2>1, <2>2, RecordsKept
<1>4. CASE Find(p)
  <2>1. at[p] = "find" /\ at'[p] = "write"
    BY <1>1, <1>4 DEF Find
  <2>2. found'[p] = found[p] \/ \E q \in Records : q[1] = p[1] /\ found'[p] = {q}
    BY <1>1, <1>4 DEF Find, Matching, RecordsOf
  <2>3. ~Write(p)
    BY <2>1 DEF Write
  <2> QED
    BY <1>1, <2>1, <2>2, <2>3, RecordsKept
<1>5. CASE Write(p)
  <2>1. at'[p] = "reply" /\ found'[p] = {}
    BY <1>1, <1>5 DEF Write
  <2> QED
    BY <1>5, <2>1, WrittenRecord
<1>6. CASE Reply(p) \/ Lose(p)
  <2>1. at'[p] = "over" /\ (found'[p] = found[p] \/ found'[p] = {})
    BY <1>1, <1>6 DEF Reply, Lose
  <2> QED
    BY <1>1, <2>1
<1> QED
  BY <1>2, <1>3, <1>4, <1>5, <1>6, PostMoves

LEMMA InvAlways == Spec => []Inv
<1>1. Inv /\ [Next]_vars => Inv'
  BY TypeStep, MarksStep, PlacedStep DEF Inv
<1> QED
  BY <1>1, InitInv, PTL DEF Spec

(* Every variable has its type, a post that found a record has not inserted *)
(* one, and the list of the records is the records.                         *)
THEOREM TypeCorrect == Spec => []TypeOK
<1>1. Inv => TypeOK
  BY DEF Inv
<1> QED
  BY <1>1, InvAlways, PTL

(* A record that was rated is not in the raw feed again, whatever is posted *)
(* and whatever rated and fed marks are lost, late or repeated; the        *)
(* pipeline sends no others (cdr/ingest.py:61-67, api/cdr.py:104-105).      *)
THEOREM RatedStaysRated == Spec => NeverRawAgain
<1>1. Inv /\ [Next]_vars => [\A p \in Records : rows[p] # "raw" => rows'[p] # "raw"]_vars
  BY RecordsKept DEF Records
<1> QED
  BY <1>1, InvAlways, PTL DEF Spec, NeverRawAgain

-----------------------------------------------------------------------------
(* No record is lost, none is marked that was not charged.                  *)

Recorded == \A c \in answered : RecordsOf(c) # {}

Charged ==
  /\ \A p \in Records : rows[p] # "raw" => charged[p[1]] > 0
  /\ \A m \in Marks : Underway(m) => \A c \in mark[m].calls : charged[c] > 0
  /\ stage # "raw" => \A c \in batch : charged[c] > 0
  /\ \A c \in Calls : charged[c] > 0 => RecordsOf(c) # {}

(* The feed is of raw records; a call that is in it is charged once more,   *)
(* for each of its records, and no other is.                               *)
LEMMA FeedRaw ==
  ASSUME TypeOK
  PROVE  Feed \subseteq Post /\ Feed \subseteq Records /\ \A p \in Feed : rows[p] = "raw"
<1>1. \A i \in DOMAIN newest : newest[i] \in Post
  BY DEF TypeOK
<1>2. Feed \subseteq Post /\ \A p \in Feed : rows[p] = "raw"
  BY <1>1 DEF Feed
<1> QED
  BY <1>2 DEF Records

LEMMA ChargedBy ==
  ASSUME Inv, ReadFeed, NEW c \in Calls
  PROVE  /\ charged[c] \in Nat /\ charged'[c] \in Nat /\ charged'[c] >= charged[c]
         /\ c \in batch' => charged'[c] > 0 /\ RecordsOf(c) # {}
         /\ c \notin batch' => charged'[c] = charged[c]
         /\ charged'[c] = charged[c] + Cardinality({p \in Feed : p[1] = c})
<1> DEFINE F == {p \in Feed : p[1] = c}
<1>1. Feed \subseteq Post /\ Feed \subseteq Records
  BY FeedRaw DEF Inv
<1>2. IsFiniteSet(F)
  BY <1>1, PostFinite, FS_Subset
<1>3. Cardinality(F) \in Nat /\ (Cardinality(F) = 0 <=> F = {})
  BY <1>2, FS_CardinalityType, FS_EmptySet
<1>4. charged'[c] = charged[c] + Cardinality(F) /\ charged[c] \in Nat
  BY DEF ReadFeed, Inv, TypeOK
<1>5. c \in batch' <=> F # {}
  BY DEF ReadFeed
<1>6. F # {} => RecordsOf(c) # {}
  BY <1>1 DEF RecordsOf
<1> HIDE DEF F
<1> QED
  BY <1>3, <1>4, <1>5, <1>6 DEF F

LEMMA OnlyFeedCharges ==
  ASSUME Inv, [Next]_vars
  PROVE  ReadFeed \/ UNCHANGED charged
  BY DEF Next, ServePost, ServeMark, Send, Find, Write, Reply, Lose, SendMark, LoadMarked,
         WriteMarked, ReplyMarked, LoseMark, GiveUp, vars, pipeline

LEMMA ChargesKept ==
  ASSUME Inv, [Next]_vars, NEW c \in Calls
  PROVE  charged[c] \in Nat /\ charged'[c] \in Nat /\ charged'[c] >= charged[c]
<1>1. CASE ReadFeed
  BY <1>1, ChargedBy
<1>2. CASE UNCHANGED charged
  BY <1>2 DEF Inv, TypeOK
<1> QED
  BY <1>1, <1>2, OnlyFeedCharges

LEMMA RecordedStep == Inv /\ Recorded /\ [Next]_vars => Recorded'
<1> SUFFICES ASSUME Inv, Recorded, [Next]_vars, NEW c \in answered' PROVE RecordsOf(c)' # {}
  BY DEF Recorded
<1>1. c \in answered \/ \E p \in Post : Reply(p) /\ c = p[1]
  BY DEF Next, ServePost, ServeMark, Send, Find, Write, Reply, Lose, ReadFeed, SendMark, LoadMarked,
     WriteMarked, ReplyMarked, LoseMark, GiveUp, vars, posts
<1>2. RecordsOf(c) # {}
  BY <1>1 DEF Recorded, Reply, Inv, Placed
<1> QED
  BY <1>2, RecordsOfKept

(* How a mark moves.                                                        *)
LEMMA MarkMoves ==
  ASSUME Inv, [Next]_vars, NEW m \in Marks, Underway(m)'
  PROVE  \/ SendMark(m)
         \/ /\ Underway(m) /\ mark'[m].calls = mark[m].calls
            /\ mark'[m].status = mark[m].status
            /\ mark'[m].at = mark[m].at \/ LoadMarked(m) \/ WriteMarked(m)
<1>1. mark \in [Marks -> [at : {"unsent", "load", "write", "reply", "over"},
                        status : Rating, calls : SUBSET Calls]]
  BY DEF Inv, TypeOK
<1>2. ASSUME NEW n \in Marks, SendMark(n) \/ LoadMarked(n) \/ WriteMarked(n) \/ ReplyMarked(n) \/ LoseMark(n)
      PROVE  n = m \/ mark'[m] = mark[m]
  BY <1>1, <1>2 DEF SendMark, LoadMarked, WriteMarked, ReplyMarked, LoseMark
<1>3. ASSUME LoadMarked(m) \/ WriteMarked(m)
      PROVE  Underway(m) /\ mark'[m].calls = mark[m].calls /\ mark'[m].status = mark[m].status
  BY <1>1, <1>3 DEF LoadMarked, WriteMarked, Underway
<1>4. ~ReplyMarked(m) /\ ~LoseMark(m)
  BY <1>1 DEF ReplyMarked, LoseMark, Underway, Over, Unsent
<1>5. ASSUME \/ \E p \in Post : Send(p) \/ ServePost(p) \/ Lose(p)
             \/ ReadFeed \/ GiveUp \/ UNCHANGED vars
      PROVE  mark' = mark
  BY <1>5 DEF Send, ServePost, Find, Write, Reply, Lose, ReadFeed, GiveUp, vars, marks
<1> QED
  BY <1>2, <1>3, <1>4, <1>5 DEF Next, ServeMark, Underway

LEMMA ChargedStep == Inv /\ Charged /\ [Next]_vars => Charged'
<1> SUFFICES ASSUME Inv, Charged, [Next]_vars PROVE Charged'
  OBVIOUS
<1>1. \A p \in Post : p[1] \in Calls
  BY DEF Post
<1>2. \A p \in Post : p \in Records' /\ rows'[p] # "raw" => charged'[p[1]] > 0
  <2> SUFFICES ASSUME NEW p \in Post, p \in Records', rows'[p] # "raw" PROVE charged'[p[1]] > 0
    OBVIOUS
  <2>1. charged[p[1]] > 0
    <3>1. p \in Records
      BY RecordsKept
    <3>2. ASSUME NEW m \in Marks, WriteMarked(m) PROVE charged[p[1]] > 0
      BY <3>1, <3>2, MarkedRow DEF Charged, WriteMarked, Underway
    <3>3. ASSUME NEW q \in Post, Write(q), found[q] = {}, rows' = [rows EXCEPT ![q] = "raw"]
          PROVE  charged[p[1]] > 0
      BY <3>1, <3>3 DEF Charged, Inv, TypeOK
    <3>4. CASE rows' = rows
      BY <3>1, <3>4 DEF Charged
    <3> QED
      BY <3>2, <3>3, <3>4, RowsStep
  <2>2. charged[p[1]] \in Nat /\ charged'[p[1]] \in Nat /\ charged'[p[1]] >= charged[p[1]]
    BY <1>1, ChargesKept
  <2> QED
    BY <2>1, <2>2
<1>3. \A c \in Calls : charged'[c] > 0 => RecordsOf(c)' # {}
  <2> SUFFICES ASSUME NEW c \in Calls, charged'[c] > 0 PROVE RecordsOf(c)' # {}
    OBVIOUS
  <2>1. RecordsOf(c) # {}
    <3>1. CASE ReadFeed
      BY <3>1, ChargedBy DEF Charged
    <3>2. CASE charged' = charged
      BY <3>2 DEF Charged
    <3> QED
      BY <3>1, <3>2, OnlyFeedCharges
  <2> QED
    BY <2>1, RecordsOfKept
<1>4. stage' # "raw" => \A c \in batch' : charged'[c] > 0
  <2>1. CASE ReadFeed
    <3>1. batch' \subseteq Calls
      BY <2>1, <1>1, FeedRaw DEF ReadFeed, Inv
    <3> QED
      BY <2>1, <3>1, ChargedBy
  <2>2. CASE stage' # "raw" => stage # "raw" /\ batch' = batch
    <3> SUFFICES ASSUME stage' # "raw", NEW c \in batch' PROVE charged'[c] > 0
      OBVIOUS
    <3>1. c \in Calls /\ charged[c] > 0
      BY <2>2 DEF Inv, TypeOK, Charged
    <3> QED
      BY <3>1, ChargesKept
  <2> QED
    BY <2>1, <2>2 DEF Next, ServePost, ServeMark, Send, Find, Write, Reply, Lose, SendMark,
       LoadMarked, WriteMarked, ReplyMarked, LoseMark, GiveUp, vars, pipeline
<1>5. \A m \in Marks : Underway(m)' => \A c \in mark'[m].calls : charged'[c] > 0
  <2> SUFFICES ASSUME NEW m \in Marks, Underway(m)', NEW c \in mark'[m].calls
               PROVE  charged'[c] > 0
    OBVIOUS
  <2>1. CASE Underway(m) /\ mark'[m].calls = mark[m].calls
    <3>1. mark[m].calls \subseteq Calls
      BY DEF Inv, TypeOK
    <3>2. c \in Calls /\ charged[c] > 0
      BY <2>1, <3>1 DEF Charged
    <3> QED
      BY <3>2, ChargesKept
  <2>2. CASE SendMark(m)
    <3>1. mark'[m].calls = batch /\ stage # "raw" /\ charged' = charged
      BY <2>2 DEF SendMark, Inv, TypeOK
    <3> QED
      BY <3>1 DEF Charged
  <2> QED
    BY <2>1, <2>2, MarkMoves
<1> QED
  BY <1>2, <1>3, <1>4, <1>5 DEF Charged, Records

(* A recorded call is not lost and not marked without a charge.             *)
THEOREM NothingBillableLost == Spec => []Billable
<1>1. Init => Recorded /\ Charged
  BY DEF Init, Recorded, Charged, Records, NoRows, Underway, Unsent
<1>2. Recorded /\ Charged => Billable
  BY DEF Recorded, Charged, Billable, RecordsOf
<1> QED
  BY <1>1, <1>2, RecordedStep, ChargedStep, InvAlways, PTL DEF Spec

-----------------------------------------------------------------------------
(* A call whose posts do not overlap.                                       *)

Alone ==
  \A c \in Calls \ overlap :
    /\ \A p, q \in Post : p[1] = c /\ q[1] = c /\ Serving(p) /\ Serving(q) => p = q
    /\ \A p \in Post : p[1] = c /\ at[p] = "write" /\ found[p] = {} => RecordsOf(c) = {}
    /\ \A p, q \in RecordsOf(c) : p = q

LEMMA OverlapKept == ASSUME Inv, [Next]_vars PROVE overlap \subseteq overlap'
  BY DEF Next, ServePost, ServeMark, Send, Find, Write, Reply, Lose, SendMark, LoadMarked, ReadFeed,
         WriteMarked, ReplyMarked, LoseMark, GiveUp, vars, posts

(* A post that writes without a record found serves the only one there is.  *)
LEMMA SoleWriter ==
  ASSUME Inv, Alone, [Next]_vars, NEW p \in Post, p[1] \notin overlap, p \in Records' \ Records
  PROVE  Write(p) /\ RecordsOf(p[1]) = {}
<1>1. Write(p) /\ found[p] = {}
  BY RecordsKept
<1>2. p[1] \in Calls \ overlap
  BY DEF Post
<1> QED
  BY <1>1, <1>2 DEF Alone, Write

LEMMA AloneStep == Inv /\ Alone /\ [Next]_vars => Alone'
<1> SUFFICES ASSUME Inv, Alone, [Next]_vars, NEW c \in Calls \ overlap'
             PROVE  /\ \A p, q \in Post : p[1] = c /\ q[1] = c /\ Serving(p)' /\ Serving(q)' => p = q
                    /\ \A p \in Post : p[1] = c /\ at'[p] = "write" /\ found'[p] = {} => RecordsOf(c)' = {}
                    /\ \A p, q \in RecordsOf(c)' : p = q
  BY DEF Alone
<1>1. c \in Calls \ overlap
  BY OverlapKept
<1>2. /\ \A p, q \in Post : p[1] = c /\ q[1] = c /\ Serving(p) /\ Serving(q) => p = q
      /\ \A p \in Post : p[1] = c /\ at[p] = "write" /\ found[p] = {} => RecordsOf(c) = {}
      /\ \A p, q \in RecordsOf(c) : p = q
  BY <1>1 DEF Alone
<1>3. at \in [Post -> {"unsent", "find", "write", "reply", "over"}] /\ found \in [Post -> SUBSET Records]
  BY DEF Inv, TypeOK
<1>4. \A p \in Post : Serving(p)' => Serving(p) \/ Send(p)
  <2> SUFFICES ASSUME NEW p \in Post, Serving(p)' PROVE Serving(p) \/ Send(p)
    OBVIOUS
  <2> QED
    BY <1>3, PostMoves DEF Serving, Find, Write, Reply, Lose
<1>5. ASSUME NEW p \in Post, NEW q \in Post, p[1] = c, q[1] = c, Serving(p)', Serving(q)', Send(p)
      PROVE  p = q
  <2> SUFFICES ASSUME p # q PROVE FALSE
    OBVIOUS
  <2>1. at' = [at EXCEPT ![p] = "find"]
    BY <1>5 DEF Send, Move
  <2>2. Serving(q)
    BY <1>3, <1>5, <2>1 DEF Serving
  <2>3. c \in overlap'
    BY <1>5, <2>2 DEF Send
  <2> QED
    BY <2>3
<1>6. \A p, q \in Post : p[1] = c /\ q[1] = c /\ Serving(p)' /\ Serving(q)' => p = q
  BY <1>2, <1>4, <1>5
<1>7. ASSUME NEW p \in Post, p[1] = c, at'[p] = "write", found'[p] = {}
      PROVE  RecordsOf(c)' = {}
  <2>1. RecordsOf(c) = {}
    <3>1. CASE at'[p] = at[p] /\ found'[p] = found[p]
      BY <1>2, <1>7, <3>1
    <3>2. CASE Find(p)
      <4>1. Matching(c) = {}
        BY <1>3, <1>7, <3>2 DEF Find
      <4> QED
        BY <4>1 DEF Matching
    <3>3. ~Send(p) /\ ~Write(p) /\ ~Reply(p) /\ ~Lose(p)
      BY <1>3, <1>7 DEF Send, Write, Reply, Lose, Move
    <3> QED
      BY <3>1, <3>2, <3>3, PostMoves
  <2>2. Serving(p)
    <3>1. at[p] \in {"find", "write"}
      BY <1>3, <1>7, PostMoves DEF Send, Write, Reply, Lose, Find, Move
    <3> QED
      BY <3>1 DEF Serving
  <2>3. ASSUME NEW q \in RecordsOf(c)' PROVE FALSE
    <3>1. q \in Post /\ q \in Records' /\ q[1] = c /\ q \notin Records
      BY <2>1, <2>3 DEF RecordsOf, Records
    <3>2. Write(q)
      BY <1>1, <3>1, SoleWriter
    <3>3. Serving(q) /\ at'[q] = "reply"
      BY <1>3, <3>1, <3>2 DEF Write, Move, Serving
    <3>4. p = q
      BY <1>2, <1>7, <2>2, <3>1, <3>3
    <3> QED
      BY <1>7, <3>3, <3>4
  <2> QED
    BY <2>3
<1>8. ASSUME NEW p \in RecordsOf(c)', NEW q \in RecordsOf(c)' PROVE p = q
  <2>1. p \in Post /\ q \in Post /\ p[1] = c /\ q[1] = c /\ p \in Records' /\ q \in Records'
    BY <1>8 DEF RecordsOf, Records
  <2>2. CASE p \in Records /\ q \in Records
    BY <1>2, <2>1, <2>2 DEF RecordsOf
  <2>3. CASE p \notin Records
    <3>1. Write(p) /\ RecordsOf(c) = {}
      BY <1>1, <2>1, <2>3, SoleWriter
    <3>2. q \notin Records
      BY <2>1, <3>1 DEF RecordsOf
    <3>3. Write(q)
      BY <1>1, <2>1, <3>2, SoleWriter
    <3> QED
      BY <1>2, <2>1, <3>1, <3>3 DEF Write, Serving
  <2>4. CASE q \notin Records
    <3>1. Write(q) /\ RecordsOf(c) = {}
      BY <1>1, <2>1, <2>4, SoleWriter
    <3>2. p \notin Records
      BY <2>1, <3>1 DEF RecordsOf
    <3>3. Write(p)
      BY <1>1, <2>1, <3>2, SoleWriter
    <3> QED
      BY <1>2, <2>1, <3>1, <3>3 DEF Write, Serving
  <2> QED
    BY <2>2, <2>3, <2>4
<1> QED
  BY <1>6, <1>7, <1>8

(* No record of the call is in the raw feed.                                *)
Done(c) == \A p \in RecordsOf(c) : rows[p] # "raw"

(* The mark the pipeline waits for is of its batch.                         *)
Awaited ==
  /\ awaited # 0 => stage # "raw"
  /\ awaited \in Marks /\ Underway(awaited) => mark[awaited].calls = batch

Once ==
  \A c \in Calls \ overlap :
    /\ charged[c] <= 1
    /\ charged[c] > 0 /\ ~(stage = "rated" /\ c \in batch) => Done(c)
    /\ awaited \in Marks /\ mark[awaited].at = "reply" /\ c \in batch => Done(c)
    /\ \A m \in Marks : mark[m].at = "write" /\ c \in mark[m].calls =>
         \A p \in RecordsOf(c) : old[m][p] # "none"

AllInv == Inv /\ Charged /\ Alone /\ Awaited /\ Once

LEMMA AwaitedStep == Inv /\ Awaited /\ [Next]_vars => Awaited'
<1> SUFFICES ASSUME Inv, Awaited, [Next]_vars PROVE Awaited'
  OBVIOUS
<1> USE DEF posts, pipeline, marks
<1>1. CASE ReadFeed
  BY <1>1 DEF ReadFeed, Awaited, Marks
<1>2. ASSUME NEW m \in Marks, SendMark(m) PROVE Awaited'
  <2>1. awaited' = m /\ mark'[m].calls = batch /\ batch' = batch /\ stage' = stage /\ stage # "raw"
    BY <1>2 DEF SendMark, Inv, TypeOK
  <2> QED
    BY <2>1 DEF Awaited
<1>3. ASSUME NEW m \in Marks, ReplyMarked(m) \/ LoseMark(m) PROVE Awaited'
  <2>1. CASE awaited = m
    BY <1>3, <2>1 DEF ReplyMarked, LoseMark, Awaited, Marks
  <2>2. CASE awaited # m
    <3>1. awaited' = awaited /\ batch' = batch /\ stage' = stage
      BY <1>3, <2>2 DEF ReplyMarked, LoseMark
    <3>2. awaited \in Marks => mark'[awaited] = mark[awaited]
      BY <1>3, <2>2 DEF ReplyMarked, LoseMark, Inv, TypeOK
    <3> QED
      BY <3>1, <3>2 DEF Awaited, Underway
  <2> QED
    BY <2>1, <2>2
<1>4. CASE GiveUp
  BY <1>4 DEF GiveUp, Awaited, Marks
<1>5. ASSUME UNCHANGED pipeline,
             \/ UNCHANGED marks
             \/ \E m \in Marks : LoadMarked(m) \/ WriteMarked(m)
      PROVE  Awaited'
  <2>1. \A m \in Marks : Underway(m)' => Underway(m) /\ mark'[m].calls = mark[m].calls
    <3> SUFFICES ASSUME NEW m \in Marks, Underway(m)'
                 PROVE  Underway(m) /\ mark'[m].calls = mark[m].calls
      OBVIOUS
    <3>1. CASE UNCHANGED marks
      BY <3>1 DEF Underway
    <3>2. ASSUME NEW n \in Marks, LoadMarked(n) \/ WriteMarked(n) PROVE ~SendMark(m)
      BY <3>2 DEF LoadMarked, WriteMarked, SendMark, Inv, TypeOK
    <3> QED
      BY <1>5, <3>1, <3>2, MarkMoves
  <2> QED
    BY <1>5, <2>1 DEF Awaited
<1>6. ASSUME \/ \E p \in Post : Send(p) \/ ServePost(p) \/ Lose(p)
             \/ UNCHANGED vars
      PROVE  UNCHANGED pipeline /\ UNCHANGED marks
  BY <1>6 DEF Send, ServePost, Find, Write, Reply, Lose, vars
<1>7. ASSUME NEW m \in Marks, LoadMarked(m) \/ WriteMarked(m) PROVE UNCHANGED pipeline
  BY <1>7 DEF LoadMarked, WriteMarked
<1> QED
  BY <1>1, <1>2, <1>3, <1>4, <1>5, <1>6, <1>7 DEF Next, ServeMark

(* A charged call gets no second record and stays out of the feed.          *)
LEMMA DoneKept ==
  ASSUME AllInv, [Next]_vars, NEW c \in Calls \ overlap, charged[c] > 0
  PROVE  RecordsOf(c)' = RecordsOf(c) /\ (Done(c) => Done(c)')
<1>1. RecordsOf(c) # {}
  BY DEF AllInv, Charged
<1>2. ASSUME NEW p \in RecordsOf(c)', p \notin RecordsOf(c) PROVE FALSE
  <2>1. p \in Post /\ p[1] = c /\ p \in Records' \ Records
    BY <1>2 DEF RecordsOf, Records
  <2> QED
    BY <1>1, <2>1, SoleWriter DEF AllInv
<1>3. RecordsOf(c)' = RecordsOf(c)
  BY <1>2, RecordsOfKept DEF AllInv
<1> QED
  BY <1>3, RecordsKept DEF AllInv, Done, RecordsOf, Records

(* The pipeline reads a call at most once.                                  *)
LEMMA ReadOnce ==
  ASSUME AllInv, ReadFeed, NEW c \in Calls \ overlap
  PROVE  charged'[c] <= 1 /\ (charged'[c] > 0 /\ c \notin batch' => charged[c] > 0)
<1> DEFINE F == {p \in Feed : p[1] = c}
<1>1. Feed \subseteq Post /\ Feed \subseteq Records /\ \A p \in Feed : rows[p] = "raw"
  BY FeedRaw DEF AllInv, Inv
<1>2. F \subseteq RecordsOf(c) /\ F \subseteq Post
  BY <1>1 DEF RecordsOf
<1>3. \A p, q \in F : p = q
  BY <1>2 DEF AllInv, Alone
<1>4. F = {} \/ \E p \in F : F = {p}
  BY <1>3
<1>5. Cardinality(F) <= 1 /\ Cardinality(F) \in Nat /\ (F = {} => Cardinality(F) = 0)
  <2>1. CASE F = {}
    BY <2>1, FS_EmptySet
  <2>2. ASSUME NEW p \in F, F = {p} PROVE Cardinality(F) = 1 /\ F # {}
    <3>1. Cardinality({p}) = 1
      BY FS_Singleton
    <3> QED
      BY <2>2, <3>1
  <2> HIDE DEF F
  <2> QED
    BY <1>4, <2>1, <2>2
<1>6. charged'[c] = charged[c] + Cardinality(F) /\ charged[c] \in Nat
  BY ChargedBy DEF AllInv
<1>7. charged[c] <= 1 /\ (charged[c] > 0 => Done(c))
  BY DEF AllInv, Once, ReadFeed
<1>8. charged[c] > 0 => F = {}
  BY <1>1, <1>2, <1>7 DEF Done
<1>9. c \notin batch' => F = {}
  BY DEF ReadFeed
<1> HIDE DEF F
<1> QED
  BY <1>5, <1>6, <1>7, <1>8, <1>9

(* The mark of the batch reaches every record of a call that is not raw     *)
(* any more, or was raw when it was loaded.                                *)
LEMMA MarkReaches ==
  ASSUME AllInv, [Next]_vars, NEW m \in Marks, WriteMarked(m), awaited = m,
         NEW c \in Calls \ overlap, c \in batch
  PROVE  Done(c)'
<1>1. mark[m].at = "write" /\ Underway(m) /\ c \in mark[m].calls
  BY DEF WriteMarked, Underway, AllInv, Awaited
<1>2. charged[c] > 0
  BY <1>1 DEF AllInv, Charged
<1>3. RecordsOf(c)' = RecordsOf(c)
  BY <1>2, DoneKept
<1>4. ASSUME NEW p \in RecordsOf(c) PROVE rows'[p] # "raw"
  <2>1. p \in Post /\ p[1] = c /\ old[m][p] # "none"
    BY <1>1, <1>4 DEF AllInv, Once, RecordsOf, Records
  <2>2. rows'[p] = IF old[m][p] # mark[m].status THEN mark[m].status ELSE rows[p]
    BY <1>1, <2>1 DEF WriteMarked, Marked
  <2>3. mark[m].status \in {"rated", "fed"}
    BY <1>1 DEF AllInv, Inv, MarksSet
  <2>4. old[m][p] = mark[m].status => rows[p] # "raw"
    BY <2>1, <2>3 DEF AllInv, Inv, LoadedRows
  <2> QED
    BY <2>2, <2>3, <2>4
<1> QED
  BY <1>3, <1>4 DEF Done

LEMMA OnceStep == AllInv /\ [Next]_vars => Once'
<1> SUFFICES ASSUME AllInv, [Next]_vars, NEW c \in Calls \ overlap'
             PROVE  /\ charged'[c] <= 1
                    /\ charged'[c] > 0 /\ ~(stage' = "rated" /\ c \in batch') => Done(c)'
                    /\ awaited' \in Marks /\ mark'[awaited'].at = "reply" /\ c \in batch' => Done(c)'
                    /\ \A m \in Marks : mark'[m].at = "write" /\ c \in mark'[m].calls =>
                         \A p \in RecordsOf(c)' : old'[m][p] # "none"
  BY DEF Once
<1> USE DEF posts, pipeline, marks
<1>1. c \in Calls \ overlap /\ Inv /\ Once /\ Charged /\ Awaited
  BY OverlapKept DEF AllInv
<1>2. /\ charged[c] <= 1
      /\ charged[c] > 0 /\ ~(stage = "rated" /\ c \in batch) => Done(c)
      /\ awaited \in Marks /\ mark[awaited].at = "reply" /\ c \in batch => Done(c)
      /\ \A m \in Marks : mark[m].at = "write" /\ c \in mark[m].calls =>
           \A p \in RecordsOf(c) : old[m][p] # "none"
  BY <1>1 DEF Once
<1>3. charged'[c] <= 1
  BY <1>1, <1>2, ReadOnce, OnlyFeedCharges
<1>4. ASSUME charged'[c] > 0, ~(stage' = "rated" /\ c \in batch') PROVE Done(c)'
  <2>1. CASE ReadFeed
    <3>1. stage = "raw" /\ c \notin batch' /\ charged[c] > 0
      BY <1>1, <1>4, <2>1, ReadOnce DEF ReadFeed
    <3> QED
      BY <1>1, <1>2, <3>1, DoneKept
  <2>2. ASSUME NEW m \in Marks, ReplyMarked(m), awaited = m PROVE Done(c)'
    <3>1. charged[c] > 0 /\ mark[m].at = "reply"
      BY <1>4, <2>2 DEF ReplyMarked
    <3> QED
      BY <1>1, <1>2, <2>2, <3>1, DoneKept
  <2>3. CASE charged' = charged /\ stage' = stage /\ batch' = batch
    BY <1>1, <1>2, <1>4, <2>3, DoneKept
  <2>4. ASSUME NEW m \in Marks, ReplyMarked(m), awaited # m
        PROVE  charged' = charged /\ stage' = stage /\ batch' = batch
    BY <2>4 DEF ReplyMarked
  <2>5. ASSUME \/ \E p \in Post : Send(p) \/ ServePost(p) \/ Lose(p)
               \/ \E m \in Marks : SendMark(m) \/ LoadMarked(m) \/ WriteMarked(m) \/ LoseMark(m)
               \/ GiveUp \/ UNCHANGED vars
        PROVE  charged' = charged /\ stage' = stage /\ batch' = batch
    BY <2>5 DEF Send, ServePost, Find, Write, Reply, Lose, SendMark, LoadMarked, WriteMarked,
                LoseMark, GiveUp, vars
  <2> QED
    BY <2>1, <2>2, <2>3, <2>4, <2>5 DEF Next, ServeMark
<1>5. ASSUME awaited' \in Marks, mark'[awaited'].at = "reply", c \in batch' PROVE Done(c)'
  <2>1. ~ReadFeed
    BY <1>1, <1>5 DEF ReadFeed, Awaited, Marks
  <2>2. \A m \in Marks : ~SendMark(m)
    BY <1>1, <1>5 DEF SendMark, Inv, TypeOK
  <2>3. awaited' = awaited /\ batch' = batch
    <3>1. ASSUME NEW m \in Marks, ReplyMarked(m) \/ LoseMark(m)
          PROVE awaited' = awaited /\ batch' = batch
      BY <1>5, <3>1 DEF ReplyMarked, LoseMark, Marks
    <3>2. ~GiveUp
      BY <1>5 DEF GiveUp, Marks
    <3>3. ASSUME \/ \E p \in Post : Send(p) \/ ServePost(p) \/ Lose(p)
                 \/ \E m \in Marks : LoadMarked(m) \/ WriteMarked(m)
                 \/ UNCHANGED vars
          PROVE  awaited' = awaited /\ batch' = batch
      BY <3>3 DEF Send, ServePost, Find, Write, Reply, Lose, LoadMarked, WriteMarked, vars
    <3> QED
      BY <2>1, <2>2, <3>1, <3>2, <3>3 DEF Next, ServeMark
  <2>4. PICK m \in Marks : m = awaited /\ mark'[m].at = "reply" /\ Underway(m)'
    BY <1>5, <2>3 DEF Underway
  <2>5. CASE WriteMarked(m)
    BY <1>1, <1>5, <2>3, <2>4, <2>5, MarkReaches
  <2>6. CASE mark'[m].at = mark[m].at
    <3>1. stage # "raw"
      BY <1>1, <2>4 DEF Awaited, Marks
    <3>2. charged[c] > 0
      BY <1>1, <1>5, <2>3, <3>1 DEF Charged
    <3> QED
      BY <1>1, <1>2, <1>5, <2>3, <2>4, <2>6, <3>2, DoneKept
  <2>7. ~LoadMarked(m)
    BY <1>1, <2>4 DEF LoadMarked, Inv, TypeOK
  <2> QED
    BY <1>1, <2>2, <2>4, <2>5, <2>6, <2>7, MarkMoves
<1>6. ASSUME NEW m \in Marks, mark'[m].at = "write", c \in mark'[m].calls, NEW p \in RecordsOf(c)'
      PROVE  old'[m][p] # "none"
  <2>1. Underway(m)' /\ ~SendMark(m)
    BY <1>1, <1>6 DEF Underway, SendMark, Inv, TypeOK
  <2>2. Underway(m) /\ mark'[m].calls = mark[m].calls
    BY <1>1, <2>1, MarkMoves
  <2>3. charged[c] > 0
    BY <1>1, <1>6, <2>2 DEF Charged
  <2>4. p \in RecordsOf(c) /\ p \in Post /\ rows[p] # "none"
    BY <1>1, <1>6, <2>3, DoneKept DEF RecordsOf, Records
  <2>5. CASE LoadMarked(m)
    <3>1. old'[m] = rows
      BY <1>1, <2>5 DEF LoadMarked, Inv, TypeOK
    <3> QED
      BY <2>4, <3>1
  <2>6. CASE mark'[m].at = mark[m].at
    <3>1. old[m][p] # "none"
      BY <1>2, <1>6, <2>2, <2>4, <2>6
    <3>2. ~LoadMarked(m) /\ ~WriteMarked(m) /\ ~LoseMark(m) /\ ~ReplyMarked(m)
      BY <1>1, <1>6, <2>6 DEF LoadMarked, WriteMarked, LoseMark, ReplyMarked, Inv, TypeOK, Over,
          Unsent
    <3>3. ASSUME NEW n \in Marks \ {m}, SendMark(n) \/ ServeMark(n) \/ LoseMark(n)
          PROVE  old'[m] = old[m]
      BY <1>1, <3>3 DEF SendMark, ServeMark, LoadMarked, WriteMarked, ReplyMarked, LoseMark, Inv,
          TypeOK
    <3>4. ASSUME \/ \E q \in Post : Send(q) \/ ServePost(q) \/ Lose(q)
                 \/ ReadFeed \/ GiveUp \/ UNCHANGED vars
          PROVE  old' = old
      BY <3>4 DEF Send, ServePost, Find, Write, Reply, Lose, ReadFeed, GiveUp, vars
    <3>5. old'[m] = old[m]
      BY <2>1, <3>2, <3>3, <3>4 DEF Next, ServeMark
    <3> QED
      BY <3>1, <3>5
  <2>7. ~WriteMarked(m)
    BY <1>1, <1>6 DEF WriteMarked, Inv, TypeOK
  <2> QED
    BY <1>1, <2>1, <2>5, <2>6, <2>7, MarkMoves
<1> QED
  BY <1>3, <1>4, <1>5, <1>6

LEMMA InitOnce == Init => Charged /\ Alone /\ Awaited /\ Once
<1> SUFFICES ASSUME Init PROVE Charged /\ Alone /\ Awaited /\ Once
  OBVIOUS
<1>1. Records = {} /\ (\A c : RecordsOf(c) = {}) /\ (\A m \in Marks : mark[m].at = "unsent")
      /\ \A p \in Post : at[p] = "unsent"
  BY DEF Init, Records, RecordsOf, NoRows, Unsent
<1>2. Charged /\ Awaited
  BY <1>1 DEF Init, Charged, Awaited, Underway
<1>3. Alone
  BY <1>1 DEF Alone, Serving
<1>4. Once
  BY <1>1 DEF Init, Once
<1> QED
  BY <1>2, <1>3, <1>4

LEMMA AllInvStep == AllInv /\ [Next]_vars => AllInv'
<1>1. Inv /\ [Next]_vars => Inv'
  BY TypeStep, MarksStep, PlacedStep DEF Inv
<1> QED
  BY <1>1, ChargedStep, AloneStep, AwaitedStep, OnceStep DEF AllInv

LEMMA AllInvAlways == Spec => []AllInv
<1>1. Init => AllInv
  BY InitInv, InitOnce DEF AllInv
<1> QED
  BY <1>1, AllInvStep, PTL DEF Spec

(* A call whose posts do not overlap has one record and is charged once,    *)
(* whatever is lost, posted again and marked late (cdr/ingest.py:56-57).   *)
THEOREM ChargedOnce == Spec => []Idempotent
<1>1. AllInv => Idempotent
  <2> SUFFICES ASSUME AllInv, NEW c \in Calls \ overlap
               PROVE  Cardinality(RecordsOf(c)) <= 1 /\ charged[c] <= 1
    BY DEF Idempotent
  <2>1. charged[c] <= 1 /\ \A p, q \in RecordsOf(c) : p = q
    BY DEF AllInv, Once, Alone
  <2>2. RecordsOf(c) = {} \/ \E p \in RecordsOf(c) : RecordsOf(c) = {p}
    BY <2>1
  <2> QED
    BY <2>1, <2>2, FS_EmptySet, FS_Singleton
<1> QED
  BY <1>1, AllInvAlways, PTL

-----------------------------------------------------------------------------
(* The refinement of CallBilling.                                           *)

(* What stage a call is at that is not disputed, before and after a step.   *)
Stage(c) ==
  IF RecordsOf(c) = {} THEN "unknown"
  ELSE IF charged[c] = 0 THEN "recorded" ELSE IF Done(c) THEN "settled" ELSE "charged"

LEMMA LifeStage ==
  ASSUME AllInv, NEW c \in Calls
  PROVE  Life(c) = IF c \in overlap THEN "disputed" ELSE Stage(c)
<1> SUFFICES ASSUME c \notin overlap PROVE Life(c) = Stage(c)
  BY DEF Life
<1>1. charged[c] \in Nat /\ charged[c] <= 1 /\ \A p, q \in RecordsOf(c) : p = q
  BY DEF AllInv, Once, Alone, Inv, TypeOK
<1>2. ~Doubled(c)
  BY <1>1 DEF Doubled
<1> QED
  BY <1>2 DEF Life, Stage, Done

LEMMA LifeStageNext ==
  ASSUME AllInv', NEW c \in Calls
  PROVE  Life(c)' = IF c \in overlap' THEN "disputed" ELSE Stage(c)'
<1> SUFFICES ASSUME c \notin overlap' PROVE Life(c)' = Stage(c)'
  BY DEF Life
<1>1. charged'[c] \in Nat /\ charged'[c] <= 1 /\ \A p, q \in RecordsOf(c)' : p = q
  BY DEF AllInv, Once, Alone, Inv, TypeOK
<1>2. ~Doubled(c)'
  BY <1>1 DEF Doubled
<1> QED
  BY <1>2 DEF Life, Stage, Done

(* Calls that neither rows, charges nor overlaps concern stay as they are.  *)
LEMMA StageStays ==
  ASSUME NEW c, charged'[c] = charged[c], \A p \in Post : p[1] = c => rows'[p] = rows[p]
  PROVE  Stage(c)' = Stage(c)
<1>1. RecordsOf(c)' = RecordsOf(c) /\ \A p \in RecordsOf(c) : rows'[p] = rows[p]
  BY DEF RecordsOf, Records
<1> QED
  BY <1>1 DEF Stage, Done

(* The calls of C go from one stage to the next, the others stay.           *)
LEMMA Advances ==
  ASSUME NEW C \in SUBSET Calls, NEW from, NEW to,
         \A c \in C : Life(c) = from /\ Life(c)' = to,
         \A c \in Calls \ C : Life(c)' = Life(c)
  PROVE  Billing!Advance(C, from, to)
BY DEF Billing!Advance

LEMMA SendMaps ==
  ASSUME AllInv, AllInv', NEW p \in Post, Send(p)
  PROVE  [Billing!Next]_[c \in Calls |-> Life(c)]
<1>1. UNCHANGED <<rows, charged>> /\ overlap \subseteq overlap' /\ overlap' \subseteq overlap \cup {p[1]}
      /\ p[1] \in Calls
  BY DEF Send, pipeline, Post
<1>2. \A c \in Calls : Stage(c)' = Stage(c)
  BY <1>1, StageStays
<1>3. \A c \in Calls \ {p[1]} : Life(c)' = Life(c)
  BY <1>1, <1>2, LifeStage, LifeStageNext
<1>4. CASE p[1] \in overlap'
  <2>1. Life(p[1])' = "disputed"
    BY <1>1, <1>4, LifeStageNext
  <2>2. Billing!Dispute(p[1])
    BY <1>1, <1>3, <2>1 DEF Billing!Dispute
  <2> QED
    BY <1>1, <2>2 DEF Billing!Next
<1>5. CASE p[1] \notin overlap'
  BY <1>1, <1>2, <1>3, <1>5, LifeStage, LifeStageNext
<1> QED
  BY <1>4, <1>5

(* An insert records its call.                                              *)
LEMMA WriteMaps ==
  ASSUME AllInv, AllInv', NEW p \in Post, Write(p)
  PROVE  [Billing!Next]_[c \in Calls |-> Life(c)]
<1>0. [Next]_vars /\ p[1] \in Calls /\ rows \in [Post -> Rating \cup {"none"}]
  BY DEF Next, ServePost, Post, AllInv, Inv, TypeOK
<1>1. overlap' = overlap /\ charged' = charged
  BY DEF Write, pipeline
<1>2. CASE found[p] # {}
  <2>1. rows' = rows
    BY <1>2 DEF Write, Upserted
  <2>2. \A c \in Calls : Life(c)' = Life(c)
    BY <1>1, <2>1, StageStays, LifeStage, LifeStageNext
  <2> QED
    BY <2>2
<1>3. CASE found[p] = {}
  <2>1. rows' = [rows EXCEPT ![p] = "raw"]
    BY <1>3 DEF Write, Upserted
  <2>2. \A c \in Calls \ {p[1]} : Life(c)' = Life(c)
    BY <1>0, <1>1, <2>1, StageStays, LifeStage, LifeStageNext
  <2>3. CASE p[1] \in overlap
    <3>1. \A c \in Calls : Life(c)' = Life(c)
      BY <1>0, <1>1, <2>2, <2>3, LifeStage, LifeStageNext
    <3> QED
      BY <3>1
  <2>4. CASE p[1] \notin overlap
    <3>1. RecordsOf(p[1]) = {}
      BY <1>0, <1>3, <2>4 DEF AllInv, Alone, Write
    <3>2. p \in RecordsOf(p[1])'
      BY <1>0, <2>1 DEF RecordsOf, Records
    <3>3. charged[p[1]] = 0
      <4>1. charged[p[1]] \in Nat
        BY <1>0 DEF AllInv, Inv, TypeOK
      <4>2. ~(charged[p[1]] > 0)
        BY <1>0, <3>1 DEF AllInv, Charged
      <4> QED
        BY <4>1, <4>2
    <3>4. Stage(p[1]) = "unknown" /\ Stage(p[1])' = "recorded"
      BY <1>1, <3>1, <3>2, <3>3 DEF Stage
    <3>5. Life(p[1]) = "unknown" /\ Life(p[1])' = "recorded"
      BY <1>0, <1>1, <2>4, <3>4, LifeStage, LifeStageNext
    <3>6. Billing!Record(p[1])
      BY <1>0, <2>2, <3>5, Advances DEF Billing!Record
    <3> QED
      BY <1>0, <3>6 DEF Billing!Next
  <2> QED
    BY <2>3, <2>4
<1> QED
  BY <1>2, <1>3

(* Reading the feed charges the calls in it that are not disputed.          *)
LEMMA FeedMaps ==
  ASSUME AllInv, AllInv', ReadFeed
  PROVE  [Billing!Next]_[c \in Calls |-> Life(c)]
<1> DEFINE C == {c \in Calls \ overlap : charged'[c] # charged[c]}
<1>1. overlap' = overlap /\ rows' = rows /\ Inv
  BY DEF ReadFeed, posts, AllInv
<1>2. ASSUME NEW c \in Calls \ C PROVE Life(c)' = Life(c)
  <2>1. CASE c \in overlap
    BY <1>1, <2>1, LifeStage, LifeStageNext
  <2>2. CASE c \notin overlap
    BY <1>1, <1>2, <2>2, StageStays, LifeStage, LifeStageNext
  <2> QED
    BY <2>1, <2>2
<1>3. ASSUME NEW c \in C PROVE Life(c) = "recorded" /\ Life(c)' = "charged"
  <2>0. c \in Calls \ overlap /\ charged'[c] # charged[c]
    BY <1>3
  <2>1. c \in batch' /\ RecordsOf(c) # {}
    BY <1>1, <2>0, ChargedBy
  <2>2. charged[c] = 0 /\ charged'[c] # 0
    <3>1. charged[c] \in Nat /\ charged'[c] \in Nat /\ charged'[c] >= charged[c]
      BY <1>1, <2>0, ChargedBy
    <3>2. charged'[c] <= 1
      BY <2>0, ReadOnce
    <3> QED
      BY <2>0, <3>1, <3>2
  <2>3. PICK p \in Feed : p[1] = c
    BY <2>1 DEF ReadFeed
  <2>4. p \in RecordsOf(c) /\ rows[p] = "raw"
    BY <1>1, <2>3, FeedRaw DEF Inv, RecordsOf
  <2>5. Stage(c) = "recorded"
    BY <2>1, <2>2 DEF Stage
  <2>6. RecordsOf(c)' = RecordsOf(c)
    BY <1>1 DEF RecordsOf, Records
  <2>7. Stage(c)' = "charged"
    BY <1>1, <2>2, <2>4, <2>6 DEF Stage, Done
  <2> QED
    BY <1>1, <1>3, <2>5, <2>7, LifeStage, LifeStageNext
<1> HIDE DEF C
<1>4. C \in SUBSET Calls
  BY DEF C
<1>5. Billing!Charge(C)
  BY <1>2, <1>3, <1>4, Advances DEF Billing!Charge
<1> QED
  BY <1>4, <1>5 DEF Billing!Next

(* A mark settles the calls of whose records it reaches the last raw one.   *)
LEMMA MarkMaps ==
  ASSUME AllInv, AllInv', NEW m \in Marks, WriteMarked(m)
  PROVE  [Billing!Next]_[c \in Calls |-> Life(c)]
<1> DEFINE C == {c \in Calls : Life(c)' # Life(c)}
<1>0. [Next]_vars /\ Inv
  BY DEF Next, ServeMark, AllInv
<1>1. overlap' = overlap /\ charged' = charged
  BY DEF WriteMarked, posts, pipeline
<1>2. \A p \in Post : (p \in Records' <=> p \in Records) /\ (rows[p] # "raw" => rows'[p] # "raw")
  BY <1>0, MarkedRow, RecordsKept DEF Records
<1>3. \A c \in Calls : RecordsOf(c)' = RecordsOf(c) /\ (Done(c) => Done(c)')
  BY <1>2 DEF RecordsOf, Done, Records
<1>4. ASSUME NEW c \in C PROVE Life(c) = "charged" /\ Life(c)' = "settled"
  <2>1. c \in Calls /\ Life(c) # Life(c)'
    BY <1>4
  <2>2. c \notin overlap /\ Stage(c) # Stage(c)'
    BY <1>1, <2>1, LifeStage, LifeStageNext
  <2>3. Stage(c) = "charged" /\ Stage(c)' = "settled"
    BY <1>1, <1>3, <2>1, <2>2 DEF Stage
  <2> QED
    BY <1>1, <2>1, <2>2, <2>3, LifeStage, LifeStageNext
<1>5. C \in SUBSET Calls /\ \A c \in Calls \ C : Life(c)' = Life(c)
  OBVIOUS
<1> HIDE DEF C
<1>6. Billing!Settle(C)
  BY <1>4, <1>5, Advances DEF Billing!Settle
<1> QED
  BY <1>5, <1>6 DEF Billing!Next

LEMMA StepMaps == AllInv /\ [Next]_vars => [Billing!Next]_[c \in Calls |-> Life(c)]
<1> SUFFICES ASSUME AllInv, [Next]_vars PROVE [Billing!Next]_[c \in Calls |-> Life(c)]
  OBVIOUS
<1>1. AllInv'
  BY AllInvStep
<1>2. ASSUME UNCHANGED <<rows, charged, overlap>> PROVE [Billing!Next]_[c \in Calls |-> Life(c)]
  <2>1. \A c \in Calls : Life(c)' = Life(c)
    BY <1>1, <1>2, StageStays, LifeStage, LifeStageNext
  <2> QED
    BY <2>1
<1>3. ASSUME NEW p \in Post, Find(p) \/ Reply(p) \/ Lose(p) PROVE UNCHANGED <<rows, charged, overlap>>
  BY <1>3 DEF Find, Reply, Lose, pipeline
<1>4. ASSUME NEW m \in Marks, SendMark(m) \/ LoadMarked(m) \/ ReplyMarked(m) \/ LoseMark(m)
      PROVE  UNCHANGED <<rows, charged, overlap>>
  BY <1>4 DEF SendMark, LoadMarked, ReplyMarked, LoseMark, pipeline, posts
<1>5. CASE GiveUp \/ UNCHANGED vars
  BY <1>2, <1>5 DEF GiveUp, vars, posts
<1> QED
  BY <1>1, <1>2, <1>3, <1>4, <1>5, SendMaps, WriteMaps, FeedMaps, MarkMaps DEF Next, ServePost,
     ServeMark

LEMMA InitMaps == Init => Billing!Init
<1> SUFFICES ASSUME Init, NEW c \in Calls PROVE Life(c) = "unknown"
  BY DEF Billing!Init
<1>1. RecordsOf(c) = {}
  BY DEF Init, RecordsOf, Records, NoRows
<1> QED
  BY <1>1 DEF Init, Life, Doubled

(* Posts, pages of the feed and marks implement CallBilling, for any number *)
(* of calls and of each of them, whatever is lost, late or sent again.      *)
THEOREM LedgerImplements == Spec => BillingKept
<1> QED
  BY AllInvAlways, InitMaps, StepMaps, PTL DEF Spec, BillingKept, Billing!Spec

=============================================================================
