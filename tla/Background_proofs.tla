------------------------- MODULE Background_proofs -------------------------
(***************************************************************************)
(* Proofs about Background, for any cards and any numbers of alarms,       *)
(* failures and deaths: the types; that a token read while nothing is      *)
(* copied is the newest; that no more alarms are deleted untried than      *)
(* statements have failed; and that nobody is mailed twice of an alarm     *)
(* without a reason.                                                       *)
(***************************************************************************)
EXTENDS Background, FiniteSetTheorems, SequenceTheorems,
        WellFoundedInduction, TLAPS

-----------------------------------------------------------------------------
(* The token                                                               *)

(* While nothing is copied the buffer holds the token last fetched, and so *)
(* does what was read without a disturbance.                               *)
TokenInv ==
  /\ Access!TypeOK
  /\ ~Access!Copying => tFront = "new" /\ (tLong => tBack = "new")
  /\ tPc = "copyback" => tFront = "new"
  /\ rPc # "idle" /\ ~rDisturbed => ~Access!Copying /\ rGotFront = "new"
  /\ rPc = "got" /\ ~rDisturbed /\ tLong => rGotBack = "new"

-----------------------------------------------------------------------------
(* The alarms                                                              *)

Pending == {list[a] : a \in 1..Len(list)}

(* Alarms are numbered in the order of their times.                        *)
AlarmInv ==
  /\ alarm \in Seq([card : Card, time : 1..(MaxAlarms + 1), send : BOOLEAN])
  /\ Len(alarm) <= MaxAlarms
  /\ \A i \in Alarm : alarm[i].time \in 1..(i + 1)
  /\ \A i, j \in Alarm : i < j => alarm[i].time <= alarm[j].time

ThreadInv ==
  /\ owned \subseteq Card /\ rows \subseteq Alarm /\ tried \subseteq Alarm
  /\ apc \in {"wait", "row", "mail", "token", "push", "delete", "down"}
  /\ (list # <<>>) = (apc \notin {"wait", "down"})
  /\ mailed \in [1..MaxAlarms -> 0..2]
  /\ failures \in 0..MaxFailures /\ deaths \in 0..MaxDeaths
  /\ Mail!TypeOK /\ Mail!DeadWereTaken
  /\ apc \in {"token", "push"} => This \in tried

(* What is left of a SELECT are its rows in order, those included that     *)
(* have been deleted since.                                                *)
ListInv ==
  /\ list \in Seq(Alarm)
  /\ \A a \in 1..Len(list) : alarm[list[a]].send
  /\ \A a, b \in 1..Len(list) : a < b => list[a] < list[b]
  /\ \A i \in Due : list # <<>> /\ This <= i /\ i <= list[Len(list)] => i \in Pending

(* For every row still to go through there is one in the table that DELETE *)
(* may take for it: of its card, and not later.                            *)
Serves(f) ==
  /\ \A i, j \in Pending : f[i] = f[j] => i = j
  /\ \A i \in Pending :
       /\ alarm[f[i]].card = alarm[i].card
       /\ alarm[f[i]].time <= alarm[i].time

CoverInv == \E f \in [Pending -> rows] : Serves(f)

(* The alarms that went untried through the thread, in this turn or with   *)
(* their row deleted: a statement failed for each.                         *)
Passed(i) ==
  list # <<>> /\ (i < This \/ (i = This /\ apc = "delete"))

Skipped ==
  {i \in Alarm \ tried : alarm[i].send /\ ~Tied(i) /\ (i \in Deleted \/ Passed(i))}

SkippedInv == Cardinality(Skipped) <= failures

(* Why an alarm may be mailed again: it has been gone through, and its row *)
(* is still there.                                                         *)
Reason(i) ==
  \/ failures > 0
  \/ deaths > 0
  \/ \E j \in Deleted \ {i} :
       /\ alarm[j].card = alarm[i].card /\ alarm[j].time <= alarm[i].time
       /\ alarm[j].send => Tied(j)

MailedInv ==
  /\ \A i \in 1..MaxAlarms : i \notin Alarm => mailed[i] = 0
  /\ \A i \in Due : list # <<>> /\ i < This => Reason(i)
  /\ \A i \in Alarm : mailed[i] >= 1 =>
       \/ Reason(i)
       \/ i \notin rows \cup Pending
       \/ (i = This /\ apc \in {"token", "push", "delete"})
  /\ \A i \in Alarm : mailed[i] = 2 => Reason(i)

AlarmsInv ==
  AlarmInv /\ ThreadInv /\ ListInv /\ CoverInv /\ SkippedInv /\ MailedInv

BackgroundInv == TokenInv /\ AlarmsInv

-----------------------------------------------------------------------------
(* The token                                                               *)

LEMMA TokenInit == Access!Init => TokenInv
  BY DEF Access!Init, TokenInv, Access!TypeOK, Access!Bytes, Access!Copying

LEMMA TokenThreadStep == TokenInv /\ Access!Thread => TokenInv'
<1> SUFFICES ASSUME TokenInv, Access!Thread
             PROVE  TokenInv'
  OBVIOUS
<1> USE DEF TokenInv, Access!TypeOK, Access!Bytes, Access!Copying, Access!readerVars
<1>1. CASE Access!Fetch
  <2>1. CASE /\ tPc' = "copy" /\ tLong' \in BOOLEAN
             /\ tFront' = Access!Aged(tFront) /\ tBack' = Access!Aged(tBack)
             /\ rGotFront' = Access!Aged(rGotFront) /\ rGotBack' = Access!Aged(rGotBack)
             /\ rDisturbed' = (rPc # "idle")
             /\ UNCHANGED <<tSignal, rPc>>
    <3>1. rDisturbed' \in BOOLEAN
      BY <2>1, Zenon
    <3>2. /\ tFront' \in Access!Bytes /\ tBack' \in Access!Bytes
          /\ rGotFront' \in Access!Bytes /\ rGotBack' \in Access!Bytes
      BY <2>1 DEF Access!Aged
    <3>3. rPc' # "idle" => rDisturbed'
      BY <2>1, Zenon
    <3>4. tSignal' \in BOOLEAN /\ rPc' \in {"idle", "back", "got"}
      BY <2>1
    <3> QED
      BY <2>1, <3>1, <3>2, <3>3, <3>4
  <2>2. CASE /\ tPc' = "wait"
             /\ UNCHANGED <<tLong, tFront, tBack, rGotFront, rGotBack, rDisturbed, tSignal, rPc>>
    BY <1>1, <2>2 DEF Access!Fetch
  <2> QED
    BY <1>1, <2>1, <2>2, Zenon DEF Access!Fetch
<1>2. CASE Access!CopyFront
  BY <1>2 DEF Access!CopyFront
<1>3. CASE Access!CopyBack
  BY <1>3 DEF Access!CopyBack
<1>4. CASE Access!TimeOut
  BY <1>4 DEF Access!TimeOut
<1>5. CASE Access!Wake
  BY <1>5 DEF Access!Wake
<1> QED
  BY <1>1, <1>2, <1>3, <1>4, <1>5 DEF Access!Thread

LEMMA TokenReaderStep ==
  TokenInv /\ (Access!Reader \/ Access!Sent \/ Access!Reset \/ UNCHANGED tokenVars) => TokenInv'
<1> SUFFICES ASSUME TokenInv, Access!Reader \/ Access!Sent \/ Access!Reset \/ UNCHANGED tokenVars
             PROVE  TokenInv'
  OBVIOUS
<1> USE DEF TokenInv, Access!TypeOK, Access!Bytes, Access!Copying, Access!threadVars
<1>1. CASE Access!ReadFront
  <2>1. rDisturbed' = Access!Copying /\ rDisturbed' \in BOOLEAN
    <3> HIDE DEF Access!Copying
    <3>1. rDisturbed' = Access!Copying
      BY <1>1 DEF Access!ReadFront
    <3>2. Access!Copying \in BOOLEAN
      BY SMT DEF Access!Copying
    <3> QED
      BY <3>1, <3>2
  <2>2. ~rDisturbed' => ~Access!Copying
    BY <2>1, Zenon
  <2>3. rPc' = "back" /\ rGotFront' = tFront
        /\ UNCHANGED <<tPc, tSignal, tLong, tFront, tBack, rGotBack>>
    BY <1>1 DEF Access!ReadFront
  <2> QED
    BY <2>1, <2>2, <2>3
<1>2. CASE Access!ReadBack
  BY <1>2 DEF Access!ReadBack
<1>3. CASE Access!Sent
  BY <1>3 DEF Access!Sent
<1>4. CASE Access!Reset
  BY <1>4 DEF Access!Reset
<1>5. CASE UNCHANGED tokenVars
  BY <1>5 DEF tokenVars
<1> QED
  BY <1>1, <1>2, <1>3, <1>4, <1>5 DEF Access!Reader

-----------------------------------------------------------------------------
(* Simple facts about the alarms                                           *)

LEMMA AlarmFacts ==
  ASSUME AlarmsInv
  PROVE  /\ Len(alarm) \in Nat /\ Alarm = 1..Len(alarm) /\ Alarm \subseteq Nat
         /\ IsFiniteSet(Alarm) /\ IsFiniteSet(Skipped)
         /\ Cardinality(Skipped) \in Nat
         /\ Len(list) \in Nat /\ Pending \subseteq Alarm
         /\ failures \in Nat /\ deaths \in Nat
         /\ list # <<>> => Len(list) >= 1 /\ This = list[1] /\ This \in Pending
<1>1. Len(alarm) \in Nat /\ Len(list) \in Nat
  BY LenProperties DEF AlarmsInv, AlarmInv, ListInv
<1>2. IsFiniteSet(Alarm)
  BY <1>1, FS_Interval DEF Alarm
<1>3. IsFiniteSet(Skipped) /\ Cardinality(Skipped) \in Nat
  BY <1>2, FS_Subset, FS_CardinalityType DEF Skipped
<1>4. Pending \subseteq Alarm
  BY ElementOfSeq DEF AlarmsInv, ListInv, Pending
<1>5. list # <<>> => Len(list) >= 1 /\ This = list[1] /\ This \in Pending
  BY <1>1, EmptySeq DEF AlarmsInv, ListInv, This, Pending
<1> QED
  BY <1>1, <1>2, <1>3, <1>4, <1>5, BackgroundAssumption DEF AlarmsInv, ThreadInv, Alarm

LEMMA TimesAreNumbers ==
  ASSUME AlarmsInv, NEW i \in Alarm
  PROVE  alarm[i].time \in Nat
<1>1. alarm[i].time \in 1..(i + 1)
  BY DEF AlarmsInv, AlarmInv
<1>2. i \in Nat
  BY AlarmFacts
<1> QED
  BY <1>1, <1>2

(* What has become of an alarm stays: a tie, and a reason to mail again.   *)
LEMMA ReasonStays ==
  ASSUME AlarmsInv, NEW i \in Alarm, Alarm \subseteq Alarm', Deleted \subseteq Deleted',
         \A j \in Alarm : alarm'[j] = alarm[j],
         failures' \in Nat, deaths' \in Nat, failures <= failures', deaths <= deaths'
  PROVE  /\ Tied(i) => Tied(i)'
         /\ Reason(i) => Reason(i)'
<1>1. \A j \in Alarm : Tied(j) => Tied(j)'
  BY DEF Tied
<1>2. ASSUME failures > 0 \/ deaths > 0
      PROVE  Reason(i)'
  BY <1>2, AlarmFacts DEF Reason
<1>3. ASSUME NEW j \in Deleted \ {i}, alarm[j].card = alarm[i].card,
             alarm[j].time <= alarm[i].time, alarm[j].send => Tied(j)
      PROVE  Reason(i)'
  <2>1. j \in Alarm /\ j \in Deleted' \ {i} /\ alarm'[j] = alarm[j] /\ alarm'[i] = alarm[i]
    BY <1>3 DEF Deleted
  <2> QED
    BY <1>1, <1>3, <2>1 DEF Reason
<1> QED
  BY <1>1, <1>2, <1>3 DEF Reason

(* As long as nobody else is skipped, or one more when a statement fails,  *)
(* the bound is kept.                                                      *)
LEMMA SkippedStays ==
  ASSUME AlarmsInv, failures' \in Nat, failures <= failures', Skipped' \subseteq Skipped
  PROVE  SkippedInv'
<1>1. Cardinality(Skipped') <= Cardinality(Skipped) /\ Cardinality(Skipped') \in Nat
  BY AlarmFacts, FS_Subset, FS_CardinalityType
<1> QED
  BY <1>1, AlarmFacts DEF AlarmsInv, SkippedInv

LEMMA SkippedOneMore ==
  ASSUME AlarmsInv, NEW h, failures' = failures + 1, Skipped' \subseteq Skipped \cup {h}
  PROVE  SkippedInv'
<1>1. /\ IsFiniteSet(Skipped \cup {h}) /\ Cardinality(Skipped \cup {h}) \in Nat
      /\ Cardinality(Skipped \cup {h}) <= Cardinality(Skipped) + 1
  <2>1. CASE h \in Skipped
    <3>1. Skipped \cup {h} = Skipped
      BY <2>1
    <3> DEFINE n == Cardinality(Skipped)
    <3>2. n \in Nat /\ IsFiniteSet(Skipped)
      BY AlarmFacts
    <3> HIDE DEF n
    <3>3. n <= n + 1
      BY <3>2
    <3> QED
      BY <3>1, <3>2, <3>3 DEF n
  <2>2. CASE h \notin Skipped
    <3>1. /\ IsFiniteSet(Skipped \cup {h})
          /\ Cardinality(Skipped \cup {h}) = Cardinality(Skipped) + 1
      BY <2>2, AlarmFacts, FS_AddElement
    <3>2. Cardinality(Skipped) \in Nat
      BY AlarmFacts
    <3> DEFINE n == Cardinality(Skipped)
    <3>3. n \in Nat /\ Cardinality(Skipped \cup {h}) = n + 1
      BY <3>1, <3>2
    <3> HIDE DEF n
    <3>4. n + 1 \in Nat /\ n + 1 <= n + 1
      BY <3>3
    <3> QED
      BY <3>1, <3>3, <3>4 DEF n
  <2> QED
    BY <2>1, <2>2
<1>2. /\ Cardinality(Skipped') <= Cardinality(Skipped \cup {h})
      /\ Cardinality(Skipped') \in Nat
  BY <1>1, FS_Subset, FS_CardinalityType
<1> QED
  BY <1>1, <1>2, AlarmFacts DEF AlarmsInv, SkippedInv

-----------------------------------------------------------------------------
(* Where the thread stands                                                 *)

LEMMA AlarmsInit == Init => AlarmsInv
<1> SUFFICES ASSUME Init
             PROVE  AlarmsInv
  OBVIOUS
<1>1. /\ alarm = <<>> /\ Len(alarm) = 0 /\ Alarm = {} /\ rows = {} /\ tried = {}
      /\ list = <<>> /\ Len(list) = 0 /\ Pending = {} /\ Deleted = {}
  BY DEF Init, Alarm, Pending, Deleted
<1>2. AlarmInv
  BY <1>1, BackgroundAssumption DEF AlarmInv
<1>3. ThreadInv
  <2>1. /\ owned \subseteq Card /\ apc = "wait" /\ failures = 0 /\ deaths = 0
        /\ mailed \in [1..MaxAlarms -> 0..2]
    BY DEF Init
  <2>2. (list # <<>>) = (apc \notin {"wait", "down"})
    BY <1>1, <2>1
  <2>3. Mail!TypeOK /\ Mail!DeadWereTaken
    BY DEF Init, Mail!Init, Mail!TypeOK, Mail!DeadWereTaken
  <2> QED
    BY <1>1, <2>1, <2>2, <2>3, BackgroundAssumption DEF ThreadInv
<1>4. ListInv
  BY <1>1 DEF ListInv, Due
<1>5. CoverInv
  <2> DEFINE f == [i \in {} |-> i]
  <2>1. f \in [Pending -> rows] /\ Serves(f)
    BY <1>1 DEF Serves
  <2> QED
    BY <2>1 DEF CoverInv
<1>6. SkippedInv
  <2>1. Skipped = {}
    BY <1>1 DEF Skipped
  <2> QED
    BY <2>1, FS_EmptySet, <1>3, BackgroundAssumption DEF SkippedInv, ThreadInv
<1>7. MailedInv
  BY <1>1 DEF Init, MailedInv, Due
<1> QED
  BY <1>2, <1>3, <1>4, <1>5, <1>6, <1>7 DEF AlarmsInv

(* A step that leaves the table and the list of the SELECT as they are.    *)
(* An alarm for which it gives up is mailed, or has no owner, or has a     *)
(* statement failed.                                                       *)
LEMMA QuietStep ==
  ASSUME AlarmsInv, UNCHANGED <<alarm, rows, list>>,
         failures' \in Nat, deaths' \in Nat, failures <= failures', deaths <= deaths',
         tried \subseteq tried',
         apc \in {"token", "push", "delete"} => apc' \in {"token", "push", "delete"},
         list # <<>> /\ apc # "delete" /\ apc' = "delete" =>
           This \in tried' \/ failures' = failures + 1
  PROVE  /\ AlarmInv' /\ ListInv' /\ CoverInv' /\ SkippedInv'
         /\ \A i \in Alarm : Reason(i) => Reason(i)'
         /\ mailed' = mailed => MailedInv'
<1>1. /\ Alarm' = Alarm /\ Deleted' = Deleted /\ Pending' = Pending /\ Due' = Due
      /\ This' = This
  BY DEF Alarm, Deleted, Pending, Due, This
<1>2. AlarmInv'
  BY <1>1 DEF AlarmsInv, AlarmInv
<1>3. ListInv'
  BY <1>1 DEF AlarmsInv, ListInv
<1>4. CoverInv'
  <2>1. PICK f \in [Pending -> rows] : Serves(f)
    BY DEF AlarmsInv, CoverInv
  <2>2. f \in [Pending' -> rows'] /\ Serves(f)'
    BY <1>1, <2>1 DEF Serves
  <2> QED
    BY <2>2 DEF CoverInv
<1>5. \A i \in Alarm : Reason(i) => Reason(i)'
  BY <1>1, ReasonStays
<1>6. ASSUME mailed' = mailed
      PROVE  MailedInv'
  <2>1. \A i \in 1..MaxAlarms : i \notin Alarm' => mailed'[i] = 0
    BY <1>1, <1>6 DEF AlarmsInv, MailedInv
  <2>2. Due \subseteq Alarm
    BY DEF AlarmsInv, ThreadInv, Due
  <2>3. \A i \in Due' : list' # <<>> /\ i < This' => Reason(i)'
    BY <1>1, <1>5, <2>2 DEF AlarmsInv, MailedInv
  <2>4. \A i \in Alarm' : mailed'[i] >= 1 =>
           \/ Reason(i)'
           \/ i \notin rows' \cup Pending'
           \/ (i = This' /\ apc' \in {"token", "push", "delete"})
    BY <1>1, <1>5, <1>6 DEF AlarmsInv, MailedInv
  <2>5. \A i \in Alarm' : mailed'[i] = 2 => Reason(i)'
    BY <1>1, <1>5, <1>6 DEF AlarmsInv, MailedInv
  <2> QED
    BY <2>1, <2>3, <2>4, <2>5 DEF MailedInv
<1>7. \A i \in Alarm : Tied(i) => Tied(i)'
  BY <1>1, ReasonStays
<1>8. CASE list # <<>> /\ apc # "delete" /\ apc' = "delete" /\ This \notin tried'
  <2>1. Skipped' \subseteq Skipped \cup {This}
    BY <1>1, <1>7 DEF Skipped, Passed
  <2> QED
    BY <1>2, <1>3, <1>4, <1>5, <1>6, <1>8, <2>1, SkippedOneMore
<1>9. CASE ~(list # <<>> /\ apc # "delete" /\ apc' = "delete" /\ This \notin tried')
  <2>1. Skipped' \subseteq Skipped
    BY <1>1, <1>7, <1>9 DEF Skipped, Passed
  <2> QED
    BY <1>2, <1>3, <1>4, <1>5, <1>6, <2>1, SkippedStays
<1> QED
  BY <1>8, <1>9

LEMMA FailsFacts ==
  ASSUME AlarmsInv, Fails
  PROVE  /\ failures' \in 0..MaxFailures /\ failures' \in Nat
         /\ failures' = failures + 1 /\ failures <= failures' /\ failures' > 0
  BY BackgroundAssumption DEF AlarmsInv, ThreadInv, Fails

-----------------------------------------------------------------------------
(* The steps that leave the table and the list                             *)

LEMMA QuietActions ==
  ASSUME AlarmsInv,
         \/ SelectFails \/ FindOwner \/ MailStep \/ FindToken \/ PushStep \/ PushReturns
         \/ Restart \/ TokenThread \/ UNCHANGED vars
  PROVE  AlarmsInv'
<1> USE BackgroundAssumption
<1> DEFINE Same == UNCHANGED <<owned, alarm, rows, list, mailed, deaths>>
           Places == {"wait", "row", "mail", "token", "push", "delete", "down"}
<1>0. ASSUME Same, tried \subseteq tried', tried' \subseteq Alarm,
             failures' \in 0..MaxFailures, failures <= failures',
             apc' \in Places, Mail!TypeOK', Mail!DeadWereTaken',
             apc' \in {"wait", "down"} <=> apc \in {"wait", "down"},
             apc' \in {"token", "push"} => apc \in {"token", "push"},
             apc \in {"token", "push", "delete"} => apc' \in {"token", "push", "delete"},
             list # <<>> /\ apc # "delete" /\ apc' = "delete" =>
               This \in tried' \/ failures' = failures + 1
      PROVE  AlarmsInv'
  <2>1. failures' \in Nat /\ deaths' \in Nat /\ deaths <= deaths'
    BY <1>0, AlarmFacts
  <2>2. AlarmInv' /\ ListInv' /\ CoverInv' /\ SkippedInv' /\ MailedInv'
    BY <1>0, <2>1, QuietStep
  <2>3. (list' # <<>>) = (apc' \notin {"wait", "down"})
    BY <1>0 DEF AlarmsInv, ThreadInv
  <2>4. Alarm' = Alarm /\ This' = This
    BY <1>0 DEF Alarm, This
  <2>5. apc' \in {"token", "push"} => This' \in tried'
    BY <1>0, <2>4 DEF AlarmsInv, ThreadInv
  <2>6. owned' \subseteq Card /\ rows' \subseteq Alarm' /\ tried' \subseteq Alarm'
    BY <1>0, <2>4 DEF AlarmsInv, ThreadInv
  <2>7. mailed' \in [1..MaxAlarms -> 0..2] /\ deaths' \in 0..MaxDeaths
    BY <1>0 DEF AlarmsInv, ThreadInv
  <2>8. ThreadInv'
    BY <1>0, <2>3, <2>5, <2>6, <2>7 DEF ThreadInv
  <2> QED
    BY <2>2, <2>8 DEF AlarmsInv
<1> HIDE DEF Same, Places
<1>1. /\ apc \in Places /\ tried \subseteq Alarm /\ Mail!TypeOK /\ Mail!DeadWereTaken
      /\ failures \in 0..MaxFailures /\ failures <= failures
  BY AlarmFacts DEF AlarmsInv, ThreadInv, Places
<1>2. UNCHANGED mailVars => Mail!TypeOK' /\ Mail!DeadWereTaken'
  BY <1>1 DEF mailVars, Mail!TypeOK, Mail!DeadWereTaken
<1>3. CASE SelectFails
  <2>1. Same /\ tried' = tried /\ apc' = apc /\ UNCHANGED mailVars /\ Fails
    BY <1>3 DEF SelectFails, Same
  <2> QED
    BY <1>0, <1>1, <1>2, <2>1, FailsFacts
<1>4. CASE FindOwner
  <2>1. Same /\ apc = "row" /\ list # <<>>
    BY <1>4 DEF FindOwner, Same
  <2>2. This \in Alarm
    BY <2>1, AlarmFacts
  <2>3. CASE apc' = "mail" /\ Mail!Start /\ UNCHANGED <<failures, tried>>
    <3>1. Mail!TypeOK' /\ Mail!DeadWereTaken'
      BY <1>1, <2>3 DEF Mail!Start, Mail!TypeOK, Mail!DeadWereTaken
    <3> QED
      BY <1>0, <1>1, <2>1, <2>3, <3>1 DEF Places
  <2>4. CASE apc' = "delete" /\ tried' = tried \cup {This} /\ UNCHANGED <<failures, mailVars>>
    <3>1. tried \subseteq tried' /\ tried' \subseteq Alarm /\ This \in tried'
      BY <1>1, <2>2, <2>4
    <3> QED
      BY <1>0, <1>1, <1>2, <2>1, <2>4, <3>1 DEF Places
  <2>5. CASE Fails /\ apc' = "delete" /\ UNCHANGED <<tried, mailVars>>
    BY <1>0, <1>1, <1>2, <2>1, <2>5, FailsFacts DEF Places
  <2> QED
    BY <1>4, <2>3, <2>4, <2>5 DEF FindOwner
<1>5. CASE MailStep
  <2>1. Same /\ apc' = apc /\ UNCHANGED <<tried, failures>> /\ apc = "mail"
    BY <1>5 DEF MailStep, Same, alarmVars
  <2>2. Mail!TypeOK' /\ Mail!DeadWereTaken'
    BY <1>1, <1>5
       DEF MailStep, Mail!Accept, Mail!Return, Mail!Die, Mail!TypeOK, Mail!DeadWereTaken
  <2> QED
    BY <1>0, <1>1, <2>1, <2>2
<1>6. CASE FindToken
  <2>1. /\ Same /\ apc = "token" /\ apc' \in {"push", "delete"} /\ UNCHANGED <<tried, mailVars>>
        /\ failures' = failures \/ Fails
    BY <1>6 DEF FindToken, Same
  <2>2. This \in tried'
    BY <2>1 DEF AlarmsInv, ThreadInv
  <2>3. failures' \in 0..MaxFailures /\ failures <= failures'
    BY <1>1, <2>1, FailsFacts
  <2> QED
    BY <1>0, <1>1, <1>2, <2>1, <2>2, <2>3 DEF Places
<1>7. CASE PushStep \/ TokenThread \/ UNCHANGED vars
  <2>1. Same /\ UNCHANGED <<apc, tried, failures>>
    BY <1>7 DEF PushStep, TokenThread, vars, alarmVars, Same
  <2>2. UNCHANGED mailVars
    BY <1>7 DEF PushStep, TokenThread, vars
  <2> QED
    BY <1>0, <1>1, <1>2, <2>1, <2>2
<1>8. CASE PushReturns
  <2>1. Same /\ apc = "push" /\ apc' = "delete" /\ UNCHANGED <<tried, failures, mailVars>>
    BY <1>8 DEF PushReturns, Same
  <2>2. This \in tried'
    BY <2>1 DEF AlarmsInv, ThreadInv
  <2> QED
    BY <1>0, <1>1, <1>2, <2>1, <2>2 DEF Places
<1>9. CASE Restart
  <2>1. Same /\ apc = "down" /\ apc' = "wait" /\ UNCHANGED <<tried, failures, mailVars>>
    BY <1>9 DEF Restart, Same
  <2> QED
    BY <1>0, <1>1, <1>2, <2>1 DEF Places
<1> QED
  BY <1>3, <1>4, <1>5, <1>6, <1>7, <1>8, <1>9

-----------------------------------------------------------------------------
(* The mail has returned, or has ended the process                         *)

(* An accepted mail is a second one only if there was a reason to come to  *)
(* the alarm again.                                                        *)
LEMMA CountFacts ==
  ASSUME AlarmsInv, apc = "mail", CountMail
  PROVE  /\ This \in Alarm /\ mailed' \in [1..MaxAlarms -> 0..2]
         /\ \A i \in 1..MaxAlarms : i # This => mailed'[i] = mailed[i]
         /\ mailed'[This] = 2 => Reason(This)
<1>1. list # <<>>
  BY DEF AlarmsInv, ThreadInv
<1>2. This \in Alarm /\ This \in Pending
  BY <1>1, AlarmFacts
<1>3. mailed \in [1..MaxAlarms -> 0..2] /\ This \in 1..MaxAlarms
  BY <1>2, AlarmFacts, BackgroundAssumption DEF AlarmsInv, AlarmInv, ThreadInv
<1>4. mailed[This] >= 1 => Reason(This)
  BY <1>2 DEF AlarmsInv, MailedInv
<1>5. CASE taken /\ mailed[This] < 2
  <2>1. mailed' = [mailed EXCEPT ![This] = mailed[This] + 1]
    BY <1>5 DEF CountMail
  <2>2. mailed[This] \in {0, 1}
    BY <1>3, <1>5
  <2>3. mailed[This] + 1 \in 0..2 /\ (mailed[This] + 1 = 2 => mailed[This] >= 1)
    BY <2>2
  <2> QED
    BY <1>2, <1>3, <1>4, <2>1, <2>3
<1>6. CASE ~(taken /\ mailed[This] < 2)
  <2>1. mailed' = mailed
    BY <1>6 DEF CountMail
  <2>2. mailed[This] = 2 => mailed[This] >= 1
    OBVIOUS
  <2> QED
    BY <1>2, <1>3, <1>4, <2>1, <2>2
<1> QED
  BY <1>5, <1>6

LEMMA MailReturnsStep == AlarmsInv /\ MailReturns => AlarmsInv'
<1> SUFFICES ASSUME AlarmsInv, MailReturns
             PROVE  AlarmsInv'
  OBVIOUS
<1>1. /\ apc = "mail" /\ apc' = "token" /\ tried' = tried \cup {This} /\ CountMail
      /\ UNCHANGED <<owned, alarm, rows, list, failures, deaths>>
  BY DEF MailReturns
<1>2. /\ This \in Alarm /\ mailed' \in [1..MaxAlarms -> 0..2]
      /\ \A i \in 1..MaxAlarms : i # This => mailed'[i] = mailed[i]
      /\ mailed'[This] = 2 => Reason(This)
  BY <1>1, CountFacts
<1>3. /\ Alarm' = Alarm /\ Alarm \subseteq 1..MaxAlarms /\ Pending' = Pending /\ Due' = Due
      /\ This' = This
  BY <1>1, AlarmFacts, BackgroundAssumption
     DEF AlarmsInv, AlarmInv, Alarm, Pending, Due, This
<1>4. /\ failures' \in Nat /\ deaths' \in Nat /\ failures <= failures' /\ deaths <= deaths'
      /\ tried \subseteq tried'
  BY <1>1, AlarmFacts
<1>5. /\ AlarmInv' /\ ListInv' /\ CoverInv' /\ SkippedInv'
      /\ \A i \in Alarm : Reason(i) => Reason(i)'
  BY <1>1, <1>4, QuietStep
<1>6. ThreadInv'
  <2>1. Mail!TypeOK' /\ Mail!DeadWereTaken'
    BY DEF MailReturns, Mail!Clear, Mail!TypeOK, Mail!DeadWereTaken
  <2>2. (list' # <<>>) = (apc' \notin {"wait", "down"})
    BY <1>1 DEF AlarmsInv, ThreadInv
  <2>3. tried' \subseteq Alarm' /\ This' \in tried'
    BY <1>1, <1>2, <1>3 DEF AlarmsInv, ThreadInv
  <2>4. owned' \subseteq Card /\ rows' \subseteq Alarm'
        /\ failures' \in 0..MaxFailures /\ deaths' \in 0..MaxDeaths
    BY <1>1, <1>3 DEF AlarmsInv, ThreadInv
  <2> QED
    BY <1>1, <1>2, <2>1, <2>2, <2>3, <2>4 DEF ThreadInv
<1>7. MailedInv'
  <2>1. \A i \in 1..MaxAlarms : i \notin Alarm' => mailed'[i] = 0
    BY <1>2, <1>3 DEF AlarmsInv, MailedInv
  <2>2. Due \subseteq Alarm
    BY DEF AlarmsInv, ThreadInv, Due
  <2>3. \A i \in Due' : list' # <<>> /\ i < This' => Reason(i)'
    BY <1>1, <1>3, <1>5, <2>2 DEF AlarmsInv, MailedInv
  <2>4. ASSUME NEW i \in Alarm', mailed'[i] >= 1
        PROVE  \/ Reason(i)'
               \/ i \notin rows' \cup Pending'
               \/ (i = This' /\ apc' \in {"token", "push", "delete"})
    <3>1. CASE i = This
      BY <1>1, <1>3, <3>1
    <3>2. CASE i # This
      <4>1. i \in Alarm /\ mailed[i] >= 1
        BY <1>2, <1>3, <2>4, <3>2
      <4>2. Reason(i) \/ i \notin rows \cup Pending
        BY <3>2, <4>1 DEF AlarmsInv, MailedInv
      <4> QED
        BY <1>1, <1>3, <1>5, <4>1, <4>2
    <3> QED
      BY <3>1, <3>2
  <2>5. \A i \in Alarm' : mailed'[i] = 2 => Reason(i)'
    BY <1>2, <1>3, <1>5 DEF AlarmsInv, MailedInv
  <2> QED
    BY <2>1, <2>3, <2>4, <2>5 DEF MailedInv
<1> QED
  BY <1>5, <1>6, <1>7 DEF AlarmsInv

LEMMA DieStep == AlarmsInv /\ Die => AlarmsInv'
<1> SUFFICES ASSUME AlarmsInv, Die
             PROVE  AlarmsInv'
  OBVIOUS
<1>1. /\ apc = "mail" /\ apc' = "down" /\ tried' = tried \cup {This} /\ CountMail
      /\ list' = <<>> /\ deaths < MaxDeaths /\ deaths' = deaths + 1
      /\ UNCHANGED <<owned, alarm, rows, failures>>
  BY DEF Die
<1>2. /\ This \in Alarm /\ mailed' \in [1..MaxAlarms -> 0..2]
      /\ \A i \in 1..MaxAlarms : i # This => mailed'[i] = mailed[i]
  BY <1>1, CountFacts
<1>3. Len(list') = 0 /\ Pending' = {} /\ Alarm' = Alarm /\ Deleted' = Deleted
  BY <1>1 DEF Pending, Alarm, Deleted
<1>4. deaths' \in 0..MaxDeaths /\ deaths' > 0 /\ failures' \in Nat /\ failures <= failures'
  BY <1>1, AlarmFacts, BackgroundAssumption
<1>5. AlarmInv'
  BY <1>1, <1>3 DEF AlarmsInv, AlarmInv
<1>6. ThreadInv'
  <2>1. Mail!TypeOK' /\ Mail!DeadWereTaken'
    BY DEF Die, Mail!Clear, Mail!TypeOK, Mail!DeadWereTaken
  <2>2. (list' # <<>>) = (apc' \notin {"wait", "down"})
    BY <1>1
  <2>3. tried' \subseteq Alarm'
    BY <1>1, <1>2, <1>3 DEF AlarmsInv, ThreadInv
  <2>4. owned' \subseteq Card /\ rows' \subseteq Alarm' /\ failures' \in 0..MaxFailures
    BY <1>1, <1>3 DEF AlarmsInv, ThreadInv
  <2> QED
    BY <1>1, <1>2, <1>4, <2>1, <2>2, <2>3, <2>4 DEF ThreadInv
<1>7. ListInv'
  BY <1>1, <1>3 DEF ListInv
<1>8. CoverInv'
  <2> DEFINE f == [i \in {} |-> i]
  <2>1. f \in [Pending' -> rows'] /\ Serves(f)'
    BY <1>3 DEF Serves
  <2> QED
    BY <2>1 DEF CoverInv
<1>9. SkippedInv'
  <2>1. Skipped' \subseteq Skipped
    BY <1>1, <1>3 DEF Skipped, Passed, Tied
  <2> QED
    BY <1>4, <2>1, SkippedStays
<1>10. MailedInv'
  <2>1. \A i : Reason(i)'
    BY <1>4 DEF Reason
  <2>2. \A i \in 1..MaxAlarms : i \notin Alarm' => mailed'[i] = 0
    BY <1>2, <1>3 DEF AlarmsInv, MailedInv
  <2> QED
    BY <2>1, <2>2 DEF MailedInv
<1> QED
  BY <1>5, <1>6, <1>7, <1>8, <1>9, <1>10 DEF AlarmsInv

-----------------------------------------------------------------------------
(* An alarm is raised                                                      *)

LEMMA RaiseFacts ==
  ASSUME AlarmsInv, Raise, NEW n, n = Len(alarm) + 1
  PROVE  /\ n \in Nat /\ n \in 1..MaxAlarms /\ n \notin Alarm
         /\ Alarm' = Alarm \cup {n} /\ Len(alarm') = n
         /\ \A i \in Alarm : i < n /\ alarm'[i] = alarm[i]
         /\ AlarmInv'
<1> DEFINE T == [card : Card, time : 1..(MaxAlarms + 1), send : BOOLEAN]
<1>1. /\ alarm \in Seq(T) /\ Len(alarm) \in Nat /\ Len(alarm) < MaxAlarms /\ MaxAlarms \in Nat
      /\ Alarm = 1..Len(alarm)
      /\ \A i \in Alarm : alarm[i] \in T /\ alarm[i].time \in 1..(i + 1)
  BY AlarmFacts, ElementOfSeq, BackgroundAssumption DEF AlarmsInv, AlarmInv, Raise
<1>2. PICK c \in Card, send \in BOOLEAN, t \in {Now, Now + 1} :
        alarm' = Append(alarm, [card |-> c, time |-> t, send |-> send])
  BY DEF Raise
<1>3. n \in Nat /\ n \in 1..MaxAlarms /\ n \notin Alarm /\ \A i \in Alarm : i < n
  BY <1>1
<1>4. /\ Now \in Nat /\ Now \in 1..n
      /\ \A i \in Alarm : alarm[i].time <= Now
  <2>1. CASE alarm = <<>>
    BY <1>1, <2>1 DEF Now
  <2>2. CASE alarm # <<>>
    <3>1. Len(alarm) >= 1 /\ Len(alarm) \in Alarm
      BY <1>1, <2>2, EmptySeq
    <3>2. Now = alarm[Len(alarm)].time
      BY <2>2 DEF Now, Last
    <3>3. alarm[Len(alarm)].time \in 1..(Len(alarm) + 1)
      BY <1>1, <3>1
    <3>4. \A i \in Alarm : i < Len(alarm) => alarm[i].time <= alarm[Len(alarm)].time
      BY <3>1 DEF AlarmsInv, AlarmInv
    <3>5. \A i \in Alarm : i = Len(alarm) \/ i < Len(alarm)
      BY <1>1
    <3> QED
      BY <1>1, <3>2, <3>3, <3>4, <3>5
  <2> QED
    BY <2>1, <2>2
<1>5. t \in Nat /\ t \in 1..(n + 1) /\ t >= Now
  BY <1>3, <1>4
<1> DEFINE e == [card |-> c, time |-> t, send |-> send]
<1>6. e \in T /\ e.time = t
  BY <1>1, <1>3, <1>5
<1> HIDE DEF e
<1>7. /\ alarm' \in Seq(T) /\ Len(alarm') = n /\ alarm'[n] = e
      /\ \A i \in 1..Len(alarm) : alarm'[i] = alarm[i]
  <2>1. alarm' = Append(alarm, e)
    BY <1>2 DEF e
  <2> HIDE DEF T
  <2> QED
    BY <1>1, <1>6, <2>1, AppendProperties
<1>8. Alarm' = Alarm \cup {n}
  <2>1. Alarm' = 1..(Len(alarm) + 1)
    BY <1>7 DEF Alarm
  <2> QED
    BY <1>1, <2>1
<1>9. \A i \in Alarm' : alarm'[i].time \in 1..(i + 1)
  BY <1>1, <1>5, <1>6, <1>7, <1>8
<1>10. ASSUME NEW i \in Alarm', NEW j \in Alarm', i < j
       PROVE  alarm'[i].time <= alarm'[j].time
  <2>1. CASE j = n
    <3>1. i \in Alarm
      BY <1>3, <1>8, <1>10, <2>1
    <3>2. alarm'[i] = alarm[i] /\ alarm[i].time \in 1..(i + 1) /\ i \in Nat
      BY <1>1, <1>7, <3>1
    <3>3. alarm'[i].time \in Nat /\ alarm'[i].time <= Now
      BY <1>4, <3>1, <3>2
    <3> QED
      BY <1>4, <1>5, <1>6, <1>7, <2>1, <3>3
  <2>2. CASE j # n
    <3>1. j \in Alarm /\ i \in Alarm
      BY <1>1, <1>3, <1>8, <1>10, <2>2
    <3>2. alarm[i].time <= alarm[j].time
      BY <1>10, <3>1 DEF AlarmsInv, AlarmInv
    <3> QED
      BY <1>1, <1>7, <3>1, <3>2
  <2> QED
    BY <2>1, <2>2
<1>11. AlarmInv'
  BY <1>3, <1>7, <1>9, <1>10 DEF AlarmInv
<1> QED
  BY <1>1, <1>3, <1>7, <1>8, <1>11

LEMMA RaiseStep == AlarmsInv /\ Raise => AlarmsInv'
<1> SUFFICES ASSUME AlarmsInv, Raise
             PROVE  AlarmsInv'
  OBVIOUS
<1> DEFINE n == Len(alarm) + 1
<1>1. /\ n \in Nat /\ n \in 1..MaxAlarms /\ n \notin Alarm /\ Alarm' = Alarm \cup {n}
      /\ \A i \in Alarm : i < n /\ alarm'[i] = alarm[i]
      /\ AlarmInv'
  BY RaiseFacts
<1>2. /\ rows' = rows \cup {n}
      /\ UNCHANGED <<owned, apc, list, tried, mailed, failures, deaths, mailVars>>
  BY DEF Raise
<1> HIDE DEF n
<1>3. /\ rows \subseteq Alarm /\ tried \subseteq Alarm /\ Pending \subseteq Alarm
      /\ Alarm \subseteq Nat /\ failures \in Nat /\ deaths \in Nat
      /\ list # <<>> => This \in Alarm
  BY AlarmFacts DEF AlarmsInv, ThreadInv
<1>4. Pending' = Pending /\ This' = This /\ Deleted' = Deleted
  BY <1>1, <1>2, <1>3 DEF Pending, This, Deleted
<1>5. n \notin Deleted /\ (list # <<>> => ~(n < This) /\ n # This)
  <2>1. n \notin Deleted
    BY <1>1 DEF Deleted
  <2>2. ASSUME list # <<>>
        PROVE  ~(n < This) /\ n # This
    <3>1. This \in Nat /\ This < n
      BY <1>1, <1>3, <2>2
    <3> QED
      BY <1>1, <3>1
  <2> QED
    BY <2>1, <2>2
<1>6. /\ \A i \in Alarm : Tied(i) => Tied(i)'
      /\ \A i \in Alarm : Reason(i) => Reason(i)'
  <2>1. Alarm \subseteq Alarm' /\ Deleted \subseteq Deleted'
    BY <1>1, <1>4
  <2>2. failures' \in Nat /\ deaths' \in Nat /\ failures <= failures' /\ deaths <= deaths'
    BY <1>2, <1>3
  <2> QED
    BY <1>1, <2>1, <2>2, ReasonStays
<1>7. ThreadInv'
  <2>1. rows' \subseteq Alarm' /\ tried' \subseteq Alarm'
    BY <1>1, <1>2, <1>3
  <2>2. (list' # <<>>) = (apc' \notin {"wait", "down"})
    BY <1>2 DEF AlarmsInv, ThreadInv
  <2>3. Mail!TypeOK' /\ Mail!DeadWereTaken'
    BY <1>2 DEF AlarmsInv, ThreadInv, mailVars, Mail!TypeOK, Mail!DeadWereTaken
  <2>4. apc' \in {"token", "push"} => This' \in tried'
    BY <1>2, <1>4 DEF AlarmsInv, ThreadInv
  <2> QED
    BY <1>2, <2>1, <2>2, <2>3, <2>4 DEF AlarmsInv, ThreadInv
<1>8. \A i \in Due' : i \in Due \/ i = n
  BY <1>1, <1>2, <1>3 DEF Due
<1>9. list # <<>> => list[Len(list)] \in Alarm
  BY AlarmFacts, ElementOfSeq DEF AlarmsInv, ListInv
<1>10. ListInv'
  <2>1. list' \in Seq(Alarm')
    BY <1>1, <1>2, SeqMonotonic DEF AlarmsInv, ListInv
  <2>2. \A a \in 1..Len(list') : alarm'[list'[a]].send
    BY <1>1, <1>2, ElementOfSeq DEF AlarmsInv, ListInv
  <2>3. \A a, b \in 1..Len(list') : a < b => list'[a] < list'[b]
    BY <1>2 DEF AlarmsInv, ListInv
  <2>4. ASSUME NEW i \in Due', list' # <<>>, This' <= i, i <= list'[Len(list')]
        PROVE  i \in Pending'
    <3>1. list[Len(list)] \in Nat /\ list[Len(list)] < n
      BY <1>1, <1>2, <1>3, <1>9, <2>4
    <3>2. i # n
      BY <1>1, <1>2, <2>4, <3>1
    <3> QED
      BY <1>2, <1>4, <1>8, <2>4, <3>2 DEF AlarmsInv, ListInv
  <2> QED
    BY <2>1, <2>2, <2>3, <2>4 DEF ListInv
<1>11. CoverInv'
  <2>1. PICK f \in [Pending -> rows] : Serves(f)
    BY DEF AlarmsInv, CoverInv
  <2>2. f \in [Pending' -> rows']
    BY <1>2, <1>4
  <2>3. \A i \in Pending : i \in Alarm /\ f[i] \in Alarm
    BY <1>3, <2>1
  <2>4. Serves(f)'
    BY <1>1, <1>4, <2>1, <2>3 DEF Serves
  <2> QED
    BY <2>2, <2>4 DEF CoverInv
<1>12. SkippedInv'
  <2>1. ASSUME NEW i \in Skipped'
        PROVE  i \in Skipped
    <3>1. i # n
      BY <1>2, <1>4, <1>5, <2>1 DEF Skipped, Passed
    <3>2. i \in Alarm /\ i \notin tried /\ alarm[i].send /\ ~Tied(i)
      BY <1>1, <1>2, <1>6, <2>1, <3>1 DEF Skipped
    <3>3. i \in Deleted \/ Passed(i)
      BY <1>2, <1>4, <2>1 DEF Skipped, Passed
    <3> QED
      BY <3>2, <3>3 DEF Skipped
  <2> QED
    BY <1>2, <1>3, <2>1, SkippedStays
<1>13. MailedInv'
  <2>1. \A i \in 1..MaxAlarms : i \notin Alarm' => mailed'[i] = 0
    BY <1>1, <1>2 DEF AlarmsInv, MailedInv
  <2>2. Due \subseteq Alarm
    BY <1>3 DEF Due
  <2>3. ASSUME NEW i \in Due', list' # <<>>, i < This'
        PROVE  Reason(i)'
    <3>1. i # n
      BY <1>2, <1>4, <1>5, <2>3
    <3> QED
      BY <1>2, <1>4, <1>6, <1>8, <2>2, <2>3, <3>1 DEF AlarmsInv, MailedInv
  <2>4. mailed'[n] = 0
    BY <1>1, <1>2 DEF AlarmsInv, MailedInv
  <2>5. ASSUME NEW i \in Alarm', mailed'[i] >= 1
        PROVE  \/ Reason(i)'
               \/ i \notin rows' \cup Pending'
               \/ (i = This' /\ apc' \in {"token", "push", "delete"})
    <3>1. i # n /\ i \in Alarm
      BY <1>1, <2>4, <2>5
    <3>2. \/ Reason(i)
          \/ i \notin rows \cup Pending
          \/ (i = This /\ apc \in {"token", "push", "delete"})
      BY <1>2, <2>5, <3>1 DEF AlarmsInv, MailedInv
    <3> QED
      BY <1>2, <1>4, <1>6, <3>1, <3>2
  <2>6. \A i \in Alarm' : mailed'[i] = 2 => Reason(i)'
    BY <1>1, <1>2, <1>6, <2>4 DEF AlarmsInv, MailedInv
  <2> QED
    BY <2>1, <2>3, <2>5, <2>6 DEF MailedInv
<1> QED
  BY <1>1, <1>7, <1>10, <1>11, <1>12, <1>13 DEF AlarmsInv

-----------------------------------------------------------------------------
(* The SELECT                                                              *)

LEMMA InOrderFacts ==
  ASSUME NEW S, IsFiniteSet(S), S # {}, NEW l \in InOrder(S)
  PROVE  /\ l \in Seq(S) /\ Len(l) \in Nat /\ Len(l) >= 1
         /\ \A a, b \in 1..Len(l) : a < b => l[a] < l[b]
         /\ \A a \in 1..Len(l) : l[a] \in S
         /\ \A i \in S : \E a \in 1..Len(l) : l[a] = i
<1> DEFINE k == Cardinality(S)
<1>1. k \in Nat /\ k # 0
  BY FS_CardinalityType, FS_EmptySet
<1>2. l \in [1..k -> S]
  BY DEF InOrder
<1> HIDE DEF k
<1>3. l \in Seq(S) /\ Len(l) = k
  BY <1>1, <1>2
<1>4. /\ \A a, b \in DOMAIN l : a < b => l[a] < l[b]
      /\ \A i \in S : \E a \in DOMAIN l : l[a] = i
  BY DEF InOrder
<1>5. DOMAIN l = 1..Len(l) /\ \A a \in 1..Len(l) : l[a] \in S
  BY <1>2, <1>3
<1>6. Len(l) \in Nat /\ Len(l) >= 1
  BY <1>1, <1>3
<1> QED
  BY <1>3, <1>4, <1>5, <1>6

LEMMA SelectStep == AlarmsInv /\ Select => AlarmsInv'
<1> SUFFICES ASSUME AlarmsInv, Select
             PROVE  AlarmsInv'
  OBVIOUS
<1>1. /\ apc = "wait" /\ apc' = "row" /\ Due # {} /\ list' \in InOrder(Due)
      /\ UNCHANGED <<owned, alarm, rows, tried, mailed, failures, deaths, mailVars>>
  BY DEF Select
<1>2. list = <<>> /\ Len(list) = 0 /\ Pending = {}
  BY <1>1 DEF AlarmsInv, ThreadInv, Pending
<1>3. Due \subseteq Alarm /\ Alarm \subseteq Nat /\ IsFiniteSet(Due) /\ rows \subseteq Alarm
  BY AlarmFacts, FS_Subset DEF AlarmsInv, ThreadInv, Due
<1>4. /\ list' \in Seq(Due) /\ Len(list') \in Nat /\ Len(list') >= 1
      /\ \A a, b \in 1..Len(list') : a < b => list'[a] < list'[b]
      /\ \A a \in 1..Len(list') : list'[a] \in Due
      /\ \A i \in Due : \E a \in 1..Len(list') : list'[a] = i
  BY <1>1, <1>3, InOrderFacts
<1>5. /\ Alarm' = Alarm /\ Deleted' = Deleted /\ Due' = Due /\ Pending' = Due
  BY <1>1, <1>4 DEF Alarm, Deleted, Due, Pending
<1>6. list' # <<>> /\ This' = list'[1] /\ This' \in Due /\ \A i \in Due : ~(i < This')
  <2>1. list' # <<>> /\ This' = list'[1] /\ This' \in Due
    BY <1>4, EmptySeq DEF This
  <2>2. ASSUME NEW i \in Due, i < This'
        PROVE  FALSE
    <3>1. PICK a \in 1..Len(list') : list'[a] = i
      BY <1>4
    <3>2. a = 1 \/ (1 \in 1..Len(list') /\ 1 < a)
      BY <1>4
    <3>3. list'[1] = i \/ list'[1] < i
      BY <1>4, <3>1, <3>2
    <3> QED
      BY <1>3, <2>1, <2>2, <3>3
  <2> QED
    BY <2>1, <2>2
<1>7. AlarmInv'
  BY <1>1, <1>5 DEF AlarmsInv, AlarmInv
<1>8. ThreadInv'
  <2>1. (list' # <<>>) = (apc' \notin {"wait", "down"})
    BY <1>1, <1>6
  <2>2. Mail!TypeOK' /\ Mail!DeadWereTaken'
    BY <1>1 DEF AlarmsInv, ThreadInv, mailVars, Mail!TypeOK, Mail!DeadWereTaken
  <2> QED
    BY <1>1, <1>5, <2>1, <2>2 DEF AlarmsInv, ThreadInv
<1>9. ListInv'
  <2>1. list' \in Seq(Alarm')
    BY <1>3, <1>4, <1>5, SeqMonotonic
  <2>2. \A a \in 1..Len(list') : alarm'[list'[a]].send
    BY <1>1, <1>4 DEF Due
  <2> QED
    BY <1>4, <1>5, <2>1, <2>2 DEF ListInv
<1>10. CoverInv'
  <2>1. \E g \in [Due -> Due] : g = [i \in Due |-> i]
    OBVIOUS
  <2>2. PICK f \in [Due -> Due] : f = [i \in Due |-> i]
    BY <2>1
  <2>3. f \in [Pending' -> rows']
    BY <1>1, <1>5 DEF Due
  <2>4. ASSUME NEW i \in Due
        PROVE  alarm'[f[i]].time <= alarm'[i].time
    <3>1. f[i] = i /\ alarm'[i] = alarm[i] /\ i \in Alarm /\ i \in Nat
      BY <1>1, <1>3, <2>2
    <3>2. alarm[i].time \in Nat
      BY <3>1, TimesAreNumbers
    <3> QED
      BY <3>1, <3>2
  <2>5. Serves(f)'
    BY <1>1, <1>5, <2>4, <2>2 DEF Serves
  <2> QED
    BY <2>3, <2>5 DEF CoverInv
<1>11. SkippedInv'
  <2>1. ASSUME NEW i \in Skipped'
        PROVE  i \in Skipped
    <3>1. i \in Alarm /\ i \notin tried /\ alarm[i].send /\ ~Tied(i)
      BY <1>1, <1>5, <2>1 DEF Skipped, Tied
    <3>2. i \in Deleted \/ i < This'
      BY <1>1, <1>5, <2>1 DEF Skipped, Passed
    <3>3. i \notin Due => i \in Deleted
      BY <3>1 DEF Due, Deleted
    <3> QED
      BY <1>6, <3>1, <3>2, <3>3 DEF Skipped
  <2> QED
    BY <1>1, <2>1, AlarmFacts, SkippedStays
<1>12. MailedInv'
  <2>1. \A i \in Alarm : Reason(i) => Reason(i)'
    BY <1>1, <1>5 DEF Reason, Tied
  <2>2. \A i \in 1..MaxAlarms : i \notin Alarm' => mailed'[i] = 0
    BY <1>1, <1>5 DEF AlarmsInv, MailedInv
  <2>3. \A i \in Due' : ~(i < This')
    BY <1>5, <1>6
  <2>4. ASSUME NEW i \in Alarm', mailed'[i] >= 1
        PROVE  Reason(i)' \/ i \notin rows' \cup Pending'
    <3>1. Reason(i) \/ i \notin rows
      BY <1>1, <1>5, <2>4 DEF AlarmsInv, MailedInv
    <3> QED
      BY <1>1, <1>5, <2>1, <3>1 DEF Due
  <2>5. \A i \in Alarm' : mailed'[i] = 2 => Reason(i)'
    BY <1>1, <1>5, <2>1 DEF AlarmsInv, MailedInv
  <2> QED
    BY <2>2, <2>3, <2>4, <2>5 DEF MailedInv
<1> QED
  BY <1>7, <1>8, <1>9, <1>10, <1>11, <1>12 DEF AlarmsInv

-----------------------------------------------------------------------------
(* The DELETE                                                              *)

LEMMA SmallestExists ==
  ASSUME NEW S, S \subseteq Nat, S # {}
  PROVE  \E m \in S : \A k \in S : m <= k
<1> DEFINE R == {ss \in Nat \X Nat : ss[1] < ss[2]}
<1>1. IsWellFoundedOn(R, Nat)
  BY NatLessThanWellFounded DEF OpToRel
<1> HIDE DEF R
<1>2. PICK m \in S : \A k \in S : <<k, m>> \notin R
  BY <1>1, WFMin
<1>3. \A k \in S : ~(k < m)
  BY <1>2 DEF R
<1> QED
  BY <1>3

(* There is a row for it to take, not later than the one gone through, and *)
(* one that is to be sent has come before, or has the time of another.     *)
LEMMA OldestFacts ==
  ASSUME AlarmsInv, apc = "delete"
  PROVE  /\ Oldest(alarm[This].card) # {}
         /\ \A i \in Oldest(alarm[This].card) :
              /\ i \in rows /\ i \in Alarm /\ alarm[i].card = alarm[This].card
              /\ alarm[i].time <= alarm[This].time
              /\ i <= This \/ Tied(i)
<1>1. This \in Alarm /\ This \in Pending /\ rows \subseteq Alarm /\ Alarm \subseteq Nat
  BY AlarmFacts DEF AlarmsInv, ThreadInv
<1>2. \A i \in Alarm : alarm[i].time \in Nat
  BY TimesAreNumbers
<1>3. PICK f \in [Pending -> rows] : Serves(f)
  BY DEF AlarmsInv, CoverInv
<1>4. PICK g \in rows : /\ alarm[g].card = alarm[This].card
                        /\ alarm[g].time <= alarm[This].time
  BY <1>1, <1>3 DEF Serves
<1>5. Oldest(alarm[This].card) # {}
  <2> DEFINE S == {i \in rows : alarm[i].card = alarm[This].card}
  <2>1. S \subseteq Nat /\ S # {}
    BY <1>1, <1>4
  <2> HIDE DEF S
  <2>2. PICK m \in S : \A k \in S : m <= k
    BY <2>1, SmallestExists
  <2>3. m \in rows /\ alarm[m].card = alarm[This].card
    BY <2>2 DEF S
  <2>4. ASSUME NEW j \in rows, alarm[j].card = alarm[This].card
        PROVE  alarm[m].time <= alarm[j].time
    <3>1. m <= j /\ m \in Alarm /\ j \in Alarm
      BY <1>1, <2>2, <2>3, <2>4 DEF S
    <3>2. m = j \/ m < j
      BY <1>1, <3>1
    <3> QED
      BY <1>2, <3>1, <3>2 DEF AlarmsInv, AlarmInv
  <2> QED
    BY <2>3, <2>4 DEF Oldest
<1>6. ASSUME NEW i \in Oldest(alarm[This].card)
      PROVE  /\ i \in rows /\ i \in Alarm /\ alarm[i].card = alarm[This].card
             /\ alarm[i].time <= alarm[This].time
             /\ i <= This \/ Tied(i)
  <2>1. /\ i \in rows /\ i \in Alarm /\ alarm[i].card = alarm[This].card
        /\ alarm[i].time <= alarm[g].time
    BY <1>1, <1>4 DEF Oldest
  <2>2. alarm[i].time <= alarm[This].time
    BY <1>1, <1>2, <1>4, <2>1
  <2>3. ASSUME ~(i <= This)
        PROVE  Tied(i)
    <3>1. This < i
      BY <1>1, <2>1, <2>3
    <3>2. alarm[This].time <= alarm[i].time
      BY <1>1, <2>1, <3>1 DEF AlarmsInv, AlarmInv
    <3>3. alarm[This].time = alarm[i].time
      <4>1. alarm[This].time \in Nat /\ alarm[i].time \in Nat
        BY <1>1, <1>2, <2>1
      <4> QED
        BY <2>2, <3>2, <4>1
    <3>4. This # i
      BY <2>3, <1>1
    <3> QED
      BY <1>1, <2>1, <3>3, <3>4 DEF Tied
  <2> QED
    BY <2>1, <2>2, <2>3
<1> QED
  BY <1>5, <1>6

(* The list without the row gone through.                                  *)
LEMMA TailFacts ==
  ASSUME AlarmsInv, apc = "delete", list' = Tail(list), alarm' = alarm, rows' \subseteq rows,
         apc' = IF Len(list) = 1 THEN "wait" ELSE "row"
  PROVE  /\ This \in Alarm /\ This \in Pending /\ This \notin Pending'
         /\ Pending' \subseteq Pending /\ \A i \in Pending' : This < i
         /\ list' # <<>> => This' \in Pending'
         /\ \A i \in Due : list' # <<>> /\ This < i => ~(i < This')
         /\ ListInv'
         /\ (list' # <<>>) = (apc' \notin {"wait", "down"})
         /\ Pending = Pending' \cup {This}
<1> DEFINE m == Len(list)
<1>1. /\ list # <<>> /\ m \in Nat /\ m >= 1 /\ list \in Seq(Alarm) /\ This = list[1]
      /\ This \in Alarm /\ This \in Pending /\ Alarm \subseteq Nat
      /\ \A a \in 1..m : list[a] \in Alarm
  BY AlarmFacts, ElementOfSeq DEF AlarmsInv, ThreadInv, ListInv
<1>2. /\ list' \in Seq(Alarm) /\ Len(list') = m - 1
      /\ \A a \in 1..(m - 1) : list'[a] = list[a + 1]
  BY <1>1, HeadTailProperties
<1> HIDE DEF m
<1>3. Alarm' = Alarm /\ Due' \subseteq Due
  BY DEF Alarm, Due
<1>4. m - 1 \in Nat /\ \A a \in 1..(m - 1) : a \in 1..m /\ a + 1 \in 1..m /\ 1 \in 1..m /\ 1 < a + 1
  BY <1>1
<1>5. \A a, b \in 1..m : a < b => list[a] < list[b]
  BY DEF m, AlarmsInv, ListInv
<1>6. \A a \in 1..(m - 1) : This < list'[a] /\ list'[a] \in Pending
  BY <1>1, <1>2, <1>4, <1>5 DEF Pending, m
<1>7. Pending' = {list'[a] : a \in 1..(m - 1)}
  BY <1>2 DEF Pending
<1>8. /\ Pending' \subseteq Pending /\ \A i \in Pending' : This < i
      /\ This \notin Pending'
  <2>1. \A i \in Pending' : i \in Pending /\ This < i
    BY <1>6, <1>7
  <2>2. ~(This < This)
    BY <1>1
  <2> QED
    BY <2>1, <2>2
<1>9. list' # <<>> <=> m # 1
  <2>1. Len(list') # 0 <=> list' # <<>>
    BY <1>2, EmptySeq
  <2> QED
    BY <1>1, <1>2, <2>1
<1>10. (list' # <<>>) = (apc' \notin {"wait", "down"})
  BY <1>9 DEF m
<1>11. ASSUME list' # <<>>
       PROVE  /\ This' = list'[1] /\ This' \in Pending' /\ 1 \in 1..(m - 1)
              /\ list'[m - 1] = list[m] /\ m - 1 \in 1..(m - 1)
  <2>1. m > 1 /\ 1 \in 1..(m - 1) /\ m - 1 \in 1..(m - 1) /\ (m - 1) + 1 = m
    BY <1>1, <1>9, <1>11
  <2>2. This' = list'[1]
    BY <1>2, <1>11 DEF This
  <2> QED
    BY <1>2, <1>7, <2>1, <2>2
<1>12. \A i \in Pending : i = This \/ i \in Pending'
  <2>1. ASSUME NEW a \in 1..m, a # 1
        PROVE  list[a] \in Pending'
    <3>1. a - 1 \in 1..(m - 1) /\ (a - 1) + 1 = a
      BY <1>1, <2>1
    <3>2. list'[a - 1] = list[a]
      BY <1>2, <3>1
    <3> QED
      BY <1>7, <3>1, <3>2
  <2> QED
    BY <1>1, <2>1 DEF Pending, m
<1>13. \A a, b \in 1..(m - 1) : a < b => list'[a] < list'[b]
  <2>1. ASSUME NEW a \in 1..(m - 1), NEW b \in 1..(m - 1), a < b
        PROVE  list'[a] < list'[b]
    <3>1. a + 1 < b + 1 /\ a + 1 \in 1..m /\ b + 1 \in 1..m
      BY <1>1, <1>4, <2>1
    <3> QED
      BY <1>2, <1>5, <3>1
  <2> QED
    BY <2>1
<1>14. ASSUME NEW i \in Due, list' # <<>>, This <= i, i <= list[m]
       PROVE  i \in Pending
  BY <1>1, <1>14 DEF m, AlarmsInv, ListInv
<1>15. ASSUME NEW i \in Due, list' # <<>>, This < i, i < This'
       PROVE  FALSE
  <2>1. i \in Nat /\ This \in Nat /\ This' = list[2] /\ 2 \in 1..m /\ list[2] \in Nat
        /\ list[m] \in Nat /\ m \in 1..m
    <3>1. i \in Alarm
      BY DEF AlarmsInv, ThreadInv, Due
    <3>2. 1 \in 1..(m - 1) /\ This' = list'[1]
      BY <1>11, <1>15
    <3>3. list'[1] = list[1 + 1] /\ 1 + 1 = 2 /\ 2 \in 1..m /\ m \in 1..m
      BY <1>1, <1>2, <1>4, <3>2
    <3> QED
      BY <1>1, <3>1, <3>2, <3>3
  <2>2. 2 = m \/ list[2] < list[m]
    BY <1>1, <1>5, <2>1
  <2>3. This <= i /\ i <= list[m]
    BY <1>15, <2>1, <2>2
  <2>4. i \in Pending /\ i # This
    BY <1>14, <1>15, <2>1, <2>3
  <2>5. PICK a \in 1..(m - 1) : list'[a] = i
    BY <1>7, <1>12, <2>4
  <2>6. 1 = a \/ (1 < a /\ 1 \in 1..(m - 1))
    BY <1>1, <2>5
  <2>7. list'[1] = i \/ list'[1] < i
    BY <1>13, <2>5, <2>6
  <2> QED
    BY <1>11, <1>15, <2>1, <2>7
<1>16. ListInv'
  <2>1. \A a \in 1..(m - 1) : alarm'[list'[a]].send
    BY <1>2, <1>4 DEF m, AlarmsInv, ListInv
  <2>2. ASSUME NEW i \in Due', list' # <<>>, This' <= i, i <= list'[Len(list')]
        PROVE  i \in Pending'
    <3>1. i \in Due /\ i \in Nat /\ This \in Nat /\ This' \in Nat /\ This < This'
      BY <1>1, <1>3, <1>6, <1>8, <1>11, <2>2, AlarmFacts DEF AlarmsInv, ThreadInv, Due
    <3>2. i <= list[m]
      BY <1>2, <1>11, <2>2
    <3>3. This <= i /\ i # This
      BY <2>2, <3>1
    <3> QED
      BY <1>12, <1>14, <2>2, <3>1, <3>2, <3>3
  <2> QED
    BY <1>2, <1>3, <1>13, <2>1, <2>2 DEF ListInv
<1> QED
  BY <1>1, <1>8, <1>10, <1>11, <1>12, <1>15, <1>16

(* Going on in the list passes over nothing that is still to be sent.      *)
LEMMA PassedStays ==
  ASSUME AlarmsInv, apc = "delete", list' = Tail(list), alarm' = alarm, rows' \subseteq rows,
         apc' = IF Len(list) = 1 THEN "wait" ELSE "row", tried' = tried
  PROVE  /\ \A i \in Skipped' : i \in Skipped \/ i \in rows \ rows'
         /\ \A i \in rows \ rows' : i \in Skipped' /\ i <= This => i \in Skipped
<1>1. /\ This \in Alarm /\ Alarm \subseteq Nat /\ list # <<>>
      /\ list' # <<>> => This' \in Alarm
      /\ \A i \in Due : list' # <<>> /\ This < i => ~(i < This')
  BY TailFacts, AlarmFacts DEF AlarmsInv, ThreadInv
<1>2. Alarm' = Alarm /\ \A i \in Alarm : Tied(i)' <=> Tied(i)
  BY DEF Alarm, Tied
<1>3. apc' # "delete"
  OBVIOUS
<1>4. ASSUME NEW i \in Skipped'
      PROVE  /\ i \in Alarm \ tried /\ alarm[i].send /\ ~Tied(i)
             /\ i \in Deleted \cup (rows \ rows') \/ (list' # <<>> /\ i < This')
  BY <1>2, <1>3, <1>4 DEF Skipped, Passed, Deleted
<1>5. ASSUME NEW i \in Skipped', i <= This
      PROVE  i \in Skipped
  <2>2. i \in Nat /\ This \in Nat
    BY <1>1, <1>4
  <2>1. i < This \/ i = This
    BY <1>5, <2>2
  <2> QED
    BY <1>1, <1>4, <2>1 DEF Skipped, Passed
<1>6. ASSUME NEW i \in Skipped', ~(i <= This), i \notin rows \ rows'
      PROVE  i \in Skipped
  <2>4. i \in Nat /\ This \in Nat
    BY <1>1, <1>4
  <2>1. This < i
    BY <1>6, <2>4
  <2>2. i \in Due => i \in Deleted
    BY <1>1, <1>4, <1>6, <2>1
  <2>3. i \in Deleted
    BY <1>4, <2>2 DEF Due, Deleted
  <2> QED
    BY <1>4, <2>3 DEF Skipped
<1> QED
  BY <1>5, <1>6

(* No row has gone: a statement failed.                                    *)
LEMMA DeleteFails ==
  ASSUME AlarmsInv, apc = "delete", list' = Tail(list), Fails,
         apc' = IF Len(list) = 1 THEN "wait" ELSE "row",
         UNCHANGED <<owned, alarm, rows, tried, mailed, deaths, mailVars>>
  PROVE  AlarmsInv'
<1>1. /\ This \in Alarm /\ This \in Pending /\ Pending' \subseteq Pending
      /\ \A i \in Due : list' # <<>> /\ This < i => ~(i < This')
      /\ ListInv' /\ (list' # <<>>) = (apc' \notin {"wait", "down"})
  BY TailFacts
<1>2. /\ failures' \in 0..MaxFailures /\ failures' \in Nat /\ failures <= failures'
      /\ failures' > 0
  BY FailsFacts
<1>3. Alarm' = Alarm /\ Deleted' = Deleted /\ Due' = Due
  BY DEF Alarm, Deleted, Due
<1>4. AlarmInv'
  BY <1>3 DEF AlarmsInv, AlarmInv
<1>5. ThreadInv'
  <2>1. Mail!TypeOK' /\ Mail!DeadWereTaken'
    BY DEF AlarmsInv, ThreadInv, mailVars, Mail!TypeOK, Mail!DeadWereTaken
  <2> QED
    BY <1>1, <1>2, <1>3, <2>1 DEF AlarmsInv, ThreadInv
<1>6. CoverInv'
  <2>1. PICK f \in [Pending -> rows] : Serves(f)
    BY DEF AlarmsInv, CoverInv
  <2>2. PICK g \in [Pending' -> rows] : \A i \in Pending' : g[i] = f[i]
    <3>1. [i \in Pending' |-> f[i]] \in [Pending' -> rows]
      BY <1>1
    <3> QED
      BY <3>1
  <2>3. Serves(g)'
    BY <1>1, <2>1, <2>2 DEF Serves
  <2> QED
    BY <2>2, <2>3 DEF CoverInv
<1>7. SkippedInv'
  <2>1. Skipped' \subseteq Skipped
    BY PassedStays
  <2> QED
    BY <1>2, <2>1, SkippedStays
<1>8. MailedInv'
  <2>1. \A i : Reason(i)'
    BY <1>2 DEF Reason
  <2>2. \A i \in 1..MaxAlarms : i \notin Alarm' => mailed'[i] = 0
    BY <1>3 DEF AlarmsInv, MailedInv
  <2> QED
    BY <2>1, <2>2 DEF MailedInv
<1> QED
  BY <1>1, <1>4, <1>5, <1>6, <1>7, <1>8 DEF AlarmsInv

(* The oldest row of the card goes.  If it was not the one gone through,   *)
(* that has a reason to come again, and who counted on the row that went   *)
(* has the one that served This.                                           *)
LEMMA DeleteRow ==
  ASSUME AlarmsInv, apc = "delete", list' = Tail(list),
         NEW h \in Oldest(alarm[This].card), rows' = rows \ {h},
         apc' = IF Len(list) = 1 THEN "wait" ELSE "row",
         UNCHANGED <<owned, alarm, tried, mailed, failures, deaths, mailVars>>
  PROVE  AlarmsInv'
<1>1. /\ This \in Alarm /\ This \in Pending /\ This \notin Pending'
      /\ Pending' \subseteq Pending /\ Pending = Pending' \cup {This}
      /\ \A i \in Pending' : This < i
      /\ \A i \in Due : list' # <<>> /\ This < i => ~(i < This')
      /\ ListInv' /\ (list' # <<>>) = (apc' \notin {"wait", "down"})
  BY TailFacts
<1>2. /\ h \in rows /\ h \in Alarm /\ alarm[h].card = alarm[This].card
      /\ alarm[h].time <= alarm[This].time
      /\ h <= This \/ Tied(h)
  BY OldestFacts
<1>3. /\ Alarm' = Alarm /\ Deleted' = Deleted \cup {h} /\ Due' \subseteq Due
      /\ Alarm \subseteq Nat /\ rows \subseteq Alarm /\ list # <<>>
      /\ failures \in Nat /\ deaths \in Nat
  BY <1>2, AlarmFacts DEF AlarmsInv, ThreadInv, Alarm, Deleted, Due
<1>4. \A i \in Alarm : alarm[i].time \in Nat
  BY TimesAreNumbers
<1>5. /\ \A i \in Alarm : Tied(i) => Tied(i)'
      /\ \A i \in Alarm : Reason(i) => Reason(i)'
  <2>1. failures' \in Nat /\ deaths' \in Nat /\ failures <= failures' /\ deaths <= deaths'
    BY <1>3
  <2> QED
    BY <1>3, <2>1, ReasonStays
<1>6. AlarmInv'
  BY <1>3 DEF AlarmsInv, AlarmInv
<1>7. ThreadInv'
  <2>1. Mail!TypeOK' /\ Mail!DeadWereTaken'
    BY DEF AlarmsInv, ThreadInv, mailVars, Mail!TypeOK, Mail!DeadWereTaken
  <2> QED
    BY <1>1, <1>3, <2>1 DEF AlarmsInv, ThreadInv
<1>8. CoverInv'
  <2>1. PICK f \in [Pending -> rows] : Serves(f)
    BY DEF AlarmsInv, CoverInv
  <2>2. PICK g \in [Pending' -> rows \ {h}] :
          \A i \in Pending' : g[i] = IF f[i] = h THEN f[This] ELSE f[i]
    <3>1. ASSUME NEW i \in Pending', f[i] = h
          PROVE  f[This] # h
      BY <1>1, <2>1, <3>1 DEF Serves
    <3>2. [i \in Pending' |-> IF f[i] = h THEN f[This] ELSE f[i]]
            \in [Pending' -> rows \ {h}]
      BY <1>1, <2>1, <3>1
    <3> QED
      BY <3>2
  <2>3. ASSUME NEW i \in Pending', NEW j \in Pending', g[i] = g[j]
        PROVE  i = j
    BY <1>1, <2>1, <2>2, <2>3 DEF Serves
  <2>4. ASSUME NEW i \in Pending'
        PROVE  alarm[g[i]].card = alarm[i].card /\ alarm[g[i]].time <= alarm[i].time
    <3>1. CASE f[i] # h
      BY <1>1, <2>1, <2>2, <2>4, <3>1 DEF Serves
    <3>2. CASE f[i] = h
      <4>1. PICK k \in rows : /\ k = f[This] /\ g[i] = k
                              /\ alarm[k].card = alarm[This].card
                              /\ alarm[k].time <= alarm[This].time
        BY <1>1, <2>1, <2>2, <3>2 DEF Serves
      <4>2. alarm[k].card = alarm[i].card
        BY <1>1, <1>2, <2>1, <3>2, <4>1 DEF Serves
      <4>3. i \in Alarm /\ This < i
        BY <1>1, AlarmFacts
      <4>4. alarm[This].time <= alarm[i].time
        BY <1>1, <4>3 DEF AlarmsInv, AlarmInv
      <4>5. alarm[k].time \in Nat /\ alarm[This].time \in Nat /\ alarm[i].time \in Nat
        BY <1>1, <1>3, <1>4, <4>3
      <4>6. alarm[k].time <= alarm[i].time
        BY <4>1, <4>4, <4>5
      <4> QED
        BY <4>1, <4>2, <4>6
    <3> QED
      BY <3>1, <3>2
  <2>5. Serves(g)'
    BY <2>3, <2>4 DEF Serves
  <2> QED
    BY <2>2, <2>5 DEF CoverInv
<1>9. SkippedInv'
  <2>1. rows \ rows' = {h}
    BY <1>2
  <2>2. ASSUME NEW i \in Skipped'
        PROVE  i \in Skipped
    <3>1. i \in Skipped \/ i = h
      BY <2>1, PassedStays
    <3>2. ASSUME i = h
          PROVE  h <= This
      <4>1. ~Tied(h)
        BY <1>2, <1>5, <2>2, <3>2 DEF Skipped
      <4> QED
        BY <1>2, <4>1
    <3> QED
      BY <2>1, <3>1, <3>2, PassedStays
  <2> QED
    BY <1>3, <2>2, SkippedStays
<1>10. ASSUME NEW t, t = This, t \in rows'
       PROVE  Reason(t)'
  <2>1. h # t /\ t \in rows /\ t \in Alarm /\ h \in Deleted' \ {t}
    BY <1>3, <1>10
  <2>2. CASE ~alarm[h].send \/ Tied(h)
    <3>1. alarm'[h].send => Tied(h)'
      BY <1>2, <1>5, <2>2
    <3>2. alarm'[h].card = alarm'[t].card /\ alarm'[h].time <= alarm'[t].time
      BY <1>2, <1>10
    <3> QED
      BY <2>1, <3>1, <3>2 DEF Reason
  <2>3. CASE alarm[h].send /\ ~Tied(h)
    <3>1. h < This /\ h \in Due
      BY <1>1, <1>2, <1>3, <1>10, <2>1, <2>3 DEF Due
    <3>2. Reason(h)
      BY <1>3, <3>1 DEF AlarmsInv, MailedInv
    <3>3. Reason(t)
      <4>1. CASE failures > 0 \/ deaths > 0
        BY <4>1 DEF Reason
      <4>2. ASSUME NEW j \in Deleted \ {h}, alarm[j].card = alarm[h].card,
                   alarm[j].time <= alarm[h].time, alarm[j].send => Tied(j)
            PROVE  Reason(t)
        <5>1. j \in Deleted \ {t} /\ j \in Alarm
          BY <2>1, <4>2 DEF Deleted
        <5>2. alarm[j].card = alarm[t].card
          BY <1>2, <1>10, <4>2
        <5>3. alarm[j].time \in Nat /\ alarm[h].time \in Nat /\ alarm[t].time \in Nat
          BY <1>2, <1>4, <2>1, <5>1
        <5>4. alarm[j].time <= alarm[t].time
          BY <1>2, <1>10, <4>2, <5>3
        <5> QED
          BY <4>2, <5>1, <5>2, <5>4 DEF Reason
      <4> QED
        BY <3>2, <4>1, <4>2 DEF Reason
    <3> QED
      BY <1>5, <2>1, <3>3
  <2> QED
    BY <2>2, <2>3
<1>11. MailedInv'
  <2>1. \A i \in 1..MaxAlarms : i \notin Alarm' => mailed'[i] = 0
    BY <1>3 DEF AlarmsInv, MailedInv
  <2>2. ASSUME NEW i \in Due', list' # <<>>, i < This'
        PROVE  Reason(i)'
    <3>1. i \in Due /\ i \in Nat /\ i \in Alarm /\ This \in Nat /\ i \in rows'
      BY <1>1, <1>3, <2>2 DEF Due
    <3>2. ~(This < i)
      BY <1>1, <2>2, <3>1
    <3>3. i < This \/ i = This
      BY <3>1, <3>2
    <3>4. CASE i < This
      BY <1>3, <1>5, <3>1, <3>4 DEF AlarmsInv, MailedInv
    <3>5. CASE i = This
      BY <1>10, <3>1, <3>5
    <3> QED
      BY <3>3, <3>4, <3>5
  <2>3. ASSUME NEW i \in Alarm', mailed'[i] >= 1
        PROVE  Reason(i)' \/ i \notin rows' \cup Pending'
    <3>1. i \in Alarm /\ (Reason(i) \/ i \notin rows \cup Pending \/ i = This)
      BY <1>3, <2>3 DEF AlarmsInv, MailedInv
    <3>2. CASE i = This
      BY <1>1, <1>10, <3>2
    <3>3. CASE Reason(i) \/ i \notin rows \cup Pending
      BY <1>1, <1>5, <3>1, <3>3
    <3> QED
      BY <3>1, <3>2, <3>3
  <2>4. \A i \in Alarm' : mailed'[i] = 2 => Reason(i)'
    BY <1>3, <1>5 DEF AlarmsInv, MailedInv
  <2> QED
    BY <2>1, <2>2, <2>3, <2>4 DEF MailedInv
<1> QED
  BY <1>1, <1>6, <1>7, <1>8, <1>9, <1>11 DEF AlarmsInv

LEMMA DeleteStep == AlarmsInv /\ Delete => AlarmsInv'
<1> SUFFICES ASSUME AlarmsInv, Delete
             PROVE  AlarmsInv'
  OBVIOUS
<1>1. /\ apc = "delete" /\ list' = Tail(list)
      /\ apc' = IF Len(list) = 1 THEN "wait" ELSE "row"
      /\ UNCHANGED <<owned, alarm, tried, mailed, deaths, mailVars>>
  BY DEF Delete
<1>2. ASSUME NEW h \in Oldest(alarm[This].card), rows' = rows \ {h}, UNCHANGED failures
      PROVE  AlarmsInv'
  BY <1>1, <1>2, DeleteRow
<1>3. ASSUME Oldest(alarm[This].card) = {}
      PROVE  AlarmsInv'
  BY <1>1, <1>3, OldestFacts
<1>4. ASSUME Fails, UNCHANGED rows
      PROVE  AlarmsInv'
  BY <1>1, <1>4, DeleteFails
<1> QED
  BY <1>2, <1>3, <1>4 DEF Delete

-----------------------------------------------------------------------------
(* The theorems                                                            *)

LEMMA TokenStep == TokenInv /\ [Next]_vars => TokenInv'
<1> SUFFICES ASSUME TokenInv, [Next]_vars
             PROVE  TokenInv'
  OBVIOUS
<1>1. CASE UNCHANGED tokenVars
  BY <1>1, TokenReaderStep
<1>2. CASE PushStep \/ PushReturns \/ Restart
  BY <1>1, <1>2, TokenReaderStep DEF PushStep, PushReturns, Restart
<1>3. CASE TokenThread
  BY <1>3, TokenThreadStep DEF TokenThread
<1>4. CASE ~(PushStep \/ PushReturns \/ Restart \/ TokenThread)
  <2>1. UNCHANGED tokenVars
    BY <1>4 DEF Next, AlarmThread, vars, Raise, Select, SelectFails, FindOwner, MailStep,
                MailReturns, FindToken, Delete, Die
  <2> QED
    BY <1>1, <2>1
<1> QED
  BY <1>2, <1>3, <1>4

LEMMA AlarmsStep == AlarmsInv /\ [Next]_vars => AlarmsInv'
  BY RaiseStep, SelectStep, MailReturnsStep, DieStep, DeleteStep, QuietActions
     DEF Next, AlarmThread

LEMMA BackgroundAlways == Spec => []BackgroundInv
<1>1. Init => BackgroundInv
  BY TokenInit, AlarmsInit DEF Init, BackgroundInv
<1>2. BackgroundInv /\ [Next]_vars => BackgroundInv'
  BY TokenStep, AlarmsStep DEF BackgroundInv
<1> QED
  BY <1>1, <1>2, PTL DEF Spec

(* The variables have their types, and nobody dies of a mail that was not  *)
(* accepted.                                                               *)
THEOREM TypeCorrect == Spec => []TypeOK
<1>1. BackgroundInv => TypeOK
  BY DEF BackgroundInv, TokenInv, AlarmsInv, AlarmInv, ThreadInv, ListInv, TypeOK
<1> QED
  BY <1>1, BackgroundAlways, PTL

(* The token that WX_SendAlarmTemplateMsg formats into its request, if no  *)
(* copy was under way meanwhile, is the one last fetched.                  *)
THEOREM TokenReadIsNewestAlways == Spec => []TokenReadIsNewest
<1>1. BackgroundInv => TokenReadIsNewest
  BY DEF BackgroundInv, TokenInv, TokenReadIsNewest, Access!ReadIsNewest
<1> QED
  BY <1>1, BackgroundAlways, PTL

(* DELETE by card and time loses no alarm that is to be sent, but for one  *)
(* of the same time as another and one for each statement that failed.     *)
THEOREM TriedBeforeDeletedAlways == Spec => []TriedBeforeDeleted
<1>1. ASSUME BackgroundInv
      PROVE  TriedBeforeDeleted
  <2>1. AlarmsInv
    BY <1>1 DEF BackgroundInv
  <2>2. Untried \subseteq Skipped
    BY DEF Untried, Skipped, Deleted
  <2>3. /\ Cardinality(Untried) <= Cardinality(Skipped)
        /\ Cardinality(Untried) \in Nat /\ Cardinality(Skipped) \in Nat
    BY <2>1, <2>2, AlarmFacts, FS_Subset, FS_CardinalityType
  <2> QED
    BY <2>1, <2>3, AlarmFacts DEF AlarmsInv, SkippedInv, TriedBeforeDeleted
<1> QED
  BY <1>1, BackgroundAlways, PTL

(* The owner is mailed a second time of an alarm only if a statement       *)
(* failed, the process died, or an older row of the card, one not to be    *)
(* sent or of the time of another, was deleted in its place.               *)
THEOREM MailedAgainForReasonAlways == Spec => []MailedAgainForReason
<1>1. BackgroundInv => MailedAgainForReason
  BY DEF BackgroundInv, AlarmsInv, MailedInv, Reason, MailedAgainForReason
<1> QED
  BY <1>1, BackgroundAlways, PTL

=============================================================================
