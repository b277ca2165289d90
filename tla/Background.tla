----------------------------- MODULE Background -----------------------------
(***************************************************************************)
(* The two background threads of the server.  WX_CheckAlarmThread looks    *)
(* every 5 seconds for alarms that are to be sent, mails each to the owner *)
(* of its card (Mailer), pushes it to his WeChat account with the token    *)
(* that WX_GetTokenThread keeps fresh (AccessToken), and deletes a row for *)
(* it, whatever became of the mail (Email_Send_CardAlarmToUser).           *)
(*                                                                         *)
(* The rows are put into card_alarm by the program that talks to the       *)
(* devices, which is not here.  The process can die in the destructor of   *)
(* a mail; the table outlives it.                                          *)
(***************************************************************************)
EXTENDS Naturals, Sequences, FiniteSets, SequencesExt

CONSTANTS
  Card,
  MaxAlarms,     \* bound on the alarms raised
  MaxFailures,   \* bound on the statements that fail
  MaxDeaths      \* bound on the deaths of the process

ASSUME BackgroundAssumption ==
  /\ MaxAlarms \in Nat
  /\ MaxFailures \in Nat
  /\ MaxDeaths \in Nat

VARIABLES
  owned,     \* the cards that are in user_bike
  alarm,     \* the alarms raised so far: card, time, and the flag send
  rows,      \* those that are in card_alarm, by their card_id
  apc,       \* where WX_CheckAlarmThread is
  list,      \* the rows of its SELECT it has still to go through
  tried,     \* alarms that were mailed or found to have no owner
  mailed,    \* how often the mail of an alarm was accepted, twice at most
  failures,  \* statements that have failed
  deaths,    \* how often the process has died
  call, taken,                                    \* the mail
  tPc, tSignal, tLong, tFront, tBack,
  rPc, rGotFront, rGotBack, rDisturbed            \* the token

alarmVars == <<owned, alarm, rows, apc, list, tried, mailed, failures, deaths>>
mailVars  == <<call, taken>>
tokenVars == <<tPc, tSignal, tLong, tFront, tBack,
               rPc, rGotFront, rGotBack, rDisturbed>>
vars == <<alarmVars, mailVars, tokenVars>>

Mail == INSTANCE Mailer

Access == INSTANCE AccessToken WITH
          tpc <- tPc, signal <- tSignal, long <- tLong, front <- tFront,
          back <- tBack, rpc <- rPc, gotFront <- rGotFront,
          gotBack <- rGotBack, disturbed <- rDisturbed

Alarm == 1..Len(alarm)

Init ==
  /\ owned \in SUBSET Card
  /\ alarm = <<>> /\ rows = {}
  /\ apc = "wait" /\ list = <<>>
  /\ tried = {} /\ mailed = [i \in 1..MaxAlarms |-> 0]
  /\ failures = 0 /\ deaths = 0
  /\ Mail!Init /\ Access!Init

-----------------------------------------------------------------------------

(* The device server inserts a row, or sets its flag (external).  Times do *)
(* not decrease; two alarms may have the same.                             *)
Now == IF alarm = <<>> THEN 1 ELSE Last(alarm).time

Raise ==
  /\ Len(alarm) < MaxAlarms
  /\ \E c \in Card, send \in BOOLEAN, t \in {Now, Now + 1} :
       alarm' = Append(alarm, [card |-> c, time |-> t, send |-> send])
  /\ rows' = rows \cup {Len(alarm) + 1}
  /\ UNCHANGED <<owned, apc, list, tried, mailed, failures, deaths, mailVars, tokenVars>>

Fails == failures < MaxFailures /\ failures' = failures + 1

(* WaitForMultipleObjects times out.  SELECT ... WHERE send = 1 ORDER BY   *)
(* card_id: nothing found, or an error, ends the turn.                     *)
Due == {i \in rows : alarm[i].send}

InOrder(S) ==
  {l \in [1..Cardinality(S) -> S] :
     /\ \A a, b \in DOMAIN l : a < b => l[a] < l[b]
     /\ \A i \in S : \E a \in DOMAIN l : l[a] = i}

Select ==
  /\ apc = "wait"
  /\ Due # {}
  /\ apc'  = "row"
  /\ list' \in InOrder(Due)
  /\ UNCHANGED <<owned, alarm, rows, tried, mailed, failures, deaths, mailVars, tokenVars>>

SelectFails ==
  /\ apc = "wait"
  /\ Fails
  /\ UNCHANGED <<owned, alarm, rows, apc, list, tried, mailed, deaths, mailVars, tokenVars>>

This == Head(list)

(* Mutant: an error of the query ends the run, as if there were no alarms, *)
(* and the row it came to is gone.                                         *)
FindOwner_Dropped ==
  /\ apc = "row" /\ list # <<>>
  /\ \/ /\ alarm[This].card \in owned
        /\ apc' = "mail" /\ Mail!Start
        /\ UNCHANGED <<rows, tried>>
     \/ /\ alarm[This].card \notin owned
        /\ apc' = "delete" /\ rows' = rows \ {This}
        /\ UNCHANGED <<tried, mailVars>>
  /\ UNCHANGED <<owned, alarm, list, mailed, failures, deaths, tokenVars>>

(* SELECT from user_bike by card: with an owner a mail is begun.  (The      *)
(* return -5 is not reached: the email of the row is a string whatever the *)
(* column holds, getNullStr.)                                              *)
FindOwner ==
  /\ apc = "row" /\ list # <<>>
  /\ \/ /\ alarm[This].card \in owned
        /\ apc' = "mail" /\ Mail!Start
        /\ UNCHANGED <<failures, tried>>
     \/ /\ alarm[This].card \notin owned
        /\ apc' = "delete" /\ tried' = tried \cup {This}
        /\ UNCHANGED <<failures, mailVars>>
     \/ /\ Fails
        /\ apc' = "delete"
        /\ UNCHANGED <<tried, mailVars>>
  /\ UNCHANGED <<owned, alarm, rows, list, mailed, deaths, tokenVars>>

MailStep ==
  /\ apc = "mail"
  /\ Mail!Accept \/ Mail!Return \/ Mail!Die
  /\ UNCHANGED <<alarmVars, tokenVars>>

CountMail == mailed' = IF taken /\ mailed[This] < 2
                         THEN [mailed EXCEPT ![This] = @ + 1] ELSE mailed

(* Email_SMTP_send_simple has returned 0, as it always does.               *)
MailReturns ==
  /\ apc = "mail" /\ call = "returned"
  /\ apc' = "token"
  /\ tried' = tried \cup {This}
  /\ CountMail /\ Mail!Clear
  /\ UNCHANGED <<owned, alarm, rows, list, failures, deaths, tokenVars>>

(* An exception left the destructor: the process ends, and is started      *)
(* again or not.                                                           *)
Die ==
  /\ apc = "mail" /\ call = "died"
  /\ deaths < MaxDeaths
  /\ deaths' = deaths + 1
  /\ apc' = "down" /\ list' = <<>>
  /\ tried' = tried \cup {This}
  /\ CountMail /\ Mail!Clear
  /\ UNCHANGED <<owned, alarm, rows, failures, tokenVars>>

Restart ==
  /\ apc = "down"
  /\ apc' = "wait"
  /\ Access!Reset
  /\ UNCHANGED <<owned, alarm, rows, list, tried, mailed, failures, deaths, mailVars>>

(* SELECT token from weixin_user: a push, or none.                         *)
FindToken ==
  /\ apc = "token"
  /\ \/ apc' = "push" /\ UNCHANGED failures
     \/ apc' = "delete" /\ UNCHANGED failures
     \/ apc' = "delete" /\ Fails
  /\ UNCHANGED <<owned, alarm, rows, list, tried, mailed, deaths, mailVars, tokenVars>>

(* WX_SendAlarmTemplateMsg: a connection that fails returns before the     *)
(* token is read; every result is ignored.                                 *)
PushStep ==
  /\ apc = "push"
  /\ Access!Reader
  /\ UNCHANGED <<alarmVars, mailVars>>

PushReturns ==
  /\ apc = "push"
  /\ apc' = "delete"
  /\ Access!Sent \/ (rPc = "idle" /\ UNCHANGED tokenVars)
  /\ UNCHANGED <<owned, alarm, rows, list, tried, mailed, failures, deaths, mailVars>>

(* DELETE from card_alarm, by card and not by row: the oldest of the card, *)
(* any of those if several are of the same time.                           *)
Oldest(c) ==
  {i \in rows : /\ alarm[i].card = c
                /\ \A j \in rows : alarm[j].card = c => alarm[i].time <= alarm[j].time}

(* Mutant: the row is deleted whenever its mail has been accepted.         *)
Delete_IfMailed ==
  /\ apc = "delete"
  /\ \/ \E i \in Oldest(alarm[This].card) :
          rows' = IF mailed[This] > 0 THEN rows \ {i} ELSE rows
     \/ Oldest(alarm[This].card) = {} /\ UNCHANGED rows
  /\ apc'  = IF Len(list) = 1 THEN "wait" ELSE "row"
  /\ list' = Tail(list)
  /\ UNCHANGED <<owned, alarm, tried, mailed, failures, deaths, mailVars, tokenVars>>

(* Mutant: ORDER BY time DESC.                                             *)
Delete_Newest ==
  /\ apc = "delete"
  /\ \E i \in rows :
       /\ alarm[i].card = alarm[This].card
       /\ \A j \in rows : alarm[j].card = alarm[This].card => alarm[j].time <= alarm[i].time
       /\ rows' = rows \ {i}
  /\ apc'  = IF Len(list) = 1 THEN "wait" ELSE "row"
  /\ list' = Tail(list)
  /\ UNCHANGED <<owned, alarm, tried, mailed, failures, deaths, mailVars, tokenVars>>

(* Mutant: the last row of the SELECT is never gone through.               *)
Delete_NoEnd ==
  /\ apc = "delete"
  /\ \E i \in Oldest(alarm[This].card) : rows' = rows \ {i}
  /\ apc'  = "row"
  /\ list' = Tail(list)
  /\ UNCHANGED <<owned, alarm, tried, mailed, failures, deaths, mailVars, tokenVars>>

Delete ==
  /\ apc = "delete"
  /\ \/ /\ \E i \in Oldest(alarm[This].card) : rows' = rows \ {i}
        /\ UNCHANGED failures
     \/ /\ Oldest(alarm[This].card) = {}
        /\ UNCHANGED <<rows, failures>>
     \/ Fails /\ UNCHANGED rows
  /\ apc'  = IF Len(list) = 1 THEN "wait" ELSE "row"
  /\ list' = Tail(list)
  /\ UNCHANGED <<owned, alarm, tried, mailed, deaths, mailVars, tokenVars>>

AlarmThread ==
  \/ Select \/ SelectFails \/ FindOwner \/ MailStep \/ MailReturns
  \/ FindToken \/ PushStep \/ PushReturns \/ Delete

TokenThread ==
  /\ apc # "down" /\ call # "died"
  /\ Access!Thread
  /\ UNCHANGED <<alarmVars, mailVars>>

Next == Raise \/ AlarmThread \/ Die \/ Restart \/ TokenThread

Spec == Init /\ [][Next]_vars

(* What the alarm thread can do without an answer from another it does in  *)
(* the end.  Nothing is assumed of the mail and of the push: the mail      *)
(* server can hold the one (see MailSession), and the other waits in recv  *)
(* without a timeout (TestTask.cpp:6163).                                  *)
AlarmThreadAlone ==
  \/ Select \/ FindOwner \/ MailReturns
  \/ FindToken \/ PushStep \/ Delete

FairSpec == Spec /\ WF_vars(AlarmThreadAlone)

-----------------------------------------------------------------------------

TypeOK ==
  /\ owned \subseteq Card
  /\ alarm \in Seq([card : Card, time : 1..(MaxAlarms + 1), send : BOOLEAN])
  /\ Len(alarm) <= MaxAlarms
  /\ rows \subseteq Alarm /\ tried \subseteq Alarm
  /\ apc \in {"wait", "row", "mail", "token", "push", "delete", "down"}
  /\ list \in Seq(Alarm)
  /\ (list # <<>>) = (apc \notin {"wait", "down"})
  /\ mailed \in [1..MaxAlarms -> 0..2]
  /\ failures \in 0..MaxFailures /\ deaths \in 0..MaxDeaths
  /\ Mail!TypeOK /\ Mail!DeadWereTaken
  /\ Access!TypeOK

Deleted == Alarm \ rows

Tied(i) == \E j \in Alarm \ {i} : alarm[j].card = alarm[i].card
                                  /\ alarm[j].time = alarm[i].time

(* DELETE does not name the row that was gone through, but no alarm to be  *)
(* sent is lost by it: an alarm is deleted untried only if it has the same *)
(* time as another of its card, or if a statement failed for it.           *)
Untried == {i \in Deleted \ tried : alarm[i].send /\ ~Tied(i)}

TriedBeforeDeleted == Cardinality(Untried) <= failures

(* The owner gets two mails of one alarm only for a reason: a statement    *)
(* failed, the process died, or another row of the card was deleted in its *)
(* place, one that was not to be sent or one of the same time.             *)
MailedAgainForReason ==
  \A i \in Alarm : mailed[i] = 2 =>
    \/ failures > 0
    \/ deaths > 0
    \/ \E j \in Deleted \ {i} :
         /\ alarm[j].card = alarm[i].card /\ alarm[j].time <= alarm[i].time
         /\ alarm[j].send => Tied(j)

(* The comment on DELETE: "delete the alarm list entries that have been    *)
(* pushed" (TestTask.cpp:6571).                                            *)
OnlyPushedAlarmsDeleted == Deleted \subseteq tried

Dead == apc = "down" \/ call = "died"

(* An alarm that is to be sent leaves the table, unless the process dies,  *)
(* or the thread never comes back from one mail or from one push.          *)
EveryAlarmGoes ==
  \/ \A i \in 1..MaxAlarms :
       (i \in rows /\ alarm[i].send) ~> (i \notin rows \/ Dead)
  \/ <>[](call = "running")
  \/ <>[](apc = "push")

(* AccessToken's property, here of the push.                               *)
TokenReadIsNewest == Access!ReadIsNewest
=============================================================================
