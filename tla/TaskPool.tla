------------------------------ MODULE TaskPool ------------------------------
(***************************************************************************)
(* What a CMyThreadPool promises its callers, with none of the stacks,     *)
(* lists, events and locks it is built from.  A task is handed in with     *)
(* addTask, leaves the queue in the order it entered, is then owned by one *)
(* thread, and is run to its end once.  Every task of this program is the  *)
(* same CTestTask object, so a task is named by the number of the addTask  *)
(* call that queued it: "the task queue really stores how many times the   *)
(* task must be executed" (TestTask.cpp:4088).                             *)
(*                                                                         *)
(* Nothing here says that a queued task is ever dispatched: the code does  *)
(* not promise it (see ThreadPool, RunOrLeftBehind).                       *)
(***************************************************************************)
EXTENDS Naturals, Sequences

CONSTANTS
  NumThreads,   \* threads created by Creat{Work,Save}DataThread(num)
  MaxCalls      \* bound on the number of addTask calls

Thread == 1..NumThreads
NULL   == 0           \* the null CTask* / CMyThread*
Task   == Nat \ {0}

VARIABLES
  submitted,    \* number of tasks handed in so far
  taskq,        \* m_TaskQueue
  dispatched,   \* tasks taken off the queue and not yet begun
  running,      \* task each thread is executing, or NULL
  done          \* tasks executed to the end

vars == <<submitted, taskq, dispatched, running, done>>

Init ==
  /\ submitted  = 0
  /\ taskq      = <<>>
  /\ dispatched = {}
  /\ running    = [t \in Thread |-> NULL]
  /\ done       = {}

(* addTask(t, NORMAL) queues one execution.                                *)
Submit ==
  /\ submitted < MaxCalls
  /\ submitted' = submitted + 1
  /\ taskq'     = Append(taskq, submitted + 1)
  /\ UNCHANGED <<dispatched, running, done>>

(* The oldest queued task leaves the queue, for some thread to run it.     *)
Dispatch ==
  /\ taskq # <<>>
  /\ taskq'      = Tail(taskq)
  /\ dispatched' = dispatched \cup {Head(taskq)}
  /\ UNCHANGED <<submitted, running, done>>

(* Thread t wakes up and starts a task dispatched to it.                   *)
Begin(t) ==
  /\ running[t] = NULL
  /\ \E n \in dispatched :
       /\ running'    = [running EXCEPT ![t] = n]
       /\ dispatched' = dispatched \ {n}
  /\ UNCHANGED <<submitted, taskq, done>>

(* The task body returns.                                                  *)
Finish(t) ==
  /\ running[t] # NULL
  /\ done'    = done \cup {running[t]}
  /\ running' = [running EXCEPT ![t] = NULL]
  /\ UNCHANGED <<submitted, taskq, dispatched>>

Next ==
  \/ Submit
  \/ Dispatch
  \/ \E t \in Thread : Begin(t) \/ Finish(t)

Spec == Init /\ [][Next]_vars

-----------------------------------------------------------------------------

TypeOK ==
  /\ submitted  \in Nat
  /\ taskq      \in Seq(Task)
  /\ dispatched \in SUBSET Task
  /\ running    \in [Thread -> Task \cup {NULL}]
  /\ done       \in SUBSET Task

Queued == {taskq[i] : i \in 1..Len(taskq)}

(* The queue holds the newest calls, oldest first and without a gap: tasks *)
(* leave it in the order of the addTask calls (push_back and pop_front).   *)
FifoQueue ==
  \A i \in 1..Len(taskq) : taskq[i] = submitted - Len(taskq) + i

(* Every accepted call is in exactly one place: queued, dispatched, being  *)
(* executed by exactly one thread, or done.  No execution is lost and none *)
(* happens twice, although all calls queue the same object.                *)
ExactlyOnePlace ==
  \A n \in 1..submitted :
    /\ n \in Queued => n \notin dispatched \cup done /\ \A t \in Thread : running[t] # n
    /\ n \in dispatched => n \notin done /\ \A t \in Thread : running[t] # n
    /\ \A t \in Thread :
         running[t] = n => n \notin done /\ \A u \in Thread \ {t} : running[u] # n
    /\ n \in Queued \cup dispatched \cup done \cup {running[t] : t \in Thread}
=============================================================================
