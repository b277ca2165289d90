----------------------------- MODULE ThreadPool -----------------------------
(***************************************************************************)
(* CMyThreadPool (MyThreadPool.cpp) with its threads (MyThread.cpp), its   *)
(* task queue (MyQueue.cpp), its stack of idle threads (MyStack.cpp) and   *)
(* its list of active threads (MyList.cpp).                                *)
(*                                                                         *)
(* Each of the three containers has a critical section of its own, so one  *)
(* container operation is one step, and nothing but the order of steps     *)
(* protects a sequence of them.  The callers of addTask hold a common lock *)
(* for the whole call (m_RECdataLock for the work pool, SocketTCP.cpp:413; *)
(* mSaveDataLock for the save pool, TestTask.cpp:4078), and the task body  *)
(* takes the same lock for a while (TestTask.cpp:4113, 3975).              *)
(* SwitchActiveThread runs without it.                                     *)
(*                                                                         *)
(* No caller passes HIGH and nobody calls destroyThreadPool, so pushFront  *)
(* and m_bIsExit have no part here.                                        *)
(***************************************************************************)
EXTENDS Naturals, Sequences

CONSTANTS
  NumThreads,   \* the num of Creat{Work,Save}DataThread(num)
  Caller,       \* the threads that call addTask
  Free,         \* the owner of a lock nobody holds
  MaxCalls      \* bound on the number of addTask calls

Thread == 1..NumThreads
NULL   == 0           \* the null CTask* / CMyThread*
Task   == Nat \ {0}   \* a task is named by the addTask call that queued it

ASSUME ThreadPoolAssumption ==
  /\ NumThreads \in Nat \ {0}
  /\ MaxCalls \in Nat
  /\ Caller \cap Thread = {}
  /\ Free \notin Caller \cup Thread

VARIABLES
  submitted,    \* addTask calls that have pushed their task
  done,         \* tasks whose body has returned
  lock,         \* owner of the callers' CRITICAL_SECTION
  taskq,        \* m_TaskQueue
  idle,         \* m_IdleThreadStack, its top first
  active,       \* m_ActiveThreadList
  mTask,        \* m_pTask of each thread
  event,        \* m_hEvent of each thread: auto-reset, initially not signalled
  tpc,          \* where each thread is
  hand,         \* pTask, local to SwitchActiveThread
  cpc,          \* where each caller is in addTask
  chand,        \* task, local to addTask
  cthread,      \* pThread, local to addTask
  halted        \* an assert has failed: no build defines NDEBUG

vars == <<submitted, done, lock, taskq, idle, active, mTask, event, tpc, hand,
          cpc, chand, cthread, halted>>

callerVars == <<cpc, chand, cthread>>
threadVars == <<tpc, hand>>

(* CreatWorkDataThread / CreatSaveDataThread has pushed every thread, and  *)
(* each has reached its first WaitForSingleObject.                         *)
Init ==
  /\ submitted = 0
  /\ done      = {}
  /\ lock      = Free
  /\ taskq     = <<>>
  /\ idle      = [i \in 1..NumThreads |-> NumThreads + 1 - i]
  /\ active    = {}
  /\ mTask     = [t \in Thread |-> NULL]
  /\ event     = [t \in Thread |-> FALSE]
  /\ tpc       = [t \in Thread |-> "wait"]
  /\ hand      = [t \in Thread |-> NULL]
  /\ cpc       = [k \in Caller |-> "out"]
  /\ chand     = [k \in Caller |-> NULL]
  /\ cthread   = [k \in Caller |-> NULL]
  /\ halted    = FALSE

(* An aborted process takes no step.                                       *)
CallerGoes(k, from, to) ==
  ~halted /\ cpc[k] = from /\ cpc' = [cpc EXCEPT ![k] = to]
ThreadGoes(t, from, to) ==
  ~halted /\ tpc[t] = from /\ tpc' = [tpc EXCEPT ![t] = to]

-----------------------------------------------------------------------------
(* addTask, by a caller that first enters the callers' critical section    *)

(* Mutant: the caller does not wait for the critical section.              *)
EnterLock_NoWait(k) ==
  /\ CallerGoes(k, "out", "push")
  /\ submitted < MaxCalls
  /\ lock' = k
  /\ UNCHANGED <<submitted, done, taskq, idle, active, mTask, event, threadVars,
                 chand, cthread, halted>>

EnterLock(k) ==
  /\ CallerGoes(k, "out", "push")
  /\ lock = Free
  /\ submitted < MaxCalls
  /\ lock' = k
  /\ UNCHANGED <<submitted, done, taskq, idle, active, mTask, event, threadVars,
                 chand, cthread, halted>>

(* Mutants: the call is not counted before it names its task; and the task *)
(* goes to the front of the queue, as pushFront does for HIGH.             *)
PushTask_Uncounted(k) ==
  /\ CallerGoes(k, "push", "checkIdle")
  /\ submitted' = submitted + 1
  /\ taskq'     = Append(taskq, submitted)
  /\ UNCHANGED <<done, lock, idle, active, mTask, event, threadVars, chand,
                 cthread, halted>>
PushTask_Front(k) ==
  /\ CallerGoes(k, "push", "checkIdle")
  /\ submitted' = submitted + 1
  /\ taskq'     = <<submitted + 1>> \o taskq
  /\ UNCHANGED <<done, lock, idle, active, mTask, event, threadVars, chand,
                 cthread, halted>>

(* m_TaskQueue.push(t)                                                     *)
PushTask(k) ==
  /\ CallerGoes(k, "push", "checkIdle")
  /\ submitted' = submitted + 1
  /\ taskq'     = Append(taskq, submitted + 1)
  /\ UNCHANGED <<done, lock, idle, active, mTask, event, threadVars, chand,
                 cthread, halted>>

(* if(!m_IdleThreadStack.isEmpty())                                        *)
CheckIdle(k) ==
  /\ CallerGoes(k, "checkIdle", IF idle = <<>> THEN "leave" ELSE "popTask")
  /\ UNCHANGED <<submitted, done, lock, taskq, idle, active, mTask, event,
                 threadVars, chand, cthread, halted>>

(* task = m_TaskQueue.pop(): NULL when a finishing thread has taken it.    *)
PopTask(k) ==
  /\ CallerGoes(k, "popTask", IF taskq = <<>> THEN "leave" ELSE "popIdle")
  /\ IF taskq = <<>>
     THEN UNCHANGED <<taskq, chand>>
     ELSE /\ taskq' = Tail(taskq)
          /\ chand' = [chand EXCEPT ![k] = Head(taskq)]
  /\ UNCHANGED <<submitted, done, lock, idle, active, mTask, event, threadVars,
                 cthread, halted>>

(* PopIdleThread()                                                         *)
PopIdle(k) ==
  /\ CallerGoes(k, "popIdle", "listAdd")
  /\ IF idle = <<>>
     THEN UNCHANGED <<idle, cthread>>
     ELSE /\ idle'    = Tail(idle)
          /\ cthread' = [cthread EXCEPT ![k] = Head(idle)]
  /\ UNCHANGED <<submitted, done, lock, taskq, active, mTask, event, threadVars,
                 chand, halted>>

(* m_ActiveThreadList.addThread(pThread), which asserts pThread.           *)
ListAdd(k) ==
  /\ CallerGoes(k, "listAdd", "assign")
  /\ halted' = (cthread[k] = NULL)
  /\ active' = active \cup ({cthread[k]} \ {NULL})
  /\ UNCHANGED <<submitted, done, lock, taskq, idle, mTask, event, threadVars,
                 chand, cthread>>

(* pThread->assignTask(task)                                               *)
Assign(k) ==
  /\ CallerGoes(k, "assign", "signal")
  /\ mTask' = [mTask EXCEPT ![cthread[k]] = chand[k]]
  /\ chand' = [chand EXCEPT ![k] = NULL]
  /\ UNCHANGED <<submitted, done, lock, taskq, idle, active, event, threadVars,
                 cthread, halted>>

(* Mutant: ResetEvent (suspendThread) in the place of SetEvent.            *)
Signal_Reset(k) ==
  /\ CallerGoes(k, "signal", "leave")
  /\ event'   = [event EXCEPT ![cthread[k]] = FALSE]
  /\ cthread' = [cthread EXCEPT ![k] = NULL]
  /\ UNCHANGED <<submitted, done, lock, taskq, idle, active, mTask, threadVars,
                 chand, halted>>

(* pThread->startTask()                                                    *)
Signal(k) ==
  /\ CallerGoes(k, "signal", "leave")
  /\ event'   = [event EXCEPT ![cthread[k]] = TRUE]
  /\ cthread' = [cthread EXCEPT ![k] = NULL]
  /\ UNCHANGED <<submitted, done, lock, taskq, idle, active, mTask, threadVars,
                 chand, halted>>

LeaveLock(k) ==
  /\ CallerGoes(k, "leave", "out")
  /\ lock' = Free
  /\ UNCHANGED <<submitted, done, taskq, idle, active, mTask, event, threadVars,
                 chand, cthread, halted>>

-----------------------------------------------------------------------------
(* threadProc / SaveDatathreadProc and SwitchActiveThread                  *)

(* WaitForSingleObject returns and resets the event; without a task the    *)
(* thread waits again.                                                     *)
Wake(t) ==
  /\ event[t]
  /\ ThreadGoes(t, "wait", IF mTask[t] = NULL THEN "wait" ELSE "body")
  /\ event' = [event EXCEPT ![t] = FALSE]
  /\ UNCHANGED <<submitted, done, lock, taskq, idle, active, mTask, hand,
                 callerVars, halted>>

(* The task body enters the callers' critical section ...                  *)
BodyEnterLock(t) ==
  /\ ThreadGoes(t, "body", "locked")
  /\ lock = Free
  /\ lock' = t
  /\ UNCHANGED <<submitted, done, taskq, idle, active, mTask, event, hand,
                 callerVars, halted>>

(* ... and leaves it before its long part.                                 *)
BodyLeaveLock(t) ==
  /\ ThreadGoes(t, "locked", "tail")
  /\ lock' = Free
  /\ UNCHANGED <<submitted, done, taskq, idle, active, mTask, event, hand,
                 callerVars, halted>>

(* Mutant: m_pTask keeps the task that was run.                            *)
FinishTask_KeepsTask(t) ==
  /\ ThreadGoes(t, "tail", "checkQueue")
  /\ done' = done \cup {mTask[t]}
  /\ UNCHANGED <<submitted, lock, taskq, idle, active, mTask, event, hand,
                 callerVars, halted>>

(* The body returns, m_pTask = NULL.                                       *)
FinishTask(t) ==
  /\ ThreadGoes(t, "tail", "checkQueue")
  /\ done'  = done \cup {mTask[t]}
  /\ mTask' = [mTask EXCEPT ![t] = NULL]
  /\ UNCHANGED <<submitted, lock, taskq, idle, active, event, hand, callerVars,
                 halted>>

(* Mutant: a finishing thread never looks at the queue.                    *)
CheckQueue_AlwaysParks(t) ==
  /\ ThreadGoes(t, "checkQueue", "listRemove")
  /\ UNCHANGED <<submitted, done, lock, taskq, idle, active, mTask, event, hand,
                 callerVars, halted>>

(* if(!m_TaskQueue.isEmpty())                                              *)
CheckQueue(t) ==
  /\ ThreadGoes(t, "checkQueue", IF taskq = <<>> THEN "listRemove" ELSE "popTask")
  /\ UNCHANGED <<submitted, done, lock, taskq, idle, active, mTask, event, hand,
                 callerVars, halted>>

(* pTask = m_TaskQueue.pop(): NULL when somebody else has emptied it.      *)
TakeTask(t) ==
  /\ ThreadGoes(t, "popTask", "assign")
  /\ IF taskq = <<>>
     THEN UNCHANGED <<taskq, hand>>
     ELSE /\ taskq' = Tail(taskq)
          /\ hand'  = [hand EXCEPT ![t] = Head(taskq)]
  /\ UNCHANGED <<submitted, done, lock, idle, active, mTask, event, callerVars,
                 halted>>

(* t->assignTask(pTask), which asserts pTask, and t->startTask(): nobody   *)
(* else touches this thread's task or event meanwhile.                     *)
AssignSelf(t) ==
  /\ ThreadGoes(t, "assign", IF hand[t] = NULL THEN "assign" ELSE "wait")
  /\ halted' = (hand[t] = NULL)
  /\ mTask'  = [mTask EXCEPT ![t] = hand[t]]
  /\ event'  = [event EXCEPT ![t] = (hand[t] # NULL)]
  /\ hand'   = [hand EXCEPT ![t] = NULL]
  /\ UNCHANGED <<submitted, done, lock, taskq, idle, active, callerVars>>

(* Mutant: the thread parks without leaving the active list.               *)
ListRemove_Forgotten(t) ==
  /\ ThreadGoes(t, "listRemove", "park")
  /\ UNCHANGED <<submitted, done, lock, taskq, idle, active, mTask, event, hand,
                 callerVars, halted>>

(* m_ActiveThreadList.removeThread(t)                                      *)
ListRemove(t) ==
  /\ ThreadGoes(t, "listRemove", "park")
  /\ active' = active \ {t}
  /\ UNCHANGED <<submitted, done, lock, taskq, idle, mTask, event, hand,
                 callerVars, halted>>

(* m_IdleThreadStack.push(t), and back to WaitForSingleObject.             *)
Park(t) ==
  /\ ThreadGoes(t, "park", "wait")
  /\ idle' = <<t>> \o idle
  /\ UNCHANGED <<submitted, done, lock, taskq, active, mTask, event, hand,
                 callerVars, halted>>

-----------------------------------------------------------------------------

AddTaskStep(k) ==
  \/ PushTask(k) \/ CheckIdle(k) \/ PopTask(k) \/ PopIdle(k)
  \/ ListAdd(k)  \/ Assign(k)    \/ Signal(k)  \/ LeaveLock(k)

ThreadStep(t) ==
  \/ Wake(t) \/ BodyEnterLock(t) \/ BodyLeaveLock(t) \/ FinishTask(t)
  \/ CheckQueue(t) \/ TakeTask(t) \/ AssignSelf(t) \/ ListRemove(t) \/ Park(t)

(* A parked thread: waiting, and not yet told of a task.                   *)
Parked(t)  == tpc[t] = "wait" /\ ~event[t] /\ mTask[t] = NULL
Quiet      == (\A t \in Thread : Parked(t)) /\ (\A k \in Caller : cpc[k] = "out")

(* The process has aborted, or it waits for a call the bound rules out.    *)
Stopped ==
  /\ halted \/ (submitted = MaxCalls /\ Quiet)
  /\ UNCHANGED vars

Next ==
  \/ \E k \in Caller : EnterLock(k) \/ AddTaskStep(k)
  \/ \E t \in Thread : ThreadStep(t)
  \/ Stopped

Spec == Init /\ [][Next]_vars

(* Windows runs every ready thread in the end.  A CRITICAL_SECTION is not  *)
(* handed over in order, but MaxCalls bounds how often it is taken ahead   *)
(* of a thread that waits, so weak fairness of the entering step is        *)
(* enough.  That clients go on sending is an assumption about them.        *)
CallerFairness == \A k \in Caller :
  WF_vars(EnterLock(k)) /\ WF_vars(AddTaskStep(k))
ThreadFairness == \A t \in Thread : WF_vars(ThreadStep(t))

FairSpec == Spec /\ CallerFairness /\ ThreadFairness

-----------------------------------------------------------------------------
(* Properties                                                              *)

CallerPC == {"out", "push", "checkIdle", "popTask", "popIdle", "listAdd",
             "assign", "signal", "leave"}
ThreadPC == {"wait", "body", "locked", "tail", "checkQueue", "popTask",
             "assign", "listRemove", "park"}

(* The type of every variable.                                             *)
TypeOK ==
  /\ submitted \in Nat
  /\ done      \in SUBSET Nat
  /\ lock      \in Caller \cup Thread \cup {Free}
  /\ taskq     \in Seq(Task)
  /\ idle      \in Seq(Thread)
  /\ active    \in SUBSET Thread
  /\ mTask     \in [Thread -> Task \cup {NULL}]
  /\ event     \in [Thread -> BOOLEAN]
  /\ tpc       \in [Thread -> ThreadPC]
  /\ hand      \in [Thread -> Task \cup {NULL}]
  /\ cpc       \in [Caller -> CallerPC]
  /\ chand     \in [Caller -> Task \cup {NULL}]
  /\ cthread   \in [Caller -> Thread \cup {NULL}]
  /\ halted    \in BOOLEAN

(* A task taken from the queue and not yet begun: in a caller's hands, in  *)
(* a finishing thread's hands, or assigned to a thread about to wake.      *)
Dispatched ==
  {chand[k] : k \in Caller} \cup {hand[t] : t \in Thread}
    \cup {mTask[t] : t \in {u \in Thread : tpc[u] = "wait"}}

(* The task whose body thread t is executing.                              *)
Running ==
  [t \in Thread |-> IF tpc[t] \in {"body", "locked", "tail"} THEN mTask[t] ELSE NULL]

Pool == INSTANCE TaskPool WITH dispatched <- Dispatched \ {NULL}, running <- Running

(* The pool with its containers, events and locks does what TaskPool says: *)
(* tasks leave in order and each is begun and finished once.               *)
ImplementsTaskPool == Pool!Spec

(* Every addTask call is in exactly one place, whichever way its task went *)
(* (handed to an idle thread by addTask, or taken by a finishing thread):  *)
(* none is dropped and none runs twice.                                    *)
TaskInOnePlace == Pool!ExactlyOnePlace

(* The thread addTask has popped from the idle stack exists (what addThread*)
(* asserts, MyList.cpp:15) and is really parked: assignTask never replaces *)
(* a task not yet run, and startTask wakes nobody who is already working.  *)
(* It needs the callers' lock (isEmpty and pop are two critical sections)  *)
(* and the order m_pTask = NULL, removeThread, push in the thread.         *)
PoppedThreadIsParked ==
  \A k \in Caller :
    cpc[k] \in {"listAdd", "assign"} => cthread[k] \in Thread /\ Parked(cthread[k])

(* Every thread is exactly one of: on the idle stack, once; popped by an   *)
(* addTask call that has not signalled it yet; or told of a task and on    *)
(* its way, in which case it is on the active list until it leaves it to   *)
(* park.  No thread drops out of the pool.                                 *)
OnStack(t) == \E i \in 1..Len(idle) : idle[i] = t
Popped(t)  == \E k \in Caller : cthread[k] = t
Busy(t)    == event[t] \/ tpc[t] # "wait"

AccountedFor(t) ==
  /\ OnStack(t) => ~Popped(t) /\ ~Busy(t) /\ t \notin active
  /\ Popped(t)  => ~Busy(t)
  /\ Busy(t)    => (t \in active <=> tpc[t] # "park")
  /\ OnStack(t) \/ Popped(t) \/ Busy(t)

ThreadAccounted ==
  /\ \A i, j \in 1..Len(idle) : idle[i] = idle[j] => i = j
  /\ \A k, l \in Caller : cthread[k] = cthread[l] => k = l \/ cthread[k] = NULL
  /\ \A t \in Thread : AccountedFor(t)

(* A backlog that was left behind while every thread parked is worked off  *)
(* completely once another call arrives: the thread that call wakes takes  *)
(* tasks until it finds the queue empty.                                   *)
BacklogDrains ==
  \A n \in 1..MaxCalls :
    (Quiet /\ n \in Pool!Queued /\ submitted < MaxCalls) ~> (n \in done \/ halted)

(* A task is run in the end unless the process aborts or every thread has  *)
(* parked beside a queue that still holds it.                              *)
RunOrLeftBehind ==
  \A n \in 1..MaxCalls :
    (submitted >= n) ~> (n \in done \/ halted \/ (Quiet /\ n \in Pool!Queued))

(* MyThread.cpp:128, assert(pTask): a finishing thread that found the      *)
(* queue not empty gets a task from it.                                    *)
AssignTaskAssert == \A t \in Thread : tpc[t] = "assign" => hand[t] # NULL
=============================================================================
