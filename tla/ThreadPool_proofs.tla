------------------------- MODULE ThreadPool_proofs -------------------------
(***************************************************************************)
(* Proofs about ThreadPool, for any number of threads, callers and calls.  *)
(***************************************************************************)
EXTENDS ThreadPool, SequenceTheorems, TLAPS

-----------------------------------------------------------------------------
(* Type correctness                                                        *)

(* Every variable keeps its type (CMyThreadPool, MyThreadPool.cpp:76-126   *)
(* and the thread procedures, MyThread.cpp:67-123).                        *)
LEMMA TypeInductive == TypeOK /\ [Next]_vars => TypeOK'
<1> SUFFICES ASSUME TypeOK, [Next]_vars
             PROVE  TypeOK'
  OBVIOUS
<1> USE ThreadPoolAssumption DEF TypeOK, CallerPC, ThreadPC, CallerGoes, ThreadGoes,
        threadVars, callerVars
<1>1. ASSUME NEW k \in Caller, EnterLock(k)
      PROVE  TypeOK'
  BY <1>1 DEF EnterLock
<1>2. ASSUME NEW k \in Caller, PushTask(k)
      PROVE  TypeOK'
  BY <1>2 DEF PushTask, Task
<1>3. ASSUME NEW k \in Caller, CheckIdle(k)
      PROVE  TypeOK'
  BY <1>3 DEF CheckIdle
<1>4. ASSUME NEW k \in Caller, PopTask(k)
      PROVE  TypeOK'
  <2>1. CASE taskq = <<>>
    BY <1>4, <2>1 DEF PopTask
  <2>2. CASE taskq # <<>>
    <3>1. Head(taskq) \in Task /\ Tail(taskq) \in Seq(Task)
      BY <2>2, HeadTailProperties
    <3>2. taskq' = Tail(taskq) /\ chand' = [chand EXCEPT ![k] = Head(taskq)]
      BY <1>4, <2>2 DEF PopTask
    <3>3. taskq' \in Seq(Task) /\ chand' \in [Caller -> Task \cup {NULL}]
      BY <3>1, <3>2
    <3>4. QED
      BY <1>4, <3>3 DEF PopTask
  <2>3. QED
    BY <2>1, <2>2
<1>5. ASSUME NEW k \in Caller, PopIdle(k)
      PROVE  TypeOK'
  <2>1. CASE idle = <<>>
    BY <1>5, <2>1 DEF PopIdle
  <2>2. CASE idle # <<>>
    <3>1. Head(idle) \in Thread /\ Tail(idle) \in Seq(Thread)
      BY <2>2, HeadTailProperties
    <3>2. idle' = Tail(idle) /\ cthread' = [cthread EXCEPT ![k] = Head(idle)]
      BY <1>5, <2>2 DEF PopIdle
    <3>3. idle' \in Seq(Thread)
      BY <3>1, <3>2
    <3>4. cthread' \in [Caller -> Thread \cup {NULL}]
      BY <3>1, <3>2
    <3>5. QED
      BY <1>5, <3>3, <3>4 DEF PopIdle
  <2>3. QED
    BY <2>1, <2>2
<1>6. ASSUME NEW k \in Caller, ListAdd(k)
      PROVE  TypeOK'
  BY <1>6 DEF ListAdd
<1>7. ASSUME NEW k \in Caller, Assign(k)
      PROVE  TypeOK'
  BY <1>7 DEF Assign
<1>8. ASSUME NEW k \in Caller, Signal(k)
      PROVE  TypeOK'
  BY <1>8 DEF Signal
<1>9. ASSUME NEW k \in Caller, LeaveLock(k)
      PROVE  TypeOK'
  BY <1>9 DEF LeaveLock
<1>10. ASSUME NEW t \in Thread, Wake(t)
       PROVE  TypeOK'
  BY <1>10 DEF Wake
<1>11. ASSUME NEW t \in Thread, BodyEnterLock(t)
       PROVE  TypeOK'
  BY <1>11 DEF BodyEnterLock
<1>12. ASSUME NEW t \in Thread, BodyLeaveLock(t)
       PROVE  TypeOK'
  BY <1>12 DEF BodyLeaveLock
<1>13. ASSUME NEW t \in Thread, FinishTask(t)
       PROVE  TypeOK'
  <2>1. done' \in SUBSET Nat
    <3>1. mTask[t] \in Nat
      BY DEF Task, NULL
    <3>2. QED
      BY <1>13, <3>1 DEF FinishTask
  <2>2. QED
    BY <1>13, <2>1 DEF FinishTask
<1>14. ASSUME NEW t \in Thread, CheckQueue(t)
       PROVE  TypeOK'
  BY <1>14 DEF CheckQueue
<1>15. ASSUME NEW t \in Thread, TakeTask(t)
       PROVE  TypeOK'
  <2>1. CASE taskq = <<>>
    BY <1>15, <2>1 DEF TakeTask
  <2>2. CASE taskq # <<>>
    <3>1. Head(taskq) \in Task /\ Tail(taskq) \in Seq(Task)
      BY <2>2, HeadTailProperties
    <3>2. taskq' = Tail(taskq) /\ hand' = [hand EXCEPT ![t] = Head(taskq)]
      BY <1>15, <2>2 DEF TakeTask
    <3>3. taskq' \in Seq(Task) /\ hand' \in [Thread -> Task \cup {NULL}]
      BY <3>1, <3>2
    <3>4. QED
      BY <1>15, <3>3 DEF TakeTask
  <2>3. QED
    BY <2>1, <2>2
<1>16. ASSUME NEW t \in Thread, AssignSelf(t)
       PROVE  TypeOK'
  BY <1>16 DEF AssignSelf
<1>17. ASSUME NEW t \in Thread, ListRemove(t)
       PROVE  TypeOK'
  BY <1>17 DEF ListRemove
<1>18. ASSUME NEW t \in Thread, Park(t)
       PROVE  TypeOK'
  BY <1>18 DEF Park
<1>19. CASE UNCHANGED vars
  BY <1>19 DEF vars
<1>20. QED
  BY <1>1, <1>2, <1>3, <1>4, <1>5, <1>6, <1>7, <1>8, <1>9, <1>10, <1>11,
     <1>12, <1>13, <1>14, <1>15, <1>16, <1>17, <1>18, <1>19
     DEF Next, AddTaskStep, ThreadStep, Stopped

(* The type invariant holds in every reachable state.                      *)
THEOREM TypeCorrect == Spec => []TypeOK
<1>1. Init => TypeOK
  <2> SUFFICES ASSUME Init
               PROVE  TypeOK
    OBVIOUS
  <2> USE ThreadPoolAssumption DEF Init, TypeOK, Thread, Task, NULL, CallerPC, ThreadPC
  <2>1. idle \in Seq(Thread)
    <3>1. idle \in [1..NumThreads -> Thread]
      OBVIOUS
    <3>2. QED
      BY <3>1, SeqDef
  <2>2. taskq \in Seq(Task)
    OBVIOUS
  <2>3. QED
    BY <2>1, <2>2
<1>2. QED
  BY <1>1, TypeInductive, PTL DEF Spec

-----------------------------------------------------------------------------
(* Control: who holds the lock, which thread is where                      *)

(* The callers' critical section has one owner: a caller for the whole of  *)
(* addTask, or a thread in the middle of its task body.                    *)
LockInv ==
  /\ \A k \in Caller : cpc[k] # "out" <=> lock = k
  /\ \A t \in Thread : tpc[t] = "locked" <=> lock = t

(* What a caller holds at each point of addTask.                           *)
CallerInv ==
  \A k \in Caller :
    /\ cpc[k] = "push" => submitted < MaxCalls
    /\ cpc[k] \in {"popTask", "popIdle"} => idle # <<>>
    /\ chand[k] # NULL <=> cpc[k] \in {"popIdle", "listAdd", "assign"}
    /\ cthread[k] # NULL <=> cpc[k] \in {"listAdd", "assign", "signal"}
    /\ cpc[k] \in {"listAdd", "assign"} => Parked(cthread[k])
    /\ cpc[k] \in {"assign", "signal"} => cthread[k] \in active
    /\ cpc[k] = "signal" => mTask[cthread[k]] # NULL

(* What a thread holds at each point of its loop.                          *)
ThreadInv ==
  \A t \in Thread :
    /\ tpc[t] \in {"body", "locked", "tail"} => mTask[t] # NULL
    /\ mTask[t] # NULL => tpc[t] \in {"wait", "body", "locked", "tail"}
    /\ hand[t] # NULL => tpc[t] = "assign"
    /\ event[t] => tpc[t] = "wait" /\ mTask[t] # NULL
    /\ mTask[t] # NULL /\ tpc[t] = "wait" /\ ~event[t]
         => \E k \in Caller : cthread[k] = t /\ cpc[k] = "signal"

ControlInv == LockInv /\ CallerInv /\ ThreadInv /\ ThreadAccounted

(* A step that moves nothing between the stack, the callers' hands and the *)
(* active list, and changes no thread's being busy or about to park, keeps *)
(* every thread accounted for.                                             *)
LEMMA AccountedFrame ==
  ASSUME ThreadAccounted, UNCHANGED <<idle, cthread, active>>,
         \A u \in Thread :
           (Busy(u)' <=> Busy(u)) /\ ((tpc[u] = "park")' <=> tpc[u] = "park")
  PROVE  ThreadAccounted'
<1>1. ASSUME NEW u \in Thread
      PROVE  AccountedFor(u)'
  <2>1. (OnStack(u)' <=> OnStack(u)) /\ (Popped(u)' <=> Popped(u))
    BY DEF OnStack, Popped
  <2>2. (Busy(u)' <=> Busy(u)) /\ ((tpc[u] = "park")' <=> tpc[u] = "park")
    OBVIOUS
  <2>3. QED
    BY <2>1, <2>2 DEF ThreadAccounted, AccountedFor
<1>2. QED
  BY <1>1 DEF ThreadAccounted

(* Every step of the pool preserves the control invariant.                 *)
LEMMA ControlInductive == TypeOK /\ ControlInv /\ [Next]_vars => ControlInv'
<1> SUFFICES ASSUME TypeOK, ControlInv, [Next]_vars
             PROVE  ControlInv'
  OBVIOUS
<1> USE ThreadPoolAssumption DEF ControlInv, TypeOK, CallerGoes, ThreadGoes,
        threadVars, callerVars
<1>1. ASSUME NEW k \in Caller, EnterLock(k)
      PROVE  ControlInv'
  <2>1. LockInv'
    BY <1>1 DEF EnterLock, LockInv
  <2>2. CallerInv'
    BY <1>1 DEF EnterLock, LockInv, CallerInv, ThreadInv, ThreadAccounted,
            AccountedFor, OnStack, Popped, Busy, Parked
  <2>3. ThreadInv'
    BY <1>1 DEF EnterLock, CallerInv, ThreadInv, Parked
  <2>4. ThreadAccounted'
    <3>1. \A u \in Thread :
           (Busy(u)' <=> Busy(u)) /\ ((tpc[u] = "park")' <=> tpc[u] = "park")
      BY <1>1 DEF EnterLock, ThreadInv, Busy
    <3>2. QED
      BY <1>1, <3>1, AccountedFrame DEF EnterLock
  <2>5. QED
    BY <2>1, <2>2, <2>3, <2>4
<1>2. ASSUME NEW k \in Caller, PushTask(k)
      PROVE  ControlInv'
  <2>1. LockInv'
    BY <1>2 DEF PushTask, LockInv
  <2>2. CallerInv'
    BY <1>2 DEF PushTask, LockInv, CallerInv, ThreadInv, ThreadAccounted,
            AccountedFor, OnStack, Popped, Busy, Parked
  <2>3. ThreadInv'
    BY <1>2 DEF PushTask, CallerInv, ThreadInv, Parked
  <2>4. ThreadAccounted'
    <3>1. \A u \in Thread :
           (Busy(u)' <=> Busy(u)) /\ ((tpc[u] = "park")' <=> tpc[u] = "park")
      BY <1>2 DEF PushTask, ThreadInv, Busy
    <3>2. QED
      BY <1>2, <3>1, AccountedFrame DEF PushTask
  <2>5. QED
    BY <2>1, <2>2, <2>3, <2>4
<1>3. ASSUME NEW k \in Caller, CheckIdle(k)
      PROVE  ControlInv'
  <2>1. LockInv'
    BY <1>3 DEF CheckIdle, LockInv
  <2>2. CallerInv'
    BY <1>3 DEF CheckIdle, LockInv, CallerInv, ThreadInv, ThreadAccounted,
            AccountedFor, OnStack, Popped, Busy, Parked
  <2>3. ThreadInv'
    BY <1>3 DEF CheckIdle, CallerInv, ThreadInv, Parked
  <2>4. ThreadAccounted'
    <3>1. \A u \in Thread :
           (Busy(u)' <=> Busy(u)) /\ ((tpc[u] = "park")' <=> tpc[u] = "park")
      BY <1>3 DEF CheckIdle, ThreadInv, Busy
    <3>2. QED
      BY <1>3, <3>1, AccountedFrame DEF CheckIdle
  <2>5. QED
    BY <2>1, <2>2, <2>3, <2>4
<1>4. ASSUME NEW k \in Caller, PopTask(k)
      PROVE  ControlInv'
  <2>1. LockInv'
    BY <1>4 DEF PopTask, LockInv
  <2>2. CallerInv'
    <3>1. CASE taskq = <<>>
      BY <1>4, <3>1 DEF PopTask, CallerInv, Parked
    <3>2. CASE taskq # <<>>
      <4>1. Head(taskq) # NULL
        BY <3>2, HeadTailProperties DEF Task, NULL
      <4>2. chand' = [chand EXCEPT ![k] = Head(taskq)]
        BY <1>4, <3>2 DEF PopTask
      <4>3. QED
        BY <1>4, <3>2, <4>1, <4>2 DEF PopTask, CallerInv, Parked
    <3>3. QED
      BY <3>1, <3>2
  <2>3. ThreadInv'
    BY <1>4 DEF PopTask, CallerInv, ThreadInv, Parked
  <2>4. ThreadAccounted'
    <3>1. \A u \in Thread :
           (Busy(u)' <=> Busy(u)) /\ ((tpc[u] = "park")' <=> tpc[u] = "park")
      BY <1>4 DEF PopTask, ThreadInv, Busy
    <3>2. QED
      BY <1>4, <3>1, AccountedFrame DEF PopTask
  <2>5. QED
    BY <2>1, <2>2, <2>3, <2>4
<1>5. ASSUME NEW k \in Caller, PopIdle(k)
      PROVE  ControlInv'
  <2>1. LockInv'
    BY <1>5 DEF PopIdle, LockInv
  <2>2. CallerInv'
    BY <1>5 DEF PopIdle, LockInv, CallerInv, ThreadInv, ThreadAccounted,
            AccountedFor, OnStack, Popped, Busy, Parked
  <2>3. ThreadInv'
    BY <1>5 DEF PopIdle, CallerInv, ThreadInv, Parked
  <2>4. ThreadAccounted'
    <3>1. idle # <<>>
      BY <1>5 DEF PopIdle, CallerInv
    <3>2. /\ idle' = Tail(idle)
          /\ cthread' = [cthread EXCEPT ![k] = Head(idle)]
          /\ UNCHANGED <<active, tpc, event>>
      BY <1>5, <3>1 DEF PopIdle
    <3>3. /\ Len(idle') = Len(idle) - 1
          /\ Len(idle) \in Nat \ {0}
          /\ \A i \in 1..Len(idle') : idle'[i] = idle[i + 1]
          /\ Head(idle) = idle[1]
      BY <3>1, <3>2, HeadTailProperties, EmptySeq
    <3>4. \A i, j \in 1..Len(idle) : idle[i] = idle[j] => i = j
      BY DEF ThreadAccounted
    <3>5. \A i, j \in 1..Len(idle') : idle'[i] = idle'[j] => i = j
      BY <3>3, <3>4
    <3>6. OnStack(Head(idle)) /\ Head(idle) \in Thread
      BY <3>1, <3>3, HeadTailProperties DEF OnStack
    <3>7. \A l \in Caller : cthread[l] # Head(idle)
      BY <3>6 DEF ThreadAccounted, AccountedFor, Popped
    <3>8. \A l, m \in Caller : cthread'[l] = cthread'[m] => l = m \/ cthread'[l] = NULL
      BY <3>2, <3>7 DEF ThreadAccounted
    <3>9. ASSUME NEW u \in Thread
          PROVE  AccountedFor(u)'
      <4>1. Busy(u)' <=> Busy(u)
        BY <3>2 DEF Busy
      <4>2. CASE u = Head(idle)
        <5>1. ~OnStack(u)'
          BY <3>3, <3>4, <4>2 DEF OnStack
        <5>2. Popped(u)'
          BY <3>2, <4>2 DEF Popped
        <5>3. ~Busy(u)
          BY <3>6, <4>2 DEF ThreadAccounted, AccountedFor
        <5>4. QED
          BY <4>1, <5>1, <5>2, <5>3 DEF AccountedFor
      <4>3. CASE u # Head(idle)
        <5>1. OnStack(u)' <=> OnStack(u)
          <6>1. OnStack(u)' => OnStack(u)
            BY <3>3 DEF OnStack
          <6>2. ASSUME NEW i \in 1..Len(idle), idle[i] = u
                PROVE  OnStack(u)'
            <7>1. i - 1 \in 1..Len(idle') /\ idle'[i - 1] = u
              BY <3>3, <4>3, <6>2
            <7>2. QED
              BY <7>1 DEF OnStack
          <6>3. QED
            BY <6>1, <6>2 DEF OnStack
        <5>2. Popped(u)' <=> Popped(u)
          <6>1. cthread[k] = NULL /\ u # NULL
            BY <1>5 DEF PopIdle, CallerInv, Thread, NULL
          <6>2. QED
            BY <3>2, <4>3, <6>1 DEF Popped
        <5>3. QED
          BY <3>2, <4>1, <5>1, <5>2 DEF ThreadAccounted, AccountedFor
      <4>4. QED
        BY <4>2, <4>3
    <3>10. QED
      BY <3>5, <3>8, <3>9 DEF ThreadAccounted
  <2>5. QED
    BY <2>1, <2>2, <2>3, <2>4
<1>6. ASSUME NEW k \in Caller, ListAdd(k)
      PROVE  ControlInv'
  <2>1. LockInv'
    BY <1>6 DEF ListAdd, LockInv
  <2>2. CallerInv'
    BY <1>6 DEF ListAdd, LockInv, CallerInv, ThreadInv, ThreadAccounted,
            AccountedFor, OnStack, Popped, Busy, Parked
  <2>3. ThreadInv'
    BY <1>6 DEF ListAdd, CallerInv, ThreadInv, Parked
  <2>4. ThreadAccounted'
    BY <1>6 DEF ListAdd, CallerInv, ThreadInv, ThreadAccounted, AccountedFor,
           OnStack, Popped, Busy, Parked
  <2>5. QED
    BY <2>1, <2>2, <2>3, <2>4
<1>7. ASSUME NEW k \in Caller, Assign(k)
      PROVE  ControlInv'
  <2>1. LockInv'
    BY <1>7 DEF Assign, LockInv
  <2>2. CallerInv'
    BY <1>7 DEF Assign, LockInv, CallerInv, ThreadInv, ThreadAccounted,
            AccountedFor, OnStack, Popped, Busy, Parked
  <2>3. ThreadInv'
    BY <1>7 DEF Assign, CallerInv, ThreadInv, Parked
  <2>4. ThreadAccounted'
    <3>1. \A u \in Thread :
           (Busy(u)' <=> Busy(u)) /\ ((tpc[u] = "park")' <=> tpc[u] = "park")
      BY <1>7 DEF Assign, ThreadInv, Busy
    <3>2. QED
      BY <1>7, <3>1, AccountedFrame DEF Assign
  <2>5. QED
    BY <2>1, <2>2, <2>3, <2>4
<1>8. ASSUME NEW k \in Caller, Signal(k)
      PROVE  ControlInv'
  <2>1. LockInv'
    BY <1>8 DEF Signal, LockInv
  <2>2. CallerInv'
    BY <1>8 DEF Signal, LockInv, CallerInv, ThreadInv, ThreadAccounted,
            AccountedFor, OnStack, Popped, Busy, Parked
  <2>3. ThreadInv'
    <3>1. ASSUME NEW u \in Thread, NEW l \in Caller, cthread[l] = u, cpc[l] = "signal",
                 ~event'[u]
          PROVE  cthread'[l] = u /\ cpc'[l] = "signal"
      BY <1>8, <3>1 DEF Signal
    <3>2. /\ tpc[cthread[k]] = "wait" /\ mTask[cthread[k]] # NULL
          /\ cthread[k] \in Thread
      BY <1>8 DEF Signal, CallerInv, ThreadInv, ThreadAccounted, AccountedFor, Popped, Busy
    <3>3. event' = [event EXCEPT ![cthread[k]] = TRUE] /\ UNCHANGED <<tpc, mTask, hand>>
      BY <1>8 DEF Signal
    <3>4. QED
      BY <3>1, <3>2, <3>3 DEF ThreadInv
  <2>4. ThreadAccounted'
    <3> DEFINE w == cthread[k]
    <3>1. /\ w \in Thread /\ Popped(w) /\ w \in active /\ tpc[w] = "wait"
          /\ cthread' = [cthread EXCEPT ![k] = NULL]
          /\ event'   = [event EXCEPT ![w] = TRUE]
          /\ UNCHANGED <<idle, active, tpc>>
      BY <1>8 DEF Signal, CallerInv, ThreadAccounted, AccountedFor, Popped, Busy
    <3>2. ~OnStack(w) /\ \A l \in Caller : l # k => cthread[l] # w
      BY <3>1 DEF ThreadAccounted, AccountedFor, Thread, NULL
    <3>3. ASSUME NEW u \in Thread
          PROVE  AccountedFor(u)'
      <4>1. OnStack(u)' <=> OnStack(u)
        BY <3>1 DEF OnStack
      <4>2. CASE u = w
        <5>1. Busy(u)' /\ ~Popped(u)' /\ tpc'[u] # "park" /\ u \in active'
          BY <3>1, <3>2, <4>2 DEF Busy, Popped, Thread, NULL
        <5>2. QED
          BY <3>2, <4>1, <4>2, <5>1 DEF AccountedFor
      <4>3. CASE u # w
        <5>1. (Busy(u)' <=> Busy(u)) /\ (Popped(u)' <=> Popped(u))
          BY <3>1, <4>3 DEF Busy, Popped, Thread, NULL
        <5>2. QED
          BY <3>1, <4>1, <5>1 DEF ThreadAccounted, AccountedFor
      <4>4. QED
        BY <4>2, <4>3
    <3>4. \A l, m \in Caller : cthread'[l] = cthread'[m] => l = m \/ cthread'[l] = NULL
      BY <3>1 DEF ThreadAccounted
    <3>5. QED
      BY <3>1, <3>3, <3>4 DEF ThreadAccounted
  <2>5. QED
    BY <2>1, <2>2, <2>3, <2>4
<1>9. ASSUME NEW k \in Caller, LeaveLock(k)
      PROVE  ControlInv'
  <2>1. LockInv'
    BY <1>9 DEF LeaveLock, LockInv
  <2>2. CallerInv'
    BY <1>9 DEF LeaveLock, LockInv, CallerInv, ThreadInv, ThreadAccounted,
            AccountedFor, OnStack, Popped, Busy, Parked
  <2>3. ThreadInv'
    BY <1>9 DEF LeaveLock, CallerInv, ThreadInv, Parked
  <2>4. ThreadAccounted'
    <3>1. \A u \in Thread :
           (Busy(u)' <=> Busy(u)) /\ ((tpc[u] = "park")' <=> tpc[u] = "park")
      BY <1>9 DEF LeaveLock, ThreadInv, Busy
    <3>2. QED
      BY <1>9, <3>1, AccountedFrame DEF LeaveLock
  <2>5. QED
    BY <2>1, <2>2, <2>3, <2>4
<1>10. ASSUME NEW t \in Thread, Wake(t)
       PROVE  ControlInv'
  <2>1. LockInv'
    BY <1>10 DEF Wake, LockInv
  <2>2. CallerInv'
    BY <1>10 DEF Wake, LockInv, CallerInv, ThreadInv, ThreadAccounted,
            AccountedFor, OnStack, Popped, Busy, Parked
  <2>3. ThreadInv'
    BY <1>10 DEF Wake, CallerInv, ThreadInv, Parked
  <2>4. ThreadAccounted'
    <3>1. \A u \in Thread :
           (Busy(u)' <=> Busy(u)) /\ ((tpc[u] = "park")' <=> tpc[u] = "park")
      BY <1>10 DEF Wake, ThreadInv, Busy
    <3>2. QED
      BY <1>10, <3>1, AccountedFrame DEF Wake
  <2>5. QED
    BY <2>1, <2>2, <2>3, <2>4
<1>11. ASSUME NEW t \in Thread, BodyEnterLock(t)
       PROVE  ControlInv'
  <2>1. LockInv'
    BY <1>11 DEF BodyEnterLock, LockInv
  <2>2. CallerInv'
    BY <1>11 DEF BodyEnterLock, LockInv, CallerInv, ThreadInv, ThreadAccounted,
            AccountedFor, OnStack, Popped, Busy, Parked
  <2>3. ThreadInv'
    BY <1>11 DEF BodyEnterLock, CallerInv, ThreadInv, Parked
  <2>4. ThreadAccounted'
    <3>1. \A u \in Thread :
           (Busy(u)' <=> Busy(u)) /\ ((tpc[u] = "park")' <=> tpc[u] = "park")
      BY <1>11 DEF BodyEnterLock, ThreadInv, Busy
    <3>2. QED
      BY <1>11, <3>1, AccountedFrame DEF BodyEnterLock
  <2>5. QED
    BY <2>1, <2>2, <2>3, <2>4
<1>12. ASSUME NEW t \in Thread, BodyLeaveLock(t)
       PROVE  ControlInv'
  <2>1. LockInv'
    BY <1>12 DEF BodyLeaveLock, LockInv
  <2>2. CallerInv'
    BY <1>12 DEF BodyLeaveLock, LockInv, CallerInv, ThreadInv, ThreadAccounted,
            AccountedFor, OnStack, Popped, Busy, Parked
  <2>3. ThreadInv'
    BY <1>12 DEF BodyLeaveLock, CallerInv, ThreadInv, Parked
  <2>4. ThreadAccounted'
    <3>1. \A u \in Thread :
           (Busy(u)' <=> Busy(u)) /\ ((tpc[u] = "park")' <=> tpc[u] = "park")
      BY <1>12 DEF BodyLeaveLock, ThreadInv, Busy
    <3>2. QED
      BY <1>12, <3>1, AccountedFrame DEF BodyLeaveLock
  <2>5. QED
    BY <2>1, <2>2, <2>3, <2>4
<1>13. ASSUME NEW t \in Thread, FinishTask(t)
       PROVE  ControlInv'
  <2>1. LockInv'
    BY <1>13 DEF FinishTask, LockInv
  <2>2. CallerInv'
    BY <1>13 DEF FinishTask, LockInv, CallerInv, ThreadInv, ThreadAccounted,
            AccountedFor, OnStack, Popped, Busy, Parked
  <2>3. ThreadInv'
    BY <1>13 DEF FinishTask, CallerInv, ThreadInv, Parked
  <2>4. ThreadAccounted'
    <3>1. \A u \in Thread :
           (Busy(u)' <=> Busy(u)) /\ ((tpc[u] = "park")' <=> tpc[u] = "park")
      BY <1>13 DEF FinishTask, ThreadInv, Busy
    <3>2. QED
      BY <1>13, <3>1, AccountedFrame DEF FinishTask
  <2>5. QED
    BY <2>1, <2>2, <2>3, <2>4
<1>14. ASSUME NEW t \in Thread, CheckQueue(t)
       PROVE  ControlInv'
  <2>1. LockInv'
    BY <1>14 DEF CheckQueue, LockInv
  <2>2. CallerInv'
    BY <1>14 DEF CheckQueue, LockInv, CallerInv, ThreadInv, ThreadAccounted,
            AccountedFor, OnStack, Popped, Busy, Parked
  <2>3. ThreadInv'
    BY <1>14 DEF CheckQueue, CallerInv, ThreadInv, Parked
  <2>4. ThreadAccounted'
    <3>1. \A u \in Thread :
           (Busy(u)' <=> Busy(u)) /\ ((tpc[u] = "park")' <=> tpc[u] = "park")
      BY <1>14 DEF CheckQueue, ThreadInv, Busy
    <3>2. QED
      BY <1>14, <3>1, AccountedFrame DEF CheckQueue
  <2>5. QED
    BY <2>1, <2>2, <2>3, <2>4
<1>15. ASSUME NEW t \in Thread, TakeTask(t)
       PROVE  ControlInv'
  <2>1. LockInv'
    BY <1>15 DEF TakeTask, LockInv
  <2>2. CallerInv'
    BY <1>15 DEF TakeTask, LockInv, CallerInv, ThreadInv, ThreadAccounted,
            AccountedFor, OnStack, Popped, Busy, Parked
  <2>3. ThreadInv'
    BY <1>15 DEF TakeTask, CallerInv, ThreadInv, Parked
  <2>4. ThreadAccounted'
    <3>1. \A u \in Thread :
           (Busy(u)' <=> Busy(u)) /\ ((tpc[u] = "park")' <=> tpc[u] = "park")
      BY <1>15 DEF TakeTask, ThreadInv, Busy
    <3>2. QED
      BY <1>15, <3>1, AccountedFrame DEF TakeTask
  <2>5. QED
    BY <2>1, <2>2, <2>3, <2>4
<1>16. ASSUME NEW t \in Thread, AssignSelf(t)
       PROVE  ControlInv'
  <2>1. LockInv'
    BY <1>16 DEF AssignSelf, LockInv
  <2>2. CallerInv'
    <3>1. \A k \in Caller : cthread[k] # t
      BY <1>16 DEF AssignSelf, ThreadAccounted, AccountedFor, Popped, Busy
    <3>2. \A k \in Caller : cpc[k] \in {"listAdd", "assign", "signal"} =>
            cthread[k] \in Thread \ {t}
      BY <3>1 DEF CallerInv
    <3>3. UNCHANGED <<submitted, idle, active, cpc, chand, cthread>>
      BY <1>16 DEF AssignSelf
    <3>4. \A u \in Thread \ {t} :
            tpc'[u] = tpc[u] /\ mTask'[u] = mTask[u] /\ event'[u] = event[u]
      BY <1>16 DEF AssignSelf
    <3>5. QED
      BY <3>2, <3>3, <3>4 DEF CallerInv, Parked
  <2>3. ThreadInv'
    <3>1. CASE hand[t] = NULL
      BY <1>16, <3>1 DEF AssignSelf, ThreadInv
    <3>2. CASE hand[t] # NULL
      <4>1. /\ tpc'   = [tpc EXCEPT ![t] = "wait"]
            /\ mTask' = [mTask EXCEPT ![t] = hand[t]]
            /\ event' = [event EXCEPT ![t] = TRUE]
            /\ hand'  = [hand EXCEPT ![t] = NULL]
            /\ UNCHANGED <<cthread, cpc>>
        BY <1>16, <3>2 DEF AssignSelf
      <4>2. QED
        BY <3>2, <4>1 DEF ThreadInv
    <3>3. QED
      BY <3>1, <3>2
  <2>4. ThreadAccounted'
    <3>1. \A u \in Thread :
           (Busy(u)' <=> Busy(u)) /\ ((tpc[u] = "park")' <=> tpc[u] = "park")
      <4>1. CASE hand[t] = NULL
        BY <1>16, <4>1 DEF AssignSelf, ThreadInv, Busy
      <4>2. CASE hand[t] # NULL
        <5>1. tpc[t] = "assign" /\ tpc'[t] = "wait" /\ event'[t] = TRUE
          BY <1>16, <4>2 DEF AssignSelf
        <5>2. \A u \in Thread \ {t} : tpc'[u] = tpc[u] /\ event'[u] = event[u]
          BY <1>16 DEF AssignSelf
        <5>3. QED
          BY <5>1, <5>2 DEF Busy
      <4>3. QED
        BY <4>1, <4>2
    <3>2. QED
      BY <1>16, <3>1, AccountedFrame DEF AssignSelf
  <2>5. QED
    BY <2>1, <2>2, <2>3, <2>4
<1>17. ASSUME NEW t \in Thread, ListRemove(t)
       PROVE  ControlInv'
  <2>1. LockInv'
    BY <1>17 DEF ListRemove, LockInv
  <2>2. CallerInv'
    BY <1>17 DEF ListRemove, LockInv, CallerInv, ThreadInv, ThreadAccounted,
            AccountedFor, OnStack, Popped, Busy, Parked
  <2>3. ThreadInv'
    BY <1>17 DEF ListRemove, CallerInv, ThreadInv, Parked
  <2>4. ThreadAccounted'
    BY <1>17 DEF ListRemove, CallerInv, ThreadInv, ThreadAccounted, AccountedFor,
           OnStack, Popped, Busy, Parked
  <2>5. QED
    BY <2>1, <2>2, <2>3, <2>4
<1>18. ASSUME NEW t \in Thread, Park(t)
       PROVE  ControlInv'
  <2>1. LockInv'
    BY <1>18 DEF Park, LockInv
  <2>2. CallerInv'
    BY <1>18 DEF Park, LockInv, CallerInv, ThreadInv, ThreadAccounted,
            AccountedFor, OnStack, Popped, Busy, Parked
  <2>3. ThreadInv'
    BY <1>18 DEF Park, CallerInv, ThreadInv, Parked
  <2>4. ThreadAccounted'
    <3>1. /\ ~OnStack(t) /\ ~Popped(t) /\ t \notin active /\ ~event[t]
          /\ tpc[t] = "park"
      BY <1>18 DEF Park, ThreadInv, ThreadAccounted, AccountedFor, Busy
    <3>2. /\ idle' = <<t>> \o idle /\ tpc'[t] = "wait"
          /\ \A u \in Thread \ {t} : tpc'[u] = tpc[u]
          /\ UNCHANGED <<event, cthread, active>>
      BY <1>18 DEF Park
    <3>3. /\ Len(idle') = Len(idle) + 1 /\ idle'[1] = t
          /\ \A i \in 2..Len(idle') : idle'[i] = idle[i - 1] /\ i - 1 \in 1..Len(idle)
      BY <3>2
    <3>4. \A u \in Thread : OnStack(u)' <=> OnStack(u) \/ u = t
      <4>1. ASSUME NEW u \in Thread, OnStack(u)
            PROVE  OnStack(u)'
        <5>1. PICK i \in 1..Len(idle) : idle[i] = u
          BY <4>1 DEF OnStack
        <5>2. i + 1 \in 1..Len(idle') /\ idle'[i + 1] = u
          BY <3>3, <5>1
        <5>3. QED
          BY <5>2 DEF OnStack
      <4>2. ASSUME NEW u \in Thread, OnStack(u)', u # t
            PROVE  OnStack(u)
        BY <3>3, <4>2 DEF OnStack
      <4>3. 1 \in 1..Len(idle')
        BY <3>3
      <4>4. QED
        BY <3>3, <4>1, <4>2, <4>3 DEF OnStack
    <3>5. ASSUME NEW i \in 1..Len(idle'), NEW j \in 1..Len(idle'), idle'[i] = idle'[j]
          PROVE  i = j
      <4>1. \A m \in 2..Len(idle') : idle'[m] # t
        BY <3>1, <3>3 DEF OnStack
      <4>2. CASE i = 1 \/ j = 1
        BY <3>3, <3>5, <4>1, <4>2
      <4>3. CASE i # 1 /\ j # 1
        <5>1. idle[i - 1] = idle[j - 1] /\ i - 1 \in 1..Len(idle) /\ j - 1 \in 1..Len(idle)
          BY <3>3, <3>5, <4>3
        <5>2. \A m, n \in 1..Len(idle) : idle[m] = idle[n] => m = n
          BY DEF ThreadAccounted
        <5>3. i - 1 = j - 1
          BY <5>1, <5>2, Zenon
        <5>4. QED
          BY <5>3
      <4>4. QED
        BY <4>2, <4>3
    <3>6. ASSUME NEW u \in Thread
          PROVE  AccountedFor(u)'
      BY <3>1, <3>2, <3>4 DEF ThreadAccounted, AccountedFor, Popped, Busy
    <3>7. QED
      BY <3>2, <3>5, <3>6 DEF ThreadAccounted
  <2>5. QED
    BY <2>1, <2>2, <2>3, <2>4
<1>19. CASE UNCHANGED vars
  BY <1>19 DEF vars, LockInv, CallerInv, ThreadInv, ThreadAccounted, AccountedFor,
               OnStack, Popped, Busy, Parked
<1>20. QED
  BY <1>1, <1>2, <1>3, <1>4, <1>5, <1>6, <1>7, <1>8, <1>9, <1>10, <1>11,
     <1>12, <1>13, <1>14, <1>15, <1>16, <1>17, <1>18, <1>19
     DEF Next, AddTaskStep, ThreadStep, Stopped

LEMMA ControlCorrect == Spec => []ControlInv
<1>1. Init => ControlInv
  BY ThreadPoolAssumption
     DEF Init, ControlInv, LockInv, CallerInv, ThreadInv, ThreadAccounted,
         AccountedFor, Parked, OnStack, Popped, Busy, Thread, NULL
<1>2. QED
  BY <1>1, TypeCorrect, ControlInductive, PTL DEF Spec

(* What addThread asserts (MyList.cpp:15) and assignTask relies on: the    *)
(* thread addTask popped (MyThreadPool.cpp:101) exists and is parked.      *)
THEOREM PoppedThreadParked == Spec => []PoppedThreadIsParked
<1>1. TypeOK /\ ControlInv => PoppedThreadIsParked
  BY DEF TypeOK, ControlInv, CallerInv, PoppedThreadIsParked
<1>2. QED
  BY <1>1, TypeCorrect, ControlCorrect, PTL

(* No thread drops out of the pool or is in it twice: it is on the idle    *)
(* stack, popped by addTask, or busy and on the active list.               *)
THEOREM ThreadsAccounted == Spec => []ThreadAccounted
<1>1. ControlInv => ThreadAccounted
  BY DEF ControlInv
<1>2. QED
  BY <1>1, ControlCorrect, PTL

-----------------------------------------------------------------------------
(* Tasks: what is in the queue and who holds the rest                      *)

LeftQueue == submitted - Len(taskq)   \* how many tasks have left the queue

(* The queue holds the newest calls in order.                              *)
QueueInv ==
  /\ Len(taskq) <= submitted
  /\ \A i \in 1..Len(taskq) : taskq[i] = LeftQueue + i

(* A task that left the queue has one holder: a caller, a finishing thread *)
(* (in its local pTask), a thread's m_pTask, or the past.                  *)
HolderInv ==
  /\ done \subseteq 1..LeftQueue
  /\ \A k \in Caller : chand[k] # NULL =>
       /\ chand[k] <= LeftQueue
       /\ chand[k] \notin done
       /\ \A t \in Thread : chand[k] # hand[t] /\ chand[k] # mTask[t]
  /\ \A t \in Thread : hand[t] # NULL =>
       /\ hand[t] <= LeftQueue
       /\ hand[t] \notin done
       /\ \A u \in Thread : hand[t] # mTask[u] /\ (u # t => hand[t] # hand[u])
  /\ \A t \in Thread : mTask[t] # NULL =>
       /\ mTask[t] <= LeftQueue
       /\ mTask[t] \notin done
       /\ \A u \in Thread \ {t} : mTask[t] # mTask[u]

Held(n) ==
  \/ n \in done
  \/ \E k \in Caller : chand[k] = n
  \/ \E t \in Thread : hand[t] = n \/ mTask[t] = n

TaskInv == QueueInv /\ HolderInv /\ \A n \in 1..LeftQueue : Held(n)

(* A step that leaves the tasks where they are.                            *)
LEMMA TaskFrame ==
  ASSUME TaskInv, UNCHANGED <<submitted, taskq, done, mTask, hand, chand>>
  PROVE  TaskInv'
BY DEF TaskInv, QueueInv, HolderInv, Held, LeftQueue

(* The head of a queue is the oldest call, and the tail is in order again. *)
LEMMA TailInv ==
  ASSUME TypeOK, QueueInv, taskq # <<>>, taskq' = Tail(taskq), submitted' = submitted
  PROVE  /\ Head(taskq) = LeftQueue + 1
         /\ LeftQueue' = LeftQueue + 1
         /\ LeftQueue \in Nat
         /\ QueueInv'
<1>1. /\ Len(taskq) \in Nat \ {0}
      /\ Len(taskq') = Len(taskq) - 1
      /\ \A i \in 1..Len(taskq') : taskq'[i] = taskq[i + 1]
      /\ Head(taskq) = taskq[1]
  BY HeadTailProperties, EmptySeq DEF TypeOK
<1>2. QED
  BY <1>1 DEF TypeOK, QueueInv, LeftQueue

LEMMA TaskInductive == TypeOK /\ ControlInv /\ TaskInv /\ [Next]_vars => TaskInv'
<1> SUFFICES ASSUME TypeOK, ControlInv, TaskInv, [Next]_vars
             PROVE  TaskInv'
  OBVIOUS
<1> USE DEF threadVars, callerVars, CallerGoes, ThreadGoes
<1>1. ASSUME NEW k \in Caller, PushTask(k)
      PROVE  TaskInv'
  <2>1. /\ submitted' = submitted + 1
        /\ taskq' = Append(taskq, submitted + 1)
        /\ UNCHANGED <<done, mTask, hand, chand>>
    BY <1>1 DEF PushTask
  <2>2. /\ Len(taskq) \in Nat /\ Len(taskq') = Len(taskq) + 1
        /\ \A i \in 1..Len(taskq) : taskq'[i] = taskq[i]
        /\ taskq'[Len(taskq) + 1] = submitted + 1
    <3>1. submitted + 1 \in Task
      BY DEF TypeOK, Task
    <3>2. QED
      BY <2>1, <3>1, AppendProperties, LenProperties DEF TypeOK
  <2>3. LeftQueue' = LeftQueue
    BY <2>1, <2>2 DEF TypeOK, LeftQueue
  <2>4. QueueInv'
    <3>1. Len(taskq') <= submitted'
      BY <2>1, <2>2 DEF TypeOK, TaskInv, QueueInv
    <3>2. ASSUME NEW i \in 1..Len(taskq')
          PROVE  taskq'[i] = LeftQueue' + i
      <4>1. CASE i \in 1..Len(taskq)
        BY <2>2, <2>3, <4>1 DEF TaskInv, QueueInv
      <4>2. CASE i = Len(taskq) + 1
        BY <2>2, <2>3, <4>2 DEF TypeOK, LeftQueue
      <4>3. QED
        BY <2>2, <4>1, <4>2
    <3>3. QED
      BY <3>1, <3>2 DEF QueueInv
  <2>5. HolderInv' /\ \A n \in 1..LeftQueue' : Held(n)'
    BY <2>1, <2>3 DEF TaskInv, HolderInv, Held
  <2>6. QED
    BY <2>4, <2>5 DEF TaskInv
<1>2. ASSUME NEW k \in Caller, PopTask(k)
      PROVE  TaskInv'
  <2>1. CASE taskq = <<>>
    BY <1>2, <2>1, TaskFrame DEF PopTask
  <2>2. CASE taskq # <<>>
    <3>1. /\ taskq' = Tail(taskq)
          /\ chand' = [chand EXCEPT ![k] = Head(taskq)]
          /\ chand[k] = NULL
          /\ UNCHANGED <<submitted, done, mTask, hand>>
      BY <1>2, <2>2 DEF PopTask, ControlInv, CallerInv
    <3>2. \A l \in Caller \ {k} : chand[l] = NULL
      BY <1>2 DEF PopTask, ControlInv, CallerInv, LockInv
    <3>3. /\ Head(taskq) = LeftQueue + 1 /\ LeftQueue' = LeftQueue + 1
          /\ LeftQueue \in Nat /\ QueueInv'
      BY <2>2, <3>1, TailInv DEF TaskInv
    <3>4. HolderInv'
      BY <3>1, <3>2, <3>3 DEF TypeOK, TaskInv, HolderInv, Task, NULL
    <3>5. ASSUME NEW n \in 1..LeftQueue'
          PROVE  Held(n)'
      <4>1. CASE n = Head(taskq)
        BY <3>1, <4>1 DEF TypeOK, Held
      <4>2. CASE n # Head(taskq)
        <5>1. Held(n) /\ n # NULL
          BY <3>3, <4>2 DEF TaskInv, NULL
        <5>2. QED
          BY <3>1, <5>1 DEF TypeOK, Held
      <4>3. QED
        BY <4>1, <4>2
    <3>6. QED
      BY <3>3, <3>4, <3>5 DEF TaskInv
  <2>3. QED
    BY <2>1, <2>2
<1>3. ASSUME NEW k \in Caller, Assign(k)
      PROVE  TaskInv'
  <2> DEFINE w == cthread[k]
  <2>1. /\ w \in Thread /\ mTask[w] = NULL
        /\ mTask' = [mTask EXCEPT ![w] = chand[k]]
        /\ chand' = [chand EXCEPT ![k] = NULL]
        /\ UNCHANGED <<submitted, taskq, done, hand>>
    BY <1>3 DEF Assign, TypeOK, ControlInv, CallerInv, Parked
  <2>2. chand[k] # NULL /\ \A l \in Caller \ {k} : chand[l] = NULL
    BY <1>3 DEF Assign, ControlInv, CallerInv, LockInv
  <2>3. QueueInv' /\ LeftQueue' = LeftQueue
    BY <2>1 DEF TaskInv, QueueInv, LeftQueue
  <2>4. HolderInv'
    BY <2>1, <2>2, <2>3 DEF TypeOK, TaskInv, HolderInv
  <2>5. ASSUME NEW n \in 1..LeftQueue'
        PROVE  Held(n)'
    <3>1. Held(n) /\ n # NULL
      BY <2>3 DEF TaskInv, LeftQueue, TypeOK, NULL
    <3>2. CASE n = chand[k]
      BY <2>1, <3>2 DEF TypeOK, Held
    <3>3. CASE n # chand[k]
      <4>1. CASE \E l \in Caller : chand[l] = n
        BY <2>1, <3>3, <4>1 DEF TypeOK, Held
      <4>2. CASE \E t \in Thread : mTask[t] = n
        <5>1. PICK t \in Thread : mTask[t] = n
          BY <4>2
        <5>2. t # w /\ mTask'[t] = n
          BY <2>1, <3>1, <5>1 DEF TypeOK
        <5>3. QED
          BY <5>2 DEF Held
      <4>3. CASE n \in done \/ \E t \in Thread : hand[t] = n
        BY <2>1, <4>3 DEF Held
      <4>4. QED
        BY <3>1, <4>1, <4>2, <4>3 DEF Held
    <3>4. QED
      BY <3>2, <3>3
  <2>6. QED
    BY <2>3, <2>4, <2>5 DEF TaskInv
<1>4. ASSUME NEW t \in Thread, FinishTask(t)
      PROVE  TaskInv'
  <2>1. /\ mTask[t] # NULL
        /\ done'  = done \cup {mTask[t]}
        /\ mTask' = [mTask EXCEPT ![t] = NULL]
        /\ UNCHANGED <<submitted, taskq, hand, chand>>
    BY <1>4 DEF FinishTask, ControlInv, ThreadInv
  <2>2. QueueInv' /\ LeftQueue' = LeftQueue
    BY <2>1 DEF TaskInv, QueueInv, LeftQueue
  <2>3. HolderInv'
    <3>1. mTask[t] \in 1..LeftQueue
      <4>1. LeftQueue \in Int /\ mTask[t] \in Nat \ {0}
        BY <2>1, LenProperties DEF TypeOK, LeftQueue, Task, NULL
      <4>2. QED
        BY <2>1, <4>1 DEF TaskInv, HolderInv
    <3>2. QED
      BY <2>1, <2>2, <3>1 DEF TypeOK, TaskInv, HolderInv, NULL
  <2>4. ASSUME NEW n \in 1..LeftQueue'
        PROVE  Held(n)'
    BY <2>1, <2>2 DEF TypeOK, TaskInv, Held, NULL
  <2>5. QED
    BY <2>2, <2>3, <2>4 DEF TaskInv
<1>5. ASSUME NEW t \in Thread, TakeTask(t)
      PROVE  TaskInv'
  <2>1. CASE taskq = <<>>
    BY <1>5, <2>1, TaskFrame DEF TakeTask
  <2>2. CASE taskq # <<>>
    <3>1. /\ taskq' = Tail(taskq)
          /\ hand' = [hand EXCEPT ![t] = Head(taskq)]
          /\ hand[t] = NULL
          /\ UNCHANGED <<submitted, done, mTask, chand>>
      BY <1>5, <2>2 DEF TakeTask, ControlInv, ThreadInv
    <3>2. /\ Head(taskq) = LeftQueue + 1 /\ LeftQueue' = LeftQueue + 1
          /\ LeftQueue \in Nat /\ QueueInv'
      BY <2>2, <3>1, TailInv DEF TaskInv
    <3>3. HolderInv'
      BY <3>1, <3>2 DEF TypeOK, TaskInv, HolderInv, Task, NULL
    <3>4. ASSUME NEW n \in 1..LeftQueue'
          PROVE  Held(n)'
      <4>1. CASE n = Head(taskq)
        BY <3>1, <4>1 DEF TypeOK, Held
      <4>2. CASE n # Head(taskq)
        <5>1. Held(n) /\ n # NULL
          BY <3>2, <4>2 DEF TaskInv, NULL
        <5>2. QED
          BY <3>1, <5>1 DEF TypeOK, Held
      <4>3. QED
        BY <4>1, <4>2
    <3>5. QED
      BY <3>2, <3>3, <3>4 DEF TaskInv
  <2>3. QED
    BY <2>1, <2>2
<1>6. ASSUME NEW t \in Thread, AssignSelf(t)
      PROVE  TaskInv'
  <2>1. /\ mTask[t] = NULL
        /\ mTask' = [mTask EXCEPT ![t] = hand[t]]
        /\ hand'  = [hand EXCEPT ![t] = NULL]
        /\ UNCHANGED <<submitted, taskq, done, chand>>
    BY <1>6 DEF AssignSelf, ControlInv, ThreadInv
  <2>2. QueueInv' /\ LeftQueue' = LeftQueue
    BY <2>1 DEF TaskInv, QueueInv, LeftQueue
  <2>3. HolderInv'
    BY <2>1, <2>2 DEF TypeOK, TaskInv, HolderInv
  <2>4. ASSUME NEW n \in 1..LeftQueue'
        PROVE  Held(n)'
    BY <2>1, <2>2 DEF TypeOK, TaskInv, Held, NULL
  <2>5. QED
    BY <2>2, <2>3, <2>4 DEF TaskInv
<1>7. ASSUME NEW k \in Caller, EnterLock(k)
      PROVE  TaskInv'
  BY <1>7, TaskFrame DEF EnterLock
<1>8. ASSUME NEW k \in Caller, CheckIdle(k)
      PROVE  TaskInv'
  BY <1>8, TaskFrame DEF CheckIdle
<1>9. ASSUME NEW k \in Caller, PopIdle(k)
      PROVE  TaskInv'
  BY <1>9, TaskFrame DEF PopIdle
<1>10. ASSUME NEW k \in Caller, ListAdd(k)
       PROVE  TaskInv'
  BY <1>10, TaskFrame DEF ListAdd
<1>11. ASSUME NEW k \in Caller, Signal(k)
       PROVE  TaskInv'
  BY <1>11, TaskFrame DEF Signal
<1>12. ASSUME NEW k \in Caller, LeaveLock(k)
       PROVE  TaskInv'
  BY <1>12, TaskFrame DEF LeaveLock
<1>13. ASSUME NEW t \in Thread, Wake(t)
       PROVE  TaskInv'
  BY <1>13, TaskFrame DEF Wake
<1>14. ASSUME NEW t \in Thread, BodyEnterLock(t)
       PROVE  TaskInv'
  BY <1>14, TaskFrame DEF BodyEnterLock
<1>15. ASSUME NEW t \in Thread, BodyLeaveLock(t)
       PROVE  TaskInv'
  BY <1>15, TaskFrame DEF BodyLeaveLock
<1>16. ASSUME NEW t \in Thread, CheckQueue(t)
       PROVE  TaskInv'
  BY <1>16, TaskFrame DEF CheckQueue
<1>17. ASSUME NEW t \in Thread, ListRemove(t)
       PROVE  TaskInv'
  BY <1>17, TaskFrame DEF ListRemove
<1>18. ASSUME NEW t \in Thread, Park(t)
       PROVE  TaskInv'
  BY <1>18, TaskFrame DEF Park
<1>19. CASE UNCHANGED vars
  BY <1>19, TaskFrame DEF vars
<1>20. QED
  BY <1>1, <1>2, <1>3, <1>4, <1>5, <1>6, <1>7, <1>8, <1>9, <1>10, <1>11,
     <1>12, <1>13, <1>14, <1>15, <1>16, <1>17, <1>18, <1>19
     DEF Next, AddTaskStep, ThreadStep, Stopped

LEMMA TaskCorrect == Spec => []TaskInv
<1>1. Init => TaskInv
  BY DEF Init, TaskInv, QueueInv, HolderInv, Held, LeftQueue
<1>2. QED
  BY <1>1, TypeCorrect, ControlCorrect, TaskInductive, PTL DEF Spec

(* Every addTask call is in exactly one place (MyThreadPool.cpp:76-109 and *)
(* SwitchActiveThread, 57-74): no task is dropped and none runs twice.     *)
THEOREM TasksInOnePlace == Spec => []TaskInOnePlace
<1>1. TypeOK /\ ControlInv /\ TaskInv => TaskInOnePlace
  <2> SUFFICES ASSUME TypeOK, ControlInv, TaskInv
               PROVE  TaskInOnePlace
    OBVIOUS
  <2>1. /\ Len(taskq) \in Nat /\ LeftQueue \in Nat
        /\ \A n \in Pool!Queued : n > LeftQueue
        /\ \A n \in 1..submitted : n > LeftQueue => n \in Pool!Queued
    <3>1. Len(taskq) \in Nat /\ LeftQueue \in Nat
      BY LenProperties DEF TypeOK, TaskInv, QueueInv, LeftQueue
    <3>2. \A n \in Pool!Queued : n > LeftQueue
      BY <3>1 DEF TaskInv, QueueInv, Pool!Queued
    <3>3. ASSUME NEW n \in 1..submitted, n > LeftQueue
          PROVE  n \in Pool!Queued
      <4> DEFINE i == n - LeftQueue
      <4>1. i \in 1..Len(taskq)
        BY <3>1, <3>3 DEF TypeOK, LeftQueue
      <4>2. taskq[i] = LeftQueue + i
        BY <4>1 DEF TaskInv, QueueInv
      <4>3. taskq[i] = n
        BY <3>1, <4>2
      <4>4. QED
        BY <4>1, <4>3 DEF Pool!Queued
    <3>4. QED
      BY <3>1, <3>2, <3>3
  <2>2. \A n \in (Dispatched \ {NULL}) \cup done : n <= LeftQueue
    <3>1. \A n \in done : n <= LeftQueue
      BY <2>1 DEF TaskInv, HolderInv
    <3>2. \A n \in Dispatched \ {NULL} : n <= LeftQueue
      BY DEF TaskInv, HolderInv, Dispatched
    <3>3. QED
      BY <3>1, <3>2
  <2>3. \A t \in Thread : Running[t] <= LeftQueue /\ Running[t] \notin done \ {NULL}
    BY <2>1 DEF TaskInv, HolderInv, Running, NULL
  <2>4. \A t \in Thread : Running[t] # NULL => Running[t] \notin Dispatched
    BY DEF TaskInv, HolderInv, Running, Dispatched
  <2>5. \A n \in Dispatched \ {NULL} : n \notin done
    BY DEF TaskInv, HolderInv, Dispatched
  <2>6. \A t \in Thread : Running[t] # NULL => \A u \in Thread \ {t} : Running[u] # Running[t]
    BY DEF TaskInv, HolderInv, Running
  <2>7. ASSUME NEW n \in 1..LeftQueue
        PROVE  n \in (Dispatched \ {NULL}) \cup done \cup {Running[t] : t \in Thread}
    <3>1. Held(n) /\ n # NULL
      BY DEF TaskInv, NULL
    <3>2. ASSUME NEW t \in Thread, mTask[t] = n
          PROVE  n \in Dispatched \/ n = Running[t]
      BY <3>1, <3>2 DEF ControlInv, ThreadInv, Dispatched, Running
    <3>3. QED
      BY <3>1, <3>2 DEF Held, Dispatched
  <2>8. ASSUME NEW n \in 1..submitted
        PROVE  /\ n \in Pool!Queued => /\ n \notin (Dispatched \ {NULL}) \cup done
                                      /\ \A t \in Thread : Running[t] # n
               /\ n \in Dispatched \ {NULL} => /\ n \notin done
                                               /\ \A t \in Thread : Running[t] # n
               /\ \A t \in Thread :
                    Running[t] = n => n \notin done /\ \A u \in Thread \ {t} : Running[u] # n
               /\ n \in Pool!Queued \cup (Dispatched \ {NULL}) \cup done
                           \cup {Running[t] : t \in Thread}
    <3>1. n \in Nat \ {0} /\ (n <= LeftQueue \/ n > LeftQueue)
      BY <2>1 DEF TypeOK
    <3>2. n \in Pool!Queued => /\ n \notin (Dispatched \ {NULL}) \cup done
                              /\ \A t \in Thread : Running[t] # n
      BY <2>1, <2>2, <2>3
    <3>3. n \in Dispatched \ {NULL} => n \notin done /\ \A t \in Thread : Running[t] # n
      BY <2>4, <2>5
    <3>4. \A t \in Thread :
            Running[t] = n => n \notin done /\ \A u \in Thread \ {t} : Running[u] # n
      BY <2>3, <2>6, <3>1 DEF NULL
    <3>5. n \in Pool!Queued \cup (Dispatched \ {NULL}) \cup done
                   \cup {Running[t] : t \in Thread}
      BY <2>1, <2>7, <3>1
    <3>6. QED
      BY <3>2, <3>3, <3>4, <3>5
  <2>9. QED
    BY <2>8 DEF TaskInOnePlace, Pool!ExactlyOnePlace, Thread, Pool!Thread
<1>2. QED
  BY <1>1, TypeCorrect, ControlCorrect, TaskCorrect, PTL

-----------------------------------------------------------------------------
(* Refinement                                                              *)

(* A step that moves no task between hands, and changes neither which      *)
(* thread waits with a task nor which one runs, is none of TaskPool's.     *)
LEMMA StutterStep ==
  ASSUME UNCHANGED <<submitted, taskq, done, chand, hand, mTask>>,
         \A t \in Thread :
           /\ mTask[t] # NULL => (tpc'[t] = "wait" <=> tpc[t] = "wait")
           /\ tpc'[t] \in {"body", "locked", "tail"} <=> tpc[t] \in {"body", "locked", "tail"}
  PROVE  UNCHANGED Pool!vars
<1>1. Dispatched' \ {NULL} = Dispatched \ {NULL}
  BY DEF Dispatched
<1>2. Running' = Running
  BY DEF Running
<1>3. QED
  BY <1>1, <1>2 DEF Pool!vars, NULL, Pool!NULL

(* Every step of the pool is a step of TaskPool or changes nothing of it.  *)
LEMMA PoolStep ==
  TypeOK /\ ControlInv /\ TaskInv /\ [Next]_vars => [Pool!Next]_(Pool!vars)
<1> SUFFICES ASSUME TypeOK, ControlInv, TaskInv, [Next]_vars
             PROVE  [Pool!Next]_(Pool!vars)
  OBVIOUS
<1> USE DEF threadVars, callerVars, CallerGoes, ThreadGoes
<1>1. ASSUME NEW k \in Caller, PushTask(k)
      PROVE  Pool!Submit
  <2>1. Dispatched' = Dispatched /\ Running' = Running
    BY <1>1 DEF PushTask, Dispatched, Running
  <2>2. submitted < MaxCalls
    BY <1>1 DEF PushTask, ControlInv, CallerInv
  <2>3. QED
    BY <1>1, <2>1, <2>2 DEF PushTask, Pool!Submit
<1>2. ASSUME NEW k \in Caller, PopTask(k)
      PROVE  Pool!Dispatch \/ UNCHANGED Pool!vars
  <2>1. CASE taskq = <<>>
    BY <1>2, <2>1, StutterStep DEF PopTask
  <2>2. CASE taskq # <<>>
    <3>1. /\ taskq' = Tail(taskq)
          /\ chand' = [chand EXCEPT ![k] = Head(taskq)]
          /\ chand[k] = NULL /\ Head(taskq) # NULL
          /\ UNCHANGED <<submitted, done, mTask, hand, tpc>>
      <4>1. Head(taskq) \in Task
        BY <2>2, HeadTailProperties DEF TypeOK
      <4>2. Head(taskq) # NULL
        BY <4>1 DEF Task, NULL
      <4>3. chand[k] = NULL
        BY <1>2 DEF PopTask, ControlInv, CallerInv
      <4>4. QED
        BY <1>2, <2>2, <4>2, <4>3 DEF PopTask
    <3>2. Dispatched' \ {NULL} = (Dispatched \ {NULL}) \cup {Head(taskq)}
      BY <3>1 DEF TypeOK, Dispatched
    <3>3. Running' = Running
      BY <3>1 DEF Running
    <3>4. QED
      BY <2>2, <3>1, <3>2, <3>3 DEF Pool!Dispatch
  <2>3. QED
    BY <2>1, <2>2
<1>3. ASSUME NEW k \in Caller, Assign(k)
      PROVE  UNCHANGED Pool!vars
  <2> DEFINE w == cthread[k]
  <2>1. /\ w \in Thread /\ mTask[w] = NULL /\ tpc[w] = "wait"
        /\ mTask' = [mTask EXCEPT ![w] = chand[k]]
        /\ chand' = [chand EXCEPT ![k] = NULL]
        /\ UNCHANGED <<submitted, taskq, done, hand, tpc>>
    BY <1>3 DEF Assign, TypeOK, ControlInv, CallerInv, Parked
  <2>2. ASSUME NEW n, n # NULL
        PROVE  n \in Dispatched' <=> n \in Dispatched
    BY <2>1, <2>2 DEF TypeOK, Dispatched
  <2>3. Dispatched' \ {NULL} = Dispatched \ {NULL}
    BY <2>2
  <2>4. Running' = Running
    BY <2>1 DEF TypeOK, Running
  <2>5. QED
    BY <2>1, <2>3, <2>4 DEF Pool!vars
<1>4. ASSUME NEW t \in Thread, Wake(t)
      PROVE  Pool!Begin(t)
  <2>1. /\ mTask[t] # NULL /\ tpc[t] = "wait"
        /\ tpc' = [tpc EXCEPT ![t] = "body"]
        /\ UNCHANGED <<submitted, taskq, done, mTask, hand, chand>>
    BY <1>4 DEF Wake, ControlInv, ThreadInv
  <2>2. Running[t] = NULL /\ mTask[t] \in Dispatched \ {NULL}
    BY <2>1 DEF Running, Dispatched
  <2>3. Running' = [Running EXCEPT ![t] = mTask[t]]
    BY <2>1 DEF TypeOK, Running
  <2>4. ASSUME NEW n, n # NULL
        PROVE  n \in Dispatched' <=> n \in Dispatched /\ n # mTask[t]
    BY <2>1, <2>4 DEF TypeOK, TaskInv, HolderInv, Dispatched
  <2>5. Dispatched' \ {NULL} = (Dispatched \ {NULL}) \ {mTask[t]}
    BY <2>4
  <2>6. QED
    BY <2>1, <2>2, <2>3, <2>5 DEF Pool!Begin, NULL, Pool!NULL
<1>5. ASSUME NEW t \in Thread, FinishTask(t)
      PROVE  Pool!Finish(t)
  <2>1. /\ mTask[t] # NULL /\ tpc[t] = "tail"
        /\ tpc'   = [tpc EXCEPT ![t] = "checkQueue"]
        /\ done'  = done \cup {mTask[t]}
        /\ mTask' = [mTask EXCEPT ![t] = NULL]
        /\ UNCHANGED <<submitted, taskq, hand, chand>>
    BY <1>5 DEF FinishTask, ControlInv, ThreadInv
  <2>2. Running[t] = mTask[t] /\ Running' = [Running EXCEPT ![t] = NULL]
    BY <2>1 DEF TypeOK, Running
  <2>3. Dispatched' = Dispatched
    BY <2>1 DEF TypeOK, Dispatched
  <2>4. QED
    BY <2>1, <2>2, <2>3 DEF Pool!Finish, NULL, Pool!NULL
<1>6. ASSUME NEW t \in Thread, TakeTask(t)
      PROVE  Pool!Dispatch \/ UNCHANGED Pool!vars
  <2>1. tpc' = [tpc EXCEPT ![t] = "assign"] /\ tpc[t] = "popTask"
    BY <1>6 DEF TakeTask
  <2>2. CASE taskq = <<>>
    BY <1>6, <2>1, <2>2, StutterStep DEF TakeTask, TypeOK
  <2>3. CASE taskq # <<>>
    <3>1. /\ taskq' = Tail(taskq)
          /\ hand' = [hand EXCEPT ![t] = Head(taskq)]
          /\ hand[t] = NULL /\ Head(taskq) # NULL
          /\ UNCHANGED <<submitted, done, mTask, chand>>
      BY <1>6, <2>3, HeadTailProperties
         DEF TypeOK, TakeTask, ControlInv, ThreadInv, Task, NULL
    <3>2. Dispatched' \ {NULL} = (Dispatched \ {NULL}) \cup {Head(taskq)}
      BY <2>1, <3>1 DEF TypeOK, Dispatched
    <3>3. Running' = Running
      BY <2>1, <3>1 DEF TypeOK, Running
    <3>4. QED
      BY <2>3, <3>1, <3>2, <3>3 DEF Pool!Dispatch
  <2>4. QED
    BY <2>2, <2>3
<1>7. ASSUME NEW t \in Thread, AssignSelf(t)
      PROVE  UNCHANGED Pool!vars
  <2>1. /\ mTask[t] = NULL /\ tpc[t] = "assign"
        /\ tpc' = [tpc EXCEPT ![t] = IF hand[t] = NULL THEN "assign" ELSE "wait"]
        /\ mTask' = [mTask EXCEPT ![t] = hand[t]]
        /\ hand'  = [hand EXCEPT ![t] = NULL]
        /\ UNCHANGED <<submitted, taskq, done, chand>>
    BY <1>7 DEF AssignSelf, ControlInv, ThreadInv
  <2>2. ASSUME NEW n, n # NULL
        PROVE  n \in Dispatched' <=> n \in Dispatched
    BY <2>1, <2>2 DEF TypeOK, Dispatched
  <2>3. Dispatched' \ {NULL} = Dispatched \ {NULL}
    BY <2>2
  <2>4. Running' = Running
    BY <2>1 DEF TypeOK, Running
  <2>5. QED
    BY <2>1, <2>3, <2>4 DEF Pool!vars
<1>8. ASSUME NEW k \in Caller, EnterLock(k)
      PROVE  UNCHANGED Pool!vars
  BY <1>8, StutterStep DEF EnterLock
<1>9. ASSUME NEW k \in Caller, CheckIdle(k)
      PROVE  UNCHANGED Pool!vars
  BY <1>9, StutterStep DEF CheckIdle
<1>10. ASSUME NEW k \in Caller, PopIdle(k)
       PROVE  UNCHANGED Pool!vars
  BY <1>10, StutterStep DEF PopIdle
<1>11. ASSUME NEW k \in Caller, ListAdd(k)
       PROVE  UNCHANGED Pool!vars
  BY <1>11, StutterStep DEF ListAdd
<1>12. ASSUME NEW k \in Caller, Signal(k)
       PROVE  UNCHANGED Pool!vars
  BY <1>12, StutterStep DEF Signal
<1>13. ASSUME NEW k \in Caller, LeaveLock(k)
       PROVE  UNCHANGED Pool!vars
  BY <1>13, StutterStep DEF LeaveLock
<1>14. ASSUME NEW t \in Thread, BodyEnterLock(t)
       PROVE  UNCHANGED Pool!vars
  BY <1>14, StutterStep DEF BodyEnterLock, TypeOK
<1>15. ASSUME NEW t \in Thread, BodyLeaveLock(t)
       PROVE  UNCHANGED Pool!vars
  BY <1>15, StutterStep DEF BodyLeaveLock, TypeOK
<1>16. ASSUME NEW t \in Thread, CheckQueue(t)
       PROVE  UNCHANGED Pool!vars
  BY <1>16, StutterStep DEF CheckQueue, TypeOK
<1>17. ASSUME NEW t \in Thread, ListRemove(t)
       PROVE  UNCHANGED Pool!vars
  BY <1>17, StutterStep DEF ListRemove, TypeOK
<1>18. ASSUME NEW t \in Thread, Park(t)
       PROVE  UNCHANGED Pool!vars
  BY <1>18, StutterStep DEF Park, TypeOK, ControlInv, ThreadInv
<1>19. CASE UNCHANGED vars
  BY <1>19, StutterStep DEF vars
<1>20. QED
  BY <1>1, <1>2, <1>3, <1>4, <1>5, <1>6, <1>7, <1>8, <1>9, <1>10, <1>11,
     <1>12, <1>13, <1>14, <1>15, <1>16, <1>17, <1>18, <1>19
     DEF Next, AddTaskStep, ThreadStep, Stopped, Pool!Next, Thread, Pool!Thread

(* The pool of MyThreadPool.cpp and MyThread.cpp, with its three separately*)
(* locked containers, implements the abstract pool of tasks.               *)
THEOREM PoolRefinement == Spec => ImplementsTaskPool
<1>1. Init => Pool!Init
  BY DEF Init, Pool!Init, Dispatched, Running, NULL, Pool!NULL, Thread, Pool!Thread
<1>2. QED
  BY <1>1, PoolStep, TypeCorrect, ControlCorrect, TaskCorrect, PTL
     DEF Spec, ImplementsTaskPool, Pool!Spec
============================================================================
