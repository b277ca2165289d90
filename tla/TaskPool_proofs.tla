-------------------------- MODULE TaskPool_proofs --------------------------
(***************************************************************************)
(* Proofs about TaskPool, for any number of threads and calls: every       *)
(* accepted task is in one place, and the queue keeps the order of the     *)
(* calls.  ThreadPool implements TaskPool, and MessagePath uses two of     *)
(* them: the lemmas about the actions are for its proofs.                  *)
(***************************************************************************)
EXTENDS TaskPool, FiniteSetTheorems, SequenceTheorems, TLAPS

(* The calls whose tasks have left the queue.                              *)
Left == 1..(submitted - Len(taskq))

(* What is off the queue has been called before what is on it, and is      *)
(* dispatched, running or done.                                            *)
PoolInv ==
  /\ TypeOK
  /\ Len(taskq) <= submitted
  /\ FifoQueue
  /\ dispatched \subseteq Left /\ done \subseteq Left
  /\ \A t \in Thread : running[t] \in Left \cup {NULL}
  /\ dispatched \cap done = {}
  /\ \A t \in Thread : running[t] \notin dispatched \cup done
  /\ \A t, u \in Thread : running[t] = running[u] => t = u \/ running[t] = NULL
  /\ Left \subseteq dispatched \cup done \cup {running[t] : t \in Thread}

LEMMA PoolSizes ==
  ASSUME PoolInv
  PROVE  /\ submitted \in Nat /\ Len(taskq) \in Nat /\ submitted - Len(taskq) \in Nat
         /\ taskq \in Seq(Task)
         /\ IsFiniteSet(dispatched) /\ Cardinality(dispatched) \in Nat
         /\ NULL \notin Left
<1>1. /\ submitted \in Nat /\ Len(taskq) \in Nat /\ submitted - Len(taskq) \in Nat
      /\ taskq \in Seq(Task)
  BY LenProperties DEF PoolInv, TypeOK
<1>2. IsFiniteSet(Left)
  BY <1>1, FS_Interval DEF Left
<1>3. IsFiniteSet(dispatched)
  BY <1>2, FS_Subset DEF PoolInv
<1> QED
  BY <1>1, <1>3, FS_CardinalityType DEF Left, NULL

LEMMA PoolInit == Init => PoolInv
<1> SUFFICES ASSUME Init
             PROVE  PoolInv
  OBVIOUS
<1>1. Len(taskq) = 0 /\ taskq \in Seq(Task)
  BY EmptySeq DEF Init
<1>2. Left = {}
  BY <1>1 DEF Init, Left
<1> QED
  BY <1>1, <1>2 DEF Init, PoolInv, TypeOK, FifoQueue, NULL

LEMMA PoolSubmit ==
  ASSUME PoolInv, Submit
  PROVE  /\ PoolInv'
         /\ submitted' = submitted + 1 /\ Len(taskq') = Len(taskq) + 1
         /\ UNCHANGED <<dispatched, running, done>>
<1>1. /\ submitted' = submitted + 1 /\ taskq' = Append(taskq, submitted + 1)
      /\ UNCHANGED <<dispatched, running, done>>
  BY DEF Submit
<1>2. submitted \in Nat /\ Len(taskq) \in Nat /\ taskq \in Seq(Task) /\ submitted + 1 \in Task
  BY PoolSizes DEF Task
<1>3. /\ taskq' \in Seq(Task) /\ Len(taskq') = Len(taskq) + 1
      /\ \A i \in 1..Len(taskq) : taskq'[i] = taskq[i]
      /\ taskq'[Len(taskq) + 1] = submitted + 1
  BY <1>1, <1>2, AppendProperties
<1>4. Left' = Left /\ Len(taskq') <= submitted'
  BY <1>1, <1>2, <1>3 DEF Left, PoolInv
<1>5. TypeOK'
  BY <1>1, <1>2, <1>3 DEF PoolInv, TypeOK, Thread, Task, NULL
<1>6. FifoQueue'
  <2>1. ASSUME NEW i \in 1..Len(taskq')
        PROVE  taskq'[i] = submitted' - Len(taskq') + i
    <3>1. CASE i \in 1..Len(taskq)
      BY <1>1, <1>2, <1>3, <3>1 DEF PoolInv, FifoQueue
    <3>2. CASE i = Len(taskq) + 1
      BY <1>1, <1>2, <1>3, <3>2
    <3> QED
      BY <1>2, <1>3, <3>1, <3>2
  <2> QED
    BY <2>1 DEF FifoQueue
<1>7. PoolInv'
  BY <1>1, <1>4, <1>5, <1>6 DEF PoolInv, Thread, NULL
<1> QED
  BY <1>1, <1>3, <1>7

LEMMA PoolDispatch ==
  ASSUME PoolInv, Dispatch
  PROVE  /\ PoolInv'
         /\ Len(taskq) \in Nat /\ Len(taskq) > 0 /\ Len(taskq') = Len(taskq) - 1
         /\ dispatched' = dispatched \cup {Head(taskq)}
         /\ Cardinality(dispatched') = Cardinality(dispatched) + 1
         /\ UNCHANGED <<submitted, running, done>>
<1> DEFINE n == submitted - Len(taskq) + 1
<1>1. /\ taskq # <<>> /\ taskq' = Tail(taskq) /\ dispatched' = dispatched \cup {Head(taskq)}
      /\ UNCHANGED <<submitted, running, done>>
  BY DEF Dispatch
<1>2. /\ submitted \in Nat /\ Len(taskq) \in Nat /\ taskq \in Seq(Task)
      /\ submitted - Len(taskq) \in Nat
      /\ IsFiniteSet(dispatched) /\ Cardinality(dispatched) \in Nat /\ NULL \notin Left
  BY PoolSizes
<1>3. /\ Len(taskq) > 0 /\ Len(taskq') = Len(taskq) - 1 /\ taskq' \in Seq(Task)
      /\ Head(taskq) = taskq[1]
      /\ \A i \in 1..Len(taskq') : taskq'[i] = taskq[i + 1]
  BY <1>1, <1>2, HeadTailProperties, EmptySeq
<1>4. Head(taskq) = n /\ n \in Task /\ n # NULL
  BY <1>2, <1>3 DEF PoolInv, FifoQueue, Task, NULL
<1>5. Left' = Left \cup {n} /\ n \notin Left /\ Len(taskq') <= submitted'
  BY <1>1, <1>2, <1>3 DEF Left
<1>6. TypeOK'
  BY <1>1, <1>3, <1>4 DEF PoolInv, TypeOK, Thread, Task, NULL
<1>7. FifoQueue'
  <2>1. ASSUME NEW i \in 1..Len(taskq')
        PROVE  taskq'[i] = submitted' - Len(taskq') + i
    <3>1. i + 1 \in 1..Len(taskq)
      BY <1>2, <1>3
    <3> QED
      BY <1>1, <1>2, <1>3, <3>1 DEF PoolInv, FifoQueue
  <2> QED
    BY <2>1 DEF FifoQueue
<1>8. PoolInv'
  BY <1>1, <1>4, <1>5, <1>6, <1>7 DEF PoolInv, Thread, NULL
<1>9. Cardinality(dispatched') = Cardinality(dispatched) + 1
  <2>1. Head(taskq) \notin dispatched
    BY <1>4, <1>5 DEF PoolInv
  <2> HIDE DEF n
  <2> QED
    BY <1>1, <1>2, <2>1, FS_AddElement
<1> QED
  BY <1>1, <1>2, <1>3, <1>8, <1>9

LEMMA PoolBegin ==
  ASSUME PoolInv, NEW t \in Thread, Begin(t)
  PROVE  /\ PoolInv'
         /\ running'[t] # NULL
         /\ \A u \in Thread \ {t} : running'[u] = running[u]
         /\ running'[t] \in dispatched /\ dispatched' = dispatched \ {running'[t]}
         /\ Cardinality(dispatched') \in Nat
         /\ Cardinality(dispatched) = Cardinality(dispatched') + 1
         /\ UNCHANGED <<submitted, taskq, done>>
<1>1. PICK n \in dispatched : /\ running' = [running EXCEPT ![t] = n]
                              /\ dispatched' = dispatched \ {n}
  BY DEF Begin
<1>2. running[t] = NULL /\ UNCHANGED <<submitted, taskq, done>>
  BY DEF Begin
<1>3. /\ IsFiniteSet(dispatched) /\ Cardinality(dispatched) \in Nat /\ NULL \notin Left
      /\ n \in Left /\ n \in Task
  BY PoolSizes DEF PoolInv, TypeOK
<1>4. running'[t] = n /\ \A u \in Thread \ {t} : running'[u] = running[u]
  BY <1>1 DEF PoolInv, TypeOK
<1>5. TypeOK'
  BY <1>1, <1>2, <1>3 DEF PoolInv, TypeOK, Thread, Task, NULL
<1>6. Left' = Left /\ FifoQueue' /\ Len(taskq') <= submitted'
  BY <1>2 DEF PoolInv, Left, FifoQueue
<1>7. Left \subseteq dispatched' \cup done \cup {running'[u] : u \in Thread}
  BY <1>1, <1>2, <1>3, <1>4 DEF PoolInv
<1>8. \A u, v \in Thread : running'[u] = running'[v] => u = v \/ running'[u] = NULL
  BY <1>4 DEF PoolInv
<1>9. PoolInv'
  BY <1>1, <1>2, <1>3, <1>4, <1>5, <1>6, <1>7, <1>8 DEF PoolInv, Thread, NULL
<1>10. /\ Cardinality(dispatched') \in Nat
       /\ Cardinality(dispatched) = Cardinality(dispatched') + 1
  <2>1. Cardinality(dispatched \ {n}) = Cardinality(dispatched) - 1 /\ IsFiniteSet(dispatched \ {n})
    BY <1>3, FS_RemoveElement
  <2>2. Cardinality(dispatched') \in Nat
    BY <1>1, <2>1, FS_CardinalityType
  <2> QED
    BY <1>1, <1>3, <2>1, <2>2
<1> QED
  BY <1>1, <1>2, <1>3, <1>4, <1>9, <1>10

LEMMA PoolFinish ==
  ASSUME PoolInv, NEW t \in Thread, Finish(t)
  PROVE  /\ PoolInv'
         /\ running[t] # NULL /\ running'[t] = NULL
         /\ \A u \in Thread \ {t} : running'[u] = running[u]
         /\ UNCHANGED <<submitted, taskq, dispatched>>
<1> DEFINE n == running[t]
<1>1. /\ n # NULL /\ done' = done \cup {n} /\ running' = [running EXCEPT ![t] = NULL]
      /\ UNCHANGED <<submitted, taskq, dispatched>>
  BY DEF Finish
<1>2. n \in Left /\ n \in Task
  BY <1>1 DEF PoolInv, TypeOK
<1>3. running'[t] = NULL /\ \A u \in Thread \ {t} : running'[u] = running[u]
  BY <1>1 DEF PoolInv, TypeOK
<1>4. TypeOK'
  BY <1>1, <1>2 DEF PoolInv, TypeOK, Thread, Task, NULL
<1>5. Left' = Left /\ FifoQueue' /\ Len(taskq') <= submitted' /\ NULL \notin Left
  BY <1>1, PoolSizes DEF PoolInv, Left, FifoQueue
<1>6. Left \subseteq dispatched \cup done' \cup {running'[u] : u \in Thread}
  BY <1>1, <1>3 DEF PoolInv
<1>7. \A u, v \in Thread : running'[u] = running'[v] => u = v \/ running'[u] = NULL
  BY <1>3 DEF PoolInv
<1>8. dispatched' \cap done' = {} /\ \A u \in Thread : running'[u] \notin dispatched' \cup done'
  BY <1>1, <1>2, <1>3, <1>5 DEF PoolInv
<1>9. PoolInv'
  BY <1>1, <1>2, <1>3, <1>4, <1>5, <1>6, <1>7, <1>8 DEF PoolInv, Thread, NULL
<1> QED
  BY <1>1, <1>3, <1>9

(* When as many tasks are done as have been handed in, nothing is left to  *)
(* do.                                                                     *)
LEMMA PoolAllDone ==
  ASSUME PoolInv, NEW n \in Nat, submitted <= n, Cardinality(done) = n
  PROVE  /\ submitted = n /\ taskq = <<>> /\ dispatched = {}
         /\ \A t \in Thread : running[t] = NULL
<1> DEFINE m == submitted - Len(taskq)
<1>1. submitted \in Nat /\ Len(taskq) \in Nat /\ m \in Nat /\ taskq \in Seq(Task)
  BY PoolSizes
<1>2. IsFiniteSet(Left) /\ Cardinality(Left) = m
  <2>1. IsFiniteSet(1..m) /\ Cardinality(1..m) = m
    <3>1. 1 \in Int /\ m \in Int /\ m \in Nat
      BY <1>1
    <3> HIDE DEF m
    <3> QED
      BY <3>1, FS_Interval
  <2> QED
    BY <1>1, <2>1 DEF Left
<1>3. Cardinality(done) <= m
  BY <1>2, FS_Subset DEF PoolInv
<1>4. m = n /\ submitted = n /\ Len(taskq) = 0
  BY <1>1, <1>3
<1>5. done = Left
  BY <1>2, <1>4, FS_Subset DEF PoolInv
<1> QED
  BY <1>1, <1>4, <1>5, EmptySeq DEF PoolInv

-----------------------------------------------------------------------------

LEMMA PoolStep == PoolInv /\ [Next]_vars => PoolInv'
<1> SUFFICES ASSUME PoolInv, [Next]_vars
             PROVE  PoolInv'
  OBVIOUS
<1>1. CASE UNCHANGED vars
  BY <1>1 DEF vars, PoolInv, TypeOK, FifoQueue, Left, Thread, Task, NULL
<1> QED
  BY <1>1, PoolSubmit, PoolDispatch, PoolBegin, PoolFinish DEF Next

(* No execution that addTask has accepted is lost, and none happens twice, *)
(* whatever the number of threads of the pool.                             *)
THEOREM OnePlaceAlways == Spec => []ExactlyOnePlace
<1>1. PoolInv => ExactlyOnePlace
  <2> SUFFICES ASSUME PoolInv, NEW n \in 1..submitted
               PROVE  /\ n \in Queued => n \notin dispatched \cup done /\ \A t \in Thread : running[t] # n
                      /\ n \in dispatched => n \notin done /\ \A t \in Thread : running[t] # n
                      /\ \A t \in Thread :
                           running[t] = n => n \notin done /\ \A u \in Thread \ {t} : running[u] # n
                      /\ n \in Queued \cup dispatched \cup done \cup {running[t] : t \in Thread}
    BY DEF ExactlyOnePlace
  <2>1. submitted \in Nat /\ Len(taskq) \in Nat /\ submitted - Len(taskq) \in Nat /\ NULL \notin Left
    BY PoolSizes
  <2>2. n \in Queued <=> n \notin Left
    <3>1. CASE n \in Left
      BY <2>1, <3>1 DEF PoolInv, FifoQueue, Queued, Left
    <3>2. CASE n \notin Left
      <4>1. /\ n - (submitted - Len(taskq)) \in 1..Len(taskq)
            /\ n = submitted - Len(taskq) + (n - (submitted - Len(taskq)))
        BY <2>1, <3>2 DEF PoolInv, Left
      <4>2. taskq[n - (submitted - Len(taskq))] = n
        BY <2>1, <4>1 DEF PoolInv, FifoQueue
      <4> QED
        BY <3>2, <4>1, <4>2 DEF Queued
    <3> QED
      BY <3>1, <3>2
  <2>3. n # NULL
    BY DEF NULL
  <2> QED
    BY <2>2, <2>3 DEF PoolInv
<1> QED
  BY <1>1, PoolInit, PoolStep, PTL DEF Spec

(* Tasks leave the queue in the order of the addTask calls.                *)
THEOREM FifoQueueAlways == Spec => []FifoQueue
<1>1. PoolInv => FifoQueue
  BY DEF PoolInv
<1> QED
  BY <1>1, PoolInit, PoolStep, PTL DEF Spec
=============================================================================
