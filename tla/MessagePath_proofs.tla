------------------------ MODULE MessagePath_proofs ------------------------
(***************************************************************************)
(* Proofs about MessagePath, for any numbers of connections, IOCP workers, *)
(* threads and messages: its types, that no socket is answered with bytes  *)
(* older than the message it was read with, that there is a save task for  *)
(* every queued datum, and that messages that come one at a time are       *)
(* answered once each.                                                     *)
(***************************************************************************)
EXTENDS MessagePath, FiniteSetTheorems, SequenceTheorems, TLAPS

WorkP == INSTANCE TaskPool_proofs WITH NumThreads <- NumWork, MaxCalls <- MaxComps,
           submitted <- wSub, taskq <- wQ, dispatched <- wDisp,
           running <- wRun, done <- wDone

SaveP == INSTANCE TaskPool_proofs WITH NumThreads <- NumSave, MaxCalls <- MaxComps,
           submitted <- sSub, taskq <- sQ, dispatched <- sDisp,
           running <- sRun, done <- sDone

-----------------------------------------------------------------------------
(* The inductive invariant                                                 *)

Newest == Len(comps)

NetInv ==
  /\ link \in [Conn -> {"none", "data", "aborted", "busy", "posted", "gone"}]
  /\ closed \subseteq Conn

(* m_SocReUnit holds the newest completion, and a work task has been       *)
(* queued for it, unless its worker is still at it.                        *)
RecInv ==
  /\ comps \in Seq([conn : Conn, empty : BOOLEAN])
  /\ wpc \in [Worker -> {"wait", "copy", "len", "sock", "add", "post"}]
  /\ wcomp \in [Worker -> 0..Newest]
  /\ \A w \in Worker : wpc[w] = "post" => wcomp[w] \in Comp
  /\ \A w \in Worker : recLock = w <=> wpc[w] \in {"copy", "len", "sock", "add"}
  /\ \/ recLock = Free /\ recData = Newest /\ recLen = Newest /\ recSock = Newest
        /\ wSub = Newest
     \/ \E w \in Worker :
          /\ recLock = w /\ wcomp[w] = Newest
          /\ Newest > 0 /\ wSub = Newest - 1
          /\ recData = IF wpc[w] = "copy" THEN Torn ELSE Newest
          /\ recLen  = IF wpc[w] \in {"sock", "add"} THEN Newest ELSE Newest - 1
          /\ recSock = IF wpc[w] = "add" THEN Newest ELSE Newest - 1

(* A thread that is not parked runs a task.                                *)
WorkTasks ==
  /\ WorkP!PoolInv
  /\ kpc \in [WorkThread -> {"parked", "len", "sock", "check", "save", "copy",
                             "queue", "add", "end"}]
  /\ \A k \in WorkThread : kpc[k] = "parked" <=> wRun[k] = None

SaveTasks ==
  /\ SaveP!PoolInv
  /\ spc \in [SaveThread -> {"parked", "pop", "args", "data", "reply", "end"}]
  /\ \A s \in SaveThread : spc[s] = "parked" <=> sRun[s] = None

(* What a work thread has read is of some completion.                      *)
WorkInv ==
  /\ klen \in [WorkThread -> 0..Newest]
  /\ ksock \in [WorkThread -> 0..Newest]
  /\ \A k \in WorkThread :
       kpc[k] \in {"check", "save", "copy", "queue", "add"} => ksock[k] # None

SlotInv ==
  /\ \A k \in WorkThread : saveLock = k <=> kpc[k] \in {"copy", "queue", "add"}
  /\ slotData \in [WorkThread -> 0..Newest \cup {Torn}]
  /\ slotSock \in [WorkThread -> 0..Newest]
  /\ saveQ \in Seq(WorkThread)
  /\ \A k \in WorkThread : kpc[k] = "add" => slotSock[k] # None
  /\ \A i \in 1..Len(saveQ) : slotSock[saveQ[i]] # None
  /\ \A k \in WorkThread : kpc[k] = "queue" => NoOlder(slotData[k], ksock[k])
  /\ \A k \in WorkThread : NoOlder(slotData[k], slotSock[k])

(* What a save thread has read is of a datum that has been queued.         *)
SaveInv ==
  /\ sptr \in [SaveThread -> WorkThread \cup {None}]
  /\ ssock \in [SaveThread -> 0..Newest]
  /\ sdata \in [SaveThread -> 0..Newest \cup {Torn}]
  /\ \A s \in SaveThread : spc[s] \in {"args", "data"} => sptr[s] \in WorkThread
  /\ \A s \in SaveThread : spc[s] = "args" => slotSock[sptr[s]] # None
  /\ \A s \in SaveThread : spc[s] \in {"data", "reply"} => ssock[s] # None
  /\ \A s \in SaveThread : spc[s] = "data" => NoOlder(slotData[sptr[s]], ssock[s])
  /\ \A s \in SaveThread : spc[s] = "reply" => NoOlder(sdata[s], ssock[s])

PathInv ==
  /\ oneAtATime \in BOOLEAN
  /\ NetInv /\ RecInv /\ WorkTasks /\ SaveTasks /\ WorkInv /\ SlotInv /\ SaveInv

-----------------------------------------------------------------------------
(* Simple facts                                                            *)

LEMMA Sizes ==
  /\ WorkThread = 1..NumWork /\ SaveThread = 1..NumSave /\ None = 0 /\ None \notin WorkThread
  /\ Torn \notin Nat /\ Free \notin Worker /\ Free \notin WorkThread
  BY MessagePathAssumption
  DEF WorkThread, SaveThread, Work!Thread, Save!Thread, None

LEMMA PathTypes == PathInv => TypeOK
<1> SUFFICES ASSUME PathInv
             PROVE  TypeOK
  OBVIOUS
<1>1. Newest \in Nat /\ Comp = 1..Newest /\ Comp \cup {None} = 0..Newest
      /\ Bytes = 0..Newest \cup {Torn}
  <2>1. Newest \in Nat
    BY LenProperties DEF PathInv, RecInv, Newest
  <2> QED
    BY <2>1 DEF Comp, Bytes, None, Newest
<1>2. \A i \in Comp : comps[i].conn \in Conn /\ comps[i].empty \in BOOLEAN
  <2>1. \A i \in Comp : comps[i] \in [conn : Conn, empty : BOOLEAN]
    BY ElementOfSeq DEF PathInv, RecInv, Comp
  <2> QED
    BY <2>1
<1>3. recData \in Bytes /\ recLen \in Comp \cup {None} /\ recSock \in Comp \cup {None}
  BY <1>1 DEF PathInv, RecInv
<1>4. Work!TypeOK /\ Save!TypeOK
  BY DEF PathInv, WorkTasks, SaveTasks, WorkP!PoolInv, SaveP!PoolInv,
         Work!TypeOK, WorkP!TypeOK, Save!TypeOK, SaveP!TypeOK, Work!Task, WorkP!Task,
         Save!Task, SaveP!Task, Work!Thread, WorkP!Thread, Save!Thread, SaveP!Thread,
         Work!NULL, WorkP!NULL, Save!NULL, SaveP!NULL
<1> QED
  BY <1>1, <1>2, <1>3, <1>4
  DEF TypeOK, PathInv, NetInv, RecInv, WorkTasks, SaveTasks, WorkInv, SlotInv, SaveInv

LEMMA PathInit == Init => PathInv
<1> SUFFICES ASSUME Init
             PROVE  PathInv
  OBVIOUS
<1>1. Newest = 0 /\ Len(saveQ) = 0 /\ comps \in Seq([conn : Conn, empty : BOOLEAN])
      /\ saveQ \in Seq(WorkThread)
  BY EmptySeq DEF Init, Newest
<1>2. WorkP!PoolInv /\ SaveP!PoolInv
  <2>1. WorkP!Init /\ SaveP!Init
    BY DEF Init, Work!Init, WorkP!Init, Save!Init, SaveP!Init, Work!Thread, WorkP!Thread,
           Save!Thread, SaveP!Thread, Work!NULL, WorkP!NULL, Save!NULL, SaveP!NULL
  <2> QED
    BY <2>1, WorkP!PoolInit, SaveP!PoolInit
<1>3. wSub = 0 /\ wRun = [k \in WorkThread |-> None] /\ sRun = [s \in SaveThread |-> None]
  BY DEF Init, Work!Init, Save!Init, WorkThread, SaveThread, Work!NULL, Save!NULL, None
<1>4. NetInv /\ RecInv
  BY <1>1, <1>3, Sizes DEF Init, NetInv, RecInv, None
<1>5. WorkTasks /\ SaveTasks
  BY <1>2, <1>3 DEF Init, WorkTasks, SaveTasks
<1>6. WorkInv /\ SlotInv /\ SaveInv
  BY <1>1, Sizes DEF Init, WorkInv, SlotInv, SaveInv, NoOlder
<1> QED
  BY <1>4, <1>5, <1>6 DEF Init, PathInv

-----------------------------------------------------------------------------
(* The steps, and what each of them leaves alone                           *)

ClientStep   == \E c \in Conn : Arrive(c) \/ Reset(c) \/ \E w \in Worker : ClientClosed(w, c)
WorkDispatch == Work!Dispatch /\ UNCHANGED sPool
SaveDispatch == Save!Dispatch /\ UNCHANGED wPool

LEMMA NextSteps ==
  ASSUME [Next]_vars
  PROVE  /\ oneAtATime' = oneAtATime
         /\ \/ ClientStep
            \/ \E w \in Worker : \/ \E c \in Conn : Receive(w, c)
                                 \/ SetData(w) \/ SetLen(w) \/ SetSock(w)
                                 \/ AddWorkTask(w) \/ PostReceive(w)
            \/ PoolStep
            \/ \E k \in WorkThread : WorkStep(k)
            \/ \E s \in SaveThread : SaveStep(s)
            \/ UNCHANGED vars
  BY DEF Next, WorkerStep, ClientStep, Quiet, vars

(* A part of the invariant holds on when the variables it is about do not  *)
(* change.                                                                 *)
LEMMA PathKept ==
  ASSUME PathInv
  PROVE  /\ UNCHANGED netVars => NetInv'
         /\ UNCHANGED <<iocpVars, recVars, wSub>> => RecInv'
         /\ UNCHANGED <<kpc, wPool>> => WorkTasks'
         /\ UNCHANGED <<spc, sPool>> => SaveTasks'
         /\ UNCHANGED <<comps, workVars>> => WorkInv'
         /\ UNCHANGED <<comps, kpc, ksock, slotVars>> => SlotInv'
         /\ UNCHANGED <<comps, spc, sptr, ssock, sdata, slotData, slotSock>> => SaveInv'
<1>1. UNCHANGED netVars => NetInv'
  BY DEF PathInv, NetInv, netVars
<1>2. UNCHANGED <<iocpVars, recVars, wSub>> => RecInv'
  BY DEF PathInv, RecInv, iocpVars, recVars, Newest, Comp
<1>3. UNCHANGED <<kpc, wPool>> => WorkTasks'
  <2>1. UNCHANGED wPool => WorkP!PoolInv'
    BY WorkP!PoolStep DEF PathInv, WorkTasks, wPool, WorkP!vars
  <2> QED
    BY <2>1 DEF PathInv, WorkTasks, wPool, WorkThread, Work!Thread, None
<1>4. UNCHANGED <<spc, sPool>> => SaveTasks'
  <2>1. UNCHANGED sPool => SaveP!PoolInv'
    BY SaveP!PoolStep DEF PathInv, SaveTasks, sPool, SaveP!vars
  <2> QED
    BY <2>1 DEF PathInv, SaveTasks, sPool, SaveThread, Save!Thread, None
<1>5. UNCHANGED <<comps, workVars>> => WorkInv'
  BY DEF PathInv, WorkInv, workVars, Newest, WorkThread, Work!Thread, None
<1>6. UNCHANGED <<comps, kpc, ksock, slotVars>> => SlotInv'
  BY DEF PathInv, SlotInv, slotVars, Newest, WorkThread, Work!Thread, None, NoOlder
<1>7. UNCHANGED <<comps, spc, sptr, ssock, sdata, slotData, slotSock>> => SaveInv'
  BY DEF PathInv, SaveInv, Newest, WorkThread, Work!Thread, SaveThread, Save!Thread,
         None, NoOlder
<1> QED
  BY <1>1, <1>2, <1>3, <1>4, <1>5, <1>6, <1>7

(* The facts about the newest completion that the steps need.              *)
LEMMA NewestFacts ==
  ASSUME PathInv
  PROVE  /\ Newest \in Nat /\ Comp = 1..Newest
         /\ comps \in Seq([conn : Conn, empty : BOOLEAN])
         /\ \A i \in Comp : comps[i] \in [conn : Conn, empty : BOOLEAN]
         /\ recData \in {Torn, Newest}
         /\ recLen \in 0..Newest /\ recSock \in 0..Newest
         /\ wSub \in 0..Newest /\ (wSub > 0 => recSock > 0)
<1>1. Newest \in Nat /\ Comp = 1..Newest
      /\ comps \in Seq([conn : Conn, empty : BOOLEAN])
  BY LenProperties DEF PathInv, RecInv, Newest, Comp
<1>2. \A i \in Comp : comps[i] \in [conn : Conn, empty : BOOLEAN]
  BY <1>1, ElementOfSeq DEF Comp
<1>3. /\ recData \in {Torn, Newest}
      /\ recLen \in 0..Newest /\ recSock \in 0..Newest
      /\ wSub \in 0..Newest /\ (wSub > 0 => recSock > 0)
  BY <1>1 DEF PathInv, RecInv
<1> QED
  BY <1>1, <1>2, <1>3

-----------------------------------------------------------------------------
(* Every step preserves the invariant                                      *)

LEMMA StepClient == PathInv /\ ClientStep /\ UNCHANGED oneAtATime => PathInv'
<1> SUFFICES ASSUME PathInv, ClientStep, UNCHANGED oneAtATime
             PROVE  PathInv'
  OBVIOUS
<1>1. /\ UNCHANGED <<iocpVars, recVars, workVars, slotVars, saveVars, wPool, sPool>>
      /\ NetInv'
  BY DEF ClientStep, Arrive, Reset, ClientClosed, PathInv, NetInv
<1> QED
  BY <1>1, PathKept DEF PathInv, iocpVars, recVars, workVars, slotVars, saveVars, wPool, sPool

LEMMA StepReceive ==
  ASSUME PathInv, NEW w \in Worker, NEW c \in Conn, Receive(w, c), UNCHANGED oneAtATime
  PROVE  PathInv'
<1> DEFINE e == [conn |-> c, empty |-> link[c] = "aborted"]
<1>1. /\ wpc[w] = "wait" /\ wpc' = [wpc EXCEPT ![w] = "copy"]
      /\ recLock = Free /\ recLock' = w
      /\ comps' = Append(comps, e)
      /\ wcomp' = [wcomp EXCEPT ![w] = Newest + 1]
      /\ link' = [link EXCEPT ![c] = "busy"]
      /\ recData' = Torn
      /\ UNCHANGED <<closed, recLen, recSock, workVars, slotVars, saveVars, wPool, sPool>>
  BY DEF Receive, WorkerAt, Newest
<1>2. Newest \in Nat /\ comps \in Seq([conn : Conn, empty : BOOLEAN])
  BY NewestFacts
<1>3. comps' \in Seq([conn : Conn, empty : BOOLEAN]) /\ Newest' = Newest + 1
  <2>1. e \in [conn : Conn, empty : BOOLEAN]
    OBVIOUS
  <2> HIDE DEF e
  <2> QED
    BY <1>1, <1>2, <2>1, AppendProperties DEF Newest
<1>4. 0..Newest \subseteq 0..Newest' /\ Comp \subseteq Comp'
  BY <1>2, <1>3 DEF Newest, Comp
<1>5. NetInv'
  BY <1>1 DEF PathInv, NetInv
<1>6. RecInv'
  <2>1. /\ wpc' \in [Worker -> {"wait", "copy", "len", "sock", "add", "post"}]
        /\ wcomp' \in [Worker -> 0..Newest']
        /\ \A v \in Worker : wpc'[v] = "post" => wcomp'[v] \in Comp'
    BY <1>1, <1>2, <1>3, <1>4 DEF PathInv, RecInv
  <2>2. \A v \in Worker : recLock' = v <=> wpc'[v] \in {"copy", "len", "sock", "add"}
    BY <1>1, Sizes DEF PathInv, RecInv
  <2>3. /\ wcomp'[w] = Newest' /\ wpc'[w] = "copy" /\ wSub' = Newest' - 1
        /\ recLen' = Newest' - 1 /\ recSock' = Newest' - 1 /\ Newest' > 0
    BY <1>1, <1>2, <1>3, Sizes DEF PathInv, RecInv, wPool
  <2> QED
    BY <1>1, <1>3, <2>1, <2>2, <2>3 DEF RecInv
<1>7. WorkInv'
  BY <1>1, <1>4 DEF PathInv, WorkInv, workVars, WorkThread, Work!Thread, None
<1>8. SlotInv'
  BY <1>1, <1>4
  DEF PathInv, SlotInv, workVars, slotVars, WorkThread, Work!Thread, None, NoOlder
<1>9. SaveInv'
  BY <1>1, <1>4
  DEF PathInv, SaveInv, slotVars, saveVars, WorkThread, Work!Thread, SaveThread,
      Save!Thread, None, NoOlder
<1> QED
  BY <1>1, <1>5, <1>6, <1>7, <1>8, <1>9, PathKept
  DEF PathInv, workVars, saveVars, wPool, sPool

(* The worker that holds m_RECdataLock is at the newest completion.        *)
LEMMA StepWrite ==
  ASSUME PathInv, NEW w \in Worker, SetData(w) \/ SetLen(w) \/ SetSock(w), UNCHANGED oneAtATime
  PROVE  PathInv'
<1>1. /\ wpc' = [wpc EXCEPT ![w] = IF @ = "copy" THEN "len" ELSE IF @ = "len" THEN "sock" ELSE "add"]
      /\ wpc[w] \in {"copy", "len", "sock"}
      /\ recData' = IF wpc[w] = "copy" THEN wcomp[w] ELSE recData
      /\ recLen' = IF wpc[w] = "len" THEN wcomp[w] ELSE recLen
      /\ recSock' = IF wpc[w] = "sock" THEN wcomp[w] ELSE recSock
      /\ UNCHANGED <<netVars, comps, wcomp, recLock, workVars, slotVars, saveVars, wPool, sPool>>
  BY DEF SetData, SetLen, SetSock, WorkerAt, PathInv, RecInv
<1>2. recLock = w /\ recLock # Free
  BY <1>1, Sizes DEF PathInv, RecInv
<1>3. /\ wcomp[w] = Newest /\ Newest > 0 /\ wSub = Newest - 1
      /\ recData = IF wpc[w] = "copy" THEN Torn ELSE Newest
      /\ recLen  = IF wpc[w] \in {"sock", "add"} THEN Newest ELSE Newest - 1
      /\ recSock = IF wpc[w] = "add" THEN Newest ELSE Newest - 1
  BY <1>2 DEF PathInv, RecInv
<1>4. RecInv'
  <2>1. /\ wpc' \in [Worker -> {"wait", "copy", "len", "sock", "add", "post"}]
        /\ comps' = comps /\ Newest' = Newest /\ Comp' = Comp
        /\ wcomp' = wcomp /\ recLock' = recLock /\ wSub' = wSub
    BY <1>1 DEF PathInv, RecInv, Newest, Comp, wPool
  <2>2. \A v \in Worker : wpc'[v] = "post" => wcomp'[v] \in Comp'
    BY <1>1, <2>1 DEF PathInv, RecInv
  <2>3. \A v \in Worker : recLock' = v <=> wpc'[v] \in {"copy", "len", "sock", "add"}
    BY <1>1, <2>1 DEF PathInv, RecInv
  <2>4. /\ wpc'[w] = IF wpc[w] = "copy" THEN "len" ELSE IF wpc[w] = "len" THEN "sock" ELSE "add"
    BY <1>1 DEF PathInv, RecInv
  <2>5. /\ recData' = Newest
        /\ recLen' = IF wpc'[w] \in {"sock", "add"} THEN Newest ELSE Newest - 1
        /\ recSock' = IF wpc'[w] = "add" THEN Newest ELSE Newest - 1
        /\ wpc'[w] # "copy"
    BY <1>1, <1>3, <2>4
  <2> QED
    BY <1>2, <1>3, <2>1, <2>2, <2>3, <2>5 DEF PathInv, RecInv
<1> QED
  BY <1>1, <1>4, PathKept
  DEF PathInv, netVars, workVars, slotVars, saveVars, wPool, sPool

LEMMA StepAddWorkTask ==
  ASSUME PathInv, NEW w \in Worker, AddWorkTask(w), UNCHANGED oneAtATime
  PROVE  PathInv'
<1>1. /\ wpc[w] = "add" /\ wpc' = [wpc EXCEPT ![w] = "post"] /\ recLock' = Free
      /\ WorkP!Submit
      /\ UNCHANGED <<netVars, comps, wcomp, recData, recLen, recSock, workVars, slotVars,
                     saveVars, sPool>>
  BY DEF AddWorkTask, WorkerAt, Work!Submit, WorkP!Submit
<1>2. recLock = w /\ recLock # Free
  BY <1>1, Sizes DEF PathInv, RecInv
<1>3. /\ wcomp[w] = Newest /\ Newest > 0 /\ wSub = Newest - 1
      /\ recData = Newest /\ recLen = Newest /\ recSock = Newest
  BY <1>1, <1>2 DEF PathInv, RecInv
<1>4. WorkP!PoolInv' /\ wSub' = wSub + 1 /\ wRun' = wRun
  BY <1>1, WorkP!PoolSubmit DEF PathInv, WorkTasks
<1>5. RecInv'
  <2>1. Newest \in Nat /\ Newest' = Newest /\ Comp' = Comp /\ Comp = 1..Newest
    BY <1>1, NewestFacts DEF Newest, Comp
  <2>2. /\ wpc' \in [Worker -> {"wait", "copy", "len", "sock", "add", "post"}]
        /\ \A v \in Worker : wpc'[v] = "post" => wcomp'[v] \in Comp'
    BY <1>1, <1>3, <2>1 DEF PathInv, RecInv
  <2>3. \A v \in Worker : recLock' = v <=> wpc'[v] \in {"copy", "len", "sock", "add"}
    BY <1>1, <1>2, Sizes DEF PathInv, RecInv
  <2>4. recData' = Newest' /\ recLen' = Newest' /\ recSock' = Newest' /\ wSub' = Newest'
    BY <1>1, <1>3, <1>4, <2>1
  <2> QED
    BY <1>1, <2>1, <2>2, <2>3, <2>4 DEF PathInv, RecInv
<1>6. WorkTasks'
  BY <1>1, <1>4 DEF PathInv, WorkTasks, workVars, WorkThread, Work!Thread, None
<1> QED
  BY <1>1, <1>5, <1>6, PathKept
  DEF PathInv, netVars, workVars, slotVars, saveVars, sPool

LEMMA StepPostReceive ==
  ASSUME PathInv, NEW w \in Worker, PostReceive(w), UNCHANGED oneAtATime
  PROVE  PathInv'
<1> DEFINE c == comps[wcomp[w]].conn
<1>1. /\ wpc[w] = "post" /\ wpc' = [wpc EXCEPT ![w] = "wait"]
      /\ link' = [link EXCEPT ![c] = IF c \in closed THEN "gone" ELSE "posted"]
      /\ wcomp' = [wcomp EXCEPT ![w] = None]
      /\ UNCHANGED <<closed, comps, recVars, workVars, slotVars, saveVars, wPool, sPool>>
  BY DEF PostReceive, WorkerAt
<1>2. NetInv'
  <2>1. closed' = closed /\ link' \in [Conn -> {"none", "data", "aborted", "busy", "posted", "gone"}]
    BY <1>1 DEF PathInv, NetInv
  <2> QED
    BY <2>1 DEF PathInv, NetInv
<1>3. RecInv'
  <2>1. Newest \in Nat /\ Newest' = Newest /\ Comp' = Comp
    BY <1>1, NewestFacts DEF Newest, Comp
  <2>2. /\ wpc' \in [Worker -> {"wait", "copy", "len", "sock", "add", "post"}]
        /\ wcomp' \in [Worker -> 0..Newest']
        /\ \A v \in Worker : wpc'[v] = "post" => wcomp'[v] \in Comp'
    BY <1>1, <2>1 DEF PathInv, RecInv, None
  <2>3. \A v \in Worker : recLock' = v <=> wpc'[v] \in {"copy", "len", "sock", "add"}
    BY <1>1 DEF PathInv, RecInv, recVars
  <2>4. \A v \in Worker : v # w => wpc'[v] = wpc[v] /\ wcomp'[v] = wcomp[v]
    BY <1>1 DEF PathInv, RecInv
  <2>5. recLock # w
    BY <1>1 DEF PathInv, RecInv
  <2> QED
    BY <1>1, <2>1, <2>2, <2>3, <2>4, <2>5 DEF PathInv, RecInv, recVars, wPool
<1> QED
  BY <1>1, <1>2, <1>3, PathKept
  DEF PathInv, workVars, slotVars, saveVars, wPool, sPool

(* A pool hands a task to its threads.                                     *)
LEMMA StepDispatch == PathInv /\ PoolStep /\ UNCHANGED oneAtATime => PathInv'
<1> SUFFICES ASSUME PathInv, PoolStep, UNCHANGED oneAtATime
             PROVE  PathInv'
  OBVIOUS
<1>1. UNCHANGED <<netVars, iocpVars, recVars, workVars, slotVars, saveVars>>
  BY DEF PoolStep
<1>2. wSub' = wSub /\ WorkTasks' /\ SaveTasks'
  <2>1. CASE WorkDispatch
    <3>1. WorkP!Dispatch /\ UNCHANGED sPool
      BY <2>1 DEF WorkDispatch, Work!Dispatch, WorkP!Dispatch
    <3>2. WorkP!PoolInv' /\ wSub' = wSub /\ wRun' = wRun
      BY <3>1, WorkP!PoolDispatch DEF PathInv, WorkTasks
    <3> QED
      BY <1>1, <3>1, <3>2, PathKept
      DEF PathInv, WorkTasks, workVars, saveVars, WorkThread, Work!Thread, None
  <2>2. CASE SaveDispatch
    <3>1. SaveP!Dispatch /\ UNCHANGED wPool
      BY <2>2 DEF SaveDispatch, Save!Dispatch, SaveP!Dispatch
    <3>2. SaveP!PoolInv' /\ sRun' = sRun
      BY <3>1, SaveP!PoolDispatch DEF PathInv, SaveTasks
    <3> QED
      BY <1>1, <3>1, <3>2, PathKept
      DEF PathInv, SaveTasks, wPool, workVars, saveVars, SaveThread, Save!Thread, None
  <2> QED
    BY <2>1, <2>2 DEF PoolStep, Dispatch, WorkDispatch, SaveDispatch
<1> QED
  BY <1>1, <1>2, PathKept DEF PathInv, iocpVars, recVars, workVars, slotVars, saveVars

(* A work thread at work has been given a task, so a message has come.     *)
LEMMA WorkMeansMessage ==
  ASSUME PathInv, NEW k \in WorkThread, kpc[k] # "parked"
  PROVE  recSock > 0
<1>1. wRun[k] # None /\ wRun[k] \in 1..(wSub - Len(wQ)) \cup {None}
  BY DEF PathInv, WorkTasks, WorkP!PoolInv, WorkP!Left, WorkP!NULL, WorkP!Thread,
         WorkThread, Work!Thread, None
<1>2. wSub \in Nat /\ Len(wQ) \in Nat
  BY WorkP!PoolSizes DEF PathInv, WorkTasks
<1> QED
  BY <1>1, <1>2, NewestFacts

LEMMA StepBeginWork ==
  ASSUME PathInv, NEW k \in WorkThread, BeginWork(k), UNCHANGED oneAtATime
  PROVE  PathInv'
<1>1. /\ kpc[k] = "parked" /\ kpc' = [kpc EXCEPT ![k] = "len"]
      /\ WorkP!Begin(k) /\ k \in WorkP!Thread
      /\ UNCHANGED <<netVars, iocpVars, recVars, klen, ksock, slotVars, saveVars, sPool>>
  BY DEF BeginWork, WorkAt, Work!Begin, WorkP!Begin, Work!NULL, WorkP!NULL, WorkThread,
         Work!Thread, WorkP!Thread
<1>2. /\ WorkP!PoolInv' /\ wSub' = wSub /\ wRun'[k] # None
      /\ \A j \in WorkThread \ {k} : wRun'[j] = wRun[j]
  BY <1>1, WorkP!PoolBegin
  DEF PathInv, WorkTasks, WorkP!NULL, None, WorkThread, Work!Thread, WorkP!Thread
<1>3. WorkTasks'
  BY <1>1, <1>2 DEF PathInv, WorkTasks, WorkThread, Work!Thread, None
<1>4. WorkInv'
  BY <1>1 DEF PathInv, WorkTasks, WorkInv, iocpVars, Newest, WorkThread, Work!Thread, None
<1>5. SlotInv'
  BY <1>1
  DEF PathInv, WorkTasks, SlotInv, iocpVars, slotVars, Newest, WorkThread, Work!Thread,
      None, NoOlder
<1> QED
  BY <1>1, <1>2, <1>3, <1>4, <1>5, PathKept DEF PathInv, slotVars, saveVars, iocpVars

LEMMA StepRead ==
  ASSUME PathInv, NEW k \in WorkThread, ReadLen(k) \/ ReadSock(k) \/ CheckLen(k),
         UNCHANGED oneAtATime
  PROVE  PathInv'
<1>1. /\ kpc[k] \in {"len", "sock", "check"}
      /\ \E there \in {"sock", "check", "end", "save"} :
           /\ kpc' = [kpc EXCEPT ![k] = there]
           /\ there \in {"check", "save"} => ksock'[k] # None
      /\ klen' \in [WorkThread -> 0..Newest] /\ ksock' \in [WorkThread -> 0..Newest]
      /\ \A j \in WorkThread \ {k} : ksock'[j] = ksock[j]
      /\ UNCHANGED <<netVars, iocpVars, recVars, slotVars, saveVars, wPool, sPool>>
  <2>1. CASE ReadLen(k)
    BY <2>1, NewestFacts DEF ReadLen, WorkAt, PathInv, WorkInv
  <2>2. CASE ReadSock(k)
    <3>1. recSock \in 0..Newest /\ recSock # None
      BY <2>2, NewestFacts, WorkMeansMessage DEF ReadSock, WorkAt, None
    <3> QED
      BY <2>2, <3>1 DEF ReadSock, WorkAt, PathInv, WorkInv
  <2>3. CASE CheckLen(k)
    BY <2>3 DEF CheckLen, WorkAt, PathInv, WorkInv
  <2> QED
    BY <2>1, <2>2, <2>3
<1>2. WorkTasks'
  BY <1>1, PathKept, WorkP!PoolStep
  DEF PathInv, WorkTasks, wPool, WorkP!vars, WorkThread, Work!Thread, None
<1>3. WorkInv'
  BY <1>1 DEF PathInv, WorkTasks, WorkInv, iocpVars, Newest, WorkThread, Work!Thread, None
<1>4. SlotInv'
  BY <1>1
  DEF PathInv, WorkTasks, SlotInv, iocpVars, slotVars, Newest, WorkThread, Work!Thread,
      None, NoOlder
<1> QED
  BY <1>1, <1>2, <1>3, <1>4, PathKept DEF PathInv, wPool, slotVars, saveVars, iocpVars

LEMMA StepEndWork ==
  ASSUME PathInv, NEW k \in WorkThread, EndWork(k), UNCHANGED oneAtATime
  PROVE  PathInv'
<1>1. /\ kpc[k] = "end" /\ kpc' = [kpc EXCEPT ![k] = "parked"]
      /\ WorkP!Finish(k) /\ k \in WorkP!Thread
      /\ klen' = [klen EXCEPT ![k] = None] /\ ksock' = [ksock EXCEPT ![k] = None]
      /\ UNCHANGED <<netVars, iocpVars, recVars, slotVars, saveVars, sPool>>
  BY DEF EndWork, WorkAt, Work!Finish, WorkP!Finish, Work!NULL, WorkP!NULL, WorkThread,
         Work!Thread, WorkP!Thread
<1>2. /\ WorkP!PoolInv' /\ wSub' = wSub /\ wRun'[k] = None
      /\ \A j \in WorkThread \ {k} : wRun'[j] = wRun[j]
  BY <1>1, WorkP!PoolFinish
  DEF PathInv, WorkTasks, WorkP!NULL, None, WorkThread, Work!Thread, WorkP!Thread
<1>3. WorkTasks'
  BY <1>1, <1>2 DEF PathInv, WorkTasks, WorkThread, Work!Thread, None
<1>4. WorkInv'
  BY <1>1, NewestFacts
  DEF PathInv, WorkTasks, WorkInv, iocpVars, Newest, WorkThread, Work!Thread, None
<1>5. SlotInv'
  BY <1>1
  DEF PathInv, WorkTasks, SlotInv, iocpVars, slotVars, Newest, WorkThread, Work!Thread,
      None, NoOlder
<1> QED
  BY <1>1, <1>2, <1>3, <1>4, <1>5, PathKept DEF PathInv, slotVars, saveVars, iocpVars

LEMMA StepBeginCopy ==
  ASSUME PathInv, NEW k \in WorkThread, BeginCopy(k), UNCHANGED oneAtATime
  PROVE  PathInv'
<1>1. /\ kpc[k] = "save" /\ kpc' = [kpc EXCEPT ![k] = "copy"]
      /\ saveLock = Free /\ saveLock' = k
      /\ slotData' = [slotData EXCEPT ![k] = Torn]
      /\ UNCHANGED <<netVars, iocpVars, recVars, klen, ksock, slotSock, saveQ, saveVars,
                     wPool, sPool>>
  BY DEF BeginCopy, WorkAt
<1>2. WorkTasks'
  BY <1>1, WorkP!PoolStep
  DEF PathInv, WorkTasks, wPool, WorkP!vars, WorkThread, Work!Thread, None
<1>3. WorkInv'
  BY <1>1 DEF PathInv, WorkTasks, WorkInv, iocpVars, Newest, WorkThread, Work!Thread, None
<1>4. SlotInv'
  <2>1. /\ \A j \in WorkThread : saveLock' = j <=> kpc'[j] \in {"copy", "queue", "add"}
        /\ \A j \in WorkThread : kpc'[j] = "add" => slotSock[j] # None
    BY <1>1, Sizes DEF PathInv, WorkTasks, SlotInv
  <2>2. slotData' \in [WorkThread -> 0..Newest \cup {Torn}]
    BY <1>1 DEF PathInv, SlotInv
  <2>3. /\ \A j \in WorkThread : kpc'[j] = "queue" => NoOlder(slotData'[j], ksock[j])
        /\ \A j \in WorkThread : NoOlder(slotData'[j], slotSock[j])
    BY <1>1 DEF PathInv, WorkTasks, SlotInv, NoOlder
  <2> QED
    BY <1>1, <2>1, <2>2, <2>3
    DEF PathInv, SlotInv, iocpVars, Newest, WorkThread, Work!Thread, None, NoOlder
<1>5. SaveInv'
  BY <1>1
  DEF PathInv, SlotInv, SaveInv, iocpVars, saveVars, Newest, WorkThread, Work!Thread,
      SaveThread, Save!Thread, None, NoOlder
<1> QED
  BY <1>1, <1>2, <1>3, <1>4, <1>5, PathKept DEF PathInv, wPool, saveVars, iocpVars

(* What is copied last is as new as any message that has come.             *)
LEMMA StepEndCopy ==
  ASSUME PathInv, NEW k \in WorkThread, EndCopy(k), UNCHANGED oneAtATime
  PROVE  PathInv'
<1>1. /\ kpc[k] = "copy" /\ kpc' = [kpc EXCEPT ![k] = "queue"]
      /\ slotData' = [slotData EXCEPT ![k] = recData]
      /\ UNCHANGED <<netVars, iocpVars, recVars, klen, ksock, saveLock, slotSock, saveQ,
                     saveVars, wPool, sPool>>
  BY DEF EndCopy, WorkAt
<1>2. Newest \in Nat /\ recData \in {Torn, Newest}
  BY NewestFacts
<1>3. WorkTasks'
  BY <1>1, WorkP!PoolStep
  DEF PathInv, WorkTasks, wPool, WorkP!vars, WorkThread, Work!Thread, None
<1>4. WorkInv'
  BY <1>1 DEF PathInv, WorkTasks, WorkInv, iocpVars, Newest, WorkThread, Work!Thread, None
<1>5. \A n \in 0..Newest : NoOlder(recData, n)
  BY <1>2 DEF NoOlder
<1>6. SlotInv'
  <2>1. /\ \A j \in WorkThread : saveLock' = j <=> kpc'[j] \in {"copy", "queue", "add"}
        /\ \A j \in WorkThread : kpc'[j] = "add" => slotSock[j] # None
    BY <1>1 DEF PathInv, WorkTasks, SlotInv
  <2>2. slotData' \in [WorkThread -> 0..Newest \cup {Torn}]
    BY <1>1, <1>2 DEF PathInv, SlotInv
  <2>3. \A j \in WorkThread : kpc'[j] = "queue" => NoOlder(slotData'[j], ksock[j])
    BY <1>1, <1>5 DEF PathInv, WorkTasks, WorkInv, SlotInv
  <2>4. \A j \in WorkThread : NoOlder(slotData'[j], slotSock[j])
    BY <1>1, <1>5 DEF PathInv, SlotInv
  <2> QED
    BY <1>1, <2>1, <2>2, <2>3, <2>4
    DEF PathInv, SlotInv, iocpVars, Newest, WorkThread, Work!Thread, None, NoOlder
<1>7. SaveInv'
  <2>1. \A s \in SaveThread : spc[s] = "data" => NoOlder(slotData'[sptr[s]], ssock[s])
    BY <1>1, <1>5 DEF PathInv, SlotInv, SaveInv
  <2> QED
    BY <1>1, <2>1
    DEF PathInv, SaveInv, iocpVars, saveVars, Newest, WorkThread, Work!Thread,
        SaveThread, Save!Thread, None, NoOlder
<1> QED
  BY <1>1, <1>3, <1>4, <1>6, <1>7, PathKept DEF PathInv, wPool, saveVars, iocpVars

LEMMA StepQueueDatum ==
  ASSUME PathInv, NEW k \in WorkThread, QueueDatum(k), UNCHANGED oneAtATime
  PROVE  PathInv'
<1>1. /\ kpc[k] = "queue" /\ kpc' = [kpc EXCEPT ![k] = "add"]
      /\ slotSock' = [slotSock EXCEPT ![k] = ksock[k]] /\ saveQ' = Append(saveQ, k)
      /\ UNCHANGED <<netVars, iocpVars, recVars, klen, ksock, saveLock, slotData, saveVars,
                     wPool, sPool>>
  BY DEF QueueDatum, WorkAt
<1>2. ksock[k] # None /\ ksock[k] \in 0..Newest /\ NoOlder(slotData[k], ksock[k])
  BY <1>1 DEF PathInv, WorkInv, SlotInv
<1>3. WorkTasks'
  BY <1>1, WorkP!PoolStep
  DEF PathInv, WorkTasks, wPool, WorkP!vars, WorkThread, Work!Thread, None
<1>4. WorkInv'
  BY <1>1 DEF PathInv, WorkTasks, WorkInv, iocpVars, Newest, WorkThread, Work!Thread, None
<1>5. SlotInv'
  <2>1. /\ \A j \in WorkThread : saveLock' = j <=> kpc'[j] \in {"copy", "queue", "add"}
        /\ \A j \in WorkThread : kpc'[j] = "queue" => NoOlder(slotData[j], ksock[j])
    BY <1>1 DEF PathInv, WorkTasks, SlotInv
  <2>2. slotSock' \in [WorkThread -> 0..Newest]
    BY <1>1, <1>2 DEF PathInv, SlotInv
  <2>3. \A j \in WorkThread : kpc'[j] = "add" => slotSock'[j] # None
    BY <1>1, <1>2 DEF PathInv, WorkTasks, SlotInv
  <2>4. \A j \in WorkThread : NoOlder(slotData[j], slotSock'[j])
    BY <1>1, <1>2 DEF PathInv, SlotInv
  <2>5. /\ saveQ \in Seq(WorkThread) /\ saveQ' \in Seq(WorkThread)
        /\ Len(saveQ) \in Nat /\ Len(saveQ') = Len(saveQ) + 1
        /\ saveQ'[Len(saveQ) + 1] = k
        /\ \A i \in 1..Len(saveQ) : saveQ'[i] = saveQ[i] /\ saveQ[i] \in WorkThread
    BY <1>1, AppendProperties, LenProperties, ElementOfSeq DEF PathInv, SlotInv
  <2>6. \A i \in 1..Len(saveQ') : slotSock'[saveQ'[i]] # None
    BY <1>1, <1>2, <2>5 DEF PathInv, SlotInv
  <2> QED
    BY <1>1, <2>1, <2>2, <2>3, <2>4, <2>5, <2>6
    DEF PathInv, SlotInv, iocpVars, Newest, WorkThread, Work!Thread, None, NoOlder
<1>6. SaveInv'
  <2>1. \A s \in SaveThread : spc[s] = "args" => slotSock'[sptr[s]] # None
    BY <1>1, <1>2 DEF PathInv, SlotInv, SaveInv
  <2> QED
    BY <1>1, <2>1
    DEF PathInv, SaveInv, iocpVars, saveVars, Newest, WorkThread, Work!Thread,
        SaveThread, Save!Thread, None, NoOlder
<1> QED
  BY <1>1, <1>3, <1>4, <1>5, <1>6, PathKept DEF PathInv, wPool, saveVars, iocpVars

LEMMA StepAddSaveTask ==
  ASSUME PathInv, NEW k \in WorkThread, AddSaveTask(k), UNCHANGED oneAtATime
  PROVE  PathInv'
<1>1. /\ kpc[k] = "add" /\ kpc' = [kpc EXCEPT ![k] = "end"] /\ saveLock' = Free
      /\ SaveP!Submit
      /\ UNCHANGED <<netVars, iocpVars, recVars, klen, ksock, slotData, slotSock, saveQ,
                     saveVars, wPool>>
  BY DEF AddSaveTask, WorkAt, Save!Submit, SaveP!Submit
<1>2. WorkTasks'
  BY <1>1, WorkP!PoolStep
  DEF PathInv, WorkTasks, wPool, WorkP!vars, WorkThread, Work!Thread, None
<1>3. SaveTasks'
  <2>1. SaveP!PoolInv' /\ sRun' = sRun
    BY <1>1, SaveP!PoolSubmit DEF PathInv, SaveTasks
  <2> QED
    BY <1>1, <2>1 DEF PathInv, SaveTasks, saveVars, SaveThread, Save!Thread, None
<1>4. WorkInv'
  BY <1>1 DEF PathInv, WorkTasks, WorkInv, iocpVars, Newest, WorkThread, Work!Thread, None
<1>5. SlotInv'
  <2>1. /\ \A j \in WorkThread : saveLock' = j <=> kpc'[j] \in {"copy", "queue", "add"}
        /\ \A j \in WorkThread : kpc'[j] = "add" => slotSock[j] # None
        /\ \A j \in WorkThread : kpc'[j] = "queue" => NoOlder(slotData[j], ksock[j])
    <3>1. saveLock = k
      BY <1>1 DEF PathInv, SlotInv
    <3> QED
      BY <1>1, <3>1, Sizes DEF PathInv, WorkTasks, SlotInv
  <2> QED
    BY <1>1, <2>1
    DEF PathInv, SlotInv, iocpVars, Newest, WorkThread, Work!Thread, None, NoOlder
<1> QED
  BY <1>1, <1>2, <1>3, <1>4, <1>5, PathKept DEF PathInv, wPool, saveVars, iocpVars

LEMMA StepBeginSave ==
  ASSUME PathInv, NEW s \in SaveThread, BeginSave(s), UNCHANGED oneAtATime
  PROVE  PathInv'
<1>1. /\ spc[s] = "parked" /\ spc' = [spc EXCEPT ![s] = "pop"]
      /\ SaveP!Begin(s) /\ s \in SaveP!Thread
      /\ UNCHANGED <<netVars, iocpVars, recVars, workVars, slotVars, sptr, ssock, sdata, wPool>>
  BY DEF BeginSave, SaveAt, Save!Begin, SaveP!Begin, Save!NULL, SaveP!NULL, SaveThread,
         Save!Thread, SaveP!Thread
<1>2. /\ SaveP!PoolInv' /\ sRun'[s] # None
      /\ \A u \in SaveThread \ {s} : sRun'[u] = sRun[u]
  BY <1>1, SaveP!PoolBegin
  DEF PathInv, SaveTasks, SaveP!NULL, None, SaveThread, Save!Thread, SaveP!Thread
<1>3. SaveTasks'
  BY <1>1, <1>2 DEF PathInv, SaveTasks, SaveThread, Save!Thread, None
<1>4. SaveInv'
  BY <1>1
  DEF PathInv, SaveTasks, SaveInv, iocpVars, slotVars, Newest, WorkThread, Work!Thread,
      SaveThread, Save!Thread, None, NoOlder
<1> QED
  BY <1>1, <1>3, <1>4, PathKept DEF PathInv, wPool, slotVars, workVars, iocpVars

LEMMA StepTakeDatum ==
  ASSUME PathInv, NEW s \in SaveThread, TakeDatum(s), UNCHANGED oneAtATime
  PROVE  PathInv'
<1>1. /\ spc[s] = "pop" /\ spc' = [spc EXCEPT ![s] = IF saveQ = <<>> THEN "end" ELSE "args"]
      /\ sptr' = [sptr EXCEPT ![s] = IF saveQ = <<>> THEN @ ELSE Head(saveQ)]
      /\ saveQ' = IF saveQ = <<>> THEN saveQ ELSE Tail(saveQ)
      /\ UNCHANGED <<netVars, iocpVars, recVars, workVars, saveLock, slotData, slotSock,
                     ssock, sdata, wPool, sPool>>
  BY DEF TakeDatum, SaveAt
<1>2. saveQ \in Seq(WorkThread)
  BY DEF PathInv, SlotInv
<1>3. saveQ # <<>> =>
        /\ Head(saveQ) \in WorkThread /\ slotSock[Head(saveQ)] # None
        /\ Tail(saveQ) \in Seq(WorkThread)
        /\ \A i \in 1..Len(Tail(saveQ)) : slotSock[Tail(saveQ)[i]] # None
  <2> SUFFICES ASSUME saveQ # <<>>
               PROVE  /\ Head(saveQ) \in WorkThread /\ slotSock[Head(saveQ)] # None
                      /\ Tail(saveQ) \in Seq(WorkThread)
                      /\ \A i \in 1..Len(Tail(saveQ)) : slotSock[Tail(saveQ)[i]] # None
    OBVIOUS
  <2>1. /\ Len(saveQ) \in Nat /\ Len(saveQ) > 0 /\ Len(Tail(saveQ)) = Len(saveQ) - 1
        /\ Tail(saveQ) \in Seq(WorkThread) /\ Head(saveQ) = saveQ[1]
        /\ \A i \in 1..Len(Tail(saveQ)) : Tail(saveQ)[i] = saveQ[i + 1]
    BY <1>2, HeadTailProperties, LenProperties, EmptySeq
  <2>2. Head(saveQ) \in WorkThread
    BY <1>2, <2>1, ElementOfSeq
  <2>3. \A i \in 1..Len(Tail(saveQ)) : i + 1 \in 1..Len(saveQ)
    BY <2>1
  <2> QED
    BY <2>1, <2>2, <2>3 DEF PathInv, SlotInv
<1>4. SaveTasks'
  BY <1>1, SaveP!PoolStep
  DEF PathInv, SaveTasks, sPool, SaveP!vars, SaveThread, Save!Thread, None
<1>5. SlotInv'
  <2>1. saveQ' \in Seq(WorkThread) /\ \A i \in 1..Len(saveQ') : slotSock[saveQ'[i]] # None
    BY <1>1, <1>2, <1>3 DEF PathInv, SlotInv
  <2> QED
    BY <1>1, <2>1
    DEF PathInv, SlotInv, iocpVars, workVars, Newest, WorkThread, Work!Thread, None, NoOlder
<1>6. SaveInv'
  BY <1>1, <1>3
  DEF PathInv, SaveTasks, SaveInv, iocpVars, slotVars, Newest, WorkThread, Work!Thread,
      SaveThread, Save!Thread, None, NoOlder
<1> QED
  BY <1>1, <1>4, <1>5, <1>6, PathKept DEF PathInv, wPool, workVars, iocpVars

LEMMA StepReadSlot ==
  ASSUME PathInv, NEW s \in SaveThread, ReadSlotSock(s) \/ ReadSlotData(s),
         UNCHANGED oneAtATime
  PROVE  PathInv'
<1>1. UNCHANGED <<netVars, iocpVars, recVars, workVars, slotVars, sptr, wPool, sPool>>
  BY DEF ReadSlotSock, ReadSlotData
<1>2. SaveTasks'
  <2>1. spc[s] \in {"args", "data"} /\ \E there \in {"data", "reply"} :
          spc' = [spc EXCEPT ![s] = there]
    BY DEF ReadSlotSock, ReadSlotData, SaveAt
  <2> QED
    BY <1>1, <2>1, SaveP!PoolStep
    DEF PathInv, SaveTasks, sPool, SaveP!vars, SaveThread, Save!Thread, None
<1>3. SaveInv'
  <2>1. CASE ReadSlotSock(s)
    <3>1. /\ spc[s] = "args" /\ spc' = [spc EXCEPT ![s] = "data"]
          /\ ssock' = [ssock EXCEPT ![s] = slotSock[sptr[s]]] /\ UNCHANGED sdata
      BY <2>1 DEF ReadSlotSock, SaveAt
    <3>2. /\ sptr[s] \in WorkThread /\ slotSock[sptr[s]] \in 0..Newest
          /\ slotSock[sptr[s]] # None /\ NoOlder(slotData[sptr[s]], slotSock[sptr[s]])
      BY <3>1 DEF PathInv, SlotInv, SaveInv
    <3> QED
      BY <1>1, <3>1, <3>2
      DEF PathInv, SaveTasks, SaveInv, iocpVars, slotVars, Newest, WorkThread, Work!Thread,
          SaveThread, Save!Thread, None, NoOlder
  <2>2. CASE ReadSlotData(s)
    <3>1. /\ spc[s] = "data" /\ spc' = [spc EXCEPT ![s] = "reply"]
          /\ sdata' = [sdata EXCEPT ![s] = slotData[sptr[s]]] /\ UNCHANGED ssock
      BY <2>2 DEF ReadSlotData, SaveAt
    <3>2. /\ sptr[s] \in WorkThread /\ slotData[sptr[s]] \in 0..Newest \cup {Torn}
          /\ NoOlder(slotData[sptr[s]], ssock[s])
      BY <3>1 DEF PathInv, SlotInv, SaveInv
    <3> QED
      BY <1>1, <3>1, <3>2
      DEF PathInv, SaveTasks, SaveInv, iocpVars, slotVars, Newest, WorkThread, Work!Thread,
          SaveThread, Save!Thread, None, NoOlder
  <2> QED
    BY <2>1, <2>2
<1> QED
  BY <1>1, <1>2, <1>3, PathKept DEF PathInv, wPool, workVars, slotVars, iocpVars

LEMMA StepReply ==
  ASSUME PathInv, NEW s \in SaveThread, Reply(s), UNCHANGED oneAtATime
  PROVE  PathInv'
<1> DEFINE c == comps[ssock[s]].conn
<1>1. /\ spc[s] = "reply" /\ spc' = [spc EXCEPT ![s] = "end"]
      /\ closed' = closed \cup {c}
      /\ link' = [link EXCEPT ![c] = IF @ = "posted" THEN "aborted" ELSE @]
      /\ UNCHANGED <<iocpVars, recVars, workVars, slotVars, sptr, ssock, sdata, wPool, sPool>>
  BY DEF Reply, SaveAt
<1>2. c \in Conn
  <2>1. ssock[s] \in Comp
    BY <1>1, NewestFacts DEF PathInv, SaveInv, None
  <2> QED
    BY <2>1, NewestFacts
<1>3. NetInv'
  BY <1>1, <1>2 DEF PathInv, NetInv
<1>4. SaveTasks'
  BY <1>1, SaveP!PoolStep
  DEF PathInv, SaveTasks, sPool, SaveP!vars, SaveThread, Save!Thread, None
<1>5. SaveInv'
  BY <1>1
  DEF PathInv, SaveTasks, SaveInv, iocpVars, slotVars, Newest, WorkThread, Work!Thread,
      SaveThread, Save!Thread, None, NoOlder
<1> QED
  BY <1>1, <1>3, <1>4, <1>5, PathKept DEF PathInv, wPool, workVars, slotVars, iocpVars

LEMMA StepEndSave ==
  ASSUME PathInv, NEW s \in SaveThread, EndSave(s), UNCHANGED oneAtATime
  PROVE  PathInv'
<1>1. /\ spc[s] = "end" /\ spc' = [spc EXCEPT ![s] = "parked"]
      /\ SaveP!Finish(s) /\ s \in SaveP!Thread
      /\ sptr' = [sptr EXCEPT ![s] = None] /\ ssock' = [ssock EXCEPT ![s] = None]
      /\ sdata' = [sdata EXCEPT ![s] = None]
      /\ UNCHANGED <<netVars, iocpVars, recVars, workVars, slotVars, wPool>>
  BY DEF EndSave, SaveAt, Save!Finish, SaveP!Finish, Save!NULL, SaveP!NULL, SaveThread,
         Save!Thread, SaveP!Thread
<1>2. /\ SaveP!PoolInv' /\ sRun'[s] = None
      /\ \A u \in SaveThread \ {s} : sRun'[u] = sRun[u]
  BY <1>1, SaveP!PoolFinish
  DEF PathInv, SaveTasks, SaveP!NULL, None, SaveThread, Save!Thread, SaveP!Thread
<1>3. SaveTasks'
  BY <1>1, <1>2 DEF PathInv, SaveTasks, SaveThread, Save!Thread, None
<1>4. SaveInv'
  <2>1. /\ sptr' \in [SaveThread -> WorkThread \cup {None}]
        /\ ssock' \in [SaveThread -> 0..Newest]
        /\ sdata' \in [SaveThread -> 0..Newest \cup {Torn}]
    BY <1>1, NewestFacts DEF PathInv, SaveInv, None
  <2>2. \A u \in SaveThread :
          spc'[u] \in {"args", "data", "reply"} =>
            spc'[u] = spc[u] /\ sptr'[u] = sptr[u] /\ ssock'[u] = ssock[u] /\ sdata'[u] = sdata[u]
    BY <1>1 DEF PathInv, SaveTasks, SaveInv
  <2>3. slotSock' = slotSock /\ slotData' = slotData /\ Newest' = Newest
    BY <1>1 DEF iocpVars, slotVars, Newest
  <2> QED
    BY <2>1, <2>2, <2>3
    DEF PathInv, SaveInv, WorkThread, Work!Thread, SaveThread, Save!Thread, None, NoOlder
<1> QED
  BY <1>1, <1>3, <1>4, PathKept DEF PathInv, wPool, slotVars, workVars, iocpVars

LEMMA PathNext == PathInv /\ [Next]_vars => PathInv'
<1> SUFFICES ASSUME PathInv, [Next]_vars
             PROVE  PathInv'
  OBVIOUS
<1>1. UNCHANGED oneAtATime
  BY NextSteps
<1>2. CASE ClientStep
  BY <1>1, <1>2, StepClient
<1>3. ASSUME NEW w \in Worker,
             \/ \E c \in Conn : Receive(w, c)
             \/ SetData(w) \/ SetLen(w) \/ SetSock(w) \/ AddWorkTask(w) \/ PostReceive(w)
      PROVE  PathInv'
  BY <1>1, <1>3, StepReceive, StepWrite, StepAddWorkTask, StepPostReceive
<1>4. CASE PoolStep
  BY <1>1, <1>4, StepDispatch
<1>5. ASSUME NEW k \in WorkThread, WorkStep(k)
      PROVE  PathInv'
  BY <1>1, <1>5, StepBeginWork, StepRead, StepEndWork, StepBeginCopy, StepEndCopy,
     StepQueueDatum, StepAddSaveTask
  DEF WorkStep
<1>6. ASSUME NEW s \in SaveThread, SaveStep(s)
      PROVE  PathInv'
  BY <1>1, <1>6, StepBeginSave, StepTakeDatum, StepReadSlot, StepReply, StepEndSave
  DEF SaveStep
<1>7. CASE UNCHANGED vars
  BY <1>1, <1>7, PathKept
  DEF PathInv, vars, netVars, iocpVars, recVars, workVars, slotVars, saveVars, wPool, sPool
<1> QED
  BY <1>2, <1>3, <1>4, <1>5, <1>6, <1>7, NextSteps

-----------------------------------------------------------------------------

(* Every buffer and argument names a message that has come, and every lock *)
(* is held by the thread inside its critical section.                      *)
THEOREM TypeCorrect == Spec => []TypeOK
  BY PathInit, PathNext, PathTypes, PTL DEF Spec

(* However the threads overtake one another, no socket is answered with    *)
(* the bytes of a message older than the one it was read with.             *)
THEOREM NeverOlderBytesAlways == Spec => []NeverOlderBytes
<1>1. PathInv => NeverOlderBytes
  BY DEF PathInv, SlotInv, SaveInv, NeverOlderBytes
<1> QED
  BY <1>1, PathInit, PathNext, PTL DEF Spec

-----------------------------------------------------------------------------
(* A save task for every queued datum                                      *)

Popping == {s \in SaveThread : spc[s] = "pop"}
Adding  == {k \in WorkThread : kpc[k] = "add"}

LEMMA SameCardinality == \A S : SaveP!Cardinality(S) = Cardinality(S)
  BY DEF SaveP!Cardinality, Cardinality

LEMMA TaskPerDatum ==
  /\ SaveTaskPerDatum <=>
       Len(saveQ) = Len(sQ) + Cardinality(sDisp) + Cardinality(Popping) + Cardinality(Adding)
  /\ SaveTaskPerDatum' <=>
       Len(saveQ') = Len(sQ') + Cardinality(sDisp') + Cardinality(Popping') + Cardinality(Adding')
  BY Zenon DEF SaveTaskPerDatum, Popping, Adding

LEMMA CountsAreFinite ==
  ASSUME PathInv
  PROVE  /\ IsFiniteSet(Popping) /\ Cardinality(Popping) \in Nat
         /\ IsFiniteSet(Adding) /\ Cardinality(Adding) \in Nat
         /\ Len(saveQ) \in Nat /\ Len(sQ) \in Nat /\ Cardinality(sDisp) \in Nat
         /\ saveQ \in Seq(WorkThread)
<1>1. IsFiniteSet(WorkThread) /\ IsFiniteSet(SaveThread)
  BY Sizes, FS_Interval, MessagePathAssumption
<1>2. IsFiniteSet(Popping) /\ IsFiniteSet(Adding)
  BY <1>1, FS_Subset DEF Popping, Adding
<1>3. Len(sQ) \in Nat /\ Cardinality(sDisp) \in Nat
  BY SaveP!PoolSizes, SameCardinality DEF PathInv, SaveTasks
<1> QED
  BY <1>2, <1>3, FS_CardinalityType, LenProperties DEF PathInv, SlotInv

LEMMA TaskPerDatumQueued ==
  ASSUME PathInv, SaveTaskPerDatum, NEW k \in WorkThread, QueueDatum(k)
  PROVE  SaveTaskPerDatum'
<1>1. UNCHANGED <<sQ, sDisp, spc>> /\ saveQ' = Append(saveQ, k) /\ kpc[k] = "queue"
      /\ kpc' = [kpc EXCEPT ![k] = "add"]
  BY DEF QueueDatum, WorkAt, saveVars, sPool
<1>2. Len(saveQ') = Len(saveQ) + 1
  BY <1>1, CountsAreFinite, AppendProperties
<1>3. Popping' = Popping /\ Adding' = Adding \cup {k} /\ k \notin Adding
  BY <1>1 DEF PathInv, WorkTasks, Popping, Adding, SaveThread, Save!Thread, WorkThread, Work!Thread
<1>4. Cardinality(Adding') = Cardinality(Adding) + 1
  BY <1>3, CountsAreFinite, FS_AddElement
<1> QED
  BY <1>1, <1>2, <1>3, <1>4, CountsAreFinite, TaskPerDatum

LEMMA TaskPerDatumAdded ==
  ASSUME PathInv, SaveTaskPerDatum, NEW k \in WorkThread, AddSaveTask(k)
  PROVE  SaveTaskPerDatum'
<1>1. UNCHANGED <<saveQ, spc>> /\ SaveP!Submit /\ kpc[k] = "add"
      /\ kpc' = [kpc EXCEPT ![k] = "end"]
  BY DEF AddSaveTask, WorkAt, Save!Submit, SaveP!Submit, saveVars
<1>2. Len(sQ') = Len(sQ) + 1 /\ sDisp' = sDisp
  BY <1>1, SaveP!PoolSubmit DEF PathInv, SaveTasks
<1>3. Popping' = Popping /\ Adding' = Adding \ {k} /\ k \in Adding
  BY <1>1 DEF PathInv, WorkTasks, Popping, Adding, SaveThread, Save!Thread, WorkThread, Work!Thread
<1>4. Cardinality(Adding') = Cardinality(Adding) - 1
  BY <1>3, CountsAreFinite, FS_RemoveElement
<1> QED
  BY <1>1, <1>2, <1>3, <1>4, CountsAreFinite, TaskPerDatum

LEMMA TaskPerDatumBegun ==
  ASSUME PathInv, SaveTaskPerDatum, NEW s \in SaveThread, BeginSave(s)
  PROVE  SaveTaskPerDatum'
<1>1. UNCHANGED <<saveQ, kpc>> /\ SaveP!Begin(s) /\ s \in SaveP!Thread /\ spc[s] = "parked"
      /\ spc' = [spc EXCEPT ![s] = "pop"]
  BY DEF BeginSave, SaveAt, Save!Begin, SaveP!Begin, Save!NULL, SaveP!NULL, slotVars, workVars,
         SaveThread, Save!Thread, SaveP!Thread
<1>2. /\ sQ' = sQ /\ Cardinality(sDisp') \in Nat
      /\ Cardinality(sDisp) = Cardinality(sDisp') + 1
  BY <1>1, SaveP!PoolBegin, SameCardinality DEF PathInv, SaveTasks
<1>3. Adding' = Adding /\ Popping' = Popping \cup {s} /\ s \notin Popping
  BY <1>1 DEF PathInv, SaveTasks, Popping, Adding, SaveThread, Save!Thread, WorkThread, Work!Thread
<1>4. Cardinality(Popping') = Cardinality(Popping) + 1
  BY <1>3, CountsAreFinite, FS_AddElement
<1> QED
  BY <1>1, <1>2, <1>3, <1>4, CountsAreFinite, TaskPerDatum

(* A save thread that looks finds a pointer: its own task stands for one.  *)
LEMMA TaskPerDatumTaken ==
  ASSUME PathInv, SaveTaskPerDatum, NEW s \in SaveThread, TakeDatum(s)
  PROVE  SaveTaskPerDatum'
<1>1. /\ UNCHANGED <<sQ, sDisp, kpc>> /\ spc[s] = "pop"
      /\ spc' = [spc EXCEPT ![s] = IF saveQ = <<>> THEN "end" ELSE "args"]
      /\ saveQ' = IF saveQ = <<>> THEN saveQ ELSE Tail(saveQ)
  BY DEF TakeDatum, SaveAt, workVars, sPool
<1>2. Adding' = Adding /\ Popping' = Popping \ {s} /\ s \in Popping
  BY <1>1 DEF PathInv, SaveTasks, Popping, Adding, SaveThread, Save!Thread, WorkThread, Work!Thread
<1>3. Cardinality(Popping') = Cardinality(Popping) - 1 /\ Cardinality(Popping') \in Nat
  BY <1>2, CountsAreFinite, FS_RemoveElement, FS_CardinalityType
<1>4. Len(saveQ) > 0
  BY <1>3, CountsAreFinite, TaskPerDatum
<1>5. Len(saveQ') = Len(saveQ) - 1
  BY <1>1, <1>4, CountsAreFinite, HeadTailProperties, EmptySeq
<1>6. /\ Len(sQ') = Len(sQ) /\ Cardinality(sDisp') = Cardinality(sDisp)
      /\ Cardinality(Adding') = Cardinality(Adding)
  BY <1>1, <1>2
<1>7. Len(saveQ) = Len(sQ) + Cardinality(sDisp) + Cardinality(Popping) + Cardinality(Adding)
  BY TaskPerDatum
<1>8. Len(saveQ') = Len(sQ) + Cardinality(sDisp) + Cardinality(Popping') + Cardinality(Adding)
  BY <1>3, <1>5, <1>7, CountsAreFinite
<1> QED
  BY <1>6, <1>8, TaskPerDatum

LEMMA TaskPerDatumNext == PathInv /\ SaveTaskPerDatum /\ [Next]_vars => SaveTaskPerDatum'
<1> SUFFICES ASSUME PathInv, SaveTaskPerDatum, [Next]_vars
             PROVE  SaveTaskPerDatum'
  OBVIOUS
<1> DEFINE Same == UNCHANGED <<saveQ, sQ, sDisp>> /\ Popping' = Popping /\ Adding' = Adding
<1>1. Same => SaveTaskPerDatum'
  BY DEF SaveTaskPerDatum, Popping, Adding
<1>2. UNCHANGED <<saveQ, sQ, sDisp, spc, kpc>> => Same
  BY DEF Popping, Adding, SaveThread, Save!Thread, WorkThread, Work!Thread
<1>3. CASE ClientStep
  BY <1>1, <1>2, <1>3
  DEF ClientStep, Arrive, Reset, ClientClosed, workVars, slotVars, saveVars, sPool
<1>4. ASSUME NEW w \in Worker,
             \/ \E c \in Conn : Receive(w, c)
             \/ SetData(w) \/ SetLen(w) \/ SetSock(w) \/ AddWorkTask(w) \/ PostReceive(w)
      PROVE  SaveTaskPerDatum'
  <2>1. UNCHANGED <<workVars, slotVars, saveVars, sPool>>
    BY <1>4 DEF Receive, SetData, SetLen, SetSock, AddWorkTask, PostReceive
  <2> QED
    BY <1>1, <1>2, <2>1 DEF workVars, slotVars, saveVars, sPool
<1>5. CASE PoolStep
  <2>1. UNCHANGED <<workVars, slotVars, saveVars>>
    BY <1>5 DEF PoolStep
  <2>2. CASE WorkDispatch
    BY <1>1, <1>2, <2>1, <2>2 DEF WorkDispatch, workVars, slotVars, saveVars, sPool
  <2>3. CASE SaveDispatch
    <3>1. SaveP!Dispatch
      BY <2>3 DEF SaveDispatch, Save!Dispatch, SaveP!Dispatch
    <3>2. /\ Len(sQ') = Len(sQ) - 1
          /\ Cardinality(sDisp') = Cardinality(sDisp) + 1
      BY <3>1, SaveP!PoolDispatch, SameCardinality DEF PathInv, SaveTasks
    <3>3. saveQ' = saveQ /\ Popping' = Popping /\ Adding' = Adding
      BY <2>1
      DEF workVars, slotVars, saveVars, Popping, Adding, SaveThread, Save!Thread, WorkThread,
          Work!Thread
    <3>4. Len(saveQ) = Len(sQ) + Cardinality(sDisp) + Cardinality(Popping) + Cardinality(Adding)
      BY TaskPerDatum
    <3>5. Len(saveQ) = Len(sQ') + Cardinality(sDisp') + Cardinality(Popping) + Cardinality(Adding)
      BY <3>2, <3>4, CountsAreFinite
    <3> QED
      BY <3>3, <3>5, TaskPerDatum
  <2> QED
    BY <1>5, <2>2, <2>3 DEF PoolStep, Dispatch, WorkDispatch, SaveDispatch
<1>6. ASSUME NEW k \in WorkThread, WorkStep(k)
      PROVE  SaveTaskPerDatum'
  <2>1. CASE QueueDatum(k)
    BY <2>1, TaskPerDatumQueued
  <2>2. CASE AddSaveTask(k)
    BY <2>2, TaskPerDatumAdded
  <2>3. CASE \/ BeginWork(k) \/ ReadLen(k) \/ ReadSock(k) \/ CheckLen(k)
             \/ BeginCopy(k) \/ EndCopy(k) \/ EndWork(k)
    <3>1. /\ UNCHANGED <<saveQ, sQ, sDisp, spc>> /\ kpc[k] # "add"
          /\ \E there \in {"parked", "len", "sock", "check", "save", "copy", "queue", "end"} :
               kpc' = [kpc EXCEPT ![k] = there]
      BY <2>3
      DEF BeginWork, ReadLen, ReadSock, CheckLen, BeginCopy, EndCopy, EndWork, WorkAt,
          slotVars, saveVars, sPool
    <3>2. Adding' = Adding
      BY <3>1 DEF PathInv, WorkTasks, Adding, WorkThread, Work!Thread
    <3> QED
      BY <1>1, <3>1, <3>2 DEF Popping, SaveThread, Save!Thread
  <2> QED
    BY <1>6, <2>1, <2>2, <2>3 DEF WorkStep
<1>7. ASSUME NEW s \in SaveThread, SaveStep(s)
      PROVE  SaveTaskPerDatum'
  <2>1. CASE BeginSave(s)
    BY <2>1, TaskPerDatumBegun
  <2>2. CASE TakeDatum(s)
    BY <2>2, TaskPerDatumTaken
  <2>3. CASE ReadSlotSock(s) \/ ReadSlotData(s) \/ Reply(s) \/ EndSave(s)
    <3>1. /\ UNCHANGED <<saveQ, sQ, sDisp, kpc>> /\ spc[s] # "pop"
          /\ \E there \in {"data", "reply", "end", "parked"} : spc' = [spc EXCEPT ![s] = there]
      BY <2>3
      DEF ReadSlotSock, ReadSlotData, Reply, EndSave, SaveAt, Save!Finish, slotVars, workVars, sPool
    <3>2. Popping' = Popping
      BY <3>1 DEF PathInv, SaveTasks, Popping, SaveThread, Save!Thread
    <3> QED
      BY <1>1, <3>1, <3>2 DEF Adding, WorkThread, Work!Thread
  <2> QED
    BY <1>7, <2>1, <2>2, <2>3 DEF SaveStep
<1>8. CASE UNCHANGED vars
  BY <1>1, <1>2, <1>8 DEF vars, workVars, slotVars, saveVars, sPool
<1> QED
  BY <1>3, <1>4, <1>5, <1>6, <1>7, <1>8, NextSteps

(* For each queued pointer there is one save task that has yet to take     *)
(* one, so taskSaveSQL never finds the queue empty and leaves nothing.     *)
THEOREM SaveTaskPerDatumAlways == Spec => []SaveTaskPerDatum
<1>1. Init => SaveTaskPerDatum
  <2> SUFFICES ASSUME Init
               PROVE  SaveTaskPerDatum
    OBVIOUS
  <2>1. Popping = {} /\ Adding = {} /\ sDisp = {} /\ sQ = <<>> /\ saveQ = <<>>
    BY DEF Init, Save!Init, Popping, Adding
  <2>2. Cardinality({}) = 0 /\ Len(sQ) = 0 /\ Len(saveQ) = 0
    BY <2>1, FS_EmptySet, EmptySeq
  <2> QED
    BY <2>1, <2>2, TaskPerDatum
<1> QED
  BY <1>1, PathInit, PathNext, TaskPerDatumNext, PTL DEF Spec

-----------------------------------------------------------------------------
(* Messages that come one at a time                                        *)
(*                                                                         *)
(* The phases of a message on its way: while one is under way no other can *)
(* arrive, every earlier one is over, and only the thread that has it is   *)
(* at work.  A reply closes its socket, which may abort a receive: the     *)
(* empty completion is then the next message, received in phase Idle.      *)

Tokens == {c \in Conn : link[c] \in {"data", "aborted"}}

Over(m) == comps[m].empty \/ Answered(m) # {}

WorkRests(k) == kpc[k] \in {"parked", "end"}
SaveRests(s) == spc[s] \in {"parked", "end"}

NoWork == wQ = <<>> /\ wDisp = {}
NoSave == sQ = <<>> /\ sDisp = {}

WorkersRest == \A k \in WorkThread : WorkRests(k)
SaversRest  == \A s \in SaveThread : SaveRests(s)

OnlyWorks(k) == \A j \in WorkThread : j # k => WorkRests(j)
OnlySaves(s) == \A u \in SaveThread : u # s => SaveRests(u)

NothingToSave == NoSave /\ SaversRest /\ saveQ = <<>>

(* The newest completion is the one message that is not over.              *)
LastOpen ==
  /\ Tokens = {} /\ Answered(Newest) = {}
  /\ \A m \in Comp : m # Newest => Over(m)

Idle ==
  /\ recLock = Free /\ NoWork /\ WorkersRest /\ NothingToSave
  /\ \A m \in Comp : Over(m)
  /\ \A c, d \in Tokens : c = d

(* An IOCP worker writes the message to m_SocReUnit.                       *)
Writing == recLock # Free /\ NoWork /\ WorkersRest /\ NothingToSave /\ LastOpen

(* Its work task waits in the pool,                                        *)
WorkWaits ==
  /\ recLock = Free /\ WorkersRest /\ NothingToSave /\ LastOpen
  /\ \/ Len(wQ) = 1 /\ wDisp = {}
     \/ wQ = <<>> /\ \E t \in wDisp : wDisp = {t}

(* is run by k,                                                            *)
Working(k) ==
  /\ recLock = Free /\ NoWork /\ OnlyWorks(k) /\ NothingToSave /\ LastOpen
  /\ kpc[k] \in {"len", "sock", "check", "save", "copy", "queue"}
  /\ kpc[k] # "len" => klen[k] = Newest
  /\ kpc[k] \notin {"len", "sock"} => ksock[k] = Newest
  /\ kpc[k] \in {"save", "copy", "queue"} => ~NoBytes(Newest)
  /\ kpc[k] = "queue" => slotData[k] = Newest

(* and has put the message in the mdata of k.                              *)
Stored(k) ==
  /\ recLock = Free /\ NoWork /\ OnlyWorks(k) /\ LastOpen /\ ~NoBytes(Newest)
  /\ slotData[k] = Newest /\ slotSock[k] = Newest

(* Its pointer is queued, its save task not yet.                           *)
Handing(k) == Stored(k) /\ kpc[k] = "add" /\ NoSave /\ SaversRest /\ saveQ = <<k>>

(* The save task waits in the pool,                                        *)
SaveWaits(k) ==
  /\ Stored(k) /\ WorkRests(k) /\ SaversRest /\ saveQ = <<k>>
  /\ \/ Len(sQ) = 1 /\ sDisp = {}
     \/ sQ = <<>> /\ \E t \in sDisp : sDisp = {t}

(* and is run by s.                                                        *)
Saving(k, s) ==
  /\ Stored(k) /\ WorkRests(k) /\ NoSave /\ OnlySaves(s)
  /\ spc[s] \in {"pop", "args", "data", "reply"}
  /\ spc[s] = "pop" => saveQ = <<k>>
  /\ spc[s] # "pop" => saveQ = <<>> /\ sptr[s] = k
  /\ spc[s] \in {"data", "reply"} => ssock[s] = Newest
  /\ spc[s] = "reply" => sdata[s] = Newest

Phase ==
  \/ Idle \/ Writing \/ WorkWaits
  \/ \E k \in WorkThread : Working(k) \/ Handing(k) \/ SaveWaits(k)
  \/ \E k \in WorkThread, s \in SaveThread : Saving(k, s)

RepliesSound ==
  /\ \A r \in replies : r.to \in Comp /\ r.of = r.to /\ ~comps[r.to].empty
  /\ \A r, q \in replies : r.to = q.to => r = q

Serial == oneAtATime => RepliesSound /\ Phase

(* Which phase it is can be told from any part of it.                      *)
LEMMA PhaseTold ==
  ASSUME PathInv, Phase
  PROVE  /\ Tokens # {} => Idle
         /\ recLock # Free => Writing
         /\ ~NoWork => WorkWaits
         /\ \A k \in WorkThread : ~WorkRests(k) => Working(k) \/ Handing(k)
         /\ ~NoSave => \E k \in WorkThread : SaveWaits(k)
         /\ \A s \in SaveThread : ~SaveRests(s) => \E k \in WorkThread : Saving(k, s)
<1>1. CASE Idle
  BY <1>1 DEF Idle, NothingToSave, WorkersRest, SaversRest
<1>2. CASE Writing
  BY <1>2 DEF Writing, NothingToSave, WorkersRest, SaversRest, LastOpen
<1>3. CASE WorkWaits
  BY <1>3 DEF WorkWaits, NothingToSave, WorkersRest, SaversRest, LastOpen
<1>4. ASSUME NEW k \in WorkThread, Working(k)
      PROVE  /\ Tokens = {} /\ recLock = Free /\ NoWork /\ OnlyWorks(k) /\ NoSave /\ SaversRest
  BY <1>4 DEF Working, NothingToSave, LastOpen
<1>5. ASSUME NEW k \in WorkThread, Handing(k)
      PROVE  /\ Tokens = {} /\ recLock = Free /\ NoWork /\ OnlyWorks(k) /\ NoSave /\ SaversRest
  BY <1>5 DEF Handing, Stored, LastOpen
<1>6. ASSUME NEW k \in WorkThread, SaveWaits(k)
      PROVE  /\ Tokens = {} /\ recLock = Free /\ NoWork /\ WorkersRest /\ SaversRest
  BY <1>6 DEF SaveWaits, Stored, LastOpen, WorkersRest, OnlyWorks
<1>7. ASSUME NEW k \in WorkThread, NEW s \in SaveThread, Saving(k, s)
      PROVE  /\ Tokens = {} /\ recLock = Free /\ NoWork /\ WorkersRest /\ NoSave /\ OnlySaves(s)
  BY <1>7 DEF Saving, Stored, LastOpen, WorkersRest, OnlyWorks
<1>8. CASE \E k \in WorkThread : Working(k) \/ Handing(k)
  BY <1>4, <1>5, <1>8 DEF OnlyWorks, SaversRest
<1>9. CASE \E k \in WorkThread : SaveWaits(k)
  BY <1>6, <1>9 DEF WorkersRest, SaversRest
<1>10. CASE \E k \in WorkThread, s \in SaveThread : Saving(k, s)
  BY <1>7, <1>10 DEF WorkersRest, OnlySaves
<1> QED
  BY <1>1, <1>2, <1>3, <1>8, <1>9, <1>10 DEF Phase

(* A thread that rests may end its task, and a receive may be lost with    *)
(* its connection: the phase stays.                                        *)
LEMMA PhaseStays ==
  ASSUME PathInv, RepliesSound, Phase,
         UNCHANGED <<comps, recLock, wQ, wDisp, sQ, sDisp, saveQ, slotData, slotSock, replies>>,
         Tokens' \subseteq Tokens,
         \A j \in WorkThread :
            \/ kpc'[j] = kpc[j] /\ klen'[j] = klen[j] /\ ksock'[j] = ksock[j]
            \/ kpc[j] \in {"parked", "end"} /\ kpc'[j] \in {"parked", "end"},
         \A u \in SaveThread :
            \/ /\ spc'[u] = spc[u] /\ sptr'[u] = sptr[u]
               /\ ssock'[u] = ssock[u] /\ sdata'[u] = sdata[u]
            \/ spc[u] \in {"parked", "end"} /\ spc'[u] \in {"parked", "end"}
  PROVE  RepliesSound' /\ Phase'
<1>1. RepliesSound'
  BY DEF RepliesSound, Comp
<1>2. /\ WorkThread' = WorkThread /\ SaveThread' = SaveThread /\ Newest' = Newest /\ Comp' = Comp
      /\ NoWork' = NoWork /\ NoSave' = NoSave /\ NoBytes(Newest)' = NoBytes(Newest)
      /\ \A m : Over(m)' = Over(m) /\ Answered(m)' = Answered(m)
  BY DEF WorkThread, Work!Thread, SaveThread, Save!Thread, Newest, Comp, NoWork, NoSave, NoBytes,
         Over, Answered, None
<1>3. /\ \A j \in WorkThread : WorkRests(j) => WorkRests(j)'
      /\ \A u \in SaveThread : SaveRests(u) => SaveRests(u)'
      /\ LastOpen => LastOpen'
  BY <1>2 DEF WorkRests, SaveRests, LastOpen
<1>4. /\ WorkersRest => WorkersRest'
      /\ NothingToSave => NothingToSave'
      /\ SaversRest => SaversRest'
      /\ \A j \in WorkThread : OnlyWorks(j) => OnlyWorks(j)'
      /\ \A u \in SaveThread : OnlySaves(u) => OnlySaves(u)'
  BY <1>2, <1>3 DEF WorkersRest, NothingToSave, SaversRest, OnlyWorks, OnlySaves, NoSave
<1>5. \A k \in WorkThread : Stored(k) => Stored(k)'
  BY <1>2, <1>3, <1>4 DEF Stored
<1>6. CASE Idle
  BY <1>1, <1>2, <1>4, <1>6 DEF Idle, Phase
<1>7. CASE Writing
  BY <1>1, <1>2, <1>3, <1>4, <1>7 DEF Writing, Phase
<1>8. CASE WorkWaits
  BY <1>1, <1>2, <1>3, <1>4, <1>8 DEF WorkWaits, Phase
<1>9. ASSUME NEW k \in WorkThread, Working(k)
      PROVE  Working(k)'
  <2>1. kpc'[k] = kpc[k] /\ klen'[k] = klen[k] /\ ksock'[k] = ksock[k]
    BY <1>9 DEF Working
  <2>2. OnlyWorks(k)' /\ NothingToSave' /\ LastOpen' /\ NoWork' /\ recLock' = Free
    BY <1>2, <1>3, <1>4, <1>9 DEF Working
  <2> QED
    BY <1>2, <1>9, <2>1, <2>2 DEF Working
<1>10. ASSUME NEW k \in WorkThread, Handing(k)
       PROVE  Handing(k)'
  BY <1>2, <1>4, <1>5, <1>10 DEF Handing
<1>11. ASSUME NEW k \in WorkThread, SaveWaits(k)
       PROVE  SaveWaits(k)'
  BY <1>2, <1>3, <1>4, <1>5, <1>11 DEF SaveWaits
<1>12. ASSUME NEW k \in WorkThread, NEW s \in SaveThread, Saving(k, s)
       PROVE  Saving(k, s)'
  BY <1>2, <1>3, <1>4, <1>5, <1>12 DEF Saving
<1> QED
  BY <1>1, <1>2, <1>6, <1>7, <1>8, <1>9, <1>10, <1>11, <1>12 DEF Phase

(* What the network and the replies have to say of the phase.              *)
LEMMA MessagesKept ==
  ASSUME UNCHANGED <<link, comps, replies>>
  PROVE  /\ Newest' = Newest /\ Comp' = Comp /\ Tokens' = Tokens
         /\ RepliesSound => RepliesSound'
         /\ LastOpen => LastOpen'
         /\ NoBytes(Newest)' = NoBytes(Newest)
         /\ \A m : Over(m)' = Over(m)
  BY DEF Newest, Comp, Tokens, RepliesSound, LastOpen, Over, Answered, NoBytes, None

LEMMA ThreadsKept ==
  /\ WorkThread' = WorkThread /\ SaveThread' = SaveThread
  /\ kpc' = kpc => /\ WorkersRest' = WorkersRest
                   /\ \A k : WorkRests(k)' = WorkRests(k) /\ OnlyWorks(k)' = OnlyWorks(k)
  /\ spc' = spc => /\ SaversRest' = SaversRest
                   /\ \A s : SaveRests(s)' = SaveRests(s) /\ OnlySaves(s)' = OnlySaves(s)
  /\ UNCHANGED <<wQ, wDisp>> => NoWork' = NoWork
  /\ UNCHANGED <<sQ, sDisp>> => NoSave' = NoSave
  /\ UNCHANGED <<sQ, sDisp, spc, saveQ>> => NothingToSave' = NothingToSave
  BY DEF WorkThread, Work!Thread, SaveThread, Save!Thread, WorkersRest, WorkRests, OnlyWorks,
         SaversRest, SaveRests, OnlySaves, NoWork, NoSave, NothingToSave

(* When everything is dealt with no message is under way.                  *)
LEMMA SettledIsIdle ==
  ASSUME PathInv, Phase, Settled
  PROVE  Idle /\ Tokens = {}
<1>1. /\ wSub = Newest /\ wQ = <<>> /\ wDisp = {}
      /\ \A k \in WorkThread : wRun[k] = None
  <2>1. \A S : WorkP!Cardinality(S) = Cardinality(S)
    BY DEF WorkP!Cardinality, Cardinality
  <2>2. Newest \in Nat /\ wSub <= Newest /\ WorkP!Cardinality(wDone) = Newest
    BY <2>1, NewestFacts DEF Settled, Newest
  <2> QED
    BY <2>2, WorkP!PoolAllDone
    DEF PathInv, WorkTasks, WorkP!NULL, WorkP!Thread, WorkThread, Work!Thread, None
<1>2. sQ = <<>> /\ sDisp = {} /\ \A s \in SaveThread : sRun[s] = None
  <2>1. sSub \in Nat /\ sSub <= sSub /\ SaveP!Cardinality(sDone) = sSub
    BY SaveP!PoolSizes, SameCardinality DEF PathInv, SaveTasks, Settled
  <2> QED
    BY <2>1, SaveP!PoolAllDone
    DEF PathInv, SaveTasks, SaveP!NULL, SaveP!Thread, SaveThread, Save!Thread, None
<1>3. WorkersRest /\ SaversRest /\ NoWork /\ NoSave
  BY <1>1, <1>2
  DEF PathInv, WorkTasks, SaveTasks, WorkersRest, SaversRest, WorkRests, SaveRests, NoWork, NoSave
<1>4. recLock = Free
  BY <1>1, NewestFacts DEF PathInv, RecInv
<1>5. Tokens = {}
  BY DEF Settled, Tokens
<1>6. ~Writing
  BY <1>4 DEF Writing
<1>7. ~WorkWaits
  BY <1>1, EmptySeq DEF WorkWaits
<1>8. \A k \in WorkThread : ~Working(k) /\ ~Handing(k)
  BY <1>3 DEF Working, Handing, WorkersRest, WorkRests
<1>9. \A k \in WorkThread : ~SaveWaits(k)
  BY <1>2, EmptySeq DEF SaveWaits
<1>10. \A k \in WorkThread, s \in SaveThread : ~Saving(k, s)
  BY <1>3 DEF Saving, SaversRest, SaveRests
<1> QED
  BY <1>5, <1>6, <1>7, <1>8, <1>9, <1>10 DEF Phase

(* Clients act when everything is dealt with.                              *)
LEMMA PhaseAct ==
  ASSUME PathInv, oneAtATime, RepliesSound, Phase, NEW c \in Conn, Arrive(c) \/ Reset(c)
  PROVE  RepliesSound' /\ Phase'
<1>1. UNCHANGED <<iocpVars, recVars, workVars, slotVars, saveVars, wPool, sPool>> /\ Settled
  BY DEF Arrive, Reset, ClientsAct
<1>2. Idle /\ Tokens = {}
  BY <1>1, SettledIsIdle
<1>3. Tokens' \subseteq {c}
  <2>1. \A d \in Conn : d # c => link'[d] = link[d]
    BY DEF Arrive, Reset, PathInv, NetInv
  <2> QED
    BY <1>2, <2>1 DEF Tokens
<1>4. UNCHANGED <<comps, replies, kpc, spc, recLock, saveQ, wQ, wDisp, sQ, sDisp>>
  BY <1>1 DEF iocpVars, recVars, workVars, slotVars, saveVars, wPool, sPool
<1>5. RepliesSound' /\ Comp' = Comp /\ \A m : Over(m)' = Over(m)
  BY <1>4 DEF RepliesSound, Comp, Over, Answered
<1>6. Idle'
  BY <1>2, <1>3, <1>4, <1>5, ThreadsKept DEF Idle
<1> QED
  BY <1>5, <1>6 DEF Phase

LEMMA PhaseReceive ==
  ASSUME PathInv, RepliesSound, Phase, NEW w \in Worker, NEW c \in Conn, Receive(w, c)
  PROVE  RepliesSound' /\ Phase'
<1> DEFINE e == [conn |-> c, empty |-> link[c] = "aborted"]
<1>1. /\ link[c] \in {"data", "aborted"} /\ link' = [link EXCEPT ![c] = "busy"]
      /\ recLock' = w /\ comps' = Append(comps, e)
      /\ UNCHANGED <<workVars, slotVars, saveVars, wPool, sPool>>
  BY DEF Receive
<1>2. Idle /\ Tokens = {c}
  <2>1. c \in Tokens
    BY <1>1 DEF Tokens
  <2> QED
    BY <2>1, PhaseTold DEF Idle
<1>3. Tokens' = {}
  BY <1>1, <1>2 DEF Tokens, PathInv, NetInv
<1>4. /\ Newest \in Nat /\ Newest' = Newest + 1 /\ Comp = 1..Newest /\ Comp' = 1..(Newest + 1)
      /\ \A m \in Comp : comps'[m] = comps[m]
  <2>1. Newest \in Nat /\ comps \in Seq([conn : Conn, empty : BOOLEAN])
    BY NewestFacts
  <2>2. e \in [conn : Conn, empty : BOOLEAN]
    OBVIOUS
  <2> HIDE DEF e
  <2>3. Len(comps') = Newest + 1 /\ \A m \in 1..Newest : comps'[m] = comps[m]
    BY <1>1, <2>1, <2>2, AppendProperties DEF Newest
  <2> QED
    BY <2>1, <2>3 DEF Newest, Comp
<1>5. UNCHANGED <<replies, kpc, spc, saveQ, wQ, wDisp, sQ, sDisp>>
  BY <1>1 DEF workVars, slotVars, saveVars, wPool, sPool
<1>6. RepliesSound'
  BY <1>4, <1>5 DEF RepliesSound
<1>7. LastOpen'
  <2>1. Answered(Newest)' = {}
    BY <1>4, <1>5 DEF RepliesSound, Answered
  <2>2. \A m \in Comp' : m # Newest' => m \in Comp
    BY <1>4
  <2>3. \A m \in Comp : Over(m)'
    BY <1>2, <1>4, <1>5 DEF Idle, Over, Answered
  <2> QED
    BY <1>3, <2>1, <2>2, <2>3 DEF LastOpen
<1>8. Writing'
  BY <1>1, <1>2, <1>5, <1>7, ThreadsKept, Sizes DEF Idle, Writing
<1> QED
  BY <1>6, <1>8 DEF Phase

LEMMA PhaseAddWorkTask ==
  ASSUME PathInv, RepliesSound, Phase, NEW w \in Worker, AddWorkTask(w)
  PROVE  RepliesSound' /\ Phase'
<1>1. /\ wpc[w] = "add" /\ WorkP!Submit /\ recLock' = Free
      /\ UNCHANGED <<netVars, comps, workVars, slotVars, saveVars, sPool>>
  BY DEF AddWorkTask, WorkerAt, Work!Submit, WorkP!Submit
<1>2. Writing
  BY <1>1, PhaseTold, Sizes DEF PathInv, RecInv
<1>3. UNCHANGED <<link, comps, replies, kpc, spc, saveQ, sQ, sDisp>>
  BY <1>1 DEF netVars, workVars, slotVars, saveVars, sPool
<1>4. Len(wQ') = 1 /\ wDisp' = {}
  <2>1. Len(wQ') = Len(wQ) + 1 /\ wDisp' = wDisp
    BY <1>1, WorkP!PoolSubmit DEF PathInv, WorkTasks
  <2> QED
    BY <1>2, <2>1, EmptySeq DEF Writing, NoWork
<1>5. WorkWaits'
  BY <1>1, <1>2, <1>3, <1>4, MessagesKept, ThreadsKept DEF Writing, WorkWaits
<1> QED
  BY <1>3, <1>5, MessagesKept DEF Phase

LEMMA PhaseDispatch ==
  ASSUME PathInv, RepliesSound, Phase, PoolStep
  PROVE  RepliesSound' /\ Phase'
<1>1. UNCHANGED <<link, comps, replies, kpc, klen, ksock, spc, sptr, ssock, sdata, saveQ, recLock,
                 slotData, slotSock>>
  BY DEF PoolStep, netVars, iocpVars, recVars, workVars, slotVars, saveVars
<1>2. CASE WorkDispatch
  <2>1. /\ wQ # <<>> /\ wQ' = Tail(wQ) /\ wDisp' = wDisp \cup {Head(wQ)} /\ UNCHANGED <<sQ, sDisp>>
    BY <1>2 DEF WorkDispatch, Work!Dispatch, sPool
  <2>2. WorkWaits /\ Len(wQ) = 1 /\ wDisp = {}
    BY <2>1, PhaseTold DEF NoWork, WorkWaits
  <2>3. wQ' = <<>>
    <3>1. wQ \in Seq(WorkP!Task)
      BY WorkP!PoolSizes DEF PathInv, WorkTasks
    <3>2. Tail(wQ) \in Seq(WorkP!Task) /\ Len(Tail(wQ)) = 0
      BY <2>1, <2>2, <3>1, HeadTailProperties
    <3> QED
      BY <2>1, <3>2, EmptySeq
  <2>4. WorkWaits'
    BY <1>1, <2>1, <2>2, <2>3, MessagesKept, ThreadsKept DEF WorkWaits
  <2> QED
    BY <1>1, <2>4, MessagesKept DEF Phase
<1>3. CASE SaveDispatch
  <2>1. /\ sQ # <<>> /\ sQ' = Tail(sQ) /\ sDisp' = sDisp \cup {Head(sQ)} /\ UNCHANGED <<wQ, wDisp>>
    BY <1>3 DEF SaveDispatch, Save!Dispatch, wPool
  <2>2. PICK k \in WorkThread : SaveWaits(k) /\ Len(sQ) = 1 /\ sDisp = {}
    BY <2>1, PhaseTold DEF NoSave, SaveWaits
  <2>3. sQ' = <<>>
    <3>1. sQ \in Seq(SaveP!Task)
      BY SaveP!PoolSizes DEF PathInv, SaveTasks
    <3>2. Tail(sQ) \in Seq(SaveP!Task) /\ Len(Tail(sQ)) = 0
      BY <2>1, <2>2, <3>1, HeadTailProperties
    <3> QED
      BY <2>1, <3>2, EmptySeq
  <2>4. Stored(k)'
    BY <1>1, <2>1, <2>2, MessagesKept, ThreadsKept DEF SaveWaits, Stored
  <2>5. SaveWaits(k)'
    BY <1>1, <2>1, <2>2, <2>3, <2>4, ThreadsKept DEF SaveWaits
  <2> QED
    BY <1>1, <2>5, MessagesKept, ThreadsKept DEF Phase
<1> QED
  BY <1>2, <1>3 DEF PoolStep, Dispatch, WorkDispatch, SaveDispatch

(* A step of work thread k disturbs no other work thread.                  *)
LEMMA OthersRest ==
  ASSUME PathInv, NEW k \in WorkThread, OnlyWorks(k),
         \A j \in WorkThread : j # k => kpc'[j] = kpc[j]
  PROVE  /\ OnlyWorks(k)'
         /\ WorkRests(k)' => WorkersRest'
  BY DEF OnlyWorks, WorkRests, WorkersRest, WorkThread, Work!Thread

LEMMA PhaseBeginWork ==
  ASSUME PathInv, RepliesSound, Phase, NEW k \in WorkThread, BeginWork(k)
  PROVE  RepliesSound' /\ Phase'
<1>1. /\ kpc' = [kpc EXCEPT ![k] = "len"] /\ Work!Begin(k)
      /\ UNCHANGED <<netVars, iocpVars, recVars, klen, ksock, slotVars, saveVars, sPool>>
  BY DEF BeginWork, WorkAt
<1>2. UNCHANGED <<link, comps, replies, recLock, spc, saveQ, sQ, sDisp, wQ>>
  BY <1>1 DEF netVars, iocpVars, recVars, slotVars, saveVars, sPool, Work!Begin
<1>3. PICK n \in wDisp : wDisp' = wDisp \ {n}
  BY <1>1 DEF Work!Begin
<1>4. WorkWaits /\ wQ = <<>> /\ wDisp' = {}
  <2>1. WorkWaits
    BY <1>3, PhaseTold DEF NoWork
  <2>2. wQ = <<>> /\ \E t \in wDisp : wDisp = {t}
    BY <1>3, <2>1 DEF WorkWaits
  <2> QED
    BY <1>3, <2>1, <2>2
<1>5. /\ kpc'[k] = "len" /\ \A j \in WorkThread : j # k => kpc'[j] = kpc[j]
  BY <1>1 DEF PathInv, WorkTasks
<1>6. OnlyWorks(k)'
  BY <1>4, <1>5, OthersRest DEF WorkWaits, WorkersRest, OnlyWorks
<1>7. Working(k)'
  BY <1>2, <1>4, <1>5, <1>6, MessagesKept, ThreadsKept DEF WorkWaits, Working, NoWork
<1> QED
  BY <1>2, <1>7, MessagesKept, ThreadsKept DEF Phase

LEMMA PhaseRead ==
  ASSUME PathInv, RepliesSound, Phase, NEW k \in WorkThread,
         ReadLen(k) \/ ReadSock(k) \/ CheckLen(k)
  PROVE  RepliesSound' /\ Phase'
<1>1. /\ kpc[k] \in {"len", "sock", "check"}
      /\ UNCHANGED <<netVars, iocpVars, recVars, slotVars, saveVars, wPool, sPool>>
      /\ \E there \in {"sock", "check", "save", "end"} : kpc' = [kpc EXCEPT ![k] = there]
  BY DEF ReadLen, ReadSock, CheckLen, WorkAt
<1>2. UNCHANGED <<link, comps, replies, recLock, recLen, recSock, spc, saveQ, sQ, sDisp, wQ, wDisp>>
  BY <1>1 DEF netVars, iocpVars, recVars, slotVars, saveVars, sPool, wPool
<1>3. Working(k)
  BY <1>1, PhaseTold DEF WorkRests, Handing
<1>4. recLen = Newest /\ recSock = Newest
  BY <1>3, Sizes DEF Working, PathInv, RecInv
<1>5. \A j \in WorkThread : j # k => kpc'[j] = kpc[j]
  BY <1>1 DEF PathInv, WorkTasks
<1>6. OnlyWorks(k)' /\ (WorkRests(k)' => WorkersRest')
  BY <1>3, <1>5, OthersRest DEF Working
<1>7. CASE ReadLen(k)
  <2>1. kpc'[k] = "sock" /\ klen'[k] = Newest
    BY <1>4, <1>7 DEF ReadLen, WorkAt, PathInv, WorkTasks, WorkInv
  <2>2. Working(k)'
    BY <1>2, <1>3, <1>6, <2>1, MessagesKept, ThreadsKept DEF Working
  <2> QED
    BY <1>2, <2>2, MessagesKept, ThreadsKept DEF Phase
<1>8. CASE ReadSock(k)
  <2>1. kpc'[k] = "check" /\ klen' = klen /\ ksock'[k] = Newest /\ kpc[k] = "sock"
    BY <1>4, <1>8 DEF ReadSock, WorkAt, PathInv, WorkTasks, WorkInv
  <2>2. Working(k)'
    BY <1>2, <1>3, <1>6, <2>1, MessagesKept, ThreadsKept DEF Working
  <2> QED
    BY <1>2, <2>2, MessagesKept, ThreadsKept DEF Phase
<1>9. CASE CheckLen(k)
  <2>1. /\ klen' = klen /\ ksock' = ksock /\ kpc[k] = "check"
        /\ kpc'[k] = IF NoBytes(klen[k]) THEN "end" ELSE "save"
    BY <1>9 DEF CheckLen, WorkAt, PathInv, WorkTasks
  <2>2. klen[k] = Newest /\ ksock[k] = Newest
    BY <1>3, <2>1 DEF Working
  <2>3. CASE NoBytes(Newest)
    <3>1. WorkersRest'
      BY <1>6, <2>1, <2>2, <2>3 DEF WorkRests
    <3>2. \A m \in Comp : Over(m)
      BY <1>3, <2>3, NewestFacts DEF Working, LastOpen, NoBytes, Over, None
    <3>3. Idle'
      BY <1>2, <1>3, <3>1, <3>2, MessagesKept, ThreadsKept DEF Working, LastOpen, Idle
    <3> QED
      BY <1>2, <3>3, MessagesKept DEF Phase
  <2>4. CASE ~NoBytes(Newest)
    <3>1. kpc'[k] = "save"
      BY <2>1, <2>2, <2>4
    <3>2. Working(k)'
      BY <1>2, <1>3, <1>6, <2>1, <2>2, <2>4, <3>1, MessagesKept, ThreadsKept DEF Working
    <3> QED
      BY <1>2, <3>2, MessagesKept, ThreadsKept DEF Phase
  <2> QED
    BY <2>3, <2>4
<1> QED
  BY <1>7, <1>8, <1>9

LEMMA PhaseCopy ==
  ASSUME PathInv, RepliesSound, Phase, NEW k \in WorkThread, BeginCopy(k) \/ EndCopy(k)
  PROVE  RepliesSound' /\ Phase'
<1>1. /\ \/ kpc[k] = "save" /\ kpc'[k] = "copy"
         \/ kpc[k] = "copy" /\ kpc'[k] = "queue" /\ slotData'[k] = recData
      /\ UNCHANGED <<netVars, iocpVars, recVars, klen, ksock, saveQ, saveVars, wPool, sPool>>
      /\ \A j \in WorkThread : j # k => kpc'[j] = kpc[j]
  BY DEF BeginCopy, EndCopy, WorkAt, PathInv, WorkTasks, SlotInv
<1>2. UNCHANGED <<link, comps, replies, recLock, klen, ksock, spc, saveQ, sQ, sDisp, wQ, wDisp>>
  BY <1>1 DEF netVars, iocpVars, recVars, saveVars, sPool, wPool
<1>3. Working(k)
  BY <1>1, PhaseTold DEF WorkRests, Handing
<1>4. recData = Newest
  BY <1>3, Sizes DEF Working, PathInv, RecInv
<1>5. OnlyWorks(k)'
  BY <1>1, <1>3, OthersRest DEF Working
<1>6. NothingToSave' /\ LastOpen' /\ NoWork' /\ recLock' = Free
  BY <1>2, <1>3, MessagesKept, ThreadsKept DEF Working
<1>7. klen[k] = Newest /\ ksock[k] = Newest /\ ~NoBytes(Newest)
  BY <1>1, <1>3 DEF Working
<1>8. Working(k)'
  BY <1>1, <1>2, <1>4, <1>5, <1>6, <1>7, MessagesKept DEF Working
<1> QED
  BY <1>2, <1>8, MessagesKept, ThreadsKept DEF Phase

LEMMA PhaseQueueDatum ==
  ASSUME PathInv, RepliesSound, Phase, NEW k \in WorkThread, QueueDatum(k)
  PROVE  RepliesSound' /\ Phase'
<1>1. /\ kpc[k] = "queue" /\ kpc'[k] = "add" /\ slotSock'[k] = ksock[k]
      /\ saveQ' = Append(saveQ, k)
      /\ UNCHANGED <<netVars, iocpVars, recVars, slotData, saveVars, wPool, sPool>>
      /\ \A j \in WorkThread : j # k => kpc'[j] = kpc[j]
  BY DEF QueueDatum, WorkAt, PathInv, WorkTasks, SlotInv
<1>2. UNCHANGED <<link, comps, replies, recLock, slotData, spc, sQ, sDisp, wQ, wDisp>>
  BY <1>1 DEF netVars, iocpVars, recVars, saveVars, sPool, wPool
<1>3. Working(k)
  BY <1>1, PhaseTold DEF WorkRests, Handing
<1>4. saveQ' = <<k>>
  BY <1>1, <1>3 DEF Working, NothingToSave
<1>5. OnlyWorks(k)'
  BY <1>1, <1>3, OthersRest DEF Working
<1>6. slotData'[k] = Newest /\ slotSock'[k] = Newest /\ ~NoBytes(Newest)
  BY <1>1, <1>2, <1>3 DEF Working
<1>7. Stored(k)'
  BY <1>2, <1>3, <1>5, <1>6, MessagesKept, ThreadsKept DEF Working, Stored
<1>8. Handing(k)'
  BY <1>1, <1>2, <1>3, <1>4, <1>7, ThreadsKept DEF Working, NothingToSave, Handing
<1> QED
  BY <1>2, <1>8, MessagesKept, ThreadsKept DEF Phase

LEMMA PhaseAddSaveTask ==
  ASSUME PathInv, RepliesSound, Phase, NEW k \in WorkThread, AddSaveTask(k)
  PROVE  RepliesSound' /\ Phase'
<1>1. /\ kpc[k] = "add" /\ kpc'[k] = "end" /\ SaveP!Submit
      /\ UNCHANGED <<netVars, iocpVars, recVars, slotData, slotSock, saveQ, saveVars, wPool>>
      /\ \A j \in WorkThread : j # k => kpc'[j] = kpc[j]
  BY DEF AddSaveTask, WorkAt, PathInv, WorkTasks, Save!Submit, SaveP!Submit
<1>2. UNCHANGED <<link, comps, replies, recLock, slotData, slotSock, saveQ, spc, wQ, wDisp>>
  BY <1>1 DEF netVars, iocpVars, recVars, saveVars, wPool
<1>3. Handing(k)
  BY <1>1, PhaseTold DEF WorkRests, Working
<1>4. Len(sQ') = 1 /\ sDisp' = {}
  <2>1. Len(sQ') = Len(sQ) + 1 /\ sDisp' = sDisp
    BY <1>1, SaveP!PoolSubmit DEF PathInv, SaveTasks
  <2> QED
    BY <1>3, <2>1, EmptySeq DEF Handing, NoSave
<1>5. OnlyWorks(k)' /\ WorkRests(k)'
  BY <1>1, <1>3, OthersRest DEF Handing, Stored, WorkRests
<1>6. Stored(k)'
  BY <1>2, <1>3, <1>5, MessagesKept, ThreadsKept DEF Handing, Stored
<1>7. SaveWaits(k)'
  BY <1>2, <1>3, <1>4, <1>5, <1>6, ThreadsKept DEF Handing, SaveWaits
<1> QED
  BY <1>2, <1>7, MessagesKept, ThreadsKept DEF Phase

LEMMA OtherSaversRest ==
  ASSUME PathInv, NEW s \in SaveThread, OnlySaves(s),
         \A u \in SaveThread : u # s => spc'[u] = spc[u]
  PROVE  /\ OnlySaves(s)'
         /\ SaveRests(s)' => SaversRest'
  BY DEF OnlySaves, SaveRests, SaversRest, SaveThread, Save!Thread

LEMMA PhaseBeginSave ==
  ASSUME PathInv, RepliesSound, Phase, NEW s \in SaveThread, BeginSave(s)
  PROVE  RepliesSound' /\ Phase'
<1>1. /\ spc'[s] = "pop" /\ Save!Begin(s)
      /\ UNCHANGED <<netVars, iocpVars, recVars, workVars, slotVars, replies, wPool>>
      /\ \A u \in SaveThread : u # s => spc'[u] = spc[u]
  BY DEF BeginSave, SaveAt, PathInv, SaveTasks
<1>2. UNCHANGED <<link, comps, replies, recLock, slotData, slotSock, saveQ, kpc, wQ, wDisp, sQ>>
  BY <1>1 DEF netVars, iocpVars, recVars, workVars, slotVars, wPool, Save!Begin
<1>3. PICK n \in sDisp : sDisp' = sDisp \ {n}
  BY <1>1 DEF Save!Begin
<1>4. PICK k \in WorkThread : SaveWaits(k)
  BY <1>3, PhaseTold DEF NoSave
<1>5. sQ' = <<>> /\ sDisp' = {}
  <2>1. sQ = <<>> /\ \E t \in sDisp : sDisp = {t}
    BY <1>3, <1>4 DEF SaveWaits
  <2> QED
    BY <1>2, <1>3, <2>1
<1>6. OnlySaves(s)'
  BY <1>1, <1>4, OtherSaversRest DEF SaveWaits, SaversRest, OnlySaves
<1>7. Stored(k)'
  BY <1>2, <1>4, MessagesKept, ThreadsKept DEF SaveWaits, Stored
<1>8. Saving(k, s)'
  BY <1>1, <1>2, <1>4, <1>5, <1>6, <1>7, ThreadsKept DEF SaveWaits, Saving, NoSave
<1> QED
  BY <1>2, <1>8, MessagesKept, ThreadsKept DEF Phase

LEMMA PhaseTakeDatum ==
  ASSUME PathInv, RepliesSound, Phase, NEW s \in SaveThread, TakeDatum(s)
  PROVE  RepliesSound' /\ Phase'
<1>1. /\ spc[s] = "pop" /\ spc'[s] = IF saveQ = <<>> THEN "end" ELSE "args"
      /\ sptr'[s] = IF saveQ = <<>> THEN sptr[s] ELSE Head(saveQ)
      /\ saveQ' = IF saveQ = <<>> THEN saveQ ELSE Tail(saveQ)
      /\ UNCHANGED <<netVars, iocpVars, recVars, workVars, slotData, slotSock, replies, wPool, sPool>>
      /\ \A u \in SaveThread : u # s => spc'[u] = spc[u]
  BY DEF TakeDatum, SaveAt, PathInv, SaveTasks, SaveInv
<1>2. UNCHANGED <<link, comps, replies, recLock, slotData, slotSock, kpc, wQ, wDisp, sQ, sDisp>>
  BY <1>1 DEF netVars, iocpVars, recVars, workVars, wPool, sPool
<1>3. PICK k \in WorkThread : Saving(k, s)
  BY <1>1, PhaseTold DEF SaveRests
<1>4. saveQ = <<k>> /\ saveQ # <<>> /\ Head(saveQ) = k /\ Tail(saveQ) = <<>>
  <2>1. saveQ = <<k>>
    BY <1>1, <1>3 DEF Saving
  <2>2. saveQ \in Seq(WorkThread)
    BY DEF PathInv, SlotInv
  <2>3. Len(saveQ) = 1 /\ saveQ[1] = k
    BY <2>1
  <2>4. saveQ # <<>>
    BY <2>3, EmptySeq
  <2>5. /\ Head(saveQ) = saveQ[1] /\ Len(Tail(saveQ)) = 0
        /\ Tail(saveQ) \in Seq(WorkThread)
    BY <2>2, <2>3, <2>4, HeadTailProperties
  <2>6. Tail(saveQ) = <<>>
    BY <2>5, EmptySeq
  <2> QED
    BY <2>1, <2>3, <2>4, <2>5, <2>6
<1>5. OnlySaves(s)'
  BY <1>1, <1>3, OtherSaversRest DEF Saving
<1>6. Stored(k)'
  BY <1>2, <1>3, MessagesKept, ThreadsKept DEF Saving, Stored
<1>7. spc'[s] = "args" /\ sptr'[s] = k /\ saveQ' = <<>>
  BY <1>1, <1>4
<1>8. Saving(k, s)'
  BY <1>2, <1>3, <1>5, <1>6, <1>7, ThreadsKept DEF Saving
<1> QED
  BY <1>2, <1>8, MessagesKept, ThreadsKept DEF Phase

LEMMA PhaseReadSlot ==
  ASSUME PathInv, RepliesSound, Phase, NEW s \in SaveThread, ReadSlotSock(s) \/ ReadSlotData(s)
  PROVE  RepliesSound' /\ Phase'
<1>1. /\ \/ spc[s] = "args" /\ spc'[s] = "data" /\ ssock'[s] = slotSock[sptr[s]]
         \/ /\ spc[s] = "data" /\ spc'[s] = "reply" /\ sdata'[s] = slotData[sptr[s]]
            /\ ssock' = ssock
      /\ UNCHANGED <<netVars, iocpVars, recVars, workVars, slotVars, sptr, replies, wPool, sPool>>
      /\ \A u \in SaveThread : u # s => spc'[u] = spc[u]
  BY DEF ReadSlotSock, ReadSlotData, SaveAt, PathInv, SaveTasks, SaveInv
<1>2. UNCHANGED <<link, comps, replies, recLock, slotData, slotSock, saveQ, sptr, kpc, wQ, wDisp,
                 sQ, sDisp>>
  BY <1>1 DEF netVars, iocpVars, recVars, workVars, slotVars, wPool, sPool
<1>3. PICK k \in WorkThread : Saving(k, s)
  BY <1>1, PhaseTold DEF SaveRests
<1>4. saveQ = <<>> /\ sptr[s] = k /\ slotSock[k] = Newest /\ slotData[k] = Newest
  BY <1>1, <1>3 DEF Saving, Stored
<1>5. OnlySaves(s)'
  BY <1>1, <1>3, OtherSaversRest DEF Saving
<1>6. Stored(k)' /\ WorkRests(k)' /\ NoSave'
  BY <1>2, <1>3, MessagesKept, ThreadsKept DEF Saving, Stored
<1>7. ssock'[s] = Newest /\ (spc'[s] = "reply" => sdata'[s] = Newest)
  BY <1>1, <1>3, <1>4 DEF Saving
<1>8. Saving(k, s)'
  BY <1>1, <1>2, <1>4, <1>5, <1>6, <1>7, MessagesKept DEF Saving
<1> QED
  BY <1>2, <1>8, MessagesKept, ThreadsKept DEF Phase

(* The reply is to the newest message, the only one not over; closing the  *)
(* socket aborts one receive at most.                                      *)
LEMMA PhaseReply ==
  ASSUME PathInv, RepliesSound, Phase, NEW s \in SaveThread, Reply(s)
  PROVE  RepliesSound' /\ Phase'
<1> DEFINE c == comps[ssock[s]].conn
           r == [to |-> ssock[s], of |-> sdata[s], task |-> sRun[s]]
<1>1. /\ spc[s] = "reply" /\ spc'[s] = "end" /\ replies' = replies \cup {r}
      /\ link' = [link EXCEPT ![c] = IF @ = "posted" THEN "aborted" ELSE @]
      /\ UNCHANGED <<iocpVars, recVars, workVars, slotVars, sptr, ssock, sdata, wPool, sPool>>
      /\ \A u \in SaveThread : u # s => spc'[u] = spc[u]
  BY DEF Reply, SaveAt, PathInv, SaveTasks
<1>2. UNCHANGED <<comps, recLock, saveQ, kpc, wQ, wDisp, sQ, sDisp>>
  BY <1>1 DEF iocpVars, recVars, workVars, slotVars, wPool, sPool
<1>3. PICK k \in WorkThread : Saving(k, s)
  BY <1>1, PhaseTold DEF SaveRests
<1>4. r.to = Newest /\ r.of = Newest
  BY <1>1, <1>3 DEF Saving
<1>5. Newest \in Comp /\ ~comps[Newest].empty /\ Answered(Newest) = {} /\ Tokens = {}
  BY <1>3, NewestFacts DEF Saving, Stored, LastOpen, NoBytes, None
<1>6. RepliesSound'
  <2>1. \A q \in replies : q.to # r.to
    BY <1>4, <1>5 DEF Answered
  <2> HIDE DEF r
  <2>2. \A q \in replies' : q.to \in Comp /\ q.of = q.to /\ ~comps[q.to].empty
    BY <1>1, <1>4, <1>5 DEF RepliesSound
  <2>3. \A q, t \in replies' : q.to = t.to => q = t
    BY <1>1, <2>1 DEF RepliesSound
  <2>4. comps' = comps /\ Comp' = Comp
    BY <1>2 DEF Comp
  <2> QED
    BY <2>2, <2>3, <2>4 DEF RepliesSound
<1>7. \A m \in Comp' : Over(m)'
  <2>1. \A m \in Comp : m # Newest => Over(m)
    BY <1>3 DEF Saving, Stored, LastOpen
  <2>2. r \in replies' /\ replies \subseteq replies' /\ comps' = comps /\ Comp' = Comp
    BY <1>1, <1>2 DEF Comp
  <2> HIDE DEF r
  <2> QED
    BY <1>4, <2>1, <2>2 DEF Over, Answered
<1>8. \A d, e \in Tokens' : d = e
  <2>1. \A d \in Conn : d # c => link'[d] = link[d]
    BY <1>1 DEF PathInv, NetInv
  <2> QED
    BY <1>5, <2>1 DEF Tokens
<1>9. SaversRest' /\ WorkersRest'
  BY <1>1, <1>2, <1>3, OtherSaversRest, ThreadsKept
  DEF Saving, Stored, SaveRests, WorkersRest, WorkRests, OnlyWorks
<1>10. NoWork' /\ NoSave' /\ saveQ' = <<>> /\ recLock' = Free
  BY <1>1, <1>2, <1>3, ThreadsKept DEF Saving, Stored
<1>11. Idle'
  BY <1>7, <1>8, <1>9, <1>10 DEF Idle, NothingToSave
<1> QED
  BY <1>6, <1>11 DEF Phase

(* The steps that do not carry the message on.                             *)
LEMMA PhaseQuiet ==
  ASSUME PathInv, RepliesSound, Phase,
         \/ \E w \in Worker : \/ \E c \in Conn : ClientClosed(w, c)
                              \/ SetData(w) \/ SetLen(w) \/ SetSock(w) \/ PostReceive(w)
         \/ \E k \in WorkThread : EndWork(k)
         \/ \E s \in SaveThread : EndSave(s)
         \/ UNCHANGED vars
  PROVE  RepliesSound' /\ Phase'
<1> DEFINE Kept == UNCHANGED <<comps, recLock, wQ, wDisp, sQ, sDisp, saveQ, slotData, slotSock,
                               replies>>
           WorkKept == UNCHANGED <<kpc, klen, ksock>>
           SaveKept == UNCHANGED <<spc, sptr, ssock, sdata>>
<1>1. ASSUME NEW w \in Worker, NEW c \in Conn, ClientClosed(w, c)
      PROVE  Kept /\ Tokens' \subseteq Tokens /\ WorkKept /\ SaveKept
  <2>1. Tokens' \subseteq Tokens
    BY <1>1 DEF ClientClosed, Tokens, PathInv, NetInv
  <2> QED
    BY <1>1, <2>1
    DEF ClientClosed, iocpVars, recVars, workVars, slotVars, saveVars, wPool, sPool
<1>2. ASSUME NEW w \in Worker, SetData(w) \/ SetLen(w) \/ SetSock(w)
      PROVE  Kept /\ Tokens' \subseteq Tokens /\ WorkKept /\ SaveKept
  BY <1>2
  DEF SetData, SetLen, SetSock, netVars, workVars, slotVars, saveVars, wPool, sPool, Tokens
<1>3. ASSUME NEW w \in Worker, PostReceive(w)
      PROVE  Kept /\ Tokens' \subseteq Tokens /\ WorkKept /\ SaveKept
  <2>1. Tokens' \subseteq Tokens
    <3> DEFINE c == comps[wcomp[w]].conn
    <3>1. link' = [link EXCEPT ![c] = IF c \in closed THEN "gone" ELSE "posted"]
      BY <1>3 DEF PostReceive
    <3> HIDE DEF c
    <3> QED
      BY <3>1 DEF Tokens, PathInv, NetInv
  <2> QED
    BY <1>3, <2>1 DEF PostReceive, recVars, workVars, slotVars, saveVars, wPool, sPool
<1>4. CASE UNCHANGED vars
  <2>1. Kept /\ Tokens' \subseteq Tokens /\ WorkKept /\ SaveKept
    BY <1>4
    DEF vars, netVars, iocpVars, recVars, workVars, slotVars, saveVars, wPool, sPool, Tokens
  <2> QED
    BY <2>1, PhaseStays
<1>5. ASSUME NEW k \in WorkThread, EndWork(k)
      PROVE  RepliesSound' /\ Phase'
  <2>1. Kept /\ Tokens' \subseteq Tokens /\ SaveKept
    BY <1>5
    DEF EndWork, Work!Finish, netVars, iocpVars, recVars, slotVars, saveVars, sPool, Tokens
  <2>2. /\ kpc[k] = "end" /\ kpc'[k] = "parked"
        /\ \A j \in WorkThread : j # k =>
              kpc'[j] = kpc[j] /\ klen'[j] = klen[j] /\ ksock'[j] = ksock[j]
    BY <1>5 DEF EndWork, WorkAt, PathInv, WorkTasks, WorkInv
  <2> QED
    BY <2>1, <2>2, PhaseStays
<1>6. ASSUME NEW s \in SaveThread, EndSave(s)
      PROVE  RepliesSound' /\ Phase'
  <2>1. Kept /\ Tokens' \subseteq Tokens /\ WorkKept
    BY <1>6
    DEF EndSave, Save!Finish, netVars, iocpVars, recVars, workVars, slotVars, wPool, Tokens
  <2>2. /\ spc[s] = "end" /\ spc'[s] = "parked"
        /\ \A u \in SaveThread : u # s =>
              /\ spc'[u] = spc[u] /\ sptr'[u] = sptr[u]
              /\ ssock'[u] = ssock[u] /\ sdata'[u] = sdata[u]
    BY <1>6 DEF EndSave, SaveAt, PathInv, SaveTasks, SaveInv
  <2> QED
    BY <2>1, <2>2, PhaseStays
<1> QED
  BY <1>1, <1>2, <1>3, <1>4, <1>5, <1>6, PhaseStays

LEMMA SerialNext == PathInv /\ Serial /\ [Next]_vars => Serial'
<1> SUFFICES ASSUME PathInv, oneAtATime, RepliesSound, Phase, [Next]_vars
             PROVE  RepliesSound' /\ Phase'
  BY NextSteps DEF Serial
<1>1. CASE ClientStep
  BY <1>1, PhaseAct, PhaseQuiet DEF ClientStep
<1>2. ASSUME NEW w \in Worker,
             \/ \E c \in Conn : Receive(w, c)
             \/ SetData(w) \/ SetLen(w) \/ SetSock(w) \/ AddWorkTask(w) \/ PostReceive(w)
      PROVE  RepliesSound' /\ Phase'
  BY <1>2, PhaseReceive, PhaseAddWorkTask, PhaseQuiet
<1>3. CASE PoolStep
  BY <1>3, PhaseDispatch
<1>4. ASSUME NEW k \in WorkThread, WorkStep(k)
      PROVE  RepliesSound' /\ Phase'
  BY <1>4, PhaseBeginWork, PhaseRead, PhaseCopy, PhaseQueueDatum, PhaseAddSaveTask, PhaseQuiet
  DEF WorkStep
<1>5. ASSUME NEW s \in SaveThread, SaveStep(s)
      PROVE  RepliesSound' /\ Phase'
  BY <1>5, PhaseBeginSave, PhaseTakeDatum, PhaseReadSlot, PhaseReply, PhaseQuiet DEF SaveStep
<1>6. CASE UNCHANGED vars
  BY <1>6, PhaseQuiet
<1> QED
  BY <1>1, <1>2, <1>3, <1>4, <1>5, <1>6, NextSteps

(* Requests that come one at a time are answered once each, with their own *)
(* bytes, whatever the numbers of threads of the three kinds; an empty     *)
(* completion is not answered.                                             *)
THEOREM EachAnsweredOnceAlways == Spec => []EachAnsweredOnce
<1>1. Init => Serial
  <2> SUFFICES ASSUME Init
               PROVE  RepliesSound /\ Idle
    BY DEF Serial, Phase
  <2>1. /\ replies = {} /\ Tokens = {} /\ Comp = {} /\ recLock = Free /\ saveQ = <<>>
        /\ wQ = <<>> /\ wDisp = {} /\ sQ = <<>> /\ sDisp = {}
    BY EmptySeq DEF Init, Tokens, Comp, Work!Init, Save!Init
  <2>2. WorkersRest /\ SaversRest
    BY DEF Init, WorkersRest, SaversRest, WorkRests, SaveRests
  <2> QED
    BY <2>1, <2>2 DEF RepliesSound, Idle, NothingToSave, NoWork, NoSave
<1>2. PathInv /\ Serial => EachAnsweredOnce
  <2> SUFFICES ASSUME PathInv, oneAtATime, RepliesSound, Phase
               PROVE  /\ \A r \in replies : r.of = r.to /\ ~comps[r.to].empty
                      /\ \A n \in Comp : Cardinality(Answered(n)) <= 1
                      /\ Settled => \A n \in Comp : comps[n].empty \/ Answered(n) # {}
    BY DEF Serial, EachAnsweredOnce
  <2>1. ASSUME NEW n \in Comp
        PROVE  Cardinality(Answered(n)) <= 1
    <3>1. CASE Answered(n) = {}
      <4>1. Cardinality(Answered(n)) = 0
        BY <3>1, FS_EmptySet
      <4> QED
        BY <4>1
    <3>2. CASE Answered(n) # {}
      <4>1. PICK r : r \in Answered(n)
        BY <3>2
      <4>2. Answered(n) = {r}
        BY <4>1 DEF Answered, RepliesSound
      <4>3. Cardinality(Answered(n)) = 1
        BY <4>2, FS_Singleton
      <4> QED
        BY <4>3
    <3> QED
      BY <3>1, <3>2
  <2>2. Settled => \A n \in Comp : Over(n)
    BY SettledIsIdle DEF Idle
  <2> QED
    BY <2>1, <2>2 DEF RepliesSound, Over
<1> QED
  BY <1>1, <1>2, PathInit, PathNext, SerialNext, PTL DEF Spec
=============================================================================
