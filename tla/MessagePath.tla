---------------------------- MODULE MessagePath ----------------------------
(***************************************************************************)
(* The way of a request through the server: an IOCP worker copies it to    *)
(* the global m_SocReUnit and queues a work task (SocketTCP.cpp,           *)
(* IOCP_Run); a work thread copies it on to a HardData on its own stack,   *)
(* queues a pointer to that and a save task (TestTask.cpp, RecClientData,  *)
(* SaveClientData); a save thread takes the pointer, answers and closes    *)
(* the socket (taskSaveSQL, JieXiWeiXin).                                  *)
(*                                                                         *)
(* The two thread pools are used by their promise (TaskPool, which         *)
(* ThreadPool implements).  A task carries no data: it only says that one  *)
(* more execution is due.                                                  *)
(*                                                                         *)
(* The completions are numbered in the order in which they take            *)
(* m_RECdataLock, and a field of a buffer holds the number of the          *)
(* completion it was last written from.  A memcpy target is Torn while it  *)
(* is being written; a memcpy is read in one step, since a copy that       *)
(* overlaps a write has no outcome but the old bytes, the new or a         *)
(* mixture.                                                                *)
(***************************************************************************)
EXTENDS Naturals, Sequences, FiniteSets

CONSTANTS
  Conn,         \* client connections
  Worker,       \* IOCP workers, 2 for each processor (SocketTCP.cpp:252)
  NumWork,      \* threads of WorkDatathreadpool
  NumSave,      \* threads of SaveDatathreadpool
  MaxEvents,    \* bound: clients act while there are fewer completions
  MaxTurns,     \* the same bound for clients that act one at a time
  Free,         \* the owner of a lock nobody holds
  Torn          \* the content of a buffer during a memcpy to it

ASSUME MessagePathAssumption ==
  /\ NumWork \in Nat \ {0}
  /\ NumSave \in Nat \ {0}
  /\ MaxEvents \in Nat
  /\ MaxTurns \in Nat
  /\ Torn \notin Nat
  /\ Free \notin Worker \cup 1..NumWork

VARIABLES
  oneAtATime,   \* TRUE: clients act only when the last act is dealt with
  link,         \* the overlapped WSARecv of each connection
  closed,       \* connections that are down: a further WSARecv on them fails
  comps,        \* the completions so far: the connection, and if it was empty
  wpc,          \* where each IOCP worker is in IOCP_Run
  wcomp,        \* the completion it is working on
  recLock,      \* owner of m_RECdataLock
  recData, recLen, recSock,   \* m_SocReUnit: RecData, DataLen, SocketNum
  kpc,          \* where each work thread is in taskRecClientProc
  klen, ksock,  \* the arguments len and ClientS of RecClientData
  saveLock,     \* owner of mSaveDataLock
  slotData, slotSock,         \* mdata of SaveClientData, on each work stack
  saveQ,        \* m_SaveQueueSQL: pointers, named by the thread pointed into
  spc,          \* where each save thread is in taskSaveSQL
  sptr,         \* pd
  ssock, sdata, \* sClient and WebData of JieXiWeiXin
  replies,      \* the answers given: to which completion, with which data
  wSub, wQ, wDisp, wRun, wDone,   \* WorkDatathreadpool
  sSub, sQ, sDisp, sRun, sDone    \* SaveDatathreadpool

netVars  == <<link, closed>>
iocpVars == <<comps, wpc, wcomp>>
recVars  == <<recLock, recData, recLen, recSock>>
workVars == <<kpc, klen, ksock>>
slotVars == <<saveLock, slotData, slotSock, saveQ>>
saveVars == <<spc, sptr, ssock, sdata, replies>>
wPool    == <<wSub, wQ, wDisp, wRun, wDone>>
sPool    == <<sSub, sQ, sDisp, sRun, sDone>>

vars == <<oneAtATime, netVars, iocpVars, recVars, workVars, slotVars, saveVars, wPool, sPool>>

MaxComps == MaxEvents + MaxTurns + Cardinality(Conn)

Work == INSTANCE TaskPool WITH NumThreads <- NumWork, MaxCalls <- MaxComps,
          submitted <- wSub, taskq <- wQ, dispatched <- wDisp,
          running <- wRun, done <- wDone

Save == INSTANCE TaskPool WITH NumThreads <- NumSave, MaxCalls <- MaxComps,
          submitted <- sSub, taskq <- sQ, dispatched <- sDisp,
          running <- sRun, done <- sDone

WorkThread == Work!Thread
SaveThread == Save!Thread
None       == 0          \* no completion, no pointer

Init ==
  /\ oneAtATime \in BOOLEAN
  /\ link = [c \in Conn |-> "none"] /\ closed = {}
  /\ comps = <<>>
  /\ wpc = [w \in Worker |-> "wait"] /\ wcomp = [w \in Worker |-> None]
  /\ recLock = Free /\ recData = None /\ recLen = None /\ recSock = None
  /\ kpc = [k \in WorkThread |-> "parked"]
  /\ klen = [k \in WorkThread |-> None] /\ ksock = [k \in WorkThread |-> None]
  /\ saveLock = Free /\ saveQ = <<>>
  /\ slotData = [k \in WorkThread |-> None]
  /\ slotSock = [k \in WorkThread |-> None]
  /\ spc = [s \in SaveThread |-> "parked"]
  /\ sptr = [s \in SaveThread |-> None]
  /\ ssock = [s \in SaveThread |-> None] /\ sdata = [s \in SaveThread |-> None]
  /\ replies = {}
  /\ Work!Init /\ Save!Init

-----------------------------------------------------------------------------
(* The network.                                                            *)

(* Everything that has arrived has been dealt with, the completions that   *)
(* closesocket causes included.                                            *)
Settled ==
  /\ \A c \in Conn : link[c] \notin {"data", "aborted", "busy"}
  /\ Cardinality(wDone) = Len(comps)
  /\ Cardinality(sDone) = sSub

(* The bound on what clients do, and the turn they take.                   *)
ClientsAct ==
  /\ Len(comps) + Cardinality({c \in Conn : link[c] \in {"data", "aborted"}})
       < IF oneAtATime THEN MaxTurns ELSE MaxEvents
  /\ oneAtATime => Settled

(* A client connects and sends a request, or sends more on a connection    *)
(* where a WSARecv is pending.                                             *)
Arrive(c) ==
  /\ link[c] \in {"none", "posted"}
  /\ c \notin closed
  /\ ClientsAct
  /\ link' = [link EXCEPT ![c] = "data"]
  /\ UNCHANGED <<closed, iocpVars, recVars, workVars, slotVars, saveVars, wPool, sPool>>

(* A connection breaks, or its keep-alive probes stay unanswered.          *)
Reset(c) ==
  /\ link[c] \in {"data", "busy", "posted"}
  /\ c \notin closed
  /\ ClientsAct
  /\ closed' = closed \cup {c}
  /\ link'   = [link EXCEPT ![c] = IF @ = "posted" THEN "aborted" ELSE @]
  /\ UNCHANGED <<iocpVars, recVars, workVars, slotVars, saveVars, wPool, sPool>>

-----------------------------------------------------------------------------
(* An IOCP worker w (IOCP_Run).                                            *)

WorkerAt(w, here, there) == wpc[w] = here /\ wpc' = [wpc EXCEPT ![w] = there]

(* Zero bytes and TRUE: the client has closed.  The context is erased, the *)
(* socket closed.                                                          *)
ClientClosed(w, c) ==
  /\ wpc[w] = "wait"
  /\ link[c] = "posted"
  /\ link'   = [link EXCEPT ![c] = "gone"]
  /\ closed' = closed \cup {c}
  /\ UNCHANGED <<iocpVars, recVars, workVars, slotVars, saveVars, wPool, sPool>>

(* GetQueuedCompletionStatus returns a receive on c.  When closesocket or  *)
(* a reset has aborted the receive it returns FALSE, 0 bytes and the key   *)
(* of c: none of the tests on its result covers that, and the worker goes  *)
(* on as if data had come.  Buffer.len, tested next, is the size of the    *)
(* buffer and never 0.  The worker takes m_RECdataLock and begins to write *)
(* RecData.                                                                *)
Receive(w, c) ==
  /\ WorkerAt(w, "wait", "copy")
  /\ link[c] \in {"data", "aborted"}
  /\ recLock = Free
  /\ recLock' = w
  /\ comps'   = Append(comps, [conn |-> c, empty |-> link[c] = "aborted"])
  /\ wcomp'   = [wcomp EXCEPT ![w] = Len(comps) + 1]
  /\ link'    = [link EXCEPT ![c] = "busy"]
  /\ recData' = Torn
  /\ UNCHANGED <<closed, recLen, recSock, workVars, slotVars, saveVars, wPool, sPool>>

SetData(w) ==
  /\ WorkerAt(w, "copy", "len")
  /\ recData' = wcomp[w]
  /\ UNCHANGED <<netVars, comps, wcomp, recLock, recLen, recSock, workVars,
                 slotVars, saveVars, wPool, sPool>>

(* Mutant: DataLen keeps the length of an earlier message.                 *)
SetLen_Forgotten(w) ==
  /\ WorkerAt(w, "len", "sock")
  /\ UNCHANGED <<netVars, comps, wcomp, recVars, workVars, slotVars, saveVars, wPool, sPool>>

SetLen(w) ==
  /\ WorkerAt(w, "len", "sock")
  /\ recLen' = wcomp[w]
  /\ UNCHANGED <<netVars, comps, wcomp, recLock, recData, recSock, workVars,
                 slotVars, saveVars, wPool, sPool>>

SetSock(w) ==
  /\ WorkerAt(w, "sock", "add")
  /\ recSock' = wcomp[w]
  /\ UNCHANGED <<netVars, comps, wcomp, recLock, recData, recLen, workVars,
                 slotVars, saveVars, wPool, sPool>>

(* WorkDatathreadpool.addTask(p, NORMAL) and LeaveCriticalSection.         *)
AddWorkTask(w) ==
  /\ WorkerAt(w, "add", "post")
  /\ Work!Submit
  /\ recLock' = Free
  /\ UNCHANGED <<netVars, comps, wcomp, recData, recLen, recSock, workVars,
                 slotVars, saveVars, sPool>>

(* The next WSARecv.  It fails on a connection that is down, and the       *)
(* context is deleted.                                                     *)
PostReceive(w) ==
  LET c == comps[wcomp[w]].conn IN
  /\ WorkerAt(w, "post", "wait")
  /\ link'  = [link EXCEPT ![c] = IF c \in closed THEN "gone" ELSE "posted"]
  /\ wcomp' = [wcomp EXCEPT ![w] = None]
  /\ UNCHANGED <<closed, comps, recVars, workVars, slotVars, saveVars, wPool, sPool>>

-----------------------------------------------------------------------------
(* A work thread k (taskRecClientProc, RecClientData, SaveClientData).     *)

WorkAt(k, here, there) == kpc[k] = here /\ kpc' = [kpc EXCEPT ![k] = there]

BeginWork(k) ==
  /\ WorkAt(k, "parked", "len")
  /\ Work!Begin(k)
  /\ UNCHANGED <<netVars, iocpVars, recVars, klen, ksock, slotVars, saveVars, sPool>>

(* The arguments of RecClientData are read from m_SocReUnit, without the   *)
(* lock and from right to left.                                            *)
ReadLen(k) ==
  /\ WorkAt(k, "len", "sock")
  /\ klen' = [klen EXCEPT ![k] = recLen]
  /\ UNCHANGED <<netVars, iocpVars, recVars, ksock, slotVars, saveVars, wPool, sPool>>

ReadSock(k) ==
  /\ WorkAt(k, "sock", "check")
  /\ ksock' = [ksock EXCEPT ![k] = recSock]
  /\ UNCHANGED <<netVars, iocpVars, recVars, klen, slotVars, saveVars, wPool, sPool>>

(* DataLen is 0: before the first message, and for an aborted receive.     *)
NoBytes(n) == n = None \/ comps[n].empty

(* Under m_RECdataLock the message is copied to a local that is not used   *)
(* again; then an empty one is dropped.                                    *)
CheckLen(k) ==
  /\ recLock = Free
  /\ WorkAt(k, "check", IF NoBytes(klen[k]) THEN "end" ELSE "save")
  /\ UNCHANGED <<netVars, iocpVars, recVars, klen, ksock, slotVars, saveVars, wPool, sPool>>

(* SaveClientData takes mSaveDataLock and copies from m_SocReUnit.RecData, *)
(* to which src still points, to its local mdata.                          *)
BeginCopy(k) ==
  /\ WorkAt(k, "save", "copy")
  /\ saveLock = Free
  /\ saveLock' = k
  /\ slotData' = [slotData EXCEPT ![k] = Torn]
  /\ UNCHANGED <<netVars, iocpVars, recVars, klen, ksock, slotSock, saveQ, saveVars, wPool, sPool>>

EndCopy(k) ==
  /\ WorkAt(k, "copy", "queue")
  /\ slotData' = [slotData EXCEPT ![k] = recData]
  /\ UNCHANGED <<netVars, iocpVars, recVars, klen, ksock, saveLock, slotSock,
                 saveQ, saveVars, wPool, sPool>>

(* Mutant: the socket is taken from the global, not from the parameter.    *)
QueueDatum_GlobalSocket(k) ==
  /\ WorkAt(k, "queue", "add")
  /\ slotSock' = [slotSock EXCEPT ![k] = recSock]
  /\ saveQ'    = Append(saveQ, k)
  /\ UNCHANGED <<netVars, iocpVars, recVars, klen, ksock, saveLock, slotData,
                 saveVars, wPool, sPool>>

(* Mutant: the connection is stored where its message belongs.             *)
QueueDatum_Untyped(k) ==
  /\ WorkAt(k, "queue", "add")
  /\ slotSock' = [slotSock EXCEPT ![k] = comps[ksock[k]].conn]
  /\ saveQ'    = Append(saveQ, k)
  /\ UNCHANGED <<netVars, iocpVars, recVars, klen, ksock, saveLock, slotData,
                 saveVars, wPool, sPool>>

(* mdata.SocketNum, and &mdata is pushed on m_SaveQueueSQL.                *)
QueueDatum(k) ==
  /\ WorkAt(k, "queue", "add")
  /\ slotSock' = [slotSock EXCEPT ![k] = ksock[k]]
  /\ saveQ'    = Append(saveQ, k)
  /\ UNCHANGED <<netVars, iocpVars, recVars, klen, ksock, saveLock, slotData,
                 saveVars, wPool, sPool>>

(* SaveDatathreadpool.addTask(pTask, NORMAL) and LeaveCriticalSection.     *)
AddSaveTask(k) ==
  /\ WorkAt(k, "add", "end")
  /\ Save!Submit
  /\ saveLock' = Free
  /\ UNCHANGED <<netVars, iocpVars, recVars, klen, ksock, slotData, slotSock,
                 saveQ, saveVars, wPool>>

(* The function returns, its locals are gone; mdata stays where it is.     *)
EndWork(k) ==
  /\ WorkAt(k, "end", "parked")
  /\ Work!Finish(k)
  /\ klen'  = [klen EXCEPT ![k] = None]
  /\ ksock' = [ksock EXCEPT ![k] = None]
  /\ UNCHANGED <<netVars, iocpVars, recVars, slotVars, saveVars, sPool>>

-----------------------------------------------------------------------------
(* A save thread s (taskSaveSQL, JieXiWeiXin).                             *)

SaveAt(s, here, there) == spc[s] = here /\ spc' = [spc EXCEPT ![s] = there]

BeginSave(s) ==
  /\ SaveAt(s, "parked", "pop")
  /\ Save!Begin(s)
  /\ UNCHANGED <<netVars, iocpVars, recVars, workVars, slotVars, sptr, ssock,
                 sdata, replies, wPool>>

(* Mutant: front without pop_front.                                        *)
TakeDatum_Peek(s) ==
  /\ saveLock = Free
  /\ SaveAt(s, "pop", IF saveQ = <<>> THEN "end" ELSE "args")
  /\ sptr' = [sptr EXCEPT ![s] = IF saveQ = <<>> THEN @ ELSE Head(saveQ)]
  /\ UNCHANGED <<netVars, iocpVars, recVars, workVars, slotVars, ssock, sdata,
                 replies, wPool, sPool>>

(* Under mSaveDataLock: the oldest pointer is popped, unless the queue is  *)
(* empty.                                                                  *)
TakeDatum(s) ==
  /\ saveLock = Free
  /\ SaveAt(s, "pop", IF saveQ = <<>> THEN "end" ELSE "args")
  /\ sptr'  = [sptr EXCEPT ![s] = IF saveQ = <<>> THEN @ ELSE Head(saveQ)]
  /\ saveQ' = IF saveQ = <<>> THEN saveQ ELSE Tail(saveQ)
  /\ UNCHANGED <<netVars, iocpVars, recVars, workVars, saveLock, slotData,
                 slotSock, ssock, sdata, replies, wPool, sPool>>

(* pd->SocketNum, after the unlock.                                        *)
ReadSlotSock(s) ==
  /\ SaveAt(s, "args", "data")
  /\ ssock' = [ssock EXCEPT ![s] = slotSock[sptr[s]]]
  /\ UNCHANGED <<netVars, iocpVars, recVars, workVars, slotVars, sptr, sdata,
                 replies, wPool, sPool>>

(* memcpy(WebData, src, length), after the unlock.                         *)
ReadSlotData(s) ==
  /\ SaveAt(s, "data", "reply")
  /\ sdata' = [sdata EXCEPT ![s] = slotData[sptr[s]]]
  /\ UNCHANGED <<netVars, iocpVars, recVars, workVars, slotVars, sptr, ssock,
                 replies, wPool, sPool>>

(* The handler of the request answers on sClient; in every case the socket *)
(* is closed, which aborts the receive pending on it.                      *)
Reply(s) ==
  LET c == comps[ssock[s]].conn IN
  /\ SaveAt(s, "reply", "end")
  /\ replies' = replies \cup {[to |-> ssock[s], of |-> sdata[s], task |-> sRun[s]]}
  /\ closed'  = closed \cup {c}
  /\ link'    = [link EXCEPT ![c] = IF @ = "posted" THEN "aborted" ELSE @]
  /\ UNCHANGED <<iocpVars, recVars, workVars, slotVars, sptr, ssock, sdata, wPool, sPool>>

EndSave(s) ==
  /\ SaveAt(s, "end", "parked")
  /\ Save!Finish(s)
  /\ sptr'  = [sptr EXCEPT ![s] = None]
  /\ ssock' = [ssock EXCEPT ![s] = None]
  /\ sdata' = [sdata EXCEPT ![s] = None]
  /\ UNCHANGED <<netVars, iocpVars, recVars, workVars, slotVars, replies, wPool>>

-----------------------------------------------------------------------------

(* The pools hand their queued tasks to threads.                           *)
Dispatch ==
  \/ Work!Dispatch /\ UNCHANGED sPool
  \/ Save!Dispatch /\ UNCHANGED wPool

PoolStep ==
  /\ Dispatch
  /\ UNCHANGED <<netVars, iocpVars, recVars, workVars, slotVars, saveVars>>

WorkerStep(w) ==
  \/ \E c \in Conn : ClientClosed(w, c) \/ Receive(w, c)
  \/ SetData(w) \/ SetLen(w) \/ SetSock(w) \/ AddWorkTask(w) \/ PostReceive(w)

WorkStep(k) ==
  \/ BeginWork(k) \/ ReadLen(k) \/ ReadSock(k) \/ CheckLen(k)
  \/ BeginCopy(k) \/ EndCopy(k) \/ QueueDatum(k) \/ AddSaveTask(k) \/ EndWork(k)

SaveStep(s) ==
  \/ BeginSave(s) \/ TakeDatum(s) \/ ReadSlotSock(s) \/ ReadSlotData(s)
  \/ Reply(s) \/ EndSave(s)

(* The server waits when everything is dealt with and no client sends.     *)
Quiet == Settled /\ UNCHANGED vars

Next ==
  /\ \/ \E c \in Conn : Arrive(c) \/ Reset(c)
     \/ \E w \in Worker : WorkerStep(w)
     \/ PoolStep
     \/ \E k \in WorkThread : WorkStep(k)
     \/ \E s \in SaveThread : SaveStep(s)
     \/ Quiet
  /\ UNCHANGED oneAtATime

Spec == Init /\ [][Next]_vars

-----------------------------------------------------------------------------

Comp  == 1..Len(comps)
Bytes == {None, Torn} \cup Comp

(* Type correctness: every field names a completion that has happened,     *)
(* every lock is free or held by a thread inside its critical section.     *)
TypeOK ==
  /\ oneAtATime \in BOOLEAN
  /\ link \in [Conn -> {"none", "data", "aborted", "busy", "posted", "gone"}]
  /\ closed \subseteq Conn
  /\ \A i \in Comp : comps[i].conn \in Conn /\ comps[i].empty \in BOOLEAN
  /\ wpc \in [Worker -> {"wait", "copy", "len", "sock", "add", "post"}]
  /\ wcomp \in [Worker -> Comp \cup {None}]
  /\ recData \in Bytes /\ recLen \in Comp \cup {None} /\ recSock \in Comp \cup {None}
  /\ \A w \in Worker : recLock = w <=> wpc[w] \in {"copy", "len", "sock", "add"}
  /\ kpc \in [WorkThread -> {"parked", "len", "sock", "check", "save", "copy",
                             "queue", "add", "end"}]
  /\ klen \in [WorkThread -> Comp \cup {None}]
  /\ ksock \in [WorkThread -> Comp \cup {None}]
  /\ \A k \in WorkThread : saveLock = k <=> kpc[k] \in {"copy", "queue", "add"}
  /\ slotData \in [WorkThread -> Bytes]
  /\ slotSock \in [WorkThread -> Comp \cup {None}]
  /\ saveQ \in Seq(WorkThread)
  /\ spc \in [SaveThread -> {"parked", "pop", "args", "data", "reply", "end"}]
  /\ sptr \in [SaveThread -> WorkThread \cup {None}]
  /\ ssock \in [SaveThread -> Comp \cup {None}]
  /\ sdata \in [SaveThread -> Bytes]
  /\ Work!TypeOK /\ Save!TypeOK

(* There is one queued pointer for each save task that has yet to take one *)
(* (one more while SaveClientData is between its push and its addTask), so *)
(* the branches of taskSaveSQL for an empty queue are never taken and no   *)
(* pointer is left behind without a task to take it.                       *)
SaveTaskPerDatum ==
  Len(saveQ) = Len(sQ) + Cardinality(sDisp)
                 + Cardinality({s \in SaveThread : spc[s] = "pop"})
                 + Cardinality({k \in WorkThread : kpc[k] = "add"})

(* Whatever is overtaken on the way, a socket is never answered with the   *)
(* bytes of a message older than the one it was read with: IOCP_Run writes *)
(* RecData before SocketNum, and both readers take the socket before the   *)
(* bytes, so the bytes can only be as new or newer (or mixed).             *)
NoOlder(data, sock) == data = Torn \/ data >= sock

NeverOlderBytes ==
  /\ \A k \in WorkThread : kpc[k] = "queue" => NoOlder(slotData[k], ksock[k])
  /\ \A s \in SaveThread : spc[s] = "reply" => NoOlder(sdata[s], ssock[s])

(* When requests come one at a time, each but the empty completions is     *)
(* answered once, with its own bytes, by a task of its own.                *)
Answered(n) == {r \in replies : r.to = n}

EachAnsweredOnce ==
  oneAtATime =>
    /\ \A r \in replies : r.of = r.to /\ ~comps[r.to].empty
    /\ \A n \in Comp : Cardinality(Answered(n)) <= 1
    /\ Settled => \A n \in Comp : comps[n].empty \/ Answered(n) # {}

(* "the data to be stored enters the queue; a variable shared by all must  *)
(* be used under the lock, since this function is called in several        *)
(* threads" (TestTask.cpp:4087): a datum is not rewritten between its push *)
(* and the save thread's use of it.                                        *)
InUse(k) ==
  \/ \E i \in 1..Len(saveQ) : saveQ[i] = k
  \/ \E s \in SaveThread : sptr[s] = k /\ spc[s] \in {"args", "data"}

QueuedDatumKept == \A k \in WorkThread : kpc[k] = "copy" => ~InUse(k)
=============================================================================
