---------------------------- MODULE Connections ----------------------------
(***************************************************************************)
(* The life of a client connection in CSocketTCP: the accept thread        *)
(* (socket_accept_thread), the IOCP workers (IOCP_Run), the save threads,  *)
(* which close the socket of every message they have answered, and         *)
(* closeAllClient with the new start after a failed accept.                *)
(*                                                                         *)
(* A connection is numbered by the accept that returned it.  Its number    *)
(* stands for the socket in the system and for the IOCPContextKey, which   *)
(* is the key of every completion on that socket.  The program names       *)
(* sockets by handles, and the system may give a handle that has been      *)
(* closed to the next connection.  A worker that then posts a receive for  *)
(* the old one posts it on the new one: the two are crossed, and the       *)
(* program does not promise much of them any more.                         *)
(*                                                                         *)
(* What a message goes through between the worker and the save thread is   *)
(* in MessagePath; here it is one pending answer to its handle.            *)
(***************************************************************************)
EXTENDS Naturals, Sequences, FiniteSets

CONSTANTS
  Handle,       \* socket handles
  Worker,       \* the threads Listen starts
  MaxKeys,      \* MAX_HARD_TCP_NUM
  MaxAccepts,   \* bound on the number of connections
  MaxSends,     \* bound on the number of messages
  MaxRestarts   \* bound on the number of failed accepts

ASSUME ConnectionsAssumption ==
  /\ MaxKeys \in Nat \ {0} /\ MaxAccepts \in Nat
  /\ MaxSends \in Nat /\ MaxRestarts \in Nat
  /\ IsFiniteSet(Worker)

Conn == 1..MaxAccepts
None == 0             \* no connection; the key of an exit packet

VARIABLES
  accepted,     \* number of connections accepted so far
  sock,         \* handle of each connection: clientSocket of its context
  owner,        \* the open socket each handle stands for, or None
  peer,         \* the client: "open", has sent "fin", or was "reset"
  pend,         \* number of receives pending on each socket
  ctx,          \* IOCPContextKey of each connection: "none", "live", "deleted"
  keys,         \* m_setIOCPKEY
  port,         \* the queue of m_CompletionPort
  wpc, wkey,    \* where each worker is in IOCP_Run, and its pIOCPContext
  jobs, ends,   \* messages being answered, and those whose handler has returned
  apc,          \* where the accept thread is
  listening,    \* Create and Listen have succeeded
  sent, restarts,
  crossed,      \* connections of which the worker of one has posted a
                \* receive on the other
  forgotten     \* connections whose first WSARecv has failed

netVars    == <<sock, owner, peer, pend>>
keyVars    == <<ctx, keys>>
workerVars == <<wpc, wkey>>
jobVars    == <<jobs, ends>>
acceptVars == <<accepted, apc, listening, restarts>>

\* To tell the exceptions; the program keeps none of it.
pastVars   == <<crossed, forgotten>>

vars == <<netVars, keyVars, port, workerVars, jobVars, acceptVars, sent, pastVars>>

Packet(x, kind) == [key |-> x, kind |-> kind]
Copies(n, p)    == [i \in 1..n |-> p]

Init ==
  /\ accepted = 0 /\ sock \in [Conn -> {None}]
  /\ owner = [h \in Handle |-> None]
  /\ peer = [x \in Conn |-> "open"]
  /\ pend = [x \in Conn |-> 0]
  /\ ctx = [x \in Conn |-> "none"] /\ keys = {}
  /\ port = <<>>
  /\ wpc = [w \in Worker |-> "get"] /\ wkey = [w \in Worker |-> None]
  /\ jobs = [x \in Conn |-> 0] /\ ends = [x \in Conn |-> 0]
  /\ apc = "accept" /\ listening = TRUE
  /\ sent = 0 /\ restarts = 0
  /\ crossed = {} /\ forgotten = {}

-----------------------------------------------------------------------------
(* Sockets, as the system keeps them.                                      *)

IsOpen(x) == \E h \in Handle : owner[h] = x

(* All receives pending on x complete in this way.  A socket not yet bound *)
(* to the completion port queues nothing.                                  *)
Completed(x, kind) ==
  IF ctx[x] = "none" THEN <<>> ELSE Copies(pend[x], Packet(x, kind))

(* closesocket(h): the receives pending on the socket are aborted.  On a   *)
(* handle that is closed already it does nothing.                          *)
CloseHandle(h) ==
  LET x == owner[h] IN
  /\ owner' = [owner EXCEPT ![h] = None]
  /\ IF x = None
     THEN UNCHANGED <<pend, port>>
     ELSE /\ port' = port \o Completed(x, "abort")
          /\ pend' = [pend EXCEPT ![x] = 0]

-----------------------------------------------------------------------------
(* The clients.                                                            *)

Send(x) ==
  /\ sent < MaxSends
  /\ IsOpen(x) /\ peer[x] = "open" /\ pend[x] > 0 /\ ctx[x] # "none"
  /\ sent' = sent + 1
  /\ pend' = [pend EXCEPT ![x] = @ - 1]
  /\ port' = Append(port, Packet(x, "data"))
  /\ UNCHANGED <<sock, owner, peer, keyVars, workerVars, jobVars, acceptVars, pastVars>>

(* The client closes (0 bytes and TRUE), or the connection breaks (0 bytes *)
(* and FALSE, as for a receive aborted by closesocket).                    *)
Leave(x, how, kind) ==
  /\ IsOpen(x) /\ peer[x] = "open"
  /\ peer' = [peer EXCEPT ![x] = how]
  /\ port' = port \o Completed(x, kind)
  /\ pend' = [pend EXCEPT ![x] = 0]
  /\ UNCHANGED <<sock, owner, keyVars, workerVars, jobVars, acceptVars, sent, pastVars>>

Fin(x)   == Leave(x, "fin", "eof")
Reset(x) == Leave(x, "reset", "abort")

-----------------------------------------------------------------------------
(* The accept thread (socket_accept_thread).                               *)

AcceptAt(here, there) == apc = here /\ apc' = there

(* accept returns a socket on a free handle; at the limit it is closed at  *)
(* once.                                                                   *)
Accept(h) ==
  LET x == accepted + 1 IN
  /\ AcceptAt("accept", IF Cardinality(keys) < MaxKeys THEN "key" ELSE "accept")
  /\ listening
  /\ accepted < MaxAccepts
  /\ owner[h] = None
  /\ accepted' = x
  /\ sock'  = [sock EXCEPT ![x] = h]
  /\ owner' = [owner EXCEPT ![h] = IF Cardinality(keys) < MaxKeys THEN x ELSE None]
  /\ UNCHANGED <<peer, pend, keyVars, port, workerVars, jobVars, listening, restarts,
                 sent, pastVars>>

(* Mutant: the context is not put in the set.                              *)
NewKey_NotInserted ==
  LET x == accepted IN
  /\ AcceptAt("key", "accept")
  /\ ctx'  = [ctx EXCEPT ![x] = "live"]
  /\ pend' = [pend EXCEPT ![x] = @ + 1]
  /\ UNCHANGED <<sock, owner, peer, keys, port, workerVars, jobVars, accepted,
                 listening, restarts, sent, pastVars>>

(* Under m_mutex: the context is made and inserted, the socket bound to    *)
(* the completion port, the first WSARecv posted.  Its result is ignored.  *)
NewKey ==
  LET x == accepted
      h == sock[accepted] IN
  /\ AcceptAt("key", "accept")
  /\ ctx'  = [ctx EXCEPT ![x] = "live"]
  /\ keys' = keys \cup {x}
  /\ IF owner[h] # x \/ peer[x] = "reset"
     THEN UNCHANGED <<pend, port>> /\ forgotten' = forgotten \cup {x}
     ELSE IF peer[x] = "fin"
     THEN port' = Append(port, Packet(x, "eof")) /\ UNCHANGED <<pend, forgotten>>
     ELSE pend' = [pend EXCEPT ![x] = @ + 1] /\ UNCHANGED <<port, forgotten>>
  /\ UNCHANGED <<sock, owner, peer, workerVars, jobVars, accepted, listening, restarts,
                 sent, crossed>>

(* accept returns INVALID_SOCKET, and closeAllClient begins.               *)
AcceptFails ==
  /\ AcceptAt("accept", "stop")
  /\ restarts < MaxRestarts
  /\ restarts' = restarts + 1
  /\ UNCHANGED <<netVars, keyVars, port, workerVars, jobVars, accepted, listening, sent,
                 pastVars>>

(* Mutant: one exit packet too few.                                        *)
PostExits_OneLess ==
  /\ AcceptAt("stop", "join")
  /\ port' = port \o (IF listening THEN Copies(Cardinality(Worker) - 1, Packet(None, "exit"))
                                   ELSE <<>>)
  /\ UNCHANGED <<netVars, keyVars, workerVars, jobVars, accepted, listening, restarts,
                 sent, pastVars>>

(* One exit packet for each thread in m_IOCPThread.                        *)
PostExits ==
  /\ AcceptAt("stop", "join")
  /\ port' = port \o (IF listening THEN Copies(Cardinality(Worker), Packet(None, "exit"))
                                   ELSE <<>>)
  /\ UNCHANGED <<netVars, keyVars, workerVars, jobVars, accepted, listening, restarts,
                 sent, pastVars>>

(* Once all threads have ended the port is closed, and every context in    *)
(* the set is closed and deleted.                                          *)
CloseAll ==
  /\ AcceptAt("join", "restart")
  /\ \A w \in Worker : wpc[w] = "gone"
  /\ port'  = <<>>
  /\ owner' = [h \in Handle |-> IF \E x \in keys : sock[x] = h THEN None ELSE owner[h]]
  /\ pend'  = [x \in Conn |-> IF \E h \in Handle : owner'[h] = x THEN pend[x] ELSE 0]
  /\ ctx'   = [x \in Conn |-> IF x \in keys THEN "deleted" ELSE ctx[x]]
  /\ keys'  = {}
  /\ UNCHANGED <<sock, peer, workerVars, jobVars, accepted, listening, restarts,
                 sent, pastVars>>

(* Create and Listen: when one fails there are no workers, and accept will *)
(* fail again.                                                             *)
Restart ==
  /\ AcceptAt("restart", "accept")
  /\ listening' \in BOOLEAN
  /\ wpc' = [w \in Worker |-> IF listening' THEN "get" ELSE "gone"]
  /\ UNCHANGED <<netVars, keyVars, port, wkey, jobVars, accepted, restarts, sent, pastVars>>

-----------------------------------------------------------------------------
(* A worker (IOCP_Run).                                                    *)

WorkerAt(w, here, there) == wpc[w] = here /\ wpc' = [wpc EXCEPT ![w] = there]

(* GetQueuedCompletionStatus: where the tests on its result lead.          *)
Continue(kind) == CASE kind = "exit"  -> "gone"
                    [] kind = "eof"   -> "eof"
                    [] kind = "data"  -> "message"
                    [] kind = "abort" -> "receive"

Get(w) ==
  /\ port # <<>>
  /\ WorkerAt(w, "get", Continue(Head(port).kind))
  /\ wkey' = [wkey EXCEPT ![w] = Head(port).key]
  /\ port' = Tail(port)
  /\ UNCHANGED <<netVars, keyVars, jobVars, acceptVars, sent, pastVars>>

(* The message goes on to be answered on clientSocket; an empty one, of a  *)
(* receive aborted, is dropped by RecClientData.                           *)
Message(w) ==
  /\ WorkerAt(w, "message", "receive")
  /\ jobs' = [jobs EXCEPT ![wkey[w]] = @ + 1]
  /\ UNCHANGED <<netVars, keyVars, port, wkey, ends, acceptVars, sent, pastVars>>

(* Mutant: the receive is not posted again after a message.                *)
Receive_NotPosted(w) ==
  /\ WorkerAt(w, "receive", "get")
  /\ wkey' = [wkey EXCEPT ![w] = None]
  /\ UNCHANGED <<netVars, keyVars, port, jobVars, acceptVars, sent, pastVars>>

(* Mutant: WSA_IO_PENDING is taken for an error.                           *)
Receive_PendingIsError(w) ==
  /\ WorkerAt(w, "receive", "error")
  /\ pend' = IF IsOpen(wkey[w]) THEN [pend EXCEPT ![wkey[w]] = @ + 1] ELSE pend
  /\ UNCHANGED <<sock, owner, peer, keyVars, port, wkey, jobVars, acceptVars, sent, pastVars>>

(* The next WSARecv, on whatever socket the handle now stands for.         *)
Receive(w) ==
  LET x == owner[sock[wkey[w]]]
      down == x = None \/ (x # None /\ peer[x] = "reset") IN
  /\ WorkerAt(w, "receive", IF down THEN "error" ELSE "get")
  /\ wkey' = IF down THEN wkey ELSE [wkey EXCEPT ![w] = None]
  /\ IF down
     THEN UNCHANGED <<pend, port>>
     ELSE IF peer[x] = "fin"
     THEN /\ port' = port \o (IF ctx[x] = "none" THEN <<>> ELSE <<Packet(x, "eof")>>)
          /\ UNCHANGED pend
     ELSE pend' = [pend EXCEPT ![x] = @ + 1] /\ UNCHANGED port
  /\ crossed' = IF down \/ x = wkey[w] THEN crossed ELSE crossed \cup {x, wkey[w]}
  /\ UNCHANGED <<sock, owner, peer, keyVars, jobVars, acceptVars, sent, forgotten>>

(* m_setIOCPKEY.size() is read without the lock.  When it is 0 the break   *)
(* after the end of a connection leaves the loop, that after an error of   *)
(* WSARecv only the switch.                                                *)
TestSet(w) ==
  /\ \/ WorkerAt(w, "eof",   IF keys = {} THEN "gone" ELSE "erase")
     \/ WorkerAt(w, "error", IF keys = {} THEN "get"  ELSE "erase")
  /\ UNCHANGED <<netVars, keyVars, port, wkey, jobVars, acceptVars, sent, pastVars>>

(* Under m_mutex the context is removed from the set.                      *)
Erase(w) ==
  /\ WorkerAt(w, "erase", "close")
  /\ keys' = keys \ {wkey[w]}
  /\ UNCHANGED <<netVars, ctx, port, wkey, jobVars, acceptVars, sent, pastVars>>

(* Mutant: the context is deleted, its socket left open.                   *)
Close_Forgotten(w) ==
  /\ WorkerAt(w, "close", "get")
  /\ ctx'  = [ctx EXCEPT ![wkey[w]] = "deleted"]
  /\ wkey' = [wkey EXCEPT ![w] = None]
  /\ UNCHANGED <<netVars, port, keys, jobVars, acceptVars, sent, pastVars>>

(* shutdown, closesocket(clientSocket), delete pIOCPContext.               *)
Close(w) ==
  /\ WorkerAt(w, "close", "get")
  /\ CloseHandle(sock[wkey[w]])
  /\ ctx'  = [ctx EXCEPT ![wkey[w]] = "deleted"]
  /\ wkey' = [wkey EXCEPT ![w] = None]
  /\ UNCHANGED <<sock, peer, keys, jobVars, acceptVars, sent, pastVars>>

-----------------------------------------------------------------------------

(* The save threads (JieXiWeiXin), which know the socket by its handle.    *)
(* The handler of a message closes it, or leaves that to its caller.       *)
HandlerCloses(x) ==
  /\ jobs[x] > 0
  /\ jobs' = [jobs EXCEPT ![x] = @ - 1]
  /\ ends' = [ends EXCEPT ![x] = @ + 1]
  /\ CloseHandle(sock[x])
  /\ UNCHANGED <<sock, peer, keyVars, workerVars, acceptVars, sent, pastVars>>

HandlerReturns(x) ==
  /\ jobs[x] > 0
  /\ jobs' = [jobs EXCEPT ![x] = @ - 1]
  /\ ends' = [ends EXCEPT ![x] = @ + 1]
  /\ UNCHANGED <<netVars, keyVars, port, workerVars, acceptVars, sent, pastVars>>

(* Mutant: the save thread runs once too often.                            *)
Answer_Unguarded(x) ==
  /\ ctx[x] = "live"
  /\ ends' = [ends EXCEPT ![x] = @ - 1]
  /\ CloseHandle(sock[x])
  /\ UNCHANGED <<sock, peer, keyVars, workerVars, jobs, acceptVars, sent, pastVars>>

(* JieXiWeiXin closes the socket in every case.                            *)
Answer(x) ==
  /\ ends[x] > 0
  /\ ends' = [ends EXCEPT ![x] = @ - 1]
  /\ CloseHandle(sock[x])
  /\ UNCHANGED <<sock, peer, keyVars, workerVars, jobs, acceptVars, sent, pastVars>>

SaveStep(x) == HandlerCloses(x) \/ HandlerReturns(x) \/ Answer(x)
Clients     == \E x \in Conn : Send(x) \/ Fin(x) \/ Reset(x)
AcceptClose == NewKey \/ PostExits \/ CloseAll \/ Restart
WorkerStep(w) == Get(w) \/ Message(w) \/ Receive(w) \/ TestSet(w)
                 \/ Erase(w) \/ Close(w)

(* Nobody has anything to do but to wait: for clients, or (which           *)
(* ShutdownEnds says is not for ever) for a worker to end.                 *)
Waiting ==
  /\ apc \in {"accept", "join"} /\ port = <<>>
  /\ \A w \in Worker : wpc[w] \in {"get", "gone"}
  /\ \A x \in Conn : jobs[x] = 0 /\ ends[x] = 0
  /\ UNCHANGED vars

Next ==
  \/ Clients
  \/ \E h \in Handle : Accept(h)
  \/ \E x \in Conn : SaveStep(x)
  \/ AcceptFails
  \/ AcceptClose
  \/ \E w \in Worker : WorkerStep(w)
  \/ Waiting

Spec == Init /\ [][Next]_vars

(* Windows runs every ready thread in the end, and completion packets are  *)
(* handed out in the order of the queue.  Nothing is assumed of clients.   *)
FairSpec ==
  /\ Spec
  /\ WF_vars(AcceptClose)
  /\ \A w \in Worker : WF_vars(WorkerStep(w))
  /\ \A x \in Conn : WF_vars(SaveStep(x))

-----------------------------------------------------------------------------

Packets == [key : Conn \cup {None}, kind : {"data", "eof", "abort", "exit"}]

TypeOK ==
  /\ accepted \in 0..MaxAccepts
  /\ sock \in [Conn -> Handle \cup {None}]
  /\ owner \in [Handle -> Conn \cup {None}]
  /\ peer \in [Conn -> {"open", "fin", "reset"}]
  /\ pend \in [Conn -> Nat]
  /\ ctx \in [Conn -> {"none", "live", "deleted"}]
  /\ keys \subseteq Conn
  /\ port \in Seq(Packets)
  /\ wpc \in [Worker -> {"get", "message", "receive", "eof", "error", "erase", "close", "gone"}]
  /\ wkey \in [Worker -> Conn \cup {None}]
  /\ jobs \in [Conn -> Nat] /\ ends \in [Conn -> Nat]
  /\ apc \in {"accept", "key", "stop", "join", "restart"}
  /\ listening \in BOOLEAN
  /\ sent \in 0..MaxSends /\ restarts \in 0..MaxRestarts
  /\ crossed \subseteq Conn /\ forgotten \subseteq Conn

Inside(w) == wpc[w] \notin {"get", "gone"}

(* A context is handled by one at a time, and never lost: there is one     *)
(* receive pending for it, one completion in the queue, or one worker at   *)
(* work on it.  Nobody comes back to a connection that was closed or broke *)
(* before its first WSARecv, whose result is ignored; and nothing is said  *)
(* of one that was crossed with another.                                   *)
Handlers(x) ==
  pend[x] + Cardinality({i \in 1..Len(port) : port[i].key = x})
          + Cardinality({w \in Worker : Inside(w) /\ wkey[w] = x})

OneHandler ==
  \A x \in Conn : ctx[x] = "live" /\ x \notin crossed =>
    Handlers(x) = IF x \in forgotten THEN 0 ELSE 1

(* "gets the current connection; the pointer points to an instance"        *)
(* (SocketTCP.cpp:344): the key of a completion, and the context a worker  *)
(* works on, have not been deleted.                                        *)
InUse == {port[i].key : i \in {j \in 1..Len(port) : port[j].kind # "exit"}}
         \cup {wkey[w] : w \in {v \in Worker : Inside(v)}}

KeyIsInstance == \A x \in InUse : ctx[x] = "live"

(* There is one way only to a deleted key: the two connections were        *)
(* crossed.  No order of closes, aborted receives, late workers and        *)
(* shutdowns leads to one.                                                 *)
DeletedKeyWasCrossed == \A x \in InUse : ctx[x] = "live" \/ x \in crossed

(* A worker ends only because closeAllClient told it to, never because it  *)
(* found m_setIOCPKEY empty (SocketTCP.cpp:381): even where connections    *)
(* were crossed there are contexts enough in the set.                      *)
WorkersStay ==
  \A w \in Worker : wpc[w] = "gone" => apc \in {"join", "restart"} \/ ~listening

(* closeAllClient comes to its end: every worker gets an exit packet.      *)
ShutdownEnds == apc = "stop" ~> apc = "accept"

(* The context of a connection that the server has closed is deleted, but  *)
(* for a forgotten or a crossed one, and as long as there are workers; and *)
(* no socket stays open without a context.                                 *)
NothingLeaks ==
  \A x \in Conn :
    /\ (ctx[x] = "live" /\ ~IsOpen(x) /\ x \notin forgotten)
         ~> (ctx[x] = "deleted" \/ x \in crossed \/ \A w \in Worker : wpc[w] = "gone")
    /\ (ctx[x] = "deleted" /\ IsOpen(x)) ~> ~IsOpen(x)
=============================================================================
