-------------------------- MODULE Handlers_proofs --------------------------
(***************************************************************************)
(* Proofs about Handlers, for any number of requests and handles: its      *)
(* types, where replies go, who gets none, which connections are closed,   *)
(* how many replies there are, whether the page that answers an order is   *)
(* true, and what a list by name shows.                                    *)
(*                                                                         *)
(* The actions fall into a few sorts as far as the sockets are concerned:  *)
(* before its first closesocket a handler replies, gives up or goes on;    *)
(* after it, sockets are closed.  The workers close sockets at any time,   *)
(* by handles that may have been given to others; what is needed of them   *)
(* is that none closes the connection its own context was made for while   *)
(* that is open and its client is there (WorkersFit).                      *)
(***************************************************************************)
EXTENDS Handlers, FiniteSetTheorems, SequenceTheorems, WellFoundedInduction, TLAPS

Before == {"handle", "list", "ask"}
After  == {"close", "back", "end"}

Message == [from : Request, what : What]

(* A reply, and what pc becomes.                                           *)
Answers(r) ==
  /\ pc[r] \in Before
  /\ \E there \in {"ask"} \cup After : pc' = [pc EXCEPT ![r] = there]
  /\ \E what \in What : Reply(r, what)
  /\ UNCHANGED <<sock, owner, cut, left, silent, workerVars>>

(* The handler ends without a reply.                                       *)
GivesUp(r) ==
  /\ pc[r] \in Before
  /\ \E there \in After : pc' = [pc EXCEPT ![r] = there]
  /\ Unheard(r)
  /\ UNCHANGED <<sock, owner, got, cut, left, workerVars>>

(* The reply cannot be sent, the client or the connection being gone.      *)
Fails(r) ==
  /\ pc[r] \in Before
  /\ owner[sock[r]] \in left \cup {None}
  /\ \E there \in After : pc' = [pc EXCEPT ![r] = there]
  /\ UNCHANGED <<sock, owner, got, cut, left, silent, workerVars>>

(* The handler does something else first: reads, or asks the WeChat server. *)
GoesOn(r) ==
  /\ pc[r] = "handle"
  /\ \E there \in Before : pc' = [pc EXCEPT ![r] = there]
  /\ UNCHANGED <<sock, owner, got, cut, left, silent, workerVars>>

(* One of the closesocket calls behind the reply.                          *)
Closes(r) ==
  /\ pc[r] \in After
  /\ \E there \in After \cup {"done"} : pc' = [pc EXCEPT ![r] = there]
  /\ CloseSocket(r)
  /\ UNCHANGED <<sock, got, left, silent>>

-----------------------------------------------------------------------------
(* The inductive invariant                                                 *)

SocketTypes ==
  /\ pc \in [Request -> {"none", "idle", "done"} \cup Before \cup After]
  /\ sock \in [Request -> Handle \cup {None}]
  /\ owner \in [Handle -> Request \cup {None}]
  /\ got \in [Request -> Seq(Message)]
  /\ cut \subseteq Request /\ left \subseteq Request /\ silent \subseteq Request

WorkerTypes ==
  /\ pend \in [Request -> Nat] /\ again \in [Request -> Nat] /\ closing \in [Request -> Nat]
  /\ deleted \subseteq Request

(* Who has come has a handle, and who has a handle open has it as his.     *)
HandlesFit ==
  /\ \A r \in Request : pc[r] = "none" <=> sock[r] = None
  /\ \A h \in Handle : owner[h] # None => sock[owner[h]] = h

(* Up to the handler's own first closesocket, the connection is open, or   *)
(* another has closed it.                                                  *)
OpenBefore ==
  \A r \in Request : pc[r] \in Before => owner[sock[r]] = r \/ r \in cut \cup left

(* Behind its own first closesocket, a request has been answered, or is    *)
(* known not to be.                                                        *)
ServedAfter ==
  \A r \in Request : pc[r] \in After \cup {"done"} =>
    got[r] # <<>> \/ r \in silent \cup cut \cup left

(* Once a request is over its connection is closed, whatever its handler   *)
(* did; nothing else would close it while the client waits.                *)
DoneIsClosed ==
  \A r \in Request : pc[r] = "done" => owner[sock[r]] # r

(* There are completions of those only who have come; a context is deleted *)
(* behind the close of its connection; and while that is open no worker is *)
(* about to close it unless the client has left.                           *)
WorkersFit ==
  \A r \in Request :
    /\ pc[r] = "none" => again[r] = 0 /\ closing[r] = 0
    /\ r \in deleted => pc[r] # "none" /\ owner[sock[r]] # r
    /\ closing[r] > 0 /\ owner[sock[r]] = r => r \in left

SocketInv ==
  /\ SocketTypes /\ HandlesFit /\ OpenBefore /\ StrayedAfterClose /\ ServedAfter /\ DoneIsClosed
  /\ WorkerTypes /\ WorkersFit

-----------------------------------------------------------------------------
(* The sorts of steps                                                      *)

(* Every step of the handler of a request (JieXiWeiXin and what it calls,  *)
(* TestTask.cpp:706-780) is of one of the five sorts.                      *)
LEMMA HandlingSorts ==
  ASSUME SocketTypes, NEW r \in Request, Handling(r)
  PROVE  Answers(r) \/ GivesUp(r) \/ Fails(r) \/ GoesOn(r) \/ Closes(r)
<1> USE DEF At, Before, After
<1>1. CASE Echo(r)
  <2>1. \E what \in What : Reply(r, what)
    BY <1>1 DEF Echo, What
  <2> QED
    BY <1>1, <2>1 DEF Echo, Answers
<1>2. CASE Success(r)
  <2>1. \E what \in What : Reply(r, what)
    BY <1>2 DEF Success, What
  <2> QED
    BY <1>2, <2>1 DEF Success, Answers
<1>3. CASE Ignore(r)
  BY <1>3 DEF Ignore, GivesUp
<1>4. CASE Code(r)
  <2>1. \E what \in What : Reply(r, what)
    BY <1>4 DEF Code, What
  <2> QED
    BY <1>4, <2>1 DEF Code, Answers
<1>5. CASE FindsNothing(r)
  BY <1>5 DEF FindsNothing, GivesUp
<1>6. CASE NotBound(r)
  <2>1. CASE At(r, "handle", "back") /\ Reply(r, "notbound")
    <3>1. \E what \in What : Reply(r, what)
      BY <2>1 DEF What
    <3> QED
      BY <1>6, <2>1, <3>1 DEF NotBound, Answers
  <2>2. CASE /\ owner[sock[r]] \in left \cup {None}
             /\ At(r, "handle", "close") /\ UNCHANGED got
    BY <1>6, <2>2 DEF NotBound, Fails
  <2> QED
    BY <1>6, <2>1, <2>2 DEF NotBound
<1>7. CASE ReadDevices(r)
  BY <1>7 DEF ReadDevices, GoesOn
<1>8. CASE SendList(r)
  <2>1. \E what \in What : Reply(r, what)
    BY <1>8 DEF SendList, What
  <2> QED
    BY <1>8, <2>1 DEF SendList, Answers
<1>9. CASE SendPage(r)
  <2>1. \E what \in What : Reply(r, what)
    BY <1>9 DEF SendPage, What
  <2> QED
    BY <1>9, <2>1 DEF SendPage, Answers
<1>10. CASE SendNothing(r)
  BY <1>10 DEF SendNothing, GivesUp
<1>11. CASE AskOpenID(r)
  BY <1>11 DEF AskOpenID, GoesOn
<1>12. CASE NoOpenID(r)
  <2>1. \E what \in What : Reply(r, what)
    BY <1>12 DEF NoOpenID, What
  <2> QED
    BY <1>12, <2>1 DEF NoOpenID, Answers
<1>13. CASE OpenID(r)
  <2>1. \E what \in What : Reply(r, what)
    BY <1>13 DEF OpenID, What
  <2> QED
    BY <1>13, <2>1 DEF OpenID, Answers
<1>14. CASE OpenIDNoPage(r)
  BY <1>14 DEF OpenIDNoPage, GivesUp
<1>15. CASE AnswerEnds(r)
  BY <1>15 DEF AnswerEnds, GivesUp
<1>16. CASE Close(r)
  BY <1>16 DEF Close, Closes
<1>17. CASE CloseAgain(r)
  BY <1>17 DEF CloseAgain, Closes
<1>18. CASE Finish(r)
  BY <1>18 DEF Finish, Closes
<1> QED
  BY <1>1, <1>2, <1>3, <1>4, <1>5, <1>6, <1>7, <1>8, <1>9, <1>10, <1>11, <1>12,
     <1>13, <1>14, <1>15, <1>16, <1>17, <1>18 DEF Handling

(* What Append adds to a sequence.                                         *)
LEMMA AppendedOne ==
  ASSUME NEW S, NEW seq \in Seq(S), NEW e \in S
  PROVE  /\ Append(seq, e) \in Seq(S)
         /\ Append(seq, e) # <<>>
         /\ \A i \in DOMAIN Append(seq, e) :
              \/ i \in DOMAIN seq /\ Append(seq, e)[i] = seq[i]
              \/ Append(seq, e)[i] = e
  OBVIOUS

(* The same of the messages of one connection.                             *)
LEMMA MessageAdded ==
  ASSUME got \in [Request -> Seq(Message)], NEW x \in Request, NEW m \in Message,
         got' = [got EXCEPT ![x] = Append(@, m)]
  PROVE  /\ got' \in [Request -> Seq(Message)]
         /\ \A q \in Request : got[q] # <<>> => got'[q] # <<>>
         /\ got'[x] # <<>>
         /\ \A q \in Request : \A i \in DOMAIN got'[q] :
              \/ i \in DOMAIN got[q] /\ got'[q][i] = got[q][i]
              \/ got'[q][i] = m /\ q = x
<1>1. got[x] \in Seq(Message)
  OBVIOUS
<1>2. /\ Append(got[x], m) \in Seq(Message)
      /\ Append(got[x], m) # <<>>
      /\ \A i \in DOMAIN Append(got[x], m) :
           \/ i \in DOMAIN got[x] /\ Append(got[x], m)[i] = got[x][i]
           \/ Append(got[x], m)[i] = m
  BY <1>1, AppendedOne
<1>3. /\ got'[x] = Append(got[x], m)
      /\ \A q \in Request : q # x => got'[q] = got[q]
  OBVIOUS
<1>4. got' \in [Request -> Seq(Message)]
  BY <1>2
<1> QED
  BY <1>2, <1>3, <1>4

(* A reply is added to what one connection has got: to that of whoever has *)
(* the handle.                                                             *)
LEMMA ReplyAdds ==
  ASSUME SocketTypes, NEW r \in Request, NEW what \in What, Reply(r, what)
  PROVE  /\ got' \in [Request -> Seq(Message)]
         /\ \A q \in Request : got[q] # <<>> => got'[q] # <<>>
         /\ owner[sock[r]] \in Request => got'[owner[sock[r]]] # <<>>
         /\ \A q \in Request : \A i \in DOMAIN got'[q] :
              \/ i \in DOMAIN got[q] /\ got'[q][i] = got[q][i]
              \/ got'[q][i].from = r /\ q = owner[sock[r]]
<1> DEFINE x == owner[sock[r]]
           m == [from |-> r, what |-> what]
<1> USE DEF SocketTypes
<1>1. m \in Message /\ m.from = r
  BY DEF Message
<1>2. CASE ~Goes(r)
  BY <1>2, HandlersAssumption DEF Reply, Goes
<1>3. CASE Goes(r) /\ x \notin Request
  <2>1. got' = got
    BY <1>3 DEF Reply
  <2> QED
    BY <1>3, <2>1
<1>4. CASE Goes(r) /\ x \in Request
  <2>1. got' = [got EXCEPT ![x] = Append(got[x], m)]
    BY <1>4 DEF Reply
  <2>2. /\ got' \in [Request -> Seq(Message)]
        /\ \A q \in Request : got[q] # <<>> => got'[q] # <<>>
        /\ got'[x] # <<>>
        /\ \A q \in Request : \A i \in DOMAIN got'[q] :
             \/ i \in DOMAIN got[q] /\ got'[q][i] = got[q][i]
             \/ got'[q][i] = m /\ q = x
    <3>1. got \in [Request -> Seq(Message)] /\ x \in Request /\ m \in Message
      BY <1>1, <1>4
    <3> HIDE DEF x, m, SocketTypes
    <3> QED
      BY <2>1, <3>1, MessageAdded
  <2> QED
    BY <1>1, <1>4, <2>2
<1> QED
  BY <1>2, <1>3, <1>4

-----------------------------------------------------------------------------
(* Init and the steps                                                      *)

(* Before anyone has connected, the invariant holds.                       *)
LEMMA SocketInit == Init => SocketInv
<1> SUFFICES ASSUME Init PROVE SocketInv
  OBVIOUS
<1> USE DEF Init, Before, After
<1>1. SocketTypes
  <2>1. got \in [Request -> Seq(Message)]
    BY EmptySeq
  <2> QED
    BY <2>1 DEF SocketTypes
<1>2. HandlesFit
  BY DEF HandlesFit
<1>3. OpenBefore /\ ServedAfter /\ DoneIsClosed
  BY DEF OpenBefore, ServedAfter, DoneIsClosed
<1>4. StrayedAfterClose
  BY DEF StrayedAfterClose
<1>5. WorkerTypes /\ WorkersFit
  BY DEF WorkerTypes, WorkersFit
<1> QED
  BY <1>1, <1>2, <1>3, <1>4, <1>5 DEF SocketInv

(* The workers have nothing to do with a step of a handler that closes     *)
(* nothing.                                                                *)
LEMMA SameWorkers ==
  ASSUME WorkerTypes, WorkersFit, UNCHANGED <<sock, owner, left, workerVars>>,
         \A q \in Request : pc'[q] = "none" <=> pc[q] = "none"
  PROVE  WorkerTypes' /\ WorkersFit'
  BY DEF WorkerTypes, WorkersFit, workerVars

(* A reply of a handler that has closed nothing goes to its own client     *)
(* while his connection is open, and else the request is in cut or left.   *)
LEMMA AnswersKeeps ==
  ASSUME SocketInv, NEW r \in Request, Answers(r)
  PROVE  SocketInv'
<1> PICK what \in What : Reply(r, what)
  BY DEF Answers
<1> PICK there \in {"ask"} \cup After : pc' = [pc EXCEPT ![r] = there]
  BY DEF Answers
<1>0. UNCHANGED <<sock, owner, cut, left, silent, workerVars>> /\ pc[r] \in Before
  BY DEF Answers
<1> USE DEF SocketInv
<1>1. /\ got' \in [Request -> Seq(Message)]
      /\ \A q \in Request : got[q] # <<>> => got'[q] # <<>>
      /\ owner[sock[r]] \in Request => got'[owner[sock[r]]] # <<>>
      /\ \A q \in Request : \A i \in DOMAIN got'[q] :
           \/ i \in DOMAIN got[q] /\ got'[q][i] = got[q][i]
           \/ got'[q][i].from = r /\ q = owner[sock[r]]
  BY ReplyAdds
<1>2. owner[sock[r]] = r \/ r \in cut \cup left
  BY <1>0 DEF OpenBefore
<1>3. SocketTypes'
  BY <1>0, <1>1 DEF SocketTypes, Before, After
<1>4. HandlesFit'
  BY <1>0 DEF HandlesFit, SocketTypes, Before, After
<1>5. OpenBefore'
  BY <1>0, <1>2 DEF OpenBefore, SocketTypes, Before, After
<1>6. StrayedAfterClose'
  <2> SUFFICES ASSUME NEW q \in Request, NEW i \in DOMAIN got'[q]
               PROVE  got'[q][i].from = q \/ got'[q][i].from \in cut \cup left
    BY <1>0 DEF StrayedAfterClose
  <2>1. CASE i \in DOMAIN got[q] /\ got'[q][i] = got[q][i]
    BY <2>1 DEF StrayedAfterClose
  <2>2. CASE got'[q][i].from = r /\ q = owner[sock[r]]
    BY <1>2, <2>2
  <2> QED
    BY <1>1, <2>1, <2>2
<1>7. ServedAfter'
  <2> SUFFICES ASSUME NEW q \in Request, pc'[q] \in After \cup {"done"}
               PROVE  got'[q] # <<>> \/ q \in silent \cup cut \cup left
    BY <1>0 DEF ServedAfter
  <2>1. CASE q = r
    BY <1>1, <1>2, <2>1
  <2>2. CASE q # r
    BY <1>1, <2>2 DEF ServedAfter, SocketTypes
  <2> QED
    BY <2>1, <2>2
<1>8. DoneIsClosed'
  BY <1>0 DEF DoneIsClosed, SocketTypes, Before, After
<1>9. \A q \in Request : pc'[q] = "none" <=> pc[q] = "none"
  BY <1>0 DEF SocketTypes, Before, After
<1>10. WorkerTypes' /\ WorkersFit'
  BY <1>0, <1>9, SameWorkers
<1> QED
  BY <1>3, <1>4, <1>5, <1>6, <1>7, <1>8, <1>10

(* A handler that ends without a reply is noted as silent, or has found    *)
(* the client or the connection gone; one that only goes on changes        *)
(* nothing of the sockets.                                                 *)
LEMMA GivesUpKeeps ==
  ASSUME SocketInv, NEW r \in Request, GivesUp(r) \/ Fails(r) \/ GoesOn(r)
  PROVE  SocketInv'
<1>0. /\ UNCHANGED <<sock, owner, got, cut, left, workerVars>> /\ pc[r] \in Before
      /\ silent' \in {silent, silent \cup {r}}
      /\ \E there \in Before \cup After : pc' = [pc EXCEPT ![r] = there]
  BY DEF GivesUp, Fails, GoesOn, Unheard, Before
<1>1. PICK there \in Before \cup After : pc' = [pc EXCEPT ![r] = there]
  BY <1>0
<1> USE DEF SocketInv, Before, After
<1>2. SocketTypes'
  BY <1>0, <1>1 DEF SocketTypes
<1>3. HandlesFit'
  BY <1>0, <1>1 DEF HandlesFit, SocketTypes
<1>4. OpenBefore'
  BY <1>0, <1>1 DEF OpenBefore, SocketTypes
<1>5. StrayedAfterClose'
  BY <1>0 DEF StrayedAfterClose
<1>6. ServedAfter'
  <2> SUFFICES ASSUME NEW q \in Request, pc'[q] \in After \cup {"done"}
               PROVE  got[q] # <<>> \/ q \in silent' \cup cut \cup left
    BY <1>0 DEF ServedAfter
  <2>1. CASE q # r
    BY <1>0, <1>1, <2>1 DEF ServedAfter, SocketTypes
  <2>2. CASE q = r /\ GivesUp(r)
    BY <2>2 DEF GivesUp, Unheard
  <2>3. CASE q = r /\ Fails(r)
    BY <2>3, HandlersAssumption DEF Fails, OpenBefore
  <2>4. CASE q = r /\ GoesOn(r)
    BY <2>4 DEF GoesOn, SocketTypes
  <2> QED
    BY <2>1, <2>2, <2>3, <2>4
<1>7. DoneIsClosed'
  BY <1>0, <1>1 DEF DoneIsClosed, SocketTypes
<1>8. \A q \in Request : pc'[q] = "none" <=> pc[q] = "none"
  BY <1>0, <1>1 DEF SocketTypes
<1>9. WorkerTypes' /\ WorkersFit'
  BY <1>0, <1>8, SameWorkers
<1> QED
  BY <1>2, <1>3, <1>4, <1>5, <1>6, <1>7, <1>9

(* Connections are closed, and a handler may be one step further on behind *)
(* its first closesocket: whoever loses his connection to another is in    *)
(* cut, and nobody loses it to his own before it is time.                  *)
LEMMA HandlesClosed ==
  ASSUME SocketInv, UNCHANGED <<sock, got, left, silent>>,
         pc' \in [Request -> {"none", "idle", "done"} \cup Before \cup After],
         \A q \in Request : /\ pc'[q] = "none" <=> pc[q] = "none"
                            /\ pc'[q] \in Before => pc[q] \in Before
                            /\ pc'[q] \in After \cup {"done"} => pc[q] \in After \cup {"done"}
                            /\ pc'[q] = "done" => pc[q] = "done" \/ owner'[sock[q]] # q,
         owner' \in [Handle -> Request \cup {None}],
         \A h \in Handle : owner'[h] \in {owner[h], None},
         cut' \subseteq Request, cut \subseteq cut',
         \A q \in Request : pc[q] # "none" /\ owner[sock[q]] = q =>
           owner'[sock[q]] = q \/ q \in cut' \cup left \/ pc[q] \notin Before
  PROVE  /\ SocketTypes' /\ HandlesFit' /\ OpenBefore'
         /\ StrayedAfterClose' /\ ServedAfter' /\ DoneIsClosed'
<1> USE DEF SocketInv
<1>1. \A q \in Request : pc[q] # "none" => sock[q] \in Handle
  BY DEF HandlesFit, SocketTypes
<1>2. SocketTypes'
  BY DEF SocketTypes
<1>3. HandlesFit'
  BY DEF HandlesFit, SocketTypes
<1>4. OpenBefore'
  BY DEF OpenBefore, Before
<1>5. StrayedAfterClose'
  BY DEF StrayedAfterClose
<1>6. ServedAfter'
  BY DEF ServedAfter
<1>7. DoneIsClosed'
  <2> SUFFICES ASSUME NEW q \in Request, pc'[q] = "done", pc[q] = "done"
               PROVE  owner'[sock[q]] # q
    BY DEF DoneIsClosed
  <2>1. owner[sock[q]] # q /\ sock[q] \in Handle
    BY <1>1 DEF DoneIsClosed
  <2> QED
    BY <2>1, HandlersAssumption
<1> QED
  BY <1>2, <1>3, <1>4, <1>5, <1>6, <1>7

(* What closesocket does to the handles and to the completions, whoever    *)
(* calls it.                                                               *)
LEMMA HandleClosed ==
  ASSUME SocketInv, NEW r \in Request, NEW h \in Handle, CloseHandle(h, r)
  PROVE  /\ owner' \in [Handle -> Request \cup {None}] /\ owner'[h] = None
         /\ \A g \in Handle : owner'[g] \in {owner[g], None}
         /\ cut' \subseteq Request /\ cut \subseteq cut'
         /\ \A q \in Request : pc[q] # "none" /\ owner[sock[q]] = q =>
              owner'[sock[q]] = q \/ q \in cut' \/ (q = r /\ sock[q] = h)
         /\ pend' \in [Request -> Nat] /\ again' \in [Request -> Nat]
         /\ \A q \in Request : pc[q] = "none" => again'[q] = again[q]
         /\ \A q \in Request : pc[q] # "none" /\ owner'[sock[q]] = q => owner[sock[q]] = q
<1> USE DEF SocketInv, SocketTypes, HandlesFit, CloseHandle
<1>1. owner' \in [Handle -> Request \cup {None}] /\ owner'[h] = None
  OBVIOUS
<1>2. \A g \in Handle : owner'[g] \in {owner[g], None}
  OBVIOUS
<1>3. cut' \subseteq Request /\ cut \subseteq cut'
  OBVIOUS
<1>4. \A q \in Request : pc[q] # "none" => sock[q] \in Handle
  OBVIOUS
<1>5. \A q \in Request : pc[q] # "none" /\ owner[sock[q]] = q =>
        owner'[sock[q]] = q \/ q \in cut' \/ (q = r /\ sock[q] = h)
  <2> SUFFICES ASSUME NEW q \in Request, pc[q] # "none", owner[sock[q]] = q
               PROVE  owner'[sock[q]] = q \/ q \in cut' \/ (q = r /\ sock[q] = h)
    OBVIOUS
  <2>1. CASE sock[q] # h
    BY <1>4, <2>1
  <2>2. CASE sock[q] = h
    BY <2>2, HandlersAssumption
  <2> QED
    BY <2>1, <2>2
<1>6. pend' \in [Request -> Nat] /\ again' \in [Request -> Nat]
  BY DEF WorkerTypes
<1>7. \A q \in Request : pc[q] = "none" => again'[q] = again[q]
  <2> SUFFICES ASSUME NEW q \in Request, pc[q] = "none" PROVE again'[q] = again[q]
    OBVIOUS
  <2>1. q # owner[h]
    BY HandlersAssumption
  <2> QED
    BY <2>1 DEF WorkerTypes
<1>8. \A q \in Request : pc[q] # "none" /\ owner'[sock[q]] = q => owner[sock[q]] = q
  BY <1>2, <1>4, HandlersAssumption
<1> QED
  BY <1>1, <1>2, <1>3, <1>5, <1>6, <1>7, <1>8

(* Whoever loses his connection to the handler of another is in cut.       *)
LEMMA ClosesKeeps ==
  ASSUME SocketInv, NEW r \in Request, Closes(r)
  PROVE  SocketInv'
<1> PICK there \in After \cup {"done"} : pc' = [pc EXCEPT ![r] = there]
  BY DEF Closes
<1>0. /\ pc[r] \in After
      /\ UNCHANGED <<sock, got, left, silent, closing, deleted>>
      /\ CloseHandle(sock[r], r)
  BY DEF Closes, CloseSocket
<1>1. sock[r] \in Handle
  BY <1>0 DEF SocketInv, HandlesFit, SocketTypes, After
<1>2. /\ owner' \in [Handle -> Request \cup {None}] /\ owner'[sock[r]] = None
      /\ \A g \in Handle : owner'[g] \in {owner[g], None}
      /\ cut' \subseteq Request /\ cut \subseteq cut'
      /\ \A q \in Request : pc[q] # "none" /\ owner[sock[q]] = q =>
           owner'[sock[q]] = q \/ q \in cut' \/ (q = r /\ sock[q] = sock[r])
      /\ pend' \in [Request -> Nat] /\ again' \in [Request -> Nat]
      /\ \A q \in Request : pc[q] = "none" => again'[q] = again[q]
      /\ \A q \in Request : pc[q] # "none" /\ owner'[sock[q]] = q => owner[sock[q]] = q
  BY <1>0, <1>1, HandleClosed
<1>3. pc \in [Request -> {"none", "idle", "done"} \cup Before \cup After]
  BY DEF SocketInv, SocketTypes
<1>4. /\ pc' \in [Request -> {"none", "idle", "done"} \cup Before \cup After]
      /\ \A q \in Request : /\ pc'[q] = "none" <=> pc[q] = "none"
                            /\ pc'[q] \in Before => pc[q] \in Before
                            /\ pc'[q] \in After \cup {"done"} => pc[q] \in After \cup {"done"}
                            /\ pc'[q] = "done" => pc[q] = "done" \/ owner'[sock[q]] # q
  BY <1>0, <1>2, <1>3, HandlersAssumption DEF Before, After
<1>5. \A q \in Request : pc[q] # "none" /\ owner[sock[q]] = q =>
        owner'[sock[q]] = q \/ q \in cut' \cup left \/ pc[q] \notin Before
  BY <1>0, <1>2 DEF Before, After
<1>6. /\ SocketTypes' /\ HandlesFit' /\ OpenBefore'
      /\ StrayedAfterClose' /\ ServedAfter' /\ DoneIsClosed'
  BY <1>0, <1>2, <1>4, <1>5, HandlesClosed
<1>7. WorkerTypes'
  BY <1>0, <1>2 DEF SocketInv, WorkerTypes
<1>8. WorkersFit'
  BY <1>0, <1>2, <1>4 DEF SocketInv, WorkersFit, WorkerTypes
<1> QED
  BY <1>6, <1>7, <1>8 DEF SocketInv

(* A worker closes the connection its context was made for only when the   *)
(* client has left it; whoever else has the handle is in cut.              *)
LEMMA WorkerClosesKeeps ==
  ASSUME SocketInv, NEW r \in Request, WorkerCloses(r)
  PROVE  SocketInv'
<1>0. /\ closing[r] > 0 /\ closing' = [closing EXCEPT ![r] = closing[r] - 1]
      /\ deleted' = deleted \cup {r}
      /\ UNCHANGED <<pc, sock, got, left, silent>>
  BY DEF WorkerCloses
<1>1. pc[r] # "none" /\ sock[r] \in Handle
  BY <1>0 DEF SocketInv, WorkersFit, HandlesFit, SocketTypes, WorkerTypes
<1>2. PICK h \in HandleOf(r) : CloseHandle(h, r)
  BY DEF WorkerCloses
<1>3. h \in Handle /\ (r \in deleted \/ h = sock[r])
  BY <1>1 DEF HandleOf
<1>4. /\ owner' \in [Handle -> Request \cup {None}] /\ owner'[h] = None
      /\ \A g \in Handle : owner'[g] \in {owner[g], None}
      /\ cut' \subseteq Request /\ cut \subseteq cut'
      /\ \A q \in Request : pc[q] # "none" /\ owner[sock[q]] = q =>
           owner'[sock[q]] = q \/ q \in cut' \/ (q = r /\ sock[q] = h)
      /\ pend' \in [Request -> Nat] /\ again' \in [Request -> Nat]
      /\ \A q \in Request : pc[q] = "none" => again'[q] = again[q]
      /\ \A q \in Request : pc[q] # "none" /\ owner'[sock[q]] = q => owner[sock[q]] = q
  BY <1>2, <1>3, HandleClosed
<1>5. pc \in [Request -> {"none", "idle", "done"} \cup Before \cup After]
  BY DEF SocketInv, SocketTypes
<1>6. \A q \in Request : pc[q] # "none" /\ owner[sock[q]] = q =>
        owner'[sock[q]] = q \/ q \in cut' \cup left \/ pc[q] \notin Before
  BY <1>0, <1>4 DEF SocketInv, WorkersFit
<1>7. /\ SocketTypes' /\ HandlesFit' /\ OpenBefore'
      /\ StrayedAfterClose' /\ ServedAfter' /\ DoneIsClosed'
  BY <1>0, <1>4, <1>5, <1>6, HandlesClosed
<1>8. WorkerTypes'
  <2>1. closing' \in [Request -> Nat]
    BY <1>0 DEF SocketInv, WorkerTypes
  <2>2. deleted' \subseteq Request
    BY <1>0 DEF SocketInv, WorkerTypes
  <2> QED
    BY <1>4, <2>1, <2>2 DEF WorkerTypes
<1>9. WorkersFit'
  <2> SUFFICES ASSUME NEW q \in Request
               PROVE  /\ pc'[q] = "none" => again'[q] = 0 /\ closing'[q] = 0
                      /\ q \in deleted' => pc'[q] # "none" /\ owner'[sock'[q]] # q
                      /\ closing'[q] > 0 /\ owner'[sock'[q]] = q => q \in left'
    BY DEF WorkersFit
  <2>1. /\ pc[q] = "none" => again[q] = 0 /\ closing[q] = 0
        /\ q \in deleted => pc[q] # "none" /\ owner[sock[q]] # q
        /\ closing[q] > 0 /\ owner[sock[q]] = q => q \in left
    BY DEF SocketInv, WorkersFit
  <2>2. closing[q] \in Nat /\ closing[r] \in Nat
    BY DEF SocketInv, WorkerTypes
  <2>3. closing'[q] = (IF q = r THEN closing[r] - 1 ELSE closing[q])
    BY <1>0 DEF SocketInv, WorkerTypes
  <2>4. pc[q] = "none" => closing'[q] = 0
    BY <1>1, <2>1, <2>3
  <2>5. q \in deleted' => pc[q] # "none" /\ owner'[sock[q]] # q
    <3>1. CASE q \in deleted
      BY <1>4, <2>1, <3>1
    <3>2. CASE q \notin deleted /\ q = r
      BY <1>1, <1>3, <1>4, <3>2, HandlersAssumption
    <3> QED
      BY <1>0, <3>1, <3>2
  <2>6. closing'[q] > 0 /\ owner'[sock[q]] = q /\ pc[q] # "none" => q \in left
    BY <1>4, <2>1, <2>2, <2>3
  <2> QED
    BY <1>0, <1>4, <2>1, <2>2, <2>4, <2>5, <2>6
<1> QED
  BY <1>7, <1>8, <1>9 DEF SocketInv

(* closeAllClient closes the connections of the contexts that are left;    *)
(* whoever is open on one of their handles is in cut.                      *)
LEMMA CloseAllKeeps ==
  ASSUME SocketInv, CloseAll
  PROVE  SocketInv'
<1> DEFINE live == {r \in Request \ deleted : pc[r] # "none"}
<1>0. /\ UNCHANGED <<pc, sock, got, left, silent>>
      /\ owner' = [h \in Handle |-> IF \E r \in live : sock[r] = h THEN None ELSE owner[h]]
      /\ cut' = cut \cup {q \in Request : \E r \in live : owner[sock[r]] = q}
      /\ deleted' = deleted \cup live
      /\ pend' = [r \in Request |-> 0] /\ again' = [r \in Request |-> 0]
      /\ closing' = [r \in Request |-> 0]
  BY DEF CloseAll
<1>1. pc \in [Request -> {"none", "idle", "done"} \cup Before \cup After]
  BY DEF SocketInv, SocketTypes
<1>2. live \subseteq Request /\ \A q \in live : pc[q] # "none"
  OBVIOUS
<1> HIDE DEF live
<1>3. \A q \in Request : pc[q] # "none" => sock[q] \in Handle
  BY DEF SocketInv, HandlesFit, SocketTypes
<1>4. /\ owner' \in [Handle -> Request \cup {None}]
      /\ \A g \in Handle : owner'[g] \in {owner[g], None}
      /\ cut' \subseteq Request /\ cut \subseteq cut'
  BY <1>0 DEF SocketInv, SocketTypes
<1>5. \A q \in Request : pc[q] # "none" /\ owner[sock[q]] = q =>
        owner'[sock[q]] = q \/ q \in cut' \cup left \/ pc[q] \notin Before
  <2> SUFFICES ASSUME NEW q \in Request, pc[q] # "none", owner[sock[q]] = q
               PROVE  owner'[sock[q]] = q \/ q \in cut'
    OBVIOUS
  <2>1. CASE \E r \in live : sock[r] = sock[q]
    BY <1>0, <2>1
  <2>2. CASE ~ \E r \in live : sock[r] = sock[q]
    BY <1>0, <1>3, <2>2
  <2> QED
    BY <2>1, <2>2
<1>6. /\ SocketTypes' /\ HandlesFit' /\ OpenBefore'
      /\ StrayedAfterClose' /\ ServedAfter' /\ DoneIsClosed'
  BY <1>0, <1>1, <1>4, <1>5, HandlesClosed
<1>7. WorkerTypes'
  BY <1>0, <1>2 DEF SocketInv, WorkerTypes
<1>8. \A q \in deleted' : pc[q] # "none" /\ owner'[sock[q]] # q
  <2> TAKE q \in deleted'
  <2>1. CASE q \in deleted
    BY <1>3, <1>4, <2>1, HandlersAssumption DEF SocketInv, WorkersFit, WorkerTypes
  <2>2. CASE q \in live
    <3>1. owner'[sock[q]] = None
      BY <1>0, <1>2, <1>3, <2>2
    <3> QED
      BY <1>2, <2>2, <3>1, HandlersAssumption
  <2> QED
    BY <1>0, <2>1, <2>2
<1>9. WorkersFit'
  BY <1>0, <1>8 DEF WorkersFit
<1> QED
  BY <1>6, <1>7, <1>9 DEF SocketInv

(* accept gives a new client a handle that is free: nobody else is         *)
(* connected on it, and what the others hold stays.                        *)
LEMMA ArriveKeeps ==
  ASSUME SocketInv, NEW r \in Request, NEW h \in Handle, Arrive(r, h)
  PROVE  SocketInv'
<1>0. /\ pc[r] = "none" /\ owner[h] = None
      /\ pc' = [pc EXCEPT ![r] = "idle"]
      /\ owner' = [owner EXCEPT ![h] = r]
      /\ sock' = [sock EXCEPT ![r] = h]
      /\ pend' = [pend EXCEPT ![r] = 1]
      /\ UNCHANGED <<got, cut, left, silent, again, closing, deleted>>
  BY DEF Arrive, At
<1> USE DEF SocketInv, Before, After
<1>1. r # None /\ h # None
  BY HandlersAssumption
<1>2. SocketTypes'
  BY <1>0 DEF SocketTypes
<1>3. HandlesFit'
  <2>1. \A q \in Request : pc'[q] = "none" <=> sock'[q] = None
    BY <1>0, <1>1 DEF HandlesFit, SocketTypes
  <2>2. ASSUME NEW g \in Handle, owner'[g] # None
        PROVE  sock'[owner'[g]] = g
    <3>1. CASE g = h
      BY <1>0, <3>1 DEF SocketTypes
    <3>2. CASE g # h
      <4>1. owner'[g] = owner[g] /\ owner[g] \in Request /\ sock[owner[g]] = g
        BY <1>0, <2>2, <3>2 DEF HandlesFit, SocketTypes
      <4>2. owner[g] # r
        BY <1>0, <4>1, HandlersAssumption DEF HandlesFit
      <4> QED
        BY <1>0, <4>1, <4>2 DEF SocketTypes
    <3> QED
      BY <3>1, <3>2
  <2> QED
    BY <2>1, <2>2 DEF HandlesFit
<1>4. \A q \in Request : q # r /\ pc[q] # "none" =>
        /\ sock'[q] = sock[q] /\ sock[q] \in Handle /\ pc'[q] = pc[q]
        /\ owner'[sock[q]] = (IF sock[q] = h THEN r ELSE owner[sock[q]])
  BY <1>0 DEF HandlesFit, SocketTypes
<1>5. OpenBefore'
  <2> SUFFICES ASSUME NEW q \in Request, pc'[q] \in Before
               PROVE  owner'[sock'[q]] = q \/ q \in cut \cup left
    BY <1>0 DEF OpenBefore
  <2>1. q # r /\ pc[q] \in Before
    BY <1>0 DEF SocketTypes
  <2>2. owner[sock[q]] = q \/ q \in cut \cup left
    BY <2>1 DEF OpenBefore
  <2> QED
    BY <1>0, <1>1, <1>4, <2>1, <2>2, HandlersAssumption
<1>6. StrayedAfterClose'
  BY <1>0 DEF StrayedAfterClose
<1>7. ServedAfter'
  BY <1>0 DEF ServedAfter, SocketTypes
<1>8. DoneIsClosed'
  <2> SUFFICES ASSUME NEW q \in Request, pc'[q] = "done"
               PROVE  owner'[sock'[q]] # q
    BY DEF DoneIsClosed
  <2>1. q # r /\ pc[q] = "done"
    BY <1>0 DEF SocketTypes
  <2> QED
    BY <1>4, <2>1 DEF DoneIsClosed
<1>9. WorkerTypes'
  BY <1>0 DEF WorkerTypes
<1>10. WorkersFit'
  <2> SUFFICES ASSUME NEW q \in Request
               PROVE  /\ pc'[q] = "none" => again[q] = 0 /\ closing[q] = 0
                      /\ q \in deleted => pc'[q] # "none" /\ owner'[sock'[q]] # q
                      /\ closing[q] > 0 /\ owner'[sock'[q]] = q => q \in left
    BY <1>0 DEF WorkersFit
  <2>1. CASE q = r
    BY <1>0, <2>1 DEF WorkersFit, SocketTypes
  <2>2. CASE q # r /\ pc[q] # "none"
    BY <1>4, <2>2 DEF WorkersFit
  <2>3. CASE q # r /\ pc[q] = "none"
    BY <1>0, <2>3 DEF WorkersFit, SocketTypes
  <2> QED
    BY <2>1, <2>2, <2>3
<1> QED
  BY <1>2, <1>3, <1>5, <1>6, <1>7, <1>8, <1>9, <1>10

(* A request is handed on while its connection is open.                    *)
LEMMA SendKeeps ==
  ASSUME SocketInv, NEW r \in Request, Send(r)
  PROVE  SocketInv'
<1>0. /\ pc[r] = "idle" /\ pc' = [pc EXCEPT ![r] = "handle"]
      /\ owner[sock[r]] = r /\ pend[r] > 0
      /\ pend' = [pend EXCEPT ![r] = pend[r] - 1]
      /\ again' = [again EXCEPT ![r] = again[r] + 1]
      /\ UNCHANGED <<sock, owner, got, cut, left, silent, closing, deleted>>
  BY DEF Send, At
<1> USE DEF SocketInv, Before, After
<1>1. SocketTypes'
  BY <1>0 DEF SocketTypes
<1>2. HandlesFit'
  BY <1>0 DEF HandlesFit, SocketTypes
<1>3. OpenBefore'
  BY <1>0 DEF OpenBefore, SocketTypes
<1>4. StrayedAfterClose' /\ ServedAfter'
  BY <1>0 DEF StrayedAfterClose, ServedAfter, SocketTypes
<1>5. DoneIsClosed'
  BY <1>0 DEF DoneIsClosed, SocketTypes
<1>6. WorkerTypes'
  BY <1>0 DEF WorkerTypes
<1>7. WorkersFit'
  BY <1>0 DEF WorkersFit, WorkerTypes, SocketTypes
<1> QED
  BY <1>1, <1>2, <1>3, <1>4, <1>5, <1>6, <1>7

(* A client that closes his connection is in left from then on; it is open *)
(* until a handler or a worker closes it too.                              *)
LEMMA LeaveKeeps ==
  ASSUME SocketInv, NEW r \in Request, Leave(r)
  PROVE  SocketInv'
<1>0. /\ pc[r] # "none" /\ left' = left \cup {r}
      /\ pend' = [pend EXCEPT ![r] = 0]
      /\ UNCHANGED <<pc, sock, owner, got, cut, silent, deleted>>
      /\ \/ closing' = [closing EXCEPT ![r] = closing[r] + pend[r]] /\ UNCHANGED again
         \/ again' = [again EXCEPT ![r] = again[r] + pend[r]] /\ UNCHANGED closing
  BY DEF Leave
<1> USE DEF SocketInv
<1>1. SocketTypes'
  BY <1>0 DEF SocketTypes
<1>2. HandlesFit' /\ DoneIsClosed'
  BY <1>0 DEF HandlesFit, DoneIsClosed
<1>3. OpenBefore' /\ ServedAfter'
  BY <1>0 DEF OpenBefore, ServedAfter
<1>4. StrayedAfterClose'
  BY <1>0 DEF StrayedAfterClose
<1>5. WorkerTypes'
  BY <1>0 DEF WorkerTypes
<1>6. WorkersFit'
  BY <1>0 DEF WorkersFit, WorkerTypes
<1> QED
  BY <1>1, <1>2, <1>3, <1>4, <1>5, <1>6

(* A worker whose WSARecv fails is about to close what it posted on, and   *)
(* that is its own connection only if the client has left.                 *)
LEMMA PostKeeps ==
  ASSUME SocketInv, NEW r \in Request, Post(r)
  PROVE  SocketInv'
<1>0. /\ again[r] > 0 /\ again' = [again EXCEPT ![r] = again[r] - 1]
      /\ UNCHANGED <<pc, sock, owner, got, cut, left, silent, deleted>>
  BY DEF Post
<1> USE DEF SocketInv
<1>1. /\ pc[r] # "none" /\ sock[r] \in Handle
      /\ \A h \in HandleOf(r) : h \in Handle /\ (r \in deleted \/ h = sock[r])
  BY <1>0 DEF WorkersFit, WorkerTypes, HandlesFit, SocketTypes, HandleOf
<1>2. PICK h \in Handle :
        /\ r \in deleted \/ h = sock[r]
        /\ \/ /\ owner[h] \notin left \cup {None}
              /\ pend' = [pend EXCEPT ![owner[h]] = @ + 1] /\ UNCHANGED closing
           \/ /\ owner[h] \in left
              /\ closing' = [closing EXCEPT ![owner[h]] = @ + 1] /\ UNCHANGED pend
           \/ /\ owner[h] \in left \cup {None}
              /\ closing' = [closing EXCEPT ![r] = @ + 1] /\ UNCHANGED pend
  BY <1>1 DEF Post
<1>3. SocketTypes' /\ HandlesFit' /\ DoneIsClosed'
  BY <1>0 DEF SocketTypes, HandlesFit, DoneIsClosed
<1>4. OpenBefore' /\ ServedAfter' /\ StrayedAfterClose'
  BY <1>0 DEF OpenBefore, ServedAfter, StrayedAfterClose
<1>5. PICK x \in Request \cup {None} : x = owner[h]
  BY DEF SocketTypes
<1>6. x \in Request => pc[x] # "none"
  BY <1>5, HandlersAssumption DEF HandlesFit, SocketTypes
<1>7. owner[sock[r]] = r /\ r \notin deleted => x = r
  BY <1>2, <1>5
<1>8. again' \in [Request -> Nat] /\ \A q \in Request : pc[q] = "none" => again'[q] = 0
  BY <1>0, <1>1 DEF WorkersFit, WorkerTypes
<1>9. CASE x \notin left \cup {None} /\ pend' = [pend EXCEPT ![x] = @ + 1] /\ UNCHANGED closing
  <2>1. WorkerTypes'
    BY <1>0, <1>8, <1>9 DEF WorkerTypes
  <2>2. WorkersFit'
    BY <1>0, <1>8, <1>9 DEF WorkersFit
  <2> QED
    BY <1>3, <1>4, <2>1, <2>2
<1>10. CASE x \in left /\ closing' = [closing EXCEPT ![x] = @ + 1] /\ UNCHANGED pend
  <2>1. x \in Request
    BY <1>10 DEF SocketTypes
  <2>2. WorkerTypes'
    BY <1>0, <1>8, <1>10, <2>1 DEF WorkerTypes
  <2>3. WorkersFit'
    BY <1>0, <1>6, <1>8, <1>10, <2>1 DEF WorkersFit, WorkerTypes
  <2> QED
    BY <1>3, <1>4, <2>2, <2>3
<1>11. CASE x \in left \cup {None} /\ closing' = [closing EXCEPT ![r] = @ + 1] /\ UNCHANGED pend
  <2>1. WorkerTypes'
    BY <1>0, <1>8, <1>11 DEF WorkerTypes
  <2>2. owner[sock[r]] = r => r \in left
    BY <1>7, <1>11, HandlersAssumption DEF WorkersFit
  <2>3. \A q \in Request : q # r => closing'[q] = closing[q]
    BY <1>11 DEF WorkerTypes
  <2>4. WorkersFit'
    BY <1>0, <1>1, <1>8, <2>2, <2>3 DEF WorkersFit
  <2> QED
    BY <1>3, <1>4, <2>1, <2>4
<1> QED
  BY <1>2, <1>5, <1>9, <1>10, <1>11

-----------------------------------------------------------------------------
(* The theorems                                                            *)

(* The invariant is kept by every step of Handlers.                        *)
LEMMA SocketInductive == SocketInv /\ [Next]_vars => SocketInv'
<1> SUFFICES ASSUME SocketInv, [Next]_vars PROVE SocketInv'
  OBVIOUS
<1>1. ASSUME NEW r \in Request, Handling(r) PROVE SocketInv'
  <2>1. Answers(r) \/ GivesUp(r) \/ Fails(r) \/ GoesOn(r) \/ Closes(r)
    BY <1>1, HandlingSorts DEF SocketInv
  <2> QED
    BY <2>1, AnswersKeeps, GivesUpKeeps, ClosesKeeps
<1>2. ASSUME NEW r \in Request, Send(r) \/ Leave(r) PROVE SocketInv'
  BY <1>2, SendKeeps, LeaveKeeps
<1>5. ASSUME NEW r \in Request, Post(r) \/ WorkerCloses(r) PROVE SocketInv'
  BY <1>5, PostKeeps, WorkerClosesKeeps
<1>6. CASE CloseAll
  BY <1>6, CloseAllKeeps
<1>3. ASSUME NEW r \in Request, NEW h \in Handle, Arrive(r, h) PROVE SocketInv'
  BY <1>3, ArriveKeeps
<1>4. CASE UNCHANGED vars
  BY <1>4 DEF vars, workerVars, SocketInv, SocketTypes, HandlesFit, OpenBefore,
              StrayedAfterClose, ServedAfter, DoneIsClosed, WorkerTypes, WorkersFit
<1> QED
  BY <1>1, <1>2, <1>3, <1>4, <1>5, <1>6 DEF Next

(* The inductive invariant holds throughout: the handles fit, a connection *)
(* is open until its handler or another closes it, the workers close of    *)
(* their own connections those only whose client has left, and who has     *)
(* been closed has been answered, given up or lost (the sends and the      *)
(* closesocket calls below JieXiWeiXin, TestTask.cpp:706-780; those of the *)
(* workers, SocketTCP.cpp:374-393 and 453-466).                            *)
THEOREM SocketsKept == Spec => []SocketInv
<1> QED
  BY SocketInit, SocketInductive, PTL DEF Spec

(* A reply comes to the wrong client only if the connection it was meant   *)
(* for had been closed before it was sent, not by its own handler or by a  *)
(* worker of its own context while the client was there, but because the   *)
(* client had left or another's late closesocket had met the handle        *)
(* (closesocket in TestTask.cpp:773, 1157 and in the handlers;             *)
(* SocketTCP.cpp:374-393 and 453-466 in the workers).                      *)
THEOREM StrayedAfterCloseAlways == Spec => []StrayedAfterClose
<1>1. SocketInv => StrayedAfterClose
  BY DEF SocketInv
<1> QED
  BY <1>1, SocketsKept, PTL

(* A request that is over has been answered, but for want of something, or *)
(* because its connection was lost before: its client had left, or another *)
(* had closed it by a handle that was given again (handlers, workers and   *)
(* closeAllClient).                                                        *)
THEOREM ServedOrClosedAlways == Spec => []ServedOrClosed
<1>1. SocketInv => ServedOrClosed
  BY DEF SocketInv, ServedAfter, ServedOrClosed
<1> QED
  BY <1>1, SocketsKept, PTL

(* Whatever the handler did, JieXiWeiXin leaves the connection closed.     *)
THEOREM DoneIsClosedAlways == Spec => []DoneIsClosed
<1>1. SocketInv => DoneIsClosed
  BY DEF SocketInv
<1> QED
  BY <1>1, SocketsKept, PTL

-----------------------------------------------------------------------------
(* What the replies say, and how many there are                            *)

(* What a step of a handler does to the replies: it says something, tells  *)
(* of a piece without an openid, or says nothing.  An order is stored when *)
(* its handler is asking, and asks no more.                                *)
Moves(r, there) == pc[r] \in Before \cup After /\ pc' = [pc EXCEPT ![r] = there]

Stores(r) == stored' \in {stored, stored \cup {r}}

Says(r) ==
  /\ pc[r] \in Before
  /\ \E there \in After : Moves(r, there)
  /\ Stores(r)
  /\ \E what \in What :
       /\ Reply(r, what)
       /\ kind[r] = "order" => (what = "done" <=> r \in stored')
  /\ UNCHANGED <<kind, pieces>>

SaysNothing(r) ==
  /\ \/ pc[r] \in Before /\ (\E there \in After : Moves(r, there)) /\ Stores(r)
     \/ /\ pc[r] = "handle"
        /\ \E there \in {"list", "ask"} :
             Moves(r, there) /\ (there = "list" => kind[r] # "order")
        /\ UNCHANGED stored
     \/ /\ pc[r] \in After /\ (\E there \in After \cup {"done"} : Moves(r, there))
        /\ UNCHANGED stored
  /\ UNCHANGED <<got, kind, pieces>>

(* What the clients and the workers do has nothing to do with the replies. *)
SocketStep ==
  CloseAll \/ \E r \in Request : Leave(r) \/ Post(r) \/ WorkerCloses(r)

LEMMA SocketSteps ==
  ASSUME SocketStep
  PROVE  UNCHANGED <<pc, kind, got, stored, pieces, data, list>>
  BY DEF SocketStep, CloseAll, Leave, Post, WorkerCloses

(* Who has sent something is done with the reply, or has told of a piece;  *)
(* an order is in the table only when nothing is asked any more.           *)
ReplyTypes ==
  /\ kind \in [Request -> Kind \cup {None}]
  /\ pieces \in [Request -> 0..MaxPieces]
  /\ stored \subseteq Request

OrderAsks ==
  /\ \A r \in Request : pc[r] = "list" => kind[r] # "order"
  /\ \A r \in stored : pc[r] \in After \cup {"done"}

SpokenAfter ==
  \A q \in Request : \A i \in DOMAIN got[q] :
    LET r == got[q][i].from IN
      pc[r] \in After \cup {"done"} \/ (pc[r] = "ask" /\ pieces[r] > 0)

TrueSoFar ==
  \A q \in Request : \A i \in DOMAIN got[q] :
    LET r == got[q][i].from IN
      kind[r] = "order" /\ pieces[r] = 0 => (got[q][i].what = "done" <=> r \in stored)

(* One reply for each piece, and the last when the handler is behind it.   *)
Told(r) == IF pc[r] \in After \cup {"done"} THEN 1 ELSE 0

CountedReplies ==
  \A r \in Request :
    IsFiniteSet(RepliesOf(r)) /\ Cardinality(RepliesOf(r)) <= pieces[r] + Told(r)

RepliesInv ==
  SocketInv /\ ReplyTypes /\ OrderAsks /\ SpokenAfter /\ TrueSoFar /\ CountedReplies

(* Every step of a handler is of one of the three sorts.                   *)
LEMMA ReplySorts ==
  ASSUME RepliesInv, NEW r \in Request, Handling(r)
  PROVE  Says(r) \/ NoOpenID(r) \/ SaysNothing(r)
<1> USE DEF At, Before, After, Moves, Stores
<1>1. CASE Echo(r)
  <2>1. Reply(r, kind[r]) /\ kind[r] \in What /\ kind[r] # "order"
    BY <1>1 DEF Echo, What
  <2> QED
    BY <1>1, <2>1 DEF Echo, Says
<1>2. CASE Success(r)
  <2>1. "success" \in What /\ kind[r] # "order"
    BY <1>2 DEF Success, What
  <2> QED
    BY <1>2, <2>1 DEF Success, Says
<1>3. CASE Ignore(r)
  BY <1>3 DEF Ignore, SaysNothing
<1>4. CASE Code(r)
  <2>1. "code" \in What /\ kind[r] # "order"
    BY <1>4 DEF Code, What
  <2> QED
    BY <1>4, <2>1 DEF Code, Says
<1>5. CASE FindsNothing(r)
  BY <1>5 DEF FindsNothing, SaysNothing
<1>6. CASE NotBound(r)
  <2>1. "notbound" \in What /\ kind[r] # "order" /\ UNCHANGED <<kind, stored, pieces>>
    BY <1>6 DEF NotBound, What
  <2>2. CASE At(r, "handle", "back") /\ Reply(r, "notbound")
    BY <2>1, <2>2 DEF Says
  <2>3. CASE At(r, "handle", "close") /\ UNCHANGED got
    BY <2>1, <2>3 DEF SaysNothing
  <2> QED
    BY <1>6, <2>2, <2>3 DEF NotBound
<1>7. CASE ReadDevices(r)
  <2>1. kind[r] # "order"
    BY <1>7 DEF ReadDevices
  <2> QED
    BY <1>7, <2>1 DEF ReadDevices, SaysNothing
<1>8. CASE SendList(r)
  <2>1. "list" \in What /\ kind[r] # "order"
    BY <1>8 DEF SendList, What, RepliesInv, OrderAsks
  <2> QED
    BY <1>8, <2>1 DEF SendList, Says
<1>9. CASE SendPage(r)
  <2>1. "page" \in What /\ kind[r] # "order"
    BY <1>9 DEF SendPage, What
  <2> QED
    BY <1>9, <2>1 DEF SendPage, Says
<1>10. CASE SendNothing(r)
  BY <1>10 DEF SendNothing, SaysNothing
<1>11. CASE AskOpenID(r)
  BY <1>11 DEF AskOpenID, SaysNothing
<1>12. CASE NoOpenID(r)
  BY <1>12
<1>13. CASE OpenID(r)
  <2>1. "done" \in What /\ "refused" \in What /\ r \notin stored
    BY <1>13 DEF OpenID, What, RepliesInv, OrderAsks
  <2>2. \E what \in What : Reply(r, what) /\ (what = "done" <=> r \in stored') /\ Stores(r)
    BY <1>13, <2>1 DEF OpenID
  <2> QED
    BY <1>13, <2>2 DEF OpenID, Says
<1>14. CASE OpenIDNoPage(r)
  BY <1>14 DEF OpenIDNoPage, SaysNothing
<1>15. CASE AnswerEnds(r)
  BY <1>15 DEF AnswerEnds, SaysNothing
<1>16. CASE Close(r)
  BY <1>16 DEF Close, SaysNothing
<1>17. CASE CloseAgain(r)
  BY <1>17 DEF CloseAgain, SaysNothing
<1>18. CASE Finish(r)
  BY <1>18 DEF Finish, SaysNothing
<1> QED
  BY <1>1, <1>2, <1>3, <1>4, <1>5, <1>6, <1>7, <1>8, <1>9, <1>10, <1>11, <1>12,
     <1>13, <1>14, <1>15, <1>16, <1>17, <1>18 DEF Handling

LEMMA FromIsRequest ==
  ASSUME SocketTypes, NEW q \in Request, NEW i \in DOMAIN got[q]
  PROVE  got[q][i].from \in Request
<1>1. got[q] \in Seq(Message)
  BY DEF SocketTypes
<1>2. i \in 1..Len(got[q])
  BY <1>1
<1>3. got[q][i] \in Message
  BY <1>1, <1>2, ElementOfSeq
<1> QED
  BY <1>3 DEF Message

(* A reply is one more, at the end of what one connection has got.         *)
LEMMA ReplyIsOne ==
  ASSUME SocketTypes, NEW r \in Request, NEW what \in What, Reply(r, what)
  PROVE  \E x, n : \A q \in Request :
           /\ \A i \in DOMAIN got[q] : i \in DOMAIN got'[q] /\ got'[q][i] = got[q][i]
           /\ \A i \in DOMAIN got'[q] :
                \/ i \in DOMAIN got[q]
                \/ q = x /\ i = n /\ got'[q][i] = [from |-> r, what |-> what]
<1> DEFINE x == owner[sock[r]]
           m == [from |-> r, what |-> what]
<1>1. CASE ~Goes(r) \/ x \notin Request
  <2>1. got' = got
    BY <1>1 DEF Reply, SocketTypes
  <2> QED
    BY <2>1
<1>2. CASE Goes(r) /\ x \in Request
  <2>1. got' = [got EXCEPT ![x] = Append(got[x], m)] /\ got \in [Request -> Seq(Message)]
    BY <1>2 DEF Reply, SocketTypes
  <2>2. m \in Message /\ x \in Request
    BY <1>2 DEF Message
  <2> HIDE DEF x, m
  <2>3. got'[x] = Append(got[x], m) /\ \A q \in Request : q # x => got'[q] = got[q]
    BY <2>1, <2>2
  <2>4. got[x] \in Seq(Message)
    BY <2>1, <2>2
  <2>5. /\ \A i \in DOMAIN got[x] : i \in DOMAIN got'[x] /\ got'[x][i] = got[x][i]
        /\ \A i \in DOMAIN got'[x] :
             i \in DOMAIN got[x] \/ (i = Len(got[x]) + 1 /\ got'[x][i] = m)
    BY <2>2, <2>3, <2>4
  <2>6. \A q \in Request :
          /\ \A i \in DOMAIN got[q] : i \in DOMAIN got'[q] /\ got'[q][i] = got[q][i]
          /\ \A i \in DOMAIN got'[q] :
               i \in DOMAIN got[q] \/ (q = x /\ i = Len(got[x]) + 1 /\ got'[q][i] = m)
    BY <2>3, <2>5
  <2>7. PICK y, n : y = x /\ n = Len(got[x]) + 1
    OBVIOUS
  <2>8. \A q \in Request :
          /\ \A i \in DOMAIN got[q] : i \in DOMAIN got'[q] /\ got'[q][i] = got[q][i]
          /\ \A i \in DOMAIN got'[q] :
               i \in DOMAIN got[q] \/ (q = y /\ i = n /\ got'[q][i] = [from |-> r, what |-> what])
    BY <2>6, <2>7 DEF m
  <2> QED
    BY <2>8
<1> QED
  BY <1>1, <1>2

LEMMA InRepliesOf ==
  ASSUME NEW r \in Request, NEW e
  PROVE  e \in RepliesOf(r) <=>
           \E q \in Request : \E i \in DOMAIN got[q] :
             got[q][i].from = r /\ e = [to |-> q, at |-> i]
  BY DEF RepliesOf

LEMMA InRepliesOfNext ==
  ASSUME NEW r \in Request, NEW e
  PROVE  e \in RepliesOf(r)' <=>
           \E q \in Request : \E i \in DOMAIN got'[q] :
             got'[q][i].from = r /\ e = [to |-> q, at |-> i]
  BY DEF RepliesOf

LEMMA RepliesGrow ==
  ASSUME SocketTypes, NEW r \in Request, NEW what \in What, Reply(r, what)
  PROVE  /\ \A q \in Request : q # r => RepliesOf(q)' \subseteq RepliesOf(q)
         /\ \E e : RepliesOf(r)' \subseteq RepliesOf(r) \cup {e}
<1>1. PICK x, n : \A q \in Request :
           /\ \A i \in DOMAIN got[q] : i \in DOMAIN got'[q] /\ got'[q][i] = got[q][i]
           /\ \A i \in DOMAIN got'[q] :
                \/ i \in DOMAIN got[q]
                \/ q = x /\ i = n /\ got'[q][i] = [from |-> r, what |-> what]
  BY ReplyIsOne
<1>2. ASSUME NEW q \in Request, NEW e \in RepliesOf(q)'
      PROVE  e \in RepliesOf(q) \/ (q = r /\ e = [to |-> x, at |-> n])
  <2>1. PICK t \in Request : \E i \in DOMAIN got'[t] :
          got'[t][i].from = q /\ e = [to |-> t, at |-> i]
    BY <1>2, InRepliesOfNext
  <2>2. PICK i \in DOMAIN got'[t] : got'[t][i].from = q /\ e = [to |-> t, at |-> i]
    BY <2>1
  <2>3. CASE i \in DOMAIN got[t]
    BY <1>1, <2>2, <2>3, InRepliesOf
  <2>4. CASE t = x /\ i = n /\ got'[t][i] = [from |-> r, what |-> what]
    BY <2>2, <2>4
  <2> QED
    BY <1>1, <2>3, <2>4
<1> QED
  BY <1>2

(* The bound on the replies, when there is one more of them at most.       *)
LEMMA OneMoreReply ==
  ASSUME NEW S, NEW T, NEW e, NEW n \in Nat, IsFiniteSet(S), Cardinality(S) <= n,
         T \subseteq S \cup {e}
  PROVE  IsFiniteSet(T) /\ Cardinality(T) <= n + 1
<1> DEFINE c == Cardinality(S)
           d == Cardinality(S \cup {e})
<1>1. c \in Nat /\ c <= n
  BY FS_CardinalityType
<1>2. IsFiniteSet(S \cup {e}) /\ (d = c \/ d = c + 1)
  <2>1. CASE e \in S
    <3>1. S \cup {e} = S
      BY <2>1
    <3> QED
      BY <3>1
  <2>2. CASE e \notin S
    BY <2>2, FS_AddElement
  <2> QED
    BY <2>1, <2>2
<1>3. IsFiniteSet(T) /\ Cardinality(T) <= d /\ Cardinality(T) \in Nat
  BY <1>2, FS_Subset, FS_CardinalityType
<1> HIDE DEF c, d
<1>4. d \in Nat /\ d <= n + 1
  BY <1>1, <1>2
<1> QED
  BY <1>3, <1>4

LEMMA NoMoreReplies ==
  ASSUME NEW S, NEW T, NEW n \in Nat, IsFiniteSet(S), Cardinality(S) <= n, T \subseteq S
  PROVE  IsFiniteSet(T) /\ Cardinality(T) <= n
<1>1. IsFiniteSet(T) /\ Cardinality(T) <= Cardinality(S)
      /\ Cardinality(T) \in Nat /\ Cardinality(S) \in Nat
  BY FS_Subset, FS_CardinalityType
<1> QED
  BY <1>1

(* A handler that says something and asks no more.                         *)
LEMMA SaysKeeps ==
  ASSUME RepliesInv, NEW r \in Request, Says(r), SocketInv'
  PROVE  RepliesInv'
<1> USE DEF RepliesInv, SocketInv
<1>1. PICK there \in After : pc' = [pc EXCEPT ![r] = there]
  BY DEF Says, Moves
<1>2. PICK what \in What : /\ Reply(r, what)
                           /\ kind[r] = "order" => (what = "done" <=> r \in stored')
  BY DEF Says
<1>3. /\ pc[r] \in Before /\ stored' \in {stored, stored \cup {r}}
      /\ UNCHANGED <<kind, pieces>>
  BY DEF Says, Stores
<1>4. pc'[r] \in After /\ \A q \in Request : q # r => pc'[q] = pc[q]
  BY <1>1 DEF SocketTypes
<1>5. PICK x, n : \A q \in Request :
           /\ \A i \in DOMAIN got[q] : i \in DOMAIN got'[q] /\ got'[q][i] = got[q][i]
           /\ \A i \in DOMAIN got'[q] :
                \/ i \in DOMAIN got[q]
                \/ q = x /\ i = n /\ got'[q][i] = [from |-> r, what |-> what]
  BY <1>2, ReplyIsOne
<1>6. ReplyTypes'
  BY <1>3 DEF ReplyTypes
<1>7. OrderAsks'
  BY <1>3, <1>4 DEF OrderAsks, After, ReplyTypes
<1>8. SpokenAfter'
  <2> SUFFICES ASSUME NEW q \in Request, NEW i \in DOMAIN got'[q]
               PROVE  LET f == got'[q][i].from IN
                        \/ pc'[f] \in After \cup {"done"}
                        \/ pc'[f] = "ask" /\ pieces'[f] > 0
    BY DEF SpokenAfter
  <2>1. CASE i \in DOMAIN got[q]
    <3> DEFINE f == got[q][i].from
    <3>1. got'[q][i] = got[q][i] /\ f \in Request
      BY <1>5, <2>1, FromIsRequest
    <3>2. pc[f] \in After \cup {"done"} \/ (pc[f] = "ask" /\ pieces[f] > 0)
      BY <2>1 DEF SpokenAfter
    <3> HIDE DEF f
    <3>3. pc'[f] \in After \cup {"done"} \/ (pc'[f] = "ask" /\ pieces'[f] > 0)
      BY <1>3, <1>4, <3>1, <3>2
    <3> QED
      BY <3>1, <3>3 DEF f
  <2>2. CASE got'[q][i] = [from |-> r, what |-> what]
    BY <1>4, <2>2
  <2> QED
    BY <1>5, <2>1, <2>2
<1>9. TrueSoFar'
  <2> SUFFICES ASSUME NEW q \in Request, NEW i \in DOMAIN got'[q]
               PROVE  LET f == got'[q][i].from IN
                        kind'[f] = "order" /\ pieces'[f] = 0 =>
                          (got'[q][i].what = "done" <=> f \in stored')
    BY DEF TrueSoFar
  <2>1. CASE i \in DOMAIN got[q]
    <3> DEFINE f == got[q][i].from
    <3>1. got'[q][i] = got[q][i] /\ f \in Request
      BY <1>5, <2>1, FromIsRequest
    <3>2. pc[f] \in After \cup {"done"} \/ (pc[f] = "ask" /\ pieces[f] > 0)
      BY <2>1 DEF SpokenAfter
    <3>3. kind[f] = "order" /\ pieces[f] = 0 => (got[q][i].what = "done" <=> f \in stored)
      BY <2>1 DEF TrueSoFar
    <3> HIDE DEF f
    <3>4. CASE f = r
      <4>1. pieces[f] > 0
        BY <1>3, <3>2, <3>4 DEF Before, After
      <4> QED
        BY <1>3, <3>1, <4>1 DEF f
    <3>5. CASE f # r
      <4>1. f \in stored' <=> f \in stored
        BY <1>3, <3>5
      <4> QED
        BY <1>3, <3>1, <3>3, <4>1 DEF f
    <3> QED
      BY <3>4, <3>5
  <2>2. CASE got'[q][i] = [from |-> r, what |-> what]
    BY <1>2, <1>3, <2>2
  <2> QED
    BY <1>5, <2>1, <2>2
<1>10. CountedReplies'
  <2> SUFFICES ASSUME NEW q \in Request
               PROVE  /\ IsFiniteSet(RepliesOf(q)')
                      /\ Cardinality(RepliesOf(q)') <= pieces'[q] + Told(q)'
    BY DEF CountedReplies
  <2>1. /\ IsFiniteSet(RepliesOf(q)) /\ Cardinality(RepliesOf(q)) <= pieces[q] + Told(q)
        /\ pieces[q] \in Nat /\ Told(q) \in Nat
    BY HandlersAssumption DEF CountedReplies, ReplyTypes, Told
  <2>2. CASE q = r
    <3>1. Told(q) = 0 /\ Told(q)' = 1
      BY <1>3, <1>4, <2>2 DEF Told, Before, After
    <3>2. PICK e : RepliesOf(q)' \subseteq RepliesOf(q) \cup {e}
      BY <1>2, <2>2, RepliesGrow
    <3>3. IsFiniteSet(RepliesOf(q)') /\ Cardinality(RepliesOf(q)') <= pieces[q] + 1
      <4>1. Cardinality(RepliesOf(q)) <= pieces[q]
        BY <2>1, <3>1
      <4> QED
        BY <2>1, <3>2, <4>1, OneMoreReply
    <3> QED
      BY <1>3, <3>1, <3>3
  <2>3. CASE q # r
    <3>1. Told(q)' = Told(q)
      BY <1>4, <2>3 DEF Told
    <3>2. RepliesOf(q)' \subseteq RepliesOf(q)
      BY <1>2, <2>3, RepliesGrow
    <3>3. pieces[q] + Told(q) \in Nat
      BY <2>1
    <3> QED
      BY <1>3, <2>1, <3>1, <3>2, <3>3, NoMoreReplies
  <2> QED
    BY <2>2, <2>3
<1> QED
  BY <1>6, <1>7, <1>8, <1>9, <1>10

(* A piece without an openid is a reply of its own.                        *)
LEMMA NoOpenIDKeeps ==
  ASSUME RepliesInv, NEW r \in Request, NoOpenID(r), SocketInv'
  PROVE  RepliesInv'
<1> USE DEF RepliesInv, SocketInv
<1>1. /\ pc[r] = "ask" /\ pc' = [pc EXCEPT ![r] = "ask"]
      /\ pieces[r] < MaxPieces /\ pieces' = [pieces EXCEPT ![r] = pieces[r] + 1]
      /\ Reply(r, "failed") /\ UNCHANGED <<kind, stored>>
  BY DEF NoOpenID, At
<1>2. /\ pc' = pc /\ pieces[r] \in Nat /\ pieces'[r] = pieces[r] + 1
      /\ \A q \in Request : q # r => pieces'[q] = pieces[q]
  BY <1>1, HandlersAssumption DEF SocketTypes, ReplyTypes
<1>3. PICK x, n : \A q \in Request :
           /\ \A i \in DOMAIN got[q] : i \in DOMAIN got'[q] /\ got'[q][i] = got[q][i]
           /\ \A i \in DOMAIN got'[q] :
                \/ i \in DOMAIN got[q]
                \/ q = x /\ i = n /\ got'[q][i] = [from |-> r, what |-> "failed"]
  BY <1>1, ReplyIsOne DEF What
<1>4. ReplyTypes'
  BY <1>1, HandlersAssumption DEF ReplyTypes
<1>5. OrderAsks'
  BY <1>1, <1>2 DEF OrderAsks
<1>6. ASSUME NEW q \in Request, NEW i \in DOMAIN got'[q]
      PROVE  \/ got'[q][i].from = r
             \/ /\ i \in DOMAIN got[q] /\ got'[q][i] = got[q][i]
                /\ got[q][i].from \in Request
                /\ pieces'[got[q][i].from] = pieces[got[q][i].from]
  BY <1>2, <1>3, FromIsRequest
<1>7. SpokenAfter'
  <2> SUFFICES ASSUME NEW q \in Request, NEW i \in DOMAIN got'[q]
               PROVE  LET f == got'[q][i].from IN
                        \/ pc'[f] \in After \cup {"done"}
                        \/ pc'[f] = "ask" /\ pieces'[f] > 0
    BY DEF SpokenAfter
  <2>1. CASE got'[q][i].from = r
    BY <1>1, <1>2, <2>1
  <2>2. CASE got'[q][i].from # r
    BY <1>2, <1>6, <2>2 DEF SpokenAfter
  <2> QED
    BY <2>1, <2>2
<1>8. TrueSoFar'
  <2> SUFFICES ASSUME NEW q \in Request, NEW i \in DOMAIN got'[q]
               PROVE  LET f == got'[q][i].from IN
                        kind'[f] = "order" /\ pieces'[f] = 0 =>
                          (got'[q][i].what = "done" <=> f \in stored')
    BY DEF TrueSoFar
  <2>1. CASE got'[q][i].from = r
    <3>1. pieces'[r] # 0
      BY <1>2
    <3> QED
      BY <2>1, <3>1
  <2>2. CASE got'[q][i].from # r
    BY <1>1, <1>6, <2>2 DEF TrueSoFar
  <2> QED
    BY <2>1, <2>2
<1>9. CountedReplies'
  <2> SUFFICES ASSUME NEW q \in Request
               PROVE  /\ IsFiniteSet(RepliesOf(q)')
                      /\ Cardinality(RepliesOf(q)') <= pieces'[q] + Told(q)'
    BY DEF CountedReplies
  <2>1. /\ IsFiniteSet(RepliesOf(q)) /\ Cardinality(RepliesOf(q)) <= pieces[q] + Told(q)
        /\ pieces[q] \in Nat /\ Told(q) \in Nat
    BY HandlersAssumption DEF CountedReplies, ReplyTypes, Told
  <2>2. Told(q)' = Told(q) /\ pieces[q] + Told(q) \in Nat
    BY <1>2, <2>1 DEF Told
  <2>3. CASE q = r
    <3>1. Told(q) = 0
      BY <1>1, <2>3 DEF Told, After
    <3>2. PICK e : RepliesOf(q)' \subseteq RepliesOf(q) \cup {e}
      BY <1>1, <2>3, RepliesGrow DEF What
    <3>3. Cardinality(RepliesOf(q)) <= pieces[q]
      BY <2>1, <3>1
    <3>4. IsFiniteSet(RepliesOf(q)') /\ Cardinality(RepliesOf(q)') <= pieces[q] + 1
      BY <2>1, <3>2, <3>3, OneMoreReply
    <3>5. pieces'[q] + Told(q)' = pieces[q] + 1
      BY <1>2, <2>1, <2>2, <2>3, <3>1
    <3> QED
      BY <3>4, <3>5
  <2>4. CASE q # r
    <3>1. RepliesOf(q)' \subseteq RepliesOf(q)
      BY <1>1, <2>4, RepliesGrow DEF What
    <3> QED
      BY <1>2, <2>1, <2>2, <2>4, <3>1, NoMoreReplies
  <2> QED
    BY <2>3, <2>4
<1> QED
  BY <1>4, <1>5, <1>7, <1>8, <1>9

(* A step that adds no reply and lets no handler go back.                  *)
LEMMA NoReplyKeeps ==
  ASSUME RepliesInv, SocketInv', got' = got, pieces' = pieces, stored \subseteq stored',
         ReplyTypes', OrderAsks',
         \A q \in Request : pc[q] \in After \cup {"done"} => pc'[q] \in After \cup {"done"},
         \A q \in Request : pc[q] = "ask" => pc'[q] \in {"ask"} \cup After,
         \A q \in Request : pc[q] \in After \cup {"done"} =>
           kind'[q] = kind[q] /\ (q \in stored' => q \in stored),
         \A q \in Request : pc[q] = "ask" => kind'[q] = kind[q]
  PROVE  RepliesInv'
<1> USE DEF RepliesInv, SocketInv
<1>1. SpokenAfter'
  <2> SUFFICES ASSUME NEW q \in Request, NEW i \in DOMAIN got[q]
               PROVE  LET f == got[q][i].from IN
                        pc'[f] \in After \cup {"done"} \/ (pc'[f] = "ask" /\ pieces[f] > 0)
    BY DEF SpokenAfter
  <2>1. got[q][i].from \in Request
    BY FromIsRequest
  <2> QED
    BY <2>1 DEF SpokenAfter
<1>2. TrueSoFar'
  <2> SUFFICES ASSUME NEW q \in Request, NEW i \in DOMAIN got[q]
               PROVE  LET f == got[q][i].from IN
                        kind'[f] = "order" /\ pieces[f] = 0 =>
                          (got[q][i].what = "done" <=> f \in stored')
    BY DEF TrueSoFar
  <2>1. got[q][i].from \in Request
    BY FromIsRequest
  <2>2. LET f == got[q][i].from IN
          pc[f] \in After \cup {"done"} \/ (pc[f] = "ask" /\ pieces[f] > 0)
    BY DEF SpokenAfter
  <2>3. LET f == got[q][i].from IN
          kind[f] = "order" /\ pieces[f] = 0 =>
            (got[q][i].what = "done" <=> f \in stored)
    BY DEF TrueSoFar
  <2>4. CASE pc[got[q][i].from] \in After \cup {"done"}
    BY <2>1, <2>3, <2>4
  <2>5. CASE pieces[got[q][i].from] > 0
    BY <2>5
  <2> QED
    BY <2>2, <2>4, <2>5
<1>3. CountedReplies'
  <2> SUFFICES ASSUME NEW q \in Request
               PROVE  /\ IsFiniteSet(RepliesOf(q)')
                      /\ Cardinality(RepliesOf(q)') <= pieces'[q] + Told(q)'
    BY DEF CountedReplies
  <2>1. /\ IsFiniteSet(RepliesOf(q)) /\ Cardinality(RepliesOf(q)) <= pieces[q] + Told(q)
        /\ pieces[q] \in Nat /\ Told(q) \in Nat /\ Told(q)' \in Nat
    BY HandlersAssumption DEF CountedReplies, ReplyTypes, Told
  <2>2. Told(q) <= Told(q)'
    BY DEF Told
  <2>3. RepliesOf(q)' = RepliesOf(q)
    BY DEF RepliesOf
  <2>4. Cardinality(RepliesOf(q)) \in Nat
    BY <2>1, FS_CardinalityType
  <2>5. Cardinality(RepliesOf(q)) <= pieces[q] + Told(q)'
    BY <2>1, <2>2, <2>4
  <2> QED
    BY <2>1, <2>3, <2>5
<1> QED
  BY <1>1, <1>2, <1>3

LEMMA SaysNothingKeeps ==
  ASSUME RepliesInv, NEW r \in Request, SaysNothing(r), SocketInv'
  PROVE  RepliesInv'
<1>0. UNCHANGED <<got, kind, pieces>>
  BY DEF SaysNothing
<1> USE DEF RepliesInv, SocketInv, Before, After
<1>1. CASE pc[r] \in Before /\ (\E there \in After : Moves(r, there)) /\ Stores(r)
  <2>1. PICK there \in After : pc' = [pc EXCEPT ![r] = there]
    BY <1>1 DEF Moves
  <2>2. pc'[r] \in After /\ \A q \in Request : q # r => pc'[q] = pc[q]
    BY <2>1 DEF SocketTypes
  <2>3. stored' \in {stored, stored \cup {r}}
    BY <1>1 DEF Stores
  <2>4. ReplyTypes' /\ OrderAsks'
    BY <1>0, <2>2, <2>3 DEF ReplyTypes, OrderAsks
  <2> QED
    BY <1>0, <1>1, <2>2, <2>3, <2>4, NoReplyKeeps
<1>2. CASE /\ pc[r] = "handle"
           /\ \E there \in {"list", "ask"} :
                Moves(r, there) /\ (there = "list" => kind[r] # "order")
           /\ UNCHANGED stored
  <2>1. PICK there \in {"list", "ask"} :
          pc' = [pc EXCEPT ![r] = there] /\ (there = "list" => kind[r] # "order")
    BY <1>2 DEF Moves
  <2>2. pc'[r] = there /\ \A q \in Request : q # r => pc'[q] = pc[q]
    BY <2>1 DEF SocketTypes
  <2>3. ReplyTypes' /\ OrderAsks'
    BY <1>0, <1>2, <2>1, <2>2 DEF ReplyTypes, OrderAsks
  <2> QED
    BY <1>0, <1>2, <2>2, <2>3, NoReplyKeeps
<1>3. CASE /\ pc[r] \in After /\ (\E there \in After \cup {"done"} : Moves(r, there))
           /\ UNCHANGED stored
  <2>1. PICK there \in After \cup {"done"} : pc' = [pc EXCEPT ![r] = there]
    BY <1>3 DEF Moves
  <2>2. pc'[r] \in After \cup {"done"} /\ \A q \in Request : q # r => pc'[q] = pc[q]
    BY <2>1 DEF SocketTypes
  <2>3. ReplyTypes' /\ OrderAsks'
    BY <1>0, <1>3, <2>2 DEF ReplyTypes, OrderAsks
  <2> QED
    BY <1>0, <1>3, <2>2, <2>3, NoReplyKeeps
<1> QED
  BY <1>1, <1>2, <1>3 DEF SaysNothing

LEMMA RepliesInit == Init => RepliesInv
<1> SUFFICES ASSUME Init PROVE RepliesInv
  OBVIOUS
<1>1. SocketInv
  BY SocketInit
<1>2. ReplyTypes /\ OrderAsks
  BY HandlersAssumption DEF Init, ReplyTypes, OrderAsks
<1>3. \A q \in Request : DOMAIN got[q] = {}
  BY DEF Init
<1>4. SpokenAfter /\ TrueSoFar
  BY <1>3 DEF SpokenAfter, TrueSoFar
<1>5. CountedReplies
  <2> SUFFICES ASSUME NEW r \in Request
               PROVE  /\ IsFiniteSet(RepliesOf(r))
                      /\ Cardinality(RepliesOf(r)) <= pieces[r] + Told(r)
    BY DEF CountedReplies
  <2>1. RepliesOf(r) = {}
    BY <1>3, InRepliesOf
  <2>2. pieces[r] = 0 /\ Told(r) = 0
    BY DEF Init, Told, After
  <2> QED
    BY <2>1, <2>2, FS_EmptySet
<1> QED
  BY <1>1, <1>2, <1>4, <1>5 DEF RepliesInv

LEMMA RepliesInductive == RepliesInv /\ [Next]_vars => RepliesInv'
<1> SUFFICES ASSUME RepliesInv, [Next]_vars PROVE RepliesInv'
  OBVIOUS
<1>0. SocketInv'
  BY SocketInductive DEF RepliesInv
<1>1. ASSUME NEW r \in Request, Handling(r) PROVE RepliesInv'
  BY <1>0, <1>1, ReplySorts, SaysKeeps, NoOpenIDKeeps, SaysNothingKeeps
<1>2. CASE SocketStep
  <2>1. UNCHANGED <<pc, kind, got, stored, pieces>>
    BY <1>2, SocketSteps
  <2>2. ReplyTypes' /\ OrderAsks'
    BY <2>1 DEF RepliesInv, ReplyTypes, OrderAsks
  <2> QED
    BY <1>0, <2>1, <2>2, NoReplyKeeps
<1>3. ASSUME NEW r \in Request, NEW h \in Handle, Arrive(r, h) PROVE RepliesInv'
  <2>1. pc[r] = "none" /\ pc' = [pc EXCEPT ![r] = "idle"] /\ UNCHANGED <<kind, got, stored, pieces>>
    BY <1>3 DEF Arrive, At
  <2>2. pc'[r] = "idle" /\ \A q \in Request : q # r => pc'[q] = pc[q]
    BY <2>1 DEF RepliesInv, SocketInv, SocketTypes
  <2>3. ReplyTypes' /\ OrderAsks'
    BY <2>1, <2>2 DEF RepliesInv, ReplyTypes, OrderAsks, After
  <2> QED
    BY <1>0, <2>1, <2>2, <2>3, NoReplyKeeps DEF After
<1>5. ASSUME NEW r \in Request, Send(r) PROVE RepliesInv'
  <2>1. PICK k \in Kind : kind' = [kind EXCEPT ![r] = k]
    BY <1>5 DEF Send
  <2>2. pc[r] = "idle" /\ pc' = [pc EXCEPT ![r] = "handle"] /\ UNCHANGED <<got, stored, pieces>>
    BY <1>5 DEF Send, At
  <2>3. pc'[r] = "handle" /\ \A q \in Request : q # r => pc'[q] = pc[q] /\ kind'[q] = kind[q]
    BY <2>1, <2>2 DEF RepliesInv, SocketInv, SocketTypes, ReplyTypes
  <2>4. ReplyTypes'
    BY <2>1, <2>2 DEF RepliesInv, ReplyTypes
  <2>5. OrderAsks'
    BY <2>2, <2>3 DEF RepliesInv, OrderAsks, ReplyTypes, After
  <2> QED
    BY <1>0, <2>2, <2>3, <2>4, <2>5, NoReplyKeeps DEF After
<1>4. CASE UNCHANGED vars
  <2>1. UNCHANGED <<pc, kind, got, stored, pieces>>
    BY <1>4 DEF vars
  <2>2. ReplyTypes' /\ OrderAsks'
    BY <2>1 DEF RepliesInv, ReplyTypes, OrderAsks
  <2> QED
    BY <1>0, <2>1, <2>2, NoReplyKeeps
<1> QED
  BY <1>1, <1>2, <1>3, <1>4, <1>5 DEF Next, SocketStep

LEMMA RepliesAlways == Spec => []RepliesInv
  BY RepliesInit, RepliesInductive, PTL DEF Spec

(* No request is answered twice, wherever its replies go, but for one      *)
(* reply to each piece of the WeChat server's answer without an openid     *)
(* (the recv loops of WX_SetMotorLock and its like).                       *)
THEOREM AnsweredOnceAlways == Spec => []AnsweredOnce
<1>1. ASSUME RepliesInv
      PROVE  AnsweredOnce
  <2> SUFFICES ASSUME NEW r \in Request
               PROVE  Cardinality(RepliesOf(r)) <= 1 + pieces[r]
    BY DEF AnsweredOnce
  <2>1. /\ IsFiniteSet(RepliesOf(r)) /\ Cardinality(RepliesOf(r)) <= pieces[r] + Told(r)
        /\ pieces[r] \in Nat /\ Told(r) \in {0, 1}
    BY <1>1, HandlersAssumption DEF RepliesInv, CountedReplies, ReplyTypes, Told
  <2>2. Cardinality(RepliesOf(r)) \in Nat
    BY <2>1, FS_CardinalityType
  <2> QED
    BY <2>1, <2>2
<1> QED
  BY <1>1, RepliesAlways, PTL

(* The page that answers an order tells whether the order is in the table, *)
(* when the WeChat server's answer came in one piece.                      *)
THEOREM PageIsTrueAlways == Spec => []PageIsTrue
<1>1. RepliesInv => PageIsTrue
  BY DEF RepliesInv, TrueSoFar, PageIsTrue
<1> QED
  BY <1>1, RepliesAlways, PTL

-----------------------------------------------------------------------------
(* Induction over the natural numbers, for a set of them.                  *)
LEMMA EveryNatural ==
  ASSUME NEW S, 0 \in S, \A n \in Nat : n \in S => n + 1 \in S
  PROVE  \A n \in Nat : n \in S
<1> DEFINE T == Nat \ S
           Less == {p \in Nat \X Nat : p[1] < p[2]}
<1>1. SUFFICES ASSUME T # {} PROVE FALSE
  OBVIOUS
<1>2. IsWellFoundedOn(Less, Nat)
  BY NatLessThanWellFounded, Zenon DEF OpToRel
<1>3. PICK x \in T : \A y \in T : <<y, x>> \notin Less
  <2>1. T \subseteq Nat
    OBVIOUS
  <2> HIDE DEF T, Less
  <2> QED
    BY <1>1, <1>2, <2>1, WFMin
<1>4. x - 1 \in Nat /\ x - 1 < x /\ x \in Nat /\ (x - 1) + 1 = x
  <2>1. x \in Nat /\ x \notin S
    BY <1>3
  <2>2. x # 0
    BY <2>1
  <2> QED
    BY <2>1, <2>2
<1>5. <<x - 1, x>> \in Less
  BY <1>4
<1>6. x - 1 \in S
  BY <1>3, <1>4, <1>5
<1>7. (x - 1) + 1 \in S
  BY <1>4, <1>6
<1> QED
  BY <1>3, <1>4, <1>7

(* Merged is what merging one record after the other comes to.             *)
MergedUpTo(m, records, k) ==
  m = [n \in 0..k |-> IF n = 0 THEN <<>> ELSE Merge(m[n - 1], records[n])]

LEMMA MergedIs ==
  ASSUME NEW records \in Seq(Record)
  PROVE  \E m : MergedUpTo(m, records, Len(records)) /\ Merged(records) = m[Len(records)]
<1> DEFINE S == {k \in Nat : \E m : MergedUpTo(m, records, k)}
<1>1. 0 \in S
  <2>1. MergedUpTo([n \in 0..0 |-> <<>>], records, 0)
    BY DEF MergedUpTo
  <2> QED
    BY <2>1
<1>2. ASSUME NEW k \in Nat, k \in S PROVE k + 1 \in S
  <2>1. PICK m : MergedUpTo(m, records, k)
    BY <1>2
  <2>2. PICK l : l = [n \in 0..(k + 1) |->
                        IF n <= k THEN m[n] ELSE Merge(m[k], records[k + 1])]
    OBVIOUS
  <2>3. \A n \in 0..k : l[n] = m[n]
    BY <2>2
  <2>4. ASSUME NEW n \in 0..(k + 1)
        PROVE  l[n] = IF n = 0 THEN <<>> ELSE Merge(l[n - 1], records[n])
    <3>1. CASE n <= k
      BY <2>1, <2>3, <3>1 DEF MergedUpTo
    <3>2. CASE n = k + 1
      <4>1. l[n] = Merge(m[k], records[k + 1]) /\ n # 0 /\ n - 1 = k
        BY <2>2, <3>2
      <4> QED
        BY <2>3, <3>2, <4>1
    <3> QED
      BY <3>1, <3>2
  <2>5. MergedUpTo(l, records, k + 1)
    BY <2>2, <2>4 DEF MergedUpTo
  <2> QED
    BY <2>5
<1>3. Len(records) \in Nat
  OBVIOUS
<1>4. \E m : MergedUpTo(m, records, Len(records))
  <2> HIDE DEF S
  <2>1. \A k \in Nat : k \in S
    BY <1>1, <1>2, EveryNatural
  <2> QED
    BY <1>3, <2>1 DEF S
<1> DEFINE c == CHOOSE m : MergedUpTo(m, records, Len(records))
<1>5. MergedUpTo(c, records, Len(records))
  BY <1>4
<1>6. Merged(records) = c[Len(records)]
  BY DEF Merged, MergedUpTo
<1> QED
  BY <1>5, <1>6

(* Merging keeps to what a list by name promises.                          *)
Newest(merged, records, n) ==
  /\ merged \in Seq(Record)
  /\ \A i \in 1..n : \E j \in DOMAIN merged :
       merged[j].name = records[i].name /\ merged[j].time >= records[i].time
  /\ \A i, j \in DOMAIN merged : merged[i].name = merged[j].name => i = j
  /\ \A j \in DOMAIN merged : \E i \in 1..n : merged[j] = records[i]

LEMMA MergeKeepsNewest ==
  ASSUME NEW records \in Seq(Record), NEW n \in Nat, n + 1 <= Len(records),
         NEW m, Newest(m, records, n)
  PROVE  Newest(Merge(m, records[n + 1]), records, n + 1)
<1> DEFINE record == records[n + 1]
<1>1. /\ record \in Record /\ m \in Seq(Record)
      /\ \A i \in 1..(n + 1) : i \in 1..n \/ i = n + 1
      /\ \A i \in 1..n : i \in 1..(n + 1) /\ records[i] \in Record
      /\ n + 1 \in 1..(n + 1)
  BY DEF Newest
<1>2. \A u \in Record : u.time \in 1..MaxTime /\ u.name \in Name
  BY DEF Record
<1>3. PICK l : l = Merge(m, record)
  OBVIOUS
<1>4. \A j \in DOMAIN m : \E i \in 1..(n + 1) : m[j] = records[i]
  <2>1. \A j \in DOMAIN m : \E i \in 1..n : m[j] = records[i]
    BY DEF Newest
  <2> QED
    BY <1>1, <2>1
<1>5. \E i \in 1..(n + 1) : record = records[i]
  BY <1>1
<1>6. CASE \E j \in DOMAIN m : m[j].name = record.name
  <2>1. PICK k \in DOMAIN m : m[k].name = record.name
    BY <1>6
  <2>2. l = [j \in DOMAIN m |-> IF m[j].name = record.name /\ record.time > m[j].time
                                  THEN record ELSE m[j]]
    BY <1>3, <1>6 DEF Merge
  <2>3. \A j \in DOMAIN m : m[j].name = record.name => j = k
    BY <2>1 DEF Newest
  <2>4. l \in Seq(Record) /\ DOMAIN l = DOMAIN m
    <3>1. \A j \in DOMAIN m : l[j] \in Record
      BY <1>1, <2>2
    <3>2. DOMAIN m = 1..Len(m) /\ Len(m) \in Nat
      BY <1>1
    <3> QED
      BY <2>2, <3>1, <3>2
  <2>5. /\ l[k] \in {record, m[k]} /\ l[k].name = record.name
        /\ l[k].time >= record.time /\ l[k].time >= m[k].time
        /\ \A j \in DOMAIN m : j # k => l[j] = m[j]
    <3>1. m[k] \in Record
      BY <1>1, <2>1
    <3>2. m[k].time \in Nat /\ record.time \in Nat
      BY <1>1, <1>2, <3>1
    <3> QED
      BY <2>1, <2>2, <2>3, <3>2
  <2>6. \A j \in DOMAIN m : l[j].name = m[j].name
    BY <2>1, <2>5
  <2>7. ASSUME NEW i \in 1..(n + 1)
        PROVE  \E j \in DOMAIN l : l[j].name = records[i].name /\ l[j].time >= records[i].time
    <3>1. CASE i = n + 1
      BY <2>1, <2>4, <2>5, <3>1
    <3>2. CASE i \in 1..n
      <4>1. PICK j \in DOMAIN m : m[j].name = records[i].name /\ m[j].time >= records[i].time
        BY <3>2 DEF Newest
      <4>2. l[j].time >= m[j].time
        <5>1. CASE j = k
          BY <2>5, <5>1
        <5>2. CASE j # k
          <6>1. l[j] = m[j] /\ m[j] \in Record
            BY <1>1, <2>5, <5>2
          <6> QED
            BY <1>2, <6>1
        <5> QED
          BY <5>1, <5>2
      <4>3. l[j].time \in Nat /\ m[j].time \in Nat /\ records[i].time \in Nat
        <5>1. l[j] \in Record /\ m[j] \in Record /\ records[i] \in Record
          BY <1>1, <2>4, <3>2
        <5> QED
          BY <1>2, <5>1
      <4>4. l[j].time >= records[i].time
        BY <4>1, <4>2, <4>3
      <4> QED
        BY <2>4, <2>6, <4>1, <4>4
    <3> QED
      BY <1>1, <3>1, <3>2
  <2>8. \A i, j \in DOMAIN l : l[i].name = l[j].name => i = j
    BY <2>4, <2>6 DEF Newest
  <2>9. \A j \in DOMAIN l : \E i \in 1..(n + 1) : l[j] = records[i]
    BY <1>4, <1>5, <2>4, <2>5
  <2> QED
    BY <1>3, <2>4, <2>7, <2>8, <2>9 DEF Newest
<1>7. CASE \A j \in DOMAIN m : m[j].name # record.name
  <2>1. l = Append(m, record)
    BY <1>3, <1>7 DEF Merge
  <2>2. /\ l \in Seq(Record) /\ DOMAIN l = 1..(Len(m) + 1) /\ DOMAIN m = 1..Len(m)
        /\ Len(m) \in Nat /\ l[Len(m) + 1] = record
        /\ \A j \in DOMAIN m : l[j] = m[j]
    BY <1>1, <2>1
  <2>3. \A j \in DOMAIN l : j \in DOMAIN m \/ j = Len(m) + 1
    BY <2>2
  <2>4. \A j \in DOMAIN m : j \in DOMAIN l
    BY <2>2
  <2>5. ASSUME NEW i \in 1..(n + 1)
        PROVE  \E j \in DOMAIN l : l[j].name = records[i].name /\ l[j].time >= records[i].time
    <3>1. CASE i = n + 1
      BY <1>1, <1>2, <2>2, <3>1
    <3>2. CASE i \in 1..n
      BY <2>2, <2>4, <3>2 DEF Newest
    <3> QED
      BY <1>1, <3>1, <3>2
  <2>6. \A i, j \in DOMAIN l : l[i].name = l[j].name => i = j
    BY <1>7, <2>2, <2>3 DEF Newest
  <2>7. \A j \in DOMAIN l : \E i \in 1..(n + 1) : l[j] = records[i]
    BY <1>4, <1>5, <2>2, <2>3
  <2> QED
    BY <1>3, <2>2, <2>5, <2>6, <2>7 DEF Newest
<1> QED
  BY <1>6, <1>7

LEMMA MergedIsNewest ==
  ASSUME NEW records \in Seq(Record)
  PROVE  Newest(Merged(records), records, Len(records))
<1>1. PICK m : /\ MergedUpTo(m, records, Len(records))
               /\ Merged(records) = m[Len(records)]
  BY MergedIs
<1> DEFINE S == {n \in Nat : n <= Len(records) => Newest(m[n], records, n)}
<1>2. Len(records) \in Nat
  OBVIOUS
<1>3. 0 \in S
  <2>1. m[0] = <<>>
    BY <1>1, <1>2 DEF MergedUpTo
  <2>2. Newest(<<>>, records, 0)
    BY DEF Newest
  <2> QED
    BY <2>1, <2>2
<1>4. ASSUME NEW n \in Nat, n \in S PROVE n + 1 \in S
  <2>1. SUFFICES ASSUME n + 1 <= Len(records) PROVE Newest(m[n + 1], records, n + 1)
    BY <1>4
  <2>2. Newest(m[n], records, n)
    BY <1>2, <1>4, <2>1
  <2>3. m[n + 1] = Merge(m[n], records[n + 1])
    BY <1>1, <1>2, <2>1 DEF MergedUpTo
  <2> QED
    BY <2>1, <2>2, <2>3, MergeKeepsNewest
<1>5. Len(records) \in S
  <2> HIDE DEF S
  <2> QED
    BY <1>2, <1>3, <1>4, EveryNatural
<1> QED
  BY <1>1, <1>5

-----------------------------------------------------------------------------
(* Putting sequences one behind the other keeps their elements' type.      *)
FlatUpTo(m, seqs, k) ==
  m = [i \in 1..k |-> IF i = 1 THEN seqs[i] ELSE m[i - 1] \o seqs[i]]

LEMMA FlattenIs ==
  ASSUME NEW S, NEW seqs \in Seq(Seq(S)), Len(seqs) # 0
  PROVE  \E m : FlatUpTo(m, seqs, Len(seqs)) /\ FlattenSeq(seqs) = m[Len(seqs)]
<1> DEFINE P == {k \in Nat : \E m : FlatUpTo(m, seqs, k)}
<1>1. 0 \in P
  <2>1. FlatUpTo([i \in 1..0 |-> <<>>], seqs, 0)
    BY DEF FlatUpTo
  <2> QED
    BY <2>1
<1>2. ASSUME NEW k \in Nat, k \in P PROVE k + 1 \in P
  <2>1. PICK m : FlatUpTo(m, seqs, k)
    BY <1>2
  <2>2. PICK l : l = [i \in 1..(k + 1) |->
                        IF i <= k THEN m[i]
                                  ELSE IF i = 1 THEN seqs[i] ELSE m[k] \o seqs[i]]
    OBVIOUS
  <2>3. \A i \in 1..k : l[i] = m[i]
    BY <2>2
  <2>4. ASSUME NEW i \in 1..(k + 1)
        PROVE  l[i] = IF i = 1 THEN seqs[i] ELSE l[i - 1] \o seqs[i]
    <3>1. CASE i <= k
      <4>1. i \in 1..k /\ (i # 1 => i - 1 \in 1..k)
        BY <3>1
      <4>2. m[i] = IF i = 1 THEN seqs[i] ELSE m[i - 1] \o seqs[i]
        BY <2>1, <4>1 DEF FlatUpTo
      <4> QED
        BY <2>3, <4>1, <4>2
    <3>2. CASE i = k + 1
      <4>1. i # 1 => i - 1 = k /\ k \in 1..k
        BY <3>2
      <4>2. l[i] = IF i = 1 THEN seqs[i] ELSE m[k] \o seqs[i]
        BY <2>2, <3>2
      <4> QED
        BY <2>3, <4>1, <4>2
    <3> QED
      BY <3>1, <3>2
  <2>5. FlatUpTo(l, seqs, k + 1)
    <3>1. l = [i \in 1..(k + 1) |-> l[i]]
      BY <2>2
    <3> QED
      BY <2>4, <3>1 DEF FlatUpTo
  <2> QED
    BY <2>5
<1>3. Len(seqs) \in Nat
  OBVIOUS
<1>4. \E m : FlatUpTo(m, seqs, Len(seqs))
  <2> HIDE DEF P
  <2>1. \A k \in Nat : k \in P
    BY <1>1, <1>2, EveryNatural
  <2> QED
    BY <1>3, <2>1 DEF P
<1> DEFINE c == CHOOSE m : FlatUpTo(m, seqs, Len(seqs))
<1>5. FlatUpTo(c, seqs, Len(seqs))
  BY <1>4
<1>6. FlattenSeq(seqs) = c[Len(seqs)]
  BY DEF FlattenSeq, FlatUpTo
<1> QED
  BY <1>5, <1>6

LEMMA FlattenType ==
  ASSUME NEW S, NEW seqs \in Seq(Seq(S))
  PROVE  FlattenSeq(seqs) \in Seq(S)
<1>1. CASE Len(seqs) = 0
  <2>1. seqs = <<>> /\ FlattenSeq(seqs) = seqs
    BY <1>1 DEF FlattenSeq
  <2>2. <<>> \in Seq(S)
    OBVIOUS
  <2>3. FlattenSeq(seqs) = <<>>
    BY <2>1
  <2> QED
    BY <2>2, <2>3
<1>2. CASE Len(seqs) # 0
  <2>1. PICK m : FlatUpTo(m, seqs, Len(seqs)) /\ FlattenSeq(seqs) = m[Len(seqs)]
    BY <1>2, FlattenIs
  <2> DEFINE P == {k \in Nat : k \in 1..Len(seqs) => m[k] \in Seq(S)}
  <2>2. 0 \in P
    OBVIOUS
  <2>3. ASSUME NEW k \in Nat, k \in P PROVE k + 1 \in P
    <3>1. SUFFICES ASSUME k + 1 \in 1..Len(seqs) PROVE m[k + 1] \in Seq(S)
      BY <2>3
    <3>2. seqs[k + 1] \in Seq(S)
      BY <3>1
    <3>3. CASE k = 0
      BY <2>1, <3>1, <3>2, <3>3 DEF FlatUpTo
    <3>4. CASE k # 0
      <4>1. m[k + 1] = m[k] \o seqs[k + 1]
        <5>1. k + 1 # 1 /\ (k + 1) - 1 = k
          BY <3>4
        <5>2. m[k + 1] = IF k + 1 = 1 THEN seqs[k + 1] ELSE m[(k + 1) - 1] \o seqs[k + 1]
          BY <2>1, <3>1 DEF FlatUpTo
        <5> QED
          BY <5>1, <5>2
      <4>2. m[k] \in Seq(S)
        BY <2>3, <3>1, <3>4
      <4> QED
        BY <3>2, <4>1, <4>2
    <3> QED
      BY <3>3, <3>4
  <2>4. Len(seqs) \in Nat /\ Len(seqs) \in 1..Len(seqs)
    BY <1>2
  <2>5. Len(seqs) \in P
    <3> HIDE DEF P
    <3>1. \A k \in Nat : k \in P
      BY <2>2, <2>3, EveryNatural
    <3> QED
      BY <2>4, <3>1
  <2> QED
    BY <2>1, <2>4, <2>5
<1> QED
  BY <1>1, <1>2

(* What is read of a user's bikes is a sequence of records.                *)
LEMMA UserDataType == UserData \subseteq Seq(Record)
<1>1. ASSUME NEW b \in Bike PROVE OfBike(b) \in Seq(Record)
  <2>1. /\ b.gps > 0 => [name |-> b.name, time |-> b.gps] \in Record
        /\ b.base > 0 => [name |-> b.name, time |-> b.base] \in Record
    BY HandlersAssumption DEF Bike, Record
  <2>2. PICK g, h : /\ g = IF b.gps > 0 THEN <<[name |-> b.name, time |-> b.gps]>> ELSE <<>>
                    /\ h = IF b.base > 0 THEN <<[name |-> b.name, time |-> b.base]>> ELSE <<>>
    OBVIOUS
  <2>3. g \in Seq(Record) /\ h \in Seq(Record)
    BY <2>1, <2>2
  <2>4. OfBike(b) = g \o h
    BY <2>2 DEF OfBike
  <2> QED
    BY <2>3, <2>4
<1>2. ASSUME NEW n \in 1..MaxBikes, NEW bikes \in [1..n -> Bike]
      PROVE  FlattenSeq([i \in DOMAIN bikes |-> OfBike(bikes[i])]) \in Seq(Record)
  <2>1. [i \in DOMAIN bikes |-> OfBike(bikes[i])] \in Seq(Seq(Record))
    <3>1. DOMAIN bikes = 1..n /\ n \in Nat
      BY HandlersAssumption
    <3>2. \A i \in 1..n : OfBike(bikes[i]) \in Seq(Record)
      BY <1>1
    <3>3. [i \in 1..n |-> OfBike(bikes[i])] \in [1..n -> Seq(Record)]
      BY <3>2
    <3> QED
      BY <3>1, <3>3
  <2> QED
    BY <2>1, FlattenType
<1> QED
  BY <1>2 DEF UserData

-----------------------------------------------------------------------------
(* The types, and the lists by name                                        *)

ListTypes ==
  /\ data \in [Request -> Seq(Record)]
  /\ list \in [Request -> Seq(Record)]

ListsInv == RepliesInv /\ ListTypes /\ ListShowsNewest

(* What a step does to the lists: the handler of r reads the records, or   *)
(* has sent the list, or it is about another thing.                        *)
ListsSent(r) ==
  /\ pc' = [pc EXCEPT ![r] = "close"]
  /\ data' = [data EXCEPT ![r] = <<>>] /\ list' = [list EXCEPT ![r] = <<>>]
  /\ UNCHANGED kind

ListsLeft ==
  /\ UNCHANGED <<data, list>>
  /\ \A q \in Request : pc'[q] = "list" => pc[q] = "list" /\ kind'[q] = kind[q]

LEMMA ListSorts ==
  ASSUME RepliesInv, NEW r \in Request, Handling(r)
  PROVE  ReadDevices(r) \/ ListsSent(r) \/ ListsLeft
<1>1. pc \in [Request -> {"none", "idle", "done"} \cup Before \cup After]
  BY DEF RepliesInv, SocketInv, SocketTypes
<1> USE <1>1 DEF At, ListsLeft
<1>2. CASE SendList(r)
  BY <1>2 DEF SendList, ListsSent
<1>3. CASE Echo(r) \/ Success(r) \/ Ignore(r) \/ Code(r) \/ FindsNothing(r) \/ NotBound(r)
  BY <1>3 DEF Echo, Success, Ignore, Code, FindsNothing, NotBound
<1>4. CASE SendPage(r) \/ SendNothing(r) \/ AskOpenID(r) \/ NoOpenID(r)
  BY <1>4 DEF SendPage, SendNothing, AskOpenID, NoOpenID
<1>5. CASE OpenID(r) \/ OpenIDNoPage(r) \/ AnswerEnds(r)
  BY <1>5 DEF OpenID, OpenIDNoPage, AnswerEnds
<1>6. CASE Close(r) \/ CloseAgain(r) \/ Finish(r)
  BY <1>6 DEF Close, CloseAgain, Finish
<1> QED
  BY <1>2, <1>3, <1>4, <1>5, <1>6 DEF Handling

(* The list of one request, as ListShowsNewest has it.                     *)
ShowsNewest(l, d) ==
  /\ \A i \in DOMAIN d : \E j \in DOMAIN l : l[j].name = d[i].name /\ l[j].time >= d[i].time
  /\ \A i, j \in DOMAIN l : l[i].name = l[j].name => i = j
  /\ \A j \in DOMAIN l : l[j] \in Range(d)

LEMMA MergedShowsNewest ==
  ASSUME NEW d \in Seq(Record)
  PROVE  ShowsNewest(Merged(d), d)
<1>1. Newest(Merged(d), d, Len(d)) /\ DOMAIN d = 1..Len(d)
  BY MergedIsNewest
<1>2. \A i \in DOMAIN d : d[i] \in Range(d)
  BY DEF Range
<1> QED
  BY <1>1, <1>2 DEF Newest, ShowsNewest

LEMMA ReadsKeepsLists ==
  ASSUME ListsInv, NEW r \in Request, ReadDevices(r)
  PROVE  ListTypes' /\ ListShowsNewest'
<1>1. PICK d \in UserData :
        /\ data' = [data EXCEPT ![r] = d]
        /\ list' = [list EXCEPT ![r] = IF kind[r] = "names" THEN Merged(d) ELSE d]
  BY DEF ReadDevices
<1>2. d \in Seq(Record) /\ Merged(d) \in Seq(Record) /\ ShowsNewest(Merged(d), d)
  BY UserDataType, MergedShowsNewest, MergedIsNewest DEF Newest
<1>3. ListTypes'
  BY <1>1, <1>2 DEF ListsInv, ListTypes
<1>4. ASSUME NEW q \in Request, pc'[q] = "list", kind'[q] = "names"
      PROVE  ShowsNewest(list'[q], data'[q])
  <2>1. kind' = kind /\ (q # r => pc'[q] = pc[q])
    BY DEF ReadDevices, At, ListsInv, RepliesInv, SocketInv, SocketTypes
  <2>2. CASE q = r
    <3>1. list'[q] = Merged(d) /\ data'[q] = d
      BY <1>1, <1>4, <2>1, <2>2 DEF ListsInv, ListTypes
    <3> QED
      BY <1>2, <3>1
  <2>3. CASE q # r
    <3>1. list'[q] = list[q] /\ data'[q] = data[q]
      BY <1>1, <2>3 DEF ListsInv, ListTypes
    <3>2. ShowsNewest(list[q], data[q])
      BY <1>4, <2>1, <2>3 DEF ListsInv, ListShowsNewest, ShowsNewest
    <3> QED
      BY <3>1, <3>2
  <2> QED
    BY <2>2, <2>3
<1> QED
  BY <1>3, <1>4 DEF ListShowsNewest, ShowsNewest

LEMMA SentKeepsLists ==
  ASSUME ListsInv, NEW r \in Request, ListsSent(r)
  PROVE  ListTypes' /\ ListShowsNewest'
<1>1. <<>> \in Seq(Record)
  OBVIOUS
<1>2. ListTypes'
  BY <1>1 DEF ListsSent, ListsInv, ListTypes
<1>3. ASSUME NEW q \in Request, pc'[q] = "list"
      PROVE  pc[q] = "list" /\ list'[q] = list[q] /\ data'[q] = data[q] /\ kind'[q] = kind[q]
  BY <1>3 DEF ListsSent, ListsInv, ListTypes, RepliesInv, SocketInv, SocketTypes
<1> QED
  BY <1>2, <1>3 DEF ListsInv, ListShowsNewest

LEMMA LeftKeepsLists ==
  ASSUME ListsInv, ListsLeft
  PROVE  ListTypes' /\ ListShowsNewest'
  BY DEF ListsInv, ListsLeft, ListTypes, ListShowsNewest

LEMMA ListsInit == Init => ListsInv
<1> SUFFICES ASSUME Init PROVE ListsInv
  OBVIOUS
<1>1. <<>> \in Seq(Record)
  OBVIOUS
<1>2. ListTypes /\ ListShowsNewest
  BY <1>1 DEF Init, ListTypes, ListShowsNewest
<1> QED
  BY <1>2, RepliesInit DEF ListsInv

LEMMA ListsInductive == ListsInv /\ [Next]_vars => ListsInv'
<1> SUFFICES ASSUME ListsInv, [Next]_vars PROVE ListsInv'
  OBVIOUS
<1>1. RepliesInv /\ RepliesInv'
  BY RepliesInductive DEF ListsInv
<1>2. pc \in [Request -> {"none", "idle", "done"} \cup Before \cup After]
  BY <1>1 DEF RepliesInv, SocketInv, SocketTypes
<1>3. ListTypes' /\ ListShowsNewest'
  <2>1. CASE \E r \in Request : Handling(r)
    BY <1>1, <2>1, ListSorts, ReadsKeepsLists, SentKeepsLists, LeftKeepsLists
  <2>2. CASE SocketStep
    BY <2>2, LeftKeepsLists, SocketSteps DEF ListsLeft
  <2>3. ASSUME NEW r \in Request,
               Send(r) \/ \E h \in Handle : Arrive(r, h)
        PROVE  ListsLeft
    <3>1. PICK there \in {"idle", "handle"} : pc' = [pc EXCEPT ![r] = there]
      BY <2>3 DEF Send, Arrive, At
    <3>2. \A q \in Request : pc'[q] = "list" => q # r /\ pc[q] = "list"
      BY <1>2, <3>1
    <3>3. kind \in [Request -> Kind \cup {None}]
      BY <1>1 DEF RepliesInv, ReplyTypes
    <3>4. (\A q \in Request : q # r => kind'[q] = kind[q]) /\ UNCHANGED <<data, list>>
      BY <2>3, <3>3 DEF Send, Arrive
    <3> QED
      BY <3>2, <3>4 DEF ListsLeft
  <2>4. CASE UNCHANGED vars
    BY <2>4, LeftKeepsLists DEF vars, ListsLeft
  <2> QED
    BY <2>1, <2>2, <2>3, <2>4, LeftKeepsLists DEF Next, SocketStep
<1> QED
  BY <1>1, <1>3 DEF ListsInv

LEMMA ListsAlways == Spec => []ListsInv
  BY ListsInit, ListsInductive, PTL DEF Spec

(* The variables keep their types: among them, a list has records only and *)
(* a handle that is open is the one its owner has (TestTask.cpp:706-780).  *)
THEOREM TypeCorrect == Spec => []TypeOK
<1>1. ListsInv => TypeOK
  BY DEF ListsInv, ListTypes, RepliesInv, ReplyTypes, SocketInv, SocketTypes, WorkerTypes,
         HandlesFit, Before, After, Message, TypeOK
<1> QED
  BY <1>1, ListsAlways, PTL

(* A list by name that is about to be sent has one entry for each bikename *)
(* of which there is a record, and that is a newest one, whatever the      *)
(* records and their order (TestTask.cpp:1900-1946).                       *)
THEOREM ListShowsNewestAlways == Spec => []ListShowsNewest
<1>1. ListsInv => ListShowsNewest
  BY DEF ListsInv
<1> QED
  BY <1>1, ListsAlways, PTL
=============================================================================
