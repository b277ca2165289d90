------------------------------ MODULE Handlers ------------------------------
(***************************************************************************)
(* What becomes of a request in the save threads: JieXiWeiXin finds the    *)
(* handler by the host and the content, the handler replies on the socket  *)
(* or does not, and the socket is closed, by the handler, by               *)
(* WX_GetMsgContent and by JieXiWeiXin, and in the end by the IOCP worker  *)
(* that finds it closed, each without a look at who has closed it before.  *)
(* The system gives a handle that is closed to the next connection; a      *)
(* handle, not a connection, is what the handlers and the workers have.    *)
(*                                                                         *)
(* Connections has the workers step by step; here there are as many as     *)
(* there are completions, and what matters of each is which context it has *)
(* and what it is about to do with the handle in it.                       *)
(*                                                                         *)
(* What the handlers do in the database is in Accounts; here a statement   *)
(* that matters for the reply succeeds or fails.                           *)
(***************************************************************************)
EXTENDS Naturals, Sequences, FiniteSets, SequencesExt

CONSTANTS
  Request,     \* requests, each on a connection of its own
  Idle,        \* those whose client connects and sends nothing
  Kinds,       \* bound: the kinds of requests that come beside others
  Handle,      \* socket handles
  Name,        \* bikename
  MaxBikes,    \* bound on the bikes of a user
  MaxTime,     \* bound on the times of records
  MaxPieces,   \* bound on the pieces of an answer of the WeChat server
  None

ASSUME HandlersAssumption ==
  /\ MaxBikes \in Nat /\ MaxTime \in Nat /\ MaxPieces \in Nat
  /\ None \notin Request \cup Handle
  /\ Idle \subseteq Request

(* To the host of the messages: echostr, a text (or an image, a voice, a   *)
(* click of an unknown key), a menu entry that leads to a page and what    *)
(* else of there is not answered, a message of another type; the menu      *)
(* entries for a code, for the list of devices, and for the three lists by *)
(* name.  To the other hosts: a page, a form, an order for a device, and   *)
(* what nobody handles.                                                    *)
Messages == {"text", "view", "other", "code", "devices", "names"}
Kind == Messages \cup {"echo", "page", "form", "order", "unknown"}

(* What the client gets; "failed" is wxshibai.html, "done" and "refused"   *)
(* the page that answers an order.                                         *)
What == {"echo", "text", "success", "code", "notbound", "list", "page",
         "failed", "done", "refused"}

VARIABLES
  pc,       \* where the thread of each request is
  kind,     \* what the request is
  sock,     \* its handle
  owner,    \* the request whose connection each handle stands for, or None
  got,      \* the replies sent on each connection: from whom, what
  cut,      \* requests whose connection was closed by the handler or the
            \* worker of another, or by closeAllClient
  left,     \* requests whose client has closed or broken the connection
  pend,     \* number of receives pending on each connection
  again,    \* completions of each context, after which a worker posts again
  closing,  \* completions of each context, after which a worker closes it
  deleted,  \* requests whose IOCPContextKey has been deleted
  data,     \* the records of the user's bikes, once read for a list
  list,     \* the list that is to be sent
  silent,   \* requests that got no reply for want of something
  stored,   \* orders that are in the table
  pieces    \* pieces without an openid, each told to the client

workerVars == <<pend, again, closing, deleted>>

vars == <<pc, kind, sock, owner, got, cut, left, workerVars, data, list, silent, stored, pieces>>

Init ==
  /\ pc = [r \in Request |-> "none"]
  /\ kind = [r \in Request |-> None] /\ sock = [r \in Request |-> None]
  /\ owner = [h \in Handle |-> None]
  /\ got = [r \in Request |-> <<>>]
  /\ cut = {} /\ left = {} /\ silent = {} /\ stored = {}
  /\ pend = [r \in Request |-> 0] /\ again = [r \in Request |-> 0]
  /\ closing = [r \in Request |-> 0] /\ deleted = {}
  /\ data = [r \in Request |-> <<>>] /\ list = [r \in Request |-> <<>>]
  /\ pieces = [r \in Request |-> 0]

At(r, here, there) == pc[r] = here /\ pc' = [pc EXCEPT ![r] = there]

-----------------------------------------------------------------------------
(* The handles.                                                            *)

(* send on the handle reaches whoever has it.                              *)
Goes(r) == owner[sock[r]] # None

Reply(r, what) ==
  got' = IF Goes(r) THEN [got EXCEPT ![owner[sock[r]]] = Append(@, [from |-> r, what |-> what])]
                    ELSE got

(* closesocket(h), by the handler or the worker of r: the receives pending *)
(* on the connection are aborted.                                          *)
CloseHandle(h, r) ==
  /\ owner' = [owner EXCEPT ![h] = None]
  /\ cut'   = cut \cup ({owner[h]} \ {r, None})
  /\ again' = [q \in Request |-> again[q] + IF q = owner[h] THEN pend[q] ELSE 0]
  /\ pend'  = [q \in Request |-> IF q = owner[h] THEN 0 ELSE pend[q]]

CloseSocket(r) == CloseHandle(sock[r], r) /\ UNCHANGED <<closing, deleted>>

-----------------------------------------------------------------------------
(* Connections.                                                            *)

(* accept, the context, and the first WSARecv.  (Of a kind not in Kinds a  *)
(* request is alone: nobody has come before, and nobody comes after it.)   *)
Arrive(r, h) ==
  /\ At(r, "none", "idle")
  /\ \A q \in Request : kind[q] \in Kinds \cup {None}
  /\ owner[h] = None
  /\ owner' = [owner EXCEPT ![h] = r]
  /\ sock'  = [sock EXCEPT ![r] = h]
  /\ pend'  = [pend EXCEPT ![r] = 1]
  /\ UNCHANGED <<kind, got, cut, left, again, closing, deleted, data, list, silent, stored,
                 pieces>>

(* The request comes, and the worker hands it on.                          *)
Send(r) ==
  /\ r \notin Idle \cup left
  /\ At(r, "idle", "handle")
  /\ owner[sock[r]] = r /\ pend[r] > 0
  /\ pend'  = [pend EXCEPT ![r] = @ - 1]
  /\ again' = [again EXCEPT ![r] = @ + 1]
  /\ \E k \in Kind :
       /\ k \in Kinds \/ \A q \in Request \ {r} : pc[q] = "none"
       /\ kind' = [kind EXCEPT ![r] = k]
  /\ UNCHANGED <<sock, owner, got, cut, left, closing, deleted, data, list, silent, stored,
                 pieces>>

(* The client closes the connection or it breaks, whether the request has  *)
(* been answered or not: the receives complete, with TRUE or with FALSE.   *)
Leave(r) ==
  /\ pc[r] # "none" /\ owner[sock[r]] = r /\ r \notin left
  /\ left' = left \cup {r}
  /\ pend' = [pend EXCEPT ![r] = 0]
  /\ \/ closing' = [closing EXCEPT ![r] = @ + pend[r]] /\ UNCHANGED again
     \/ again' = [again EXCEPT ![r] = @ + pend[r]] /\ UNCHANGED closing
  /\ UNCHANGED <<pc, kind, sock, owner, got, cut, deleted, data, list, silent, stored, pieces>>

(* clientSocket of the context of r; of one deleted, whatever its memory   *)
(* holds by now.                                                           *)
HandleOf(r) == IF r \in deleted THEN Handle ELSE {sock[r]}

(* Mutant: WSA_IO_PENDING is taken for an error.                           *)
Post_PendingIsError(r) ==
  /\ again[r] > 0
  /\ again' = [again EXCEPT ![r] = @ - 1]
  /\ closing' = [closing EXCEPT ![r] = @ + 1]
  /\ UNCHANGED <<pc, kind, sock, owner, got, cut, left, pend, deleted, data, list, silent,
                 stored, pieces>>

(* A worker posts the next WSARecv, on whatever connection the handle now  *)
(* stands for.  Where the client has left it completes at once or fails.   *)
Post(r) ==
  /\ again[r] > 0
  /\ again' = [again EXCEPT ![r] = @ - 1]
  /\ \E h \in HandleOf(r) :
       \/ /\ owner[h] \notin left \cup {None}
          /\ pend' = [pend EXCEPT ![owner[h]] = @ + 1] /\ UNCHANGED closing
       \/ /\ owner[h] \in left
          /\ closing' = [closing EXCEPT ![owner[h]] = @ + 1] /\ UNCHANGED pend
       \/ /\ owner[h] \in left \cup {None}
          /\ closing' = [closing EXCEPT ![r] = @ + 1] /\ UNCHANGED pend
  /\ UNCHANGED <<pc, kind, sock, owner, got, cut, left, deleted, data, list, silent, stored,
                 pieces>>

(* A worker closes clientSocket of the context, and deletes the context.   *)
(* (m_setIOCPKEY is not empty then: WorkersStay of Connections.)           *)
WorkerCloses(r) ==
  /\ closing[r] > 0
  /\ closing' = [closing EXCEPT ![r] = @ - 1]
  /\ \E h \in HandleOf(r) : CloseHandle(h, r)
  /\ deleted' = deleted \cup {r}
  /\ UNCHANGED <<pc, kind, sock, got, left, data, list, silent, stored, pieces>>

(* accept fails, and closeAllClient, when the workers have ended, closes   *)
(* the completion port and every context that is left.                     *)
CloseAll ==
  LET live == {r \in Request \ deleted : pc[r] # "none"} IN
  /\ owner'   = [h \in Handle |-> IF \E r \in live : sock[r] = h THEN None ELSE owner[h]]
  /\ cut'     = cut \cup {q \in Request : \E r \in live : owner[sock[r]] = q}
  /\ deleted' = deleted \cup live
  /\ pend'    = [r \in Request |-> 0]
  /\ again'   = [r \in Request |-> 0]
  /\ closing' = [r \in Request |-> 0]
  /\ UNCHANGED <<pc, kind, sock, got, left, data, list, silent, stored, pieces>>

Unheard(r) == silent' = silent \cup {r}

-----------------------------------------------------------------------------
(* Messages (WX_GetMsgContent).                                            *)

(* echostr is sent back, and PassiveReplyMSG replies to a text; then each  *)
(* closes the socket.  Of an image or a voice there is no Content, and the *)
(* text of the reply is what MsgContent happens to hold.                   *)
Echo(r) ==
  /\ kind[r] \in {"echo", "text"}
  /\ At(r, "handle", "close")
  /\ Reply(r, kind[r])
  /\ UNCHANGED <<kind, sock, owner, cut, left, workerVars, data, list, silent, stored, pieces>>

(* "success"; the result of send is of no consequence.                     *)
Success(r) ==
  /\ kind[r] = "other"
  /\ At(r, "handle", "back")
  /\ Reply(r, "success")
  /\ UNCHANGED <<kind, sock, owner, cut, left, workerVars, data, list, silent, stored, pieces>>

Ignore(r) ==
  /\ kind[r] = "view"
  /\ At(r, "handle", "back")
  /\ Unheard(r)
  /\ UNCHANGED <<kind, sock, owner, got, cut, left, workerVars, data, list, stored, pieces>>

(* PassiveReponseForgetMSG, PassiveReponseUnbindMSG: the code is stored.   *)
Code(r) ==
  /\ kind[r] = "code"
  /\ At(r, "handle", "close")
  /\ Reply(r, "code")
  /\ UNCHANGED <<kind, sock, owner, cut, left, workerVars, data, list, silent, stored, pieces>>

(* A statement has failed, or there is no record of any bike.              *)
FindsNothing(r) ==
  /\ kind[r] \in {"code", "devices", "names"}
  /\ At(r, "handle", "back")
  /\ Unheard(r)
  /\ UNCHANGED <<kind, sock, owner, got, cut, left, workerVars, data, list, stored, pieces>>

(* Mutant: the caller goes on with an empty list.                          *)
NotBound_GoesOn(r) ==
  /\ kind[r] \in {"code", "devices", "names"}
  /\ At(r, "handle", "list")
  /\ Reply(r, "notbound")
  /\ UNCHANGED <<kind, sock, owner, cut, left, workerVars, data, list, silent, stored, pieces>>

(* WXGetDeviceData and WXGetUserBindData tell him who is not registered,   *)
(* or has no bike, and close the socket only when that cannot be sent.     *)
NotBound(r) ==
  /\ kind[r] \in {"code", "devices", "names"}
  /\ \/ Goes(r) /\ At(r, "handle", "back") /\ Reply(r, "notbound")
     \/ owner[sock[r]] \in left \cup {None} /\ At(r, "handle", "close") /\ UNCHANGED got
  /\ UNCHANGED <<kind, sock, owner, cut, left, workerVars, data, list, silent, stored, pieces>>

(* Mutant OfBike_NoTest: no look at the number of rows.                    *)
(*                                                                         *)
(* Of each bike the last record of card_data and of card_base_station_data *)
(* if there is one; a query that fails finds none.                         *)
Record == [name : Name, time : 1..MaxTime]

OfBike_NoTest(b) == <<[name |-> b.name, time |-> b.gps],
                      [name |-> b.name, time |-> b.base]>>

OfBike(b) == (IF b.gps > 0  THEN <<[name |-> b.name, time |-> b.gps]>>  ELSE <<>>) \o
             (IF b.base > 0 THEN <<[name |-> b.name, time |-> b.base]>> ELSE <<>>)

Bike == [name : Name, gps : 0..MaxTime, base : 0..MaxTime]

UserData == {FlattenSeq([i \in DOMAIN bikes |-> OfBike(bikes[i])]) :
               bikes \in UNION {[1..n -> Bike] : n \in 1..MaxBikes}} \ {<<>>}

(* Mutant: the record that comes later in the array is taken for newer.    *)
Merge_Later(merged, record) ==
  IF \E j \in DOMAIN merged : merged[j].name = record.name
    THEN [j \in DOMAIN merged |-> IF merged[j].name = record.name THEN record ELSE merged[j]]
    ELSE Append(merged, record)

(* In the lists by name a record takes the place of an older one of the    *)
(* same bikename (DateCompare), or is added.                               *)
Merge(merged, record) ==
  IF \E j \in DOMAIN merged : merged[j].name = record.name
    THEN [j \in DOMAIN merged |->
            IF merged[j].name = record.name /\ record.time > merged[j].time
              THEN record ELSE merged[j]]
    ELSE Append(merged, record)

(* The records are taken in the order of the array.                        *)
Merged(records) ==
  LET upto[n \in 0..Len(records)] ==
        IF n = 0 THEN <<>> ELSE Merge(upto[n - 1], records[n])
  IN  upto[Len(records)]

ReadDevices(r) ==
  /\ kind[r] \in {"devices", "names"}
  /\ At(r, "handle", "list")
  /\ \E d \in UserData :
       /\ data' = [data EXCEPT ![r] = d]
       /\ list' = [list EXCEPT ![r] =
                     IF kind[r] = "names" THEN Merged(d) ELSE d]
  /\ UNCHANGED <<kind, sock, owner, got, cut, left, workerVars, silent, stored, pieces>>

SendList(r) ==
  /\ At(r, "list", "close")
  /\ Reply(r, "list")
  /\ data' = [data EXCEPT ![r] = <<>>] /\ list' = [list EXCEPT ![r] = <<>>]
  /\ UNCHANGED <<kind, sock, owner, cut, left, workerVars, silent, stored, pieces>>

-----------------------------------------------------------------------------
(* Web pages (http_send_response, WX_PostDataHandle).                      *)

(* A page that was asked for, or that follows a form once its changes are  *)
(* made; without the file there is no reply.                               *)
SendPage(r) ==
  /\ kind[r] \in {"page", "form"}
  /\ At(r, "handle", "end")
  /\ Reply(r, "page")
  /\ UNCHANGED <<kind, sock, owner, cut, left, workerVars, data, list, silent, stored, pieces>>

(* No such file, a form that was refused, an order without its code or     *)
(* without a connection to the WeChat server, or no handler.               *)
SendNothing(r) ==
  /\ kind[r] \in {"page", "form", "order", "unknown"}
  /\ At(r, "handle", "end")
  /\ Unheard(r)
  /\ UNCHANGED <<kind, sock, owner, got, cut, left, workerVars, data, list, stored, pieces>>

(* WX_SetMotorLock, WX_SetDeviceOpen, WX_GetUserOpenID: the WeChat server  *)
(* is asked for the openid.                                                *)
AskOpenID(r) ==
  /\ kind[r] = "order"
  /\ At(r, "handle", "ask")
  /\ UNCHANGED <<kind, sock, owner, got, cut, left, workerVars, data, list, silent, stored, pieces>>

(* A piece of the answer that has no openid in it: wxshibai.html is sent,  *)
(* and recv is called again.                                               *)
NoOpenID(r) ==
  /\ At(r, "ask", "ask")
  /\ pieces[r] < MaxPieces
  /\ pieces' = [pieces EXCEPT ![r] = @ + 1]
  /\ Reply(r, "failed")
  /\ UNCHANGED <<kind, sock, owner, cut, left, workerVars, data, list, silent, stored>>

(* Mutant: the page says done whatever came of the statement.              *)
OpenID_Unchecked(r) ==
  /\ At(r, "ask", "end")
  /\ stored' \in {stored, stored \cup {r}}
  /\ Reply(r, "done")
  /\ UNCHANGED <<kind, sock, owner, cut, left, workerVars, data, list, silent, pieces>>

(* Mutant: there is a page for a success only.                             *)
OpenID_OnlyDone(r) ==
  /\ At(r, "ask", "end")
  /\ \/ stored' = stored \cup {r} /\ Reply(r, "done")
     \/ UNCHANGED <<stored, got>>
  /\ UNCHANGED <<kind, sock, owner, cut, left, workerVars, data, list, silent, pieces>>

(* The openid: the order is put in the table, and the page tells whether   *)
(* it was.                                                                 *)
OpenID(r) ==
  /\ At(r, "ask", "end")
  /\ \/ stored' = stored \cup {r} /\ Reply(r, "done")
     \/ UNCHANGED stored /\ Reply(r, "refused")
  /\ UNCHANGED <<kind, sock, owner, cut, left, workerVars, data, list, silent, pieces>>

(* The same without the file of the page.                                  *)
OpenIDNoPage(r) ==
  /\ At(r, "ask", "end")
  /\ stored' \in {stored, stored \cup {r}}
  /\ Unheard(r)
  /\ UNCHANGED <<kind, sock, owner, got, cut, left, workerVars, data, list, pieces>>

(* The answer ends without an openid, or with one of an odd length, or     *)
(* the order is neither to open nor to close.                              *)
AnswerEnds(r) ==
  /\ At(r, "ask", "end")
  /\ Unheard(r)
  /\ UNCHANGED <<kind, sock, owner, got, cut, left, workerVars, data, list, stored, pieces>>

-----------------------------------------------------------------------------
(* The handler of a message closes the socket, then WX_GetMsgContent, but  *)
(* not after echostr, and then, for every request, JieXiWeiXin.            *)

Close(r) ==
  /\ At(r, "close", IF kind[r] = "echo" THEN "end" ELSE "back")
  /\ CloseSocket(r)
  /\ UNCHANGED <<kind, sock, got, left, data, list, silent, stored, pieces>>

CloseAgain(r) ==
  /\ At(r, "back", "end")
  /\ CloseSocket(r)
  /\ UNCHANGED <<kind, sock, got, left, data, list, silent, stored, pieces>>

Finish(r) ==
  /\ At(r, "end", "done")
  /\ CloseSocket(r)
  /\ UNCHANGED <<kind, sock, got, left, data, list, silent, stored, pieces>>

Handling(r) ==
  \/ Echo(r) \/ Success(r) \/ Ignore(r) \/ Code(r) \/ FindsNothing(r) \/ NotBound(r)
  \/ ReadDevices(r) \/ SendList(r)
  \/ SendPage(r) \/ SendNothing(r)
  \/ AskOpenID(r) \/ NoOpenID(r) \/ OpenID(r) \/ OpenIDNoPage(r) \/ AnswerEnds(r)
  \/ Close(r) \/ CloseAgain(r) \/ Finish(r)

Next ==
  \/ \E r \in Request :
       \/ Handling(r) \/ Send(r) \/ Leave(r) \/ Post(r) \/ WorkerCloses(r)
       \/ \E h \in Handle : Arrive(r, h)
  \/ CloseAll

Spec == Init /\ [][Next]_vars

-----------------------------------------------------------------------------

TypeOK ==
  /\ pc \in [Request -> {"none", "idle", "handle", "list", "ask", "close", "back", "end", "done"}]
  /\ kind \in [Request -> Kind \cup {None}]
  /\ sock \in [Request -> Handle \cup {None}]
  /\ \A r \in Request : pc[r] = "none" <=> sock[r] = None
  /\ owner \in [Handle -> Request \cup {None}]
  /\ \A h \in Handle : owner[h] # None => sock[owner[h]] = h
  /\ got \in [Request -> Seq([from : Request, what : What])]
  /\ cut \subseteq Request /\ left \subseteq Request
  /\ pend \in [Request -> Nat] /\ again \in [Request -> Nat] /\ closing \in [Request -> Nat]
  /\ deleted \subseteq Request /\ silent \subseteq Request /\ stored \subseteq Request
  /\ data \in [Request -> Seq(Record)] /\ list \in [Request -> Seq(Record)]
  /\ pieces \in [Request -> 0..MaxPieces]

(* The replies a request has brought about, wherever they went.            *)
RepliesOf(r) ==
  UNION {{[to |-> q, at |-> i] : i \in {j \in DOMAIN got[q] : got[q][j].from = r}} :
           q \in Request}

(* No request is answered twice, except that every piece of the WeChat     *)
(* server's answer which has no openid is a reply of its own.              *)
AnsweredOnce ==
  \A r \in Request : Cardinality(RepliesOf(r)) <= 1 + pieces[r]

(* A reply is sent on the connection of another request only if the one it *)
(* was meant for had been closed before: because the client had left, by a *)
(* late closesocket of another request's handler or worker, or by          *)
(* closeAllClient; never by its own handler or worker too early.           *)
StrayedAfterClose ==
  \A q \in Request : \A i \in DOMAIN got[q] :
    got[q][i].from = q \/ got[q][i].from \in cut \cup left

(* A request that is over has been answered, unless something was wanting  *)
(* for the answer or the connection was closed before it.                  *)
ServedOrClosed ==
  \A r \in Request :
    pc[r] = "done" => got[r] # <<>> \/ r \in silent \cup cut \cup left

(* The page that answers an order is true when the WeChat server's answer  *)
(* came in one piece.  In two, the client is told that it failed first.    *)
PageIsTrue ==
  \A r \in Request : \A i \in DOMAIN got[r] :
    got[r][i].from = r /\ kind[r] = "order" /\ pieces[r] = 0 =>
      (got[r][i].what = "done" <=> r \in stored)

(* A list by name has an entry for every bikename of which there is a      *)
(* record, one only, and it is a newest record.                            *)
ListShowsNewest ==
  \A r \in Request : pc[r] = "list" /\ kind[r] = "names" =>
    /\ \A i \in DOMAIN data[r] : \E j \in DOMAIN list[r] :
         list[r][j].name = data[r][i].name /\ list[r][j].time >= data[r][i].time
    /\ \A i, j \in DOMAIN list[r] : list[r][i].name = list[r][j].name => i = j
    /\ \A j \in DOMAIN list[r] : list[r][j] \in Range(data[r])
=============================================================================
