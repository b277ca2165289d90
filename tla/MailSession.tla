---------------------------- MODULE MailSession ----------------------------
(***************************************************************************)
(* One mail by SMTP: Email_SMTP_send_simple builds a CSmtp on its stack,   *)
(* Send connects it and goes through the commands of command_list, and the *)
(* destructor quits.  The client sends a command, waits for the reply, and *)
(* throws when the reply is not the valid one, when none comes in time, or *)
(* when the connection fails; whoever catches it disconnects.              *)
(*                                                                         *)
(* A command is named by its place in the dialogue, a reply by the command *)
(* it answers and its code.  The server may refuse anything, answer late,  *)
(* in parts, or not at all.  TLS carries the same bytes and is left out,   *)
(* but for its failure and for the waits of its handshake.                 *)
(***************************************************************************)
EXTENDS Naturals, Sequences

CONSTANT NumBlocks     \* data blocks of a mail: the header and each line

ASSUME MailAssumption == NumBlocks \in Nat \ {0}

INIT == 1   \* the server's greeting
EHLO == 2
AUTH == 3   \* AUTH LOGIN, then the user, then the password
USER == 4
PASS == 5
MAIL == 6
RCPT == 7
DATA == 8
BLOCK == (DATA + 1)..(DATA + NumBlocks)
END  == DATA + NumBlocks + 1
QUIT == DATA + NumBlocks + 2
Command == INIT..QUIT

(* valid_reply_code; a block is not answered.                              *)
Valid(c) ==
  CASE c = INIT -> 220
    [] c \in {EHLO, MAIL, RCPT, END} -> 250
    [] c \in {AUTH, USER} -> 334
    [] c = PASS -> 235
    [] c = DATA -> 354
    [] c = QUIT -> 221
    [] OTHER -> 0

Refusals == {530, 554}
Replies  == [to : Command, code : {Valid(c) : c \in Command} \cup Refusals]

VARIABLES
  phase,      \* where the client is: a mail is not begun, or ... over, dead
  step,       \* the command it is at
  connected,  \* m_bConnected
  threw,      \* an exception has been caught, DisconnectRemoteServer called
  toServer,   \* commands on their way
  toClient,   \* replies on their way
  part,       \* a part of a reply, or of the handshake, has come
  server,     \* what the server is doing
  body,       \* the data it has read
  accepted    \* the data of the mails it has accepted

clientVars == <<phase, step, connected, threw>>
serverVars == <<part, server, body, accepted>>
vars == <<clientVars, toServer, toClient, serverVars>>

Init ==
  /\ phase = "idle" /\ step = INIT
  /\ connected = FALSE /\ threw = FALSE
  /\ toServer = <<>> /\ toClient = <<>>
  /\ part = FALSE
  /\ server = "new" /\ body = <<>> /\ accepted = {}

(* CSmtp mail; mail.Send().                                                *)
Start ==
  /\ phase = "idle"
  /\ phase' = "connect"
  /\ UNCHANGED <<step, connected, threw, toServer, toClient, serverVars>>

(* The session is done with, by a return or with the process.              *)
Clear ==
  /\ phase \in {"over", "dead"}
  /\ phase' = "idle" /\ step' = INIT
  /\ connected' = FALSE /\ threw' = FALSE
  /\ toServer' = <<>> /\ toClient' = <<>>
  /\ part' = FALSE
  /\ server' = "new" /\ body' = <<>> /\ accepted' = {}

-----------------------------------------------------------------------------
(* What the client does after a command.                                   *)

GoTo(p, c) == phase' = p /\ step' = c

(* DisconnectRemoteServer: QUIT if connected, m_bConnected cleared first;  *)
(* else the session is over.                                               *)
Disconnect(quit) ==
  /\ IF quit THEN GoTo("send", QUIT) ELSE GoTo("over", step)
  /\ connected' = FALSE

(* Mutant: m_bConnected is cleared after QUIT, so that the destructor quits *)
(* again while the exception of QUIT unwinds the stack.                    *)
Throw_FlagKept(code) ==
  IF step = QUIT
    THEN GoTo("dead", QUIT) /\ UNCHANGED <<connected, threw>>
    ELSE /\ Disconnect(connected /\ ~(step < MAIL /\ code = 530))
         /\ threw' = TRUE

(* An exception.  From SayQuit it leaves DisconnectRemoteServer before the *)
(* socket is closed; thrown in the destructor, it ends the process.        *)
Throw(code) ==
  IF step = QUIT
    THEN /\ GoTo(IF threw THEN "over" ELSE "dead", QUIT)
         /\ UNCHANGED <<connected, threw>>
    ELSE /\ Disconnect(connected /\ ~(step < MAIL /\ code = 530))
         /\ threw' = TRUE

NoReply == 0     \* RecvBuf after a failure: no code of interest

(* Connected, by connect or by select; then OpenSSLConnect.                *)
Connect ==
  /\ phase = "connect"
  /\ \/ GoTo("wait", INIT) /\ UNCHANGED <<connected, threw>>
     \/ step = INIT /\ Throw(NoReply)
  /\ UNCHANGED <<toServer, toClient, serverVars>>

(* connect succeeds at once: ConnectRemoteServer returns without TLS,      *)
(* greeting, hello and login.                                              *)
ConnectAtOnce ==
  /\ phase = "connect"
  /\ GoTo("send", MAIL)
  /\ UNCHANGED <<connected, threw, toServer, toClient, serverVars>>

(* The name is not found, or connect or select fails: the socket is closed *)
(* where that is noticed, and again by DisconnectRemoteServer.             *)
ConnectFails ==
  /\ phase = "connect"
  /\ GoTo("over", INIT) /\ threw' = TRUE
  /\ UNCHANGED <<connected, toServer, toClient, serverVars>>

(* Mutant: the failure to send a block is not noticed.                     *)
Send_Ignored ==
  /\ phase = "send"
  /\ toServer' \in {toServer, Append(toServer, step)}
  /\ IF step \in BLOCK THEN GoTo("send", step + 1) ELSE GoTo("wait", step)
  /\ UNCHANGED <<connected, threw, toClient, serverVars>>

(* SendData.  A command may have gone out although it fails.               *)
Send ==
  /\ phase = "send"
  /\ \/ /\ toServer' = Append(toServer, step)
        /\ IF step \in BLOCK THEN GoTo("send", step + 1) ELSE GoTo("wait", step)
        /\ UNCHANGED <<connected, threw>>
     \/ /\ toServer' \in {toServer, Append(toServer, step)}
        /\ Throw(NoReply)
  /\ UNCHANGED <<toClient, serverVars>>

(* Mutant: the reply to QUIT is followed by the next command, too.         *)
Proceed_PastQuit ==
  CASE step = EHLO -> \E c \in AUTH..MAIL : GoTo("send", c) /\ connected' = TRUE
                                             /\ UNCHANGED threw
    [] step = END  -> Disconnect(connected) /\ UNCHANGED threw
    [] step = PASS -> GoTo("send", MAIL) /\ UNCHANGED <<connected, threw>>
    [] OTHER -> GoTo("send", step + 1) /\ UNCHANGED <<connected, threw>>

(* The valid reply.  After the hello the server may ask for a login of     *)
(* one, two or three commands, or for none.  After the last line Send      *)
(* returns and the destructor disconnects.                                 *)
Proceed ==
  CASE step = EHLO -> \E c \in AUTH..MAIL : GoTo("send", c) /\ connected' = TRUE
                                             /\ UNCHANGED threw
    [] step = END  -> Disconnect(connected) /\ UNCHANGED threw
    [] step = QUIT -> Disconnect(FALSE) /\ UNCHANGED threw
    [] step = PASS -> GoTo("send", MAIL) /\ UNCHANGED <<connected, threw>>
    [] OTHER -> GoTo("send", step + 1) /\ UNCHANGED <<connected, threw>>

(* The loops of OpenSSLConnect, ReceiveData_SSL and ReceiveResponse: not    *)
(* the whole, or a line that is not the last one; the client waits anew,   *)
(* for the same time.                                                      *)
ReceivePart ==
  /\ phase \in {"connect", "wait"}
  /\ part /\ toClient = <<>>
  /\ part' = FALSE
  /\ UNCHANGED <<clientVars, toServer, toClient, server, body, accepted>>

(* ReceiveResponse: the first last line that comes is taken for the reply. *)
Receive ==
  /\ phase = "wait"
  /\ toClient # <<>>
  /\ toClient' = Tail(toClient)
  /\ LET code == Head(toClient).code IN
       IF code = Valid(step) THEN Proceed ELSE Throw(code)
  /\ UNCHANGED <<toServer, serverVars>>

(* Mutant: the command is sent again when its reply does not come in time. *)
NothingComes_Again ==
  /\ phase = "wait" /\ step # INIT
  /\ GoTo("send", step)
  /\ UNCHANGED <<connected, threw, toServer, toClient, serverVars>>

(* Mutant: recv without select before it, and without a timeout.           *)
NothingComes_Never == phase = "wait" /\ UNCHANGED vars

(* recv_timeout passes, from the last part on, or the connection is closed. *)
NothingComes ==
  /\ phase = "wait"
  /\ Throw(NoReply)
  /\ UNCHANGED <<toServer, toClient, serverVars>>

Client ==
  \/ Connect \/ ConnectAtOnce \/ ConnectFails
  \/ Send \/ ReceivePart \/ Receive \/ NothingComes

-----------------------------------------------------------------------------
(* The server (external).                                                  *)

Reply(c) ==
  \E code \in {Valid(c)} \cup Refusals :
    toClient' = Append(toClient, [to |-> c, code |-> code])

Replied(c) == toClient'[Len(toClient')].code = Valid(c)

SendPart ==
  /\ phase # "idle"
  /\ part' = TRUE
  /\ UNCHANGED <<clientVars, toServer, toClient, server, body, accepted>>

Greet ==
  /\ server = "new" /\ phase \notin {"idle", "connect"}
  /\ Reply(INIT) /\ server' = "ready"
  /\ UNCHANGED <<clientVars, toServer, part, body, accepted>>

Obey ==
  /\ server = "ready" /\ toServer # <<>>
  /\ toServer' = Tail(toServer)
  /\ Reply(Head(toServer))
  /\ server' = IF Head(toServer) = DATA /\ Replied(DATA) THEN "data" ELSE "ready"
  /\ UNCHANGED <<clientVars, part, body, accepted>>

(* While it reads data, everything but the end is data, a QUIT too.        *)
ReadData ==
  /\ server = "data" /\ toServer # <<>>
  /\ toServer' = Tail(toServer)
  /\ IF Head(toServer) = END
       THEN /\ Reply(END) /\ server' = "ready"
            /\ accepted' = IF Replied(END) THEN accepted \cup {body} ELSE accepted
            /\ UNCHANGED body
       ELSE /\ body' = Append(body, Head(toServer))
            /\ UNCHANGED <<toClient, server, accepted>>
  /\ UNCHANGED <<clientVars, part>>

Server == SendPart \/ Greet \/ Obey \/ ReadData

Next == Start \/ Client \/ Server \/ Clear

Spec == Init /\ [][Next]_vars /\ WF_vars(Client)

-----------------------------------------------------------------------------

TypeOK ==
  /\ phase \in {"idle", "connect", "send", "wait", "over", "dead"}
  /\ step \in Command
  /\ connected \in BOOLEAN /\ threw \in BOOLEAN
  /\ toServer \in Seq(Command)
  /\ toClient \in Seq(Replies)
  /\ part \in BOOLEAN
  /\ server \in {"new", "ready", "data"}
  /\ body \in Seq(Command)
  /\ accepted \subseteq Seq(Command)

(* A mail is accepted whole: all its blocks, in their order, each once, at *)
(* whatever point of whichever session something was lost.                 *)
AcceptedWhole == \A b \in accepted : b = [i \in 1..NumBlocks |-> DATA + i]

(* The client reads the reply to the command it is at.  Not so when it is  *)
(* quitting: the late reply to the command before is taken for the answer  *)
(* to QUIT.  Nor after a connect that succeeded at once: the greeting is   *)
(* taken for the answer to MAIL.                                           *)
RepliesInStep ==
  phase = "wait" /\ toClient # <<>> /\ Head(toClient).to # step =>
    \/ step = QUIT
    \/ step = MAIL /\ Head(toClient).to = INIT /\ ~connected

(* A session comes to its end whatever the server does, or leaves undone,  *)
(* with one exception: at one wait the server sends parts for ever, each   *)
(* in time.  TIME_IN_SEC (CSmtp.h:64) bounds the wait for a part only, and *)
(* COUNTER_VALUE, the number of tries (CSmtp.h:67), is not used.           *)
HeldByParts == <>[](phase \in {"connect", "wait"}) /\ []<><<ReceivePart>>_vars

SessionEnds == (phase = "connect" ~> phase \in {"over", "dead"}) \/ HeldByParts

-----------------------------------------------------------------------------

Call ==
  CASE phase = "idle" -> "none"
    [] phase = "over" -> "returned"
    [] phase = "dead" -> "died"
    [] OTHER -> "running"

Promise == INSTANCE Mailer WITH call <- Call, taken <- accepted # {}

(* A session is a call of the Mailer: in particular the process is ended   *)
(* only by a mail that the server has accepted.                            *)
ImplementsMailer == Promise!Init /\ [][Promise!Next]_(Promise!vars)
=============================================================================
