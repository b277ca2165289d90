------------------------ MODULE MailSession_proofs ------------------------
(***************************************************************************)
(* Proofs about MailSession, for a mail of any number of blocks: its       *)
(* types, that the server accepts a mail as a whole or not at all, that    *)
(* replies are taken for the step they answer, and that it implements      *)
(* Mailer.                                                                 *)
(***************************************************************************)
EXTENDS MailSession, SequenceTheorems, TLAPS

-----------------------------------------------------------------------------
(* The inductive invariant                                                 *)

Sent(c) == \E j \in 1..Len(toServer) : toServer[j] = c
Read(c) == \E i \in 1..Len(body) : body[i] = c

(* Before the connection nothing is sent; a block is not waited for; when  *)
(* QUIT is on its way the client has nothing more to send.                 *)
ClientInv ==
  /\ phase \in {"idle", "connect"} => step = INIT /\ toServer = <<>> /\ body = <<>>
  /\ phase = "wait" => step \notin BLOCK
  /\ Sent(QUIT) \/ Read(QUIT) => step = QUIT /\ phase # "send"

(* Before the server reads data: it has not agreed to, no data is sent,    *)
(* and behind DATA there is at most QUIT.                                  *)
BeforeData ==
  /\ server \in {"new", "ready"} /\ body = <<>> /\ accepted = {}
  /\ step <= DATA \/ step = QUIT
  /\ \A j \in 1..Len(toServer) : toServer[j] <= DATA \/ toServer[j] = QUIT
  /\ \A j \in 1..Len(toServer) : toServer[j] = DATA =>
       j = Len(toServer) \/ (j = Len(toServer) - 1 /\ toServer[Len(toServer)] = QUIT)
  /\ Sent(DATA) =>
       step = QUIT \/ phase \in {"over", "dead"} \/ (phase = "wait" /\ step = DATA)
  /\ \A i \in 1..Len(toClient) : toClient[i].code # Valid(DATA)

(* While it reads data: what it has read and what is on its way are the    *)
(* blocks and the end from the first on, as far as the client has got, and *)
(* at most QUIT behind them.                                               *)
DuringData ==
  /\ server = "data" /\ accepted = {}
  /\ \A i \in 1..Len(body) :
       body[i] = DATA + i \/ (body[i] = QUIT /\ i = Len(body) /\ toServer = <<>>)
  /\ \A j \in 1..Len(toServer) :
       toServer[j] = DATA + Len(body) + j \/ (toServer[j] = QUIT /\ j = Len(toServer))
  /\ phase \in {"send", "wait", "over", "dead"}
  /\ phase = "send" =>
       step = QUIT \/ (step > DATA /\ Len(body) + Len(toServer) = step - DATA - 1)
  /\ phase = "wait" =>
       \/ step \in {END, QUIT}
       \/ step = DATA /\ body = <<>> /\ toServer = <<>>

(* After it: only QUIT may follow.                                         *)
AfterData ==
  /\ server = "ready" /\ body # <<>> /\ AcceptedWhole
  /\ \A j \in 1..Len(toServer) : toServer[j] = QUIT
  /\ phase \in {"send", "wait", "over", "dead"}
  /\ phase = "send" => step = QUIT
  /\ phase = "wait" => step \in {END, QUIT}

SessionInv == TypeOK /\ ClientInv /\ (BeforeData \/ DuringData \/ AfterData)

-----------------------------------------------------------------------------
(* The numbers of the commands                                             *)

LEMMA Numbers ==
  /\ NumBlocks \in Nat /\ NumBlocks > 0
  /\ INIT = 1 /\ DATA = 8 /\ END = 9 + NumBlocks /\ QUIT = 10 + NumBlocks
  /\ Command = 1..(10 + NumBlocks)
  /\ BLOCK = 9..(8 + NumBlocks)
  BY MailAssumption DEF INIT, DATA, END, QUIT, Command, BLOCK

LEMMA ValidCodes ==
  ASSUME NEW c \in Command
  PROVE  /\ Valid(c) = 354 <=> c = DATA
         /\ \A code \in {Valid(c)} \cup Refusals : code = 354 <=> (c = DATA /\ code = Valid(c))
<1>1. Valid(c) = 354 <=> c = DATA
  BY Numbers DEF Valid, INIT, EHLO, AUTH, USER, PASS, MAIL, RCPT
<1> QED
  BY <1>1 DEF Refusals

-----------------------------------------------------------------------------
(* What the client does                                                    *)

(* An exception: QUIT, if connected and not at it, else the end.           *)
Thrown ==
  \/ step = QUIT /\ phase' \in {"over", "dead"} /\ step' = QUIT
  \/ step # QUIT /\ phase' = "send" /\ step' = QUIT
  \/ step # QUIT /\ phase' = "over" /\ step' = step

(* The valid reply: the next command, or the end.                          *)
Proceeds ==
  \/ step < DATA /\ phase' = "send" /\ step' \in (step + 1)..DATA
  \/ step \in DATA..(END - 1) /\ phase' = "send" /\ step' = step + 1
  \/ step = END /\ phase' = "send" /\ step' = QUIT
  \/ step \in {END, QUIT} /\ phase' = "over" /\ step' = step

LEMMA ThrowIsThrown ==
  ASSUME NEW code, Throw(code), TypeOK
  PROVE  Thrown /\ connected' \in BOOLEAN /\ threw' \in BOOLEAN
  BY DEF Throw, Disconnect, GoTo, Thrown, TypeOK

LEMMA ProceedProceeds ==
  ASSUME Proceed, TypeOK
  PROVE  Proceeds /\ connected' \in BOOLEAN /\ threw' \in BOOLEAN
<1>1. EHLO = 2 /\ AUTH = 3 /\ PASS = 5 /\ MAIL = 6
  BY DEF EHLO, AUTH, PASS, MAIL
<1>2. /\ step \in 1..QUIT /\ DATA = 8 /\ END = DATA + NumBlocks + 1 /\ QUIT = END + 1
      /\ NumBlocks \in Nat /\ NumBlocks > 0
  BY Numbers DEF TypeOK
<1>3. connected \in BOOLEAN /\ threw \in BOOLEAN
  BY DEF TypeOK
<1>4. CASE step = EHLO
  <2>1. PICK c \in AUTH..MAIL : GoTo("send", c) /\ connected' = TRUE /\ UNCHANGED threw
    BY <1>1, <1>2, <1>4 DEF Proceed, GoTo, Disconnect
  <2> QED
    BY <1>1, <1>2, <1>3, <1>4, <2>1 DEF GoTo, Proceeds
<1>5. CASE step = END
  <2>1. Disconnect(connected) /\ UNCHANGED threw
    BY <1>1, <1>2, <1>5 DEF Proceed, GoTo, Disconnect
  <2> QED
    BY <1>2, <1>3, <1>5, <2>1 DEF Disconnect, GoTo, Proceeds
<1>6. CASE step = QUIT
  <2>1. Disconnect(FALSE) /\ UNCHANGED threw
    BY <1>1, <1>2, <1>6 DEF Proceed, GoTo, Disconnect
  <2> QED
    BY <1>2, <1>3, <1>6, <2>1 DEF Disconnect, GoTo, Proceeds
<1>7. CASE step = PASS
  <2>1. GoTo("send", MAIL) /\ UNCHANGED <<connected, threw>>
    BY <1>1, <1>2, <1>7 DEF Proceed
  <2> QED
    BY <1>1, <1>2, <1>3, <1>7, <2>1 DEF GoTo, Proceeds
<1>8. CASE step \notin {EHLO, END, QUIT, PASS}
  <2>1. GoTo("send", step + 1) /\ UNCHANGED <<connected, threw>>
    BY <1>8 DEF Proceed
  <2> QED
    BY <1>2, <1>3, <1>8, <2>1 DEF GoTo, Proceeds
<1> QED
  BY <1>4, <1>5, <1>6, <1>7, <1>8

-----------------------------------------------------------------------------
(* The types                                                               *)

LEMMA ReplyType ==
  ASSUME TypeOK, NEW c \in Command, Reply(c)
  PROVE  /\ toClient' \in Seq(Replies)
         /\ \E code \in {Valid(c)} \cup Refusals : 
              /\ toClient' = Append(toClient, [to |-> c, code |-> code])
              /\ Replied(c) <=> code = Valid(c)
<1>1. PICK code \in {Valid(c)} \cup Refusals :
        toClient' = Append(toClient, [to |-> c, code |-> code])
  BY DEF Reply
<1>2. [to |-> c, code |-> code] \in Replies
  BY DEF Replies
<1>3. toClient \in Seq(Replies)
  BY DEF TypeOK
<1>4. /\ toClient' \in Seq(Replies)
      /\ toClient'[Len(toClient')] = [to |-> c, code |-> code]
  BY <1>1, <1>2, <1>3, AppendProperties, LenProperties
<1>5. Replied(c) <=> code = Valid(c)
  BY <1>4 DEF Replied
<1> QED
  BY <1>1, <1>4, <1>5

LEMMA StepTypes == TypeOK /\ [Next]_vars => TypeOK'
<1> SUFFICES ASSUME TypeOK, [Next]_vars
             PROVE  TypeOK'
  OBVIOUS
<1>0. /\ NumBlocks \in Nat /\ INIT \in Command /\ MAIL \in Command /\ QUIT \in Command
      /\ \A c \in Command : c < QUIT => c + 1 \in Command
  BY Numbers DEF MAIL
<1>1. ASSUME NEW code, Throw(code)
      PROVE  /\ phase' \in {"send", "over", "dead"} /\ step' \in Command
             /\ connected' \in BOOLEAN /\ threw' \in BOOLEAN
  BY <1>0, <1>1, ThrowIsThrown DEF Thrown, TypeOK
<1>2. ASSUME Proceed
      PROVE  /\ phase' \in {"send", "over"} /\ step' \in Command
             /\ connected' \in BOOLEAN /\ threw' \in BOOLEAN
  BY <1>2, ProceedProceeds, Numbers DEF Proceeds, TypeOK
<1>3. CASE Start
  BY <1>3 DEF Start, TypeOK, serverVars
<1>4. CASE Clear
  BY <1>0, <1>4, EmptySeq DEF Clear, TypeOK
<1>5. CASE Connect
  BY <1>0, <1>1, <1>5 DEF Connect, GoTo, TypeOK, serverVars
<1>6. CASE ConnectAtOnce
  BY <1>0, <1>6 DEF ConnectAtOnce, GoTo, TypeOK, serverVars
<1>7. CASE ConnectFails
  BY <1>0, <1>7 DEF ConnectFails, GoTo, TypeOK, serverVars
<1>8. CASE Send
  <2>1. toServer' \in Seq(Command)
    <3>1. Append(toServer, step) \in Seq(Command)
      BY AppendProperties DEF TypeOK
    <3> QED
      BY <1>8, <3>1 DEF Send, TypeOK
  <2>2. step \in BLOCK => step + 1 \in Command
    BY Numbers
  <2>3. /\ phase' \in {"send", "wait", "over", "dead"} /\ step' \in Command
        /\ connected' \in BOOLEAN /\ threw' \in BOOLEAN
    BY <1>1, <1>8, <2>2 DEF Send, GoTo, TypeOK
  <2> QED
    BY <1>8, <2>1, <2>3 DEF Send, TypeOK, serverVars
<1>9. CASE Receive
  <2>1. toClient' \in Seq(Replies)
    BY <1>9, HeadTailProperties DEF Receive, TypeOK
  <2>2. /\ phase' \in {"send", "over", "dead"} /\ step' \in Command
        /\ connected' \in BOOLEAN /\ threw' \in BOOLEAN
    BY <1>1, <1>2, <1>9 DEF Receive
  <2> QED
    BY <1>9, <2>1, <2>2 DEF Receive, TypeOK, serverVars
<1>10. CASE NothingComes
  BY <1>1, <1>10 DEF NothingComes, TypeOK, serverVars
<1>11. CASE Greet
  <2>1. toClient' \in Seq(Replies)
    BY <1>0, <1>11, ReplyType DEF Greet
  <2> QED
    BY <1>11, <2>1 DEF Greet, TypeOK, clientVars
<1>12. CASE Obey
  <2>1. Head(toServer) \in Command /\ toServer' \in Seq(Command)
    BY <1>12, HeadTailProperties DEF Obey, TypeOK
  <2>2. toClient' \in Seq(Replies)
    BY <1>12, <2>1, ReplyType DEF Obey
  <2> QED
    BY <1>12, <2>1, <2>2 DEF Obey, TypeOK, clientVars
<1>13. CASE ReadData
  <2>1. Head(toServer) \in Command /\ toServer' \in Seq(Command)
    BY <1>13, HeadTailProperties DEF ReadData, TypeOK
  <2>2. CASE Head(toServer) = END
    <3>1. toClient' \in Seq(Replies)
      BY <1>13, <2>1, <2>2, ReplyType DEF ReadData
    <3> QED
      BY <1>13, <2>1, <2>2, <3>1 DEF ReadData, TypeOK, clientVars
  <2>3. CASE Head(toServer) # END
    <3>1. body' = Append(body, Head(toServer)) /\ body \in Seq(Command)
      BY <1>13, <2>3 DEF ReadData, TypeOK
    <3>2. body' \in Seq(Command)
      BY <2>1, <3>1, AppendProperties
    <3> QED
      BY <1>13, <2>1, <2>3, <3>2 DEF ReadData, TypeOK, clientVars
  <2> QED
    BY <2>2, <2>3
<1>14. CASE SendPart \/ ReceivePart
  BY <1>14 DEF SendPart, ReceivePart, TypeOK, clientVars
<1>15. CASE UNCHANGED vars
  BY <1>15 DEF TypeOK, vars, clientVars, serverVars
<1> QED
  BY <1>3, <1>4, <1>5, <1>6, <1>7, <1>8, <1>9, <1>10, <1>11, <1>12, <1>13, <1>14, <1>15
  DEF Next, Client, Server

LEMMA InitInv == Init => SessionInv
<1> SUFFICES ASSUME Init
             PROVE  SessionInv
  OBVIOUS
<1>1. TypeOK
  <2>1. INIT \in Command /\ <<>> \in Seq(Command) /\ <<>> \in Seq(Replies)
    BY Numbers, EmptySeq
  <2> QED
    BY <2>1 DEF Init, TypeOK
<1>2. Len(toServer) = 0 /\ Len(toClient) = 0 /\ Len(body) = 0
  BY EmptySeq DEF Init
<1>3. ClientInv
  BY <1>2 DEF Init, ClientInv, Sent, Read
<1>4. BeforeData
  BY <1>2, Numbers DEF Init, BeforeData, Sent
<1> QED
  BY <1>1, <1>3, <1>4 DEF SessionInv

-----------------------------------------------------------------------------
(* What is on its way                                                      *)

LEMMA Appended ==
  ASSUME TypeOK, toServer' = Append(toServer, step)
  PROVE  /\ Len(toServer') = Len(toServer) + 1 /\ Len(toServer) \in Nat
         /\ toServer'[Len(toServer) + 1] = step
         /\ \A j \in 1..Len(toServer) : toServer'[j] = toServer[j]
         /\ Sent(QUIT)' <=> Sent(QUIT) \/ step = QUIT
         /\ Sent(DATA)' <=> Sent(DATA) \/ step = DATA
<1>1. /\ Len(toServer') = Len(toServer) + 1 /\ Len(toServer) \in Nat
      /\ toServer'[Len(toServer) + 1] = step
      /\ \A j \in 1..Len(toServer) : toServer'[j] = toServer[j]
  BY AppendProperties, LenProperties DEF TypeOK
<1>2. QUIT' = QUIT /\ DATA' = DATA
  BY DEF QUIT, DATA
<1> QED
  BY <1>1, <1>2 DEF Sent

(* The server takes the first command.                                     *)
LEMMA Taken ==
  ASSUME TypeOK, toServer # <<>>, toServer' = Tail(toServer)
  PROVE  /\ Len(toServer') = Len(toServer) - 1 /\ Len(toServer) \in Nat \ {0}
         /\ \A j \in 1..Len(toServer') : toServer'[j] = toServer[j + 1]
         /\ Head(toServer) = toServer[1] /\ Head(toServer) \in Command
         /\ Sent(QUIT)' => Sent(QUIT)
         /\ Sent(DATA)' => Sent(DATA)
<1>1. /\ Len(toServer') = Len(toServer) - 1 /\ Len(toServer) \in Nat \ {0}
      /\ \A j \in 1..Len(toServer') : toServer'[j] = toServer[j + 1]
      /\ Head(toServer) = toServer[1] /\ Head(toServer) \in Command
  BY HeadTailProperties, EmptySeq DEF TypeOK
<1>2. \A j \in 1..Len(toServer') : j + 1 \in 1..Len(toServer)
  BY <1>1
<1> QED
  BY <1>1, <1>2 DEF Sent

-----------------------------------------------------------------------------
(* The actions keep the invariant                                          *)

(* The client has waited.                                                  *)
LEMMA AnswerKeeps ==
  ASSUME SessionInv, TypeOK', phase = "wait",
         UNCHANGED <<toServer, server, body, accepted>>,
         \A i \in 1..Len(toClient') : \E k \in 1..Len(toClient) : toClient'[i] = toClient[k],
         \/ Thrown
         \/ /\ Proceeds
            /\ \E k \in 1..Len(toClient) : toClient[k].code = Valid(step)
  PROVE  SessionInv'
<1> USE Numbers
<1>1. step \in Command /\ step' \in Command /\ NumBlocks \in Nat
  BY DEF SessionInv, TypeOK
<1>2. ClientInv'
  BY <1>1 DEF SessionInv, ClientInv, Sent, Read, Thrown, Proceeds
<1>3. CASE BeforeData
  <2>1. step = DATA => Thrown
    BY <1>3 DEF BeforeData
  <2>2. Sent(DATA)' <=> Sent(DATA)
    BY DEF Sent
  <2>3. Sent(DATA) => step \in {DATA, QUIT}
    BY <1>3 DEF BeforeData
  <2>4. Sent(DATA)' => step' = QUIT \/ phase' \in {"over", "dead"}
    BY <2>1, <2>2, <2>3 DEF Thrown, Proceeds
  <2>5. step' <= DATA \/ step' = QUIT
    BY <1>1, <1>3, <2>1 DEF BeforeData, Thrown, Proceeds
  <2>6. \A i \in 1..Len(toClient') : toClient'[i].code # Valid(DATA)
    BY <1>3 DEF BeforeData
  <2>7. BeforeData'
    BY <1>3, <2>4, <2>5, <2>6 DEF BeforeData
  <2> QED
    BY <1>2, <2>7 DEF SessionInv
<1>4. CASE DuringData
  <2>1. phase' = "send" => step' = QUIT \/ (step' = DATA + 1 /\ body = <<>> /\ toServer = <<>>)
    BY <1>1, <1>4 DEF DuringData, Thrown, Proceeds
  <2>2. phase' \in {"send", "over", "dead"}
    BY DEF Thrown, Proceeds
  <2>3. DuringData'
    BY <1>4, <2>1, <2>2, EmptySeq DEF DuringData
  <2> QED
    BY <1>2, <2>3 DEF SessionInv
<1>5. CASE AfterData
  <2>1. phase' \in {"send", "over", "dead"} /\ (phase' = "send" => step' = QUIT)
    BY <1>1, <1>5 DEF AfterData, Thrown, Proceeds
  <2>2. AfterData'
    BY <1>5, <2>1 DEF AfterData, AcceptedWhole
  <2> QED
    BY <1>2, <2>2 DEF SessionInv
<1> QED
  BY <1>3, <1>4, <1>5 DEF SessionInv

(* The client sends, and goes on, waits or throws.                         *)
LEMMA SendKeeps ==
  ASSUME SessionInv, TypeOK', phase = "send",
         UNCHANGED <<toClient, server, body, accepted>>,
         \/ Thrown /\ toServer' = toServer
         \/ Thrown /\ toServer' = Append(toServer, step)
         \/ /\ toServer' = Append(toServer, step)
            /\ \/ step \in BLOCK /\ phase' = "send" /\ step' = step + 1
               \/ step \notin BLOCK /\ phase' = "wait" /\ step' = step
  PROVE  SessionInv'
<1> USE Numbers
<1>1. TypeOK /\ step \in Command /\ step' \in Command
  BY DEF SessionInv, TypeOK
<1>2. ~Sent(QUIT) /\ ~Read(QUIT)
  BY DEF SessionInv, ClientInv
<1>3. (Read(QUIT)' <=> Read(QUIT)) /\ QUIT' = QUIT
  BY DEF Read, QUIT, DATA
<1>4. CASE toServer' = toServer
  <2>1. Thrown
    BY <1>1, <1>4, Appended
  <2>2. Sent(QUIT)' <=> Sent(QUIT)
    BY <1>4 DEF Sent
  <2>3. ClientInv'
    BY <1>2, <1>3, <2>1, <2>2 DEF ClientInv, Thrown
  <2>4. CASE BeforeData
    BY <1>4, <2>1, <2>3, <2>4 DEF SessionInv, BeforeData, Sent, Thrown
  <2>5. CASE DuringData
    BY <1>4, <2>1, <2>3, <2>5 DEF SessionInv, DuringData, Thrown
  <2>6. CASE AfterData
    BY <1>4, <2>1, <2>3, <2>6 DEF SessionInv, AfterData, AcceptedWhole, Thrown
  <2> QED
    BY <2>4, <2>5, <2>6 DEF SessionInv
<1>5. CASE toServer' = Append(toServer, step)
  <2>1. ClientInv'
    BY <1>1, <1>2, <1>3, <1>5, Appended DEF ClientInv, Thrown
  <2>2. CASE BeforeData
    <3>1. /\ step \notin BLOCK
          /\ ~Sent(DATA) \/ step = QUIT
          /\ step = DATA => ~Sent(DATA)
      BY <1>1, <2>2 DEF BeforeData
    <3>2. \A j \in 1..Len(toServer) : toServer[j] = DATA => step = QUIT /\ j = Len(toServer)
      BY <1>2, <2>2, <3>1 DEF BeforeData, Sent
    <3>3. /\ \A j \in 1..Len(toServer') : toServer'[j] <= DATA \/ toServer'[j] = QUIT
          /\ \A j \in 1..Len(toServer') : toServer'[j] = DATA =>
               j = Len(toServer') \/ (j = Len(toServer') - 1 /\ toServer'[Len(toServer')] = QUIT)
      BY <1>1, <1>5, <2>2, <3>2, Appended DEF BeforeData
    <3>4. Sent(DATA)' =>
            step' = QUIT \/ phase' \in {"over", "dead"} \/ (phase' = "wait" /\ step' = DATA)
      BY <1>1, <1>5, <3>1, Appended DEF Thrown
    <3>5. step' <= DATA \/ step' = QUIT
      BY <1>1, <2>2, <3>1 DEF BeforeData, Thrown
    <3>6. BeforeData'
      BY <2>2, <3>3, <3>4, <3>5 DEF BeforeData
    <3> QED
      BY <2>1, <3>6 DEF SessionInv
  <2>3. CASE DuringData
    <3>1. /\ Len(body) \in Nat /\ Len(toServer) \in Nat
          /\ \A i \in 1..Len(body) : body[i] = DATA + i
          /\ \A j \in 1..Len(toServer) : toServer[j] = DATA + Len(body) + j
      BY <1>1, <1>2, <2>3, LenProperties DEF DuringData, Sent, Read, TypeOK
    <3>2. step = QUIT \/ step = DATA + Len(body) + Len(toServer) + 1
      BY <1>1, <2>3, <3>1 DEF DuringData
    <3>3. \A j \in 1..Len(toServer') :
            toServer'[j] = DATA + Len(body) + j \/ (toServer'[j] = QUIT /\ j = Len(toServer'))
      <4>1. TAKE j \in 1..Len(toServer')
      <4>2. /\ Len(toServer') = Len(toServer) + 1 /\ toServer'[Len(toServer) + 1] = step
            /\ \A k \in 1..Len(toServer) : toServer'[k] = toServer[k]
        BY <1>1, <1>5, Appended
      <4>3. CASE j = Len(toServer) + 1
        BY <3>1, <3>2, <4>2, <4>3
      <4>4. CASE j \in 1..Len(toServer)
        BY <3>1, <4>2, <4>4
      <4> QED
        BY <3>1, <4>2, <4>3, <4>4
    <3>4. /\ phase' \in {"send", "wait", "over", "dead"}
          /\ phase' = "send" => step' = QUIT \/ (step' > DATA /\ Len(body) + Len(toServer') = step' - DATA - 1)
          /\ phase' = "wait" => step' \in {END, QUIT}
      BY <1>1, <1>5, <3>1, <3>2, Appended DEF Thrown
    <3>5. DuringData'
      BY <2>3, <3>1, <3>3, <3>4 DEF DuringData
    <3> QED
      BY <2>1, <3>5 DEF SessionInv
  <2>4. CASE AfterData
    <3>1. step = QUIT
      BY <2>4 DEF AfterData
    <3>2. \A j \in 1..Len(toServer') : toServer'[j] = QUIT
      BY <1>1, <1>5, <2>4, <3>1, Appended DEF AfterData
    <3>3. phase' \in {"wait", "over", "dead"} /\ (phase' = "wait" => step' = QUIT)
      BY <3>1 DEF Thrown
    <3>4. AfterData'
      BY <2>4, <3>2, <3>3 DEF AfterData, AcceptedWhole
    <3> QED
      BY <2>1, <3>4 DEF SessionInv
  <2> QED
    BY <2>2, <2>3, <2>4 DEF SessionInv
<1> QED
  BY <1>4, <1>5

(* The client connects, and is greeted by nobody yet.                      *)
LEMMA ConnectKeeps ==
  ASSUME SessionInv, TypeOK', phase \in {"idle", "connect"},
         UNCHANGED <<toServer, toClient, server, body, accepted>>,
         \/ phase' \in {"connect", "wait"} /\ step' = INIT
         \/ phase' = "send" /\ step' = MAIL
         \/ phase' = "over" /\ step' = INIT
         \/ Thrown
  PROVE  SessionInv'
<1> USE Numbers
<1>1. MAIL = 6 /\ Len(toServer) = 0 /\ Len(body) = 0 /\ toServer = <<>> /\ body = <<>>
  BY EmptySeq DEF MAIL, SessionInv, ClientInv
<1>2. step = INIT
  BY DEF SessionInv, ClientInv
<1>3. ClientInv'
  BY <1>1, <1>2 DEF ClientInv, Sent, Read, Thrown
<1>4. BeforeData
  BY <1>1 DEF SessionInv, DuringData, AfterData
<1>5. step' <= DATA \/ step' = QUIT
  BY <1>1, <1>2 DEF Thrown
<1>6. BeforeData'
  BY <1>1, <1>4, <1>5 DEF BeforeData, Sent
<1> QED
  BY <1>3, <1>6 DEF SessionInv

(* The server's replies do not matter, but for the one that asks for data. *)
LEMMA GreetKeeps ==
  ASSUME SessionInv, TypeOK', Greet
  PROVE  SessionInv'
<1> USE Numbers
<1>1. TypeOK /\ INIT \in Command
  BY DEF SessionInv
<1>2. /\ server = "new" /\ server' = "ready"
      /\ UNCHANGED <<phase, step, toServer, body, accepted>>
  BY DEF Greet, clientVars
<1>3. PICK code \in {Valid(INIT)} \cup Refusals :
        toClient' = Append(toClient, [to |-> INIT, code |-> code])
  BY <1>1, ReplyType DEF Greet
<1>4. code # 354 /\ Valid(DATA) = 354 /\ [to |-> INIT, code |-> code] \in Replies
  BY <1>1, ValidCodes DEF Replies
<1>5. /\ Len(toClient') = Len(toClient) + 1 /\ Len(toClient) \in Nat
      /\ \A i \in 1..Len(toClient) : toClient'[i] = toClient[i]
      /\ toClient'[Len(toClient) + 1].code = code
  BY <1>1, <1>3, <1>4, AppendProperties, LenProperties DEF TypeOK
<1>6. BeforeData
  BY <1>2 DEF SessionInv, DuringData, AfterData
<1>7. \A i \in 1..Len(toClient') : toClient'[i].code # 354
  BY <1>4, <1>5, <1>6 DEF BeforeData
<1>8. Valid(DATA)' = 354
  BY <1>4 DEF Valid, INIT, EHLO, AUTH, USER, PASS, MAIL, RCPT, DATA, END, QUIT
<1>9. BeforeData'
  BY <1>2, <1>6, <1>7, <1>8 DEF BeforeData, Sent
<1>10. ClientInv'
  BY <1>2 DEF SessionInv, ClientInv, Sent, Read
<1> QED
  BY <1>9, <1>10 DEF SessionInv

LEMMA ObeyKeeps ==
  ASSUME SessionInv, TypeOK', Obey
  PROVE  SessionInv'
<1> USE Numbers
<1>1. TypeOK
  BY DEF SessionInv
<1>2. /\ server = "ready" /\ toServer # <<>> /\ toServer' = Tail(toServer)
      /\ UNCHANGED <<phase, step, body, accepted>>
      /\ server' = IF Head(toServer) = DATA /\ Replied(DATA) THEN "data" ELSE "ready"
  BY DEF Obey, clientVars
<1>3. /\ Len(toServer') = Len(toServer) - 1 /\ Len(toServer) \in Nat \ {0}
      /\ \A j \in 1..Len(toServer') : toServer'[j] = toServer[j + 1]
      /\ Head(toServer) = toServer[1] /\ Head(toServer) \in Command
      /\ Sent(QUIT)' => Sent(QUIT)
      /\ Sent(DATA)' => Sent(DATA)
  BY <1>1, <1>2, Taken
<1>4. phase \notin {"idle", "connect"}
  BY <1>2 DEF SessionInv, ClientInv
<1>5. ClientInv'
  BY <1>2, <1>3, <1>4 DEF SessionInv, ClientInv, Read
<1>6. CASE AfterData
  <2>1. Head(toServer) = QUIT
    BY <1>3, <1>6 DEF AfterData
  <2>2. AfterData'
    BY <1>2, <1>3, <1>6, <2>1 DEF AfterData, AcceptedWhole
  <2> QED
    BY <1>5, <2>2 DEF SessionInv
<1>7. CASE BeforeData
  <2>1. PICK code \in {Valid(Head(toServer))} \cup Refusals :
          /\ toClient' = Append(toClient, [to |-> Head(toServer), code |-> code])
          /\ Replied(Head(toServer)) <=> code = Valid(Head(toServer))
    BY <1>1, <1>3, ReplyType DEF Obey
  <2>2. Valid(DATA) = 354 /\ [to |-> Head(toServer), code |-> code] \in Replies
    BY <1>3, ValidCodes DEF Replies
  <2>3. code = 354 <=> Head(toServer) = DATA /\ code = Valid(Head(toServer))
    BY <1>3, ValidCodes
  <2>4. /\ Len(toClient') = Len(toClient) + 1 /\ Len(toClient) \in Nat
        /\ \A i \in 1..Len(toClient) : toClient'[i] = toClient[i]
        /\ toClient'[Len(toClient) + 1].code = code
    BY <1>1, <2>1, <2>2, AppendProperties, LenProperties DEF TypeOK
  <2>5. /\ \A j \in 1..Len(toServer') : toServer'[j] <= DATA \/ toServer'[j] = QUIT
        /\ \A j \in 1..Len(toServer') : toServer'[j] = DATA =>
             j = Len(toServer') \/ (j = Len(toServer') - 1 /\ toServer'[Len(toServer')] = QUIT)
    <3>1. \A j \in 1..Len(toServer') : j + 1 \in 1..Len(toServer)
      BY <1>3
    <3>2. Len(toServer') >= 1 => toServer'[Len(toServer')] = toServer[Len(toServer)]
      BY <1>3
    <3>3. \A j \in 1..Len(toServer') : toServer'[j] <= DATA \/ toServer'[j] = QUIT
      BY <1>3, <1>7, <3>1 DEF BeforeData
    <3>4. ASSUME NEW j \in 1..Len(toServer'), toServer'[j] = DATA
          PROVE  j = Len(toServer') \/ (j = Len(toServer') - 1 /\ toServer'[Len(toServer')] = QUIT)
      <4>1. j + 1 = Len(toServer) \/ (j + 1 = Len(toServer) - 1 /\ toServer[Len(toServer)] = QUIT)
        BY <1>3, <1>7, <3>1, <3>4 DEF BeforeData
      <4> QED
        BY <1>3, <3>2, <4>1
    <3> QED
      BY <3>3, <3>4
  <2>6. CASE code # 354
    <3>1. server' = "ready"
      BY <1>2, <2>1, <2>2, <2>3, <2>6
    <3>2. \A i \in 1..Len(toClient') : toClient'[i].code # 354
      BY <1>7, <2>2, <2>4, <2>6 DEF BeforeData
    <3>3. Valid(DATA)' = 354
      BY <2>2 DEF Valid, INIT, EHLO, AUTH, USER, PASS, MAIL, RCPT, DATA, END, QUIT
    <3>4. Sent(DATA)' =>
            step' = QUIT \/ phase' \in {"over", "dead"} \/ (phase' = "wait" /\ step' = DATA)
      BY <1>2, <1>3, <1>7 DEF BeforeData
    <3>5. BeforeData'
      BY <1>2, <1>7, <2>5, <3>1, <3>2, <3>3, <3>4 DEF BeforeData
    <3> QED
      BY <1>5, <3>5 DEF SessionInv
  <2>7. CASE code = 354
    <3>1. server' = "data" /\ toServer[1] = DATA
      BY <1>2, <1>3, <2>1, <2>3, <2>7
    <3>2. 1 = Len(toServer) \/ (1 = Len(toServer) - 1 /\ toServer[2] = QUIT)
      BY <1>3, <1>7, <3>1 DEF BeforeData
    <3>3. /\ Len(toServer') \in {0, 1}
          /\ \A j \in 1..Len(toServer') : toServer'[j] = QUIT /\ j = Len(toServer')
      BY <1>3, <3>2
    <3>4. Len(toServer') = 1 => step = QUIT /\ phase # "send"
      <4>1. Len(toServer) \in Nat /\ Len(toServer') \in Nat
        BY LenProperties DEF TypeOK, SessionInv
      <4>2. Len(toServer') = Len(toServer) - 1
        BY <1>3
      <4>3. CASE 1 = Len(toServer)
        BY <4>1, <4>2, <4>3
      <4>4. CASE 1 = Len(toServer) - 1 /\ toServer[2] = QUIT
        <5>1. Len(toServer) > 1
          BY <4>1, <4>4
        <5>2. 2 \in 1..Len(toServer)
          BY <4>1, <5>1
        <5> QED
          BY <4>4, <5>2 DEF SessionInv, ClientInv, Sent
      <4> QED
        BY <3>2, <4>3, <4>4
    <3>5. step = QUIT \/ phase \in {"over", "dead"} \/ (phase = "wait" /\ step = DATA)
      BY <1>3, <1>7, <3>1 DEF BeforeData, Sent
    <3>6. Len(toServer') = 0 => toServer' = <<>>
      BY EmptySeq DEF TypeOK
    <3>7. body' = <<>> /\ Len(body') = 0 /\ accepted' = {}
      BY <1>2, <1>7, EmptySeq DEF BeforeData
    <3>8. phase' \in {"send", "wait", "over", "dead"}
      BY <1>2, <1>4 DEF TypeOK, SessionInv
    <3>9. DuringData'
      BY <1>2, <3>1, <3>3, <3>4, <3>5, <3>6, <3>7, <3>8 DEF DuringData
    <3> QED
      BY <1>5, <3>9 DEF SessionInv
  <2> QED
    BY <2>6, <2>7
<1>8. ~DuringData
  BY <1>2 DEF DuringData
<1> QED
  BY <1>6, <1>7, <1>8 DEF SessionInv

(* The end makes a mail of what has been read; anything else is data.      *)
LEMMA ReadDataKeeps ==
  ASSUME SessionInv, TypeOK', ReadData
  PROVE  SessionInv'
<1> USE Numbers
<1>1. TypeOK /\ DuringData
  BY DEF SessionInv, ReadData, BeforeData, AfterData
<1>2. /\ toServer # <<>> /\ toServer' = Tail(toServer) /\ UNCHANGED <<phase, step>>
  BY DEF ReadData, clientVars
<1>3. /\ Len(toServer') = Len(toServer) - 1 /\ Len(toServer) \in Nat \ {0}
      /\ \A j \in 1..Len(toServer') : toServer'[j] = toServer[j + 1]
      /\ Head(toServer) = toServer[1] /\ Head(toServer) \in Command
      /\ Sent(QUIT)' => Sent(QUIT)
  BY <1>1, <1>2, Taken
<1>4. Len(body) \in Nat /\ \A i \in 1..Len(body) : body[i] = DATA + i
  BY <1>1, <1>2, LenProperties DEF DuringData, TypeOK
<1>5. /\ toServer[1] = DATA + Len(body) + 1 \/ (toServer[1] = QUIT /\ Len(toServer) = 1)
      /\ \A j \in 1..Len(toServer') :
           toServer'[j] = DATA + Len(body) + 1 + j \/ (toServer'[j] = QUIT /\ j = Len(toServer'))
  BY <1>1, <1>3, <1>4 DEF DuringData
<1>6. phase \notin {"idle", "connect"}
  BY <1>1 DEF DuringData
<1>7. CASE Head(toServer) = END
  <2>1. /\ server' = "ready" /\ body' = body
        /\ accepted' \in {accepted, accepted \cup {body}}
    BY <1>7 DEF ReadData
  <2>2. Len(body) = NumBlocks
    BY <1>3, <1>4, <1>5, <1>7
  <2>3. body = [i \in 1..NumBlocks |-> DATA + i]
    BY <1>1, <1>4, <2>2, LenProperties DEF TypeOK
  <2>4. AcceptedWhole' /\ body' # <<>>
    BY <1>1, <2>1, <2>2, <2>3, EmptySeq DEF AcceptedWhole, DuringData, DATA
  <2>5. \A j \in 1..Len(toServer') : toServer'[j] = QUIT
    <3>1. TAKE j \in 1..Len(toServer')
    <3>2. toServer'[j] \in Command
      BY ElementOfSeq DEF TypeOK
    <3> QED
      BY <1>3, <1>5, <2>2, <3>2
  <2>6. phase = "send" => step = QUIT
    BY <1>1, <1>3, <2>2 DEF DuringData, TypeOK
  <2>7. phase = "wait" => step \in {END, QUIT}
    BY <1>1, <1>2 DEF DuringData
  <2>8. AfterData'
    BY <1>1, <1>2, <2>1, <2>4, <2>5, <2>6, <2>7 DEF AfterData, DuringData
  <2>9. ClientInv'
    BY <1>1, <1>2, <1>3, <1>6, <2>1 DEF SessionInv, ClientInv, Read
  <2> QED
    BY <2>8, <2>9 DEF SessionInv
<1>8. CASE Head(toServer) # END
  <2>1. /\ body' = Append(body, Head(toServer))
        /\ UNCHANGED <<toClient, server, accepted>>
    BY <1>8 DEF ReadData
  <2>2. /\ Len(body') = Len(body) + 1 /\ body' # <<>>
        /\ \A i \in 1..Len(body) : body'[i] = body[i]
        /\ body'[Len(body) + 1] = toServer[1]
    <3>1. body \in Seq(Command)
      BY <1>1 DEF TypeOK
    <3> QED
      BY <1>3, <2>1, <3>1, AppendProperties
  <2>3. toServer[1] = QUIT => toServer' = <<>> \/ toServer[1] = DATA + Len(body) + 1
    <3>1. Len(toServer) = 1 => Len(toServer') = 0
      BY <1>3
    <3>2. Len(toServer') = 0 => toServer' = <<>>
      BY EmptySeq DEF TypeOK
    <3> QED
      BY <1>5, <3>1, <3>2
  <2>4. \A i \in 1..Len(body') :
          body'[i] = DATA + i \/ (body'[i] = QUIT /\ i = Len(body') /\ toServer' = <<>>)
    BY <1>4, <1>5, <2>2, <2>3
  <2>5. \A j \in 1..Len(toServer') :
          toServer'[j] = DATA + Len(body') + j \/ (toServer'[j] = QUIT /\ j = Len(toServer'))
    BY <1>4, <1>5, <2>2
  <2>6. phase = "send" => step = QUIT \/ (step > DATA /\ Len(body') + Len(toServer') = step - DATA - 1)
    BY <1>1, <1>3, <1>4, <2>2 DEF DuringData
  <2>7. phase = "wait" => step \in {END, QUIT}
    BY <1>1, <1>2 DEF DuringData
  <2>8. DuringData'
    BY <1>1, <1>2, <2>1, <2>4, <2>5, <2>6, <2>7 DEF DuringData
  <2>9. Read(QUIT)' => Read(QUIT) \/ Sent(QUIT)
    <3>1. QUIT' = QUIT
      BY DEF QUIT, DATA
    <3> QED
      BY <1>3, <1>4, <2>2, <3>1 DEF Read, Sent
  <2>10. ClientInv'
    BY <1>2, <1>3, <1>6, <2>9 DEF SessionInv, ClientInv
  <2> QED
    BY <2>8, <2>10 DEF SessionInv
<1> QED
  BY <1>7, <1>8

(* A step that at most sends or receives a part.                           *)
OnlyPart == UNCHANGED <<clientVars, toServer, toClient, server, body, accepted>>

LEMMA PartsAreOnlyPart == SendPart \/ ReceivePart \/ UNCHANGED vars => OnlyPart
  BY DEF SendPart, ReceivePart, vars, serverVars, OnlyPart

LEMMA StepKeeps == SessionInv /\ [Next]_vars => SessionInv'
<1> SUFFICES ASSUME SessionInv, [Next]_vars
             PROVE  SessionInv'
  OBVIOUS
<1>1. TypeOK /\ TypeOK'
  BY StepTypes DEF SessionInv
<1>2. CASE Start
  <2>1. step = INIT
    BY <1>2 DEF Start, SessionInv, ClientInv
  <2> QED
    BY <1>1, <1>2, <2>1, ConnectKeeps DEF Start, serverVars
<1>3. CASE Clear
  <2>1. /\ phase' = "idle" /\ step' = INIT /\ toServer' = <<>> /\ toClient' = <<>>
        /\ server' = "new" /\ body' = <<>> /\ accepted' = {}
        /\ Len(toServer') = 0 /\ Len(toClient') = 0 /\ Len(body') = 0
    BY <1>3, EmptySeq DEF Clear
  <2>2. ClientInv'
    BY <2>1 DEF ClientInv, Sent, Read
  <2>3. INIT' <= DATA'
    BY Numbers DEF INIT, DATA
  <2>4. BeforeData'
    BY <2>1, <2>3 DEF BeforeData, Sent, INIT, DATA
  <2> QED
    BY <1>1, <2>2, <2>4 DEF SessionInv
<1>4. CASE Connect
  <2>1. (phase' = "wait" /\ step' = INIT) \/ Thrown
    BY <1>1, <1>4, ThrowIsThrown DEF Connect, GoTo
  <2> QED
    BY <1>1, <1>4, <2>1, ConnectKeeps DEF Connect, serverVars
<1>5. CASE ConnectAtOnce
  BY <1>1, <1>5, ConnectKeeps DEF ConnectAtOnce, GoTo, serverVars
<1>6. CASE ConnectFails
  BY <1>1, <1>6, ConnectKeeps DEF ConnectFails, GoTo, serverVars
<1>7. CASE Send
  <2>1. Throw(NoReply) => Thrown
    BY <1>1, ThrowIsThrown
  <2> QED
    BY <1>1, <1>7, <2>1, SendKeeps DEF Send, GoTo, serverVars
<1>8. CASE Receive
  <2>1. /\ phase = "wait" /\ UNCHANGED <<toServer, server, body, accepted>>
        /\ toClient # <<>> /\ toClient' = Tail(toClient)
    BY <1>8 DEF Receive, serverVars
  <2>2. /\ Len(toClient) \in Nat \ {0} /\ Len(toClient') = Len(toClient) - 1
        /\ Head(toClient) = toClient[1]
        /\ \A i \in 1..Len(toClient') : toClient'[i] = toClient[i + 1]
    BY <1>1, <2>1, HeadTailProperties, EmptySeq DEF TypeOK
  <2>3. \A i \in 1..Len(toClient') : \E k \in 1..Len(toClient) : toClient'[i] = toClient[k]
    BY <2>2
  <2>4. \/ Thrown
        \/ Proceeds /\ \E k \in 1..Len(toClient) : toClient[k].code = Valid(step)
    <3>1. CASE Head(toClient).code = Valid(step)
      BY <1>1, <1>8, <2>2, <3>1, ProceedProceeds DEF Receive
    <3>2. CASE Head(toClient).code # Valid(step)
      BY <1>1, <1>8, <3>2, ThrowIsThrown DEF Receive
    <3> QED
      BY <3>1, <3>2
  <2> QED
    BY <1>1, <2>1, <2>3, <2>4, AnswerKeeps
<1>9. CASE NothingComes
  <2>1. Thrown
    BY <1>1, <1>9, ThrowIsThrown DEF NothingComes
  <2> QED
    BY <1>1, <1>9, <2>1, AnswerKeeps DEF NothingComes, serverVars
<1>10. CASE Greet
  BY <1>1, <1>10, GreetKeeps
<1>11. CASE Obey
  BY <1>1, <1>11, ObeyKeeps
<1>12. CASE ReadData
  BY <1>1, <1>12, ReadDataKeeps
<1>13. CASE OnlyPart
  BY <1>1, <1>13 DEF OnlyPart, clientVars, SessionInv, ClientInv,
               BeforeData, DuringData, AfterData, AcceptedWhole, Sent, Read
<1> QED
  BY <1>2, <1>3, <1>4, <1>5, <1>6, <1>7, <1>8, <1>9, <1>10, <1>11, <1>12, <1>13,
     PartsAreOnlyPart
  DEF Next, Client, Server

-----------------------------------------------------------------------------

(* Types: of the program's state and of what is on its way; for a mail of  *)
(* any number of blocks, CSmtp::Send.                                      *)
THEOREM TypeCorrect == Spec => []TypeOK
<1>1. Init => TypeOK
  BY InitInv DEF SessionInv
<1>2. TypeOK /\ [Next]_vars => TypeOK'
  BY StepTypes
<1> QED
  BY <1>1, <1>2, PTL DEF Spec

(* A mail is accepted whole, at whatever point of the session a command, a *)
(* reply or the connection is lost: CSmtp::Send, SendData and SayQuit.     *)
THEOREM AcceptedWholeAlways == Spec => []AcceptedWhole
<1>1. SessionInv => AcceptedWhole
  BY DEF SessionInv, BeforeData, DuringData, AfterData, AcceptedWhole
<1> QED
  BY <1>1, InitInv, StepKeeps, PTL DEF Spec

-----------------------------------------------------------------------------
(* Commands and replies, step by step                                      *)

BeforeSession ==
  phase \in {"idle", "connect"} =>
    ~connected /\ ~threw /\ server = "new" /\ toClient = <<>>

(* After a connect that succeeded at once the greeting comes first.        *)
AtOnce == ~connected /\ step = MAIL

Greeted ==
  \/ server = "new" /\ toClient = <<>>
  \/ /\ server = "ready" /\ toClient # <<>>
     /\ toClient[1].to = INIT /\ toClient[1].code # Valid(MAIL)

(* Nothing is on its way when the client sends, but for data.              *)
Quiet ==
  /\ toClient = <<>> /\ step # INIT
  /\ (server = "ready" /\ toServer = <<>>) \/ (server = "data" /\ step > DATA)

(* When it waits, either the command is on its way or its reply.           *)
Asked ==
  /\ toClient = <<>>
  /\ \/ step = INIT /\ server = "new" /\ toServer = <<>>
     \/ step \in EHLO..DATA /\ server = "ready" /\ toServer = <<step>>
     \/ step = END /\ server = "data"

Answered ==
  /\ toServer = <<>> /\ server # "new"
  /\ \E code \in {Valid(step)} \cup Refusals :
       /\ toClient = <<[to |-> step, code |-> code]>>
       /\ step < DATA => server = "ready"
       /\ step = DATA /\ code = Valid(DATA) => server = "data"
       /\ step = END => server = "ready" /\ (code = Valid(END) => accepted # {})

InStep ==
  phase \in {"send", "wait"} /\ step # QUIT =>
    /\ ~threw
    /\ connected \/ step \in {INIT, EHLO, MAIL}
    /\ IF AtOnce THEN Greeted
       ELSE IF phase = "send" THEN Quiet ELSE Asked \/ Answered

(* Without an exception the client quits only what has been accepted; nor  *)
(* does it die of anything else.                                           *)
Ended ==
  /\ phase \in {"send", "wait"} /\ step = QUIT /\ ~threw => accepted # {}
  /\ phase = "dead" => accepted # {}

StepInv == BeforeSession /\ InStep /\ Ended

LEMMA ThrowInStep ==
  ASSUME TypeOK, StepInv, phase \in {"send", "wait"} \/ step # QUIT,
         NEW code, Throw(code), UNCHANGED accepted
  PROVE  StepInv'
<1>1. QUIT' = QUIT /\ threw \in BOOLEAN
  BY DEF QUIT, DATA, TypeOK
<1>2. CASE step = QUIT
  <2>1. step' = QUIT /\ phase' = IF threw THEN "over" ELSE "dead"
    BY <1>2 DEF Throw, GoTo
  <2> QED
    BY <1>1, <1>2, <2>1 DEF StepInv, BeforeSession, InStep, Ended
<1>3. CASE step # QUIT
  <2>1. threw' = TRUE /\ (phase' = "over" \/ (phase' = "send" /\ step' = QUIT))
    BY <1>3 DEF Throw, Disconnect, GoTo
  <2> QED
    BY <1>1, <2>1 DEF StepInv, BeforeSession, InStep, Ended
<1> QED
  BY <1>2, <1>3

LEMMA ProceedInStep ==
  ASSUME SessionInv, StepInv, phase = "wait", toClient # <<>>, toClient' = Tail(toClient),
         Head(toClient).code = Valid(step), Proceed,
         UNCHANGED <<toServer, server, body, accepted>>
  PROVE  StepInv'
<1> USE Numbers
<1>1. /\ EHLO = 2 /\ AUTH = 3 /\ PASS = 5 /\ MAIL = 6 /\ step \in Command /\ step \notin BLOCK
      /\ INIT' = INIT /\ EHLO' = EHLO /\ MAIL' = MAIL /\ DATA' = DATA /\ END' = END /\ QUIT' = QUIT
  BY DEF EHLO, AUTH, PASS, MAIL, INIT, DATA, END, QUIT, SessionInv, TypeOK, ClientInv
<1>2. CASE step = QUIT
  <2>1. phase' = "over"
    BY <1>1, <1>2, ProceedProceeds DEF SessionInv, Proceeds
  <2> QED
    BY <2>1 DEF StepInv, BeforeSession, InStep, Ended
<1>3. CASE step # QUIT /\ AtOnce
  <2>1. Greeted
    BY <1>3 DEF StepInv, InStep
  <2>2. Head(toClient) = toClient[1]
    BY HeadTailProperties DEF SessionInv, TypeOK
  <2> QED
    BY <1>3, <2>1, <2>2 DEF Greeted, AtOnce
<1>4. CASE step # QUIT /\ ~AtOnce
  <2>1. Answered /\ ~threw /\ (connected \/ step \in {INIT, EHLO})
    BY <1>4 DEF StepInv, InStep, AtOnce, Asked
  <2>2. PICK code \in {Valid(step)} \cup Refusals :
          /\ toClient = <<[to |-> step, code |-> code]>>
          /\ step < DATA => server = "ready"
          /\ step = DATA /\ code = Valid(DATA) => server = "data"
          /\ step = END => server = "ready" /\ (code = Valid(END) => accepted # {})
    BY <2>1 DEF Answered
  <2>3. code = Valid(step) /\ toClient' = <<>>
    BY <2>2
  <2>4. CASE step = END
    <3>1. phase' = "send" /\ step' = QUIT /\ accepted' # {}
      BY <1>1, <2>1, <2>2, <2>3, <2>4 DEF Proceed, Disconnect, GoTo
    <3> QED
      BY <1>1, <3>1 DEF StepInv, BeforeSession, InStep, Ended
  <2>5. CASE step # END
    <3>1. /\ phase' = "send" /\ threw' = threw /\ step' # QUIT /\ step' # INIT
          /\ step < DATA => step' <= DATA
          /\ step = DATA => step' > DATA
          /\ connected' \/ (~connected' /\ step' = EHLO)
      <4>1. CASE step = EHLO
        <5>1. PICK c \in AUTH..MAIL : GoTo("send", c) /\ connected' = TRUE /\ UNCHANGED threw
          BY <1>1, <4>1 DEF Proceed, GoTo, Disconnect
        <5> QED
          BY <1>1, <4>1, <5>1 DEF GoTo
      <4>2. CASE step = PASS
        BY <1>1, <2>1, <4>2 DEF Proceed, GoTo
      <4>3. CASE step \notin {EHLO, PASS}
        <5>1. GoTo("send", step + 1) /\ UNCHANGED <<connected, threw>>
          BY <1>4, <2>5, <4>3 DEF Proceed
        <5>2. step <= DATA
          BY <1>1, <1>4, <2>5
        <5> QED
          BY <1>1, <2>1, <4>3, <5>1, <5>2 DEF GoTo
      <4> QED
        BY <4>1, <4>2, <4>3
    <3>2. step <= DATA /\ (server = "ready" \/ (server = "data" /\ step = DATA))
      BY <1>1, <1>4, <2>2, <2>3, <2>5
    <3>3. Quiet'
      BY <1>1, <2>1, <2>3, <3>1, <3>2 DEF Quiet, Answered
    <3>4. InStep'
      BY <1>1, <2>1, <3>1, <3>3 DEF InStep, AtOnce
    <3>5. BeforeSession' /\ Ended'
      BY <1>1, <3>1 DEF BeforeSession, Ended
    <3> QED
      BY <3>4, <3>5 DEF StepInv
  <2> QED
    BY <2>4, <2>5
<1> QED
  BY <1>2, <1>3, <1>4

(* A command is sent when nothing is on its way; a block behind the others. *)
LEMMA SendInStep ==
  ASSUME SessionInv, StepInv, Send
  PROVE  StepInv'
<1> USE Numbers
<1>1. /\ EHLO = 2 /\ MAIL = 6 /\ step \in Command /\ phase = "send"
      /\ INIT' = INIT /\ EHLO' = EHLO /\ MAIL' = MAIL /\ DATA' = DATA /\ END' = END /\ QUIT' = QUIT
      /\ UNCHANGED <<toClient, server, body, accepted>>
  BY DEF EHLO, MAIL, INIT, DATA, END, QUIT, SessionInv, TypeOK, Send, serverVars
<1>2. CASE Throw(NoReply)
  BY <1>1, <1>2, ThrowInStep DEF SessionInv
<1>3. CASE /\ toServer' = Append(toServer, step)
           /\ IF step \in BLOCK THEN GoTo("send", step + 1) ELSE GoTo("wait", step)
           /\ UNCHANGED <<connected, threw>>
  <2>1. CASE step = QUIT
    BY <1>1, <1>3, <2>1 DEF GoTo, StepInv, BeforeSession, InStep, Ended
  <2>2. CASE step # QUIT /\ AtOnce
    <3>1. Greeted' /\ AtOnce' /\ phase' = "wait" /\ step' = step /\ ~threw'
      <4>1. step \notin BLOCK
        BY <1>1, <2>2 DEF AtOnce
      <4>2. Greeted /\ ~threw
        BY <1>1, <2>2 DEF StepInv, InStep
      <4>3. Valid(MAIL)' = Valid(MAIL)
        BY DEF Valid, INIT, EHLO, AUTH, USER, PASS, MAIL, RCPT, DATA, END, QUIT
      <4> QED
        BY <1>1, <1>3, <2>2, <4>1, <4>2, <4>3 DEF Greeted, AtOnce, GoTo
    <3> QED
      BY <1>1, <2>2, <3>1 DEF StepInv, BeforeSession, InStep, Ended, AtOnce
  <2>3. CASE step # QUIT /\ ~AtOnce
    <3>1. Quiet /\ ~threw /\ (connected \/ step \in {INIT, EHLO})
      BY <1>1, <2>3 DEF StepInv, InStep, AtOnce
    <3>2. step > DATA => server = "data"
      BY <1>1, <2>3 DEF SessionInv, BeforeData, DuringData, AfterData
    <3>3. CASE step \in BLOCK
      <4>1. phase' = "send" /\ step' = step + 1 /\ step' # QUIT
        BY <1>1, <1>3, <3>3 DEF GoTo
      <4>2. Quiet'
        BY <1>1, <3>1, <3>2, <3>3, <4>1 DEF Quiet
      <4> QED
        BY <1>1, <1>3, <3>1, <3>3, <4>1, <4>2 DEF StepInv, BeforeSession, InStep, Ended, AtOnce
    <3>4. CASE step \notin BLOCK
      <4>1. phase' = "wait" /\ step' = step
        BY <1>3, <3>4 DEF GoTo
      <4>2. step = END \/ step \in EHLO..DATA
        BY <1>1, <2>3, <3>1, <3>4 DEF Quiet
      <4>3. CASE step = END
        <5>1. Asked'
          BY <1>1, <3>1, <3>2, <4>1, <4>3 DEF Asked, Quiet
        <5> QED
          BY <1>1, <1>3, <3>1, <4>1, <4>3, <5>1
          DEF StepInv, BeforeSession, InStep, Ended, AtOnce
      <4>4. CASE step \in EHLO..DATA
        <5>1. server = "ready" /\ toServer = <<>>
          BY <1>1, <3>1, <4>4 DEF Quiet
        <5>2. toServer' = <<step>>
          BY <1>3, <5>1
        <5>3. Asked'
          BY <1>1, <3>1, <4>1, <4>4, <5>1, <5>2 DEF Asked, Quiet
        <5> QED
          BY <1>1, <1>3, <2>3, <3>1, <4>1, <4>4, <5>3
          DEF StepInv, BeforeSession, InStep, Ended, AtOnce
      <4> QED
        BY <4>2, <4>3, <4>4
    <3> QED
      BY <3>3, <3>4
  <2> QED
    BY <2>1, <2>2, <2>3
<1> QED
  BY <1>2, <1>3 DEF Send

(* What the server adds is a reply to the one command on its way; it adds  *)
(* none to data.                                                           *)
LEMMA GreetInStep ==
  ASSUME SessionInv, StepInv, Greet
  PROVE  StepInv'
<1> USE Numbers
<1>1. /\ EHLO = 2 /\ MAIL = 6 /\ step \in Command
      /\ INIT' = INIT /\ EHLO' = EHLO /\ MAIL' = MAIL /\ DATA' = DATA /\ END' = END /\ QUIT' = QUIT
      /\ server = "new" /\ server' = "ready" /\ phase \notin {"idle", "connect"}
      /\ UNCHANGED <<phase, step, connected, threw, toServer, body, accepted>>
  BY DEF EHLO, MAIL, INIT, DATA, END, QUIT, SessionInv, TypeOK, Greet, clientVars
<1>2. PICK code \in {Valid(INIT)} \cup Refusals :
        toClient' = Append(toClient, [to |-> INIT, code |-> code])
  BY DEF Greet, Reply
<1>3. BeforeSession' /\ Ended'
  BY <1>1 DEF StepInv, BeforeSession, Ended
<1>4. ASSUME phase \in {"send", "wait"}, step # QUIT
      PROVE  IF AtOnce THEN Greeted' ELSE phase = "wait" /\ Answered'
  <2>1. ~threw /\ IF AtOnce THEN Greeted ELSE phase = "wait" /\ Asked /\ step = INIT
    BY <1>1, <1>4 DEF StepInv, InStep, Quiet, Asked, Answered
  <2>2. toClient = <<>>
    BY <1>1, <2>1 DEF Greeted, Asked
  <2>3. toClient' = <<[to |-> INIT, code |-> code]>>
    BY <1>2, <2>2
  <2>4. code # Valid(MAIL) /\ Valid(MAIL)' = Valid(MAIL)
    BY <1>1 DEF Valid, Refusals, INIT, EHLO, AUTH, USER, PASS, MAIL, RCPT, DATA, END, QUIT
  <2>5. CASE AtOnce
    <3>1. toClient'[1] = [to |-> INIT, code |-> code] /\ toClient' # <<>>
      BY <2>3
    <3> QED
      BY <1>1, <2>4, <2>5, <3>1 DEF Greeted
  <2>6. CASE ~AtOnce
    <3>1. Asked /\ step = INIT /\ phase = "wait"
      BY <2>1, <2>6
    <3>2. Valid(step)' = Valid(INIT) /\ Refusals' = Refusals
      BY <1>1, <3>1 DEF Valid, Refusals, INIT, EHLO, AUTH, USER, PASS, MAIL, RCPT, DATA, END, QUIT
    <3>3. toServer' = <<>>
      BY <1>1, <3>1 DEF Asked
    <3>4. code \in ({Valid(step)} \cup Refusals)'
      BY <1>2, <3>2
    <3>5. toClient' = <<[to |-> step', code |-> code]>> /\ server' = "ready"
      BY <1>1, <2>3, <3>1
    <3>6. step' # DATA' /\ step' # END'
      BY <1>1, <3>1
    <3>7. Answered'
      BY <3>3, <3>4, <3>5, <3>6 DEF Answered
    <3> QED
      BY <2>6, <3>1, <3>7
  <2> QED
    BY <2>5, <2>6
<1>5. InStep'
  BY <1>1, <1>4 DEF StepInv, InStep, AtOnce
<1> QED
  BY <1>3, <1>5 DEF StepInv

LEMMA ObeyInStep ==
  ASSUME SessionInv, StepInv, Obey
  PROVE  StepInv'
<1> USE Numbers
<1>1. /\ EHLO = 2 /\ MAIL = 6 /\ step \in Command /\ TypeOK
      /\ INIT' = INIT /\ EHLO' = EHLO /\ MAIL' = MAIL /\ DATA' = DATA /\ END' = END /\ QUIT' = QUIT
      /\ server = "ready" /\ toServer # <<>> /\ toServer' = Tail(toServer)
      /\ UNCHANGED <<phase, step, connected, threw, body, accepted>>
      /\ server' = IF Head(toServer) = DATA /\ Replied(DATA) THEN "data" ELSE "ready"
  BY DEF EHLO, MAIL, INIT, DATA, END, QUIT, SessionInv, TypeOK, Obey, clientVars
<1>2. /\ Head(toServer) \in Command /\ Head(toServer) = toServer[1]
      /\ Len(toServer) \in Nat \ {0}
  BY <1>1, Taken
<1>3. PICK code \in {Valid(Head(toServer))} \cup Refusals :
        /\ toClient' = Append(toClient, [to |-> Head(toServer), code |-> code])
        /\ Replied(Head(toServer)) <=> code = Valid(Head(toServer))
  BY <1>1, <1>2, ReplyType DEF Obey
<1>4. phase \notin {"idle", "connect"}
  BY <1>1 DEF StepInv, BeforeSession
<1>5. BeforeSession' /\ Ended'
  BY <1>1, <1>4 DEF StepInv, BeforeSession, Ended
<1>6. ASSUME phase \in {"send", "wait"}, step # QUIT, AtOnce
      PROVE  Greeted'
  <2>1. toClient # <<>> /\ toClient[1].to = INIT /\ toClient[1].code # Valid(MAIL)
    BY <1>1, <1>6 DEF StepInv, InStep, Greeted
  <2>2. Head(toServer) # DATA
    <3>1. BeforeData
      BY <1>1, <1>6 DEF SessionInv, DuringData, AfterData, AtOnce
    <3>2. ~Sent(DATA)
      BY <1>1, <1>6, <3>1 DEF BeforeData, AtOnce
    <3> QED
      BY <1>2, <3>2 DEF Sent
  <2>3. [to |-> Head(toServer), code |-> code] \in Replies /\ toClient \in Seq(Replies)
    BY <1>1, <1>2 DEF Replies, TypeOK
  <2>4. toClient' # <<>> /\ toClient'[1] = toClient[1]
    <3>1. 1 \in 1..Len(toClient)
      BY <2>1, <2>3, EmptySeq, LenProperties
    <3> QED
      BY <1>3, <2>3, <3>1, AppendProperties
  <2>5. Valid(MAIL)' = Valid(MAIL)
    BY DEF Valid, INIT, EHLO, AUTH, USER, PASS, MAIL, RCPT, DATA, END, QUIT
  <2> QED
    BY <1>1, <2>1, <2>2, <2>4, <2>5 DEF Greeted
<1>7. ASSUME phase \in {"send", "wait"}, step # QUIT, ~AtOnce
      PROVE  phase = "wait" /\ Answered'
  <2>1. Asked /\ phase = "wait"
    BY <1>1, <1>7 DEF StepInv, InStep, Quiet, Answered
  <2>2. toClient = <<>> /\ step \in EHLO..DATA /\ toServer = <<step>>
    BY <1>1, <2>1 DEF Asked
  <2>3. Head(toServer) = step /\ toServer' = <<>>
    BY <1>1, <2>2
  <2>4. toClient' = <<[to |-> step, code |-> code]>>
    BY <1>3, <2>2, <2>3
  <2>5. /\ Valid(step)' = Valid(step) /\ Valid(DATA)' = Valid(DATA) /\ Refusals' = Refusals
    BY <1>1 DEF Valid, Refusals, INIT, EHLO, AUTH, USER, PASS, MAIL, RCPT, DATA, END, QUIT
  <2>6. code \in {Valid(step)} \cup Refusals /\ (Replied(step) <=> code = Valid(step))
    BY <1>3, <2>3
  <2>7. /\ step < DATA => server' = "ready"
        /\ step = DATA /\ code = Valid(DATA) => server' = "data"
        /\ step # END /\ server' # "new"
    BY <1>1, <2>2, <2>3, <2>6
  <2>8. Answered'
    BY <1>1, <2>3, <2>4, <2>5, <2>6, <2>7 DEF Answered
  <2> QED
    BY <2>1, <2>8
<1>8. InStep'
  BY <1>1, <1>6, <1>7 DEF StepInv, InStep, AtOnce
<1> QED
  BY <1>5, <1>8 DEF StepInv

LEMMA ReadInStep ==
  ASSUME SessionInv, StepInv, ReadData
  PROVE  StepInv'
<1> USE Numbers
<1>1. /\ EHLO = 2 /\ MAIL = 6 /\ step \in Command /\ TypeOK
      /\ INIT' = INIT /\ EHLO' = EHLO /\ MAIL' = MAIL /\ DATA' = DATA /\ END' = END /\ QUIT' = QUIT
      /\ server = "data" /\ toServer # <<>> /\ toServer' = Tail(toServer)
      /\ UNCHANGED <<phase, step, connected, threw>>
      /\ accepted \subseteq accepted'
  BY DEF EHLO, MAIL, INIT, DATA, END, QUIT, SessionInv, TypeOK, ReadData, clientVars
<1>2. /\ Head(toServer) \in Command /\ Head(toServer) = toServer[1]
      /\ Len(toServer) \in Nat \ {0} /\ Len(toServer') = Len(toServer) - 1
      /\ \A j \in 1..Len(toServer') : toServer'[j] = toServer[j + 1]
  BY <1>1, Taken
<1>3. DuringData /\ Len(body) \in Nat
  BY <1>1, LenProperties DEF SessionInv, BeforeData, AfterData, TypeOK
<1>4. phase \notin {"idle", "connect"}
  BY <1>1 DEF StepInv, BeforeSession
<1>5. BeforeSession' /\ Ended'
  BY <1>1, <1>4 DEF StepInv, BeforeSession, Ended
<1>6. ASSUME phase \in {"send", "wait"}, step # QUIT
      PROVE  InStep'
  <2>1. /\ ~AtOnce /\ ~threw /\ (connected \/ step \in {INIT, EHLO, MAIL})
        /\ IF phase = "send" THEN Quiet ELSE Asked
    BY <1>1, <1>6 DEF StepInv, InStep, Greeted, Answered
  <2>2. ~Sent(QUIT)
    BY <1>6 DEF SessionInv, ClientInv
  <2>3. \A j \in 1..Len(toServer) : toServer[j] = DATA + Len(body) + j /\ toServer[j] # QUIT
    BY <1>3, <2>2 DEF DuringData, Sent
  <2>4. CASE Head(toServer) = END
    <3>1. phase = "wait" /\ step = END /\ toClient = <<>>
      <4>1. Len(body) = NumBlocks
        BY <1>2, <2>3, <2>4
      <4>2. CASE phase = "send"
        <5>1. step > DATA /\ NumBlocks + Len(toServer) = step - DATA - 1
          BY <1>3, <1>6, <4>1, <4>2 DEF DuringData
        <5>2. NumBlocks \in Nat /\ step \in 1..(10 + NumBlocks) /\ step # 10 + NumBlocks
          BY <1>1, <1>6
        <5>3. Len(toServer) > 0
          BY <1>2
        <5> QED
          BY <1>2, <5>1, <5>2, <5>3
      <4> QED
        BY <1>1, <1>6, <2>1, <4>2 DEF Asked
    <3>2. toServer' = <<>>
      <4>1. Len(body) = NumBlocks
        BY <1>2, <2>3, <2>4
      <4>2. 2 \notin 1..Len(toServer)
        BY <1>3, <2>3, <4>1
      <4>3. Len(toServer') = 0 /\ toServer' \in Seq(Command)
        BY <1>1, <1>2, <4>2, HeadTailProperties DEF TypeOK
      <4> QED
        BY <4>3, EmptySeq
    <3>3. PICK code \in {Valid(END)} \cup Refusals :
            /\ toClient' = Append(toClient, [to |-> END, code |-> code])
            /\ Replied(END) <=> code = Valid(END)
      <4>1. END \in Command /\ Reply(END)
        BY <1>2, <2>4 DEF ReadData
      <4> HIDE DEF END
      <4> QED
        BY <1>1, <4>1, ReplyType
    <3>4. toClient' = <<[to |-> END, code |-> code]>>
      BY <3>1, <3>3
    <3>5. server' = "ready" /\ (code = Valid(END) => accepted' # {})
      BY <2>4, <3>3 DEF ReadData
    <3>6. Valid(step)' = Valid(END) /\ Valid(END)' = Valid(END) /\ Refusals' = Refusals
      BY <1>1, <3>1 DEF Valid, Refusals, INIT, EHLO, AUTH, USER, PASS, MAIL, RCPT, DATA, END, QUIT
    <3>7. code \in ({Valid(step)} \cup Refusals)'
      BY <3>3, <3>6
    <3>8. toClient' = <<[to |-> step', code |-> code]>> /\ step' = END
      BY <1>1, <3>1, <3>4
    <3>9. step' # DATA' /\ ~(step' < DATA') /\ (code = Valid(END)' => accepted' # {})
      BY <1>1, <3>5, <3>6, <3>8
    <3>10. Answered'
      BY <3>2, <3>5, <3>7, <3>8, <3>9 DEF Answered
    <3> QED
      BY <1>1, <2>1, <3>1, <3>10 DEF InStep, AtOnce
  <2>5. CASE Head(toServer) # END
    <3>1. UNCHANGED <<toClient, server>>
      BY <2>5 DEF ReadData
    <3>2. phase = "send" => Quiet'
      BY <1>1, <2>1, <3>1 DEF Quiet
    <3>3. phase = "wait" => Asked'
      BY <1>1, <2>1, <3>1 DEF Asked
    <3> QED
      BY <1>1, <1>6, <2>1, <3>2, <3>3 DEF InStep, AtOnce
  <2> QED
    BY <2>4, <2>5
<1> QED
  BY <1>1, <1>5, <1>6 DEF StepInv, InStep

LEMMA InitInStep == Init => StepInv
  BY DEF Init, StepInv, BeforeSession, InStep, Ended

LEMMA StepInStep == SessionInv /\ StepInv /\ [Next]_vars => StepInv'
<1> SUFFICES ASSUME SessionInv, StepInv, [Next]_vars
             PROVE  StepInv'
  OBVIOUS
<1>0. /\ EHLO = 2 /\ MAIL = 6 /\ INIT = 1 /\ TypeOK
      /\ INIT' = INIT /\ EHLO' = EHLO /\ MAIL' = MAIL /\ DATA' = DATA /\ END' = END /\ QUIT' = QUIT
      /\ QUIT > MAIL
  BY Numbers DEF EHLO, MAIL, INIT, DATA, END, QUIT, SessionInv
<1>1. ASSUME phase \in {"idle", "connect"}
      PROVE  /\ step = INIT /\ toServer = <<>> /\ ~connected /\ ~threw
             /\ server = "new" /\ toClient = <<>>
  BY <1>1 DEF SessionInv, ClientInv, StepInv, BeforeSession
<1>2. CASE Start
  BY <1>1, <1>2 DEF Start, serverVars, StepInv, BeforeSession, InStep, Ended
<1>3. CASE Clear
  BY <1>3 DEF Clear, StepInv, BeforeSession, InStep, Ended
<1>4. CASE Connect
  <2>1. CASE GoTo("wait", INIT) /\ UNCHANGED <<connected, threw>>
    <3>1. Asked' /\ step' = INIT /\ phase' = "wait" /\ ~threw'
      BY <1>0, <1>1, <1>4, <2>1 DEF Connect, GoTo, serverVars, Asked
    <3> QED
      BY <1>0, <3>1 DEF StepInv, BeforeSession, InStep, Ended, AtOnce
  <2>2. CASE step = INIT /\ Throw(NoReply)
    BY <1>0, <1>4, <2>2, ThrowInStep DEF Connect, serverVars
  <2> QED
    BY <1>4, <2>1, <2>2 DEF Connect
<1>5. CASE ConnectAtOnce
  BY <1>0, <1>1, <1>5
  DEF ConnectAtOnce, GoTo, serverVars, StepInv, BeforeSession, InStep, Ended, AtOnce, Greeted
<1>6. CASE ConnectFails
  BY <1>6 DEF ConnectFails, GoTo, StepInv, BeforeSession, InStep, Ended
<1>7. CASE Receive
  <2>1. CASE Head(toClient).code = Valid(step)
    BY <1>7, <2>1, ProceedInStep DEF Receive, serverVars
  <2>2. CASE Head(toClient).code # Valid(step)
    BY <1>0, <1>7, <2>2, ThrowInStep DEF Receive, serverVars
  <2> QED
    BY <2>1, <2>2
<1>8. CASE NothingComes
  BY <1>0, <1>8, ThrowInStep DEF NothingComes, serverVars
<1>9. CASE OnlyPart
  BY <1>0, <1>9 DEF OnlyPart, clientVars, StepInv, BeforeSession, InStep, Ended,
                    AtOnce, Greeted, Quiet, Asked, Answered, Valid, Refusals,
                    INIT, EHLO, AUTH, USER, PASS, MAIL, RCPT, DATA, END, QUIT
<1> QED
  BY <1>2, <1>3, <1>4, <1>5, <1>6, <1>7, <1>8, <1>9,
     SendInStep, GreetInStep, ObeyInStep, ReadInStep, PartsAreOnlyPart
  DEF Next, Client, Server

(* The client takes for the reply to a command only the reply to that      *)
(* command, but when it quits or when the connect succeeded at once:       *)
(* CSmtp::ReceiveResponse.                                                 *)
THEOREM RepliesInStepAlways == Spec => []RepliesInStep
<1>1. SessionInv /\ StepInv => RepliesInStep
  <2> SUFFICES ASSUME SessionInv, StepInv, phase = "wait", toClient # <<>>, step # QUIT,
                      Head(toClient).to # step
               PROVE  step = MAIL /\ Head(toClient).to = INIT /\ ~connected
    BY DEF RepliesInStep
  <2>1. Head(toClient) = toClient[1]
    BY HeadTailProperties DEF SessionInv, TypeOK
  <2>2. CASE AtOnce
    BY <2>1, <2>2 DEF StepInv, InStep, Greeted, AtOnce
  <2>3. CASE ~AtOnce
    <3>1. Answered
      BY <2>3 DEF StepInv, InStep, Asked
    <3> QED
      BY <2>1, <3>1 DEF Answered
  <2> QED
    BY <2>2, <2>3
<1> QED
  BY <1>1, InitInv, InitInStep, StepKeeps, StepInStep, PTL DEF Spec

-----------------------------------------------------------------------------
(* The refinement                                                          *)

LEMMA StepRefines ==
  ASSUME SessionInv, StepInv, [Next]_vars
  PROVE  [Promise!Next]_(Promise!vars)
<1> DEFINE taken == accepted # {}
<1>1. CASE Start
  <2>1. Call = "none" /\ Call' = "running" /\ taken' = taken
    BY <1>1 DEF Start, Call, serverVars
  <2> QED
    BY <2>1 DEF Promise!Next, Promise!Start
<1>2. CASE Clear
  <2>1. Call \in {"returned", "died"} /\ Call' = "none" /\ accepted' = {}
    BY <1>2 DEF Clear, Call
  <2> QED
    BY <2>1 DEF Promise!Next, Promise!Clear
<1>3. CASE Client /\ ~ReceivePart
  <2>1. Call = "running" /\ UNCHANGED accepted
    BY <1>3 DEF Client, Connect, ConnectAtOnce, ConnectFails, Send, Receive, NothingComes,
                Call, serverVars
  <2>2. phase' \in {"send", "wait", "over", "dead"}
    <3>1. Throw(NoReply) => phase' \in {"send", "over", "dead"}
      BY ThrowIsThrown DEF SessionInv, Thrown
    <3>2. Receive => phase' \in {"send", "over", "dead"}
      BY ThrowIsThrown, ProceedProceeds DEF Receive, SessionInv, Thrown, Proceeds
    <3> QED
      BY <1>3, <3>1, <3>2
      DEF Client, Connect, ConnectAtOnce, ConnectFails, Send, NothingComes, GoTo
  <2>3. phase' = "dead" => taken
    BY <2>1, StepInStep DEF StepInv, Ended
  <2>4. CASE phase' \in {"send", "wait"}
    <3>1. Call' = "running"
      BY <2>4 DEF Call
    <3> QED
      BY <2>1, <3>1 DEF Promise!vars
  <2>5. CASE phase' = "over"
    <3>1. Call' = "returned"
      BY <2>5 DEF Call
    <3> QED
      BY <2>1, <3>1 DEF Promise!Next, Promise!Return
  <2>6. CASE phase' = "dead"
    <3>1. Call' = "died"
      BY <2>6 DEF Call
    <3> QED
      BY <2>1, <2>3, <2>6, <3>1 DEF Promise!Next, Promise!Die
  <2> QED
    BY <2>2, <2>4, <2>5, <2>6
<1>4. CASE Greet \/ Obey \/ ReadData
  <2>1. Call' = Call
    BY <1>4 DEF Greet, Obey, ReadData, clientVars, Call
  <2>2. CASE accepted' = accepted
    BY <2>1, <2>2 DEF Promise!vars
  <2>3. CASE accepted' # accepted
    <3>1. ReadData /\ accepted' # {}
      BY <1>4, <2>3 DEF Greet, Obey, ReadData
    <3>2. DuringData
      BY <3>1 DEF SessionInv, BeforeData, AfterData, ReadData
    <3>3. phase \in {"send", "wait", "over"}
      BY <3>2 DEF DuringData, StepInv, Ended
    <3>4. Call \in {"running", "returned"}
      BY <3>3 DEF Call
    <3> QED
      BY <2>1, <3>1, <3>4 DEF Promise!Next, Promise!Accept
  <2> QED
    BY <2>2, <2>3
<1>5. CASE OnlyPart
  BY <1>5 DEF OnlyPart, clientVars, Call, Promise!vars
<1> QED
  BY <1>1, <1>2, <1>3, <1>4, <1>5, PartsAreOnlyPart DEF Next, Server

(* A session is a call of the Mailer: Email_SMTP_send_simple ends the      *)
(* process only with a mail that the server has accepted.                  *)
THEOREM MailerRefinement == Spec => ImplementsMailer
<1>1. Init => Promise!Init
  BY DEF Init, Promise!Init, Call
<1>2. SessionInv /\ StepInv /\ [Next]_vars => [Promise!Next]_(Promise!vars)
  BY StepRefines
<1> QED
  BY <1>1, <1>2, InitInv, InitInStep, StepKeeps, StepInStep, PTL DEF Spec, ImplementsMailer
=============================================================================
