------------------------ MODULE Connections_proofs ------------------------
(***************************************************************************)
(* Proofs about Connections, for any numbers of handles, workers,          *)
(* connections, messages and restarts, and whatever handles the system     *)
(* gives out: the types; that a context is handled by one at a time and is *)
(* deleted only by the last, but where two connections were crossed; and   *)
(* that a worker ends only when it is told to.                             *)
(***************************************************************************)
EXTENDS Connections, FiniteSetTheorems, SequenceTheorems, TLAPS

-----------------------------------------------------------------------------
(* The inductive invariant                                                 *)

Known(x) == x \in Conn /\ ctx[x] # "none"

(* A context is made for a connection that has been accepted; whatever     *)
(* goes on about a connection concerns one that has a context.             *)
ContextInv ==
  /\ \A x \in Conn : ctx[x] # "none" => x <= accepted
  /\ \A x \in keys : ctx[x] # "none"
  /\ \A x \in Conn : x <= accepted => sock[x] \in Handle
  /\ apc = "key" => accepted \in Conn /\ ctx[accepted] = "none"
  /\ \A i \in 1..Len(port) : port[i].kind # "exit" => Known(port[i].key)
  /\ \A i \in 1..Len(port) : port[i].kind = "exit" => port[i].key = None
  /\ \A w \in Worker : Inside(w) => Known(wkey[w])
  /\ \A x \in Conn : jobs[x] > 0 \/ ends[x] > 0 => ctx[x] # "none"

TypeInv == TypeOK /\ ContextInv

-----------------------------------------------------------------------------

(* An open socket is that of the connection that was given its handle last. *)
OwnerInv ==
  \A h \in Handle : owner[h] # None => owner[h] <= accepted /\ sock[owner[h]] = h

(* A context that was not crossed is in one place: a pending receive, a    *)
(* packet or a worker; or it is in none, not made yet, deleted or forgotten. *)
PacketsOf(x) == {i \in 1..Len(port) : port[i].key = x}
WorkersOf(x) == {w \in Worker : Inside(w) /\ wkey[w] = x}

Pending(x) == pend[x] = 1 /\ PacketsOf(x) = {} /\ WorkersOf(x) = {}
Queued(x)  == pend[x] = 0 /\ (\E i : PacketsOf(x) = {i}) /\ WorkersOf(x) = {}
AtWork(x)  == pend[x] = 0 /\ PacketsOf(x) = {} /\ \E w : WorkersOf(x) = {w}
Nowhere(x) == pend[x] = 0 /\ PacketsOf(x) = {} /\ WorkersOf(x) = {}

Held(x) == ctx[x] = "live" /\ x \notin forgotten /\ (Pending(x) \/ Queued(x) \/ AtWork(x))

Out(x) ==
  /\ Nowhere(x)
  /\ ctx[x] = "live" => x \in forgotten
  /\ x \in forgotten => ctx[x] # "none"

Place(x) == Held(x) \/ Out(x)

PlaceInv == \A x \in Conn : x \notin crossed => Place(x)

(* The set holds the contexts but for those that are about to be deleted.  *)
Closing(x) == \E w \in Worker : wpc[w] = "close" /\ wkey[w] = x

KeysInv == \A x \in Conn : x \notin crossed => (x \in keys <=> ctx[x] = "live" /\ ~Closing(x))

ExitInv ==
  /\ \A i \in 1..Len(port) : port[i].kind = "exit" => apc = "join"
  /\ apc = "restart" => \A w \in Worker : wpc[w] = "gone"

ConnInv == TypeInv /\ OwnerInv /\ PlaceInv /\ KeysInv /\ ExitInv

-----------------------------------------------------------------------------
(* The queue                                                               *)

LEMMA CopiesJoined ==
  ASSUME NEW s \in Seq(Packets), NEW p \in Packets, NEW n \in Nat
  PROVE  /\ s \o Copies(n, p) \in Seq(Packets)
         /\ Len(s) \in Nat
         /\ Len(s \o Copies(n, p)) = Len(s) + n
         /\ \A i \in 1..Len(s) : (s \o Copies(n, p))[i] = s[i]
         /\ \A i \in (Len(s) + 1)..(Len(s) + n) : (s \o Copies(n, p))[i] = p
<1> DEFINE t == Copies(n, p)
<1>1. t \in Seq(Packets) /\ Len(t) = n /\ \A i \in 1..n : t[i] = p
  BY IsASeq DEF Copies
<1>2. Len(s) \in Nat
  BY LenProperties
<1>3. /\ s \o t \in Seq(Packets)
      /\ Len(s \o t) = Len(s) + Len(t)
      /\ \A i \in 1..(Len(s) + Len(t)) :
           (s \o t)[i] = IF i <= Len(s) THEN s[i] ELSE t[i - Len(s)]
  BY <1>1, ConcatProperties
<1> HIDE DEF t
<1>4. ASSUME NEW i \in (Len(s) + 1)..(Len(s) + n)
      PROVE  (s \o t)[i] = p
  <2>1. i - Len(s) \in 1..n /\ ~(i <= Len(s)) /\ i \in 1..(Len(s) + Len(t))
    BY <1>1, <1>2
  <2> QED
    BY <1>1, <1>3, <2>1
<1>5. \A i \in 1..Len(s) : (s \o t)[i] = s[i]
  BY <1>1, <1>2, <1>3
<1> QED
  BY <1>1, <1>2, <1>3, <1>4, <1>5 DEF t

LEMMA PortJoined ==
  ASSUME NEW n \in Nat, NEW p \in Packets, port \in Seq(Packets)
  PROVE  /\ Len(port) \in Nat /\ Len(port \o Copies(n, p)) = Len(port) + n
         /\ \A i \in 1..Len(port) : (port \o Copies(n, p))[i] = port[i]
         /\ \A i \in (Len(port) + 1)..(Len(port) + n) : (port \o Copies(n, p))[i] = p
<1>1. /\ port \o Copies(n, p) \in Seq(Packets)
      /\ Len(port) \in Nat
      /\ Len(port \o Copies(n, p)) = Len(port) + n
      /\ \A i \in 1..Len(port) : (port \o Copies(n, p))[i] = port[i]
      /\ \A i \in (Len(port) + 1)..(Len(port) + n) : (port \o Copies(n, p))[i] = p
  BY CopiesJoined
<1> QED
  BY <1>1

LEMMA AppendPacket ==
  ASSUME TypeOK, NEW p \in Packets, port' = Append(port, p)
  PROVE  /\ port' \in Seq(Packets) /\ Len(port) \in Nat /\ Len(port') = Len(port) + 1
         /\ \A i \in 1..Len(port) : port'[i] = port[i]
         /\ port'[Len(port) + 1] = p
         /\ \A i \in 1..Len(port') : i \in 1..Len(port) \/ i = Len(port) + 1
<1>1. port \in Seq(Packets)
  BY DEF TypeOK
<1>2. /\ port' \in Seq(Packets) /\ Len(port) \in Nat /\ Len(port') = Len(port) + 1
      /\ \A i \in 1..Len(port) : port'[i] = port[i]
      /\ port'[Len(port) + 1] = p
  BY <1>1, AppendProperties, LenProperties
<1> QED
  BY <1>2

LEMMA TailPacket ==
  ASSUME TypeOK, port # <<>>, port' = Tail(port)
  PROVE  /\ port' \in Seq(Packets) /\ Len(port) \in Nat \ {0} /\ Len(port') = Len(port) - 1
         /\ Head(port) = port[1] /\ Head(port) \in Packets
         /\ \A i \in 1..Len(port') : i + 1 \in 1..Len(port) /\ port'[i] = port[i + 1]
<1>1. port \in Seq(Packets)
  BY DEF TypeOK
<1>2. /\ port' \in Seq(Packets) /\ Len(port) \in Nat \ {0} /\ Len(port') = Len(port) - 1
      /\ Head(port) = port[1] /\ Head(port) \in Packets
      /\ \A i \in 1..Len(port') : port'[i] = port[i + 1]
  BY <1>1, HeadTailProperties, EmptySeq
<1> QED
  BY <1>2

(* The packets of the port were there before, or are new ones for a        *)
(* connection that has a context, or exit packets.                         *)
ContextsStay == \A x \in Conn : ctx[x] # "none" => ctx'[x] # "none"

OldOrKnown ==
  \A i \in 1..Len(port') :
    \/ \E j \in 1..Len(port) : port'[i] = port[j]
    \/ /\ port'[i].kind # "exit" /\ port'[i].key \in Conn
       /\ ctx'[port'[i].key] # "none"
    \/ port'[i] = Packet(None, "exit")

LEMMA PacketsKept ==
  ASSUME TypeInv, OldOrKnown, ContextsStay
  PROVE  /\ (\A i \in 1..Len(port) : port[i].kind # "exit" => Known(port[i].key))'
         /\ (\A i \in 1..Len(port) : port[i].kind = "exit" => port[i].key = None)'
<1>1. SUFFICES ASSUME NEW i \in 1..Len(port')
               PROVE  /\ port'[i].kind # "exit" =>
                           port'[i].key \in Conn /\ ctx'[port'[i].key] # "none"
                      /\ port'[i].kind = "exit" => port'[i].key = None
  BY DEF Known, Conn, None
<1>2. CASE \E j \in 1..Len(port) : port'[i] = port[j]
  BY <1>2 DEF TypeInv, ContextInv, Known, ContextsStay
<1> QED
  BY <1>2 DEF OldOrKnown, Packet

LEMMA CompletedTypes ==
  ASSUME TypeInv, ContextsStay, NEW x \in Conn, NEW kind \in {"eof", "abort"},
         port' = port \o Completed(x, kind)
  PROVE  port' \in Seq(Packets) /\ OldOrKnown
<1>1. Packet(x, kind) \in Packets /\ pend[x] \in Nat /\ port \in Seq(Packets)
  BY DEF Packet, Packets, TypeInv, TypeOK
<1>2. CASE ctx[x] = "none"
  <2>1. port' = port
    BY <1>1, <1>2, ConcatEmptySeq DEF Completed
  <2> QED
    BY <1>1, <2>1 DEF OldOrKnown
<1>3. CASE ctx[x] # "none"
  <2> DEFINE p == Packet(x, kind)
             n == pend[x]
  <2>1. port' = port \o Copies(n, p) /\ p \in Packets /\ n \in Nat
    BY <1>1, <1>3 DEF Completed
  <2>2. p.kind # "exit" /\ p.key \in Conn /\ ctx'[p.key] # "none"
    BY <1>3 DEF Packet, ContextsStay
  <2> HIDE DEF p, n
  <2>3. /\ port' \in Seq(Packets) /\ Len(port) \in Nat /\ Len(port') = Len(port) + n
        /\ \A i \in 1..Len(port) : port'[i] = port[i]
        /\ \A i \in (Len(port) + 1)..(Len(port) + n) : port'[i] = p
    <3>1. port \in Seq(Packets)
      BY <1>1
    <3>2. /\ port \o Copies(n, p) \in Seq(Packets) /\ Len(port) \in Nat
          /\ Len(port \o Copies(n, p)) = Len(port) + n
          /\ \A i \in 1..Len(port) : (port \o Copies(n, p))[i] = port[i]
          /\ \A i \in (Len(port) + 1)..(Len(port) + n) : (port \o Copies(n, p))[i] = p
      BY <2>1, <3>1, CopiesJoined
    <3> QED
      BY <2>1, <3>2
  <2>4. \A i \in 1..Len(port') : i \in 1..Len(port) \/ i \in (Len(port) + 1)..(Len(port) + n)
    BY <2>1, <2>3
  <2> QED
    BY <2>2, <2>3, <2>4 DEF OldOrKnown
<1> QED
  BY <1>2, <1>3

LEMMA CloseTypes ==
  ASSUME TypeInv, ContextsStay, NEW h \in Handle, CloseHandle(h)
  PROVE  /\ owner' \in [Handle -> Conn \cup {None}]
         /\ pend' \in [Conn -> Nat]
         /\ port' \in Seq(Packets) /\ OldOrKnown
<1>1. /\ owner \in [Handle -> Conn \cup {None}] /\ pend \in [Conn -> Nat] /\ port \in Seq(Packets)
      /\ None \notin Conn
  BY DEF TypeInv, TypeOK, Conn, None
<1>2. owner' \in [Handle -> Conn \cup {None}]
  BY <1>1 DEF CloseHandle
<1>3. CASE owner[h] = None
  BY <1>1, <1>2, <1>3 DEF CloseHandle, OldOrKnown
<1>4. CASE owner[h] # None
  <2>1. /\ owner[h] \in Conn /\ pend' = [pend EXCEPT ![owner[h]] = 0]
        /\ port' = port \o Completed(owner[h], "abort")
    BY <1>1, <1>4 DEF CloseHandle
  <2>2. port' \in Seq(Packets) /\ OldOrKnown
    BY <2>1, CompletedTypes
  <2> QED
    BY <1>1, <1>2, <2>1, <2>2
<1> QED
  BY <1>3, <1>4

-----------------------------------------------------------------------------
(* The types                                                               *)

LEMMA InitTypes == Init => TypeInv
<1> SUFFICES ASSUME Init
             PROVE  TypeInv
  OBVIOUS
<1>1. TypeOK
  BY ConnectionsAssumption, EmptySeq DEF Init, TypeOK, Conn, None
<1>2. ContextInv
  BY EmptySeq DEF Init, ContextInv, Known, Inside, Conn
<1> QED
  BY <1>1, <1>2 DEF TypeInv

(* What is left of ContextInv when ctx, sock and accepted stay.            *)
LEMMA SameContexts ==
  ASSUME TypeInv, OldOrKnown, UNCHANGED <<ctx, sock, accepted, apc>>, keys' \subseteq keys,
         \A w \in Worker : Inside(w)' =>
           \/ Inside(w) /\ wkey'[w] = wkey[w]
           \/ \E i \in 1..Len(port) : port[i].kind # "exit" /\ wkey'[w] = port[i].key,
         \A x \in Conn : jobs'[x] > 0 \/ ends'[x] > 0 => ctx[x] # "none"
  PROVE  ContextInv'
<1>1. ContextsStay
  BY DEF ContextsStay
<1>2. (\A w \in Worker : Inside(w) => Known(wkey[w]))'
  BY DEF TypeInv, ContextInv, Known, Conn
<1> QED
  BY <1>1, <1>2, PacketsKept DEF TypeInv, ContextInv, Conn, None

LEMMA ClientTypes ==
  ASSUME TypeInv, NEW x \in Conn, Send(x) \/ Fin(x) \/ Reset(x)
  PROVE  TypeInv'
<1>0. UNCHANGED <<ctx, keys, sock, accepted, apc, wpc, wkey, jobs, ends, crossed, forgotten>>
  BY DEF Send, Fin, Reset, Leave, keyVars, workerVars, jobVars, acceptVars, pastVars
<1>1. port' \in Seq(Packets) /\ OldOrKnown
  <2>1. CASE Send(x)
    <3>1. Packet(x, "data") \in Packets
      BY DEF Packet, Packets
    <3> QED
      BY <1>0, <2>1, <3>1, AppendPacket DEF Send, TypeInv, OldOrKnown, Packet
  <2>2. ASSUME NEW how, NEW kind \in {"eof", "abort"}, Leave(x, how, kind)
        PROVE  port' \in Seq(Packets) /\ OldOrKnown
    BY <1>0, <2>2, CompletedTypes DEF Leave, ContextsStay
  <2> QED
    BY <2>1, <2>2 DEF Fin, Reset
<1>2. TypeOK'
  <2>1. CASE Send(x)
    <3>1. pend' \in [Conn -> Nat] /\ sent' \in 0..MaxSends
      BY <2>1, ConnectionsAssumption DEF Send, TypeInv, TypeOK
    <3> QED
      BY <1>0, <1>1, <2>1, <3>1 DEF Send, TypeInv, TypeOK, keyVars, workerVars, jobVars, acceptVars
  <2>2. ASSUME NEW how \in {"fin", "reset"}, NEW kind, Leave(x, how, kind)
        PROVE  TypeOK'
    BY <1>0, <1>1, <2>2 DEF Leave, TypeInv, TypeOK, keyVars, workerVars, jobVars, acceptVars
  <2> QED
    BY <2>1, <2>2 DEF Fin, Reset
<1>3. ContextInv'
  BY <1>0, <1>1, SameContexts DEF TypeInv, ContextInv, Inside
<1> QED
  BY <1>2, <1>3 DEF TypeInv

LEMMA SaveTypes ==
  ASSUME TypeInv, NEW x \in Conn, SaveStep(x)
  PROVE  TypeInv'
<1>1. UNCHANGED <<accepted, sock, peer, ctx, keys, wpc, wkey, apc, listening, sent, restarts,
                  crossed, forgotten>>
  BY DEF SaveStep, HandlerCloses, HandlerReturns, Answer, netVars, keyVars, workerVars,
         acceptVars, pastVars
<1>2. jobs[x] > 0 \/ ends[x] > 0
  BY DEF SaveStep, HandlerCloses, HandlerReturns, Answer
<1>3. sock[x] \in Handle
  BY <1>2 DEF TypeInv, ContextInv
<1>4. jobs' \in [Conn -> Nat] /\ ends' \in [Conn -> Nat]
  <2>1. jobs \in [Conn -> Nat] /\ ends \in [Conn -> Nat]
    BY DEF TypeInv, TypeOK
  <2>2. CASE HandlerCloses(x) \/ HandlerReturns(x)
    BY <2>1, <2>2 DEF HandlerCloses, HandlerReturns
  <2>3. CASE Answer(x)
    BY <2>1, <2>3 DEF Answer
  <2> QED
    BY <2>2, <2>3 DEF SaveStep
<1>5. /\ owner' \in [Handle -> Conn \cup {None}] /\ pend' \in [Conn -> Nat]
      /\ port' \in Seq(Packets) /\ OldOrKnown
  <2>1. CASE CloseHandle(sock[x])
    BY <1>1, <1>3, <2>1, CloseTypes DEF ContextsStay
  <2>2. CASE UNCHANGED <<owner, pend, port>>
    BY <2>2 DEF OldOrKnown, TypeInv, TypeOK
  <2> QED
    BY <2>1, <2>2 DEF SaveStep, HandlerCloses, HandlerReturns, Answer, netVars
<1>6. TypeOK'
  BY <1>1, <1>4, <1>5 DEF TypeInv, TypeOK
<1>7. \A y \in Conn : jobs'[y] > 0 \/ ends'[y] > 0 => ctx[y] # "none"
  <2>1. ctx[x] # "none"
    BY <1>2 DEF TypeInv, ContextInv
  <2>2. \A y \in Conn \ {x} : jobs'[y] = jobs[y] /\ ends'[y] = ends[y]
    BY DEF SaveStep, HandlerCloses, HandlerReturns, Answer, TypeInv, TypeOK
  <2> QED
    BY <2>1, <2>2 DEF TypeInv, ContextInv
<1>8. ContextInv'
  BY <1>1, <1>5, <1>7, SameContexts DEF Inside
<1> QED
  BY <1>6, <1>8 DEF TypeInv

LEMMA AcceptTypes ==
  ASSUME TypeInv, NEW h \in Handle, Accept(h)
  PROVE  TypeInv'
<1>1. /\ accepted \in Nat /\ accepted + 1 \in Conn /\ accepted + 1 \in 0..MaxAccepts
      /\ accepted' = accepted + 1
  BY ConnectionsAssumption DEF Accept, TypeInv, TypeOK, Conn
<1>2. /\ UNCHANGED <<peer, pend, ctx, keys, port, wpc, wkey, jobs, ends, listening, restarts,
                     sent, crossed, forgotten>>
      /\ sock' = [sock EXCEPT ![accepted + 1] = h]
      /\ apc' \in {"key", "accept"} /\ apc = "accept"
  BY DEF Accept, AcceptAt, keyVars, workerVars, jobVars, pastVars
<1>3. owner' \in [Handle -> Conn \cup {None}]
  BY <1>1 DEF Accept, TypeInv, TypeOK
<1>4. TypeOK'
  BY <1>1, <1>2, <1>3 DEF TypeInv, TypeOK
<1>5. OldOrKnown /\ ContextsStay
  BY <1>2 DEF OldOrKnown, ContextsStay
<1>6. \A x \in Conn : ctx[x] # "none" => x <= accepted
  BY DEF TypeInv, ContextInv
<1>7. \A x \in Conn : x <= accepted' => sock'[x] \in Handle
  BY <1>1, <1>2 DEF TypeInv, TypeOK, ContextInv, Conn
<1>8. \A x \in Conn : ctx'[x] # "none" => x <= accepted'
  BY <1>1, <1>2, <1>6 DEF Conn
<1>9. ctx[accepted + 1] = "none"
  BY <1>1, <1>6
<1>10. (\A w \in Worker : Inside(w) => Known(wkey[w]))'
  BY <1>2 DEF TypeInv, ContextInv, Known, Conn, Inside
<1>11. ContextInv'
  BY <1>1, <1>2, <1>5, <1>7, <1>8, <1>9, <1>10, PacketsKept DEF TypeInv, ContextInv, Conn, None
<1> QED
  BY <1>4, <1>11 DEF TypeInv

LEMMA NewKeyTypes ==
  ASSUME TypeInv, NewKey
  PROVE  TypeInv'
<1> DEFINE x == accepted
<1>1. /\ x \in Conn /\ ctx' = [ctx EXCEPT ![x] = "live"] /\ keys' = keys \cup {x}
      /\ UNCHANGED <<accepted, sock, owner, peer, wpc, wkey, jobs, ends, listening, restarts, sent>>
      /\ apc' = "accept" /\ crossed' = crossed /\ forgotten' \in {forgotten, forgotten \cup {x}}
  BY DEF NewKey, AcceptAt, TypeInv, ContextInv, workerVars, jobVars
<1>2. ctx' \in [Conn -> {"none", "live", "deleted"}] /\ ctx'[x] = "live" /\ ContextsStay
  BY <1>1 DEF TypeInv, TypeOK, ContextsStay
<1>3. pend' \in [Conn -> Nat]
  BY <1>1 DEF NewKey, TypeInv, TypeOK
<1>4. Packet(x, "eof") \in Packets
  BY <1>1 DEF Packet, Packets
<1>5. port' \in Seq(Packets) /\ OldOrKnown
  <2>1. CASE port' = port
    BY <2>1 DEF OldOrKnown, TypeInv, TypeOK
  <2>2. CASE port' = Append(port, Packet(x, "eof"))
    BY <1>1, <1>2, <1>4, <2>2, AppendPacket DEF OldOrKnown, TypeInv, Packet
  <2> QED
    BY <2>1, <2>2 DEF NewKey
<1>6. TypeOK'
  BY <1>1, <1>2, <1>3, <1>5 DEF TypeInv, TypeOK
<1>7. \A y \in Conn : ctx'[y] # "none" => y <= accepted
  BY <1>1, ConnectionsAssumption DEF TypeInv, TypeOK, ContextInv, Conn
<1>8. (\A w \in Worker : Inside(w) => Known(wkey[w]))'
  BY <1>1, <1>2 DEF TypeInv, ContextInv, Known, Conn, Inside, ContextsStay
<1>9. \A y \in Conn : jobs'[y] > 0 \/ ends'[y] > 0 => ctx'[y] # "none"
  BY <1>1, <1>2 DEF TypeInv, ContextInv, ContextsStay
<1>10. \A y \in keys' : ctx'[y] # "none"
  BY <1>1, <1>2 DEF TypeInv, TypeOK, ContextInv, ContextsStay
<1>11. ContextInv'
  BY <1>1, <1>2, <1>5, <1>7, <1>8, <1>9, <1>10, PacketsKept DEF TypeInv, ContextInv, Conn, None
<1> QED
  BY <1>6, <1>11 DEF TypeInv

(* Exit packets go to every worker.                                        *)
LEMMA ExitPackets ==
  ASSUME TypeInv, PostExits
  PROVE  /\ port' \in Seq(Packets)
         /\ \A i \in 1..Len(port') :
              \/ i \in 1..Len(port) /\ port'[i] = port[i]
              \/ port'[i] = Packet(None, "exit")
<1> DEFINE p == Packet(None, "exit")
           n == IF listening THEN Cardinality(Worker) ELSE 0
<1>1. p \in Packets /\ port \in Seq(Packets)
  BY DEF Packet, Packets, TypeInv, TypeOK
<1>2. n \in Nat
  BY ConnectionsAssumption, FS_CardinalityType
<1>3. CASE ~listening
  BY <1>1, <1>3, ConcatEmptySeq DEF PostExits
<1>4. CASE listening
  <2>1. port' = port \o Copies(n, p)
    BY <1>4 DEF PostExits
  <2> HIDE DEF p, n
  <2>2. /\ port \o Copies(n, p) \in Seq(Packets) /\ Len(port) \in Nat
        /\ Len(port \o Copies(n, p)) = Len(port) + n
        /\ \A i \in 1..Len(port) : (port \o Copies(n, p))[i] = port[i]
        /\ \A i \in (Len(port) + 1)..(Len(port) + n) : (port \o Copies(n, p))[i] = p
    BY <1>1, <1>2, CopiesJoined
  <2>3. \A i \in 1..Len(port') : i \in 1..Len(port) \/ i \in (Len(port) + 1)..(Len(port) + n)
    BY <1>2, <2>1, <2>2
  <2> QED
    BY <2>1, <2>2, <2>3 DEF p
<1> QED
  BY <1>3, <1>4

LEMMA StopTypes ==
  ASSUME TypeInv, AcceptFails \/ PostExits \/ Restart
  PROVE  TypeInv'
<1>1. /\ UNCHANGED <<accepted, sock, owner, peer, pend, ctx, keys, wkey, jobs, ends, sent,
                     crossed, forgotten>>
      /\ apc' \in {"stop", "join", "accept"}
  BY DEF AcceptFails, PostExits, Restart, AcceptAt, netVars, keyVars, workerVars, jobVars,
         pastVars
<1>2. /\ wpc' \in [Worker -> {"get", "message", "receive", "eof", "error", "erase", "close", "gone"}]
      /\ \A w \in Worker : Inside(w)' => Inside(w)
  BY DEF AcceptFails, PostExits, Restart, workerVars, TypeInv, TypeOK, Inside
<1>3. port' \in Seq(Packets) /\ OldOrKnown /\ ContextsStay
  <2>1. CASE port' = port
    BY <1>1, <2>1 DEF OldOrKnown, ContextsStay, TypeInv, TypeOK
  <2>2. CASE PostExits
    BY <1>1, <2>2, ExitPackets DEF OldOrKnown, ContextsStay
  <2> QED
    BY <2>1, <2>2 DEF AcceptFails, Restart
<1>4. listening' \in BOOLEAN /\ restarts' \in 0..MaxRestarts
  BY ConnectionsAssumption DEF AcceptFails, PostExits, Restart, TypeInv, TypeOK
<1>5. TypeOK'
  BY <1>1, <1>2, <1>3, <1>4 DEF TypeInv, TypeOK
<1>6. (\A w \in Worker : Inside(w) => Known(wkey[w]))'
  BY <1>1, <1>2 DEF TypeInv, ContextInv, Known, Conn
<1>7. ContextInv'
  BY <1>1, <1>3, <1>6, PacketsKept DEF TypeInv, ContextInv, Conn, None
<1> QED
  BY <1>5, <1>7 DEF TypeInv

LEMMA CloseAllTypes ==
  ASSUME TypeInv, CloseAll
  PROVE  TypeInv'
<1>1. /\ UNCHANGED <<accepted, sock, peer, wpc, wkey, jobs, ends, listening, restarts, sent,
                     crossed, forgotten>>
      /\ apc' = "restart" /\ port' = <<>> /\ keys' = {}
      /\ ctx' = [x \in Conn |-> IF x \in keys THEN "deleted" ELSE ctx[x]]
  BY DEF CloseAll, AcceptAt, workerVars, jobVars, pastVars
<1>2. /\ ctx' \in [Conn -> {"none", "live", "deleted"}]
      /\ \A x \in Conn : ctx'[x] # "none" <=> x \in keys \/ ctx[x] # "none"
  BY <1>1 DEF TypeInv, TypeOK
<1>3. owner' \in [Handle -> Conn \cup {None}] /\ pend' \in [Conn -> Nat]
  BY DEF CloseAll, TypeInv, TypeOK
<1>4. TypeOK'
  BY <1>1, <1>2, <1>3, EmptySeq DEF TypeInv, TypeOK
<1>5. \A i \in 1..Len(port') : FALSE
  BY <1>1
<1>6. \A x \in Conn : ctx'[x] # "none" => ctx[x] # "none"
  BY <1>2 DEF TypeInv, ContextInv
<1>7. (\A w \in Worker : Inside(w) => Known(wkey[w]))'
  BY <1>1, <1>2 DEF TypeInv, ContextInv, Known, Conn, Inside
<1>8. ContextInv'
  BY <1>1, <1>2, <1>5, <1>6, <1>7 DEF TypeInv, ContextInv, Conn
<1> QED
  BY <1>4, <1>8 DEF TypeInv

LEMMA WorkerTypes ==
  ASSUME TypeInv, NEW w \in Worker, WorkerStep(w)
  PROVE  TypeInv'
<1>1. /\ UNCHANGED <<accepted, sock, peer, ends, apc, listening, restarts, sent, forgotten>>
      /\ Receive(w) \/ crossed' = crossed
  BY DEF WorkerStep, Get, Message, Receive, TestSet, Erase, Close, netVars, jobVars, acceptVars,
         pastVars
<1>2. /\ wpc' \in [Worker -> {"get", "message", "receive", "eof", "error", "erase", "close", "gone"}]
      /\ \A v \in Worker \ {w} : wpc'[v] = wpc[v] /\ wkey'[v] = wkey[v]
  <2>1. CASE Get(w)
    <3>1. Head(port) \in Packets
      BY <2>1, TailPacket DEF Get, TypeInv
    <3>2. Continue(Head(port).kind) \in {"gone", "eof", "message", "receive"}
      BY <3>1 DEF Packets, Continue
    <3> QED
      BY <2>1, <3>2 DEF Get, WorkerAt, TypeInv, TypeOK
  <2>2. CASE Message(w) \/ Receive(w) \/ TestSet(w) \/ Erase(w) \/ Close(w)
    BY <2>2 DEF Message, Receive, TestSet, Erase, Close, WorkerAt, TypeInv, TypeOK
  <2> QED
    BY <2>1, <2>2 DEF WorkerStep
<1>3. CASE Get(w)
  <2>1. /\ port' \in Seq(Packets) /\ Len(port) \in Nat \ {0} /\ Len(port') = Len(port) - 1
        /\ Head(port) = port[1] /\ Head(port) \in Packets
        /\ \A i \in 1..Len(port') : i + 1 \in 1..Len(port) /\ port'[i] = port[i + 1]
    BY <1>3, TailPacket DEF Get, TypeInv
  <2>2. UNCHANGED <<owner, pend, ctx, keys, jobs>> /\ wkey' = [wkey EXCEPT ![w] = port[1].key]
    BY <1>3, <2>1 DEF Get, netVars, keyVars, jobVars
  <2>3. port[1].key \in Conn \cup {None} /\ 1 \in 1..Len(port)
    BY <2>1 DEF Packets
  <2>4. TypeOK'
    BY <1>1, <1>2, <1>3, <2>1, <2>2, <2>3 DEF TypeInv, TypeOK, Get, pastVars
  <2>5. OldOrKnown
    BY <2>1 DEF OldOrKnown
  <2>6. Inside(w)' => port[1].kind # "exit" /\ wkey'[w] = port[1].key
    BY <1>3, <2>1, <2>2 DEF Get, WorkerAt, Continue, Inside, TypeInv, TypeOK
  <2>7. \A v \in Worker \ {w} : Inside(v)' => Inside(v)
    BY <1>2 DEF Inside
  <2>8. \A v \in Worker : Inside(v)' =>
          \/ Inside(v) /\ wkey'[v] = wkey[v]
          \/ \E i \in 1..Len(port) : port[i].kind # "exit" /\ wkey'[v] = port[i].key
    BY <1>2, <2>3, <2>6, <2>7
  <2>9. ContextInv'
    BY <1>1, <2>2, <2>5, <2>8, SameContexts DEF TypeInv, ContextInv
  <2> QED
    BY <2>4, <2>9 DEF TypeInv
<1>4. ASSUME Message(w) \/ TestSet(w) \/ Erase(w) \/ Receive(w) \/ Close(w)
      PROVE  Inside(w) /\ wkey[w] \in Conn /\ ctx[wkey[w]] # "none" /\ sock[wkey[w]] \in Handle
  <2>1. Inside(w)
    BY <1>4 DEF Message, Receive, TestSet, Erase, Close, WorkerAt, Inside
  <2> QED
    BY <2>1 DEF TypeInv, ContextInv, Known
<1>5. CASE Message(w) \/ TestSet(w) \/ Erase(w)
  <2>1. /\ UNCHANGED <<owner, pend, ctx, port, wkey>> /\ keys' \subseteq keys
        /\ jobs' \in {jobs, [jobs EXCEPT ![wkey[w]] = @ + 1]}
    BY <1>5 DEF Message, TestSet, Erase, netVars, keyVars, jobVars
  <2>2. Inside(w) /\ wkey[w] \in Conn /\ ctx[wkey[w]] # "none"
    BY <1>4, <1>5
  <2>3. jobs' \in [Conn -> Nat]
    <3>1. jobs \in [Conn -> Nat]
      BY DEF TypeInv, TypeOK
    <3> QED
      BY <2>1, <3>1
  <2>9. crossed' = crossed
    BY <1>5 DEF Message, TestSet, Erase, pastVars
  <2>4. TypeOK'
    BY <1>1, <1>2, <2>1, <2>3, <2>9 DEF TypeInv, TypeOK
  <2>5. OldOrKnown
    BY <2>1 DEF OldOrKnown
  <2>6. \A v \in Worker : Inside(v)' => Inside(v) /\ wkey'[v] = wkey[v]
    BY <1>2, <2>1, <2>2 DEF Inside
  <2>7. \A x \in Conn : jobs'[x] > 0 \/ ends'[x] > 0 => ctx[x] # "none"
    BY <1>1, <2>1, <2>2 DEF TypeInv, TypeOK, ContextInv
  <2>8. ContextInv'
    BY <1>1, <2>1, <2>5, <2>6, <2>7, SameContexts
  <2> QED
    BY <2>4, <2>8 DEF TypeInv
<1>6. CASE Receive(w)
  <2> DEFINE x == owner[sock[wkey[w]]]
  <2>1. x \in Conn \cup {None}
    BY <1>4, <1>6 DEF TypeInv, TypeOK
  <2>2. UNCHANGED <<owner, ctx, keys, jobs>> /\ wkey' \in {wkey, [wkey EXCEPT ![w] = None]}
    BY <1>6 DEF Receive, keyVars, jobVars
  <2>3. pend' \in [Conn -> Nat] /\ wkey' \in [Worker -> Conn \cup {None}]
    <3>1. pend \in [Conn -> Nat] /\ wkey \in [Worker -> Conn \cup {None}]
      BY DEF TypeInv, TypeOK
    <3>2. pend' \in {pend, [pend EXCEPT ![x] = @ + 1]}
      BY <1>6 DEF Receive
    <3>3. None \in Conn \cup {None}
      OBVIOUS
    <3> HIDE DEF x
    <3> QED
      BY <2>2, <3>1, <3>2, <3>3
  <2>4. port' \in Seq(Packets) /\ OldOrKnown
    <3>1. CASE port' = port
      BY <3>1 DEF OldOrKnown, TypeInv, TypeOK
    <3>2. CASE x # None /\ ctx[x] # "none" /\ port' = Append(port, Packet(x, "eof"))
      <4>1. Packet(x, "eof") \in Packets /\ x \in Conn
        BY <2>1, <3>2 DEF Packet, Packets
      <4> QED
        BY <2>2, <3>2, <4>1, AppendPacket DEF OldOrKnown, TypeInv, Packet
    <3>3. port \o <<>> = port
      BY ConcatEmptySeq DEF TypeInv, TypeOK
    <3>4. x # None => port \o <<Packet(x, "eof")>> = Append(port, Packet(x, "eof"))
      <4>1. x # None => Packet(x, "eof") \in Packets
        BY <2>1 DEF Packet, Packets
      <4> QED
        BY <4>1, AppendIsConcat DEF TypeInv, TypeOK
    <3> QED
      BY <1>6, <3>1, <3>2, <3>3, <3>4 DEF Receive
  <2>8. crossed' \subseteq Conn
    <3>1. crossed' \in {crossed, crossed \cup {x, wkey[w]}} /\ (x = None => crossed' = crossed)
      BY <1>6 DEF Receive
    <3>2. wkey[w] \in Conn /\ crossed \subseteq Conn
      BY <1>4, <1>6 DEF TypeInv, TypeOK
    <3> HIDE DEF x
    <3> QED
      BY <2>1, <3>1, <3>2
  <2>5. TypeOK'
    BY <1>1, <1>2, <2>2, <2>3, <2>4, <2>8 DEF TypeInv, TypeOK
  <2>6. \A v \in Worker : Inside(v)' => Inside(v) /\ wkey'[v] = wkey[v]
    <3>1. Inside(w)' => wkey' = wkey
      BY <1>6 DEF Receive, WorkerAt, Inside, TypeInv, TypeOK
    <3> QED
      BY <1>2, <1>4, <1>6, <3>1 DEF Inside
  <2>7. ContextInv'
    BY <1>1, <2>2, <2>4, <2>6, SameContexts DEF TypeInv, ContextInv
  <2> QED
    BY <2>5, <2>7 DEF TypeInv
<1>7. CASE Close(w)
  <2> DEFINE x == wkey[w]
  <2>1. /\ ctx' = [ctx EXCEPT ![x] = "deleted"] /\ wkey' = [wkey EXCEPT ![w] = None]
        /\ wpc' = [wpc EXCEPT ![w] = "get"]
        /\ UNCHANGED <<keys, jobs>> /\ CloseHandle(sock[x])
    BY <1>7 DEF Close, WorkerAt, jobVars
  <2>2. ctx' \in [Conn -> {"none", "live", "deleted"}] /\ ContextsStay
    BY <1>4, <1>7, <2>1 DEF TypeInv, TypeOK, ContextsStay
  <2>3. /\ owner' \in [Handle -> Conn \cup {None}] /\ pend' \in [Conn -> Nat]
        /\ port' \in Seq(Packets) /\ OldOrKnown
    BY <1>4, <1>7, <2>1, <2>2, CloseTypes
  <2>4. TypeOK'
    BY <1>1, <1>2, <1>7, <2>1, <2>2, <2>3 DEF TypeInv, TypeOK, Close, pastVars
  <2>5. \A y \in Conn : ctx'[y] # "none" => ctx[y] # "none"
    BY <1>4, <1>7, <2>1 DEF TypeInv, TypeOK
  <2>6. (\A v \in Worker : Inside(v) => Known(wkey[v]))'
    <3>1. \A v \in Worker : Inside(v)' => v # w /\ Inside(v) /\ wkey'[v] = wkey[v]
      BY <2>1 DEF Inside, TypeInv, TypeOK
    <3> QED
      BY <2>2, <3>1 DEF TypeInv, ContextInv, Known, Conn, ContextsStay
  <2>7. /\ \A y \in keys' : ctx'[y] # "none"
        /\ \A y \in Conn : jobs'[y] > 0 \/ ends'[y] > 0 => ctx'[y] # "none"
        /\ apc' = "key" => accepted' \in Conn /\ ctx'[accepted'] = "none"
    BY <1>1, <1>4, <1>7, <2>1, <2>2 DEF TypeInv, TypeOK, ContextInv, ContextsStay
  <2>8. ContextInv'
    BY <1>1, <2>2, <2>3, <2>5, <2>6, <2>7, PacketsKept DEF TypeInv, ContextInv, Conn, None
  <2> QED
    BY <2>4, <2>8 DEF TypeInv
<1> QED
  BY <1>3, <1>5, <1>6, <1>7 DEF WorkerStep

LEMMA StepTypes == TypeInv /\ [Next]_vars => TypeInv'
<1> SUFFICES ASSUME TypeInv, [Next]_vars
             PROVE  TypeInv'
  OBVIOUS
<1>1. CASE UNCHANGED vars
  BY <1>1 DEF vars, netVars, keyVars, workerVars, jobVars, acceptVars, pastVars,
              TypeInv, TypeOK, ContextInv, Known, Conn, Inside
<1>2. CASE AcceptClose
  BY <1>2, NewKeyTypes, StopTypes, CloseAllTypes DEF AcceptClose
<1> QED
  BY <1>1, <1>2, ClientTypes, SaveTypes, AcceptTypes, StopTypes, WorkerTypes
  DEF Next, Clients, Waiting

(* Types: of the sockets, the contexts, the port, the workers and the      *)
(* accept thread (CSocketTCP).                                             *)
THEOREM TypeCorrect == Spec => []TypeOK
<1>1. TypeInv => TypeOK
  BY DEF TypeInv
<1> QED
  BY <1>1, InitTypes, StepTypes, PTL DEF Spec

-----------------------------------------------------------------------------
(* The places of a context                                                 *)

LEMMA AppendIsCopies ==
  ASSUME TypeInv, NEW p \in Packets
  PROVE  Append(port, p) = port \o Copies(1, p)
<1>1. port \in Seq(Packets)
  BY DEF TypeInv, TypeOK
<1>2. Copies(1, p) = <<p>>
  BY DEF Copies
<1> QED
  BY <1>1, <1>2, AppendIsConcat

(* New packets for y: no other connection has more.                        *)
NoNewExit ==
  \A i \in 1..Len(port') : port'[i].kind = "exit" => \E j \in 1..Len(port) : port[j].kind = "exit"

LEMMA PacketsAdded ==
  ASSUME TypeInv, NEW y \in Conn \cup {None}, NEW kind \in {"data", "eof", "abort", "exit"},
         NEW n \in Nat, port' = port \o Copies(n, Packet(y, kind))
  PROVE  /\ \A x \in Conn : x # y \/ n = 0 => PacketsOf(x)' = PacketsOf(x)
         /\ n = 1 /\ PacketsOf(y) = {} => PacketsOf(y)' = {Len(port) + 1}
         /\ kind # "exit" => NoNewExit
<1> DEFINE p == Packet(y, kind)
           l == Len(port)
<1>1. p \in Packets /\ p.key = y /\ p.kind = kind
  BY DEF Packet, Packets
<1>2. port \in Seq(Packets) /\ port' = port \o Copies(n, p)
  BY DEF TypeInv, TypeOK
<1> HIDE DEF p
<1>3. /\ Len(port) \in Nat
      /\ Len(port \o Copies(n, p)) = Len(port) + n
      /\ \A i \in 1..Len(port) : (port \o Copies(n, p))[i] = port[i]
      /\ \A i \in (Len(port) + 1)..(Len(port) + n) : (port \o Copies(n, p))[i] = p
  BY <1>1, <1>2, CopiesJoined
<1>4. /\ l \in Nat /\ Len(port') = l + n
      /\ \A i \in 1..l : port'[i] = port[i]
      /\ \A i \in (l + 1)..(l + n) : port'[i] = p
  BY <1>2, <1>3
<1> HIDE DEF l
<1>5. \A i \in 1..Len(port') : i \in 1..l \/ i \in (l + 1)..(l + n)
  BY <1>4
<1>6. \A i \in 1..l : i \in 1..Len(port')
  BY <1>4
<1>7. ASSUME NEW x \in Conn, x # y \/ n = 0
      PROVE  PacketsOf(x)' = PacketsOf(x)
  <2>1. \A i : i \in 1..Len(port') /\ port'[i].key = x <=> i \in 1..l /\ port[i].key = x
    BY <1>1, <1>4, <1>5, <1>6, <1>7
  <2> QED
    BY <2>1 DEF PacketsOf, l
<1>8. ASSUME n = 1, PacketsOf(y) = {}
      PROVE  PacketsOf(y)' = {Len(port) + 1}
  <2>1. \A i \in 1..l : port[i].key # y
    BY <1>8 DEF PacketsOf, l
  <2>2. l + 1 \in 1..Len(port') /\ port'[l + 1].key = y
    BY <1>1, <1>4, <1>8
  <2>3. \A i : i \in 1..Len(port') /\ port'[i].key = y <=> i = l + 1
    BY <1>4, <1>5, <1>8, <2>1, <2>2
  <2> QED
    BY <2>3 DEF PacketsOf, l
<1>9. ASSUME kind # "exit"
      PROVE  NoNewExit
  BY <1>1, <1>4, <1>5, <1>9 DEF NoNewExit, l
<1> QED
  BY <1>7, <1>8, <1>9

(* The receives pending on y complete.                                     *)
LEMMA PacketsCompleted ==
  ASSUME TypeInv, NEW y \in Conn, NEW kind \in {"eof", "abort"},
         port' = port \o Completed(y, kind), pend' = [pend EXCEPT ![y] = 0]
  PROVE  /\ \A x \in Conn : x # y \/ pend[x] = 0 =>
              PacketsOf(x)' = PacketsOf(x) /\ pend'[x] = pend[x]
         /\ pend[y] = 1 /\ ctx[y] # "none" /\ PacketsOf(y) = {} =>
              PacketsOf(y)' = {Len(port) + 1}
         /\ pend'[y] = 0
         /\ NoNewExit
<1>1. pend \in [Conn -> Nat] /\ port \in Seq(Packets)
  BY DEF TypeInv, TypeOK
<1>2. CASE ctx[y] = "none"
  <2>1. port' = port
    BY <1>1, <1>2, ConcatEmptySeq DEF Completed
  <2> QED
    BY <1>1, <1>2, <2>1 DEF PacketsOf, NoNewExit
<1>3. CASE ctx[y] # "none"
  <2>1. port' = port \o Copies(pend[y], Packet(y, kind)) /\ pend[y] \in Nat
    BY <1>1, <1>3 DEF Completed
  <2>2. /\ \A x \in Conn : x # y \/ pend[y] = 0 => PacketsOf(x)' = PacketsOf(x)
        /\ pend[y] = 1 /\ PacketsOf(y) = {} => PacketsOf(y)' = {Len(port) + 1}
        /\ NoNewExit
    BY <2>1, PacketsAdded
  <2> QED
    BY <1>1, <2>2
<1> QED
  BY <1>2, <1>3

(* No worker begins or ends with the context of x.                         *)
SameWorkers(x) ==
  \A w \in Worker : Inside(w)' /\ wkey'[w] = x <=> Inside(w) /\ wkey[w] = x

LEMMA SamePlace ==
  ASSUME NEW x \in Conn, Place(x), SameWorkers(x), PacketsOf(x)' = PacketsOf(x),
         pend'[x] = pend[x], ctx'[x] = ctx[x], x \in forgotten' <=> x \in forgotten
  PROVE  Place(x)'
<1>1. WorkersOf(x)' = WorkersOf(x)
  BY DEF WorkersOf, SameWorkers
<1>2. /\ Pending(x) => Pending(x)'
      /\ Queued(x) => Queued(x)'
      /\ AtWork(x) => AtWork(x)'
      /\ Nowhere(x) => Nowhere(x)'
  BY <1>1 DEF Pending, Queued, AtWork, Nowhere
<1>3. CASE Held(x)
  BY <1>2, <1>3 DEF Place, Held
<1>4. CASE Out(x)
  BY <1>2, <1>4 DEF Place, Out
<1> QED
  BY <1>3, <1>4 DEF Place

(* The receive pending for x completes.                                    *)
LEMMA IntoQueue ==
  ASSUME NEW x \in Conn, Place(x), pend[x] # 0, SameWorkers(x), pend'[x] = 0,
         NEW i, PacketsOf(x)' = {i}, ctx'[x] = ctx[x], x \in forgotten' <=> x \in forgotten
  PROVE  Place(x)'
<1>1. WorkersOf(x)' = WorkersOf(x)
  BY DEF WorkersOf, SameWorkers
<1>2. Held(x) /\ Pending(x)
  BY DEF Place, Held, Out, Nowhere, Pending, Queued, AtWork
<1>3. Queued(x)'
  BY <1>1, <1>2 DEF Pending, Queued
<1> QED
  BY <1>2, <1>3 DEF Place, Held

LEMMA PlaceCompleted ==
  ASSUME TypeInv, NEW x \in Conn, Place(x), NEW y \in Conn, NEW kind \in {"eof", "abort"},
         port' = port \o Completed(y, kind), pend' = [pend EXCEPT ![y] = 0],
         SameWorkers(x), ctx'[x] = ctx[x], x \in forgotten' <=> x \in forgotten
  PROVE  Place(x)'
<1>1. /\ \A z \in Conn : z # y \/ pend[z] = 0 =>
           PacketsOf(z)' = PacketsOf(z) /\ pend'[z] = pend[z]
      /\ pend[y] = 1 /\ ctx[y] # "none" /\ PacketsOf(y) = {} =>
           PacketsOf(y)' = {Len(port) + 1}
      /\ pend'[y] = 0
  BY PacketsCompleted
<1>2. CASE x # y \/ pend[x] = 0
  <2>1. PacketsOf(x)' = PacketsOf(x) /\ pend'[x] = pend[x]
    BY <1>1, <1>2
  <2> QED
    BY <2>1, SamePlace
<1>3. CASE x = y /\ pend[x] # 0
  <2>1. Held(x) /\ Pending(x)
    BY <1>3 DEF Place, Held, Out, Nowhere, Pending, Queued, AtWork
  <2>2. PacketsOf(x)' = {Len(port) + 1} /\ pend'[x] = 0
    BY <1>1, <1>3, <2>1 DEF Held, Pending
  <2> QED
    BY <1>3, <2>2, IntoQueue
<1> QED
  BY <1>2, <1>3

(* closesocket(h).                                                         *)
LEMMA PlaceClosed ==
  ASSUME TypeInv, NEW x \in Conn, Place(x), NEW h \in Handle, CloseHandle(h),
         SameWorkers(x), ctx'[x] = ctx[x], x \in forgotten' <=> x \in forgotten
  PROVE  Place(x)'
<1>1. owner[h] \in Conn \cup {None}
  BY DEF TypeInv, TypeOK
<1>2. CASE owner[h] = None
  <2>1. PacketsOf(x)' = PacketsOf(x) /\ pend'[x] = pend[x]
    BY <1>2 DEF CloseHandle, PacketsOf
  <2> QED
    BY <2>1, SamePlace
<1>3. CASE owner[h] # None
  <2>1. /\ owner[h] \in Conn /\ pend' = [pend EXCEPT ![owner[h]] = 0]
        /\ port' = port \o Completed(owner[h], "abort")
    BY <1>1, <1>3 DEF CloseHandle
  <2> QED
    BY <2>1, PlaceCompleted
<1> QED
  BY <1>2, <1>3

LEMMA ExitsClosed ==
  ASSUME TypeInv, NEW h \in Handle, CloseHandle(h)
  PROVE  /\ NoNewExit
         /\ \A k \in Handle : owner'[k] \in {None, owner[k]}
<1>1. owner \in [Handle -> Conn \cup {None}]
  BY DEF TypeInv, TypeOK
<1>2. CASE owner[h] = None
  BY <1>1, <1>2 DEF CloseHandle, NoNewExit
<1>3. CASE owner[h] # None
  <2>1. /\ owner[h] \in Conn /\ pend' = [pend EXCEPT ![owner[h]] = 0]
        /\ port' = port \o Completed(owner[h], "abort")
    BY <1>1, <1>3 DEF CloseHandle
  <2>2. NoNewExit
    BY <2>1, PacketsCompleted
  <2> QED
    BY <1>1, <2>2 DEF CloseHandle
<1> QED
  BY <1>2, <1>3

-----------------------------------------------------------------------------
(* What the steps leave alone                                              *)

(* Sockets are only closed.                                                *)
LEMMA SameOwners ==
  ASSUME OwnerInv, UNCHANGED <<accepted, sock>>,
         \A h \in Handle : owner'[h] \in {None, owner[h]}
  PROVE  OwnerInv'
BY DEF OwnerInv

LEMMA SameKeys ==
  ASSUME KeysInv, UNCHANGED <<ctx, keys>>, crossed \subseteq crossed',
         \A w \in Worker : wpc'[w] = "close" <=> wpc[w] = "close",
         \A w \in Worker : wpc[w] = "close" => wkey'[w] = wkey[w]
  PROVE  KeysInv'
<1>1. \A x \in Conn : Closing(x)' <=> Closing(x)
  BY DEF Closing
<1> QED
  BY <1>1 DEF KeysInv, Conn

LEMMA SameExits ==
  ASSUME ExitInv, UNCHANGED <<listening, apc>>, NoNewExit, crossed \subseteq crossed',
         \A w \in Worker : wpc'[w] = "gone" <=> wpc[w] = "gone",
         \A w \in Worker : wpc[w] = "gone" => wkey'[w] = wkey[w]
  PROVE  ExitInv'
BY DEF ExitInv, NoNewExit

LEMMA InitConn == Init => ConnInv
<1> SUFFICES ASSUME Init
             PROVE  ConnInv
  OBVIOUS
<1>1. TypeInv
  BY InitTypes
<1>2. \A i \in 1..Len(port) : FALSE
  BY DEF Init
<1>3. ASSUME NEW x \in Conn
      PROVE  Place(x)
  BY <1>2 DEF Init, Place, Out, Nowhere, PacketsOf, WorkersOf, Inside
<1>4. OwnerInv /\ PlaceInv /\ KeysInv
  BY <1>3 DEF Init, OwnerInv, PlaceInv, KeysInv
<1>5. ExitInv
  BY <1>2 DEF Init, ExitInv
<1> QED
  BY <1>1, <1>4, <1>5 DEF ConnInv

-----------------------------------------------------------------------------
(* The steps                                                               *)

LEMMA ClientConn ==
  ASSUME ConnInv, NEW y \in Conn, Send(y) \/ Fin(y) \/ Reset(y)
  PROVE  ConnInv'
<1>1. UNCHANGED <<accepted, sock, owner, ctx, keys, wpc, wkey, apc, listening, crossed, forgotten>>
  BY DEF Send, Fin, Reset, Leave, keyVars, workerVars, jobVars, acceptVars, pastVars
<1>2. TypeInv /\ \A x \in Conn : SameWorkers(x)
  BY <1>1 DEF ConnInv, SameWorkers, Inside
<1>3. /\ NoNewExit
      /\ \A x \in Conn : Place(x) => Place(x)'
  <2>1. CASE Send(y)
    <3>1. /\ port' = Append(port, Packet(y, "data")) /\ pend[y] > 0
          /\ pend' = [pend EXCEPT ![y] = @ - 1] /\ pend \in [Conn -> Nat]
      BY <1>2, <2>1 DEF Send, TypeInv, TypeOK
    <3>2. Packet(y, "data") \in Packets
      BY DEF Packet, Packets
    <3>3. port' = port \o Copies(1, Packet(y, "data"))
      BY <1>2, <3>1, <3>2, AppendIsCopies
    <3>4. /\ \A x \in Conn : x # y => PacketsOf(x)' = PacketsOf(x)
          /\ PacketsOf(y) = {} => PacketsOf(y)' = {Len(port) + 1}
          /\ NoNewExit
      BY <1>2, <3>3, PacketsAdded
    <3>5. ASSUME NEW x \in Conn, Place(x)
          PROVE  Place(x)'
      <4>1. CASE x # y
        BY <1>1, <1>2, <3>1, <3>4, <3>5, <4>1, SamePlace
      <4>2. CASE x = y
        <5>1. pend[y] # 0 /\ Pending(y)
          BY <3>1, <3>5, <4>2 DEF Place, Held, Out, Nowhere, Pending, Queued, AtWork
        <5>2. pend'[y] = 0 /\ PacketsOf(y)' = {Len(port) + 1}
          BY <3>1, <3>4, <5>1 DEF Pending
        <5>3. ctx'[y] = ctx[y] /\ forgotten' = forgotten /\ SameWorkers(y)
          BY <1>1, <1>2
        <5>4. Place(y)'
          BY <3>5, <4>2, <5>1, <5>2, <5>3, IntoQueue
        <5> QED
          BY <4>2, <5>4
      <4> QED
        BY <4>1, <4>2
    <3> QED
      BY <3>4, <3>5
  <2>2. ASSUME NEW how, NEW kind \in {"eof", "abort"}, Leave(y, how, kind)
        PROVE  NoNewExit /\ \A x \in Conn : Place(x) => Place(x)'
    <3>1. port' = port \o Completed(y, kind) /\ pend' = [pend EXCEPT ![y] = 0]
      BY <2>2 DEF Leave
    <3>2. NoNewExit
      BY <1>2, <3>1, PacketsCompleted
    <3>3. \A x \in Conn : Place(x) => Place(x)'
      BY <1>1, <1>2, <3>1, PlaceCompleted
    <3> QED
      BY <3>2, <3>3
  <2> QED
    BY <2>1, <2>2 DEF Fin, Reset
<1>4. PlaceInv'
  BY <1>1, <1>3 DEF ConnInv, PlaceInv, Conn
<1>5. OwnerInv' /\ KeysInv' /\ ExitInv'
  BY <1>1, <1>3, SameOwners, SameKeys, SameExits DEF ConnInv
<1>6. TypeInv'
  BY ClientTypes DEF ConnInv
<1> QED
  BY <1>4, <1>5, <1>6 DEF ConnInv

LEMMA SaveConn ==
  ASSUME ConnInv, NEW y \in Conn, SaveStep(y)
  PROVE  ConnInv'
<1>1. UNCHANGED <<accepted, sock, ctx, keys, wpc, wkey, apc, listening, crossed, forgotten>>
  BY DEF SaveStep, HandlerCloses, HandlerReturns, Answer, netVars, keyVars, workerVars,
         acceptVars, pastVars
<1>2. TypeInv /\ \A x \in Conn : SameWorkers(x)
  BY <1>1 DEF ConnInv, SameWorkers, Inside
<1>3. sock[y] \in Handle
  BY DEF SaveStep, HandlerCloses, HandlerReturns, Answer, ConnInv, TypeInv, ContextInv
<1>4. /\ NoNewExit /\ \A h \in Handle : owner'[h] \in {None, owner[h]}
      /\ \A x \in Conn : Place(x) => Place(x)'
  <2>1. CASE CloseHandle(sock[y])
    BY <1>1, <1>2, <1>3, <2>1, PlaceClosed, ExitsClosed
  <2>2. CASE UNCHANGED <<owner, pend, port>>
    <3>1. \A x \in Conn : PacketsOf(x)' = PacketsOf(x)
      BY <2>2 DEF PacketsOf
    <3> QED
      BY <1>1, <1>2, <2>2, <3>1, SamePlace DEF NoNewExit
  <2> QED
    BY <2>1, <2>2 DEF SaveStep, HandlerCloses, HandlerReturns, Answer, netVars
<1>5. PlaceInv'
  BY <1>1, <1>4 DEF ConnInv, PlaceInv, Conn
<1>6. OwnerInv' /\ KeysInv' /\ ExitInv'
  BY <1>1, <1>4, SameOwners, SameKeys, SameExits DEF ConnInv
<1>7. TypeInv'
  BY SaveTypes DEF ConnInv
<1> QED
  BY <1>5, <1>6, <1>7 DEF ConnInv

LEMMA AcceptConn ==
  ASSUME ConnInv, NEW h \in Handle, Accept(h)
  PROVE  ConnInv'
<1>1. /\ UNCHANGED <<pend, ctx, keys, port, wpc, wkey, listening, crossed, forgotten>>
      /\ apc = "accept" /\ apc' \in {"key", "accept"}
      /\ accepted' = accepted + 1 /\ sock' = [sock EXCEPT ![accepted + 1] = h]
      /\ owner' = [owner EXCEPT ![h] = IF Cardinality(keys) < MaxKeys THEN accepted + 1 ELSE None]
  BY DEF Accept, AcceptAt, keyVars, workerVars, jobVars, pastVars
<1>2. TypeInv /\ accepted \in Nat /\ accepted + 1 \in Conn
  <2>1. TypeInv /\ accepted \in 0..MaxAccepts
    BY DEF ConnInv, TypeInv, TypeOK
  <2>2. accepted < MaxAccepts
    BY DEF Accept
  <2> QED
    BY <2>1, <2>2, ConnectionsAssumption DEF Conn
<1>3. \A x \in Conn : SameWorkers(x) /\ PacketsOf(x)' = PacketsOf(x)
  BY <1>1 DEF SameWorkers, Inside, PacketsOf
<1>4. PlaceInv'
  <2>1. \A x \in Conn : Place(x) => Place(x)'
    BY <1>1, <1>3, SamePlace
  <2> QED
    BY <1>1, <2>1 DEF ConnInv, PlaceInv, Conn
<1>5. OwnerInv'
  <2>1. SUFFICES ASSUME NEW k \in Handle, owner'[k] # None
                 PROVE  owner'[k] <= accepted' /\ sock'[owner'[k]] = k
    BY DEF OwnerInv
  <2>2. owner \in [Handle -> Conn \cup {None}] /\ sock \in [Conn -> Handle \cup {None}]
    BY <1>2 DEF TypeInv, TypeOK
  <2>3. CASE k = h
    <3>1. owner'[k] = accepted + 1
      BY <1>1, <2>1, <2>2, <2>3
    <3>2. sock'[accepted + 1] = h
      BY <1>1, <1>2, <2>2
    <3>3. accepted + 1 <= accepted'
      BY <1>1, <1>2
    <3> QED
      BY <2>3, <3>1, <3>2, <3>3
  <2>4. CASE k # h
    <3>1. owner'[k] = owner[k] /\ owner[k] \in Conn /\ owner[k] <= accepted /\ sock[owner[k]] = k
      BY <1>1, <2>1, <2>2, <2>4 DEF ConnInv, OwnerInv
    <3>2. owner[k] # accepted + 1 /\ owner[k] <= accepted + 1
      BY <1>2, <3>1 DEF Conn
    <3> QED
      BY <1>1, <2>2, <3>1, <3>2
  <2> QED
    BY <2>3, <2>4
<1>6. KeysInv'
  BY <1>1, SameKeys DEF ConnInv
<1>7. ExitInv'
  BY <1>1 DEF ConnInv, ExitInv
<1>8. TypeInv'
  BY <1>2, AcceptTypes
<1> QED
  BY <1>4, <1>5, <1>6, <1>7, <1>8 DEF ConnInv

(* The context that is made is nobody's yet.                               *)
LEMMA NewKeyConn ==
  ASSUME ConnInv, NewKey
  PROVE  ConnInv'
<1>1. PICK y \in Conn :
        /\ y = accepted
        /\ UNCHANGED <<accepted, sock, owner, wpc, wkey, listening, crossed>>
        /\ apc = "key" /\ apc' = "accept"
        /\ ctx' = [ctx EXCEPT ![y] = "live"] /\ keys' = keys \cup {y}
        /\ \/ pend' = pend /\ port' = port /\ forgotten' = forgotten \cup {y}
           \/ pend' = pend /\ port' = Append(port, Packet(y, "eof")) /\ forgotten' = forgotten
           \/ pend' = [pend EXCEPT ![y] = @ + 1] /\ port' = port /\ forgotten' = forgotten
  <2>1. accepted \in Conn
    BY DEF NewKey, AcceptAt, ConnInv, TypeInv, ContextInv
  <2> QED
    BY <2>1 DEF NewKey, AcceptAt, workerVars, jobVars
<1>2. /\ TypeInv /\ ctx[y] = "none"
      /\ pend \in [Conn -> Nat] /\ ctx \in [Conn -> {"none", "live", "deleted"}]
  BY <1>1 DEF ConnInv, TypeInv, TypeOK, ContextInv
<1>3. \A x \in Conn : SameWorkers(x)
  BY <1>1 DEF SameWorkers, Inside
<1> DEFINE Lost  == pend'[y] = pend[y] /\ PacketsOf(y)' = PacketsOf(y) /\ y \in forgotten'
           Comes == /\ pend'[y] = pend[y] /\ forgotten' = forgotten
                    /\ PacketsOf(y) = {} => PacketsOf(y)' = {Len(port) + 1}
           Posts == pend'[y] = pend[y] + 1 /\ PacketsOf(y)' = PacketsOf(y) /\ forgotten' = forgotten
           Alone(x) == /\ PacketsOf(x)' = PacketsOf(x) /\ pend'[x] = pend[x]
                       /\ (x \in forgotten') = (x \in forgotten)
<1>4. /\ \A x \in Conn : x # y => Alone(x)
      /\ Lost \/ Comes \/ Posts
      /\ NoNewExit
  <2>1. CASE port' = port
    <3>1. NoNewExit /\ \A x \in Conn : PacketsOf(x)' = PacketsOf(x)
      BY <2>1 DEF PacketsOf, NoNewExit
    <3>2. CASE pend' = pend /\ forgotten' = forgotten \cup {y}
      BY <3>1, <3>2
    <3>3. CASE pend' = [pend EXCEPT ![y] = @ + 1] /\ forgotten' = forgotten
      BY <1>2, <3>1, <3>3
    <3>4. port # Append(port, Packet(y, "eof"))
      <4>1. Packet(y, "eof") \in Packets /\ port \in Seq(Packets)
        BY <1>2 DEF Packet, Packets, TypeInv, TypeOK
      <4>2. Len(Append(port, Packet(y, "eof"))) = Len(port) + 1 /\ Len(port) \in Nat
        BY <4>1, AppendProperties, LenProperties
      <4> QED
        BY <4>2
    <3> HIDE DEF Lost, Comes, Posts, Alone
    <3> QED
      BY <1>1, <2>1, <3>2, <3>3, <3>4
  <2>2. CASE pend' = pend /\ port' = Append(port, Packet(y, "eof")) /\ forgotten' = forgotten
    <3>1. Packet(y, "eof") \in Packets
      BY DEF Packet, Packets
    <3>2. port' = port \o Copies(1, Packet(y, "eof"))
      BY <1>2, <2>2, <3>1, AppendIsCopies
    <3>3. /\ \A x \in Conn : x # y => PacketsOf(x)' = PacketsOf(x)
          /\ PacketsOf(y) = {} => PacketsOf(y)' = {Len(port) + 1}
          /\ NoNewExit
      BY <1>2, <3>2, PacketsAdded
    <3> QED
      BY <2>2, <3>3
  <2> HIDE DEF Lost, Comes, Posts, Alone
  <2> QED
    BY <1>1, <2>1, <2>2
<1>5. ASSUME NEW x \in Conn, Place(x)
      PROVE  Place(x)'
  <2>1. CASE x # y
    <3>1. ctx'[x] = ctx[x]
      BY <1>1, <1>2, <2>1
    <3>2. Alone(x)
      <4> HIDE DEF Alone
      <4> QED
        BY <1>4, <2>1
    <3> QED
      BY <1>3, <1>5, <3>1, <3>2, SamePlace
  <2>2. CASE x = y
    <3>1. Nowhere(y) /\ y \notin forgotten
      BY <1>2, <1>5, <2>2 DEF Place, Held, Out
    <3>2. ctx'[y] = "live" /\ pend[y] = 0 /\ PacketsOf(y) = {} /\ WorkersOf(y) = {}
      BY <1>1, <1>2, <3>1 DEF Nowhere
    <3>3. WorkersOf(y)' = {}
      BY <1>3, <3>2 DEF WorkersOf, SameWorkers
    <3>4. \/ Nowhere(y)' /\ y \in forgotten'
          \/ Queued(y)' /\ y \notin forgotten'
          \/ Pending(y)' /\ y \notin forgotten'
      <4>1. CASE Lost
        BY <3>2, <3>3, <4>1 DEF Nowhere
      <4>2. CASE Comes
        BY <3>1, <3>2, <3>3, <4>2 DEF Queued
      <4>3. CASE Posts
        BY <3>1, <3>2, <3>3, <4>3 DEF Pending
      <4> QED
        BY <1>4, <4>1, <4>2, <4>3
    <3> QED
      BY <2>2, <3>2, <3>4 DEF Place, Held, Out
  <2> QED
    BY <2>1, <2>2
<1>6. PlaceInv'
  BY <1>1, <1>5 DEF ConnInv, PlaceInv, Conn
<1>7. KeysInv'
  <2>1. ASSUME NEW x \in Conn, x \notin crossed
        PROVE  x \in keys' <=> ctx'[x] = "live" /\ ~Closing(x)'
    <3>1. Closing(x)' <=> Closing(x)
      BY <1>1 DEF Closing
    <3>2. x \in keys <=> ctx[x] = "live" /\ ~Closing(x)
      BY <2>1 DEF ConnInv, KeysInv
    <3>3. ~Closing(y)
      BY <1>2 DEF Closing, TypeInv, ContextInv, Known, Inside
    <3> QED
      BY <1>1, <1>2, <3>1, <3>2, <3>3
  <2> QED
    BY <1>1, <2>1 DEF KeysInv, Conn
<1>8. OwnerInv' /\ ExitInv'
  <2>1. OwnerInv'
    BY <1>1, SameOwners DEF ConnInv
  <2>2. ExitInv'
    BY <1>1, <1>4 DEF ConnInv, ExitInv, NoNewExit
  <2> QED
    BY <2>1, <2>2
<1>9. TypeInv'
  BY <1>2, NewKeyTypes
<1> QED
  BY <1>6, <1>7, <1>8, <1>9 DEF ConnInv

LEMMA PostExitsConn ==
  ASSUME ConnInv, PostExits
  PROVE  ConnInv'
<1>1. /\ UNCHANGED <<accepted, sock, owner, pend, ctx, keys, wpc, wkey, listening, crossed, forgotten>>
      /\ apc = "stop" /\ apc' = "join"
  BY DEF PostExits, AcceptAt, netVars, keyVars, workerVars, jobVars, pastVars
<1>2. TypeInv /\ \A x \in Conn : SameWorkers(x)
  BY <1>1 DEF ConnInv, SameWorkers, Inside
<1>3. \A x \in Conn : PacketsOf(x)' = PacketsOf(x)
  <2>1. CASE listening
    <3>1. PICK n \in Nat : n = Cardinality(Worker)
      BY ConnectionsAssumption, FS_CardinalityType
    <3>2. PICK y \in Conn \cup {None} : y = None
      OBVIOUS
    <3>3. port' = port \o Copies(n, Packet(y, "exit"))
      BY <2>1, <3>1, <3>2 DEF PostExits
    <3>4. \A x \in Conn : x # y => PacketsOf(x)' = PacketsOf(x)
      BY <1>2, <3>3, PacketsAdded
    <3> QED
      BY <3>2, <3>4 DEF Conn, None
  <2>2. CASE ~listening
    <3>1. port' = port
      BY <1>2, <2>2, ConcatEmptySeq DEF PostExits, TypeInv, TypeOK
    <3> QED
      BY <3>1 DEF PacketsOf
  <2> QED
    BY <2>1, <2>2
<1>4. PlaceInv'
  <2>1. \A x \in Conn : Place(x) => Place(x)'
    BY <1>1, <1>2, <1>3, SamePlace
  <2> QED
    BY <1>1, <2>1 DEF ConnInv, PlaceInv, Conn
<1>5. OwnerInv' /\ KeysInv'
  BY <1>1, SameOwners, SameKeys DEF ConnInv
<1>6. ExitInv'
  BY <1>1 DEF ConnInv, ExitInv
<1>7. TypeInv'
  BY <1>2, StopTypes
<1> QED
  BY <1>4, <1>5, <1>6, <1>7 DEF ConnInv

LEMMA StopConn ==
  ASSUME ConnInv, AcceptFails \/ Restart
  PROVE  ConnInv'
<1>1. UNCHANGED <<accepted, sock, owner, pend, ctx, keys, port, wkey, crossed, forgotten>>
  BY DEF AcceptFails, Restart, netVars, keyVars, workerVars, jobVars, pastVars
<1>2. /\ TypeInv
      /\ \/ /\ apc = "accept" /\ apc' = "stop" /\ UNCHANGED <<wpc, listening>>
         \/ /\ apc = "restart" /\ apc' = "accept"
            /\ \A w \in Worker : /\ wpc[w] = "gone"
                                 /\ wpc'[w] = IF listening' THEN "get" ELSE "gone"
  BY DEF AcceptFails, Restart, AcceptAt, workerVars, ConnInv, ExitInv
<1>3. \A x \in Conn : SameWorkers(x) /\ PacketsOf(x)' = PacketsOf(x)
  BY <1>1, <1>2 DEF SameWorkers, Inside, PacketsOf
<1>4. PlaceInv'
  <2>1. \A x \in Conn : Place(x) => Place(x)'
    BY <1>1, <1>3, SamePlace
  <2> QED
    BY <1>1, <2>1 DEF ConnInv, PlaceInv, Conn
<1>5. OwnerInv' /\ KeysInv'
  <2>1. \A w \in Worker : wpc'[w] = "close" <=> wpc[w] = "close"
    BY <1>2
  <2> QED
    BY <1>1, <2>1, SameOwners, SameKeys DEF ConnInv
<1>6. ExitInv'
  BY <1>1, <1>2 DEF ConnInv, ExitInv
<1>7. TypeInv'
  BY <1>2, StopTypes
<1> QED
  BY <1>4, <1>5, <1>6, <1>7 DEF ConnInv

LEMMA CloseAllConn ==
  ASSUME ConnInv, CloseAll
  PROVE  ConnInv'
<1>1. /\ UNCHANGED <<accepted, sock, wpc, wkey, listening, crossed, forgotten>>
      /\ apc' = "restart" /\ port' = <<>> /\ keys' = {}
      /\ \A w \in Worker : wpc[w] = "gone"
  BY DEF CloseAll, AcceptAt, workerVars, jobVars, pastVars
<1>2. TypeInv
  BY DEF ConnInv
<1>3. \A x \in Conn : WorkersOf(x) = {} /\ WorkersOf(x)' = {} /\ ~Closing(x)
  BY <1>1 DEF WorkersOf, Closing, Inside
<1>4. \A h \in Handle : owner'[h] = IF \E x \in keys : sock[x] = h THEN None ELSE owner[h]
  BY DEF CloseAll
<1>5. \A x \in Conn : ctx'[x] = IF x \in keys THEN "deleted" ELSE ctx[x]
  BY DEF CloseAll
<1>6. ASSUME NEW x \in Conn, Place(x), x \notin crossed
      PROVE  Place(x)' /\ ctx'[x] # "live"
  <2>1. x \in keys <=> ctx[x] = "live"
    BY <1>3, <1>6 DEF ConnInv, KeysInv
  <2>2. ctx'[x] # "live" /\ (ctx[x] # "none" => ctx'[x] # "none")
    BY <1>5, <2>1
  <2>3. PacketsOf(x)' = {}
    BY <1>1 DEF PacketsOf
  <2>4. pend'[x] = 0
    <3>1. pend'[x] = IF \E h \in Handle : owner'[h] = x THEN pend[x] ELSE 0
      BY DEF CloseAll
    <3>2. CASE x \in keys
      <4>1. ASSUME NEW h \in Handle, owner'[h] = x
            PROVE  FALSE
        <5>1. x # None
          BY DEF Conn, None
        <5>2. owner[h] = x /\ sock[x] # h
          BY <1>4, <3>2, <4>1, <5>1
        <5> QED
          BY <5>1, <5>2 DEF ConnInv, OwnerInv
      <4> QED
        BY <3>1, <4>1
    <3>3. CASE x \notin keys
      <4>1. pend[x] = 0
        BY <1>6, <2>1, <3>3 DEF Place, Held, Out, Nowhere
      <4> QED
        BY <3>1, <4>1
    <3> QED
      BY <3>2, <3>3
  <2>5. x \in forgotten => ctx'[x] # "none"
    BY <1>6, <2>2 DEF Place, Held, Out
  <2> QED
    BY <1>1, <1>3, <2>2, <2>3, <2>4, <2>5 DEF Place, Out, Nowhere
<1>7. PlaceInv' /\ KeysInv'
  BY <1>1, <1>6 DEF ConnInv, PlaceInv, KeysInv, Conn
<1>8. OwnerInv'
  BY <1>1, <1>4, SameOwners DEF ConnInv
<1>9. ExitInv'
  <2>1. \A k \in 1..Len(port') : FALSE
    BY <1>1
  <2> QED
    BY <1>1, <2>1 DEF ExitInv
<1>10. TypeInv'
  BY <1>2, CloseAllTypes
<1> QED
  BY <1>7, <1>8, <1>9, <1>10 DEF ConnInv

(* A worker takes a context out of the queue.                              *)
LEMMA GetConn ==
  ASSUME ConnInv, NEW w \in Worker, Get(w)
  PROVE  ConnInv'
<1>1. /\ UNCHANGED <<accepted, sock, owner, pend, ctx, keys, apc, listening, crossed, forgotten>>
      /\ port # <<>> /\ port' = Tail(port) /\ wpc[w] = "get"
      /\ wpc' = [wpc EXCEPT ![w] = Continue(Head(port).kind)]
      /\ wkey' = [wkey EXCEPT ![w] = Head(port).key]
  BY DEF Get, WorkerAt, netVars, keyVars, jobVars, acceptVars, pastVars
<1>2. /\ TypeInv
      /\ wpc \in [Worker -> {"get", "message", "receive", "eof", "error", "erase", "close", "gone"}]
      /\ wkey \in [Worker -> Conn \cup {None}]
  BY DEF ConnInv, TypeInv, TypeOK
<1>3. PICK p \in Packets : p = port[1] /\ p = Head(port)
  BY <1>1, <1>2, TailPacket DEF TypeInv
<1>4. PICK l \in Nat : l = Len(port) /\ l # 0 /\ Len(port') = l - 1
  BY <1>1, <1>2, TailPacket DEF TypeInv
<1>5. \A k \in 1..Len(port') : k + 1 \in 1..l /\ port'[k] = port[k + 1]
  BY <1>1, <1>2, <1>4, TailPacket DEF TypeInv
<1>6. /\ wpc'[w] = Continue(p.kind) /\ wkey'[w] = p.key
      /\ \A v \in Worker : v # w => wpc'[v] = wpc[v] /\ wkey'[v] = wkey[v]
  BY <1>1, <1>2, <1>3
<1>7. p.kind \in {"data", "eof", "abort", "exit"} /\ 1 \in 1..l
  BY <1>4 DEF Packets
<1>8. Continue(p.kind) # "close" /\ (Continue(p.kind) = "gone" <=> p.kind = "exit")
      /\ Continue(p.kind) # "get"
  BY <1>7 DEF Continue
<1>9. /\ p.kind = "exit" => p.key = None /\ apc = "join"
      /\ \A x \in Conn : x # None
  BY <1>3, <1>4, <1>7 DEF ConnInv, ExitInv, TypeInv, ContextInv, Conn, None
<1>10. ASSUME NEW x \in Conn, Place(x)
       PROVE  Place(x)'
  <2>1. CASE p.key # x
    <3>1. \A k \in PacketsOf(x) : k # 1
      BY <1>3, <2>1 DEF PacketsOf
    <3>2. \A k \in PacketsOf(x) : k - 1 \in PacketsOf(x)'
      <4> SUFFICES ASSUME NEW k \in PacketsOf(x)
                   PROVE  k - 1 \in 1..Len(port') /\ port'[k - 1].key = x
        BY DEF PacketsOf
      <4>1. k \in 1..l /\ k # 1 /\ port[k].key = x
        BY <1>4, <3>1 DEF PacketsOf
      <4>2. k - 1 \in 1..Len(port') /\ (k - 1) + 1 = k
        BY <1>4, <4>1
      <4>3. port'[k - 1] = port[(k - 1) + 1]
        BY <1>5, <4>2
      <4> QED
        BY <4>1, <4>2, <4>3
    <3>3. \A k \in PacketsOf(x)' : k + 1 \in PacketsOf(x) /\ (k + 1) - 1 = k
      BY <1>4, <1>5 DEF PacketsOf
    <3>4. SameWorkers(x)
      BY <1>1, <1>6, <2>1 DEF SameWorkers, Inside
    <3>5. WorkersOf(x)' = WorkersOf(x)
      BY <3>4 DEF WorkersOf, SameWorkers
    <3>6. CASE PacketsOf(x) = {}
      <4>1. PacketsOf(x)' = PacketsOf(x)
        BY <3>3, <3>6
      <4> QED
        BY <1>1, <1>10, <3>4, <4>1, SamePlace
    <3>7. CASE PacketsOf(x) # {}
      <4>1. Held(x) /\ Queued(x)
        BY <1>10, <3>7 DEF Place, Held, Out, Nowhere, Pending, Queued, AtWork
      <4>2. PICK k : PacketsOf(x) = {k}
        BY <4>1 DEF Queued
      <4>3. PacketsOf(x)' = {k - 1}
        BY <3>2, <3>3, <4>2
      <4>4. Queued(x)'
        BY <1>1, <3>5, <4>1, <4>3 DEF Queued
      <4> QED
        BY <1>1, <4>1, <4>4 DEF Place, Held
    <3> QED
      BY <3>6, <3>7
  <2>2. CASE p.key = x
    <3>1. 1 \in PacketsOf(x)
      BY <1>3, <1>4, <1>7, <2>2 DEF PacketsOf
    <3>2. Held(x) /\ Queued(x)
      BY <1>10, <3>1 DEF Place, Held, Out, Nowhere, Pending, Queued, AtWork
    <3>3. PacketsOf(x) = {1} /\ pend[x] = 0 /\ WorkersOf(x) = {}
      BY <3>1, <3>2 DEF Queued
    <3>4. PacketsOf(x)' = {}
      <4> SUFFICES ASSUME NEW k \in 1..Len(port'), port'[k].key = x
                   PROVE  FALSE
        BY DEF PacketsOf
      <4>1. k + 1 \in PacketsOf(x) /\ k + 1 # 1
        BY <1>4, <1>5 DEF PacketsOf
      <4> QED
        BY <3>3, <4>1
    <3>5. WorkersOf(x)' = {w}
      <4>1. \A v \in Worker : Inside(v)' /\ wkey'[v] = x <=> v = w
        BY <1>6, <1>8, <1>9, <2>2, <3>3 DEF WorkersOf, Inside
      <4> QED
        BY <4>1 DEF WorkersOf
    <3>6. AtWork(x)'
      BY <1>1, <3>3, <3>4, <3>5 DEF AtWork
    <3> QED
      BY <1>1, <3>2, <3>6 DEF Place, Held
  <2> QED
    BY <2>1, <2>2
<1>11. PlaceInv'
  BY <1>1, <1>10 DEF ConnInv, PlaceInv, Conn
<1>12. OwnerInv' /\ KeysInv'
  <2>1. \A v \in Worker : /\ wpc'[v] = "close" <=> wpc[v] = "close"
                          /\ wpc[v] = "close" => wkey'[v] = wkey[v]
    BY <1>1, <1>6, <1>8
  <2> QED
    BY <1>1, <2>1, SameOwners, SameKeys DEF ConnInv
<1>13. ExitInv'
  <2>1. \A k \in 1..Len(port') : port'[k].kind = "exit" => apc = "join"
    BY <1>4, <1>5 DEF ConnInv, ExitInv
  <2>2. apc # "restart"
    BY <1>1 DEF ConnInv, ExitInv
  <2> QED
    BY <1>1, <2>1, <2>2 DEF ExitInv
<1>14. TypeInv'
  BY <1>2, WorkerTypes DEF WorkerStep
<1> QED
  BY <1>11, <1>12, <1>13, <1>14 DEF ConnInv

(* A context at work, that was not crossed, is in one worker's hands.      *)
LEMMA InHand ==
  ASSUME ConnInv, NEW w \in Worker, Inside(w), wkey[w] \notin crossed
  PROVE  /\ wkey[w] \in Conn /\ ctx[wkey[w]] = "live" /\ wkey[w] \notin forgotten
         /\ AtWork(wkey[w]) /\ WorkersOf(wkey[w]) = {w}
         /\ wpc[w] # "close" => wkey[w] \in keys
         /\ wpc[w] = "close" => wkey[w] \notin keys
<1>1. wkey[w] \in Conn
  BY DEF ConnInv, TypeInv, ContextInv, Known
<1>2. Place(wkey[w]) /\ w \in WorkersOf(wkey[w])
  BY <1>1 DEF ConnInv, PlaceInv, WorkersOf
<1>3. Held(wkey[w]) /\ AtWork(wkey[w])
  BY <1>2 DEF Place, Held, Out, Nowhere, Pending, Queued, AtWork
<1>4. WorkersOf(wkey[w]) = {w}
  BY <1>2, <1>3 DEF AtWork
<1>5. Closing(wkey[w]) <=> wpc[w] = "close"
  BY <1>4 DEF Closing, WorkersOf, Inside
<1>6. wkey[w] \in keys <=> ctx[wkey[w]] = "live" /\ ~Closing(wkey[w])
  BY <1>1 DEF ConnInv, KeysInv
<1> QED
  BY <1>1, <1>3, <1>4, <1>5, <1>6 DEF Held

(* The set is not empty while such a context is at work.                   *)
LEMMA MessageConn ==
  ASSUME ConnInv, NEW w \in Worker, Message(w) \/ TestSet(w)
  PROVE  ConnInv'
<1>1. /\ UNCHANGED <<accepted, sock, owner, pend, ctx, keys, port, wkey, apc, listening, crossed,
                     forgotten>>
      /\ Inside(w) /\ wpc[w] # "close" /\ wpc[w] # "gone"
      /\ \A v \in Worker \ {w} : wpc'[v] = wpc[v]
      /\ wpc'[w] # "close"
      /\ Inside(w)' \/ keys = {}
      /\ wpc'[w] = "gone" => keys = {}
  BY DEF Message, TestSet, WorkerAt, netVars, keyVars, acceptVars, pastVars, Inside,
         ConnInv, TypeInv, TypeOK
<1>2. keys = {} => wkey[w] \in crossed
  BY <1>1, InHand
<1>3. ASSUME NEW x \in Conn, x \notin crossed, Place(x)
      PROVE  Place(x)'
  <2>1. SameWorkers(x)
    BY <1>1, <1>2, <1>3 DEF SameWorkers, Inside
  <2>2. PacketsOf(x)' = PacketsOf(x)
    BY <1>1 DEF PacketsOf
  <2> QED
    BY <1>1, <1>3, <2>1, <2>2, SamePlace
<1>4. PlaceInv'
  BY <1>1, <1>3 DEF ConnInv, PlaceInv, Conn
<1>5. OwnerInv' /\ KeysInv'
  <2>1. \A v \in Worker : wpc'[v] = "close" <=> wpc[v] = "close"
    BY <1>1
  <2> QED
    BY <1>1, <2>1, SameOwners, SameKeys DEF ConnInv
<1>6. ExitInv'
  <2>1. apc # "restart"
    BY <1>1 DEF ConnInv, ExitInv
  <2> QED
    BY <1>1, <2>1 DEF ConnInv, ExitInv
<1>7. TypeInv'
  BY WorkerTypes DEF ConnInv, WorkerStep
<1> QED
  BY <1>4, <1>5, <1>6, <1>7 DEF ConnInv

(* A receive posted on the socket of another crosses the two.              *)
LEMMA ReceiveConn ==
  ASSUME ConnInv, NEW w \in Worker, Receive(w)
  PROVE  ConnInv'
<1>1. /\ UNCHANGED <<accepted, sock, owner, ctx, keys, apc, listening, forgotten>>
      /\ wpc[w] = "receive" /\ Inside(w) /\ crossed \subseteq crossed'
  BY DEF Receive, WorkerAt, keyVars, acceptVars, Inside
<1>2. /\ TypeInv /\ pend \in [Conn -> Nat] /\ port \in Seq(Packets)
      /\ wpc \in [Worker -> {"get", "message", "receive", "eof", "error", "erase", "close", "gone"}]
      /\ wkey \in [Worker -> Conn \cup {None}]
      /\ wkey[w] \in Conn /\ sock[wkey[w]] \in Handle
  BY <1>1 DEF ConnInv, TypeInv, TypeOK, ContextInv, Known
<1>3. PICK y \in Conn \cup {None} : y = owner[sock[wkey[w]]]
  BY <1>2 DEF TypeInv, TypeOK
<1>4. \A v \in Worker \ {w} : wpc'[v] = wpc[v] /\ wkey'[v] = wkey[v]
  BY <1>2 DEF Receive, WorkerAt
<1>5. CASE wpc'[w] = "error" /\ pend' = pend /\ port' = port /\ wkey' = wkey /\ crossed' = crossed
  <2>1. \A x \in Conn : SameWorkers(x) /\ PacketsOf(x)' = PacketsOf(x)
    BY <1>1, <1>4, <1>5 DEF SameWorkers, Inside, PacketsOf
  <2>2. PlaceInv'
    <3>1. \A x \in Conn : Place(x) => Place(x)'
      BY <1>1, <1>5, <2>1, SamePlace
    <3> QED
      BY <1>5, <3>1 DEF ConnInv, PlaceInv, Conn
  <2>3. NoNewExit
    BY <1>5 DEF NoNewExit
  <2>4. OwnerInv' /\ KeysInv' /\ ExitInv'
    BY <1>1, <1>4, <1>5, <2>3, SameOwners, SameKeys, SameExits DEF ConnInv
  <2>5. TypeInv'
    BY <1>2, WorkerTypes DEF WorkerStep
  <2> QED
    BY <2>2, <2>4, <2>5 DEF ConnInv
<1>6. CASE /\ wpc'[w] = "get" /\ wkey'[w] = None /\ y # None
           /\ \/ pend' = pend /\ port' = port \o (IF ctx[y] = "none" THEN <<>>
                                                   ELSE <<Packet(y, "eof")>>)
              \/ pend' = [pend EXCEPT ![y] = @ + 1] /\ port' = port
           /\ crossed' = IF y = wkey[w] THEN crossed ELSE crossed \cup {y, wkey[w]}
  <2>1. y \in Conn /\ Packet(y, "eof") \in Packets /\ ~Inside(w)'
    BY <1>3, <1>6 DEF Packet, Packets, Inside
  <2>2. /\ \A x \in Conn : x # y => PacketsOf(x)' = PacketsOf(x) /\ pend'[x] = pend[x]
        /\ \/ /\ pend'[y] = pend[y]
              /\ ctx[y] # "none" /\ PacketsOf(y) = {} => PacketsOf(y)' = {Len(port) + 1}
           \/ pend'[y] = pend[y] + 1 /\ PacketsOf(y)' = PacketsOf(y)
        /\ NoNewExit
    <3>1. CASE pend' = [pend EXCEPT ![y] = @ + 1] /\ port' = port
      BY <1>2, <2>1, <3>1 DEF PacketsOf, NoNewExit
    <3>2. CASE pend' = pend /\ port' = port \o (IF ctx[y] = "none" THEN <<>>
                                                ELSE <<Packet(y, "eof")>>)
      <4>1. CASE ctx[y] = "none"
        <5>1. port' = port
          BY <1>2, <3>2, <4>1, ConcatEmptySeq
        <5> QED
          BY <3>2, <4>1, <5>1 DEF PacketsOf, NoNewExit
      <4>2. CASE ctx[y] # "none"
        <5>1. port' = port \o Copies(1, Packet(y, "eof"))
          BY <1>2, <2>1, <3>2, <4>2, AppendIsCopies, AppendIsConcat
        <5>2. /\ \A x \in Conn : x # y => PacketsOf(x)' = PacketsOf(x)
              /\ PacketsOf(y) = {} => PacketsOf(y)' = {Len(port) + 1}
              /\ NoNewExit
          BY <1>2, <2>1, <5>1, PacketsAdded
        <5> QED
          BY <3>2, <5>2
      <4> QED
        BY <4>1, <4>2
    <3> QED
      BY <1>6, <3>1, <3>2
  <2>3. ASSUME NEW x \in Conn, x \notin crossed', Place(x)
        PROVE  Place(x)'
    <3>1. CASE x # wkey[w]
      <4>1. x # y
        BY <1>6, <2>3, <3>1
      <4>2. SameWorkers(x)
        BY <1>1, <1>4, <2>1, <3>1 DEF SameWorkers, Inside
      <4>3. PacketsOf(x)' = PacketsOf(x) /\ pend'[x] = pend[x]
        BY <2>2, <4>1
      <4> QED
        BY <1>1, <2>3, <4>2, <4>3, SamePlace
    <3>2. CASE x = wkey[w]
      <4>1. x = y
        BY <1>6, <2>3, <3>2
      <4>2. /\ ctx[x] = "live" /\ x \notin forgotten /\ pend[x] = 0 /\ PacketsOf(x) = {}
            /\ WorkersOf(x) = {w}
        BY <1>1, <2>3, <3>2, InHand DEF AtWork
      <4>3. WorkersOf(x)' = {}
        BY <1>4, <2>1, <4>2 DEF WorkersOf, Inside
      <4>4. Pending(x)' \/ Queued(x)'
        <5>1. CASE pend'[y] = pend[y] /\ (ctx[y] # "none" /\ PacketsOf(y) = {} =>
                                            PacketsOf(y)' = {Len(port) + 1})
          BY <4>1, <4>2, <4>3, <5>1 DEF Queued
        <5>2. CASE pend'[y] = pend[y] + 1 /\ PacketsOf(y)' = PacketsOf(y)
          BY <4>1, <4>2, <4>3, <5>2 DEF Pending
        <5> QED
          BY <2>2, <5>1, <5>2
      <4> QED
        BY <1>1, <4>2, <4>4 DEF Place, Held
    <3> QED
      BY <3>1, <3>2
  <2>4. PlaceInv'
    BY <1>1, <2>3 DEF ConnInv, PlaceInv, Conn
  <2>5. OwnerInv' /\ KeysInv' /\ ExitInv'
    <3>1. \A v \in Worker : /\ wpc'[v] = "close" <=> wpc[v] = "close"
                            /\ wpc'[v] = "gone" <=> wpc[v] = "gone"
                            /\ wpc[v] \in {"close", "gone"} => wkey'[v] = wkey[v]
      BY <1>1, <1>4, <1>6
    <3> QED
      BY <1>1, <2>2, <3>1, SameOwners, SameKeys, SameExits DEF ConnInv
  <2>6. TypeInv'
    BY <1>2, WorkerTypes DEF WorkerStep
  <2> QED
    BY <2>4, <2>5, <2>6 DEF ConnInv
<1> QED
  BY <1>2, <1>3, <1>5, <1>6 DEF Receive, WorkerAt

LEMMA EraseConn ==
  ASSUME ConnInv, NEW w \in Worker, Erase(w)
  PROVE  ConnInv'
<1>1. /\ UNCHANGED <<accepted, sock, owner, pend, ctx, port, wkey, apc, listening, crossed, forgotten>>
      /\ wpc[w] = "erase" /\ keys' = keys \ {wkey[w]}
  BY DEF Erase, WorkerAt, netVars, acceptVars, pastVars
<1>2. /\ TypeInv /\ Inside(w) /\ Inside(w)' /\ wpc'[w] = "close"
      /\ \A v \in Worker \ {w} : wpc'[v] = wpc[v]
  BY <1>1 DEF Erase, WorkerAt, ConnInv, TypeInv, TypeOK, Inside
<1>3. \A x \in Conn : SameWorkers(x) /\ PacketsOf(x)' = PacketsOf(x)
  BY <1>1, <1>2 DEF SameWorkers, Inside, PacketsOf
<1>4. PlaceInv'
  <2>1. \A x \in Conn : Place(x) => Place(x)'
    BY <1>1, <1>3, SamePlace
  <2> QED
    BY <1>1, <2>1 DEF ConnInv, PlaceInv, Conn
<1>5. KeysInv'
  <2>1. ASSUME NEW x \in Conn, x \notin crossed
        PROVE  x \in keys' <=> ctx'[x] = "live" /\ ~Closing(x)'
    <3>1. CASE x = wkey[w]
      BY <1>1, <1>2, <3>1 DEF Closing
    <3>2. CASE x # wkey[w]
      <4>1. Closing(x)' <=> Closing(x)
        BY <1>1, <1>2, <3>2 DEF Closing
      <4> QED
        BY <1>1, <2>1, <3>2, <4>1 DEF ConnInv, KeysInv
    <3> QED
      BY <3>1, <3>2
  <2> QED
    BY <1>1, <2>1 DEF KeysInv, Conn
<1>6. OwnerInv' /\ ExitInv'
  <2>1. NoNewExit
    BY <1>1 DEF NoNewExit
  <2> QED
    BY <1>1, <1>2, <2>1, SameOwners, SameExits DEF ConnInv
<1>7. TypeInv'
  BY <1>2, WorkerTypes DEF WorkerStep
<1> QED
  BY <1>4, <1>5, <1>6, <1>7 DEF ConnInv

(* Its only holder deletes a context.                                      *)
LEMMA CloseConn ==
  ASSUME ConnInv, NEW w \in Worker, Close(w)
  PROVE  ConnInv'
<1>1. /\ UNCHANGED <<accepted, sock, keys, apc, listening, crossed, forgotten>>
      /\ wpc[w] = "close" /\ CloseHandle(sock[wkey[w]])
  BY DEF Close, WorkerAt, acceptVars, pastVars
<1>2. /\ TypeInv /\ Inside(w) /\ wkey[w] \in Conn /\ sock[wkey[w]] \in Handle
      /\ pend \in [Conn -> Nat] /\ port \in Seq(Packets)
  BY <1>1 DEF ConnInv, TypeInv, TypeOK, ContextInv, Known, Inside
<1>3. /\ ctx'[wkey[w]] = "deleted" /\ wpc'[w] = "get" /\ ~Inside(w)'
      /\ \A x \in Conn : x # wkey[w] => ctx'[x] = ctx[x]
      /\ \A v \in Worker : v # w => wpc'[v] = wpc[v] /\ wkey'[v] = wkey[v]
  BY <1>2 DEF Close, WorkerAt, TypeInv, TypeOK, Inside
<1>4. NoNewExit /\ \A h \in Handle : owner'[h] \in {None, owner[h]}
  BY <1>1, <1>2, ExitsClosed
<1>5. ASSUME NEW x \in Conn, Place(x), x \notin crossed
      PROVE  Place(x)'
  <2>1. CASE x # wkey[w]
    <3>1. SameWorkers(x) /\ ctx'[x] = ctx[x]
      BY <1>2, <1>3, <2>1 DEF SameWorkers, Inside
    <3>2. PICK h \in Handle : CloseHandle(h)
      BY <1>1, <1>2
    <3> QED
      BY <1>1, <1>2, <1>5, <3>1, <3>2, PlaceClosed
  <2>2. CASE x = wkey[w]
    <3>1. pend[x] = 0 /\ PacketsOf(x) = {} /\ WorkersOf(x) = {w}
      BY <1>2, <1>5, <2>2, InHand DEF AtWork
    <3>2. WorkersOf(x)' = {}
      BY <1>3, <3>1 DEF WorkersOf, Inside
    <3>3. PacketsOf(x)' = {} /\ pend'[x] = 0
      <4>1. PICK y \in Conn \cup {None} : y = owner[sock[wkey[w]]]
        BY <1>2 DEF TypeInv, TypeOK
      <4>2. CASE y = None
        BY <1>1, <3>1, <4>1, <4>2 DEF CloseHandle, PacketsOf
      <4>3. CASE y \in Conn /\ y # None
        <5>1. port' = port \o Completed(y, "abort") /\ pend' = [pend EXCEPT ![y] = 0]
          BY <1>1, <4>1, <4>3 DEF CloseHandle
        <5>2. \A z \in Conn : z # y \/ pend[z] = 0 =>
                PacketsOf(z)' = PacketsOf(z) /\ pend'[z] = pend[z]
          BY <1>2, <4>3, <5>1, PacketsCompleted
        <5> QED
          BY <3>1, <5>2
      <4> QED
        BY <4>1, <4>2, <4>3
    <3>4. ctx'[x] = "deleted"
      BY <1>3, <2>2
    <3> QED
      BY <3>2, <3>3, <3>4 DEF Place, Out, Nowhere
  <2> QED
    BY <2>1, <2>2
<1>6. PlaceInv'
  BY <1>1, <1>5 DEF ConnInv, PlaceInv, Conn
<1>7. KeysInv'
  <2>1. ASSUME NEW x \in Conn, x \notin crossed
        PROVE  x \in keys' <=> ctx'[x] = "live" /\ ~Closing(x)'
    <3>1. CASE x = wkey[w]
      BY <1>1, <1>2, <1>3, <2>1, <3>1, InHand
    <3>2. CASE x # wkey[w]
      <4>1. Closing(x)' <=> Closing(x)
        BY <1>1, <1>3, <3>2 DEF Closing
      <4> QED
        BY <1>1, <1>3, <2>1, <3>2, <4>1 DEF ConnInv, KeysInv
    <3> QED
      BY <3>1, <3>2
  <2> QED
    BY <1>1, <2>1 DEF KeysInv, Conn
<1>8. OwnerInv' /\ ExitInv'
  BY <1>1, <1>3, <1>4, SameOwners, SameExits DEF ConnInv
<1>9. TypeInv'
  BY <1>2, WorkerTypes DEF WorkerStep
<1> QED
  BY <1>6, <1>7, <1>8, <1>9 DEF ConnInv

LEMMA StepConn == ConnInv /\ [Next]_vars => ConnInv'
<1> SUFFICES ASSUME ConnInv, [Next]_vars
             PROVE  ConnInv'
  OBVIOUS
<1>1. CASE UNCHANGED vars
  <2>1. UNCHANGED <<accepted, sock, owner, pend, ctx, keys, port, wpc, wkey, apc, listening,
                    crossed, forgotten>>
    BY <1>1 DEF vars, netVars, keyVars, workerVars, jobVars, acceptVars, pastVars
  <2>2. TypeInv'
    BY <1>1, StepTypes DEF ConnInv
  <2>3. PlaceInv'
    <3>1. \A x \in Conn : SameWorkers(x) /\ PacketsOf(x)' = PacketsOf(x)
      BY <2>1 DEF SameWorkers, Inside, PacketsOf
    <3>2. \A x \in Conn : Place(x) => Place(x)'
      BY <2>1, <3>1, SamePlace
    <3> QED
      BY <2>1, <3>2 DEF ConnInv, PlaceInv, Conn
  <2>4. OwnerInv' /\ KeysInv' /\ ExitInv'
    BY <2>1, SameOwners, SameKeys, SameExits DEF ConnInv, NoNewExit
  <2> QED
    BY <2>2, <2>3, <2>4 DEF ConnInv
<1>2. CASE AcceptClose
  BY <1>2, NewKeyConn, PostExitsConn, StopConn, CloseAllConn DEF AcceptClose
<1>3. CASE \E w \in Worker : WorkerStep(w)
  BY <1>3, GetConn, MessageConn, ReceiveConn, EraseConn, CloseConn DEF WorkerStep
<1> QED
  BY <1>1, <1>2, <1>3, ClientConn, SaveConn, AcceptConn, StopConn DEF Next, Clients, Waiting

-----------------------------------------------------------------------------
(* What the invariant says                                                 *)

LEMMA PlacesAreOne == ConnInv => OneHandler
<1> SUFFICES ASSUME ConnInv, NEW x \in Conn, ctx[x] = "live", x \notin crossed
             PROVE  Handlers(x) = IF x \in forgotten THEN 0 ELSE 1
  BY DEF OneHandler
<1>1. Handlers(x) = pend[x] + Cardinality(PacketsOf(x)) + Cardinality(WorkersOf(x))
  BY DEF Handlers, PacketsOf, WorkersOf
<1>2. \A a : Cardinality({a}) = 1
  BY FS_Singleton
<1>3. Cardinality({}) = 0
  BY FS_EmptySet
<1>4. CASE Held(x)
  <2>1. Pending(x) => Handlers(x) = 1
    BY <1>1, <1>3 DEF Pending
  <2>2. Queued(x) => Handlers(x) = 1
    <3> SUFFICES ASSUME Queued(x)
                 PROVE  Handlers(x) = 1
      OBVIOUS
    <3>1. PICK i : PacketsOf(x) = {i}
      BY DEF Queued
    <3>2. Cardinality(PacketsOf(x)) = 1
      BY <1>2, <3>1
    <3> QED
      BY <1>1, <1>3, <3>2 DEF Queued
  <2>3. AtWork(x) => Handlers(x) = 1
    <3> SUFFICES ASSUME AtWork(x)
                 PROVE  Handlers(x) = 1
      OBVIOUS
    <3>1. PICK w : WorkersOf(x) = {w}
      BY DEF AtWork
    <3>2. Cardinality(WorkersOf(x)) = 1
      BY <1>2, <3>1
    <3> QED
      BY <1>1, <1>3, <3>2 DEF AtWork
  <2> QED
    BY <1>4, <2>1, <2>2, <2>3 DEF Held
<1>5. CASE Out(x)
  BY <1>1, <1>3, <1>5 DEF Out, Nowhere
<1> QED
  BY <1>4, <1>5 DEF ConnInv, PlaceInv, Place

(* Exactly one receive, packet or worker has the context of a connection   *)
(* (IOCP_Run), whatever handles the system gives out again and in whatever *)
(* order the sockets are closed; it is nobody's when its first receive     *)
(* failed, and only crossing it with another can change that.              *)
THEOREM OneHandlerAlways == Spec => []OneHandler
<1>1. ConnInv => OneHandler
  BY PlacesAreOne
<1> QED
  BY <1>1, InitConn, StepConn, PTL DEF Spec

(* A deleted context is met again, in the queue or in the hands of a       *)
(* worker, only after it was crossed with another.                         *)
THEOREM DeletedKeyWasCrossedAlways == Spec => []DeletedKeyWasCrossed
<1>1. ConnInv => DeletedKeyWasCrossed
  <2> SUFFICES ASSUME ConnInv, NEW x \in InUse, x \notin crossed
               PROVE  ctx[x] = "live"
    BY DEF DeletedKeyWasCrossed
  <2>1. x \in Conn
    BY DEF InUse, ConnInv, TypeInv, ContextInv, Known
  <2>2. PacketsOf(x) # {} \/ WorkersOf(x) # {}
    BY DEF InUse, PacketsOf, WorkersOf
  <2> QED
    BY <2>1, <2>2 DEF ConnInv, PlaceInv, Place, Held, Out, Nowhere
<1> QED
  BY <1>1, InitConn, StepConn, PTL DEF Spec

-----------------------------------------------------------------------------
(* The set is never empty while a worker may look at it                    *)

(* Crossed or not, there are never more receives pending, completions in   *)
(* the queue and workers before their Erase than contexts in the set: each *)
(* has one of its own there, not always the one it is about.               *)
Counted == {"message", "receive", "eof", "error", "erase"}

Assigned(what, whom, nth) ==
  /\ \A x \in Conn : \A i \in 1..pend[x] :
       \E c \in keys : what[c] = "receive" /\ whom[c] = x /\ nth[c] = i
  /\ \A i \in 1..Len(port) : port[i].kind # "exit" =>
       \E c \in keys : what[c] = "packet" /\ nth[c] = i
  /\ \A w \in Worker : wpc[w] \in Counted =>
       \E c \in keys : what[c] = "worker" /\ whom[c] = w

EachHasAKey == \E what, whom, nth : Assigned(what, whom, nth)

(* An open socket has its context in the set, has not got it yet, or is    *)
(* about to be closed.                                                     *)
OpenInv ==
  \A h \in Handle : owner[h] # None =>
    owner[h] \in keys \/ Closing(owner[h]) \/ (apc = "key" /\ owner[h] = accepted)

StayInv == ConnInv /\ WorkersStay /\ OpenInv /\ EachHasAKey

FewerCounted == \A w \in Worker : wpc'[w] \in Counted => wpc[w] \in Counted

(* A step that begins nothing.                                             *)
LEMMA NothingBegins ==
  ASSUME EachHasAKey, keys \subseteq keys', FewerCounted,
         \A x \in Conn : \A i \in 1..pend'[x] : i \in 1..pend[x],
         \A i \in 1..Len(port') : port'[i].kind # "exit" =>
           i \in 1..Len(port) /\ port[i].kind # "exit"
  PROVE  EachHasAKey'
<1>1. PICK what, whom, nth : Assigned(what, whom, nth)
  BY DEF EachHasAKey
<1>2. Assigned(what, whom, nth)'
  BY <1>1 DEF Assigned, FewerCounted, Conn
<1> QED
  BY <1>2 DEF EachHasAKey

(* One packet takes the place of the receive, or of the worker, whose key  *)
(* is d.                                                                   *)
LEMMA PacketBegins ==
  ASSUME TypeInv, NEW p \in Packets, port' = Append(port, p),
         NEW what, NEW whom, NEW nth, Assigned(what, whom, nth),
         keys \subseteq keys', keys' \subseteq Conn, NEW d \in keys', FewerCounted,
         \A x \in Conn : \A i \in 1..pend'[x] :
           i \in 1..pend[x] /\ ~(what[d] = "receive" /\ whom[d] = x /\ nth[d] = i /\ d \in keys),
         \A w \in Worker : wpc'[w] \in Counted =>
           ~(what[d] = "worker" /\ whom[d] = w /\ d \in keys),
         d \in keys => what[d] # "packet"
  PROVE  EachHasAKey'
<1>1. /\ Len(port) \in Nat /\ Len(port') = Len(port) + 1
      /\ \A i \in 1..Len(port) : port'[i] = port[i]
      /\ \A i \in 1..Len(port') : i \in 1..Len(port) \/ i = Len(port) + 1
  BY AppendPacket DEF TypeInv
<1>2. PICK what2 : what2 = [c \in Conn |-> IF c = d THEN "packet" ELSE what[c]]
  OBVIOUS
<1>3. PICK nth2 : nth2 = [c \in Conn |-> IF c = d THEN Len(port) + 1 ELSE nth[c]]
  OBVIOUS
<1>4. PICK whom2 : whom2 = [c \in Conn |-> whom[c]]
  OBVIOUS
<1>5. /\ what2[d] = "packet" /\ nth2[d] = Len(port) + 1
      /\ \A c \in keys : c \in keys' /\ whom2[c] = whom[c]
      /\ \A c \in keys : c # d => what2[c] = what[c] /\ nth2[c] = nth[c]
  BY <1>2, <1>3, <1>4
<1>6. ASSUME NEW x \in Conn, NEW i \in 1..pend'[x]
      PROVE  \E c \in keys' : what2[c] = "receive" /\ whom2[c] = x /\ nth2[c] = i
  <2>1. PICK c \in keys : what[c] = "receive" /\ whom[c] = x /\ nth[c] = i
    BY DEF Assigned
  <2> QED
    BY <1>5, <2>1
<1>7. ASSUME NEW i \in 1..Len(port'), port'[i].kind # "exit"
      PROVE  \E c \in keys' : what2[c] = "packet" /\ nth2[c] = i
  <2>1. CASE i = Len(port) + 1
    BY <1>5, <2>1
  <2>2. CASE i \in 1..Len(port)
    <3>1. PICK c \in keys : what[c] = "packet" /\ nth[c] = i
      BY <1>1, <1>7, <2>2 DEF Assigned
    <3> QED
      BY <1>5, <3>1
  <2> QED
    BY <1>1, <2>1, <2>2
<1>8. ASSUME NEW w \in Worker, wpc'[w] \in Counted
      PROVE  \E c \in keys' : what2[c] = "worker" /\ whom2[c] = w
  <2>1. PICK c \in keys : what[c] = "worker" /\ whom[c] = w
    BY <1>8 DEF Assigned, FewerCounted
  <2> QED
    BY <1>5, <1>8, <2>1
<1>9. Assigned(what2, whom2, nth2)'
  BY <1>6, <1>7, <1>8 DEF Assigned, Conn
<1> QED
  BY <1>9 DEF EachHasAKey

(* A receive on z takes the place of the worker whose key is d, or has the *)
(* new key d.                                                              *)
Spare(d, what, whom) ==
  /\ d \in keys' /\ (d \in keys => what[d] = "worker")
  /\ \A w \in Worker : wpc'[w] \in Counted => ~(what[d] = "worker" /\ whom[d] = w /\ d \in keys)

LEMMA ReceiveBegins ==
  ASSUME TypeInv, NEW z \in Conn, port' = port, pend' = [pend EXCEPT ![z] = @ + 1],
         NEW what, NEW whom, NEW nth, Assigned(what, whom, nth),
         keys \subseteq keys', keys' \subseteq Conn, FewerCounted, NEW d, Spare(d, what, whom)
  PROVE  EachHasAKey'
<1> USE DEF Spare
<1>1. pend \in [Conn -> Nat]
  BY DEF TypeInv, TypeOK
<1>2. PICK what2 : what2 = [c \in Conn |-> IF c = d THEN "receive" ELSE what[c]]
  OBVIOUS
<1>3. PICK nth2 : nth2 = [c \in Conn |-> IF c = d THEN pend[z] + 1 ELSE nth[c]]
  OBVIOUS
<1>4. PICK whom2 : whom2 = [c \in Conn |-> IF c = d THEN z ELSE whom[c]]
  OBVIOUS
<1>5. /\ what2[d] = "receive" /\ nth2[d] = pend[z] + 1 /\ whom2[d] = z
      /\ \A c \in keys : c \in keys'
      /\ \A c \in keys : c # d => what2[c] = what[c] /\ nth2[c] = nth[c] /\ whom2[c] = whom[c]
  BY <1>2, <1>3, <1>4
<1>6. ASSUME NEW x \in Conn, NEW i \in 1..pend'[x]
      PROVE  \E c \in keys' : what2[c] = "receive" /\ whom2[c] = x /\ nth2[c] = i
  <2>1. CASE i \in 1..pend[x]
    <3>1. PICK c \in keys : what[c] = "receive" /\ whom[c] = x /\ nth[c] = i
      BY <2>1 DEF Assigned
    <3> QED
      BY <1>5, <3>1
  <2>2. CASE i \notin 1..pend[x]
    <3>1. x = z /\ i = pend[z] + 1
      BY <1>1, <2>2
    <3> QED
      BY <1>5, <3>1
  <2> QED
    BY <2>1, <2>2
<1>7. ASSUME NEW i \in 1..Len(port), port[i].kind # "exit"
      PROVE  \E c \in keys' : what2[c] = "packet" /\ nth2[c] = i
  <2>1. PICK c \in keys : what[c] = "packet" /\ nth[c] = i
    BY <1>7 DEF Assigned
  <2> QED
    BY <1>5, <2>1
<1>8. ASSUME NEW w \in Worker, wpc'[w] \in Counted
      PROVE  \E c \in keys' : what2[c] = "worker" /\ whom2[c] = w
  <2>1. PICK c \in keys : what[c] = "worker" /\ whom[c] = w
    BY <1>8 DEF Assigned, FewerCounted
  <2> QED
    BY <1>5, <1>8, <2>1
<1>9. Assigned(what2, whom2, nth2)'
  BY <1>6, <1>7, <1>8 DEF Assigned, Conn
<1> QED
  BY <1>9 DEF EachHasAKey

(* The receives pending on y complete: their keys are those of the packets. *)
LEMMA KeysCompleted ==
  ASSUME TypeInv, EachHasAKey, NEW y \in Conn, NEW kind \in {"eof", "abort"},
         port' = port \o Completed(y, kind), pend' = [pend EXCEPT ![y] = 0],
         keys' = keys, FewerCounted
  PROVE  EachHasAKey'
<1>1. PICK what, whom, nth : Assigned(what, whom, nth)
  BY DEF EachHasAKey
<1>2. pend \in [Conn -> Nat] /\ port \in Seq(Packets) /\ keys \subseteq Conn
  BY DEF TypeInv, TypeOK
<1>3. PICK n \in 0..pend[y] : /\ Len(port) \in Nat /\ Len(port') = Len(port) + n
                              /\ \A i \in 1..Len(port) : port'[i] = port[i]
  <2>1. CASE ctx[y] = "none"
    <3>1. port' = port /\ Len(port) \in Nat
      BY <1>2, <2>1, ConcatEmptySeq, LenProperties DEF Completed
    <3>2. 0 \in 0..pend[y]
      BY <1>2
    <3> QED
      BY <3>1, <3>2
  <2>2. CASE ctx[y] # "none"
    <3>1. PICK n \in Nat : n = pend[y]
      BY <1>2
    <3>2. PICK p \in Packets : p = Packet(y, kind)
      BY DEF Packet, Packets
    <3>3. port' = port \o Copies(n, p)
      BY <2>2, <3>1, <3>2 DEF Completed
    <3>4. /\ Len(port) \in Nat /\ Len(port \o Copies(n, p)) = Len(port) + n
          /\ \A i \in 1..Len(port) : (port \o Copies(n, p))[i] = port[i]
      <4>1. /\ Len(port) \in Nat /\ Len(port \o Copies(n, p)) = Len(port) + n
            /\ \A i \in 1..Len(port) : (port \o Copies(n, p))[i] = port[i]
            /\ \A i \in (Len(port) + 1)..(Len(port) + n) : (port \o Copies(n, p))[i] = p
        BY <1>2, PortJoined
      <4> QED
        BY <4>1
    <3>5. n \in 0..pend[y]
      BY <3>1
    <3> QED
      BY <3>3, <3>4, <3>5
  <2> QED
    BY <2>1, <2>2
<1>4. PICK what2 : what2 = [c \in Conn |-> IF what[c] = "receive" /\ whom[c] = y
                                            THEN "packet" ELSE what[c]]
  OBVIOUS
<1>5. PICK nth2 : nth2 = [c \in Conn |-> IF what[c] = "receive" /\ whom[c] = y
                                          THEN Len(port) + nth[c] ELSE nth[c]]
  OBVIOUS
<1>6. /\ \A c \in keys : ~(what[c] = "receive" /\ whom[c] = y) =>
           what2[c] = what[c] /\ nth2[c] = nth[c]
      /\ \A c \in keys : what[c] = "receive" /\ whom[c] = y =>
           what2[c] = "packet" /\ nth2[c] = Len(port) + nth[c]
  BY <1>2, <1>4, <1>5
<1>7. ASSUME NEW x \in Conn, NEW i \in 1..pend'[x]
      PROVE  \E c \in keys' : what2[c] = "receive" /\ whom[c] = x /\ nth2[c] = i
  <2>1. x # y /\ i \in 1..pend[x]
    BY <1>2
  <2>2. \A j \in 1..pend[x] : \E c \in keys : what[c] = "receive" /\ whom[c] = x /\ nth[c] = j
    BY <1>1 DEF Assigned
  <2>3. PICK c \in keys : what[c] = "receive" /\ whom[c] = x /\ nth[c] = i
    BY <2>1, <2>2
  <2> QED
    BY <1>6, <2>1, <2>3
<1>8. ASSUME NEW i \in 1..Len(port'), port'[i].kind # "exit"
      PROVE  \E c \in keys' : what2[c] = "packet" /\ nth2[c] = i
  <2>1. CASE i \in 1..Len(port)
    <3>1. PICK c \in keys : what[c] = "packet" /\ nth[c] = i
      BY <1>1, <1>3, <1>8, <2>1 DEF Assigned
    <3> QED
      BY <1>6, <3>1
  <2>2. CASE i \notin 1..Len(port)
    <3>1. i - Len(port) \in 1..pend[y]
      BY <1>2, <1>3, <2>2
    <3>2. PICK c \in keys : what[c] = "receive" /\ whom[c] = y /\ nth[c] = i - Len(port)
      BY <1>1, <3>1 DEF Assigned
    <3>3. nth2[c] = Len(port) + (i - Len(port)) /\ what2[c] = "packet"
      BY <1>6, <3>2
    <3> QED
      BY <1>3, <3>3
  <2> QED
    BY <2>1, <2>2
<1>9. ASSUME NEW w \in Worker, wpc'[w] \in Counted
      PROVE  \E c \in keys' : what2[c] = "worker" /\ whom[c] = w
  <2>1. PICK c \in keys : what[c] = "worker" /\ whom[c] = w
    BY <1>1, <1>9 DEF Assigned, FewerCounted
  <2> QED
    BY <1>6, <2>1
<1>10. Assigned(what2, whom, nth2)'
  BY <1>7, <1>8, <1>9 DEF Assigned, Conn
<1> QED
  BY <1>10 DEF EachHasAKey

LEMMA KeysClosed ==
  ASSUME TypeInv, EachHasAKey, NEW h \in Handle, CloseHandle(h), keys' = keys, FewerCounted
  PROVE  EachHasAKey'
<1>1. owner[h] \in Conn \cup {None}
  BY DEF TypeInv, TypeOK
<1>2. CASE owner[h] = None
  BY <1>2, NothingBegins DEF CloseHandle
<1>3. CASE owner[h] # None
  <2>1. /\ owner[h] \in Conn /\ pend' = [pend EXCEPT ![owner[h]] = 0]
        /\ port' = port \o Completed(owner[h], "abort")
    BY <1>1, <1>3 DEF CloseHandle
  <2> QED
    BY <2>1, KeysCompleted
<1> QED
  BY <1>2, <1>3

(* What is left of OpenInv and WorkersStay when sockets are only closed    *)
(* and no worker ends.                                                     *)
LEMMA SameStay ==
  ASSUME OpenInv, WorkersStay, UNCHANGED <<accepted, apc, listening>>, keys \subseteq keys',
         \A h \in Handle : owner'[h] \in {None, owner[h]},
         \A x : Closing(x) => Closing(x)',
         \A w \in Worker : wpc'[w] = "gone" => wpc[w] = "gone"
  PROVE  OpenInv' /\ WorkersStay'
<1>1. OpenInv'
  BY DEF OpenInv
<1>2. WorkersStay'
  BY DEF WorkersStay
<1> QED
  BY <1>1, <1>2

LEMMA ClientStay ==
  ASSUME StayInv, NEW y \in Conn, Send(y) \/ Fin(y) \/ Reset(y)
  PROVE  OpenInv' /\ WorkersStay' /\ EachHasAKey'
<1>1. UNCHANGED <<accepted, sock, owner, ctx, keys, wpc, wkey, apc, listening>>
  BY DEF Send, Fin, Reset, Leave, keyVars, workerVars, jobVars, acceptVars, pastVars
<1>2. TypeInv /\ FewerCounted /\ EachHasAKey /\ keys \subseteq Conn /\ pend \in [Conn -> Nat]
  BY <1>1 DEF StayInv, ConnInv, FewerCounted, TypeInv, TypeOK
<1>3. OpenInv' /\ WorkersStay'
  BY <1>1, SameStay DEF StayInv, Closing
<1>4. CASE Send(y)
  <2>1. port' = Append(port, Packet(y, "data")) /\ pend[y] > 0 /\ pend' = [pend EXCEPT ![y] = @ - 1]
    BY <1>4 DEF Send
  <2>2. PICK p \in Packets : p = Packet(y, "data")
    BY DEF Packet, Packets
  <2>3. PICK what, whom, nth : Assigned(what, whom, nth)
    BY <1>2 DEF EachHasAKey
  <2>4. PICK d \in keys : what[d] = "receive" /\ whom[d] = y /\ nth[d] = pend[y]
    <3>1. pend[y] \in 1..pend[y]
      BY <1>2, <2>1
    <3> QED
      BY <2>3, <3>1 DEF Assigned
  <2>5. \A x \in Conn : \A i \in 1..pend'[x] : i \in 1..pend[x] /\ (x = y => i # pend[y])
    BY <1>2, <2>1
  <2> QED
    BY <1>1, <1>2, <1>3, <2>1, <2>2, <2>3, <2>4, <2>5, PacketBegins
<1>5. ASSUME NEW how, NEW kind \in {"eof", "abort"}, Leave(y, how, kind)
      PROVE  EachHasAKey'
  BY <1>1, <1>2, <1>5, KeysCompleted DEF Leave
<1> QED
  BY <1>3, <1>4, <1>5 DEF Fin, Reset

LEMMA SaveStay ==
  ASSUME StayInv, NEW y \in Conn, SaveStep(y)
  PROVE  OpenInv' /\ WorkersStay' /\ EachHasAKey'
<1>1. UNCHANGED <<accepted, sock, ctx, keys, wpc, wkey, apc, listening>>
  BY DEF SaveStep, HandlerCloses, HandlerReturns, Answer, netVars, keyVars, workerVars,
         acceptVars, pastVars
<1>2. TypeInv /\ FewerCounted /\ EachHasAKey
  BY <1>1 DEF StayInv, ConnInv, FewerCounted
<1>3. sock[y] \in Handle
  BY DEF SaveStep, HandlerCloses, HandlerReturns, Answer, StayInv, ConnInv, TypeInv, ContextInv
<1>4. (\A h \in Handle : owner'[h] \in {None, owner[h]}) /\ EachHasAKey'
  <2>1. CASE CloseHandle(sock[y])
    BY <1>1, <1>2, <1>3, <2>1, KeysClosed, ExitsClosed
  <2>2. CASE UNCHANGED <<owner, pend, port>>
    BY <1>1, <1>2, <2>2, NothingBegins
  <2> QED
    BY <2>1, <2>2 DEF SaveStep, HandlerCloses, HandlerReturns, Answer, netVars
<1>5. OpenInv' /\ WorkersStay'
  BY <1>1, <1>4, SameStay DEF StayInv, Closing
<1> QED
  BY <1>4, <1>5

LEMMA AcceptStay ==
  ASSUME StayInv, NEW h \in Handle, Accept(h)
  PROVE  OpenInv' /\ WorkersStay' /\ EachHasAKey'
<1>1. /\ UNCHANGED <<pend, ctx, keys, port, wpc, wkey, listening>>
      /\ apc = "accept" /\ apc' = (IF Cardinality(keys) < MaxKeys THEN "key" ELSE "accept")
      /\ accepted' = accepted + 1
      /\ owner' = [owner EXCEPT ![h] = IF Cardinality(keys) < MaxKeys THEN accepted + 1 ELSE None]
  BY DEF Accept, AcceptAt, keyVars, workerVars, jobVars, pastVars
<1>2. owner \in [Handle -> Conn \cup {None}]
  BY DEF StayInv, ConnInv, TypeInv, TypeOK
<1>3. EachHasAKey'
  BY <1>1, NothingBegins DEF StayInv, FewerCounted
<1>4. WorkersStay'
  BY <1>1 DEF StayInv, WorkersStay
<1>5. OpenInv'
  <2> SUFFICES ASSUME NEW k \in Handle, owner'[k] # None
               PROVE  \/ owner'[k] \in keys' \/ Closing(owner[k])'
                      \/ apc' = "key" /\ owner'[k] = accepted'
    BY DEF OpenInv
  <2>1. CASE k = h
    BY <1>1, <1>2, <2>1
  <2>2. CASE k # h
    <3>1. owner'[k] = owner[k]
      BY <1>1, <1>2, <2>2
    <3>2. owner[k] \in keys \/ Closing(owner[k])
      BY <1>1, <3>1 DEF StayInv, OpenInv
    <3> QED
      BY <1>1, <3>1, <3>2 DEF Closing
  <2> QED
    BY <2>1, <2>2
<1> QED
  BY <1>3, <1>4, <1>5

(* The new context is the key of the first receive.                        *)
LEMMA NewKeyStay ==
  ASSUME StayInv, NewKey
  PROVE  OpenInv' /\ WorkersStay' /\ EachHasAKey'
<1>1. PICK y : y = accepted
  OBVIOUS
<1>2. /\ UNCHANGED <<sock, owner, peer, wpc, wkey, accepted, listening>>
      /\ apc = "key" /\ apc' = "accept" /\ keys' = keys \cup {y}
      /\ \/ UNCHANGED <<pend, port>>
         \/ port' = Append(port, Packet(y, "eof")) /\ UNCHANGED pend
         \/ pend' = [pend EXCEPT ![y] = @ + 1] /\ UNCHANGED port
  BY <1>1 DEF NewKey, AcceptAt, workerVars, jobVars
<1>3. /\ TypeInv /\ keys \subseteq Conn /\ y \in Conn /\ y \notin keys
      /\ keys' \subseteq Conn /\ keys \subseteq keys' /\ y \in keys' /\ FewerCounted
  BY <1>1, <1>2 DEF StayInv, ConnInv, TypeInv, TypeOK, ContextInv, FewerCounted
<1>4. WorkersStay'
  BY <1>2 DEF StayInv, WorkersStay
<1>5. OpenInv'
  BY <1>1, <1>2 DEF StayInv, OpenInv, Closing
<1>6. CASE UNCHANGED <<pend, port>>
  BY <1>3, <1>4, <1>5, <1>6, NothingBegins DEF StayInv
<1>7. PICK what, whom, nth : Assigned(what, whom, nth)
  BY DEF StayInv, EachHasAKey
<1>8. CASE port' = Append(port, Packet(y, "eof")) /\ UNCHANGED pend
  <2>1. PICK p \in Packets : p = Packet(y, "eof")
    BY <1>3 DEF Packet, Packets
  <2>2. port' = Append(port, p)
    BY <1>8, <2>1
  <2>3. \A x \in Conn : \A i \in 1..pend'[x] : i \in 1..pend[x]
    BY <1>8
  <2>4. EachHasAKey'
    BY <1>3, <1>7, <2>2, <2>3, PacketBegins
  <2> QED
    BY <1>4, <1>5, <2>4
<1>9. CASE pend' = [pend EXCEPT ![y] = @ + 1] /\ UNCHANGED port
  <2>1. EachHasAKey'
    <3>1. Spare(y, what, whom)
      BY <1>3 DEF Spare
    <3> QED
      BY <1>3, <1>7, <1>9, <3>1, ReceiveBegins
  <2> QED
    BY <1>4, <1>5, <2>1
<1> QED
  BY <1>2, <1>6, <1>8, <1>9

LEMMA StopStay ==
  ASSUME StayInv, AcceptFails \/ PostExits \/ Restart
  PROVE  OpenInv' /\ WorkersStay' /\ EachHasAKey'
<1>1. UNCHANGED <<accepted, sock, owner, pend, ctx, keys, wkey>>
  BY DEF AcceptFails, PostExits, Restart, netVars, keyVars, workerVars, jobVars, pastVars
<1>2. \/ /\ apc = "accept" /\ apc' = "stop" /\ UNCHANGED <<wpc, listening, port>>
      \/ /\ apc = "stop" /\ apc' = "join" /\ UNCHANGED <<wpc, listening>>
         /\ port' = port \o (IF listening THEN Copies(Cardinality(Worker), Packet(None, "exit"))
                                          ELSE <<>>)
      \/ /\ apc = "restart" /\ apc' = "accept" /\ UNCHANGED port
         /\ \A w \in Worker : /\ wpc[w] = "gone"
                              /\ wpc'[w] = IF listening' THEN "get" ELSE "gone"
  BY DEF AcceptFails, PostExits, Restart, AcceptAt, workerVars, StayInv, ConnInv, ExitInv
<1>3. OpenInv'
  BY <1>1, <1>2 DEF StayInv, OpenInv, Closing
<1>4. WorkersStay'
  BY <1>1, <1>2 DEF StayInv, WorkersStay
<1>5. FewerCounted
  BY <1>2 DEF FewerCounted, Counted
<1>6. \A i \in 1..Len(port') : port'[i].kind # "exit" =>
        i \in 1..Len(port) /\ port[i].kind # "exit"
  <2>1. port \in Seq(Packets)
    BY DEF StayInv, ConnInv, TypeInv, TypeOK
  <2>2. CASE port' = port
    BY <2>2
  <2>3. CASE port' = port \o Copies(Cardinality(Worker), Packet(None, "exit"))
    <3>1. PICK n \in Nat : n = Cardinality(Worker)
      BY ConnectionsAssumption, FS_CardinalityType
    <3>2. PICK p \in Packets : p = Packet(None, "exit") /\ p.kind = "exit"
      <4>1. Packet(None, "exit") \in Packets /\ Packet(None, "exit").kind = "exit"
        BY DEF Packet, Packets
      <4> QED
        BY <4>1
    <3>3. port' = port \o Copies(n, p)
      BY <2>3, <3>1, <3>2
    <3>4. /\ Len(port) \in Nat /\ Len(port') = Len(port) + n
          /\ \A i \in 1..Len(port) : port'[i] = port[i]
          /\ \A i \in (Len(port) + 1)..(Len(port) + n) : port'[i] = p
      <4>1. /\ Len(port) \in Nat /\ Len(port \o Copies(n, p)) = Len(port) + n
            /\ \A i \in 1..Len(port) : (port \o Copies(n, p))[i] = port[i]
            /\ \A i \in (Len(port) + 1)..(Len(port) + n) : (port \o Copies(n, p))[i] = p
        BY <2>1, PortJoined
      <4> QED
        BY <3>3, <4>1
    <3>5. \A i \in 1..Len(port') : i \in 1..Len(port) \/ i \in (Len(port) + 1)..(Len(port) + n)
      BY <3>4
    <3> QED
      BY <3>2, <3>4, <3>5
  <2>4. port' = port \o <<>> => port' = port
    BY <2>1, ConcatEmptySeq
  <2> QED
    BY <1>2, <2>2, <2>3, <2>4
<1>7. EachHasAKey'
  BY <1>1, <1>5, <1>6, NothingBegins DEF StayInv
<1> QED
  BY <1>3, <1>4, <1>7

(* When all workers have ended, every open socket has its context in the   *)
(* set: none stays open, and no receive stays pending.                     *)
LEMMA CloseAllStay ==
  ASSUME StayInv, CloseAll
  PROVE  OpenInv' /\ WorkersStay' /\ EachHasAKey'
<1>1. /\ apc = "join" /\ apc' = "restart" /\ \A w \in Worker : wpc[w] = "gone"
      /\ port' = <<>> /\ UNCHANGED wpc
      /\ owner' = [h \in Handle |-> IF \E x \in keys : sock[x] = h THEN None ELSE owner[h]]
      /\ pend'  = [x \in Conn |-> IF \E h \in Handle : owner'[h] = x THEN pend[x] ELSE 0]
  BY DEF CloseAll, AcceptAt, workerVars
<1>2. \A h \in Handle : owner'[h] = None
  <2> SUFFICES ASSUME NEW h \in Handle, owner[h] # None
               PROVE  \E x \in keys : sock[x] = h
    BY <1>1
  <2>1. sock[owner[h]] = h
    BY DEF StayInv, ConnInv, OwnerInv
  <2>2. owner[h] \in keys
    BY <1>1 DEF StayInv, OpenInv, Closing
  <2> QED
    BY <2>1, <2>2
<1>3. OpenInv' /\ WorkersStay'
  BY <1>1, <1>2 DEF OpenInv, WorkersStay
<1>4. \A x \in Conn : pend'[x] = 0
  BY <1>1, <1>2 DEF Conn, None
<1>5. /\ \A x \in Conn : \A i \in 1..pend'[x] : i \in 1..pend[x]
      /\ \A i \in 1..Len(port') : FALSE
      /\ FewerCounted
  BY <1>1, <1>4, EmptySeq DEF FewerCounted
<1>6. PICK what, whom, nth : Assigned(what, whom, nth)
  BY DEF StayInv, EachHasAKey
<1>7. Assigned(what, whom, nth)'
  BY <1>1, <1>4, <1>5 DEF Assigned, Counted, Conn
<1> QED
  BY <1>3, <1>7 DEF EachHasAKey

LEMMA GetStay ==
  ASSUME StayInv, NEW w \in Worker, Get(w)
  PROVE  OpenInv' /\ WorkersStay' /\ EachHasAKey'
<1>1. /\ UNCHANGED <<accepted, apc, listening, owner, pend, keys>>
      /\ port # <<>> /\ port' = Tail(port)
      /\ wpc[w] = "get" /\ wpc' = [wpc EXCEPT ![w] = Continue(Head(port).kind)]
      /\ wkey' = [wkey EXCEPT ![w] = Head(port).key]
  BY DEF Get, WorkerAt, netVars, keyVars, acceptVars
<1>2. /\ TypeInv /\ keys \subseteq Conn
      /\ wpc \in [Worker -> {"get", "message", "receive", "eof", "error", "erase", "close", "gone"}]
      /\ wkey \in [Worker -> Conn \cup {None}]
  BY DEF StayInv, ConnInv, TypeInv, TypeOK
<1>3. /\ Len(port) \in Nat \ {0} /\ Len(port') = Len(port) - 1
      /\ Head(port) = port[1] /\ Head(port) \in Packets
      /\ \A i \in 1..Len(port') : i + 1 \in 1..Len(port) /\ port'[i] = port[i + 1]
  BY <1>1, <1>2, TailPacket DEF TypeInv
<1>4. /\ \A v \in Worker : v # w => wpc'[v] = wpc[v] /\ wkey'[v] = wkey[v]
      /\ wpc'[w] = Continue(Head(port).kind)
  BY <1>1, <1>2
<1>5. wpc'[w] = "gone" => apc = "join"
  <2>1. Head(port).kind \in {"data", "eof", "abort", "exit"}
    BY <1>3 DEF Packets
  <2>2. wpc'[w] = "gone" => port[1].kind = "exit"
    BY <1>3, <1>4, <2>1 DEF Continue
  <2> QED
    BY <1>3, <2>2 DEF StayInv, ConnInv, ExitInv
<1>6. WorkersStay'
  BY <1>1, <1>4, <1>5 DEF StayInv, WorkersStay
<1>7. OpenInv'
  <2>1. \A x : Closing(x) => Closing(x)'
    BY <1>1, <1>4 DEF Closing
  <2> QED
    BY <1>1, <2>1 DEF StayInv, OpenInv
<1>8. PICK what, whom, nth : Assigned(what, whom, nth)
  BY DEF StayInv, EachHasAKey
<1>9. PICK what2 : what2 = [c \in Conn |-> IF what[c] = "packet" /\ nth[c] = 1
                                            THEN "worker" ELSE what[c]]
  OBVIOUS
<1>10. PICK whom2 : whom2 = [c \in Conn |-> IF what[c] = "packet" THEN w ELSE whom[c]]
  OBVIOUS
<1>11. PICK nth2 : nth2 = [c \in Conn |-> IF what[c] = "packet" THEN nth[c] - 1 ELSE nth[c]]
  OBVIOUS
<1>12. /\ \A c \in keys : what[c] # "packet" =>
            what2[c] = what[c] /\ whom2[c] = whom[c] /\ nth2[c] = nth[c]
       /\ \A c \in keys : what[c] = "packet" => whom2[c] = w /\ nth2[c] = nth[c] - 1
       /\ \A c \in keys : what[c] = "packet" =>
            what2[c] = (IF nth[c] = 1 THEN "worker" ELSE "packet")
  BY <1>2, <1>9, <1>10, <1>11
<1>13. ASSUME NEW x \in Conn, NEW i \in 1..pend[x]
       PROVE  \E c \in keys : what2[c] = "receive" /\ whom2[c] = x /\ nth2[c] = i
  <2>1. PICK c \in keys : what[c] = "receive" /\ whom[c] = x /\ nth[c] = i
    BY <1>8 DEF Assigned
  <2> QED
    BY <1>12, <2>1
<1>14. ASSUME NEW i \in 1..Len(port'), port'[i].kind # "exit"
       PROVE  \E c \in keys : what2[c] = "packet" /\ nth2[c] = i
  <2>1. i + 1 \in 1..Len(port) /\ port[i + 1].kind # "exit"
    BY <1>3, <1>14
  <2>2. PICK c \in keys : what[c] = "packet" /\ nth[c] = i + 1
    BY <1>8, <2>1 DEF Assigned
  <2>3. i + 1 # 1 /\ (i + 1) - 1 = i
    BY <1>3
  <2> QED
    BY <1>12, <2>2, <2>3
<1>15. ASSUME NEW v \in Worker, wpc'[v] \in Counted
       PROVE  \E c \in keys : what2[c] = "worker" /\ whom2[c] = v
  <2>1. CASE v = w
    <3>1. port[1].kind # "exit" /\ 1 \in 1..Len(port)
      BY <1>3, <1>4, <1>15, <2>1 DEF Continue, Counted
    <3>2. PICK c \in keys : what[c] = "packet" /\ nth[c] = 1
      BY <1>8, <3>1 DEF Assigned
    <3> QED
      BY <1>12, <2>1, <3>2
  <2>2. CASE v # w
    <3>1. PICK c \in keys : what[c] = "worker" /\ whom[c] = v
      BY <1>4, <1>8, <1>15, <2>2 DEF Assigned
    <3> QED
      BY <1>12, <3>1
  <2> QED
    BY <2>1, <2>2
<1>16. Assigned(what2, whom2, nth2)'
  BY <1>1, <1>13, <1>14, <1>15 DEF Assigned, Conn
<1> QED
  BY <1>6, <1>7, <1>16 DEF EachHasAKey

(* A worker that looks at the set has a key of its own there, and finds it *)
(* not empty.                                                              *)
LEMMA TestStay ==
  ASSUME StayInv, NEW w \in Worker, Message(w) \/ TestSet(w)
  PROVE  OpenInv' /\ WorkersStay' /\ EachHasAKey'
<1>1. /\ UNCHANGED <<accepted, apc, listening, owner, pend, port, keys, wkey>>
      /\ \E there \in {"receive", "erase", "gone", "get"} : wpc' = [wpc EXCEPT ![w] = there]
      /\ wpc[w] \in {"message", "eof", "error"}
      /\ wpc' = [wpc EXCEPT ![w] = "gone"] => keys = {}
  BY DEF Message, TestSet, WorkerAt, netVars, keyVars, acceptVars, StayInv, ConnInv, TypeInv, TypeOK
<1>2. keys # {}
  <2>1. PICK what, whom, nth : Assigned(what, whom, nth)
    BY DEF StayInv, EachHasAKey
  <2>2. \E c \in keys : what[c] = "worker" /\ whom[c] = w
    BY <1>1, <2>1 DEF Assigned, Counted
  <2> QED
    BY <2>2
<1>3. wpc \in [Worker -> {"get", "message", "receive", "eof", "error", "erase", "close", "gone"}]
  BY DEF StayInv, ConnInv, TypeInv, TypeOK
<1>4. /\ \A v \in Worker : v # w => wpc'[v] = wpc[v]
      /\ wpc'[w] # "gone" /\ wpc[w] \in Counted /\ wpc[w] # "close"
  BY <1>1, <1>2, <1>3 DEF Counted
<1>5. (\A x : Closing(x) => Closing(x)') /\ FewerCounted
  BY <1>1, <1>4 DEF Closing, FewerCounted
<1>6. OpenInv' /\ WorkersStay'
  BY <1>1, <1>4, <1>5, SameStay DEF StayInv
<1>7. EachHasAKey'
  BY <1>1, <1>5, NothingBegins DEF StayInv
<1> QED
  BY <1>6, <1>7

(* The key of the worker is that of the receive it posts, wherever that    *)
(* is.                                                                     *)
LEMMA ReceiveStay ==
  ASSUME StayInv, NEW w \in Worker, Receive(w)
  PROVE  OpenInv' /\ WorkersStay' /\ EachHasAKey'
<1>1. PICK x : x = owner[sock[wkey[w]]]
  OBVIOUS
<1>2. /\ UNCHANGED <<accepted, apc, listening, owner, keys>>
      /\ wpc[w] = "receive"
      /\ \/ wpc' = [wpc EXCEPT ![w] = "error"] /\ UNCHANGED <<pend, port, wkey>>
         \/ /\ wpc' = [wpc EXCEPT ![w] = "get"] /\ wkey' = [wkey EXCEPT ![w] = None]
            /\ x # None
            /\ \/ UNCHANGED <<pend, port>>
               \/ port' = Append(port, Packet(x, "eof")) /\ UNCHANGED pend
               \/ pend' = [pend EXCEPT ![x] = @ + 1] /\ UNCHANGED port
  <2>1. port \in Seq(Packets)
    BY DEF StayInv, ConnInv, TypeInv, TypeOK
  <2>2. port \o <<>> = port
    BY <2>1, ConcatEmptySeq
  <2>3. port \o <<Packet(x, "eof")>> = Append(port, Packet(x, "eof"))
    BY <2>1
  <2> QED
    BY <1>1, <2>2, <2>3 DEF Receive, WorkerAt, keyVars, jobVars, acceptVars
<1>3. /\ TypeInv /\ keys \subseteq Conn
      /\ wpc \in [Worker -> {"get", "message", "receive", "eof", "error", "erase", "close", "gone"}]
      /\ x # None => x \in Conn
  <2>1. TypeInv /\ TypeOK /\ ContextInv
    BY DEF StayInv, ConnInv, TypeInv
  <2>2. sock[wkey[w]] \in Handle
    BY <1>2, <2>1 DEF ContextInv, Inside, Known
  <2> QED
    BY <1>1, <2>1, <2>2 DEF TypeOK
<1>4. /\ \A v \in Worker : v # w => wpc'[v] = wpc[v]
      /\ wpc'[w] # "gone" /\ wpc[w] \in Counted /\ wpc[w] # "close" /\ FewerCounted
  BY <1>2, <1>3 DEF Counted, FewerCounted
<1>5. \A y : Closing(y) => Closing(y)'
  BY <1>2, <1>4 DEF Closing, StayInv, ConnInv, TypeInv, TypeOK
<1>6. OpenInv' /\ WorkersStay'
  BY <1>2, <1>4, <1>5, SameStay DEF StayInv
<1>7. CASE UNCHANGED <<pend, port>>
  BY <1>2, <1>4, <1>6, <1>7, NothingBegins DEF StayInv
<1>8. PICK what, whom, nth : Assigned(what, whom, nth)
  BY DEF StayInv, EachHasAKey
<1>9. PICK d \in keys : what[d] = "worker" /\ whom[d] = w
  BY <1>4, <1>8 DEF Assigned
<1>10. CASE x # None /\ wpc' = [wpc EXCEPT ![w] = "get"]
            /\ port' = Append(port, Packet(x, "eof")) /\ UNCHANGED pend
  <2>1. wpc'[w] \notin Counted
    BY <1>3, <1>10 DEF Counted
  <2>2. PICK p \in Packets : p = Packet(x, "eof")
    BY <1>3, <1>10 DEF Packet, Packets
  <2>3. \A y \in Conn : \A i \in 1..pend'[y] : i \in 1..pend[y]
    BY <1>10
  <2>4. EachHasAKey'
    BY <1>2, <1>3, <1>4, <1>8, <1>9, <1>10, <2>1, <2>2, <2>3, PacketBegins
  <2> QED
    BY <1>6, <2>4
<1>11. CASE x # None /\ wpc' = [wpc EXCEPT ![w] = "get"]
            /\ pend' = [pend EXCEPT ![x] = @ + 1] /\ UNCHANGED port
  <2>1. wpc'[w] \notin Counted /\ x \in Conn
    BY <1>3, <1>11 DEF Counted
  <2>2. d \in keys' /\ keys \subseteq keys' /\ keys' \subseteq Conn
    BY <1>2, <1>3
  <2>3. \A v \in Worker : wpc'[v] \in Counted => ~(what[d] = "worker" /\ whom[d] = v /\ d \in keys)
    BY <1>9, <2>1
  <2>4. /\ TypeInv /\ x \in Conn /\ port' = port /\ pend' = [pend EXCEPT ![x] = @ + 1]
        /\ Assigned(what, whom, nth) /\ FewerCounted /\ (d \in keys => what[d] = "worker")
    BY <1>3, <1>4, <1>8, <1>9, <1>11, <2>1
  <2>5. EachHasAKey'
    <3>1. Spare(d, what, whom)
      BY <2>2, <2>3, <2>4 DEF Spare
    <3> QED
      BY <2>2, <2>4, <3>1, ReceiveBegins
  <2> QED
    BY <1>6, <2>5
<1> QED
  BY <1>2, <1>7, <1>10, <1>11

(* The key that is removed may be that of another: then that one takes the *)
(* worker's own.                                                           *)
LEMMA EraseStay ==
  ASSUME StayInv, NEW w \in Worker, Erase(w)
  PROVE  OpenInv' /\ WorkersStay' /\ EachHasAKey'
<1>1. PICK b : b = wkey[w]
  OBVIOUS
<1>2. /\ UNCHANGED <<accepted, apc, listening, owner, pend, port, wkey>>
      /\ wpc[w] = "erase" /\ wpc' = [wpc EXCEPT ![w] = "close"]
      /\ keys' = keys \ {b}
  BY <1>1 DEF Erase, WorkerAt, netVars, acceptVars
<1>3. /\ keys \subseteq Conn
      /\ wpc \in [Worker -> {"get", "message", "receive", "eof", "error", "erase", "close", "gone"}]
  BY DEF StayInv, ConnInv, TypeInv, TypeOK
<1>4. /\ \A v \in Worker : v # w => wpc'[v] = wpc[v]
      /\ wpc'[w] = "close" /\ wpc[w] \in Counted
  BY <1>2, <1>3 DEF Counted
<1>5. WorkersStay'
  BY <1>2, <1>4 DEF StayInv, WorkersStay
<1>6. OpenInv'
  <2>1. (\A x : Closing(x) => Closing(x)') /\ Closing(b)'
    BY <1>1, <1>2, <1>4 DEF Closing
  <2> QED
    BY <1>2, <2>1 DEF StayInv, OpenInv
<1>7. PICK what, whom, nth : Assigned(what, whom, nth)
  BY DEF StayInv, EachHasAKey
<1>8. PICK a \in keys : what[a] = "worker" /\ whom[a] = w
  BY <1>4, <1>7 DEF Assigned
<1>9. PICK what2 : what2 = [c \in Conn |-> IF c = a THEN what[b] ELSE what[c]]
  OBVIOUS
<1>10. PICK whom2 : whom2 = [c \in Conn |-> IF c = a THEN whom[b] ELSE whom[c]]
  OBVIOUS
<1>11. PICK nth2 : nth2 = [c \in Conn |-> IF c = a THEN nth[b] ELSE nth[c]]
  OBVIOUS
<1>12. ASSUME NEW c \in keys, ~(what[c] = "worker" /\ whom[c] = w)
       PROVE  \E e \in keys' : what2[e] = what[c] /\ whom2[e] = whom[c] /\ nth2[e] = nth[c]
  <2>1. c # a
    BY <1>8, <1>12
  <2>2. CASE c = b
    BY <1>2, <1>3, <1>9, <1>10, <1>11, <2>1, <2>2
  <2>3. CASE c # b
    BY <1>2, <1>3, <1>9, <1>10, <1>11, <2>1, <2>3
  <2> QED
    BY <2>2, <2>3
<1>13. ASSUME NEW x \in Conn, NEW i \in 1..pend[x]
       PROVE  \E e \in keys' : what2[e] = "receive" /\ whom2[e] = x /\ nth2[e] = i
  <2>1. PICK c \in keys : what[c] = "receive" /\ whom[c] = x /\ nth[c] = i
    BY <1>7 DEF Assigned
  <2> QED
    BY <1>12, <2>1
<1>14. ASSUME NEW i \in 1..Len(port), port[i].kind # "exit"
       PROVE  \E e \in keys' : what2[e] = "packet" /\ nth2[e] = i
  <2>1. PICK c \in keys : what[c] = "packet" /\ nth[c] = i
    BY <1>7, <1>14 DEF Assigned
  <2> QED
    BY <1>12, <2>1
<1>15. ASSUME NEW v \in Worker, wpc'[v] \in Counted
       PROVE  \E e \in keys' : what2[e] = "worker" /\ whom2[e] = v
  <2>1. v # w
    BY <1>4, <1>15 DEF Counted
  <2>2. PICK c \in keys : what[c] = "worker" /\ whom[c] = v
    BY <1>4, <1>7, <1>15, <2>1 DEF Assigned
  <2> QED
    BY <1>12, <2>1, <2>2
<1>16. Assigned(what2, whom2, nth2)'
  BY <1>2, <1>13, <1>14, <1>15 DEF Assigned, Conn
<1> QED
  BY <1>5, <1>6, <1>16 DEF EachHasAKey

LEMMA CloseStay ==
  ASSUME StayInv, NEW w \in Worker, Close(w)
  PROVE  OpenInv' /\ WorkersStay' /\ EachHasAKey'
<1>1. /\ UNCHANGED <<accepted, apc, listening, sock, keys>>
      /\ wpc[w] = "close" /\ wpc' = [wpc EXCEPT ![w] = "get"]
      /\ wkey' = [wkey EXCEPT ![w] = None]
      /\ CloseHandle(sock[wkey[w]])
  BY DEF Close, WorkerAt, acceptVars
<1>2. TypeInv /\ TypeOK /\ ContextInv /\ OwnerInv
  BY DEF StayInv, ConnInv, TypeInv
<1>3. sock[wkey[w]] \in Handle
  BY <1>1, <1>2 DEF ContextInv, Inside, Known
<1>4. /\ \A v \in Worker : v # w => wpc'[v] = wpc[v] /\ wkey'[v] = wkey[v]
      /\ wpc'[w] = "get" /\ FewerCounted
  BY <1>1, <1>2 DEF TypeOK, FewerCounted, Counted
<1>5. EachHasAKey'
  BY <1>1, <1>2, <1>3, <1>4, KeysClosed DEF StayInv
<1>6. WorkersStay'
  BY <1>1, <1>4 DEF StayInv, WorkersStay
<1>7. (\A h \in Handle : owner'[h] \in {None, owner[h]}) /\ owner'[sock[wkey[w]]] = None
  <2>1. owner \in [Handle -> Conn \cup {None}]
    BY <1>2 DEF TypeOK
  <2> QED
    BY <1>1, <1>3, <2>1 DEF CloseHandle
<1>8. OpenInv'
  <2> SUFFICES ASSUME NEW h \in Handle, owner'[h] # None
               PROVE  \/ owner'[h] \in keys' \/ Closing(owner[h])'
                      \/ apc' = "key" /\ owner'[h] = accepted'
    BY DEF OpenInv
  <2>1. owner'[h] = owner[h] /\ h # sock[wkey[w]]
    BY <1>7
  <2>2. owner[h] # wkey[w]
    BY <1>2, <2>1 DEF OwnerInv
  <2>3. Closing(owner[h]) => Closing(owner[h])'
    BY <1>4, <2>1, <2>2 DEF Closing
  <2> QED
    BY <1>1, <2>1, <2>3 DEF StayInv, OpenInv
<1> QED
  BY <1>5, <1>6, <1>8

LEMMA InitStay == Init => StayInv
<1> SUFFICES ASSUME Init
             PROVE  StayInv
  OBVIOUS
<1>1. WorkersStay /\ OpenInv
  BY DEF Init, WorkersStay, OpenInv
<1>2. \A i \in 1..Len(port) : FALSE
  BY DEF Init
<1>3. PICK f : f = [c \in Conn |-> c]
  OBVIOUS
<1>4. Assigned(f, f, f)
  BY <1>2 DEF Init, Assigned, Counted
<1> QED
  BY <1>1, <1>4, InitConn DEF StayInv, EachHasAKey

LEMMA StepStay == StayInv /\ [Next]_vars => StayInv'
<1> SUFFICES ASSUME StayInv, [Next]_vars
             PROVE  StayInv'
  OBVIOUS
<1>0. ConnInv'
  BY StepConn DEF StayInv
<1>1. CASE UNCHANGED vars
  <2>1. UNCHANGED <<accepted, owner, pend, keys, port, wpc, wkey, apc, listening>>
    BY <1>1 DEF vars, netVars, keyVars, workerVars, jobVars, acceptVars, pastVars
  <2>2. OpenInv' /\ WorkersStay'
    BY <2>1, SameStay DEF StayInv, Closing
  <2>3. EachHasAKey'
    BY <2>1, NothingBegins DEF StayInv, FewerCounted
  <2> QED
    BY <1>0, <2>2, <2>3 DEF StayInv
<1>2. CASE AcceptClose
  BY <1>0, <1>2, NewKeyStay, StopStay, CloseAllStay DEF AcceptClose, StayInv
<1>3. CASE \E w \in Worker : WorkerStep(w)
  BY <1>0, <1>3, GetStay, TestStay, ReceiveStay, EraseStay, CloseStay DEF WorkerStep, StayInv
<1>4. CASE Clients \/ (\E h \in Handle : Accept(h)) \/ (\E x \in Conn : SaveStep(x)) \/ AcceptFails
  BY <1>0, <1>4, ClientStay, AcceptStay, SaveStay, StopStay DEF Clients, StayInv
<1> QED
  BY <1>1, <1>2, <1>3, <1>4 DEF Next, Waiting

(* No worker finds m_setIOCPKEY empty and ends (SocketTCP.cpp:381): the    *)
(* pool stays as large as Listen has made it, crossed connections or not.  *)
THEOREM WorkersStayAlways == Spec => []WorkersStay
<1>1. StayInv => WorkersStay
  BY DEF StayInv
<1> QED
  BY <1>1, InitStay, StepStay, PTL DEF Spec
=============================================================================
