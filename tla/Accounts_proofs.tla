-------------------------- MODULE Accounts_proofs --------------------------
(***************************************************************************)
(* Proofs about Accounts, for any numbers of users, cards, requests and    *)
(* threads and any statements that fail: its types; that a card or a name  *)
(* is given twice only by requests that were under way together; that a    *)
(* code serves once; that a confirmation stands; that a bike has an owner  *)
(* or was left behind; and that orderly requests implement AtomicAccounts. *)
(* Each part begins with the invariant it is proved from.                  *)
(***************************************************************************)
EXTENDS Accounts, FiniteSetTheorems, TLAPS

-----------------------------------------------------------------------------
(* The types, with the handler that each statement belongs to              *)

KindAt(r) ==
  /\ at[r] \in {"name", "newuser"} => arg[r].kind = "register"
  /\ at[r] \in {"valid", "old", "rename", "bikes", "use"} => arg[r].kind = "change"
  /\ at[r] \in {"card", "free", "newbike"} => arg[r].kind = "bind"
  /\ at[r] \in {"user", "owned"} => arg[r].kind \in {"unbind", "command"}
  /\ at[r] = "set" => arg[r].kind = "command"
  /\ at[r] \in {"code", "update", "newcode"} => arg[r].kind \in {"forget", "unbind"}

TypeInv == TypeOK /\ \A r \in Request : KindAt(r)

(* What the requests of each kind bring along.                             *)
LEMMA ArgTypes ==
  ASSUME NEW a \in Args \cup {NoArg}
  PROVE  /\ a.kind \in {"register", "change"} => a.name \in Name /\ a.token \in Token
         /\ a.kind = "bind" => a.name \in Name /\ a.card \in Card
         /\ a.kind \in {"forget", "unbind"} => a.token \in Token /\ a.table \in CodeTable
         /\ a.kind = "command" => a.token \in Token /\ a.card \in Card /\ a.table \in Table
  BY DEF Args, NoArg, CodeTable

LEMMA TypeInit == Init => TypeInv
<1> SUFFICES ASSUME Init PROVE TypeInv
  OBVIOUS
<1> USE AccountsAssumption DEF Init
<1>1. TypeOK
  BY DEF TypeOK, Step, Writer, Names, Pending, NoArg
<1>2. ASSUME NEW r \in Request PROVE KindAt(r)
  BY DEF KindAt
<1> QED
  BY <1>1, <1>2 DEF TypeInv

(* A statement moves its request on and leaves what it asked for alone.    *)
Moves(r) ==
  /\ at[r] \notin {"idle", "done"}
  /\ \E there \in Step \ {"idle"} : at' = [at EXCEPT ![r] = there]
  /\ KindAt(r)'
  /\ ret' \in [Request -> {0, -1, -2, -3, -4, -5, -6, -12, Pending}]
  /\ failures' \in 0..MaxFailures
  /\ UNCHANGED <<orderly, arg, met>>

LEMMA StatementMoves ==
  ASSUME TypeInv, NEW r \in Request, Statement(r)
  PROVE  Moves(r)
<1> USE DEF Fixed, GoTo, Return, Succeeds, Fails, Refused, Step, KindAt, TypeOK, TypeInv
<1> USE AccountsAssumption
<1>1. CASE CheckName(r)
  BY <1>1 DEF CheckName, Moves
<1>2. CASE InsertUser(r)
  BY <1>2 DEF InsertUser, Moves
<1>3. CASE CheckCode(r)
  BY <1>3 DEF CheckCode, Moves
<1>4. CASE FindOld(r)
  BY <1>4 DEF FindOld, Moves
<1>5. CASE Rename(r)
  <2>1. /\ at[r] = "rename" /\ UNCHANGED <<orderly, arg, met>>
        /\ \/ GoTo(r, "bikes") /\ Succeeds
           \/ Return(r, -4) /\ Fails
    BY <1>5 DEF Rename
  <2> QED
    BY <2>1 DEF Moves
<1>6. CASE MoveBikes(r)
  BY <1>6 DEF MoveBikes, Moves
<1>7. CASE UseCode(r)
  BY <1>7 DEF UseCode, Moves
<1>8. CASE LookUpCard(r)
  BY <1>8 DEF LookUpCard, Moves
<1>9. CASE CheckFree(r)
  BY <1>9 DEF CheckFree, Moves
<1>10. CASE InsertBike(r)
  BY <1>10 DEF InsertBike, Moves
<1>11. CASE FindUser(r)
  BY <1>11 DEF FindUser, Moves
<1>12. CASE FindBikes(r)
  BY <1>12 DEF FindBikes, Moves
<1>13. CASE SetCommand(r)
  BY <1>13 DEF SetCommand, Moves
<1>14. CASE LookForCode(r)
  BY <1>14 DEF LookForCode, Moves
<1>15. CASE UpdateCode(r)
  BY <1>15 DEF UpdateCode, Moves
<1>16. CASE InsertCode(r)
  BY <1>16 DEF InsertCode, Moves
<1> QED
  BY <1>1, <1>2, <1>3, <1>4, <1>5, <1>6, <1>7, <1>8, <1>9, <1>10, <1>11, <1>12,
     <1>13, <1>14, <1>15, <1>16 DEF Statement

TablesTyped ==
  /\ user \subseteq [id : Name \cup Request, name : Name, token : Token, by : Writer]
  /\ bike \subseteq [name : Name, card : Card, by : Writer]
  /\ code \in [CodeTable -> SUBSET [token : Token, by : Request]]
  /\ command \in [Table -> SUBSET [card : Card, by : Request]]
  /\ found \in [Request -> Name \cup {None}]

LEMMA StatementTables ==
  ASSUME TypeInv, NEW r \in Request, Statement(r)
  PROVE  TablesTyped'
<1>1. TablesTyped /\ KindAt(r) /\ arg[r] \in Args \cup {NoArg} /\ r \in Writer
  BY DEF TypeInv, TypeOK, TablesTyped, Writer
<1>2. CASE InsertUser(r)
  <2>1. arg[r].name \in Name /\ arg[r].token \in Token
    BY <1>1, <1>2, ArgTypes DEF InsertUser, KindAt
  <2> QED
    BY <1>1, <1>2, <2>1 DEF InsertUser, TablesTyped
<1>3. CASE Rename(r)
  <2>1. arg[r].name \in Name
    BY <1>1, <1>3, ArgTypes DEF Rename, KindAt
  <2>2. UNCHANGED <<bike, code, command, found>>
    BY <1>3 DEF Rename
  <2>3. user' \subseteq [id : Name \cup Request, name : Name, token : Token, by : Writer]
    <3> DEFINE Row == [id : Name \cup Request, name : Name, token : Token, by : Writer]
    <3>1. ASSUME NEW u \in Row
          PROVE  [u EXCEPT !.name = arg[r].name, !.by = r] \in Row
      BY <1>1, <2>1
    <3>2. user \subseteq Row
      BY <1>1 DEF TablesTyped
    <3>3. user' = user \/ \A v \in user' : v \in user \/ \E u \in user :
            v = [u EXCEPT !.name = arg[r].name, !.by = r]
      <4> DEFINE Renamed(u) == [u EXCEPT !.name = arg[r].name, !.by = r]
      <4>1. \/ user' = {IF u.token = arg[r].token THEN Renamed(u) ELSE u : u \in user}
            \/ user' = user
        BY <1>3 DEF Rename
      <4> HIDE DEF Renamed
      <4>2. user' = user \/ \A v \in user' : v \in user \/ \E u \in user : v = Renamed(u)
        BY <4>1
      <4> QED
        BY <4>2 DEF Renamed
    <3> HIDE DEF Row
    <3>4. user' \subseteq Row
      BY <3>1, <3>2, <3>3
    <3> QED
      BY <3>4 DEF Row
  <2> QED
    BY <1>1, <2>2, <2>3 DEF TablesTyped
<1>4. CASE MoveBikes(r)
  <2>1. arg[r].name \in Name
    BY <1>1, <1>4, ArgTypes DEF MoveBikes, KindAt
  <2>2. UNCHANGED <<user, code, command, found>>
    BY <1>4 DEF MoveBikes
  <2>3. bike' \subseteq [name : Name, card : Card, by : Writer]
    BY <1>1, <1>4, <2>1 DEF MoveBikes, TablesTyped
  <2> QED
    BY <1>1, <2>2, <2>3 DEF TablesTyped
<1>5. CASE InsertBike(r)
  <2>1. arg[r].name \in Name /\ arg[r].card \in Card
    BY <1>1, <1>5, ArgTypes DEF InsertBike, KindAt
  <2> QED
    BY <1>1, <1>5, <2>1 DEF InsertBike, TablesTyped
<1>6. CASE UseCode(r)
  BY <1>1, <1>6 DEF UseCode, TablesTyped, CodeTable
<1>7. CASE UpdateCode(r)
  BY <1>1, <1>7 DEF UpdateCode, TablesTyped, CodeTable
<1>8. CASE InsertCode(r)
  <2>1. arg[r].token \in Token
    BY <1>1, <1>8, ArgTypes DEF InsertCode, KindAt
  <2> QED
    BY <1>1, <1>8, <2>1 DEF InsertCode, TablesTyped, CodeTable
<1>9. CASE SetCommand(r)
  <2>1. arg[r].card \in Card
    BY <1>1, <1>9, ArgTypes DEF SetCommand, KindAt
  <2> QED
    BY <1>1, <1>9, <2>1 DEF SetCommand, TablesTyped
<1>10. CASE FindOld(r) \/ FindUser(r) \/ LookUpCard(r)
  <2>1. UNCHANGED tables
    BY <1>10 DEF FindOld, FindUser, LookUpCard
  <2>2. \A u \in user : u.name \in Name
    BY <1>1 DEF TablesTyped
  <2>3. found' \in [Request -> Name \cup {None}]
    BY <1>1, <1>10, <2>2, ArgTypes
       DEF FindOld, FindUser, LookUpCard, TablesTyped, RowsOf, KindAt
  <2> QED
    BY <1>1, <2>1, <2>3 DEF TablesTyped, tables
<1>11. CASE CheckName(r) \/ CheckCode(r) \/ CheckFree(r) \/ FindBikes(r) \/ LookForCode(r)
  <2>1. UNCHANGED <<tables, found>>
    BY <1>11 DEF CheckName, CheckCode, CheckFree, FindBikes, LookForCode
  <2> QED
    BY <1>1, <2>1 DEF TablesTyped, tables
<1> QED
  BY <1>2, <1>3, <1>4, <1>5, <1>6, <1>7, <1>8, <1>9, <1>10, <1>11 DEF Statement

LEMMA TypeInductive == TypeInv /\ [Next]_vars => TypeInv'
<1> SUFFICES ASSUME TypeInv, [Next]_vars PROVE TypeInv'
  OBVIOUS
<1>1. ASSUME NEW r \in Request, Statement(r) PROVE TypeInv'
  <2>1. Moves(r) /\ TablesTyped'
    BY <1>1, StatementMoves, StatementTables
  <2>2. TypeOK'
    BY <2>1 DEF Moves, TablesTyped, TypeInv, TypeOK
  <2>3. ASSUME NEW q \in Request PROVE KindAt(q)'
    <3>1. CASE q = r
      BY <2>1, <3>1 DEF Moves
    <3>2. CASE q # r
      BY <2>1, <3>2 DEF Moves, TypeInv, TypeOK, KindAt
    <3> QED
      BY <3>1, <3>2
  <2> QED
    BY <2>2, <2>3 DEF TypeInv
<1>2. ASSUME NEW r \in Request, NEW a \in Args, Begin(r, a) PROVE TypeInv'
  <2>1. First(a) \in Step \ {"idle"}
    BY DEF First, Args, Step
  <2>2. TypeOK'
    BY <1>2, <2>1 DEF Begin, TypeInv, TypeOK, tables, UnderWay, Begun
  <2>3. ASSUME NEW q \in Request PROVE KindAt(q)'
    BY <1>2 DEF Begin, First, Args, TypeInv, TypeOK, KindAt
  <2> QED
    BY <2>2, <2>3 DEF TypeInv
<1>3. CASE UNCHANGED vars
  BY <1>3 DEF vars, tables, TypeInv, TypeOK, KindAt
<1> QED
  BY <1>1, <1>2, <1>3 DEF Next

LEMMA TypesKept == Spec => []TypeInv
  BY TypeInit, TypeInductive, PTL DEF Spec

(* Each row has a writer, each request is at a statement of its handler.   *)
THEOREM TypeCorrect == Spec => []TypeOK
<1>1. TypeInv => TypeOK
  BY DEF TypeInv
<1> QED
  BY <1>1, TypesKept, PTL

-----------------------------------------------------------------------------
(* Who was under way with whom                                             *)

Numbered == \E n \in 0..MaxRequests : Begun = 1..n

(* A request meets all that begin while it is under way.                   *)
MetUnderWay ==
  \A q \in UnderWay, p \in Begun : q < p => Met(q, p) /\ Met(p, q)

WritersBegun ==
  /\ \A u \in user : u.by \in Begun \cup {Before}
  /\ \A b \in bike : b.by \in Begun \cup {Before}

OrderInv == Numbered /\ MetUnderWay /\ WritersBegun

(* Requests are numbered in the order in which they begin.                 *)
LEMMA NextNumber ==
  ASSUME Numbered, TypeOK, NEW r \in Request, NEW a \in Args, Begin(r, a)
  PROVE  Begun = 1..(r - 1) /\ Begun' = 1..r
<1>1. PICK n \in 0..MaxRequests : Begun = 1..n
  BY DEF Numbered
<1>2. Cardinality(1..n) = n
  BY <1>1, FS_Interval, AccountsAssumption
<1>3. r = n + 1
  BY <1>1, <1>2 DEF Begin
<1>4. First(a) # "idle"
  BY DEF First, Args
<1>5. Begun' = Begun \cup {r}
  BY <1>4 DEF Begin, Begun, TypeOK
<1>6. Begun' = 1..r
  BY <1>1, <1>3, <1>5, AccountsAssumption DEF Request
<1> QED
  BY <1>1, <1>3, <1>6, AccountsAssumption DEF Request

LEMMA BegunByMoves ==
  ASSUME TypeInv, NEW r \in Request, Moves(r)
  PROVE  Begun' = Begun /\ UnderWay' \subseteq UnderWay /\ r \in UnderWay
  BY DEF Moves, TypeInv, TypeOK, Begun, UnderWay

LEMMA OrderInit == Init => OrderInv
<1> SUFFICES ASSUME Init PROVE OrderInv
  OBVIOUS
<1>1. Begun = {} /\ UnderWay = {}
  BY DEF Init, Begun, UnderWay
<1>2. Begun = 1..0 /\ 0 \in 0..MaxRequests
  BY <1>1, AccountsAssumption
<1>3. WritersBegun
  BY DEF Init, WritersBegun
<1> QED
  BY <1>1, <1>2, <1>3 DEF OrderInv, Numbered, MetUnderWay

(* What a statement does to the accounts: nothing, and it leads to INSERT  *)
(* only when the name is free; or it inserts a row; or it renames some.    *)
NewUser(r) == [id |-> r, name |-> arg[r].name, token |-> arg[r].token, by |-> r]
Renamed(u, r) == [u EXCEPT !.name = arg[r].name, !.by = r]

NamesKept(r) ==
  /\ UNCHANGED user
  /\ at'[r] = "newuser" => arg[r].name \notin Names

NameGiven(r) ==
  /\ at[r] = "newuser" /\ at'[r] # "newuser"
  /\ user' = user \cup {NewUser(r)}

NameChanged(r) ==
  /\ at[r] = "rename" /\ at'[r] # "newuser"
  /\ user' = {IF u.token = arg[r].token THEN Renamed(u, r) ELSE u : u \in user}

LEMMA UserSorts ==
  ASSUME TypeInv, NEW r \in Request, Statement(r)
  PROVE  NamesKept(r) \/ NameGiven(r) \/ NameChanged(r)
<1> at \in [Request -> Step]
  BY DEF TypeInv, TypeOK
<1>1. CASE CheckName(r)
  BY <1>1 DEF CheckName, GoTo, Return, tables, NamesKept
<1>2. CASE InsertUser(r)
  BY <1>2 DEF InsertUser, Return, NamesKept, NameGiven, NewUser
<1>3. CASE Rename(r)
  <2>1. /\ at[r] = "rename" /\ at'[r] # "newuser"
    BY <1>3 DEF Rename, GoTo, Return
  <2>2. \/ user' = {IF u.token = arg[r].token THEN Renamed(u, r) ELSE u : u \in user}
        \/ user' = user
    BY <1>3 DEF Rename, Renamed
  <2> QED
    BY <2>1, <2>2 DEF NamesKept, NameChanged
<1>4. CASE ~(CheckName(r) \/ InsertUser(r) \/ Rename(r))
  <2>1. UNCHANGED user /\ at'[r] # "newuser"
    BY <1>4, Statement(r)
       DEF Statement, tables, GoTo, Return, CheckCode, FindOld, MoveBikes, UseCode,
           LookUpCard, CheckFree, InsertBike, FindUser, FindBikes, SetCommand,
           LookForCode, UpdateCode, InsertCode
  <2> QED
    BY <2>1 DEF NamesKept
<1> QED
  BY <1>1, <1>2, <1>3, <1>4

(* The same for the bikes.                                                 *)
NewBike(r) == [name |-> arg[r].name, card |-> arg[r].card, by |-> r]
Moved(b, r) == [b EXCEPT !.name = arg[r].name]

BikesKept(r) ==
  /\ UNCHANGED bike
  /\ at'[r] = "newbike" => \A b \in bike : b.card # arg[r].card

CardBound(r) ==
  /\ at[r] = "newbike" /\ at'[r] # "newbike"
  /\ bike' = bike \cup {NewBike(r)}

OwnerRenamed(r) ==
  /\ at'[r] # "newbike"
  /\ bike' = {IF b.name = found[r] THEN Moved(b, r) ELSE b : b \in bike}

LEMMA BikeSorts ==
  ASSUME TypeInv, NEW r \in Request, Statement(r)
  PROVE  BikesKept(r) \/ CardBound(r) \/ OwnerRenamed(r)
<1> at \in [Request -> Step]
  BY DEF TypeInv, TypeOK
<1>1. CASE CheckFree(r)
  BY <1>1 DEF CheckFree, GoTo, Return, tables, BikesKept
<1>2. CASE InsertBike(r)
  BY <1>2 DEF InsertBike, Return, BikesKept, CardBound, NewBike
<1>3. CASE MoveBikes(r)
  <2>1. at'[r] # "newbike"
    BY <1>3 DEF MoveBikes, GoTo, Return
  <2>2. \/ bike' = {IF b.name = found[r] THEN Moved(b, r) ELSE b : b \in bike}
        \/ bike' = bike
    BY <1>3 DEF MoveBikes, Moved
  <2> QED
    BY <2>1, <2>2 DEF BikesKept, OwnerRenamed
<1>4. CASE ~(CheckFree(r) \/ InsertBike(r) \/ MoveBikes(r))
  <2>1. UNCHANGED bike /\ at'[r] # "newbike"
    BY <1>4, Statement(r)
       DEF Statement, tables, GoTo, Return, CheckName, InsertUser, CheckCode, FindOld,
           Rename, UseCode, LookUpCard, FindUser, FindBikes, SetCommand,
           LookForCode, UpdateCode, InsertCode
  <2> QED
    BY <2>1 DEF BikesKept
<1> QED
  BY <1>1, <1>2, <1>3, <1>4

(* A renamed row keeps its openid, a moved one its card and its writer.    *)
LEMMA RenamedRow ==
  ASSUME TypeOK, NEW r \in Request, NEW u \in user
  PROVE  Renamed(u, r).name = arg[r].name /\ Renamed(u, r).by = r
  BY DEF TypeOK, Renamed

LEMMA MovedRow ==
  ASSUME TypeOK, NEW r \in Request, NEW b \in bike
  PROVE  Moved(b, r).card = b.card /\ Moved(b, r).by = b.by
  BY DEF TypeOK, Moved

LEMMA OrderStatement ==
  ASSUME TypeInv, OrderInv, NEW r \in Request, Statement(r)
  PROVE  OrderInv'
<1>1. Moves(r) /\ TypeOK
  BY StatementMoves DEF TypeInv
<1>2. Begun' = Begun /\ UnderWay' \subseteq UnderWay /\ r \in Begun
  BY <1>1, BegunByMoves DEF UnderWay
<1>3. Numbered' /\ MetUnderWay'
  BY <1>1, <1>2 DEF OrderInv, Numbered, MetUnderWay, Moves, Met
<1>4. ASSUME NEW u \in user' PROVE u.by \in Begun \cup {Before}
  <2>1. u \in user \/ u = NewUser(r) \/ \E v \in user : u = Renamed(v, r)
    BY UserSorts DEF NamesKept, NameGiven, NameChanged
  <2> QED
    BY <1>1, <1>2, <2>1, RenamedRow DEF OrderInv, WritersBegun, NewUser
<1>5. ASSUME NEW b \in bike' PROVE b.by \in Begun \cup {Before}
  <2>1. b \in bike \/ b = NewBike(r) \/ \E c \in bike : b = Moved(c, r)
    BY BikeSorts DEF BikesKept, CardBound, OwnerRenamed
  <2> QED
    BY <1>1, <1>2, <2>1, MovedRow DEF OrderInv, WritersBegun, NewBike
<1> QED
  BY <1>2, <1>3, <1>4, <1>5 DEF OrderInv, WritersBegun

LEMMA OrderBegin ==
  ASSUME TypeInv, OrderInv, NEW r \in Request, NEW a \in Args, Begin(r, a)
  PROVE  OrderInv'
<1>1. Begun = 1..(r - 1) /\ Begun' = 1..r /\ r \in Int
  BY NextNumber DEF OrderInv, TypeInv, Request
<1>2. Numbered'
  BY <1>1, AccountsAssumption DEF Numbered, Request
<1>3. \A q \in UnderWay' : q = r \/ q \in UnderWay
  BY DEF Begin, TypeInv, TypeOK, UnderWay, Begun
<1>4. ASSUME NEW q \in UnderWay', NEW p \in Begun', q < p
      PROVE  (Met(q, p) /\ Met(p, q))'
  <2>1. q \in UnderWay
    BY <1>1, <1>3, <1>4
  <2>2. CASE p = r
    BY <2>1, <2>2 DEF Begin, Met
  <2>3. CASE p # r
    <3>1. p \in Begun
      BY <1>1, <2>3
    <3>2. Met(q, p) /\ Met(p, q)
      BY <1>4, <2>1, <3>1 DEF OrderInv, MetUnderWay
    <3> QED
      BY <3>2 DEF Begin, Met
  <2> QED
    BY <2>2, <2>3
<1>5. WritersBegun'
  <2>1. Begun \subseteq Begun'
    BY <1>1
  <2>2. user' = user /\ bike' = bike
    BY DEF Begin, tables
  <2>3. WritersBegun
    BY DEF OrderInv
  <2> QED
    BY <2>1, <2>2, <2>3 DEF WritersBegun
<1> QED
  BY <1>2, <1>4, <1>5 DEF OrderInv, MetUnderWay

LEMMA OrderInductive == TypeInv /\ OrderInv /\ [Next]_vars => OrderInv'
<1> SUFFICES ASSUME TypeInv, OrderInv, [Next]_vars PROVE OrderInv'
  OBVIOUS
<1>1. CASE UNCHANGED vars
  BY <1>1 DEF vars, tables, OrderInv, Numbered, MetUnderWay, WritersBegun, UnderWay, Begun, Met
<1> QED
  BY <1>1, OrderStatement, OrderBegin DEF Next

(* Two requests that are under way at once have met.                       *)
LEMMA TogetherMeans ==
  ASSUME OrderInv, NEW q \in UnderWay, NEW r \in UnderWay, q # r
  PROVE  Met(q, r) /\ Met(r, q)
  BY DEF OrderInv, MetUnderWay, UnderWay, Begun, Request

-----------------------------------------------------------------------------
(* A card that was found free is bound by nobody but those under way.      *)

CardsInv ==
  /\ CardBoundOnce
  /\ \A r \in Request : at[r] = "newbike" =>
       \A b \in bike : b.card = arg[r].card => Met(r, b.by) /\ Met(b.by, r)

LEMMA CardsStatement ==
  ASSUME TypeInv, OrderInv, CardsInv, NEW r \in Request, Statement(r)
  PROVE  CardsInv'
<1>1. Moves(r) /\ TypeOK /\ at \in [Request -> Step] /\ r \in UnderWay
  BY StatementMoves, BegunByMoves DEF TypeInv, TypeOK
<1>2. /\ arg' = arg /\ met' = met
      /\ \A q \in Request \ {r} : at'[q] = at[q]
  BY <1>1 DEF Moves
<1>3. CASE BikesKept(r)
  BY <1>2, <1>3 DEF BikesKept, CardsInv, CardBoundOnce, Met
<1>4. CASE CardBound(r)
  <2>1. \A b \in bike : b.card = arg[r].card => Met(r, b.by) /\ Met(b.by, r)
    BY <1>4 DEF CardBound, CardsInv
  <2>2. NewBike(r).card = arg[r].card /\ NewBike(r).by = r
    BY DEF NewBike
  <2>3. CardBoundOnce'
    <3>1. \A b, c \in bike : b # c /\ b.card = c.card => Met(b.by, c.by)
      BY DEF CardsInv, CardBoundOnce
    <3>2. \A b \in bike' : b \in bike \/ b = NewBike(r)
      BY <1>4 DEF CardBound
    <3>3. ASSUME NEW b \in bike', NEW c \in bike', b # c, b.card = c.card
          PROVE  Met(b.by, c.by)
      BY <2>1, <2>2, <3>1, <3>2, <3>3
    <3> QED
      BY <1>2, <3>3 DEF CardBoundOnce, Met
  <2>4. ASSUME NEW q \in Request, at'[q] = "newbike"
        PROVE  Met(q, r) /\ Met(r, q)
    <3>1. q # r
      BY <1>4, <2>4 DEF CardBound
    <3>2. q \in UnderWay
      BY <1>2, <2>4, <3>1 DEF UnderWay, Begun
    <3> QED
      BY <1>1, <3>1, <3>2, TogetherMeans
  <2>5. ASSUME NEW q \in Request, at'[q] = "newbike",
               NEW b \in bike', b.card = arg[q].card
        PROVE  Met(q, b.by) /\ Met(b.by, q)
    <3>1. at[q] = "newbike"
      BY <1>2, <1>4, <2>5 DEF CardBound
    <3> QED
      BY <1>4, <2>2, <2>4, <2>5, <3>1 DEF CardBound, CardsInv
  <2> QED
    BY <1>2, <2>3, <2>5 DEF CardsInv, Met
<1>5. CASE OwnerRenamed(r)
  <2>1. \A b \in bike' : \E c \in bike :
          b.card = c.card /\ b.by = c.by /\ b = IF c.name = found[r] THEN Moved(c, r) ELSE c
    BY <1>1, <1>5, MovedRow DEF OwnerRenamed
  <2>2. CardBoundOnce'
    BY <1>2, <2>1 DEF CardsInv, CardBoundOnce, Met
  <2>3. ASSUME NEW q \in Request, at'[q] = "newbike",
               NEW b \in bike', b.card = arg[q].card
        PROVE  Met(q, b.by) /\ Met(b.by, q)
    <3>1. at[q] = "newbike"
      BY <1>2, <1>5, <2>3 DEF OwnerRenamed
    <3> QED
      BY <2>1, <2>3, <3>1 DEF CardsInv
  <2> QED
    BY <1>2, <2>2, <2>3 DEF CardsInv, Met
<1> QED
  BY <1>3, <1>4, <1>5, BikeSorts

LEMMA CardsInductive == TypeInv /\ OrderInv /\ CardsInv /\ [Next]_vars => CardsInv'
<1> SUFFICES ASSUME TypeInv, OrderInv, CardsInv, [Next]_vars PROVE CardsInv'
  OBVIOUS
<1>1. ASSUME NEW r \in Request, NEW a \in Args, Begin(r, a) PROVE CardsInv'
  <2>1. First(a) # "newbike"
    BY DEF First, Args
  <2>2. \A q \in Request : at'[q] = "newbike" => at[q] = "newbike" /\ arg'[q] = arg[q]
    BY <1>1, <2>1 DEF Begin, TypeInv, TypeOK
  <2>3. bike' = bike /\ met \subseteq met'
    BY <1>1 DEF Begin, tables
  <2> QED
    BY <2>2, <2>3 DEF CardsInv, CardBoundOnce, Met
<1>2. CASE UNCHANGED vars
  BY <1>2 DEF vars, tables, CardsInv, CardBoundOnce, Met
<1> QED
  BY <1>1, <1>2, CardsStatement DEF Next

LEMMA CardsInit == Init => CardsInv
  BY DEF Init, CardsInv, CardBoundOnce

(* A card is bound twice only by requests that were under way together     *)
(* (WX_ResponseWebBind, TestTask.cpp:5864-5928), whatever fails.           *)
THEOREM CardBoundOnceAlways == Spec => []CardBoundOnce
<1>1. OrderInv /\ CardsInv => CardBoundOnce
  BY DEF CardsInv
<1> QED
  BY <1>1, TypesKept, OrderInit, OrderInductive, CardsInit, CardsInductive, PTL DEF Spec

-----------------------------------------------------------------------------
(* The same for names.  A change of account does not look whether the name *)
(* is free; it takes the name before a request that begins later looks.    *)

NamesInv ==
  /\ NameTakenOnce
  /\ \A r \in Request : at[r] = "newuser" =>
       \A u \in user : u.name = arg[r].name => Met(r, u.by) /\ Met(u.by, r)

(* Two rows of one name may be there: NameTakenOnce, of one pair.          *)
Excused(u, v) ==
  \/ Met(u.by, v.by)
  \/ \E r \in {u.by, v.by} :
       r >= u.by /\ r >= v.by /\ r \in Request /\ arg[r].kind = "change"

(* What a change has written excuses what came before it or met it.        *)
LEMMA ChangeExcuses ==
  ASSUME OrderInv, NEW r \in UnderWay, arg[r].kind = "change",
         NEW u, NEW v, u.by = r, v.by \in Begun \cup {Before}
  PROVE  Excused(u, v) /\ Excused(v, u)
<1>1. r \in Request /\ r \in Int /\ v.by \in Int /\ r > Before
  BY DEF UnderWay, Begun, Request, Before
<1>2. CASE v.by <= r
  BY <1>1, <1>2 DEF Excused
<1>3. CASE r < v.by
  <2>1. v.by \in Begun
    BY <1>1, <1>3
  <2>2. Met(r, v.by) /\ Met(v.by, r)
    BY <1>3, <2>1 DEF OrderInv, MetUnderWay
  <2> QED
    BY <2>2 DEF Excused
<1> QED
  BY <1>1, <1>2, <1>3

LEMMA NamesStatement ==
  ASSUME TypeInv, OrderInv, NamesInv, NEW r \in Request, Statement(r)
  PROVE  NamesInv'
<1>1. Moves(r) /\ TypeOK /\ at \in [Request -> Step] /\ r \in UnderWay
  BY StatementMoves, BegunByMoves DEF TypeInv, TypeOK
<1>2. /\ arg' = arg /\ met' = met
      /\ \A q \in Request \ {r} : at'[q] = at[q]
  BY <1>1 DEF Moves
<1>3. ASSUME NEW q \in Request, q # r, at'[q] = "newuser"
      PROVE  at[q] = "newuser" /\ Met(q, r) /\ Met(r, q)
  <2>1. at[q] = "newuser"
    BY <1>2, <1>3
  <2>2. q \in UnderWay
    BY <2>1 DEF UnderWay, Begun
  <2> QED
    BY <1>1, <1>3, <2>1, <2>2, TogetherMeans
<1>4. \A u, v \in user : u # v /\ u.name = v.name => Excused(u, v)
  BY DEF NamesInv, NameTakenOnce, Excused
<1>5. CASE NamesKept(r)
  <2>1. NameTakenOnce'
    BY <1>2, <1>5 DEF NamesKept, NamesInv, NameTakenOnce, Met
  <2>2. ASSUME NEW q \in Request, at'[q] = "newuser",
               NEW u \in user, u.name = arg[q].name
        PROVE  Met(q, u.by) /\ Met(u.by, q)
    BY <1>3, <1>5, <2>2 DEF NamesKept, Names, NamesInv
  <2> QED
    BY <1>2, <1>5, <2>1, <2>2 DEF NamesInv, NamesKept, Met
<1>6. CASE NameGiven(r)
  <2>1. NewUser(r).name = arg[r].name /\ NewUser(r).by = r
    BY DEF NewUser
  <2>2. \A u \in user : u.name = arg[r].name => Met(r, u.by) /\ Met(u.by, r)
    BY <1>6 DEF NameGiven, NamesInv
  <2>3. \A u \in user' : u \in user \/ u = NewUser(r)
    BY <1>6 DEF NameGiven
  <2>4. ASSUME NEW u \in user', NEW v \in user', u # v, u.name = v.name
        PROVE  Excused(u, v)
    <3>1. CASE u \in user /\ v \in user
      BY <1>4, <2>4, <3>1
    <3>2. CASE u = NewUser(r) \/ v = NewUser(r)
      <4>1. Met(u.by, v.by)
        BY <2>1, <2>2, <2>3, <2>4, <3>2
      <4> QED
        BY <4>1 DEF Excused
    <3> QED
      BY <2>3, <3>1, <3>2
  <2>5. ASSUME NEW q \in Request, at'[q] = "newuser",
               NEW u \in user', u.name = arg[q].name
        PROVE  Met(q, u.by) /\ Met(u.by, q)
    <3>1. q # r
      BY <1>6, <2>5 DEF NameGiven
    <3> QED
      BY <1>3, <2>1, <2>3, <2>5, <3>1 DEF NamesInv
  <2> QED
    BY <1>2, <2>4, <2>5 DEF NamesInv, NameTakenOnce, Excused, Met
<1>7. CASE NameChanged(r)
  <2>1. arg[r].kind = "change"
    BY <1>7 DEF NameChanged, TypeInv, KindAt
  <2>2. \A u \in user' : u \in user \/ u.by = r
    BY <1>1, <1>7, RenamedRow DEF NameChanged
  <2>3. \A u \in user' : u.by \in Begun \cup {Before}
    BY <1>1, <2>2 DEF OrderInv, WritersBegun, UnderWay
  <2>4. ASSUME NEW u \in user', NEW v \in user', u # v, u.name = v.name
        PROVE  Excused(u, v)
    <3>1. CASE u \in user /\ v \in user
      BY <1>4, <2>4, <3>1
    <3>2. CASE u.by = r
      BY <1>1, <2>1, <2>3, <3>2, ChangeExcuses
    <3>3. CASE v.by = r
      BY <1>1, <2>1, <2>3, <3>3, ChangeExcuses
    <3> QED
      BY <2>2, <3>1, <3>2, <3>3
  <2>5. ASSUME NEW q \in Request, at'[q] = "newuser",
               NEW u \in user', u.name = arg[q].name
        PROVE  Met(q, u.by) /\ Met(u.by, q)
    <3>1. q # r
      BY <1>7, <2>5 DEF NameChanged
    <3> QED
      BY <1>3, <2>2, <2>5, <3>1 DEF NamesInv
  <2> QED
    BY <1>2, <2>4, <2>5 DEF NamesInv, NameTakenOnce, Excused, Met
<1> QED
  BY <1>5, <1>6, <1>7, UserSorts

LEMMA NamesInductive == TypeInv /\ OrderInv /\ NamesInv /\ [Next]_vars => NamesInv'
<1> SUFFICES ASSUME TypeInv, OrderInv, NamesInv, [Next]_vars PROVE NamesInv'
  OBVIOUS
<1>1. ASSUME NEW r \in Request, NEW a \in Args, Begin(r, a) PROVE NamesInv'
  <2>1. First(a) # "newuser"
    BY DEF First, Args
  <2>2. \A q \in Request : at'[q] = "newuser" => at[q] = "newuser" /\ arg'[q] = arg[q]
    BY <1>1, <2>1 DEF Begin, TypeInv, TypeOK
  <2>3. user' = user /\ met \subseteq met'
    BY <1>1 DEF Begin, tables
  <2>4. \A q \in Begun : q # r /\ arg'[q] = arg[q]
    <3>1. Begun = 1..(r - 1) /\ r \in Int
      BY <1>1, NextNumber DEF OrderInv, TypeInv, Request
    <3>2. arg' = [arg EXCEPT ![r] = a] /\ arg \in [Request -> Args \cup {NoArg}]
      BY <1>1 DEF Begin, TypeInv, TypeOK
    <3>3. r \notin Begun
      BY <3>1
    <3> QED
      BY <3>2, <3>3 DEF Begun
  <2>5. ASSUME NEW u \in user, NEW v \in user, u # v, u.name = v.name
        PROVE  Excused(u, v)'
    <3>1. Excused(u, v)
      BY <2>5 DEF NamesInv, NameTakenOnce, Excused
    <3>2. u.by \in Begun \cup {Before} /\ v.by \in Begun \cup {Before}
      BY DEF OrderInv, WritersBegun
    <3>3. \A q \in Request \cap {u.by, v.by} : arg'[q] = arg[q]
      BY <2>4, <3>2 DEF Request, Before
    <3> QED
      BY <2>3, <3>1, <3>3 DEF Excused, Met
  <2>6. NameTakenOnce'
    BY <2>3, <2>5 DEF NameTakenOnce, Excused
  <2>7. ASSUME NEW q \in Request, at'[q] = "newuser",
               NEW u \in user', u.name = arg'[q].name
        PROVE  (Met(q, u.by) /\ Met(u.by, q))'
    BY <2>2, <2>3, <2>7 DEF NamesInv, Met
  <2> QED
    BY <2>6, <2>7 DEF NamesInv
<1>2. CASE UNCHANGED vars
  BY <1>2 DEF vars, tables, NamesInv, NameTakenOnce, Met
<1> QED
  BY <1>1, <1>2, NamesStatement DEF Next

LEMMA NamesInit == Init => NamesInv
  BY DEF Init, NamesInv, NameTakenOnce

(* A name is given twice only by requests that were under way together, or *)
(* by a change of account (TestTask.cpp:5364-5395, 5630-5649).             *)
THEOREM NameTakenOnceAlways == Spec => []NameTakenOnce
<1>1. OrderInv /\ NamesInv => NameTakenOnce
  BY DEF NamesInv
<1> QED
  BY <1>1, TypesKept, OrderInit, OrderInductive, NamesInit, NamesInductive, PTL DEF Spec

-----------------------------------------------------------------------------
(* What a request has returned, and to whom                                *)

Returned == \A r \in Request : ret[r] # Pending => at[r] = "done"

(* A statement is of one request: the results of the others stand.         *)
Alone(r) == \A q \in Request \ {r} : ret'[q] = ret[q] /\ found'[q] = found[q]

LEMMA ReturnedStatement ==
  ASSUME TypeInv, Returned, NEW r \in Request, Statement(r)
  PROVE  Returned' /\ Alone(r)
<1>1. Moves(r) /\ at \in [Request -> Step] /\ ret[r] = Pending
  BY StatementMoves DEF TypeInv, TypeOK, Moves, Returned
<1>2. ret \in [Request -> {0, -1, -2, -3, -4, -5, -6, -12, Pending}]
  BY DEF TypeInv, TypeOK
<1>3. found \in [Request -> Name \cup {None}]
  BY DEF TypeInv, TypeOK
<1>4. (ret' = ret) \/ (at'[r] = "done" /\ \E v : ret' = [ret EXCEPT ![r] = v])
  BY <1>1, Statement(r)
     DEF Statement, GoTo, Return, CheckName, InsertUser, CheckCode, FindOld, Rename,
         MoveBikes, UseCode, LookUpCard, CheckFree, InsertBike, FindUser, FindBikes,
         SetCommand, LookForCode, UpdateCode, InsertCode
<1>5. (found' = found) \/ (\E n : found' = [found EXCEPT ![r] = n])
  BY Statement(r)
     DEF Statement, CheckName, InsertUser, CheckCode, FindOld, Rename,
         MoveBikes, UseCode, LookUpCard, CheckFree, InsertBike, FindUser, FindBikes,
         SetCommand, LookForCode, UpdateCode, InsertCode
<1>6. Alone(r)
  BY <1>2, <1>3, <1>4, <1>5 DEF Alone
<1>7. Returned'
  BY <1>1, <1>4, <1>6 DEF Returned, Alone, Moves
<1> QED
  BY <1>6, <1>7

(* A request that begins was idle, and the others are where they were.      *)
LEMMA BeginFresh ==
  ASSUME TypeInv, OrderInv, NEW r \in Request, NEW a \in Args, Begin(r, a)
  PROVE  /\ r \notin Begun /\ Begun' = Begun \cup {r}
         /\ at'[r] = First(a)
         /\ \A q \in Request \ {r} : at'[q] = at[q] /\ arg'[q] = arg[q]
         /\ met \subseteq met'
         /\ UNCHANGED <<orderly, user, bike, code, command, found, ret, failures>>
<1>1. Begun = 1..(r - 1) /\ Begun' = 1..r /\ r \in Int /\ r >= 1
  BY NextNumber, AccountsAssumption DEF OrderInv, TypeInv, Request
<1>2. r \notin Begun /\ Begun' = Begun \cup {r}
  BY <1>1
<1> QED
  BY <1>2 DEF Begin, TypeInv, TypeOK, tables

LEMMA ReturnedInductive == TypeInv /\ OrderInv /\ Returned /\ [Next]_vars => Returned'
<1> SUFFICES ASSUME TypeInv, OrderInv, Returned, [Next]_vars PROVE Returned'
  OBVIOUS
<1>1. ASSUME NEW r \in Request, NEW a \in Args, Begin(r, a) PROVE Returned'
  <2>1. at[r] = "idle"
    BY <1>1, BeginFresh DEF Begun
  <2> QED
    BY <1>1, <2>1, BeginFresh DEF Returned
<1>2. CASE UNCHANGED vars
  BY <1>2 DEF vars, Returned
<1> QED
  BY <1>1, <1>2, ReturnedStatement DEF Next

LEMMA ReturnedInit == Init => Returned
  BY DEF Init, Returned

(* Of two requests that have begun, when one of them is still under way    *)
(* the other had not ended before the one began, or is the later one.      *)
LEMMA WriterIsLater ==
  ASSUME OrderInv, NEW r \in UnderWay, NEW q \in Begun
  PROVE  r # q => Later(r, q) /\ (q < r \/ Met(q, r))
<1>1. r \in Int /\ q \in Int /\ r \in Begun
  BY DEF UnderWay, Begun, Request
<1>2. CASE r < q
  BY <1>2 DEF OrderInv, MetUnderWay, Later
<1> QED
  BY <1>1, <1>2 DEF Later

-----------------------------------------------------------------------------
(* What a statement does to the codes: it leaves them alone, and nobody is *)
(* told of a code; or it deletes the user's, writes over the user's, or    *)
(* adds one.                                                               *)

Served == {"old", "rename", "bikes", "use"}
CodeOf(r) == {row \in code[arg[r].table] : row.token = arg[r].token}

CodesKept(r) ==
  /\ UNCHANGED code
  /\ ret'[r] # 0 \/ arg[r].kind \in {"register", "bind", "command"}
  /\ at[r] = "use" => ~orderly
  /\ at'[r] = "update" => HasCode(r)
  /\ at'[r] \in Served =>
       at[r] \in Served \/ \E row \in code["forget_code"] : row.token = arg[r].token

CodeUsed(r) ==
  /\ at[r] = "use" /\ at'[r] = "done" /\ ret'[r] = 0
  /\ code' = [code EXCEPT !["forget_code"] = {row \in @ : row.token # arg[r].token}]

CodeReplaced(r) ==
  /\ at[r] = "update" /\ at'[r] = "done" /\ ret'[r] = 0
  /\ code' = [code EXCEPT ![arg[r].table] =
                {IF row.token = arg[r].token THEN [row EXCEPT !.by = r] ELSE row : row \in @}]

CodeAdded(r) ==
  /\ at[r] = "newcode" /\ at'[r] = "done" /\ ret'[r] = 0
  /\ code' = [code EXCEPT ![arg[r].table] = @ \cup {[token |-> arg[r].token, by |-> r]}]

LEMMA CodeSorts ==
  ASSUME TypeInv, Returned, NEW r \in Request, Statement(r)
  PROVE  CodesKept(r) \/ CodeUsed(r) \/ CodeReplaced(r) \/ CodeAdded(r)
<1>1. KindAt(r) /\ at \in [Request -> Step] /\ ret[r] = Pending
  BY StatementMoves DEF TypeInv, TypeOK, Moves, Returned
<1>2. ret \in [Request -> {0, -1, -2, -3, -4, -5, -6, -12, Pending}]
  BY DEF TypeInv, TypeOK
<1> USE DEF GoTo, Return, Pending, KindAt, Refused, Served
<1>3. CASE CheckCode(r)
  BY <1>1, <1>2, <1>3 DEF CheckCode, CodesKept, tables
<1>4. CASE FindOld(r) \/ Rename(r) \/ MoveBikes(r)
  <2>1. UNCHANGED code /\ at[r] \in Served \ {"use"}
    BY <1>4 DEF FindOld, Rename, MoveBikes, tables
  <2>2. \/ \E there \in {"rename", "bikes", "use"} : GoTo(r, there)
        \/ \E v \in {-3, -4, -5} : Return(r, v)
    BY <1>4 DEF FindOld, Rename, MoveBikes
  <2>3. ret'[r] # 0 /\ at'[r] # "update"
    BY <1>1, <1>2, <2>2
  <2> QED
    BY <2>1, <2>3 DEF CodesKept
<1>5. CASE UseCode(r)
  BY <1>1, <1>2, <1>5 DEF UseCode, CodesKept, CodeUsed, Fails
<1>6. CASE UpdateCode(r)
  <2>1. CASE UNCHANGED code /\ Return(r, -3)
    BY <1>1, <1>2, <1>6, <2>1 DEF UpdateCode, CodesKept
  <2>2. CASE ~(UNCHANGED code /\ Return(r, -3))
    BY <1>1, <1>2, <1>6, <2>2 DEF UpdateCode, CodeReplaced
  <2> QED
    BY <2>1, <2>2
<1>7. CASE InsertCode(r)
  BY <1>1, <1>2, <1>7 DEF InsertCode, CodesKept, CodeAdded
<1>8. CASE LookForCode(r)
  BY <1>1, <1>2, <1>8 DEF LookForCode, CodesKept, tables
<1>9. CASE FindUser(r) \/ FindBikes(r)
  <2>1. UNCHANGED code /\ at[r] # "use" /\ at'[r] \notin Served \cup {"update"}
    BY <1>1, <1>9 DEF FindUser, FindBikes, tables
  <2>2. ret'[r] # 0
    BY <1>1, <1>2, <1>9 DEF FindUser, FindBikes
  <2> QED
    BY <2>1, <2>2 DEF CodesKept
<1>10. CASE CheckName(r) \/ InsertUser(r) \/ LookUpCard(r) \/ CheckFree(r)
            \/ InsertBike(r) \/ SetCommand(r)
  <2>1. UNCHANGED code /\ at[r] # "use" /\ at'[r] \notin Served \cup {"update"}
    BY <1>1, <1>10
       DEF CheckName, InsertUser, LookUpCard, CheckFree, InsertBike, SetCommand, tables
  <2>2. arg[r].kind \in {"register", "bind", "command"}
    BY <1>1, <1>10 DEF CheckName, InsertUser, LookUpCard, CheckFree, InsertBike, SetCommand
  <2> QED
    BY <2>1, <2>2 DEF CodesKept
<1> QED
  BY <1>3, <1>4, <1>5, <1>6, <1>7, <1>8, <1>9, <1>10 DEF Statement

(* The table a code is in is that of its kind.                             *)
LEMMA ArgTables ==
  ASSUME NEW a \in Args \cup {NoArg}
  PROVE  /\ a.kind = "forget" => a.table = "forget_code"
         /\ a.kind = "unbind" => a.table = "unbind_code"
  BY DEF Args, NoArg

(* Nobody but the request itself becomes done by its statement; Begin      *)
(* makes nobody done.                                                      *)
LEMMA DoneByStatement ==
  ASSUME TypeInv, Returned, NEW r \in Request, Statement(r), NEW kinds
  PROVE  /\ \A q \in Request : Done(q, kinds) => q # r /\ Done(q, kinds)'
         /\ \A q \in Request \ {r} : Done(q, kinds)' => Done(q, kinds)
<1>1. Moves(r) /\ Alone(r) /\ ret[r] = Pending
  BY StatementMoves, ReturnedStatement DEF Moves, Returned
<1> QED
  BY <1>1 DEF Moves, Alone, Done, Pending

LEMMA DoneByBegin ==
  ASSUME TypeInv, OrderInv, Returned, NEW r \in Request, NEW a \in Args, Begin(r, a),
         NEW kinds
  PROVE  \A q \in Request : /\ Done(q, kinds)' <=> Done(q, kinds)
                            /\ Done(q, kinds) => q # r
<1>1. ret[r] = Pending
  BY BeginFresh DEF Begun, Returned
<1>2. \A q \in Request : q = r \/ arg'[q] = arg[q]
  BY BeginFresh
<1> QED
  BY <1>1, <1>2, BeginFresh DEF Done, Pending

LEMMA DoneHasBegun ==
  ASSUME Returned, NEW r \in Request, NEW kinds, Done(r, kinds)
  PROVE  r \in Begun /\ r \notin UnderWay
  BY DEF Returned, Done, Pending, Begun, UnderWay

-----------------------------------------------------------------------------
(* A code in the table was given to its user, and later than every change  *)
(* the user has made.                                                      *)

ChangedBefore(q, t) ==
  \A p \in Request : Done(p, {"change"}) /\ arg[p].token = t => Later(q, p)

GivenInv ==
  \A row \in code["forget_code"] :
    /\ row.by \in Request /\ Done(row.by, {"forget"}) /\ arg[row.by].token = row.token
    /\ ChangedBefore(row.by, row.token)

LEMMA GivenStatement ==
  ASSUME TypeInv, OrderInv, Returned, GivenInv, NEW r \in Request, Statement(r)
  PROVE  GivenInv'
<1>1. Moves(r) /\ r \in UnderWay
  BY StatementMoves, BegunByMoves
<1>2. arg' = arg /\ met' = met
  BY <1>1 DEF Moves
<1>3. KindAt(r) /\ arg[r] \in Args \cup {NoArg}
      /\ code \in [CodeTable -> SUBSET [token : Token, by : Request]]
  BY DEF TypeInv, TypeOK
<1>4. ASSUME NEW row, row.by \in Request, Done(row.by, {"forget"}),
             arg[row.by].token = row.token, ChangedBefore(row.by, row.token),
             arg[r].kind = "change" /\ arg[r].token = row.token => ret'[r] # 0
      PROVE  Done(row.by, {"forget"})' /\ ChangedBefore(row.by, row.token)'
  <2>1. Done(row.by, {"forget"})'
    BY <1>4, DoneByStatement
  <2>2. ASSUME NEW p \in Request, Done(p, {"change"})', arg[p].token = row.token
        PROVE  Later(row.by, p)
    <3>1. CASE p = r
      BY <1>2, <1>4, <2>2, <3>1 DEF Done
    <3>2. CASE p # r
      <4>1. Done(p, {"change"})
        BY <2>2, <3>2, DoneByStatement
      <4> QED
        BY <1>4, <2>2, <4>1 DEF ChangedBefore
    <3> QED
      BY <3>1, <3>2
  <2> QED
    BY <1>2, <2>1, <2>2 DEF ChangedBefore, Later, Met
<1>5. CASE CodesKept(r)
  <2>1. code' = code /\ (arg[r].kind = "change" => ret'[r] # 0)
    BY <1>5 DEF CodesKept
  <2> QED
    BY <1>2, <1>4, <2>1 DEF GivenInv
<1>6. CASE CodeUsed(r)
  <2>1. \A row \in code'["forget_code"] :
          row \in code["forget_code"] /\ row.token # arg[r].token
    BY <1>3, <1>6 DEF CodeUsed, CodeTable
  <2> QED
    BY <1>2, <1>4, <2>1 DEF GivenInv
<1>7. CASE CodeReplaced(r) \/ CodeAdded(r)
  <2>1. arg[r].kind \in {"forget", "unbind"} /\ ret'[r] = 0
    BY <1>3, <1>7 DEF CodeReplaced, CodeAdded, KindAt
  <2>2. ASSUME NEW row \in code'["forget_code"]
        PROVE  \/ row \in code["forget_code"]
               \/ row.by = r /\ row.token = arg[r].token /\ arg[r].kind = "forget"
    BY <1>3, <1>7, <2>1, ArgTables DEF CodeReplaced, CodeAdded, CodeTable
  <2>3. ASSUME NEW p \in Request, Done(p, {"change"})'
        PROVE  Later(r, p)
    <3>1. p # r
      BY <1>2, <2>1, <2>3 DEF Done
    <3>2. p \in Begun
      BY <2>3, <3>1, DoneByStatement, DoneHasBegun
    <3> QED
      BY <1>1, <3>1, <3>2, WriterIsLater
  <2>4. ASSUME NEW row \in code'["forget_code"]
        PROVE  /\ row.by \in Request /\ Done(row.by, {"forget"})'
               /\ arg[row.by].token = row.token
               /\ ChangedBefore(row.by, row.token)'
    <3>1. CASE row \in code["forget_code"]
      BY <1>4, <2>1, <3>1 DEF GivenInv
    <3>2. CASE row.by = r /\ row.token = arg[r].token /\ arg[r].kind = "forget"
      BY <1>2, <2>1, <2>3, <3>2 DEF ChangedBefore, Done, Later, Met
    <3> QED
      BY <2>2, <3>1, <3>2
  <2> QED
    BY <1>2, <2>4 DEF GivenInv
<1> QED
  BY <1>5, <1>6, <1>7, CodeSorts

LEMMA GivenBegin ==
  ASSUME TypeInv, OrderInv, Returned, GivenInv, NEW r \in Request, NEW a \in Args,
         Begin(r, a)
  PROVE  GivenInv'
<1>1. ASSUME NEW row \in code["forget_code"]
      PROVE  /\ Done(row.by, {"forget"})'
             /\ arg'[row.by].token = row.token
             /\ ChangedBefore(row.by, row.token)'
  <2>1. /\ row.by \in Request /\ Done(row.by, {"forget"}) /\ arg[row.by].token = row.token
        /\ ChangedBefore(row.by, row.token)
    BY DEF GivenInv
  <2>2. row.by # r /\ Done(row.by, {"forget"})'
    BY <2>1, DoneByBegin
  <2>3. ASSUME NEW p \in Request, Done(p, {"change"})', arg'[p].token = row.token
        PROVE  Later(row.by, p)'
    <3>1. p # r /\ Done(p, {"change"})
      BY <2>3, DoneByBegin
    <3>2. Later(row.by, p)
      BY <2>1, <2>3, <3>1, BeginFresh DEF ChangedBefore
    <3> QED
      BY <3>2, BeginFresh DEF Later, Met
  <2> QED
    BY <2>1, <2>2, <2>3, BeginFresh DEF ChangedBefore
<1> QED
  BY <1>1, BeginFresh DEF GivenInv

(* A change has had its code, later than the changes before it.            *)
HadCode(r) ==
  \E q \in Request :
    /\ Done(q, {"forget"}) /\ arg[q].token = arg[r].token /\ Later(r, q)
    /\ \A p \in Request :
         /\ Done(p, {"change"}) /\ arg[p].token = arg[r].token
         /\ p < r /\ ~Met(p, r)
         => Later(q, p)

UsedInv == \A r \in Request : at[r] \in Served \/ Done(r, {"change"}) => HadCode(r)

LEMMA UsedStatement ==
  ASSUME TypeInv, OrderInv, Returned, GivenInv, UsedInv, NEW r \in Request, Statement(r)
  PROVE  UsedInv'
<1>1. Moves(r) /\ r \in UnderWay /\ at \in [Request -> Step] /\ KindAt(r)
  BY StatementMoves, BegunByMoves DEF TypeInv, TypeOK
<1>2. arg' = arg /\ met' = met /\ \A q \in Request \ {r} : at'[q] = at[q]
  BY <1>1 DEF Moves
<1>3. ASSUME NEW q \in Request, q \in Begun, HadCode(q)
      PROVE  HadCode(q)'
  <2>1. PICK s \in Request :
          /\ Done(s, {"forget"}) /\ arg[s].token = arg[q].token /\ Later(q, s)
          /\ \A p \in Request :
               /\ Done(p, {"change"}) /\ arg[p].token = arg[q].token
               /\ p < q /\ ~Met(p, q)
               => Later(s, p)
    BY <1>3 DEF HadCode
  <2>2. Done(s, {"forget"})'
    BY <2>1, DoneByStatement
  <2>3. ASSUME NEW p \in Request, Done(p, {"change"})', arg[p].token = arg[q].token,
               p < q, ~Met(p, q)
        PROVE  Later(s, p)
    <3>1. p # r
      BY <1>1, <1>3, <2>3 DEF OrderInv, MetUnderWay
    <3> QED
      BY <2>1, <2>3, <3>1, DoneByStatement
  <2> QED
    BY <1>2, <2>1, <2>2, <2>3 DEF HadCode, Later, Met
<1>4. ASSUME at'[r] \in Served \/ Done(r, {"change"})'
      PROVE  HadCode(r)
  <2>1. CASE at[r] \in Served
    BY <2>1 DEF UsedInv
  <2>2. CASE at[r] \notin Served
    <3>1. CodesKept(r)
      BY <1>1, <1>2, <1>4, <2>2, CodeSorts
         DEF CodeUsed, CodeReplaced, CodeAdded, Served, Done, KindAt
    <3>2. ~Done(r, {"change"})'
      BY <1>2, <3>1 DEF CodesKept, Done
    <3>3. PICK row \in code["forget_code"] : row.token = arg[r].token
      BY <1>4, <2>2, <3>1, <3>2 DEF CodesKept
    <3>4. /\ row.by \in Request /\ Done(row.by, {"forget"})
          /\ arg[row.by].token = arg[r].token /\ ChangedBefore(row.by, arg[r].token)
      BY <3>3 DEF GivenInv
    <3>5. row.by \in Begun /\ row.by # r
      BY <1>1, <3>4, DoneHasBegun
    <3>6. Later(r, row.by)
      BY <1>1, <3>5, WriterIsLater
    <3> QED
      BY <3>4, <3>6 DEF HadCode, ChangedBefore
  <2> QED
    BY <2>1, <2>2
<1>5. ASSUME NEW q \in Request, at'[q] \in Served \/ Done(q, {"change"})'
      PROVE  HadCode(q)'
  <2>1. CASE q = r
    BY <1>1, <1>3, <1>4, <1>5, <2>1 DEF UnderWay
  <2>2. CASE q # r
    <3>1. at[q] \in Served \/ Done(q, {"change"})
      BY <1>2, <1>5, <2>2, DoneByStatement
    <3>2. q \in Begun
      BY <3>1, DoneHasBegun DEF Begun, Served
    <3> QED
      BY <1>3, <3>1, <3>2 DEF UsedInv
  <2> QED
    BY <2>1, <2>2
<1> QED
  BY <1>5 DEF UsedInv

LEMMA UsedBegin ==
  ASSUME TypeInv, OrderInv, Returned, UsedInv, NEW r \in Request, NEW a \in Args,
         Begin(r, a)
  PROVE  UsedInv'
<1>1. at'[r] \notin Served
  BY BeginFresh DEF First, Args, Served
<1>2. ASSUME NEW q \in Request, at'[q] \in Served \/ Done(q, {"change"})'
      PROVE  HadCode(q)'
  <2>1. q # r /\ HadCode(q)
    BY <1>1, <1>2, BeginFresh, DoneByBegin DEF UsedInv
  <2>2. PICK s \in Request :
          /\ Done(s, {"forget"}) /\ arg[s].token = arg[q].token /\ Later(q, s)
          /\ \A p \in Request :
               /\ Done(p, {"change"}) /\ arg[p].token = arg[q].token
               /\ p < q /\ ~Met(p, q)
               => Later(s, p)
    BY <2>1 DEF HadCode
  <2>3. s # r /\ Done(s, {"forget"})'
    BY <2>2, DoneByBegin
  <2>4. /\ arg'[q] = arg[q] /\ arg'[s] = arg[s] /\ met \subseteq met'
    BY <2>1, <2>3, BeginFresh
  <2>5. ASSUME NEW p \in Request, Done(p, {"change"})', arg'[p].token = arg[q].token,
               p < q, ~Met(p, q)'
        PROVE  Later(s, p)'
    <3>1. p # r /\ Done(p, {"change"})
      BY <2>5, DoneByBegin
    <3>2. Later(s, p)
      BY <2>2, <2>4, <2>5, <3>1, BeginFresh DEF Met
    <3> QED
      BY <2>4, <3>2 DEF Later, Met
  <2>6. Later(q, s)'
    BY <2>2, <2>4 DEF Later, Met
  <2> QED
    BY <2>2, <2>3, <2>4, <2>5, <2>6 DEF HadCode
<1> QED
  BY <1>2 DEF UsedInv

CodesInv == GivenInv /\ UsedInv

LEMMA CodesInit == Init => CodesInv
  BY DEF Init, CodesInv, GivenInv, UsedInv, Served, Done, Pending, NoArg, CodeTable

LEMMA CodesInductive == TypeInv /\ OrderInv /\ Returned /\ CodesInv /\ [Next]_vars => CodesInv'
<1> SUFFICES ASSUME TypeInv, OrderInv, Returned, CodesInv, [Next]_vars PROVE CodesInv'
  OBVIOUS
<1>1. CASE UNCHANGED vars
  BY <1>1 DEF vars, tables, CodesInv, GivenInv, UsedInv, ChangedBefore, HadCode, Done, Later, Met
<1> QED
  BY <1>1, GivenStatement, GivenBegin, UsedStatement, UsedBegin DEF Next, CodesInv

(* Behind each change of an account there is a code that was given later   *)
(* than every change of the user before it: a code serves once             *)
(* (WX_ResponseWebForgetRegister, TestTask.cpp:5511-5672), whatever fails. *)
THEOREM CodeUsedOnceAlways == Spec => []CodeUsedOnce
<1>1. CodesInv => CodeUsedOnce
  BY DEF CodesInv, UsedInv, HadCode, CodeUsedOnce
<1> QED
  BY <1>1, TypesKept, OrderInit, OrderInductive, ReturnedInit, ReturnedInductive,
     CodesInit, CodesInductive, PTL DEF Spec

-----------------------------------------------------------------------------
(* What a user was told stands.  A code about to be written over may have  *)
(* been used meanwhile, by a change of the same user: it stands no less.   *)

Replaced(q) ==
  \E r \in Begun \ {q} :
    /\ arg[r].kind \in {arg[q].kind, "change"}
    /\ arg[r].token = arg[q].token /\ Later(r, q)

CodeStandsInv ==
  /\ \A r \in Request : at[r] = "update" => HasCode(r) \/ Replaced(r)
  /\ \A q \in Request : Done(q, {"forget", "unbind"}) => CodeStands(q)

LEMMA CodeStandsStatement ==
  ASSUME TypeInv, OrderInv, Returned, CodeStandsInv, NEW r \in Request, Statement(r)
  PROVE  CodeStandsInv'
<1>1. Moves(r) /\ r \in UnderWay /\ r \in Begun /\ Begun' = Begun
      /\ at \in [Request -> Step]
  BY StatementMoves, BegunByMoves DEF TypeInv, TypeOK, UnderWay
<1>2. arg' = arg /\ met' = met /\ \A q \in Request \ {r} : at'[q] = at[q]
  BY <1>1 DEF Moves
<1>3. /\ \A q \in Request : KindAt(q) /\ arg[q] \in Args \cup {NoArg}
      /\ code \in [CodeTable -> SUBSET [token : Token, by : Request]]
  BY DEF TypeInv, TypeOK
<1>4. \A q \in Request : Replaced(q) => Replaced(q)'
  BY <1>1, <1>2 DEF Replaced, Later, Met
<1>5. ASSUME NEW q \in Begun \ {r}, arg[r].kind \in {arg[q].kind, "change"},
             arg[r].token = arg[q].token
      PROVE  Replaced(q)'
  <2>1. Later(r, q)
    BY <1>1, WriterIsLater
  <2> QED
    BY <1>1, <1>2, <1>5, <2>1 DEF Replaced, Later, Met
<1>6. \A q \in Request : Done(q, {"forget", "unbind"}) \/ at[q] = "update" =>
        /\ q \in Begun /\ arg[q].table \in CodeTable
        /\ arg[q].kind = "forget" \/ arg[q].kind = "unbind"
        /\ arg[q].table = "forget_code" <=> arg[q].kind = "forget"
  BY <1>3, DoneHasBegun, ArgTables, ArgTypes DEF KindAt, Begun, Done
(* A row that was there for q is there still, or q has been replaced.      *)
<1>7. ASSUME NEW q \in Begun \ {r}, arg[q].table \in CodeTable,
             arg[q].kind \in {"forget", "unbind"},
             arg[q].table = "forget_code" <=> arg[q].kind = "forget",
             NEW row \in code[arg[q].table], row.token = arg[q].token
      PROVE  row \in code'[arg[q].table] \/ Replaced(q)'
  <2>1. CASE CodesKept(r)
    BY <2>1 DEF CodesKept
  <2>2. CASE CodeUsed(r)
    <3>1. arg[r].kind = "change"
      BY <1>3, <2>2 DEF CodeUsed, KindAt
    <3>2. CASE arg[q].table = "forget_code" /\ arg[r].token = arg[q].token
      BY <1>5, <3>1, <3>2
    <3>3. CASE ~(arg[q].table = "forget_code" /\ arg[r].token = arg[q].token)
      BY <1>3, <1>7, <2>2, <3>3 DEF CodeUsed
    <3> QED
      BY <3>2, <3>3
  <2>3. CASE CodeReplaced(r)
    <3>1. /\ arg[r].kind = "forget" \/ arg[r].kind = "unbind"
          /\ arg[r].table = "forget_code" <=> arg[r].kind = "forget"
          /\ arg[r].table \in CodeTable
      BY <1>6, <2>3 DEF CodeReplaced
    <3>2. CASE arg[r].table = arg[q].table /\ arg[r].token = arg[q].token
      BY <1>5, <1>7, <3>1, <3>2
    <3>3. CASE arg[r].table # arg[q].table
      BY <1>3, <1>7, <2>3, <3>3 DEF CodeReplaced
    <3>4. CASE arg[r].token # arg[q].token
      BY <1>3, <1>7, <2>3, <3>4 DEF CodeReplaced
    <3> QED
      BY <3>2, <3>3, <3>4
  <2>4. CASE CodeAdded(r)
    BY <1>3, <1>7, <2>4 DEF CodeAdded
  <2> QED
    BY <2>1, <2>2, <2>3, <2>4, CodeSorts
(* An update writes over the rows there are, under the same token.         *)
<1>8. ASSUME NEW q \in Request, at'[q] = "update"
      PROVE  HasCode(q)' \/ Replaced(q)'
  <2>1. CASE q = r
    <3>1. CodesKept(r)
      BY <1>1, <1>8, <2>1, CodeSorts DEF CodeUsed, CodeReplaced, CodeAdded
    <3> QED
      BY <1>2, <1>8, <2>1, <3>1 DEF CodesKept, HasCode
  <2>2. CASE q # r
    <3>1. at[q] = "update"
      BY <1>2, <1>8, <2>2
    <3>2. CASE Replaced(q)
      BY <1>4, <3>2
    <3>3. CASE HasCode(q)
      <4>1. PICK row \in code[arg[q].table] : row.token = arg[q].token
        BY <3>3 DEF HasCode
      <4>2. row \in code'[arg[q].table] \/ Replaced(q)'
        BY <1>6, <1>7, <2>2, <3>1, <4>1
      <4> QED
        BY <1>2, <4>1, <4>2 DEF HasCode
    <3> QED
      BY <3>1, <3>2, <3>3 DEF CodeStandsInv
  <2> QED
    BY <2>1, <2>2
<1>9. ASSUME NEW q \in Request, Done(q, {"forget", "unbind"})'
      PROVE  CodeStands(q)'
  <2>1. CASE q = r
    <3>1. arg[r].kind \in {"forget", "unbind"} /\ ret'[r] = 0
      BY <1>2, <1>9, <2>1 DEF Done
    <3>2. CodeReplaced(r) \/ CodeAdded(r)
      BY <1>3, <3>1, CodeSorts DEF CodesKept, CodeUsed, KindAt
    <3>3. CASE CodeAdded(r)
      <4>1. arg[r].table \in CodeTable
        BY <1>3, <3>1, ArgTypes
      <4> QED
        BY <1>2, <1>3, <2>1, <3>3, <4>1 DEF CodeAdded, CodeStands
    <3>4. CASE CodeReplaced(r)
      <4>1. arg[r].table \in CodeTable /\ at[r] = "update"
        BY <1>3, <3>1, <3>4, ArgTypes DEF CodeReplaced
      <4>2. CASE Replaced(r)
        BY <1>4, <2>1, <4>2 DEF Replaced, CodeStands
      <4>3. CASE HasCode(r)
        <5>1. PICK row \in code[arg[r].table] : row.token = arg[r].token
          BY <4>3 DEF HasCode
        <5>2. row \in [token : Token, by : Request]
          BY <1>3, <4>1, <5>1
        <5>3. [row EXCEPT !.by = r] = [token |-> arg[r].token, by |-> r]
          BY <5>1, <5>2
        <5>4. [row EXCEPT !.by = r] \in code'[arg[r].table]
          BY <1>3, <3>4, <4>1, <5>1 DEF CodeReplaced
        <5> QED
          BY <1>2, <2>1, <5>3, <5>4 DEF CodeStands
      <4> QED
        BY <4>1, <4>2, <4>3 DEF CodeStandsInv
    <3> QED
      BY <3>2, <3>3, <3>4
  <2>2. CASE q # r
    <3>1. Done(q, {"forget", "unbind"})
      BY <1>9, <2>2, DoneByStatement
    <3>2. CASE Replaced(q)
      BY <1>4, <3>2 DEF Replaced, CodeStands
    <3>3. CASE [token |-> arg[q].token, by |-> q] \in code[arg[q].table]
      <4>1. \/ [token |-> arg[q].token, by |-> q] \in code'[arg[q].table]
            \/ Replaced(q)'
        BY <1>6, <1>7, <2>2, <3>1, <3>3
      <4> QED
        BY <1>2, <4>1 DEF Replaced, CodeStands
    <3>4. CodeStands(q)
      BY <3>1 DEF CodeStandsInv
    <3> QED
      BY <3>2, <3>3, <3>4 DEF CodeStands, Replaced
  <2> QED
    BY <2>1, <2>2
<1> QED
  BY <1>8, <1>9 DEF CodeStandsInv

LEMMA CodeStandsBegin ==
  ASSUME TypeInv, OrderInv, Returned, CodeStandsInv, NEW r \in Request, NEW a \in Args,
         Begin(r, a)
  PROVE  CodeStandsInv'
<1>1. at'[r] # "update"
  BY BeginFresh DEF First, Args
<1>2. ASSUME NEW q \in Begun
      PROVE  q # r /\ arg'[q] = arg[q] /\ (Replaced(q) => Replaced(q)')
  <2>1. \A p \in Begun : p # r /\ arg'[p] = arg[p] /\ p \in Begun'
    BY BeginFresh DEF Begun
  <2> QED
    BY <2>1, BeginFresh DEF Replaced, Later, Met
<1>3. ASSUME NEW q \in Request, at'[q] = "update"
      PROVE  HasCode(q)' \/ Replaced(q)'
  <2>1. at[q] = "update" /\ q \in Begun
    BY <1>1, <1>3, BeginFresh DEF Begun
  <2> QED
    BY <1>2, <2>1, BeginFresh DEF CodeStandsInv, HasCode
<1>4. ASSUME NEW q \in Request, Done(q, {"forget", "unbind"})'
      PROVE  CodeStands(q)'
  <2>1. Done(q, {"forget", "unbind"})
    BY <1>4, DoneByBegin
  <2>2. q \in Begun /\ CodeStands(q)
    BY <2>1, DoneHasBegun DEF CodeStandsInv
  <2> QED
    BY <1>2, <2>2, BeginFresh DEF CodeStands, Replaced
<1> QED
  BY <1>3, <1>4 DEF CodeStandsInv

(* The same for commands: one overwrites another only when it is later.    *)
CommandStandsInv == \A q \in Request : Done(q, {"command"}) => CommandStands(q)

CommandsKept(r) ==
  /\ UNCHANGED command
  /\ ret'[r] # 0 \/ arg[r].kind # "command"

CommandSet(r) ==
  /\ arg[r].kind = "command" /\ ret'[r] = 0
  /\ command' = [command EXCEPT ![arg[r].table] = {[card |-> arg[r].card, by |-> r]}]

LEMMA CommandSorts ==
  ASSUME TypeInv, Returned, NEW r \in Request, Statement(r)
  PROVE  CommandsKept(r) \/ CommandSet(r)
<1>1. KindAt(r) /\ at \in [Request -> Step] /\ ret[r] = Pending
  BY StatementMoves DEF TypeInv, TypeOK, Moves, Returned
<1>2. ret \in [Request -> {0, -1, -2, -3, -4, -5, -6, -12, Pending}]
  BY DEF TypeInv, TypeOK
<1> USE DEF GoTo, Return, Pending, KindAt, Refused
<1>3. CASE SetCommand(r)
  BY <1>1, <1>2, <1>3 DEF SetCommand, CommandsKept, CommandSet
<1>4. CASE FindUser(r) \/ FindBikes(r)
  <2>1. UNCHANGED command
    BY <1>4 DEF FindUser, FindBikes, tables
  <2>2. ret'[r] # 0
    BY <1>1, <1>2, <1>4 DEF FindUser, FindBikes
  <2> QED
    BY <2>1, <2>2 DEF CommandsKept
<1>5. CASE ~(SetCommand(r) \/ FindUser(r) \/ FindBikes(r))
  <2>1. UNCHANGED command /\ at[r] \notin {"user", "owned", "set"}
    BY <1>5, Statement(r)
       DEF Statement, tables, CheckName, InsertUser, CheckCode, FindOld, Rename,
           MoveBikes, UseCode, LookUpCard, CheckFree, InsertBike, LookForCode,
           UpdateCode, InsertCode
  <2>2. at[r] \notin {"idle", "done"}
    BY StatementMoves DEF Moves
  <2>3. arg[r].kind # "command"
    BY <1>1, <2>1, <2>2 DEF Step
  <2> QED
    BY <2>1, <2>3 DEF CommandsKept
<1> QED
  BY <1>3, <1>4, <1>5

LEMMA CommandStandsInductive ==
  TypeInv /\ OrderInv /\ Returned /\ CommandStandsInv /\ [Next]_vars => CommandStandsInv'
<1> SUFFICES ASSUME TypeInv, OrderInv, Returned, CommandStandsInv, [Next]_vars
             PROVE CommandStandsInv'
  OBVIOUS
<1>1. ASSUME NEW r \in Request, Statement(r), NEW q \in Request, Done(q, {"command"})'
      PROVE  CommandStands(q)'
  <2>1. Moves(r) /\ r \in UnderWay /\ arg' = arg /\ met' = met
    BY <1>1, StatementMoves, BegunByMoves DEF Moves
  <2>2. command \in [Table -> SUBSET [card : Card, by : Request]]
        /\ \A p \in Request : arg[p] \in Args \cup {NoArg}
    BY DEF TypeInv, TypeOK
  <2>3. arg[q].kind = "command" /\ arg[q].table \in Table
    BY <1>1, <2>1, <2>2, ArgTypes DEF Done
  <2>4. CASE q = r
    <3>1. CommandSet(r)
      BY <1>1, <2>1, <2>3, <2>4, CommandSorts DEF CommandsKept, Done
    <3> QED
      BY <2>1, <2>2, <2>3, <2>4, <3>1 DEF CommandSet, CommandStands
  <2>5. CASE q # r
    <3>1. Done(q, {"command"}) /\ CommandStands(q)
      BY <1>1, <2>5, DoneByStatement DEF CommandStandsInv
    <3>2. CASE [card |-> arg[q].card, by |-> q] \notin command[arg[q].table]
      <4>1. PICK p \in Request \ {q} :
              Done(p, {"command"}) /\ arg[p].table = arg[q].table /\ Later(p, q)
        BY <3>1, <3>2 DEF CommandStands
      <4>2. Done(p, {"command"})'
        BY <1>1, <4>1, DoneByStatement
      <4> QED
        BY <2>1, <4>1, <4>2 DEF CommandStands, Later, Met
    <3>3. CASE /\ [card |-> arg[q].card, by |-> q] \in command[arg[q].table]
               /\ CommandSet(r) /\ arg[r].table = arg[q].table
      <4>1. Later(r, q)
        BY <2>1, <2>5, <3>1, DoneHasBegun, WriterIsLater
      <4>2. Done(r, {"command"})'
        BY <2>1, <3>3 DEF CommandSet, Done
      <4> QED
        BY <2>1, <2>5, <3>3, <4>1, <4>2 DEF CommandStands, Later, Met
    <3>4. CASE /\ [card |-> arg[q].card, by |-> q] \in command[arg[q].table]
               /\ ~(CommandSet(r) /\ arg[r].table = arg[q].table)
      <4>1. command'[arg[q].table] = command[arg[q].table]
        BY <1>1, <2>2, <2>3, <3>4, CommandSorts DEF CommandsKept, CommandSet
      <4> QED
        BY <2>1, <3>4, <4>1 DEF CommandStands
    <3> QED
      BY <3>2, <3>3, <3>4
  <2> QED
    BY <2>4, <2>5
<1>2. ASSUME NEW r \in Request, NEW a \in Args, Begin(r, a),
             NEW q \in Request, Done(q, {"command"})'
      PROVE  CommandStands(q)'
  <2>1. Done(q, {"command"}) /\ CommandStands(q) /\ q # r
    BY <1>2, DoneByBegin DEF CommandStandsInv
  <2>2. CASE [card |-> arg[q].card, by |-> q] \in command[arg[q].table]
    BY <1>2, <2>1, <2>2, BeginFresh DEF CommandStands
  <2>3. CASE [card |-> arg[q].card, by |-> q] \notin command[arg[q].table]
    <3>1. PICK p \in Request \ {q} :
            Done(p, {"command"}) /\ arg[p].table = arg[q].table /\ Later(p, q)
      BY <2>1, <2>3 DEF CommandStands
    <3>2. p # r /\ Done(p, {"command"})'
      BY <1>2, <3>1, DoneByBegin
    <3> QED
      BY <1>2, <2>1, <3>1, <3>2, BeginFresh DEF CommandStands, Later, Met
  <2> QED
    BY <2>2, <2>3
<1>3. CASE UNCHANGED vars
  BY <1>3 DEF vars, tables, CommandStandsInv, CommandStands, Done, Later, Met
<1> QED
  BY <1>1, <1>2, <1>3 DEF Next, CommandStandsInv

StandsInv == CodeStandsInv /\ CommandStandsInv

LEMMA StandsInit == Init => StandsInv
  BY DEF Init, StandsInv, CodeStandsInv, CommandStandsInv, Done, Pending

LEMMA StandsInductive == TypeInv /\ OrderInv /\ Returned /\ StandsInv /\ [Next]_vars => StandsInv'
<1> SUFFICES ASSUME TypeInv, OrderInv, Returned, StandsInv, [Next]_vars PROVE StandsInv'
  OBVIOUS
<1>1. CommandStandsInv'
  BY CommandStandsInductive DEF StandsInv
<1>2. CASE UNCHANGED vars
  BY <1>1, <1>2 DEF vars, tables, StandsInv, CodeStandsInv, CodeStands, Replaced, HasCode,
                    Done, Later, Met, Begun
<1> QED
  BY <1>1, <1>2, CodeStandsStatement, CodeStandsBegin DEF Next, StandsInv

(* The code a user was told is in its table until the user replaces or     *)
(* uses it, a command until a later one overwrites it (TestTask.cpp:       *)
(* 1439-1505, 3345-3370), whatever fails.                                  *)
THEOREM ConfirmedStandsAlways == Spec => []ConfirmedStands
<1>1. StandsInv => ConfirmedStands
  BY DEF StandsInv, CodeStandsInv, CommandStandsInv, ConfirmedStands
<1> QED
  BY <1>1, TypesKept, OrderInit, OrderInductive, ReturnedInit, ReturnedInductive,
     StandsInit, StandsInductive, PTL DEF Spec

-----------------------------------------------------------------------------
(* The owners of the bikes.  An account keeps its row: the rows of a user  *)
(* are never fewer, and what a change has read or written of them it still *)
(* finds, unless another change of the user was under way with it.         *)

(* Another change of the same user has been under way with it.             *)
Rivalled(r) ==
  \E q \in Request : Met(r, q) /\ arg[q].kind = "change" /\ arg[q].token = arg[r].token

HasName(t, n) == \E u \in RowsOf(t) : u.name = n

(* A name that bikes had when w was under way, and that r has taken away   *)
(* from its account.                                                       *)
TakenAway(n, w, r) ==
  /\ arg[r].kind = "change"
  /\ \/ found[r] = n /\ Met(r, w)
     \/ Cardinality(RowsOf(arg[r].token)) > 1
     \/ Rivalled(r)

IdsInv ==
  /\ IsFiniteSet(user)
  /\ \A u, v \in user : u.id = v.id => u = v
  /\ \A u \in user : u.id \in Name \/ (u.id \in Request /\ at[u.id] = "done")

ReadInv ==
  /\ \A r \in Request : arg[r].kind = "change" /\ found[r] # None =>
       at[r] \in {"rename", "bikes", "use", "done"}
  /\ \A r \in Request : at[r] = "rename" => HasName(arg[r].token, found[r]) \/ Rivalled(r)
  /\ \A r \in Request : at[r] = "bikes" => HasName(arg[r].token, arg[r].name) \/ Rivalled(r)

BindingInv ==
  /\ \A b \in bike : b.by \in Request => at[b.by] = "done"
  /\ \A r \in Request : at[r] \in {"free", "newbike"} /\ found[r] # None =>
       arg[r].name \in Names \/ \E q \in Request : TakenAway(arg[r].name, r, q)

(* Who has not begun has asked for nothing.                                *)
IdleInv == \A r \in Request : at[r] = "idle" => arg[r] = NoArg /\ found[r] = None

OwnersInv == IdsInv /\ ReadInv /\ BindingInv /\ IdleInv /\ BikesHaveOwners

LEMMA SeveralMeans ==
  ASSUME NEW S, IsFiniteSet(S)
  PROVE  Cardinality(S) > 1 <=> \E x, y \in S : x # y
<1>1. Cardinality(S) \in Nat
  BY FS_CardinalityType
<1>2. (Cardinality(S) = 0 <=> S = {}) /\ (Cardinality(S) = 1 <=> \E x : S = {x})
  BY FS_EmptySet, FS_Singleton
<1>3. Cardinality(S) > 1 <=> Cardinality(S) # 0 /\ Cardinality(S) # 1
  BY <1>1
<1>4. (\E x, y \in S : x # y) <=> S # {} /\ ~\E x : S = {x}
  OBVIOUS
<1> QED
  BY <1>2, <1>3, <1>4

LEMMA SeveralRows ==
  ASSUME IdsInv, NEW t
  PROVE  Cardinality(RowsOf(t)) > 1 <=> \E u, v \in RowsOf(t) : u # v
<1>1. IsFiniteSet(RowsOf(t))
  BY FS_Subset DEF IdsInv, RowsOf
<1> QED
  BY <1>1, SeveralMeans

LEMMA LeftBehindMeans ==
  ASSUME NEW b, NEW r \in Request
  PROVE  LeftBehind(b, r) <=>
           \/ arg[r].kind = "change" /\ found[r] = b.name /\ (at[r] = "bikes" \/ ret[r] = -5)
           \/ TakenAway(b.name, b.by, r)
  BY DEF LeftBehind, TakenAway, Rivalled

(* What a statement does to accounts, bikes and what has been read of them.*)
Unread(r) ==
  /\ UNCHANGED <<user, bike, found>>
  /\ at'[r] \notin {"rename", "bikes", "use", "free"}
  /\ at'[r] = "newbike" => at[r] = "free"
  /\ at[r] = "bikes" => ret'[r] = -5 /\ ~orderly
  /\ at[r] \in {"rename", "bikes", "use"} => at'[r] = "done"

NameRead(r) ==
  /\ at[r] = "old" /\ at'[r] = "rename"
  /\ UNCHANGED <<user, bike>>
  /\ HasName(arg[r].token, found'[r])

OtherRead(r) ==
  /\ arg[r].kind # "change" /\ at'[r] \in {"free", "owned"}
  /\ UNCHANGED <<user, bike>>
  /\ at'[r] = "free" /\ found'[r] # None => arg[r].name \in Names
  /\ found'[r] \in {None, arg[r].name} \/ HasName(arg[r].token, found'[r])

Registered(r) ==
  /\ at[r] = "newuser" /\ at'[r] = "done"
  /\ UNCHANGED <<bike, found>>
  /\ user' = user \cup {NewUser(r)}

AccountRenamed(r) ==
  /\ at[r] = "rename" /\ at'[r] = "bikes"
  /\ UNCHANGED <<bike, found>>
  /\ user' = {IF u.token = arg[r].token THEN Renamed(u, r) ELSE u : u \in user}

BikesMoved(r) ==
  /\ at[r] = "bikes" /\ at'[r] = "use"
  /\ UNCHANGED <<user, found>>
  /\ bike' = {IF b.name = found[r] THEN Moved(b, r) ELSE b : b \in bike}

BikeBound(r) ==
  /\ at[r] = "newbike" /\ at'[r] = "done"
  /\ UNCHANGED <<user, found>>
  /\ bike' = bike \cup {NewBike(r)}

LEMMA OwnerSorts ==
  ASSUME TypeInv, NEW r \in Request, Statement(r)
  PROVE  \/ Unread(r) \/ NameRead(r) \/ OtherRead(r) \/ Registered(r)
         \/ AccountRenamed(r) \/ BikesMoved(r) \/ BikeBound(r)
<1>1. /\ KindAt(r) /\ at \in [Request -> Step]
      /\ ret \in [Request -> {0, -1, -2, -3, -4, -5, -6, -12, Pending}]
      /\ found \in [Request -> Name \cup {None}]
  BY DEF TypeInv, TypeOK
<1> USE <1>1 DEF GoTo, Return
<1>2. CASE FindOld(r)
  <2>1. CASE UNCHANGED found /\ Return(r, -3)
    BY <1>2, <2>1 DEF FindOld, Unread, tables
  <2>2. CASE ~(UNCHANGED found /\ Return(r, -3))
    BY <1>2, <2>2 DEF FindOld, NameRead, HasName, tables
  <2> QED
    BY <2>1, <2>2
<1>3. CASE LookUpCard(r)
  <2>1. CASE UNCHANGED found /\ Return(r, -4)
    BY <1>3, <2>1 DEF LookUpCard, Unread, tables
  <2>2. CASE ~(UNCHANGED found /\ Return(r, -4))
    BY <1>3, <2>2 DEF LookUpCard, OtherRead, KindAt, HasName, tables
  <2> QED
    BY <2>1, <2>2
<1>4. CASE FindUser(r)
  <2>1. CASE UNCHANGED found /\ Return(r, Refused(r))
    BY <1>4, <2>1 DEF FindUser, Unread, tables
  <2>2. CASE ~(UNCHANGED found /\ Return(r, Refused(r)))
    BY <1>4, <2>2 DEF FindUser, OtherRead, KindAt, HasName, tables
  <2> QED
    BY <2>1, <2>2
<1>5. CASE InsertUser(r)
  BY <1>5 DEF InsertUser, Unread, Registered, NewUser
<1>6. CASE Rename(r)
  <2>1. at[r] = "rename" /\ UNCHANGED <<bike, found>>
    BY <1>6 DEF Rename
  <2>2. \/ /\ user' = {IF u.token = arg[r].token THEN Renamed(u, r) ELSE u : u \in user}
           /\ GoTo(r, "bikes")
        \/ user' = user /\ Return(r, -4)
    BY <1>6 DEF Rename, Renamed
  <2> QED
    BY <2>1, <2>2 DEF Unread, AccountRenamed
<1>7. CASE MoveBikes(r)
  <2>1. at[r] = "bikes" /\ UNCHANGED <<user, found>>
    BY <1>7 DEF MoveBikes
  <2>2. \/ /\ bike' = {IF b.name = found[r] THEN Moved(b, r) ELSE b : b \in bike}
           /\ GoTo(r, "use")
        \/ bike' = bike /\ Return(r, -5) /\ ~orderly
    BY <1>7 DEF MoveBikes, Moved, Fails
  <2> QED
    BY <2>1, <2>2 DEF Unread, BikesMoved
<1>8. CASE InsertBike(r)
  BY <1>8 DEF InsertBike, Unread, BikeBound, NewBike
<1>9. CASE CheckName(r) \/ CheckCode(r) \/ UseCode(r) \/ CheckFree(r) \/ FindBikes(r)
  BY <1>9 DEF CheckName, CheckCode, UseCode, CheckFree, FindBikes, Unread, tables
<1>10. CASE SetCommand(r) \/ LookForCode(r) \/ UpdateCode(r) \/ InsertCode(r)
  <2>1. UNCHANGED <<user, bike, found>> /\ at'[r] \in {"done", "update", "newcode"}
        /\ at[r] \in {"set", "code", "update", "newcode"}
    BY <1>10 DEF SetCommand, LookForCode, UpdateCode, InsertCode, tables
  <2> QED
    BY <2>1 DEF Unread
<1> QED
  BY <1>2, <1>3, <1>4, <1>5, <1>6, <1>7, <1>8, <1>9, <1>10 DEF Statement

(* What excuses a bike without an owner goes on excusing it, unless the    *)
(* change that is to move it does so.                                      *)
Excuse(b) ==
  \/ b.by \in Request /\ found[b.by] = None
  \/ \E r \in Request : LeftBehind(b, r)

SeveralStay ==
  \A t : Cardinality(RowsOf(t)) > 1 => Cardinality(RowsOf(t))' > 1

ReadStays(r) == found'[r] = found[r] \/ arg[r].kind # "change" \/ found[r] = None

LEMMA TakenAwayStays ==
  ASSUME NEW r \in Request, Moves(r), Alone(r), SeveralStay, ReadStays(r),
         NEW n \in Name, NEW w, NEW q \in Request, TakenAway(n, w, q)
  PROVE  TakenAway(n, w, q)'
<1>1. arg' = arg /\ met' = met /\ n # None
  BY AccountsAssumption DEF Moves
<1>2. Rivalled(q) => Rivalled(q)'
  BY <1>1 DEF Rivalled, Met
<1>3. Cardinality(RowsOf(arg[q].token)) > 1 => Cardinality(RowsOf(arg[q].token))' > 1
  <2>1. PICK t : t = arg[q].token
    OBVIOUS
  <2>2. Cardinality(RowsOf(t)) > 1 => Cardinality(RowsOf(t))' > 1
    BY DEF SeveralStay
  <2> QED
    BY <1>1, <2>1, <2>2
<1>4. found[q] = n /\ arg[q].kind = "change" => found'[q] = n
  BY <1>1 DEF Alone, ReadStays
<1> QED
  BY <1>1, <1>2, <1>3, <1>4 DEF TakenAway, Met

LEMMA ExcuseStays ==
  ASSUME TypeInv, Returned, BindingInv, NEW r \in Request, Moves(r), Alone(r),
         SeveralStay, ReadStays(r), NEW b \in bike,
         at[r] = "bikes" => ret'[r] = -5 \/ found[r] # b.name,
         Excuse(b)
  PROVE  Excuse(b)'
<1>1. /\ arg' = arg /\ at[r] \notin {"idle", "done"} /\ ret[r] = Pending
      /\ \A q \in Request \ {r} : at'[q] = at[q]
      /\ \A q \in Request \ {r} : ret'[q] = ret[q] /\ found'[q] = found[q]
  BY DEF Moves, Returned, Alone
<1>2. b.name \in Name /\ b.name # None
  BY AccountsAssumption DEF TypeInv, TypeOK
<1>3. CASE b.by \in Request /\ found[b.by] = None
  <2>1. b.by # r
    BY <1>1, <1>3 DEF BindingInv
  <2> QED
    BY <1>1, <1>3, <2>1 DEF Excuse
<1>4. ASSUME NEW q \in Request, LeftBehind(b, q)
      PROVE  LeftBehind(b, q)'
  <2>1. CASE TakenAway(b.name, b.by, q)
    <3>1. TakenAway(b.name, b.by, q)'
      BY <1>2, <2>1, TakenAwayStays
    <3> QED
      BY <3>1 DEF LeftBehind, TakenAway, Rivalled
  <2>2. CASE arg[q].kind = "change" /\ found[q] = b.name /\ (at[q] = "bikes" \/ ret[q] = -5)
    <3>1. found'[q] = b.name
      BY <1>1, <1>2, <2>2 DEF ReadStays
    <3>2. at'[q] = "bikes" \/ ret'[q] = -5
      BY <1>1, <2>2 DEF Pending
    <3> QED
      BY <1>1, <2>2, <3>1, <3>2 DEF LeftBehind
  <2> QED
    BY <1>4, <2>1, <2>2, LeftBehindMeans
<1> QED
  BY <1>3, <1>4 DEF Excuse

(* The same for a card that is being bound.                                *)
BindExcuse(q) ==
  \/ found[q] = None \/ arg[q].name \in Names
  \/ \E p \in Request : TakenAway(arg[q].name, q, p)

LEMMA BindExcuseStays ==
  ASSUME TypeInv, NEW r \in Request, Moves(r), Alone(r), SeveralStay, ReadStays(r),
         NEW q \in Request, at[q] \in {"free", "newbike"}, arg[q].name \notin Names,
         found'[q] = found[q], BindExcuse(q)
  PROVE  BindExcuse(q)'
<1>1. PICK n \in Name : n = arg[q].name
  <2>1. arg[q].name \in Name
    BY ArgTypes DEF TypeInv, TypeOK, KindAt
  <2> QED
    BY <2>1
<1>2. arg'[q].name = n
  BY <1>1 DEF Moves
<1>3. ASSUME NEW p \in Request, TakenAway(n, q, p)
      PROVE  TakenAway(n, q, p)'
  BY <1>3, TakenAwayStays
<1> QED
  BY <1>1, <1>2, <1>3 DEF BindExcuse

LEMMA SeveralStaySame == user' = user => SeveralStay
  BY DEF SeveralStay, RowsOf

-----------------------------------------------------------------------------
(* Each sort of statement keeps the owners in order.                       *)

OwnersStep(r) ==
  /\ TypeInv /\ TypeInv' /\ OrderInv /\ Returned /\ OwnersInv
  /\ r \in Request /\ r \in UnderWay /\ Moves(r) /\ Alone(r)

LEMMA StepFacts ==
  ASSUME NEW r, OwnersStep(r)
  PROVE  /\ r \in Request /\ at[r] \notin {"idle", "done"} /\ ret[r] = Pending
         /\ arg' = arg /\ met' = met
         /\ \A q \in Request \ {r} : at'[q] = at[q] /\ ret'[q] = ret[q] /\ found'[q] = found[q]
         /\ KindAt(r) /\ KindAt(r)' /\ at'[r] # "idle"
         /\ IdleInv'
<1>1. /\ r \in Request /\ at[r] \notin {"idle", "done"} /\ ret[r] = Pending
      /\ arg' = arg /\ met' = met /\ at'[r] # "idle"
      /\ \A q \in Request \ {r} : at'[q] = at[q] /\ ret'[q] = ret[q] /\ found'[q] = found[q]
      /\ KindAt(r) /\ KindAt(r)'
  BY DEF OwnersStep, Moves, Alone, Returned, TypeInv, TypeOK
<1>2. IdleInv'
  BY <1>1 DEF OwnersStep, OwnersInv, IdleInv
<1> QED
  BY <1>1, <1>2

(* While the accounts stay, a step leaves what was read of them true.      *)
LEMMA SameUsers ==
  ASSUME NEW r, OwnersStep(r), user' = user
  PROVE  /\ IdsInv'
         /\ SeveralStay
         /\ \A q \in Request \ {r} : /\ at'[q] = "rename" => HasName(arg[q].token, found[q])' \/ Rivalled(q)'
                                     /\ at'[q] = "bikes" => HasName(arg[q].token, arg[q].name)' \/ Rivalled(q)'
<1>1. IdsInv'
  BY StepFacts DEF OwnersStep, OwnersInv, IdsInv
<1>2. ASSUME NEW q \in Request \ {r}
      PROVE  /\ at'[q] = "rename" => HasName(arg[q].token, found[q])' \/ Rivalled(q)'
             /\ at'[q] = "bikes" => HasName(arg[q].token, arg[q].name)' \/ Rivalled(q)'
  <2>1. Rivalled(q) => Rivalled(q)'
    BY StepFacts DEF Rivalled, Met
  <2>3. at[q] = "rename" => HasName(arg[q].token, found[q]) \/ Rivalled(q)
    BY DEF OwnersStep, OwnersInv, ReadInv
  <2>4. at[q] = "bikes" => HasName(arg[q].token, arg[q].name) \/ Rivalled(q)
    BY DEF OwnersStep, OwnersInv, ReadInv
  <2>5. arg' = arg /\ found'[q] = found[q] /\ at'[q] = at[q]
    BY StepFacts
  <2>6. HasName(arg[q].token, found[q]) => HasName(arg[q].token, found[q])'
    BY <2>5 DEF HasName, RowsOf
  <2>7. HasName(arg[q].token, arg[q].name) => HasName(arg[q].token, arg[q].name)'
    BY <2>5 DEF HasName, RowsOf
  <2> QED
    BY <2>1, <2>3, <2>4, <2>5, <2>6, <2>7
<1> QED
  BY <1>1, <1>2, SeveralStaySame

(* A statement that only reads leaves the excuses that there were.         *)
LEMMA ReadingKeeps ==
  ASSUME NEW r, OwnersStep(r), user' = user, bike' = bike, ReadStays(r),
         at[r] = "bikes" => ret'[r] = -5,
         at'[r] \in {"free", "newbike"} =>
           (at[r] = "free" /\ found'[r] = found[r]) \/ BindExcuse(r)'
  PROVE  BindingInv' /\ BikesHaveOwners'
<1>1. \A b \in bike' : b.by \in Request => at'[b.by] = "done"
  BY StepFacts DEF OwnersStep, OwnersInv, BindingInv
<1>2. ASSUME NEW q \in Request, at'[q] \in {"free", "newbike"}
      PROVE  BindExcuse(q)'
  <2>1. BindExcuse(q)' \/ (at[q] \in {"free", "newbike"} /\ found'[q] = found[q])
    BY <1>2, StepFacts
  <2>2. ASSUME at[q] \in {"free", "newbike"}, found'[q] = found[q]
        PROVE  BindExcuse(q)'
    <3>1. BindExcuse(q)
      BY <2>2 DEF OwnersStep, OwnersInv, BindingInv, BindExcuse
    <3>2. CASE arg[q].name \in Names
      BY <3>2, StepFacts DEF BindExcuse, Names
    <3>3. CASE arg[q].name \notin Names
      BY <2>2, <3>1, <3>3, SameUsers, BindExcuseStays DEF OwnersStep
    <3> QED
      BY <3>2, <3>3
  <2> QED
    BY <2>1, <2>2
<1>3. ASSUME NEW b \in bike, b.name \notin Names
      PROVE  Excuse(b)'
  <2>1. Excuse(b)
    BY <1>3 DEF OwnersStep, OwnersInv, BikesHaveOwners, Excuse
  <2> QED
    BY <2>1, SameUsers, ExcuseStays DEF OwnersStep, OwnersInv
<1>4. BindingInv'
  BY <1>1, <1>2 DEF BindingInv, BindExcuse
<1>5. BikesHaveOwners'
  BY <1>3 DEF BikesHaveOwners, Excuse, Names
<1> QED
  BY <1>4, <1>5

LEMMA OwnersRead ==
  ASSUME NEW r, OwnersStep(r), Unread(r) \/ NameRead(r) \/ OtherRead(r)
  PROVE  OwnersInv'
<1>1. user' = user /\ bike' = bike
  BY DEF Unread, NameRead, OtherRead
<1>2. ReadStays(r)
  <2>1. at[r] = "old" => arg[r].kind = "change"
    BY StepFacts DEF KindAt
  <2>2. at[r] = "old" => found[r] = None
    BY <2>1, StepFacts DEF OwnersStep, OwnersInv, ReadInv
  <2> QED
    BY <2>2 DEF ReadStays, Unread, NameRead, OtherRead
<1>3. at[r] = "bikes" => ret'[r] = -5
  BY StepFacts DEF Unread, NameRead, OtherRead, KindAt
<1>4. at'[r] \in {"free", "newbike"} =>
        (at[r] = "free" /\ found'[r] = found[r]) \/ BindExcuse(r)'
  BY <1>1, StepFacts DEF Unread, NameRead, OtherRead, BindExcuse, Names
<1>5. ReadInv'
  <2>1. /\ at'[r] # "bikes"
        /\ at'[r] = "rename" => NameRead(r)
    BY DEF Unread, NameRead, OtherRead
  <2>2. NameRead(r) => HasName(arg[r].token, found[r])'
    BY <1>1, StepFacts DEF NameRead, HasName, RowsOf
  <2>3. arg[r].kind = "change" /\ found'[r] # None => at'[r] \in {"rename", "bikes", "use", "done"}
    BY StepFacts DEF Unread, NameRead, OtherRead, OwnersStep, OwnersInv, ReadInv
  <2>4. \A q \in Request : arg'[q].kind = "change" /\ found'[q] # None =>
          at'[q] \in {"rename", "bikes", "use", "done"}
    BY <2>3, StepFacts DEF OwnersStep, OwnersInv, ReadInv
  <2>5. ASSUME NEW q \in Request
        PROVE  /\ at'[q] = "rename" => HasName(arg[q].token, found[q])' \/ Rivalled(q)'
               /\ at'[q] = "bikes" => HasName(arg[q].token, arg[q].name)' \/ Rivalled(q)'
    BY <1>1, <2>1, <2>2, SameUsers
  <2> QED
    BY <2>4, <2>5 DEF ReadInv
<1> QED
  BY <1>1, <1>2, <1>3, <1>4, <1>5, ReadingKeeps, SameUsers, StepFacts DEF OwnersInv

LEMMA OwnersRegistered ==
  ASSUME NEW r, OwnersStep(r), Registered(r)
  PROVE  OwnersInv'
<1>1. /\ at[r] = "newuser" /\ at'[r] = "done" /\ bike' = bike /\ found' = found
      /\ user' = user \cup {NewUser(r)} /\ NewUser(r).id = r
  BY DEF Registered, NewUser
<1>2. ReadStays(r) /\ IdleInv'
  BY <1>1, StepFacts DEF ReadStays
<1>3. IdsInv'
  <2>1. IsFiniteSet(user')
    BY <1>1, FS_AddElement DEF OwnersStep, OwnersInv, IdsInv
  <2>2. \A u \in user : u.id # r
    BY StepFacts, AccountsAssumption DEF OwnersStep, OwnersInv, IdsInv, Request
  <2>3. \A u, v \in user' : u.id = v.id => u = v
    BY <1>1, <2>2 DEF OwnersStep, OwnersInv, IdsInv
  <2>4. \A u \in user' : u.id \in Name \/ (u.id \in Request /\ at'[u.id] = "done")
    BY <1>1, StepFacts DEF OwnersStep, OwnersInv, IdsInv
  <2> QED
    BY <2>1, <2>3, <2>4 DEF IdsInv
<1>4. \A t : RowsOf(t) \subseteq RowsOf(t)'
  BY <1>1 DEF RowsOf
<1>5. SeveralStay
  <2>1. ASSUME NEW t, Cardinality(RowsOf(t)) > 1
        PROVE  Cardinality(RowsOf(t))' > 1
    <3>1. \E u, v \in RowsOf(t) : u # v
      BY <2>1, SeveralRows DEF OwnersStep, OwnersInv
    <3>2. \E u, v \in RowsOf(t)' : u # v
      BY <1>4, <3>1
    <3>3. IsFiniteSet(RowsOf(t)')
      BY <1>3, FS_Subset DEF IdsInv, RowsOf
    <3> QED
      BY <3>2, <3>3, SeveralMeans
  <2> QED
    BY <2>1 DEF SeveralStay
<1>6. ReadInv'
  <2>1. \A q \in Request : arg'[q].kind = "change" /\ found'[q] # None =>
          at'[q] \in {"rename", "bikes", "use", "done"}
    BY <1>1, StepFacts DEF OwnersStep, OwnersInv, ReadInv
  <2>2. ASSUME NEW q \in Request, at'[q] \in {"rename", "bikes"}
        PROVE  /\ at'[q] = at[q] /\ arg'[q] = arg[q] /\ found'[q] = found[q]
               /\ Rivalled(q) => Rivalled(q)'
               /\ HasName(arg[q].token, found[q]) => HasName(arg[q].token, found[q])'
               /\ HasName(arg[q].token, arg[q].name) => HasName(arg[q].token, arg[q].name)'
    <3>1. at'[q] = at[q] /\ arg' = arg /\ met' = met /\ found'[q] = found[q]
      BY <1>1, <2>2, StepFacts
    <3>2. Rivalled(q) => Rivalled(q)'
      BY <3>1 DEF Rivalled, Met
    <3> QED
      BY <1>1, <3>1, <3>2 DEF HasName, RowsOf
  <2>3. ASSUME NEW q \in Request
        PROVE  /\ at'[q] = "rename" => HasName(arg[q].token, found[q])' \/ Rivalled(q)'
               /\ at'[q] = "bikes" => HasName(arg[q].token, arg[q].name)' \/ Rivalled(q)'
    BY <2>2 DEF OwnersStep, OwnersInv, ReadInv
  <2> QED
    BY <2>1, <2>3 DEF ReadInv
<1>7. Names \subseteq Names'
  BY <1>1 DEF Names
<1>8. BindingInv'
  <2>1. \A b \in bike' : b.by \in Request => at'[b.by] = "done"
    BY <1>1, StepFacts DEF OwnersStep, OwnersInv, BindingInv
  <2>2. ASSUME NEW q \in Request, at'[q] \in {"free", "newbike"}
        PROVE  BindExcuse(q)'
    <3>1. at[q] \in {"free", "newbike"} /\ arg' = arg
      BY <1>1, <2>2, StepFacts
    <3>2. BindExcuse(q)
      BY <3>1 DEF OwnersStep, OwnersInv, BindingInv, BindExcuse
    <3>3. CASE arg[q].name \in Names
      BY <1>7, <3>1, <3>3 DEF BindExcuse
    <3>4. CASE arg[q].name \notin Names
      BY <1>1, <1>2, <1>5, <3>1, <3>2, <3>4, BindExcuseStays DEF OwnersStep
    <3> QED
      BY <3>3, <3>4
  <2> QED
    BY <2>1, <2>2 DEF BindingInv, BindExcuse
<1>9. BikesHaveOwners'
  <2>1. ASSUME NEW b \in bike, b.name \notin Names
        PROVE  Excuse(b)'
    <3>1. Excuse(b)
      BY <2>1 DEF OwnersStep, OwnersInv, BikesHaveOwners, Excuse
    <3> QED
      BY <1>1, <1>2, <1>5, <3>1, ExcuseStays DEF OwnersStep, OwnersInv
  <2> QED
    BY <1>1, <1>7, <2>1 DEF BikesHaveOwners, Excuse
<1> QED
  BY <1>2, <1>3, <1>6, <1>8, <1>9 DEF OwnersInv

LEMMA OwnersBikes ==
  ASSUME NEW r, OwnersStep(r), BikesMoved(r) \/ BikeBound(r)
  PROVE  OwnersInv'
<1>1. user' = user /\ found' = found /\ at[r] \in {"bikes", "newbike"}
      /\ at'[r] \in {"use", "done"}
  BY DEF BikesMoved, BikeBound
<1>2. /\ SeveralStay /\ ReadStays(r) /\ IdsInv' /\ IdleInv' /\ Names' = Names
      /\ Moves(r) /\ Alone(r) /\ TypeInv /\ Returned /\ BindingInv /\ arg' = arg
  BY <1>1, SameUsers, StepFacts DEF ReadStays, Names, OwnersStep, OwnersInv
<1>3. ReadInv'
  <2>1. at[r] = "bikes" => at'[r] = "use"
    BY DEF BikesMoved, BikeBound
  <2>2. at[r] = "newbike" => arg[r].kind # "change"
    BY StepFacts DEF KindAt
  <2>3. \A q \in Request : arg'[q].kind = "change" /\ found'[q] # None =>
          at'[q] \in {"rename", "bikes", "use", "done"}
    BY <1>1, <2>1, <2>2, StepFacts DEF OwnersStep, OwnersInv, ReadInv
  <2>4. ASSUME NEW q \in Request
        PROVE  /\ at'[q] = "rename" => HasName(arg[q].token, found[q])' \/ Rivalled(q)'
               /\ at'[q] = "bikes" => HasName(arg[q].token, arg[q].name)' \/ Rivalled(q)'
    BY <1>1, SameUsers
  <2> QED
    BY <2>3, <2>4 DEF ReadInv
<1>4. BindingInv'
  <2>1. ASSUME NEW b \in bike', b.by \in Request
        PROVE  at'[b.by] = "done"
    <3>1. (b.by = r /\ at'[r] = "done") \/ \E c \in bike : b.by = c.by
      <4>1. CASE BikesMoved(r)
        <5>1. PICK c \in bike : b = IF c.name = found[r] THEN Moved(c, r) ELSE c
          BY <4>1 DEF BikesMoved
        <5> QED
          BY <1>2, <5>1, StepFacts, MovedRow DEF TypeInv
      <4>2. CASE BikeBound(r)
        BY <4>2 DEF BikeBound, NewBike
      <4> QED
        BY <4>1, <4>2
    <3> QED
      BY <2>1, <3>1, StepFacts DEF OwnersStep, OwnersInv, BindingInv
  <2>2. ASSUME NEW q \in Request, at'[q] \in {"free", "newbike"}
        PROVE  BindExcuse(q)'
    <3>1. at[q] \in {"free", "newbike"}
      BY <1>1, <2>2, StepFacts
    <3>2. BindExcuse(q)
      BY <1>2, <3>1 DEF BindingInv, BindExcuse
    <3>3. CASE arg[q].name \in Names
      BY <1>2, <3>3 DEF BindExcuse
    <3>4. CASE arg[q].name \notin Names
      BY <1>1, <1>2, <3>1, <3>2, <3>4, StepFacts, BindExcuseStays
    <3> QED
      BY <3>3, <3>4
  <2> QED
    BY <2>1, <2>2 DEF BindingInv, BindExcuse
<1>5. ASSUME NEW b \in bike, b.name \notin Names, at[r] = "bikes" => found[r] # b.name
      PROVE  Excuse(b)'
  <2>1. Excuse(b)
    BY <1>5 DEF OwnersStep, OwnersInv, BikesHaveOwners, Excuse
  <2> QED
    BY <1>2, <1>5, <2>1, StepFacts, ExcuseStays
<1>6. CASE BikesMoved(r)
  <2>1. arg[r].kind = "change" /\ at[r] = "bikes" /\ at'[r] = "use"
    BY <1>6, StepFacts DEF BikesMoved, KindAt
  <2>2. arg[r].name \in Names \/ Rivalled(r)'
    <3>1. HasName(arg[r].token, arg[r].name) \/ Rivalled(r)
      BY <2>1, StepFacts DEF OwnersStep, OwnersInv, ReadInv
    <3>2. Rivalled(r) => Rivalled(r)'
      BY StepFacts DEF Rivalled, Met
    <3> QED
      BY <3>1, <3>2 DEF HasName, RowsOf, Names
  <2>3. ASSUME NEW b \in bike', b.name \notin Names
        PROVE  Excuse(b)'
    <3>1. PICK c \in bike : b = IF c.name = found[r] THEN Moved(c, r) ELSE c
      BY <1>6 DEF BikesMoved
    <3>2. CASE c.name = found[r]
      <4>1. b.name = arg[r].name
        BY <3>1, <3>2 DEF Moved, TypeInv, TypeOK, OwnersStep
      <4>2. Rivalled(r)'
        BY <2>2, <2>3, <4>1
      <4>3. LeftBehind(b, r)'
        BY <1>2, <2>1, <4>2 DEF LeftBehind, Rivalled
      <4> QED
        BY <4>3, StepFacts DEF Excuse
    <3>3. CASE c.name # found[r]
      BY <1>5, <2>3, <3>1, <3>3
    <3> QED
      BY <3>2, <3>3
  <2> QED
    BY <1>2, <1>3, <1>4, <2>3 DEF OwnersInv, BikesHaveOwners, Excuse
<1>7. CASE BikeBound(r)
  <2>1. NewBike(r).name = arg[r].name /\ NewBike(r).by = r /\ at[r] = "newbike"
    BY <1>7 DEF NewBike, BikeBound
  <2>2. ASSUME arg[r].name \notin Names
        PROVE  Excuse(NewBike(r))'
    <3>1. BindExcuse(r)
      BY <1>2, <2>1, StepFacts DEF BindingInv, BindExcuse
    <3>2. BindExcuse(r)'
      BY <1>1, <1>2, <2>1, <2>2, <3>1, StepFacts, BindExcuseStays
    <3>3. CASE found'[r] = None
      BY <1>2, <2>1, <3>3, StepFacts DEF Excuse, NewBike
    <3>4. ASSUME NEW q \in Request, TakenAway(arg[r].name, r, q)'
          PROVE  Excuse(NewBike(r))'
      <4>1. LeftBehind(NewBike(r), q)'
        BY <1>2, <2>1, <3>4 DEF LeftBehind, TakenAway, Rivalled, NewBike
      <4> QED
        BY <4>1 DEF Excuse
    <3> QED
      BY <1>2, <2>2, <3>2, <3>3, <3>4 DEF BindExcuse
  <2>3. ASSUME NEW b \in bike', b.name \notin Names
        PROVE  Excuse(b)'
    <3>1. CASE b \in bike
      BY <1>5, <2>1, <2>3, <3>1
    <3>2. CASE b = NewBike(r)
      <4>1. Excuse(NewBike(r))'
        BY <2>1, <2>2, <2>3, <3>2
      <4>2. NewBike(r)' = NewBike(r)
        BY <1>2 DEF NewBike
      <4> QED
        BY <3>2, <4>1, <4>2
    <3> QED
      BY <1>7, <3>1, <3>2 DEF BikeBound
  <2> QED
    BY <1>2, <1>3, <1>4, <2>3 DEF OwnersInv, BikesHaveOwners, Excuse
<1> QED
  BY <1>6, <1>7

LEMMA OwnersRenamed ==
  ASSUME NEW r, OwnersStep(r), AccountRenamed(r)
  PROVE  OwnersInv'
<1> DEFINE t == arg[r].token
           New(u) == IF u.token = t THEN Renamed(u, r) ELSE u
<1>1. /\ at[r] = "rename" /\ at'[r] = "bikes" /\ bike' = bike /\ found' = found
      /\ user' = {New(u) : u \in user} /\ arg' = arg /\ met' = met
      /\ r \in Request /\ arg[r].kind = "change" /\ arg[r].name \in Name
  <2>1. arg[r].kind = "change" /\ at[r] = "rename" /\ arg' = arg /\ met' = met /\ r \in Request
    BY StepFacts DEF AccountRenamed, KindAt
  <2>2. arg[r].name \in Name
    BY <2>1, ArgTypes DEF OwnersStep, TypeInv, TypeOK
  <2> QED
    BY <2>1, <2>2 DEF AccountRenamed
<1>2. /\ IsFiniteSet(user)
      /\ \A u, v \in user : u.id = v.id => u = v
      /\ \A u \in user : u.id \in Name \/ (u.id \in Request /\ at[u.id] = "done")
  BY DEF OwnersStep, OwnersInv, IdsInv
<1>3. ASSUME NEW u \in user
      PROVE  /\ New(u).id = u.id /\ New(u).token = u.token
             /\ New(u).name = IF u.token = t THEN arg[r].name ELSE u.name
  BY DEF Renamed, OwnersStep, TypeInv, TypeOK
<1> HIDE DEF New
<1>4. IdsInv'
  <2>1. IsFiniteSet(user')
    <3> DEFINE f == [u \in user |-> New(u)]
    <3>1. f \in Surjection(user, user')
      BY <1>1 DEF Surjection
    <3> HIDE DEF f
    <3> QED
      BY <1>2, <3>1, FS_Surjection
  <2>2. \A u, v \in user' : u.id = v.id => u = v
    BY <1>1, <1>2, <1>3
  <2>3. \A u \in user' : u.id \in Name \/ (u.id \in Request /\ at'[u.id] = "done")
    BY <1>1, <1>2, <1>3, StepFacts
  <2> QED
    BY <2>1, <2>2, <2>3 DEF IdsInv
<1>5. ASSUME NEW s, NEW u \in RowsOf(s)
      PROVE  New(u) \in RowsOf(s)'
  BY <1>1, <1>3 DEF RowsOf
<1>6. ASSUME NEW s, \E u, v \in RowsOf(s) : u # v
      PROVE  Cardinality(RowsOf(s))' > 1
  <2>1. PICK u, v \in RowsOf(s) : u # v
    BY <1>6
  <2>2. New(u) # New(v)
    BY <1>2, <1>3, <2>1 DEF RowsOf
  <2>3. \E x, y \in RowsOf(s)' : x # y
    BY <1>5, <2>1, <2>2
  <2>4. IsFiniteSet(RowsOf(s)')
    BY <1>4, FS_Subset DEF IdsInv, RowsOf
  <2> QED
    BY <2>3, <2>4, SeveralMeans
<1>7. SeveralStay
  BY <1>6, SeveralRows DEF SeveralStay, OwnersStep, OwnersInv
(* The name an account has lost was the one read, or there are several.    *)
<1>8. ASSUME NEW n, n \in Names, n \notin Names'
      PROVE  found[r] = n \/ Cardinality(RowsOf(t))' > 1 \/ Rivalled(r)'
  <2>1. PICK u \in user : u.name = n
    BY <1>8 DEF Names
  <2>2. New(u) \in user'
    BY <1>1
  <2>3. u \in RowsOf(t)
    BY <1>3, <1>8, <2>1, <2>2 DEF Names, RowsOf
  <2>4. HasName(t, found[r]) \/ Rivalled(r)
    BY <1>1 DEF OwnersStep, OwnersInv, ReadInv
  <2>5. CASE Rivalled(r)
    BY <1>1, <2>5 DEF Rivalled, Met
  <2>6. CASE HasName(t, found[r])
    <3>1. PICK v \in RowsOf(t) : v.name = found[r]
      BY <2>6 DEF HasName
    <3>2. CASE v = u
      BY <2>1, <3>1, <3>2
    <3>3. CASE v # u
      <4>1. PICK s : s = t
        OBVIOUS
      <4>2. Cardinality(RowsOf(s))' > 1
        BY <1>6, <2>3, <3>1, <3>3, <4>1
      <4> QED
        BY <1>1, <4>1, <4>2
    <3> QED
      BY <3>2, <3>3
  <2> QED
    BY <2>4, <2>5, <2>6
<1>9. ReadStays(r) /\ IdleInv' /\ Moves(r) /\ Alone(r) /\ TypeInv /\ Returned /\ BindingInv
  BY <1>1, StepFacts DEF ReadStays, OwnersStep, OwnersInv
<1>10. ReadInv'
  <2>1. \A q \in Request : arg'[q].kind = "change" /\ found'[q] # None =>
          at'[q] \in {"rename", "bikes", "use", "done"}
    BY <1>1, StepFacts DEF OwnersStep, OwnersInv, ReadInv
  <2>2. ASSUME NEW q \in Request \ {r}, NEW n, at[q] \in {"rename", "bikes"},
               HasName(arg[q].token, n)
        PROVE  HasName(arg[q].token, n)' \/ Rivalled(q)'
    <3>1. PICK u \in RowsOf(arg[q].token) : u.name = n
      BY <2>2 DEF HasName
    <3>2. CASE arg[q].token = t
      <4>1. q \in UnderWay /\ r \in UnderWay
        BY <2>2 DEF UnderWay, Begun, OwnersStep
      <4>2. Met(q, r)
        BY <4>1, TogetherMeans DEF OwnersStep
      <4> QED
        BY <1>1, <3>2, <4>2 DEF Rivalled, Met
    <3>3. CASE arg[q].token # t
      BY <1>1, <1>3, <3>1, <3>3 DEF HasName, RowsOf
    <3> QED
      BY <3>2, <3>3
  <2>3. ASSUME NEW q \in Request
        PROVE  /\ at'[q] = "rename" => HasName(arg[q].token, found[q])' \/ Rivalled(q)'
               /\ at'[q] = "bikes" => HasName(arg[q].token, arg[q].name)' \/ Rivalled(q)'
    <3>1. Rivalled(q) => Rivalled(q)'
      BY <1>1 DEF Rivalled, Met
    <3>2. CASE q = r
      <4>1. HasName(t, found[r]) => HasName(arg[r].token, arg[r].name)'
        <5>1. ASSUME NEW u \in RowsOf(t)
              PROVE  HasName(arg[r].token, arg[r].name)'
          BY <1>1, <1>3 DEF HasName, RowsOf
        <5> QED
          BY <5>1 DEF HasName
      <4> QED
        BY <1>1, <3>1, <3>2, <4>1 DEF OwnersStep, OwnersInv, ReadInv
    <3>3. CASE q # r
      <4>1. at'[q] = at[q] /\ found'[q] = found[q] /\ arg'[q] = arg[q]
        BY <1>1, <3>3, StepFacts
      <4>2. PICK n, m : n = found[q] /\ m = arg[q].name
        OBVIOUS
      <4>3. /\ at[q] = "rename" => HasName(arg[q].token, n) \/ Rivalled(q)
            /\ at[q] = "bikes" => HasName(arg[q].token, m) \/ Rivalled(q)
        BY <4>2 DEF OwnersStep, OwnersInv, ReadInv
      <4>4. /\ at[q] = "rename" => HasName(arg[q].token, n)' \/ Rivalled(q)'
            /\ at[q] = "bikes" => HasName(arg[q].token, m)' \/ Rivalled(q)'
        BY <2>2, <3>1, <3>3, <4>3
      <4> QED
        BY <4>1, <4>2, <4>4
    <3> QED
      BY <3>2, <3>3
  <2> QED
    BY <2>1, <2>3 DEF ReadInv
<1>11. BindingInv'
  <2>1. \A b \in bike' : b.by \in Request => at'[b.by] = "done"
    BY <1>1, StepFacts DEF OwnersStep, OwnersInv, BindingInv
  <2>2. ASSUME NEW q \in Request, at'[q] \in {"free", "newbike"}
        PROVE  BindExcuse(q)'
    <3>1. at[q] \in {"free", "newbike"} /\ q # r
      BY <1>1, <2>2, StepFacts
    <3>2. BindExcuse(q)
      BY <1>9, <3>1 DEF BindingInv, BindExcuse
    <3>3. CASE arg[q].name \notin Names
      BY <1>1, <1>7, <1>9, <3>1, <3>2, <3>3, BindExcuseStays
    <3>4. CASE arg[q].name \in Names /\ arg[q].name \in Names'
      BY <1>1, <3>4 DEF BindExcuse
    <3>5. CASE arg[q].name \in Names /\ arg[q].name \notin Names'
      <4>1. Met(r, q)
        <5>1. q \in UnderWay /\ r \in UnderWay
          BY <3>1 DEF UnderWay, Begun, OwnersStep
        <5> QED
          BY <3>1, <5>1, TogetherMeans DEF OwnersStep
      <4>2. found[r] = arg[q].name \/ Cardinality(RowsOf(t))' > 1 \/ Rivalled(r)'
        BY <1>8, <3>5
      <4>3. TakenAway(arg[q].name, q, r)'
        BY <1>1, <4>1, <4>2 DEF TakenAway, Met
      <4> QED
        BY <1>1, <4>3 DEF BindExcuse
    <3> QED
      BY <3>3, <3>4, <3>5
  <2> QED
    BY <2>1, <2>2 DEF BindingInv, BindExcuse
<1>12. BikesHaveOwners'
  <2>1. ASSUME NEW b \in bike, b.name \notin Names'
        PROVE  Excuse(b)'
    <3>1. CASE b.name \notin Names
      <4>1. Excuse(b)
        BY <3>1 DEF OwnersStep, OwnersInv, BikesHaveOwners, Excuse
      <4> QED
        BY <1>1, <1>7, <1>9, <4>1, ExcuseStays
    <3>2. CASE b.name \in Names
      <4>1. found[r] = b.name \/ Cardinality(RowsOf(t))' > 1 \/ Rivalled(r)'
        BY <1>8, <2>1, <3>2
      <4>2. LeftBehind(b, r)'
        BY <1>1, <4>1 DEF LeftBehind, Rivalled
      <4> QED
        BY <1>1, <4>2 DEF Excuse
    <3> QED
      BY <3>1, <3>2
  <2> QED
    BY <1>1, <2>1 DEF BikesHaveOwners, Excuse
<1> QED
  BY <1>4, <1>9, <1>10, <1>11, <1>12 DEF OwnersInv

LEMMA OwnersBegin ==
  ASSUME TypeInv, OrderInv, Returned, OwnersInv, NEW r \in Request, NEW a \in Args,
         Begin(r, a)
  PROVE  OwnersInv'
<1>1. /\ user' = user /\ bike' = bike /\ found' = found /\ ret' = ret /\ met \subseteq met'
      /\ \A q \in Request \ {r} : at'[q] = at[q] /\ arg'[q] = arg[q]
      /\ at[r] = "idle" /\ at'[r] = First(a)
  BY BeginFresh DEF Begun
<1>2. at'[r] \in {"name", "valid", "card", "code", "user"}
  BY <1>1 DEF First, Args
<1>3. arg[r].kind = "none" /\ found[r] = None
  BY <1>1 DEF OwnersInv, IdleInv, NoArg
<1>4. ASSUME NEW q \in Request, arg[q].kind = "change"
      PROVE  /\ q # r /\ arg'[q] = arg[q] /\ at'[q] = at[q]
             /\ Rivalled(q) => Rivalled(q)'
  <2>1. \A p \in Request : arg[p].kind = "change" => arg'[p] = arg[p] /\ p # r
    BY <1>1, <1>3
  <2> QED
    BY <1>1, <1>4, <2>1 DEF Rivalled, Met
<1>5. IdsInv' /\ IdleInv'
  <2>1. IdsInv'
    BY <1>1 DEF OwnersInv, IdsInv
  <2>2. IdleInv'
    BY <1>1, <1>2 DEF OwnersInv, IdleInv
  <2> QED
    BY <2>1, <2>2
<1>6. ASSUME NEW n, NEW w, NEW q \in Request, TakenAway(n, w, q)
      PROVE  TakenAway(n, w, q)'
  BY <1>1, <1>4, <1>6 DEF TakenAway, Met, RowsOf
<1>7. ReadInv'
  <2>1. \A q \in Request : arg'[q].kind = "change" /\ found'[q] # None =>
          at'[q] \in {"rename", "bikes", "use", "done"}
    BY <1>1, <1>3 DEF OwnersInv, ReadInv
  <2>2. ASSUME NEW q \in Request, at'[q] \in {"rename", "bikes"}
        PROVE  /\ at[q] = at'[q] /\ arg'[q] = arg[q] /\ arg[q].kind = "change"
    BY <1>1, <1>2, <2>2 DEF TypeInv, KindAt
  <2>3. ASSUME NEW q \in Request
        PROVE  /\ at'[q] = "rename" => HasName(arg[q].token, found[q])' \/ Rivalled(q)'
               /\ at'[q] = "bikes" => HasName(arg[q].token, arg[q].name)' \/ Rivalled(q)'
    BY <1>1, <1>4, <2>2 DEF OwnersInv, ReadInv, HasName, RowsOf
  <2> QED
    BY <2>1, <2>3 DEF ReadInv
<1>8. BindingInv'
  <2>1. \A b \in bike' : b.by \in Request => at'[b.by] = "done"
    BY <1>1 DEF OwnersInv, BindingInv
  <2>2. ASSUME NEW q \in Request, at'[q] \in {"free", "newbike"}
        PROVE  BindExcuse(q)'
    <3>1. at[q] \in {"free", "newbike"} /\ arg'[q] = arg[q]
      BY <1>1, <1>2, <2>2
    <3>2. BindExcuse(q)
      BY <3>1 DEF OwnersInv, BindingInv, BindExcuse
    <3>3. PICK n : n = arg[q].name
      OBVIOUS
    <3>4. \A p \in Request : TakenAway(n, q, p) => TakenAway(n, q, p)'
      BY <1>6
    <3> QED
      BY <1>1, <3>1, <3>2, <3>3, <3>4 DEF BindExcuse, Names
  <2> QED
    BY <2>1, <2>2 DEF BindingInv, BindExcuse
<1>9. BikesHaveOwners'
  <2>1. ASSUME NEW b \in bike, b.name \notin Names
        PROVE  Excuse(b)'
    <3>1. Excuse(b)
      BY <2>1 DEF OwnersInv, BikesHaveOwners, Excuse
    <3>2. ASSUME NEW q \in Request, LeftBehind(b, q)
          PROVE  LeftBehind(b, q)'
      <4>1. CASE TakenAway(b.name, b.by, q)
        <5>1. TakenAway(b.name, b.by, q)'
          BY <1>6, <4>1
        <5> QED
          BY <5>1 DEF LeftBehind, TakenAway, Rivalled
      <4>2. CASE /\ arg[q].kind = "change" /\ found[q] = b.name
                 /\ at[q] = "bikes" \/ ret[q] = -5
        BY <1>1, <1>4, <4>2 DEF LeftBehind
      <4> QED
        BY <3>2, <4>1, <4>2, LeftBehindMeans
    <3> QED
      BY <1>1, <3>1, <3>2 DEF Excuse
  <2> QED
    BY <1>1, <2>1 DEF BikesHaveOwners, Excuse, Names
<1> QED
  BY <1>5, <1>7, <1>8, <1>9 DEF OwnersInv

LEMMA OwnersInit == Init => OwnersInv
<1> SUFFICES ASSUME Init PROVE OwnersInv
  OBVIOUS
<1>1. IdsInv
  BY DEF Init, IdsInv
<1>2. ReadInv /\ BindingInv /\ IdleInv
  BY AccountsAssumption DEF Init, ReadInv, BindingInv, IdleInv, Request, Before
<1>3. BikesHaveOwners
  BY DEF Init, BikesHaveOwners
<1> QED
  BY <1>1, <1>2, <1>3 DEF OwnersInv

LEMMA OwnersInductive ==
  TypeInv /\ TypeInv' /\ OrderInv /\ Returned /\ OwnersInv /\ [Next]_vars => OwnersInv'
<1> SUFFICES ASSUME TypeInv, TypeInv', OrderInv, Returned, OwnersInv, [Next]_vars
             PROVE  OwnersInv'
  OBVIOUS
<1>1. ASSUME NEW r \in Request, Statement(r) PROVE OwnersInv'
  <2>1. OwnersStep(r)
    BY <1>1, StatementMoves, BegunByMoves, ReturnedStatement DEF OwnersStep
  <2> QED
    BY <1>1, <2>1, OwnerSorts, OwnersRead, OwnersRegistered, OwnersRenamed, OwnersBikes
<1>2. CASE UNCHANGED vars
  <2>1. /\ user' = user /\ bike' = bike /\ found' = found /\ ret' = ret /\ met' = met
        /\ at' = at /\ arg' = arg
    BY <1>2 DEF vars, tables
  <2>2. IdsInv' /\ IdleInv'
    BY <2>1 DEF OwnersInv, IdsInv, IdleInv
  <2>3. ReadInv'
    BY <2>1 DEF OwnersInv, ReadInv, HasName, RowsOf, Rivalled, Met
  <2>4. BindingInv'
    BY <2>1 DEF OwnersInv, BindingInv, TakenAway, Names, RowsOf, Rivalled, Met
  <2>5. BikesHaveOwners'
    BY <2>1 DEF OwnersInv, BikesHaveOwners, LeftBehind, Names, RowsOf, Met
  <2> QED
    BY <2>2, <2>3, <2>4, <2>5 DEF OwnersInv
<1> QED
  BY <1>1, <1>2, OwnersBegin DEF Next

(* A bike without an owner was bound to a name without an account, or a    *)
(* change of account left it behind, in one of the ways LeftBehind lists   *)
(* (TestTask.cpp:5576-5679, 5755-5928), whatever fails.                    *)
THEOREM BikesHaveOwnersAlways == Spec => []BikesHaveOwners
<1>1. OwnersInv => BikesHaveOwners
  BY DEF OwnersInv
<1> QED
  BY <1>1, TypesKept, OrderInit, OrderInductive, ReturnedInit, ReturnedInductive,
     OwnersInit, OwnersInductive, PTL DEF Spec

-----------------------------------------------------------------------------
(* Orderly requests: each row of an account and each bike is one, the      *)
(* requests under way stay apart, and what a request has seen stays true   *)
(* until it has used it.                                                   *)

RowsApart ==
  /\ \A u, v \in user : u.token = v.token \/ u.name = v.name => u = v
  /\ \A b, c \in bike : b.card = c.card => b = c

RequestsApart ==
  \A q, r \in UnderWay : q # r =>
    /\ UsersOf(arg[q]) \cap UsersOf(arg[r]) \subseteq {None}
    /\ arg[q].name # None => arg[q].name \notin {arg[r].name, found[r]}
    /\ arg[q].card # None => arg[q].card # arg[r].card

SeenByUser(r) ==
  /\ arg[r].kind = "register" => RowsOf(arg[r].token) = {}
  /\ at[r] = "newuser" => arg[r].name \notin Names
  /\ arg[r].kind = "change" => \A u \in user : u.name = arg[r].name => u.token = arg[r].token
  /\ at[r] = "rename" => HasName(arg[r].token, found[r])
  /\ at[r] = "bikes" =>
       /\ HasName(arg[r].token, arg[r].name)
       /\ \A u \in user : u.name = found[r] => u.token = arg[r].token
  /\ arg[r].kind = "bind" => arg[r].name \in Names

SeenElsewhere(r) ==
  /\ at[r] \in Served => \E row \in code["forget_code"] : row.token = arg[r].token
  /\ at[r] = "newbike" => \A b \in bike : b.card # arg[r].card

Seen == \A r \in UnderWay : SeenByUser(r) /\ SeenElsewhere(r)

(* A bike is its owner's under the name it has, or is about to be moved.   *)
Owned ==
  \A b \in bike :
    b.name \in Names \/ \E r \in UnderWay : at[r] = "bikes" /\ found[r] = b.name

(* No two changes are about one old name.                                  *)
ReadApart ==
  \A q, r \in UnderWay :
    q # r /\ {at[q], at[r]} \subseteq {"rename", "bikes"} => found[q] # found[r]

Tidy == RowsApart /\ RequestsApart /\ ReadApart /\ Seen /\ Owned
OrderlyInv == orderly => Tidy

OrderlyStep(r) == OwnersStep(r) /\ Statement(r) /\ orderly /\ Tidy

(* What any statement may do to the accounts.                              *)
LEMMA UserMoves ==
  ASSUME NEW r, OrderlyStep(r)
  PROVE  /\ \A u \in user' :
              \/ u \in user
              \/ /\ u.name = arg[r].name /\ u.token = arg[r].token
                 /\ arg[r].kind \in {"register", "change"}
                 /\ arg[r].name \in Name /\ arg[r].token \in Token
         /\ \A u \in user :
              \/ u \in user'
              \/ /\ u.token = arg[r].token /\ arg[r].kind = "change"
                 /\ HasName(arg[r].token, arg[r].name)'
<1>1. /\ TypeInv /\ r \in Request /\ arg' = arg /\ KindAt(r)
      /\ arg[r] \in Args \cup {NoArg} /\ Statement(r)
  BY StepFacts DEF OrderlyStep, OwnersStep, TypeInv, TypeOK
<1>2. CASE NamesKept(r)
  BY <1>2 DEF NamesKept
<1>3. CASE NameGiven(r)
  <2>1. arg[r].kind = "register" /\ arg[r].name \in Name /\ arg[r].token \in Token
    BY <1>1, <1>3, ArgTypes DEF NameGiven, KindAt
  <2> QED
    BY <1>3, <2>1 DEF NameGiven, NewUser
<1>4. CASE NameChanged(r)
  <2>1. arg[r].kind = "change" /\ arg[r].name \in Name /\ arg[r].token \in Token
    BY <1>1, <1>4, ArgTypes DEF NameChanged, KindAt
  <2>2. \A u \in user : Renamed(u, r).name = arg[r].name /\ Renamed(u, r).token = u.token
    BY <1>1 DEF Renamed, TypeInv, TypeOK
  <2>3. user' = {IF u.token = arg[r].token THEN Renamed(u, r) ELSE u : u \in user}
    BY <1>4 DEF NameChanged
  <2>4. \A u \in user' : u \in user \/ \E v \in user : v.token = arg[r].token /\ u = Renamed(v, r)
    BY <2>3
  <2>5. ASSUME NEW u \in user
        PROVE  u \in user' \/ (u.token = arg[r].token /\ Renamed(u, r) \in user')
    BY <2>3
  <2>6. \A u \in user : u \in user' \/ (u.token = arg[r].token /\ HasName(arg[r].token, arg[r].name)')
    BY <1>1, <2>2, <2>5 DEF HasName, RowsOf
  <2> QED
    BY <2>1, <2>2, <2>4, <2>6
<1> QED
  BY <1>1, <1>2, <1>3, <1>4, UserSorts

(* Requests under way are apart, before a step and after it.               *)
LEMMA ApartMeans ==
  ASSUME RequestsApart, NEW q \in UnderWay, NEW r \in UnderWay, q # r
  PROVE  /\ \A t \in Token : ~(t \in UsersOf(arg[q]) /\ t \in UsersOf(arg[r]))
         /\ arg[q].token \in Token => arg[q].token # arg[r].token
         /\ arg[q].name \in Name => arg[q].name # arg[r].name /\ arg[q].name # found[r]
         /\ arg[q].card \in Card /\ arg[q].card # None => arg[q].card # arg[r].card
<1>1. arg[q].token \in UsersOf(arg[q]) /\ arg[r].token \in UsersOf(arg[r])
  BY DEF UsersOf
<1>2. UsersOf(arg[q]) \cap UsersOf(arg[r]) \subseteq {None}
  BY DEF RequestsApart
<1>3. \A t \in Token : t # None
  BY AccountsAssumption
<1>4. \A n \in Name : n # None
  BY AccountsAssumption
<1> QED
  BY <1>1, <1>2, <1>3, <1>4 DEF RequestsApart

LEMMA UsersShrink ==
  ASSUME NEW r, OrderlyStep(r), NEW q \in UnderWay'
  PROVE  q \in UnderWay /\ UsersOf(arg[q])' \subseteq UsersOf(arg[q])
<1>1. q \in UnderWay /\ r \in UnderWay /\ arg' = arg /\ RequestsApart
  BY StepFacts, BegunByMoves DEF OrderlyStep, OwnersStep, Tidy
<1>2. ASSUME NEW u \in user', u.name = arg[q].name
      PROVE  u.token \in UsersOf(arg[q])
  <2>1. CASE u \in user
    BY <1>2, <2>1 DEF UsersOf
  <2>2. CASE u.name = arg[r].name /\ u.token = arg[r].token /\ arg[r].name \in Name
    <3>1. q = r
      BY <1>1, <1>2, <2>2, ApartMeans
    <3> QED
      BY <2>2, <3>1 DEF UsersOf
  <2> QED
    BY <2>1, <2>2, UserMoves
<1> QED
  BY <1>1, <1>2 DEF UsersOf

LEMMA FoundMoves ==
  ASSUME NEW r, OrderlyStep(r)
  PROVE  \/ found'[r] \in {found[r], None, arg[r].name}
         \/ HasName(arg[r].token, found'[r])
<1>1. TypeInv /\ r \in Request /\ Statement(r)
  BY StepFacts DEF OrderlyStep, OwnersStep
<1> QED
  BY <1>1, OwnerSorts
     DEF Unread, NameRead, OtherRead, Registered, AccountRenamed, BikesMoved, BikeBound

LEMMA ApartStatement ==
  ASSUME NEW r, OrderlyStep(r)
  PROVE  RequestsApart'
<1>1. /\ r \in UnderWay /\ arg' = arg /\ RequestsApart /\ TypeOK
      /\ \A q \in Request \ {r} : found'[q] = found[q]
  BY StepFacts DEF OrderlyStep, OwnersStep, Tidy, TypeInv
<1>2. ASSUME NEW q \in UnderWay', NEW p \in UnderWay', q # p
      PROVE  /\ UsersOf(arg[q])' \cap UsersOf(arg[p])' \subseteq {None}
             /\ arg[q].name # None => arg[q].name \notin {arg[p].name, found'[p]}
             /\ arg[q].card # None => arg[q].card # arg[p].card
  <2>1. q \in UnderWay /\ p \in UnderWay
    BY UsersShrink
  <2>2. /\ UsersOf(arg[q]) \cap UsersOf(arg[p]) \subseteq {None}
        /\ arg[q].name # None => arg[q].name \notin {arg[p].name, found[p]}
        /\ arg[q].card # None => arg[q].card # arg[p].card
    BY <1>1, <1>2, <2>1 DEF RequestsApart
  <2>3. UsersOf(arg[q])' \cap UsersOf(arg[p])' \subseteq {None}
    BY <2>2, UsersShrink
  <2>4. ASSUME arg[q].name # None, arg[q].name = found'[p]
        PROVE  FALSE
    <3>1. p = r
      BY <1>1, <2>1, <2>2, <2>4 DEF UnderWay, Begun
    <3>2. HasName(arg[r].token, arg[q].name)
      BY <2>2, <2>4, <3>1, FoundMoves
    <3>3. PICK u \in user : u.token = arg[r].token /\ u.name = arg[q].name
      BY <3>2 DEF HasName, RowsOf
    <3>4. u.token \in UsersOf(arg[q]) /\ u.token \in UsersOf(arg[p])
      BY <3>1, <3>3 DEF UsersOf
    <3>5. u.token \in Token
      BY <1>1 DEF TypeOK
    <3> QED
      BY <1>1, <1>2, <2>1, <3>4, <3>5, ApartMeans
  <2> QED
    BY <2>2, <2>3, <2>4
<1> QED
  BY <1>1, <1>2 DEF RequestsApart

LEMMA RowsStatement ==
  ASSUME NEW r, OrderlyStep(r)
  PROVE  RowsApart'
<1>1. /\ r \in UnderWay /\ r \in Request /\ arg' = arg /\ RowsApart /\ Statement(r)
      /\ TypeInv /\ SeenByUser(r) /\ SeenElsewhere(r) /\ KindAt(r)
  BY StepFacts DEF OrderlyStep, OwnersStep, Tidy, Seen
<1>2. ASSUME NEW u \in user', NEW v \in user', u.token = v.token \/ u.name = v.name
      PROVE  u = v
  <2>1. CASE NamesKept(r)
    BY <1>1, <1>2, <2>1 DEF NamesKept, RowsApart
  <2>2. CASE NameGiven(r)
    <3>1. \A w \in user : w.token # arg[r].token /\ w.name # arg[r].name
      BY <1>1, <2>2 DEF NameGiven, KindAt, SeenByUser, RowsOf, Names
    <3> QED
      BY <1>1, <1>2, <2>2, <3>1 DEF NameGiven, NewUser, RowsApart
  <2>3. CASE NameChanged(r)
    <3>1. \A w \in user : Renamed(w, r).name = arg[r].name /\ Renamed(w, r).token = w.token
      BY <1>1 DEF Renamed, TypeInv, TypeOK
    <3>2. PICK x, y \in user :
            /\ u = IF x.token = arg[r].token THEN Renamed(x, r) ELSE x
            /\ v = IF y.token = arg[r].token THEN Renamed(y, r) ELSE y
      BY <2>3 DEF NameChanged
    <3>3. u.token = x.token /\ v.token = y.token
      BY <3>1, <3>2
    <3>4. x = y
      <4>1. \A w \in user : w.name = arg[r].name => w.token = arg[r].token
        BY <1>1, <2>3 DEF NameChanged, KindAt, SeenByUser
      <4>2. x.token = y.token \/ x.name = y.name
        BY <1>2, <3>1, <3>2, <3>3, <4>1
      <4> QED
        BY <1>1, <4>2 DEF RowsApart
    <3> QED
      BY <3>2, <3>4
  <2> QED
    BY <1>1, <2>1, <2>2, <2>3, UserSorts
<1>3. ASSUME NEW b \in bike', NEW c \in bike', b.card = c.card
      PROVE  b = c
  <2>1. CASE BikesKept(r)
    BY <1>1, <1>3, <2>1 DEF BikesKept, RowsApart
  <2>2. CASE CardBound(r)
    <3>1. \A d \in bike : d.card # arg[r].card
      BY <1>1, <2>2 DEF CardBound, SeenElsewhere
    <3> QED
      BY <1>1, <1>3, <2>2, <3>1 DEF CardBound, NewBike, RowsApart
  <2>3. CASE OwnerRenamed(r)
    <3>1. PICK x, y \in bike :
            /\ b = IF x.name = found[r] THEN Moved(x, r) ELSE x
            /\ c = IF y.name = found[r] THEN Moved(y, r) ELSE y
      BY <2>3 DEF OwnerRenamed
    <3>2. x.card = y.card
      BY <1>1, <1>3, <3>1, MovedRow DEF TypeInv
    <3> QED
      BY <1>1, <3>1, <3>2 DEF RowsApart
  <2> QED
    BY <1>1, <2>1, <2>2, <2>3, BikeSorts
<1> QED
  BY <1>2, <1>3 DEF RowsApart

(* What the others have seen stays true.                                   *)
LEMMA SeenOthers ==
  ASSUME NEW r, OrderlyStep(r), NEW q \in UnderWay', q # r
  PROVE  SeenByUser(q)' /\ SeenElsewhere(q)'
<1>1. /\ r \in UnderWay /\ r \in Request /\ q \in UnderWay /\ q \in Request
      /\ arg' = arg /\ RequestsApart /\ Statement(r) /\ TypeInv /\ Returned
      /\ KindAt(q) /\ KindAt(r) /\ SeenByUser(q) /\ SeenElsewhere(q)
      /\ at'[q] = at[q] /\ found'[q] = found[q]
  BY StepFacts, UsersShrink DEF OrderlyStep, OwnersStep, Tidy, Seen, UnderWay, Begun, TypeInv
<1>2. /\ arg[q].kind \in {"register", "change"} => arg[q].name \in Name /\ arg[q].token \in Token
      /\ arg[q].kind = "bind" => arg[q].name \in Name /\ arg[q].card \in Card
      /\ arg[r].kind \in {"register", "change"} => arg[r].name \in Name /\ arg[r].token \in Token
      /\ arg[r].kind = "bind" => arg[r].card \in Card
  BY <1>1, ArgTypes DEF TypeInv, TypeOK
<1>3. /\ arg[q].token \in Token => arg[q].token # arg[r].token
      /\ arg[q].name \in Name => arg[q].name # arg[r].name
      /\ arg[r].name \in Name => arg[r].name # found[q]
  BY <1>1, ApartMeans
<1>4. ASSUME NEW n, HasName(arg[q].token, n), arg[q].token \in Token
      PROVE  HasName(arg[q].token, n)'
  <2>1. PICK u \in user : u.token = arg[q].token /\ u.name = n
    BY <1>4 DEF HasName, RowsOf
  <2>2. u \in user'
    BY <1>3, <1>4, <2>1, UserMoves
  <2> QED
    BY <1>1, <2>1, <2>2 DEF HasName, RowsOf
<1>5. SeenByUser(q)'
  <2>1. ASSUME arg[q].kind = "register" PROVE RowsOf(arg[q].token)' = {}
    BY <1>1, <1>2, <1>3, <2>1, UserMoves DEF SeenByUser, RowsOf
  <2>2. ASSUME at[q] = "newuser" PROVE arg[q].name \notin Names'
    <3>1. arg[q].name \in Name /\ arg[q].name \notin Names
      BY <1>1, <1>2, <2>2 DEF KindAt, SeenByUser
    <3> QED
      BY <1>3, <3>1, UserMoves DEF Names
  <2>3. ASSUME arg[q].kind = "change", NEW u \in user', u.name = arg[q].name
        PROVE  u.token = arg[q].token
    <3>1. u \in user
      BY <1>2, <1>3, <2>3, UserMoves
    <3> QED
      BY <1>1, <2>3, <3>1 DEF SeenByUser
  <2>4. ASSUME at[q] \in {"rename", "bikes"}
        PROVE  arg[q].kind = "change" /\ arg[q].token \in Token
    BY <1>1, <1>2, <2>4 DEF KindAt
  <2>5. ASSUME at[q] = "rename" PROVE HasName(arg[q].token, found[q])'
    <3>1. PICK n : n = found[q]
      OBVIOUS
    <3>2. HasName(arg[q].token, n)
      BY <1>1, <2>5, <3>1 DEF SeenByUser
    <3> QED
      BY <1>1, <1>4, <2>4, <2>5, <3>1, <3>2
  <2>6. ASSUME at[q] = "bikes" PROVE HasName(arg[q].token, arg[q].name)'
    <3>1. PICK n : n = arg[q].name
      OBVIOUS
    <3>2. HasName(arg[q].token, n)
      BY <1>1, <2>6, <3>1 DEF SeenByUser
    <3> QED
      BY <1>1, <1>4, <2>4, <2>6, <3>1, <3>2
  <2>7. ASSUME at[q] = "bikes", NEW u \in user', u.name = found[q]
        PROVE  u.token = arg[q].token
    <3>1. u \in user
      BY <1>2, <1>3, <2>7, UserMoves
    <3> QED
      BY <1>1, <2>7, <3>1 DEF SeenByUser
  <2>8. ASSUME arg[q].kind = "bind" PROVE arg[q].name \in Names'
    <3>1. PICK u \in user : u.name = arg[q].name
      BY <1>1, <2>8 DEF SeenByUser, Names
    <3>2. u.token # arg[r].token
      <4>1. u.token \in UsersOf(arg[q]) /\ arg[r].token \in UsersOf(arg[r])
        BY <3>1 DEF UsersOf
      <4>2. u.token \in Token
        BY <1>1 DEF TypeInv, TypeOK
      <4> QED
        BY <1>1, <4>1, <4>2, ApartMeans
    <3> QED
      BY <3>1, <3>2, UserMoves DEF Names
  <2> QED
    BY <1>1, <2>1, <2>2, <2>3, <2>5, <2>6, <2>7, <2>8 DEF SeenByUser
<1>6. ASSUME at[q] \in Served
      PROVE  \E row \in code'["forget_code"] : row.token = arg[q].token
  <2>1. PICK row \in code["forget_code"] : row.token = arg[q].token
    BY <1>1, <1>6 DEF SeenElsewhere
  <2>2. arg[q].token # arg[r].token
    BY <1>1, <1>2, <1>3, <1>6 DEF KindAt, Served
  <2>3. code \in [CodeTable -> SUBSET [token : Token, by : Request]]
    BY <1>1 DEF TypeInv, TypeOK
  <2>4. row \in code'["forget_code"]
    BY <1>1, <2>1, <2>2, <2>3, CodeSorts
       DEF CodesKept, CodeUsed, CodeReplaced, CodeAdded, CodeTable
  <2> QED
    BY <2>1, <2>4
<1>7. ASSUME at[q] = "newbike", NEW b \in bike'
      PROVE  b.card # arg[q].card
  <2>1. arg[q].kind = "bind" /\ arg[q].card # None
    BY <1>1, <1>2, <1>7, AccountsAssumption DEF KindAt
  <2>2. \A c \in bike : c.card # arg[q].card
    BY <1>1, <1>7 DEF SeenElsewhere
  <2>3. CASE BikesKept(r)
    BY <2>2, <2>3 DEF BikesKept
  <2>4. CASE CardBound(r)
    <3>1. arg[q].card # arg[r].card
      BY <1>1, <1>2, <2>1, ApartMeans
    <3> QED
      BY <2>2, <2>4, <3>1 DEF CardBound, NewBike
  <2>5. CASE OwnerRenamed(r)
    <3>1. \E c \in bike : b.card = c.card
      BY <1>1, <2>5, MovedRow DEF OwnerRenamed, TypeInv
    <3> QED
      BY <2>2, <3>1
  <2> QED
    BY <1>1, <2>3, <2>4, <2>5, BikeSorts
<1>8. SeenElsewhere(q)'
  BY <1>1, <1>6, <1>7 DEF SeenElsewhere
<1> QED
  BY <1>5, <1>8

(* What the request itself has seen.                                       *)
LEMMA SeenSelf ==
  ASSUME NEW r, OrderlyStep(r), r \in UnderWay'
  PROVE  SeenByUser(r)' /\ SeenElsewhere(r)'
<1>1. /\ r \in UnderWay /\ r \in Request /\ at'[r] # "done"
      /\ arg' = arg /\ RowsApart /\ Statement(r) /\ TypeInv /\ Returned
      /\ KindAt(r) /\ KindAt(r)' /\ SeenByUser(r) /\ SeenElsewhere(r)
  BY StepFacts DEF OrderlyStep, OwnersStep, Tidy, Seen, UnderWay
<1>2. arg[r].kind \in {"register", "bind"} => user' = user
  BY <1>1, OwnerSorts
     DEF Unread, NameRead, OtherRead, Registered, AccountRenamed, BikesMoved, BikeBound, KindAt
<1>3. at'[r] = "newuser" => arg[r].name \notin Names'
  BY <1>1, UserSorts DEF NamesKept, NameGiven, NameChanged, Names
<1>4. at'[r] = "rename" => HasName(arg[r].token, found[r])'
  BY <1>1, OwnerSorts
     DEF Unread, NameRead, OtherRead, Registered, AccountRenamed, BikesMoved, BikeBound,
         HasName, RowsOf
<1>5. ASSUME at'[r] = "bikes"
      PROVE  /\ HasName(arg[r].token, arg[r].name)'
             /\ \A u \in user' : u.name = found'[r] => u.token = arg[r].token
  <2>1. AccountRenamed(r)
    BY <1>1, <1>5, OwnerSorts
       DEF Unread, NameRead, OtherRead, Registered, BikesMoved, BikeBound
  <2>2. PICK v \in user : v.token = arg[r].token /\ v.name = found[r]
    BY <1>1, <2>1 DEF AccountRenamed, SeenByUser, HasName, RowsOf
  <2>3. Renamed(v, r) \in user'
    BY <2>1, <2>2 DEF AccountRenamed
  <2>4. Renamed(v, r).name = arg[r].name /\ Renamed(v, r).token = v.token
    BY <1>1 DEF Renamed, TypeInv, TypeOK
  <2>5. HasName(arg[r].token, arg[r].name)'
    BY <1>1, <2>2, <2>3, <2>4 DEF HasName, RowsOf
  <2>6. ASSUME NEW u \in user', u.name = found'[r]
        PROVE  u.token = arg[r].token
    <3>1. found'[r] = found[r]
      BY <2>1 DEF AccountRenamed
    <3>2. CASE u \in user
      BY <1>1, <2>2, <2>6, <3>1, <3>2 DEF RowsApart
    <3> QED
      BY <3>2, UserMoves
  <2> QED
    BY <2>5, <2>6
<1>6. SeenByUser(r)'
  <2>1. arg[r].kind = "register" => RowsOf(arg[r].token)' = {}
    BY <1>1, <1>2 DEF SeenByUser, RowsOf
  <2>2. ASSUME arg[r].kind = "change", NEW u \in user', u.name = arg[r].name
        PROVE  u.token = arg[r].token
    BY <1>1, <2>2, UserMoves DEF SeenByUser
  <2>3. arg[r].kind = "bind" => arg[r].name \in Names'
    BY <1>1, <1>2 DEF SeenByUser, Names
  <2> QED
    BY <1>1, <1>3, <1>4, <1>5, <2>1, <2>2, <2>3 DEF SeenByUser
<1>7. at'[r] \in Served => \E row \in code'["forget_code"] : row.token = arg[r].token
  <2>1. at'[r] \in Served => CodesKept(r)
    BY <1>1, CodeSorts DEF CodeUsed, CodeReplaced, CodeAdded
  <2> QED
    BY <1>1, <2>1 DEF CodesKept, SeenElsewhere
<1>8. at'[r] = "newbike" => \A b \in bike' : b.card # arg[r].card
  BY <1>1, BikeSorts DEF BikesKept, CardBound, OwnerRenamed
<1> QED
  BY <1>1, <1>6, <1>7, <1>8 DEF SeenElsewhere

LEMMA OwnedStatement ==
  ASSUME NEW r, OrderlyStep(r)
  PROVE  Owned'
<1>1. /\ r \in UnderWay /\ r \in Request /\ arg' = arg /\ RowsApart /\ Statement(r)
      /\ TypeInv /\ KindAt(r) /\ SeenByUser(r) /\ Owned /\ orderly
      /\ \A q \in Request \ {r} : at'[q] = at[q] /\ found'[q] = found[q]
  BY StepFacts DEF OrderlyStep, OwnersStep, Tidy, Seen
<1>2. ASSUME NEW b, b.name \in Names, b.name \notin Names'
      PROVE  r \in UnderWay' /\ at'[r] = "bikes" /\ found'[r] = b.name
  <2>1. PICK u \in user : u.name = b.name
    BY <1>2 DEF Names
  <2>2. u \notin user'
    BY <1>2, <2>1 DEF Names
  <2>3. AccountRenamed(r)
    BY <1>1, <2>2, OwnerSorts
       DEF Unread, NameRead, OtherRead, Registered, BikesMoved, BikeBound
  <2>4. u.token = arg[r].token
    BY <2>2, UserMoves
  <2>5. PICK v \in user : v.token = arg[r].token /\ v.name = found[r]
    BY <1>1, <2>3 DEF AccountRenamed, SeenByUser, HasName, RowsOf
  <2>6. found[r] = b.name
    BY <1>1, <2>1, <2>4, <2>5 DEF RowsApart
  <2> QED
    BY <1>1, <2>3, <2>6 DEF AccountRenamed, UnderWay, Begun
<1>3. ASSUME NEW b \in bike, at[r] = "bikes" => found[r] # b.name
      PROVE  b.name \in Names' \/ \E q \in UnderWay' : at'[q] = "bikes" /\ found'[q] = b.name
  <2>1. CASE b.name \in Names
    BY <1>2, <2>1
  <2>2. CASE \E q \in UnderWay : at[q] = "bikes" /\ found[q] = b.name
    <3>1. PICK q \in UnderWay : at[q] = "bikes" /\ found[q] = b.name
      BY <2>2
    <3>2. q # r
      BY <1>3, <3>1
    <3> QED
      BY <1>1, <3>1, <3>2 DEF UnderWay, Begun
  <2> QED
    BY <1>1, <2>1, <2>2 DEF Owned
<1>4. CASE at[r] \notin {"bikes", "newbike"}
  <2>1. bike' = bike
    BY <1>1, <1>4, OwnerSorts
       DEF Unread, NameRead, OtherRead, Registered, AccountRenamed, BikesMoved, BikeBound
  <2> QED
    BY <1>3, <1>4, <2>1 DEF Owned
<1>5. CASE at[r] = "newbike"
  <2>1. user' = user /\ \A b \in bike' : b \in bike \/ b.name = arg[r].name
    BY <1>1, <1>5, OwnerSorts
       DEF Unread, NameRead, OtherRead, Registered, AccountRenamed, BikesMoved, BikeBound,
           NewBike, KindAt
  <2>2. arg[r].name \in Names'
    BY <1>1, <1>5, <2>1 DEF SeenByUser, KindAt, Names
  <2> QED
    BY <1>3, <1>5, <2>1, <2>2 DEF Owned
<1>6. CASE at[r] = "bikes"
  <2>1. BikesMoved(r)
    BY <1>1, <1>6, OwnerSorts
       DEF Unread, NameRead, OtherRead, Registered, AccountRenamed, BikeBound, KindAt
  <2>2. arg[r].name \in Names'
    BY <1>1, <1>6, <2>1 DEF BikesMoved, SeenByUser, HasName, RowsOf, Names
  <2>3. ASSUME NEW b \in bike'
        PROVE  b.name = arg[r].name \/ (b \in bike /\ b.name # found[r])
    <3>1. PICK c \in bike : b = IF c.name = found[r] THEN Moved(c, r) ELSE c
      BY <2>1 DEF BikesMoved
    <3> QED
      BY <1>1, <3>1 DEF Moved, TypeInv, TypeOK
  <2> QED
    BY <1>3, <2>2, <2>3 DEF Owned
<1> QED
  BY <1>4, <1>5, <1>6

LEMMA ReadStatement ==
  ASSUME NEW r, OrderlyStep(r)
  PROVE  ReadApart'
<1>1. /\ r \in UnderWay /\ r \in Request /\ arg' = arg /\ RowsApart /\ RequestsApart /\ ReadApart
      /\ TypeInv /\ Statement(r) /\ KindAt(r)
      /\ \A q \in Request \ {r} : at'[q] = at[q] /\ found'[q] = found[q]
  BY StepFacts DEF OrderlyStep, OwnersStep, Tidy
<1>2. ASSUME at'[r] \in {"rename", "bikes"}, NEW q \in UnderWay, q # r,
             at[q] \in {"rename", "bikes"}
      PROVE  found'[r] # found[q]
  <2>1. SeenByUser(q) /\ KindAt(q)
    BY <1>1 DEF OrderlyStep, Tidy, Seen, TypeInv, UnderWay, Begun
  <2>2. CASE NameRead(r)
    <3>1. PICK v \in user : v.token = arg[r].token /\ v.name = found'[r]
      BY <2>2 DEF NameRead, HasName, RowsOf
    <3>2. v.token \in Token
      BY <1>1 DEF TypeInv, TypeOK
    <3>3. arg[q].token # arg[r].token
      BY <1>1, <1>2, <3>1, <3>2, ApartMeans
    <3>4. v.name = found[q] => v.token = arg[q].token
      BY <1>1, <1>2, <2>1 DEF SeenByUser, HasName, RowsOf, RowsApart
    <3> QED
      BY <3>1, <3>3, <3>4
  <2>3. CASE AccountRenamed(r)
    BY <1>1, <1>2, <2>3 DEF AccountRenamed, ReadApart
  <2>4. NameRead(r) \/ AccountRenamed(r)
    BY <1>1, <1>2, OwnerSorts DEF Unread, OtherRead, Registered, BikesMoved, BikeBound
  <2> QED
    BY <2>2, <2>3, <2>4
<1>3. ASSUME NEW q \in UnderWay', NEW p \in UnderWay', q # p,
             {at'[q], at'[p]} \subseteq {"rename", "bikes"}
      PROVE  found'[q] # found'[p]
  <2>1. q \in UnderWay /\ p \in UnderWay /\ q \in Request /\ p \in Request
    BY UsersShrink DEF UnderWay, Begun
  <2>2. CASE q # r /\ p # r
    BY <1>1, <1>3, <2>1, <2>2 DEF ReadApart
  <2>3. CASE q = r
    BY <1>1, <1>2, <1>3, <2>1, <2>3
  <2>4. CASE p = r
    BY <1>1, <1>2, <1>3, <2>1, <2>4
  <2> QED
    BY <2>2, <2>3, <2>4
<1> QED
  BY <1>3 DEF ReadApart

LEMMA TidyStatement ==
  ASSUME NEW r, OrderlyStep(r)
  PROVE  Tidy'
<1>1. Seen'
  BY SeenOthers, SeenSelf DEF Seen
<1> QED
  BY <1>1, RowsStatement, ApartStatement, ReadStatement, OwnedStatement DEF Tidy

(* Begin admits only what is apart from the requests under way.            *)
LEMMA TidyBegin ==
  ASSUME TypeInv, OrderInv, OwnersInv, Tidy, orderly,
         NEW r \in Request, NEW a \in Args, Begin(r, a)
  PROVE  Tidy'
<1>1. /\ Orderly(a) /\ arg'[r] = a /\ r \notin Begun
      /\ user' = user /\ bike' = bike /\ code' = code /\ found' = found
      /\ \A q \in Request \ {r} : at'[q] = at[q] /\ arg'[q] = arg[q]
      /\ at'[r] = First(a)
  BY BeginFresh DEF Begin, TypeInv, TypeOK
<1>2. found[r] = None /\ at'[r] \in {"name", "valid", "card", "code", "user"}
  BY <1>1 DEF OwnersInv, IdleInv, Begun, First, Args
<1>3. ASSUME NEW q \in UnderWay', q # r
      PROVE  q \in UnderWay /\ at'[q] = at[q] /\ arg'[q] = arg[q] /\ q \in Request
             /\ UsersOf(arg[q])' = UsersOf(arg[q])
  <2>1. q \in UnderWay /\ at'[q] = at[q] /\ arg'[q] = arg[q] /\ q \in Request
    BY <1>1, <1>3 DEF UnderWay, Begun
  <2> QED
    BY <1>1, <2>1 DEF UsersOf
<1>4. RequestsApart'
  <2>1. UsersOf(arg[r])' = UsersOf(a)
    BY <1>1 DEF UsersOf
  <2>2. ASSUME NEW q \in UnderWay', NEW p \in UnderWay', q # p
        PROVE  /\ UsersOf(arg[q])' \cap UsersOf(arg[p])' \subseteq {None}
               /\ arg'[q].name # None => arg'[q].name \notin {arg'[p].name, found[p]}
               /\ arg'[q].card # None => arg'[q].card # arg'[p].card
    <3>1. CASE q # r /\ p # r
      BY <1>3, <2>2, <3>1 DEF Tidy, RequestsApart
    <3>2. CASE q = r
      <4>1. p \in UnderWay /\ arg'[p] = arg[p] /\ UsersOf(arg[p])' = UsersOf(arg[p])
        BY <1>3, <2>2, <3>2
      <4>2. Apart(a, p)
        BY <1>1, <4>1 DEF Orderly
      <4> QED
        BY <1>1, <2>1, <3>2, <4>1, <4>2 DEF Apart
    <3>3. CASE p = r
      <4>1. q \in UnderWay /\ arg'[q] = arg[q] /\ UsersOf(arg[q])' = UsersOf(arg[q])
        BY <1>3, <2>2, <3>3
      <4>2. Apart(a, q)
        BY <1>1, <4>1 DEF Orderly
      <4> QED
        BY <1>1, <1>2, <2>1, <3>3, <4>1, <4>2 DEF Apart
    <3> QED
      BY <3>1, <3>2, <3>3
  <2> QED
    BY <1>1, <2>2 DEF RequestsApart
<1>5. ASSUME NEW q \in UnderWay', q # r
      PROVE  SeenByUser(q)' /\ SeenElsewhere(q)'
  <2>1. SeenByUser(q) /\ SeenElsewhere(q)
    BY <1>3, <1>5 DEF Tidy, Seen
  <2>2. SeenByUser(q)'
    BY <1>1, <1>3, <1>5, <2>1 DEF SeenByUser, HasName, RowsOf, Names
  <2>3. SeenElsewhere(q)'
    BY <1>1, <1>3, <1>5, <2>1 DEF SeenElsewhere
  <2> QED
    BY <2>2, <2>3
<1>6. SeenByUser(r)' /\ SeenElsewhere(r)'
  <2>1. SeenByUser(r)'
    BY <1>1, <1>2 DEF SeenByUser, Orderly, RowsOf, Names
  <2>2. SeenElsewhere(r)'
    BY <1>2 DEF SeenElsewhere, Served
  <2> QED
    BY <2>1, <2>2
<1>7. RowsApart'
  BY <1>1 DEF Tidy, RowsApart
<1>8. ReadApart'
  <2>1. at'[r] \notin {"rename", "bikes"}
    BY <1>2
  <2> QED
    BY <1>1, <1>3, <2>1 DEF Tidy, ReadApart
<1>9. Owned'
  <2>1. \A q \in UnderWay : q \in UnderWay' /\ at'[q] = at[q]
    BY <1>1 DEF UnderWay, Begun
  <2> QED
    BY <1>1, <2>1 DEF Tidy, Owned, Names
<1> QED
  BY <1>4, <1>5, <1>6, <1>7, <1>8, <1>9 DEF Tidy, Seen

LEMMA OrderlyInit == Init => OrderlyInv
<1> SUFFICES ASSUME Init, orderly PROVE Tidy
  BY DEF OrderlyInv
<1>1. UnderWay = {}
  BY DEF Init, UnderWay, Begun
<1>2. RowsApart
  BY DEF Init, RowsApart
<1>3. Owned
  BY DEF Init, Owned
<1> QED
  BY <1>1, <1>2, <1>3 DEF Tidy, RequestsApart, ReadApart, Seen

LEMMA OrderlyInductive ==
  TypeInv /\ TypeInv' /\ OrderInv /\ Returned /\ OwnersInv /\ OrderlyInv /\ [Next]_vars
    => OrderlyInv'
<1> SUFFICES ASSUME TypeInv, TypeInv', OrderInv, Returned, OwnersInv, OrderlyInv, [Next]_vars
             PROVE  OrderlyInv'
  OBVIOUS
<1>1. ASSUME NEW r \in Request, Statement(r) PROVE OrderlyInv'
  <2>1. OwnersStep(r) /\ orderly' = orderly
    BY <1>1, StatementMoves, BegunByMoves, ReturnedStatement DEF OwnersStep, Moves
  <2>2. orderly => OrderlyStep(r)
    BY <1>1, <2>1 DEF OrderlyStep, OrderlyInv
  <2> QED
    BY <2>1, <2>2, TidyStatement DEF OrderlyInv
<1>2. ASSUME NEW r \in Request, NEW a \in Args, Begin(r, a) PROVE OrderlyInv'
  <2>1. orderly' = orderly
    BY <1>2, BeginFresh
  <2> QED
    BY <1>2, <2>1, TidyBegin DEF OrderlyInv
<1>3. CASE UNCHANGED vars
  <2>1. /\ orderly' = orderly /\ user' = user /\ bike' = bike /\ found' = found
        /\ code' = code /\ at' = at /\ arg' = arg
    BY <1>3 DEF vars, tables
  <2>2. UnderWay' = UnderWay
    BY <2>1 DEF UnderWay, Begun
  <2>3. RowsApart => RowsApart'
    BY <2>1 DEF RowsApart
  <2>4. RequestsApart => RequestsApart'
    BY <2>1, <2>2 DEF RequestsApart, UsersOf
  <2>5. Seen => Seen'
    BY <2>1, <2>2 DEF Seen, SeenByUser, SeenElsewhere, HasName, RowsOf, Names
  <2>6. Owned => Owned'
    BY <2>1, <2>2 DEF Owned, Names
  <2>7. ReadApart => ReadApart'
    BY <2>1, <2>2 DEF ReadApart
  <2> QED
    BY <2>1, <2>3, <2>4, <2>5, <2>6, <2>7 DEF OrderlyInv, Tidy
<1> QED
  BY <1>1, <1>2, <1>3 DEF Next

-----------------------------------------------------------------------------
(* Orderly, Accounts implements AtomicAccounts: the views of it.           *)

(* The name of a user's account is that of its one row.                    *)
NamesView ==
  \A t \in Token : /\ NameOf(t) \in Name \cup {None}
                   /\ \A n \in Name : NameOf(t) = n <=> HasName(t, n)

LEMMA NameOfIs == TypeOK /\ RowsApart => NamesView
<1> SUFFICES ASSUME TypeOK, RowsApart, NEW t \in Token
             PROVE  /\ NameOf(t) \in Name \cup {None}
                    /\ \A n \in Name : NameOf(t) = n <=> HasName(t, n)
  BY DEF NamesView
<1>1. CASE RowsOf(t) = {}
  BY <1>1, AccountsAssumption DEF NameOf, HasName
<1>2. CASE RowsOf(t) # {}
  <2>1. PICK u \in RowsOf(t) : u = CHOOSE v \in RowsOf(t) : TRUE
    BY <1>2
  <2>2. NameOf(t) = u.name /\ u.name \in Name
    BY <1>2, <2>1 DEF NameOf, RowsOf, TypeOK
  <2>3. \A v \in RowsOf(t) : v = u
    BY DEF RowsApart, RowsOf
  <2> QED
    BY <2>2, <2>3 DEF HasName
<1> QED
  BY <1>1, <1>2

(* A bike is of one user, and a card of the user whose bike it is.         *)
OwnedBy(c, t) == \E b \in bike : b.card = c /\ Owns(t, b)

OwnerView ==
  \A c \in Card : /\ OwnerOf(c) \in Token \cup {None}
                  /\ \A t \in Token : OwnerOf(c) = t <=> OwnedBy(c, t)

LEMMA ChangingMeans ==
  ASSUME TypeInv, NEW t, NEW r
  PROVE  r \in Changing(t, {"bikes"}) <=>
           r \in UnderWay /\ at[r] = "bikes" /\ arg[r].token = t /\ arg[r].kind = "change"
  BY DEF Changing, TypeInv, KindAt, UnderWay, Begun

LEMMA OneOwner ==
  ASSUME TypeInv, Tidy, NEW b \in bike, NEW s \in Token, NEW t \in Token,
         Owns(s, b), Owns(t, b)
  PROVE  s = t
<1>1. b.name \in Name /\ NamesView /\ TypeOK
  BY NameOfIs DEF TypeInv, TypeOK, Tidy
<1>2. ASSUME NEW p \in Token, NEW q \in Token, NameOf(p) = b.name,
             NameOf(q) = b.name \/ \E r \in Changing(q, {"bikes"}) : found[r] = b.name
      PROVE  p = q
  <2>1. PICK u \in user : u.token = p /\ u.name = b.name
    BY <1>1, <1>2 DEF NamesView, HasName, RowsOf
  <2>2. CASE NameOf(q) = b.name
    BY <1>1, <2>1, <2>2 DEF NamesView, HasName, RowsOf, Tidy, RowsApart
  <2>3. CASE \E r \in Changing(q, {"bikes"}) : found[r] = b.name
    BY <2>1, <2>3, ChangingMeans DEF Tidy, Seen, SeenByUser
  <2> QED
    BY <1>2, <2>2, <2>3
<1>3. CASE NameOf(s) # b.name /\ NameOf(t) # b.name
  <2>1. PICK q \in Changing(s, {"bikes"}), r \in Changing(t, {"bikes"}) :
          found[q] = b.name /\ found[r] = b.name
    BY <1>3 DEF Owns
  <2>2. q = r
    BY <2>1, ChangingMeans DEF Tidy, ReadApart
  <2> QED
    BY <2>1, <2>2, ChangingMeans
<1> QED
  BY <1>2, <1>3 DEF Owns

LEMMA OwnerOfIs == TypeInv /\ Tidy => OwnerView
<1> SUFFICES ASSUME TypeInv, Tidy, NEW c \in Card
             PROVE  /\ OwnerOf(c) \in Token \cup {None}
                    /\ \A t \in Token : OwnerOf(c) = t <=> OwnedBy(c, t)
  BY DEF OwnerView
<1>1. CASE \E t \in Token : OwnedBy(c, t)
  <2>1. OwnerOf(c) = CHOOSE t \in Token : OwnedBy(c, t)
    BY <1>1 DEF OwnerOf, OwnedBy
  <2>2. OwnerOf(c) \in Token /\ OwnedBy(c, OwnerOf(c))
    BY <1>1, <2>1
  <2>3. ASSUME NEW s \in Token, NEW t \in Token, OwnedBy(c, s), OwnedBy(c, t)
        PROVE  s = t
    <3>1. PICK b, d \in bike : b.card = c /\ d.card = c /\ Owns(s, b) /\ Owns(t, d)
      BY <2>3 DEF OwnedBy
    <3>2. b = d
      BY <3>1 DEF Tidy, RowsApart
    <3> QED
      BY <3>1, <3>2, OneOwner
  <2>4. \A t \in Token : OwnerOf(c) = t <=> OwnedBy(c, t)
    BY <2>2, <2>3
  <2> QED
    BY <2>2, <2>4
<1>2. CASE ~\E t \in Token : OwnedBy(c, t)
  <2>1. OwnerOf(c) = None
    BY <1>2 DEF OwnerOf, OwnedBy
  <2> QED
    BY <1>2, <2>1, AccountsAssumption
<1> QED
  BY <1>1, <1>2

(* The three views after a statement, as before it.                        *)
LEMMA Views ==
  ASSUME NEW r, OrderlyStep(r)
  PROVE  NamesView /\ NamesView' /\ OwnerView /\ OwnerView'
<1>1. TypeInv /\ TypeInv' /\ Tidy /\ Tidy'
  BY TidyStatement DEF OrderlyStep, OwnersStep
<1>2. (TypeOK /\ RowsApart)' => NamesView'
  BY NameOfIs, PTL
<1>3. (TypeInv /\ Tidy)' => OwnerView'
  BY OwnerOfIs, PTL
<1> QED
  BY <1>1, <1>2, <1>3, NameOfIs, OwnerOfIs DEF TypeInv, Tidy

LEMMA OwnersStay ==
  ASSUME OwnerView, OwnerView', \A c \in Card, t \in Token : OwnedBy(c, t)' <=> OwnedBy(c, t)
  PROVE  \A c \in Card : OwnerOf(c)' = OwnerOf(c)
  BY AccountsAssumption DEF OwnerView

(* The changes that count as done or undone, while r is neither.           *)
ChangingStay ==
  \A t : /\ Changing(t, {"bikes"})' = Changing(t, {"bikes"})
         /\ Changing(t, {"bikes", "use"})' = Changing(t, {"bikes", "use"})

LEMMA ChangingStays ==
  ASSUME NEW r, OrderlyStep(r), at[r] \notin {"bikes", "use"}, at'[r] \notin {"bikes", "use"}
  PROVE  /\ ChangingStay
         /\ \A t : \A q \in Changing(t, {"bikes"}) : found'[q] = found[q]
<1>1. /\ arg' = arg /\ r \in Request
      /\ \A q \in Request \ {r} : at'[q] = at[q] /\ found'[q] = found[q]
  BY StepFacts DEF OrderlyStep
<1>2. \A q \in Request : at'[q] \in {"bikes", "use"} \/ at[q] \in {"bikes", "use"} =>
        q # r /\ at'[q] = at[q] /\ found'[q] = found[q] /\ q \in UnderWay /\ q \in UnderWay'
  BY <1>1 DEF UnderWay, Begun
<1>3. \A q \in UnderWay : q \in Request
  BY DEF UnderWay, Begun
<1>4. \A q \in UnderWay' : q \in Request
  BY DEF UnderWay, Begun
<1>5. ASSUME NEW t
      PROVE  /\ Changing(t, {"bikes"})' = Changing(t, {"bikes"})
             /\ Changing(t, {"bikes", "use"})' = Changing(t, {"bikes", "use"})
             /\ \A q \in Changing(t, {"bikes"}) : found'[q] = found[q]
  BY <1>1, <1>2, <1>3, <1>4 DEF Changing
<1> QED
  BY <1>5 DEF ChangingStay

HoldsCode(t) == \E row \in code["forget_code"] : row.token = t

ViewsStay ==
  /\ \A t \in Token : NameOf(t)' = NameOf(t)
  /\ \A c \in Card : OwnerOf(c)' = OwnerOf(c)
  /\ Coded' = Coded

LEMMA Stutters == ViewsStay => UNCHANGED Atomic!vars
  BY DEF ViewsStay, Atomic!vars

(* A statement that writes neither an account nor a bike.                  *)
LEMMA NamesStay ==
  ASSUME user' = user
  PROVE  \A t : NameOf(t)' = NameOf(t)
  BY DEF NameOf, RowsOf

LEMMA StepElsewhere ==
  ASSUME NEW r, OrderlyStep(r), user' = user, bike' = bike,
         at[r] \notin {"bikes", "use"}, at'[r] \notin {"bikes", "use"}
  PROVE  Atomic!Next \/ UNCHANGED Atomic!vars
<1>1. /\ TypeInv /\ KindAt(r) /\ arg' = arg /\ r \in Request /\ r \in UnderWay
      /\ RequestsApart /\ Statement(r) /\ Returned
      /\ code \in [CodeTable -> SUBSET [token : Token, by : Request]]
      /\ arg[r] \in Args \cup {NoArg}
  BY StepFacts DEF OrderlyStep, OwnersStep, Tidy, TypeInv, TypeOK
<1>2. ChangingStay /\ \A t : \A q \in Changing(t, {"bikes"}) : found'[q] = found[q]
  BY ChangingStays
<1>3. \A t \in Token : NameOf(t)' = NameOf(t)
  BY NamesStay
<1>4. \A c \in Card : OwnerOf(c)' = OwnerOf(c)
  <2>1. ASSUME NEW t \in Token, NEW b
        PROVE  Owns(t, b)' <=> Owns(t, b)
    BY <1>2, <1>3 DEF Owns, ChangingStay
  <2>2. \A c \in Card, t \in Token : OwnedBy(c, t)' <=> OwnedBy(c, t)
    BY <2>1 DEF OwnedBy
  <2> QED
    BY <2>2, OwnersStay, Views
<1>5. CASE \A t \in Token : HoldsCode(t)' <=> HoldsCode(t)
  <2>1. Coded' = Coded
    BY <1>2, <1>5 DEF Coded, ChangingStay, HoldsCode
  <2> QED
    BY <1>3, <1>4, <2>1, Stutters DEF ViewsStay
<1>6. CASE CodesKept(r)
  BY <1>5, <1>6 DEF CodesKept, HoldsCode
<1>7. CASE CodeReplaced(r)
  <2>1. \A row \in code["forget_code"] : [row EXCEPT !.by = r].token = row.token
    BY <1>1 DEF CodeTable
  <2>2. arg[r].table \in CodeTable
    BY <1>1, <1>7, ArgTypes DEF CodeReplaced, KindAt
  <2>3. \A t \in Token : HoldsCode(t)' <=> HoldsCode(t)
    <3>1. CASE arg[r].table = "forget_code"
      <4> DEFINE New(row) == IF row.token = arg[r].token THEN [row EXCEPT !.by = r] ELSE row
      <4>1. code'["forget_code"] = {New(row) : row \in code["forget_code"]}
        BY <1>1, <1>7, <3>1 DEF CodeReplaced, CodeTable
      <4>2. \A row \in code["forget_code"] : New(row).token = row.token
        BY <2>1
      <4> HIDE DEF New
      <4> QED
        BY <4>1, <4>2 DEF HoldsCode
    <3>2. CASE arg[r].table # "forget_code"
      BY <1>1, <1>7, <2>2, <3>2 DEF CodeReplaced, HoldsCode, CodeTable
    <3> QED
      BY <3>1, <3>2
  <2> QED
    BY <1>5, <2>3
<1>8. CASE CodeAdded(r)
  <2>1. /\ arg[r].kind \in {"forget", "unbind"} /\ arg[r].table \in CodeTable
        /\ arg[r].token \in Token
    BY <1>1, <1>8, ArgTypes DEF CodeAdded, KindAt
  <2>2. CASE arg[r].table # "forget_code"
    <3>1. code'["forget_code"] = code["forget_code"]
      BY <1>1, <1>8, <2>1, <2>2 DEF CodeAdded, CodeTable
    <3> QED
      BY <1>5, <3>1 DEF HoldsCode
  <2>3. CASE arg[r].table = "forget_code"
    <3>1. \A t \in Token : HoldsCode(t)' <=> HoldsCode(t) \/ t = arg[r].token
      <4>1. code'["forget_code"] =
              code["forget_code"] \cup {[token |-> arg[r].token, by |-> r]}
        BY <1>1, <1>8, <2>3 DEF CodeAdded, CodeTable
      <4>2. PICK row : row = [token |-> arg[r].token, by |-> r]
        OBVIOUS
      <4>3. row.token = arg[r].token
        BY <4>2
      <4>4. code'["forget_code"] = code["forget_code"] \cup {row}
        BY <4>1, <4>2
      <4> QED
        BY <4>3, <4>4 DEF HoldsCode
    <3>2. Changing(arg[r].token, {"bikes", "use"}) = {}
      <4>1. \A q \in Changing(arg[r].token, {"bikes", "use"}) :
              q \in UnderWay /\ arg[q].token = arg[r].token /\ q # r
        BY <2>1 DEF Changing
      <4> QED
        BY <1>1, <2>1, <4>1, ApartMeans
    <3>3. Coded' = Coded \cup {arg[r].token}
      BY <1>2, <2>1, <3>1, <3>2 DEF Coded, ChangingStay, HoldsCode
    <3>4. Atomic!Ask(arg[r].token)
      BY <1>3, <1>4, <3>3 DEF Atomic!Ask
    <3> QED
      BY <2>1, <3>4 DEF Atomic!Next
  <2> QED
    BY <2>2, <2>3
<1>9. ~CodeUsed(r)
  BY DEF CodeUsed
<1> QED
  BY <1>1, <1>6, <1>7, <1>8, <1>9, CodeSorts

(* INSERT INTO weixin_user is Register.                                    *)
LEMMA StepRegistered ==
  ASSUME NEW r, OrderlyStep(r), Registered(r)
  PROVE  Atomic!Next
<1>0. PICK t, n : t = arg[r].token /\ n = arg[r].name
  OBVIOUS
<1>1. /\ TypeInv /\ TypeInv' /\ KindAt(r) /\ arg' = arg /\ r \in Request /\ r \in UnderWay
      /\ RequestsApart /\ Statement(r) /\ Returned /\ Owned /\ SeenByUser(r)
      /\ arg[r] \in Args \cup {NoArg} /\ arg[r].kind = "register"
      /\ t = arg[r].token /\ n = arg[r].name
  BY <1>0, StepFacts
     DEF OrderlyStep, OwnersStep, Tidy, Seen, TypeInv, TypeOK, Registered, KindAt
<1>2. t \in Token /\ n \in Name
  BY <1>1, ArgTypes
<1>3. ChangingStay /\ \A s : \A q \in Changing(s, {"bikes"}) : found'[q] = found[q]
  BY ChangingStays DEF Registered
<1>4. NamesView /\ NamesView' /\ OwnerView /\ OwnerView'
  BY Views
<1>5. NameOf(t) = None /\ n \notin Names
  BY <1>1 DEF SeenByUser, NameOf, Registered
<1>6. /\ \A m : HasName(t, m)' <=> m = n
      /\ \A s \in Token : s # t => \A m : HasName(s, m)' <=> HasName(s, m)
  <2>1. RowsOf(t) = {}
    BY <1>1 DEF SeenByUser
  <2>2. PICK u : u = NewUser(r)
    OBVIOUS
  <2>3. user' = user \cup {u} /\ u.token = t /\ u.name = n
    BY <1>1, <2>2 DEF Registered, NewUser
  <2>4. RowsOf(t)' = {u} /\ \A s \in Token : s # t => RowsOf(s)' = RowsOf(s)
    BY <2>1, <2>3 DEF RowsOf
  <2> QED
    BY <2>3, <2>4 DEF HasName
<1>7. ASSUME NEW s \in Token
      PROVE  NameOf(s)' = IF s = t THEN n ELSE NameOf(s)
  <2>1. CASE s = t
    BY <1>2, <1>4, <1>6, <2>1 DEF NamesView
  <2>2. CASE s # t
    BY <1>4, <1>6, <2>2, AccountsAssumption DEF NamesView
  <2> QED
    BY <2>1, <2>2
<1>8. \A c \in Card : OwnerOf(c)' = OwnerOf(c)
  <2>1. ASSUME NEW b \in bike
        PROVE  b.name # n
    <3>1. ASSUME NEW q \in UnderWay, at[q] = "bikes" PROVE found[q] # n
      <4>1. q # r
        BY <3>1 DEF Registered
      <4> QED
        BY <1>1, <1>2, <4>1, ApartMeans
    <3> QED
      BY <1>1, <1>5, <3>1 DEF Owned
  <2>2. ASSUME NEW s \in Token, NEW b \in bike
        PROVE  Owns(s, b)' <=> Owns(s, b)
    <3>1. NameOf(s)' = b.name <=> NameOf(s) = b.name
      <4>1. b.name # None
        BY <1>1, AccountsAssumption DEF TypeInv, TypeOK
      <4> QED
        BY <1>5, <1>7, <2>1, <4>1
    <3> QED
      BY <1>3, <3>1 DEF Owns, ChangingStay
  <2>3. \A c \in Card, s \in Token : OwnedBy(c, s)' <=> OwnedBy(c, s)
    BY <2>2 DEF OwnedBy, Registered
  <2> QED
    BY <1>4, <2>3, OwnersStay
<1>9. Coded' = Coded
  <2>1. CodesKept(r)
    BY <1>1, CodeSorts DEF Registered, CodeUsed, CodeReplaced, CodeAdded
  <2> QED
    BY <1>3, <2>1 DEF CodesKept, Coded, ChangingStay
<1>10. Atomic!Register(t, n)
  <2>1. ~Atomic!Taken(n)
    BY <1>2, <1>4, <1>5 DEF Atomic!Taken, NamesView, HasName, RowsOf, Names
  <2> QED
    BY <1>2, <1>5, <1>7, <1>8, <1>9, <2>1 DEF Atomic!Register
<1> QED
  BY <1>2, <1>10 DEF Atomic!Next

(* The first UPDATE of a change is Change: the bikes of the old name count *)
(* as moved, the code as used.                                             *)
LEMMA StepRenamed ==
  ASSUME NEW r, OrderlyStep(r), AccountRenamed(r)
  PROVE  Atomic!Next
<1>0. PICK t, n : t = arg[r].token /\ n = arg[r].name
  OBVIOUS
<1>1. /\ TypeInv /\ TypeInv' /\ KindAt(r) /\ arg' = arg /\ r \in Request /\ r \in UnderWay
      /\ RequestsApart /\ RowsApart /\ Statement(r) /\ Returned /\ Owned
      /\ SeenByUser(r) /\ SeenElsewhere(r)
      /\ arg[r] \in Args \cup {NoArg} /\ arg[r].kind = "change"
      /\ at[r] = "rename" /\ at'[r] = "bikes" /\ bike' = bike /\ found' = found
      /\ \A q \in Request \ {r} : at'[q] = at[q]
      /\ t = arg[r].token /\ n = arg[r].name
  BY <1>0, StepFacts
     DEF OrderlyStep, OwnersStep, Tidy, Seen, TypeInv, TypeOK, AccountRenamed, KindAt
<1>2. t \in Token /\ n \in Name
  BY <1>1, ArgTypes
<1>3. NamesView /\ NamesView' /\ OwnerView /\ OwnerView'
  BY Views
<1>4. PICK v \in user : v.token = t /\ v.name = found[r]
  BY <1>1 DEF SeenByUser, HasName, RowsOf
<1>5. NameOf(t) = found[r] /\ found[r] \in Name
  <2>1. v.name \in Name
    BY <1>1 DEF TypeInv, TypeOK
  <2> QED
    BY <1>2, <1>3, <1>4, <2>1 DEF NamesView, HasName, RowsOf
<1>6. /\ HasName(t, n)'
      /\ \A s \in Token : s # t => \A m : HasName(s, m)' <=> HasName(s, m)
  <2> DEFINE New(u) == IF u.token = t THEN Renamed(u, r) ELSE u
  <2>1. user' = {New(u) : u \in user}
    BY <1>1 DEF AccountRenamed
  <2>2. \A u \in user : New(u).token = u.token /\ (u.token = t => New(u).name = n)
                        /\ (u.token # t => New(u) = u)
    BY <1>1 DEF Renamed, TypeInv, TypeOK
  <2> HIDE DEF New
  <2>3. HasName(t, n)'
    BY <1>1, <1>4, <2>1, <2>2 DEF HasName, RowsOf
  <2>4. ASSUME NEW s \in Token, s # t, NEW m
        PROVE  HasName(s, m)' <=> HasName(s, m)
    BY <2>1, <2>2, <2>4 DEF HasName, RowsOf
  <2> QED
    BY <2>3, <2>4
<1>7. ASSUME NEW s \in Token
      PROVE  NameOf(s)' = IF s = t THEN n ELSE NameOf(s)
  <2>1. CASE s = t
    BY <1>1, <1>2, <1>3, <1>6, <2>1 DEF NamesView
  <2>2. CASE s # t
    BY <1>3, <1>6, <2>2, AccountsAssumption DEF NamesView
  <2> QED
    BY <2>1, <2>2
<1>8. /\ Changing(t, {"bikes"})' = {r}
      /\ Changing(t, {"bikes", "use"}) = {} /\ Changing(t, {"bikes", "use"})' = {r}
      /\ \A s : s # t => /\ Changing(s, {"bikes"})' = Changing(s, {"bikes"})
                         /\ Changing(s, {"bikes", "use"})' = Changing(s, {"bikes", "use"})
  <2>1. r \in UnderWay'
    BY <1>1 DEF UnderWay, Begun
  <2>2. \A q \in Request \ {r} : q \in UnderWay' <=> q \in UnderWay
    BY <1>1 DEF UnderWay, Begun
  <2>3. \A q \in UnderWay : q = r \/ arg[q].token # t
    BY <1>1, <1>2, ApartMeans
  <2>4. (\A q \in UnderWay : q \in Request) /\ (\A q \in UnderWay' : q \in Request)
    BY DEF UnderWay, Begun
  <2>5. ASSUME NEW s, s # t
        PROVE  /\ Changing(s, {"bikes"})' = Changing(s, {"bikes"})
               /\ Changing(s, {"bikes", "use"})' = Changing(s, {"bikes", "use"})
    BY <1>1, <2>2, <2>4, <2>5 DEF Changing
  <2>6. /\ Changing(t, {"bikes"})' = {r}
        /\ Changing(t, {"bikes", "use"}) = {} /\ Changing(t, {"bikes", "use"})' = {r}
    BY <1>1, <2>1, <2>2, <2>3, <2>4 DEF Changing
  <2> QED
    BY <2>5, <2>6
<1>9. \A c \in Card : OwnerOf(c)' = OwnerOf(c)
  <2>1. ASSUME NEW b \in bike, b.name = n
        PROVE  b.name = found[r]
    <3>1. ASSUME NEW q \in UnderWay, at[q] = "bikes" PROVE found[q] # n
      BY <1>1, <1>2, <3>1, ApartMeans
    <3>2. PICK u \in user : u.name = n
      BY <1>1, <2>1, <3>1 DEF Owned, Names
    <3>3. u.token = t
      BY <1>1, <3>2 DEF SeenByUser
    <3> QED
      BY <1>1, <1>4, <2>1, <3>2, <3>3 DEF RowsApart
  <2>2. ASSUME NEW s \in Token, NEW b \in bike
        PROVE  Owns(s, b)' <=> Owns(s, b)
    <3>1. CASE s # t
      BY <1>1, <1>7, <1>8, <3>1 DEF Owns
    <3>2. CASE s = t
      <4>1. Owns(t, b)' <=> (n = b.name \/ found[r] = b.name)
        BY <1>1, <1>2, <1>7, <1>8 DEF Owns
      <4>2. Changing(t, {"bikes"}) = {}
        <5>1. \A q \in Changing(t, {"bikes"}) : q \in Changing(t, {"bikes", "use"})
          BY DEF Changing
        <5> QED
          BY <1>8, <5>1
      <4>3. Owns(t, b) <=> found[r] = b.name
        BY <1>5, <4>2 DEF Owns
      <4> QED
        BY <2>1, <3>2, <4>1, <4>3
    <3> QED
      BY <3>1, <3>2
  <2>3. \A c \in Card, s \in Token : OwnedBy(c, s)' <=> OwnedBy(c, s)
    BY <1>1, <2>2 DEF OwnedBy
  <2> QED
    BY <1>3, <2>3, OwnersStay
<1>10. t \in Coded /\ Coded' = Coded \ {t}
  <2>1. CodesKept(r)
    BY <1>1, CodeSorts DEF CodeUsed, CodeReplaced, CodeAdded
  <2>2. HoldsCode(t)
    BY <1>1 DEF SeenElsewhere, Served, HoldsCode
  <2> QED
    BY <1>2, <1>8, <2>1, <2>2 DEF CodesKept, Coded, HoldsCode
<1>11. Atomic!Change(t, n)
  <2>1. NameOf(t) = n \/ ~Atomic!Taken(n)
    <3>1. ASSUME NEW s \in Token, NameOf(s) = n PROVE s = t
      <4>1. HasName(s, n)
        BY <1>2, <1>3, <3>1 DEF NamesView
      <4> QED
        BY <1>1, <4>1 DEF SeenByUser, HasName, RowsOf
    <3> QED
      BY <3>1 DEF Atomic!Taken
  <2>2. NameOf(t) # None
    BY <1>5, AccountsAssumption
  <2> QED
    BY <1>2, <1>7, <1>9, <1>10, <2>1, <2>2 DEF Atomic!Change
<1> QED
  BY <1>2, <1>11 DEF Atomic!Next

(* The other two writes of a change are no steps of AtomicAccounts.        *)
LEMMA StepMoved ==
  ASSUME NEW r, OrderlyStep(r), BikesMoved(r)
  PROVE  UNCHANGED Atomic!vars
<1>0. PICK t, n : t = arg[r].token /\ n = arg[r].name
  OBVIOUS
<1>1. /\ TypeInv /\ KindAt(r) /\ arg' = arg /\ r \in Request /\ r \in UnderWay
      /\ RequestsApart /\ RowsApart /\ ReadApart /\ Statement(r) /\ Returned /\ SeenByUser(r)
      /\ arg[r] \in Args \cup {NoArg} /\ arg[r].kind = "change"
      /\ at[r] = "bikes" /\ at'[r] = "use" /\ user' = user /\ found' = found
      /\ \A q \in Request \ {r} : at'[q] = at[q]
      /\ t = arg[r].token /\ n = arg[r].name
  BY <1>0, StepFacts DEF OrderlyStep, OwnersStep, Tidy, Seen, TypeInv, TypeOK, BikesMoved, KindAt
<1>2. t \in Token /\ n \in Name
  BY <1>1, ArgTypes
<1>3. NamesView /\ NamesView' /\ OwnerView /\ OwnerView'
  BY Views
<1>4. NameOf(t) = n /\ \A s \in Token : NameOf(s)' = NameOf(s)
  BY <1>1, <1>2, <1>3, NamesStay DEF NamesView, SeenByUser
<1>5. /\ r \in Changing(t, {"bikes"}) /\ \A q \in Changing(t, {"bikes"}) : q = r
      /\ Changing(t, {"bikes"})' = {}
      /\ \A s : Changing(s, {"bikes", "use"})' = Changing(s, {"bikes", "use"})
      /\ \A s : s # t => Changing(s, {"bikes"})' = Changing(s, {"bikes"})
  <2>1. r \in UnderWay'
    BY <1>1 DEF UnderWay, Begun
  <2>2. \A q \in Request \ {r} : q \in UnderWay' <=> q \in UnderWay
    BY <1>1 DEF UnderWay, Begun
  <2>3. \A q \in UnderWay : q = r \/ arg[q].token # t
    BY <1>1, <1>2, ApartMeans
  <2>4. (\A q \in UnderWay : q \in Request) /\ (\A q \in UnderWay' : q \in Request)
    BY DEF UnderWay, Begun
  <2>5. r \in Changing(t, {"bikes"}) /\ \A q \in Changing(t, {"bikes"}) : q = r
    BY <1>1, <2>3 DEF Changing
  <2>6. Changing(t, {"bikes"})' = {}
    BY <1>1, <2>2, <2>3, <2>4 DEF Changing
  <2>7. ASSUME NEW s
        PROVE  /\ Changing(s, {"bikes", "use"})' = Changing(s, {"bikes", "use"})
               /\ s # t => Changing(s, {"bikes"})' = Changing(s, {"bikes"})
    BY <1>1, <2>1, <2>2, <2>4 DEF Changing
  <2> QED
    BY <2>5, <2>6, <2>7
<1>6. ASSUME NEW s \in Token, NEW b \in bike, b.name = found[r],
             NEW d, d = Moved(b, r)
      PROVE  d.card = b.card /\ (Owns(s, d)' <=> Owns(s, b))
  <2>1. d.card = b.card /\ d.name = n
    BY <1>1, <1>6 DEF Moved, TypeInv, TypeOK
  <2>2. Owns(t, b)
    BY <1>5, <1>6 DEF Owns
  <2>3. Owns(t, d)'
    BY <1>4, <1>2, <2>1 DEF Owns
  <2>4. ASSUME s # t, Owns(s, b) PROVE FALSE
    BY <1>1, <1>2, <2>2, <2>4, OneOwner DEF OrderlyStep
  <2>5. ASSUME s # t, Owns(s, d)' PROVE FALSE
    <3>1. CASE NameOf(s) = n
      <4>1. PICK u \in user : u.token = s /\ u.name = n
        BY <1>2, <1>3, <3>1 DEF NamesView, HasName, RowsOf
      <4> QED
        BY <1>1, <2>5, <4>1 DEF SeenByUser
    <3>2. CASE \E q \in Changing(s, {"bikes"}) : found[q] = n
      <4>1. PICK q \in UnderWay : arg[q].token = s /\ found[q] = n
        BY <3>2 DEF Changing
      <4> QED
        BY <1>1, <1>2, <2>5, <4>1, ApartMeans
    <3> QED
      BY <1>1, <1>4, <1>5, <2>1, <2>5, <3>1, <3>2 DEF Owns
  <2>6. CASE s = t
    BY <2>1, <2>2, <2>3, <2>6
  <2>7. CASE s # t
    BY <2>1, <2>4, <2>5, <2>7
  <2> QED
    BY <2>6, <2>7
<1>7. ASSUME NEW s \in Token, NEW b \in bike, b.name # found[r]
      PROVE  Owns(s, b)' <=> Owns(s, b)
  <2>1. CASE s = t
    BY <1>1, <1>4, <1>5, <1>7, <2>1 DEF Owns
  <2>2. CASE s # t
    BY <1>1, <1>4, <1>5, <1>7, <2>2 DEF Owns
  <2> QED
    BY <2>1, <2>2
<1>9. \A c \in Card : OwnerOf(c)' = OwnerOf(c)
  <2>1. ASSUME NEW s \in Token, NEW c \in Card, OwnedBy(c, s)'
        PROVE  OwnedBy(c, s)
    <3>1. PICK d \in bike' : d.card = c /\ Owns(s, d)'
      BY <2>1 DEF OwnedBy
    <3>2. PICK b \in bike : d = IF b.name = found[r] THEN Moved(b, r) ELSE b
      BY DEF BikesMoved
    <3>3. CASE b.name = found[r]
      BY <1>6, <3>1, <3>2, <3>3 DEF OwnedBy
    <3>4. CASE b.name # found[r]
      BY <1>7, <3>1, <3>2, <3>4 DEF OwnedBy
    <3> QED
      BY <3>3, <3>4
  <2>2. ASSUME NEW s \in Token, NEW c \in Card, OwnedBy(c, s)
        PROVE  OwnedBy(c, s)'
    <3>1. PICK b \in bike : b.card = c /\ Owns(s, b)
      BY <2>2 DEF OwnedBy
    <3>2. PICK d : d = IF b.name = found[r] THEN Moved(b, r) ELSE b
      OBVIOUS
    <3>3. d \in bike'
      BY <3>2 DEF BikesMoved
    <3>4. CASE b.name = found[r]
      BY <1>6, <3>1, <3>2, <3>3, <3>4 DEF OwnedBy
    <3>5. CASE b.name # found[r]
      BY <1>7, <3>1, <3>2, <3>3, <3>5 DEF OwnedBy
    <3> QED
      BY <3>4, <3>5
  <2> QED
    BY <1>3, <2>1, <2>2, OwnersStay
<1>8. Coded' = Coded
  <2>1. CodesKept(r)
    BY <1>1, CodeSorts DEF CodeUsed, CodeReplaced, CodeAdded
  <2> QED
    BY <1>5, <2>1 DEF CodesKept, Coded
<1> QED
  BY <1>4, <1>8, <1>9, Stutters DEF ViewsStay

(* DELETE FROM forget_code: the code counted as used already.              *)
LEMMA StepCodeUsed ==
  ASSUME NEW r, OrderlyStep(r), CodeUsed(r)
  PROVE  UNCHANGED Atomic!vars
<1>0. PICK t : t = arg[r].token
  OBVIOUS
<1>1. /\ TypeInv /\ KindAt(r) /\ arg' = arg /\ r \in Request /\ r \in UnderWay
      /\ Statement(r) /\ Returned /\ arg[r].kind = "change"
      /\ at[r] = "use" /\ at'[r] = "done" /\ arg[r].token = t
      /\ code \in [CodeTable -> SUBSET [token : Token, by : Request]]
      /\ \A q \in Request \ {r} : at'[q] = at[q] /\ found'[q] = found[q]
  BY <1>0, StepFacts DEF OrderlyStep, OwnersStep, TypeInv, TypeOK, CodeUsed, KindAt
<1>2. user' = user /\ bike' = bike /\ found' = found
  BY <1>1, OwnerSorts
     DEF Unread, NameRead, OtherRead, Registered, AccountRenamed, BikesMoved, BikeBound
<1>3. /\ \A s : Changing(s, {"bikes"})' = Changing(s, {"bikes"})
      /\ r \in Changing(t, {"bikes", "use"})
      /\ \A s : s # t => Changing(s, {"bikes", "use"})' = Changing(s, {"bikes", "use"})
  <2>1. \A q \in Request \ {r} : q \in UnderWay' <=> q \in UnderWay
    BY <1>1 DEF UnderWay, Begun
  <2>2. (\A q \in UnderWay : q \in Request) /\ (\A q \in UnderWay' : q \in Request)
    BY DEF UnderWay, Begun
  <2>3. ASSUME NEW s
        PROVE  /\ Changing(s, {"bikes"})' = Changing(s, {"bikes"})
               /\ s # t => Changing(s, {"bikes", "use"})' = Changing(s, {"bikes", "use"})
    BY <1>1, <2>1, <2>2 DEF Changing
  <2>4. r \in Changing(t, {"bikes", "use"})
    BY <1>1 DEF Changing
  <2> QED
    BY <2>3, <2>4
<1>4. \A s \in Token : NameOf(s)' = NameOf(s)
  BY <1>2, NamesStay
<1>5. \A c \in Card : OwnerOf(c)' = OwnerOf(c)
  <2>1. ASSUME NEW s \in Token, NEW b
        PROVE  Owns(s, b)' <=> Owns(s, b)
    BY <1>2, <1>3, <1>4 DEF Owns
  <2>2. \A c \in Card, s \in Token : OwnedBy(c, s)' <=> OwnedBy(c, s)
    BY <1>2, <2>1 DEF OwnedBy
  <2> QED
    BY <2>2, OwnersStay, Views
<1>6. Coded' = Coded
  <2>1. code'["forget_code"] = {row \in code["forget_code"] : row.token # t}
    BY <1>1 DEF CodeUsed, CodeTable
  <2>2. \A s \in Token : s # t => (HoldsCode(s)' <=> HoldsCode(s))
    BY <2>1 DEF HoldsCode
  <2>3. ~HoldsCode(t)'
    BY <2>1 DEF HoldsCode
  <2>4. t \notin Coded /\ t \notin Coded'
    BY <1>3, <2>3 DEF Coded, HoldsCode
  <2>5. ASSUME NEW s \in Token, s # t
        PROVE  s \in Coded' <=> s \in Coded
    BY <1>3, <2>2, <2>5 DEF Coded, HoldsCode
  <2> QED
    BY <2>4, <2>5 DEF Coded
<1> QED
  BY <1>4, <1>5, <1>6, Stutters DEF ViewsStay

(* INSERT INTO user_bike is Bind, to the user the account is of.           *)
LEMMA StepBound ==
  ASSUME NEW r, OrderlyStep(r), BikeBound(r)
  PROVE  Atomic!Next
<1>0. PICK n, d : n = arg[r].name /\ d = arg[r].card
  OBVIOUS
<1>1. /\ TypeInv /\ KindAt(r) /\ arg' = arg /\ r \in Request /\ r \in UnderWay
      /\ Statement(r) /\ Returned /\ SeenByUser(r) /\ SeenElsewhere(r)
      /\ arg[r] \in Args \cup {NoArg} /\ arg[r].kind = "bind"
      /\ at[r] = "newbike" /\ user' = user /\ found' = found
      /\ n = arg[r].name /\ d = arg[r].card
  BY <1>0, StepFacts
     DEF OrderlyStep, OwnersStep, Tidy, Seen, TypeInv, TypeOK, BikeBound, KindAt
<1>2. n \in Name /\ d \in Card
  BY <1>1, ArgTypes
<1>3. NamesView /\ NamesView' /\ OwnerView /\ OwnerView'
  BY Views
<1>4. PICK t \in Token : NameOf(t) = n
  <2>1. PICK u \in user : u.name = n
    BY <1>1 DEF SeenByUser, Names
  <2>2. u.token \in Token /\ HasName(u.token, n)
    BY <1>1, <2>1 DEF HasName, RowsOf, TypeInv, TypeOK
  <2> QED
    BY <1>2, <1>3, <2>2 DEF NamesView
<1>5. ChangingStay /\ \A s : \A q \in Changing(s, {"bikes"}) : found'[q] = found[q]
  BY <1>1, ChangingStays DEF BikeBound
<1>6. \A s \in Token : NameOf(s)' = NameOf(s)
  BY <1>1, NamesStay
<1>7. ASSUME NEW s \in Token, NEW b
      PROVE  Owns(s, b)' <=> Owns(s, b)
  BY <1>5, <1>6 DEF Owns, ChangingStay
<1>8. PICK b : b = NewBike(r)
  OBVIOUS
<1>9. bike' = bike \cup {b} /\ b.card = d /\ b.name = n
  BY <1>1, <1>8 DEF BikeBound, NewBike
<1>10. OwnerOf(d) = None
  <2>1. \A s \in Token : ~OwnedBy(d, s)
    BY <1>1 DEF SeenElsewhere, OwnedBy
  <2> QED
    BY <1>2, <1>3, <2>1 DEF OwnerView
<1>11. OwnerOf(d)' = t
  <2>1. Owns(t, b)'
    BY <1>4, <1>6, <1>9 DEF Owns
  <2>2. OwnedBy(d, t)'
    BY <1>9, <2>1 DEF OwnedBy
  <2> QED
    BY <1>2, <1>3, <2>2 DEF OwnerView
<1>12. ASSUME NEW c \in Card, c # d
       PROVE  OwnerOf(c)' = OwnerOf(c)
  <2>1. \A s \in Token : OwnedBy(c, s)' <=> OwnedBy(c, s)
    BY <1>7, <1>9, <1>12 DEF OwnedBy
  <2> QED
    BY <1>3, <2>1, AccountsAssumption DEF OwnerView
<1>13. Coded' = Coded
  <2>1. CodesKept(r)
    BY <1>1, CodeSorts DEF CodeUsed, CodeReplaced, CodeAdded
  <2> QED
    BY <1>5, <2>1 DEF CodesKept, Coded, ChangingStay
<1>14. Atomic!Bind(t, d)
  <2>1. n # None
    BY <1>2, AccountsAssumption
  <2> QED
    BY <1>2, <1>4, <1>6, <1>10, <1>11, <1>12, <1>13, <2>1 DEF Atomic!Bind
<1> QED
  BY <1>2, <1>14 DEF Atomic!Next

LEMMA AtomicStatement ==
  ASSUME NEW r, OrderlyStep(r)
  PROVE  Atomic!Next \/ UNCHANGED Atomic!vars
<1>1. TypeInv /\ Returned /\ r \in Request /\ Statement(r) /\ KindAt(r)
  BY StepFacts DEF OrderlyStep, OwnersStep
<1>2. CASE Unread(r) /\ at[r] # "use"
  <2>1. at[r] # "bikes"
    BY <1>2 DEF OrderlyStep, Unread
  <2> QED
    BY <1>2, <2>1, StepElsewhere DEF Unread
<1>3. CASE at[r] = "use"
  <2>1. CodeUsed(r)
    BY <1>1, <1>3, CodeSorts DEF OrderlyStep, CodesKept, CodeReplaced, CodeAdded
  <2> QED
    BY <2>1, StepCodeUsed
<1>4. CASE NameRead(r)
  BY <1>4, StepElsewhere DEF NameRead
<1>5. CASE OtherRead(r)
  <2>1. at[r] \notin {"bikes", "use"}
    BY <1>1, <1>5 DEF OtherRead, KindAt
  <2> QED
    BY <1>5, <2>1, StepElsewhere DEF OtherRead
<1> QED
  BY <1>1, <1>2, <1>3, <1>4, <1>5, OwnerSorts, StepRegistered, StepRenamed, StepMoved, StepBound

(* A request that begins has changed nothing.                              *)
LEMMA AtomicBegin ==
  ASSUME TypeInv, TypeInv', OrderInv, OwnersInv, Tidy, orderly,
         NEW r \in Request, NEW a \in Args, Begin(r, a)
  PROVE  UNCHANGED Atomic!vars
<1>1. /\ r \notin Begun /\ user' = user /\ bike' = bike /\ code' = code /\ found' = found
      /\ \A q \in Request \ {r} : at'[q] = at[q] /\ arg'[q] = arg[q]
      /\ at'[r] \notin {"bikes", "use"} /\ at[r] \notin {"bikes", "use"}
  <2>1. r \notin Begun /\ at'[r] = First(a)
    BY BeginFresh
  <2>2. at'[r] \notin {"bikes", "use"} /\ at[r] \notin {"bikes", "use"}
    BY <2>1 DEF First, Args, Begun
  <2> QED
    BY <2>1, <2>2, BeginFresh
<1>2. ChangingStay
  <2>1. \A q \in Request \ {r} : q \in UnderWay' <=> q \in UnderWay
    BY <1>1 DEF UnderWay, Begun
  <2>2. (\A q \in UnderWay : q \in Request) /\ (\A q \in UnderWay' : q \in Request)
    BY DEF UnderWay, Begun
  <2>3. ASSUME NEW t
        PROVE  /\ Changing(t, {"bikes"})' = Changing(t, {"bikes"})
               /\ Changing(t, {"bikes", "use"})' = Changing(t, {"bikes", "use"})
    BY <1>1, <2>1, <2>2 DEF Changing
  <2> QED
    BY <2>3 DEF ChangingStay
<1>3. \A t \in Token : NameOf(t)' = NameOf(t)
  BY <1>1, NamesStay
<1>4. \A c \in Card : OwnerOf(c)' = OwnerOf(c)
  <2>1. \A t \in Token : \A b : Owns(t, b)' <=> Owns(t, b)
    BY <1>1, <1>2, <1>3 DEF Owns, ChangingStay
  <2>2. \A c \in Card, t \in Token : OwnedBy(c, t)' <=> OwnedBy(c, t)
    BY <1>1, <2>1 DEF OwnedBy
  <2>3. Tidy'
    BY TidyBegin
  <2>4. (TypeInv /\ Tidy)' => OwnerView'
    BY OwnerOfIs, PTL
  <2> QED
    BY <2>2, <2>3, <2>4, OwnersStay, OwnerOfIs
<1>5. Coded' = Coded
  BY <1>1, <1>2 DEF Coded, ChangingStay
<1> QED
  BY <1>3, <1>4, <1>5, Stutters DEF ViewsStay

LEMMA AtomicInit == Init /\ orderly => Atomic!Init
<1> SUFFICES ASSUME Init, orderly PROVE Atomic!Init
  OBVIOUS
<1>1. TypeInv /\ Tidy /\ TypeOK /\ RowsApart
  BY TypeInit, OrderlyInit DEF OrderlyInv, TypeInv, Tidy
<1>2. NamesView /\ OwnerView
  BY <1>1, NameOfIs, OwnerOfIs
<1>3. \A t, s \in Token : t # s /\ NameOf(t) = NameOf(s) => NameOf(t) = None
  <2>1. ASSUME NEW t \in Token, NEW s \in Token, NameOf(t) = NameOf(s), NameOf(t) # None
        PROVE  t = s
    <3>1. PICK n \in Name : HasName(t, n) /\ HasName(s, n)
      BY <1>2, <2>1 DEF NamesView
    <3> QED
      BY <1>1, <3>1 DEF HasName, RowsOf, RowsApart
  <2> QED
    BY <2>1
<1>4. \A c \in Card : OwnerOf(c) # None => NameOf(OwnerOf(c)) # None
  <2>1. ASSUME NEW c \in Card, OwnerOf(c) # None
        PROVE  NameOf(OwnerOf(c)) # None
    <3>1. PICK t \in Token : OwnerOf(c) = t
      BY <1>2, <2>1 DEF OwnerView
    <3>2. PICK b \in bike : Owns(t, b)
      BY <1>2, <3>1 DEF OwnerView, OwnedBy
    <3>3. NameOf(t) = b.name
      BY <3>2 DEF Owns, Changing, UnderWay, Begun, Init
    <3>4. b.name \in Name
      BY <1>1 DEF TypeOK
    <3> QED
      BY <3>1, <3>3, <3>4, AccountsAssumption
  <2> QED
    BY <2>1
<1>5. Coded \subseteq Token
  BY DEF Coded
<1> QED
  BY <1>2, <1>3, <1>4, <1>5 DEF Atomic!Init, NamesView, OwnerView

LEMMA AtomicStep ==
  TypeInv /\ TypeInv' /\ OrderInv /\ Returned /\ OwnersInv /\ OrderlyInv /\ [Next]_vars
    => [orderly => Atomic!Next \/ UNCHANGED Atomic!vars]_vars
<1> SUFFICES ASSUME TypeInv, TypeInv', OrderInv, Returned, OwnersInv, OrderlyInv, Next, orderly
             PROVE  Atomic!Next \/ UNCHANGED Atomic!vars
  OBVIOUS
<1>1. Tidy
  BY DEF OrderlyInv
<1>2. ASSUME NEW r \in Request, Statement(r)
      PROVE  Atomic!Next \/ UNCHANGED Atomic!vars
  <2>1. OwnersStep(r)
    BY <1>2, StatementMoves, BegunByMoves, ReturnedStatement DEF OwnersStep
  <2> QED
    BY <1>1, <1>2, <2>1, AtomicStatement DEF OrderlyStep
<1>3. ASSUME NEW r \in Request, NEW a \in Args, Begin(r, a)
      PROVE  UNCHANGED Atomic!vars
  BY <1>1, <1>3, AtomicBegin
<1> QED
  BY <1>2, <1>3 DEF Next

(* While requests are orderly, Accounts implements AtomicAccounts: each    *)
(* registering, asking, changing and binding is one step of it, whatever   *)
(* the statements of other requests come between its own                   *)
(* (TestTask.cpp:5368-5931).                                               *)
THEOREM AtomicRefinement == Spec => ImplementsAtomic
<1>1. Init => (orderly => Atomic!Init)
  BY AtomicInit
<1> QED
  BY <1>1, TypesKept, OrderInit, OrderInductive, ReturnedInit, ReturnedInductive,
     OwnersInit, OwnersInductive, OrderlyInit, OrderlyInductive, AtomicStep, PTL
     DEF Spec, ImplementsAtomic
=============================================================================
