------------------------------ MODULE Accounts ------------------------------
(***************************************************************************)
(* The requests that write the accounts of the server in its database:     *)
(* registering (WX_ResponseWebRegister), changing an account with a code   *)
(* (WX_ResponseWebForgetRegister), binding a card (WX_ResponseWebBind),    *)
(* asking for a code (PassiveReponseForgetMSG, PassiveReponseUnbindMSG)    *)
(* and giving a command to a device (WX_SetAlarmLock,                      *)
(* WX_SetTableMotorLock, WX_SetTableDeviceOpen).                           *)
(*                                                                         *)
(* Each runs in a save thread, opens a connection of its own and issues    *)
(* its statements one after the other, each a transaction of its own: one  *)
(* action here is one statement and what the handler does with its result. *)
(* Any statement may fail (mysql_query returns nonzero).                   *)
(*                                                                         *)
(* A table is a set of rows, and a row names in "by" the request that      *)
(* wrote it (Before: it was there at the start); the id of an account is   *)
(* the request that registered it, or its name at the start.  A SELECT     *)
(* states no order: a handler that uses one row of several is given any.   *)
(***************************************************************************)
EXTENDS Integers, FiniteSets

CONSTANTS
  Name, Token, Card,    \* user names, WeChat openids, cards in cardinfo
  Table,        \* set_card_alarm, set_motor_lock, set_device_open
  NumThreads,   \* threads of SaveDatathreadpool
  MaxRequests,  \* bound on the requests
  MaxFailures,  \* bound on the statements that fail
  MaxUsers,     \* bound on the accounts there are at the start
  None          \* no name, no user, no card

ASSUME AccountsAssumption ==
  /\ NumThreads \in Nat \ {0}
  /\ MaxRequests \in Nat
  /\ MaxFailures \in Nat
  /\ None \notin Name \cup Token \cup Card
  /\ Name \cap (1..MaxRequests) = {}    \* so that an id is of one account

Request == 1..MaxRequests     \* numbered in the order in which they begin
Before  == 0
Pending == 1                  \* no value returned yet
CodeTable == {"forget_code", "unbind_code"}

VARIABLES
  orderly,      \* TRUE: requests come as Orderly says
  user,         \* weixin_user: username, token
  bike,         \* user_bike: username, card
  code,         \* forget_code and unbind_code: token, and the code by name
  command,      \* the command tables, of one row: card
  arg,          \* what each request asks for
  at,           \* the statement it has reached
  found,        \* the user name it has read, mold_str_name or str_username
  ret,          \* what its handler returned
  failures,     \* statements that have failed
  met           \* pairs of requests that have been under way together

tables == <<user, bike, code, command>>
vars   == <<orderly, tables, arg, at, found, ret, failures, met>>

Begun    == {r \in Request : at[r] # "idle"}
UnderWay == {r \in Begun : at[r] # "done"}
Names    == {u.name : u \in user}
RowsOf(t) == {u \in user : u.token = t}

-----------------------------------------------------------------------------
(* What a request brings along.                                            *)
NoArg == [kind |-> "none", name |-> None, token |-> None, card |-> None,
          table |-> None]

Args ==
  [kind : {"register", "change"}, name : Name, token : Token, card : {None},
   table : {None}]
  \cup [kind : {"bind"}, name : Name, token : {None}, card : Card, table : {None}]
  \cup [kind : {"forget"}, name : {None}, token : Token, card : {None},
        table : {"forget_code"}]
  \cup [kind : {"unbind"}, name : {None}, token : Token, card : {None},
        table : {"unbind_code"}]
  \cup [kind : {"command"}, name : {None}, token : Token, card : Card,
        table : Table]

(* Orderly: accounts are used one by one.  The names, users and cards of   *)
(* requests under way are apart, a user registers once, takes a name that  *)
(* is free and binds to an account there is, and no statement fails.       *)
(* Nothing in the code sees to this: it is what the promise of             *)
(* AtomicAccounts rests on.                                                *)
UsersOf(a) == {u.token : u \in {v \in user : v.name = a.name}} \cup {a.token}

Apart(a, r) ==
  /\ UsersOf(a) \cap UsersOf(arg[r]) \subseteq {None}
  /\ a.name # None => a.name \notin {arg[r].name, found[r]}
  /\ a.card # None => a.card # arg[r].card

Orderly(a) ==
  /\ \A r \in UnderWay : Apart(a, r)
  /\ a.kind = "register" => RowsOf(a.token) = {}
  /\ a.kind = "change" => \A u \in user : u.name = a.name => u.token = a.token
  /\ a.kind = "bind" => a.name \in Names

Init ==
  /\ orderly \in BOOLEAN
  /\ user \in SUBSET [id : Name, name : Name, token : Token, by : {Before}]
  /\ IsFiniteSet(user) /\ Cardinality(user) <= MaxUsers
  /\ \A u \in user : u.id = u.name
  /\ \A u, v \in user : u.name = v.name => u = v
  /\ orderly => \A u, v \in user : u.token = v.token => u = v
  /\ bike \in SUBSET [name : Names, card : Card, by : {Before}]
  /\ \A b, c \in bike : b.card = c.card => b = c
  /\ code = [k \in CodeTable |-> {}]
  /\ command = [k \in Table |-> {}]
  /\ arg   = [r \in Request |-> NoArg]
  /\ at    = [r \in Request |-> "idle"]
  /\ found = [r \in Request |-> None]
  /\ ret   = [r \in Request |-> Pending]
  /\ failures = 0 /\ met = {}

-----------------------------------------------------------------------------
(* The result of a statement, and what the handler does next.              *)

Succeeds == UNCHANGED failures

Fails ==
  /\ ~orderly
  /\ failures < MaxFailures
  /\ failures' = failures + 1

GoTo(r, there) ==
  /\ at' = [at EXCEPT ![r] = there]
  /\ UNCHANGED ret

(* The handler is done: it closes its connection and returns v.            *)
Return(r, v) ==
  /\ at'  = [at EXCEPT ![r] = "done"]
  /\ ret' = [ret EXCEPT ![r] = v]

-----------------------------------------------------------------------------

First(a) ==
  CASE a.kind = "register" -> "name"
    [] a.kind = "change"   -> "valid"
    [] a.kind = "bind"     -> "card"
    [] a.kind = "forget"   -> "code"
    [] a.kind \in {"unbind", "command"} -> "user"

(* A save thread begins the next request: mysql_init, mysql_real_connect.  *)
(* One that gets no connection returns -2 with nothing done: left out.     *)
Begin(r, a) ==
  /\ r = Cardinality(Begun) + 1
  /\ Cardinality(UnderWay) < NumThreads
  /\ orderly => Orderly(a)
  /\ arg' = [arg EXCEPT ![r] = a]
  /\ met' = met \cup ({r} \X UnderWay) \cup (UnderWay \X {r})
  /\ at'   = [at EXCEPT ![r] = First(a)]
  /\ UNCHANGED <<orderly, tables, found, ret, failures>>

(* The statements of a request leave these alone.                          *)
Fixed == UNCHANGED <<orderly, arg, met>>

(* Mutant: looks for the openid instead of the name.                       *)
CheckName_ByToken(r) ==
  /\ at[r] = "name"
  /\ \/ RowsOf(arg[r].token) = {} /\ GoTo(r, "newuser") /\ Succeeds
     \/ RowsOf(arg[r].token) # {} /\ Return(r, -4) /\ Succeeds
  /\ Fixed /\ UNCHANGED <<tables, found>>

(* WX_ResponseWebRegister: SELECT from weixin_user by name.                *)
CheckName(r) ==
  /\ at[r] = "name"
  /\ \/ arg[r].name \notin Names /\ GoTo(r, "newuser") /\ Succeeds
     \/ arg[r].name \in Names /\ Return(r, -4) /\ Succeeds
     \/ Return(r, -4) /\ Fails
  /\ Fixed /\ UNCHANGED <<tables, found>>

InsertUser(r) ==
  /\ at[r] = "newuser"
  /\ \/ /\ user' = user \cup {[id |-> r, name |-> arg[r].name, token |-> arg[r].token, by |-> r]}
        /\ Return(r, 0) /\ Succeeds
     \/ Return(r, -3) /\ Fails /\ UNCHANGED user
  /\ Fixed /\ UNCHANGED <<bike, code, command, found>>

(* Mutant: a code that is missing is not noticed.                          *)
CheckCode_Ignored(r) ==
  /\ at[r] = "valid"
  /\ GoTo(r, "old") /\ Succeeds
  /\ Fixed /\ UNCHANGED <<tables, found>>

(* WX_ResponseWebForgetRegister: SELECT from forget_code by token.  A code *)
(* serves while its age is between 0 and 300 seconds, both excluded: a row *)
(* there is may always be too young or too old.                            *)
CheckCode(r) ==
  /\ at[r] = "valid"
  /\ \/ /\ \E row \in code["forget_code"] : row.token = arg[r].token
        /\ GoTo(r, "old") /\ Succeeds
     \/ Return(r, -2) /\ (Succeeds \/ Fails)
  /\ Fixed /\ UNCHANGED <<tables, found>>

(* SELECT from weixin_user by token; the name in the first row is kept.    *)
FindOld(r) ==
  /\ at[r] = "old"
  /\ \/ \E u \in RowsOf(arg[r].token) :
          found' = [found EXCEPT ![r] = u.name] /\ GoTo(r, "rename") /\ Succeeds
     \/ /\ RowsOf(arg[r].token) = {}
        /\ Return(r, -3) /\ Succeeds /\ UNCHANGED found
     \/ Return(r, -3) /\ Fails /\ UNCHANGED found
  /\ Fixed /\ UNCHANGED tables

(* UPDATE weixin_user: every row of the token gets the new name.           *)
Rename(r) ==
  /\ at[r] = "rename"
  /\ \/ /\ user' = {IF u.token = arg[r].token
                      THEN [u EXCEPT !.name = arg[r].name, !.by = r]
                      ELSE u : u \in user}
        /\ GoTo(r, "bikes") /\ Succeeds
     \/ Return(r, -4) /\ Fails /\ UNCHANGED user
  /\ Fixed /\ UNCHANGED <<bike, code, command, found>>

(* Mutant: the bikes are looked for under the new name.                    *)
MoveBikes_ByNewName(r) ==
  /\ at[r] = "bikes"
  /\ GoTo(r, "use") /\ Succeeds
  /\ Fixed /\ UNCHANGED <<tables, found>>

(* UPDATE user_bike: the bikes of the old name get the new one.            *)
MoveBikes(r) ==
  /\ at[r] = "bikes"
  /\ \/ /\ bike' = {IF b.name = found[r] THEN [b EXCEPT !.name = arg[r].name]
                                         ELSE b : b \in bike}
        /\ GoTo(r, "use") /\ Succeeds
     \/ Return(r, -5) /\ Fails /\ UNCHANGED bike
  /\ Fixed /\ UNCHANGED <<user, code, command, found>>

(* Mutant: the code is kept.                                               *)
UseCode_Kept(r) ==
  /\ at[r] = "use"
  /\ Return(r, 0) /\ Succeeds
  /\ Fixed /\ UNCHANGED <<tables, found>>

(* DELETE from forget_code.                                                *)
UseCode(r) ==
  /\ at[r] = "use"
  /\ \/ /\ code' = [code EXCEPT !["forget_code"] =
                      {row \in @ : row.token # arg[r].token}]
        /\ Return(r, 0) /\ Succeeds
     \/ Return(r, -12) /\ Fails /\ UNCHANGED code
  /\ Fixed /\ UNCHANGED <<user, bike, command, found>>

(* WX_ResponseWebBind: SELECT from cardinfo, SELECT userpwd.  The second   *)
(* is not looked at: getsucess is still true from the first.               *)
LookUpCard(r) ==
  /\ at[r] = "card"
  /\ \/ /\ found' = [found EXCEPT ![r] = IF arg[r].name \in Names
                                           THEN arg[r].name ELSE None]
        /\ GoTo(r, "free") /\ Succeeds
     \/ Return(r, -4) /\ Fails /\ UNCHANGED found
  /\ Fixed /\ UNCHANGED tables

(* Mutant: off by one, refused only when it is bound twice.                *)
CheckFree_OffByOne(r) ==
  /\ at[r] = "free"
  /\ \/ /\ Cardinality({b \in bike : b.card = arg[r].card}) <= 1
        /\ GoTo(r, "newbike") /\ Succeeds
     \/ Return(r, -4) /\ Fails
  /\ Fixed /\ UNCHANGED <<tables, found>>

(* SELECT from user_bike by card: a card that is bound is refused.         *)
CheckFree(r) ==
  /\ at[r] = "free"
  /\ \/ /\ \A b \in bike : b.card # arg[r].card
        /\ GoTo(r, "newbike") /\ Succeeds
     \/ /\ \E b \in bike : b.card = arg[r].card
        /\ Return(r, -4) /\ Succeeds
     \/ Return(r, -4) /\ Fails
  /\ Fixed /\ UNCHANGED <<tables, found>>

InsertBike(r) ==
  /\ at[r] = "newbike"
  /\ \/ /\ bike' = bike \cup {[name |-> arg[r].name, card |-> arg[r].card, by |-> r]}
        /\ Return(r, 0) /\ Succeeds
     \/ Return(r, -3) /\ Fails /\ UNCHANGED bike
  /\ Fixed /\ UNCHANGED <<user, code, command, found>>

(* The name of a user: WXGetUserBindData, and the start of a command.      *)
Refused(r) == IF arg[r].kind = "command" THEN -4 ELSE -1

(* Mutant: the wrong column.                                               *)
FindUser_Token(r) ==
  /\ at[r] = "user"
  /\ \E u \in RowsOf(arg[r].token) : found' = [found EXCEPT ![r] = u.token]
  /\ GoTo(r, "owned") /\ Succeeds
  /\ Fixed /\ UNCHANGED tables

FindUser(r) ==
  /\ at[r] = "user"
  /\ \/ \E u \in RowsOf(arg[r].token) :
          found' = [found EXCEPT ![r] = u.name] /\ GoTo(r, "owned") /\ Succeeds
     \/ /\ RowsOf(arg[r].token) = {}
        /\ Return(r, Refused(r)) /\ Succeeds /\ UNCHANGED found
     \/ Return(r, Refused(r)) /\ Fails /\ UNCHANGED found
  /\ Fixed /\ UNCHANGED tables

(* SELECT from user_bike by that name.                                     *)
FindBikes(r) ==
  LET mine == {b.card : b \in {c \in bike : c.name = found[r]}}
      isCommand == arg[r].kind = "command"
  IN
  /\ at[r] = "owned"
  /\ \/ /\ mine # {} /\ (isCommand => arg[r].card \in mine)
        /\ GoTo(r, IF isCommand THEN "set" ELSE "code") /\ Succeeds
     \/ /\ mine = {}
        /\ Return(r, IF isCommand THEN -6 ELSE -1) /\ Succeeds
     \/ /\ isCommand /\ mine # {} /\ arg[r].card \notin mine
        /\ Return(r, -4) /\ Succeeds
     \/ Return(r, Refused(r)) /\ Fails
  /\ Fixed /\ UNCHANGED <<tables, found>>

(* INSERT ... ON DUPLICATE KEY UPDATE card = ...: card_id is always 12345, *)
(* so the one row of the table is overwritten.                             *)
SetCommand(r) ==
  /\ at[r] = "set"
  /\ \/ /\ command' = [command EXCEPT ![arg[r].table] =
                         {[card |-> arg[r].card, by |-> r]}]
        /\ Return(r, 0) /\ Succeeds
     \/ Return(r, -3) /\ Fails /\ UNCHANGED command
  /\ Fixed /\ UNCHANGED <<user, bike, code, found>>

(* PassiveReponseForgetMSG, PassiveReponseUnbindMSG: SELECT the code of    *)
(* the token.  After an error it is inserted.                              *)
HasCode(r) == \E row \in code[arg[r].table] : row.token = arg[r].token

LookForCode(r) ==
  /\ at[r] = "code"
  /\ \/ HasCode(r)  /\ GoTo(r, "update") /\ Succeeds
     \/ ~HasCode(r) /\ GoTo(r, "newcode") /\ Succeeds
     \/ GoTo(r, "newcode") /\ Fails
  /\ Fixed /\ UNCHANGED <<tables, found>>

(* Mutant: the result of the UPDATE is not looked at.                      *)
UpdateCode_Unchecked(r) ==
  /\ at[r] = "update"
  /\ Return(r, 0) /\ Fails
  /\ Fixed /\ UNCHANGED <<tables, found>>

UpdateCode(r) ==
  /\ at[r] = "update"
  /\ \/ /\ code' = [code EXCEPT ![arg[r].table] =
                      {IF row.token = arg[r].token THEN [row EXCEPT !.by = r]
                                                   ELSE row : row \in @}]
        /\ Return(r, 0) /\ Succeeds
     \/ Return(r, -3) /\ Fails /\ UNCHANGED code
  /\ Fixed /\ UNCHANGED <<user, bike, command, found>>

InsertCode(r) ==
  /\ at[r] = "newcode"
  /\ \/ /\ code' = [code EXCEPT ![arg[r].table] =
                      @ \cup {[token |-> arg[r].token, by |-> r]}]
        /\ Return(r, 0) /\ Succeeds
     \/ Return(r, -3) /\ Fails /\ UNCHANGED code
  /\ Fixed /\ UNCHANGED <<user, bike, command, found>>

Statement(r) ==
  \/ CheckName(r) \/ InsertUser(r)
  \/ CheckCode(r) \/ FindOld(r) \/ Rename(r) \/ MoveBikes(r) \/ UseCode(r)
  \/ LookUpCard(r) \/ CheckFree(r) \/ InsertBike(r)
  \/ FindUser(r) \/ FindBikes(r) \/ SetCommand(r)
  \/ LookForCode(r) \/ UpdateCode(r) \/ InsertCode(r)

Next == \E r \in Request : Statement(r) \/ \E a \in Args : Begin(r, a)

Spec == Init /\ [][Next]_vars

-----------------------------------------------------------------------------

Step == {"idle", "name", "newuser", "valid", "old", "rename", "bikes", "use",
         "card", "free", "newbike", "user", "owned", "set", "code", "update",
         "newcode", "done"}
Writer == Request \cup {Before}

(* Type correctness: each row has a writer, each request is at a statement *)
(* of its handler.                                                         *)
TypeOK ==
  /\ orderly \in BOOLEAN
  /\ user \subseteq [id : Name \cup Request, name : Name, token : Token, by : Writer]
  /\ bike \subseteq [name : Name, card : Card, by : Writer]
  /\ code \in [CodeTable -> SUBSET [token : Token, by : Request]]
  /\ command \in [Table -> SUBSET [card : Card, by : Request]]
  /\ arg \in [Request -> Args \cup {NoArg}]
  /\ at \in [Request -> Step]
  /\ found \in [Request -> Name \cup {None}]
  /\ ret \in [Request -> {0, -1, -2, -3, -4, -5, -6, -12, Pending}]
  /\ failures \in 0..MaxFailures
  /\ met \subseteq Request \X Request

Met(q, r) == <<q, r>> \in met
Later(q, r) == q > r \/ Met(q, r)     \* q had not ended before r began
Done(r, kinds) == arg[r].kind \in kinds /\ ret[r] = 0

(* A card is bound once, unless the bindings were under way together:      *)
(* WX_ResponseWebBind looks for the card and inserts it in two statements. *)
CardBoundOnce ==
  \A b, c \in bike : b # c /\ b.card = c.card => Met(b.by, c.by)

(* The same for the name of an account, unless it was given by a change:   *)
(* WX_ResponseWebForgetRegister does not look whether the name is taken.   *)
NameTakenOnce ==
  \A u, v \in user :
    u # v /\ u.name = v.name =>
      \/ Met(u.by, v.by)
      \/ \E r \in {u.by, v.by} :
           r >= u.by /\ r >= v.by /\ r \in Request /\ arg[r].kind = "change"

(* A code that was given serves for one change: behind each change there   *)
(* is a code given later than every change of the user before it.          *)
CodeUsedOnce ==
  \A r \in Request : Done(r, {"change"}) =>
    \E q \in Request :
      /\ Done(q, {"forget"}) /\ arg[q].token = arg[r].token /\ Later(r, q)
      /\ \A p \in Request :
           /\ Done(p, {"change"}) /\ arg[p].token = arg[r].token
           /\ p < r /\ ~Met(p, r)
           => Later(q, p)

(* What a user was told stands: the code in an answer is the one in the    *)
(* table, unless it has been replaced or used by another request of the    *)
(* same user; a command that was confirmed is in its table until a later   *)
(* one replaces it, be it for another card (the row of every command has   *)
(* the same key).                                                          *)
CodeStands(q) ==
  \/ [token |-> arg[q].token, by |-> q] \in code[arg[q].table]
  \/ \E r \in Begun \ {q} :
       /\ arg[r].kind \in {arg[q].kind, "change"}
       /\ arg[r].token = arg[q].token /\ Later(r, q)

CommandStands(q) ==
  \/ [card |-> arg[q].card, by |-> q] \in command[arg[q].table]
  \/ \E r \in Request \ {q} :
       Done(r, {"command"}) /\ arg[r].table = arg[q].table /\ Later(r, q)

ConfirmedStands ==
  \A q \in Request :
    /\ Done(q, {"forget", "unbind"}) => CodeStands(q)
    /\ Done(q, {"command"}) => CommandStands(q)

(* A bike has an owner.  Where it has none, it was bound to a name without *)
(* an account, or a change left it behind: one between its two updates, or *)
(* stopped there, or under way with the binding or with another change of  *)
(* the user, or of a user with two accounts, whose bikes had two names.    *)
LeftBehind(b, r) ==
  /\ arg[r].kind = "change"
  /\ \/ found[r] = b.name /\ (at[r] = "bikes" \/ ret[r] = -5 \/ Met(r, b.by))
     \/ Cardinality(RowsOf(arg[r].token)) > 1
     \/ \E q \in Request : Met(r, q) /\ arg[q].kind = "change"
                                     /\ arg[q].token = arg[r].token

BikesHaveOwners ==
  \A b \in bike : b.name \notin Names =>
    \/ b.by \in Request /\ found[b.by] = None
    \/ \E r \in Request : LeftBehind(b, r)

-----------------------------------------------------------------------------
(* When requests are orderly, each is atomic: a change takes effect with   *)
(* its first update, and the bikes it has still to move and the code it    *)
(* has still to delete count as moved and used.                            *)
Changing(t, steps) ==
  {r \in UnderWay : arg[r].kind = "change" /\ arg[r].token = t /\ at[r] \in steps}

NameOf(t) ==
  IF RowsOf(t) = {} THEN None ELSE (CHOOSE u \in RowsOf(t) : TRUE).name

Owns(t, b) ==
  \/ NameOf(t) = b.name
  \/ \E r \in Changing(t, {"bikes"}) : found[r] = b.name

OwnerOf(c) ==
  IF \E t \in Token, b \in bike : b.card = c /\ Owns(t, b)
    THEN CHOOSE t \in Token : \E b \in bike : b.card = c /\ Owns(t, b)
    ELSE None

Coded ==
  {t \in Token : /\ \E row \in code["forget_code"] : row.token = t
                 /\ Changing(t, {"bikes", "use"}) = {}}

Atomic == INSTANCE AtomicAccounts WITH
            name  <- [t \in Token |-> NameOf(t)],
            owner <- [c \in Card |-> OwnerOf(c)],
            coded <- Coded

(* An orderly run of the account pages is one of AtomicAccounts.           *)
ImplementsAtomic ==
  /\ orderly => Atomic!Init
  /\ [][orderly => Atomic!Next \/ UNCHANGED Atomic!vars]_vars
=============================================================================
