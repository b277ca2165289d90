--------------------------- MODULE AtomicAccounts ---------------------------
(***************************************************************************)
(* What the account pages of the server promise one user: each of          *)
(* registering, asking for a code, changing the account and binding a card *)
(* happens as a whole or not at all.  A WeChat user (a token) has at most  *)
(* one account, the name of an account is its own, a card belongs to one   *)
(* user, whatever the name of the account is at the moment, and a code     *)
(* serves for one change.  Accounts shows when the code keeps this.        *)
(***************************************************************************)
CONSTANTS Name, Token, Card, None

VARIABLES
  name,     \* the name of the account of each user, or None
  owner,    \* the user a card is bound to, or None
  coded     \* the users who hold a code that has not been used

vars == <<name, owner, coded>>

Taken(n) == \E t \in Token : name[t] = n

Init ==
  /\ name  \in [Token -> Name \cup {None}]
  /\ \A t, u \in Token : t # u /\ name[t] = name[u] => name[t] = None
  /\ owner \in [Card -> Token \cup {None}]
  /\ \A c \in Card : owner[c] # None => name[owner[c]] # None
  /\ coded \subseteq Token

Register(t, n) ==
  /\ name[t] = None
  /\ ~Taken(n)
  /\ name' = [name EXCEPT ![t] = n]
  /\ UNCHANGED <<owner, coded>>

Ask(t) ==
  /\ coded' = coded \cup {t}
  /\ UNCHANGED <<name, owner>>

Change(t, n) ==
  /\ t \in coded
  /\ name[t] # None
  /\ name[t] = n \/ ~Taken(n)
  /\ name'  = [name EXCEPT ![t] = n]
  /\ coded' = coded \ {t}
  /\ UNCHANGED owner

Bind(t, c) ==
  /\ name[t] # None
  /\ owner[c] = None
  /\ owner' = [owner EXCEPT ![c] = t]
  /\ UNCHANGED <<name, coded>>

Next ==
  \E t \in Token :
    \/ Ask(t)
    \/ \E n \in Name : Register(t, n) \/ Change(t, n)
    \/ \E c \in Card : Bind(t, c)

Spec == Init /\ [][Next]_vars

(* A card is bound only to a user who has an account, and two users never  *)
(* have accounts of the same name.                                         *)
Consistent ==
  /\ \A c \in Card : owner[c] # None => name[owner[c]] # None
  /\ \A t, u \in Token : t # u /\ name[t] # None => name[t] # name[u]
=============================================================================
