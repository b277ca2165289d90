------------------------------- MODULE Mailer -------------------------------
(***************************************************************************)
(* What Email_SMTP_send_simple promises the thread that calls it: when it  *)
(* returns, it says nothing of whether the mail server has accepted the    *)
(* mail, which may also happen late; or, once the mail is accepted, it may *)
(* end the process.  That it returns is not promised: a server can hold it *)
(* (SessionEnds of MailSession, which implements this).                    *)
(***************************************************************************)
VARIABLES
  call,     \* the state of the call
  taken     \* the server has accepted the mail

vars == <<call, taken>>

Init == call = "none" /\ taken = FALSE

Start ==
  /\ call = "none"
  /\ call' = "running"
  /\ UNCHANGED taken

Accept ==
  /\ call \in {"running", "returned"}
  /\ taken' = TRUE
  /\ UNCHANGED call

Return ==
  /\ call = "running"
  /\ call' = "returned"
  /\ UNCHANGED taken

Die ==
  /\ call = "running" /\ taken
  /\ call' = "died"
  /\ UNCHANGED taken

(* The call is done with, or the process begins again.                     *)
Clear ==
  /\ call \in {"returned", "died"}
  /\ call' = "none" /\ taken' = FALSE

Next == Start \/ Accept \/ Return \/ Die \/ Clear

Spec == Init /\ [][Next]_vars

TypeOK ==
  /\ call \in {"none", "running", "returned", "died"}
  /\ taken \in BOOLEAN

(* Nobody dies of a mail that was not accepted.                            *)
DeadWereTaken == call = "died" => taken
=============================================================================
