--------------------------- MODULE MCMailSession ---------------------------
(* A small instance of MailSession.                                        *)
EXTENDS MailSession
=============================================================================
