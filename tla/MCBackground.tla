---------------------------- MODULE MCBackground ----------------------------
(* Small instances of Background.                                          *)
EXTENDS Background
=============================================================================
