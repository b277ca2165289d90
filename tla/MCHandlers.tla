----------------------------- MODULE MCHandlers -----------------------------
(* A small instance of Handlers.  Requests, handles and names of bikes are *)
(* interchangeable.                                                        *)
EXTENDS Handlers, TLC

HandlersSymmetry == Permutations(Request \ Idle) \cup Permutations(Handle) \cup Permutations(Name)
=============================================================================
