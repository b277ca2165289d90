--------------------------- MODULE MCConnections ---------------------------
(* Small instances of Connections.  Handles are interchangeable, and so    *)
(* are the workers.                                                        *)
EXTENDS Connections, TLC

ConnSymmetry == Permutations(Handle) \cup Permutations(Worker)
=============================================================================
