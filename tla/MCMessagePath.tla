--------------------------- MODULE MCMessagePath ---------------------------
(* Small instances of MessagePath.  Connections and IOCP workers are       *)
(* interchangeable.                                                        *)
EXTENDS MessagePath, TLC

PathSymmetry == Permutations(Conn) \cup Permutations(Worker)
=============================================================================
