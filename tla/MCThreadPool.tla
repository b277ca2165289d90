---------------------------- MODULE MCThreadPool ----------------------------
(* Small instances of ThreadPool: the number of threads, callers and calls *)
(* is given in the configurations.                                         *)
EXTENDS ThreadPool
=============================================================================
