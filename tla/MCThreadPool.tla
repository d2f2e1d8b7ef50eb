---------------------------- MODULE MCThreadPool ----------------------------
(* Small instances of ThreadPool.  One thread more than jobs is enough: a  *)
(* job makes the pool start at most one thread.                            *)
EXTENDS ThreadPool

CONSTANTS t1, t2, t3, t4, j1, j2, j3
=============================================================================
