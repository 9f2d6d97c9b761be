----------------------------- MODULE MCSharedStore -----------------------------
(* Two request threads, of one process or of two.                            *)
EXTENDS SharedStore

CONSTANTS p1, p2, t1, t2
=============================================================================
