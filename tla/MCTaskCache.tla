------------------------------- MODULE MCTaskCache -------------------------------
(* Small instances of TaskCache for TLC.                                          *)
EXTENDS TaskCache, TLC

CONSTANTS r1, r2, r3, r4, r5, t1, t2

RequestSymmetry == Permutations(Requests)
==================================================================================
