------------------------------ MODULE MCGeminiTasks ------------------------------
(* Small instances of GeminiTasks for TLC.                                        *)
EXTENDS GeminiTasks, TLC

CONSTANTS r1, r2, r3, r4, t1, t2

RequestSymmetry == Permutations(Requests)
==================================================================================
