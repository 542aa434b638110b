----------------------------- MODULE MCChatgptTasks ------------------------------
(* Small instances of ChatgptTasks for TLC.                                       *)
EXTENDS ChatgptTasks, TLC

CONSTANTS r1, r2, r3, r4, c1, t1

RequestSymmetry == Permutations(Requests)
==================================================================================
