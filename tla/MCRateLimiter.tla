------------------------------ MODULE MCRateLimiter ------------------------------
(* Small instances of RateLimiter for TLC.                                        *)
EXTENDS RateLimiter, TLC

CONSTANTS r1, r2, r3, r4, r5, c1, c2

RequestSymmetry == Permutations(Requests)
==================================================================================
