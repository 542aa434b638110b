----------------------------- MODULE MCServerProcess -----------------------------
(* Small instances of ServerProcess for TLC.                                      *)
EXTENDS ServerProcess

CONSTANTS r1, r2, r3
==================================================================================
