------------------------------- MODULE MCGeminiApp -------------------------------
(* Small instances of GeminiApp for TLC.                                          *)
EXTENDS GeminiApp

CONSTANTS r1, r2, r3, c1, c2, t1
==================================================================================
