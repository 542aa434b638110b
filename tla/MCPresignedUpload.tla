---------------------------- MODULE MCPresignedUpload ----------------------------
(* Small instances of PresignedUpload for TLC.                                    *)
EXTENDS PresignedUpload, TLC

CONSTANTS r1, r2, r3, r4, empty, image, video, big

\* Bytes: with a limit of one byte, "image" and "video" are within the range.
Bytes == [f \in Files |-> CASE f = empty -> 0 [] f = big -> 2 [] OTHER -> 1]

RequestSymmetry == Permutations(Requests)
==================================================================================
