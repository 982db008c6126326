----------------------------- MODULE MCOpenFile -----------------------------
(* Two files, of one name or of two.                                       *)
EXTENDS OpenFile, TLC
CONSTANTS letter, report, here, there
Interchangeable == Permutations(Names)
=============================================================================
