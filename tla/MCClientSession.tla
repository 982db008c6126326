--------------------------- MODULE MCClientSession ---------------------------
(* Two users on one tab, two or three calls under way.                     *)
EXTENDS ClientSession, TLC

CallSymmetry == Permutations(Slots)
=============================================================================
