---------------------------- MODULE MCSharedFile ----------------------------
(* The owner in two tabs, a colleague and a guest.                         *)
EXTENDS SharedFile, TLC
CONSTANTS bob, tab1, tab2
Interchangeable == Permutations(OwnerTabs)
=============================================================================
