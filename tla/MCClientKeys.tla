---------------------------- MODULE MCClientKeys ----------------------------
(* Two devices of the account and another account that shares with it.     *)
EXTENDS ClientKeys, TLC

DeviceSymmetry == Permutations(Devices)
=============================================================================
