---------------------------- MODULE MCAuditChain ----------------------------
(* Instances of AuditChain for TLC. *)
EXTENDS AuditChain, TLC

CONSTANTS alice, bob

Interchangeable == Permutations(Users) \cup Permutations(Writers)
=============================================================================
