--------------------------- MODULE MCPermissions ---------------------------
(* Instances of Permissions for TLC. *)
EXTENDS Permissions, TLC

CONSTANTS alice, bob, top, sub, f1, f2

\* Alice owns everything; sub is a folder inside top.
AliceOwnsFolders == [d \in Folders |-> alice]
AliceOwnsFiles == [f \in Files |-> alice]
Nested == [d \in Folders |-> IF d = top THEN Folders ELSE {d}]

Interchangeable == Permutations(PermIds) \cup Permutations(Sessions)
=============================================================================
