--------------------------- MODULE FolderSharing ---------------------------
(***************************************************************************)
(* What sharing a folder promises, with each request one step: a user      *)
(* reaches a file through a folder only while the folder is shared with    *)
(* that user, and ending the share ends the reach in the same step.        *)
(* Permissions, run one request at a time, implements it.                  *)
(***************************************************************************)
CONSTANTS Users, Folders, Files

VARIABLES
    shared,     \* the pairs <<u, d>>: folder d is shared with u
    reach       \* the triples <<u, f, d>>: u reaches file f through folder d

vars == <<shared, reach>>

Through(u, d) == {<<u, f, d>> : f \in Files}
Promised == UNION {Through(pair[1], pair[2]) : pair \in shared}

Init == shared = {} /\ reach = {}

ShareFolder(u, d) == shared' = shared \cup {<<u, d>>} /\ UNCHANGED reach

\* Files enter the folders, leave them, or are taken over by another folder.
Refresh == reach' \subseteq reach \cup Promised /\ UNCHANGED shared

Unshare(u, d) ==
    /\ shared' = shared \ {<<u, d>>}
    /\ reach' = reach \ Through(u, d)

Next ==
    \/ \E u \in Users, d \in Folders : ShareFolder(u, d) \/ Unshare(u, d)
    \/ Refresh

Spec == Init /\ [][Next]_vars
=============================================================================
