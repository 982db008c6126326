---------------------------- MODULE MCDrivePages ----------------------------
(* One file, one shared file, one spare identifier and two folders.        *)
EXTENDS DrivePages
CONSTANTS f, g, fresh, a, b
MCFiles == {f, g, fresh}
MCFolders == {a, b}
MCForeign == {g}
MCSpare == {fresh}
MCFavourites == {f, a}
MCMedia == {f}
Inside(S) == [i \in MCFiles \cup MCFolders |-> IF i \in S THEN a ELSE Root]
MCStart == {Inside({})}
MCBefore == {Inside({b})}
MCBinned == {b}
Ask(what, i, to) == [what |-> what, folder |-> i \in MCFolders, item |-> i, to |-> to]
MCOtherAsks == {Ask("move", f, a), Ask("trash", f, Root), Ask("destroy", b, Root),
                Ask("restore", b, Root), Ask("move", a, b)}
MCMatching == {f, b}
=============================================================================
