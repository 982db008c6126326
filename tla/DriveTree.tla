------------------------------ MODULE DriveTree ------------------------------
(***************************************************************************)
(* The folders, the files and the trash of one user, as the endpoints of   *)
(* folders.py, files.py and trash.py keep them: one row per item, with its *)
(* place, the place it had when it was trashed, and the trash flag.        *)
(*                                                                         *)
(* A request is a record [what, folder, item, to]: the verb, whether the   *)
(* folder endpoint or the file endpoint is called, the identifier in the   *)
(* path and the destination.  Grants(r) is the endpoint's checks and       *)
(* Served(r) the rows it commits.                                          *)
(***************************************************************************)
EXTENDS Naturals, FiniteSets

CONSTANTS
  Files,      \* identifiers of files, those a copy will create included
  Folders,    \* identifiers of folders
  Foreign,    \* the files of other users that are shared with this one
  Root        \* the null parent

ASSUME TreeAssumption ==
  /\ IsFiniteSet(Files) /\ IsFiniteSet(Folders)
  /\ Files \cap Folders = {} /\ Foreign \subseteq Files
  /\ Root \notin Files \cup Folders

VARIABLE rows

Items == Files \cup Folders
Places == Folders \cup {Root}

(* A row.  An orig of Root is the null original_folder_id, which a restore *)
(* writes over the place like any other value.                             *)
Row == [parent : Places, orig : Places, trashed : BOOLEAN,
        state : {"unborn", "live", "gone"}]

Exists(d) == d \notin {x \in Folders : rows[x].state # "live"}
Live(i) == rows[i].state = "live"
Children(p) == {i \in Items : rows[i].parent = p}

(* _folder_is_descendant, when it answers that place d is not below a: d   *)
(* is the root or hangs from it.  Anywhere else it takes the identifier of *)
(* the parent for a row, and the request ends in an error.                 *)
NotBelow(d, a) == d \in ({Root} \cup Children(Root)) \ {a}

Request == [what : {"trash", "restore", "destroy", "erase", "move", "copy"},
            folder : BOOLEAN, item : Items, to : Places]

(* The identifier names a row of the kind the endpoint looks up.           *)
Found(r) ==
  /\ IF r.folder THEN r.item \in Folders ELSE r.item \in Files
  /\ rows[r.item].state # "unborn"
  /\ r.item \in Folders => Live(r.item)

GrantsTrash(r) == r.what = "trash" /\ Found(r) /\ r.item \notin Foreign

(* Nothing asks whether the item is in the trash; a place whose folder is  *)
(* gone is refused by the foreign key.                                     *)
GrantsRestore(r) ==
  /\ r.what = "restore" /\ Found(r) /\ r.item \notin Foreign
  /\ Exists(rows[r.item].orig)

GrantsDestroy(r) ==
  /\ r.what = "destroy" /\ Found(r) /\ r.item \notin Foreign
  /\ rows[r.item].trashed

GrantsErase(r) ==
  /\ r.what = "erase" /\ ~r.folder /\ Found(r) /\ r.item \notin Foreign

GrantsMoveFile(r) ==
  /\ r.what = "move" /\ ~r.folder /\ Found(r) /\ r.item \notin Foreign
  /\ Live(r.item) /\ Exists(r.to)

\* Mutant: only the folder itself is refused as its new parent.
GrantsMoveFolderDown(r) ==
  /\ r.what = "move" /\ r.folder /\ Found(r)
  /\ Exists(r.to) /\ r.to # r.item

GrantsMoveFolder(r) ==
  /\ r.what = "move" /\ r.folder /\ Found(r)
  /\ Exists(r.to) /\ NotBelow(r.to, r.item)

GrantsCopy(r) ==
  /\ r.what = "copy" /\ ~r.folder /\ Found(r) /\ Live(r.item) /\ Exists(r.to)
  /\ \E n \in Files : rows[n].state = "unborn"

Grants(r) ==
  \/ GrantsTrash(r) \/ GrantsRestore(r) \/ GrantsDestroy(r) \/ GrantsErase(r)
  \/ GrantsMoveFile(r) \/ GrantsMoveFolder(r) \/ GrantsCopy(r)

Trashed(r) ==
  [rows EXCEPT ![r.item].trashed = TRUE, ![r.item].orig = rows[r.item].parent]

Restored(r) ==
  [rows EXCEPT ![r.item].trashed = FALSE, ![r.item].parent = rows[r.item].orig,
               ![r.item].orig = Root]

(* The ORM sets the foreign keys to a deleted folder to null, so that what *)
(* the folder held comes up at the root.  A destroyed file keeps its row.  *)
Without(gone) ==
  [i \in Items |->
     [rows[i] EXCEPT
        !.state = IF i \in gone THEN "gone" ELSE @,
        !.parent = IF @ \in gone THEN Root ELSE @]]

Moved(r) == [rows EXCEPT ![r.item].parent = r.to]

Copied(r) ==
  LET n == CHOOSE n \in Files : rows[n].state = "unborn"
  IN  [rows EXCEPT ![n] = [parent |-> r.to, orig |-> Root, trashed |-> FALSE,
                           state |-> "live"]]

Served(r) ==
  CASE r.what = "trash"   -> Trashed(r)
    [] r.what = "restore" -> Restored(r)
    [] r.what = "move"    -> Moved(r)
    [] r.what = "copy"    -> Copied(r)
    [] OTHER              -> Without({r.item})

(* What the trash holds, and what emptying it leaves.                      *)
InTrash == {i \in Items \ Foreign : Live(i) /\ rows[i].trashed}
Emptied == Without(InTrash)

(* The listing of a place: the files that are not in the trash, and the    *)
(* folders whether they are or not.                                        *)
Listing(p) ==
  {i \in Children(p) \ Foreign : Live(i) /\ (i \in Files => ~rows[i].trashed)}

(* The items are live where the start puts them; some of those in binned   *)
(* are in the trash, perhaps moved since they came there.                  *)
TreeInit(places, unborn, binned, origins) ==
  \E parent \in places, before \in origins, bin \in SUBSET binned :
    rows = [i \in Items |->
              [parent |-> parent[i],
               orig |-> IF i \in bin THEN before[i] ELSE Root,
               trashed |-> i \in bin,
               state |-> IF i \in unborn THEN "unborn" ELSE "live"]]
=============================================================================
