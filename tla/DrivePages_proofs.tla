------------------------- MODULE DrivePages_proofs -------------------------
(* Proofs about DrivePages: types, that whatever is destroyed was in the   *)
(* trash before, that the tree loses nothing, and that a page shows what   *)
(* the server has.                                                         *)
EXTENDS DrivePages, SequenceTheorems, TLAPS

Kinds == {"trash", "trash1", "erase", "restore", "destroy", "empty", "move", "copy"}
ModalType ==
  [kind : Kinds \cup {"none"}, items : SUBSET Items, folders : SUBSET Folders]

Counts ==
  /\ acts \in [tab : Nat, nav : Nat, other : Nat]
  /\ acts.tab <= MaxActs /\ Len(calls) <= acts.tab

(* What erases aims at the files of others: the server refuses it.         *)
Foreigners(kind, items) == kind = "erase" => items \subseteq Foreign
AimedModal == {m \in ModalType : Foreigners(m.kind, m.items)}
AimedCall == {c \in CallType : Foreigners(c.kind, c.todo)}

Aimed ==
  /\ page = "shared" => list \subseteq Foreign
  /\ modal \in AimedModal /\ calls \in Seq(AimedCall)

IInv == TypeOK /\ Counts /\ Aimed

(* What a step may do to the rows. *)
Spares ==
  \A i \in Items : rows[i].state = "live" /\ rows'[i].state = "gone" => rows[i].trashed

Sound == IInv' /\ Spares

-----------------------------------------------------------------------------
(* The server *)

LEMMA LiveSpared ==
  ASSUME UNCHANGED rows
  PROVE  Spares
  BY DEF Spares

LEMMA WithoutSpares ==
  ASSUME rows \in [Items -> Row], NEW gone, \A i \in gone : rows[i].trashed,
         rows' = Without(gone)
  PROVE  rows' \in [Items -> Row] /\ Spares
  <1>1. ASSUME NEW i \in Items
        PROVE  /\ rows'[i] \in Row
               /\ rows[i].state = "live" /\ rows'[i].state = "gone" => i \in gone
    <2>1. rows[i] \in Row
      OBVIOUS
    <2>2. rows'[i] = [rows[i] EXCEPT
             !.state = IF i \in gone THEN "gone" ELSE rows[i].state,
             !.parent = IF rows[i].parent \in gone THEN Root ELSE rows[i].parent]
      BY DEF Without
    <2>3. CASE i \in gone
      BY <2>1, <2>2, <2>3 DEF Row, Places
    <2>4. CASE i \notin gone
      BY <2>1, <2>2, <2>4 DEF Row, Places
    <2> QED BY <2>3, <2>4
  <1>2. rows' \in [Items -> Row]
    BY <1>1 DEF Without
  <1>3. Spares
    BY <1>1 DEF Spares
  <1> QED BY <1>2, <1>3

LEMMA ServedSpares ==
  ASSUME rows \in [Items -> Row], NEW r, r.item \in Items, r.to \in Places, Grants(r),
         r.what = "erase" => r.item \in Foreign, rows' = Served(r)
  PROVE  rows' \in [Items -> Row] /\ Spares
  <1>1. CASE r.what = "trash"
    BY <1>1 DEF Served, Trashed, Row, Spares
  <1>2. CASE r.what = "restore"
    <2> PICK i \in Items : i = r.item
      OBVIOUS
    <2>1. rows[i] \in Row
      OBVIOUS
    <2> DEFINE new == [rows[i] EXCEPT !.trashed = FALSE, !.parent = rows[i].orig, !.orig = Root]
    <2>2. new \in Row /\ new.state = rows[i].state
      BY <2>1 DEF Row, Places
    <2>3. rows' = [rows EXCEPT ![i] = new]
      BY <1>2 DEF Served, Restored
    <2> HIDE DEF new
    <2> QED BY <2>2, <2>3 DEF Spares
  <1>3. CASE r.what = "move"
    BY <1>3 DEF Served, Moved, Row, Spares
  <1>4. CASE r.what = "copy"
    <2>1. \E n \in Files : rows[n].state = "unborn"
      BY <1>4 DEF Grants, GrantsTrash, GrantsRestore, GrantsDestroy, GrantsErase,
         GrantsMoveFile, GrantsMoveFolder, GrantsCopy
    <2> DEFINE n == CHOOSE n \in Files : rows[n].state = "unborn"
    <2>2. n \in Items
      BY <2>1 DEF Items
    <2> PICK m \in Items : m = n
      BY <2>2
    <2>3. rows' = [rows EXCEPT ![m] = [parent |-> r.to, orig |-> Root, trashed |-> FALSE,
                                       state |-> "live"]]
      BY <1>4 DEF Served, Copied
    <2> HIDE DEF n
    <2> QED BY <2>3 DEF Row, Spares, Places
  <1>5. CASE r.what = "destroy"
    <2>1. rows[r.item].trashed
      BY <1>5 DEF Grants, GrantsTrash, GrantsRestore, GrantsDestroy, GrantsErase,
         GrantsMoveFile, GrantsMoveFolder, GrantsCopy
    <2>2. rows' = Without({r.item})
      BY <1>5 DEF Served
    <2> QED BY <2>1, <2>2, WithoutSpares
  <1>6. CASE r.what = "erase"
    BY <1>6 DEF Grants, GrantsTrash, GrantsRestore, GrantsDestroy, GrantsErase,
       GrantsMoveFile, GrantsMoveFolder, GrantsCopy
  <1>7. r.what \in {"trash", "restore", "move", "copy", "destroy", "erase"}
    BY DEF Grants, GrantsTrash, GrantsRestore, GrantsDestroy, GrantsErase,
       GrantsMoveFile, GrantsMoveFolder, GrantsCopy
  <1> QED BY <1>1, <1>2, <1>3, <1>4, <1>5, <1>6, <1>7

LEMMA EmptiedSpares ==
  ASSUME rows \in [Items -> Row], rows' = Emptied
  PROVE  rows' \in [Items -> Row] /\ Spares
  BY WithoutSpares DEF Emptied, InTrash

LEMMA Listed ==
  ASSUME NEW p, NEW d
  PROVE  ListingOf(p, d) \subseteq Items /\ ListingOf("shared", d) \subseteq Foreign
  BY TreeAssumption
  DEF ListingOf, SharedListing, TreePages, Listing, Children, InTrash, Items

LEMMA SomeCall ==
  ASSUME calls \in Seq(AimedCall), NEW k \in DOMAIN calls
  PROVE  /\ k \in 1 .. Len(calls) /\ calls[k] \in AimedCall
         /\ \A d \in AimedCall :
              /\ [calls EXCEPT ![k] = d] \in Seq(AimedCall)
              /\ Len([calls EXCEPT ![k] = d]) = Len(calls)
  BY LenProperties, ElementOfSeq, ExceptSeq

LEMMA FewerAimed ==
  ASSUME NEW c \in AimedCall, NEW left, left \subseteq c.todo
  PROVE  [c EXCEPT !.todo = left] \in AimedCall
  BY DEF AimedCall, CallType, Foreigners

-----------------------------------------------------------------------------
(* The primitives of the pages *)

LEMMA TickSound ==
  ASSUME IInv, NEW S \in SUBSET Items, Tick(S)
  PROVE  Sound
  BY DEF Sound, IInv, TypeOK, Counts, Aimed, Tick, Spares, dialog, history

LEMMA NavigateSound ==
  ASSUME IInv, NEW d \in Places, Navigate(d)
  PROVE  Sound
  BY DEF Sound, IInv, TypeOK, Counts, Aimed, Navigate, Going, Spares, dialog, Parts

LEMMA SearchSound ==
  ASSUME IInv, Search
  PROVE  Sound
  BY DEF Sound, IInv, TypeOK, Counts, Aimed, Search, Going, Spares, dialog, history

LEMMA OpenSound ==
  ASSUME IInv, NEW m \in AimedModal, NEW S \in SUBSET Items, Open(m, S)
  PROVE  Sound
  BY DEF Sound, IInv, TypeOK, Counts, Aimed, Open, Spares, AimedModal, ModalType, history

LEMMA CancelSound ==
  ASSUME IInv, Cancel
  PROVE  Sound
  BY DEF Sound, IInv, TypeOK, Counts, Aimed, Cancel, Spares, view, history, NoModal,
         AimedModal, ModalType, Foreigners

LEMMA BeginSound ==
  ASSUME IInv, NEW m \in AimedModal, m.kind \in Kinds, NEW to \in Places, Begin(m, to),
         modal' \in AimedModal, moving' \in BOOLEAN
  PROVE  Sound
  <1>1. Call(m, to) \in AimedCall
    BY DEF Call, AimedCall, CallType, AimedModal, ModalType, Kinds, IInv, TypeOK
  <1>2. /\ calls' \in Seq(AimedCall)
        /\ Len(calls') = Len(calls) + 1
    BY <1>1, AppendProperties DEF Begin, IInv, Aimed
  <1>3. calls' \in Seq(CallType)
    BY <1>2, SeqMonotonic DEF AimedCall
  <1>4. Counts'
    BY <1>2, LenProperties, PagesAssumption DEF IInv, Counts, Begin, Aimed
  <1>5. Len(calls') <= MaxActs
    BY <1>2, <1>4, LenProperties, PagesAssumption DEF Counts
  <1>6. modal'.items \subseteq Items /\ modal'.folders \subseteq Folders
    BY DEF AimedModal, ModalType
  <1> QED BY <1>2, <1>3, <1>4, <1>5, <1>6
          DEF Sound, IInv, TypeOK, Aimed, Begin, Spares, view, history

LEMMA ConfirmSound ==
  ASSUME IInv, Confirm
  PROVE  Sound
  <1>1. Root \in Places /\ modal \in AimedModal /\ modal.kind \in Kinds
    BY DEF Places, IInv, Aimed, Confirm, Kinds
  <1>2. modal' \in AimedModal /\ moving' \in BOOLEAN
    BY DEF Confirm, NoModal, AimedModal, ModalType, Foreigners, IInv, TypeOK
  <1> QED BY <1>1, <1>2, BeginSound DEF Confirm

LEMMA MoveToSound ==
  ASSUME IInv, NEW to \in Places, MoveTo(to)
  PROVE  Sound
  <1>1. modal \in AimedModal /\ modal.kind \in Kinds /\ modal' \in AimedModal
        /\ moving' \in BOOLEAN
    BY DEF IInv, Aimed, MoveTo, Kinds
  <1> QED BY <1>1, BeginSound DEF MoveTo

LEMMA CopyToSound ==
  ASSUME IInv, NEW to \in Places, CopyTo(to)
  PROVE  Sound
  <1>1. modal \in AimedModal /\ modal.kind \in Kinds /\ modal' \in AimedModal
        /\ moving' \in BOOLEAN
    BY DEF IInv, Aimed, TypeOK, CopyTo, Kinds, dialog
  <1> QED BY <1>1, BeginSound DEF CopyTo

LEMMA OpenPageSound ==
  ASSUME IInv, NEW p \in Pages, OpenPage(p)
  PROVE  Sound
  <1> DEFINE Left(c) == IF c.orphan THEN c ELSE [c EXCEPT !.orphan = TRUE, !.at = cwd]
  <1>1. ASSUME NEW k \in DOMAIN calls
        PROVE  Left(calls[k]) \in AimedCall
    <2>1. calls[k] \in AimedCall
      BY <1>1, SomeCall DEF IInv, Aimed
    <2> QED BY <2>1 DEF AimedCall, CallType, IInv, TypeOK
  <1>2. calls' = [k \in DOMAIN calls |-> Left(calls[k])]
    BY DEF OpenPage
  <1>3. DOMAIN calls = 1 .. Len(calls) /\ Len(calls) \in Nat
    BY LenProperties DEF IInv, Aimed
  <1> HIDE DEF Left
  <1>4. calls' \in [1 .. Len(calls) -> AimedCall]
    BY <1>1, <1>2, <1>3
  <1>5. calls' \in Seq(AimedCall) /\ Len(calls') = Len(calls)
    BY <1>3, <1>4, SeqDef, LenProperties
  <1>6. calls' \in Seq(CallType)
    BY <1>5, SeqMonotonic DEF AimedCall
  <1>7. /\ page' \in Pages /\ cwd' \in Places /\ fetching' \subseteq Parts
        /\ list' = {} /\ query' = FALSE /\ selected' = {} /\ hidden' = {} /\ dirty' = {}
        /\ UNCHANGED <<rows, modal, moving, other, knots>>
    BY DEF OpenPage, Loads, Parts, Places, dialog
  <1>8. acts' = [acts EXCEPT !.nav = @ + 1]
    BY DEF OpenPage, Going
  <1>9. Counts'
    BY <1>5, <1>8 DEF IInv, Counts
  <1>10. TypeOK' /\ Aimed' /\ Spares
    BY <1>5, <1>6, <1>7 DEF IInv, TypeOK, Aimed, Spares
  <1> QED BY <1>9, <1>10 DEF Sound, IInv

LEMMA ListArrivesSound ==
  ASSUME IInv, ListArrives
  PROVE  Sound
  <1>1. list' \subseteq Items /\ (page = "shared" => list' \subseteq Foreign)
    BY Listed DEF ListArrives, IInv, TypeOK, Aimed
  <1> QED BY <1>1 DEF Sound, IInv, TypeOK, Counts, Aimed, ListArrives, Spares, dialog

-----------------------------------------------------------------------------
(* The pages *)

LEMMA ForAimed ==
  ASSUME NEW kind \in Kinds, NEW S \in SUBSET Items, kind = "erase" => S \subseteq Foreign
  PROVE  For(kind, S) \in AimedModal
  BY DEF For, AimedModal, ModalType, Foreigners

LEMMA TicksSound ==
  ASSUME IInv, NEW S \in SUBSET Items,
         ToggleRows(S) \/ ReplaceRows(S) \/ Tick({}) \/ (\E i \in S : Toggle(i))
  PROVE  Sound
  <1>1. selected \subseteq Items
    BY DEF IInv, TypeOK
  <1>2. \E T \in SUBSET Items : Tick(T)
    <2>1. CASE ToggleRows(S)
      BY <1>1, <2>1 DEF ToggleRows
    <2>2. CASE ReplaceRows(S)
      BY <2>2 DEF ReplaceRows
    <2>3. CASE \E i \in S : Toggle(i)
      BY <1>1, <2>3 DEF Toggle
    <2> QED BY <2>1, <2>2, <2>3
  <1> QED BY <1>2, TickSound

LEMMA AsksSound ==
  ASSUME IInv, NEW S \in SUBSET Items, AskMove(S) \/ AskBulk(S)
  PROVE  Sound
  <1>1. selected \in SUBSET Items
    BY DEF IInv, TypeOK
  <1>2. CASE AskMove(S)
    <2>1. For("move", S) \in AimedModal
      BY ForAimed DEF Kinds
    <2> QED BY <1>1, <1>2, <2>1, OpenSound DEF AskMove
  <1>3. CASE AskBulk(S)
    <2>1. [kind |-> "trash", items |-> selected, folders |-> S \cap Folders] \in AimedModal
      BY <1>1 DEF AimedModal, ModalType, Kinds, Foreigners
    <2> QED BY <1>1, <1>3, <2>1, OpenSound DEF AskBulk
  <1> QED BY <1>2, <1>3

LEMMA OffersSound ==
  ASSUME IInv, NEW S \in SUBSET Items, NEW kinds \in SUBSET Kinds,
         "erase" \in kinds => S \subseteq Foreign, Offer(kinds, S)
  PROVE  Sound
  <1>1. PICK kind \in kinds, i \in S : Open(For(kind, {i}), selected)
    BY DEF Offer
  <1>2. For(kind, {i}) \in AimedModal /\ selected \in SUBSET Items
    BY ForAimed DEF IInv, TypeOK
  <1> QED BY <1>1, <1>2, OpenSound

LEMMA AskFirstSound ==
  ASSUME IInv, NEW S \in SUBSET Items, NEW kind \in Kinds,
         kind = "erase" => S \subseteq Foreign, AskFirst(kind, S)
  PROVE  Sound
  <1>1. CASE S = {}
    BY <1>1, TickSound DEF AskFirst
  <1>2. CASE S # {}
    <2>1. PICK i \in S : Open(For(kind, {i}), {})
      BY <1>2 DEF AskFirst
    <2>2. For(kind, {i}) \in AimedModal
      BY ForAimed
    <2> QED BY <2>1, <2>2, OpenSound
  <1> QED BY <1>1, <1>2

LEMMA RowsAreItems ==
  ASSUME IInv
  PROVE  /\ RowsDashboard \subseteq Items /\ RowsMine \subseteq Items
         /\ RowsFavs \subseteq Items /\ RowsMedia \subseteq Items
         /\ RowsShared \subseteq Items /\ RowsTrash \subseteq Items
         /\ page = "shared" => RowsShared \subseteq Foreign
         /\ Folders \subseteq Places /\ Root \in Places
  BY DEF IInv, TypeOK, Aimed, RowsDashboard, RowsMine, RowsFavs, RowsMedia, RowsShared,
     RowsTrash, Searched, Places

LEMMA DashboardSound ==
  ASSUME IInv, Dashboard
  PROVE  Sound
  <1> USE RowsAreItems
  <1>1. CASE TickAllDashboard
    BY <1>1, TicksSound DEF TickAllDashboard
  <1>2. CASE ToolbarDashboard
    BY <1>2, AsksSound DEF ToolbarDashboard
  <1>3. CASE BreadcrumbDashboard
    BY <1>3, NavigateSound DEF BreadcrumbDashboard
  <1>4. CASE MenuDashboard
    <2>1. CASE Offer({"trash1", "move"}, RowsDashboard)
      BY <2>1, OffersSound DEF Kinds
    <2>2. CASE Offer({"copy"}, RowsDashboard \cap Files)
      BY <2>2, OffersSound DEF Kinds
    <2> QED BY <1>4, <2>1, <2>2 DEF MenuDashboard
  <1>5. CASE MoveDialogDashboard
    BY <1>5, MoveToSound DEF MoveDialogDashboard
  <1>6. CASE CopyDialogDashboard
    BY <1>6, CopyToSound DEF CopyDialogDashboard
  <1>7. ASSUME NEW i \in RowsDashboard \cap Folders, FolderRowDashboard(i)
        PROVE  Sound
    BY <1>7, TicksSound, NavigateSound DEF FolderRowDashboard
  <1>8. ASSUME NEW i \in RowsDashboard \cap Files, FileRowDashboard(i)
        PROVE  Sound
    BY <1>8, TicksSound DEF FileRowDashboard
  <1> QED BY <1>1, <1>2, <1>3, <1>4, <1>5, <1>6, <1>7, <1>8 DEF Dashboard

LEMMA MineSound ==
  ASSUME IInv, Mine
  PROVE  Sound
  <1> USE RowsAreItems
  <1>1. CASE TickAllMine
    BY <1>1, TicksSound DEF TickAllMine
  <1>2. CASE ToolbarMine
    BY <1>2, AsksSound DEF ToolbarMine
  <1>3. CASE BreadcrumbMine
    BY <1>3, NavigateSound DEF BreadcrumbMine
  <1>4. CASE MenuMine
    BY <1>4, OffersSound DEF MenuMine, Kinds
  <1>5. CASE MoveDialogMine
    BY <1>5, MoveToSound DEF MoveDialogMine
  <1>6. ASSUME NEW i \in RowsMine \cap Folders, FolderRowMine(i)
        PROVE  Sound
    BY <1>6, TicksSound, NavigateSound DEF FolderRowMine
  <1>7. ASSUME NEW i \in RowsMine \cap Files, FileRowMine(i)
        PROVE  Sound
    BY <1>7, TicksSound DEF FileRowMine
  <1> QED BY <1>1, <1>2, <1>3, <1>4, <1>5, <1>6, <1>7 DEF Mine

LEMMA FavsSound ==
  ASSUME IInv, Favs
  PROVE  Sound
  <1> USE RowsAreItems
  <1>1. CASE TickAllFavs
    BY <1>1, TicksSound DEF TickAllFavs
  <1>2. CASE ToolbarFavs
    BY <1>2, AsksSound DEF ToolbarFavs
  <1>3. CASE MenuFavs
    BY <1>3, OffersSound DEF MenuFavs, Kinds
  <1>4. CASE MoveDialogFavs
    BY <1>4, MoveToSound DEF MoveDialogFavs
  <1>5. ASSUME NEW i \in RowsFavs, FolderRowFavs(i) \/ FileRowFavs(i)
        PROVE  Sound
    BY <1>5, TicksSound DEF FolderRowFavs, FileRowFavs
  <1> QED BY <1>1, <1>2, <1>3, <1>4, <1>5 DEF Favs

LEMMA MediaSound ==
  ASSUME IInv, MediaPage
  PROVE  Sound
  <1> USE RowsAreItems
  <1>1. CASE TickAllMedia
    BY <1>1, TicksSound DEF TickAllMedia
  <1>2. CASE ToolbarMedia
    BY <1>2, AskFirstSound, TicksSound DEF ToolbarMedia, Kinds
  <1>3. CASE MenuMedia
    BY <1>3, OffersSound DEF MenuMedia, Kinds
  <1>4. ASSUME NEW i \in RowsMedia, RowMedia(i)
        PROVE  Sound
    BY <1>4, TicksSound DEF RowMedia
  <1> QED BY <1>1, <1>2, <1>3, <1>4 DEF MediaPage

LEMMA SharedSound ==
  ASSUME IInv, Shared
  PROVE  Sound
  <1> USE RowsAreItems
  <1>1. CASE TickAllShared
    BY <1>1, TicksSound DEF TickAllShared
  <1>2. CASE ToolbarShared
    BY <1>2, AskFirstSound, TicksSound DEF ToolbarShared, Kinds, Shared
  <1>3. CASE MenuShared
    BY <1>3, OffersSound DEF MenuShared, Kinds, Shared
  <1>4. ASSUME NEW i \in RowsShared, RowShared(i)
        PROVE  Sound
    BY <1>4, TicksSound DEF RowShared
  <1> QED BY <1>1, <1>2, <1>3, <1>4 DEF Shared

LEMMA TrashSound ==
  ASSUME IInv, Trash
  PROVE  Sound
  <1> USE RowsAreItems
  <1>1. CASE TickAllTrash
    BY <1>1, TicksSound DEF TickAllTrash
  <1>2. CASE Offer({"destroy"}, RowsTrash)
    BY <1>2, OffersSound DEF Kinds
  <1>3. ASSUME NEW i \in RowsTrash, UNCHANGED dialog, Begin(For("restore", {i}), Root)
        PROVE  Sound
    <2>1. For("restore", {i}) \in AimedModal /\ For("restore", {i}).kind \in Kinds
      BY ForAimed DEF Kinds, For
    <2>2. modal' \in AimedModal /\ moving' \in BOOLEAN
      BY <1>3 DEF IInv, Aimed, TypeOK, dialog
    <2> QED BY <1>3, <2>1, <2>2, BeginSound
  <1>4. CASE AskEmpty
    <2>1. [kind |-> "empty", items |-> list, folders |-> {}] \in AimedModal
      BY DEF AimedModal, ModalType, Kinds, Foreigners, IInv, TypeOK
    <2> QED BY <1>4, <2>1, OpenSound DEF AskEmpty, IInv, TypeOK
  <1>5. ASSUME NEW i \in RowsTrash, RowTrash(i)
        PROVE  Sound
    BY <1>5, TicksSound DEF RowTrash
  <1> QED BY <1>1, <1>2, <1>3, <1>4, <1>5 DEF Trash, MenuTrash

-----------------------------------------------------------------------------
(* The answers *)

LEMMA RequestSpares ==
  ASSUME IInv, NEW k \in DOMAIN calls, NEW i \in calls[k].todo,
         Grants(RequestOf(calls[k], i)), rows' = Served(RequestOf(calls[k], i))
  PROVE  rows' \in [Items -> Row] /\ Spares
  <1>1. calls[k] \in AimedCall
    BY SomeCall DEF IInv, Aimed
  <1> PICK r : r = RequestOf(calls[k], i)
    OBVIOUS
  <1>2. r.item \in Items /\ r.to \in Places /\ (r.what = "erase" => r.item \in Foreign)
    BY <1>1 DEF RequestOf, Verb, AimedCall, CallType, Foreigners
  <1> QED BY <1>2, ServedSpares DEF IInv, TypeOK

LEMMA Changes ==
  ASSUME NEW new
  PROVE  Changed(new) \subseteq Items
  BY DEF Changed

(* Only a folder can hang below itself. *)
LEMMA KnotsTyped ==
  ASSUME IInv, NEW r, r.item \in Items, r.to \in Places
  PROVE  KnotsAfter(r) \subseteq Folders /\ Unasked(r.item, r.to) \subseteq Folders
  <1>1. ASSUME NEW d \in Places, r.item \in Way(d)
        PROVE  r.item \in Folders
    <2>1. r.item \in {d} \cup Places
      BY <1>1 DEF Way
    <2> QED BY <2>1, TreeAssumption DEF Places, Items
  <1>2. rows[r.item].orig \in Places /\ knots \subseteq Folders
    BY DEF IInv, TypeOK, Row
  <1> QED BY <1>1, <1>2 DEF KnotsAfter, Unasked

(* One call goes on with less to do; the rest keeps its type. *)
LEMMA CallGoesOn ==
  ASSUME IInv, NEW k \in DOMAIN calls, NEW d \in AimedCall, calls' = [calls EXCEPT ![k] = d],
         rows' \in [Items -> Row], list' \subseteq list, fetching' \subseteq Parts,
         hidden' \subseteq Files, dirty' \subseteq Items, knots' \subseteq Folders,
         UNCHANGED <<page, cwd, query, selected, dialog, acts, other>>
  PROVE  IInv'
  <1>1. calls' \in Seq(AimedCall) /\ Len(calls') = Len(calls)
    BY SomeCall DEF IInv, Aimed
  <1>2. calls' \in Seq(CallType)
    BY <1>1, SeqMonotonic DEF AimedCall
  <1> QED BY <1>1, <1>2 DEF IInv, TypeOK, Counts, Aimed, dialog

LEMMA AnsweredSound ==
  ASSUME IInv, NEW k \in DOMAIN calls, NEW i \in calls[k].todo, Answered(k, i)
  PROVE  Sound
  <1>1. calls[k] \in AimedCall
    BY SomeCall DEF IInv, Aimed
  <1>2. rows' \in [Items -> Row] /\ Spares
    BY RequestSpares DEF Answered
  <1>3. [calls[k] EXCEPT !.todo = calls[k].todo \ {i}] \in AimedCall
    BY <1>1, FewerAimed
  <1>4. calls' = [calls EXCEPT ![k] = [calls[k] EXCEPT !.todo = calls[k].todo \ {i}]]
    BY DEF Answered, Advance
  <1>10. RequestOf(calls[k], i).item \in Items /\ RequestOf(calls[k], i).to \in Places
    BY <1>1 DEF RequestOf, AimedCall, CallType
  <1>5. list' \subseteq list /\ dirty' \subseteq Items /\ knots' \subseteq Folders
    BY <1>10, Changes, KnotsTyped DEF Answered, IInv, TypeOK
  <1>6. Reloaded(calls[k], i) \subseteq Parts
    BY DEF Reloaded, Loads, Parts
  <1>7. Hides(calls[k], i) \subseteq Files
    BY DEF Hides
  <1>8. fetching' \subseteq Parts /\ hidden' \subseteq Files
        /\ UNCHANGED <<page, cwd, query, selected, dialog, acts, other>>
    BY <1>6, <1>7 DEF Answered, IInv, TypeOK
  <1>9. IInv'
    BY <1>2, <1>3, <1>4, <1>5, <1>8, CallGoesOn
  <1> QED BY <1>2, <1>9 DEF Sound

LEMMA FailedSound ==
  ASSUME IInv, NEW k \in DOMAIN calls, NEW i \in calls[k].todo, Failed(k, i)
  PROVE  Sound
  <1>1. calls[k] \in AimedCall
    BY SomeCall DEF IInv, Aimed
  <1>2. rows' \in [Items -> Row] /\ Spares
    <2>1. CASE UNCHANGED rows
      BY <2>1, LiveSpared DEF IInv, TypeOK
    <2>2. CASE Grants(RequestOf(calls[k], i)) /\ rows' = Served(RequestOf(calls[k], i))
      BY <2>2, RequestSpares
    <2> QED BY <2>1, <2>2 DEF Failed
  <1> PICK left : left = IF calls[k].kind = "trash" THEN calls[k].todo \ {i} ELSE {}
    OBVIOUS
  <1> PICK all : all = IF calls[k].kind = "move" THEN {} ELSE calls[k].all
    OBVIOUS
  <1>3. [[calls[k] EXCEPT !.todo = left] EXCEPT !.all = all] \in AimedCall
    <2>1. [calls[k] EXCEPT !.todo = left] \in AimedCall
      BY <1>1, FewerAimed
    <2>2. all \in SUBSET Items
      BY <1>1 DEF AimedCall, CallType
    <2> QED BY <2>1, <2>2 DEF AimedCall, CallType
  <1>4. calls' = [calls EXCEPT ![k] = [[calls[k] EXCEPT !.todo = left] EXCEPT !.all = all]]
    <2>1. calls' = [calls EXCEPT ![k].todo = left, ![k].all = all]
      BY DEF Failed
    <2> QED BY <2>1
  <1>8. RequestOf(calls[k], i).item \in Items /\ RequestOf(calls[k], i).to \in Places
    BY <1>1 DEF RequestOf, AimedCall, CallType
  <1>5. dirty' \subseteq Items /\ knots' \subseteq Folders
    BY <1>8, Changes, KnotsTyped DEF Failed, IInv, TypeOK, history
  <1>6. list' \subseteq list /\ fetching' \subseteq Parts /\ hidden' \subseteq Files
        /\ UNCHANGED <<page, cwd, query, selected, dialog, acts, other>>
    BY DEF Failed, view, IInv, TypeOK
  <1>7. IInv'
    BY <1>2, <1>3, <1>4, <1>5, <1>6, CallGoesOn
  <1> QED BY <1>2, <1>7 DEF Sound

LEMMA EmptyAnsweredSound ==
  ASSUME IInv, NEW k \in DOMAIN calls, EmptyAnswered(k)
  PROVE  Sound
  <1>1. calls[k] \in AimedCall
    BY SomeCall DEF IInv, Aimed
  <1>2. rows' \in [Items -> Row] /\ Spares
    <2>1. CASE UNCHANGED rows
      BY <2>1, LiveSpared DEF IInv, TypeOK
    <2>2. CASE rows' = Emptied
      BY <2>2, EmptiedSpares DEF IInv, TypeOK
    <2> QED BY <2>1, <2>2 DEF EmptyAnswered
  <1>3. [calls[k] EXCEPT !.todo = {}] \in AimedCall
    BY <1>1, FewerAimed
  <1>4. calls' = [calls EXCEPT ![k] = [calls[k] EXCEPT !.todo = {}]]
    BY DEF EmptyAnswered
  <1>5. dirty' \subseteq Items /\ list' \subseteq list
    BY Changes DEF EmptyAnswered, IInv, TypeOK
  <1>6. knots' \subseteq Folders /\ fetching' \subseteq Parts /\ hidden' \subseteq Files
        /\ UNCHANGED <<page, cwd, query, selected, dialog, acts, other>>
    BY DEF EmptyAnswered, IInv, TypeOK
  <1>7. IInv'
    BY <1>2, <1>3, <1>4, <1>5, <1>6, CallGoesOn
  <1> QED BY <1>2, <1>7 DEF Sound

LEMMA FinishSound ==
  ASSUME IInv, NEW k \in DOMAIN calls, Finish(k)
  PROVE  Sound
  <1>1. calls[k] \in AimedCall /\ k \in 1 .. Len(calls)
    BY SomeCall DEF IInv, Aimed
  <1>2. calls \in [1 .. Len(calls) -> AimedCall] /\ Len(calls) \in Nat
    BY LenProperties DEF IInv, Aimed
  <1>3. calls' \in [1 .. Len(calls) - 1 -> AimedCall]
    BY <1>1, <1>2 DEF Finish
  <1>4. calls' \in Seq(AimedCall) /\ Len(calls') = Len(calls) - 1
    <2>1. Len(calls) - 1 \in Nat
      BY <1>1, <1>2
    <2> QED BY <1>3, <2>1, SeqDef, LenProperties
  <1>5. calls' \in Seq(CallType)
    BY <1>4, SeqMonotonic DEF AimedCall
  <1>6. selected' \subseteq Items
    BY <1>1 DEF Finish, SelectedAfter, IInv, TypeOK, AimedCall, CallType
  <1>7. moving' \in BOOLEAN
    BY DEF Finish, MovingAfter, IInv, TypeOK
  <1>8. modal' \in AimedModal
    BY DEF Finish, ModalAfter, IInv, Aimed, NoModal, AimedModal, ModalType, Foreigners
  <1>9. modal'.items \subseteq Items /\ modal'.folders \subseteq Folders
    BY <1>8 DEF AimedModal, ModalType
  <1>10. UNCHANGED <<rows, page, cwd, list, fetching, query, hidden, acts, other, dirty, knots>>
    BY DEF Finish, history
  <1>11. Len(calls') <= Len(calls)
    BY <1>2, <1>4
  <1>12. Len(calls') <= MaxActs /\ Counts'
    BY <1>2, <1>4, <1>10, <1>11, PagesAssumption DEF IInv, TypeOK, Counts
  <1>13. TypeOK'
    BY <1>5, <1>6, <1>7, <1>9, <1>10, <1>12 DEF IInv, TypeOK
  <1>14. Aimed' /\ Spares
    BY <1>4, <1>8, <1>10 DEF IInv, Aimed, Spares
  <1> QED BY <1>12, <1>13, <1>14 DEF Sound, IInv

-----------------------------------------------------------------------------
(* The other session *)

LEMMA OtherServedSound ==
  ASSUME IInv, NEW new, NEW told, OtherServed(new, told), new \in [Items -> Row], Spares,
         other' \subseteq Request, knots' \subseteq Folders
  PROVE  Sound
  <1>1. fetching' \subseteq Parts /\ dirty' \subseteq Items /\ rows' \in [Items -> Row]
    BY Changes DEF OtherServed, IInv, TypeOK
  <1> QED BY <1>1 DEF OtherServed, Sound, IInv, TypeOK, Counts, Aimed, dialog

LEMMA Asked ==
  ASSUME NEW r \in OtherAsks
  PROVE  /\ r \in Request /\ r.item \in Items /\ r.to \in Places
         /\ r.what \notin {"copy", "erase"}
  BY PagesAssumption DEF Request

LEMMA OtherActsSound ==
  ASSUME IInv, NEW r \in OtherAsks, OtherActs(r)
  PROVE  Sound
  <1>1. rows' = Served(r) /\ Grants(r)
    BY DEF OtherActs, OtherServed
  <1>2. rows' \in [Items -> Row] /\ Spares
    BY <1>1, Asked, ServedSpares DEF IInv, TypeOK
  <1>3. other' \subseteq Request /\ knots' \subseteq Folders
    BY Asked, KnotsTyped DEF OtherActs, IInv, TypeOK
  <1> QED BY <1>1, <1>2, <1>3, OtherServedSound DEF OtherActs

LEMMA OtherCommitsSound ==
  ASSUME IInv, NEW r \in other, OtherCommits(r)
  PROVE  Sound
  <1>1. rows' = Moved(r) /\ r \in Request /\ rows \in [Items -> Row]
    BY DEF OtherCommits, OtherServed, IInv, TypeOK
  <1>2. rows' \in [Items -> Row] /\ Spares
    BY <1>1 DEF Moved, Row, Request, Spares
  <1>4. r.item \in Items /\ r.to \in Places
    BY <1>1 DEF Request
  <1>3. other' \subseteq Request /\ knots' \subseteq Folders
    BY <1>4, KnotsTyped DEF OtherCommits, IInv, TypeOK
  <1> QED BY <1>1, <1>2, <1>3, OtherServedSound DEF OtherCommits

LEMMA OtherAsidesSound ==
  ASSUME IInv, OtherGivesUp \/ \E r \in OtherAsks : OtherChecks(r)
  PROVE  Sound
  <1>1. other' \subseteq Request
    BY Asked DEF OtherGivesUp, OtherChecks
  <1>2. UNCHANGED <<rows, view, dialog, calls, acts, history>>
    BY DEF OtherGivesUp, OtherChecks
  <1> QED BY <1>1, <1>2 DEF Sound, IInv, TypeOK, Counts, Aimed, Spares, view, dialog, history

-----------------------------------------------------------------------------
LEMMA InitSound == Init => IInv
  <1> SUFFICES ASSUME Init
               PROVE  IInv
    OBVIOUS
  <1>1. rows \in [Items -> Row]
    <2> PICK parent \in Start, before \in Before, bin \in SUBSET Binned :
           rows = [i \in Items |->
                     [parent |-> parent[i],
                      orig |-> IF i \in bin THEN before[i] ELSE Root,
                      trashed |-> i \in bin,
                      state |-> IF i \in Spare THEN "unborn" ELSE "live"]]
      BY DEF Init, TreeInit
    <2>1. ASSUME NEW i \in Items
          PROVE  rows[i] \in Row
      <3>1. parent[i] \in Places /\ before[i] \in Places
        BY PagesAssumption
      <3>2. CASE i \in bin
        BY <3>1, <3>2 DEF Row, Places
      <3>3. CASE i \notin bin
        BY <3>1, <3>3 DEF Row, Places
      <3> QED BY <3>2, <3>3
    <2> QED BY <2>1
  <1>2. calls \in Seq(AimedCall) /\ calls \in Seq(CallType) /\ Len(calls) = 0
    BY EmptySeq DEF Init
  <1>3. modal \in AimedModal
    BY DEF Init, NoModal, AimedModal, ModalType, Foreigners
  <1>4. page \in Pages /\ cwd \in Places /\ fetching \subseteq Parts
    BY DEF Init, Places, Loads, Parts
  <1>5. modal.items \subseteq Items /\ modal.folders \subseteq Folders
    BY <1>3 DEF AimedModal, ModalType
  <1>6. Counts /\ Len(calls) <= MaxActs
    BY <1>2, PagesAssumption DEF Init, Counts
  <1>7. TypeOK
    BY <1>1, <1>2, <1>4, <1>5, <1>6 DEF Init, TypeOK
  <1>8. Aimed
    BY <1>2, <1>3 DEF Init, Aimed
  <1> QED BY <1>6, <1>7, <1>8 DEF IInv

LEMMA StepSound == IInv /\ [Next]_vars => Sound
  <1> SUFFICES ASSUME IInv, [Next]_vars
               PROVE  Sound
    OBVIOUS
  <1>1. CASE User
    BY <1>1, OpenPageSound, SearchSound, ConfirmSound, CancelSound, DashboardSound, MineSound,
       FavsSound, MediaSound, SharedSound, TrashSound DEF User
  <1>2. CASE ListArrives
    BY <1>2, ListArrivesSound
  <1>3. CASE Answers
    BY <1>3, AnsweredSound, FailedSound, EmptyAnsweredSound, FinishSound DEF Answers
  <1>4. CASE Other
    BY <1>4, OtherActsSound, OtherCommitsSound, OtherAsidesSound DEF Other
  <1>5. CASE UNCHANGED vars
    BY <1>5 DEF vars, view, dialog, history, Sound, IInv, TypeOK, Counts, Aimed, Spares
  <1> QED BY <1>1, <1>2, <1>3, <1>4, <1>5 DEF Next

(* In every reachable state the rows and the tab's state have their types  *)
(* and no dialog and no loop of the shared page aims at a file of one's    *)
(* own: what its "elimina" asks the server for is always refused           *)
(* (condivisi/page.tsx, files.py).                                         *)
THEOREM PagesAreAimed == Spec => []IInv
  <1>1. IInv /\ [Next]_vars => IInv'
    BY StepSound DEF Sound
  <1> QED BY <1>1, InitSound, PTL DEF Spec

(* Types, for any number of files, folders, pages and loops.               *)
THEOREM TypesHold == Spec => []TypeOK
  <1>1. IInv => TypeOK
    BY DEF IInv
  <1> QED BY <1>1, PagesAreAimed, PTL

(* Whatever the pages, the loops of unmounted pages, lost answers and the  *)
(* other session do, in whatever order, a file or folder that is destroyed *)
(* was in the trash when it was.                                           *)
THEOREM TrashComesFirst == Spec => TrashFirst
  <1>1. IInv /\ [Next]_vars =>
          [\A i \in Items :
             rows[i].state = "live" /\ rows'[i].state = "gone" => rows[i].trashed]_vars
    BY StepSound DEF Sound, Spares
  <1> QED BY <1>1, PagesAreAimed, PTL DEF Spec, TrashFirst

-----------------------------------------------------------------------------
(* The tree *)

(* Every set of items has one that hangs outside of it, unless it holds a  *)
(* folder that was put below itself.                                       *)
Hung ==
  \A S \in SUBSET Items :
    S # {} /\ S \cap knots = {} => \E x \in S : rows[x].parent \notin S

(* The way up holds its start and, with an item, its parent. *)
LEMMA WayClimbs ==
  ASSUME NEW i
  PROVE  /\ i \in Way(i) /\ Way(i) \subseteq {i} \cup Places
         /\ \A x \in Way(i) \ {Root} : rows[x].parent \in Places => rows[x].parent \in Way(i)
  BY DEF Way, Climbs

LEMMA HungRoots ==
  ASSUME rows \in [Items -> Row], Hung
  PROVE  NothingLost
  <1> SUFFICES ASSUME NEW i \in Items, Root \notin Way(i), Way(i) \cap knots = {}
               PROVE  FALSE
    BY DEF NothingLost
  <1>1. i \in Way(i) /\ Way(i) \in SUBSET Items
    BY WayClimbs DEF Places, Items
  <1>2. PICK x \in Way(i) : rows[x].parent \notin Way(i)
    BY <1>1 DEF Hung
  <1>3. rows[x].parent \in Places /\ x # Root
    BY <1>1 DEF Row
  <1> QED BY <1>2, <1>3, WayClimbs

(* An item whose new place does not hang from it leaves no set without one *)
(* that hangs outside: what the set has of the way up from the place had.  *)
LEMMA PlacedHangs ==
  ASSUME rows \in [Items -> Row], Hung, NEW a \in Items, NEW d \in Places,
         rows'[a].parent = d, \A x \in Items \ {a} : rows'[x].parent = rows[x].parent,
         a \in knots' \/ a \notin Way(d), knots \ {a} \subseteq knots'
  PROVE  Hung'
  <1> SUFFICES ASSUME NEW S \in SUBSET Items, S # {}, S \cap knots' = {},
                      \A x \in S : rows'[x].parent \in S
               PROVE  FALSE
    BY DEF Hung
  <1>1. CASE a \notin S
    BY <1>1 DEF Hung
  <1>2. CASE a \in S
    <2>1. d \in S /\ a \notin Way(d)
      BY <1>2
    <2> PICK T : T = S \cap Way(d)
      OBVIOUS
    <2>2. T \in SUBSET Items /\ d \in T /\ T \cap knots = {}
      BY <2>1, WayClimbs
    <2>3. PICK x \in T : rows[x].parent \notin T
      BY <2>2 DEF Hung
    <2>4. x \in Items /\ x # a /\ x # Root /\ x \in S /\ x \in Way(d)
      BY <2>1, <2>2, <2>3, TreeAssumption DEF Items
    <2>5. rows[x].parent \in Places /\ rows[x].parent \in S
      BY <2>4 DEF Row
    <2> QED BY <2>3, <2>4, <2>5, WayClimbs
  <1> QED BY <1>1, <1>2

LEMMA SamePlacesHang ==
  ASSUME Hung, \A x \in Items : rows'[x].parent = rows[x].parent, UNCHANGED knots
  PROVE  Hung'
  BY DEF Hung

(* What a deleted folder held comes up at the root. *)
LEMMA WithoutHangs ==
  ASSUME rows \in [Items -> Row], Hung, NEW gone, rows' = Without(gone), UNCHANGED knots
  PROVE  Hung'
  <1> SUFFICES ASSUME NEW S \in SUBSET Items, S # {}, S \cap knots = {},
                      \A x \in S : rows'[x].parent \in S
               PROVE  FALSE
    BY DEF Hung
  <1>1. ASSUME NEW x \in S
        PROVE  rows[x].parent \in S
    <2>1. rows[x] \in Row /\ Root \notin S
      BY TreeAssumption DEF Items
    <2>2. rows'[x] = [rows[x] EXCEPT
             !.state = IF x \in gone THEN "gone" ELSE rows[x].state,
             !.parent = IF rows[x].parent \in gone THEN Root ELSE rows[x].parent]
      BY DEF Without
    <2>3. rows'[x].parent = IF rows[x].parent \in gone THEN Root ELSE rows[x].parent
      BY <2>1, <2>2 DEF Row
    <2> QED BY <2>1, <2>3
  <1> QED BY <1>1 DEF Hung

(* A file is on no way up but its own. *)
LEMMA FileOnNoWay ==
  ASSUME NEW f \in Files, NEW d \in Places
  PROVE  f \notin Way(d)
  BY WayClimbs, TreeAssumption DEF Places, Items

(* What the server asks about the place of a folder: above the root, or a  *)
(* folder that hangs from it, is nothing else.                             *)
LEMMA NotBelowIsOff ==
  ASSUME NEW a \in Items, NEW d \in Places, NotBelow(d, a)
  PROVE  a \notin Way(d)
  <1> DEFINE S == {d, Root}
  <1>1. a \notin S
    BY TreeAssumption DEF NotBelow, Items
  <1>2. S \in SUBSET ({d} \cup Places) /\ d \in S
    BY DEF Places
  <1>3. Climbs(S)
    BY DEF Climbs, NotBelow, Children
  <1> QED BY <1>1, <1>2, <1>3 DEF Way

LEMMA ServedHangs ==
  ASSUME rows \in [Items -> Row], Hung, NEW r, r.item \in Items, r.to \in Places,
         Grants(r), rows' = Served(r), knots' = KnotsAfter(r)
  PROVE  Hung'
  <1> USE DEF Grants, GrantsTrash, GrantsRestore, GrantsDestroy, GrantsErase,
              GrantsMoveFile, GrantsMoveFolder, GrantsCopy
  <1> PICK i \in Items : i = r.item
    OBVIOUS
  <1>0. rows[i] \in Row
    OBVIOUS
  <1>1. CASE r.what = "trash"
    BY <1>0, <1>1, SamePlacesHang DEF Served, Trashed, Row, KnotsAfter
  <1>2. CASE r.what = "restore"
    <2> DEFINE new == [rows[i] EXCEPT !.trashed = FALSE, !.parent = rows[i].orig, !.orig = Root]
    <2>1. new.parent = rows[i].orig /\ rows[i].orig \in Places
      BY <1>0 DEF Row
    <2>2. rows' = [rows EXCEPT ![i] = new]
      BY <1>2 DEF Served, Restored
    <2> HIDE DEF new
    <2>3. /\ rows'[i].parent = rows[i].orig
          /\ \A x \in Items \ {i} : rows'[x].parent = rows[x].parent
      BY <2>1, <2>2
    <2>4. (i \in knots' \/ i \notin Way(rows[i].orig)) /\ knots \ {i} \subseteq knots'
      BY <1>2 DEF KnotsAfter, Unasked
    <2> QED BY <2>1, <2>3, <2>4, PlacedHangs
  <1>3. CASE r.what = "move"
    <2>1. r.item \notin Way(r.to)
      <3>1. CASE r.folder
        BY <1>3, <3>1, NotBelowIsOff
      <3>2. CASE ~r.folder
        BY <1>3, <3>2, FileOnNoWay DEF Found
      <3> QED BY <3>1, <3>2
    <2>2. /\ rows'[i].parent = r.to
          /\ \A x \in Items \ {i} : rows'[x].parent = rows[x].parent
      BY <1>0, <1>3 DEF Served, Moved, Row
    <2>3. knots' = knots \ {i}
      BY <1>3 DEF KnotsAfter
    <2> QED BY <2>1, <2>2, <2>3, PlacedHangs
  <1>4. CASE r.what = "copy"
    <2>1. \E n \in Files : rows[n].state = "unborn"
      BY <1>4
    <2> DEFINE n == CHOOSE n \in Files : rows[n].state = "unborn"
    <2>2. n \in Files
      BY <2>1
    <2> PICK m \in Files : m = n
      BY <2>2
    <2>3. rows' = [rows EXCEPT ![m] = [parent |-> r.to, orig |-> Root, trashed |-> FALSE,
                                       state |-> "live"]]
      BY <1>4 DEF Served, Copied
    <2> HIDE DEF n
    <2>4. m \in Items /\ m \notin Way(r.to)
      BY FileOnNoWay DEF Items
    <2>5. /\ rows'[m].parent = r.to
          /\ \A x \in Items \ {m} : rows'[x].parent = rows[x].parent
      BY <2>3, <2>4
    <2>6. knots' = knots
      BY <1>4 DEF KnotsAfter
    <2> QED BY <2>4, <2>5, <2>6, PlacedHangs
  <1>5. CASE r.what \in {"destroy", "erase"}
    <2>1. rows' = Without({r.item}) /\ knots' = knots
      BY <1>5 DEF Served, KnotsAfter
    <2> QED BY <2>1, WithoutHangs
  <1> QED BY <1>1, <1>2, <1>3, <1>4, <1>5

-----------------------------------------------------------------------------
(* What the user does, by page *)

KindsOf(p) ==
  CASE p = "dashboard" -> {"trash", "trash1", "move", "copy"}
    [] p \in {"mine", "favs"} -> {"trash", "trash1", "move"}
    [] p = "media" -> {"trash1"}
    [] p = "shared" -> {"erase"}
    [] p = "trash" -> {"destroy", "restore", "empty"}
    [] OTHER -> {}

(* Each page does no more than this. *)
Ticks == \E S : Tick(S)
Navigates == page \in {"dashboard", "mine"} /\ \E d : Navigate(d)
Opens == \E m, S : m.kind \in KindsOf(page) /\ Open(m, S)
Moves == \E d \in Places : MoveTo(d)
Copies == page = "dashboard" /\ \E d \in Places : CopyTo(d)
Restores ==
  /\ page = "trash" /\ modal = NoModal /\ UNCHANGED dialog
  /\ \E i : Begin(For("restore", {i}), Root)
PageActs == Ticks \/ Navigates \/ Opens \/ Moves \/ Copies \/ Restores

LEMMA TicksAct ==
  ASSUME NEW S, ToggleRows(S) \/ ReplaceRows(S) \/ Tick(S) \/ (\E i : Toggle(i))
  PROVE  PageActs
  BY DEF ToggleRows, ReplaceRows, Toggle, PageActs, Ticks

LEMMA OffersAct ==
  ASSUME NEW S, NEW kinds, kinds \subseteq KindsOf(page), Offer(kinds, S)
  PROVE  PageActs
  <1>1. PICK k \in kinds, i \in S : Open(For(k, {i}), selected)
    BY DEF Offer
  <1>2. For(k, {i}).kind = k
    BY DEF For
  <1> QED BY <1>1, <1>2 DEF PageActs, Opens

LEMMA AsksAct ==
  ASSUME NEW S, page \in {"dashboard", "mine", "favs"}, AskMove(S) \/ AskBulk(S)
  PROVE  PageActs
  <1> PICK bulk : bulk = [kind |-> "trash", items |-> selected, folders |-> S \cap Folders]
    OBVIOUS
  <1>1. For("move", S).kind = "move" /\ bulk.kind = "trash"
    BY DEF For
  <1>2. "move" \in KindsOf(page) /\ "trash" \in KindsOf(page)
    BY DEF KindsOf
  <1> QED BY <1>1, <1>2 DEF PageActs, Opens, AskMove, AskBulk

LEMMA AskFirstAct ==
  ASSUME NEW S, NEW kind \in KindsOf(page), AskFirst(kind, S)
  PROVE  PageActs
  <1>1. CASE S = {}
    BY <1>1, TicksAct DEF AskFirst
  <1>2. CASE S # {}
    <2>1. PICK i \in S : Open(For(kind, {i}), {})
      BY <1>2 DEF AskFirst
    <2>2. For(kind, {i}).kind = kind
      BY DEF For
    <2> QED BY <2>1, <2>2 DEF PageActs, Opens
  <1> QED BY <1>1, <1>2

LEMMA DashboardActs ==
  ASSUME Dashboard
  PROVE  PageActs
  <1>0. page = "dashboard" /\ KindsOf(page) = {"trash", "trash1", "move", "copy"}
    BY DEF Dashboard, KindsOf
  <1>1. CASE TickAllDashboard
    BY <1>1, TicksAct DEF TickAllDashboard
  <1>2. CASE ToolbarDashboard
    BY <1>0, <1>2, AsksAct DEF ToolbarDashboard
  <1>3. CASE BreadcrumbDashboard
    BY <1>0, <1>3 DEF BreadcrumbDashboard, PageActs, Navigates
  <1>4. CASE MenuDashboard
    <2>1. CASE Offer({"trash1", "move"}, RowsDashboard)
      BY <1>0, <2>1, OffersAct
    <2>2. CASE Offer({"copy"}, RowsDashboard \cap Files)
      BY <1>0, <2>2, OffersAct
    <2> QED BY <1>4, <2>1, <2>2 DEF MenuDashboard
  <1>5. CASE MoveDialogDashboard
    BY <1>5 DEF MoveDialogDashboard, PageActs, Moves
  <1>6. CASE CopyDialogDashboard
    BY <1>0, <1>6 DEF CopyDialogDashboard, PageActs, Copies
  <1>7. ASSUME NEW i, FolderRowDashboard(i)
        PROVE  PageActs
    BY <1>0, <1>7, TicksAct DEF FolderRowDashboard, PageActs, Navigates
  <1>8. ASSUME NEW i, FileRowDashboard(i)
        PROVE  PageActs
    BY <1>8, TicksAct DEF FileRowDashboard
  <1> QED BY <1>1, <1>2, <1>3, <1>4, <1>5, <1>6, <1>7, <1>8 DEF Dashboard

LEMMA MineActs ==
  ASSUME Mine
  PROVE  PageActs
  <1>0. page = "mine" /\ KindsOf(page) = {"trash", "trash1", "move"}
    BY DEF Mine, KindsOf
  <1>1. CASE TickAllMine
    BY <1>1, TicksAct DEF TickAllMine
  <1>2. CASE ToolbarMine
    BY <1>0, <1>2, AsksAct DEF ToolbarMine
  <1>3. CASE BreadcrumbMine
    BY <1>0, <1>3 DEF BreadcrumbMine, PageActs, Navigates
  <1>4. CASE MenuMine
    BY <1>0, <1>4, OffersAct DEF MenuMine
  <1>5. CASE MoveDialogMine
    BY <1>5 DEF MoveDialogMine, PageActs, Moves
  <1>6. ASSUME NEW i, FolderRowMine(i)
        PROVE  PageActs
    BY <1>0, <1>6, TicksAct DEF FolderRowMine, PageActs, Navigates
  <1>7. ASSUME NEW i, FileRowMine(i)
        PROVE  PageActs
    BY <1>7, TicksAct DEF FileRowMine
  <1> QED BY <1>1, <1>2, <1>3, <1>4, <1>5, <1>6, <1>7 DEF Mine

LEMMA FavsActs ==
  ASSUME Favs
  PROVE  PageActs
  <1>0. page = "favs" /\ KindsOf(page) = {"trash", "trash1", "move"}
    BY DEF Favs, KindsOf
  <1>1. CASE TickAllFavs
    BY <1>1, TicksAct DEF TickAllFavs
  <1>2. CASE ToolbarFavs
    BY <1>0, <1>2, AsksAct DEF ToolbarFavs
  <1>3. CASE MenuFavs
    BY <1>0, <1>3, OffersAct DEF MenuFavs
  <1>4. CASE MoveDialogFavs
    BY <1>4 DEF MoveDialogFavs, PageActs, Moves
  <1>5. ASSUME NEW i, FolderRowFavs(i) \/ FileRowFavs(i)
        PROVE  PageActs
    BY <1>5, TicksAct DEF FolderRowFavs, FileRowFavs
  <1> QED BY <1>1, <1>2, <1>3, <1>4, <1>5 DEF Favs

LEMMA MediaActs ==
  ASSUME MediaPage
  PROVE  PageActs
  <1>0. page = "media" /\ KindsOf(page) = {"trash1"}
    BY DEF MediaPage, KindsOf
  <1>1. CASE TickAllMedia
    BY <1>1, TicksAct DEF TickAllMedia
  <1>2. CASE ToolbarMedia
    BY <1>0, <1>2, AskFirstAct, TicksAct DEF ToolbarMedia
  <1>3. CASE MenuMedia
    BY <1>0, <1>3, OffersAct DEF MenuMedia
  <1>4. ASSUME NEW i, RowMedia(i)
        PROVE  PageActs
    BY <1>4, TicksAct DEF RowMedia
  <1> QED BY <1>1, <1>2, <1>3, <1>4 DEF MediaPage

LEMMA SharedActs ==
  ASSUME Shared
  PROVE  PageActs
  <1>0. page = "shared" /\ KindsOf(page) = {"erase"}
    BY DEF Shared, KindsOf
  <1>1. CASE TickAllShared
    BY <1>1, TicksAct DEF TickAllShared
  <1>2. CASE ToolbarShared
    BY <1>0, <1>2, AskFirstAct, TicksAct DEF ToolbarShared
  <1>3. CASE MenuShared
    BY <1>0, <1>3, OffersAct DEF MenuShared
  <1>4. ASSUME NEW i, RowShared(i)
        PROVE  PageActs
    BY <1>4, TicksAct DEF RowShared
  <1> QED BY <1>1, <1>2, <1>3, <1>4 DEF Shared

LEMMA TrashActs ==
  ASSUME Trash
  PROVE  PageActs
  <1>0. page = "trash" /\ KindsOf(page) = {"destroy", "restore", "empty"}
    BY DEF Trash, KindsOf
  <1>1. CASE TickAllTrash
    BY <1>1, TicksAct DEF TickAllTrash
  <1>2. CASE MenuTrash
    <2>1. CASE Offer({"destroy"}, RowsTrash)
      BY <1>0, <2>1, OffersAct
    <2> QED BY <1>0, <1>2, <2>1 DEF MenuTrash, PageActs, Restores
  <1>3. CASE AskEmpty
    <2> PICK m : m = [kind |-> "empty", items |-> list, folders |-> {}]
      OBVIOUS
    <2>1. m.kind = "empty"
      OBVIOUS
    <2> QED BY <1>0, <1>3, <2>1 DEF AskEmpty, PageActs, Opens
  <1>4. ASSUME NEW i, RowTrash(i)
        PROVE  PageActs
    BY <1>4, TicksAct DEF RowTrash
  <1> QED BY <1>1, <1>2, <1>3, <1>4 DEF Trash

LEMMA UserActs ==
  ASSUME User
  PROVE  PageActs \/ (\E p \in Pages : OpenPage(p)) \/ Search \/ Confirm \/ Cancel
  BY DashboardActs, MineActs, FavsActs, MediaActs, SharedActs, TrashActs DEF User

-----------------------------------------------------------------------------
(* Nothing is lost *)

LEMMA UserLeavesRows ==
  ASSUME User \/ ListArrives
  PROVE  UNCHANGED <<rows, knots, other>>
  <1>1. CASE PageActs
    BY <1>1 DEF PageActs, Ticks, Navigates, Opens, Moves, Copies, Restores, Tick, Navigate,
       Open, MoveTo, CopyTo, Begin, history
  <1> QED BY <1>1, UserActs DEF OpenPage, Search, Confirm, Cancel, Begin, ListArrives, history

LEMMA StepKeepsTree ==
  ASSUME IInv, Hung, [Next]_vars
  PROVE  Hung'
  <1>0. rows \in [Items -> Row]
    BY DEF IInv, TypeOK
  <1>b. ASSUME UNCHANGED <<rows, knots>>
        PROVE  Hung'
    BY <1>b, SamePlacesHang
  <1>1. CASE User \/ ListArrives
    BY <1>1, <1>b, UserLeavesRows
  <1>2. ASSUME NEW k \in DOMAIN calls, NEW i \in calls[k].todo, Answered(k, i) \/ Failed(k, i)
        PROVE  Hung'
    <2>1. calls[k] \in AimedCall
      BY SomeCall DEF IInv, Aimed
    <2> PICK r : r = RequestOf(calls[k], i)
      OBVIOUS
    <2>2. r.item \in Items /\ r.to \in Places
      BY <2>1 DEF RequestOf, AimedCall, CallType
    <2>3. \/ UNCHANGED <<rows, knots>>
          \/ Grants(r) /\ rows' = Served(r) /\ knots' = KnotsAfter(r)
      BY <1>2 DEF Answered, Failed, history
    <2> QED BY <1>0, <2>2, <2>3, <1>b, ServedHangs
  <1>3. ASSUME NEW k \in DOMAIN calls, EmptyAnswered(k) \/ Finish(k)
        PROVE  Hung'
    <2>1. knots' = knots /\ (rows' = rows \/ rows' = Emptied)
      BY <1>3 DEF EmptyAnswered, Finish, history
    <2> QED BY <1>0, <1>b, <2>1, WithoutHangs DEF Emptied
  <1>4. ASSUME NEW r \in OtherAsks, OtherActs(r)
        PROVE  Hung'
    BY <1>0, <1>4, Asked, ServedHangs DEF OtherActs, OtherServed
  \* A move whose question was asked before another move: if the place hangs
  \* from the folder by now, the folder is among the knots.
  <1>5. ASSUME NEW r \in other, OtherCommits(r)
        PROVE  Hung'
    <2>1. r.item \in Items /\ r.to \in Places
      BY <1>5 DEF IInv, TypeOK, Request
    <2>2. rows' = Moved(r) /\ knots' = Unasked(r.item, r.to)
      BY <1>5 DEF OtherCommits, OtherServed
    <2>3. rows[r.item] \in Row
      BY <1>0, <2>1
    <2>4. /\ rows'[r.item].parent = r.to
          /\ \A x \in Items \ {r.item} : rows'[x].parent = rows[x].parent
      BY <1>0, <2>1, <2>2, <2>3 DEF Moved, Row
    <2>5. (r.item \in knots' \/ r.item \notin Way(r.to)) /\ knots \ {r.item} \subseteq knots'
      BY <2>2 DEF Unasked
    <2> QED BY <1>0, <2>1, <2>4, <2>5, PlacedHangs
  <1>6. CASE OtherGivesUp \/ \E r \in OtherAsks : OtherChecks(r)
    BY <1>6, <1>b DEF OtherGivesUp, OtherChecks, history
  <1>7. CASE UNCHANGED vars
    BY <1>7, <1>b DEF vars, history
  <1> QED BY <1>1, <1>2, <1>3, <1>4, <1>5, <1>6, <1>7 DEF Next, Answers, Other

LEMMA InitHung == Init => Hung
  <1> SUFFICES ASSUME Init, NEW S \in SUBSET Items, S # {}
               PROVE  \E x \in S : rows[x].parent \notin S
    BY DEF Hung
  <1>1. PICK parent \in Start : \A x \in Items : rows[x].parent = parent[x]
    BY DEF Init, TreeInit
  <1>2. PICK x \in S : parent[x] \notin S
    BY StartAssumption
  <1> QED BY <1>1, <1>2

(* Whatever is moved, trashed, restored, copied and destroyed, from        *)
(* whatever pages and by whatever session, everything live hangs from the  *)
(* root or leads up to a folder that a restoration, or one of two crossing *)
(* moves, put below itself: update_folder places a folder only at the root *)
(* or in a folder there, and no other folder is on the way from these.     *)
THEOREM NothingIsLost == Spec => []NothingLost
  <1>1. IInv /\ Hung /\ [Next]_vars => Hung'
    BY StepKeepsTree
  <1>2. IInv /\ Hung => NothingLost
    BY HungRoots DEF IInv, TypeOK
  <1> QED BY <1>1, <1>2, InitHung, PagesAreAimed, PTL DEF Spec

-----------------------------------------------------------------------------
(* What a page shows *)

(* The dialog and the loops of the page that is shown are its own, and only *)
(* two pages leave the root.                                                *)
Mounted ==
  /\ page \notin {"dashboard", "mine"} => cwd = Root
  /\ modal.kind \in KindsOf(page) \cup {"none"}
  /\ \A k \in DOMAIN calls : ~calls[k].orphan =>
       calls[k].page = page /\ calls[k].kind \in KindsOf(page)

(* A move holds its dialog, its page and its folder until it is over.      *)
OneMove ==
  /\ \A k \in DOMAIN calls : calls[k].kind = "move" =>
       moving /\ modal.kind = "move" /\ ~calls[k].orphan /\ calls[k].cwd = cwd
  /\ \A k, n \in DOMAIN calls : calls[k].kind = "move" /\ calls[n].kind = "move" => k = n

Right(i) == i \in list \ hidden <=> i \in ListingOf(page, cwd) \ hidden
Current == \A i \in Items \ dirty : PartOf(i) \in Loads(page) \ fetching => Right(i)

LEMMA SameRow ==
  ASSUME NEW i \in Items, rows'[i] = rows[i], UNCHANGED <<page, cwd>>
  PROVE  (i \in ListingOf(page, cwd))' <=> i \in ListingOf(page, cwd)
  BY DEF ListingOf, SharedListing, Listing, Children, InTrash, Live

(* What a step leaves alone stays right.                                   *)
LEMMA StaysCurrent ==
  ASSUME Current, UNCHANGED <<page, cwd>>,
         \A i \in Items :
           \/ i \in dirty' \/ PartOf(i) \notin Loads(page) \ fetching'
           \/ Right(i)'
           \/ /\ i \notin dirty /\ PartOf(i) \notin fetching
              /\ i \in list' <=> i \in list
              /\ i \in hidden' <=> i \in hidden
              /\ rows'[i] = rows[i]
  PROVE  Current'
  <1> SUFFICES ASSUME NEW i \in Items, i \notin dirty', PartOf(i) \in Loads(page) \ fetching'
               PROVE  Right(i)'
    BY DEF Current, PartOf
  <1>1. CASE /\ i \notin dirty /\ PartOf(i) \notin fetching
             /\ i \in list' <=> i \in list
             /\ i \in hidden' <=> i \in hidden
             /\ rows'[i] = rows[i]
    BY <1>1, SameRow DEF Current, Right
  <1> QED BY <1>1

LEMMA ChangesAreDirty ==
  ASSUME Current, UNCHANGED <<page, cwd, list, hidden, fetching>>,
         rows \in [Items -> Row], rows' \in [Items -> Row],
         dirty' = dirty \cup Changed(rows')
  PROVE  Current'
  BY StaysCurrent DEF Changed

LEMMA SameCalls ==
  ASSUME Mounted, OneMove, UNCHANGED <<page, cwd, modal, moving>>,
         DOMAIN calls' = DOMAIN calls,
         \A k \in DOMAIN calls :
           /\ calls'[k].kind = calls[k].kind /\ calls'[k].page = calls[k].page
           /\ calls'[k].orphan = calls[k].orphan /\ calls'[k].cwd = calls[k].cwd
  PROVE  Mounted' /\ OneMove'
  BY DEF Mounted, OneMove, KindsOf

(* A loop that goes on keeps what it was started as.                       *)
LEMMA GoesOn ==
  ASSUME IInv, Mounted, OneMove, UNCHANGED <<page, cwd, modal, moving>>,
         NEW k \in DOMAIN calls, NEW left, NEW whole,
         calls' = [calls EXCEPT ![k] = [calls[k] EXCEPT !.todo = left, !.all = whole]]
  PROVE  Mounted' /\ OneMove'
  <1>1. calls[k] \in CallType
    BY SomeCall DEF IInv, Aimed, AimedCall
  <1>2. DOMAIN calls' = DOMAIN calls
    OBVIOUS
  <1> PICK d : d = [calls[k] EXCEPT !.todo = left, !.all = whole]
    OBVIOUS
  <1>3. d.kind = calls[k].kind /\ d.page = calls[k].page /\ d.orphan = calls[k].orphan
        /\ d.cwd = calls[k].cwd
    BY <1>1 DEF CallType
  <1>4. calls' = [calls EXCEPT ![k] = d]
    OBVIOUS
  <1>5. \A n \in DOMAIN calls : calls'[n] = IF n = k THEN d ELSE calls[n]
    BY <1>4
  <1> QED BY <1>2, <1>3, <1>5, SameCalls

LEMMA Begins ==
  ASSUME IInv, Mounted, OneMove, NEW m, NEW to, Begin(m, to), m.kind \in KindsOf(page),
         modal'.kind \in KindsOf(page) \cup {"none"},
         ~moving \/ modal.kind # "move",
         m.kind = "move" => moving' /\ modal'.kind = "move"
  PROVE  Mounted' /\ OneMove'
  <1> PICK c : c = Call(m, to)
    OBVIOUS
  <1>1. c.kind = m.kind /\ c.page = page /\ c.orphan = FALSE /\ c.cwd = cwd
    BY DEF Call
  <1>2. calls' = Append(calls, c) /\ UNCHANGED <<page, cwd>>
    BY DEF Begin, view
  <1>3. calls \in Seq(CallType)
    BY DEF IInv, TypeOK
  <1>4. /\ DOMAIN calls = 1 .. Len(calls) /\ Len(calls) \in Nat
        /\ DOMAIN calls' = 1 .. Len(calls) + 1
        /\ calls'[Len(calls) + 1] = c
        /\ \A n \in DOMAIN calls : calls'[n] = calls[n]
    BY <1>2, <1>3
  <1>5. \A n \in DOMAIN calls' : n \in DOMAIN calls \/ n = Len(calls) + 1
    BY <1>4
  <1>6. \A n \in DOMAIN calls : calls[n].kind # "move"
    BY DEF OneMove
  <1>7. Mounted'
    BY <1>1, <1>2, <1>4, <1>5 DEF Mounted, KindsOf
  <1>8. OneMove'
    BY <1>1, <1>2, <1>4, <1>5, <1>6 DEF OneMove
  <1> QED BY <1>7, <1>8

LEMMA PageActsMount ==
  ASSUME IInv, Mounted, OneMove, PageActs
  PROVE  Mounted' /\ OneMove'
  <1>1. CASE Ticks
    <2>1. UNCHANGED <<page, cwd, modal, moving, calls>>
      BY <1>1 DEF Ticks, Tick, dialog
    <2> QED BY <2>1, SameCalls
  <1>2. CASE Navigates
    <2>1. UNCHANGED <<page, modal, moving, calls>> /\ modal = NoModal
          /\ page \in {"dashboard", "mine"}
      BY <1>2 DEF Navigates, Navigate, dialog
    <2>2. \A n \in DOMAIN calls : calls[n].kind # "move"
      BY <2>1 DEF OneMove, NoModal
    <2> QED BY <2>1, <2>2 DEF Mounted, OneMove, KindsOf
  <1>3. CASE Opens
    <2>1. UNCHANGED <<page, cwd, moving, calls>> /\ modal = NoModal
          /\ modal'.kind \in KindsOf(page)
      BY <1>3 DEF Opens, Open
    <2>2. \A n \in DOMAIN calls : calls[n].kind # "move"
      BY <2>1 DEF OneMove, NoModal
    <2> QED BY <2>1, <2>2 DEF Mounted, OneMove, KindsOf
  <1>4. CASE Moves
    <2> PICK d \in Places : MoveTo(d)
      BY <1>4 DEF Moves
    <2>1. modal.kind = "move" /\ ~moving /\ moving' /\ modal' = modal /\ Begin(modal, d)
      BY DEF MoveTo
    <2>2. modal.kind \in KindsOf(page)
      BY <2>1 DEF Mounted
    <2> QED BY <2>1, <2>2, Begins
  <1>5. CASE Copies
    <2> PICK d \in Places : CopyTo(d)
      BY <1>5 DEF Copies
    <2>1. modal.kind = "copy" /\ modal' = modal /\ Begin(modal, d)
      BY DEF CopyTo, dialog
    <2>2. modal.kind \in KindsOf(page)
      BY <2>1 DEF Mounted
    <2> QED BY <2>1, <2>2, Begins
  <1>6. CASE Restores
    <2> PICK i : Begin(For("restore", {i}), Root)
      BY <1>6 DEF Restores
    <2> PICK m : m = For("restore", {i})
      OBVIOUS
    <2>1. m.kind = "restore" /\ Begin(m, Root)
      BY DEF For
    <2>2. m.kind \in KindsOf(page) /\ modal.kind # "move" /\ modal'.kind = "none"
      BY <1>6, <2>1 DEF Restores, KindsOf, NoModal, dialog
    <2> QED BY <2>1, <2>2, Begins
  <1> QED BY <1>1, <1>2, <1>3, <1>4, <1>5, <1>6 DEF PageActs

LEMMA OpenPageMounts ==
  ASSUME IInv, OneMove, NEW p \in Pages, OpenPage(p)
  PROVE  Mounted' /\ OneMove'
  <1> DEFINE Left(c) == IF c.orphan THEN c ELSE [c EXCEPT !.orphan = TRUE, !.at = cwd]
  <1>1. modal = NoModal /\ modal' = modal /\ cwd' = Root
        /\ calls' = [k \in DOMAIN calls |-> Left(calls[k])]
    BY DEF OpenPage, dialog
  <1>2. ASSUME NEW k \in DOMAIN calls
        PROVE  Left(calls[k]).orphan /\ Left(calls[k]).kind = calls[k].kind
    <2>1. calls[k] \in CallType
      BY <1>2, SomeCall DEF IInv, Aimed, AimedCall
    <2> QED BY <2>1 DEF CallType
  <1> HIDE DEF Left
  <1>3. \A n \in DOMAIN calls : calls[n].kind # "move"
    BY <1>1 DEF OneMove, NoModal
  <1>4. \A k \in DOMAIN calls' : calls'[k].orphan /\ calls'[k].kind # "move"
    BY <1>1, <1>2, <1>3
  <1> QED BY <1>1, <1>4 DEF Mounted, OneMove, NoModal

LEMMA ConfirmMounts ==
  ASSUME IInv, Mounted, OneMove, Confirm
  PROVE  Mounted' /\ OneMove'
  <1>1. modal.kind \in {"trash", "trash1", "erase", "destroy", "empty"}
        /\ modal' = NoModal /\ Begin(modal, Root)
    BY DEF Confirm
  <1>2. modal.kind \in KindsOf(page)
    BY <1>1 DEF Mounted
  <1>3. modal'.kind = "none"
    BY <1>1 DEF NoModal
  <1> QED BY <1>1, <1>2, <1>3, Begins

LEMMA FinishMounts ==
  ASSUME IInv, Mounted, OneMove, NEW k \in DOMAIN calls, Finish(k)
  PROVE  Mounted' /\ OneMove'
  <1>1. /\ calls' = [n \in 1 .. Len(calls) - 1 |-> IF n < k THEN calls[n] ELSE calls[n + 1]]
        /\ UNCHANGED <<page, cwd>>
        /\ moving' = MovingAfter(calls[k]) /\ modal' = ModalAfter(calls[k])
    BY DEF Finish
  <1>2. DOMAIN calls = 1 .. Len(calls) /\ Len(calls) \in Nat /\ k \in 1 .. Len(calls)
    BY DEF IInv, TypeOK
  <1> DEFINE Was(n) == IF n < k THEN n ELSE n + 1
  <1>3. ASSUME NEW n \in DOMAIN calls'
        PROVE  /\ Was(n) \in DOMAIN calls /\ Was(n) # k /\ calls'[n] = calls[Was(n)]
               /\ n \in Int
    BY <1>1, <1>2
  <1>4. \A n, m \in DOMAIN calls' : Was(n) = Was(m) => n = m
    BY <1>2, <1>3
  <1> HIDE DEF Was
  <1>5. modal' = modal \/ modal' = NoModal
    BY <1>1 DEF ModalAfter
  <1>6. Mounted'
    <2>1. modal'.kind \in KindsOf(page) \cup {"none"}
      BY <1>5 DEF Mounted, NoModal
    <2> QED BY <1>1, <1>3, <2>1 DEF Mounted, KindsOf
  <1>7. CASE calls[k].kind = "move"
    <2>1. \A n \in DOMAIN calls' : calls'[n].kind # "move"
      BY <1>3, <1>7 DEF OneMove
    <2> QED BY <1>6, <2>1 DEF OneMove
  <1>8. CASE calls[k].kind # "move"
    <2>1. moving' = moving
      BY <1>1, <1>8 DEF MovingAfter
    <2>2. modal.kind = "move" => modal' = modal
      BY <1>1, <1>8 DEF ModalAfter
    <2> QED BY <1>1, <1>3, <1>4, <1>6, <2>1, <2>2 DEF OneMove
  <1> QED BY <1>7, <1>8

LEMMA StepMounts ==
  ASSUME IInv, Mounted, OneMove, [Next]_vars
  PROVE  Mounted' /\ OneMove'
  <1>1. CASE User
    <2>1. CASE Search \/ Cancel
      <3>1. CASE Search
        BY <3>1, SameCalls DEF Search, dialog
      <3>2. CASE Cancel
        <4>1. UNCHANGED <<page, cwd, calls, moving>> /\ modal'.kind = "none" /\ ~moving
          BY <3>2 DEF Cancel, view, NoModal
        <4> QED BY <4>1 DEF Mounted, OneMove, KindsOf
      <3> QED BY <2>1, <3>1, <3>2
    <2> QED BY <1>1, <2>1, UserActs, PageActsMount, OpenPageMounts, ConfirmMounts
  <1>2. CASE ListArrives \/ Other
    <2>1. UNCHANGED <<page, cwd, modal, moving, calls>>
      BY <1>2 DEF ListArrives, Other, OtherActs, OtherChecks, OtherCommits, OtherGivesUp,
         OtherServed, view, dialog
    <2> QED BY <2>1, SameCalls
  <1>3. ASSUME NEW k \in DOMAIN calls,
               (\E i \in calls[k].todo : Answered(k, i) \/ Failed(k, i)) \/ EmptyAnswered(k)
        PROVE  Mounted' /\ OneMove'
    <2>1. calls[k] \in CallType
      BY SomeCall DEF IInv, Aimed, AimedCall
    <2>2. UNCHANGED <<page, cwd, modal, moving>>
      BY <1>3 DEF Answered, Failed, EmptyAnswered, view, dialog
    <2>3. \E left, whole :
            calls' = [calls EXCEPT ![k] = [calls[k] EXCEPT !.todo = left, !.all = whole]]
      <3>1. CASE EmptyAnswered(k)
        <4>1. [calls[k] EXCEPT !.todo = {}, !.all = calls[k].all]
                = [calls[k] EXCEPT !.todo = {}]
          BY <2>1 DEF CallType
        <4> QED BY <3>1, <4>1 DEF EmptyAnswered
      <3>2. ASSUME NEW i, Answered(k, i)
            PROVE  \E left, whole :
              calls' = [calls EXCEPT ![k] = [calls[k] EXCEPT !.todo = left, !.all = whole]]
        <4>1. [calls[k] EXCEPT !.todo = calls[k].todo \ {i}, !.all = calls[k].all]
                = [calls[k] EXCEPT !.todo = calls[k].todo \ {i}]
          BY <2>1 DEF CallType
        <4> QED BY <3>2, <4>1 DEF Answered, Advance
      <3>3. ASSUME NEW i, Failed(k, i)
            PROVE  \E left, whole :
              calls' = [calls EXCEPT ![k] = [calls[k] EXCEPT !.todo = left, !.all = whole]]
        BY <3>3 DEF Failed
      <3> QED BY <1>3, <3>1, <3>2, <3>3
    <2> QED BY <2>2, <2>3, GoesOn
  <1>4. ASSUME NEW k \in DOMAIN calls, Finish(k)
        PROVE  Mounted' /\ OneMove'
    BY <1>4, FinishMounts
  <1>5. CASE UNCHANGED vars
    BY <1>5, SameCalls DEF vars, view, dialog
  <1> QED BY <1>1, <1>2, <1>3, <1>4, <1>5 DEF Next, Answers

-----------------------------------------------------------------------------
(* The rows a step leaves stale are being fetched, or are dirty. *)

(* The item a request is granted for is of the kind its loop took it for.  *)
LEMMA GrantedKind ==
  ASSUME NEW c, NEW i \in Items, Grants(RequestOf(c, i))
  PROVE  /\ Verb(c) \in {"trash", "restore", "destroy", "erase", "move", "copy"}
         /\ i \in c.folders <=> i \in Folders
  BY TreeAssumption DEF Grants, GrantsTrash, GrantsRestore, GrantsDestroy, GrantsErase,
     GrantsMoveFile, GrantsMoveFolder, GrantsCopy, Found, RequestOf, Items

LEMMA AnsweredCurrent ==
  ASSUME IInv, Mounted, OneMove, Current, NEW k \in DOMAIN calls, NEW i \in calls[k].todo,
         Answered(k, i)
  PROVE  Current'
  <1> PICK c : c = calls[k]
    OBVIOUS
  <1>0. c \in AimedCall /\ i \in Items /\ i \in c.todo
    <2>1. calls[k] \in AimedCall
      BY SomeCall DEF IInv, Aimed
    <2> QED BY <2>1 DEF AimedCall, CallType
  <1> PICK r : r = RequestOf(c, i)
    OBVIOUS
  <1>1. /\ c.kind # "empty" /\ Grants(r) /\ rows' = Served(r)
        /\ fetching' = fetching \cup Reloaded(c, i)
        /\ list' = list \ Dropped(c, i)
        /\ hidden' = hidden \cup Hides(c, i)
        /\ dirty' = IF c.orphan /\ Reloaded(c, i) = {}
                    THEN dirty \cup Changed(Served(r)) ELSE dirty
        /\ UNCHANGED <<page, cwd>>
    BY DEF Answered
  <1>2. r.item = i /\ r.to = c.to /\ r.what = Verb(c) /\ (i \in c.folders <=> i \in Folders)
        /\ r.what \in {"trash", "restore", "destroy", "erase", "move", "copy"}
    BY <1>0, <1>1, GrantedKind DEF RequestOf
  <1>3. rows \in [Items -> Row] /\ \A j \in Items : rows[j] \in Row
    BY DEF IInv, TypeOK
  <1>4. \A j \in Items : j \in dirty => j \in dirty'
    BY <1>1
  <1>5. \A j \in Items : j # i => (j \in list' <=> j \in list) /\ (j \in hidden' <=> j \in hidden)
    BY <1>1 DEF Dropped, Hides
  \* What is not mounted: its effects are reloaded or dirty.
  <1>6. CASE c.orphan /\ Reloaded(c, i) = {}
    <2>1. dirty' = dirty \cup Changed(rows') /\ fetching' = fetching
          /\ UNCHANGED <<list, hidden>>
      BY <1>1, <1>6 DEF Dropped, Hides
    <2>2. rows' \in [Items -> Row]
      <3>1. r.item \in Items /\ r.to \in Places /\ (r.what = "erase" => r.item \in Foreign)
        BY <1>0, <1>2 DEF AimedCall, CallType, Foreigners, Verb
      <3> QED BY <1>1, <1>3, <3>1, ServedSpares
    <2> QED BY <1>1, <1>3, <2>1, <2>2, ChangesAreDirty
  <1>7. CASE r.what \in {"trash", "move"} /\ (c.orphan => Reloaded(c, i) # {})
    <2>1. \A j \in Items : j # i => rows'[j] = rows[j]
      BY <1>1, <1>2, <1>3, <1>7 DEF Served, Trashed, Moved
    <2>2. PartOf(i) \in Reloaded(c, i) \/ PartOf(i) \notin Loads(page)
      <3>1. c.kind \in {"trash", "trash1", "move"}
        BY <1>0, <1>2, <1>7 DEF Verb, AimedCall, CallType
      <3>2. Hook(c, i) \subseteq {PartOf(i)}
        <4>1. {IF i \in c.folders THEN "folders" ELSE "files"} = {PartOf(i)}
          BY <1>0, <1>2, TreeAssumption DEF PartOf, Items
        <4> QED BY <4>1 DEF Hook
      <3>3. CASE c.orphan
        <4>1. c.kind # "move"
          BY <3>3 DEF OneMove
        <4>2. Reloaded(c, i) \subseteq {PartOf(i)}
          BY <3>1, <3>2, <4>1 DEF Reloaded, BulkDashboard, OneDashboard, BulkMine, OneMine,
             BulkFavs, OneFavs, OneMedia, Handler, PartOf
        <4> QED BY <1>7, <3>3, <4>2
      <3>4. CASE ~c.orphan
        <4>0. {IF i \in c.folders THEN "folders" ELSE "files"} = {PartOf(i)}
          BY <1>0, <1>2, TreeAssumption DEF PartOf, Items
        <4>1. c.page = page /\ c.kind \in KindsOf(page) /\ Hook(c, i) = {PartOf(i)}
          BY <3>4, <4>0 DEF Mounted, Hook, OnKey
        <4>2. page \in TreePages
          BY <3>1, <4>1 DEF KindsOf, TreePages
        <4>3. c.kind = "move" => TwoKeys(c, i, c.cwd) = {PartOf(i)}
          BY DEF OneMove, TwoKeys
        <4>4. c.kind = "move" /\ page = "favs" => TwoKeys(c, i, Root) = {PartOf(i)}
          BY DEF Mounted, TwoKeys
        <4>5. CASE page = "dashboard"
          BY <3>1, <4>1, <4>2, <4>3, <4>5 DEF Reloaded, BulkDashboard, OneDashboard,
             MoveDashboard, Handler, PartOf
        <4>6. CASE page = "mine"
          BY <3>1, <4>1, <4>2, <4>3, <4>6 DEF Reloaded, BulkMine, OneMine, MoveMine, Handler
        <4>7. CASE page = "favs"
          BY <3>1, <4>1, <4>2, <4>4, <4>7 DEF Reloaded, BulkFavs, OneFavs, MoveFavs, Handler
        <4>8. CASE page = "media"
          BY <3>1, <4>1, <4>2, <4>8 DEF Reloaded, OneMedia, Handler, KindsOf
        <4> QED BY <4>2, <4>5, <4>6, <4>7, <4>8 DEF TreePages
      <3> QED BY <3>3, <3>4
    <2> QED BY <1>1, <1>4, <1>5, <2>1, <2>2, StaysCurrent
  <1>8. CASE r.what = "copy" /\ (c.orphan => Reloaded(c, i) # {})
    <2>1. \E n \in Files : rows[n].state = "unborn"
      BY <1>1, <1>8 DEF Grants, GrantsTrash, GrantsRestore, GrantsDestroy, GrantsErase,
         GrantsMoveFile, GrantsMoveFolder, GrantsCopy
    <2> DEFINE n == CHOOSE n \in Files : rows[n].state = "unborn"
    <2>2. n \in Files
      BY <2>1
    <2> PICK m \in Files : m = n
      BY <2>2
    <2>3. rows' = [rows EXCEPT ![m] = [parent |-> r.to, orig |-> Root, trashed |-> FALSE,
                                       state |-> "live"]]
      BY <1>1, <1>8 DEF Served, Copied
    <2> HIDE DEF n
    <2>4. \A j \in Items : j # m => rows'[j] = rows[j]
      BY <1>3, <2>3
    <2>5. c.kind = "copy"
      BY <1>0, <1>2, <1>8 DEF Verb, AimedCall, CallType
    <2>6. "files" \in Reloaded(c, i)
      <3>1. CASE c.orphan
        BY <1>8, <2>5, <3>1 DEF Reloaded, Handler, CopyDashboard, Parts, Loads
      <3>2. CASE ~c.orphan
        <4>1. c.page = page /\ page = "dashboard"
          BY <2>5, <3>2 DEF Mounted, KindsOf
        <4> QED BY <2>5, <3>2, <4>1 DEF Reloaded, Handler, CopyDashboard, OnKey, Parts, Loads,
                TreePages
      <3> QED BY <3>1, <3>2
    <2>7. UNCHANGED <<list, hidden>>
      BY <1>1, <2>5 DEF Dropped, Hides, Handler, Mounted, KindsOf
    <2>8. PartOf(m) = "files"
      BY DEF PartOf
    <2> QED BY <1>1, <1>4, <2>4, <2>6, <2>7, <2>8, StaysCurrent
  <1>9. CASE r.what \in {"restore", "destroy"} /\ ~c.orphan
    <2>1. c.page = page /\ page = "trash"
      BY <1>2, <1>9 DEF Mounted, KindsOf, Verb
    <2>2. \A j \in Items : j \in ListingOf(page, cwd) <=> j \in InTrash
      BY <2>1 DEF ListingOf, TreePages
    <2>3. \A j \in Items : (j \in ListingOf(page, cwd))' <=> j \in InTrash'
      BY <1>1, <2>1 DEF ListingOf, TreePages
    <2>4. i \notin list' /\ \A j \in Items : j # i => (j \in list' <=> j \in list)
      BY <1>1, <1>9, <2>1 DEF Dropped
    <2>5. ASSUME NEW j \in Items
          PROVE  /\ j = i => j \notin InTrash'
                 /\ j # i => (j \in InTrash' <=> j \in InTrash)
      <3>0. rows[j] \in Row /\ rows[i] \in Row
        BY <1>0, <1>3
      <3>1. CASE r.what = "restore"
        <4>1. /\ rows'[i].trashed = FALSE
              /\ j # i => rows'[j] = rows[j]
          BY <1>0, <1>1, <1>2, <1>3, <3>0, <3>1 DEF Served, Restored, Row
        <4> QED BY <4>1 DEF InTrash, Live
      <3>2. CASE r.what = "destroy"
        <4>1. rows'[j] = [rows[j] EXCEPT
                 !.state = IF j \in {i} THEN "gone" ELSE rows[j].state,
                 !.parent = IF rows[j].parent \in {i} THEN Root ELSE rows[j].parent]
          BY <1>1, <1>2, <3>2 DEF Served, Without
        <4>2. /\ j = i => rows'[j].state = "gone"
              /\ j # i => rows'[j].state = rows[j].state
              /\ rows'[j].trashed = rows[j].trashed
          BY <3>0, <4>1 DEF Row
        <4> QED BY <4>2 DEF InTrash, Live
      <3> QED BY <1>9, <3>1, <3>2
    <2>6. hidden' = hidden
      BY <1>1, <1>2, <1>9 DEF Hides, Handler, Verb
    <2>7. ASSUME NEW j \in Items, j \notin dirty', PartOf(j) \in Loads(page) \ fetching'
          PROVE  Right(j)'
      <3>1. CASE j = i
        BY <2>3, <2>4, <2>5, <3>1 DEF Right
      <3>2. CASE j # i
        <4>1. Right(j)
          BY <1>1, <2>7 DEF Current
        <4> QED BY <2>2, <2>3, <2>4, <2>5, <2>6, <3>2, <4>1 DEF Right
      <3> QED BY <3>1, <3>2
    <2> QED BY <1>1, <2>7 DEF Current, PartOf
  \* The server erases no file of another user.
  <1>10. r.what # "erase"
    <2>1. r.what = "erase" => i \in Foreign
      BY <1>0, <1>2 DEF AimedCall, Foreigners, Verb
    <2> QED BY <1>1, <1>2, <2>1 DEF Grants, GrantsTrash, GrantsRestore, GrantsDestroy,
            GrantsErase, GrantsMoveFile, GrantsMoveFolder, GrantsCopy
  \* Nothing an unmounted page restores or destroys is reloaded.
  <1>11. CASE r.what \in {"restore", "destroy"} /\ c.orphan
    <2>1. Reloaded(c, i) = {}
      BY <1>2, <1>11 DEF Reloaded, Handler, Verb
    <2> QED BY <1>6, <1>11, <2>1
  <1> QED BY <1>2, <1>6, <1>7, <1>8, <1>9, <1>10, <1>11

LEMMA FailedCurrent ==
  ASSUME IInv, Current, NEW k \in DOMAIN calls, NEW i \in calls[k].todo, Failed(k, i)
  PROVE  Current'
  <1>1. IInv'
    BY FailedSound DEF Sound
  <1>2. rows \in [Items -> Row] /\ rows' \in [Items -> Row]
    BY <1>1 DEF IInv, TypeOK
  <1>3. UNCHANGED <<page, cwd, list, hidden, fetching>>
    BY DEF Failed, view
  <1>4. UNCHANGED <<rows, dirty>> \/ dirty' = dirty \cup Changed(rows')
    BY DEF Failed, history
  <1>5. CASE UNCHANGED <<rows, dirty>>
    BY <1>3, <1>5, StaysCurrent DEF Current
  <1> QED BY <1>2, <1>3, <1>4, <1>5, ChangesAreDirty

LEMMA EmptyAnsweredCurrent ==
  ASSUME IInv, Mounted, Current, NEW k \in DOMAIN calls, EmptyAnswered(k)
  PROVE  Current'
  <1>1. IInv'
    BY EmptyAnsweredSound DEF Sound
  <1>2. rows \in [Items -> Row] /\ rows' \in [Items -> Row]
    BY <1>1 DEF IInv, TypeOK
  <1>3. UNCHANGED <<page, cwd, hidden, fetching>>
    BY DEF EmptyAnswered
  <1>4. \/ UNCHANGED <<rows, list, dirty>>
        \/ UNCHANGED list /\ dirty' = dirty \cup Changed(rows')
        \/ ~calls[k].orphan /\ rows' = Emptied /\ list' = {} /\ UNCHANGED dirty
    BY DEF EmptyAnswered
  <1>5. CASE UNCHANGED <<rows, list, dirty>>
    BY <1>3, <1>5, StaysCurrent DEF Current
  <1>6. CASE UNCHANGED list /\ dirty' = dirty \cup Changed(rows')
    BY <1>2, <1>3, <1>6, ChangesAreDirty
  <1>7. CASE ~calls[k].orphan /\ rows' = Emptied /\ list' = {} /\ UNCHANGED dirty
    <2>1. page = "trash"
      BY <1>7 DEF Mounted, KindsOf, EmptyAnswered
    <2>2. \A j \in Items : (j \in ListingOf(page, cwd))' <=> j \in InTrash'
      BY <1>3, <2>1 DEF ListingOf, TreePages
    <2>3. ASSUME NEW j \in Items
          PROVE  j \notin InTrash'
      <3>1. rows[j] \in Row
        BY <1>2
      <3>2. rows'[j] = [rows[j] EXCEPT
               !.state = IF j \in InTrash THEN "gone" ELSE rows[j].state,
               !.parent = IF rows[j].parent \in InTrash THEN Root ELSE rows[j].parent]
        BY <1>7 DEF Emptied, Without
      <3>3. /\ j \in InTrash => rows'[j].state = "gone"
            /\ j \notin InTrash => rows'[j].state = rows[j].state
            /\ rows'[j].trashed = rows[j].trashed
        BY <3>1, <3>2 DEF Row
      <3> QED BY <3>3 DEF InTrash, Live
    <2> QED BY <1>7, <2>2, <2>3 DEF Current, Right
  <1> QED BY <1>4, <1>5, <1>6, <1>7

LEMMA OtherServedCurrent ==
  ASSUME IInv, IInv', Current, NEW new, NEW told, OtherServed(new, told)
  PROVE  Current'
  <1>1. rows \in [Items -> Row] /\ rows' \in [Items -> Row]
    BY DEF IInv, TypeOK
  <1>2. UNCHANGED <<page, cwd, list, hidden>>
    BY DEF OtherServed
  <1>3. CASE fetching' = Parts
    BY <1>3 DEF Current, Parts, PartOf
  <1>4. CASE dirty' = dirty \cup Changed(rows') /\ UNCHANGED fetching
    BY <1>1, <1>2, <1>4, ChangesAreDirty
  <1> QED BY <1>3, <1>4 DEF OtherServed

LEMMA ListArrivesCurrent ==
  ASSUME Current, ListArrives
  PROVE  Current'
  <1> DEFINE new == UNION {Part(p) : p \in fetching}
  <1>1. /\ fetching' = {} /\ dirty' = dirty \ new
        /\ list' = (list \ new) \cup (ListingOf(page, cwd) \cap new)
        /\ UNCHANGED <<rows, page, cwd, hidden>>
    BY DEF ListArrives
  <1>2. ASSUME NEW i \in Items
        PROVE  /\ (i \in ListingOf(page, cwd))' <=> i \in ListingOf(page, cwd)
               /\ PartOf(i) \in fetching => i \in new
    <2>1. i \in Part(PartOf(i))
      BY DEF Part, PartOf, Items
    <2> QED BY <1>1, <2>1, SameRow
  <1> HIDE DEF new
  <1>3. ASSUME NEW i \in Items, i \notin dirty', PartOf(i) \in Loads(page)
        PROVE  Right(i)'
    <2>1. CASE i \in new
      BY <1>1, <1>2, <2>1 DEF Right
    <2>2. CASE i \notin new
      BY <1>1, <1>2, <1>3, <2>2 DEF Current, Right
    <2> QED BY <2>1, <2>2
  <1> QED BY <1>1, <1>3 DEF Current, PartOf

LEMMA StepKeepsCurrent ==
  ASSUME IInv, Mounted, OneMove, Current, [Next]_vars
  PROVE  Current'
  <1>0. IInv'
    BY StepSound DEF Sound
  <1>1. ASSUME UNCHANGED <<rows, page, cwd, list, fetching, hidden, dirty>>
        PROVE  Current'
    BY <1>1, StaysCurrent DEF Current
  <1>2. CASE User
    <2>1. CASE PageActs
      <3>1. CASE Navigates
        <4>1. fetching' = Parts
          BY <3>1 DEF Navigates, Navigate
        <4> QED BY <4>1 DEF Current, PartOf, Parts
      <3>2. CASE Ticks \/ Opens \/ Moves \/ Copies \/ Restores
        BY <1>1, <3>2 DEF Ticks, Opens, Moves, Copies, Restores, Tick, Open, MoveTo, CopyTo,
           Begin, view, history
      <3> QED BY <2>1, <3>1, <3>2 DEF PageActs
    <2>2. CASE \E p \in Pages : OpenPage(p)
      <3>1. fetching' = Loads(page')
        BY <2>2 DEF OpenPage
      <3> QED BY <3>1 DEF Current
    <2>3. CASE Search \/ Confirm \/ Cancel
      BY <1>1, <2>3 DEF Search, Confirm, Cancel, Begin, view, history
    <2> QED BY <1>2, <2>1, <2>2, <2>3, UserActs
  <1>3. CASE ListArrives
    BY <1>3, ListArrivesCurrent
  <1>4. ASSUME NEW k \in DOMAIN calls,
               (\E i \in calls[k].todo : Answered(k, i) \/ Failed(k, i)) \/ EmptyAnswered(k)
        PROVE  Current'
    BY <1>4, AnsweredCurrent, FailedCurrent, EmptyAnsweredCurrent
  <1>5. ASSUME NEW k \in DOMAIN calls, Finish(k)
        PROVE  Current'
    BY <1>1, <1>5 DEF Finish, history
  <1>6. CASE Other
    <2>1. ASSUME NEW new, NEW told, OtherServed(new, told)
          PROVE  Current'
      BY <1>0, <2>1, OtherServedCurrent
    <2>2. CASE OtherGivesUp \/ \E r \in OtherAsks : OtherChecks(r)
      BY <1>1, <2>2 DEF OtherGivesUp, OtherChecks, view, history
    <2> QED BY <1>6, <2>1, <2>2 DEF Other, OtherActs, OtherCommits
  <1>7. CASE UNCHANGED vars
    BY <1>1, <1>7 DEF vars, view, history
  <1> QED BY <1>2, <1>3, <1>4, <1>5, <1>6, <1>7 DEF Next, Answers

LEMMA InitCurrent == Init => Mounted /\ OneMove /\ Current
  <1> SUFFICES ASSUME Init
               PROVE  Mounted /\ OneMove /\ Current
    OBVIOUS
  <1>1. calls = <<>> /\ fetching = Loads(page) /\ cwd = Root /\ modal = NoModal
    BY DEF Init
  <1>2. DOMAIN calls = {}
    BY <1>1
  <1>3. Mounted /\ OneMove
    BY <1>1, <1>2 DEF Mounted, OneMove, NoModal
  <1> QED BY <1>1, <1>3 DEF Current

(* Each part of a listing is right for every item that is not dirty unless *)
(* it is being fetched, also while loops run: whatever a handler of any    *)
(* page does, what it changed is reloaded in the listing that is shown or  *)
(* taken off it, for the keys the hooks have by then.                      *)
THEOREM PageIsCurrent == Spec => []ShownIsCurrent
  <1>1. Mounted /\ OneMove /\ Current /\ IInv /\ [Next]_vars
          => Mounted' /\ OneMove' /\ Current'
    BY StepMounts, StepKeepsCurrent
  <1>2. Current => ShownIsCurrent
    <2>1. ASSUME page = "media", NEW i \in Files
          PROVE  PartOf(i) \in Loads(page)
      BY <2>1 DEF PartOf, Loads
    <2>2. ASSUME page # "media", NEW i \in Items
          PROVE  PartOf(i) \in Loads(page)
      BY <2>2 DEF PartOf, Loads, Parts
    <2> QED BY <2>1, <2>2 DEF Current, ShownIsCurrent, Right, Items
  <1> QED BY <1>1, <1>2, InitCurrent, PagesAreAimed, PTL DEF Spec
=============================================================================
