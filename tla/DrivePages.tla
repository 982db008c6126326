------------------------------ MODULE DrivePages ------------------------------
(***************************************************************************)
(* The pages of the browser over the tree of one user: dashboard,          *)
(* i-miei-file, preferiti, media, condivisi and cestino.  One tab shows    *)
(* one page at a time; another session of the user changes the same rows.  *)
(*                                                                         *)
(* The pages differ in what they list, in what "elimina" takes from the    *)
(* selection, in what they reload after a call and in what their rows      *)
(* offer, and share the rest.  A call is a loop over items, one request    *)
(* after the other; its answer runs the lines that follow the await.       *)
(***************************************************************************)
EXTENDS DriveTree, Sequences

CONSTANTS
  Favourites,  \* items the favourites of local storage name
  Media,       \* files whose names say image, audio or video
  Matching,    \* items whose names match the text the user searches for
  Pages,       \* the pages the tab visits
  Spare,       \* identifiers of files that a copy may create
  Start,       \* the ways the items may be placed at the start
  Binned,      \* items that may be in the trash at the start
  Before,      \* where these may have been when they were put there
  MaxActs,     \* bound: loops of requests the user starts in this tab
  MaxNav,      \* bound: pages, folders and searches the user goes to
  OtherAsks,   \* the requests the other session may make
  MaxOther     \* bound: how many of them it makes

ASSUME PagesAssumption ==
  /\ Favourites \subseteq Items /\ Media \cup Spare \subseteq Files
  /\ Start \subseteq [Items -> Places] /\ Before \subseteq [Items -> Places]
  /\ Spare \cap Foreign = {} /\ Binned \subseteq Items \ (Spare \cup Foreign)
  /\ MaxActs \in Nat /\ MaxNav \in Nat /\ MaxOther \in Nat
  /\ OtherAsks \subseteq {r \in Request : r.what \notin {"copy", "erase"}}

(* No folder starts below itself.                                          *)
ASSUME StartAssumption ==
  \A parent \in Start : \A S \in SUBSET Items :
    S # {} => \E i \in S : parent[i] \notin S

VARIABLES
  page, cwd,    \* the page and the folder it is in
  list,         \* the listing last received
  fetching,     \* the parts of the listing that are being fetched
  query,        \* whether a search text filters the rows
  selected,     \* ticked items
  hidden,       \* trashedFileIds of the dashboard
  modal,        \* the open dialog
  moving,       \* moveModalMoving
  calls,        \* the loops under way
  acts,         \* user requests and other session's requests so far
  other,        \* a folder move of the other session that passed its check
  dirty, knots  \* history: items changed behind the view, folders put below themselves

view == <<page, cwd, list, fetching, query, selected, hidden>>
dialog == <<modal, moving>>
history == <<dirty, knots>>
vars == <<rows, view, dialog, calls, acts, other, history>>

TreePages == {"dashboard", "mine", "favs", "media"}
Parts == {"files", "folders"}
Part(p) == IF p = "files" THEN Files ELSE Folders
PartOf(i) == IF i \in Files THEN "files" ELSE "folders"

NoModal == [kind |-> "none", items |-> {}, folders |-> {}]

(* What the server answers to the requests a page loads from.              *)
SharedListing == {f \in Foreign : Live(f)}
ListingOf(p, d) ==
  CASE p \in TreePages -> Listing(d)
    [] p = "shared"    -> SharedListing
    [] OTHER           -> InTrash

(* The hooks a page subscribes to.                                         *)
Loads(p) == IF p = "media" THEN {"files"} ELSE Parts

-----------------------------------------------------------------------------
(* The rows of each page.                                                  *)
Searched(S) == IF query THEN S \cap Matching ELSE S
RowsDashboard == Searched(list \ hidden)
RowsMine == Searched(list)
RowsFavs == Searched(list \cap Favourites)
RowsMedia == Searched(list \cap Media)
RowsShared == Searched(list)
RowsTrash == list

Going == acts.nav < MaxNav /\ acts' = [acts EXCEPT !.nav = @ + 1]

(* Opening another page unmounts this one: its loops run on with the keys  *)
(* its hooks had last, and what they set no longer shows.                  *)
OpenPage(p) ==
  /\ p # page /\ modal = NoModal /\ Going
  /\ page' = p /\ cwd' = Root /\ list' = {} /\ fetching' = Loads(p)
  /\ query' = FALSE /\ selected' = {} /\ hidden' = {} /\ dirty' = {}
  /\ calls' = [k \in DOMAIN calls |->
                 IF calls[k].orphan THEN calls[k]
                 ELSE [calls[k] EXCEPT !.orphan = TRUE, !.at = cwd]]
  /\ UNCHANGED <<rows, dialog, other, knots>>

(* Going to a folder changes the keys of the hooks; the ticks stay.        *)
Navigate(d) ==
  /\ modal = NoModal /\ d # cwd /\ Going
  /\ cwd' = d /\ list' = {} /\ fetching' = Parts /\ dirty' = {}
  /\ UNCHANGED <<rows, page, query, selected, hidden, dialog, calls,
                 other, knots>>

Search ==
  /\ page # "trash" /\ modal = NoModal /\ query' = ~query /\ Going
  /\ UNCHANGED <<rows, page, cwd, list, fetching, selected, hidden, dialog,
                 calls, other, history>>

(* The answers to what is being fetched, with the names decrypted; the     *)
(* hooks of files and folders fetch at once and are answered at once here. *)
ListArrives ==
  LET new == UNION {Part(p) : p \in fetching} IN
  /\ fetching # {} /\ fetching' = {}
  /\ list' = (list \ new) \cup (ListingOf(page, cwd) \cap new)
  /\ dirty' = dirty \ new
  /\ UNCHANGED <<rows, page, cwd, query, selected, hidden, dialog, calls, acts,
                 other, knots>>

Tick(S) ==
  /\ modal = NoModal /\ acts.tab < MaxActs /\ selected' = S
  /\ UNCHANGED <<rows, page, cwd, list, fetching, query, hidden, dialog, calls,
                 acts, other, history>>

Toggle(i) == Tick(IF i \in selected THEN selected \ {i} ELSE selected \cup {i})

(* The tick of the header: the tree pages add the rows to the ticks or     *)
(* take them off, the others replace or clear the ticks.                   *)
ToggleRows(S) ==
  S # {} /\ Tick(IF S \subseteq selected THEN selected \ S ELSE selected \cup S)
ReplaceRows(S) ==
  S # {} /\ Tick(IF S \subseteq selected THEN {} ELSE S)

Open(m, s) ==
  /\ modal = NoModal /\ acts.tab < MaxActs
  /\ modal' = m /\ selected' = s
  /\ UNCHANGED <<rows, page, cwd, list, fetching, query, hidden, moving, calls,
                 acts, other, history>>

Cancel ==
  /\ modal # NoModal /\ ~moving
  /\ modal' = NoModal
  /\ UNCHANGED <<rows, view, moving, calls, acts, other, history>>

Call(m, to) ==
  [kind |-> m.kind, todo |-> m.items, folders |-> m.folders, to |-> to,
   cwd |-> cwd, at |-> cwd, page |-> page, all |-> m.items, orphan |-> FALSE]

Begin(m, to) ==
  /\ acts.tab < MaxActs
  /\ calls' = Append(calls, Call(m, to))
  /\ acts' = [acts EXCEPT !.tab = @ + 1]
  /\ UNCHANGED <<rows, view, other, history>>

Confirm ==
  /\ modal.kind \in {"trash", "trash1", "erase", "destroy", "empty"}
  /\ modal' = NoModal /\ UNCHANGED moving
  /\ Begin(modal, Root)

(* A dialog for the ticked rows, for everything that is ticked (split by   *)
(* the folders in view), for the first ticked row, and for one row.        *)
For(kind, S) == [kind |-> kind, items |-> S, folders |-> S \cap Folders]
AskMove(S) == S # {} /\ Open(For("move", S), selected)
AskBulk(S) ==
  Open([kind |-> "trash", items |-> selected, folders |-> S \cap Folders], selected)
AskFirst(kind, S) ==
  IF S = {} THEN Tick({}) ELSE \E i \in S : Open(For(kind, {i}), {})
Offer(kinds, S) == \E k \in kinds, i \in S : Open(For(k, {i}), selected)

(* The targets of a move are the root and the folders in the listing that  *)
(* are not themselves moved; the dialog stays until the loop is over.      *)
MoveTo(to) ==
  /\ modal.kind = "move" /\ ~moving
  /\ to = Root \/ to \in (list \cap Folders) \ modal.items
  /\ moving' = TRUE /\ UNCHANGED modal
  /\ Begin(modal, to)

(* A copy does not lock its dialog: it can be closed, or asked again.      *)
CopyTo(to) ==
  /\ modal.kind = "copy" /\ to \in {Root} \cup (list \cap Folders)
  /\ UNCHANGED dialog
  /\ Begin(modal, to)
-----------------------------------------------------------------------------
(* dashboard                                                               *)
TickAllDashboard == ToggleRows(RowsDashboard)
ToolbarDashboard ==
  selected # {} /\ (AskMove(selected \cap RowsDashboard) \/ AskBulk(RowsDashboard))
FolderRowDashboard(i) == Toggle(i) \/ Navigate(i)
FileRowDashboard(i) == Toggle(i)
BreadcrumbDashboard == Navigate(Root)
MenuDashboard ==
  Offer({"trash1", "move"}, RowsDashboard) \/ Offer({"copy"}, RowsDashboard \cap Files)
MoveDialogDashboard == \E d \in Places : MoveTo(d)
CopyDialogDashboard == \E d \in Places : CopyTo(d)

Dashboard ==
  /\ page = "dashboard"
  /\ \/ TickAllDashboard \/ ToolbarDashboard \/ BreadcrumbDashboard
     \/ MenuDashboard \/ MoveDialogDashboard \/ CopyDialogDashboard
     \/ \E i \in RowsDashboard \cap Folders : FolderRowDashboard(i)
     \/ \E i \in RowsDashboard \cap Files : FileRowDashboard(i)

(* i-miei-file                                                             *)
TickAllMine == ToggleRows(RowsMine)
ToolbarMine == selected # {} /\ (AskMove(selected \cap RowsMine) \/ AskBulk(RowsMine))
FolderRowMine(i) == Toggle(i) \/ Navigate(i)
FileRowMine(i) == Toggle(i)
BreadcrumbMine == Navigate(Root)
MenuMine == Offer({"trash1", "move"}, RowsMine)
MoveDialogMine == \E d \in Places : MoveTo(d)

Mine ==
  /\ page = "mine"
  /\ \/ TickAllMine \/ ToolbarMine \/ BreadcrumbMine \/ MenuMine \/ MoveDialogMine
     \/ \E i \in RowsMine \cap Folders : FolderRowMine(i)
     \/ \E i \in RowsMine \cap Files : FileRowMine(i)

(* preferiti: a folder row opens nothing                                   *)
TickAllFavs == ToggleRows(RowsFavs)
ToolbarFavs == selected # {} /\ (AskMove(selected \cap RowsFavs) \/ AskBulk(RowsFavs))
FolderRowFavs(i) == Toggle(i)
FileRowFavs(i) == Toggle(i)
MenuFavs == Offer({"trash1", "move"}, RowsFavs)
MoveDialogFavs == \E d \in Places : MoveTo(d)

Favs ==
  /\ page = "favs"
  /\ \/ TickAllFavs \/ ToolbarFavs \/ MenuFavs \/ MoveDialogFavs
     \/ \E i \in RowsFavs \cap Folders : FolderRowFavs(i)
     \/ \E i \in RowsFavs \cap Files : FileRowFavs(i)

(* media: no folders, and only the first ticked row is trashed             *)
TickAllMedia == ReplaceRows(RowsMedia)
ToolbarMedia == selected # {} /\ (AskFirst("trash1", selected \cap RowsMedia) \/ Tick({}))
RowMedia(i) == Toggle(i)
\* Mutant: the call of the shared page instead of the trash.
MenuMediaErases == Offer({"erase"}, RowsMedia)
MenuMedia == Offer({"trash1"}, RowsMedia)

MediaPage ==
  /\ page = "media"
  /\ TickAllMedia \/ ToolbarMedia \/ MenuMedia \/ \E i \in RowsMedia : RowMedia(i)

(* condivisi: "elimina" destroys, which the server refuses                 *)
TickAllShared == ReplaceRows(RowsShared)
ToolbarShared == selected # {} /\ (AskFirst("erase", selected \cap RowsShared) \/ Tick({}))
RowShared(i) == Toggle(i)
MenuShared == Offer({"erase"}, RowsShared \cap Files)

Shared ==
  /\ page = "shared"
  /\ TickAllShared \/ ToolbarShared \/ MenuShared \/ \E i \in RowsShared : RowShared(i)

(* cestino: no toolbar for the ticks; a restore asks for no confirmation   *)
TickAllTrash == ReplaceRows(RowsTrash)
RowTrash(i) == Toggle(i)
MenuTrash ==
  \/ Offer({"destroy"}, RowsTrash)
  \/ /\ modal = NoModal /\ UNCHANGED dialog
     /\ \E i \in RowsTrash : Begin(For("restore", {i}), Root)
AskEmpty ==
  RowsTrash # {} /\ Open([kind |-> "empty", items |-> list, folders |-> {}], selected)

Trash ==
  /\ page = "trash"
  /\ TickAllTrash \/ MenuTrash \/ AskEmpty \/ \E i \in RowsTrash : RowTrash(i)

-----------------------------------------------------------------------------
Verb(c) == IF c.kind = "trash1" THEN "trash" ELSE c.kind

RequestOf(c, i) == [what |-> Verb(c), folder |-> i \in c.folders, item |-> i, to |-> c.to]

(* The parts of the mounted listing an answer reloads.  A hook's own       *)
(* reload goes to the key it has when the loop goes on, or had when its    *)
(* page was left; a move names its two keys.                               *)
OnKey(c) == ~c.orphan \/ cwd = c.at
Hook(c, i) == IF OnKey(c) THEN {IF i \in c.folders THEN "folders" ELSE "files"} ELSE {}
TwoKeys(c, i, from) == IF cwd \in {from, c.to} THEN {PartOf(i)} ELSE {}

BulkDashboard(c, i) == Hook(c, i)
OneDashboard(c, i) == IF i \in Files THEN {"files"} ELSE Hook(c, i)
MoveDashboard(c, i) == TwoKeys(c, i, c.cwd)
CopyDashboard(c) == IF OnKey(c) THEN Parts ELSE {}

BulkMine(c, i) == Hook(c, i)
OneMine(c, i) == Hook(c, i)
\* Mutant: only the destination is reloaded.
MoveMineTarget(c, i) == IF cwd = c.to THEN {PartOf(i)} ELSE {}
MoveMine(c, i) == TwoKeys(c, i, c.cwd)

BulkFavs(c, i) == Hook(c, i)
OneFavs(c, i) == Hook(c, i)
MoveFavs(c, i) == TwoKeys(c, i, Root)

OneMedia(c, i) == Hook(c, i)

Handler(c) == <<c.page, c.kind>>

Reloaded(c, i) ==
  IF page \notin TreePages THEN {} ELSE
  Loads(page) \cap
  CASE Handler(c) = <<"dashboard", "trash">>  -> BulkDashboard(c, i)
    [] Handler(c) = <<"dashboard", "trash1">> -> OneDashboard(c, i)
    [] Handler(c) = <<"dashboard", "move">>   -> MoveDashboard(c, i)
    [] Handler(c) = <<"dashboard", "copy">>   -> CopyDashboard(c)
    [] Handler(c) = <<"mine", "trash">>       -> BulkMine(c, i)
    [] Handler(c) = <<"mine", "trash1">>      -> OneMine(c, i)
    [] Handler(c) = <<"mine", "move">>        -> MoveMine(c, i)
    [] Handler(c) = <<"favs", "trash">>       -> BulkFavs(c, i)
    [] Handler(c) = <<"favs", "trash1">>      -> OneFavs(c, i)
    [] Handler(c) = <<"favs", "move">>        -> MoveFavs(c, i)
    [] Handler(c) = <<"media", "trash1">>     -> OneMedia(c, i)
    [] OTHER                                  -> {}

(* The cestino page takes the items off its own list instead.              *)
Dropped(c, i) == IF c.orphan \/ c.page # "trash" THEN {} ELSE {i}

(* The dashboard also keeps the files it trashed out of its rows.          *)
\* Mutant: folders are put among the hidden files.
HidesAll(c, i) ==
  IF Handler(c) = <<"dashboard", "trash1">> /\ ~c.orphan THEN {i} ELSE {}
Hides(c, i) ==
  IF Handler(c) = <<"dashboard", "trash1">> /\ i \in Files /\ ~c.orphan THEN {i} ELSE {}

-----------------------------------------------------------------------------
Init ==
  /\ TreeInit(Start, Spare, Binned, Before)
  /\ page \in Pages /\ cwd = Root
  /\ list = {} /\ fetching = Loads(page)
  /\ query = FALSE /\ selected = {} /\ hidden = {}
  /\ modal = NoModal /\ moving = FALSE
  /\ calls = <<>> /\ acts = [tab |-> 0, nav |-> 0, other |-> 0] /\ other = {}
  /\ dirty = {} /\ knots = {}

(* The way up from an item: the item and the places met from parent to     *)
(* parent, which are in every set that holds the item and, with an item,   *)
(* its parent.  A way without the root has come back to itself.            *)
Climbs(S) == \A x \in S \ {Root} : rows[x].parent \in S
Way(i) ==
  {x \in {i} \cup Places :
     \A S \in SUBSET ({i} \cup Places) : i \in S /\ Climbs(S) => x \in S}

(* The folders that hang below themselves because nobody asked, when they  *)
(* were restored, or asked too early, when two moves crossed.  What a move *)
(* puts elsewhere is no longer among them.                                 *)
Unasked(i, to) == IF i \in Way(to) THEN knots \cup {i} ELSE knots \ {i}
KnotsAfter(r) ==
  CASE r.what = "restore" -> Unasked(r.item, rows[r.item].orig)
    [] r.what = "move"    -> knots \ {r.item}
    [] OTHER              -> knots

Changed(new) == {i \in Items : new[i] # rows[i]}

(* The loop goes on after one item, whether it went well or not.           *)
Advance(k, i) ==
  calls' = [calls EXCEPT ![k].todo = @ \ {i}]

(* The request is served and its answer received.                          *)
Answered(k, i) ==
  LET c == calls[k]  r == RequestOf(c, i) IN
  /\ i \in c.todo /\ c.kind # "empty" /\ Grants(r)
  /\ rows' = Served(r)
  /\ fetching' = fetching \cup Reloaded(c, i)
  /\ list' = list \ Dropped(c, i)
  /\ hidden' = hidden \cup Hides(c, i)
  /\ dirty' = IF c.orphan /\ Reloaded(c, i) = {} THEN dirty \cup Changed(Served(r))
              ELSE dirty
  /\ knots' = KnotsAfter(r)
  /\ Advance(k, i)
  /\ UNCHANGED <<page, cwd, query, selected, dialog, acts, other>>

(* The request is refused or does not arrive, or only its answer is lost:  *)
(* the bulk loop counts the error and goes on, the others stop.            *)
Failed(k, i) ==
  LET c == calls[k]  r == RequestOf(c, i) IN
  /\ i \in c.todo /\ c.kind # "empty"
  /\ \/ UNCHANGED <<rows, history>>
     \/ /\ Grants(r) /\ rows' = Served(r)
        /\ dirty' = dirty \cup Changed(Served(r))
        /\ knots' = KnotsAfter(r)
  /\ calls' = [calls EXCEPT ![k].todo = IF c.kind = "trash" THEN @ \ {i} ELSE {},
                            ![k].all = IF c.kind = "move" THEN {} ELSE @]
  /\ UNCHANGED <<view, dialog, acts, other>>

EmptyAnswered(k) ==
  LET c == calls[k] IN
  /\ c.kind = "empty" /\ c.todo # {}
  /\ \/ /\ rows' = Emptied
        /\ list' = IF c.orphan THEN list ELSE {}
        /\ dirty' = IF c.orphan THEN dirty \cup Changed(Emptied) ELSE dirty
     \/ /\ rows' = Emptied /\ UNCHANGED list
        /\ dirty' = dirty \cup Changed(Emptied)
     \/ UNCHANGED <<rows, list, dirty>>
  /\ calls' = [calls EXCEPT ![k].todo = {}]
  /\ UNCHANGED <<page, cwd, fetching, query, selected, hidden, dialog, acts,
                 other, knots>>

(* The lines after the loop.  A bulk deletion clears the ticks; a move     *)
(* unticks what it moved and closes its dialog if every item went, and     *)
(* lets go of the dialog in any case; a copy closes the copy dialog.       *)
WentThrough(c) == c.all # {}
SelectedAfter(c) ==
  CASE c.orphan         -> selected
    [] c.kind = "trash" -> {}
    [] c.kind = "move"  -> selected \ c.all
    [] OTHER            -> selected
\* Mutant: the lock is released after the last item only (no finally).
MovingAfterAll(c) == IF c.kind = "move" /\ WentThrough(c) THEN FALSE ELSE moving
MovingAfter(c) == IF c.kind = "move" THEN FALSE ELSE moving
ModalAfter(c) ==
  IF c.kind = modal.kind /\ (c.kind = "copy" \/ (c.kind = "move" /\ WentThrough(c)))
  THEN NoModal ELSE modal

Finish(k) ==
  /\ calls[k].todo = {}
  /\ calls' = [n \in 1 .. Len(calls) - 1 |-> IF n < k THEN calls[n] ELSE calls[n + 1]]
  /\ selected' = SelectedAfter(calls[k])
  /\ moving' = MovingAfter(calls[k])
  /\ modal' = ModalAfter(calls[k])
  /\ UNCHANGED <<rows, page, cwd, list, fetching, query, hidden, acts, other, history>>

(* The other session: an event reaches the dashboard for the file moves    *)
(* only, when its stream is up.                                            *)
OtherServed(new, told) ==
  /\ rows' = new
  /\ \/ /\ told /\ page = "dashboard"
        /\ fetching' = Parts /\ UNCHANGED dirty
     \/ /\ dirty' = dirty \cup Changed(new) /\ UNCHANGED fetching
  /\ acts' = [acts EXCEPT !.other = @ + 1]
  /\ UNCHANGED <<page, cwd, list, query, selected, hidden, dialog, calls>>

OtherActs(r) ==
  /\ Grants(r)
  /\ knots' = KnotsAfter(r)
  /\ OtherServed(Served(r), r.what = "move" /\ ~r.folder)
  /\ UNCHANGED other

(* update_folder looks at the place before it commits the new parent.      *)
OtherChecks(r) ==
  /\ other = {}
  /\ r.what = "move" /\ r.folder /\ Grants(r)
  /\ other' = {r}
  /\ UNCHANGED <<rows, view, dialog, calls, acts, history>>

OtherCommits(r) ==
  /\ other' = {}
  /\ Found(r) /\ Exists(r.to)
  /\ knots' = Unasked(r.item, r.to)
  /\ OtherServed(Moved(r), FALSE)

OtherGivesUp ==
  /\ \E r \in other : ~(Found(r) /\ Exists(r.to))
  /\ other' = {}
  /\ UNCHANGED <<rows, view, dialog, calls, acts, history>>

User ==
  \/ \E p \in Pages : OpenPage(p)
  \/ Search \/ Confirm \/ Cancel
  \/ Dashboard \/ Mine \/ Favs \/ MediaPage \/ Shared \/ Trash

Answers ==
  \E k \in DOMAIN calls :
    \/ \E i \in calls[k].todo : Answered(k, i) \/ Failed(k, i)
    \/ EmptyAnswered(k) \/ Finish(k)

Other ==
  \/ acts.other < MaxOther /\ \E r \in OtherAsks : OtherActs(r) \/ OtherChecks(r)
  \/ \E r \in other : OtherCommits(r)
  \/ OtherGivesUp

Next == User \/ ListArrives \/ Answers \/ Other

(* The network answers or times out (axios gives up after 30 s).           *)
Spec == Init /\ [][Next]_vars /\ WF_vars(ListArrives) /\ WF_vars(Answers)

-----------------------------------------------------------------------------
CallType ==
  [kind : {"trash", "trash1", "erase", "restore", "destroy", "empty", "move", "copy"},
   todo : SUBSET Items, folders : SUBSET Folders, to : Places, cwd : Places, at : Places,
   page : Pages, all : SUBSET Items, orphan : BOOLEAN]

(* The types of the rows and of the tab's state.                           *)
TypeOK ==
  /\ rows \in [Items -> Row]
  /\ page \in Pages /\ cwd \in Places
  /\ list \subseteq Items /\ fetching \subseteq Parts
  /\ query \in BOOLEAN /\ selected \subseteq Items /\ hidden \subseteq Files
  /\ modal.items \subseteq Items /\ modal.folders \subseteq Folders
  /\ moving \in BOOLEAN
  /\ calls \in Seq(CallType) /\ Len(calls) <= MaxActs
  /\ other \subseteq Request /\ dirty \subseteq Items
  /\ knots \subseteq Folders

(* Everything that is not destroyed can be reached from the root through   *)
(* the listings, whatever is moved, trashed, restored and destroyed in     *)
(* whatever order, unless its way up leads to a folder that a restoration  *)
(* or one of two crossing moves put below itself: the one question a move  *)
(* asks about its place is enough, and no other step loses a subtree.      *)
NothingLost ==
  \A i \in Items : Live(i) => Root \in Way(i) \/ Way(i) \cap knots # {}

(* When nothing is under way the page shows what the server has: each      *)
(* handler reloads the part of the listing it changed, or takes the item   *)
(* off.  Apart from it are what another session changed without an event   *)
(* reaching this page, what a call did whose answer never came, and what a *)
(* loop did whose page was left for one with other keys.                   *)
ShownIsCurrent ==
  fetching = {} /\ calls = <<>> =>
    \A i \in (Items \ dirty) \cap (IF page = "media" THEN Files ELSE Items) :
      i \in list \ hidden <=> i \in ListingOf(page, cwd) \ hidden

(* Whatever is destroyed was in the trash before: no page and no mixture   *)
(* of bulk deletions, other sessions and stale listings destroys a file or *)
(* folder of the user in one step.                                         *)
TrashFirst ==
  [][\A i \in Items :
       rows[i].state = "live" /\ rows'[i].state = "gone" => rows[i].trashed]_vars

(* A move that has started lets go of its dialog, also when a request is   *)
(* refused or times out: the dialog cannot be closed while it runs.        *)
MoveSettles == moving ~> ~moving
=============================================================================
