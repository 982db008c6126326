------------------------- MODULE Permissions_proofs -------------------------
(***************************************************************************)
(* Proofs about Permissions, for every number of users, folders, files and *)
(* rows: first for any number of concurrent sessions; then, from "One      *)
(* request at a time", for requests that run alone: that a revocation      *)
(* reaches every file, and the refinement of FolderSharing.                *)
(***************************************************************************)
EXTENDS Permissions, TLAPS

-----------------------------------------------------------------------------
(* Types *)

\* A unit of work that writes nothing is well typed.
LEMMA CleanType == Unchanged \in Change /\ Clean \in [PermIds -> Change]
<1>1. Unchanged \in Change
    BY DEF Unchanged, Change
<1> QED BY <1>1 DEF Clean

\* It writes no column.
LEMMA CleanFields == \A p \in PermIds : Clean[p] = Unchanged /\ Clean[p].active = Keep /\ Clean[p].from = Keep
BY DEF Clean, Unchanged

\* An idle session is well typed.
LEMMA IdleType == Idle \in Session
BY CleanType, BoundsAssumption DEF Idle, Session, Phases, Ops, Expiry, Never

\* Flushing a change into a row leaves a row.
LEMMA FlushType ==
    ASSUME NEW row \in Row, NEW change \in Change
    PROVE  /\ Flush(row, change) \in Row
           /\ Flush(row, change).subject = row.subject
           /\ Flush(row, change).on = row.on
           /\ Flush(row, change).active = Column(row.active, change.active)
           /\ Flush(row, change).from = Column(row.from, change.from)
BY DEF Flush, Row, Change, Column

\* An existing row is a row.
LEMMA ExistsRow ==
    ASSUME TypeOK, NEW p \in PermIds, Exists(p)
    PROVE  perms[p] \in Row
BY DEF TypeOK, Exists

\* What a commit stores is a table.
LEMMA StoredType ==
    ASSUME TypeOK, NEW fresh \in SUBSET Row, NEW ins \in Placements(fresh),
           NEW dirty \in [PermIds -> Change]
    PROVE  Stored(ins, dirty) \in [PermIds -> Row \cup {NoRow}]
<1> SUFFICES ASSUME NEW p \in PermIds
             PROVE  Stored(ins, dirty)[p] \in Row \cup {NoRow}
    BY DEF Stored
<1>1. ins[p] # NoRow => ins[p] \in Row
    BY DEF Placements
<1>2. Exists(p) => Flush(perms[p], dirty[p]) \in Row
    BY ExistsRow, FlushType
<1> QED BY <1>1, <1>2 DEF Stored

\* Starting a request keeps the sessions well typed.
LEMMA BeginType ==
    ASSUME TypeOK, NEW s \in Sessions, NEW record \in Session, Ready(s), Begin(s, record)
    PROVE  sess' \in [Sessions -> Session] /\ started' \in 0..MaxRequests
BY BoundsAssumption DEF TypeOK, Begin, Ready

\* So does moving a session to its next phase.
LEMMA GotoType ==
    ASSUME TypeOK, NEW s \in Sessions, NEW pc \in Phases, NEW dirty \in [PermIds -> Change],
           NEW fresh \in SUBSET Row, Goto(s, pc, dirty, fresh)
    PROVE  sess' \in [Sessions -> Session]
<1>1. sess[s] \in Session
    BY DEF TypeOK
<1>2. [sess[s] EXCEPT !.pc = pc, !.dirty = dirty, !.fresh = fresh] \in Session
    BY <1>1 DEF Session
<1> QED BY <1>2 DEF TypeOK, Goto

\* The changes a row's deactivation writes.
LEMMA DeactivateType ==
    ASSUME NEW p \in PermIds
    PROVE  /\ Deactivate(p) \in Change
           /\ Deactivate(p).active \in {Keep, FALSE}
           /\ Deactivate(p).from = Keep
BY CleanType DEF Deactivate, Unchanged, Change, Assign

\* A new row is a row.
LEMMA NewRowType ==
    ASSUME NEW u \in Users, NEW r \in Files \cup Folders, NEW l \in Levels, NEW e \in Expiry,
           NEW by \in Users, NEW from \in Folders \cup {None}
    PROVE  NewRow(u, r, l, e, by, from) \in Row
BY DEF NewRow, Row

-----------------------------------------------------------------------------
(* What a session carries *)

\* A step that sets one session to a record carrying what it should, and
\* leaves the table alone, keeps the sessions in order.
LEMMA SessionStep ==
    ASSUME TypeOK, SessionsCarry, NEW s \in Sessions, NEW x \in Session, Carried(x),
           sess' = [sess EXCEPT ![s] = x], perms' = perms
    PROVE  sess' \in [Sessions -> Session] /\ SessionsCarry'
<1>1. sess' \in [Sessions -> Session]
    BY DEF TypeOK
<1>2. ASSUME NEW y PROVE Carried(y)' <=> Carried(y)
    BY DEF Carried, WellShaped, FreshOK, DirtyOK, SpreadOK, Rows, Exists
<1>3. ASSUME NEW t \in Sessions PROVE Carried(sess'[t])
    BY DEF SessionsCarry, TypeOK
<1>4. SessionsCarry'
    BY <1>2, <1>3 DEF SessionsCarry
<1> QED BY <1>1, <1>4

\* An idle session carries nothing.
LEMMA IdleCarried == Carried(Idle)
BY NullAssumption DEF Carried, WellShaped, FreshOK, DirtyOK, SpreadOK, Idle, Clean, Unchanged

\* The rows a step leaves: none disappears, none changes its subject or its
\* resource, none loses the folder it is inherited from.
RowsKept ==
    \A p \in PermIds : Exists(p) =>
        /\ Exists(p)'
        /\ perms'[p].subject = perms[p].subject
        /\ perms'[p].on = perms[p].on
        /\ perms[p].from # None => perms'[p].from # None

\* Then a subject keeps having a row where it had one.
LEMMA RowsGrow ==
    ASSUME RowsKept, NEW u, NEW r, Rows(u, r) # {}
    PROVE  Rows(u, r)' # {}
<1>1. PICK p \in PermIds : Exists(p) /\ perms[p].subject = u /\ perms[p].on = r
    BY DEF Rows
<1>2. p \in Rows(u, r)'
    BY <1>1 DEF RowsKept, Rows, Exists
<1> QED BY <1>2

\* And what a session carries stays in order.
LEMMA CarriedKept ==
    ASSUME RowsKept, NEW x, Carried(x)
    PROVE  Carried(x)'
<1>1. FreshOK(x)'
    BY RowsGrow DEF Carried, FreshOK
<1>2. DirtyOK(x)'
  <2>1. ASSUME NEW p \in PermIds, x.dirty[p].active = TRUE
        PROVE  (/\ Exists(p)
                /\ x.op = "place"
                /\ x.file = perms[p].on
                /\ perms[p].on \in Files
                /\ x.dirty[p].from # Keep \/ perms[p].from # None)'
    BY <2>1 DEF Carried, DirtyOK, RowsKept
  <2>2. ASSUME NEW p \in PermIds, x.dirty[p].from # Keep
        PROVE  (/\ Exists(p)
                /\ perms[p].on \in Files
                /\ Rows(perms[p].subject, x.dirty[p].from) # {})'
    <3>1. Exists(p) /\ perms[p].on \in Files /\ Rows(perms[p].subject, x.dirty[p].from) # {}
        BY <2>2 DEF Carried, DirtyOK
    <3>2. Rows(perms[p].subject, x.dirty[p].from)' # {}
        BY <3>1, RowsGrow DEF RowsKept
    <3> QED BY <3>1, <3>2 DEF RowsKept
  <2> QED BY <2>1, <2>2 DEF DirtyOK
<1>3. SpreadOK(x)'
    BY RowsGrow DEF Carried, SpreadOK
<1> QED BY <1>1, <1>2, <1>3 DEF Carried, WellShaped

-----------------------------------------------------------------------------
(* The steps that start a request or move it to its next phase *)

\* A request may start with any record that carries what it should.
LEMMA BeginStep ==
    ASSUME TypeOK, SessionsCarry, NEW s \in Sessions, NEW x \in Session, Carried(x),
           Ready(s), Begin(s, x), perms' = perms
    PROVE  /\ sess' \in [Sessions -> Session]
           /\ started' \in 0..MaxRequests
           /\ SessionsCarry'
BY SessionStep, BeginType DEF Begin

\* So may a session move on.
LEMMA GotoStep ==
    ASSUME TypeOK, SessionsCarry, NEW s \in Sessions, NEW pc \in Phases,
           NEW dirty \in [PermIds -> Change], NEW fresh \in SUBSET Row,
           Carried([sess[s] EXCEPT !.pc = pc, !.dirty = dirty, !.fresh = fresh]),
           Goto(s, pc, dirty, fresh), perms' = perms
    PROVE  sess' \in [Sessions -> Session] /\ SessionsCarry'
<1> DEFINE x == [sess[s] EXCEPT !.pc = pc, !.dirty = dirty, !.fresh = fresh]
<1>1. sess[s] \in Session
    BY DEF TypeOK
<1>2. x \in Session
    BY <1>1 DEF Session
<1>3. sess' = [sess EXCEPT ![s] = x]
    BY DEF Goto
<1> HIDE DEF x
<1>4. Carried(x)
    BY DEF x
<1> QED BY <1>2, <1>3, <1>4, SessionStep

\* A record that writes nothing and is not a grant carries what it should.
LEMMA HarmlessCarried ==
    ASSUME NEW x, WellShaped(x), x.fresh = {}, x.op # "grant",
           \A p \in PermIds : x.dirty[p].active \in {Keep, FALSE} /\ x.dirty[p].from = Keep
    PROVE  Carried(x)
BY NullAssumption DEF Carried, FreshOK, DirtyOK, SpreadOK

\* grant_permission
LEMMA GrantStep ==
    ASSUME TypeOK, SessionsCarry, NEW s \in Sessions, NEW g \in Users, NEW u \in Users,
           NEW r \in Files \cup Folders, NEW level \in Levels, NEW expires \in Expiry,
           Grant(s, g, u, r, level, expires)
    PROVE  /\ sess' \in [Sessions -> Session]
           /\ started' \in 0..MaxRequests
           /\ SessionsCarry'
<1> DEFINE request == [Idle EXCEPT !.pc = "save", !.op = "grant", !.actor = g, !.subject = u,
                                   !.folder = IF r \in Folders THEN r ELSE None,
                                   !.level = level, !.expires = expires]
           x(row) == [request EXCEPT !.fresh = {row}]
           y(p) == [request EXCEPT !.dirty = GrantChanges(p, level, expires)]
<1>1. request \in Session /\ WellShaped(request)
    BY IdleType DEF Session, WellShaped, Phases, Ops
<1>2. request.dirty = Clean /\ request.fresh = {} /\ request.pc = "save" /\ request.op = "grant"
    /\ request.subject = u /\ request.folder = IF r \in Folders THEN r ELSE None
    BY IdleType DEF Session, Idle
<1> HIDE DEF request
<1>3. CASE /\ LiveRows(u, r) = {}
           /\ Begin(s, x(NewRow(u, r, level, expires, g, None)))
  <2> DEFINE row == NewRow(u, r, level, expires, g, None)
  <2>1. row \in Row /\ row.on = r /\ row.from = None /\ row.subject = u
      BY NewRowType DEF NewRow
  <2> HIDE DEF row
  <2>2. x(row) \in Session
      BY <1>1, <2>1 DEF Session
  <2>3. Carried(x(row))
    <3>1. WellShaped(x(row))
        BY <1>1 DEF WellShaped, Session
    <3>2. FreshOK(x(row))
        BY <1>1, <1>2, <2>1 DEF FreshOK, Session
    <3>3. DirtyOK(x(row))
        BY <1>1, <1>2, CleanFields, NullAssumption DEF DirtyOK, Session
    <3>4. SpreadOK(x(row))
        BY <1>1, <1>2, <2>1 DEF SpreadOK, Session
    <3> QED BY <3>1, <3>2, <3>3, <3>4 DEF Carried
  <2> QED BY <1>3, <2>2, <2>3, BeginStep DEF Grant, row
<1>4. CASE \E p \in LiveRows(u, r) : Begin(s, y(p))
  <2>1. PICK p \in LiveRows(u, r) : Begin(s, y(p))
      BY <1>4
  <2>2. p \in PermIds /\ Exists(p) /\ perms[p] \in Row /\ perms[p].active
        /\ perms[p].subject = u /\ perms[p].on = r
      BY <2>1, ExistsRow DEF LiveRows, ActiveRows, Rows
  <2> DEFINE change == [Unchanged EXCEPT !.level = Assign(perms[p].level, level),
                                         !.expires = Assign(perms[p].expires, expires),
                                         !.active = Assign(perms[p].active, TRUE)]
  <2>3. change \in Change /\ change.active = Keep /\ change.from = Keep
      BY <2>2, CleanType DEF Unchanged, Change, Assign, Row
  <2>4. GrantChanges(p, level, expires) = [Clean EXCEPT ![p] = change]
      BY DEF GrantChanges
  <2> HIDE DEF change
  <2>5. GrantChanges(p, level, expires) \in [PermIds -> Change]
      BY <2>3, <2>4, CleanType
  <2>6. \A q \in PermIds : /\ GrantChanges(p, level, expires)[q].active = Keep
                           /\ GrantChanges(p, level, expires)[q].from = Keep
      BY <2>3, <2>4, CleanFields, CleanType
  <2>7. y(p) \in Session
      BY <1>1, <2>5 DEF Session
  <2>8. Carried(y(p))
    <3>1. WellShaped(y(p))
        BY <1>1 DEF WellShaped, Session
    <3>2. FreshOK(y(p))
        BY <1>1, <1>2 DEF FreshOK, Session
    <3>3. DirtyOK(y(p))
        BY <1>1, <2>6, NullAssumption DEF DirtyOK, Session
    <3>4. SpreadOK(y(p))
        BY <1>1, <1>2, <2>2 DEF SpreadOK, Session, Rows
    <3> QED BY <3>1, <3>2, <3>3, <3>4 DEF Carried
  <2> QED BY <2>1, <2>7, <2>8, BeginStep DEF Grant
<1> QED BY <1>3, <1>4 DEF Grant, request

\* _propagate_folder_permission_to_files
LEMMA SpreadStep ==
    ASSUME TypeOK, SessionsCarry, NEW s \in Sessions, Spread(s)
    PROVE  sess' \in [Sessions -> Session] /\ SessionsCarry' /\ halfDone' \in BOOLEAN
<1> DEFINE u == sess[s].subject
           d == sess[s].folder
           overwrite(p) ==
            [level |-> Assign(perms[p].level, sess[s].level),
             expires |-> Assign(perms[p].expires, sess[s].expires),
             active |-> Keep,
             from |-> Assign(perms[p].from, d)]
           found(p) == \E f \in FilesUnder(d) : p \in ActiveRows(u, f)
           dirty == [p \in PermIds |-> IF found(p) THEN overwrite(p) ELSE Unchanged]
           fresh == {NewRow(u, f, sess[s].level, sess[s].expires, sess[s].actor, d) :
                        f \in {g \in FilesUnder(d) : ActiveRows(u, g) = {}}}
<1>1. sess[s] \in Session /\ sess[s].pc = "spread" /\ Carried(sess[s]) /\ perms' = perms
    BY DEF TypeOK, SessionsCarry, Spread
<1>2. /\ sess[s].op = "grant" /\ sess[s].actor \in Users /\ u \in Users
      /\ sess[s].level \in Levels /\ d \in Folders
    BY <1>1 DEF Carried, WellShaped
<1>3. Rows(u, d) # {}
    BY <1>1, <1>2, DistinctAssumption DEF Carried, SpreadOK
<1>4. CASE Goto(s, "failed", Clean, {}) /\ halfDone' = TRUE
  <2> DEFINE x == [sess[s] EXCEPT !.pc = "failed", !.dirty = Clean, !.fresh = {}]
  <2>1. /\ x.op = "grant" /\ x.pc = "failed" /\ x.subject = u /\ x.folder = d
        /\ x.dirty = Clean /\ x.fresh = {}
        /\ x.actor = sess[s].actor /\ x.level = sess[s].level
      BY <1>1, <1>2 DEF Session
  <2> HIDE DEF x
  <2>2. Carried(x)
      BY <2>1, <1>2, <1>3, CleanFields, NullAssumption
      DEF Carried, WellShaped, FreshOK, DirtyOK, SpreadOK
  <2>3. Carried([sess[s] EXCEPT !.pc = "failed", !.dirty = Clean, !.fresh = {}])
      BY <2>2 DEF x
  <2>4. "failed" \in Phases /\ {} \in SUBSET Row
      BY DEF Phases
  <2>5. sess' \in [Sessions -> Session] /\ SessionsCarry'
      BY <1>1, <1>4, <2>3, <2>4, CleanType, GotoStep, Zenon
  <2> QED BY <1>4, <2>5
<1>5. CASE Goto(s, "final", dirty, fresh) /\ UNCHANGED halfDone
  <2>1. \A p \in PermIds : found(p) =>
            Exists(p) /\ perms[p] \in Row /\ perms[p].subject = u /\ perms[p].on \in Files
      BY ExistsRow DEF ActiveRows, Rows, FilesUnder
  <2>2. \A p \in PermIds : found(p) => /\ overwrite(p) \in Change
                                       /\ overwrite(p).active = Keep
                                       /\ overwrite(p).from \in {Keep, d}
      BY <2>1, <1>1, <1>2 DEF Change, Assign, Session
  <2>3. \A f \in FilesUnder(d) :
            LET row == NewRow(u, f, sess[s].level, sess[s].expires, sess[s].actor, d)
            IN row \in Row /\ row.on \in Files /\ row.subject = u /\ row.from = d
    <3>1. sess[s].expires \in Expiry
        BY <1>1 DEF Session
    <3> QED BY <3>1, <1>2, NewRowType DEF NewRow, FilesUnder
  <2> HIDE DEF overwrite, found
  <2>4. dirty \in [PermIds -> Change]
      BY <2>2, CleanType
  <2>5. \A row \in fresh : row \in Row /\ row.on \in Files /\ row.subject = u /\ row.from = d
      BY <2>3
  <2>6. \A p \in PermIds : /\ dirty[p].active = Keep
                           /\ dirty[p].from # Keep =>
                                dirty[p].from = d /\ found(p)
      BY <2>2 DEF Unchanged
  <2> DEFINE x == [sess[s] EXCEPT !.pc = "final", !.dirty = dirty, !.fresh = fresh]
  <2> HIDE DEF dirty, fresh
  <2>7. /\ x.op = "grant" /\ x.pc = "final" /\ x.subject = u /\ x.folder = d
        /\ x.dirty = dirty /\ x.fresh = fresh
        /\ x.actor = sess[s].actor /\ x.level = sess[s].level
      BY <1>1, <1>2 DEF Session
  <2> HIDE DEF x
  <2>8. Carried(x)
    <3>1. WellShaped(x)
        BY <2>7, <1>2 DEF WellShaped
    <3>2. FreshOK(x)
        BY <2>7, <2>5, <1>3 DEF FreshOK
    <3>3. DirtyOK(x)
        BY <2>7, <2>6, <2>1, <1>3, NullAssumption DEF DirtyOK
    <3>4. SpreadOK(x)
        BY <2>7, <1>3 DEF SpreadOK
    <3> QED BY <3>1, <3>2, <3>3, <3>4 DEF Carried
  <2>9. fresh \in SUBSET Row
      BY <2>5
  <2> QED BY <1>1, <1>5, <2>4, <2>8, <2>9, GotoStep DEF Phases, x, TypeOK
<1> QED BY <1>4, <1>5 DEF Spread

\* apply_folder_permissions_to_file
LEMMA ApplyStep ==
    ASSUME TypeOK, SessionsCarry, NEW s \in Sessions, Apply(s)
    PROVE  sess' \in [Sessions -> Session] /\ SessionsCarry' /\ halfDone' \in BOOLEAN
<1> DEFINE f == sess[s].file
           d == sess[s].folder
           sharees == {perms[p].subject : p \in FolderRows(d)}
           of(u) == {p \in FolderRows(d) : perms[p].subject = u}
           choice == {c \in [sharees -> PermIds] : \A u \in sharees : c[u] \in of(u)}
           overwrite(p, q) ==
            [level |-> Assign(perms[p].level, perms[q].level),
             expires |-> Assign(perms[p].expires, perms[q].expires),
             active |-> Assign(perms[p].active, TRUE),
             from |-> Assign(perms[p].from, d)]
           found(p) == \E u \in sharees : p \in Rows(u, f)
<1>1. sess[s] \in Session /\ sess[s].pc = "apply" /\ Carried(sess[s]) /\ perms' = perms
    BY DEF TypeOK, SessionsCarry, Apply
<1>2. sess[s].op = "place" /\ d \in Folders /\ f \in Files
    BY <1>1 DEF Carried, WellShaped
<1>3. \A u \in sharees : \A p \in of(u) :
            /\ p \in PermIds /\ Exists(p) /\ perms[p] \in Row
            /\ perms[p].subject = u /\ p \in Rows(u, d) /\ u \in Users
  <2> TAKE u \in sharees
  <2> TAKE p \in of(u)
  <2>1. p \in PermIds /\ Exists(p) /\ perms[p].subject = u /\ perms[p].on = d
      BY DEF FolderRows, Active
  <2>2. perms[p] \in Row
      BY <2>1, ExistsRow
  <2> QED BY <2>1, <2>2 DEF Rows, Row
<1>4. CASE Goto(s, "failed", Clean, {}) /\ halfDone' = TRUE
  <2> DEFINE x == [sess[s] EXCEPT !.pc = "failed", !.dirty = Clean, !.fresh = {}]
  <2>1. /\ x.op = "place" /\ x.pc = "failed" /\ x.dirty = Clean /\ x.fresh = {}
      BY <1>1, <1>2 DEF Session
  <2>2. WellShaped(x)
      BY <2>1 DEF WellShaped
  <2> HIDE DEF x
  <2>3. Carried(x)
      BY <2>1, <2>2, CleanFields, HarmlessCarried
  <2>4. Carried([sess[s] EXCEPT !.pc = "failed", !.dirty = Clean, !.fresh = {}])
      BY <2>3 DEF x
  <2>5. "failed" \in Phases /\ {} \in SUBSET Row
      BY DEF Phases
  <2>6. sess' \in [Sessions -> Session] /\ SessionsCarry'
      BY <1>1, <1>4, <2>4, <2>5, CleanType, GotoStep, Zenon
  <2> QED BY <1>4, <2>6
<1>5. CASE \E first \in choice, last \in choice :
            Goto(s, "final",
                 [p \in PermIds |->
                    IF found(p) THEN overwrite(p, last[perms[p].subject]) ELSE Unchanged],
                 {NewRow(u, f, perms[last[u]].level, perms[last[u]].expires,
                         perms[first[u]].by, d) : u \in {v \in sharees : Rows(v, f) = {}}})
           /\ UNCHANGED halfDone
  <2>1. PICK first \in choice, last \in choice :
            Goto(s, "final",
                 [p \in PermIds |->
                    IF found(p) THEN overwrite(p, last[perms[p].subject]) ELSE Unchanged],
                 {NewRow(u, f, perms[last[u]].level, perms[last[u]].expires,
                         perms[first[u]].by, d) : u \in {v \in sharees : Rows(v, f) = {}}})
           /\ UNCHANGED halfDone
      BY <1>5
  <2> DEFINE dirty == [p \in PermIds |->
                        IF found(p) THEN overwrite(p, last[perms[p].subject]) ELSE Unchanged]
             fresh == {NewRow(u, f, perms[last[u]].level, perms[last[u]].expires,
                              perms[first[u]].by, d) : u \in {v \in sharees : Rows(v, f) = {}}}
  <2>2. \A u \in sharees : first[u] \in of(u) /\ last[u] \in of(u)
      BY <2>1
  <2>3. \A p \in PermIds : found(p) =>
            /\ Exists(p) /\ perms[p] \in Row /\ perms[p].on = f
            /\ perms[p].subject \in sharees /\ Rows(perms[p].subject, d) # {}
    <3> TAKE p \in PermIds
    <3> HAVE found(p)
    <3>1. PICK u \in sharees : p \in Rows(u, f)
        OBVIOUS
    <3>2. Exists(p) /\ perms[p].on = f /\ perms[p].subject = u
        BY <3>1 DEF Rows
    <3>3. first[u] \in Rows(u, d)
        BY <1>3, <2>2
    <3> QED BY <3>1, <3>2, <3>3, ExistsRow
  <2>4. \A p \in PermIds : found(p) =>
            LET change == overwrite(p, last[perms[p].subject])
            IN /\ change \in Change
               /\ change.from \in {Keep, d}
               /\ change.from # Keep \/ perms[p].from = d
    <3> SUFFICES ASSUME NEW p \in PermIds, found(p)
                 PROVE  LET change == overwrite(p, last[perms[p].subject])
                        IN /\ change \in Change
                           /\ change.from \in {Keep, d}
                           /\ change.from # Keep \/ perms[p].from = d
        OBVIOUS
    <3>1. perms[p] \in Row /\ perms[last[perms[p].subject]] \in Row
        BY <1>3, <2>2, <2>3
    <3> QED BY <3>1, <1>2, NullAssumption DEF Change, Assign, Row
  <2>5. \A u \in sharees :
            LET row == NewRow(u, f, perms[last[u]].level, perms[last[u]].expires,
                              perms[first[u]].by, d)
            IN row \in Row /\ row.on = f /\ row.subject = u /\ row.from = d
    <3> SUFFICES ASSUME NEW u \in sharees
                 PROVE  LET row == NewRow(u, f, perms[last[u]].level, perms[last[u]].expires,
                                          perms[first[u]].by, d)
                        IN row \in Row /\ row.on = f /\ row.subject = u /\ row.from = d
        OBVIOUS
    <3>1. perms[last[u]] \in Row /\ perms[first[u]] \in Row /\ u \in Users
        BY <1>3, <2>2
    <3>2. perms[last[u]].level \in Levels /\ perms[last[u]].expires \in Expiry
          /\ perms[first[u]].by \in Users
        BY <3>1 DEF Row
    <3> QED BY <3>1, <3>2, <1>2, NewRowType DEF NewRow
  <2>6. \A u \in sharees : Rows(u, d) # {}
      BY <1>3, <2>2
  <2> HIDE DEF overwrite, found, sharees
  <2>7. dirty \in [PermIds -> Change]
      BY <2>4, CleanType
  <2>8. \A row \in fresh : row \in Row /\ row.on = f /\ row.subject \in sharees /\ row.from = d
      BY <2>5
  <2>9. \A p \in PermIds :
            /\ dirty[p] # Unchanged => found(p)
            /\ dirty[p].from \in {Keep, d}
            /\ found(p) => dirty[p].from # Keep \/ perms[p].from = d
      BY <2>4 DEF Unchanged
  <2> DEFINE x == [sess[s] EXCEPT !.pc = "final", !.dirty = dirty, !.fresh = fresh]
  <2> HIDE DEF dirty, fresh
  <2>10. /\ x.op = "place" /\ x.pc = "final" /\ x.folder = d /\ x.file = f
         /\ x.dirty = dirty /\ x.fresh = fresh
      BY <1>1, <1>2 DEF Session
  <2> HIDE DEF x
  <2>11. Carried(x)
    <3>1. WellShaped(x)
        BY <2>10 DEF WellShaped
    <3>2. FreshOK(x)
        BY <2>10, <2>8, <2>6, <1>2 DEF FreshOK
    <3>3. DirtyOK(x)
      <4>1. \A p \in PermIds : dirty[p] = Unchanged =>
                dirty[p].active # TRUE /\ dirty[p].from = Keep
        <5>1. Unchanged.active = Keep /\ Unchanged.from = Keep
            BY DEF Unchanged
        <5>2. Keep # TRUE
            BY NullAssumption, Zenon
        <5> QED BY <5>1, <5>2, Zenon
      <4>2. ASSUME NEW p \in PermIds, x.dirty[p].active = TRUE
            PROVE  /\ Exists(p) /\ x.op = "place" /\ x.file = perms[p].on
                   /\ perms[p].on \in Files
                   /\ x.dirty[p].from # Keep \/ perms[p].from # None
          BY <4>2, <4>1, <2>10, <2>9, <2>3, <1>2, DistinctAssumption
      <4>3. ASSUME NEW p \in PermIds, x.dirty[p].from # Keep
            PROVE  /\ Exists(p) /\ perms[p].on \in Files
                   /\ Rows(perms[p].subject, x.dirty[p].from) # {}
          BY <4>3, <4>1, <2>10, <2>9, <2>3, <1>2
      <4> QED BY <4>2, <4>3 DEF DirtyOK
    <3>4. SpreadOK(x)
        BY <2>10 DEF SpreadOK
    <3> QED BY <3>1, <3>2, <3>3, <3>4 DEF Carried
  <2>12. Carried([sess[s] EXCEPT !.pc = "final", !.dirty = dirty, !.fresh = fresh])
      BY <2>11 DEF x
  <2>13. fresh \in SUBSET Row /\ "final" \in Phases
      BY <2>8 DEF Phases
  <2>14. Goto(s, "final", dirty, fresh)
      BY <2>1 DEF dirty, fresh
  <2>15. sess' \in [Sessions -> Session] /\ SessionsCarry'
      BY <1>1, <2>7, <2>12, <2>13, <2>14, GotoStep, Zenon
  <2> QED BY <2>1, <2>15 DEF TypeOK
<1> QED BY <1>4, <1>5 DEF Apply

\* A session that starts with nothing to insert and writes neither "from" nor
\* an "active" of TRUE carries what it should.
LEMMA HarmlessBegin ==
    ASSUME TypeOK, SessionsCarry, NEW s \in Sessions, NEW x \in Session,
           x.pc \in {"save", "sweep"}, x.op \in {"revoke", "update", "sweep"},
           x.pc = "sweep" => x.op = "sweep", x.fresh = {},
           \A p \in PermIds : x.dirty[p].active \in {Keep, FALSE} /\ x.dirty[p].from = Keep,
           Ready(s), Begin(s, x), perms' = perms
    PROVE  /\ sess' \in [Sessions -> Session]
           /\ started' \in 0..MaxRequests
           /\ SessionsCarry'
<1>1. WellShaped(x)
    BY DEF WellShaped
<1>2. Carried(x)
    BY <1>1, HarmlessCarried
<1> QED BY <1>2, BeginStep

\* revoke_permission, first transaction
LEMMA RevokeStep ==
    ASSUME TypeOK, SessionsCarry, NEW s \in Sessions, NEW a \in Users, NEW p \in PermIds,
           Revoke(s, a, p)
    PROVE  /\ sess' \in [Sessions -> Session]
           /\ started' \in 0..MaxRequests
           /\ SessionsCarry'
<1> DEFINE dirty == [Clean EXCEPT ![p] = Deactivate(p)]
           d == IF perms[p].on \in Folders THEN perms[p].on ELSE None
           u == perms[p].subject
<1>1. perms[p] \in Row
    BY ExistsRow DEF Revoke
<1>2. u \in Users \cup {None} /\ d \in Folders \cup {None}
    BY <1>1 DEF Row
<1>3. dirty \in [PermIds -> Change]
    BY CleanType, DeactivateType
<1>4. \A q \in PermIds : dirty[q].active \in {Keep, FALSE} /\ dirty[q].from = Keep
    BY CleanType, CleanFields, DeactivateType
<1> DEFINE x == [Idle EXCEPT !.pc = "save", !.op = "revoke", !.subject = u, !.folder = d,
                             !.dirty = dirty]
<1>5. Ready(s) /\ Begin(s, x) /\ perms' = perms
    BY DEF Revoke
<1> HIDE DEF dirty, u, d
<1>6. x \in Session /\ x.pc = "save" /\ x.op = "revoke" /\ x.fresh = {} /\ x.dirty = dirty
    BY <1>2, <1>3, IdleType DEF Session, Idle, Phases, Ops
<1> HIDE DEF x
<1> QED BY <1>4, <1>5, <1>6, HarmlessBegin

\* The cascade on the inherited rows
LEMMA CascadeStep ==
    ASSUME TypeOK, SessionsCarry, NEW s \in Sessions, Cascade(s)
    PROVE  sess' \in [Sessions -> Session] /\ SessionsCarry'
<1> DEFINE hit(p) == /\ Exists(p)
                     /\ perms[p].from = sess[s].folder
                     /\ perms[p].subject = sess[s].subject
           dirty == [p \in PermIds |-> IF hit(p) THEN Deactivate(p) ELSE Unchanged]
           x == [sess[s] EXCEPT !.pc = "final", !.dirty = dirty, !.fresh = {}]
<1>1. /\ sess[s] \in Session /\ sess[s].op = "revoke"
      /\ Goto(s, "final", dirty, {}) /\ perms' = perms
    BY DEF TypeOK, Cascade, SessionsCarry, Carried, WellShaped
<1>2. dirty \in [PermIds -> Change]
    BY CleanType, DeactivateType
<1>3. \A p \in PermIds : dirty[p].active \in {Keep, FALSE} /\ dirty[p].from = Keep
    BY DeactivateType DEF Unchanged
<1> HIDE DEF dirty
<1>4. x.dirty = dirty /\ x.fresh = {} /\ x.op = "revoke" /\ x.pc = "final"
    BY <1>1 DEF Session
<1> HIDE DEF x
<1>5. Carried(x)
    BY <1>3, <1>4, HarmlessCarried DEF WellShaped
<1>6. Carried([sess[s] EXCEPT !.pc = "final", !.dirty = dirty, !.fresh = {}])
    BY <1>5 DEF x
<1>7. "final" \in Phases /\ {} \in SUBSET Row
    BY DEF Phases
<1> QED BY <1>1, <1>2, <1>6, <1>7, GotoStep, Zenon

\* update_permission
LEMMA UpdateStep ==
    ASSUME TypeOK, SessionsCarry, NEW s \in Sessions, NEW a \in Users, NEW p \in PermIds,
           NEW level \in Levels \cup {Keep}, NEW expires \in Expiry \cup {Keep},
           Update(s, a, p, level, expires)
    PROVE  /\ sess' \in [Sessions -> Session]
           /\ started' \in 0..MaxRequests
           /\ SessionsCarry'
<1> DEFINE siblings == {q \in PermIds :
                /\ Exists(q)
                /\ perms[p].from # None
                /\ perms[q].from = perms[p].from
                /\ perms[q].subject = perms[p].subject}
           patch(q) == [Unchanged EXCEPT !.level = Assign(perms[q].level, level),
                                         !.expires = Assign(perms[q].expires, expires)]
           dirty == [q \in PermIds |-> IF q \in siblings \cup {p} THEN patch(q) ELSE Unchanged]
<1>1. \A q \in PermIds : patch(q) \in Change /\ patch(q).active = Keep /\ patch(q).from = Keep
    BY CleanType DEF Unchanged, Change, Assign
<1> HIDE DEF patch, siblings
<1>2. dirty \in [PermIds -> Change]
    BY <1>1, CleanType
<1>3. \A q \in PermIds : dirty[q].active \in {Keep, FALSE} /\ dirty[q].from = Keep
    BY <1>1 DEF Unchanged
<1> DEFINE x == [Idle EXCEPT !.pc = "save", !.op = "update", !.dirty = dirty]
<1>4. Ready(s) /\ Begin(s, x) /\ perms' = perms
    BY DEF Update, siblings, patch
<1> HIDE DEF dirty
<1>5. x \in Session /\ x.pc = "save" /\ x.op = "update" /\ x.fresh = {} /\ x.dirty = dirty
    BY <1>2, IdleType DEF Session, Idle, Phases, Ops
<1> HIDE DEF x
<1> QED BY <1>3, <1>4, <1>5, HarmlessBegin

\* extend_permission
LEMMA ExtendStep ==
    ASSUME TypeOK, SessionsCarry, NEW s \in Sessions, NEW a \in Users, NEW u \in Users,
           NEW f \in Files, NEW expires \in Expiry, Extend(s, a, u, f, expires)
    PROVE  /\ sess' \in [Sessions -> Session]
           /\ started' \in 0..MaxRequests
           /\ SessionsCarry'
<1> DEFINE change(p) == [Unchanged EXCEPT !.expires = Assign(perms[p].expires, expires)]
           dirty(p) == [Clean EXCEPT ![p] = change(p)]
           x(p) == [Idle EXCEPT !.pc = "save", !.op = "update", !.dirty = dirty(p)]
<1>1. PICK p \in LiveRows(u, f) : Ready(s) /\ Begin(s, x(p)) /\ perms' = perms
    BY DEF Extend
<1>2. change(p) \in Change /\ change(p).active = Keep /\ change(p).from = Keep
    BY CleanType DEF Unchanged, Change, Assign
<1> HIDE DEF change
<1>3. dirty(p) \in [PermIds -> Change]
    BY <1>2, CleanType
<1>4. \A q \in PermIds : dirty(p)[q].active \in {Keep, FALSE} /\ dirty(p)[q].from = Keep
    BY <1>2, CleanType, CleanFields
<1> HIDE DEF dirty
<1>5. /\ x(p) \in Session /\ x(p).pc = "save" /\ x(p).op = "update"
      /\ x(p).fresh = {} /\ x(p).dirty = dirty(p)
    BY <1>3, IdleType DEF Session, Idle, Phases, Ops
<1> HIDE DEF x
<1> QED BY <1>1, <1>4, <1>5, HarmlessBegin

\* The sweep reads the expired rows
LEMMA SweepStep ==
    ASSUME TypeOK, SessionsCarry, NEW s \in Sessions, Sweep(s)
    PROVE  /\ sess' \in [Sessions -> Session]
           /\ started' \in 0..MaxRequests
           /\ SessionsCarry'
<1> DEFINE expired == {p \in PermIds : Active(p) /\ Expired(perms[p])}
           dirty == [p \in PermIds |-> IF p \in expired THEN Deactivate(p) ELSE Unchanged]
<1>1. dirty \in [PermIds -> Change]
    BY CleanType, DeactivateType
<1>2. \A p \in PermIds : dirty[p].active \in {Keep, FALSE} /\ dirty[p].from = Keep
    BY DeactivateType DEF Unchanged
<1> DEFINE x == [Idle EXCEPT !.pc = "sweep", !.op = "sweep", !.dirty = dirty]
<1>3. Ready(s) /\ Begin(s, x) /\ perms' = perms
    BY DEF Sweep
<1> HIDE DEF dirty
<1>4. x \in Session /\ x.pc = "sweep" /\ x.op = "sweep" /\ x.fresh = {} /\ x.dirty = dirty
    BY <1>1, IdleType DEF Session, Idle, Phases, Ops
<1> HIDE DEF x
<1> QED BY <1>2, <1>3, <1>4, HarmlessBegin

\* A file is placed in a folder
LEMMA PlaceStep ==
    ASSUME TypeOK, SessionsCarry, NEW s \in Sessions, NEW f \in Files,
           NEW d \in Folders \cup {None}, Ready(s), Place(s, f, d)
    PROVE  /\ sess' \in [Sessions -> Session]
           /\ started' \in 0..MaxRequests
           /\ SessionsCarry'
           /\ location' \in [Files -> Folders \cup {None, Unborn}]
<1> DEFINE x == [Idle EXCEPT !.pc = "apply", !.op = "place", !.folder = d, !.file = f]
<1>1. location' \in [Files -> Folders \cup {None, Unborn}]
    BY DEF Place, TypeOK
<1>2. CASE d = None
    BY <1>1, <1>2, IdleType, IdleCarried, BeginStep DEF Place
<1>3. CASE d # None
  <2>1. x \in Session
      BY IdleType DEF Session, Phases, Ops
  <2>2. x.dirty = Clean /\ x.fresh = {} /\ x.op = "place" /\ x.pc = "apply"
        /\ x.folder \in Folders /\ x.file \in Files
      BY <1>3, IdleType DEF Session, Idle
  <2>3. Ready(s) /\ Begin(s, x) /\ perms' = perms
      BY <1>3 DEF Place
  <2> HIDE DEF x
  <2>4. Carried(x)
      BY <2>2, CleanFields, HarmlessCarried DEF WellShaped
  <2> QED BY <1>1, <2>1, <2>3, <2>4, BeginStep
<1> QED BY <1>2, <1>3

-----------------------------------------------------------------------------
(* The steps that write the table *)

\* A commit inserts rows and overwrites columns, and removes nothing.
LEMMA StoredKeeps ==
    ASSUME TypeOK, NEW fresh \in SUBSET Row, NEW ins \in Placements(fresh),
           NEW dirty \in [PermIds -> Change], perms' = Stored(ins, dirty)
    PROVE  /\ perms' \in [PermIds -> Row \cup {NoRow}]
           /\ RowsKept
           /\ \A row \in fresh : Rows(row.subject, row.on)' # {}
           /\ \A p \in PermIds : Exists(p) => perms'[p] = Flush(perms[p], dirty[p])
           /\ \A p \in PermIds : ~Exists(p) => perms'[p] \in fresh \cup {NoRow}
<1>1. perms' \in [PermIds -> Row \cup {NoRow}]
    BY StoredType
<1>2. ASSUME NEW p \in PermIds, Exists(p)
      PROVE  perms'[p] = Flush(perms[p], dirty[p])
    BY <1>2 DEF Stored, Placements
<1>3. RowsKept
  <2> SUFFICES ASSUME NEW p \in PermIds, Exists(p)
               PROVE  /\ Exists(p)'
                      /\ perms'[p].subject = perms[p].subject
                      /\ perms'[p].on = perms[p].on
                      /\ perms[p].from # None => perms'[p].from # None
      BY DEF RowsKept
  <2>1. perms[p] \in Row /\ perms'[p] = Flush(perms[p], dirty[p])
      BY <1>2, ExistsRow
  <2>2. perms'[p] \in Row /\ perms'[p].from = Column(perms[p].from, dirty[p].from)
        /\ perms'[p].subject = perms[p].subject /\ perms'[p].on = perms[p].on
      BY <2>1, FlushType
  <2>3. dirty[p].from \in Folders \cup {Keep}
      BY DEF Change
  <2>4. perms[p].from # None => perms'[p].from # None
      BY <2>2, <2>3, DistinctAssumption DEF Column
  <2> QED BY <2>2, <2>4, NullAssumption DEF Exists
<1>4. ASSUME NEW row \in fresh
      PROVE  Rows(row.subject, row.on)' # {}
  <2>1. PICK p \in PermIds : ins[p] = row
      BY DEF Placements
  <2>2. row # NoRow
      BY NullAssumption
  <2>3. perms'[p] = row
      BY <2>1, <2>2 DEF Stored
  <2>4. p \in Rows(row.subject, row.on)'
      BY <2>2, <2>3 DEF Rows, Exists
  <2> QED BY <2>4
<1>5. \A p \in PermIds : ~Exists(p) => perms'[p] \in fresh \cup {NoRow}
    BY DEF Stored, Placements
<1> QED BY <1>1, <1>2, <1>3, <1>4, <1>5

\* After such a step the other sessions carry what they did.
LEMMA OtherSessions ==
    ASSUME TypeOK, SessionsCarry, RowsKept, NEW s \in Sessions, NEW x \in Session,
           Carried(x)', sess' = [sess EXCEPT ![s] = x]
    PROVE  sess' \in [Sessions -> Session] /\ SessionsCarry'
<1>1. sess' \in [Sessions -> Session]
    BY DEF TypeOK
<1>2. ASSUME NEW t \in Sessions PROVE Carried(sess[t])'
  <2> DEFINE y == sess'[t]
  <2>1. CASE t = s
    <3>1. y = x
        BY <2>1 DEF TypeOK
    <3> QED BY <3>1
  <2>2. CASE t # s
    <3>1. y = sess[t]
        BY <2>2 DEF TypeOK
    <3>2. Carried(sess[t])
        BY DEF SessionsCarry
    <3> QED BY <3>1, <3>2, CarriedKept
  <2> QED BY <2>1, <2>2
<1> QED BY <1>1, <1>2 DEF SessionsCarry

\* A session whose first commit is done carries what it should to the second.
LEMMA NextPhase ==
    ASSUME RowsKept, NEW z \in Session, Carried(z), NEW pc,
           \A row \in z.fresh : Rows(row.subject, row.on)' # {},
           \/ pc = "spread" /\ z.op = "grant" /\ z.folder # None
           \/ pc = "cascade" /\ z.op = "revoke" /\ z.folder # None
    PROVE  /\ [z EXCEPT !.pc = pc, !.dirty = Clean, !.fresh = {}] \in Session
           /\ Carried([z EXCEPT !.pc = pc, !.dirty = Clean, !.fresh = {}])'
<1>1. PICK x : x = [z EXCEPT !.pc = pc, !.dirty = Clean, !.fresh = {}]
    OBVIOUS
<1>2. pc \in Phases
    BY DEF Phases
<1>3. x \in Session
    BY <1>1, <1>2, CleanType DEF Session
<1>4. /\ x.op = z.op /\ x.subject = z.subject /\ x.folder = z.folder /\ x.actor = z.actor
      /\ x.level = z.level /\ x.pc = pc /\ x.dirty = Clean /\ x.fresh = {}
    BY <1>1 DEF Session
<1>5. WellShaped(x)
  <2>1. z.folder \in Folders \cup {None} /\ WellShaped(z)
      BY DEF Session, Carried
  <2> QED BY <1>4, <2>1 DEF WellShaped
<1>6. SpreadOK(x)'
  <2> SUFFICES ASSUME x.op = "grant", x.folder # None
               PROVE  Rows(x.subject, x.folder)' # {}
      BY DEF SpreadOK
  <2>1. CASE Rows(z.subject, z.folder) # {}
      BY <2>1, <1>4, RowsGrow
  <2>2. CASE \E row \in z.fresh : row.subject = z.subject /\ row.on = z.folder
      BY <2>2, <1>4
  <2> QED BY <2>1, <2>2, <1>4 DEF Carried, SpreadOK
<1>7. FreshOK(x)'
    BY <1>4 DEF FreshOK
<1>8. DirtyOK(x)'
    BY <1>4, CleanFields, NullAssumption DEF DirtyOK
<1>9. Clean' = Clean
    BY DEF Clean, Unchanged
<1>10. Carried(x)'
    BY <1>5, <1>6, <1>7, <1>8 DEF Carried, WellShaped
<1> QED BY <1>1, <1>3, <1>9, <1>10

\* A session that commits
LEMMA CommitStep ==
    ASSUME TypeOK, SessionsCarry, NEW s \in Sessions, NEW z, z = sess[s], Commit(s)
    PROVE  /\ z \in Session /\ Carried(z)
           /\ perms' \in [PermIds -> Row \cup {NoRow}]
           /\ sess' \in [Sessions -> Session]
           /\ SessionsCarry'
           /\ RowsKept
           /\ \A row \in z.fresh : Rows(row.subject, row.on)' # {}
           /\ \A p \in PermIds : Exists(p) => perms'[p] = Flush(perms[p], z.dirty[p])
           /\ \A p \in PermIds : ~Exists(p) => perms'[p] \in z.fresh \cup {NoRow}
           /\ \E x \in Session :
                /\ sess' = [sess EXCEPT ![s] = x]
                /\ z.op = "grant" /\ z.pc = "save" /\ z.folder # None =>
                    x.pc = "spread" /\ x.subject = z.subject /\ x.folder = z.folder
<1>1. /\ z \in Session /\ Carried(z) /\ z.fresh \in SUBSET Row
      /\ z.dirty \in [PermIds -> Change] /\ z.pc \in {"save", "final"}
    BY DEF TypeOK, SessionsCarry, Commit, Session
<1>2. PICK ins \in Placements(z.fresh) : perms' = Stored(ins, z.dirty)
    BY DEF Commit
<1>3. /\ perms' \in [PermIds -> Row \cup {NoRow}]
      /\ RowsKept
      /\ \A row \in z.fresh : Rows(row.subject, row.on)' # {}
      /\ \A p \in PermIds : Exists(p) => perms'[p] = Flush(perms[p], z.dirty[p])
      /\ \A p \in PermIds : ~Exists(p) => perms'[p] \in z.fresh \cup {NoRow}
    BY <1>1, <1>2, StoredKeeps
<1>4. CASE /\ sess' = [sess EXCEPT ![s] = Idle]
           /\ ~(z.pc = "save" /\ Rest(s) # "idle")
  <2>1. Carried(Idle)'
      BY <1>3, IdleCarried, CarriedKept
  <2>2. ~(z.op = "grant" /\ z.pc = "save" /\ z.folder # None)
      BY <1>4 DEF Rest
  <2> QED BY <1>1, <1>3, <1>4, <2>1, <2>2, IdleType, OtherSessions
<1>5. CASE z.pc = "save" /\ Rest(s) # "idle" /\ Goto(s, Rest(s), Clean, {})
  <2>1. PICK pc : pc = Rest(s)
      OBVIOUS
  <2>2. \/ pc = "spread" /\ z.op = "grant" /\ z.folder # None
        \/ pc = "cascade" /\ z.op = "revoke" /\ z.folder # None
      BY <1>5, <2>1 DEF Rest
  <2>3. PICK x : x = [z EXCEPT !.pc = pc, !.dirty = Clean, !.fresh = {}]
      OBVIOUS
  <2>4. x \in Session /\ Carried(x)'
    <3>1. Clean' = Clean
        BY DEF Clean, Unchanged
    <3> QED BY <1>1, <1>3, <2>2, <2>3, <3>1, NextPhase
  <2>5. sess' = [sess EXCEPT ![s] = x]
      BY <1>5, <2>1, <2>3 DEF Goto
  <2>6. x.pc = pc /\ x.subject = z.subject /\ x.folder = z.folder
      BY <1>1, <2>3 DEF Session
  <2> QED BY <1>1, <1>3, <2>2, <2>4, <2>5, <2>6, OtherSessions
<1> QED BY <1>4, <1>5 DEF Commit

\* A commit whose rows and columns are inherited from folders their subjects
\* have a row on leaves the table so.
LEMMA OriginKept ==
    ASSUME TypeOK, InheritedHasOrigin, RowsKept, NEW fresh \in SUBSET Row,
           NEW dirty \in [PermIds -> Change],
           \A p \in PermIds : Exists(p) => perms'[p] = Flush(perms[p], dirty[p]),
           \A p \in PermIds : ~Exists(p) => perms'[p] \in fresh \cup {NoRow},
           \A p \in PermIds : Exists(p) /\ dirty[p].from # Keep =>
                perms[p].on \in Files /\ Rows(perms[p].subject, dirty[p].from) # {},
           \A row \in fresh : row.from # None =>
                row.on \in Files /\ Rows(row.subject, row.from) # {}
    PROVE  InheritedHasOrigin'
<1> SUFFICES ASSUME NEW p \in PermIds, Exists(p)', perms'[p].from # None
             PROVE  perms'[p].on \in Files /\ Rows(perms[p].subject, perms[p].from)' # {}
    BY DEF InheritedHasOrigin
<1>1. CASE ~Exists(p)
  <2>1. perms'[p] \in fresh
      BY <1>1 DEF Exists
  <2>2. Rows(perms'[p].subject, perms'[p].from) # {} /\ perms'[p].on \in Files
      BY <2>1
  <2> QED BY <2>2, RowsGrow
<1>2. CASE Exists(p) /\ dirty[p].from # Keep
  <2>1. perms'[p].from = dirty[p].from /\ perms'[p].subject = perms[p].subject
        /\ perms'[p].on = perms[p].on
      BY <1>2, ExistsRow, FlushType DEF Column
  <2>2. Rows(perms'[p].subject, perms'[p].from) # {} /\ perms'[p].on \in Files
      BY <1>2, <2>1
  <2> QED BY <2>2, RowsGrow
<1>3. CASE Exists(p) /\ dirty[p].from = Keep
  <2>1. perms'[p].from = perms[p].from /\ perms'[p].subject = perms[p].subject
        /\ perms'[p].on = perms[p].on
      BY <1>3, ExistsRow, FlushType DEF Column
  <2>2. Rows(perms'[p].subject, perms'[p].from) # {} /\ perms'[p].on \in Files
      BY <1>3, <2>1 DEF InheritedHasOrigin
  <2> QED BY <2>2, RowsGrow
<1> QED BY <1>1, <1>2, <1>3

\* What the sweep, and a check, do to the table: rows are deactivated.
OnlyDeactivates ==
    \A p \in PermIds :
        /\ Exists(p)' => Exists(p)
        /\ Exists(p) /\ perms'[p].active = TRUE => perms[p].active = TRUE

\* The sweep deactivates one row
LEMMA SweepOneStep ==
    ASSUME TypeOK, SessionsCarry, InheritedHasOrigin, NEW s \in Sessions, SweepOne(s)
    PROVE  /\ perms' \in [PermIds -> Row \cup {NoRow}]
           /\ sess' \in [Sessions -> Session]
           /\ SessionsCarry'
           /\ InheritedHasOrigin'
           /\ RowsKept
           /\ OnlyDeactivates
           /\ \E x \in Session : sess' = [sess EXCEPT ![s] = x]
<1>1. PICK z : z = sess[s]
    OBVIOUS
<1>2. /\ z \in Session /\ Carried(z) /\ z.pc = "sweep" /\ z.op = "sweep"
      /\ z.dirty \in [PermIds -> Change]
    BY <1>1 DEF TypeOK, SessionsCarry, SweepOne, Session, Carried, WellShaped
<1>3. PICK p \in PermIds :
        /\ z.dirty[p] # Unchanged
        /\ perms' = Stored(NoInsert, [Clean EXCEPT ![p] = z.dirty[p]])
        /\ LET left == [z.dirty EXCEPT ![p] = Unchanged]
           IN IF left = Clean THEN sess' = [sess EXCEPT ![s] = Idle]
                              ELSE Goto(s, "sweep", left, {})
    BY <1>1 DEF SweepOne
<1>4. PICK one : one = [Clean EXCEPT ![p] = z.dirty[p]]
    OBVIOUS
<1>5. one \in [PermIds -> Change]
    BY <1>2, <1>4, CleanType
<1>6. \A q \in PermIds : z.dirty[q].active # TRUE /\ one[q].active # TRUE
  <2>1. \A q \in PermIds : z.dirty[q].active # TRUE
      BY <1>2 DEF Carried, DirtyOK
  <2>2. \A q \in PermIds : Clean[q].active # TRUE
      BY CleanFields, NullAssumption, Zenon
  <2> QED BY <2>1, <2>2, <1>4, CleanType
<1>7. NoInsert \in Placements({}) /\ {} \in SUBSET Row
    BY DEF NoInsert, Placements
<1>8. /\ perms' \in [PermIds -> Row \cup {NoRow}]
      /\ RowsKept
      /\ \A q \in PermIds : Exists(q) => perms'[q] = Flush(perms[q], one[q])
      /\ \A q \in PermIds : ~Exists(q) => perms'[q] \in {} \cup {NoRow}
    BY <1>3, <1>4, <1>5, <1>7, StoredKeeps
<1>9. InheritedHasOrigin'
  <2>1. \A q \in PermIds : one[q].from # Keep => one[q] = z.dirty[q]
      BY <1>4, CleanFields, CleanType
  <2>2. \A q \in PermIds : Exists(q) /\ one[q].from # Keep =>
            perms[q].on \in Files /\ Rows(perms[q].subject, one[q].from) # {}
      BY <2>1, <1>2 DEF Carried, DirtyOK
  <2>3. \A row \in {} : row.from # None =>
            row.on \in Files /\ Rows(row.subject, row.from) # {}
      OBVIOUS
  <2> QED BY <1>5, <1>7, <1>8, <2>2, <2>3, OriginKept
<1>10. OnlyDeactivates
  <2>1. ASSUME NEW q \in PermIds, Exists(q), perms'[q].active = TRUE
        PROVE  perms[q].active = TRUE
    <3>1. perms[q] \in Row /\ one[q] \in Change /\ perms'[q] = Flush(perms[q], one[q])
        BY <1>5, <1>8, <2>1, ExistsRow
    <3>2. perms'[q].active = Column(perms[q].active, one[q].active)
        BY <3>1, FlushType
    <3> QED BY <2>1, <3>2, <1>6, Zenon DEF Column
  <2>2. \A q \in PermIds : Exists(q)' => Exists(q)
      BY <1>8 DEF Exists
  <2> QED BY <2>1, <2>2 DEF OnlyDeactivates
<1>11. PICK left : left = [z.dirty EXCEPT ![p] = Unchanged]
    OBVIOUS
<1>12. left \in [PermIds -> Change]
    BY <1>2, <1>11, CleanType
<1>13. CASE sess' = [sess EXCEPT ![s] = Idle]
  <2>1. Carried(Idle)'
      BY <1>8, IdleCarried, CarriedKept
  <2>2. sess' \in [Sessions -> Session] /\ SessionsCarry'
      BY <1>8, <1>13, <2>1, IdleType, OtherSessions
  <2> QED BY <1>8, <1>9, <1>10, <1>13, <2>2, IdleType
<1>14. CASE Goto(s, "sweep", left, {})
  <2>1. PICK x : x = [z EXCEPT !.pc = "sweep", !.dirty = left, !.fresh = {}]
      OBVIOUS
  <2>2. x \in Session /\ x.pc = "sweep" /\ x.op = "sweep" /\ x.dirty = left /\ x.fresh = {}
        /\ x.file = z.file
      BY <1>2, <1>12, <2>1 DEF Session, Phases
  <2>3. sess' = [sess EXCEPT ![s] = x]
      BY <1>1, <1>14, <2>1 DEF Goto
  <2>4. WellShaped(x) /\ FreshOK(x) /\ SpreadOK(x)
      BY <2>2 DEF WellShaped, FreshOK, SpreadOK
  <2>5. DirtyOK(x)
    <3>1. \A q \in PermIds : left[q].active # TRUE
      <4>1. Unchanged.active = Keep
          BY DEF Unchanged
      <4>2. Unchanged.active # TRUE
          BY <4>1, NullAssumption, Zenon
      <4>3. \A q \in PermIds : left[q] = Unchanged \/ left[q] = z.dirty[q]
          BY <1>2, <1>11
      <4> QED BY <1>6, <4>2, <4>3, Zenon
    <3>2. \A q \in PermIds : left[q].from # Keep => left[q] = z.dirty[q]
        BY <1>2, <1>11 DEF Unchanged
    <3> QED BY <2>2, <3>1, <3>2, <1>2 DEF Carried, DirtyOK
  <2>6. Carried(x)'
      BY <1>8, <2>4, <2>5, CarriedKept DEF Carried
  <2>7. sess' \in [Sessions -> Session] /\ SessionsCarry'
      BY <1>8, <2>2, <2>3, <2>6, OtherSessions
  <2> QED BY <1>8, <1>9, <1>10, <2>2, <2>3, <2>7
<1> QED BY <1>3, <1>11, <1>13, <1>14

\* check_permission deactivates a row that has just expired
LEMMA LapseStep ==
    ASSUME TypeOK, SessionsCarry, InheritedHasOrigin, NEW p \in PermIds, LapseOnCheck(p)
    PROVE  /\ perms' \in [PermIds -> Row \cup {NoRow}]
           /\ SessionsCarry'
           /\ InheritedHasOrigin'
           /\ RowsKept
           /\ OnlyDeactivates
<1>1. /\ Exists(p) /\ perms[p] \in Row /\ sess' = sess
      /\ perms' = [perms EXCEPT ![p] = [perms[p] EXCEPT !.active = FALSE]]
    BY ExistsRow DEF LapseOnCheck, Active
<1>2. PICK row : row = [perms[p] EXCEPT !.active = FALSE]
    OBVIOUS
<1>3. /\ row \in Row /\ row # NoRow /\ row.active = FALSE /\ row.subject = perms[p].subject
      /\ row.on = perms[p].on /\ row.from = perms[p].from
    BY <1>1, <1>2, NullAssumption DEF Row
<1>4. \A q \in PermIds : perms'[q] = IF q = p THEN row ELSE perms[q]
    BY <1>1, <1>2 DEF TypeOK
<1>5. perms' \in [PermIds -> Row \cup {NoRow}]
    BY <1>1, <1>2, <1>3 DEF TypeOK
<1>6. RowsKept
    BY <1>1, <1>3, <1>4 DEF RowsKept, Exists
<1>7. OnlyDeactivates
    BY <1>1, <1>3, <1>4 DEF OnlyDeactivates, Exists
<1>8. SessionsCarry'
    BY <1>1, <1>6, CarriedKept DEF SessionsCarry
<1>9. InheritedHasOrigin'
  <2> SUFFICES ASSUME NEW q \in PermIds, Exists(q)', perms'[q].from # None
               PROVE  perms'[q].on \in Files /\ Rows(perms[q].subject, perms[q].from)' # {}
      BY DEF InheritedHasOrigin
  <2>1. /\ Exists(q) /\ perms'[q].on = perms[q].on /\ perms'[q].from = perms[q].from
        /\ perms'[q].subject = perms[q].subject
      BY <1>1, <1>3, <1>4 DEF Exists
  <2>2. Rows(perms'[q].subject, perms'[q].from) # {} /\ perms'[q].on \in Files
      BY <2>1 DEF InheritedHasOrigin
  <2> QED BY <1>6, <2>2, RowsGrow
<1> QED BY <1>5, <1>6, <1>7, <1>8, <1>9

-----------------------------------------------------------------------------
(* Who is owed a row *)

\* A session's plans do not change while other sessions step.
LEMMA OthersReach ==
    ASSUME TypeOK, NEW s \in Sessions, NEW x, sess' = [sess EXCEPT ![s] = x],
           NEW t \in Sessions, t # s, NEW u, NEW d, NEW f, WillReach(t, u, d, f)
    PROVE  WillReach(t, u, d, f)'
<1>1. sess'[t] = sess[t]
    BY DEF TypeOK
<1> QED BY <1>1 DEF WillReach

\* A step of a session with no such plan, which activates no row and inserts
\* none on a folder, owes nobody a new row.
LEMMA PendingStep ==
    ASSUME TypeOK, MissingIsPending, RowsKept, NEW s \in Sessions, NEW x,
           sess' = [sess EXCEPT ![s] = x],
           sess[s].pc \notin {"spread", "apply", "final"},
           perms' \in [PermIds -> Row \cup {NoRow}],
           OnlyDeactivates, location' = location, halfDone' = halfDone
    PROVE  MissingIsPending'
<1> SUFFICES ASSUME ~halfDone', NEW q \in PermIds, NEW f \in Files, Active(q)',
                    perms'[q].on \in Folders, location'[f] = perms'[q].on,
                    Rows(perms[q].subject, f)' = {}
             PROVE  \E t \in Sessions : WillReach(t, perms[q].subject, perms[q].on, f)'
    BY DEF MissingIsPending
<1>1. Exists(q) /\ perms[q].active = TRUE
  <2>1. perms'[q] \in Row /\ perms'[q].active
      BY DEF Active, Exists
  <2>2. perms'[q].active = TRUE
      BY <2>1 DEF Row
  <2> QED BY <2>2 DEF OnlyDeactivates, Active
<1>2. PICK u, d : u = perms[q].subject /\ d = perms[q].on
    OBVIOUS
<1>3. perms'[q].subject = u /\ perms'[q].on = d
    BY <1>1, <1>2 DEF RowsKept
<1>4. Rows(u, f) = {}
    BY <1>3, RowsGrow
<1>5. PICK t \in Sessions : WillReach(t, u, d, f)
  <2>1. Active(q) /\ ~halfDone /\ location[f] = d /\ d \in Folders
      BY <1>1, <1>3 DEF Active
  <2> QED BY <1>2, <1>4, <2>1 DEF MissingIsPending
<1>6. t # s
    BY <1>5 DEF WillReach
<1>7. WillReach(t, u, d, f)'
    BY <1>5, <1>6, OthersReach
<1> QED BY <1>3, <1>7

\* Starting a request, other than one that places a file.
LEMMA BeginKeeps ==
    ASSUME IInv, NEW s \in Sessions, NEW x, Ready(s), Begin(s, x),
           sess' \in [Sessions -> Session], started' \in 0..MaxRequests, SessionsCarry',
           UNCHANGED <<perms, location, now, crashes, halfDone>>
    PROVE  IInv'
<1> USE DEF IInv
<1>1. TypeOK'
    BY DEF TypeOK
<1>2. InheritedHasOrigin'
    BY DEF InheritedHasOrigin, Rows, Exists
<1>3. RowsKept
    BY DEF RowsKept, Exists
<1>4. OnlyDeactivates
    BY DEF OnlyDeactivates, Exists
<1>5. MissingIsPending'
    BY <1>3, <1>4, PendingStep DEF Ready, Begin, TypeOK
<1> QED BY <1>1, <1>2, <1>5

\* A step that leaves the table, the places of the files and the counters alone.
LEMMA QuietKeeps ==
    ASSUME IInv, sess' \in [Sessions -> Session], SessionsCarry', halfDone' \in BOOLEAN,
           MissingIsPending', UNCHANGED <<perms, location, now, started, crashes>>
    PROVE  IInv'
<1>1. TypeOK'
    BY DEF IInv, TypeOK
<1>2. InheritedHasOrigin'
    BY DEF IInv, InheritedHasOrigin, Rows, Exists
<1> QED BY <1>1, <1>2 DEF IInv

\* Placing a file: the session that does owes its rows.
LEMMA PlaceKeeps ==
    ASSUME IInv, NEW s \in Sessions, NEW f \in Files, NEW d \in Folders \cup {None},
           Ready(s), Place(s, f, d)
    PROVE  IInv'
<1>1. /\ sess' \in [Sessions -> Session] /\ started' \in 0..MaxRequests /\ SessionsCarry'
      /\ location' \in [Files -> Folders \cup {None, Unborn}]
    BY PlaceStep DEF IInv
<1>2. UNCHANGED <<perms, now, crashes, halfDone>> /\ location' = [location EXCEPT ![f] = d]
    BY DEF Place
<1>3. TypeOK'
    BY <1>1, <1>2 DEF IInv, TypeOK
<1>4. InheritedHasOrigin'
    BY <1>2 DEF IInv, InheritedHasOrigin, Rows, Exists
<1>5. MissingIsPending'
  <2> SUFFICES ASSUME ~halfDone', NEW q \in PermIds, NEW g \in Files, Active(q)',
                      perms'[q].on \in Folders, location'[g] = perms'[q].on,
                      Rows(perms[q].subject, g)' = {}
               PROVE  \E t \in Sessions : WillReach(t, perms[q].subject, perms[q].on, g)'
      BY DEF MissingIsPending
  <2>1. PICK u, e : u = perms[q].subject /\ e = perms[q].on
      OBVIOUS
  <2>2. /\ perms'[q].subject = u /\ perms'[q].on = e /\ e \in Folders /\ Active(q) /\ ~halfDone
        /\ Rows(u, g) = {}
      BY <1>2, <2>1 DEF Active, Exists, Rows
  <2>3. CASE g = f
    <3>1. d = e /\ d # None
        BY <1>2, <2>2, <2>3, DistinctAssumption DEF IInv, TypeOK
    <3>2. sess' = [sess EXCEPT ![s] =
                    [Idle EXCEPT !.pc = "apply", !.op = "place", !.folder = d, !.file = f]]
        BY <3>1 DEF Place, Begin
    <3>3. sess'[s].pc = "apply" /\ sess'[s].file = f /\ sess'[s].folder = d
        BY <3>2 DEF IInv, TypeOK, Idle
    <3>4. WillReach(s, u, e, g)'
        BY <2>3, <3>1, <3>3 DEF WillReach
    <3> QED BY <2>2, <3>4
  <2>4. CASE g # f
    <3>1. location[g] = e
        BY <1>2, <2>2, <2>4 DEF IInv, TypeOK
    <3>2. PICK t \in Sessions : WillReach(t, u, e, g)
        BY <2>1, <2>2, <3>1 DEF IInv, MissingIsPending
    <3>3. PICK x : sess' = [sess EXCEPT ![s] = x] /\ sess[s].pc = "idle"
        BY DEF Place, Begin, Ready
    <3>4. t # s
        BY <3>2, <3>3 DEF WillReach
    <3>5. WillReach(t, u, e, g)'
        BY <3>2, <3>3, <3>4, OthersReach DEF IInv
    <3> QED BY <2>2, <3>5
  <2> QED BY <2>3, <2>4
<1> QED BY <1>1, <1>3, <1>4, <1>5 DEF IInv

\* Spreading a grant: the rows it owes are now among its fresh rows.
LEMMA SpreadKeeps ==
    ASSUME IInv, NEW s \in Sessions, Spread(s)
    PROVE  IInv'
<1>1. sess' \in [Sessions -> Session] /\ SessionsCarry' /\ halfDone' \in BOOLEAN
    BY SpreadStep DEF IInv
<1>2. /\ UNCHANGED <<perms, location, now, started, crashes>>
      /\ sess[s].pc = "spread"
    BY DEF Spread
<1>3. MissingIsPending'
  <2> SUFFICES ASSUME ~halfDone', NEW q \in PermIds, NEW g \in Files, Active(q)',
                      perms'[q].on \in Folders, location'[g] = perms'[q].on,
                      Rows(perms[q].subject, g)' = {}
               PROVE  \E t \in Sessions : WillReach(t, perms[q].subject, perms[q].on, g)'
      BY DEF MissingIsPending
  <2>1. PICK u, e : u = perms[q].subject /\ e = perms[q].on
      OBVIOUS
  <2>2. /\ perms'[q].subject = u /\ perms'[q].on = e /\ e \in Folders /\ Active(q)
        /\ Rows(u, g) = {} /\ location[g] = e
      BY <1>2, <2>1 DEF Active, Exists, Rows
  <2>3. PICK dirty, fresh :
            /\ ~halfDone
            /\ Goto(s, "final", dirty, fresh)
            /\ fresh = {NewRow(sess[s].subject, f, sess[s].level, sess[s].expires,
                               sess[s].actor, sess[s].folder) :
                        f \in {h \in FilesUnder(sess[s].folder) :
                                ActiveRows(sess[s].subject, h) = {}}}
      BY DEF Spread
  <2>4. PICK x : x = [sess[s] EXCEPT !.pc = "final", !.dirty = dirty, !.fresh = fresh]
      OBVIOUS
  <2>5. sess' = [sess EXCEPT ![s] = x] /\ x.pc = "final" /\ x.fresh = fresh
      BY <2>3, <2>4 DEF Goto, IInv, TypeOK, Session
  <2>6. PICK t \in Sessions : WillReach(t, u, e, g)
      BY <2>1, <2>2, <2>3 DEF IInv, MissingIsPending
  <2>7. CASE t # s
      BY <2>2, <2>5, <2>6, <2>7, OthersReach DEF IInv
  <2>8. CASE t = s
    <3>1. sess[s].subject = u /\ sess[s].folder = e
        BY <1>2, <2>6, <2>8 DEF WillReach
    <3>2. g \in FilesUnder(e) /\ ActiveRows(u, g) = {}
        BY <2>2, TreeAssumption DEF FilesUnder, ActiveRows
    <3>3. NewRow(u, g, sess[s].level, sess[s].expires, sess[s].actor, e) \in x.fresh
        BY <2>3, <2>5, <3>1, <3>2
    <3>4. \E row \in x.fresh : row.subject = u /\ row.on = g
        BY <3>3 DEF NewRow
    <3>5. WillReach(s, u, e, g)'
        BY <2>5, <3>4 DEF WillReach, IInv, TypeOK
    <3> QED BY <2>2, <3>5
  <2> QED BY <2>7, <2>8
<1> QED BY <1>1, <1>2, <1>3, QuietKeeps

\* So are the rows a placement owes its file.
LEMMA ApplyKeeps ==
    ASSUME IInv, NEW s \in Sessions, Apply(s)
    PROVE  IInv'
<1>1. sess' \in [Sessions -> Session] /\ SessionsCarry' /\ halfDone' \in BOOLEAN
    BY ApplyStep DEF IInv
<1>2. /\ UNCHANGED <<perms, location, now, started, crashes>>
      /\ sess[s].pc = "apply"
    BY DEF Apply
<1>3. MissingIsPending'
  <2> SUFFICES ASSUME ~halfDone', NEW q \in PermIds, NEW g \in Files, Active(q)',
                      perms'[q].on \in Folders, location'[g] = perms'[q].on,
                      Rows(perms[q].subject, g)' = {}
               PROVE  \E t \in Sessions : WillReach(t, perms[q].subject, perms[q].on, g)'
      BY DEF MissingIsPending
  <2>1. PICK u, e : u = perms[q].subject /\ e = perms[q].on
      OBVIOUS
  <2>2. /\ perms'[q].subject = u /\ perms'[q].on = e /\ e \in Folders /\ Active(q)
        /\ Rows(u, g) = {} /\ location[g] = e
      BY <1>2, <2>1 DEF Active, Exists, Rows
  <2> DEFINE f == sess[s].file
             d == sess[s].folder
             sharees == {perms[p].subject : p \in FolderRows(d)}
             overwrite(p, r) ==
                [level |-> Assign(perms[p].level, perms[r].level),
                 expires |-> Assign(perms[p].expires, perms[r].expires),
                 active |-> Assign(perms[p].active, TRUE),
                 from |-> Assign(perms[p].from, d)]
             dirty(last) ==
                [p \in PermIds |-> IF \E v \in sharees : p \in Rows(v, f)
                                   THEN overwrite(p, last[perms[p].subject]) ELSE Unchanged]
             new(first, last) ==
                {NewRow(v, f, perms[last[v]].level, perms[last[v]].expires,
                        perms[first[v]].by, d) : v \in {w \in sharees : Rows(w, f) = {}}}
             of(v) == {p \in FolderRows(d) : perms[p].subject = v}
             choice == {c \in [sharees -> PermIds] : \A v \in sharees : c[v] \in of(v)}
  <2>3. PICK first, last :
            ~halfDone /\ Goto(s, "final", dirty(last), new(first, last))
    <3>1. CASE halfDone' = TRUE
        BY <3>1
    <3>2. CASE \E first \in choice, last \in choice :
                    Goto(s, "final", dirty(last), new(first, last)) /\ UNCHANGED halfDone
      <4> HIDE DEF dirty, new, choice
      <4>1. PICK first \in choice, last \in choice :
                Goto(s, "final", dirty(last), new(first, last)) /\ halfDone' = halfDone
          BY <3>2
      <4>2. ~halfDone
          BY <4>1
      <4> QED BY <4>1, <4>2
    <3> QED BY <3>1, <3>2 DEF Apply
  <2>4. PICK x :
            x = [sess[s] EXCEPT !.pc = "final", !.dirty = dirty(last), !.fresh = new(first, last)]
      OBVIOUS
  <2>5. sess' = [sess EXCEPT ![s] = x] /\ x.pc = "final" /\ x.fresh = new(first, last)
      BY <2>3, <2>4 DEF Goto, IInv, TypeOK, Session
  <2>6. PICK t \in Sessions : WillReach(t, u, e, g)
      BY <2>1, <2>2, <2>3 DEF IInv, MissingIsPending
  <2>7. CASE t # s
      BY <2>2, <2>5, <2>6, <2>7, OthersReach DEF IInv
  <2>8. CASE t = s
    <3>1. f = g /\ d = e
        BY <1>2, <2>6, <2>8 DEF WillReach
    <3>2. q \in FolderRows(d)
        BY <2>1, <2>2, <3>1 DEF FolderRows
    <3>3. u \in {w \in sharees : Rows(w, f) = {}}
        BY <2>1, <2>2, <3>1, <3>2
    <3>4. NewRow(u, f, perms[last[u]].level, perms[last[u]].expires, perms[first[u]].by, d)
            \in x.fresh
        BY <2>3, <2>5, <3>3
    <3>5. \E row \in x.fresh : row.subject = u /\ row.on = g
        BY <3>1, <3>4 DEF NewRow
    <3>6. WillReach(s, u, e, g)'
        BY <2>5, <3>5 DEF WillReach, IInv, TypeOK
    <3> QED BY <2>2, <3>6
  <2> QED BY <2>7, <2>8
<1> QED BY <1>1, <1>2, <1>3, QuietKeeps

\* A commit inserts the rows owed; a folder row it inserts is a grant's, which
\* goes on to spread it; and it activates no row on a folder.
LEMMA CommitKeeps ==
    ASSUME IInv, NEW s \in Sessions, Commit(s)
    PROVE  IInv'
<1>1. PICK z : z = sess[s]
    OBVIOUS
<1>2. /\ z \in Session /\ Carried(z)
      /\ perms' \in [PermIds -> Row \cup {NoRow}]
      /\ sess' \in [Sessions -> Session]
      /\ SessionsCarry'
      /\ RowsKept
      /\ \A row \in z.fresh : Rows(row.subject, row.on)' # {}
      /\ \A p \in PermIds : Exists(p) => perms'[p] = Flush(perms[p], z.dirty[p])
      /\ \A p \in PermIds : ~Exists(p) => perms'[p] \in z.fresh \cup {NoRow}
    BY <1>1, CommitStep DEF IInv
<1>3. PICK x \in Session :
        /\ sess' = [sess EXCEPT ![s] = x]
        /\ z.op = "grant" /\ z.pc = "save" /\ z.folder # None =>
            x.pc = "spread" /\ x.subject = z.subject /\ x.folder = z.folder
    BY <1>1, CommitStep DEF IInv
<1>4. UNCHANGED <<location, now, started, crashes, halfDone>> /\ z.pc \in {"save", "final"}
    BY <1>1 DEF Commit
<1>5. TypeOK'
    BY <1>2, <1>4 DEF IInv, TypeOK
<1>6. z.fresh \in SUBSET Row /\ z.dirty \in [PermIds -> Change]
    BY <1>2 DEF Session
<1>7. InheritedHasOrigin'
  <2>1. \A p \in PermIds : Exists(p) /\ z.dirty[p].from # Keep =>
            perms[p].on \in Files /\ Rows(perms[p].subject, z.dirty[p].from) # {}
      BY <1>2 DEF Carried, DirtyOK
  <2>2. \A row \in z.fresh : row.from # None =>
            row.on \in Files /\ Rows(row.subject, row.from) # {}
      BY <1>2 DEF Carried, FreshOK
  <2> QED BY <1>2, <1>6, <2>1, <2>2, OriginKept DEF IInv
<1>8. MissingIsPending'
  <2> SUFFICES ASSUME ~halfDone', NEW q \in PermIds, NEW g \in Files, Active(q)',
                      perms'[q].on \in Folders, location'[g] = perms'[q].on,
                      Rows(perms[q].subject, g)' = {}
               PROVE  \E t \in Sessions : WillReach(t, perms[q].subject, perms[q].on, g)'
      BY DEF MissingIsPending
  <2>1. PICK u, e : u = perms'[q].subject /\ e = perms'[q].on
      OBVIOUS
  <2>2. e \in Folders /\ location[g] = e /\ ~halfDone /\ Rows(u, g)' = {}
      BY <1>4, <2>1
  <2>3. Rows(u, g) = {}
      BY <1>2, <2>2, RowsGrow
  <2>4. CASE Exists(q)
    <3>1. perms[q].subject = u /\ perms[q].on = e /\ perms[q] \in Row
        BY <1>2, <2>1, <2>4, ExistsRow DEF RowsKept, IInv
    <3>2. z.dirty[q].active # TRUE
        BY <1>2, <2>2, <3>1, DistinctAssumption DEF Carried, DirtyOK
    <3>3. perms[q].active
      <4>1. perms'[q].active = Column(perms[q].active, z.dirty[q].active)
          BY <1>2, <1>6, <2>4, <3>1, FlushType
      <4>2. perms'[q].active /\ perms'[q] \in Row
          BY <1>2 DEF Active, Exists
      <4>3. perms'[q].active = TRUE
          BY <4>2 DEF Row
      <4> QED BY <3>2, <4>1, <4>3, Zenon DEF Column
    <3>4. PICK t \in Sessions : WillReach(t, u, e, g)
        BY <2>2, <2>3, <2>4, <3>1, <3>3 DEF IInv, MissingIsPending, Active
    <3>5. CASE t # s
      <4>1. WillReach(t, u, e, g)'
          BY <1>3, <3>4, <3>5, OthersReach DEF IInv
      <4> QED BY <2>1, <4>1
    <3>6. CASE t = s
      <4>1. \E row \in z.fresh : row.subject = u /\ row.on = g
          BY <1>1, <1>4, <3>4, <3>6 DEF WillReach
      <4> QED BY <1>2, <2>2, <4>1
    <3> QED BY <3>5, <3>6
  <2>5. CASE ~Exists(q)
    <3>1. PICK row \in z.fresh : row = perms'[q]
        BY <1>2, <2>5 DEF Active, Exists
    <3>2. z.pc = "save" /\ z.op = "grant" /\ z.folder = e /\ z.subject = u
        BY <1>2, <2>1, <2>2, <3>1, DistinctAssumption DEF Carried, FreshOK
    <3>3. sess'[s].pc = "spread" /\ sess'[s].subject = u /\ sess'[s].folder = e
        BY <1>3, <2>2, <3>2, DistinctAssumption DEF IInv, TypeOK
    <3>4. WillReach(s, u, e, g)'
        BY <3>3 DEF WillReach
    <3> QED BY <2>1, <3>4
  <2> QED BY <2>4, <2>5
<1> QED BY <1>2, <1>5, <1>7, <1>8 DEF IInv

\* The sweep and the check deactivate rows, which owes nobody anything.
LEMMA SweepOneKeeps ==
    ASSUME IInv, NEW s \in Sessions, SweepOne(s)
    PROVE  IInv'
<1>1. /\ perms' \in [PermIds -> Row \cup {NoRow}]
      /\ sess' \in [Sessions -> Session]
      /\ SessionsCarry' /\ InheritedHasOrigin' /\ RowsKept /\ OnlyDeactivates
      /\ \E x \in Session : sess' = [sess EXCEPT ![s] = x]
    BY SweepOneStep DEF IInv
<1>2. UNCHANGED <<location, now, started, crashes, halfDone>> /\ sess[s].pc = "sweep"
    BY DEF SweepOne
<1>3. TypeOK'
    BY <1>1, <1>2 DEF IInv, TypeOK
<1>4. MissingIsPending'
    BY <1>1, <1>2, PendingStep DEF IInv
<1> QED BY <1>1, <1>3, <1>4 DEF IInv

\* So does check_permission when it deactivates a row.
LEMMA LapseKeeps ==
    ASSUME IInv, NEW p \in PermIds, LapseOnCheck(p)
    PROVE  IInv'
<1>1. /\ perms' \in [PermIds -> Row \cup {NoRow}]
      /\ SessionsCarry' /\ InheritedHasOrigin' /\ RowsKept /\ OnlyDeactivates
    BY LapseStep DEF IInv
<1>2. UNCHANGED <<location, now, sess, started, crashes, halfDone>>
    BY DEF LapseOnCheck
<1>3. TypeOK'
    BY <1>1, <1>2 DEF IInv, TypeOK
<1>4. MissingIsPending'
  <2> SUFFICES ASSUME ~halfDone', NEW q \in PermIds, NEW g \in Files, Active(q)',
                      perms'[q].on \in Folders, location'[g] = perms'[q].on,
                      Rows(perms[q].subject, g)' = {}
               PROVE  \E t \in Sessions : WillReach(t, perms[q].subject, perms[q].on, g)'
      BY DEF MissingIsPending
  <2>1. Exists(q) /\ perms[q].active = TRUE
    <3>1. perms'[q] \in Row /\ perms'[q].active
        BY <1>1 DEF Active, Exists
    <3>2. perms'[q].active = TRUE
        BY <3>1 DEF Row
    <3> QED BY <1>1, <3>2 DEF OnlyDeactivates, Active
  <2>2. PICK u, e : u = perms[q].subject /\ e = perms[q].on
      OBVIOUS
  <2>3. perms'[q].subject = u /\ perms'[q].on = e
      BY <1>1, <2>1, <2>2 DEF RowsKept
  <2>4. Rows(u, g) = {}
      BY <1>1, <2>3, RowsGrow
  <2>5. PICK t \in Sessions : WillReach(t, u, e, g)
    <3>1. Active(q) /\ ~halfDone /\ location[g] = e /\ e \in Folders
        BY <1>2, <2>1, <2>3 DEF Active
    <3> QED BY <2>2, <2>4, <3>1 DEF IInv, MissingIsPending
  <2>6. WillReach(t, u, e, g)'
      BY <1>2, <2>5 DEF WillReach
  <2> QED BY <2>3, <2>6
<1> QED BY <1>1, <1>3, <1>4 DEF IInv

\* The cascade plans deactivations, and writes nothing yet.
LEMMA CascadeKeeps ==
    ASSUME IInv, NEW s \in Sessions, Cascade(s)
    PROVE  IInv'
<1>1. sess' \in [Sessions -> Session] /\ SessionsCarry'
    BY CascadeStep DEF IInv
<1>2. /\ UNCHANGED <<perms, location, now, started, crashes, halfDone>>
      /\ sess[s].pc = "cascade"
      /\ \E x : sess' = [sess EXCEPT ![s] = x]
    BY DEF Cascade, Goto
<1>3. RowsKept /\ OnlyDeactivates
    BY <1>2 DEF RowsKept, OnlyDeactivates, Exists
<1>4. MissingIsPending'
    BY <1>2, <1>3, PendingStep DEF IInv, TypeOK
<1> QED BY <1>1, <1>2, <1>4, QuietKeeps DEF IInv, TypeOK

\* A failed request is answered.
LEMMA ReplyKeeps ==
    ASSUME IInv, NEW s \in Sessions, Reply(s)
    PROVE  IInv'
<1>1. /\ UNCHANGED <<perms, location, now, started, crashes, halfDone>>
      /\ sess[s].pc = "failed"
      /\ sess' = [sess EXCEPT ![s] = Idle]
    BY DEF Reply
<1>2. sess' \in [Sessions -> Session] /\ SessionsCarry'
    BY <1>1, IdleType, IdleCarried, SessionStep DEF IInv
<1>3. RowsKept /\ OnlyDeactivates
    BY <1>1 DEF RowsKept, OnlyDeactivates, Exists
<1>4. MissingIsPending'
    BY <1>1, <1>3, PendingStep DEF IInv, TypeOK
<1> QED BY <1>1, <1>2, <1>4, QuietKeeps DEF IInv, TypeOK

\* A session that dies may leave its rows owed, and then halfDone tells.
LEMMA CrashKeeps ==
    ASSUME IInv, NEW s \in Sessions, Crash(s)
    PROVE  IInv'
<1>1. /\ UNCHANGED <<perms, location, now, started>> /\ halfDone' = TRUE
      /\ crashes' = crashes + 1 /\ crashes < MaxCrashes
      /\ sess' = [sess EXCEPT ![s] = Idle]
    BY DEF Crash
<1>2. sess' \in [Sessions -> Session] /\ SessionsCarry'
    BY <1>1, IdleType, IdleCarried, SessionStep DEF IInv
<1>3. TypeOK'
    BY <1>1, <1>2, BoundsAssumption DEF IInv, TypeOK
<1>4. InheritedHasOrigin'
    BY <1>1 DEF IInv, InheritedHasOrigin, Rows, Exists
<1>5. MissingIsPending'
    BY <1>1 DEF MissingIsPending
<1> QED BY <1>2, <1>3, <1>4, <1>5 DEF IInv

-----------------------------------------------------------------------------
(* The theorems *)

\* The invariant holds initially: no row, no request.
LEMMA InitInvariant == Init => IInv
<1> SUFFICES ASSUME Init PROVE IInv
    OBVIOUS
<1>1. TypeOK
  <2>1. sess \in [Sessions -> Session]
      BY IdleType DEF Init
  <2>2. 0 \in 0..MaxTime /\ 0 \in 0..MaxRequests /\ 0 \in 0..MaxCrashes
      BY BoundsAssumption
  <2>3. perms \in [PermIds -> Row \cup {NoRow}] /\ location \in [Files -> Folders \cup {None, Unborn}]
      BY DEF Init
  <2> QED BY <2>1, <2>2, <2>3 DEF Init, TypeOK
<1>2. SessionsCarry
    BY IdleCarried DEF Init, SessionsCarry
<1>3. \A p \in PermIds : ~Exists(p)
    BY DEF Init, Exists
<1> QED BY <1>1, <1>2, <1>3 DEF IInv, InheritedHasOrigin, MissingIsPending, Active

\* And every step keeps it.
LEMMA StepInvariant == IInv /\ [Next]_vars => IInv'
<1> SUFFICES ASSUME IInv, [Next]_vars PROVE IInv'
    OBVIOUS
<1>1. ASSUME NEW s \in Sessions, Continue(s) PROVE IInv'
    BY <1>1, SpreadKeeps, ApplyKeeps, CascadeKeeps, CommitKeeps, SweepOneKeeps, ReplyKeeps
    DEF Continue
<1>2. ASSUME NEW s \in Sessions, Sweep(s) PROVE IInv'
  <2>1. PICK x : Ready(s) /\ Begin(s, x) /\ UNCHANGED <<perms, location, now, crashes, halfDone>>
      BY <1>2 DEF Sweep
  <2> QED BY <1>2, <2>1, SweepStep, BeginKeeps DEF IInv
<1>3. ASSUME NEW s \in Sessions, Crash(s) PROVE IInv'
    BY <1>3, CrashKeeps
<1>4. ASSUME NEW s \in Sessions, NEW g \in Users, NEW u \in Users, NEW r \in Files \cup Folders,
             NEW l \in Levels, NEW e \in Expiry, Grant(s, g, u, r, l, e)
      PROVE  IInv'
  <2>1. PICK x : Ready(s) /\ Begin(s, x) /\ UNCHANGED <<perms, location, now, crashes, halfDone>>
      BY <1>4 DEF Grant
  <2> QED BY <1>4, <2>1, GrantStep, BeginKeeps DEF IInv
<1>5. ASSUME NEW s \in Sessions, NEW f \in Files, NEW d \in Folders \cup {None}, Upload(s, f, d)
      PROVE  IInv'
    BY <1>5, PlaceKeeps DEF Upload
<1>6. ASSUME NEW s \in Sessions, NEW a \in Users, NEW f \in Files, NEW d \in Folders \cup {None},
             Move(s, a, f, d)
      PROVE  IInv'
    BY <1>6, PlaceKeeps DEF Move
<1>7. ASSUME NEW s \in Sessions, NEW a \in Users, NEW f \in Files, NEW g \in Files,
             NEW d \in Folders \cup {None}, Copy(s, a, f, g, d)
      PROVE  IInv'
    BY <1>7, PlaceKeeps DEF Copy
<1>8. ASSUME NEW s \in Sessions, NEW a \in Users, NEW p \in PermIds, Revoke(s, a, p) PROVE IInv'
  <2>1. PICK x : Ready(s) /\ Begin(s, x) /\ UNCHANGED <<perms, location, now, crashes, halfDone>>
      BY <1>8 DEF Revoke
  <2> QED BY <1>8, <2>1, RevokeStep, BeginKeeps DEF IInv
<1>9. ASSUME NEW s \in Sessions, NEW a \in Users, NEW p \in PermIds, NEW l \in Levels \cup {Keep},
             NEW e \in Expiry \cup {Keep}, Update(s, a, p, l, e)
      PROVE  IInv'
  <2>1. PICK x : Ready(s) /\ Begin(s, x) /\ UNCHANGED <<perms, location, now, crashes, halfDone>>
      BY <1>9 DEF Update
  <2> QED BY <1>9, <2>1, UpdateStep, BeginKeeps DEF IInv
<1>10. ASSUME NEW s \in Sessions, NEW a \in Users, NEW u \in Users, NEW f \in Files,
              NEW e \in Expiry, Extend(s, a, u, f, e)
       PROVE  IInv'
  <2>1. PICK x : Ready(s) /\ Begin(s, x) /\ UNCHANGED <<perms, location, now, crashes, halfDone>>
      BY <1>10 DEF Extend
  <2> QED BY <1>10, <2>1, ExtendStep, BeginKeeps DEF IInv
<1>11. ASSUME NEW p \in PermIds, LapseOnCheck(p) PROVE IInv'
    BY <1>11, LapseKeeps
<1>12. CASE UNCHANGED <<perms, location, sess, started, crashes, halfDone>> /\ now' \in 0..MaxTime
  <2>1. TypeOK'
      BY <1>12 DEF IInv, TypeOK
  <2>2. SessionsCarry'
      BY <1>12 DEF IInv, SessionsCarry, Carried, WellShaped, FreshOK, DirtyOK, SpreadOK,
                   Rows, Exists
  <2>3. InheritedHasOrigin'
      BY <1>12 DEF IInv, InheritedHasOrigin, Rows, Exists
  <2>4. MissingIsPending'
      BY <1>12 DEF IInv, MissingIsPending, WillReach, Active, Rows, Exists
  <2> QED BY <2>1, <2>2, <2>3, <2>4 DEF IInv
<1>13. CASE Tick
    BY <1>12, <1>13, BoundsAssumption DEF Tick, IInv, TypeOK
<1>14. CASE UNCHANGED vars
    BY <1>12, <1>14 DEF vars, IInv, TypeOK
<1> QED BY <1>1, <1>2, <1>3, <1>4, <1>5, <1>6, <1>7, <1>8, <1>9, <1>10, <1>11, <1>13, <1>14
    DEF Next

\* So it always holds, whatever the requests and however they interleave.
THEOREM InvariantHolds == Spec => []IInv
BY InitInvariant, StepInvariant, PTL DEF Spec

\* Every variable keeps its type.
THEOREM TypesHold == Spec => []TypeOK
<1>1. IInv => TypeOK
    BY DEF IInv
<1> QED BY <1>1, InvariantHolds, PTL

\* An inherited row always goes back to a row its subject has, or had, on the
\* folder it names.
THEOREM OriginHolds == Spec => []InheritedHasOrigin
<1>1. IInv => InheritedHasOrigin
    BY DEF IInv
<1> QED BY <1>1, InvariantHolds, PTL

\* A grant on a folder and a file placed in it never miss each other.
THEOREM NoShareIsMissed == Spec => []NoMissedShare
<1>1. IInv => NoMissedShare
    BY DEF IInv, MissingIsPending, NoMissedShare, Quiet, WillReach
<1> QED BY <1>1, InvariantHolds, PTL

\* Only a placement brings a deactivated row back.
THEOREM NothingResurrects == Spec => NoResurrection
<1> DEFINE Comeback(p) ==
        Exists(p) /\ ~perms[p].active /\ perms'[p].active =>
            /\ perms'[p].from # None
            /\ \E s \in Sessions : sess[s].op = "place" /\ sess[s].file = perms[p].on
<1>1. IInv /\ IInv' /\ [Next]_vars => [\A p \in PermIds : Comeback(p)]_vars
  <2> SUFFICES ASSUME IInv, IInv', Next, NEW p \in PermIds,
                      Exists(p), ~perms[p].active, perms'[p].active
               PROVE  /\ perms'[p].from # None
                      /\ \E s \in Sessions : sess[s].op = "place" /\ sess[s].file = perms[p].on
      OBVIOUS
  <2>1. perms[p] \in Row /\ perms'[p] \in Row \cup {NoRow} /\ perms' # perms
      BY ExistsRow DEF IInv, TypeOK
  <2>2. CASE \E s \in Sessions : Commit(s)
    <3>1. PICK s \in Sessions : Commit(s)
        BY <2>2
    <3>2. PICK z : z = sess[s]
        OBVIOUS
    <3>3. /\ z \in Session /\ Carried(z) /\ perms'[p] = Flush(perms[p], z.dirty[p])
          /\ z.dirty \in [PermIds -> Change]
        BY <3>1, <3>2, CommitStep DEF IInv, Session
    <3>4. /\ z.dirty[p] \in Change
          /\ perms'[p].active = Column(perms[p].active, z.dirty[p].active)
          /\ perms'[p].from = Column(perms[p].from, z.dirty[p].from)
      <4>1. z.dirty[p] \in Change
          BY <3>3
      <4>2. PICK change, row : change = z.dirty[p] /\ row = perms[p]
          OBVIOUS
      <4>3. /\ Flush(row, change).active = Column(row.active, change.active)
            /\ Flush(row, change).from = Column(row.from, change.from)
          BY <2>1, <4>1, <4>2, FlushType
      <4> QED BY <3>3, <4>1, <4>2, <4>3, Zenon
    <3>5. z.dirty[p].active = TRUE
      <4>1. z.dirty[p].active # Keep
          BY <3>4, Zenon DEF Column
      <4>2. z.dirty[p].active = perms'[p].active
          BY <3>4, <4>1, Zenon DEF Column
      <4>3. z.dirty[p].active \in BOOLEAN
          BY <3>4, <4>1 DEF Change
      <4> QED BY <4>2, <4>3
    <3>6. /\ z.op = "place" /\ z.file = perms[p].on
          /\ z.dirty[p].from # Keep \/ perms[p].from # None
        BY <3>3, <3>5 DEF Carried, DirtyOK
    <3>7. z.dirty[p].from \in Folders \cup {Keep}
        BY <3>4 DEF Change
    <3>8. perms'[p].from # None
        BY <3>4, <3>6, <3>7, DistinctAssumption DEF Column
    <3> QED BY <3>2, <3>6, <3>8
  <2>3. CASE OnlyDeactivates /\ RowsKept
    <3>1. perms'[p] \in Row
        BY <2>1, <2>3 DEF RowsKept, Exists
    <3>2. perms'[p].active = TRUE
        BY <3>1 DEF Row
    <3> QED BY <2>3, <3>2 DEF OnlyDeactivates
  <2>4. CASE \E s \in Sessions : SweepOne(s)
      BY <2>3, <2>4, SweepOneStep DEF IInv
  <2>5. CASE \E q \in PermIds : LapseOnCheck(q)
      BY <2>3, <2>5, LapseStep DEF IInv
  <2>6. CASE UNCHANGED perms
      BY <2>1, <2>6
  <2>7. ASSUME NEW s \in Sessions, Spread(s) \/ Apply(s) \/ Cascade(s) \/ Reply(s) \/ Crash(s)
        PROVE  perms' = perms
      BY <2>7 DEF Spread, Apply, Cascade, Reply, Crash
  <2>8. ASSUME NEW s \in Sessions, Sweep(s) PROVE perms' = perms
      BY <2>8 DEF Sweep
  <2>9. ASSUME NEW s, NEW g, NEW u, NEW r, NEW l, NEW e, Grant(s, g, u, r, l, e)
        PROVE  perms' = perms
      BY <2>9 DEF Grant
  <2>10. ASSUME NEW s, NEW a, NEW f, NEW g, NEW d,
                Upload(s, f, d) \/ Move(s, a, f, d) \/ Copy(s, a, f, g, d)
         PROVE  perms' = perms
      BY <2>10 DEF Upload, Move, Copy, Place
  <2>11. ASSUME NEW s, NEW a, NEW q, NEW u, NEW f, NEW l, NEW e,
                Revoke(s, a, q) \/ Update(s, a, q, l, e) \/ Extend(s, a, u, f, e)
         PROVE  perms' = perms
      BY <2>11 DEF Revoke, Update, Extend
  <2>12. Tick => perms' = perms
      BY DEF Tick
  <2> QED BY <2>2, <2>4, <2>5, <2>6, <2>7, <2>8, <2>9, <2>10, <2>11, <2>12 DEF Next, Continue
<1> QED BY <1>1, InvariantHolds, PTL DEF Spec, NoResurrection

-----------------------------------------------------------------------------
(* One request at a time.  What is proved from here on holds when no other     *)
(* request runs meanwhile and no row lapses: with several, the second          *)
(* transaction of a revocation races with those that hang rows on its folder.  *)

Alone == (\A s, t \in Sessions : s = t) /\ ~ExpiryDeactivates

\* What an ended request must have left: p is active and inherited from a folder
\* its subject has no active row on.
Orphan(p) ==
    /\ Active(p)
    /\ perms[p].from # None
    /\ ActiveRows(perms[p].subject, perms[p].from) = {}

\* Only a revocation between its two commits leaves orphans, its own.
OrphansEnd ==
    crashes = 0 =>
        \A p \in PermIds : Orphan(p) =>
            \E s \in Sessions :
                /\ sess[s].op = "revoke"
                /\ sess[s].pc \in {"cascade", "final"}
                /\ sess[s].subject = perms[p].subject
                /\ sess[s].folder = perms[p].from

\* A row is hung on a folder only while its subject has an active row there.
BackedChanges(x) ==
    /\ \A p \in PermIds :
        Exists(p) /\ (x.dirty[p].active = TRUE \/ x.dirty[p].from # Keep) =>
            LET d == Column(perms[p].from, x.dirty[p].from)
            IN d # None => ActiveRows(perms[p].subject, d) # {}
    /\ \A row \in x.fresh : row.active /\ (row.from # None => ActiveRows(row.subject, row.from) # {})

\* A first commit that is not a revocation's inserts rows, and for the rest
\* changes levels and expiries.
PlainChanges(x) ==
    x.op # "revoke" =>
        /\ \A p \in PermIds : x.dirty[p].active # FALSE
        /\ x.pc = "save" =>
            /\ \A p \in PermIds : x.dirty[p].active = Keep /\ x.dirty[p].from = Keep
            /\ \A row \in x.fresh : row.from = None

\* The row a grant spreads is active when it is spread.
SpreadsActive(x) ==
    /\ x.pc = "spread" => ActiveRows(x.subject, x.folder) # {}
    /\ x.pc = "save" /\ x.op = "grant" /\ x.folder # None =>
        \/ ActiveRows(x.subject, x.folder) # {}
        \/ \E row \in x.fresh : row.subject = x.subject /\ row.on = x.folder

\* A revocation deactivates the row it was asked for, then every row its
\* subject inherits from the folder.
RevokeChanges(x) ==
    x.op = "revoke" =>
        /\ x.subject \in Users
        /\ x.fresh = {}
        /\ \A p \in PermIds : x.dirty[p].active \in {Keep, FALSE} /\ x.dirty[p].from = Keep
        /\ x.pc = "save" =>
            \A p \in PermIds : x.dirty[p].active = FALSE =>
                /\ perms[p].subject = x.subject
                /\ perms[p].on = x.folder \/ (perms[p].on \in Files /\ x.folder = None)
        /\ x.pc \in {"cascade", "final"} => x.folder \in Folders
        /\ x.pc = "final" =>
            \A p \in PermIds :
                x.dirty[p].active = FALSE <=>
                    Active(p) /\ perms[p].from = x.folder /\ perms[p].subject = x.subject

AloneOK(x) ==
    /\ x.pc # "sweep"
    /\ BackedChanges(x)
    /\ PlainChanges(x)
    /\ SpreadsActive(x)
    /\ RevokeChanges(x)

SerialInv ==
    /\ IInv
    /\ \A s \in Sessions : AloneOK(sess[s])
    /\ OrphansEnd
    /\ crashes # 0 => halfDone

\* An active row, in the words the provers like best.
LEMMA HasActive ==
    ASSUME NEW u, NEW r
    PROVE  ActiveRows(u, r) # {} <=>
                \E p \in PermIds : Active(p) /\ perms[p].subject = u /\ perms[p].on = r
BY DEF ActiveRows, Rows, Active

\* What AloneOK says depends on the table alone.
LEMMA AloneSame ==
    ASSUME perms' = perms, NEW x, AloneOK(x)
    PROVE  AloneOK(x)'
BY DEF AloneOK, BackedChanges, PlainChanges, SpreadsActive, RevokeChanges, ActiveRows, Rows,
       Active, Exists

\* With no revocation between its commits there is no orphan.
LEMMA NoOrphan ==
    ASSUME SerialInv, Alone, NEW s \in Sessions, crashes = 0,
           sess[s].op # "revoke" \/ sess[s].pc \notin {"cascade", "final"},
           NEW p \in PermIds
    PROVE  ~Orphan(p)
BY DEF SerialInv, OrphansEnd, Alone

\* A step of the session that writes no row, and neither starts nor ends a
\* cascade, keeps the invariant.
LEMMA AloneMoves ==
    ASSUME SerialInv, Alone, IInv', NEW s \in Sessions, NEW x, AloneOK(x),
           sess' = [sess EXCEPT ![s] = x], perms' = perms, crashes' = crashes,
           halfDone' = TRUE \/ halfDone' = halfDone,
           \/ sess[s].op # "revoke" \/ sess[s].pc \notin {"cascade", "final"}
           \/ /\ x.op = "revoke" /\ x.pc \in {"cascade", "final"}
              /\ x.subject = sess[s].subject /\ x.folder = sess[s].folder
    PROVE  SerialInv'
<1>1. \A t \in Sessions : t = s /\ sess'[t] = x
    BY DEF Alone, SerialInv, IInv, TypeOK
<1>2. (\A t \in Sessions : AloneOK(sess[t]))'
    BY <1>1, AloneSame
<1>3. OrphansEnd'
  <2> SUFFICES ASSUME crashes = 0, NEW p \in PermIds, Orphan(p)'
               PROVE  (\E t \in Sessions :
                        /\ sess[t].op = "revoke"
                        /\ sess[t].pc \in {"cascade", "final"}
                        /\ sess[t].subject = perms[p].subject
                        /\ sess[t].folder = perms[p].from)'
      BY DEF OrphansEnd
  <2>1. Orphan(p)
      BY DEF Orphan, ActiveRows, Rows, Active, Exists
  <2>2. /\ sess[s].op = "revoke" /\ sess[s].pc \in {"cascade", "final"}
        /\ sess[s].subject = perms[p].subject /\ sess[s].folder = perms[p].from
      BY <2>1, <1>1 DEF SerialInv, OrphansEnd
  <2> QED BY <2>2, <1>1
<1>4. crashes' # 0 => halfDone'
    BY DEF SerialInv
<1> QED BY <1>2, <1>3, <1>4 DEF SerialInv

\* A session that writes neither "active" nor "from" and inserts nothing.
LEMMA HarmlessAlone ==
    ASSUME NEW x, x.pc \notin {"sweep", "spread"}, x.op \notin {"grant", "revoke"}, x.fresh = {},
           \A p \in PermIds : x.dirty[p].active = Keep /\ x.dirty[p].from = Keep
    PROVE  AloneOK(x)
BY NullAssumption, Zenon
DEF AloneOK, BackedChanges, PlainChanges, SpreadsActive, RevokeChanges

\* Nor does an idle session.
LEMMA IdleAlone == AloneOK(Idle)
<1>1. /\ Idle.pc = "idle" /\ Idle.op = "none" /\ Idle.fresh = {} /\ Idle.dirty = Clean
    BY DEF Idle
<1>2. \A p \in PermIds : Clean[p].active = Keep /\ Clean[p].from = Keep
    BY CleanFields
<1> QED BY <1>1, <1>2, HarmlessAlone

\* Starting a request with such a plan keeps the invariant.
LEMMA AloneBegins ==
    ASSUME SerialInv, Alone, IInv', NEW s \in Sessions, NEW x, AloneOK(x), Ready(s), Begin(s, x),
           perms' = perms, crashes' = crashes, halfDone' = halfDone
    PROVE  SerialInv'
BY AloneMoves DEF Ready, Begin

\* grant_permission
LEMMA GrantAlone ==
    ASSUME SerialInv, Alone, IInv', NEW s \in Sessions, NEW g \in Users, NEW u \in Users,
           NEW r \in Files \cup Folders, NEW level \in Levels, NEW expires \in Expiry,
           Grant(s, g, u, r, level, expires)
    PROVE  SerialInv'
<1> DEFINE request == [Idle EXCEPT !.pc = "save", !.op = "grant", !.actor = g, !.subject = u,
                                   !.folder = IF r \in Folders THEN r ELSE None,
                                   !.level = level, !.expires = expires]
           x(row) == [request EXCEPT !.fresh = {row}]
           y(p) == [request EXCEPT !.dirty = GrantChanges(p, level, expires)]
<1>1. UNCHANGED <<perms, crashes, halfDone>> /\ Ready(s)
    BY DEF Grant
<1>2. /\ request \in Session /\ request.dirty = Clean /\ request.fresh = {}
      /\ request.pc = "save" /\ request.op = "grant"
      /\ request.subject = u /\ request.folder = IF r \in Folders THEN r ELSE None
    BY IdleType DEF Session, Idle, Phases, Ops
<1> HIDE DEF request
<1>3. CASE Begin(s, x(NewRow(u, r, level, expires, g, None)))
  <2> DEFINE row == NewRow(u, r, level, expires, g, None)
  <2>1. row.on = r /\ row.from = None /\ row.subject = u /\ row.active = TRUE
      BY DEF NewRow
  <2> HIDE DEF row
  <2>2. /\ x(row).pc = "save" /\ x(row).op = "grant" /\ x(row).subject = u
        /\ x(row).folder = IF r \in Folders THEN r ELSE None
        /\ x(row).dirty = Clean /\ x(row).fresh = {row}
      BY <1>2 DEF Session
  <2>3. Begin(s, x(row))
      BY <1>3 DEF row
  <2> HIDE DEF x
  <2>4. \A p \in PermIds : Clean[p].active = Keep /\ Clean[p].from = Keep
      BY CleanFields
  <2>5. Keep # TRUE /\ Keep # FALSE
      BY NullAssumption, Zenon
  <2>6. BackedChanges(x(row))
      BY <2>1, <2>2, <2>4, <2>5 DEF BackedChanges
  <2>7. PlainChanges(x(row))
      BY <2>1, <2>2, <2>4, <2>5 DEF PlainChanges
  <2>8. SpreadsActive(x(row))
      BY <2>1, <2>2 DEF SpreadsActive
  <2>9. AloneOK(x(row))
      BY <2>2, <2>6, <2>7, <2>8 DEF AloneOK, RevokeChanges
  <2> QED BY <1>1, <2>3, <2>9, AloneBegins
<1>4. CASE \E p \in LiveRows(u, r) : Begin(s, y(p))
  <2>1. PICK p \in LiveRows(u, r) : Begin(s, y(p))
      BY <1>4
  <2>2. p \in PermIds /\ perms[p] \in Row /\ perms[p].active /\ p \in ActiveRows(u, r)
      BY <2>1, ExistsRow DEF LiveRows, ActiveRows, Rows, SerialInv, IInv
  <2> DEFINE change == [Unchanged EXCEPT !.level = Assign(perms[p].level, level),
                                         !.expires = Assign(perms[p].expires, expires),
                                         !.active = Assign(perms[p].active, TRUE)]
  <2>3. change \in Change /\ change.active = Keep /\ change.from = Keep
      BY <2>2, CleanType DEF Unchanged, Change, Assign, Row
  <2>4. GrantChanges(p, level, expires) = [Clean EXCEPT ![p] = change]
      BY DEF GrantChanges
  <2> HIDE DEF change
  <2>5. \A q \in PermIds : /\ GrantChanges(p, level, expires)[q].active = Keep
                           /\ GrantChanges(p, level, expires)[q].from = Keep
      BY <2>3, <2>4, CleanFields, CleanType
  <2>6. /\ y(p).pc = "save" /\ y(p).op = "grant" /\ y(p).subject = u
        /\ y(p).folder = IF r \in Folders THEN r ELSE None
        /\ y(p).dirty = GrantChanges(p, level, expires) /\ y(p).fresh = {}
      BY <1>2 DEF Session
  <2> HIDE DEF y
  <2>7. Keep # TRUE /\ Keep # FALSE
      BY NullAssumption, Zenon
  <2>8. BackedChanges(y(p))
      BY <2>5, <2>6, <2>7 DEF BackedChanges
  <2>9. PlainChanges(y(p))
      BY <2>5, <2>6, <2>7 DEF PlainChanges
  <2>10. SpreadsActive(y(p))
      BY <2>2, <2>6 DEF SpreadsActive
  <2>11. AloneOK(y(p))
      BY <2>6, <2>8, <2>9, <2>10 DEF AloneOK, RevokeChanges
  <2> QED BY <1>1, <2>1, <2>11, AloneBegins
<1> QED BY <1>3, <1>4 DEF Grant, request

\* A request that fails keeps nothing to write.
LEMMA FailedAlone ==
    ASSUME NEW x, x.pc = "failed", x.op \in {"grant", "place"}, x.fresh = {}, x.dirty = Clean
    PROVE  AloneOK(x)
<1>1. \A p \in PermIds : Clean[p].active = Keep /\ Clean[p].from = Keep
    BY CleanFields
<1>2. Keep # TRUE /\ Keep # FALSE
    BY NullAssumption, Zenon
<1> QED BY <1>1, <1>2 DEF AloneOK, BackedChanges, PlainChanges, SpreadsActive, RevokeChanges

\* _propagate_folder_permission_to_files
LEMMA SpreadAlone ==
    ASSUME SerialInv, Alone, IInv', NEW s \in Sessions, Spread(s)
    PROVE  SerialInv'
<1> DEFINE u == sess[s].subject
           d == sess[s].folder
           overwrite(p) ==
            [level |-> Assign(perms[p].level, sess[s].level),
             expires |-> Assign(perms[p].expires, sess[s].expires),
             active |-> Keep,
             from |-> Assign(perms[p].from, d)]
           found(p) == \E f \in FilesUnder(d) : p \in ActiveRows(u, f)
           dirty == [p \in PermIds |-> IF found(p) THEN overwrite(p) ELSE Unchanged]
           fresh == {NewRow(u, f, sess[s].level, sess[s].expires, sess[s].actor, d) :
                        f \in {g \in FilesUnder(d) : ActiveRows(u, g) = {}}}
<1>1. /\ sess[s] \in Session /\ sess[s].pc = "spread" /\ perms' = perms /\ crashes' = crashes
      /\ sess[s].op = "grant" /\ ActiveRows(u, d) # {}
    BY DEF SerialInv, IInv, TypeOK, SessionsCarry, Carried, WellShaped, AloneOK, SpreadsActive,
           Spread
<1>2. CASE Goto(s, "failed", Clean, {}) /\ halfDone' = TRUE
  <2>1. PICK x : x = [sess[s] EXCEPT !.pc = "failed", !.dirty = Clean, !.fresh = {}]
      OBVIOUS
  <2>2. x.op = "grant" /\ x.pc = "failed" /\ x.dirty = Clean /\ x.fresh = {}
      BY <1>1, <2>1 DEF Session
  <2>3. AloneOK(x)
      BY <2>2, FailedAlone
  <2>4. sess' = [sess EXCEPT ![s] = x]
      BY <1>2, <2>1 DEF Goto
  <2> QED BY <1>1, <1>2, <2>3, <2>4, AloneMoves
<1>3. CASE Goto(s, "final", dirty, fresh) /\ UNCHANGED halfDone
  <2>1. \A p \in PermIds : found(p) => perms[p].subject = u
      BY DEF ActiveRows, Rows
  <2>2. \A p \in PermIds : overwrite(p).active = Keep /\ overwrite(p).from \in {Keep, d}
    <3> TAKE p \in PermIds
    <3> QED BY DEF Assign
  <2>3. \A row \in fresh : row.active = TRUE /\ row.subject = u /\ row.from = d
      BY DEF NewRow
  <2> HIDE DEF overwrite, found, u, d
  <2>4. \A p \in PermIds : /\ dirty[p].active = Keep
                           /\ dirty[p].from # Keep => dirty[p].from = d /\ found(p)
      BY <2>2 DEF Unchanged
  <2>5. PICK x : x = [sess[s] EXCEPT !.pc = "final", !.dirty = dirty, !.fresh = fresh]
      OBVIOUS
  <2>6. sess' = [sess EXCEPT ![s] = x]
      BY <1>3, <2>5 DEF Goto
  <2> HIDE DEF dirty, fresh
  <2>7. /\ x.op = "grant" /\ x.pc = "final" /\ x.dirty = dirty /\ x.fresh = fresh
      BY <1>1, <2>5 DEF Session
  <2>8. Keep # TRUE /\ Keep # FALSE
      BY NullAssumption, Zenon
  <2>9. BackedChanges(x)
      BY <1>1, <2>1, <2>3, <2>4, <2>7, <2>8 DEF BackedChanges, Column
  <2>10. AloneOK(x)
      BY <2>4, <2>7, <2>8, <2>9 DEF AloneOK, PlainChanges, SpreadsActive, RevokeChanges
  <2> QED BY <1>1, <1>3, <2>6, <2>10, AloneMoves
<1> QED BY <1>2, <1>3 DEF Spread

\* apply_folder_permissions_to_file: the rows it reads on the folder are active.
LEMMA ApplyAlone ==
    ASSUME SerialInv, Alone, IInv', NEW s \in Sessions, Apply(s)
    PROVE  SerialInv'
<1> DEFINE f == sess[s].file
           d == sess[s].folder
           sharees == {perms[p].subject : p \in FolderRows(d)}
           of(u) == {p \in FolderRows(d) : perms[p].subject = u}
           choice == {c \in [sharees -> PermIds] : \A u \in sharees : c[u] \in of(u)}
           overwrite(p, q) ==
            [level |-> Assign(perms[p].level, perms[q].level),
             expires |-> Assign(perms[p].expires, perms[q].expires),
             active |-> Assign(perms[p].active, TRUE),
             from |-> Assign(perms[p].from, d)]
           found(p) == \E u \in sharees : p \in Rows(u, f)
           dirty(last) ==
            [p \in PermIds |-> IF found(p) THEN overwrite(p, last[perms[p].subject])
                               ELSE Unchanged]
           fresh(first, last) ==
            {NewRow(u, f, perms[last[u]].level, perms[last[u]].expires, perms[first[u]].by, d) :
                u \in {v \in sharees : Rows(v, f) = {}}}
<1>1. /\ sess[s] \in Session /\ sess[s].pc = "apply" /\ perms' = perms /\ crashes' = crashes
      /\ sess[s].op = "place"
    BY DEF SerialInv, IInv, TypeOK, SessionsCarry, Carried, WellShaped, Apply
<1>2. \A u \in sharees : ActiveRows(u, d) # {}
  <2> TAKE u \in sharees
  <2>1. PICK p \in FolderRows(d) : perms[p].subject = u
      OBVIOUS
  <2> QED BY <2>1, HasActive DEF FolderRows
<1>3. CASE Goto(s, "failed", Clean, {}) /\ halfDone' = TRUE
  <2>1. PICK x : x = [sess[s] EXCEPT !.pc = "failed", !.dirty = Clean, !.fresh = {}]
      OBVIOUS
  <2>2. x.op = "place" /\ x.pc = "failed" /\ x.dirty = Clean /\ x.fresh = {}
      BY <1>1, <2>1 DEF Session
  <2>3. AloneOK(x)
      BY <2>2, FailedAlone
  <2>4. sess' = [sess EXCEPT ![s] = x]
      BY <1>3, <2>1 DEF Goto
  <2> QED BY <1>1, <1>3, <2>3, <2>4, AloneMoves
<1>4. CASE \E first \in choice, last \in choice :
            Goto(s, "final", dirty(last), fresh(first, last)) /\ UNCHANGED halfDone
  <2> HIDE DEF dirty, fresh, choice
  <2>1. PICK first \in choice, last \in choice :
            Goto(s, "final", dirty(last), fresh(first, last)) /\ halfDone' = halfDone
      BY <1>4
  <2>2. \A p \in PermIds : found(p) => perms[p].subject \in sharees
      BY DEF Rows
  <2>3. \A p, q \in PermIds :
            /\ overwrite(p, q).active \in {Keep, TRUE}
            /\ overwrite(p, q).from \in {Keep, d}
            /\ overwrite(p, q).from = Keep => perms[p].from = d
    <3> TAKE p, q \in PermIds
    <3>1. overwrite(p, q).active \in {Keep, TRUE}
        BY DEF Assign
    <3>2. overwrite(p, q).from = IF d = perms[p].from THEN Keep ELSE d
        BY DEF Assign
    <3>3. d \in Folders
        BY DEF SerialInv, IInv, SessionsCarry, Carried, WellShaped, Apply
    <3> QED BY <3>1, <3>2, <3>3, NullAssumption
  <2>4. \A p \in PermIds : found(p) => last[perms[p].subject] \in PermIds
      BY <2>2 DEF choice
  <2>5. \A row \in fresh(first, last) : row.active = TRUE /\ row.subject \in sharees /\ row.from = d
      BY DEF NewRow, fresh
  <2>6. dirty(last) = [p \in PermIds |-> IF found(p) THEN overwrite(p, last[perms[p].subject])
                                         ELSE Unchanged]
      BY DEF dirty
  <2>7. Unchanged.active = Keep /\ Unchanged.from = Keep
      BY DEF Unchanged
  <2> HIDE DEF overwrite, found, sharees, d
  <2>8. \A p \in PermIds :
            \/ dirty(last)[p].active = Keep /\ dirty(last)[p].from = Keep
            \/ /\ found(p)
               /\ dirty(last)[p].active \in {Keep, TRUE}
               /\ dirty(last)[p].from \in {Keep, d}
               /\ dirty(last)[p].from = Keep => perms[p].from = d
      BY <2>3, <2>4, <2>6, <2>7
  <2>9. PICK x : x = [sess[s] EXCEPT !.pc = "final", !.dirty = dirty(last),
                                     !.fresh = fresh(first, last)]
      OBVIOUS
  <2>10. sess' = [sess EXCEPT ![s] = x]
      BY <2>1, <2>9 DEF Goto
  <2>11. /\ x.op = "place" /\ x.pc = "final" /\ x.dirty = dirty(last)
         /\ x.fresh = fresh(first, last)
      BY <1>1, <2>9 DEF Session
  <2>12. Keep # TRUE /\ Keep # FALSE
      BY NullAssumption, Zenon
  <2>13. BackedChanges(x)
    <3>1. ASSUME NEW p \in PermIds, x.dirty[p].active = TRUE \/ x.dirty[p].from # Keep
          PROVE  ActiveRows(perms[p].subject, Column(perms[p].from, x.dirty[p].from)) # {}
      <4>1. found(p) /\ Column(perms[p].from, x.dirty[p].from) = d
          BY <3>1, <2>8, <2>11, <2>12 DEF Column
      <4> QED BY <4>1, <2>2, <1>2
    <3> QED BY <3>1, <2>5, <2>11, <1>2 DEF BackedChanges
  <2>14. \A p \in PermIds : x.dirty[p].active # FALSE
      BY <2>8, <2>11, <2>12
  <2>15. AloneOK(x)
      BY <2>11, <2>13, <2>14 DEF AloneOK, PlainChanges, SpreadsActive, RevokeChanges
  <2> QED BY <1>1, <2>1, <2>10, <2>15, AloneMoves
<1> QED BY <1>3, <1>4 DEF Apply

\* A file is placed in a folder
LEMMA PlaceAlone ==
    ASSUME SerialInv, Alone, IInv', NEW s \in Sessions, NEW f \in Files,
           NEW d \in Folders \cup {None}, Ready(s), Place(s, f, d)
    PROVE  SerialInv'
<1>1. UNCHANGED <<perms, crashes, halfDone>>
    BY DEF Place
<1>2. CASE Begin(s, Idle)
    BY <1>1, <1>2, IdleAlone, AloneBegins
<1>3. CASE Begin(s, [Idle EXCEPT !.pc = "apply", !.op = "place", !.folder = d, !.file = f])
  <2>1. PICK x : x = [Idle EXCEPT !.pc = "apply", !.op = "place", !.folder = d, !.file = f]
      OBVIOUS
  <2>2. x.pc = "apply" /\ x.op = "place" /\ x.dirty = Clean /\ x.fresh = {}
      BY <2>1 DEF Idle
  <2>3. AloneOK(x)
      BY <2>2, CleanFields, HarmlessAlone
  <2> QED BY <1>1, <1>3, <2>1, <2>3, AloneBegins
<1> QED BY <1>2, <1>3 DEF Place

\* revoke_permission, first transaction
LEMMA RevokeAlone ==
    ASSUME SerialInv, Alone, IInv', NEW s \in Sessions, NEW a \in Users, NEW p \in PermIds,
           Revoke(s, a, p)
    PROVE  SerialInv'
<1>1. /\ UNCHANGED <<perms, crashes, halfDone>> /\ Ready(s)
      /\ perms[p] \in Row
    BY ExistsRow DEF Revoke, SerialInv, IInv
<1>2. PICK u, d, dirty :
        /\ u = perms[p].subject
        /\ d = IF perms[p].on \in Folders THEN perms[p].on ELSE None
        /\ dirty = [Clean EXCEPT ![p] = Deactivate(p)]
    OBVIOUS
<1>3. PICK x : x = [Idle EXCEPT !.pc = "save", !.op = "revoke", !.subject = u, !.folder = d,
                                !.dirty = dirty]
    OBVIOUS
<1>4. Begin(s, x)
    BY <1>2, <1>3 DEF Revoke
<1>5. /\ x.pc = "save" /\ x.op = "revoke" /\ x.subject = u /\ x.folder = d
      /\ x.dirty = dirty /\ x.fresh = {}
    BY <1>3 DEF Idle
<1>6. \A q \in PermIds : /\ dirty[q].active \in {Keep, FALSE} /\ dirty[q].from = Keep
                         /\ dirty[q].active # Keep => q = p
    BY <1>2, CleanType, CleanFields, DeactivateType
<1>7. Keep # TRUE /\ Keep # FALSE
    BY NullAssumption, Zenon
<1>8. u \in Users /\ perms[p].on \in Files \cup Folders
    BY <1>1, <1>2 DEF Row
<1>9. \A q \in PermIds : dirty[q].active # TRUE
    BY <1>6, <1>7, Zenon
<1>10. BackedChanges(x)
    BY <1>5, <1>6, <1>9 DEF BackedChanges
<1>11. RevokeChanges(x)
  <2>1. \A q \in PermIds : dirty[q].active = FALSE => q = p
      BY <1>6, <1>7, Zenon
  <2> QED BY <1>2, <1>5, <1>6, <1>8, <2>1 DEF RevokeChanges
<1>12. AloneOK(x)
    BY <1>5, <1>10, <1>11 DEF AloneOK, PlainChanges, SpreadsActive
<1> QED BY <1>1, <1>4, <1>12, AloneBegins

\* The cascade on the inherited rows
LEMMA CascadeAlone ==
    ASSUME SerialInv, Alone, IInv', NEW s \in Sessions, Cascade(s)
    PROVE  SerialInv'
<1>1. PICK z : z = sess[s]
    OBVIOUS
<1>2. /\ z \in Session /\ z.op = "revoke" /\ z.pc = "cascade" /\ z.subject \in Users
      /\ z.folder \in Folders /\ UNCHANGED <<perms, crashes, halfDone>>
    BY <1>1 DEF SerialInv, IInv, TypeOK, SessionsCarry, Carried, WellShaped, AloneOK,
                RevokeChanges, Cascade
<1> DEFINE hit(p) == Exists(p) /\ perms[p].from = z.folder /\ perms[p].subject = z.subject
<1>3. PICK dirty : dirty = [p \in PermIds |-> IF hit(p) THEN Deactivate(p) ELSE Unchanged]
    OBVIOUS
<1>4. PICK x : x = [z EXCEPT !.pc = "final", !.dirty = dirty, !.fresh = {}]
    OBVIOUS
<1>5. sess' = [sess EXCEPT ![s] = x]
    BY <1>1, <1>3, <1>4 DEF Cascade, Goto
<1>6. /\ x.pc = "final" /\ x.op = "revoke" /\ x.subject = z.subject /\ x.folder = z.folder
      /\ x.dirty = dirty /\ x.fresh = {}
    BY <1>2, <1>4 DEF Session
<1>7. \A p \in PermIds : dirty[p].active \in {Keep, FALSE} /\ dirty[p].from = Keep
    BY <1>3, DeactivateType DEF Unchanged
<1>8. Keep # TRUE /\ Keep # FALSE
    BY NullAssumption, Zenon
<1>9. \A p \in PermIds : dirty[p].active = FALSE <=>
            Active(p) /\ perms[p].from = z.folder /\ perms[p].subject = z.subject
  <2> TAKE p \in PermIds
  <2>1. CASE hit(p)
    <3>1. dirty[p] = Deactivate(p)
        BY <1>3, <2>1
    <3>2. Deactivate(p).active = Assign(perms[p].active, FALSE)
        BY DEF Deactivate, Unchanged
    <3>3. perms[p].active \in BOOLEAN
        BY <2>1, ExistsRow DEF SerialInv, IInv, Row
    <3>4. dirty[p].active = FALSE <=> perms[p].active
        BY <3>1, <3>2, <3>3, <1>8, Zenon DEF Assign
    <3> QED BY <2>1, <3>4 DEF Active
  <2>2. CASE ~hit(p)
    <3>1. dirty[p].active = Keep
        BY <1>3, <2>2 DEF Unchanged
    <3>2. dirty[p].active # FALSE
        BY <3>1, <1>8, Zenon
    <3> QED BY <2>2, <3>2 DEF Active
  <2> QED BY <2>1, <2>2
<1>10. \A p \in PermIds : dirty[p].active # TRUE
    BY <1>7, <1>8, Zenon
<1> HIDE DEF hit
<1>11. BackedChanges(x)
    BY <1>6, <1>7, <1>10 DEF BackedChanges
<1>12. RevokeChanges(x)
    BY <1>2, <1>6, <1>7, <1>9 DEF RevokeChanges
<1>13. AloneOK(x)
    BY <1>6, <1>11, <1>12 DEF AloneOK, PlainChanges, SpreadsActive
<1> QED BY <1>1, <1>2, <1>5, <1>6, <1>13, AloneMoves

\* update_permission
LEMMA UpdateAlone ==
    ASSUME SerialInv, Alone, IInv', NEW s \in Sessions, NEW a, NEW p, NEW level, NEW expires,
           Update(s, a, p, level, expires)
    PROVE  SerialInv'
<1> DEFINE siblings == {q \in PermIds :
                /\ Exists(q)
                /\ perms[p].from # None
                /\ perms[q].from = perms[p].from
                /\ perms[q].subject = perms[p].subject}
           patch(q) == [Unchanged EXCEPT !.level = Assign(perms[q].level, level),
                                         !.expires = Assign(perms[q].expires, expires)]
           dirty == [q \in PermIds |-> IF q \in siblings \cup {p} THEN patch(q) ELSE Unchanged]
<1>1. \A q \in PermIds : patch(q).active = Keep /\ patch(q).from = Keep
    BY DEF Unchanged
<1>2. UNCHANGED <<perms, crashes, halfDone>> /\ Ready(s)
      /\ Begin(s, [Idle EXCEPT !.pc = "save", !.op = "update", !.dirty = dirty])
    BY DEF Update
<1> HIDE DEF patch, siblings
<1>3. \A q \in PermIds : dirty[q].active = Keep /\ dirty[q].from = Keep
    BY <1>1 DEF Unchanged
<1> HIDE DEF dirty
<1>4. PICK x : x = [Idle EXCEPT !.pc = "save", !.op = "update", !.dirty = dirty]
    OBVIOUS
<1>5. x.pc = "save" /\ x.op = "update" /\ x.dirty = dirty /\ x.fresh = {}
    BY <1>4 DEF Idle
<1>6. AloneOK(x)
    BY <1>3, <1>5, HarmlessAlone
<1> QED BY <1>2, <1>4, <1>6, AloneBegins

\* extend_permission
LEMMA ExtendAlone ==
    ASSUME SerialInv, Alone, IInv', NEW s \in Sessions, NEW a, NEW u, NEW f, NEW expires,
           Extend(s, a, u, f, expires)
    PROVE  SerialInv'
<1> DEFINE change(p) == [Unchanged EXCEPT !.expires = Assign(perms[p].expires, expires)]
<1>1. PICK p \in LiveRows(u, f) :
        Begin(s, [Idle EXCEPT !.pc = "save", !.op = "update",
                              !.dirty = [Clean EXCEPT ![p] = change(p)]])
    BY DEF Extend
<1>2. UNCHANGED <<perms, crashes, halfDone>> /\ Ready(s)
    BY DEF Extend
<1>3. change(p).active = Keep /\ change(p).from = Keep
    BY DEF Unchanged
<1> HIDE DEF change
<1>4. PICK dirty : dirty = [Clean EXCEPT ![p] = change(p)]
    OBVIOUS
<1>5. \A q \in PermIds : dirty[q].active = Keep /\ dirty[q].from = Keep
    BY <1>3, <1>4, CleanFields, CleanType
<1>6. PICK x : x = [Idle EXCEPT !.pc = "save", !.op = "update", !.dirty = dirty]
    OBVIOUS
<1>7. x.pc = "save" /\ x.op = "update" /\ x.dirty = dirty /\ x.fresh = {}
    BY <1>6 DEF Idle
<1>8. AloneOK(x)
    BY <1>5, <1>7, HarmlessAlone
<1> QED BY <1>1, <1>2, <1>4, <1>6, <1>8, AloneBegins

\* A failed request is answered.
LEMMA ReplyAlone ==
    ASSUME SerialInv, Alone, IInv', NEW s \in Sessions, Reply(s)
    PROVE  SerialInv'
<1>1. /\ UNCHANGED <<perms, crashes, halfDone>> /\ sess[s].pc = "failed"
      /\ sess' = [sess EXCEPT ![s] = Idle]
    BY DEF Reply
<1> QED BY <1>1, IdleAlone, AloneMoves

\* A session that dies leaves the files it had not reached, which crashes tells.
LEMMA CrashAlone ==
    ASSUME SerialInv, Alone, IInv', NEW s \in Sessions, Crash(s)
    PROVE  SerialInv'
<1>1. perms' = perms /\ halfDone' = TRUE /\ crashes' # 0 /\ sess' = [sess EXCEPT ![s] = Idle]
    BY DEF Crash, SerialInv, IInv, TypeOK
<1>2. \A t \in Sessions : sess'[t] = Idle
    BY <1>1 DEF Alone, SerialInv, IInv, TypeOK
<1>3. (\A t \in Sessions : AloneOK(sess[t]))'
    BY <1>1, <1>2, IdleAlone, AloneSame
<1> QED BY <1>1, <1>3 DEF SerialInv, OrphansEnd

\* What a commit of z does to the table: the rows it inserts ...
Inserted(z) ==
    /\ \A p \in PermIds : ~Exists(p) => perms'[p] \in z.fresh \cup {NoRow}
    /\ \A row \in z.fresh : \E p \in PermIds : ~Exists(p) /\ perms'[p] = row

\* ... and the rows it overwrites.
Overwritten(z) ==
    \A p \in PermIds : Exists(p) =>
        /\ Exists(p)'
        /\ perms'[p].subject = perms[p].subject
        /\ perms'[p].on = perms[p].on
        /\ perms'[p].from = Column(perms[p].from, z.dirty[p].from)
        /\ Active(p) /\ z.dirty[p].active # FALSE => Active(p)'
        /\ Active(p)' => z.dirty[p].active # FALSE /\ (Active(p) \/ z.dirty[p].active = TRUE)

\* The phase of its session after it.
Continued(z, x) ==
    \/ /\ x = Idle
       /\ z.pc = "final" \/ z.op \notin {"grant", "revoke"} \/ z.folder = None
    \/ /\ z.pc = "save" /\ z.folder # None
       /\ x.op = z.op /\ x.subject = z.subject /\ x.folder = z.folder
       /\ x.dirty = Clean /\ x.fresh = {}
       /\ (x.op = "grant" /\ x.pc = "spread") \/ (x.op = "revoke" /\ x.pc = "cascade")

\* A row is active, or is not.
LEMMA ActiveAfter ==
    ASSUME IInv, NEW p \in PermIds, NEW change \in Change, Exists(p), perms'[p] \in Row,
           perms'[p] = Flush(perms[p], change)
    PROVE  /\ Active(p) /\ change.active # FALSE => Active(p)'
           /\ Active(p)' => change.active # FALSE /\ (Active(p) \/ change.active = TRUE)
<1>1. perms[p] \in Row
    BY ExistsRow DEF IInv
<1>2. perms'[p].active = Column(perms[p].active, change.active)
    BY <1>1, FlushType
<1>3. change.active \in BOOLEAN \cup {Keep} /\ perms[p].active \in BOOLEAN
      /\ perms'[p].active \in BOOLEAN
    BY <1>1 DEF Change, Row
<1>4. perms'[p] # NoRow
    BY NullAssumption
<1>5. Keep # FALSE /\ Keep # TRUE
    BY NullAssumption, Zenon
<1>6. CASE change.active = Keep
    BY <1>2, <1>4, <1>5, <1>6, Zenon DEF Active, Exists, Column
<1>7. CASE change.active # Keep
  <2>1. perms'[p].active = change.active
      BY <1>2, <1>7, Zenon DEF Column
  <2>2. change.active \in BOOLEAN
      BY <1>3, <1>7
  <2> QED BY <1>4, <2>1, <2>2, Zenon DEF Active, Exists
<1> QED BY <1>6, <1>7

\* A commit, with the table pointwise.
LEMMA CommitDetail ==
    ASSUME IInv, NEW s \in Sessions, NEW z, z = sess[s], Commit(s)
    PROVE  /\ z \in Session /\ z.pc \in {"save", "final"} /\ Carried(z)
           /\ Inserted(z) /\ Overwritten(z)
           /\ \E x : sess' = [sess EXCEPT ![s] = x] /\ Continued(z, x)
           /\ UNCHANGED <<location, now, started, crashes, halfDone>>
<1>1. /\ z \in Session /\ Carried(z) /\ z.pc \in {"save", "final"}
      /\ z.fresh \in SUBSET Row /\ z.dirty \in [PermIds -> Change]
      /\ perms' \in [PermIds -> Row \cup {NoRow}] /\ RowsKept
      /\ \A p \in PermIds : Exists(p) => perms'[p] = Flush(perms[p], z.dirty[p])
      /\ \A p \in PermIds : ~Exists(p) => perms'[p] \in z.fresh \cup {NoRow}
    BY CommitStep DEF IInv, Commit, Session
<1>2. UNCHANGED <<location, now, started, crashes, halfDone>>
    BY DEF Commit
<1>3. \A row \in z.fresh : \E p \in PermIds : ~Exists(p) /\ perms'[p] = row
  <2> TAKE row \in z.fresh
  <2>1. PICK ins \in Placements(z.fresh) : perms' = Stored(ins, z.dirty)
      BY DEF Commit
  <2>2. PICK p \in PermIds : ins[p] = row
      BY <2>1 DEF Placements
  <2>3. row # NoRow
      BY <1>1, NullAssumption
  <2>4. perms'[p] = row /\ ~Exists(p)
      BY <2>1, <2>2, <2>3 DEF Stored, Placements
  <2> QED BY <2>4
<1>4. Overwritten(z)
  <2> SUFFICES ASSUME NEW p \in PermIds, Exists(p)
               PROVE  /\ Exists(p)'
                      /\ perms'[p].subject = perms[p].subject
                      /\ perms'[p].on = perms[p].on
                      /\ perms'[p].from = Column(perms[p].from, z.dirty[p].from)
                      /\ Active(p) /\ z.dirty[p].active # FALSE => Active(p)'
                      /\ Active(p)' =>
                            z.dirty[p].active # FALSE /\ (Active(p) \/ z.dirty[p].active = TRUE)
      BY DEF Overwritten
  <2>1. perms[p] \in Row /\ z.dirty[p] \in Change /\ perms'[p] = Flush(perms[p], z.dirty[p])
        /\ Exists(p)'
      BY <1>1, ExistsRow DEF IInv, RowsKept
  <2>2. perms'[p] \in Row
      BY <1>1, <2>1 DEF Exists
  <2>3. /\ perms'[p].subject = perms[p].subject
        /\ perms'[p].on = perms[p].on
        /\ perms'[p].from = Column(perms[p].from, z.dirty[p].from)
      BY <2>1, FlushType
  <2> QED BY <2>1, <2>2, <2>3, ActiveAfter
<1>5. \E x : sess' = [sess EXCEPT ![s] = x] /\ Continued(z, x)
  <2>1. CASE /\ sess' = [sess EXCEPT ![s] = Idle]
             /\ ~(z.pc = "save" /\ Rest(s) # "idle")
    <3>1. z.pc = "final" \/ z.op \notin {"grant", "revoke"} \/ z.folder = None
        BY <1>1, <2>1 DEF Rest
    <3> QED BY <2>1, <3>1 DEF Continued
  <2>2. CASE z.pc = "save" /\ Rest(s) # "idle" /\ Goto(s, Rest(s), Clean, {})
    <3>1. PICK pc : pc = Rest(s)
        OBVIOUS
    <3>2. /\ z.folder # None
          /\ (pc = "spread" /\ z.op = "grant") \/ (pc = "cascade" /\ z.op = "revoke")
        BY <2>2, <3>1 DEF Rest
    <3>3. PICK x : x = [z EXCEPT !.pc = pc, !.dirty = Clean, !.fresh = {}]
        OBVIOUS
    <3>4. sess' = [sess EXCEPT ![s] = x]
        BY <2>2, <3>1, <3>3 DEF Goto
    <3>5. /\ x.pc = pc /\ x.op = z.op /\ x.subject = z.subject /\ x.folder = z.folder
          /\ x.dirty = Clean /\ x.fresh = {}
        BY <1>1, <3>3 DEF Session
    <3> QED BY <2>2, <3>2, <3>4, <3>5 DEF Continued
  <2> QED BY <2>1, <2>2 DEF Commit
<1> QED BY <1>1, <1>2, <1>3, <1>4, <1>5 DEF Inserted

\* A commit that deactivates nothing leaves every active row active.
LEMMA CommitGrows ==
    ASSUME NEW z, Overwritten(z), \A p \in PermIds : z.dirty[p].active # FALSE,
           NEW u, NEW r, ActiveRows(u, r) # {}
    PROVE  ActiveRows(u, r)' # {}
<1>1. PICK p \in PermIds : Active(p) /\ perms[p].subject = u /\ perms[p].on = r
    BY HasActive
<1>2. Active(p)' /\ perms'[p].subject = u /\ perms'[p].on = r
    BY <1>1 DEF Overwritten, Active
<1> QED BY <1>2 DEF ActiveRows, Rows, Active, Exists

\* A commit that is not a revocation's leaves no orphan.
LEMMA HangsNoOrphan ==
    ASSUME NEW z, Inserted(z), Overwritten(z), BackedChanges(z),
           \A p \in PermIds : z.dirty[p].active # FALSE,
           \A p \in PermIds : ~Orphan(p),
           NEW p \in PermIds, Orphan(p)'
    PROVE  FALSE
<1>1. PICK u, d : u = perms'[p].subject /\ d = perms'[p].from
    OBVIOUS
<1>2. Active(p)' /\ d # None /\ ActiveRows(u, d)' = {}
    BY <1>1 DEF Orphan
<1>3. ActiveRows(u, d) = {}
    BY <1>2, CommitGrows
<1>4. CASE ~Exists(p)
    BY <1>1, <1>2, <1>3, <1>4 DEF Inserted, BackedChanges, Active, Exists
<1>5. CASE Exists(p) /\ (z.dirty[p].active = TRUE \/ z.dirty[p].from # Keep)
    BY <1>1, <1>2, <1>3, <1>5 DEF Overwritten, BackedChanges
<1>6. CASE Exists(p) /\ z.dirty[p].active # TRUE /\ z.dirty[p].from = Keep
  <2>1. Active(p) /\ perms[p].subject = u /\ perms[p].from = d
      BY <1>1, <1>2, <1>6 DEF Overwritten, Column
  <2> QED BY <1>2, <1>3, <2>1 DEF Orphan
<1> QED BY <1>4, <1>5, <1>6

\* A revocation's commit inserts nothing, and changes only which rows are active.
LEMMA RevokeCommit ==
    ASSUME NEW z, Inserted(z), Overwritten(z), RevokeChanges(z), z.op = "revoke"
    PROVE  \A p \in PermIds :
            /\ Active(p)' <=> Active(p) /\ z.dirty[p].active # FALSE
            /\ Active(p)' => /\ perms'[p].subject = perms[p].subject
                             /\ perms'[p].on = perms[p].on
                             /\ perms'[p].from = perms[p].from
<1> TAKE p \in PermIds
<1>1. /\ z.fresh = {} /\ z.dirty[p].from = Keep
      /\ z.dirty[p].active \in {Keep, FALSE}
    BY DEF RevokeChanges
<1>2. Keep # TRUE
    BY NullAssumption, Zenon
<1>3. z.dirty[p].active # TRUE
    BY <1>1, <1>2, Zenon
<1>4. CASE ~Exists(p)
    BY <1>1, <1>4 DEF Inserted, Active, Exists
<1>5. CASE Exists(p)
    BY <1>1, <1>3, <1>5 DEF Overwritten, Column
<1> QED BY <1>4, <1>5

\* Revoking the row of a folder makes orphans of the rows inherited through it,
\* and of no other.
LEMMA RevokeOrphans ==
    ASSUME SerialInv, NEW s \in Sessions, NEW z, z = sess[s], AloneOK(z), z.op = "revoke",
           z.pc = "save", Inserted(z), Overwritten(z), \A p \in PermIds : ~Orphan(p),
           NEW p \in PermIds, Orphan(p)'
    PROVE  z.folder # None /\ perms'[p].subject = z.subject /\ perms'[p].from = z.folder
<1>1. /\ Active(p) /\ perms'[p].subject = perms[p].subject /\ perms'[p].from = perms[p].from
      /\ perms[p].from # None
    BY RevokeCommit DEF AloneOK, Orphan
<1>2. ActiveRows(perms[p].subject, perms[p].from) # {}
    BY <1>1 DEF Orphan
<1>3. PICK q \in PermIds :
        Active(q) /\ perms[q].subject = perms[p].subject /\ perms[q].on = perms[p].from
    BY <1>2, HasActive
<1>4. ~Active(q)'
  <2>1. ActiveRows(perms[p].subject, perms[p].from)' = {}
      BY DEF Orphan
  <2>2. Active(q)' => q \in ActiveRows(perms[p].subject, perms[p].from)'
      BY <1>1, <1>3, RevokeCommit DEF AloneOK, ActiveRows, Rows, Active, Exists
  <2> QED BY <2>1, <2>2
<1>5. z.dirty[q].active = FALSE
    BY <1>3, <1>4, RevokeCommit DEF AloneOK
<1>6. perms[q].subject = z.subject
      /\ (perms[q].on = z.folder \/ (perms[q].on \in Files /\ z.folder = None))
    BY <1>5 DEF AloneOK, RevokeChanges
<1>7. perms[p].from \in Folders
    BY <1>1, ExistsRow DEF SerialInv, IInv, Active, Row
<1>8. perms[q].on = z.folder /\ z.folder # None
    BY <1>3, <1>6, <1>7, DistinctAssumption
<1> QED BY <1>1, <1>3, <1>6, <1>8

\* The second commit of a revocation leaves none.
LEMMA CascadeOrphans ==
    ASSUME SerialInv, Alone, crashes = 0, NEW s \in Sessions, NEW z, z = sess[s], AloneOK(z),
           z.op = "revoke", z.pc = "final", Inserted(z), Overwritten(z),
           NEW p \in PermIds, Orphan(p)'
    PROVE  FALSE
<1>1. /\ Active(p) /\ perms'[p].subject = perms[p].subject /\ perms'[p].from = perms[p].from
      /\ perms[p].from # None /\ z.dirty[p].active # FALSE
    BY RevokeCommit DEF AloneOK, Orphan
<1>2. ~(perms[p].from = z.folder /\ perms[p].subject = z.subject)
    BY <1>1 DEF AloneOK, RevokeChanges
<1>3. ActiveRows(perms[p].subject, perms[p].from) # {}
  <2>1. ~Orphan(p)
      BY <1>2 DEF SerialInv, OrphansEnd, Alone
  <2> QED BY <1>1, <2>1 DEF Orphan
<1>4. PICK q \in PermIds :
        Active(q) /\ perms[q].subject = perms[p].subject /\ perms[q].on = perms[p].from
    BY <1>3, HasActive
<1>5. ~Active(q)'
  <2>1. ActiveRows(perms[p].subject, perms[p].from)' = {}
      BY DEF Orphan
  <2>2. Active(q)' => q \in ActiveRows(perms[p].subject, perms[p].from)'
      BY <1>1, <1>4, RevokeCommit DEF AloneOK, ActiveRows, Rows, Active, Exists
  <2> QED BY <2>1, <2>2
<1>6. z.dirty[q].active = FALSE
    BY <1>4, <1>5, RevokeCommit DEF AloneOK
<1>7. perms[q].from = z.folder /\ z.folder \in Folders
    BY <1>6 DEF AloneOK, RevokeChanges
<1>8. perms[q].on \in Files
    BY <1>4, <1>7, DistinctAssumption DEF SerialInv, IInv, InheritedHasOrigin, Active
<1>9. perms[p].from \in Folders
    BY <1>1, ExistsRow DEF SerialInv, IInv, Active, Row
<1> QED BY <1>4, <1>8, <1>9, DistinctAssumption

\* A session goes on from its first commit with what it should carry.
LEMMA ContinuedAlone ==
    ASSUME SerialInv, NEW z \in Session, AloneOK(z), Inserted(z), Overwritten(z), NEW x,
           Continued(z, x)
    PROVE  AloneOK(x)'
<1>1. Keep # TRUE /\ Keep # FALSE
    BY NullAssumption, Zenon
<1>2. \A p \in PermIds : Clean[p].active = Keep /\ Clean[p].from = Keep
    BY CleanFields
<1>3. CASE x = Idle
  <2>1. x.pc = "idle" /\ x.op = "none" /\ x.fresh = {} /\ x.dirty = Clean
      BY <1>3 DEF Idle
  <2> QED BY <1>1, <1>2, <2>1
          DEF AloneOK, BackedChanges, PlainChanges, SpreadsActive, RevokeChanges
<1>4. CASE /\ z.pc = "save" /\ z.folder # None
           /\ x.op = z.op /\ x.subject = z.subject /\ x.folder = z.folder
           /\ x.dirty = Clean /\ x.fresh = {}
           /\ (x.op = "grant" /\ x.pc = "spread") \/ (x.op = "revoke" /\ x.pc = "cascade")
  <2>1. x.op = "revoke" => x.subject \in Users /\ x.folder \in Folders
      BY <1>4 DEF AloneOK, RevokeChanges, Session
  <2>2. ASSUME x.op = "grant" PROVE ActiveRows(x.subject, x.folder)' # {}
    <3>1. \A p \in PermIds : z.dirty[p].active # FALSE
        BY <1>4, <2>2 DEF AloneOK, PlainChanges
    <3>2. CASE ActiveRows(z.subject, z.folder) # {}
        BY <1>4, <3>1, <3>2, CommitGrows
    <3>3. CASE \E row \in z.fresh : row.subject = z.subject /\ row.on = z.folder
      <4>1. PICK row \in z.fresh : row.subject = z.subject /\ row.on = z.folder
          BY <3>3
      <4>2. PICK p \in PermIds : perms'[p] = row
          BY DEF Inserted
      <4>3. row \in Row /\ row # NoRow
          BY NullAssumption DEF Session
      <4>4. row.active
          BY DEF AloneOK, BackedChanges
      <4>5. p \in ActiveRows(x.subject, x.folder)'
          BY <1>4, <4>1, <4>2, <4>3, <4>4 DEF ActiveRows, Rows, Exists
      <4> QED BY <4>5
    <3> QED BY <1>4, <2>2, <3>2, <3>3 DEF AloneOK, SpreadsActive
  <2>3. BackedChanges(x)'
      BY <1>1, <1>2, <1>4 DEF BackedChanges
  <2>4. PlainChanges(x)'
      BY <1>1, <1>2, <1>4 DEF PlainChanges
  <2>5. SpreadsActive(x)'
      BY <1>4, <2>2 DEF SpreadsActive
  <2>6. RevokeChanges(x)'
      BY <1>1, <1>2, <1>4, <2>1 DEF RevokeChanges
  <2> QED BY <1>4, <2>3, <2>4, <2>5, <2>6 DEF AloneOK
<1> QED BY <1>3, <1>4 DEF Continued

\* A commit keeps the invariant.
LEMMA CommitAlone ==
    ASSUME SerialInv, Alone, IInv', NEW s \in Sessions, Commit(s)
    PROVE  SerialInv'
<1>1. PICK z : z = sess[s]
    OBVIOUS
<1>2. /\ z \in Session /\ z.pc \in {"save", "final"} /\ Carried(z) /\ AloneOK(z)
      /\ Inserted(z) /\ Overwritten(z) /\ crashes' = crashes /\ halfDone' = halfDone
    BY <1>1, CommitDetail DEF SerialInv
<1>3. PICK x : sess' = [sess EXCEPT ![s] = x] /\ Continued(z, x)
    BY <1>1, CommitDetail DEF SerialInv
<1>4. \A t \in Sessions : t = s /\ sess'[t] = x
    BY <1>3 DEF Alone, SerialInv, IInv, TypeOK
<1>5. (\A t \in Sessions : AloneOK(sess[t]))'
    BY <1>2, <1>3, <1>4, ContinuedAlone
<1>6. OrphansEnd'
  <2> SUFFICES ASSUME crashes = 0, NEW p \in PermIds, Orphan(p)'
               PROVE  (\E t \in Sessions :
                        /\ sess[t].op = "revoke"
                        /\ sess[t].pc \in {"cascade", "final"}
                        /\ sess[t].subject = perms[p].subject
                        /\ sess[t].folder = perms[p].from)'
      BY <1>2 DEF OrphansEnd
  <2>1. CASE z.op # "revoke"
    <3>1. \A q \in PermIds : ~Orphan(q)
        BY <1>1, <2>1, NoOrphan
    <3>2. \A q \in PermIds : z.dirty[q].active # FALSE
        BY <1>2, <2>1 DEF AloneOK, PlainChanges
    <3> QED BY <1>2, <3>1, <3>2, HangsNoOrphan DEF AloneOK
  <2>2. CASE z.op = "revoke" /\ z.pc = "save"
    <3>1. \A q \in PermIds : ~Orphan(q)
        BY <1>1, <2>2, NoOrphan
    <3>2. z.folder # None /\ perms'[p].subject = z.subject /\ perms'[p].from = z.folder
        BY <1>1, <1>2, <2>2, <3>1, RevokeOrphans
    <3>3. /\ x.op = "revoke" /\ x.pc = "cascade" /\ x.subject = z.subject
          /\ x.folder = z.folder
        BY <1>3, <2>2, <3>2 DEF Continued
    <3> QED BY <1>4, <3>2, <3>3
  <2>3. CASE z.op = "revoke" /\ z.pc = "final"
      BY <1>1, <1>2, <2>3, CascadeOrphans
  <2> QED BY <1>2, <2>1, <2>2, <2>3
<1> QED BY <1>2, <1>5, <1>6 DEF SerialInv

\* The invariant depends on the table and on the sessions.
LEMMA AloneStutters ==
    ASSUME SerialInv, IInv', UNCHANGED <<perms, sess, crashes, halfDone>>
    PROVE  SerialInv'
<1>1. (\A s \in Sessions : AloneOK(sess[s]))'
    BY AloneSame DEF SerialInv
<1>2. OrphansEnd'
    BY DEF SerialInv, OrphansEnd, Orphan, ActiveRows, Rows, Active, Exists
<1> QED BY <1>1, <1>2 DEF SerialInv

\* It holds initially.
LEMMA SerialInit == Init => SerialInv
<1> SUFFICES ASSUME Init PROVE SerialInv
    OBVIOUS
<1>1. \A p \in PermIds : ~Orphan(p)
    BY DEF Init, Orphan, Active, Exists
<1>2. \A s \in Sessions : AloneOK(sess[s])
    BY IdleAlone DEF Init
<1> QED BY <1>1, <1>2, InitInvariant DEF SerialInv, OrphansEnd, Init

\* And every step keeps it.
LEMMA SerialStep == Alone /\ SerialInv /\ IInv' /\ [Next]_vars => SerialInv'
<1> SUFFICES ASSUME Alone, SerialInv, IInv', [Next]_vars PROVE SerialInv'
    OBVIOUS
<1>1. ASSUME NEW s \in Sessions, Continue(s) PROVE SerialInv'
  <2>1. ~SweepOne(s)
      BY DEF SerialInv, AloneOK, SweepOne
  <2> QED BY <1>1, <2>1, SpreadAlone, ApplyAlone, CascadeAlone, CommitAlone, ReplyAlone
          DEF Continue
<1>2. ASSUME NEW s \in Sessions, Sweep(s) PROVE FALSE
    BY <1>2 DEF Sweep, Alone
<1>3. ASSUME NEW s \in Sessions, Crash(s) PROVE SerialInv'
    BY <1>3, CrashAlone
<1>4. ASSUME NEW s \in Sessions, NEW g \in Users, NEW u \in Users, NEW r \in Files \cup Folders,
             NEW l \in Levels, NEW e \in Expiry, Grant(s, g, u, r, l, e)
      PROVE  SerialInv'
    BY <1>4, GrantAlone
<1>5. ASSUME NEW s \in Sessions, NEW f \in Files, NEW d \in Folders \cup {None}, Upload(s, f, d)
      PROVE  SerialInv'
    BY <1>5, PlaceAlone DEF Upload
<1>6. ASSUME NEW s \in Sessions, NEW a \in Users, NEW f \in Files, NEW d \in Folders \cup {None},
             Move(s, a, f, d)
      PROVE  SerialInv'
    BY <1>6, PlaceAlone DEF Move
<1>7. ASSUME NEW s \in Sessions, NEW a \in Users, NEW f \in Files, NEW g \in Files,
             NEW d \in Folders \cup {None}, Copy(s, a, f, g, d)
      PROVE  SerialInv'
    BY <1>7, PlaceAlone DEF Copy
<1>8. ASSUME NEW s \in Sessions, NEW a \in Users, NEW p \in PermIds, Revoke(s, a, p)
      PROVE  SerialInv'
    BY <1>8, RevokeAlone
<1>9. ASSUME NEW s \in Sessions, NEW a, NEW p, NEW l, NEW e, Update(s, a, p, l, e)
      PROVE  SerialInv'
    BY <1>9, UpdateAlone
<1>10. ASSUME NEW s \in Sessions, NEW a, NEW u, NEW f, NEW e, Extend(s, a, u, f, e)
       PROVE  SerialInv'
    BY <1>10, ExtendAlone
<1>11. ASSUME NEW p \in PermIds, LapseOnCheck(p) PROVE FALSE
    BY <1>11 DEF LapseOnCheck, Alone
<1>12. CASE Tick
    BY <1>12, AloneStutters DEF Tick
<1>13. CASE UNCHANGED vars
    BY <1>13, AloneStutters DEF vars
<1> QED BY <1>1, <1>2, <1>3, <1>4, <1>5, <1>6, <1>7, <1>8, <1>9, <1>10, <1>11, <1>12, <1>13
    DEF Next

\* So it always holds while requests run one at a time.
THEOREM SerialInvariantHolds == Alone => (Spec => []SerialInv)
<1>1. ASSUME Alone PROVE Spec => []SerialInv
  <2>1. SerialInv /\ IInv' /\ [Next]_vars => SerialInv'
      BY <1>1, SerialStep
  <2> QED BY <2>1, SerialInit, InvariantHolds, PTL DEF Spec
<1> QED BY <1>1

\* "Cascade: revoca (disattiva) tutti i permessi ereditati sui file figli": once
\* a request is answered, and none of those before it died or failed half way,
\* a subject with no active row left on a folder reaches no file through it.
\* revoke_permission, requests run one at a time.
THEOREM RevocationReaches == Alone => (Spec => []RevocationReachesFiles)
<1>1. ASSUME Alone PROVE SerialInv => RevocationReachesFiles
  <2> SUFFICES ASSUME SerialInv, Quiet, ~halfDone, NEW p \in PermIds, Active(p),
                      perms[p].from # None
               PROVE  ActiveRows(perms[p].subject, perms[p].from) # {}
      BY DEF RevocationReachesFiles
  <2>1. \A s \in Sessions : sess[s].pc \notin {"cascade", "final"}
      BY DEF Quiet
  <2>2. crashes = 0
      BY DEF SerialInv
  <2>3. ~Orphan(p)
      BY <2>1, <2>2 DEF SerialInv, OrphansEnd
  <2> QED BY <2>3 DEF Orphan
<1>2. ASSUME Alone PROVE Spec => []RevocationReachesFiles
  <2>1. SerialInv => RevocationReachesFiles
      BY <1>1, <1>2
  <2>2. Spec => []SerialInv
      BY <1>2, SerialInvariantHolds
  <2> QED BY <2>1, <2>2, PTL
<1> QED BY <1>2

-----------------------------------------------------------------------------
(* One request at a time, and none dies: each step is a step of FolderSharing, *)
(* or none.  With deaths it would be false: a revocation that dies between its *)
(* two commits ends the share and leaves the reach.                            *)

\* A revocation between its two commits
Cutting(x) == x.op = "revoke" /\ x.pc \in {"cascade", "final"}

Sharing(u, d) == ActiveRows(u, d) # {} \/ Ending(u, d)

\* Reach and Shared, one element at a time
LEMMA InReach ==
    ASSUME NEW t
    PROVE  t \in Reach <=> \E p \in PermIds : /\ Active(p) /\ perms[p].from # None
                                              /\ t = <<perms[p].subject, perms[p].on, perms[p].from>>
BY DEF Reach

LEMMA InShared ==
    ASSUME NEW u \in Users, NEW d \in Folders
    PROVE  <<u, d>> \in Shared <=> Sharing(u, d)
BY DEF Shared, Sharing

LEMMA SharedSame ==
    ASSUME \A u \in Users, d \in Folders : Sharing(u, d)' <=> Sharing(u, d)
    PROVE  Shared' = Shared
BY DEF Shared, Sharing

LEMMA SharedLess ==
    ASSUME NEW u \in Users, NEW d \in Folders, ~Sharing(u, d)',
           \A v \in Users, e \in Folders :
                <<v, e>> # <<u, d>> => (Sharing(v, e)' <=> Sharing(v, e))
    PROVE  Shared' = Shared \ {<<u, d>>}
BY DEF Shared, Sharing

LEMMA SharedMore ==
    ASSUME NEW u \in Users, NEW d \in Folders, Sharing(u, d)',
           \A v \in Users, e \in Folders :
                <<v, e>> # <<u, d>> => (Sharing(v, e)' <=> Sharing(v, e))
    PROVE  Shared' = Shared \cup {<<u, d>>}
BY DEF Shared, Sharing

\* Ending is about the one session there is.
LEMMA OnlyEnding ==
    ASSUME Alone, NEW s \in Sessions, NEW u, NEW d
    PROVE  Ending(u, d) <=>
                /\ Cutting(sess[s]) /\ sess[s].subject = u /\ sess[s].folder = d
                /\ \E f \in Files : <<u, f, d>> \in Reach
BY DEF Alone, Ending, Cutting

LEMMA OnlyEndingAfter ==
    ASSUME Alone, NEW s \in Sessions, NEW u, NEW d
    PROVE  Ending(u, d)' <=>
                /\ Cutting(sess'[s]) /\ sess'[s].subject = u /\ sess'[s].folder = d
                /\ \E f \in Files : <<u, f, d>> \in Reach'
BY DEF Alone, Ending, Cutting

\* A step that writes no row, and neither starts nor ends a cascade, is none.
LEMMA QuietStutters ==
    ASSUME Alone, NEW s \in Sessions, perms' = perms,
           \/ ~Cutting(sess[s]) /\ ~Cutting(sess'[s])
           \/ /\ Cutting(sess[s]) /\ Cutting(sess'[s])
              /\ sess'[s].subject = sess[s].subject /\ sess'[s].folder = sess[s].folder
    PROVE  UNCHANGED <<Shared, Reach>>
<1>1. Reach' = Reach
    BY DEF Reach, Active, Exists
<1>2. \A u, d : ActiveRows(u, d)' = ActiveRows(u, d)
    BY DEF ActiveRows, Rows, Exists
<1>3. \A u, d : Ending(u, d)' <=> Ending(u, d)
    BY <1>1, OnlyEnding, OnlyEndingAfter
<1> QED BY <1>1, <1>2, <1>3, SharedSame DEF Sharing

\* The rows a subject has on a folder are never inherited.
LEMMA FolderRowsPlain ==
    ASSUME IInv, NEW p \in PermIds, Active(p), perms[p].on \in Folders
    PROVE  perms[p].from = None
BY DistinctAssumption DEF IInv, InheritedHasOrigin, Active

LEMMA HasActiveAfter ==
    ASSUME NEW u, NEW r
    PROVE  ActiveRows(u, r)' # {} <=>
                \E p \in PermIds : Active(p)' /\ perms'[p].subject = u /\ perms'[p].on = r
BY DEF ActiveRows, Rows, Active, Exists

\* A step that keeps the active rows on a folder keeps it shared or not.
LEMMA FolderRowsSame ==
    ASSUME NEW u, NEW d,
           \A p \in PermIds : (Active(p)' /\ perms'[p].subject = u /\ perms'[p].on = d) <=>
                              (Active(p) /\ perms[p].subject = u /\ perms[p].on = d)
    PROVE  ActiveRows(u, d)' # {} <=> ActiveRows(u, d) # {}
BY HasActive, HasActiveAfter

\* The first commit of a grant shares its folder, if it is on one; those of the
\* other requests, a revocation aside, change nothing.
LEMMA SaveMaps ==
    ASSUME SerialInv, Alone, NEW s \in Sessions, NEW z \in Session, z = sess[s],
           NEW x, x = sess'[s], Carried(z), AloneOK(z), Inserted(z), Overwritten(z),
           Continued(z, x), z.op # "revoke", z.pc = "save"
    PROVE  \/ UNCHANGED <<Shared, Reach>>
           \/ \E u \in Users, d \in Folders : Promise!ShareFolder(u, d)
<1>1. Keep # TRUE /\ Keep # FALSE
    BY NullAssumption, Zenon
<1>2. \A p \in PermIds : Exists(p) =>
        /\ Active(p)' <=> Active(p)
        /\ perms'[p].subject = perms[p].subject
        /\ perms'[p].on = perms[p].on
        /\ perms'[p].from = perms[p].from
  <2> TAKE p \in PermIds
  <2> HAVE Exists(p)
  <2>1. z.dirty[p].active = Keep /\ z.dirty[p].from = Keep
      BY DEF AloneOK, PlainChanges
  <2>2. z.dirty[p].active # FALSE /\ z.dirty[p].active # TRUE
      BY <1>1, <2>1, Zenon
  <2> QED BY <2>1, <2>2 DEF Overwritten, Column
<1>3. \A p \in PermIds : ~Exists(p) =>
        /\ ~Active(p)
        /\ Active(p)' => perms'[p] \in z.fresh /\ perms'[p].from = None
    BY DEF AloneOK, PlainChanges, Inserted, Active, Exists
<1>4. Reach' = Reach
  <2>1. \A p \in PermIds : (Active(p)' /\ perms'[p].from # None) =>
            /\ Active(p) /\ perms[p].from # None
            /\ perms'[p].subject = perms[p].subject
            /\ perms'[p].on = perms[p].on
            /\ perms'[p].from = perms[p].from
      BY <1>2, <1>3
  <2>2. \A p \in PermIds : (Active(p) /\ perms[p].from # None) =>
            /\ Active(p)' /\ perms'[p].from # None
            /\ perms'[p].subject = perms[p].subject
            /\ perms'[p].on = perms[p].on
            /\ perms'[p].from = perms[p].from
      BY <1>2 DEF Active
  <2> QED BY <2>1, <2>2 DEF Reach
<1>5. ~Cutting(z) /\ ~Cutting(x)
    BY DEF Cutting, Continued, Idle
<1>6. \A u, d : ~Ending(u, d) /\ ~Ending(u, d)'
    BY <1>5, OnlyEnding, OnlyEndingAfter
<1>7. \A u, d : /\ Sharing(u, d) <=> ActiveRows(u, d) # {}
                /\ Sharing(u, d)' <=> ActiveRows(u, d)' # {}
    BY <1>6 DEF Sharing
<1>8. \A row \in z.fresh : row \in Row
    BY DEF Session
<1>9. CASE \E row \in z.fresh : row.on \in Folders
  <2>1. PICK row \in z.fresh : row.on \in Folders
      BY <1>9
  <2>2. PICK u, d : u = z.subject /\ d = z.folder
      OBVIOUS
  <2>3. \A r \in z.fresh : r.on \in Folders => r.subject = u /\ r.on = d
      BY <2>2, DistinctAssumption DEF Carried, FreshOK
  <2>4. u \in Users /\ d \in Folders /\ row.subject = u /\ row.on = d
      BY <1>8, <2>1, <2>3 DEF Row
  <2>5. ActiveRows(u, d)' # {}
    <3>1. PICK p \in PermIds : perms'[p] = row
        BY <2>1 DEF Inserted
    <3>2. row.active /\ row # NoRow
        BY <1>8, <2>1, NullAssumption DEF AloneOK, BackedChanges
    <3> QED BY <2>4, <3>1, <3>2, HasActiveAfter DEF Active, Exists
  <2>6. ASSUME NEW v \in Users, NEW e \in Folders, <<v, e>> # <<u, d>>
        PROVE  Sharing(v, e)' <=> Sharing(v, e)
    <3>1. \A p \in PermIds : (Active(p)' /\ perms'[p].subject = v /\ perms'[p].on = e) <=>
                             (Active(p) /\ perms[p].subject = v /\ perms[p].on = e)
        BY <1>2, <1>3, <2>3, <2>6
    <3> QED BY <1>7, <3>1, FolderRowsSame
  <2>7. Shared' = Shared \cup {<<u, d>>}
      BY <1>7, <2>4, <2>5, <2>6, SharedMore
  <2> QED BY <1>4, <2>4, <2>7 DEF Promise!ShareFolder
<1>10. CASE \A row \in z.fresh : row.on \notin Folders
  <2>1. ASSUME NEW v \in Users, NEW e \in Folders
        PROVE  Sharing(v, e)' <=> Sharing(v, e)
    <3>1. \A p \in PermIds : (Active(p)' /\ perms'[p].subject = v /\ perms'[p].on = e) <=>
                             (Active(p) /\ perms[p].subject = v /\ perms[p].on = e)
        BY <1>2, <1>3, <1>10
    <3> QED BY <1>7, <3>1, FolderRowsSame
  <2> QED BY <1>4, <2>1, SharedSame
<1> QED BY <1>9, <1>10

\* The second commit of a grant or of a placement hangs files on folders that
\* are shared, and no row on a folder.
LEMMA FinalMaps ==
    ASSUME SerialInv, IInv', Alone, NEW s \in Sessions, NEW z \in Session, z = sess[s],
           NEW x, x = sess'[s], Carried(z), AloneOK(z), Inserted(z), Overwritten(z),
           Continued(z, x), z.op # "revoke", z.pc = "final"
    PROVE  Promise!Refresh
<1>1. \A p \in PermIds : z.dirty[p].active # FALSE
    BY DEF AloneOK, PlainChanges
<1>2. \A p \in PermIds : ~Exists(p) =>
        /\ ~Active(p)
        /\ Active(p)' => perms'[p] \in z.fresh
    BY DEF Inserted, Active, Exists
<1>3. \A row \in z.fresh : row.on \in Files
    BY DEF Carried, FreshOK
<1>4. ~Cutting(z) /\ ~Cutting(x)
    BY DEF Cutting, Continued, Idle
<1>5. \A u, d : ~Ending(u, d) /\ ~Ending(u, d)'
    BY <1>4, OnlyEnding, OnlyEndingAfter
<1>6. ASSUME NEW v \in Users, NEW e \in Folders
      PROVE  Sharing(v, e)' <=> Sharing(v, e)
  <2>1. ASSUME NEW p \in PermIds
        PROVE  (Active(p)' /\ perms'[p].subject = v /\ perms'[p].on = e) <=>
               (Active(p) /\ perms[p].subject = v /\ perms[p].on = e)
    <3>1. CASE ~Exists(p)
        BY <1>2, <1>3, <3>1, DistinctAssumption
    <3>2. CASE Exists(p)
      <4>1. z.dirty[p].active = TRUE => perms[p].on \in Files
          BY DEF Carried, DirtyOK
      <4> QED BY <1>1, <3>2, <4>1, DistinctAssumption DEF Overwritten
    <3> QED BY <3>1, <3>2
  <2> QED BY <1>5, <2>1, FolderRowsSame DEF Sharing
<1>7. ASSUME NEW t \in Reach', t \notin Reach PROVE t \in Promise!Promised
  <2>1. PICK p \in PermIds : /\ Active(p)' /\ perms'[p].from # None
                             /\ t = <<perms'[p].subject, perms'[p].on, perms'[p].from>>
      BY <1>7 DEF Reach
  <2>2. perms'[p] \in Row /\ perms'[p].on \in Files
      BY <2>1 DEF IInv, TypeOK, InheritedHasOrigin, Active, Exists
  <2>3. PICK u, f, d : u = perms'[p].subject /\ f = perms'[p].on /\ d = perms'[p].from
      OBVIOUS
  <2>4. u \in Users /\ f \in Files /\ d \in Folders /\ t = <<u, f, d>>
      BY <2>1, <2>2, <2>3 DEF Row
  <2>5. ActiveRows(u, d) # {}
    <3>1. CASE ~Exists(p)
        BY <1>2, <2>1, <2>3, <3>1 DEF AloneOK, BackedChanges
    <3>2. CASE Exists(p) /\ (z.dirty[p].active = TRUE \/ z.dirty[p].from # Keep)
        BY <2>1, <2>3, <3>2 DEF AloneOK, BackedChanges, Overwritten
    <3>3. CASE Exists(p) /\ z.dirty[p].active # TRUE /\ z.dirty[p].from = Keep
      <4>1. /\ Active(p) /\ perms[p].subject = u /\ perms[p].on = f /\ perms[p].from = d
            /\ d # None
          BY <2>1, <2>3, <3>3 DEF Overwritten, Column
      <4>2. t \in Reach
          BY <2>4, <4>1, InReach
      <4> QED BY <1>7, <4>2
    <3> QED BY <3>1, <3>2, <3>3
  <2>6. <<u, d>> \in Shared
      BY <2>4, <2>5, InShared DEF Sharing
  <2>7. t \in Promise!Through(u, d)
      BY <2>4 DEF Promise!Through
  <2> QED BY <2>6, <2>7 DEF Promise!Promised
<1>8. Shared' = Shared
    BY <1>6, SharedSame
<1> QED BY <1>7, <1>8 DEF Promise!Refresh
\* Revoking a row on a file takes it out of reach; revoking the row on a folder
\* ends the share at once if no file is reached through it, and else changes
\* nothing yet.
LEMMA RevokeSaveMaps ==
    ASSUME SerialInv, Alone, crashes = 0, NEW s \in Sessions, NEW z \in Session, z = sess[s],
           NEW x, x = sess'[s], AloneOK(z), Inserted(z), Overwritten(z),
           Continued(z, x), z.op = "revoke", z.pc = "save"
    PROVE  \/ UNCHANGED <<Shared, Reach>>
           \/ Promise!Refresh
           \/ \E u \in Users, d \in Folders : Promise!Unshare(u, d)
<1>1. \A p \in PermIds :
        /\ Active(p)' <=> Active(p) /\ z.dirty[p].active # FALSE
        /\ Active(p)' => /\ perms'[p].subject = perms[p].subject
                         /\ perms'[p].on = perms[p].on
                         /\ perms'[p].from = perms[p].from
    BY RevokeCommit DEF AloneOK
<1>2. \A p \in PermIds : z.dirty[p].active = FALSE =>
        /\ perms[p].subject = z.subject
        /\ perms[p].on = z.folder \/ (perms[p].on \in Files /\ z.folder = None)
    BY DEF AloneOK, RevokeChanges
<1>3. ~Cutting(z) /\ \A u, d : ~Ending(u, d)
    BY OnlyEnding DEF Cutting
<1>4. Reach' \subseteq Reach
  <2> SUFFICES ASSUME NEW t \in Reach' PROVE t \in Reach
      OBVIOUS
  <2>1. PICK p \in PermIds : /\ Active(p)' /\ perms'[p].from # None
                             /\ t = <<perms'[p].subject, perms'[p].on, perms'[p].from>>
      BY DEF Reach
  <2> QED BY <1>1, <2>1, InReach
<1>5. CASE z.folder = None
  <2>1. ~Cutting(x)
      BY <1>5 DEF Cutting, Continued, Idle
  <2>2. \A u, d : ~Ending(u, d)'
      BY <2>1, OnlyEndingAfter
  <2>3. ASSUME NEW v \in Users, NEW e \in Folders
        PROVE  Sharing(v, e)' <=> Sharing(v, e)
    <3>1. \A p \in PermIds : (Active(p)' /\ perms'[p].subject = v /\ perms'[p].on = e) <=>
                             (Active(p) /\ perms[p].subject = v /\ perms[p].on = e)
        BY <1>1, <1>2, <1>5, DistinctAssumption
    <3> QED BY <1>3, <2>2, <3>1, FolderRowsSame DEF Sharing
  <2>4. Shared' = Shared
      BY <2>3, SharedSame
  <2> QED BY <1>4, <2>4 DEF Promise!Refresh
<1>6. CASE z.folder # None
  <2>1. PICK u, d : u = z.subject /\ d = z.folder
      OBVIOUS
  <2>2. u \in Users /\ d \in Folders
      BY <1>6, <2>1 DEF AloneOK, RevokeChanges, Session
  <2>3. Cutting(x) /\ x.subject = u /\ x.folder = d
      BY <1>6, <2>1 DEF Continued, Cutting
  <2>4. \A p \in PermIds : Active(p) /\ z.dirty[p].active = FALSE => perms[p].from = None
      BY <1>2, <1>6, <2>1, <2>2, FolderRowsPlain DEF SerialInv
  <2>5. Reach' = Reach
    <3> SUFFICES ASSUME NEW t \in Reach PROVE t \in Reach'
        BY <1>4
    <3>1. PICK p \in PermIds : /\ Active(p) /\ perms[p].from # None
                               /\ t = <<perms[p].subject, perms[p].on, perms[p].from>>
        BY InReach
    <3>2. Active(p)'
        BY <1>1, <2>4, <3>1
    <3> QED BY <1>1, <3>1, <3>2 DEF Reach
  <2>6. ASSUME NEW v \in Users, NEW e \in Folders, <<v, e>> # <<u, d>>
        PROVE  Sharing(v, e)' <=> Sharing(v, e)
    <3>1. \A p \in PermIds : (Active(p)' /\ perms'[p].subject = v /\ perms'[p].on = e) <=>
                             (Active(p) /\ perms[p].subject = v /\ perms[p].on = e)
        BY <1>1, <1>2, <1>6, <2>1, <2>6
    <3>2. ~Ending(v, e)'
        BY <2>3, <2>6, OnlyEndingAfter
    <3> QED BY <1>3, <3>1, <3>2, FolderRowsSame DEF Sharing
  <2>7. CASE Sharing(u, d)'
    <3>1. ActiveRows(u, d) # {}
      <4>1. CASE ActiveRows(u, d)' # {}
        <5>1. PICK p \in PermIds : Active(p)' /\ perms'[p].subject = u /\ perms'[p].on = d
            BY <4>1, HasActiveAfter
        <5>2. Active(p) /\ perms[p].subject = u /\ perms[p].on = d
            BY <1>1, <5>1
        <5> QED BY <5>2, HasActive
      <4>2. CASE Ending(u, d)'
        <5>1. PICK f \in Files : <<u, f, d>> \in Reach
            BY <2>5, <4>2, OnlyEndingAfter
        <5>2. PICK p \in PermIds : /\ Active(p) /\ perms[p].from # None
                                   /\ perms[p].subject = u /\ perms[p].from = d
            BY <5>1, InReach
        <5>3. ~Orphan(p)
            BY NoOrphan
        <5> QED BY <5>2, <5>3 DEF Orphan
      <4> QED BY <2>7, <4>1, <4>2 DEF Sharing
    <3>2. Shared' = Shared
        BY <2>6, <2>7, <3>1, SharedSame DEF Sharing
    <3> QED BY <2>5, <3>2
  <2>8. CASE ~Sharing(u, d)'
    <3>1. Shared' = Shared \ {<<u, d>>}
        BY <2>2, <2>6, <2>8, SharedLess
    <3>2. Reach' = Reach \ Promise!Through(u, d)
      <4>1. \A f \in Files : <<u, f, d>> \notin Reach
          BY <2>3, <2>5, <2>8, OnlyEndingAfter DEF Sharing
      <4> QED BY <2>5, <4>1 DEF Promise!Through
    <3> QED BY <2>2, <3>1, <3>2 DEF Promise!Unshare
  <2> QED BY <2>7, <2>8
<1> QED BY <1>5, <1>6

\* The second commit of a folder's revocation takes every file reached through
\* it out of reach, and ends the share unless another row keeps it.
LEMMA RevokeFinalMaps ==
    ASSUME SerialInv, Alone, NEW s \in Sessions, NEW z \in Session, z = sess[s],
           NEW x, x = sess'[s], AloneOK(z), Inserted(z), Overwritten(z),
           Continued(z, x), z.op = "revoke", z.pc = "final"
    PROVE  \/ Promise!Refresh
           \/ \E u \in Users, d \in Folders : Promise!Unshare(u, d)
<1>1. \A p \in PermIds :
        /\ Active(p)' <=> Active(p) /\ z.dirty[p].active # FALSE
        /\ Active(p)' => /\ perms'[p].subject = perms[p].subject
                         /\ perms'[p].on = perms[p].on
                         /\ perms'[p].from = perms[p].from
    BY RevokeCommit DEF AloneOK
<1>2. PICK u, d : u = z.subject /\ d = z.folder
    OBVIOUS
<1>3. u \in Users /\ d \in Folders
    BY <1>2 DEF AloneOK, RevokeChanges
<1>4. \A p \in PermIds : z.dirty[p].active = FALSE <=>
            Active(p) /\ perms[p].from = d /\ perms[p].subject = u
    BY <1>2 DEF AloneOK, RevokeChanges
<1>5. \A p \in PermIds : Active(p)' <=> Active(p) /\ ~(perms[p].from = d /\ perms[p].subject = u)
    BY <1>1, <1>4
<1>6. Reach' = Reach \ Promise!Through(u, d)
  <2>1. ASSUME NEW t \in Reach' PROVE t \in Reach /\ t \notin Promise!Through(u, d)
    <3>1. PICK p \in PermIds : /\ Active(p)' /\ perms'[p].from # None
                               /\ t = <<perms'[p].subject, perms'[p].on, perms'[p].from>>
        BY <2>1 DEF Reach
    <3> QED BY <1>1, <1>5, <3>1, InReach DEF Promise!Through
  <2>2. ASSUME NEW t \in Reach, t \notin Promise!Through(u, d) PROVE t \in Reach'
    <3>1. PICK p \in PermIds : /\ Active(p) /\ perms[p].from # None
                               /\ t = <<perms[p].subject, perms[p].on, perms[p].from>>
        BY <2>2, InReach
    <3>2. perms[p].on \in Files
        BY <3>1 DEF SerialInv, IInv, InheritedHasOrigin, Active
    <3>3. ~(perms[p].from = d /\ perms[p].subject = u)
        BY <2>2, <3>1, <3>2 DEF Promise!Through
    <3> QED BY <1>1, <1>5, <3>1, <3>3 DEF Reach
  <2> QED BY <2>1, <2>2
<1>7. ~Cutting(x)
    BY DEF Cutting, Continued, Idle
<1>8. \A v, e : ~Ending(v, e)'
    BY <1>7, OnlyEndingAfter
<1>9. \A v, e : Ending(v, e) => v = u /\ e = d
    BY <1>2, OnlyEnding
<1>10. ASSUME NEW v \in Users, NEW e \in Folders
       PROVE  ActiveRows(v, e)' # {} <=> ActiveRows(v, e) # {}
  <2>1. \A p \in PermIds : Active(p) /\ perms[p].on = e => perms[p].from = None
      BY FolderRowsPlain DEF SerialInv
  <2>2. \A p \in PermIds : (Active(p)' /\ perms'[p].subject = v /\ perms'[p].on = e) <=>
                           (Active(p) /\ perms[p].subject = v /\ perms[p].on = e)
      BY <1>1, <1>3, <1>5, <2>1, DistinctAssumption
  <2> QED BY <2>2, FolderRowsSame
<1>11. ASSUME NEW v \in Users, NEW e \in Folders, <<v, e>> # <<u, d>>
       PROVE  Sharing(v, e)' <=> Sharing(v, e)
    BY <1>8, <1>9, <1>10, <1>11 DEF Sharing
<1>12. CASE ActiveRows(u, d) # {}
  <2>1. Sharing(u, d) /\ Sharing(u, d)'
      BY <1>3, <1>10, <1>12 DEF Sharing
  <2>2. Shared' = Shared
      BY <1>11, <2>1, SharedSame
  <2> QED BY <1>6, <2>2 DEF Promise!Refresh
<1>13. CASE ActiveRows(u, d) = {}
  <2>1. ~Sharing(u, d)'
      BY <1>3, <1>8, <1>10, <1>13 DEF Sharing
  <2>2. Shared' = Shared \ {<<u, d>>}
      BY <1>3, <1>11, <2>1, SharedLess
  <2> QED BY <1>3, <1>6, <2>2 DEF Promise!Unshare
<1> QED BY <1>12, <1>13

\* Every commit is a step of FolderSharing, or none.
LEMMA CommitMaps ==
    ASSUME SerialInv, IInv', Alone, crashes = 0, NEW s \in Sessions, Commit(s)
    PROVE  Promise!Next \/ UNCHANGED <<Shared, Reach>>
<1>1. PICK z : z = sess[s]
    OBVIOUS
<1>2. /\ z \in Session /\ z.pc \in {"save", "final"} /\ Carried(z) /\ AloneOK(z)
      /\ Inserted(z) /\ Overwritten(z)
    BY <1>1, CommitDetail DEF SerialInv
<1>3. PICK x : sess' = [sess EXCEPT ![s] = x] /\ Continued(z, x)
    BY <1>1, CommitDetail DEF SerialInv
<1>4. x = sess'[s]
    BY <1>3 DEF SerialInv, IInv, TypeOK
<1>5. CASE z.op # "revoke" /\ z.pc = "save"
  <2>1. \/ UNCHANGED <<Shared, Reach>>
        \/ \E u \in Users, d \in Folders : Promise!ShareFolder(u, d)
      BY <1>1, <1>2, <1>3, <1>4, <1>5, SaveMaps
  <2> QED BY <2>1 DEF Promise!Next
<1>6. CASE z.op # "revoke" /\ z.pc = "final"
  <2>1. Promise!Refresh
      BY <1>1, <1>2, <1>3, <1>4, <1>6, FinalMaps
  <2> QED BY <2>1 DEF Promise!Next
<1>7. CASE z.op = "revoke" /\ z.pc = "save"
  <2>1. \/ UNCHANGED <<Shared, Reach>>
        \/ Promise!Refresh
        \/ \E u \in Users, d \in Folders : Promise!Unshare(u, d)
      BY <1>1, <1>2, <1>3, <1>4, <1>7, RevokeSaveMaps
  <2> QED BY <2>1 DEF Promise!Next
<1>8. CASE z.op = "revoke" /\ z.pc = "final"
  <2>1. \/ Promise!Refresh
        \/ \E u \in Users, d \in Folders : Promise!Unshare(u, d)
      BY <1>1, <1>2, <1>3, <1>4, <1>8, RevokeFinalMaps
  <2> QED BY <2>1 DEF Promise!Next
<1> QED BY <1>2, <1>5, <1>6, <1>7, <1>8

\* A request that starts has no commit behind it.
LEMMA BeginStutters ==
    ASSUME IInv, Alone, NEW s \in Sessions, NEW x, Ready(s), Begin(s, x), perms' = perms,
           x.pc \notin {"cascade", "final"}
    PROVE  UNCHANGED <<Shared, Reach>>
<1>1. sess'[s] = x
    BY DEF Begin, IInv, TypeOK
<1>2. ~Cutting(sess[s]) /\ ~Cutting(sess'[s])
    BY <1>1 DEF Ready, Cutting
<1> QED BY <1>2, QuietStutters

\* Planning what a commit writes is no step.
LEMMA PlanStutters ==
    ASSUME IInv, Alone, NEW s \in Sessions, Spread(s) \/ Apply(s) \/ Cascade(s) \/ Reply(s)
    PROVE  UNCHANGED <<Shared, Reach>>
<1>1. PICK z : z = sess[s] /\ z \in Session /\ WellShaped(z)
    BY DEF IInv, TypeOK, SessionsCarry, Carried
<1>2. perms' = perms
    BY DEF Spread, Apply, Cascade, Reply
<1>3. ASSUME NEW pc, NEW dirty, NEW fresh, Goto(s, pc, dirty, fresh)
      PROVE  /\ sess'[s].op = z.op /\ sess'[s].pc = pc
             /\ sess'[s].subject = z.subject /\ sess'[s].folder = z.folder
    BY <1>1, <1>3 DEF Goto, IInv, TypeOK, Session
<1>4. CASE Spread(s) \/ Apply(s)
  <2>1. z.op # "revoke"
      BY <1>1, <1>4 DEF Spread, Apply, WellShaped
  <2>2. \E pc, dirty, fresh : Goto(s, pc, dirty, fresh)
    <3>1. CASE Spread(s)
        BY <3>1 DEF Spread
    <3>2. CASE Apply(s)
        BY <3>2 DEF Apply
    <3> QED BY <1>4, <3>1, <3>2
  <2>3. sess'[s].op # "revoke"
      BY <1>3, <2>1, <2>2
  <2> QED BY <1>1, <1>2, <2>1, <2>3, QuietStutters DEF Cutting
<1>5. CASE Cascade(s)
  <2>1. z.op = "revoke" /\ z.pc = "cascade"
      BY <1>1, <1>5 DEF Cascade, WellShaped
  <2>2. PICK dirty : Goto(s, "final", dirty, {})
      BY <1>5 DEF Cascade
  <2>3. /\ sess'[s].op = "revoke" /\ sess'[s].pc = "final"
        /\ sess'[s].subject = z.subject /\ sess'[s].folder = z.folder
      BY <1>3, <2>1, <2>2
  <2> QED BY <1>1, <1>2, <2>1, <2>3, QuietStutters DEF Cutting
<1>6. CASE Reply(s)
  <2>1. z.pc = "failed" /\ sess'[s] = Idle
      BY <1>1, <1>6 DEF Reply, IInv, TypeOK
  <2>2. ~Cutting(z) /\ ~Cutting(Idle)
      BY <2>1 DEF Cutting, Idle
  <2> QED BY <1>1, <1>2, <2>1, <2>2, QuietStutters
<1> QED BY <1>4, <1>5, <1>6

\* Neither is placing a file: its rows are written later.
LEMMA PlaceStutters ==
    ASSUME IInv, Alone, NEW s \in Sessions, NEW f, NEW d, Ready(s), Place(s, f, d)
    PROVE  UNCHANGED <<Shared, Reach>>
<1>1. perms' = perms
    BY DEF Place
<1>2. CASE Begin(s, Idle)
  <2>1. Idle.pc \notin {"cascade", "final"}
      BY DEF Idle
  <2> QED BY <1>1, <1>2, <2>1, BeginStutters
<1>3. CASE Begin(s, [Idle EXCEPT !.pc = "apply", !.op = "place", !.folder = d, !.file = f])
  <2>1. PICK x : x = [Idle EXCEPT !.pc = "apply", !.op = "place", !.folder = d, !.file = f]
      OBVIOUS
  <2>2. x.pc \notin {"cascade", "final"}
      BY <2>1 DEF Idle
  <2> QED BY <1>1, <1>3, <2>1, <2>2, BeginStutters
<1> QED BY <1>2, <1>3 DEF Place

\* The table and the sessions make the abstract state.
LEMMA AbstractStutters ==
    ASSUME UNCHANGED <<perms, sess>>
    PROVE  UNCHANGED <<Shared, Reach>>
<1>1. Reach' = Reach
    BY DEF Reach, Active, Exists
<1>2. \A u, d : Sharing(u, d)' <=> Sharing(u, d)
    BY <1>1 DEF Sharing, Ending, ActiveRows, Rows, Exists
<1> QED BY <1>1, <1>2, SharedSame

\* Every step, one request at a time and none dying, is a step of FolderSharing
\* or none.
LEMMA StepMaps ==
    ASSUME SerialInv, IInv', Alone, MaxCrashes = 0, [Next]_vars
    PROVE  Promise!Next \/ UNCHANGED <<Shared, Reach>>
<1>1. IInv /\ crashes = 0
    BY DEF SerialInv, IInv, TypeOK
<1>2. ASSUME NEW s \in Sessions, Continue(s)
      PROVE  Promise!Next \/ UNCHANGED <<Shared, Reach>>
  <2>1. ~SweepOne(s)
      BY DEF SerialInv, AloneOK, SweepOne
  <2> QED BY <1>1, <1>2, <2>1, CommitMaps, PlanStutters DEF Continue
<1>3. ASSUME NEW s \in Sessions, Sweep(s) PROVE FALSE
    BY <1>3 DEF Sweep, Alone
<1>4. ASSUME NEW s \in Sessions, Crash(s) PROVE FALSE
    BY <1>1, <1>4 DEF Crash
<1>5. ASSUME NEW s \in Sessions, NEW g, NEW u, NEW r, NEW l, NEW e, Grant(s, g, u, r, l, e)
      PROVE  UNCHANGED <<Shared, Reach>>
  <2>1. PICK x : x.pc = "save" /\ Begin(s, x)
      BY <1>5 DEF Grant, Idle
  <2> QED BY <1>1, <1>5, <2>1, BeginStutters DEF Grant
<1>6. ASSUME NEW s \in Sessions, NEW f, NEW d, Upload(s, f, d)
      PROVE  UNCHANGED <<Shared, Reach>>
    BY <1>1, <1>6, PlaceStutters DEF Upload
<1>7. ASSUME NEW s \in Sessions, NEW a, NEW f, NEW d, Move(s, a, f, d)
      PROVE  UNCHANGED <<Shared, Reach>>
    BY <1>1, <1>7, PlaceStutters DEF Move
<1>8. ASSUME NEW s \in Sessions, NEW a, NEW f, NEW g, NEW d, Copy(s, a, f, g, d)
      PROVE  UNCHANGED <<Shared, Reach>>
    BY <1>1, <1>8, PlaceStutters DEF Copy
<1>9. ASSUME NEW s \in Sessions, NEW a, NEW p, Revoke(s, a, p)
      PROVE  UNCHANGED <<Shared, Reach>>
  <2>1. PICK x : x.pc = "save" /\ Begin(s, x)
      BY <1>9 DEF Revoke, Idle
  <2> QED BY <1>1, <1>9, <2>1, BeginStutters DEF Revoke
<1>10. ASSUME NEW s \in Sessions, NEW a, NEW p, NEW l, NEW e, Update(s, a, p, l, e)
       PROVE  UNCHANGED <<Shared, Reach>>
  <2>1. PICK x : x.pc = "save" /\ Begin(s, x)
      BY <1>10 DEF Update, Idle
  <2> QED BY <1>1, <1>10, <2>1, BeginStutters DEF Update
<1>11. ASSUME NEW s \in Sessions, NEW a, NEW u, NEW f, NEW e, Extend(s, a, u, f, e)
       PROVE  UNCHANGED <<Shared, Reach>>
  <2>1. PICK x : x.pc = "save" /\ Begin(s, x)
      BY <1>11 DEF Extend, Idle
  <2> QED BY <1>1, <1>11, <2>1, BeginStutters DEF Extend
<1>12. ASSUME NEW p \in PermIds, LapseOnCheck(p) PROVE FALSE
    BY <1>12 DEF LapseOnCheck, Alone
<1>13. CASE Tick
    BY <1>13, AbstractStutters DEF Tick
<1>14. CASE UNCHANGED vars
    BY <1>14, AbstractStutters DEF vars
<1> QED BY <1>2, <1>3, <1>4, <1>5, <1>6, <1>7, <1>8, <1>9, <1>10, <1>11, <1>12, <1>13, <1>14
    DEF Next

\* With one request at a time and no process dying, the transactions of a grant,
\* of a revocation and of a placement are together one step of FolderSharing:
\* nobody reaches a file through a folder that is not shared with them, and the
\* end of a share is the end of the reach, in one step.
THEOREM FolderSharingIsImplemented ==
    Alone /\ MaxCrashes = 0 => (Spec => ImplementsFolderSharing)
<1>1. ASSUME Alone, MaxCrashes = 0 PROVE Spec => ImplementsFolderSharing
  <2>1. Init => Promise!Init
    <3> SUFFICES ASSUME Init PROVE Shared = {} /\ Reach = {}
        BY DEF Promise!Init
    <3>1. \A p \in PermIds : ~Active(p)
        BY DEF Init, Active, Exists
    <3>2. Reach = {}
        BY <3>1 DEF Reach
    <3>3. \A u, d : ActiveRows(u, d) = {}
        BY <3>1, HasActive
    <3> QED BY <3>2, <3>3 DEF Shared, Ending
  <2>2. SerialInv /\ IInv' /\ [Next]_vars => [Promise!Next]_(Promise!vars)
      BY <1>1, StepMaps DEF Promise!vars
  <2>3. Spec => []SerialInv
      BY <1>1, SerialInvariantHolds
  <2>4. SerialInv => IInv
      BY DEF SerialInv
  <2> QED BY <2>1, <2>2, <2>3, <2>4, PTL DEF Spec, ImplementsFolderSharing, Promise!Spec
<1> QED BY <1>1
=============================================================================
