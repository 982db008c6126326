---------------------------- MODULE Permissions ----------------------------
(***************************************************************************)
(* The access-control rows of AXSHARE: backend/app/services/               *)
(* permission_service.py, with the file operations that apply a folder's   *)
(* rows to a file (upload, move, copy) and the expiry sweep of             *)
(* tasks/permission_tasks.py.                                              *)
(*                                                                         *)
(* A request runs in a session of its own and may commit several           *)
(* transactions.  An action is a run of reads, or one commit; other        *)
(* sessions step in between.  What a session has read it keeps as the      *)
(* changes its next commit writes: rows to insert (fresh) and, for a row   *)
(* loaded through the ORM, the columns whose value differs from the one    *)
(* loaded (dirty).  Columns left alone are not written, so a commit does   *)
(* not undo what another session stored in them.                           *)
(***************************************************************************)
EXTENDS Naturals, FiniteSets

CONSTANTS
    Users, Folders, Files,
    PermIds,          \* primary keys of the permissions table (bounds the rows)
    Sessions,         \* requests and tasks that can be in flight together
    FolderOwner,      \* owner of each folder
    FileOwner,        \* owner of each file
    Subtree,          \* the folders of each folder's tree, itself included
    Levels,           \* the levels in use, of 1 read, 2 write, 3 share, 4 admin
    MaxTime,          \* bound of the clock
    MaxRequests,      \* bound on the requests ever started
    MaxCrashes,       \* bound on the requests that die half way
    ExpiryDeactivates,\* whether expired rows get deactivated (the sweep, a check)
    NoRow,            \* an unused primary key
    None,             \* SQL NULL in a reference
    Unborn,           \* a file not uploaded yet
    Keep              \* a column the commit does not write

ASSUME OwnersAssumption ==
    /\ FolderOwner \in [Folders -> Users]
    /\ FileOwner \in [Files -> Users]
ASSUME TreeAssumption ==
    /\ Subtree \in [Folders -> SUBSET Folders]
    /\ \A d \in Folders : d \in Subtree[d]
ASSUME BoundsAssumption ==
    /\ Levels \subseteq 1..4
    /\ MaxTime \in Nat
    /\ MaxRequests \in Nat
    /\ MaxCrashes \in Nat
    /\ ExpiryDeactivates \in BOOLEAN
ASSUME DistinctAssumption ==
    /\ Files \cap Folders = {}
    /\ None \notin Folders \cup Files \cup Users
    /\ Unborn \notin Folders \cup {None}

VARIABLES
    perms,        \* the permissions table
    location,     \* files.folder_id (None is the root)
    now,          \* wall clock
    sess,         \* what each session is doing and is about to commit
    started,      \* requests started so far
    crashes,      \* sessions that died half way so far
    halfDone      \* history: some request ended before its last commit

vars == <<perms, location, now, sess, started, crashes, halfDone>>

Read == 1
Write == 2
Share == 3
Admin == 4

Never == 0
Expiry == 0..MaxTime

\* An inherited row names in "from" the folder it comes from.
Row == [subject : Users, on : Files \cup Folders, level : Levels, expires : Expiry,
        active : BOOLEAN, by : Users, from : Folders \cup {None}]

\* The columns an UPDATE sets.
Change == [level : Levels \cup {Keep}, expires : Expiry \cup {Keep},
           active : BOOLEAN \cup {Keep}, from : Folders \cup {Keep}]

Unchanged == [level |-> Keep, expires |-> Keep, active |-> Keep, from |-> Keep]
Clean == [p \in PermIds |-> Unchanged]

Phases == {"idle", "save", "spread", "apply", "cascade", "final", "sweep", "failed"}
Ops == {"none", "grant", "revoke", "place", "update", "sweep"}

Session == [pc : Phases, op : Ops, actor : Users \cup {None}, subject : Users \cup {None},
            folder : Folders \cup {None}, file : Files \cup {None},
            level : Levels \cup {Keep}, expires : Expiry,
            dirty : [PermIds -> Change], fresh : SUBSET Row]

Idle == [pc |-> "idle", op |-> "none", actor |-> None, subject |-> None, folder |-> None,
         file |-> None, level |-> Keep, expires |-> Never, dirty |-> Clean, fresh |-> {}]

ASSUME NullAssumption ==
    /\ NoRow \notin Row
    /\ Keep \notin BOOLEAN
    /\ Keep \notin Folders

TypeOK ==
    /\ perms \in [PermIds -> Row \cup {NoRow}]
    /\ location \in [Files -> Folders \cup {None, Unborn}]
    /\ now \in 0..MaxTime
    /\ sess \in [Sessions -> Session]
    /\ started \in 0..MaxRequests
    /\ crashes \in 0..MaxCrashes
    /\ halfDone \in BOOLEAN

Init ==
    /\ perms = [p \in PermIds |-> NoRow]
    /\ location = [f \in Files |-> Unborn]
    /\ now = 0
    /\ sess = [s \in Sessions |-> Idle]
    /\ started = 0
    /\ crashes = 0
    /\ halfDone = FALSE

-----------------------------------------------------------------------------
(* Queries *)

Owner(r) == IF r \in Files THEN FileOwner[r] ELSE FolderOwner[r]

Exists(p) == perms[p] # NoRow
Active(p) == Exists(p) /\ perms[p].active
Expired(row) == row.expires # Never /\ row.expires <= now

Rows(u, r) == {p \in PermIds : Exists(p) /\ perms[p].subject = u /\ perms[p].on = r}
ActiveRows(u, r) == {p \in Rows(u, r) : perms[p].active}
LiveRows(u, r) == {p \in ActiveRows(u, r) : ~Expired(perms[p])}

\* The rows get_permission_for_file may return: an inherited one if there is any.
Effective(u, f) ==
    LET inherited == {p \in LiveRows(u, f) : perms[p].from # None}
    IN IF inherited # {} THEN inherited ELSE LiveRows(u, f)

\* check_permission: LIMIT 1 without an order, so any live row may decide.
Allowed(u, r, level) ==
    \/ Owner(r) = u
    \/ \E p \in LiveRows(u, r) : perms[p].level >= level

FilesUnder(d) == {f \in Files : location[f] \in Subtree[d]}
\* Mutants: rows of the folders above count too; revoked rows count too.
FolderRowsOfAncestors(d) ==
    {p \in PermIds : Active(p) /\ perms[p].on \in Folders /\ d \in Subtree[perms[p].on]}
FolderRowsRevokedToo(d) == {p \in PermIds : Exists(p) /\ perms[p].on = d}
FolderRows(d) == {p \in PermIds : Active(p) /\ perms[p].on = d}

-----------------------------------------------------------------------------
(* Unit of work of a session *)

\* What the ORM writes for an attribute assigned the value new.
Assign(loaded, new) == IF new = loaded THEN Keep ELSE new
Column(stored, new) == IF new = Keep THEN stored ELSE new

Flush(row, change) ==
    [row EXCEPT !.level = Column(@, change.level),
                !.expires = Column(@, change.expires),
                !.active = Column(@, change.active),
                !.from = Column(@, change.from)]

Deactivate(p) == [Unchanged EXCEPT !.active = Assign(perms[p].active, FALSE)]

\* The ways to give each fresh row a primary key of its own.
Placements(fresh) ==
    {ins \in [PermIds -> fresh \cup {NoRow}] :
        /\ \A p \in PermIds : ins[p] # NoRow => ~Exists(p)
        /\ \A p, q \in PermIds : ins[p] = ins[q] /\ ins[p] # NoRow => p = q
        /\ \A row \in fresh : \E p \in PermIds : ins[p] = row}

NoInsert == [p \in PermIds |-> NoRow]

\* The table after a commit.
Stored(ins, dirty) ==
    [p \in PermIds |->
        IF ins[p] # NoRow THEN ins[p]
        ELSE IF Exists(p) THEN Flush(perms[p], dirty[p]) ELSE NoRow]

Ready(s) == sess[s].pc = "idle" /\ started < MaxRequests

Begin(s, record) ==
    /\ started' = started + 1
    /\ sess' = [sess EXCEPT ![s] = record]

Goto(s, pc, dirty, fresh) ==
    sess' = [sess EXCEPT ![s] = [@ EXCEPT !.pc = pc, !.dirty = dirty, !.fresh = fresh]]
-----------------------------------------------------------------------------
(* Granting *)

NewRow(u, r, level, expires, by, from) ==
    [subject |-> u, on |-> r, level |-> level, expires |-> expires,
     active |-> TRUE, by |-> by, from |-> from]

\* Mutant: a row found active is written active all the same.
GrantChangesAll(p, level, expires) ==
    [Clean EXCEPT ![p] = [Unchanged EXCEPT
        !.level = Assign(perms[p].level, level),
        !.expires = Assign(perms[p].expires, expires),
        !.active = TRUE]]

\* A row found by the grant is overwritten, otherwise one is inserted.
GrantChanges(p, level, expires) ==
    [Clean EXCEPT ![p] = [Unchanged EXCEPT
        !.level = Assign(perms[p].level, level),
        !.expires = Assign(perms[p].expires, expires),
        !.active = Assign(perms[p].active, TRUE)]]

\* grant_permission up to its first commit.  A file the subject reaches
\* through a folder is left as it is.  Owners are not granted their own files.
Grant(s, g, u, r, level, expires) ==
    /\ Ready(s)
    /\ r \in Files => location[r] # Unborn
    /\ u # Owner(r)
    /\ Allowed(g, r, Share)
    /\ r \in Files => \A p \in Effective(u, r) : perms[p].from = None
    /\ LET request == [Idle EXCEPT !.pc = "save", !.op = "grant", !.actor = g, !.subject = u,
                                   !.folder = IF r \in Folders THEN r ELSE None,
                                   !.level = level, !.expires = expires]
       IN \/ /\ LiveRows(u, r) = {}
             /\ Begin(s, [request EXCEPT !.fresh = {NewRow(u, r, level, expires, g, None)}])
          \/ \E p \in LiveRows(u, r) :
                Begin(s, [request EXCEPT !.dirty = GrantChanges(p, level, expires)])
    /\ UNCHANGED <<perms, location, now, crashes, halfDone>>

\* _propagate_folder_permission_to_files up to its commit: every file in the
\* tree, and the active row the subject has on it.  scalar_one_or_none raises
\* when there are two.
Spread(s) ==
    LET u == sess[s].subject
        d == sess[s].folder
        targets == FilesUnder(d)
        overwrite(p) ==
            [level |-> Assign(perms[p].level, sess[s].level),
             expires |-> Assign(perms[p].expires, sess[s].expires),
             active |-> Keep,
             from |-> Assign(perms[p].from, d)]
    IN /\ sess[s].pc = "spread"
       /\ \/ /\ \E f \in targets : Cardinality(ActiveRows(u, f)) > 1
             /\ Goto(s, "failed", Clean, {})
             /\ halfDone' = TRUE
          \/ /\ \A f \in targets : Cardinality(ActiveRows(u, f)) <= 1
             /\ Goto(s, "final",
                     [p \in PermIds |->
                        IF \E f \in targets : p \in ActiveRows(u, f)
                        THEN overwrite(p) ELSE Unchanged],
                     {NewRow(u, f, sess[s].level, sess[s].expires, sess[s].actor, d) :
                        f \in {g \in targets : ActiveRows(u, g) = {}}})
             /\ UNCHANGED halfDone
       /\ UNCHANGED <<perms, location, now, started, crashes>>

-----------------------------------------------------------------------------
(* Placing a file in a folder *)

\* Mutant: the folder's rows are not applied to the file.
PlaceWithoutApply(s, f, d) ==
    /\ location' = [location EXCEPT ![f] = d]
    /\ Begin(s, Idle)
    /\ UNCHANGED <<perms, now, crashes, halfDone>>

\* The commit that stores files.folder_id, after which the folder's rows are
\* applied in another transaction.
Place(s, f, d) ==
    /\ location' = [location EXCEPT ![f] = d]
    /\ Begin(s, IF d = None THEN Idle
                ELSE [Idle EXCEPT !.pc = "apply", !.op = "place", !.folder = d, !.file = f])
    /\ UNCHANGED <<perms, now, crashes, halfDone>>

\* The folder of an upload is not checked.
Upload(s, f, d) ==
    /\ Ready(s)
    /\ location[f] = Unborn
    /\ Place(s, f, d)

Destinations(a) == {None} \cup {d \in Folders : FolderOwner[d] = a}

Move(s, a, f, d) ==
    /\ Ready(s)
    /\ location[f] # Unborn
    /\ FileOwner[f] = a \/ \E p \in Effective(a, f) : perms[p].level >= Write
    /\ d \in Destinations(a)
    /\ Place(s, f, d)

\* The copy g belongs to the owner of the file copied.
Copy(s, a, f, g, d) ==
    /\ Ready(s)
    /\ location[f] # Unborn
    /\ location[g] = Unborn
    /\ FileOwner[g] = FileOwner[f]
    /\ FileOwner[f] = a \/ Effective(a, f) # {}
    /\ d \in Destinations(a)
    /\ Place(s, g, d)

\* apply_folder_permissions_to_file up to its commit: the rows of that folder
\* alone, expired or not; the row looked up on the file may be inactive.  Of two
\* rows of one subject the first inserts and the last read overwrites it.
Apply(s) ==
    LET f == sess[s].file
        d == sess[s].folder
        sharees == {perms[p].subject : p \in FolderRows(d)}
        of(u) == {p \in FolderRows(d) : perms[p].subject = u}
        choice == {c \in [sharees -> PermIds] : \A u \in sharees : c[u] \in of(u)}
        overwrite(p, q) ==
            [level |-> Assign(perms[p].level, perms[q].level),
             expires |-> Assign(perms[p].expires, perms[q].expires),
             active |-> Assign(perms[p].active, TRUE),
             from |-> Assign(perms[p].from, d)]
    IN /\ sess[s].pc = "apply"
       /\ \/ /\ \E u \in sharees : Cardinality(Rows(u, f)) > 1
             /\ Goto(s, "failed", Clean, {})
             /\ halfDone' = TRUE
          \/ /\ \A u \in sharees : Cardinality(Rows(u, f)) <= 1
             /\ \E first \in choice, last \in choice :
                    /\ \A u \in sharees : first[u] # last[u] \/ of(u) = {first[u]}
                    /\ Goto(s, "final",
                            [p \in PermIds |->
                                IF \E u \in sharees : p \in Rows(u, f)
                                THEN overwrite(p, last[perms[p].subject]) ELSE Unchanged],
                            {NewRow(u, f, perms[last[u]].level, perms[last[u]].expires,
                                    perms[first[u]].by, d) :
                                u \in {v \in sharees : Rows(v, f) = {}}})
             /\ UNCHANGED halfDone
       /\ UNCHANGED <<perms, location, now, started, crashes>>

-----------------------------------------------------------------------------
(* Revoking and updating *)

Revoke(s, a, p) ==
    /\ Ready(s)
    /\ Exists(p)
    /\ perms[p].by = a \/ Allowed(a, perms[p].on, Admin)
    /\ Begin(s, [Idle EXCEPT !.pc = "save", !.op = "revoke", !.subject = perms[p].subject,
                             !.folder = IF perms[p].on \in Folders THEN perms[p].on ELSE None,
                             !.dirty = [Clean EXCEPT ![p] = Deactivate(p)]])
    /\ UNCHANGED <<perms, location, now, crashes, halfDone>>

\* The second transaction of a folder's revocation.
Cascade(s) ==
    /\ sess[s].pc = "cascade"
    /\ Goto(s, "final",
            [p \in PermIds |->
                IF /\ Exists(p)
                   /\ perms[p].from = sess[s].folder
                   /\ perms[p].subject = sess[s].subject
                THEN Deactivate(p) ELSE Unchanged],
            {})
    /\ UNCHANGED <<perms, location, now, started, crashes, halfDone>>

\* update_permission: the owner changes a row, and with an inherited row the
\* ones its subject inherits from the same folder.  Keep is a field left out.
Update(s, a, p, level, expires) ==
    /\ Ready(s)
    /\ Exists(p)
    /\ Owner(perms[p].on) = a
    /\ LET siblings == {q \in PermIds :
                /\ Exists(q)
                /\ perms[p].from # None
                /\ perms[q].from = perms[p].from
                /\ perms[q].subject = perms[p].subject}
           patch(q) == [Unchanged EXCEPT !.level = Assign(perms[q].level, level),
                                         !.expires = Assign(perms[q].expires, expires)]
       IN Begin(s, [Idle EXCEPT !.pc = "save", !.op = "update",
                                !.dirty = [q \in PermIds |->
                                    IF q \in siblings \cup {p} THEN patch(q) ELSE Unchanged]])
    /\ UNCHANGED <<perms, location, now, crashes, halfDone>>

\* extend_permission: a new expiry for one row the subject has on the file.
Extend(s, a, u, f, expires) ==
    /\ Ready(s)
    /\ FileOwner[f] = a
    /\ \E p \in LiveRows(u, f) :
        Begin(s, [Idle EXCEPT !.pc = "save", !.op = "update",
                              !.dirty = [Clean EXCEPT ![p] =
                                [Unchanged EXCEPT !.expires = Assign(perms[p].expires, expires)]]])
    /\ UNCHANGED <<perms, location, now, crashes, halfDone>>

-----------------------------------------------------------------------------
(* Commits, expiry, failures *)

\* Mutants: a grant stops at the folder's own row; a revocation does.
RestWithoutSpread(s) ==
    IF sess[s].op = "revoke" /\ sess[s].folder # None THEN "cascade" ELSE "idle"
RestWithoutCascade(s) ==
    IF sess[s].op = "grant" /\ sess[s].folder # None THEN "spread" ELSE "idle"

\* The phase after the commit of the first transaction.
Rest(s) ==
    CASE sess[s].op = "grant" /\ sess[s].folder # None -> "spread"
      [] sess[s].op = "revoke" /\ sess[s].folder # None -> "cascade"
      [] OTHER -> "idle"

Commit(s) ==
    /\ sess[s].pc \in {"save", "final"}
    /\ \E ins \in Placements(sess[s].fresh) : perms' = Stored(ins, sess[s].dirty)
    /\ IF sess[s].pc = "save" /\ Rest(s) # "idle"
       THEN Goto(s, Rest(s), Clean, {})
       ELSE sess' = [sess EXCEPT ![s] = Idle]
    /\ UNCHANGED <<location, now, started, crashes, halfDone>>

\* tasks.expire_permissions reads the expired rows once ...
Sweep(s) ==
    LET expired == {p \in PermIds : Active(p) /\ Expired(perms[p])}
    IN /\ ExpiryDeactivates
       /\ Ready(s)
       /\ expired # {}
       /\ Begin(s, [Idle EXCEPT !.pc = "sweep", !.op = "sweep",
                                !.dirty = [p \in PermIds |->
                                    IF p \in expired THEN Deactivate(p) ELSE Unchanged]])
       /\ UNCHANGED <<perms, location, now, crashes, halfDone>>

\* ... and writes them one at a time: creating the notification for the next
\* row commits the last one.
SweepOne(s) ==
    /\ sess[s].pc = "sweep"
    /\ \E p \in PermIds :
        LET left == [sess[s].dirty EXCEPT ![p] = Unchanged]
        IN /\ sess[s].dirty[p] # Unchanged
           /\ perms' = Stored(NoInsert, [Clean EXCEPT ![p] = sess[s].dirty[p]])
           /\ IF left = Clean THEN sess' = [sess EXCEPT ![s] = Idle]
                              ELSE Goto(s, "sweep", left, {})
    /\ UNCHANGED <<location, now, started, crashes, halfDone>>

\* check_permission reads the clock twice; a row that expires between the two
\* is deactivated on the spot.
LapseOnCheck(p) ==
    /\ ExpiryDeactivates
    /\ Active(p)
    /\ perms[p].expires = now
    /\ now # Never
    /\ perms' = [perms EXCEPT ![p].active = FALSE]
    /\ UNCHANGED <<location, now, sess, started, crashes, halfDone>>

Tick ==
    /\ now < MaxTime
    /\ now' = now + 1
    /\ UNCHANGED <<perms, location, sess, started, crashes, halfDone>>

\* The 500 of a request that failed after its first commit.
Reply(s) ==
    /\ sess[s].pc = "failed"
    /\ sess' = [sess EXCEPT ![s] = Idle]
    /\ UNCHANGED <<perms, location, now, started, crashes, halfDone>>

\* The process serving the session dies; what it had not committed is lost.
Crash(s) ==
    /\ sess[s].pc \notin {"idle", "failed"}
    /\ crashes < MaxCrashes
    /\ crashes' = crashes + 1
    /\ halfDone' = TRUE
    /\ sess' = [sess EXCEPT ![s] = Idle]
    /\ UNCHANGED <<perms, location, now, started>>

\* The steps of a request that has started.
Continue(s) == Spread(s) \/ Apply(s) \/ Cascade(s) \/ Commit(s) \/ SweepOne(s) \/ Reply(s)

Next ==
    \/ \E s \in Sessions :
        \/ Continue(s)
        \/ Sweep(s)
        \/ Crash(s)
        \/ \E g, u \in Users, r \in Files \cup Folders, l \in Levels, e \in Expiry :
            Grant(s, g, u, r, l, e)
        \/ \E f \in Files, d \in Folders \cup {None} : Upload(s, f, d)
        \/ \E a \in Users, f \in Files, d \in Folders \cup {None} : Move(s, a, f, d)
        \/ \E a \in Users, f, g \in Files, d \in Folders \cup {None} : Copy(s, a, f, g, d)
        \/ \E a \in Users, p \in PermIds : Revoke(s, a, p)
        \/ \E a \in Users, p \in PermIds, l \in (Levels \cap {Read, Write}) \cup {Keep},
              e \in (Expiry \ {Never}) \cup {Keep} : Update(s, a, p, l, e)
        \/ \E a, u \in Users, f \in Files, e \in Expiry \ {Never} : Extend(s, a, u, f, e)
    \/ \E p \in PermIds : LapseOnCheck(p)
    \/ Tick

Spec == Init /\ [][Next]_vars

\* A request that has started is run to its end.
FairSpec == Spec /\ \A s \in Sessions : WF_vars(Continue(s))
-----------------------------------------------------------------------------
(* Properties *)

Quiet == \A s \in Sessions : sess[s].pc = "idle"

\* Every inherited row (one apply or propagate wrote) sits on a file, and its
\* subject holds, or once held, a row on the folder it names: access through a
\* folder is never made up out of rows of somebody else.
InheritedHasOrigin ==
    \A p \in PermIds : Exists(p) /\ perms[p].from # None =>
        /\ perms[p].on \in Files
        /\ Rows(perms[p].subject, perms[p].from) # {}

\* A grant on a folder and the upload (move, copy) of a file into it may run
\* side by side: one of them sees the other.  Once every request is answered,
\* unless one of them ended before its last commit, each file of a shared
\* folder has a row for each subject the folder is shared with.
NoMissedShare ==
    Quiet /\ ~halfDone =>
        \A q \in PermIds : Active(q) /\ perms[q].on \in Folders =>
            \A f \in Files : location[f] = perms[q].on => Rows(perms[q].subject, f) # {}

\* A deactivated row comes back to life only when its file is placed in a
\* folder, and then as an inherited row: no grant, update or sweep that had read
\* the row before its revocation undoes it.
NoResurrection ==
    [][\A p \in PermIds :
        Exists(p) /\ ~perms[p].active /\ perms'[p].active =>
            /\ perms'[p].from # None
            /\ \E s \in Sessions : sess[s].op = "place" /\ sess[s].file = perms[p].on]_vars

\* "Cascade: revoca (disattiva) tutti i permessi ereditati sui file figli"
\* (permission_service.py:330): between requests, no active row on a file is
\* inherited from a folder that its subject has no active row on.
RevocationReachesFiles ==
    Quiet /\ ~halfDone =>
        \A p \in PermIds : Active(p) /\ perms[p].from # None =>
            ActiveRows(perms[p].subject, perms[p].from) # {}

\* The abstract state: a share being revoked counts until its second commit, as
\* long as a file is still reached through it.
Reach == {<<perms[p].subject, perms[p].on, perms[p].from>> :
            p \in {q \in PermIds : Active(q) /\ perms[q].from # None}}
Ending(u, d) ==
    /\ \E s \in Sessions :
        /\ sess[s].op = "revoke"
        /\ sess[s].pc \in {"cascade", "final"}
        /\ sess[s].subject = u
        /\ sess[s].folder = d
    /\ \E f \in Files : <<u, f, d>> \in Reach
Shared == {pair \in Users \X Folders :
            ActiveRows(pair[1], pair[2]) # {} \/ Ending(pair[1], pair[2])}

Promise == INSTANCE FolderSharing WITH shared <- Shared, reach <- Reach

\* One request at a time, the two transactions of a grant, of a revocation and
\* of a placement are together one step of FolderSharing.
ImplementsFolderSharing == Promise!Spec

\* A folder revocation that has been accepted ends with its subject cut off
\* from every file reached through the folder.
RevocationCompletes ==
    \A u \in Users, d \in Folders :
        (\E s \in Sessions : sess[s].op = "revoke" /\ sess[s].subject = u /\ sess[s].folder = d)
            ~> (\A p \in PermIds : Active(p) /\ perms[p].subject = u => perms[p].from # d)

-----------------------------------------------------------------------------
(* An inductive invariant.  It says what a session carries from one of its    *)
(* transactions to the next; Permissions_proofs proves it.                    *)

\* Which phase goes with which request, and what the request then names.
WellShaped(x) ==
    /\ x.op = "grant" => x.actor \in Users /\ x.subject \in Users /\ x.level \in Levels
    /\ x.pc = "spread" => x.op = "grant" /\ x.folder \in Folders
    /\ x.pc = "apply" => x.op = "place" /\ x.folder \in Folders /\ x.file \in Files
    /\ x.pc = "cascade" => x.op = "revoke"
    /\ x.pc = "sweep" => x.op = "sweep"

\* A row to insert on a folder is the grant's own, and is in its first commit.
FreshOK(x) ==
    \A row \in x.fresh :
        \/ /\ row.on \in Files
           /\ row.from # None => Rows(row.subject, row.from) # {}
        \/ /\ row.on \in Folders
           /\ row.from = None
           /\ x.pc = "save"
           /\ x.op = "grant"
           /\ row.on = x.folder
           /\ row.subject = x.subject

\* "active" is set by a placement only, and on a row of its file; "from" to a
\* folder the row's subject has a row on.
DirtyOK(x) ==
    \A p \in PermIds :
        /\ x.dirty[p].active = TRUE =>
            /\ Exists(p)
            /\ x.op = "place"
            /\ x.file = perms[p].on
            /\ perms[p].on \in Files
            /\ x.dirty[p].from # Keep \/ perms[p].from # None
        /\ x.dirty[p].from # Keep =>
            /\ Exists(p)
            /\ perms[p].on \in Files
            /\ Rows(perms[p].subject, x.dirty[p].from) # {}

\* The row a grant spreads is stored by the time it is spread.
SpreadOK(x) ==
    x.op = "grant" /\ x.folder # None =>
        \/ Rows(x.subject, x.folder) # {}
        \/ x.pc = "save" /\ \E row \in x.fresh : row.subject = x.subject /\ row.on = x.folder

Carried(x) == WellShaped(x) /\ FreshOK(x) /\ DirtyOK(x) /\ SpreadOK(x)
SessionsCarry == \A s \in Sessions : Carried(sess[s])

\* Session s is on its way to giving u a row on the file f of folder d.
WillReach(s, u, d, f) ==
    \/ sess[s].pc = "spread" /\ sess[s].subject = u /\ sess[s].folder = d
    \/ sess[s].pc = "apply" /\ sess[s].file = f /\ sess[s].folder = d
    \/ sess[s].pc = "final" /\ \E row \in sess[s].fresh : row.subject = u /\ row.on = f

MissingIsPending ==
    ~halfDone =>
        \A q \in PermIds, f \in Files :
            /\ Active(q)
            /\ perms[q].on \in Folders
            /\ location[f] = perms[q].on
            /\ Rows(perms[q].subject, f) = {}
            => \E s \in Sessions : WillReach(s, perms[q].subject, perms[q].on, f)

IInv == TypeOK /\ SessionsCarry /\ InheritedHasOrigin /\ MissingIsPending
=============================================================================
