---------------------------- MODULE FileVersions ----------------------------
(***************************************************************************)
(* One file of AXSHARE: its row in "files", its rows in "file_versions" and *)
(* the blobs of both in the object store (the version, download and        *)
(* destruction endpoints of api/v1/endpoints/files.py, with services/      *)
(* destruct_service.py and services/storage.py).                           *)
(*                                                                         *)
(* The client encrypts every upload with a key of its own.  An upload is a *)
(* number; it names both the blob and the key (with its nonce) that opens  *)
(* it, so a row is readable when the blob at its path is the upload of its *)
(* key.  A request reads the file row, calls the object store, and commits;*)
(* other requests step in between.  A commit writes the columns that differ*)
(* from the row the request had read.  A transaction that has inserted a   *)
(* version holds a share lock on the file row (its foreign key), and an    *)
(* update of files.storage_path, which is unique, waits for such locks.    *)
(***************************************************************************)
EXTENDS Naturals

CONSTANTS
    Users,          \* the owner and those who may write the file
    owner,
    Sessions,       \* requests in flight together
    RowIds,         \* primary keys of file_versions (bounds the rows)
    Limits,         \* values of self_destruct_after_downloads, None for no limit
    Ops,            \* the operations requested
    MaxUploads,     \* bound on the uploads of new versions
    MaxRequests,    \* bound on the requests ever started
    MaxFaults,      \* bound on the object store's failures and the crashes
    NoRow, Deleted, None,
    Noise,          \* the random data written over a blob before its deletion
    Gone,           \* the path of a destroyed file
    NoKey           \* the empty key of a destroyed file

ASSUME OwnerAssumption == owner \in Users
AllOps == {"upload", "restore", "delete", "download", "downloadVersion", "configure", "destroy"}

ASSUME OpsAssumption == Ops \subseteq AllOps
ASSUME BoundsAssumption == {MaxUploads, MaxRequests, MaxFaults} \subseteq Nat
ASSUME LimitsAssumption == Limits \subseteq (Nat \ {0}) \cup {None}
ASSUME DistinctAssumption ==
    /\ NoKey \notin Nat
    /\ {None, Noise} \cap Nat = {}
    /\ Gone \notin Users \X Nat

VARIABLES
    file,       \* the file's row
    history,    \* the rows of its versions
    blobs,      \* the object store: a path and the upload stored there
    sess,       \* what each request has read and is about to do
    uploads,    \* uploads so far; upload 0 created the file
    requests,   \* requests so far
    faults,     \* failures so far
    served,     \* history: downloads of the file answered
    stored      \* history: every <<path, upload>> the object store has held

vars == <<file, history, blobs, sess, uploads, requests, faults, served, stored>>

\* The path of an upload names its user and version; the first has no suffix.
Path == (Users \X Nat) \cup {Gone}
Key == Nat \cup {NoKey}

File == [version : Nat, path : Path, key : Key, downloads : Nat,
         limit : Nat \cup {None}, destroyed : BOOLEAN]
Version == [number : Nat, path : Path, key : Key]

ASSUME RowsAssumption == NoRow # Deleted /\ {NoRow, Deleted} \cap Version = {}

Phases == {"idle", "select", "archive", "put", "save", "configure", "fetch", "count",
           "reply", "scrub", "remove", "unlink", "mark"}

Original == [version |-> 1, path |-> <<owner, 0>>, key |-> 0, downloads |-> 0,
             limit |-> None, destroyed |-> FALSE]

\* seen is the file row a request has read (with the path and the key of the
\* version it serves), next the row it will commit; row, the version it deletes;
\* data, the upload fetched.
Session == [pc : Phases, op : AllOps \cup {None}, seen : File, next : File,
            row : RowIds \cup {None}, data : Nat \cup {Noise, None}]

Idle == [pc |-> "idle", op |-> None, seen |-> Original, next |-> Original,
         row |-> None, data |-> None]

TypeOK ==
    /\ file \in File
    /\ history \in [RowIds -> Version \cup {NoRow, Deleted}]
    /\ DOMAIN blobs \subseteq Path
    /\ \A p \in DOMAIN blobs : blobs[p] \in Nat \cup {Noise}
    /\ sess \in [Sessions -> Session]
    /\ uploads \in 0..MaxUploads
    /\ requests \in 0..MaxRequests
    /\ faults \in 0..MaxFaults
    /\ served \in Nat
    /\ stored \subseteq (Users \X Nat) \X Nat

Init ==
    /\ \E limit \in Limits : file = [Original EXCEPT !.limit = limit]
    /\ history = [i \in RowIds |-> NoRow]
    /\ blobs = [p \in {Original.path} |-> 0]
    /\ sess = [s \in Sessions |-> Idle]
    /\ uploads = 0
    /\ requests = 0
    /\ faults = 0
    /\ served = 0
    /\ stored = {<<Original.path, 0>>}

-----------------------------------------------------------------------------
Exists(i) == history[i] \notin {NoRow, Deleted}
Numbered(n) == {i \in RowIds : Exists(i) /\ history[i].number = n}
Numbers == 1..(MaxUploads + 1)

\* A column the request has not changed is not written.
Column(now, seen, next) == IF next = seen THEN now ELSE next

Flush(now, seen, next) ==
    [version |-> Column(now.version, seen.version, next.version),
     path |-> Column(now.path, seen.path, next.path),
     key |-> Column(now.key, seen.key, next.key),
     downloads |-> Column(now.downloads, seen.downloads, next.downloads),
     limit |-> Column(now.limit, seen.limit, next.limit),
     destroyed |-> Column(now.destroyed, seen.destroyed, next.destroyed)]

-----------------------------------------------------------------------------
(* Pieces of the operations *)

\* Mutant: the version is not incremented.
NextNumberSame(f) == f.version
NextNumber(f) == f.version + 1
NewPath(u, number) == <<u, number>>

\* A file row that points at the content of a version.
AtCurrent(f, version) == f   \* mutant: the current content is taken for the version's
At(f, version) == [f EXCEPT !.path = version.path, !.key = version.key]

LimitReachedLate(f) == f.limit # None /\ f.downloads > f.limit   \* mutant: one too many
LimitReached(f) == f.limit # None /\ f.downloads >= f.limit

Destroyed(f) == [f EXCEPT !.destroyed = TRUE, !.key = NoKey, !.path = Gone]

\* The sessions whose insert of a version keeps the file's path from changing.
ShareLocked(s) == \E t \in Sessions \ {s} : sess[t].pc \in {"put", "save"}

ChangesPath(s) == sess[s].next.path # sess[s].seen.path

Holding(path, data) == [p \in DOMAIN blobs \cup {path} |-> IF p = path THEN data ELSE blobs[p]]
Without(path) == [p \in DOMAIN blobs \ {path} |-> blobs[p]]

\* A request that has read the file row.
Start(s, op, pc) ==
    /\ op \in Ops
    /\ sess[s].pc = "idle"
    /\ requests < MaxRequests
    /\ requests' = requests + 1
    /\ sess' = [sess EXCEPT ![s] = [Idle EXCEPT !.pc = pc, !.op = op, !.seen = file, !.next = file]]
    /\ UNCHANGED <<file, history, blobs, uploads, faults, served, stored>>

Finish(s) == sess' = [sess EXCEPT ![s] = Idle]
Goto(s, pc) == sess' = [sess EXCEPT ![s].pc = pc]

-----------------------------------------------------------------------------
(* New versions *)

\* upload_new_version, once the row is read and the new content received.
Upload(s, u) ==
    /\ "upload" \in Ops
    /\ sess[s].pc = "idle"
    /\ ~file.destroyed
    /\ requests < MaxRequests
    /\ uploads < MaxUploads
    /\ requests' = requests + 1
    /\ uploads' = uploads + 1
    /\ LET number == NextNumber(file)
       IN sess' = [sess EXCEPT ![s] =
            [Idle EXCEPT !.pc = "archive", !.op = "upload", !.seen = file,
                         !.next = [file EXCEPT !.version = number, !.path = NewPath(u, number),
                                               !.key = uploads + 1]]]
    /\ UNCHANGED <<file, history, blobs, faults, served, stored>>

\* restore_version, its file row read.
Restore(s) == ~file.destroyed /\ Start(s, "restore", "select")

\* The version asked for is looked up by its number, in a statement of its own.
\* The lookup accepts one row; none, or several, end the request.
Select(s) ==
    /\ sess[s].pc = "select"
    /\ \/ \E n \in Numbers, i \in RowIds :
            LET op == sess[s].op
                version == At(sess[s].seen, history[i])
            IN /\ Numbered(n) = {i}
               /\ n = sess[s].seen.version => op = "restore"
               /\ \/ /\ op = "restore"
                     /\ sess' = [sess EXCEPT ![s].pc = "archive", ![s].next = version]
                  \/ /\ op = "delete"
                     /\ sess' = [sess EXCEPT ![s].pc = "scrub", ![s].seen = version, ![s].row = i]
                  \/ /\ op = "downloadVersion"
                     /\ sess' = [sess EXCEPT ![s].pc = "fetch", ![s].seen = version]
       \/ Finish(s)
    /\ UNCHANGED <<file, history, blobs, uploads, requests, faults, served, stored>>

\* The row as it was read is inserted as a version, and flushed.  The insert
\* shows to others when it commits; the lock it takes holds from here.
Archive(s) ==
    /\ sess[s].pc = "archive"
    /\ Goto(s, IF sess[s].op = "upload" THEN "put" ELSE "save")
    /\ UNCHANGED <<file, history, blobs, uploads, requests, faults, served, stored>>

\* The blob is stored before the transaction commits.
Put(s) ==
    LET new == sess[s].next
    IN /\ sess[s].pc = "put"
       /\ blobs' = Holding(new.path, new.key)
       /\ stored' = stored \cup {<<new.path, new.key>>}
       /\ Goto(s, "save")
       /\ UNCHANGED <<file, history, uploads, requests, faults, served>>

\* Mutants of Save: the new key goes to the old version; the whole row is written.
SaveNewKey(s) ==
    /\ sess[s].pc = "save"
    /\ ChangesPath(s) => ~ShareLocked(s)
    /\ \E i \in RowIds :
        /\ history[i] = NoRow
        /\ history' = [history EXCEPT ![i] = [number |-> sess[s].seen.version,
                                              path |-> sess[s].seen.path, key |-> sess[s].next.key]]
    /\ file' = Flush(file, sess[s].seen, sess[s].next)
    /\ Finish(s)
    /\ UNCHANGED <<blobs, uploads, requests, faults, served, stored>>
SaveWholeRow(s) ==
    /\ sess[s].pc = "save"
    /\ ChangesPath(s) => ~ShareLocked(s)
    /\ \E i \in RowIds :
        /\ history[i] = NoRow
        /\ history' = [history EXCEPT ![i] = [number |-> sess[s].seen.version,
                                              path |-> sess[s].seen.path, key |-> sess[s].seen.key]]
    /\ file' = sess[s].next
    /\ Finish(s)
    /\ UNCHANGED <<blobs, uploads, requests, faults, served, stored>>

\* The commit of both operations.  A restored file keeps its version number.
Save(s) ==
    LET seen == sess[s].seen
        next == sess[s].next
    IN /\ sess[s].pc = "save"
       /\ ChangesPath(s) => ~ShareLocked(s)
       /\ \E i \in RowIds :
            /\ history[i] = NoRow
            /\ history' = [history EXCEPT ![i] =
                            [number |-> seen.version, path |-> seen.path, key |-> seen.key]]
       /\ file' = Flush(file, seen, next)
       /\ Finish(s)
       /\ UNCHANGED <<blobs, uploads, requests, faults, served, stored>>

\* Two commits that wait for each other's lock: the database aborts one.
Deadlock(s) ==
    /\ sess[s].pc = "save"
    /\ ChangesPath(s)
    /\ \E t \in Sessions \ {s} : sess[t].pc = "save" /\ ChangesPath(t)
    /\ Finish(s)
    /\ UNCHANGED <<file, history, blobs, uploads, requests, faults, served, stored>>

-----------------------------------------------------------------------------
(* Downloads *)

Download(s) == ~file.destroyed /\ Start(s, "download", "fetch")

\* The number of the current version is answered from the file row.
DownloadVersion(s) ==
    /\ ~file.destroyed
    /\ \E pc \in {"fetch", "select"} : Start(s, "downloadVersion", pc)

Fetch(s) ==
    /\ sess[s].pc = "fetch"
    /\ IF sess[s].seen.path \in DOMAIN blobs
       THEN sess' = [sess EXCEPT ![s].data = blobs[sess[s].seen.path],
                                 ![s].pc = IF sess[s].op = "download" THEN "count" ELSE "reply"]
       ELSE Finish(s)
    /\ UNCHANGED <<file, history, blobs, uploads, requests, faults, served, stored>>

\* The counter is written as it was read, plus one; check_and_destroy_on_download
\* looks at the row the session holds, and destroys the file at its limit.
Count(s) ==
    LET counted == [sess[s].seen EXCEPT !.downloads = @ + 1]
    IN /\ sess[s].pc = "count"
       /\ file' = Flush(file, sess[s].seen, counted)
       /\ sess' = [sess EXCEPT ![s].seen = counted,
                    ![s].pc = IF LimitReached(counted) THEN "scrub" ELSE "reply"]
       /\ UNCHANGED <<history, blobs, uploads, requests, faults, served, stored>>

\* The answer carries the data and the nonce of the row the session holds; a
\* destruction in the same session has emptied that nonce.
Reply(s) ==
    /\ sess[s].pc = "reply"
    /\ served' = IF sess[s].op = "download" THEN served + 1 ELSE served
    /\ Finish(s)
    /\ UNCHANGED <<file, history, blobs, uploads, requests, faults, stored>>

\* set_self_destruct, read and then committed.
SetLimit(s, limit) ==
    /\ ~file.destroyed
    /\ limit # None
    /\ "configure" \in Ops
    /\ sess[s].pc = "idle"
    /\ requests < MaxRequests
    /\ requests' = requests + 1
    /\ sess' = [sess EXCEPT ![s] = [Idle EXCEPT !.pc = "configure", !.op = "configure",
                                        !.seen = file, !.next = [file EXCEPT !.limit = limit]]]
    /\ UNCHANGED <<file, history, blobs, uploads, faults, served, stored>>

Configure(s) ==
    /\ sess[s].pc = "configure"
    /\ file' = Flush(file, sess[s].seen, sess[s].next)
    /\ Finish(s)
    /\ UNCHANGED <<history, blobs, uploads, requests, faults, served, stored>>

-----------------------------------------------------------------------------
(* Deleting a version, destroying the file *)

DeleteVersion(s) == Start(s, "delete", "select")

\* destroy_file, called by the owner, by empty_trash or by the scheduled task.
Destroy(s) == ~file.destroyed /\ Start(s, "destroy", "scrub")

\* delete_file_secure writes noise over the blob, then removes it.
Scrub(s) ==
    /\ sess[s].pc = "scrub"
    /\ blobs' = Holding(sess[s].seen.path, Noise)
    /\ Goto(s, "remove")
    /\ UNCHANGED <<file, history, uploads, requests, faults, served, stored>>

AfterRemoval(s) == Goto(s, IF sess[s].op = "delete" THEN "unlink" ELSE "mark")

Remove(s) ==
    /\ sess[s].pc = "remove"
    /\ blobs' = Without(sess[s].seen.path)
    /\ AfterRemoval(s)
    /\ UNCHANGED <<file, history, uploads, requests, faults, served, stored>>

\* The object store fails: the noise is written at best effort, and a destruction
\* does without the removal.  Any other failure ends the request (Crash).
StoreFails(s) ==
    /\ \/ sess[s].pc = "scrub" /\ Goto(s, "remove")
       \/ sess[s].pc = "remove" /\ sess[s].op # "delete" /\ AfterRemoval(s)
    /\ faults < MaxFaults
    /\ faults' = faults + 1
    /\ UNCHANGED <<file, history, blobs, uploads, requests, served, stored>>

Unlink(s) ==
    /\ sess[s].pc = "unlink"
    /\ history' = [history EXCEPT ![sess[s].row] = Deleted]
    /\ Finish(s)
    /\ UNCHANGED <<file, blobs, uploads, requests, faults, served, stored>>

Mark(s) ==
    LET seen == sess[s].seen
        next == Destroyed(seen)
    IN /\ sess[s].pc = "mark"
       /\ ~ShareLocked(s)
       /\ file' = Flush(file, seen, next)
       /\ IF sess[s].op = "download"
          THEN sess' = [sess EXCEPT ![s].seen = next, ![s].pc = "reply"]
          ELSE Finish(s)
       /\ UNCHANGED <<history, blobs, uploads, requests, faults, served, stored>>

-----------------------------------------------------------------------------
\* The process dies, or a call fails and the transaction is rolled back.
Crash(s) ==
    /\ sess[s].pc # "idle"
    /\ faults < MaxFaults
    /\ faults' = faults + 1
    /\ Finish(s)
    /\ UNCHANGED <<file, history, blobs, uploads, requests, served, stored>>

Request(s) ==
    \/ \E u \in Users : Upload(s, u)
    \/ \E limit \in Limits : SetLimit(s, limit)
    \/ Restore(s) \/ Download(s) \/ DownloadVersion(s) \/ DeleteVersion(s) \/ Destroy(s)

Continue(s) ==
    \/ Select(s) \/ Archive(s) \/ Put(s) \/ Save(s) \/ Deadlock(s)
    \/ Fetch(s) \/ Count(s) \/ Reply(s) \/ Configure(s)
    \/ Scrub(s) \/ Remove(s) \/ StoreFails(s) \/ Unlink(s) \/ Mark(s)

Next == \E s \in Sessions : Request(s) \/ Continue(s) \/ Crash(s)

Spec == Init /\ [][Next]_vars
-----------------------------------------------------------------------------
(* Properties *)

\* Between requests: what a caller finds when nothing is in flight.
Quiet == \A s \in Sessions : sess[s].pc = "idle"

\* The blob at path is the content the key opens.
Opens(path, key) == path \in DOMAIN blobs /\ blobs[path] = key

HistoryWhole == \A i \in RowIds : Exists(i) => <<history[i].path, history[i].key>> \in stored

\* Each row's path and key belong to one upload, though two sessions may write
\* them at the same time: no file or version row pairs the path of one upload
\* with the key of another (upload_new_version, destroy_file; a restoration,
\* which may change the key alone, breaks it).
RowsAreWhole ==
    /\ <<file.path, file.key>> \in stored \cup {<<Gone, NoKey>>}
    /\ HistoryWhole

\* What makes it hold while nothing is restored: a row's path carries at most
\* the row's version number, so the next number makes a path that differs from
\* the one read, as the next upload makes a key that differs; both columns of a
\* commit are then written, or neither.
StoredBounded == \A pair \in stored : pair[2] <= uploads

FileSound ==
    /\ \/ <<file.path, file.key>> \in stored
       \/ file.destroyed /\ file.path = Gone /\ file.key = NoKey
    /\ file.path = Gone \/ file.path[2] <= file.version

Whole(f) ==
    /\ ~f.destroyed
    /\ <<f.path, f.key>> \in stored
    /\ f.path \in Users \X Nat
    /\ f.path[2] <= f.version

SessionSound(s) ==
    LET pc == sess[s].pc
        op == sess[s].op
        seen == sess[s].seen
        next == sess[s].next
    IN /\ pc \in {"archive", "put", "save"} =>
            /\ op = "upload"
            /\ Whole(seen)
            /\ next.path \in Users \X Nat
            /\ next.path[2] = next.version
            /\ next.version = seen.version + 1
            /\ next.key \in (seen.key + 1)..uploads
            /\ ~next.destroyed
       /\ pc = "save" => <<next.path, next.key>> \in stored
       /\ pc = "select" => op \in {"delete", "downloadVersion"}
       /\ pc \in {"fetch", "count"} => op \in {"download", "downloadVersion"}
       /\ pc = "fetch" /\ op = "download" => Whole(seen)
       /\ pc = "count" => op = "download" /\ Whole(seen)
       /\ pc \in {"scrub", "remove"} /\ op # "delete" => Whole(seen)
       /\ pc = "mark" => Whole(seen)
       /\ pc = "configure" => next = [seen EXCEPT !.limit = next.limit]

IInv ==
    /\ TypeOK
    /\ StoredBounded
    /\ FileSound
    /\ HistoryWhole
    /\ \A s \in Sessions : SessionSound(s)

\* A session that read the file before its destruction, and commits after,
\* does not bring it back (is_destroyed, files.py and destruct_service.py).
DestructionIsFinal == [][file.destroyed => file'.destroyed]_vars

\* After a restoration the file and a version share one blob, and the file keeps
\* its number: that number stays in use twice, and its rows can not be deleted.
Restored ==
    \/ \E i \in RowIds : Exists(i) /\ history[i].number = file.version
    \/ \E i, j \in RowIds :
        i # j /\ Exists(i) /\ Exists(j) /\ history[i].number = history[j].number

\* The one order in which a content is lost: a version is restored and deleted.
BlobShared == Restored /\ \E i \in RowIds : history[i] = Deleted

\* The key of a file that is not destroyed opens the blob at its path, unless a
\* version was deleted beside a restoration (upload_new_version, restore_version,
\* delete_version).
CurrentReadable == Quiet /\ ~file.destroyed /\ ~BlobShared => Opens(file.path, file.key)

\* The same of every version that has not been deleted (delete_version removes
\* the blob and the row together), as long as the file is not destroyed after a
\* restoration: the destruction takes the blob of the restored version with it.
VersionsReadable ==
    Quiet /\ ~BlobShared /\ ~(Restored /\ file.destroyed) =>
        \A i \in RowIds : Exists(i) => Opens(history[i].path, history[i].key)

\* Both: no order of uploads, restorations, deletions and downloads loses a
\* content, or parts it from its key, but the one above.
Readable == CurrentReadable /\ VersionsReadable

\* The download that reaches the limit destroys the file, so that no later one
\* is answered (check_and_destroy_on_download).
LimitEnforced ==
    [][served' > served /\ file.limit # None /\ served' >= file.limit => file'.destroyed]_vars
=============================================================================
