# AXSHARE in TLA+

TLA+ models of [AXSHARE](../src/), an end-to-end encrypted file sharing service:
a FastAPI backend (`src/backend`), a Tauri desktop client (`src/desktop`) and a
Next.js frontend (`src/frontend`). Eight parts are modelled: on the server the
permissions that sharing a folder produces, the life of one file and its
versions, and the audit log; in the browser the session and its tokens, the keys
of an account, the pages over the tree of folders with the endpoints they call,
and who can open a shared file; in the desktop client the decrypted copies that
other programs edit. TLC checks each on small instances, and TLAPS proves the
central invariants of all eight for every value of the constants.

    tlc -config DrivePages.cfg MCDrivePages.tla     # one run
    tlapm DrivePages_proofs.tla                     # one module of proofs

`PROJECT.json` lists the runs, the source lines of every definition, the
hazards, and for each property a mutation of the model that it detects.

Contents: [the system](#the-system) · [hard behaviours](#what-is-hard-about-it) ·
[modules](#modules) · [runs](#runs) · [proofs](#proofs) ·
[disagreements](#where-code-and-documents-disagree) · [limits](#what-is-not-modelled) ·
[what is left](#what-is-left)

## The system

Paths are below `src/backend/app` unless they start with `desktop` or `frontend`.

| Component | State | Operations | What makes it correct |
|---|---|---|---|
| Permissions (`services/permission_service.py`) | `permissions` rows: subject, file or folder, level, expiry, active, the folder an inherited row comes from | grant, revoke, update, extend; propagate a folder's row to its files, apply a folder's rows to a file; expiry sweep | a share reaches every file of its folder; ending it ends all of it; nothing undoes a revocation |
| Files (`api/v1/endpoints/files.py`, `services/destruct_service.py`, `services/storage.py`) | `files`, `file_versions`, MinIO blobs | upload, move, copy; new version, restore, download and delete a version; count downloads, destroy | key and blob of a row fit; a version stays readable until deleted; destruction is final |
| Folders and trash (`endpoints/folders.py`, `endpoints/trash.py`) | the folder tree, the trashed flag and the place to restore to | move, trash, restore, destroy, empty, copy, list | the tree stays a tree; what is restored can be reached; what is destroyed was in the trash |
| Audit log (`services/audit_service.py`) | `audit_logs`, each row naming the hash of the one before | `log`, `log_event`, `verify_chain` | the chain verifies |
| Session (`frontend/context/AuthContext.tsx`, `app/(app)/layout.tsx` and `lib/api.ts` there, `endpoints/auth.py`) | tokens in local storage, PIN in session storage, user and private key in memory, the refresh under way and the requests that wait for it | log in, refresh, lock, log out, unlock, restore the key, reload | the tab is of one user; a key is there because a PIN was typed; every request is answered |
| Keys (`frontend/hooks/useCrypto.ts`, `lib/keyManager.ts` and `settings/security` there, `endpoints/users.py`) | public key, wrapped private key and PIN hash on the server; public key in IndexedDB; private key in memory | set up with a PIN or a passphrase, change the PIN, regenerate, unlock | the halves fit; what is wrapped can be unwrapped |
| Pages of the drive (`frontend/app/(app)/*/page.tsx`, SWR hooks) | listing, selection, dialog, hidden rows, loops of requests | navigate, search, select, move, copy, trash, restore, destroy | the page shows what the server has; no page destroys what is not in the trash |
| Sharing, versions and signatures (the share dialog of the frontend's pages, `CreateLinkModal.tsx`, `ManageAccessModal.tsx`, `hooks/useFiles.ts`, `app/share/[token]`, `endpoints/files.py`) | a wrapped key on the file, on each version, permission row and link; the encrypted name; signatures | share a file or folder, save levels, revoke, make a link, rename, upload, restore, sign, download | whoever was given the file can open it; a signature is of what it says |
| Opening files (`dashboard/page.tsx`, `desktop/src-tauri/src/commands.rs`, `file_watcher.rs`) | decrypted copies, watches, timers, events; preview URLs; the PIN dialog | open, preview, edit in a program, upload the edit, delete the copy | an edit becomes a version of its own file; no copy is forgotten |
| Group sharing (`services/group_share_service.py`) | groups, members, a `permissions` row for each member | share with, revoke from a group; add and remove members | a member has exactly what is shared with the group |
| Guests (`services/guest_service.py`) | sessions, invitation used or not | invite, redeem, revoke | an invitation is redeemed once |
| GDPR (`services/gdpr_service.py`) | deletion requests | request, confirm, erase; retention cleanup | what is erased is gone everywhere |
| Brute-force protection (`services/brute_force_service.py`) | counters in Redis | count failures, lock out | a lockout begins in time and ends |
| Notifications and sync events (`services/sync_event_service.py`) | rows and subscribers' queues | publish, poll | a revocation reaches every client |
| Desktop sync and local encryption (`desktop/src-tauri/src/sync`, `local_encryptor.rs`) | manifest, cache; files on disk and a row of each | sync, poll; encrypt at lock, decrypt at login | no revoked file stays cached; a file is never lost |

The scheduler, search, metadata, reports, e-mail, the administration pages and the
virtual disk complete the repository; `PROJECT.json` lists them all with what is
modelled of each and why the rest is left alone.

### How the parts interact

- A request has one SQLAlchemy session (`database.py:24-45`) on PostgreSQL at
  READ COMMITTED. Objects keep their attribute values over a commit
  (`expire_on_commit=False`), and a flush writes only the columns whose value
  changed. Many operations commit more than once.
- A permission is created by a grant, by placing a file in a shared folder, and by
  a group share; expiry removes it in a task, or in the check itself. File operations use
  PostgreSQL and MinIO in one request, with no transaction over both. Every
  operation logs to the audit log, in a transaction of its own.
- The browser is one page at a time. Its calls go through one axios client that adds
  the stored token, refreshes it once on a 401 and queues the requests that fail
  meanwhile. SWR hooks keep the listings; after a call a handler
  reloads the keys it knows of (`mutate`), and the dashboard alone also listens to
  the server's file events. Loops over a selection run on when their page is left.
- Only the browser has keys. A file key is made at every upload of content and
  wrapped with RSA for the uploader; sharing fetches it, unwraps it with the
  private key in memory and wraps it for the recipient. The server stores what it
  is given.
- The desktop window runs the same pages. `openWithNativeApp` writes a decrypted copy by a Tauri
  command, a thread compares watched copies every few seconds and emits an event, and the
  dashboard's listener uploads the copy as a new version.
- The scheduler runs two workers of `core/celery_app.py`. The module `celery_app.py`, which
  schedules the expiry sweep, is a second application that no container
  starts; its task is modelled because it is part of the code.

## What is hard about it

On the server, requests interleave at every `await`, and what was read before one is used
after it. The work of one request is spread over several commits, and a process may die between
two. Locks are PostgreSQL's own, as foreign keys and unique columns happen to take them.

In the browser, an operation is a chain of calls, each of which can fail or be answered
late, while the user logs out, leaves the page, opens another dialog or works in a second
tab. A continuation writes to state that has moved on: a key after a logout, a dialog
of another file, a listing of another page. The same secret exists in several wrapped forms that no
call updates together.

In the desktop client a timer, a polling thread, an event queue and another program share a
directory, where a name is all that identifies a file.

`PROJECT.json` lists these hazards by source line, with the property that watches each or the
reason why none does.

## Modules

| Module | Models | Properties |
|---|---|---|
| `Permissions` | `permission_service.py`; placement in `files.py`; expiry sweep | `NoMissedShare`, `NoResurrection`, `InheritedHasOrigin`, `RevocationReachesFiles`, `RevocationCompletes`, `ImplementsFolderSharing` |
| `FolderSharing` | nothing: the abstract specification `Permissions` implements one request at a time | |
| `FileVersions` | version, download and destruction endpoints of `files.py`; `destruct_service.py`; `storage.py` | `RowsAreWhole`, `DestructionIsFinal`, `Readable`, `LimitEnforced` |
| `AuditChain` | `audit_service.py`; what `gdpr_service.py` does to the log | `LinksSurvive` |
| `DriveTree` | the tree and the trash on the server: `folders.py`, `trash.py`, parts of `files.py` | |
| `DrivePages` (extends `DriveTree`) | dashboard, i-miei-file, preferiti, media, condivisi, cestino and the hooks they use | `NothingLost`, `ShownIsCurrent`, `TrashFirst`, `MoveSettles` |
| `ClientSession` | `AuthContext.tsx`, the layout, both interceptors, `auth.py` refresh | `Coherent`, `TabIsOfLastLogin`, `KeyWasAskedFor`, `CallsSettle`, `SignedInIsUsable` |
| `ClientKeys` | the ways to make, replace, erase, unlock and use the RSA pair | `HalvesMatch`, `UploadsOpen`, `SessionIsCurrent` |
| `SharedFile` | the dialogs and endpoints that fetch, wrap or store the key of one file | `DownloadsOpen`, `LinksOpen`, `NamesOpen`, `SignaturesFit`, `RevokedStays`, `KeyIsTheFiles` |
| `OpenFile` | opening, previews, PIN dialog; `commands.rs`, `file_watcher.rs`, the dashboard's listener | `VersionIsOfItsFile`, `PreviewAlive`, `CopyIsTimed`, `EditNotForgotten`, `PromiseKept` |
| `MC...` | instances for TLC: users, files and folders, the symmetry | |
| `..._proofs` | theorems and proofs | |

The modules have one shape. Whatever takes several steps (a request, a task, a call of
the browser, a job of a tab) is a record with a program counter; an action is what the
code does between two points where others can interfere: the reads of a transaction or
one commit on the server, the lines from one `await` to the next in the browser. What it has read
it carries in the record, which is where stale data lives.

The definitions named *Mutant* in a comment are not part of a specification: they
are plausible errors, each of which a property detects. Variables marked *history* steer
nothing but each other; the properties use them to name what they exclude.

### Permissions

`perms` is the table, a function from primary keys to rows. A session holds
`fresh`, the rows its next commit inserts, and `dirty`, the columns it updates:
`Assign` records a column only if the value differs from the loaded one, as the
ORM does, and `Flush` writes just those. Inserts and updates of one commit are
one step.

| Code | Actions |
|---|---|
| `grant_permission` 73, `_propagate_folder_permission_to_files` 186 | `Grant`, `Commit`, then for a folder `Spread`, `Commit` |
| `upload_file`, `move_file`, `copy_file`, `apply_folder_permissions_to_file` 244 | `Upload`/`Move`/`Copy` (the commit of `folder_id`), `Apply`, `Commit` |
| `revoke_permission` 297 | `Revoke`, `Commit`, then for a folder `Cascade`, `Commit` |
| `update_permission` 450, `extend_permission` | `Update`/`Extend`, `Commit` |
| `tasks.expire_permissions` | `Sweep` (the query), `SweepOne` (each row) |
| `check_permission` 384 | the guard `Allowed`; its deactivation of a row `LapseOnCheck` |

Abstractions: the columns for keys, blocks and PINs are left out (no guard of the
operations depends on them); the reads of one transaction are one step; the
folder tree is a constant; a grant names one resource; owners are not granted
their own resources. `Spread` and `Apply` do fail where `scalar_one_or_none`
meets two rows; the request ends in `failed` after its first commit, and
`halfDone` remembers that some request ended early.

### FileVersions

An upload is a number that stands for the blob and for the key and nonce which
open it, so `<<path, key>>` of a row fit when the blob at `path` is upload `key`.
The path of a version carries its user and number, as `upload_encrypted_file`
builds it. `stored` remembers every blob that was ever stored, `served` the
downloads answered.

| Code | Actions |
|---|---|
| `upload_new_version` | `Upload` (row read, content received), `Archive` (old version flushed), `Put` (blob), `Save` (commit) |
| `restore_version` | `Restore`, `Select`, `Archive`, `Save` |
| `download_file`, `check_and_destroy_on_download` | `Download`, `Fetch`, `Count`, `Reply`; at the limit the steps of a destruction come before `Reply` |
| `download_version` | `DownloadVersion`, `Select`, `Fetch`, `Reply` |
| `delete_version` | `DeleteVersion`, `Select`, `Scrub`, `Remove`, `Unlink` |
| `destroy_file` | `Destroy`, `Scrub`, `Remove`, `Mark` |
| `set_self_destruct` | `SetLimit`, `Configure` |

`files.storage_path` is unique, so an update of it takes the lock that conflicts
with the share lock an inserted version holds on its file (`ShareLocked`). A
request that holds such a lock keeps others from changing the path; two that
both hold one and both want to change it deadlock, and the database aborts one
(`Deadlock`). The object store may fail where the code tolerates it
(`StoreFails`) and end the request elsewhere (`Crash`).

### AuditChain

A log entry is known by the time of its stamp, which also stands for its hash;
`hashed` is the content that hash was computed from. `log` reads the newest
entry and then stamps, `log_event` stamps and then reads. Two equal stamps
do not occur in the model, though microseconds could tie. `Erase` and
`Retain` are the two statements of `gdpr_service.py` that touch the table.

### DriveTree and DrivePages

`rows` has, for each file and folder, its place, the trashed flag, the place it was
trashed from and whether it is live, free or gone. `DriveTree` gives each endpoint as a guard
(`Grants`) and an effect (`Served`): a folder moves to the root or into a folder that is there
(`NotBelow`), a restoration asks nothing, destroying a folder brings its content up, emptying
takes what is flagged. `NotBelow` is what `_folder_is_descendant` does (`folders.py:126-137`) and not what its name
says: after one step it indexes the parent's identifier as if it were a row, so a
destination that has a parent ends in an error before the commit. `DrivePages` has one tab with one page at a time, its dialogs, and the loops of
requests the user has started, each a record of what is left `todo`, the page it
belongs to and where it was started.

| Code | Actions |
|---|---|
| leaving for a page, opening a folder, typing a search | `OpenPage`, `Navigate`, `Search` |
| the SWR hooks of the page | `ListArrives` (one key at a time) |
| ticks, toolbars, row and context menus, breadcrumbs | `Dashboard`, `Mine`, `Favs`, `MediaPage`, `Shared`, `Trash`: what each page offers |
| the dialogs | `Confirm`, `Cancel`, `MoveTo`, `CopyTo` |
| one request of a loop | `Answered` (served or refused), `Failed` (no answer; served or not) |
| the end of a handler: `mutate`, clearing ticks, closing the dialog | `Finish`, with what each page's `Handler` reloads |
| another session of the same user | `OtherActs`, and a folder move in two steps `OtherChecks`, `OtherCommits` |

What the pages do is taken page by page: media trashes from its menu and its rows, and in bulk
only the first ticked file, i-miei-file moves with another handler, the dashboard hides trashed files by
identifier, the shared page asks to destroy what it may not.

### ClientSession

A call goes through `sent`, `refreshing` or `queued` and its continuation. Access tokens are
numbered as issued and lapse in that order. React effects run before the next answer
(`RunEffects`). Once `MaxTokens` are issued a refresh issues the last one again,
so that the server can say 401 and be asked for a refresh without end. The refresh endpoint depends on the current user, so it grants only while
the stored access token is still valid (`Grantable`).

| Code | Actions |
|---|---|
| request interceptor; `apiClient` calls | `Send`, `AnswerOk`, `AnswerError` |
| response interceptor: refresh, queue, retry | `Refused` (by `MayRefresh` and `JoinsQueue`, becomes the refresh or waits for it), `RefusedForGood`, `RefreshOk`, `RefreshRefused`, `RefreshLost` |
| `login`, `loginWithPasskey`, `refreshUser`, its 30 s limit | `PasswordLogin`, `PasskeyLogin`, `RefreshUser`, `GetMeTimeout` |
| `handlePinUnlock`, the restore effect | `Unlock`, `UnlockDone`, `RestoreDone`, `RunEffects` |
| `logout` (waits for the virtual disk), tray lock, reload | `LogoutStart`, `LogoutDone`, `Lock`, `Reload` |

`straddled` records that something was under way across a login, logout or lock. The
properties exclude those histories because the code does go wrong in them: an unlock
answered after a logout leaves the key and the PIN behind
(`layout.tsx:68-77`), and a restore answered after a lock undoes it.

### ClientKeys

A pair is the number of the change that made it. A change is a program of steps, one per call
(`PinSteps`, `PhraseSteps`, `EraseSteps`); each may fail, some failures are swallowed by
the code and the program goes on, and the page may be closed between two.

| Code | Actions |
|---|---|
| `setupKeysWithPin` / "Cambia PIN", `setupKeys`, "Rigenera chiavi" | `Begin`, `SetUpPhrase`, `Regenerate` |
| their calls | `Public`, `Private`, `Store`, `Hash`, `Open`, `Delete`, `Clear`, and `PrivateSwallowed`, `StoreSwallowed`, `Fail` |
| the PIN dialog: the bundle fetched, then opened; closing the page | `FetchBundle`, `Unlock`, `UnlockFails`; `Close` |
| an upload or a share that wraps a file key | `PublicKey`, `Wrap`, `Keep` |

### SharedFile

A key is the number of the upload that made it, and also stands for the content
encrypted with it. `file`, `olds`, `grants`, `link` and `name` each have a key
of their own, wrapped for somebody. `since` remembers what the owner has redone since the
content last changed: a property speaks of those who were given the file since then,
because `upload_new_version` replaces the file's key and nothing else.

| Code | Actions |
|---|---|
| `useFiles.uploadNewVersion`, `restore_version` | `UploadVersion`, `Restore` |
| `handleShare` of the dashboard's dialog, on a file | `Share`, `ShareKey`, `Grant`, `Skip`, `Rest` |
| the same on a folder; on other pages | `ShareFolder`, `FolderKey`, `Inherit`, `GrantPlain` |
| the dialog of accesses | `OpenAccess`, `SaveLevel`, `Revoke` |
| `CreateLinkModal`, links of the share dialog, of page `files/[id]` | `CreateLink`, `ShareByLink`, `LinkKey`, `Publish`, `PublishPlain` |
| the page behind a link | `Visit`, `Stream` |
| downloads, `get_file_dek`, `get_version_key` | `Download`, `DownloadVersion`, `FetchContent`, `FetchKey`, `FetchVersionKey` |
| `decryptFileNames`; rename; sign | `ReadNames`, `Rename`, `RenameKey`, `StoreName`, `Sign`, `SignContent`, `SignNumber`, `StoreSignature` |

### OpenFile

An opening and an edit are known by their numbers; a copy holds the content of an opening
(edit 0) or an edit. The copy's path is the name of the file, so files of one name share
it. `mount` numbers the lives of the page: `entry[mount]` is the map of timers (`tempFileTimeoutsRef`), which a page
that is left takes with it, while its timers and openings run on and look into the map of their own
page. A reload or an end of the client takes both.

| Code | Actions |
|---|---|
| `handleOpen`, `handleDownloadFile`, card previews | `Open`, `Fetched`, `ShowTab`, `ShowPreview`, `DownloadAgain`, `ClosePreview` |
| `usePinVerification`, its dialog | `RequestPin`, `ConfirmPin`, `ValidPin`, `WrongPin`, `CancelPin`, `LatePin` |
| `openWithNativeApp` and its timer | `OpenNative`, `Unwatch`, `Delete`, `Write`, `Watch`, `Start`, `Fail` |
| another program | `Save` |
| `file_watcher.rs`, `lib.rs`, the listener | `Scan`, `Emit`, `Upload` |
| leaving a page; `listen()` resolving | `Navigate`, `Registered` |
| reload of the window; quit or crash of the client | `Reload`, `Quit` |

## Runs

No specification has a deadlock to look for: requests and clicks are bounded, so a behaviour may
stop, and every configuration says `CHECK_DEADLOCK FALSE`.

| Run | Instance | States | Shows |
|---|---|---|---|
| `permissions_concurrent` | 2 sessions, folder in a folder, 1 file, 3 rows, 4 requests, 1 crash, 2 times | 497,697 | the inductive invariant, `InheritedHasOrigin`, `NoMissedShare`, `NoResurrection` over every interleaving of grants, revocations, placements, updates and the sweep |
| `permissions_serial` | 1 session, 2 folders, 2 files, 3 rows, 4 requests | 133,322 | a revocation reaches every file, in the end as well (`RevocationCompletes`); the commits of each request together are one step of `FolderSharing` |
| `files_concurrent` | 2 sessions of 2 users, 3 requests, 2 uploads, 1 failure | 31,668 | `RowsAreWhole`, the inductive invariant, `DestructionIsFinal` |
| `files_serial` | 1 session, 4 rows, 5 requests, 3 uploads, limit 2 or none | 5,137 | the current content and every version stay readable, restorations included; the limit is kept |
| `audit_rewritten` | 1 writer, 5 entries, erasure and retention | 11,922 | rewriting breaks nothing but the entries rewritten and the oldest one left |
| `drive_pages` | 6 pages, 2 folders, 1 own file, 1 foreign, 1 spare; 1 loop, 1 navigation, 1 request of the other session | 784,146 | nothing becomes unreachable but what a restoration or crossing moves tied into a cycle, the page shows what the server has, only the trash destroys, and a move lets go of its dialog |
| `session` | 2 users, 2 calls, 3 tokens, 1 reload | 1,400,622 | the tab is of the last to log in, a key was asked for, one refresh at a time |
| `session_live` | 1 user, 2 calls, 2 tokens, the last issued again and again, fairness | 83,488 | every call ends, unless others keep starting; who is signed in gets the dialog or the key |
| `keys` | 2 devices, a peer, 3 changes | 888,168 | the halves of the pair fit between changes, what is uploaded opens, an unlocked device has the server's pair |
| `shared_file` | owner in 2 tabs, 1 other, a guest; 2 uploads, 1 restoration, 3 jobs | 250,794 | the inductive invariant; what was shared, linked or named since the last upload opens; signatures fit; nobody revoked comes back |
| `shared_file_key` | the same, 3 uploads | | violation, see below |
| `open_file` | 2 files, 2 names, 2 openings, 2 edits, 3 of both together, 1 check of a PIN at once, any leaving, reload and end of the client | 842,871 | an edit becomes a version of its file and is not forgotten, copies have timers, previews live, promises are kept |

**Why the bounds are enough.** *Permissions.* A lost share or revocation needs two requests,
the rows they share and one file; three rows are the folder's and the file's
rows and one more; four requests are a history of two (grant, revoke) before
the pair that races; two folders let an inherited row change its folder, which is the
only way rows of different folders meet. Two times let a row expire once.
*Files.* A file's path and key can mix from two concurrent writers, and the third request is
the one that reads the mix. Three uploads give a version between the first and the last.
*Audit.* Five entries leave room for a deletion in the middle.
*Drive.* A loop over up to four rows, an answer that is lost, one page left while it runs and
one request of another session are the ingredients of a stale listing; `b` may be in the trash at the
start, trashed from `a`, so that a restoration below itself, a move asked for below oneself and the crossing
of two folder moves all occur. More loops repeat what one does to the rows.
*Session.* Two calls and a login are a refresh, a request queued behind it and the
change of user between; three tokens are two logins and a refresh, and further refreshes issue the
last number again, so a call can be refused and refreshed any number of times: without the `_retry` guard
`CallsSettle` fails in `session_live`.
*Keys.* Three changes let two overlap and a third repair what they left; a peer
is needed because it reads the server where a device reads IndexedDB.
*Shared file.* A race is of two jobs of the owner's tabs, or of his and
the other's; the third job is a download or visit that sees the outcome. The second upload
replaces the key of the first, and the restoration brings that back; the others do
not interact, so one is enough.
*Open file.* Two openings, of one file or two, of one name or two, are what may
meet in a copy, a timer or a dialog, with an edit; `MaxActs` leaves out only the histories with two
openings and two edits at once. The bounds (`PermIds`, `MaxRequests`, `MaxTime`,
`MaxCrashes`, `RowIds`, `MaxUploads`, `MaxFaults`, `MaxActs`, `MaxNav`, `MaxOther`,
`MaxTokens`, `MaxLoads`, `MaxChanges`, `MaxRestores`, `MaxFlows`, `MaxOpens`, `MaxSaves`,
`MaxChecks`) are constants that the proofs do not fix.

Values that TLC permutes hold no role in the initial state. Symmetry is not used
where a temporal property is checked under fairness.

**`ExpiryDeactivates = FALSE`** in `permissions_serial`: an expired folder row that is deactivated
alone leaves its inherited rows active; `RevocationReachesFiles` speaks of
revocation. In `permissions_concurrent` it is true, so that the sweep and the
check take part.

**Fairness.** `Permissions!FairSpec` has weak fairness on `Continue(s)`, the steps of a
request that has started: a started handler runs on, as its event loop schedules it.
`DrivePages` has weak fairness on the arrival of listings and answers: axios gives
up after 30 s (`api.ts`), which is `Failed`. `ClientSession!FairSpec` lets effects run and
gives each call an answer or an error, strongly, because the effects of other answers
hold it up for a moment only; the refresh goes through plain axios without a time limit, so there the
assumption is that the connection ends. Nothing makes a user act, a request start, a clock
tick, a sweep happen or a process survive.

**Serial runs.** Where the code's claim is false for concurrent requests, the run with
one session checks what remains: the sequence of commits is right, and the error is
in the interleaving. The two-session runs have the properties that survive it.

## Proofs

TLAPS proves, for any sets of users, files, folders, rows, sessions and tabs and any
bounds that satisfy the named assumptions of the module:

| Theorem | States |
|---|---|
| `Permissions_proofs!InvariantHolds` | `Spec => []IInv` |
| `!TypesHold`, `!OriginHolds`, `!NoShareIsMissed` | `TypeOK`, `InheritedHasOrigin`, `NoMissedShare` |
| `!NothingResurrects` | `NoResurrection`, an action property |
| `!SerialInvariantHolds`, `!RevocationReaches` | the serial invariant; `RevocationReachesFiles`, one request at a time |
| `!FolderSharingIsImplemented` | `ImplementsFolderSharing`, one request at a time and no process dying |
| `FileVersions_proofs!TypesHold`, `!DestructionHolds` | `TypeOK`; `DestructionIsFinal`, an action property; every operation, any number of sessions |
| `!InvariantHolds`, `!RowsStayWhole` | its inductive invariant; `RowsAreWhole`, when nothing is restored |
| `!SerialInvariantHolds`, `!SerialRowsStayWhole`, `!LimitHolds` | the serial invariant; `RowsAreWhole`, `LimitEnforced`, one request at a time, restorations and failures included |
| `!ReadableHolds` | `Readable`, one request at a time and nothing failing |
| `AuditChain_proofs!InvariantHolds`, `!LinksHold` | its inductive invariant; `LinksSurvive`, with one writer |
| `DrivePages_proofs!PagesAreAimed`, `!TypesHold` | its inductive invariant; `TypeOK` |
| `!TrashComesFirst` | `TrashFirst`, an action property |
| `!NothingIsLost`, `!PageIsCurrent` | `NothingLost`, but for what leads up to a folder that a restoration or crossing moves put below itself; `ShownIsCurrent` |
| `SharedFile_proofs!JobsAreSound` | `Spec => []IInv` |
| `!DownloadsAlwaysOpen`, `!LinksAlwaysOpen`, `!NamesAlwaysOpen`, `!SignaturesAlwaysFit` | `DownloadsOpen`, `LinksOpen`, `NamesOpen`, `SignaturesFit` |
| `!RevokedAlwaysStays` | `RevokedStays`, an action property |
| `ClientKeys_proofs!KeysAreSound`, `!TypesHold` | its inductive invariant; `TypeOK` |
| `!HalvesAlwaysMatch` | `HalvesMatch`, unless a change stopped half-way or met another (`torn`) |
| `!UploadsAlwaysOpen` | `UploadsOpen`, except on a device whose IndexedDB has an old key (not `sure`) |
| `!SessionIsAlwaysCurrent` | `SessionIsCurrent`, unless the keys changed since the bundle was fetched (`keyOld`) |
| `ClientSession_proofs!SessionIsSound` | its inductive invariant |
| `!CoherentAlways` | `Coherent` |
| `!TabStaysOfLastLogin`, `!KeyIsAlwaysAskedFor` | `TabIsOfLastLogin`, `KeyWasAskedFor`, unless a call was under way across a login, logout or lock (`straddled`) |
| `OpenFile_proofs!OpeningsAreSound`, `!TypesHold` | its inductive invariant; `TypeOK` |
| `!VersionsAreOfTheirFiles`, `!PreviewsStayAlive`, `!PromisesAreKept` | `VersionIsOfItsFile`, `PreviewAlive`, `PromiseKept` |
| `!CopiesAreTimed`, `!NoEditIsForgotten` | `CopyIsTimed`, `EditNotForgotten`, but for the copies and edits that other pages, failures, a reload or an end of the client leave behind (`stray`, `lost`) |

The assumptions are the types of the constants (each file and folder has an
owner, a folder is in its own tree, the levels are 1 to 4, bounds are naturals,
the special values differ from the others, in the places where items may start every set of items has
one whose parent is outside it). Where a property
is false for concurrent requests or failures, the theorem says so as a hypothesis (`Alone`,
`OneSession`, `MaxFaults = 0`, `MaxCrashes = 0`); each run that checks the property on a small instance
satisfies it.

**Permissions.** `NoMissedShare` speaks only of moments without requests, so it is far from
inductive. `MissingIsPending` says it at all times: as long as no request ended early, each
row that is missing is owed by a session that is about to write it, because it
will still read the folder's files (`spread`), will still read the folder's rows
(`apply`), or carries the row in its commit. The step that matters is a commit:
the row of a grant becomes visible at the very step that leaves its session
owing all the files, and a file becomes visible in its folder at the step that leaves
its session owing all the rows; so whichever is second reads the first. `Carried` says
what a session may carry from transaction to transaction: inserts on folders come from
a grant's own first commit, `active` is set only by a placement and on its own
file, `from` only to a folder its subject has a row on. `NoResurrection` then follows from
`DirtyOK` at `Commit` and from what a grant records: it found the row active, so
it does not write the column. While proving it, the stronger claim that the reactivated row's
folder is the one of the placement turned out false, since two moves of one file overlap;
the property names the file only.

*One request at a time* (`Alone`: one session, and no row lapses). A revocation takes two commits, and
between them the inherited rows are active without the folder's. `OrphansEnd` says that these are the
only such rows and that the session under way is about to deactivate them; for that, `AloneOK`
says what the commit of every other operation may carry: an inherited row only
where its subject has an active one on the folder now, which is true of what it read because nobody else
writes. The refinement of `FolderSharing` needs one thing more at each commit: which step of the
abstract specification it is, a share, a revocation, a placement or none. A process that dies between
the two commits of a revocation ends the share and leaves the reach, which no step of `FolderSharing` does; hence
`MaxCrashes = 0` in that theorem. `RevocationReaches` allows deaths, since the property excuses what they leave.

**FileVersions.** `RowsAreWhole` is not inductive because of partial updates: a commit that
writes the path but not the key would mix two uploads. `SessionSound` rules it
out: an upload's next path carries the next version number, and a stored
path carries at most its row's number, so the path to be written differs from the one read;
its key is the latest upload and so differs as well. Both columns are
written together. A restoration reuses an old path and key, possibly the path of the row it
read with another key, and the argument, like the property, fails for two sessions.
`DestructionIsFinal` needs less and holds for all operations: no commit writes `destroyed` back, since
what a session is to save differs from what it read in that column only if it sets it.

*One request at a time* (`OneSession`). `Fresh` says that what a request has read is what the tables
still hold. `RowsAreWhole` then holds with restorations. `LimitEnforced` follows from `Counted`: the downloads
answered are among those counted, and the one that reaches the limit is answered once the
file is destroyed. `Readable` says that no content is lost over any history: by
`HistoryBelow` no row is numbered above the file, so an upload puts its blob where none is, and by `OwnBlobs` no
two rows share a blob until something is restored, so the deletion of
one version takes no other's. `FileIntact` and `VersionsIntact` extend the property
to the middle of a request, where a deletion has taken the blob and not yet the row.
With a failure in that middle the blob is gone and the row stays: `MaxFaults = 0` is needed.

**AuditChain.** `WriterIsCurrent` is the strengthening: between its read and its insert a
writer's predecessor stays the newest entry, or everything was deleted, and its stamp is
newer than the log. With two writers it is false: the log forks.

**DrivePages.** Only the shared page sends the request that destroys a file outright
(`erase`). The server grants it to owners alone, so the argument is about where
the request can be aimed: `Aimed` says that the listing of the shared page has files of
others only, that a dialog which erases was filled from it, and so was a loop.
The invariant must speak of loops, because one that was begun on the shared page runs on
after it is left. All other requests that destroy are refused by
the server unless the item is in the trash.

`NothingLost` says that the way up from each live item meets the root. `Way` is a least set:
the items met are in every set that holds the item and, with an item, its parent. A way without the root
is then a set of items closed under parents, so the proof needs no induction. `Hung` says that every such
set has one of the `knots`, the folders which a restoration, or a move checked before another was
committed, put below themselves. A step that hangs an item elsewhere could close a set only around the way up from the
new place (`PlacedHangs`): either the item is on that way, and joins the `knots`, or what the set has of the way
was closed before. A move that is checked when it is committed never joins them, because the new place is the root
or a folder at the root other than the item (`NotBelowIsOff`). A file is on no way but
its own; what a deleted folder held comes up at the root. `StartAssumption`, that no items start in a cycle, is the base.

`ShownIsCurrent` speaks of moments when nothing is under way. `Current` says it of each item
at all times: an item that is not dirty is rightly shown or rightly missing, unless its part of the listing is being fetched.
Each answer must then be matched by what its handler reloads, with the keys the
hooks have when it arrives. `Mounted` says that the dialog and the loops of the
page shown are its own and that only two pages leave the root; `OneMove` says that a move, which names
its keys itself, finds the page in the folder it was started from, because its dialog cannot be
closed while it runs.

**SharedFile.** The properties compare what a job received in two requests, between which
others change the rows. `JobSound` says, for every program counter, what the job carries: a job
marked `sure` has a key of the current content, or of the content it
received beside it, and loses the mark when the content changes under it. `DataSound`
gives `since` its meaning: what is in it (a user's row, the link, the name) has the file's
key. An upload empties `since`, a restoration too, and a
grant adds to it only what a sure job wrote.

**ClientKeys.** A change of keys is the list of the calls it has still to make; `Fitting` and
`Done` say what the ones it has made left on the server. `HalvesMatch` holds between changes, so
the invariant must speak of their middle: `Alone` says that a change which started alone is the
only one as long as nothing is torn, so what it has written stays until it ends, when the halves
match again. `Fresh` says that what a device unlocked or stored since the keys last began to change is
what the server has; for an unlock that counts from the fetch of the bundle, and a bundle fetched and not
yet opened is spoken of as well.

**ClientSession.** A late answer writes what it carries, so the invariant follows the calls rather than
what they have written. `Owned` says that the calls which will write a user, a key or a token
are of the last who logged in, or the history says that something was under way across a
login or logout, and that a live restore is of the user shown or about to be cancelled. `Asked` says the same
of the PIN: each call that may still set a key was asked for. `Single` turns
`RefreshIsSingle` into statements about calls. `Room` is needed for one step, the effect that
starts a restore: the answer that made it due has ended its call, so the restore
takes no call that is under way.

**OpenFile.** Three chains of what is kept. *Previews:* `UrlsMade` says a known URL belongs to
an opening that ended, so a later opening revokes another's than the one it shows.
*Edits:* `Remembered` follows an edit from the copy over the watch and the event to the
listener; it goes through the fact that a copy which differs from the watch's hash
is still to be scanned, which every action that writes a copy or a watch must keep or pay
for with an entry in `lost`. *Names:* `WellNamed` says copies, watches and events agree on
the name of their file, from which `VersionIsOfItsFile` follows when names differ.
`TimersKept` ties the entry kept for a file, in the map of each page there was, to an opening of that
file. `CopyIsTimed` survives the loss of a map because every step that ends a timer also removes the copy at its path
or adds it to `stray`.

**Checked only.** The liveness properties `RevocationCompletes`, `MoveSettles`, `CallsSettle` and
`SignedInIsUsable`, which are out of reach of the prover. Every invariant and action property of a passing
run is stated by a theorem.

## Where code and documents disagree

`shared_file_key` ends in a counterexample to a statement of the repository: `get_file_dek` "Ritorna la DEK
cifrata per l'utente (owner: file_key_encrypted; condiviso: resource_key_encrypted)"
(`endpoints/files.py:433`). After the
owner uploads a new version the caller with a permission row gets the key of the old content, and
after a colleague uploads one the owner gets a key wrapped for the colleague, until a
version is restored or the file is shared anew.

Other behaviour met while modelling is kept in the models as it is, excluded from the
properties by name, and listed in the hazards:

- *Permissions.* An upload that read the folder's row before its revocation inserts its row
  after the cascade (`permission_service.py:332`); a request fails after its first commit when
  two rows exist (`:215`, `:269`); a file in a subfolder misses the shares above it
  (`:253`); access stays after a move out of a shared folder.
- *Files.* After a restoration, deleting the version removes the current blob
  (`files.py:711`); the answer to the last permitted download has no nonce (`files.py:402`); two
  downloads are counted as one (`:408`); two uploads of one user go to one path (`:490`);
  numbers repeat (`:591`); a destruction leaves the versions' blobs (`destruct_service.py:41`).
- *Audit.* Two requests that log at once fork the chain (`audit_service.py:62`).
- *Folders and trash.* `_folder_is_descendant` says "True se folder_id è discendente di ancestor_id (o
  uguale)" (`folders.py:127`), and takes one step: `row[0]` (`:136`) indexes the identifier that
  `scalar_one_or_none()` returned, a `TypeError`, so that no folder can be moved into a folder
  that has a parent, and the request ends with status 500. Restoring a folder, or two crossing
  moves, can put it below itself; the listings of folders show trashed ones
  (`folders.py:230-234`); a file whose folder was destroyed cannot be restored; the trash
  promises 30 days and nothing purges it; the trash publishes no events.
- *Pages.* Media and shared handle only the first of the ticked files; the copy dialog has no lock; a file
  restored elsewhere stays hidden on the dashboard until it is left.
- *Session.* A call that waited in the queue is sent again without `_retry` (`api.ts:102-109`), so it may
  be refused again and wait for the refresh of another call, for as long as others
  begin; `CallsSettle` says that this is the only way not to end. The refresh endpoint asks for a valid access token (`auth.py:165`), so an expired
  one is never refreshed; overlapping `refreshUser` calls can leave a user signed in without
  token; a login over a signed-in user keeps the old key.
- *Keys.* "Cambia PIN" makes a new RSA pair (`security/page.tsx:102`), so files wrapped for
  the old one no longer open; another device goes on wrapping for the public key in
  its IndexedDB; a bundle under a passphrase cannot be opened by the PIN dialog.
- *Sharing.* The dialog reports success when every grant failed or was skipped; page `files/[id]`
  makes grants and links without a key; a sharee's rename and names use an identifier that fits
  the owner only; a failure of the clipboard after creating a link makes a second one on retry.
- *Copies.* Files of one name share a copy, and an edit of one may become a version of
  the other (`commands.rs:378`); a reopening or the timer deletes an edit not yet sent
  (`dashboard/page.tsx:1417-1444`); the map of timers goes with the page (`:255`), so a file opened again after
  returning keeps its old timer, which unwatches and deletes the new copy early; after a reload or an end of
  the client nothing deletes the copies; the listener reports success though the upload
  failed (`:732-741`), and the watcher does not try again (`file_watcher.rs:148`); other pages neither
  watch nor delete the copy.

## What is not modelled

- Cryptography: keys and ciphertexts are values; what opens what is the model's business.
- The contents of notifications, events, activity and the answers of queries; layout and wording.
- In `Permissions`: changes of the folder tree, deletions of files, group shares and guests,
  the grant of both a file and a folder in one call.
- In `FileVersions`: more than one file, the first upload and its deduplication, destruction by date
  (the same `destroy_file`), thumbnails.
- In `AuditChain`: equal time stamps, more than one writer in the checked instance.
- In `DrivePages`: creating and renaming folders, first uploads, favourites' own edits, colours,
  pagination, the folders of the shared page, SWR's deduplication interval.
- In `ClientSession`: the TOTP step, the login of the desktop window, the tray's status, the
  keychain. In `ClientKeys`: the signing pair.
- In `SharedFile`: deleting versions, the limits, password and expiry of a link, PIN and blocks of
  a permission, the making of signing keys.
- In `OpenFile`: thumbnails, the kinds of preview, the local `.axs` files.
- The components `PROJECT.json` lists as `not_modelled`: the ones with state of their own (group
  sharing, guests, deletion requests, brute-force counters, sync events, the desktop's sync engine,
  local encryption and virtual disk) are left for want of room, not of interest; the others are
  single requests, output or configuration.

## What is left

1. `LocalEncryptor`: encrypt and decrypt a file at a time, with a crash between the steps: the
   content is on the disk at all times, in one form or the other, and its key with it.
2. `SyncEngine`: manifest, cache and polling beside a sync, with the sync events of the backend.
   Liveness: a revoked file leaves the cache.
3. `GroupSharing`, another writer of the table of `Permissions`; `DriveTree` composed with
   `Permissions` by making `Subtree` a variable there.
4. `ShareLinks` with guests, `GdprErasure`, `BruteForce`.
5. Proofs: what survives of `RowsAreWhole` when a restoration meets another request; what a
   failure between the blob and the row of a version leaves readable.
