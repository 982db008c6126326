----------------------------- MODULE SharedFile -----------------------------
(***************************************************************************)
(* The key of one file, and what the pages keep wrapped or encrypted with  *)
(* it: the versions, the name, the rows of the people it is shared with,   *)
(* the public links and the signatures.  Only browsers handle keys.  Every *)
(* upload of a version makes a new one and replaces the content and the    *)
(* key of the file, and nothing else.                                      *)
(*                                                                         *)
(* A key, and the content encrypted with it, is the number of the upload   *)
(* that made it; 0 is none.  The owner works in several tabs, the people   *)
(* the file is shared with in one each, and a guest holds the link.  What  *)
(* a page does in several calls is a job of its tab, one at a time.        *)
(***************************************************************************)
EXTENDS Naturals

CONSTANTS owner, Others,
          OwnerTabs,    \* the tabs of the owner; the others are tabs by their name
          guest,        \* the page behind the link
          MaxUploads, MaxRestores,  \* bounds: versions ever uploaded, restorations
          MaxFlows      \* bound: the jobs ever begun

ASSUME SharedAssumption ==
  /\ owner \notin Others /\ guest \notin Others \cup OwnerTabs \cup {owner}
  /\ {"name", "link"} \cap Others = {}
  /\ OwnerTabs \cap (Others \cup {owner}) = {}
  /\ MaxUploads \in Nat \ {0} /\ MaxRestores \in Nat /\ MaxFlows \in Nat

VARIABLES
  file,       \* the row of the file: its number, its key and whose public key wraps that
  olds,       \* the rows of the versions
  name,       \* the encrypted name: its key, and whose identifier was authenticated with it
  grants,     \* the active row of each of the others: its level, its key, whether it
              \* comes from the folder; and how many rows there have been
  link,       \* the newest public link and the key stored with it
  sigs,       \* the signatures of versions, one for a number
  job,        \* what each tab is in the middle of
  uploads, restores, flows,
  since       \* history: what the owner has redone since the content last changed

vars == <<file, olds, name, grants, link, sigs, job, uploads, restores, flows, since>>

Users == {owner} \cup Others
Tabs == OwnerTabs \cup Others \cup {guest}
UserOf(t) == IF t \in OwnerTabs THEN owner ELSE t
Ids == 0..MaxUploads
Levels == {"none", "read", "write"}
Rows == [number : Ids, key : Ids, wrap : Users]
Names == [key : Ids, aad : Users]

Lefts == SUBSET (Others \cup (Others \X Nat) \cup {"content", "key"})
Steps == {"idle", "share", "grant", "folder", "inherit", "access", "link", "share link",
          "publish", "publish once", "visit", "download", "look", "names", "listed",
          "rename", "renamed", "sign", "number", "signed"}

Job == [pc : Steps, left : Lefts, key : Ids, content : Ids, number : Ids, name : Names,
        sure : BOOLEAN]
NoJob == [pc |-> "idle", left |-> {}, key |-> 0, content |-> 0, number |-> 0,
          name |-> [key |-> 0, aad |-> owner], sure |-> FALSE]

TypeOK ==
  /\ file \in Rows /\ olds \subseteq Rows /\ name \in Names
  /\ grants \in [Others -> [level : Levels, key : Ids, inherited : BOOLEAN, row : Nat]]
  /\ link \in [made : BOOLEAN, key : Ids]
  /\ sigs \subseteq [number : Ids, content : Ids, sure : BOOLEAN]
  /\ job \in [Tabs -> Job]
  /\ uploads \in Ids /\ restores \in 0..MaxRestores /\ flows \in 0..MaxFlows
  /\ since \subseteq Others \cup {"name", "link"}

Init ==
  /\ file = [number |-> 1, key |-> 1, wrap |-> owner] /\ olds = {}
  /\ name = [key |-> 1, aad |-> owner]
  /\ grants = [u \in Others |-> [level |-> "none", key |-> 0, inherited |-> FALSE, row |-> 0]]
  /\ link = [made |-> FALSE, key |-> 0] /\ sigs = {}
  /\ job = [t \in Tabs |-> NoJob]
  /\ uploads = 1 /\ restores = 0 /\ flows = 0
  /\ since = {"name"}

-----------------------------------------------------------------------------
(* What the server answers, and what the browser makes of it *)

Readers == {owner} \cup {u \in Others : grants[u].level # "none"}
Writers == {owner} \cup {u \in Others : grants[u].level = "write"}

(* get_file_dek: the row of the asker, if it holds a key; otherwise the    *)
(* key of the file, wrapped for whoever uploaded it.                       *)
Answered(u) == IF u # owner /\ grants[u].key # 0
               THEN [key |-> grants[u].key, wrap |-> u]
               ELSE [key |-> file.key, wrap |-> file.wrap]

(* Unwrapping fails with a private key that is not that of the public key. *)
KeyOf(u) == IF Answered(u).wrap = u THEN Answered(u).key ELSE 0

\* Mutant: the reader's own identifier.
OwnIdentifier(u) == u

(* The identifier the name is authenticated with: that of the owner, which *)
(* comes with the key.                                                     *)
Identifier(u) == owner

\* Mutant: the blob of the first version.
FirstContent == 1

(* The stream of a link is that of the file as it is now.                  *)
Streamed == file.key

(* History: what the last to share with u was sure to have given him.      *)
Entitled(u) == IF u = owner THEN file.wrap = owner ELSE u \in since

Redone(what, sure) == IF sure THEN since \cup {what} ELSE since \ {what}

Set(t, j) == job' = [job EXCEPT ![t] = j]
Fetched(t, pc) == Set(t, [job[t] EXCEPT !.pc = pc, !.key = KeyOf(owner), !.sure = TRUE])
Finish(t) == Set(t, NoJob)

Begin(t, pc, left) ==
  /\ job[t] = NoJob /\ flows < MaxFlows
  /\ flows' = flows + 1
  /\ Set(t, [NoJob EXCEPT !.pc = pc, !.left = left, !.sure = TRUE])
  /\ UNCHANGED <<file, olds, name, grants, link, sigs, uploads, restores, since>>

(* Any call may fail, and the job ends with a message.                     *)
Fail(t) ==
  /\ job[t].pc \notin {"idle", "look", "visit"}
  /\ Finish(t)
  /\ UNCHANGED <<file, olds, name, grants, link, sigs, uploads, restores, flows, since>>

-----------------------------------------------------------------------------
(* The content changes *)

(* Whatever was begun before is no longer sure of the key, but for a       *)
(* signature that already has both the content and its number.             *)
Change(next) ==
  /\ file' = next /\ olds' = olds \cup {file}
  /\ since' = {}
  /\ job' = [t \in Tabs |-> [job[t] EXCEPT !.sure = @ /\ job[t].pc = "signed"]]
  /\ UNCHANGED <<name, grants, link, sigs, flows>>

(* uploadNewVersion, from the dialog, from the page of the file or after   *)
(* an edit: the key is wrapped for whoever uploads.  The name and the type *)
(* sent along are not stored.                                              *)
UploadVersion(t) ==
  /\ UserOf(t) \in Writers /\ uploads < MaxUploads
  /\ uploads' = uploads + 1
  /\ Change([number |-> file.number + 1, key |-> uploads + 1, wrap |-> UserOf(t)])
  /\ UNCHANGED restores

(* The restoration of a version whose number has one row: the number of    *)
(* the file stays.                                                         *)
Restore(t) ==
  /\ UserOf(t) \in Writers /\ restores < MaxRestores
  /\ restores' = restores + 1
  /\ \E r \in olds :
       /\ {o \in olds : o.number = r.number} = {r}
       /\ Change([file EXCEPT !.key = r.key, !.wrap = r.wrap])
  /\ UNCHANGED uploads

-----------------------------------------------------------------------------
(* Sharing with people *)

(* The dialog: the key is fetched once, then wrapped for one recipient     *)
(* after another.                                                          *)
Share(t, to) == t \in OwnerTabs /\ to # {} /\ Begin(t, "share", to)

ShareKey(t) ==
  /\ job[t].pc = "share"
  /\ IF KeyOf(owner) = 0 THEN Finish(t) ELSE Fetched(t, "grant")
  /\ UNCHANGED <<file, olds, name, grants, link, sigs, uploads, restores, flows, since>>

Rest(t, u) == IF job[t].left = {u} THEN NoJob ELSE [job[t] EXCEPT !.left = @ \ {u}]

(* The server keeps one active row: the one there is, or a new one.  A row *)
(* that comes from the folder is left as it is, and answered with.         *)
Row(g, level, k, inherited) ==
  [level |-> level, key |-> k, inherited |-> inherited,
   row |-> IF g.level = "none" THEN g.row + 1 ELSE g.row]

Granted(u, level, k, sure) ==
  IF grants[u].inherited THEN UNCHANGED <<grants, since>>
  ELSE /\ grants' = [grants EXCEPT ![u] = Row(@, level, k, FALSE)]
       /\ since' = Redone(u, sure)

Grant(t, u, level) ==
  /\ job[t].pc = "grant" /\ u \in job[t].left
  /\ Granted(u, level, job[t].key, job[t].sure)
  /\ Set(t, Rest(t, u))
  /\ UNCHANGED <<file, olds, name, link, sigs, uploads, restores, flows>>

(* A recipient without a public key, or whose call fails, is skipped; the  *)
(* message that the file is shared comes all the same.                     *)
Skip(t, u) ==
  /\ job[t].pc = "grant" /\ u \in job[t].left
  /\ Set(t, Rest(t, u))
  /\ UNCHANGED <<file, olds, name, grants, link, sigs, uploads, restores, flows, since>>

(* The folder of the file is shared: the keys of its files are fetched     *)
(* again for each recipient, and those that do not open are left out.      *)
ShareFolder(t, to) == t \in OwnerTabs /\ to # {} /\ Begin(t, "folder", to)

FolderKey(t) ==
  /\ job[t].pc = "folder"
  /\ Fetched(t, "inherit")
  /\ UNCHANGED <<file, olds, name, grants, link, sigs, uploads, restores, flows, since>>

\* Mutant: a row there is keeps its key.
FirstKey(old, new) == IF old # 0 THEN old ELSE new

(* A key that was left out does not replace the one there is.              *)
NewestKey(old, new) == IF new # 0 THEN new ELSE old

Inherit(t, u, level) ==
  LET k == NewestKey(grants[u].key, job[t].key)
      rest == Rest(t, u)
  IN /\ job[t].pc = "inherit" /\ u \in job[t].left
     /\ grants' = [grants EXCEPT ![u] = Row(@, level, k, TRUE)]
     /\ since' = IF job[t].key = 0 THEN since ELSE Redone(u, job[t].sure)
     /\ Set(t, IF rest = NoJob THEN rest ELSE [rest EXCEPT !.pc = "folder"])
     /\ UNCHANGED <<file, olds, name, link, sigs, uploads, restores, flows>>

(* The form on the page of the file sends no key, and the server stores    *)
(* that over one there is.                                                 *)
GrantPlain(t, u, level) ==
  /\ t \in OwnerTabs /\ job[t] = NoJob /\ flows < MaxFlows
  /\ flows' = flows + 1
  /\ Granted(u, level, 0, FALSE)
  /\ UNCHANGED <<file, olds, name, link, sigs, job, uploads, restores>>

(* The dialog of accesses lists the rows once and changes them one by one. *)
OpenAccess(t) ==
  /\ t \in OwnerTabs
  /\ Begin(t, "access", {<<u, grants[u].row>> : u \in {v \in Others : grants[v].level # "none"}})

\* Mutant: saving a change brings a revoked row back.
ActiveAgain(u, row, level) == grants[u].row = row

(* A change to a row revoked meanwhile stays on that row.                  *)
Active(u, row, level) == grants[u].row = row /\ grants[u].level # "none"

SaveLevel(t, u, row, level) ==
  /\ job[t].pc = "access" /\ <<u, row>> \in job[t].left
  /\ grants' = IF Active(u, row, level) THEN [grants EXCEPT ![u].level = level] ELSE grants
  /\ UNCHANGED <<file, olds, name, link, sigs, job, uploads, restores, flows, since>>

\* Mutant: the key stays in the row.
RevokedKeepingKey(g) == [g EXCEPT !.level = "none", !.inherited = FALSE]

Revoked(g) == [g EXCEPT !.level = "none", !.key = 0, !.inherited = FALSE]

Revoke(t, u, row) ==
  /\ job[t].pc = "access" /\ <<u, row>> \in job[t].left
  /\ grants' = IF Active(u, row, "none") THEN [grants EXCEPT ![u] = Revoked(@)] ELSE grants
  /\ since' = IF Active(u, row, "none") THEN since \ {u} ELSE since
  /\ Set(t, [job[t] EXCEPT !.left = @ \ {<<u, row>>}])
  /\ UNCHANGED <<file, olds, name, link, sigs, uploads, restores, flows>>

-----------------------------------------------------------------------------
(* Public links *)

CreateLink(t) == t \in OwnerTabs /\ Begin(t, "link", {})

(* The dialog of sharing without recipients, or outside the dashboard with *)
(* recipients who become the label of the link and are granted nothing.    *)
ShareByLink(t) == t \in OwnerTabs /\ Begin(t, "share link", {})

(* Without the key the link is made all the same.                          *)
LinkKey(t) ==
  /\ job[t].pc \in {"link", "share link"}
  /\ Fetched(t, IF job[t].pc = "link" THEN "publish" ELSE "publish once")
  /\ UNCHANGED <<file, olds, name, grants, link, sigs, uploads, restores, flows, since>>

(* Then the address goes to the clipboard; if that fails the dialog of     *)
(* links stays open and the next attempt makes another link.               *)
Publish(t) ==
  /\ job[t].pc \in {"publish", "publish once"}
  /\ link' = [made |-> TRUE, key |-> job[t].key]
  /\ since' = Redone("link", job[t].sure /\ job[t].key # 0)
  /\ \/ Finish(t)
     \/ job[t].pc = "publish" /\ Set(t, [NoJob EXCEPT !.pc = "link"])
  /\ UNCHANGED <<file, olds, name, grants, sigs, uploads, restores, flows>>

(* The form on the page of the file stores no key.                         *)
PublishPlain(t) ==
  /\ t \in OwnerTabs /\ job[t] = NoJob /\ flows < MaxFlows
  /\ flows' = flows + 1
  /\ link' = [made |-> TRUE, key |-> 0]
  /\ since' = since \ {"link"}
  /\ UNCHANGED <<file, olds, name, grants, sigs, job, uploads, restores>>

(* The page behind a link fetches the key when it opens, and the content   *)
(* each time the guest asks.                                               *)
Visit ==
  /\ link.made /\ job[guest] = NoJob /\ flows < MaxFlows
  /\ flows' = flows + 1
  /\ Set(guest, [NoJob EXCEPT !.pc = "visit", !.key = link.key, !.sure = "link" \in since])
  /\ UNCHANGED <<file, olds, name, grants, link, sigs, uploads, restores, since>>

Stream ==
  /\ job[guest].pc = "visit" /\ job[guest].key # 0
  /\ Set(guest, [job[guest] EXCEPT !.content = Streamed])
  /\ UNCHANGED <<file, olds, name, grants, link, sigs, uploads, restores, flows, since>>

-----------------------------------------------------------------------------
(* Reading: the content and its key are asked for at once *)

Download(t) ==
  /\ UserOf(t) \in Readers
  /\ Begin(t, "download", {"content", "key"})

(* downloadVersionAndDecrypt, with a number of the list of versions.       *)
DownloadVersion(t, n) ==
  /\ UserOf(t) \in Readers /\ job[t] = NoJob /\ flows < MaxFlows
  /\ flows' = flows + 1
  /\ Set(t, [NoJob EXCEPT !.pc = "download", !.left = {"content", "key"}, !.number = n,
                          !.sure = TRUE])
  /\ UNCHANGED <<file, olds, name, grants, link, sigs, uploads, restores, since>>

(* The row of a number; none, or more than one, is an error.               *)
RowsOf(n, now, before) ==
  IF n \in {0, now.number} THEN {now} ELSE {r \in before : r.number = n}
Asked(n) == RowsOf(n, file, olds)

Single(rows) == \E r \in rows : rows = {r}

(* get_version_key does not look at the row of the asker.                  *)
KeyOfVersion(u, r) == IF r.wrap = u THEN r.key ELSE 0

(* The list came with the encrypted names; the keys follow one by one.     *)
ReadNames(t) ==
  /\ UserOf(t) \in Readers /\ job[t] = NoJob /\ flows < MaxFlows
  /\ flows' = flows + 1
  /\ Set(t, [NoJob EXCEPT !.pc = "names", !.left = {"key"}, !.name = name,
                          !.sure = "name" \in since])
  /\ UNCHANGED <<file, olds, name, grants, link, sigs, uploads, restores, since>>

Received(t, what, j) ==
  [j EXCEPT !.left = @ \ {what},
            !.pc = IF j.left # {what} THEN @ ELSE IF @ = "names" THEN "listed" ELSE "look"]

FetchContent(t) ==
  LET rows == Asked(job[t].number) IN
  /\ job[t].pc = "download" /\ "content" \in job[t].left
  /\ IF UserOf(t) \in Readers /\ Single(rows)
     THEN \E r \in rows : Set(t, Received(t, "content", [job[t] EXCEPT !.content = r.key]))
     ELSE Finish(t)
  /\ UNCHANGED <<file, olds, name, grants, link, sigs, uploads, restores, flows, since>>

FetchKey(t) ==
  LET u == UserOf(t) IN
  /\ job[t].pc \in {"download", "names"} /\ "key" \in job[t].left /\ job[t].number = 0
  /\ IF u \in Readers
     THEN Set(t, Received(t, "key", [job[t] EXCEPT !.key = KeyOf(u),
                                                   !.sure = @ /\ Entitled(u)]))
     ELSE Finish(t)
  /\ UNCHANGED <<file, olds, name, grants, link, sigs, uploads, restores, flows, since>>

FetchVersionKey(t) ==
  LET u == UserOf(t)
      rows == Asked(job[t].number)
  IN /\ job[t].pc = "download" /\ "key" \in job[t].left /\ job[t].number # 0
     /\ IF u \in Readers /\ Single(rows)
        THEN \E r \in rows : Set(t, Received(t, "key",
               [job[t] EXCEPT !.key = KeyOfVersion(u, r), !.sure = @ /\ r.wrap = u]))
        ELSE Finish(t)
     /\ UNCHANGED <<file, olds, name, grants, link, sigs, uploads, restores, flows, since>>

(* The user closes the file, the list, the dialog or the page.             *)
Close(t) ==
  /\ job[t].pc \in {"look", "listed", "visit", "access"}
  /\ Finish(t)
  /\ UNCHANGED <<file, olds, name, grants, link, sigs, uploads, restores, flows, since>>

-----------------------------------------------------------------------------
(* Renaming and signing *)

Rename(t) == t \in OwnerTabs /\ Begin(t, "rename", {})

RenameKey(t) ==
  /\ job[t].pc = "rename"
  /\ IF KeyOf(owner) = 0 THEN Finish(t)
     ELSE Fetched(t, "renamed")
  /\ UNCHANGED <<file, olds, name, grants, link, sigs, uploads, restores, flows, since>>

StoreName(t) ==
  /\ job[t].pc = "renamed"
  /\ name' = [key |-> job[t].key, aad |-> owner]
  /\ since' = Redone("name", job[t].sure)
  /\ Finish(t)
  /\ UNCHANGED <<file, olds, grants, link, sigs, uploads, restores, flows>>

(* signFileAction: the content is downloaded, then its number asked for.   *)
Sign(t) == t \in OwnerTabs /\ Begin(t, "sign", {})

SignContent(t) ==
  /\ job[t].pc = "sign"
  /\ Set(t, [job[t] EXCEPT !.pc = "number", !.content = file.key])
  /\ UNCHANGED <<file, olds, name, grants, link, sigs, uploads, restores, flows, since>>

\* Mutant: the number is missing from the answer.
FirstNumber == 1

CurrentNumber == file.number

SignNumber(t) ==
  /\ job[t].pc = "number"
  /\ Set(t, [job[t] EXCEPT !.pc = "signed", !.number = CurrentNumber])
  /\ UNCHANGED <<file, olds, name, grants, link, sigs, uploads, restores, flows, since>>

(* A number that has a signature keeps it.                                 *)
StoreSignature(t) ==
  LET j == job[t] IN
  /\ j.pc = "signed"
  /\ sigs' = IF \E s \in sigs : s.number = j.number THEN sigs
             ELSE sigs \cup {[number |-> j.number, content |-> j.content, sure |-> j.sure]}
  /\ Finish(t)
  /\ UNCHANGED <<file, olds, name, grants, link, uploads, restores, flows, since>>

-----------------------------------------------------------------------------
Sharing(t) ==
  \/ \E to \in SUBSET Others : Share(t, to) \/ ShareFolder(t, to)
  \/ ShareKey(t) \/ FolderKey(t) \/ OpenAccess(t)
  \/ \E u \in Others : Skip(t, u)
  \/ \E u \in Others, level \in Levels \ {"none"} :
       \/ Grant(t, u, level) \/ Inherit(t, u, level) \/ GrantPlain(t, u, level)
       \/ \E row \in 1..MaxFlows : SaveLevel(t, u, row, level)
  \/ \E u \in Others, row \in 1..MaxFlows : Revoke(t, u, row)

Linking(t) == CreateLink(t) \/ ShareByLink(t) \/ LinkKey(t) \/ Publish(t) \/ PublishPlain(t)
Reading(t) ==
  \/ \E n \in Ids \ {0} : DownloadVersion(t, n)
  \/ Download(t) \/ ReadNames(t) \/ FetchContent(t) \/ FetchKey(t) \/ FetchVersionKey(t)
Signing(t) == Sign(t) \/ SignContent(t) \/ SignNumber(t) \/ StoreSignature(t)
Renaming(t) == Rename(t) \/ RenameKey(t) \/ StoreName(t)
Guest == Visit \/ Stream

Next ==
  \/ \E t \in Tabs :
       \/ UploadVersion(t) \/ Restore(t) \/ Fail(t) \/ Close(t)
       \/ Sharing(t) \/ Linking(t) \/ Reading(t) \/ Signing(t) \/ Renaming(t)
  \/ Guest

Spec == Init /\ [][Next]_vars
-----------------------------------------------------------------------------
(* Properties *)

\* What is downloaded opens, for the owner of a content he uploaded and for
\* whoever he shared the file with since: however tabs, recipients and uploads
\* interleave, the key a recipient was given and the one he is answered with are
\* those of the content that comes beside it (handleShare,
\* get_file_dek); and so does a version, for whoever uploaded it.
DownloadsOpen ==
  \A t \in Tabs : job[t].pc = "look" /\ job[t].sure => job[t].key = job[t].content

\* A link made since the content last changed opens it, whenever its page fetched
\* the key (handleShare, CreateLinkModal, the page behind the link).
LinksOpen ==
  job[guest].pc = "visit" /\ job[guest].content # 0 /\ job[guest].sure =>
    job[guest].key = job[guest].content

\* A name given since the content last changed can be read by the owner and by
\* those he shared the file with since (encryptFileNameForRename, decryptFileNames).
NamesOpen ==
  \A t \in Tabs : job[t].pc = "listed" /\ job[t].sure =>
    job[t].name = [key |-> job[t].key, aad |-> Identifier(UserOf(t))]

\* A signature is of a content that has had its number, unless the content changed
\* between the two requests that read them: later versions and restorations do
\* not turn it into a signature of something else (signFileAction).
SignaturesFit ==
  \A s \in sigs : s.sure =>
    \E r \in olds \cup {file} : r.number = s.number /\ r.key = s.content

\* What the owner has redone since the content last changed is made with the
\* key it has now, and no row that was revoked keeps a key.
DataSound ==
  /\ file.number <= uploads /\ \A r \in olds \cup {file} : r.key # 0
  /\ \A u \in Others :
       /\ u \in since => grants[u].key = file.key
       /\ grants[u].level = "none" => grants[u].key = 0
  /\ "link" \in since => link.key = file.key
  /\ "name" \in since => name = [key |-> file.key, aad |-> owner]

\* The one row of the number asked for has the key that was received.
IsOf(k, n, now, before) ==
  \E r \in RowsOf(n, now, before) : RowsOf(n, now, before) = {r} /\ k = r.key

\* What a job has received it received since the content last changed, as long
\* as it is sure; a signature fits the content whose number it will store.
JobSound(j, now, before) ==
  /\ j.pc \in {"look", "listed"} => j.left = {}
  /\ j.pc = "names" => j.left = {"key"}
  /\ j.sure =>
       /\ j.pc \in {"grant", "inherit", "publish", "publish once", "renamed"} =>
            j.key = KeyOfVersion(owner, now)
       /\ j.pc \in {"grant", "renamed"} => j.key # 0
       /\ j.pc = "visit" => j.key = now.key /\ j.content \in {0, now.key}
       /\ j.pc \in {"download", "look"} =>
            /\ "content" \notin j.left => IsOf(j.content, j.number, now, before)
            /\ "key" \notin j.left => IsOf(j.key, j.number, now, before)
       /\ j.pc \in {"names", "listed"} => j.name = [key |-> now.key, aad |-> owner]
       /\ j.pc = "listed" => j.key = now.key
       /\ j.pc = "number" => j.content = now.key
       /\ j.pc = "signed" => \E r \in before \cup {now} : r.number = j.number /\ r.key = j.content

\* The inductive invariant of the proofs: the types, what the history variable
\* says of the rows, what the jobs carry between their calls (handleShare,
\* useCrypto, the dialogs), and that signatures fit.
IInv ==
  /\ TypeOK /\ DataSound /\ SignaturesFit
  /\ \A t \in Tabs : JobSound(job[t], file, olds)

\* Whoever was revoked comes back by a new grant only: saving what a dialog of
\* accesses has listed before does not bring him back (handleSaveChanges).
RevokedStays ==
  [][\A u \in Others : grants[u].level = "none" /\ grants'[u].level # "none" =>
       grants'[u].row > grants[u].row]_vars

\* The key a user is answered with is that of the file, for the owner and for those
\* who were given one.  The docstring of get_file_dek says so; the code does not
\* keep it over an upload of a version.
KeyIsTheFiles ==
  \A u \in Users : u = owner \/ grants[u].key # 0 => KeyOf(u) = file.key
=============================================================================
