------------------------- MODULE SharedFile_proofs -------------------------
(* Proofs about SharedFile: what is received opens, whatever is shared,    *)
(* uploaded, restored, renamed and signed meanwhile.                       *)
EXTENDS SharedFile, TLAPS

(* What no job changes but by its own step. *)
data == <<file, olds, name, grants, link, sigs, uploads, restores, since>>

(* The job of a tab becomes one that is sound. *)
Goes(t) == \E j \in Job : JobSound(j, file, olds) /\ Set(t, j)

LEMMA OwnersKey == KeyOf(owner) = KeyOfVersion(owner, file)
  BY DEF KeyOf, KeyOfVersion, Answered

LEMMA KeysTyped ==
  ASSUME TypeOK, NEW u \in Users
  PROVE  KeyOf(u) \in Ids /\ file.key \in Ids /\ file.number \in Ids /\ 0 \in Ids
  BY SharedAssumption DEF TypeOK, KeyOf, Answered, Rows, Users, Ids

LEMMA LeftsTyped ==
  /\ {} \in Lefts /\ {"key"} \in Lefts /\ {"content", "key"} \in Lefts
  /\ \A to \in SUBSET Others : to \in Lefts
  /\ \A left \in Lefts : \A x : left \ {x} \in Lefts
  BY DEF Lefts

LEMMA NoJobSound == NoJob \in Job /\ JobSound(NoJob, file, olds)
  <1>1. NoJob \in Job
    BY LeftsTyped, SharedAssumption DEF NoJob, Job, Steps, Ids, Names, Users
  <1>2. JobSound(NoJob, file, olds)
    BY DEF NoJob, JobSound
  <1> QED BY <1>1, <1>2

(* The row of a number in the type of rows. *)
LEMMA AskedTyped ==
  ASSUME TypeOK, NEW n, NEW r \in Asked(n)
  PROVE  r \in Rows
  BY DEF TypeOK, Asked, RowsOf

-----------------------------------------------------------------------------
(* Steps that leave the file alone *)

LEMMA JobsKept ==
  ASSUME TypeOK, \A s \in Tabs : JobSound(job[s], file, olds), NEW t \in Tabs, Goes(t),
         file' = file, olds' = olds
  PROVE  job' \in [Tabs -> Job] /\ \A s \in Tabs : JobSound(job[s], file, olds)'
  <1> PICK j \in Job : JobSound(j, file, olds) /\ job' = [job EXCEPT ![t] = j]
    BY DEF Goes, Set
  <1>1. job' \in [Tabs -> Job]
    BY DEF TypeOK
  <1>2. ASSUME NEW s \in Tabs PROVE JobSound(job[s], file, olds)'
    <2>1. job'[s] = IF s = t THEN j ELSE job[s]
      BY DEF TypeOK
    <2> QED BY <2>1
  <1> QED BY <1>1, <1>2

LEMMA OnlyJob ==
  ASSUME IInv, NEW t \in Tabs, Goes(t), UNCHANGED data, flows' \in 0..MaxFlows
  PROVE  IInv'
  <1>1. job' \in [Tabs -> Job] /\ \A s \in Tabs : JobSound(job[s], file, olds)'
    BY JobsKept DEF IInv, data
  <1>2. TypeOK'
    BY <1>1 DEF IInv, TypeOK, data
  <1>3. DataSound' /\ SignaturesFit'
    BY DEF IInv, DataSound, SignaturesFit, data
  <1> QED BY <1>1, <1>2, <1>3 DEF IInv

LEMMA FlowsKept ==
  ASSUME IInv, flows' = flows \/ (flows < MaxFlows /\ flows' = flows + 1)
  PROVE  flows' \in 0..MaxFlows
  BY SharedAssumption DEF IInv, TypeOK

LEMMA FinishSound ==
  ASSUME NEW t \in Tabs, Finish(t)
  PROVE  Goes(t)
  BY NoJobSound DEF Finish, Goes

LEMMA BeginSound ==
  ASSUME IInv, NEW t \in Tabs, NEW left \in Lefts,
         NEW pc \in {"share", "folder", "access", "link", "share link", "download", "rename",
                     "sign"},
         pc = "download" => left = {"content", "key"},
         Begin(t, pc, left)
  PROVE  IInv'
  <1> PICK j : j = [NoJob EXCEPT !.pc = pc, !.left = left, !.sure = TRUE]
    OBVIOUS
  <1>1. j \in Job
    BY NoJobSound DEF Job, Steps
  <1>2. j.pc = pc /\ j.left = left
    BY NoJobSound DEF Job
  <1>3. JobSound(j, file, olds)
    BY <1>2 DEF JobSound
  <1>4. Goes(t)
    BY <1>1, <1>3 DEF Goes, Begin
  <1>5. flows' \in 0..MaxFlows
    BY FlowsKept DEF Begin
  <1> QED BY <1>4, <1>5, OnlyJob DEF Begin, data

(* A fetched key of the file, wrapped for the owner. *)
LEMMA FetchedSound ==
  ASSUME IInv, NEW t \in Tabs,
         NEW pc \in {"grant", "inherit", "publish", "publish once", "renamed"},
         pc \in {"grant", "renamed"} => KeyOf(owner) # 0,
         Fetched(t, pc)
  PROVE  Goes(t)
  <1> PICK j : j = [job[t] EXCEPT !.pc = pc, !.key = KeyOf(owner), !.sure = TRUE]
    OBVIOUS
  <1>1. KeyOf(owner) \in Ids
    BY KeysTyped DEF IInv, Users
  <1>2. job[t] \in Job
    BY DEF IInv, TypeOK
  <1>3. j \in Job /\ j.pc = pc /\ j.key = KeyOf(owner)
    BY <1>1, <1>2 DEF Job, Steps
  <1>4. JobSound(j, file, olds)
    BY <1>3, OwnersKey DEF JobSound
  <1> QED BY <1>3, <1>4 DEF Goes, Fetched

LEMMA KeyFetches ==
  ASSUME IInv, NEW t \in Tabs,
         ShareKey(t) \/ FolderKey(t) \/ LinkKey(t) \/ RenameKey(t)
  PROVE  IInv'
  <1>1. CASE ShareKey(t)
    <2>1. Goes(t)
      BY <1>1, FinishSound, FetchedSound DEF ShareKey
    <2> QED BY <1>1, <2>1, OnlyJob, FlowsKept DEF ShareKey, data
  <1>2. CASE FolderKey(t)
    <2>1. Goes(t)
      BY <1>2, FetchedSound DEF FolderKey
    <2> QED BY <1>2, <2>1, OnlyJob, FlowsKept DEF FolderKey, data
  <1>3. CASE LinkKey(t)
    <2>1. Goes(t)
      BY <1>3, FetchedSound DEF LinkKey
    <2> QED BY <1>3, <2>1, OnlyJob, FlowsKept DEF LinkKey, data
  <1>4. CASE RenameKey(t)
    <2>1. Goes(t)
      BY <1>4, FinishSound, FetchedSound DEF RenameKey
    <2> QED BY <1>4, <2>1, OnlyJob, FlowsKept DEF RenameKey, data
  <1> QED BY <1>1, <1>2, <1>3, <1>4

(* A job that goes on with the next recipient stays what it is. *)
LEMMA RestSound ==
  ASSUME IInv, NEW t \in Tabs, NEW u, job[t].pc \in {"grant", "inherit"}
  PROVE  /\ Rest(t, u) \in Job /\ JobSound(Rest(t, u), file, olds)
         /\ Rest(t, u) = NoJob \/ Rest(t, u) = [job[t] EXCEPT !.left = @ \ {u}]
  <1> PICK j : j = [job[t] EXCEPT !.left = @ \ {u}]
    OBVIOUS
  <1>1. job[t] \in Job /\ JobSound(job[t], file, olds)
    BY DEF IInv, TypeOK
  <1>2. /\ j \in Job /\ j.pc = job[t].pc /\ j.sure = job[t].sure /\ j.key = job[t].key
    BY <1>1, LeftsTyped DEF Job
  <1>3. JobSound(j, file, olds)
    BY <1>1, <1>2 DEF JobSound
  <1> QED BY <1>2, <1>3, NoJobSound DEF Rest

LEMMA SkipSound ==
  ASSUME IInv, NEW t \in Tabs, NEW u, Skip(t, u)
  PROVE  IInv'
  <1>1. Rest(t, u) \in Job /\ JobSound(Rest(t, u), file, olds)
    BY RestSound DEF Skip
  <1>2. Goes(t)
    BY <1>1 DEF Skip, Goes
  <1> QED BY <1>2, OnlyJob, FlowsKept DEF Skip, data

LEMMA EndSound ==
  ASSUME IInv, NEW t \in Tabs, Fail(t) \/ Close(t)
  PROVE  IInv'
  BY FinishSound, OnlyJob, FlowsKept DEF Fail, Close, data

-----------------------------------------------------------------------------
(* Reading and signing *)

LEMMA BeginnersSound ==
  ASSUME IInv, NEW t \in Tabs,
         \/ \E to \in SUBSET Others : Share(t, to) \/ ShareFolder(t, to)
         \/ OpenAccess(t) \/ CreateLink(t) \/ ShareByLink(t) \/ Download(t) \/ Rename(t)
         \/ Sign(t)
  PROVE  IInv'
  <1>1. ASSUME NEW to \in SUBSET Others, Share(t, to) \/ ShareFolder(t, to) PROVE IInv'
    BY <1>1, LeftsTyped, BeginSound DEF Share, ShareFolder
  <1>2. CASE OpenAccess(t)
    <2>1. {<<u, grants[u].row>> : u \in {v \in Others : grants[v].level # "none"}} \in Lefts
      BY DEF IInv, TypeOK, Lefts
    <2> QED BY <1>2, <2>1, BeginSound DEF OpenAccess
  <1>3. CASE CreateLink(t) \/ ShareByLink(t) \/ Rename(t) \/ Sign(t)
    BY <1>3, LeftsTyped, BeginSound DEF CreateLink, ShareByLink, Rename, Sign
  <1>4. CASE Download(t)
    BY <1>4, LeftsTyped, BeginSound DEF Download
  <1> QED BY <1>1, <1>2, <1>3, <1>4

LEMMA VisitSound ==
  ASSUME IInv, guest \in Tabs, Visit
  PROVE  IInv'
  <1> PICK j : j = [NoJob EXCEPT !.pc = "visit", !.key = link.key, !.sure = "link" \in since]
    OBVIOUS
  <1>1. link.key \in Ids
    BY DEF IInv, TypeOK
  <1> PICK sure \in BOOLEAN : sure = ("link" \in since)
    <2>1. ("link" \in since) \in BOOLEAN
      OBVIOUS
    <2> WITNESS ("link" \in since) \in BOOLEAN
    <2> QED OBVIOUS
  <1>2. /\ j \in Job /\ j.pc = "visit" /\ j.key = link.key /\ j.content = 0 /\ j.sure = sure
    <2>1. j = [NoJob EXCEPT !.pc = "visit", !.key = link.key, !.sure = sure]
      OBVIOUS
    <2> QED BY <2>1, <1>1, NoJobSound DEF NoJob, Job, Steps
  <1>3. JobSound(j, file, olds)
    BY <1>2 DEF JobSound, IInv, DataSound
  <1>4. Goes(guest)
    BY <1>2, <1>3 DEF Goes, Visit
  <1> QED BY <1>4, OnlyJob, FlowsKept DEF Visit, data

LEMMA StreamSound ==
  ASSUME IInv, guest \in Tabs, Stream
  PROVE  IInv'
  <1> PICK j : j = [job[guest] EXCEPT !.content = Streamed]
    OBVIOUS
  <1>1. job[guest] \in Job /\ JobSound(job[guest], file, olds) /\ file.key \in Ids
    BY KeysTyped DEF IInv, TypeOK, Users
  <1>2. /\ j \in Job /\ j.pc = "visit" /\ j.key = job[guest].key /\ j.content = file.key
        /\ j.sure = job[guest].sure
    BY <1>1 DEF Job, Streamed, Stream
  <1>3. JobSound(j, file, olds)
    BY <1>1, <1>2 DEF JobSound, Stream
  <1>4. Goes(guest)
    BY <1>2, <1>3 DEF Goes, Stream
  <1> QED BY <1>4, OnlyJob, FlowsKept DEF Stream, data

LEMMA DownloadVersionSound ==
  ASSUME IInv, NEW t \in Tabs, NEW n \in Ids, DownloadVersion(t, n)
  PROVE  IInv'
  <1> PICK j : j = [NoJob EXCEPT !.pc = "download", !.left = {"content", "key"}, !.number = n,
                                 !.sure = TRUE]
    OBVIOUS
  <1>1. j \in Job /\ j.pc = "download" /\ j.left = {"content", "key"}
    BY NoJobSound, LeftsTyped DEF Job, Steps
  <1>2. JobSound(j, file, olds)
    BY <1>1 DEF JobSound
  <1>3. Goes(t)
    BY <1>1, <1>2 DEF Goes, DownloadVersion
  <1> QED BY <1>3, OnlyJob, FlowsKept DEF DownloadVersion, data

LEMMA ReadNamesSound ==
  ASSUME IInv, NEW t \in Tabs, ReadNames(t)
  PROVE  IInv'
  <1> PICK j : j = [NoJob EXCEPT !.pc = "names", !.left = {"key"}, !.name = name,
                                 !.sure = "name" \in since]
    OBVIOUS
  <1>1. name \in Names
    BY DEF IInv, TypeOK
  <1> PICK sure \in BOOLEAN : sure = ("name" \in since)
    <2>1. ("name" \in since) \in BOOLEAN
      OBVIOUS
    <2> WITNESS ("name" \in since) \in BOOLEAN
    <2> QED OBVIOUS
  <1>2. /\ j \in Job /\ j.pc = "names" /\ j.left = {"key"} /\ j.name = name /\ j.sure = sure
    <2>1. j = [NoJob EXCEPT !.pc = "names", !.left = {"key"}, !.name = name, !.sure = sure]
      OBVIOUS
    <2> QED BY <2>1, <1>1, NoJobSound, LeftsTyped DEF Job, Steps
  <1>3. JobSound(j, file, olds)
    BY <1>2 DEF JobSound, IInv, DataSound
  <1>4. Goes(t)
    BY <1>2, <1>3 DEF Goes, ReadNames
  <1> QED BY <1>4, OnlyJob, FlowsKept DEF ReadNames, data

LEMMA FetchContentSound ==
  ASSUME IInv, NEW t \in Tabs, FetchContent(t)
  PROVE  IInv'
  <1>1. CASE Finish(t)
    BY <1>1, FinishSound, OnlyJob, FlowsKept DEF FetchContent, data
  <1>2. ASSUME NEW r \in Asked(job[t].number), Single(Asked(job[t].number)),
               Set(t, Received(t, "content", [job[t] EXCEPT !.content = r.key]))
        PROVE  IInv'
    <2> PICK i : i = [job[t] EXCEPT !.content = r.key]
      OBVIOUS
    <2> PICK j : j = Received(t, "content", i)
      OBVIOUS
    <2>1. job[t] \in Job /\ JobSound(job[t], file, olds) /\ r.key \in Ids
      BY AskedTyped DEF IInv, TypeOK, Rows
    <2>2. /\ i \in Job /\ i.pc = "download" /\ i.left = job[t].left /\ i.key = job[t].key
          /\ i.content = r.key /\ i.number = job[t].number /\ i.sure = job[t].sure
      BY <2>1 DEF Job, FetchContent
    <2>3. IsOf(r.key, i.number, file, olds)
      BY <1>2, <2>2 DEF IsOf, Single, Asked
    <2>4. /\ j \in Job /\ j.left = i.left \ {"content"} /\ j.key = i.key /\ j.content = r.key
          /\ j.number = i.number /\ j.sure = i.sure
          /\ j.pc = IF i.left # {"content"} THEN "download" ELSE "look"
      <3>1. i.pc \in {"download", "names"} /\ i.pc # "names" /\ i \in Job
        BY <2>2
      <3> QED BY <2>2, <3>1, LeftsTyped DEF Received, Job, Steps
    <2>5. JobSound(j, file, olds)
      BY <2>1, <2>2, <2>3, <2>4 DEF JobSound, FetchContent
    <2>6. Goes(t)
      BY <1>2, <2>4, <2>5 DEF Goes
    <2> QED BY <2>6, OnlyJob, FlowsKept DEF FetchContent, data
  <1> QED BY <1>1, <1>2 DEF FetchContent

LEMMA EntitledKey ==
  ASSUME IInv, NEW u \in Readers
  PROVE  KeyOf(u) \in Ids /\ (Entitled(u) => KeyOf(u) = file.key)
  <1>1. KeyOf(u) \in Ids
    BY KeysTyped DEF IInv, Readers, Users
  <1>2. ASSUME Entitled(u), u = owner PROVE KeyOf(u) = file.key
    BY <1>2, OwnersKey DEF Entitled, KeyOfVersion
  <1>3. ASSUME Entitled(u), u # owner PROVE KeyOf(u) = file.key
    <2>1. u \in Others /\ u \in since
      BY <1>3 DEF Entitled, Readers
    <2>2. grants[u].key = file.key /\ file.key # 0
      BY <2>1 DEF IInv, DataSound
    <2> QED BY <1>3, <2>2 DEF KeyOf, Answered
  <1> QED BY <1>1, <1>2, <1>3

(* A key has been received that is that of the one row asked for. *)
LEMMA ReceivesKey ==
  ASSUME IInv, NEW t \in Tabs, NEW k \in Ids, NEW sure \in BOOLEAN,
         job[t].pc \in {"download", "names"},
         sure => job[t].sure /\ IsOf(k, job[t].number, file, olds),
         sure /\ job[t].pc = "names" => k = file.key,
         Set(t, Received(t, "key", [job[t] EXCEPT !.key = k, !.sure = sure]))
  PROVE  Goes(t)
  <1> PICK i : i = [job[t] EXCEPT !.key = k, !.sure = sure]
    OBVIOUS
  <1> PICK j : j = Received(t, "key", i)
    OBVIOUS
  <1>1. job[t] \in Job /\ JobSound(job[t], file, olds)
    BY DEF IInv, TypeOK
  <1>2. /\ i \in Job /\ i.pc = job[t].pc /\ i.left = job[t].left /\ i.key = k
        /\ i.content = job[t].content /\ i.number = job[t].number /\ i.sure = sure
        /\ i.name = job[t].name
    BY <1>1 DEF Job
  <1>3. /\ j \in Job /\ j.left = i.left \ {"key"} /\ j.key = k /\ j.content = i.content
        /\ j.number = i.number /\ j.sure = sure /\ j.name = i.name
        /\ j.pc = IF i.left # {"key"} THEN i.pc
                  ELSE IF i.pc = "names" THEN "listed" ELSE "look"
    BY <1>2, LeftsTyped DEF Received, Job, Steps
  <1>4. JobSound(j, file, olds)
    BY <1>1, <1>2, <1>3 DEF JobSound
  <1> QED BY <1>3, <1>4 DEF Goes

LEMMA FetchKeySound ==
  ASSUME IInv, NEW t \in Tabs, FetchKey(t)
  PROVE  IInv'
  <1>1. CASE Finish(t)
    BY <1>1, FinishSound, OnlyJob, FlowsKept DEF FetchKey, data
  <1>2. ASSUME NEW u \in Readers,
               Set(t, Received(t, "key", [job[t] EXCEPT !.key = KeyOf(u),
                                                        !.sure = @ /\ Entitled(u)]))
        PROVE  IInv'
    <2> PICK sure \in BOOLEAN : sure = (job[t].sure /\ Entitled(u))
      <3>1. (job[t].sure /\ Entitled(u)) \in BOOLEAN
        OBVIOUS
      <3> WITNESS (job[t].sure /\ Entitled(u)) \in BOOLEAN
      <3> QED OBVIOUS
    <2>1. KeyOf(u) \in Ids /\ (sure => job[t].sure /\ KeyOf(u) = file.key)
      BY EntitledKey
    <2>2. IsOf(file.key, 0, file, olds)
      BY DEF IsOf, RowsOf
    <2>3. Set(t, Received(t, "key", [job[t] EXCEPT !.key = KeyOf(u), !.sure = sure]))
      BY <1>2
    <2>4. Goes(t)
      BY <2>1, <2>2, <2>3, ReceivesKey DEF FetchKey
    <2> QED BY <2>4, OnlyJob, FlowsKept DEF FetchKey, data
  <1> QED BY <1>1, <1>2 DEF FetchKey

LEMMA FetchVersionKeySound ==
  ASSUME IInv, NEW t \in Tabs, FetchVersionKey(t)
  PROVE  IInv'
  <1>1. CASE Finish(t)
    BY <1>1, FinishSound, OnlyJob, FlowsKept DEF FetchVersionKey, data
  <1>2. ASSUME NEW u \in Readers, NEW r \in Asked(job[t].number),
               Single(Asked(job[t].number)),
               Set(t, Received(t, "key", [job[t] EXCEPT !.key = KeyOfVersion(u, r),
                                                        !.sure = @ /\ r.wrap = u]))
        PROVE  IInv'
    <2> PICK sure \in BOOLEAN : sure = (job[t].sure /\ r.wrap = u)
      <3>1. (job[t].sure /\ r.wrap = u) \in BOOLEAN
        OBVIOUS
      <3> WITNESS (job[t].sure /\ r.wrap = u) \in BOOLEAN
      <3> QED OBVIOUS
    <2>1. KeyOfVersion(u, r) \in Ids /\ (sure => job[t].sure /\ KeyOfVersion(u, r) = r.key)
      <3>1. r.key \in Ids /\ 0 \in Ids
        BY AskedTyped, SharedAssumption DEF IInv, Rows, Ids
      <3>2. KeyOfVersion(u, r) \in Ids
        BY <3>1 DEF KeyOfVersion
      <3>3. sure => job[t].sure /\ KeyOfVersion(u, r) = r.key
        BY DEF KeyOfVersion
      <3> QED BY <3>2, <3>3
    <2>2. IsOf(r.key, job[t].number, file, olds)
      BY <1>2 DEF IsOf, Single, Asked
    <2>3. Set(t, Received(t, "key", [job[t] EXCEPT !.key = KeyOfVersion(u, r), !.sure = sure]))
      BY <1>2
    <2>4. Goes(t)
      BY <2>1, <2>2, <2>3, ReceivesKey DEF FetchVersionKey
    <2> QED BY <2>4, OnlyJob, FlowsKept DEF FetchVersionKey, data
  <1> QED BY <1>1, <1>2 DEF FetchVersionKey

LEMMA SignContentSound ==
  ASSUME IInv, NEW t \in Tabs, SignContent(t)
  PROVE  IInv'
  <1> PICK j : j = [job[t] EXCEPT !.pc = "number", !.content = file.key]
    OBVIOUS
  <1>1. job[t] \in Job /\ file.key \in Ids
    BY KeysTyped DEF IInv, TypeOK, Users
  <1>2. j \in Job /\ j.pc = "number" /\ j.content = file.key
    BY <1>1 DEF Job, Steps
  <1>3. JobSound(j, file, olds)
    BY <1>2 DEF JobSound
  <1>4. Goes(t)
    BY <1>2, <1>3 DEF Goes, SignContent
  <1> QED BY <1>4, OnlyJob, FlowsKept DEF SignContent, data

LEMMA SignNumberSound ==
  ASSUME IInv, NEW t \in Tabs, SignNumber(t)
  PROVE  IInv'
  <1> PICK j : j = [job[t] EXCEPT !.pc = "signed", !.number = CurrentNumber]
    OBVIOUS
  <1>1. job[t] \in Job /\ JobSound(job[t], file, olds) /\ file.number \in Ids
    BY KeysTyped DEF IInv, TypeOK, Users
  <1>2. /\ j \in Job /\ j.pc = "signed" /\ j.content = job[t].content /\ j.number = file.number
        /\ j.sure = job[t].sure
    BY <1>1 DEF Job, Steps, CurrentNumber
  <1>3. JobSound(j, file, olds)
    BY <1>1, <1>2 DEF JobSound, SignNumber
  <1>4. Goes(t)
    BY <1>2, <1>3 DEF Goes, SignNumber
  <1> QED BY <1>4, OnlyJob, FlowsKept DEF SignNumber, data

-----------------------------------------------------------------------------
(* Rows, links, names and signatures *)

Grants == [level : Levels, key : Ids, inherited : BOOLEAN, row : Nat]

(* One row of the others changes, with the jobs sound as before. *)
LEMMA RowChange ==
  ASSUME IInv, job' \in [Tabs -> Job], \A s \in Tabs : JobSound(job[s], file, olds)',
         NEW u \in Others, NEW g \in Grants, grants' = [grants EXCEPT ![u] = g],
         since' \in {since, since \ {u}, since \cup {u}},
         u \in since' => g.key = file.key,
         g.level = "none" => g.key = 0,
         UNCHANGED <<file, olds, name, link, sigs, uploads, restores>>,
         flows' \in 0..MaxFlows
  PROVE  IInv'
  <1>1. TypeOK'
    <2>1. grants' \in [Others -> Grants]
      BY DEF IInv, TypeOK, Grants
    <2>2. since' \subseteq Others \cup {"name", "link"}
      BY DEF IInv, TypeOK
    <2> QED BY <2>1, <2>2 DEF IInv, TypeOK, Grants
  <1>2. DataSound'
    <2>1. \A v \in Others : /\ v \in since' => grants'[v].key = file.key
                            /\ grants'[v].level = "none" => grants'[v].key = 0
      BY DEF IInv, TypeOK, DataSound
    <2>2. /\ "link" \in since' => "link" \in since
          /\ "name" \in since' => "name" \in since
      BY SharedAssumption
    <2> QED BY <2>1, <2>2 DEF IInv, DataSound
  <1>3. SignaturesFit'
    BY DEF IInv, SignaturesFit
  <1> QED BY <1>1, <1>2, <1>3 DEF IInv

LEMMA RowTyped ==
  ASSUME NEW g \in Grants, NEW level \in Levels \ {"none"}, NEW k \in Ids,
         NEW inherited \in BOOLEAN
  PROVE  /\ Row(g, level, k, inherited) \in Grants
         /\ Row(g, level, k, inherited).key = k
         /\ Row(g, level, k, inherited).level = level
  BY DEF Row, Grants, Levels

LEMMA GrantedSound ==
  ASSUME IInv, job' \in [Tabs -> Job], \A s \in Tabs : JobSound(job[s], file, olds)',
         NEW u \in Others, NEW level \in Levels \ {"none"}, NEW k \in Ids, NEW sure \in BOOLEAN,
         sure => k = file.key,
         Granted(u, level, k, sure),
         UNCHANGED <<file, olds, name, link, sigs, uploads, restores>>,
         flows' \in 0..MaxFlows
  PROVE  IInv'
  <1>1. grants[u] \in Grants
    BY DEF IInv, TypeOK, Grants
  <1>2. CASE grants[u].inherited
    <2>1. grants' = [grants EXCEPT ![u] = grants[u]] /\ since' = since
      BY <1>2 DEF Granted, IInv, TypeOK
    <2> QED BY <1>1, <2>1, RowChange DEF IInv, DataSound
  <1>3. CASE ~grants[u].inherited
    <2> PICK g \in Grants : g = Row(grants[u], level, k, FALSE)
      BY <1>1, RowTyped
    <2>1. g.key = k /\ g.level # "none"
      BY <1>1, RowTyped
    <2>2. grants' = [grants EXCEPT ![u] = g] /\ since' = Redone(u, sure)
      BY <1>3 DEF Granted
    <2>3. since' \in {since \ {u}, since \cup {u}} /\ (u \in since' => g.key = file.key)
      BY <2>1, <2>2 DEF Redone
    <2> QED BY <2>1, <2>2, <2>3, RowChange
  <1> QED BY <1>2, <1>3

LEMMA GrantSound ==
  ASSUME IInv, NEW t \in Tabs, NEW u \in Others, NEW level \in Levels \ {"none"},
         Grant(t, u, level)
  PROVE  IInv'
  <1>1. Goes(t)
    <2>1. Rest(t, u) \in Job /\ JobSound(Rest(t, u), file, olds)
      BY RestSound DEF Grant
    <2> QED BY <2>1 DEF Grant, Goes
  <1>2. job' \in [Tabs -> Job] /\ \A s \in Tabs : JobSound(job[s], file, olds)'
    BY <1>1, JobsKept DEF IInv, Grant
  <1>3. job[t] \in Job /\ JobSound(job[t], file, olds)
    BY DEF IInv, TypeOK
  <1> PICK j \in Job : j = job[t]
    BY <1>3
  <1>4. j.key \in Ids /\ j.sure \in BOOLEAN
    BY DEF Job
  <1>5. j.sure => j.key = file.key
    BY <1>3 DEF JobSound, KeyOfVersion, Grant
  <1>6. Granted(u, level, j.key, j.sure)
    BY DEF Grant
  <1>7. flows' \in 0..MaxFlows
    BY FlowsKept DEF Grant
  <1> QED BY <1>2, <1>4, <1>5, <1>6, <1>7, GrantedSound DEF Grant

LEMMA GrantPlainSound ==
  ASSUME IInv, NEW t \in Tabs, NEW u \in Others, NEW level \in Levels \ {"none"},
         GrantPlain(t, u, level)
  PROVE  IInv'
  <1>1. job' \in [Tabs -> Job] /\ \A s \in Tabs : JobSound(job[s], file, olds)'
    BY DEF IInv, TypeOK, GrantPlain
  <1>2. 0 \in Ids /\ flows' \in 0..MaxFlows
    BY FlowsKept, SharedAssumption DEF GrantPlain, Ids
  <1> QED BY <1>1, <1>2, GrantedSound DEF GrantPlain

LEMMA InheritSound ==
  ASSUME IInv, NEW t \in Tabs, NEW u \in Others, NEW level \in Levels \ {"none"},
         Inherit(t, u, level)
  PROVE  IInv'
  <1> PICK rest : rest = Rest(t, u)
    OBVIOUS
  <1>1. rest \in Job /\ JobSound(rest, file, olds) /\ NoJob \in Job /\ JobSound(NoJob, file, olds)
    BY RestSound, NoJobSound DEF Inherit
  <1>2. Goes(t)
    <2>1. CASE rest = NoJob
      BY <1>1, <2>1 DEF Inherit, Goes
    <2>2. CASE rest # NoJob
      <3> PICK j : j = [rest EXCEPT !.pc = "folder"]
        OBVIOUS
      <3>1. j \in Job /\ j.pc = "folder"
        BY <1>1 DEF Job, Steps
      <3>2. JobSound(j, file, olds)
        BY <3>1 DEF JobSound
      <3> QED BY <2>2, <3>1, <3>2 DEF Inherit, Goes
    <2> QED BY <2>1, <2>2
  <1>3. job' \in [Tabs -> Job] /\ \A s \in Tabs : JobSound(job[s], file, olds)'
    BY <1>2, JobsKept DEF IInv, Inherit
  <1>4. /\ job[t] \in Job /\ JobSound(job[t], file, olds)
        /\ grants[u] \in Grants /\ 0 \in Ids
    BY SharedAssumption DEF IInv, TypeOK, Grants, Ids
  <1> PICK k \in Ids : k = NewestKey(grants[u].key, job[t].key)
    BY <1>4 DEF NewestKey, Grants, Job
  <1> PICK g \in Grants : g = Row(grants[u], level, k, TRUE)
    BY <1>4, RowTyped
  <1>5. g.key = k /\ g.level # "none"
    BY DEF Row
  <1>6. grants' = [grants EXCEPT ![u] = g]
    BY DEF Inherit
  <1>7. since' \in {since, since \ {u}, since \cup {u}} /\ (u \in since' => k = file.key)
    <2>1. CASE job[t].key = 0
      BY <2>1 DEF Inherit, NewestKey, IInv, DataSound
    <2>2. CASE job[t].key # 0
      <3>1. k = job[t].key /\ (job[t].sure => k = file.key)
        BY <1>4, <2>2 DEF NewestKey, JobSound, KeyOfVersion, Inherit
      <3> QED BY <2>2, <3>1 DEF Inherit, Redone
    <2> QED BY <2>1, <2>2
  <1>8. flows' \in 0..MaxFlows
    BY FlowsKept DEF Inherit
  <1> QED BY <1>3, <1>5, <1>6, <1>7, <1>8, RowChange DEF Inherit

LEMMA SaveLevelSound ==
  ASSUME IInv, NEW t \in Tabs, NEW u \in Others, NEW row, NEW level \in Levels \ {"none"},
         SaveLevel(t, u, row, level)
  PROVE  IInv'
  <1>1. job' \in [Tabs -> Job] /\ \A s \in Tabs : JobSound(job[s], file, olds)'
    BY DEF IInv, TypeOK, SaveLevel
  <1>2. /\ grants[u] \in Grants /\ (u \in since => grants[u].key = file.key)
        /\ grants[u].level = "none" => grants[u].key = 0
    BY DEF IInv, TypeOK, DataSound, Grants
  <1>3. flows' \in 0..MaxFlows
    BY FlowsKept DEF SaveLevel
  <1>4. CASE Active(u, row, level)
    <2> PICK g : g = [grants[u] EXCEPT !.level = level]
      OBVIOUS
    <2>1. g \in Grants /\ g.key = grants[u].key /\ g.level # "none"
      BY <1>2 DEF Grants
    <2>2. grants' = [grants EXCEPT ![u] = g]
      BY <1>4 DEF SaveLevel
    <2> QED BY <1>1, <1>2, <1>3, <2>1, <2>2, RowChange DEF SaveLevel
  <1>5. CASE ~Active(u, row, level)
    <2> PICK g : g = grants[u]
      OBVIOUS
    <2>1. grants' = [grants EXCEPT ![u] = g]
      BY <1>5 DEF SaveLevel, IInv, TypeOK
    <2> QED BY <1>1, <1>2, <1>3, <2>1, RowChange DEF SaveLevel
  <1> QED BY <1>4, <1>5

LEMMA RevokeSound ==
  ASSUME IInv, NEW t \in Tabs, NEW u \in Others, NEW row, Revoke(t, u, row)
  PROVE  IInv'
  <1> PICK j : j = [job[t] EXCEPT !.left = @ \ {<<u, row>>}]
    OBVIOUS
  <1>1. job[t] \in Job /\ JobSound(job[t], file, olds)
    BY DEF IInv, TypeOK
  <1>2. j \in Job /\ j.pc = "access"
    BY <1>1, LeftsTyped DEF Job, Revoke
  <1>3. JobSound(j, file, olds)
    BY <1>2 DEF JobSound
  <1>4. Goes(t)
    BY <1>2, <1>3 DEF Goes, Revoke
  <1>5. job' \in [Tabs -> Job] /\ \A s \in Tabs : JobSound(job[s], file, olds)'
    BY <1>4, JobsKept DEF IInv, Revoke
  <1>6. grants[u] \in Grants /\ 0 \in Ids
    BY SharedAssumption DEF IInv, TypeOK, Grants, Ids
  <1>7. flows' \in 0..MaxFlows
    BY FlowsKept DEF Revoke
  <1>8. CASE Active(u, row, "none")
    <2> PICK g : g = Revoked(grants[u])
      OBVIOUS
    <2>1. g \in Grants /\ g.key = 0
      BY <1>6 DEF Revoked, Grants, Levels
    <2>2. grants' = [grants EXCEPT ![u] = g] /\ since' = since \ {u}
      BY <1>8 DEF Revoke
    <2> QED BY <1>5, <1>7, <2>1, <2>2, RowChange DEF Revoke
  <1>9. CASE ~Active(u, row, "none")
    <2> PICK g : g = grants[u]
      OBVIOUS
    <2>1. grants' = [grants EXCEPT ![u] = g] /\ since' = since
      BY <1>9 DEF Revoke, IInv, TypeOK
    <2>2. (u \in since => g.key = file.key) /\ (g.level = "none" => g.key = 0)
      BY DEF IInv, DataSound
    <2> QED BY <1>5, <1>6, <1>7, <2>1, <2>2, RowChange DEF Revoke
  <1> QED BY <1>8, <1>9

(* A link is made: with the key of the file, or the owner has not redone it. *)
LEMMA LinkChange ==
  ASSUME IInv, job' \in [Tabs -> Job], \A s \in Tabs : JobSound(job[s], file, olds)',
         NEW k \in Ids, link' = [made |-> TRUE, key |-> k],
         since' \in {since \cup {"link"}, since \ {"link"}},
         "link" \in since' => k = file.key,
         UNCHANGED <<file, olds, name, grants, sigs, uploads, restores>>,
         flows' \in 0..MaxFlows
  PROVE  IInv'
  <1>1. TypeOK'
    BY DEF IInv, TypeOK
  <1>2. DataSound'
    BY SharedAssumption DEF IInv, DataSound
  <1>3. SignaturesFit'
    BY DEF IInv, SignaturesFit
  <1> QED BY <1>1, <1>2, <1>3 DEF IInv

LEMMA PublishSound ==
  ASSUME IInv, NEW t \in Tabs, Publish(t)
  PROVE  IInv'
  <1> PICK j : j = [NoJob EXCEPT !.pc = "link"]
    OBVIOUS
  <1>1. j \in Job /\ j.pc = "link"
    BY NoJobSound DEF Job, Steps
  <1>2. JobSound(j, file, olds)
    BY <1>1 DEF JobSound
  <1>3. Goes(t)
    BY <1>1, <1>2, FinishSound DEF Goes, Publish
  <1>4. job' \in [Tabs -> Job] /\ \A s \in Tabs : JobSound(job[s], file, olds)'
    BY <1>3, JobsKept DEF IInv, Publish
  <1> PICK k \in Ids : k = job[t].key
    BY DEF IInv, TypeOK, Job
  <1>5. job[t].sure /\ k # 0 => k = file.key
    BY DEF IInv, JobSound, KeyOfVersion, Publish
  <1>6. /\ since' \in {since \cup {"link"}, since \ {"link"}}
        /\ "link" \in since' => k = file.key
    BY <1>5 DEF Publish, Redone
  <1>7. flows' \in 0..MaxFlows
    BY FlowsKept DEF Publish
  <1> QED BY <1>4, <1>6, <1>7, LinkChange DEF Publish

LEMMA PublishPlainSound ==
  ASSUME IInv, NEW t \in Tabs, PublishPlain(t)
  PROVE  IInv'
  <1>1. job' \in [Tabs -> Job] /\ \A s \in Tabs : JobSound(job[s], file, olds)'
    BY DEF IInv, TypeOK, PublishPlain
  <1>2. 0 \in Ids /\ flows' \in 0..MaxFlows
    BY FlowsKept, SharedAssumption DEF PublishPlain, Ids
  <1> QED BY <1>1, <1>2, LinkChange DEF PublishPlain

LEMMA StoreNameSound ==
  ASSUME IInv, NEW t \in Tabs, StoreName(t)
  PROVE  IInv'
  <1>1. job' \in [Tabs -> Job] /\ \A s \in Tabs : JobSound(job[s], file, olds)'
    BY JobsKept, FinishSound DEF IInv, StoreName
  <1> PICK k \in Ids : k = job[t].key
    BY DEF IInv, TypeOK, Job
  <1>2. job[t].sure => k = file.key
    BY DEF IInv, JobSound, KeyOfVersion, StoreName
  <1>3. name' = [key |-> k, aad |-> owner] /\ name' \in Names
    BY DEF StoreName, Names, Users
  <1>4. /\ since' \in {since \cup {"name"}, since \ {"name"}}
        /\ "name" \in since' => k = file.key
    BY <1>2 DEF StoreName, Redone
  <1>5. flows' \in 0..MaxFlows
    BY FlowsKept DEF StoreName
  <1>6. TypeOK'
    BY <1>1, <1>3, <1>4, <1>5 DEF IInv, TypeOK, StoreName
  <1>7. DataSound'
    BY <1>3, <1>4, SharedAssumption DEF IInv, DataSound, StoreName
  <1>8. SignaturesFit'
    BY DEF IInv, SignaturesFit, StoreName
  <1> QED BY <1>1, <1>6, <1>7, <1>8 DEF IInv

LEMMA StoreSignatureSound ==
  ASSUME IInv, NEW t \in Tabs, StoreSignature(t)
  PROVE  IInv'
  <1>1. job' \in [Tabs -> Job] /\ \A s \in Tabs : JobSound(job[s], file, olds)'
    BY JobsKept, FinishSound DEF IInv, StoreSignature
  <1> PICK j \in Job : j = job[t] /\ JobSound(j, file, olds)
    BY DEF IInv, TypeOK
  <1> PICK new : new = [number |-> j.number, content |-> j.content, sure |-> j.sure]
    OBVIOUS
  <1>2. new \in [number : Ids, content : Ids, sure : BOOLEAN]
    BY DEF Job
  <1>3. sigs' \subseteq sigs \cup {new}
    BY DEF StoreSignature
  <1>4. new.sure => \E r \in olds \cup {file} : r.number = new.number /\ r.key = new.content
    BY DEF JobSound, StoreSignature
  <1>5. flows' \in 0..MaxFlows
    BY FlowsKept DEF StoreSignature
  <1>6. TypeOK'
    BY <1>1, <1>2, <1>3, <1>5 DEF IInv, TypeOK, StoreSignature
  <1>7. DataSound'
    BY DEF IInv, DataSound, StoreSignature
  <1>8. SignaturesFit'
    BY <1>3, <1>4 DEF IInv, SignaturesFit, StoreSignature
  <1> QED BY <1>1, <1>6, <1>7, <1>8 DEF IInv

-----------------------------------------------------------------------------
(* The content changes *)

LEMMA ChangeSound ==
  ASSUME IInv, NEW next \in Rows, next.key # 0, Change(next),
         uploads' \in Ids, next.number <= uploads', restores' \in 0..MaxRestores
  PROVE  IInv'
  <1>1. ASSUME NEW t \in Tabs
        PROVE  job'[t] \in Job /\ JobSound(job[t], file, olds)'
    <2> PICK i \in Job : i = job[t] /\ JobSound(i, file, olds)
      BY DEF IInv, TypeOK
    <2> PICK sure \in BOOLEAN : sure = (i.sure /\ i.pc = "signed")
      <3>1. (i.sure /\ i.pc = "signed") \in BOOLEAN
        OBVIOUS
      <3> WITNESS (i.sure /\ i.pc = "signed") \in BOOLEAN
      <3> QED OBVIOUS
    <2> PICK j : j = [i EXCEPT !.sure = sure]
      OBVIOUS
    <2>1. job'[t] = j
      BY DEF Change
    <2>2. /\ j \in Job /\ j.pc = i.pc /\ j.left = i.left /\ j.number = i.number
          /\ j.content = i.content /\ j.sure = sure
      BY DEF Job
    <2>3. sure => i.sure /\ i.pc = "signed"
      OBVIOUS
    <2>4. sure => \E r \in olds \cup {file} : r.number = i.number /\ r.key = i.content
      BY <2>3 DEF JobSound
    <2>5. olds' \cup {file'} = olds \cup {file, next} /\ file' = next
      BY DEF Change
    <2>6. JobSound(j, file', olds')
      BY <2>2, <2>3, <2>4, <2>5 DEF JobSound
    <2> QED BY <2>1, <2>2, <2>6
  <1>2. job' \in [Tabs -> Job]
    BY <1>1 DEF Change
  <1>3. TypeOK'
    BY <1>2 DEF IInv, TypeOK, Change
  <1>4. DataSound'
    BY DEF IInv, DataSound, Change
  <1>5. SignaturesFit'
    BY DEF IInv, SignaturesFit, Change
  <1> QED BY <1>1, <1>3, <1>4, <1>5 DEF IInv

LEMMA UploadVersionSound ==
  ASSUME IInv, NEW t \in Tabs, UploadVersion(t)
  PROVE  IInv'
  <1> PICK next : next = [number |-> file.number + 1, key |-> uploads + 1, wrap |-> UserOf(t)]
    OBVIOUS
  <1>1. /\ file.number \in Nat /\ file.number <= uploads /\ uploads \in Nat
        /\ uploads < MaxUploads /\ uploads' = uploads + 1 /\ UserOf(t) \in Users
    BY SharedAssumption DEF IInv, TypeOK, DataSound, Rows, Ids, UploadVersion, Writers, Users
  <1>2. next \in Rows /\ next.key # 0 /\ next.number <= uploads' /\ uploads' \in Ids
    BY <1>1, SharedAssumption DEF Rows, Ids
  <1>3. restores' \in 0..MaxRestores
    BY DEF IInv, TypeOK, UploadVersion
  <1> QED BY <1>2, <1>3, ChangeSound DEF UploadVersion

LEMMA RestoreSound ==
  ASSUME IInv, NEW t \in Tabs, Restore(t)
  PROVE  IInv'
  <1> PICK r \in olds : Change([file EXCEPT !.key = r.key, !.wrap = r.wrap])
    BY DEF Restore
  <1> PICK next : next = [file EXCEPT !.key = r.key, !.wrap = r.wrap]
    OBVIOUS
  <1>1. file \in Rows /\ r \in Rows /\ r.key # 0 /\ file.number <= uploads
    BY DEF IInv, TypeOK, DataSound
  <1>2. next \in Rows /\ next.key # 0 /\ next.number <= uploads
    BY <1>1 DEF Rows
  <1>3. uploads' = uploads /\ uploads \in Ids /\ restores' \in 0..MaxRestores
    BY SharedAssumption DEF IInv, TypeOK, Restore
  <1> QED BY <1>2, <1>3, ChangeSound

-----------------------------------------------------------------------------
(* The specification *)

LEMMA InitSound == Init => IInv
  <1> SUFFICES ASSUME Init PROVE IInv
    OBVIOUS
  <1>1. 0 \in Ids /\ 1 \in Ids /\ 1 <= uploads /\ 0 \in Nat
    BY SharedAssumption DEF Init, Ids
  <1>2. job \in [Tabs -> Job] /\ \A t \in Tabs : JobSound(job[t], file, olds)
    BY NoJobSound DEF Init
  <1>3. TypeOK
    BY <1>1, <1>2, SharedAssumption DEF Init, TypeOK, Rows, Names, Users, Levels
  <1>4. DataSound /\ SignaturesFit
    BY <1>1, SharedAssumption DEF Init, DataSound, SignaturesFit
  <1> QED BY <1>2, <1>3, <1>4 DEF IInv

LEMMA SharingSound ==
  ASSUME IInv, NEW t \in Tabs, Sharing(t)
  PROVE  IInv'
  <1>1. ASSUME NEW to \in SUBSET Others, Share(t, to) \/ ShareFolder(t, to) PROVE IInv'
    BY <1>1, BeginnersSound
  <1>2. CASE ShareKey(t) \/ FolderKey(t)
    BY <1>2, KeyFetches
  <1>3. CASE OpenAccess(t)
    BY <1>3, BeginnersSound
  <1>4. ASSUME NEW u \in Others, Skip(t, u) PROVE IInv'
    BY <1>4, SkipSound
  <1>5. ASSUME NEW u \in Others, NEW level \in Levels \ {"none"},
               \/ Grant(t, u, level) \/ Inherit(t, u, level) \/ GrantPlain(t, u, level)
               \/ \E row \in 1..MaxFlows : SaveLevel(t, u, row, level)
        PROVE  IInv'
    BY <1>5, GrantSound, InheritSound, GrantPlainSound, SaveLevelSound
  <1>6. ASSUME NEW u \in Others, NEW row, Revoke(t, u, row) PROVE IInv'
    BY <1>6, RevokeSound
  <1> QED BY <1>1, <1>2, <1>3, <1>4, <1>5, <1>6 DEF Sharing

LEMMA StepSound ==
  ASSUME IInv, [Next]_vars
  PROVE  IInv'
  <1>1. guest \in Tabs
    BY DEF Tabs
  <1>2. ASSUME NEW t \in Tabs,
               UploadVersion(t) \/ Restore(t) \/ Fail(t) \/ Close(t) \/ Sharing(t)
        PROVE  IInv'
    BY <1>2, UploadVersionSound, RestoreSound, EndSound, SharingSound
  <1>3. ASSUME NEW t \in Tabs, Linking(t) PROVE IInv'
    BY <1>3, BeginnersSound, KeyFetches, PublishSound, PublishPlainSound DEF Linking
  <1>4. ASSUME NEW t \in Tabs, Reading(t) PROVE IInv'
    BY <1>4, DownloadVersionSound, BeginnersSound, ReadNamesSound, FetchContentSound,
       FetchKeySound, FetchVersionKeySound DEF Reading
  <1>5. ASSUME NEW t \in Tabs, Signing(t) PROVE IInv'
    BY <1>5, BeginnersSound, SignContentSound, SignNumberSound, StoreSignatureSound DEF Signing
  <1>6. ASSUME NEW t \in Tabs, Renaming(t) PROVE IInv'
    BY <1>6, BeginnersSound, KeyFetches, StoreNameSound DEF Renaming
  <1>7. CASE Guest
    BY <1>1, <1>7, VisitSound, StreamSound DEF Guest
  <1>8. CASE UNCHANGED vars
    <2>1. TypeOK' /\ DataSound' /\ SignaturesFit'
      BY <1>8 DEF vars, IInv, TypeOK, DataSound, SignaturesFit
    <2>2. \A t \in Tabs : JobSound(job[t], file, olds)'
      BY <1>8 DEF vars, IInv
    <2> QED BY <2>1, <2>2 DEF IInv
  <1> QED BY <1>2, <1>3, <1>4, <1>5, <1>6, <1>7, <1>8 DEF Next

(* The history variable is right about the keys, and what a page carries    *)
(* from one call to the next is made with the key the file has now, however *)
(* many tabs, recipients and uploads there are (handleShare, useCrypto).    *)
THEOREM JobsAreSound == Spec => []IInv
  <1> QED BY InitSound, StepSound, PTL DEF Spec

(* What is downloaded opens, for whoever is sure of the key                 *)
(* (downloadFile, get_file_dek, get_version_key).                           *)
THEOREM DownloadsAlwaysOpen == Spec => []DownloadsOpen
  <1>1. ASSUME IInv PROVE DownloadsOpen
    <2> SUFFICES ASSUME NEW t \in Tabs, job[t].pc = "look", job[t].sure
                 PROVE  job[t].key = job[t].content
      BY DEF DownloadsOpen
    <2>1. JobSound(job[t], file, olds)
      BY <1>1 DEF IInv
    <2>2. /\ IsOf(job[t].key, job[t].number, file, olds)
          /\ IsOf(job[t].content, job[t].number, file, olds)
      BY <2>1 DEF JobSound
    <2> QED BY <2>2 DEF IsOf
  <1> QED BY <1>1, JobsAreSound, PTL

(* The page behind a link opens what it streams, for a link made since the  *)
(* content last changed (CreateLinkModal, handleShare).                     *)
THEOREM LinksAlwaysOpen == Spec => []LinksOpen
  <1>1. ASSUME IInv PROVE LinksOpen
    <2>1. guest \in Tabs
      BY DEF Tabs
    <2>2. JobSound(job[guest], file, olds)
      BY <1>1, <2>1 DEF IInv
    <2> QED BY <2>2 DEF JobSound, LinksOpen
  <1> QED BY <1>1, JobsAreSound, PTL

(* A name given since the content last changed can be read by whoever has   *)
(* the key (encryptFileNameForRename, decryptFileNames).                    *)
THEOREM NamesAlwaysOpen == Spec => []NamesOpen
  <1>1. ASSUME IInv PROVE NamesOpen
    BY <1>1 DEF IInv, JobSound, NamesOpen, Identifier
  <1> QED BY <1>1, JobsAreSound, PTL

(* A signature keeps fitting a content of its number, through later         *)
(* versions and restorations (signFileAction, sign_file).                   *)
THEOREM SignaturesAlwaysFit == Spec => []SignaturesFit
  <1>1. ASSUME IInv PROVE SignaturesFit
    BY <1>1 DEF IInv
  <1> QED BY <1>1, JobsAreSound, PTL

-----------------------------------------------------------------------------
(* Revocations *)

Comeback(u) == grants[u].level = "none" /\ grants'[u].level # "none"

(* Changing one row to a new one, or not from none at all. *)
LEMMA OneRow ==
  ASSUME TypeOK, NEW v \in Others, NEW g, grants' = [grants EXCEPT ![v] = g],
         grants[v].level = "none" => g.level = "none" \/ g.row = grants[v].row + 1,
         NEW u \in Others, Comeback(u)
  PROVE  grants'[u].row > grants[u].row
  <1>1. grants[u].row \in Nat
    BY DEF TypeOK
  <1>2. u = v
    BY DEF TypeOK, Comeback
  <1>3. grants'[u] = g
    BY <1>2 DEF TypeOK
  <1> QED BY <1>1, <1>2, <1>3 DEF Comeback

LEMMA NoComeback ==
  ASSUME TypeOK, [Next]_vars, NEW u \in Others, Comeback(u)
  PROVE  grants'[u].row > grants[u].row
  <1>1. ASSUME UNCHANGED grants PROVE FALSE
    BY <1>1 DEF Comeback
  <1>2. ASSUME NEW t \in Tabs, NEW v \in Others, NEW level \in Levels \ {"none"},
               Grant(t, v, level) \/ GrantPlain(t, v, level)
        PROVE  grants'[u].row > grants[u].row
    <2>1. PICK k : grants' = [grants EXCEPT ![v] = Row(@, level, k, FALSE)]
      BY <1>1, <1>2 DEF Grant, GrantPlain, Granted
    <2> PICK g : g = Row(grants[v], level, k, FALSE)
      OBVIOUS
    <2>2. grants[v].level = "none" => g.row = grants[v].row + 1
      BY DEF Row
    <2> QED BY <2>1, <2>2, OneRow
  <1>3. ASSUME NEW t \in Tabs, NEW v \in Others, NEW level \in Levels \ {"none"},
               Inherit(t, v, level)
        PROVE  grants'[u].row > grants[u].row
    <2>1. PICK k : grants' = [grants EXCEPT ![v] = Row(@, level, k, TRUE)]
      BY <1>3 DEF Inherit
    <2> PICK g : g = Row(grants[v], level, k, TRUE)
      OBVIOUS
    <2>2. grants[v].level = "none" => g.row = grants[v].row + 1
      BY DEF Row
    <2> QED BY <2>1, <2>2, OneRow
  <1>4. ASSUME NEW t \in Tabs, NEW v \in Others, NEW level \in Levels \ {"none"}, NEW row,
               SaveLevel(t, v, row, level)
        PROVE  grants'[u].row > grants[u].row
    <2>1. grants[v].level # "none" /\ grants' = [grants EXCEPT ![v].level = level]
      BY <1>1, <1>4 DEF SaveLevel, Active
    <2> PICK g : g = [grants[v] EXCEPT !.level = level]
      OBVIOUS
    <2> QED BY <2>1, OneRow
  <1>5. ASSUME NEW t \in Tabs, NEW v \in Others, NEW row, Revoke(t, v, row)
        PROVE  FALSE
    <2>1. grants[v].level # "none" /\ grants' = [grants EXCEPT ![v] = Revoked(@)]
      BY <1>1, <1>5 DEF Revoke, Active
    <2>2. u = v \/ grants'[u] = grants[u]
      BY <2>1 DEF TypeOK
    <2> QED BY <2>1, <2>2 DEF Comeback
  <1>6. CASE UNCHANGED vars
    BY <1>1, <1>6 DEF vars
  <1>7. ASSUME NEW t \in Tabs, Sharing(t)
        PROVE  grants'[u].row > grants[u].row
    <2>1. \/ UNCHANGED grants
          \/ \E v \in Others, level \in Levels \ {"none"} :
               \/ Grant(t, v, level) \/ Inherit(t, v, level) \/ GrantPlain(t, v, level)
               \/ \E row \in 1..MaxFlows : SaveLevel(t, v, row, level)
          \/ \E v \in Others, row \in 1..MaxFlows : Revoke(t, v, row)
      BY <1>7 DEF Sharing, Share, ShareFolder, ShareKey, FolderKey, OpenAccess, Skip, Begin
    <2> QED BY <1>1, <1>2, <1>3, <1>4, <1>5, <2>1
  <1>8. ASSUME NEW t \in Tabs,
               \/ UploadVersion(t) \/ Restore(t) \/ Fail(t) \/ Close(t) \/ Linking(t)
               \/ Signing(t) \/ Renaming(t)
        PROVE  UNCHANGED grants
    BY <1>8 DEF UploadVersion, Restore, Change, Fail, Close, Linking, Signing, Renaming,
       CreateLink, ShareByLink, LinkKey, Publish, PublishPlain, Sign, SignContent, SignNumber,
       StoreSignature, Rename, RenameKey, StoreName, Begin
  <1>9. ASSUME NEW t \in Tabs, Reading(t) PROVE UNCHANGED grants
    BY <1>9 DEF Reading, DownloadVersion, Download, ReadNames, FetchContent, FetchKey,
       FetchVersionKey, Begin
  <1>10. CASE Guest
    BY <1>1, <1>10 DEF Guest, Visit, Stream
  <1> QED BY <1>1, <1>6, <1>7, <1>8, <1>9, <1>10 DEF Next

(* Nothing but a new grant brings a revoked user back: not the level saved  *)
(* in another tab's list of accesses (handleSaveChanges).                   *)
THEOREM RevokedAlwaysStays == Spec => RevokedStays
  <1>1. ASSUME IInv, [Next]_vars
        PROVE  [\A u \in Others : grants[u].level = "none" /\ grants'[u].level # "none" =>
                  grants'[u].row > grants[u].row]_vars
    BY <1>1, NoComeback DEF IInv, Comeback
  <1> QED BY <1>1, JobsAreSound, PTL DEF Spec, RevokedStays
=============================================================================
