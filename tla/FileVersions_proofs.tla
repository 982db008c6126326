------------------------ MODULE FileVersions_proofs ------------------------
(***************************************************************************)
(* Proofs about FileVersions, for any number of users, rows and uploads.   *)
(*                                                                         *)
(* For any number of sessions: types and DestructionIsFinal under every    *)
(* operation, from what a session about to commit carries; RowsAreWhole as *)
(* long as nothing is restored, from the inductive invariant IInv.         *)
(*                                                                         *)
(* For one request at a time, restorations included: RowsAreWhole and      *)
(* LimitEnforced whatever fails (SerialInv), and Readable when nothing     *)
(* does (ReadInv).                                                         *)
(***************************************************************************)
EXTENDS FileVersions, TLAPS

\* A commit made of typed rows stores a typed row.
LEMMA FlushTyped ==
    ASSUME NEW now \in File, NEW seen \in File, NEW next \in File
    PROVE  Flush(now, seen, next) \in File
BY DEF Flush, Column, File

\* The first row is typed and its path is the owner's.
LEMMA OriginalTyped ==
    /\ Original \in File
    /\ Original.path \in Users \X Nat
    /\ Original.path[2] = 0
    /\ Original.version = 1
    /\ Original.key = 0
    /\ Original.destroyed = FALSE
BY OwnerAssumption DEF Original, File, Path, Key

LEMMA IdleTyped == Idle \in Session /\ Idle.pc = "idle"
BY OriginalTyped DEF Idle, Session, Phases

\* A step of one session leaves the others' records alone.
LEMMA FinishTyped ==
    ASSUME NEW s \in Sessions, sess \in [Sessions -> Session], Finish(s)
    PROVE  sess' \in [Sessions -> Session]
BY IdleTyped DEF Finish

LEMMA GotoTyped ==
    ASSUME NEW s \in Sessions, NEW pc \in Phases, sess \in [Sessions -> Session], Goto(s, pc)
    PROVE  sess' \in [Sessions -> Session]
BY DEF Goto, Session

-----------------------------------------------------------------------------
(* Types *)

LEMMA StartTyped ==
    ASSUME TypeOK, NEW s \in Sessions, NEW op \in AllOps, NEW pc \in Phases, Start(s, op, pc)
    PROVE  TypeOK'
<1>1. sess' \in [Sessions -> Session]
  BY IdleTyped DEF Start, TypeOK, Session
<1>2. requests' \in 0..MaxRequests
  BY BoundsAssumption DEF Start, TypeOK
<1> QED
  BY <1>1, <1>2 DEF Start, TypeOK

LEMMA HoldingTyped ==
    ASSUME TypeOK, NEW path \in Path, NEW data \in Nat \cup {Noise}
    PROVE  /\ DOMAIN Holding(path, data) \subseteq Path
           /\ \A p \in DOMAIN Holding(path, data) : Holding(path, data)[p] \in Nat \cup {Noise}
BY DEF TypeOK, Holding

LEMMA WithoutTyped ==
    ASSUME TypeOK, NEW path
    PROVE  /\ DOMAIN Without(path) \subseteq Path
           /\ \A p \in DOMAIN Without(path) : Without(path)[p] \in Nat \cup {Noise}
BY DEF TypeOK, Without

LEMMA RequestTyped ==
    ASSUME TypeOK, NEW s \in Sessions, Request(s)
    PROVE  TypeOK'
<1>1. ASSUME NEW u \in Users, Upload(s, u)
      PROVE  TypeOK'
  <2> DEFINE next == [file EXCEPT !.version = NextNumber(file),
                                  !.path = NewPath(u, NextNumber(file)), !.key = uploads + 1]
  <2>0. /\ file \in File
        /\ uploads + 1 \in Key
        /\ NextNumber(file) \in Nat
        /\ NewPath(u, NextNumber(file)) \in Path
    <3>1. file \in File /\ NextNumber(file) \in Nat
      BY DEF TypeOK, File, NextNumber
    <3>2. uploads + 1 \in Key
      BY BoundsAssumption DEF TypeOK, Key
    <3> QED
      BY <1>1, <3>1, <3>2 DEF Path, NewPath
  <2>1. next \in File
    BY <2>0 DEF File
  <2>2. sess' = [sess EXCEPT ![s] = [Idle EXCEPT !.pc = "archive", !.op = "upload",
                                                 !.seen = file, !.next = next]]
    BY <1>1 DEF Upload
  <2>3. sess' \in [Sessions -> Session]
    BY <2>1, <2>2, IdleTyped DEF TypeOK, Session, Phases, AllOps
  <2>4. uploads' \in 0..MaxUploads /\ requests' \in 0..MaxRequests
    BY <1>1, BoundsAssumption DEF Upload, TypeOK
  <2> QED
    BY <1>1, <2>3, <2>4 DEF Upload, TypeOK
<1>2. ASSUME NEW limit \in Limits, SetLimit(s, limit)
      PROVE  TypeOK'
  <2> DEFINE next == [file EXCEPT !.limit = limit]
  <2>1. next \in File
    BY <1>2, LimitsAssumption DEF TypeOK, File
  <2>2. sess' = [sess EXCEPT ![s] = [Idle EXCEPT !.pc = "configure", !.op = "configure",
                                                 !.seen = file, !.next = next]]
    BY <1>2 DEF SetLimit
  <2>3. sess' \in [Sessions -> Session]
    BY <2>1, <2>2, IdleTyped DEF TypeOK, Session, Phases, AllOps
  <2>4. requests' \in 0..MaxRequests
    BY <1>2, BoundsAssumption DEF SetLimit, TypeOK
  <2> QED
    BY <1>2, <2>3, <2>4 DEF SetLimit, TypeOK
<1>3. CASE Restore(s)
  BY <1>3, StartTyped DEF Restore, AllOps, Phases
<1>4. CASE Download(s)
  BY <1>4, StartTyped DEF Download, AllOps, Phases
<1>5. CASE DownloadVersion(s)
  <2>1. PICK pc \in {"fetch", "select"} : Start(s, "downloadVersion", pc)
    BY <1>5 DEF DownloadVersion
  <2> QED
    BY <2>1, StartTyped DEF AllOps, Phases
<1>6. CASE DeleteVersion(s)
  BY <1>6, StartTyped DEF DeleteVersion, AllOps, Phases
<1>7. CASE Destroy(s)
  BY <1>7, StartTyped DEF Destroy, AllOps, Phases
<1> QED
  BY <1>1, <1>2, <1>3, <1>4, <1>5, <1>6, <1>7 DEF Request

\* A step past the reads; the blob it stores is a new upload's.
LEMMA ContinueTyped ==
    ASSUME TypeOK, NEW s \in Sessions, Continue(s) \/ Crash(s),
           sess[s].pc = "put" => sess[s].next.path \in Users \X Nat /\ sess[s].next.key \in Nat
    PROVE  TypeOK'
<1> DEFINE seen == sess[s].seen
           next == sess[s].next
<1>0. TypeOK /\ seen \in File /\ next \in File /\ sess \in [Sessions -> Session]
  BY DEF TypeOK, Session
<1> HIDE DEF seen, next
<1>1. CASE Select(s)
  <2>1. sess' \in [Sessions -> Session]
    <3>1. CASE Finish(s)
      BY <3>1, <1>0, FinishTyped
    <3>2. ASSUME NEW n \in Numbers, NEW i \in RowIds, Numbered(n) = {i},
                 NEW version, version = At(seen, history[i]),
                 \/ sess' = [sess EXCEPT ![s].pc = "archive", ![s].next = version]
                 \/ sess' = [sess EXCEPT ![s].pc = "scrub", ![s].seen = version, ![s].row = i]
                 \/ sess' = [sess EXCEPT ![s].pc = "fetch", ![s].seen = version]
          PROVE  sess' \in [Sessions -> Session]
      <4>1. history[i] \in Version
        BY <3>2, <1>0 DEF Numbered, Exists, TypeOK
      <4>2. version \in File
        BY <3>2, <4>1, <1>0 DEF At, File, Version
      <4> QED
        BY <3>2, <4>2, <1>0 DEF Session, Phases
    <3> QED
      BY <1>1, <3>1, <3>2 DEF Select, seen
  <2> QED
    BY <1>1, <2>1, <1>0 DEF Select, TypeOK
<1>2. CASE Archive(s)
  BY <1>2, <1>0, GotoTyped DEF Archive, TypeOK, Phases
<1>3. CASE Put(s)
  <2>1. sess' \in [Sessions -> Session]
    BY <1>3, <1>0, GotoTyped DEF Put, Phases
  <2>2. next.path \in Users \X Nat /\ next.key \in Nat
    BY <1>3 DEF Put, next
  <2>3. /\ DOMAIN blobs' \subseteq Path
        /\ \A p \in DOMAIN blobs' : blobs'[p] \in Nat \cup {Noise}
    BY <1>3, <1>0, <2>2, HoldingTyped DEF Put, next, Path
  <2>4. stored' \subseteq (Users \X Nat) \X Nat
    BY <1>3, <1>0, <2>2 DEF Put, next, TypeOK
  <2> QED
    BY <1>3, <1>0, <2>1, <2>3, <2>4 DEF Put, TypeOK
<1>4. CASE Save(s)
  <2>1. file' \in File
    BY <1>4, <1>0, FlushTyped DEF Save, seen, next, TypeOK
  <2>2. history' \in [RowIds -> Version \cup {NoRow, Deleted}]
    BY <1>4, <1>0 DEF Save, seen, TypeOK, File, Version
  <2>3. sess' \in [Sessions -> Session]
    BY <1>4, <1>0, FinishTyped DEF Save
  <2> QED
    BY <1>4, <1>0, <2>1, <2>2, <2>3 DEF Save, TypeOK
<1>5. CASE Deadlock(s)
  BY <1>5, <1>0, FinishTyped DEF Deadlock, TypeOK
<1>6. CASE Fetch(s)
  <2>1. CASE seen.path \in DOMAIN blobs
    <3>1. blobs[seen.path] \in Nat \cup {Noise, None}
      BY <2>1, <1>0 DEF TypeOK
    <3>2. sess' \in [Sessions -> Session]
      BY <1>6, <1>0, <2>1, <3>1 DEF Fetch, seen, Session, Phases
    <3> QED
      BY <1>6, <1>0, <3>2 DEF Fetch, TypeOK
  <2>2. CASE seen.path \notin DOMAIN blobs
    BY <1>6, <1>0, <2>2, FinishTyped DEF Fetch, seen, TypeOK
  <2> QED
    BY <2>1, <2>2
<1>7. CASE Count(s)
  <2> DEFINE counted == [seen EXCEPT !.downloads = @ + 1]
  <2>1. counted \in File
    BY <1>0 DEF File
  <2>2. file' = Flush(file, seen, counted)
    BY <1>7 DEF Count, seen
  <2>3. sess' \in [Sessions -> Session]
    BY <1>7, <1>0, <2>1 DEF Count, seen, Session, Phases
  <2>4. file' \in File
    BY <2>1, <2>2, <1>0, FlushTyped DEF TypeOK
  <2> QED
    BY <1>7, <1>0, <2>3, <2>4 DEF Count, TypeOK
<1>8. CASE Reply(s)
  <2>1. served' \in Nat
    BY <1>8, <1>0 DEF Reply, TypeOK
  <2> QED
    BY <1>8, <1>0, <2>1, FinishTyped DEF Reply, TypeOK
<1>9. CASE Configure(s)
  BY <1>9, <1>0, FinishTyped, FlushTyped DEF Configure, TypeOK, seen, next
<1>10. CASE Scrub(s)
  <2>1. /\ DOMAIN blobs' \subseteq Path
        /\ \A p \in DOMAIN blobs' : blobs'[p] \in Nat \cup {Noise}
    BY <1>10, <1>0, HoldingTyped DEF Scrub, seen, File
  <2>2. sess' \in [Sessions -> Session]
    BY <1>10, <1>0, GotoTyped DEF Scrub, Phases
  <2> QED
    BY <1>10, <1>0, <2>1, <2>2 DEF Scrub, TypeOK
<1>11. CASE Remove(s)
  <2>1. /\ DOMAIN blobs' \subseteq Path
        /\ \A p \in DOMAIN blobs' : blobs'[p] \in Nat \cup {Noise}
    BY <1>11, <1>0, WithoutTyped DEF Remove
  <2>2. sess' \in [Sessions -> Session]
    BY <1>11, <1>0, GotoTyped DEF Remove, AfterRemoval, Phases
  <2> QED
    BY <1>11, <1>0, <2>1, <2>2 DEF Remove, TypeOK
<1>12. CASE StoreFails(s)
  <2>1. sess' \in [Sessions -> Session]
    BY <1>12, <1>0, GotoTyped DEF StoreFails, AfterRemoval, Phases
  <2>2. faults' \in 0..MaxFaults
    BY <1>12, <1>0, BoundsAssumption DEF StoreFails, TypeOK
  <2> QED
    BY <1>12, <1>0, <2>1, <2>2 DEF StoreFails, TypeOK
<1>13. CASE Unlink(s)
  BY <1>13, <1>0, FinishTyped DEF Unlink, TypeOK
<1>14. CASE Mark(s)
  <2>1. Destroyed(seen) \in File
    BY <1>0 DEF Destroyed, File, Path, Key
  <2>2. file' \in File
    BY <1>14, <1>0, <2>1, FlushTyped DEF Mark, seen, TypeOK
  <2>3. sess' \in [Sessions -> Session]
    <3>1. CASE sess[s].op = "download"
      BY <1>14, <1>0, <2>1, <3>1 DEF Mark, seen, Session, Phases
    <3>2. CASE sess[s].op # "download"
      BY <1>14, <1>0, <3>2, FinishTyped DEF Mark
    <3> QED
      BY <3>1, <3>2
  <2> QED
    BY <1>14, <1>0, <2>2, <2>3 DEF Mark, TypeOK
<1>15. CASE Crash(s)
  <2>1. faults' \in 0..MaxFaults
    BY <1>15, <1>0, BoundsAssumption DEF Crash, TypeOK
  <2> QED
    BY <1>15, <1>0, <2>1, FinishTyped DEF Crash, TypeOK
<1> QED
  BY <1>1, <1>2, <1>3, <1>4, <1>5, <1>6, <1>7, <1>8, <1>9, <1>10, <1>11, <1>12, <1>13, <1>14,
     <1>15 DEF Continue

-----------------------------------------------------------------------------
(* What every session carries, whatever the operations *)

\* A request that will commit leaves the destruction of the file as it read it,
\* and an upload brings a path and a key of its own.
Carried(s) ==
    LET pc == sess[s].pc
        next == sess[s].next
    IN /\ pc \in {"archive", "put", "save", "configure"} =>
            next.destroyed = sess[s].seen.destroyed
       /\ pc = "put" \/ (pc = "archive" /\ sess[s].op = "upload") =>
            next.path \in Users \X Nat /\ next.key \in Nat
       /\ pc = "select" => sess[s].op \in {"restore", "delete", "downloadVersion"}

TypeInv == TypeOK /\ \A s \in Sessions : Carried(s)

LEMMA CarriedIdle ==
    ASSUME NEW s \in Sessions, sess'[s] = Idle
    PROVE  Carried(s)'
BY IdleTyped DEF Carried

\* A request starts with a session that carries nothing new, or an upload.
LEMMA RequestCarried ==
    ASSUME TypeOK, NEW s \in Sessions, Request(s)
    PROVE  Carried(s)' /\ \A t \in Sessions \ {s} : sess'[t] = sess[t]
<1>0. file \in File /\ sess \in [Sessions -> Session] /\ uploads \in Nat
  BY BoundsAssumption DEF TypeOK
<1>a. ASSUME NEW op \in AllOps, NEW pc \in {"select", "fetch", "scrub"}, Start(s, op, pc),
             pc = "select" => op \in {"restore", "delete", "downloadVersion"}
      PROVE  Carried(s)' /\ \A t \in Sessions \ {s} : sess'[t] = sess[t]
  <2>1. /\ sess'[s].pc = pc /\ sess'[s].op = op
        /\ \A t \in Sessions \ {s} : sess'[t] = sess[t]
    BY <1>a, <1>0, IdleTyped DEF Start, Session
  <2> QED
    BY <1>a, <2>1 DEF Carried
<1>1. ASSUME NEW u \in Users, Upload(s, u)
      PROVE  Carried(s)' /\ \A t \in Sessions \ {s} : sess'[t] = sess[t]
  <2> DEFINE new == [file EXCEPT !.version = NextNumber(file),
                                 !.path = NewPath(u, NextNumber(file)), !.key = uploads + 1]
  <2>1. /\ sess'[s].pc = "archive" /\ sess'[s].seen = file /\ sess'[s].next = new
        /\ \A t \in Sessions \ {s} : sess'[t] = sess[t]
    BY <1>0, <1>1, IdleTyped DEF Upload, Session
  <2>2. /\ new.destroyed = file.destroyed
        /\ new.path = NewPath(u, NextNumber(file))
        /\ new.key = uploads + 1
    BY <1>0 DEF File
  <2>3. new.path \in Users \X Nat /\ new.key \in Nat
    BY <1>0, <1>1, <2>2 DEF NewPath, NextNumber, File
  <2> HIDE DEF new
  <2> QED
    BY <2>1, <2>2, <2>3 DEF Carried
<1>2. ASSUME NEW limit \in Limits, SetLimit(s, limit)
      PROVE  Carried(s)' /\ \A t \in Sessions \ {s} : sess'[t] = sess[t]
  <2>1. /\ sess'[s].pc = "configure" /\ sess'[s].seen = file
        /\ sess'[s].next = [file EXCEPT !.limit = limit]
        /\ \A t \in Sessions \ {s} : sess'[t] = sess[t]
    BY <1>0, <1>2, IdleTyped DEF SetLimit, Session
  <2> QED
    BY <1>0, <2>1 DEF Carried, File
<1>3. CASE Restore(s)
  BY <1>3, <1>a DEF Restore, AllOps
<1>4. CASE Download(s)
  BY <1>4, <1>a DEF Download, AllOps
<1>5. CASE DownloadVersion(s)
  <2>1. PICK pc \in {"fetch", "select"} : Start(s, "downloadVersion", pc)
    BY <1>5 DEF DownloadVersion
  <2> QED
    BY <2>1, <1>a DEF AllOps
<1>6. CASE DeleteVersion(s)
  BY <1>6, <1>a DEF DeleteVersion, AllOps
<1>7. CASE Destroy(s)
  BY <1>7, <1>a DEF Destroy, AllOps
<1> QED
  BY <1>1, <1>2, <1>3, <1>4, <1>5, <1>6, <1>7 DEF Request

\* What happens to the session in a step past the reads.
LEMMA ContinueMoves ==
    ASSUME TypeOK, NEW s \in Sessions, Continue(s) \/ Crash(s)
    PROVE  /\ \A t \in Sessions \ {s} : sess'[t] = sess[t]
           /\ \/ sess'[s].pc \in {"idle", "fetch", "count", "reply", "scrub", "remove", "unlink", "mark"}
              \/ Select(s) /\ sess[s].op = "restore" /\ sess'[s].pc = "archive"
                 /\ \E i \in RowIds : Exists(i) /\ sess'[s].next = At(sess[s].seen, history[i])
                 /\ sess'[s].seen = sess[s].seen /\ sess'[s].op = "restore"
              \/ Archive(s) /\ sess'[s] = [sess[s] EXCEPT !.pc = IF sess[s].op = "upload"
                                                                 THEN "put" ELSE "save"]
              \/ Put(s) /\ sess'[s] = [sess[s] EXCEPT !.pc = "save"]
<1>0. sess \in [Sessions -> Session]
  BY DEF TypeOK
<1>1. ASSUME Finish(s)
      PROVE  sess'[s].pc = "idle" /\ \A t \in Sessions \ {s} : sess'[t] = sess[t]
  BY <1>0, <1>1, IdleTyped DEF Finish
<1>2. ASSUME NEW pc, Goto(s, pc)
      PROVE  /\ sess'[s] = [sess[s] EXCEPT !.pc = pc] /\ sess'[s].pc = pc
             /\ \A t \in Sessions \ {s} : sess'[t] = sess[t]
  BY <1>0, <1>2 DEF Goto, Session
<1>3. CASE Select(s)
  <2>1. CASE Finish(s)
    BY <1>1, <2>1
  <2>2. ASSUME NEW i \in RowIds, Exists(i),
               \/ /\ sess[s].op = "restore"
                  /\ sess' = [sess EXCEPT ![s].pc = "archive", ![s].next = At(sess[s].seen, history[i])]
               \/ /\ sess[s].op = "delete"
                  /\ sess' = [sess EXCEPT ![s].pc = "scrub", ![s].seen = At(sess[s].seen, history[i]),
                                          ![s].row = i]
               \/ /\ sess[s].op = "downloadVersion"
                  /\ sess' = [sess EXCEPT ![s].pc = "fetch", ![s].seen = At(sess[s].seen, history[i])]
        PROVE  /\ \A t \in Sessions \ {s} : sess'[t] = sess[t]
               /\ \/ sess'[s].pc \in {"scrub", "fetch"}
                  \/ /\ sess[s].op = "restore" /\ sess'[s].pc = "archive"
                     /\ sess'[s].next = At(sess[s].seen, history[i])
                     /\ sess'[s].seen = sess[s].seen /\ sess'[s].op = "restore"
    BY <1>0, <2>2 DEF Session
  <2>3. CASE ~Finish(s)
    <3>1. PICK n \in Numbers, i \in RowIds :
              /\ Numbered(n) = {i}
              /\ \/ /\ sess[s].op = "restore"
                    /\ sess' = [sess EXCEPT ![s].pc = "archive",
                                            ![s].next = At(sess[s].seen, history[i])]
                 \/ /\ sess[s].op = "delete"
                    /\ sess' = [sess EXCEPT ![s].pc = "scrub",
                                            ![s].seen = At(sess[s].seen, history[i]), ![s].row = i]
                 \/ /\ sess[s].op = "downloadVersion"
                    /\ sess' = [sess EXCEPT ![s].pc = "fetch",
                                            ![s].seen = At(sess[s].seen, history[i])]
      BY <1>3, <2>3 DEF Select
    <3>2. Exists(i)
      BY <3>1 DEF Numbered
    <3> QED
      BY <1>3, <2>2, <3>1, <3>2
  <2> QED
    BY <2>1, <2>3
<1>4. CASE Archive(s)
  BY <1>4, <1>2 DEF Archive
<1>5. CASE Put(s)
  BY <1>5, <1>2 DEF Put
<1>6. CASE Save(s) \/ Deadlock(s) \/ Configure(s) \/ Reply(s) \/ Unlink(s) \/ Crash(s)
  BY <1>6, <1>1 DEF Save, Deadlock, Configure, Reply, Unlink, Crash
<1>7. CASE Fetch(s)
  <2>1. CASE Finish(s)
    BY <1>1, <2>1
  <2>2. CASE sess' = [sess EXCEPT ![s].data = blobs[sess[s].seen.path],
                                  ![s].pc = IF sess[s].op = "download" THEN "count" ELSE "reply"]
    BY <1>0, <2>2 DEF Session
  <2> QED
    BY <1>7, <2>1, <2>2 DEF Fetch
<1>8. CASE Count(s)
  BY <1>0, <1>8 DEF Count, Session
<1>9. CASE Scrub(s) \/ Remove(s) \/ StoreFails(s)
  BY <1>9, <1>2 DEF Scrub, Remove, StoreFails, AfterRemoval
<1>10. CASE Mark(s)
  <2>1. CASE Finish(s)
    BY <1>1, <2>1
  <2>2. CASE sess' = [sess EXCEPT ![s].seen = Destroyed(sess[s].seen), ![s].pc = "reply"]
    BY <1>0, <2>2 DEF Session
  <2> QED
    BY <1>10, <2>1, <2>2 DEF Mark
<1> QED
  BY <1>3, <1>4, <1>5, <1>6, <1>7, <1>8, <1>9, <1>10 DEF Continue

LEMMA ContinueCarried ==
    ASSUME TypeOK, NEW s \in Sessions, Carried(s), Continue(s) \/ Crash(s)
    PROVE  Carried(s)' /\ \A t \in Sessions \ {s} : sess'[t] = sess[t]
<1>0. /\ sess \in [Sessions -> Session] /\ sess[s] \in Session
      /\ sess[s].seen \in File /\ sess[s].next \in File
  BY DEF TypeOK, Session
<1>1. CASE sess'[s].pc \in {"idle", "fetch", "count", "reply", "scrub", "remove", "unlink", "mark"}
  BY <1>1, ContinueMoves DEF Carried
<1>2. CASE /\ sess[s].op = "restore" /\ sess'[s].pc = "archive"
           /\ \E i \in RowIds : Exists(i) /\ sess'[s].next = At(sess[s].seen, history[i])
           /\ sess'[s].seen = sess[s].seen /\ sess'[s].op = "restore"
  BY <1>0, <1>2, ContinueMoves DEF Carried, At, File
<1>3. CASE Archive(s) /\ sess'[s] = [sess[s] EXCEPT !.pc = IF sess[s].op = "upload"
                                                           THEN "put" ELSE "save"]
  <2>1. /\ sess'[s].pc \in {"put", "save"} /\ sess'[s].seen = sess[s].seen
        /\ sess'[s].pc = "put" => sess[s].op = "upload"
        /\ sess'[s].next = sess[s].next /\ sess[s].pc = "archive"
    BY <1>0, <1>3 DEF Archive, Session
  <2> QED
    BY <2>1, ContinueMoves DEF Carried
<1>4. CASE Put(s) /\ sess'[s] = [sess[s] EXCEPT !.pc = "save"]
  <2>1. /\ sess'[s].pc = "save" /\ sess'[s].seen = sess[s].seen
        /\ sess'[s].next = sess[s].next /\ sess[s].pc = "put"
    BY <1>0, <1>4 DEF Put, Session
  <2> QED
    BY <2>1, ContinueMoves DEF Carried
<1> QED
  BY <1>1, <1>2, <1>3, <1>4, ContinueMoves

LEMMA NextTyped == TypeInv /\ [Next]_vars => TypeInv'
<1> SUFFICES ASSUME TypeInv, [Next]_vars
             PROVE  TypeInv'
  OBVIOUS
<1>1. ASSUME NEW s \in Sessions, Request(s) \/ Continue(s) \/ Crash(s)
      PROVE  TypeInv'
  <2>1. TypeOK /\ Carried(s)
    BY DEF TypeInv
  <2>2. TypeOK'
    BY <1>1, <2>1, RequestTyped, ContinueTyped DEF Carried
  <2>3. Carried(s)' /\ \A t \in Sessions \ {s} : sess'[t] = sess[t]
    BY <1>1, <2>1, RequestCarried, ContinueCarried
  <2>4. ASSUME NEW t \in Sessions \ {s}
        PROVE  Carried(t)'
    BY <2>3, <2>4 DEF TypeInv, Carried
  <2> QED
    BY <2>2, <2>3, <2>4 DEF TypeInv
<1>2. CASE UNCHANGED vars
  BY <1>2 DEF vars, TypeInv, TypeOK, Carried
<1> QED
  BY <1>1, <1>2 DEF Next

LEMMA InitTyped == Init => TypeInv
<1> SUFFICES ASSUME Init
             PROVE  TypeInv
  OBVIOUS
<1>1. PICK limit \in Limits : file = [Original EXCEPT !.limit = limit]
  BY DEF Init
<1>2. file \in File
  BY <1>1, OriginalTyped, LimitsAssumption DEF File
<1>3. /\ DOMAIN blobs \subseteq Path
      /\ \A p \in DOMAIN blobs : blobs[p] \in Nat \cup {Noise}
  BY OriginalTyped DEF Init, Path
<1>4. sess \in [Sessions -> Session] /\ \A s \in Sessions : Carried(s)
  BY IdleTyped DEF Init, Carried
<1>5. uploads \in 0..MaxUploads /\ requests \in 0..MaxRequests /\ faults \in 0..MaxFaults
  BY BoundsAssumption DEF Init
<1>6. stored \subseteq (Users \X Nat) \X Nat
  BY OriginalTyped DEF Init
<1> QED
  BY <1>2, <1>3, <1>4, <1>5, <1>6 DEF Init, TypeOK, TypeInv

\* Every variable keeps its type, under every operation, interleaving and fault.
THEOREM TypesHold == Spec => []TypeOK
<1>1. TypeInv => TypeOK
  BY DEF TypeInv
<1> QED
  BY <1>1, InitTyped, NextTyped, PTL DEF Spec

\* No commit of a session that read the file before brings a destroyed file back.
LEMMA StepKeepsDestroyed ==
    ASSUME TypeInv, [Next]_vars, file.destroyed
    PROVE  file'.destroyed
<1> SUFFICES ASSUME ~(UNCHANGED file)
             PROVE  file'.destroyed
  OBVIOUS
<1>1. PICK s \in Sessions : Continue(s)
  BY DEF Next, vars, Request, Upload, SetLimit, Start, Restore, Download, DownloadVersion,
     DeleteVersion, Destroy, Crash
<1> DEFINE seen == sess[s].seen
           next == sess[s].next
<1>2. seen \in File /\ next \in File /\ Carried(s)
  BY DEF TypeInv, TypeOK, Session
<1>3. CASE Save(s) \/ Configure(s)
  <2>1. file' = Flush(file, seen, next) /\ next.destroyed = seen.destroyed
    BY <1>2, <1>3 DEF Save, Configure, Carried
  <2> QED
    BY <2>1 DEF Flush, Column
<1>4. CASE Count(s)
  <2>1. file' = Flush(file, seen, [seen EXCEPT !.downloads = @ + 1])
    BY <1>4 DEF Count
  <2> QED
    BY <1>2, <2>1 DEF Flush, Column, File
<1>5. CASE Mark(s)
  <2>1. file' = Flush(file, seen, Destroyed(seen))
    BY <1>5 DEF Mark
  <2>2. Destroyed(seen).destroyed = TRUE
    BY <1>2 DEF Destroyed, File
  <2> QED
    BY <1>2, <2>1, <2>2 DEF Flush, Column
<1> QED
  BY <1>1, <1>3, <1>4, <1>5 DEF Continue, Select, Archive, Put, Deadlock, Fetch, Reply,
     Scrub, Remove, StoreFails, Unlink

\* A destroyed file stays destroyed, whatever the requests that read it before its
\* destruction still commit: uploads, restorations, downloads, limits.
THEOREM DestructionHolds == Spec => DestructionIsFinal
<1>1. TypeInv /\ [Next]_vars => [file.destroyed => file'.destroyed]_vars
  BY StepKeepsDestroyed
<1> QED
  BY <1>1, InitTyped, NextTyped, PTL DEF Spec, DestructionIsFinal

-----------------------------------------------------------------------------
(* What the sessions carry while nothing is restored *)

\* A file read before its destruction is whole.
LEMMA ReadWhole ==
    ASSUME TypeOK, FileSound, ~file.destroyed
    PROVE  Whole(file)
BY DistinctAssumption DEF TypeOK, FileSound, Whole, File, Path

\* A whole row stays so as the object store's past grows.
LEMMA WholeKeeps ==
    ASSUME NEW f, Whole(f), stored \subseteq stored'
    PROVE  /\ ~f.destroyed
           /\ <<f.path, f.key>> \in stored'
           /\ f.path \in Users \X Nat
           /\ f.path[2] <= f.version
BY DEF Whole

\* A session that does nothing has no obligation.
LEMMA IdleSound ==
    ASSUME NEW s \in Sessions, sess'[s] = Idle
    PROVE  SessionSound(s)'
BY IdleTyped DEF SessionSound

\* The obligations of a session do not depend on the steps of the others.
LEMMA OthersSound ==
    ASSUME TypeOK, TypeOK', NEW t \in Sessions, SessionSound(t), sess'[t] = sess[t],
           stored \subseteq stored', uploads <= uploads'
    PROVE  SessionSound(t)'
<1> DEFINE next == sess[t].next
<1>1. next \in File /\ uploads \in Nat /\ uploads' \in Nat
  BY BoundsAssumption DEF TypeOK, Session
<1> QED
  BY <1>1 DEF SessionSound, Whole

\* What is left to show of a step of session s.
LEMMA StepSound ==
    ASSUME IInv, TypeOK', NEW s \in Sessions,
           \A t \in Sessions \ {s} : sess'[t] = sess[t],
           stored \subseteq stored', uploads <= uploads',
           StoredBounded', FileSound', HistoryWhole', SessionSound(s)'
    PROVE  IInv'
<1>1. ASSUME NEW t \in Sessions
      PROVE  SessionSound(t)'
  BY <1>1, OthersSound DEF IInv
<1> QED
  BY <1>1 DEF IInv

\* A step that leaves the tables and the past alone keeps them sound.
LEMMA TablesSound ==
    ASSUME IInv, UNCHANGED <<file, history, stored, uploads>>
    PROVE  StoredBounded' /\ FileSound' /\ HistoryWhole'
BY DEF IInv, StoredBounded, FileSound, HistoryWhole, Exists

LEMMA StartSound ==
    ASSUME IInv, NEW s \in Sessions, NEW op \in AllOps, NEW pc \in Phases, Start(s, op, pc),
           \/ op = "download" /\ pc = "fetch" /\ ~file.destroyed
           \/ op = "downloadVersion" /\ pc \in {"fetch", "select"}
           \/ op = "delete" /\ pc = "select"
           \/ op = "destroy" /\ pc = "scrub" /\ ~file.destroyed
    PROVE  IInv'
<1>1. TypeOK'
  BY StartTyped DEF IInv
<1>2. StoredBounded' /\ FileSound' /\ HistoryWhole'
  BY TablesSound DEF Start
<1>3. /\ sess'[s].pc = pc /\ sess'[s].op = op /\ sess'[s].seen = file
      /\ \A t \in Sessions \ {s} : sess'[t] = sess[t]
  BY IdleTyped DEF Start, Session, IInv, TypeOK
<1>4. ~file.destroyed => Whole(file)
  BY ReadWhole DEF IInv
<1>5. SessionSound(s)'
  BY <1>3, <1>4 DEF SessionSound, Whole, Start
<1>6. stored \subseteq stored' /\ uploads <= uploads'
  BY BoundsAssumption DEF Start, IInv, TypeOK
<1> QED
  BY <1>1, <1>2, <1>3, <1>5, <1>6, StepSound

LEMMA RequestSound ==
    ASSUME IInv, "restore" \notin Ops, NEW s \in Sessions, Request(s)
    PROVE  IInv'
<1>0. TypeOK /\ TypeOK'
  BY RequestTyped DEF IInv
<1>1. ASSUME NEW u \in Users, Upload(s, u)
      PROVE  IInv'
  <2> DEFINE next == [file EXCEPT !.version = NextNumber(file),
                                  !.path = NewPath(u, NextNumber(file)), !.key = uploads + 1]
  <2>1. Whole(file)
    BY <1>1, ReadWhole DEF IInv, Upload
  <2>2. /\ sess'[s].pc = "archive" /\ sess'[s].op = "upload"
        /\ sess'[s].seen = file /\ sess'[s].next = next
        /\ \A t \in Sessions \ {s} : sess'[t] = sess[t]
        /\ uploads' = uploads + 1
    BY <1>0, <1>1, IdleTyped DEF Upload, TypeOK, Session
  <2>3. /\ next.version = file.version + 1
        /\ next.path = <<u, file.version + 1>>
        /\ next.key = uploads + 1
        /\ next.destroyed = file.destroyed
    BY <1>0 DEF NextNumber, NewPath, TypeOK, File
  <2>4. uploads \in Nat /\ file.version \in Nat /\ file.key \in Nat /\ file.key <= uploads
    BY <2>1, <1>0, BoundsAssumption DEF TypeOK, File, Whole, IInv, StoredBounded
  <2>5. stored' = stored
    BY <1>1 DEF Upload
  <2> HIDE DEF next
  <2>6. SessionSound(s)'
    BY <1>1, <2>1, <2>2, <2>3, <2>4, <2>5 DEF SessionSound, Whole
  <2>7. StoredBounded' /\ FileSound' /\ HistoryWhole'
    <3>1. StoredBounded'
      BY <2>2, <2>4, <2>5, <1>0 DEF IInv, StoredBounded, TypeOK
    <3> QED
      BY <3>1, <1>1 DEF Upload, IInv, FileSound, HistoryWhole, Exists
  <2> QED
    BY <1>0, <2>2, <2>4, <2>5, <2>6, <2>7, StepSound
<1>2. ASSUME NEW limit \in Limits, SetLimit(s, limit)
      PROVE  IInv'
  <2>1. /\ sess'[s].pc = "configure"
        /\ sess'[s].seen = file
        /\ sess'[s].next = [file EXCEPT !.limit = limit]
        /\ \A t \in Sessions \ {s} : sess'[t] = sess[t]
    BY <1>0, <1>2, IdleTyped DEF SetLimit, TypeOK, Session
  <2>2. SessionSound(s)'
    BY <1>0, <2>1 DEF SessionSound, TypeOK, File
  <2>3. StoredBounded' /\ FileSound' /\ HistoryWhole'
    BY <1>2, TablesSound DEF SetLimit
  <2>4. stored \subseteq stored' /\ uploads <= uploads'
    BY <1>0, <1>2, BoundsAssumption DEF SetLimit, TypeOK
  <2> QED
    BY <1>0, <2>1, <2>2, <2>3, <2>4, StepSound
<1>3. CASE Restore(s)
  BY <1>3 DEF Restore, Start
<1>4. CASE Download(s)
  BY <1>4, StartSound DEF Download, AllOps, Phases
<1>5. CASE DownloadVersion(s)
  <2>1. PICK pc \in {"fetch", "select"} : Start(s, "downloadVersion", pc)
    BY <1>5 DEF DownloadVersion
  <2> QED
    BY <2>1, StartSound DEF AllOps, Phases
<1>6. CASE DeleteVersion(s)
  BY <1>6, StartSound DEF DeleteVersion, AllOps, Phases
<1>7. CASE Destroy(s)
  BY <1>7, StartSound DEF Destroy, AllOps, Phases
<1> QED
  BY <1>1, <1>2, <1>3, <1>4, <1>5, <1>6, <1>7 DEF Request

\* A step of a session that is past its reads.
LEMMA ContinueSound ==
    ASSUME IInv, "restore" \notin Ops, NEW s \in Sessions, Continue(s) \/ Crash(s)
    PROVE  IInv'
<1> DEFINE seen == sess[s].seen
           next == sess[s].next
           op == sess[s].op
<1>0. /\ TypeOK /\ TypeOK' /\ SessionSound(s)
      /\ seen \in File /\ next \in File /\ sess \in [Sessions -> Session] /\ file \in File
      /\ uploads \in Nat
  <2>1. TypeOK /\ SessionSound(s) /\ uploads \in Nat
    BY BoundsAssumption DEF IInv, TypeOK
  <2>2. sess[s].pc = "put" => sess[s].next.path \in Users \X Nat /\ sess[s].next.key \in Nat
    BY <2>1 DEF SessionSound, TypeOK, Session, File, Key
  <2> QED
    BY <2>1, <2>2, ContinueTyped DEF TypeOK, Session
\* Steps that touch neither table: only the session's own record moves.
<1>a. ASSUME UNCHANGED <<file, history, stored, uploads>>,
             \A t \in Sessions \ {s} : sess'[t] = sess[t],
             SessionSound(s)'
      PROVE  IInv'
  <2>1. StoredBounded' /\ FileSound' /\ HistoryWhole'
    BY <1>a, TablesSound
  <2>2. stored \subseteq stored' /\ uploads <= uploads'
    BY <1>a, <1>0
  <2> QED
    BY <1>a, <1>0, <2>1, <2>2, StepSound
\* Steps that end the request without touching a table.
<1>b. ASSUME UNCHANGED <<file, history, stored, uploads>>, Finish(s)
      PROVE  IInv'
  <2>1. sess'[s] = Idle /\ \A t \in Sessions \ {s} : sess'[t] = sess[t]
    BY <1>b, <1>0 DEF Finish
  <2> QED
    BY <1>a, <1>b, <2>1, IdleSound
\* Steps that only move on.
<1>c. ASSUME NEW pc \in Phases, Goto(s, pc)
      PROVE  /\ sess'[s] = [sess[s] EXCEPT !.pc = pc]
             /\ sess'[s].pc = pc /\ sess'[s].op = op /\ sess'[s].seen = seen /\ sess'[s].next = next
             /\ \A t \in Sessions \ {s} : sess'[t] = sess[t]
  BY <1>c, <1>0 DEF Goto, Session
<1> HIDE DEF seen, next, op
<1>1. CASE Select(s)
  <2>1. CASE Finish(s)
    BY <2>1, <1>1, <1>b DEF Select
  <2>2. ASSUME NEW i \in RowIds, NEW version, version = At(seen, history[i]),
               \/ /\ op = "restore"
                  /\ sess' = [sess EXCEPT ![s].pc = "archive", ![s].next = version]
               \/ /\ op = "delete"
                  /\ sess' = [sess EXCEPT ![s].pc = "scrub", ![s].seen = version, ![s].row = i]
               \/ /\ op = "downloadVersion"
                  /\ sess' = [sess EXCEPT ![s].pc = "fetch", ![s].seen = version]
        PROVE  IInv'
    <3>1. op # "restore"
      BY <1>0, <1>1 DEF SessionSound, Select, op
    <3>2. \A t \in Sessions \ {s} : sess'[t] = sess[t]
      BY <2>2, <1>0
    <3>3. \/ sess'[s].op = "delete" /\ sess'[s].pc = "scrub"
          \/ sess'[s].op = "downloadVersion" /\ sess'[s].pc = "fetch"
      BY <2>2, <3>1, <1>0 DEF op, Session
    <3>4. SessionSound(s)'
      BY <3>3 DEF SessionSound
    <3> QED
      BY <1>1, <3>2, <3>4, <1>a DEF Select
  <2> QED
    BY <1>1, <2>1, <2>2 DEF Select, seen, op
<1>2. CASE Archive(s)
  <2>1. op = "upload"
    BY <1>0, <1>2 DEF SessionSound, Archive, op
  <2>2. Goto(s, "put")
    BY <1>2, <2>1 DEF Archive, op
  <2>3. SessionSound(s)'
    BY <1>0, <1>2, <2>1, <2>2, <1>c DEF SessionSound, Archive, Whole, seen, next, op, Phases
  <2> QED
    BY <1>2, <2>2, <2>3, <1>a, <1>c DEF Archive, Phases
<1>3. CASE Put(s)
  <2>1. /\ stored' = stored \cup {<<next.path, next.key>>}
        /\ Goto(s, "save")
        /\ UNCHANGED <<file, history, uploads>>
        /\ sess[s].pc = "put"
    BY <1>3 DEF Put, next
  <2>2. next.key <= uploads
    BY <1>0, <2>1 DEF SessionSound, next, seen
  <2>3. SessionSound(s)'
    BY <1>0, <2>1, <1>c DEF SessionSound, Whole, seen, next, op, Phases
  <2>4. StoredBounded'
    BY <1>0, <2>1, <2>2 DEF StoredBounded, IInv
  <2>5. FileSound' /\ HistoryWhole'
    BY <2>1 DEF FileSound, HistoryWhole, Exists, IInv
  <2>6. \A t \in Sessions \ {s} : sess'[t] = sess[t]
    BY <2>1, <1>c DEF Phases
  <2> QED
    BY <1>0, <2>1, <2>3, <2>4, <2>5, <2>6, StepSound
<1>4. CASE Save(s)
  <2>1. /\ sess[s].pc = "save"
        /\ file' = Flush(file, seen, next)
        /\ sess'[s] = Idle
        /\ \A t \in Sessions \ {s} : sess'[t] = sess[t]
        /\ UNCHANGED <<stored, uploads>>
    BY <1>4, <1>0 DEF Save, Finish, seen, next
  <2>2. /\ Whole(seen)
        /\ next.path \in Users \X Nat
        /\ next.path[2] = next.version
        /\ next.version = seen.version + 1
        /\ next.key # seen.key
        /\ <<next.path, next.key>> \in stored
    BY <1>0, <2>1, DistinctAssumption DEF SessionSound, seen, next, Whole, IInv, TypeOK
  <2>3. next.path # seen.path /\ next.version # seen.version
    BY <1>0, <2>2 DEF Whole, File
  <2>4. file'.path = next.path /\ file'.key = next.key /\ file'.version = next.version
    BY <2>1, <2>2, <2>3 DEF Flush, Column
  <2>5. FileSound'
    BY <1>0, <2>1, <2>2, <2>4 DEF FileSound, File
  <2>6. PICK i \in RowIds :
            history' = [history EXCEPT ![i] =
                            [number |-> seen.version, path |-> seen.path, key |-> seen.key]]
    BY <1>4 DEF Save, seen
  <2>7. HistoryWhole'
    <3> SUFFICES ASSUME NEW j \in RowIds, Exists(j)'
                 PROVE  <<history'[j].path, history'[j].key>> \in stored'
      BY DEF HistoryWhole
    <3>1. CASE j = i
      BY <1>0, <2>1, <2>2, <2>6, <3>1 DEF Whole, TypeOK
    <3>2. CASE j # i
      BY <1>0, <2>1, <2>6, <3>2 DEF HistoryWhole, IInv, Exists, TypeOK
    <3> QED
      BY <3>1, <3>2
  <2>8. StoredBounded'
    BY <2>1 DEF StoredBounded, IInv
  <2> QED
    BY <1>0, <2>1, <2>5, <2>7, <2>8, IdleSound, StepSound
<1>5. CASE Deadlock(s)
  BY <1>5, <1>b DEF Deadlock
<1>6. CASE Fetch(s)
  <2>1. CASE Finish(s)
    BY <2>1, <1>6, <1>b DEF Fetch
  <2>2. CASE sess' = [sess EXCEPT ![s].data = blobs[sess[s].seen.path],
                                  ![s].pc = IF sess[s].op = "download" THEN "count" ELSE "reply"]
    <3>1. /\ sess'[s].pc = IF op = "download" THEN "count" ELSE "reply"
          /\ sess'[s].op = op /\ sess'[s].seen = seen
          /\ \A t \in Sessions \ {s} : sess'[t] = sess[t]
      BY <2>2, <1>0 DEF Session, op, seen
    <3>2. SessionSound(s)'
      BY <1>0, <1>6, <3>1 DEF SessionSound, Whole, Fetch, seen, op
    <3> QED
      BY <1>6, <3>1, <3>2, <1>a DEF Fetch
  <2> QED
    BY <1>6, <2>1, <2>2 DEF Fetch
<1>7. CASE Count(s)
  <2> DEFINE counted == [seen EXCEPT !.downloads = @ + 1]
  <2>1. /\ sess[s].pc = "count" /\ op = "download" /\ Whole(seen)
        /\ file' = Flush(file, seen, counted)
        /\ UNCHANGED <<history, stored, uploads>>
    BY <1>7, <1>0 DEF Count, SessionSound, seen, op
  <2>2. /\ counted.path = seen.path /\ counted.key = seen.key /\ counted.version = seen.version
        /\ counted.destroyed = seen.destroyed
    BY <1>0 DEF File
  <2>3. /\ file'.path = file.path /\ file'.key = file.key /\ file'.version = file.version
        /\ file'.destroyed = file.destroyed
    BY <2>1, <2>2 DEF Flush, Column
  <2>4. /\ sess'[s].seen = counted /\ sess'[s].op = "download"
        /\ sess'[s].pc \in {"scrub", "reply"}
        /\ \A t \in Sessions \ {s} : sess'[t] = sess[t]
    BY <1>7, <1>0, <2>1 DEF Count, Session, seen, op
  <2> HIDE DEF counted
  <2>5. SessionSound(s)'
    BY <2>1, <2>2, <2>4 DEF SessionSound, Whole
  <2>6. StoredBounded' /\ FileSound' /\ HistoryWhole'
    BY <2>1, <2>3 DEF StoredBounded, FileSound, HistoryWhole, Exists, IInv
  <2> QED
    BY <1>0, <2>1, <2>4, <2>5, <2>6, StepSound
<1>8. CASE Reply(s)
  BY <1>8, <1>b DEF Reply
<1>9. CASE Configure(s)
  <2>1. /\ file' = Flush(file, seen, next)
        /\ next = [seen EXCEPT !.limit = next.limit]
        /\ Finish(s)
        /\ UNCHANGED <<history, stored, uploads>>
    BY <1>9, <1>0 DEF Configure, SessionSound, seen, next
  <2>2. /\ next.path = seen.path /\ next.key = seen.key /\ next.version = seen.version
        /\ next.destroyed = seen.destroyed
    BY <2>1, <1>0 DEF File
  <2>3. /\ file'.path = file.path /\ file'.key = file.key /\ file'.version = file.version
        /\ file'.destroyed = file.destroyed
    BY <2>1, <2>2 DEF Flush, Column
  <2>4. sess'[s] = Idle /\ \A t \in Sessions \ {s} : sess'[t] = sess[t]
    BY <2>1, <1>0 DEF Finish
  <2>5. StoredBounded' /\ FileSound' /\ HistoryWhole'
    BY <2>1, <2>3 DEF StoredBounded, FileSound, HistoryWhole, Exists, IInv
  <2> QED
    BY <1>0, <2>1, <2>4, <2>5, IdleSound, StepSound
<1>10. CASE Scrub(s)
  <2>1. Goto(s, "remove") /\ sess[s].pc = "scrub" /\ UNCHANGED <<file, history, stored, uploads>>
    BY <1>10 DEF Scrub
  <2>2. SessionSound(s)'
    BY <1>0, <2>1, <1>c DEF SessionSound, Whole, seen, op, Phases
  <2> QED
    BY <2>1, <2>2, <1>a, <1>c DEF Phases
<1>11. CASE Remove(s) \/ StoreFails(s)
  <2>1. /\ UNCHANGED <<file, history, stored, uploads>>
        /\ \/ sess[s].pc = "scrub" /\ Goto(s, "remove")
           \/ sess[s].pc = "remove" /\ Goto(s, IF op = "delete" THEN "unlink" ELSE "mark")
    BY <1>11 DEF Remove, StoreFails, AfterRemoval, op
  <2>2. CASE sess[s].pc = "scrub" /\ Goto(s, "remove")
    <3>1. SessionSound(s)'
      BY <1>0, <2>1, <2>2, <1>c DEF SessionSound, Whole, seen, op, Phases
    <3> QED
      BY <2>1, <2>2, <3>1, <1>a, <1>c DEF Phases
  <2>3. CASE /\ sess[s].pc = "remove"
             /\ Goto(s, IF op = "delete" THEN "unlink" ELSE "mark")
    <3>1. SessionSound(s)'
      BY <1>0, <2>1, <2>3, <1>c DEF SessionSound, Whole, seen, op, Phases
    <3> QED
      BY <2>1, <2>3, <3>1, <1>a, <1>c DEF Phases
  <2> QED
    BY <2>1, <2>2, <2>3
<1>12. CASE Unlink(s)
  <2>1. /\ sess'[s] = Idle
        /\ \A t \in Sessions \ {s} : sess'[t] = sess[t]
        /\ UNCHANGED <<file, stored, uploads>>
        /\ history' = [history EXCEPT ![sess[s].row] = Deleted]
    BY <1>12, <1>0 DEF Unlink, Finish
  <2>2. HistoryWhole'
    BY <1>0, <2>1 DEF HistoryWhole, Exists, IInv, TypeOK
  <2>3. StoredBounded' /\ FileSound'
    BY <2>1 DEF StoredBounded, FileSound, IInv
  <2> QED
    BY <1>0, <2>1, <2>2, <2>3, IdleSound, StepSound
<1>13. CASE Mark(s)
  <2> DEFINE gone == Destroyed(seen)
  <2>1. /\ Whole(seen)
        /\ file' = Flush(file, seen, gone)
        /\ UNCHANGED <<history, stored, uploads>>
    BY <1>13, <1>0 DEF Mark, SessionSound, seen
  <2>2. gone.path = Gone /\ gone.key = NoKey /\ gone.destroyed = TRUE
    BY <1>0 DEF Destroyed, File
  <2>3. Gone # seen.path /\ NoKey # seen.key /\ seen.destroyed = FALSE
    BY <1>0, <2>1, DistinctAssumption DEF Whole, IInv, TypeOK, File
  <2> HIDE DEF gone
  <2>4. file'.path = Gone /\ file'.key = NoKey /\ file'.destroyed = TRUE
    BY <2>1, <2>2, <2>3 DEF Flush, Column
  <2>5. /\ sess'[s].pc \in {"reply", "idle"}
        /\ \A t \in Sessions \ {s} : sess'[t] = sess[t]
    BY <1>13, <1>0, IdleTyped DEF Mark, Finish, Session
  <2>6. SessionSound(s)'
    BY <2>5 DEF SessionSound
  <2>7. StoredBounded' /\ FileSound' /\ HistoryWhole'
    BY <2>1, <2>4 DEF StoredBounded, FileSound, HistoryWhole, Exists, IInv
  <2> QED
    BY <1>0, <2>1, <2>5, <2>6, <2>7, StepSound
<1>14. CASE Crash(s)
  BY <1>14, <1>b DEF Crash
<1> QED
  BY <1>1, <1>2, <1>3, <1>4, <1>5, <1>6, <1>7, <1>8, <1>9, <1>10, <1>11, <1>12, <1>13, <1>14
  DEF Continue

-----------------------------------------------------------------------------
(* The theorems *)

LEMMA InitSound == Init => IInv
<1> SUFFICES ASSUME Init
             PROVE  IInv
  OBVIOUS
<1>1. PICK limit \in Limits : file = [Original EXCEPT !.limit = limit]
  BY DEF Init
<1>2. /\ file \in File /\ file.path = Original.path /\ file.key = 0 /\ file.version = 1
      /\ file.destroyed = FALSE
  BY <1>1, OriginalTyped, LimitsAssumption DEF File
<1>3. Original.path \in Path
  BY OriginalTyped DEF Path
<1>4. TypeOK
  <2>1. /\ DOMAIN blobs \subseteq Path
        /\ \A p \in DOMAIN blobs : blobs[p] \in Nat \cup {Noise}
    BY <1>3 DEF Init
  <2>2. sess \in [Sessions -> Session]
    BY IdleTyped DEF Init
  <2>3. uploads \in 0..MaxUploads /\ requests \in 0..MaxRequests /\ faults \in 0..MaxFaults
    BY BoundsAssumption DEF Init
  <2>4. stored \subseteq (Users \X Nat) \X Nat
    BY OriginalTyped DEF Init
  <2> QED
    BY <1>2, <2>1, <2>2, <2>3, <2>4 DEF Init, TypeOK
<1>5. StoredBounded /\ FileSound
  BY <1>2, OriginalTyped DEF Init, StoredBounded, FileSound
<1>6. HistoryWhole
  BY DEF Init, HistoryWhole, Exists
<1>7. \A s \in Sessions : SessionSound(s)
  BY IdleTyped DEF Init, SessionSound
<1> QED
  BY <1>4, <1>5, <1>6, <1>7 DEF IInv

LEMMA NextSound == IInv /\ "restore" \notin Ops /\ [Next]_vars => IInv'
<1> SUFFICES ASSUME IInv, "restore" \notin Ops, [Next]_vars
             PROVE  IInv'
  OBVIOUS
<1>1. ASSUME NEW s \in Sessions, Request(s) \/ Continue(s) \/ Crash(s)
      PROVE  IInv'
  BY <1>1, RequestSound, ContinueSound
<1>2. CASE UNCHANGED vars
  BY <1>2 DEF vars, IInv, TypeOK, StoredBounded, FileSound, HistoryWhole, Exists, SessionSound,
     Whole
<1> QED
  BY <1>1, <1>2 DEF Next

\* The inductive invariant, when restore_version is not among the operations.
THEOREM InvariantHolds == "restore" \notin Ops => (Spec => []IInv)
<1> SUFFICES ASSUME "restore" \notin Ops
             PROVE  Spec => []IInv
  OBVIOUS
<1>1. IInv /\ [Next]_vars => IInv'
  BY NextSound
<1> QED
  BY <1>1, InitSound, PTL DEF Spec

\* However uploads, downloads, deletions and destructions interleave and fail,
\* no row pairs the path of one upload with the key of another.
THEOREM RowsStayWhole == "restore" \notin Ops => (Spec => []RowsAreWhole)
<1> SUFFICES ASSUME "restore" \notin Ops
             PROVE  Spec => []RowsAreWhole
  OBVIOUS
<1>1. IInv => RowsAreWhole
  BY DEF IInv, FileSound, RowsAreWhole
<1> QED
  BY <1>1, InvariantHolds, PTL

-----------------------------------------------------------------------------
(* One request at a time: every operation, restorations included *)

\* There is one session.
OneSession == \A s, t \in Sessions : s = t

\* What a request that runs alone has read is what the tables still hold, and
\* what it is about to commit differs from that where its operation says.
Fresh(s) ==
    LET pc == sess[s].pc
        op == sess[s].op
        seen == sess[s].seen
        next == sess[s].next
    IN /\ pc = "select" => op \in {"restore", "delete", "downloadVersion"} /\ seen = file
       /\ pc = "select" /\ op = "restore" => ~file.destroyed
       /\ pc \in {"archive", "put", "save"} =>
            /\ op \in {"upload", "restore"}
            /\ seen = file
            /\ ~file.destroyed
            /\ next.downloads = file.downloads
            /\ next.limit = file.limit
            /\ ~next.destroyed
       /\ pc \in {"archive", "put", "save"} /\ op = "upload" =>
            /\ next.path \in Users \X Nat
            /\ next.path[2] = next.version
            /\ next.version = file.version + 1
            /\ next.key \in Nat
       /\ pc \in {"archive", "save"} /\ op = "restore" =>
            \E i \in RowIds : Exists(i) /\ next = At(file, history[i])
       /\ pc = "put" => op = "upload"
       /\ pc = "save" => <<next.path, next.key>> \in stored
       /\ pc = "configure" => seen = file /\ ~file.destroyed /\ next = [file EXCEPT !.limit = next.limit]
       /\ pc \in {"fetch", "reply"} => op \in {"download", "downloadVersion"}
       /\ pc = "fetch" /\ op = "download" => seen = file /\ ~file.destroyed
       /\ pc = "count" => op = "download" /\ seen = file /\ ~file.destroyed
       /\ pc \in {"scrub", "remove"} => op \in {"delete", "download", "destroy"}
       /\ pc = "mark" => op \in {"download", "destroy"}
       /\ pc \in {"scrub", "remove", "mark"} /\ op # "delete" => seen = file /\ ~file.destroyed
       /\ pc = "unlink" => op = "delete"
       /\ pc \in {"scrub", "remove", "unlink"} /\ op = "delete" =>
            /\ sess[s].row \in RowIds
            /\ Exists(sess[s].row)
            /\ seen.path = history[sess[s].row].path
            /\ history[sess[s].row].number # file.version
            /\ \A i \in RowIds : Exists(i) /\ history[i].number = history[sess[s].row].number =>
                                    i = sess[s].row

\* The downloads answered are among those counted; the one that reaches the limit
\* is answered once the file is destroyed.
Counted ==
    /\ served <= file.downloads
    /\ \A s \in Sessions : sess[s].op = "download" =>
        /\ sess[s].pc \in {"scrub", "remove", "mark", "reply"} => served + 1 <= file.downloads
        /\ sess[s].pc = "reply" => file.destroyed \/ ~LimitReached(file)

\* The rows of the versions are older than the file's.
HistoryBelow ==
    \A i \in RowIds : Exists(i) =>
        history[i].number <= file.version /\ history[i].path[2] <= file.version

\* Until something is restored, no two rows share a blob.
OwnBlobs ==
    ~Restored =>
        /\ \A i \in RowIds : Exists(i) => history[i].path # file.path
        /\ \A i, j \in RowIds : Exists(i) /\ Exists(j) /\ history[i].path = history[j].path => i = j

SerialInv ==
    /\ TypeOK
    /\ FileSound
    /\ HistoryWhole
    /\ Counted
    /\ HistoryBelow
    /\ OwnBlobs
    /\ \A s \in Sessions : Fresh(s)

\* The blob a deletion or a destruction under way has taken.
Taken(path) ==
    \E s \in Sessions : sess[s].pc \in {"remove", "unlink", "mark"} /\ sess[s].seen.path = path
Intact(path, key) == Opens(path, key) \/ Taken(path)

FileIntact == ~file.destroyed /\ ~BlobShared => Intact(file.path, file.key)
VersionsIntact ==
    ~BlobShared /\ ~(Restored /\ file.destroyed) =>
        \A i \in RowIds : Exists(i) => Intact(history[i].path, history[i].key)
NewContentStored ==
    \A s \in Sessions : sess[s].pc = "save" /\ sess[s].op = "upload" => Opens(sess[s].next.path, sess[s].next.key)

ReadInv ==
    /\ SerialInv
    /\ FileIntact
    /\ VersionsIntact
    /\ NewContentStored

-----------------------------------------------------------------------------
(* Lemmas *)

\* A commit of a row read as it still is stores the row as it was to be.
LEMMA FlushSame ==
    ASSUME NEW seen \in File, NEW next \in File
    PROVE  Flush(seen, seen, next) = next
BY DEF Flush, Column, File

LEMMA FinishMoves ==
    ASSUME NEW s \in Sessions, sess \in [Sessions -> Session], Finish(s)
    PROVE  sess'[s] = Idle /\ sess'[s].pc = "idle" /\ sess'[s].op = None
BY IdleTyped DEF Finish, Idle

LEMMA GotoMoves ==
    ASSUME NEW s \in Sessions, NEW pc, sess \in [Sessions -> Session], Goto(s, pc)
    PROVE  /\ sess'[s].pc = pc /\ sess'[s].op = sess[s].op /\ sess'[s].seen = sess[s].seen
           /\ sess'[s].next = sess[s].next /\ sess'[s].row = sess[s].row
BY DEF Goto, Session

LEMMA StartMoves ==
    ASSUME NEW s \in Sessions, NEW op, NEW pc, sess \in [Sessions -> Session], Start(s, op, pc)
    PROVE  /\ sess'[s].pc = pc /\ sess'[s].op = op /\ sess'[s].seen = file
           /\ sess'[s].next = file
           /\ UNCHANGED <<file, history, blobs, served, stored>>
BY DEF Start, Session, Idle

\* What the lookup of a version finds: a row, alone with its number.
LEMMA SelectMoves ==
    ASSUME TypeOK, NEW s \in Sessions, Select(s)
    PROVE  \/ Finish(s)
           \/ \E i \in RowIds :
                /\ Exists(i)
                /\ \A j \in RowIds : Exists(j) /\ history[j].number = history[i].number => j = i
                /\ \/ /\ sess[s].op = "restore"
                      /\ sess'[s] = [sess[s] EXCEPT !.pc = "archive",
                                                    !.next = At(sess[s].seen, history[i])]
                   \/ /\ sess[s].op = "delete"
                      /\ history[i].number # sess[s].seen.version
                      /\ sess'[s] = [sess[s] EXCEPT !.pc = "scrub", !.row = i,
                                                    !.seen = At(sess[s].seen, history[i])]
                   \/ /\ sess[s].op = "downloadVersion"
                      /\ sess'[s] = [sess[s] EXCEPT !.pc = "fetch",
                                                    !.seen = At(sess[s].seen, history[i])]
<1> SUFFICES ASSUME ~Finish(s)
             PROVE  \E i \in RowIds :
                /\ Exists(i)
                /\ \A j \in RowIds : Exists(j) /\ history[j].number = history[i].number => j = i
                /\ \/ /\ sess[s].op = "restore"
                      /\ sess'[s] = [sess[s] EXCEPT !.pc = "archive",
                                                    !.next = At(sess[s].seen, history[i])]
                   \/ /\ sess[s].op = "delete"
                      /\ history[i].number # sess[s].seen.version
                      /\ sess'[s] = [sess[s] EXCEPT !.pc = "scrub", !.row = i,
                                                    !.seen = At(sess[s].seen, history[i])]
                   \/ /\ sess[s].op = "downloadVersion"
                      /\ sess'[s] = [sess[s] EXCEPT !.pc = "fetch",
                                                    !.seen = At(sess[s].seen, history[i])]
  OBVIOUS
<1>1. PICK n \in Numbers, i \in RowIds :
          /\ Numbered(n) = {i}
          /\ n = sess[s].seen.version => sess[s].op = "restore"
          /\ \/ /\ sess[s].op = "restore"
                /\ sess' = [sess EXCEPT ![s].pc = "archive",
                                        ![s].next = At(sess[s].seen, history[i])]
             \/ /\ sess[s].op = "delete"
                /\ sess' = [sess EXCEPT ![s].pc = "scrub",
                                        ![s].seen = At(sess[s].seen, history[i]), ![s].row = i]
             \/ /\ sess[s].op = "downloadVersion"
                /\ sess' = [sess EXCEPT ![s].pc = "fetch",
                                        ![s].seen = At(sess[s].seen, history[i])]
  BY DEF Select
<1>2. /\ Exists(i) /\ history[i].number = n
      /\ \A j \in RowIds : Exists(j) /\ history[j].number = n => j = i
  BY <1>1 DEF Numbered
<1>3. sess \in [Sessions -> Session]
  BY DEF TypeOK
<1>4. \/ /\ sess[s].op = "restore"
         /\ sess'[s] = [sess[s] EXCEPT !.pc = "archive", !.next = At(sess[s].seen, history[i])]
      \/ /\ sess[s].op = "delete" /\ n # sess[s].seen.version
         /\ sess'[s] = [sess[s] EXCEPT !.pc = "scrub", !.row = i,
                                       !.seen = At(sess[s].seen, history[i])]
      \/ /\ sess[s].op = "downloadVersion"
         /\ sess'[s] = [sess[s] EXCEPT !.pc = "fetch", !.seen = At(sess[s].seen, history[i])]
  <2> DEFINE version == At(sess[s].seen, history[i])
  <2> HIDE DEF version
  <2>1. CASE sess' = [sess EXCEPT ![s].pc = "archive", ![s].next = version]
    BY <1>1, <1>3, <2>1 DEF Session, version
  <2>2. CASE sess' = [sess EXCEPT ![s].pc = "scrub", ![s].seen = version, ![s].row = i]
    <3>1. sess'[s] = [sess[s] EXCEPT !.pc = "scrub", !.row = i, !.seen = version]
      BY <1>3, <2>2 DEF Session
    <3> QED
      BY <1>1, <1>3, <2>2, <3>1 DEF version
  <2>3. CASE sess' = [sess EXCEPT ![s].pc = "fetch", ![s].seen = version]
    BY <1>1, <1>3, <2>3 DEF Session, version
  <2> QED
    BY <1>1, <2>1, <2>2, <2>3 DEF version
<1> QED
  BY <1>2, <1>4

\* What is known of the rows, whatever the session holds.
Tables ==
    /\ FileSound
    /\ HistoryWhole
    /\ HistoryBelow
    /\ OwnBlobs

LEMMA TablesKept ==
    ASSUME Tables, UNCHANGED <<file, history>>, stored \subseteq stored'
    PROVE  Tables'
<1>1. Restored' <=> Restored
  BY DEF Restored, Exists
<1> QED
  BY <1>1 DEF Tables, FileSound, HistoryWhole, HistoryBelow, OwnBlobs, Exists

\* What is left to show of a step of the one session.
LEMMA StepSerial ==
    ASSUME OneSession, NEW s \in Sessions, TypeOK', Tables', Fresh(s)', served' <= file'.downloads,
           sess'[s].op = "download" =>
                /\ sess'[s].pc \in {"scrub", "remove", "mark", "reply"} => served' + 1 <= file'.downloads
                /\ sess'[s].pc = "reply" => file'.destroyed \/ ~LimitReached(file)'
    PROVE  SerialInv'
<1>1. \A t \in Sessions : t = s
  BY DEF OneSession
<1> QED
  BY <1>1 DEF SerialInv, Tables, Counted

LEMMA RequestSerial ==
    ASSUME OneSession, SerialInv, NEW s \in Sessions, Request(s)
    PROVE  SerialInv'
<1>0. /\ TypeOK /\ TypeOK' /\ Tables /\ sess \in [Sessions -> Session] /\ file \in File
      /\ uploads \in Nat /\ served <= file.downloads
  BY RequestTyped, BoundsAssumption DEF SerialInv, Tables, TypeOK, Counted
<1>a. ASSUME NEW op, NEW pc, Start(s, op, pc),
             \/ op = "restore" /\ pc = "select" /\ ~file.destroyed
             \/ op = "download" /\ pc = "fetch" /\ ~file.destroyed
             \/ op = "downloadVersion" /\ pc \in {"fetch", "select"}
             \/ op = "delete" /\ pc = "select"
             \/ op = "destroy" /\ pc = "scrub" /\ ~file.destroyed
      PROVE  SerialInv'
  <2>1. /\ sess'[s].pc = pc /\ sess'[s].op = op /\ sess'[s].seen = file
        /\ UNCHANGED <<file, history, served, stored>>
    BY <1>0, <1>a, StartMoves
  <2>2. Tables'
    BY <1>0, <2>1, TablesKept
  <2>3. Fresh(s)'
    BY <1>a, <2>1 DEF Fresh
  <2> QED
    BY <1>0, <1>a, <2>1, <2>2, <2>3, StepSerial
<1>1. ASSUME NEW u \in Users, Upload(s, u)
      PROVE  SerialInv'
  <2> DEFINE new == [file EXCEPT !.version = NextNumber(file),
                                 !.path = NewPath(u, NextNumber(file)), !.key = uploads + 1]
  <2>1. /\ sess'[s].pc = "archive" /\ sess'[s].op = "upload" /\ sess'[s].seen = file
        /\ sess'[s].next = new
        /\ UNCHANGED <<file, history, served, stored>>
        /\ ~file.destroyed
    BY <1>0, <1>1, IdleTyped DEF Upload, Session
  <2>2. /\ new.version = file.version + 1
        /\ new.path = <<u, file.version + 1>>
        /\ new.key = uploads + 1
        /\ new.downloads = file.downloads
        /\ new.limit = file.limit
        /\ new.destroyed = file.destroyed
    BY <1>0 DEF File, NextNumber, NewPath
  <2>3. /\ new.path \in Users \X Nat
        /\ new.path[2] = new.version
        /\ new.key \in Nat
    BY <1>0, <1>1, <2>2 DEF File
  <2> HIDE DEF new
  <2>4. Tables'
    BY <1>0, <2>1, TablesKept
  <2>5. Fresh(s)'
    BY <2>1, <2>2, <2>3 DEF Fresh
  <2> QED
    BY <1>0, <2>1, <2>4, <2>5, StepSerial
<1>2. ASSUME NEW limit \in Limits, SetLimit(s, limit)
      PROVE  SerialInv'
  <2>1. /\ sess'[s].pc = "configure" /\ sess'[s].op = "configure" /\ sess'[s].seen = file
        /\ sess'[s].next = [file EXCEPT !.limit = limit]
        /\ UNCHANGED <<file, history, served, stored>>
        /\ ~file.destroyed
    BY <1>0, <1>2, IdleTyped DEF SetLimit, Session
  <2>2. [file EXCEPT !.limit = limit].limit = limit
    BY <1>0 DEF File
  <2>3. Tables'
    BY <1>0, <2>1, TablesKept
  <2>4. Fresh(s)'
    BY <2>1, <2>2 DEF Fresh
  <2> QED
    BY <1>0, <2>1, <2>3, <2>4, StepSerial
<1>3. CASE Restore(s)
  BY <1>3, <1>a DEF Restore
<1>4. CASE Download(s)
  BY <1>4, <1>a DEF Download
<1>5. CASE DownloadVersion(s)
  <2>1. PICK pc \in {"fetch", "select"} : Start(s, "downloadVersion", pc)
    BY <1>5 DEF DownloadVersion
  <2> QED
    BY <2>1, <1>a
<1>6. CASE DeleteVersion(s)
  BY <1>6, <1>a DEF DeleteVersion
<1>7. CASE Destroy(s)
  BY <1>7, <1>a DEF Destroy
<1> QED
  BY <1>1, <1>2, <1>3, <1>4, <1>5, <1>6, <1>7 DEF Request

LEMMA FreshPutTyped ==
    ASSUME TypeOK, NEW s \in Sessions, Fresh(s), sess[s].pc = "put"
    PROVE  sess[s].next.path \in Users \X Nat /\ sess[s].next.key \in Nat
BY DEF Fresh

\* Steps that leave the rows alone.
LEMMA QuietSerial ==
    ASSUME OneSession, SerialInv, NEW s \in Sessions,
           \/ Select(s) \/ Archive(s) \/ Put(s) \/ Deadlock(s) \/ Fetch(s) \/ Reply(s)
           \/ Scrub(s) \/ Remove(s) \/ StoreFails(s) \/ Crash(s)
    PROVE  SerialInv'
<1> DEFINE seen == sess[s].seen
           next == sess[s].next
           op == sess[s].op
           row == sess[s].row
<1>0. /\ TypeOK /\ TypeOK' /\ Tables /\ sess \in [Sessions -> Session] /\ file \in File
      /\ Fresh(s) /\ served \in Nat /\ served <= file.downloads /\ file.downloads \in Nat
      /\ seen \in File /\ next \in File
      /\ op = "download" =>
            /\ sess[s].pc \in {"scrub", "remove", "mark", "reply"} => served + 1 <= file.downloads
            /\ sess[s].pc = "reply" => file.destroyed \/ ~LimitReached(file)
  <2>1. TypeOK /\ Fresh(s) /\ Tables
    BY DEF SerialInv, Tables
  <2>2. TypeOK'
    BY <2>1, FreshPutTyped, ContinueTyped DEF Continue
  <2> QED
    BY <2>1, <2>2 DEF SerialInv, TypeOK, Session, File, Counted
<1> HIDE DEF seen, next, op, row
<1>1. UNCHANGED <<file, history>> /\ stored \subseteq stored'
  BY DEF Select, Archive, Put, Deadlock, Fetch, Reply, Scrub, Remove, StoreFails, Crash
<1>2. Tables'
  BY <1>0, <1>1, TablesKept
<1>3. LimitReached(file)' <=> LimitReached(file)
  BY <1>1 DEF LimitReached
<1>a. ASSUME Finish(s), served' <= file.downloads
      PROVE  SerialInv'
  <2>1. sess'[s].pc = "idle" /\ sess'[s].op = None
    BY <1>a, <1>0, FinishMoves
  <2>2. Fresh(s)'
    BY <2>1 DEF Fresh
  <2> QED
    BY <1>0, <1>1, <1>2, <1>a, <2>1, <2>2, StepSerial
<1>4. CASE Deadlock(s) \/ Crash(s)
  BY <1>0, <1>4, <1>a DEF Deadlock, Crash
<1>5. CASE Reply(s)
  <2>1. served' <= file.downloads /\ Finish(s)
    BY <1>0, <1>5 DEF Reply, op
  <2> QED
    BY <2>1, <1>a
<1>6. CASE Select(s)
  <2>0. /\ sess[s].pc = "select" /\ seen = file /\ served' = served
        /\ op = "restore" => ~file.destroyed
    BY <1>0, <1>6 DEF Select, Fresh, seen, op
  <2>1. CASE Finish(s)
    BY <1>0, <2>0, <2>1, <1>a
  <2>2. CASE ~Finish(s)
    <3>1. PICK i \in RowIds :
            /\ Exists(i)
            /\ \A j \in RowIds : Exists(j) /\ history[j].number = history[i].number => j = i
            /\ \/ /\ op = "restore"
                  /\ sess'[s] = [sess[s] EXCEPT !.pc = "archive", !.next = At(seen, history[i])]
               \/ /\ op = "delete"
                  /\ history[i].number # seen.version
                  /\ sess'[s] = [sess[s] EXCEPT !.pc = "scrub", !.row = i,
                                                !.seen = At(seen, history[i])]
               \/ /\ op = "downloadVersion"
                  /\ sess'[s] = [sess[s] EXCEPT !.pc = "fetch", !.seen = At(seen, history[i])]
      BY <1>0, <1>6, <2>2, SelectMoves DEF seen, op
    <3>2. PICK version : version = At(seen, history[i])
      OBVIOUS
    <3>3. /\ version.path = history[i].path
          /\ version.downloads = file.downloads
          /\ version.limit = file.limit
          /\ version.destroyed = file.destroyed
      BY <1>0, <2>0, <3>2 DEF At, File
    <3>4. CASE op = "restore"
      <4>1. /\ sess'[s].pc = "archive" /\ sess'[s].op = "restore"
            /\ sess'[s].seen = file /\ sess'[s].next = version
        BY <1>0, <2>0, <3>1, <3>2, <3>4 DEF Session, seen, op
      <4>2. version = At(file, history[i])' /\ Exists(i)'
        BY <1>1, <2>0, <3>1, <3>2 DEF At, Exists
      <4>3. Fresh(s)'
        BY <1>1, <2>0, <3>3, <3>4, <4>1, <4>2 DEF Fresh
      <4> QED
        BY <1>0, <1>1, <1>2, <2>0, <4>1, <4>3, StepSerial
    <3>5. CASE op = "delete"
      <4>1. /\ sess'[s].pc = "scrub" /\ sess'[s].op = "delete"
            /\ sess'[s].seen = version /\ sess'[s].row = i
        BY <1>0, <2>0, <3>1, <3>2, <3>5 DEF Session, seen, op
      <4>2. Fresh(s)'
        BY <1>1, <2>0, <3>1, <3>3, <3>5, <4>1 DEF Fresh, Exists
      <4> QED
        BY <1>0, <1>1, <1>2, <2>0, <4>1, <4>2, StepSerial
    <3>6. CASE op = "downloadVersion"
      <4>1. /\ sess'[s].pc = "fetch" /\ sess'[s].op = "downloadVersion"
        BY <1>0, <2>0, <3>1, <3>2, <3>6 DEF Session, seen, op
      <4>2. Fresh(s)'
        BY <4>1 DEF Fresh
      <4> QED
        BY <1>0, <1>1, <1>2, <2>0, <4>1, <4>2, StepSerial
    <3> QED
      BY <3>1, <3>4, <3>5, <3>6
  <2> QED
    BY <2>1, <2>2
\* Steps that only move on.
<1>b. ASSUME NEW pc, Goto(s, pc)
      PROVE  /\ sess'[s].pc = pc /\ sess'[s].op = op /\ sess'[s].seen = seen
             /\ sess'[s].next = next /\ sess'[s].row = row
  BY <1>0, <1>b, GotoMoves DEF op, seen, next, row
<1>c. ASSUME NEW i \in RowIds
      PROVE  /\ Exists(i)' <=> Exists(i)
             /\ At(file, history[i])' = At(file, history[i])
  BY <1>1 DEF Exists, At
<1>7. CASE Archive(s)
  <2>1. /\ sess[s].pc = "archive" /\ served' = served
        /\ Goto(s, IF op = "upload" THEN "put" ELSE "save")
        /\ UNCHANGED stored
    BY <1>7 DEF Archive, op
  <2>2. /\ sess'[s].op = op /\ sess'[s].seen = seen /\ sess'[s].next = next
        /\ sess'[s].pc = IF op = "upload" THEN "put" ELSE "save"
    BY <2>1, <1>b
  <2>3. op = "restore" => <<next.path, next.key>> \in stored
    <3> SUFFICES ASSUME op = "restore"
                 PROVE  <<next.path, next.key>> \in stored
      OBVIOUS
    <3>1. PICK i \in RowIds : Exists(i) /\ next = At(file, history[i])
      BY <1>0, <2>1 DEF Fresh, op, next
    <3>2. next.path = history[i].path /\ next.key = history[i].key
      BY <1>0, <3>1 DEF At, File
    <3> QED
      BY <1>0, <3>1, <3>2 DEF Tables, HistoryWhole
  <2>4. Fresh(s)'
    BY <1>0, <1>1, <1>c, <2>1, <2>2, <2>3 DEF Fresh, op, seen, next
  <2>5. op # "download" /\ sess'[s].op # "download"
    BY <1>0, <2>1, <2>2 DEF Fresh, op
  <2> QED
    BY <1>0, <1>1, <1>2, <2>1, <2>4, <2>5, StepSerial
<1>8. CASE Put(s)
  <2>1. /\ sess[s].pc = "put" /\ served' = served /\ Goto(s, "save")
        /\ stored' = stored \cup {<<next.path, next.key>>}
    BY <1>8 DEF Put, next
  <2>2. /\ sess'[s].op = op /\ sess'[s].seen = seen /\ sess'[s].next = next
        /\ sess'[s].pc = "save"
    BY <2>1, <1>b
  <2>3. Fresh(s)'
    BY <1>0, <1>1, <2>1, <2>2 DEF Fresh, op, seen, next
  <2>4. sess'[s].op # "download"
    BY <1>0, <2>1, <2>2 DEF Fresh, op
  <2> QED
    BY <1>0, <1>1, <1>2, <2>1, <2>3, <2>4, StepSerial
<1>9. CASE Fetch(s)
  <2>1. sess[s].pc = "fetch" /\ served' = served /\ UNCHANGED stored
    BY <1>9 DEF Fetch
  <2>2. CASE Finish(s)
    BY <1>0, <2>1, <2>2, <1>a
  <2>3. CASE sess' = [sess EXCEPT ![s].data = blobs[sess[s].seen.path],
                                  ![s].pc = IF sess[s].op = "download" THEN "count" ELSE "reply"]
    <3>1. /\ sess'[s].pc = IF op = "download" THEN "count" ELSE "reply"
          /\ sess'[s].op = op /\ sess'[s].seen = seen
      BY <2>3, <1>0 DEF Session, op, seen
    <3>2. Fresh(s)'
      BY <1>0, <1>1, <2>1, <3>1 DEF Fresh, seen, op
    <3> QED
      BY <1>0, <1>1, <1>2, <2>1, <3>1, <3>2, StepSerial
  <2> QED
    BY <1>9, <2>2, <2>3 DEF Fetch
<1>10. CASE Scrub(s) \/ Remove(s) \/ StoreFails(s)
  <2>1. /\ served' = served /\ UNCHANGED stored
        /\ \/ sess[s].pc = "scrub" /\ Goto(s, "remove")
           \/ sess[s].pc = "remove" /\ Goto(s, IF op = "delete" THEN "unlink" ELSE "mark")
    BY <1>10 DEF Scrub, Remove, StoreFails, AfterRemoval, op
  <2>2. /\ sess'[s].op = op /\ sess'[s].seen = seen /\ sess'[s].row = row
        /\ \/ sess[s].pc = "scrub" /\ sess'[s].pc = "remove"
           \/ sess[s].pc = "remove" /\ sess'[s].pc = IF op = "delete" THEN "unlink" ELSE "mark"
    BY <2>1, <1>b
  <2>3. Fresh(s)'
    BY <1>0, <1>1, <1>c, <2>1, <2>2 DEF Fresh, seen, op, row
  <2> QED
    BY <1>0, <1>1, <1>2, <1>3, <2>1, <2>2, <2>3, StepSerial
<1> QED
  BY <1>4, <1>5, <1>6, <1>7, <1>8, <1>9, <1>10

\* A commit that changes only the limit and the counter of the file's row.
LEMMA SameContent ==
    ASSUME TypeOK, Tables, ~file.destroyed, ~file'.destroyed, UNCHANGED <<history, stored>>,
           file'.path = file.path, file'.key = file.key, file'.version = file.version
    PROVE  Tables'
<1>1. Restored' <=> Restored
  BY DEF Restored, Exists
<1> QED
  BY <1>1 DEF Tables, FileSound, HistoryWhole, HistoryBelow, OwnBlobs, Exists

\* The insert of a version that archives the file's row.
Archived(i) ==
    /\ history[i] = NoRow
    /\ history' = [history EXCEPT ![i] =
                    [number |-> file.version, path |-> file.path, key |-> file.key]]

LEMMA ArchivedRows ==
    ASSUME TypeOK, NEW i \in RowIds, Archived(i), file.path \in Users \X Nat
    PROVE  /\ ~Exists(i)
           /\ Exists(i)' /\ history'[i].number = file.version
           /\ history'[i].path = file.path /\ history'[i].key = file.key
           /\ \A j \in RowIds \ {i} : history'[j] = history[j] /\ (Exists(j)' <=> Exists(j))
<1>1. [number |-> file.version, path |-> file.path, key |-> file.key] \in Version
  BY DEF TypeOK, File, Version
<1>2. /\ ~Exists(i)
      /\ history'[i] = [number |-> file.version, path |-> file.path, key |-> file.key]
      /\ \A j \in RowIds \ {i} : history'[j] = history[j]
  BY DEF Archived, Exists, TypeOK
<1>3. history'[i] \notin {NoRow, Deleted}
  BY <1>1, <1>2, RowsAssumption
<1> QED
  BY <1>2, <1>3 DEF Exists

\* The insert keeps what a restoration or a deletion has left.
LEMMA ArchivedKeeps ==
    ASSUME TypeOK, NEW i \in RowIds, Archived(i), file.path \in Users \X Nat,
           Restored
    PROVE  Restored'
<1>0. /\ ~Exists(i)
      /\ Exists(i)' /\ history'[i].number = file.version
      /\ \A j \in RowIds \ {i} : history'[j] = history[j] /\ (Exists(j)' <=> Exists(j))
  BY ArchivedRows
<1>1. CASE \E k \in RowIds : Exists(k) /\ history[k].number = file.version
  <2>1. PICK k \in RowIds : Exists(k) /\ history[k].number = file.version
    BY <1>1
  <2>2. k # i /\ Exists(k)' /\ history'[k].number = history'[i].number
    BY <1>0, <2>1
  <2> QED
    BY <1>0, <2>2 DEF Restored
<1>2. CASE \E k, j \in RowIds :
              k # j /\ Exists(k) /\ Exists(j) /\ history[k].number = history[j].number
  <2>1. PICK k, j \in RowIds :
              k # j /\ Exists(k) /\ Exists(j) /\ history[k].number = history[j].number
    BY <1>2
  <2>2. k # i /\ j # i
    BY <1>0, <2>1
  <2>3. Exists(k)' /\ Exists(j)' /\ history'[k].number = history'[j].number
    BY <1>0, <2>1, <2>2
  <2> QED
    BY <2>1, <2>3 DEF Restored
<1> QED
  BY <1>1, <1>2 DEF Restored

LEMMA SaveSerial ==
    ASSUME OneSession, SerialInv, NEW s \in Sessions, Save(s)
    PROVE  SerialInv'
<1> DEFINE seen == sess[s].seen
           next == sess[s].next
           op == sess[s].op
<1>0. /\ TypeOK /\ TypeOK' /\ Tables /\ sess \in [Sessions -> Session] /\ file \in File
      /\ Fresh(s) /\ served \in Nat /\ served <= file.downloads
      /\ seen \in File /\ next \in File
  <2>1. TypeOK /\ Fresh(s) /\ Tables
    BY DEF SerialInv, Tables
  <2>2. TypeOK'
    BY <2>1, FreshPutTyped, ContinueTyped DEF Continue
  <2> QED
    BY <2>1, <2>2 DEF SerialInv, TypeOK, Session, File, Counted
<1>1. /\ sess[s].pc = "save"
      /\ \E i \in RowIds :
            /\ history[i] = NoRow
            /\ history' = [history EXCEPT ![i] =
                            [number |-> seen.version, path |-> seen.path, key |-> seen.key]]
      /\ file' = Flush(file, seen, next)
      /\ Finish(s)
      /\ UNCHANGED <<stored, served>>
  BY DEF Save
<1>2. /\ op \in {"upload", "restore"} /\ seen = file /\ ~file.destroyed
      /\ next.downloads = file.downloads /\ ~next.destroyed
      /\ <<next.path, next.key>> \in stored
      /\ op = "upload" =>
            /\ next.path \in Users \X Nat
            /\ next.path[2] = next.version
            /\ next.version = file.version + 1
      /\ op = "restore" => \E i \in RowIds : Exists(i) /\ next = At(file, history[i])
  BY <1>0, <1>1 DEF Fresh
<1> HIDE DEF seen, next, op
<1>3. PICK i \in RowIds : Archived(i)
  BY <1>1, <1>2 DEF Archived
<1>4. file' = next
  BY <1>0, <1>1, <1>2, FlushSame
<1>5. Whole(file)
  BY <1>0, <1>2, ReadWhole DEF Tables
<1>6. /\ ~Exists(i)
      /\ Exists(i)' /\ history'[i].number = file.version
      /\ history'[i].path = file.path /\ history'[i].key = file.key
      /\ \A j \in RowIds \ {i} : history'[j] = history[j] /\ (Exists(j)' <=> Exists(j))
  BY <1>0, <1>3, <1>5, ArchivedRows DEF Whole
<1>7. /\ next.version \in Nat /\ file.version \in Nat /\ next.version >= file.version
      /\ next.path \in Path /\ (next.path = Gone \/ next.path[2] <= next.version)
  <2>1. CASE op = "upload"
    BY <1>0, <1>2, <2>1 DEF File
  <2>2. CASE op = "restore"
    <3>1. PICK k \in RowIds : Exists(k) /\ next = At(file, history[k])
      BY <1>2, <2>2
    <3>2. next.version = file.version /\ next.path = history[k].path
      BY <1>0, <3>1 DEF At, File
    <3>3. next.path[2] <= file.version
      BY <1>0, <3>1, <3>2 DEF Tables, HistoryBelow
    <3> QED
      BY <1>0, <3>2, <3>3 DEF File
  <2> QED
    BY <1>2, <2>1, <2>2
<1>8. FileSound'
  BY <1>1, <1>2, <1>4, <1>7 DEF FileSound
<1>9. HistoryWhole'
  <2> SUFFICES ASSUME NEW j \in RowIds, Exists(j)'
               PROVE  <<history'[j].path, history'[j].key>> \in stored'
    BY DEF HistoryWhole
  <2>1. CASE j = i
    BY <1>1, <1>5, <1>6, <2>1 DEF Whole
  <2>2. CASE j # i
    BY <1>0, <1>1, <1>6, <2>2 DEF HistoryWhole, Tables
  <2> QED
    BY <2>1, <2>2
<1>10. HistoryBelow'
  <2> SUFFICES ASSUME NEW j \in RowIds, Exists(j)'
               PROVE  history'[j].number <= file'.version /\ history'[j].path[2] <= file'.version
    BY DEF HistoryBelow
  <2>1. CASE j = i
    <3>1. file.path[2] \in Nat /\ file.path[2] <= file.version
      BY <1>5 DEF Whole
    <3> QED
      BY <1>4, <1>6, <1>7, <2>1, <3>1
  <2>2. CASE j # i
    <3>1. Exists(j) /\ history[j] \in Version
      BY <1>0, <1>6, <2>2 DEF Exists, TypeOK
    <3>2. /\ history[j].number <= file.version /\ history[j].path[2] <= file.version
          /\ <<history[j].path, history[j].key>> \in stored
      BY <1>0, <3>1 DEF Tables, HistoryBelow, HistoryWhole
    <3>3. history[j].path[2] \in Nat /\ history[j].number \in Nat
      BY <1>0, <3>1, <3>2 DEF TypeOK, Version
    <3> QED
      BY <1>4, <1>6, <1>7, <2>2, <3>2, <3>3
  <2> QED
    BY <2>1, <2>2
<1>11. OwnBlobs'
  <2> SUFFICES ASSUME ~Restored'
               PROVE  /\ \A j \in RowIds : Exists(j)' => history'[j].path # file'.path
                      /\ \A j, k \in RowIds : Exists(j)' /\ Exists(k)'
                            /\ history'[j].path = history'[k].path => j = k
    BY DEF OwnBlobs
  <2>1. ~Restored
    BY <1>0, <1>3, <1>5, ArchivedKeeps DEF Whole
  <2>2. op = "upload"
    <3> SUFFICES ASSUME op = "restore"
                 PROVE  FALSE
      BY <1>2
    <3>1. next.version = file.version
      BY <1>0, <1>2 DEF At, File
    <3> QED
      BY <1>4, <1>6, <3>1 DEF Restored
  <2>3. /\ \A j \in RowIds : Exists(j) => history[j].path # file.path
        /\ \A j, k \in RowIds : Exists(j) /\ Exists(k) /\ history[j].path = history[k].path => j = k
    BY <1>0, <2>1 DEF Tables, OwnBlobs
  <2>4. ASSUME NEW j \in RowIds, Exists(j)'
        PROVE  history'[j].path # file'.path
    <3>1. history'[j].path[2] <= file.version
      <4>1. CASE j = i
        BY <1>5, <1>6, <4>1 DEF Whole
      <4>2. CASE j # i
        BY <1>0, <1>6, <2>4, <4>2 DEF Tables, HistoryBelow
      <4> QED
        BY <4>1, <4>2
    <3>2. file'.path[2] = file.version + 1
      BY <1>2, <1>4, <2>2
    <3> QED
      BY <1>7, <3>1, <3>2
  <2>5. ASSUME NEW j \in RowIds, NEW k \in RowIds, Exists(j)', Exists(k)',
               history'[j].path = history'[k].path
        PROVE  j = k
    BY <1>6, <2>3, <2>5
  <2> QED
    BY <2>4, <2>5
<1>12. sess'[s].pc = "idle" /\ sess'[s].op = None
  BY <1>0, <1>1, FinishMoves
<1>13. Fresh(s)'
  BY <1>12 DEF Fresh
<1>14. served' <= file'.downloads
  BY <1>0, <1>1, <1>2, <1>4
<1> QED
  BY <1>0, <1>8, <1>9, <1>10, <1>11, <1>12, <1>13, <1>14, StepSerial DEF Tables

LEMMA CommitSerial ==
    ASSUME OneSession, SerialInv, NEW s \in Sessions, Count(s) \/ Configure(s) \/ Mark(s)
    PROVE  SerialInv'
<1> DEFINE seen == sess[s].seen
           next == sess[s].next
           op == sess[s].op
<1>0. /\ TypeOK /\ TypeOK' /\ Tables /\ sess \in [Sessions -> Session] /\ file \in File
      /\ Fresh(s) /\ served \in Nat /\ served <= file.downloads /\ file.downloads \in Nat
      /\ seen \in File /\ next \in File
      /\ op = "download" /\ sess[s].pc = "mark" => served + 1 <= file.downloads
  <2>1. TypeOK /\ Fresh(s) /\ Tables
    BY DEF SerialInv, Tables
  <2>2. TypeOK'
    BY <2>1, FreshPutTyped, ContinueTyped DEF Continue
  <2> QED
    BY <2>1, <2>2 DEF SerialInv, TypeOK, Session, File, Counted
<1> HIDE DEF seen, next, op
<1>1. CASE Count(s)
  <2>1. PICK counted : counted = [seen EXCEPT !.downloads = @ + 1]
    OBVIOUS
  <2>2. /\ sess[s].pc = "count" /\ file' = Flush(file, seen, counted)
        /\ sess' = [sess EXCEPT ![s].seen = counted,
                                ![s].pc = IF LimitReached(counted) THEN "scrub" ELSE "reply"]
        /\ UNCHANGED <<history, served, stored>>
    BY <1>1, <2>1 DEF Count, seen
  <2>3. op = "download" /\ seen = file /\ ~file.destroyed
    BY <1>0, <2>2 DEF Fresh, seen, op
  <2>4. /\ counted \in File /\ counted.downloads = file.downloads + 1
        /\ counted.path = file.path /\ counted.key = file.key /\ counted.version = file.version
        /\ counted.destroyed = file.destroyed
    BY <1>0, <2>1, <2>3 DEF File
  <2>5. file' = counted
    BY <1>0, <2>2, <2>3, <2>4, FlushSame
  <2>6. /\ sess'[s].seen = counted /\ sess'[s].op = "download"
        /\ sess'[s].pc = IF LimitReached(counted) THEN "scrub" ELSE "reply"
    BY <1>0, <2>2, <2>3 DEF Session, op
  <2>7. Tables'
    BY <1>0, <2>2, <2>3, <2>4, <2>5, SameContent
  <2>8. Fresh(s)'
    BY <2>3, <2>4, <2>5, <2>6 DEF Fresh
  <2>9. served' <= file'.downloads /\ served' + 1 <= file'.downloads
    BY <1>0, <2>2, <2>4, <2>5
  <2>10. sess'[s].pc = "reply" => ~LimitReached(file)'
    BY <2>5, <2>6 DEF LimitReached
  <2> QED
    BY <1>0, <2>7, <2>8, <2>9, <2>10, StepSerial
<1>2. CASE Configure(s)
  <2>1. /\ sess[s].pc = "configure" /\ file' = Flush(file, seen, next)
        /\ Finish(s)
        /\ UNCHANGED <<history, served, stored>>
    BY <1>2 DEF Configure, seen, next
  <2>2. seen = file /\ ~file.destroyed /\ next = [file EXCEPT !.limit = next.limit]
    BY <1>0, <2>1 DEF Fresh, seen, next
  <2>3. /\ next.path = file.path /\ next.key = file.key /\ next.version = file.version
        /\ next.destroyed = file.destroyed /\ next.downloads = file.downloads
    BY <1>0, <2>2 DEF File
  <2>4. file' = next
    BY <1>0, <2>1, <2>2, FlushSame
  <2>5. sess'[s].pc = "idle" /\ sess'[s].op = None
    BY <1>0, <2>1, FinishMoves
  <2>6. Tables'
    BY <1>0, <2>1, <2>2, <2>3, <2>4, SameContent
  <2>7. Fresh(s)'
    BY <2>5 DEF Fresh
  <2>8. served' <= file'.downloads
    BY <1>0, <2>1, <2>3, <2>4
  <2> QED
    BY <1>0, <2>5, <2>6, <2>7, <2>8, StepSerial
<1>3. CASE Mark(s)
  <2>1. PICK gone : gone = Destroyed(seen)
    OBVIOUS
  <2>2. /\ sess[s].pc = "mark" /\ file' = Flush(file, seen, gone)
        /\ IF op = "download"
           THEN sess' = [sess EXCEPT ![s].seen = gone, ![s].pc = "reply"]
           ELSE Finish(s)
        /\ UNCHANGED <<history, served, stored>>
    BY <1>3, <2>1 DEF Mark, seen, op
  <2>3. op \in {"download", "destroy"} /\ seen = file /\ ~file.destroyed
    BY <1>0, <2>2 DEF Fresh, seen, op
  <2>4. /\ gone \in File /\ gone.downloads = file.downloads /\ gone.version = file.version
        /\ gone.path = Gone /\ gone.key = NoKey /\ gone.destroyed
    BY <1>0, <2>1, <2>3 DEF Destroyed, File, Path, Key
  <2>5. file' = gone
    BY <1>0, <2>2, <2>3, <2>4, FlushSame
  <2>6. Tables'
    <3>1. Restored' <=> Restored
      BY <2>2, <2>4, <2>5 DEF Restored, Exists
    <3>2. FileSound' /\ HistoryWhole' /\ HistoryBelow'
      BY <1>0, <2>2, <2>4, <2>5 DEF Tables, FileSound, HistoryWhole, HistoryBelow, Exists
    <3>3. ASSUME NEW j \in RowIds, Exists(j)
          PROVE  history[j].path # Gone
      <4>1. <<history[j].path, history[j].key>> \in stored
        BY <1>0, <3>3 DEF Tables, HistoryWhole
      <4> QED
        BY <1>0, <4>1, DistinctAssumption DEF TypeOK
    <3>4. OwnBlobs'
      BY <1>0, <2>2, <2>4, <2>5, <3>1, <3>3 DEF Tables, OwnBlobs, Exists
    <3> QED
      BY <3>2, <3>4 DEF Tables
  <2>7. CASE op = "download"
    <3>1. sess'[s].pc = "reply" /\ sess'[s].op = "download"
      BY <1>0, <2>2, <2>7 DEF Session, op
    <3>2. Fresh(s)'
      BY <3>1 DEF Fresh
    <3>3. served' + 1 <= file'.downloads /\ served' <= file'.downloads /\ file'.destroyed
      BY <1>0, <2>2, <2>4, <2>5, <2>7
    <3> QED
      BY <1>0, <2>6, <3>1, <3>2, <3>3, StepSerial
  <2>8. CASE op # "download"
    <3>1. sess'[s].pc = "idle" /\ sess'[s].op = None
      BY <1>0, <2>2, <2>8, FinishMoves
    <3>2. Fresh(s)'
      BY <3>1 DEF Fresh
    <3>3. served' <= file'.downloads
      BY <1>0, <2>2, <2>4, <2>5
    <3> QED
      BY <1>0, <2>6, <3>1, <3>2, <3>3, StepSerial
  <2> QED
    BY <2>7, <2>8
<1> QED
  BY <1>1, <1>2, <1>3

\* The deletion of a version's row, alone with its number, leaves a restoration
\* where it was.
LEMMA UnlinkRows ==
    ASSUME TypeOK, NEW i \in RowIds, history' = [history EXCEPT ![i] = Deleted],
           UNCHANGED file, Exists(i), history[i].number # file.version,
           \A j \in RowIds : Exists(j) /\ history[j].number = history[i].number => j = i
    PROVE  /\ ~Exists(i)' /\ history'[i] = Deleted
           /\ \A j \in RowIds \ {i} : history'[j] = history[j] /\ (Exists(j)' <=> Exists(j))
           /\ Restored' <=> Restored
<1>1. /\ ~Exists(i)' /\ history'[i] = Deleted
      /\ \A j \in RowIds \ {i} : history'[j] = history[j] /\ (Exists(j)' <=> Exists(j))
  BY DEF Exists, TypeOK
<1>2. Restored' => Restored
  BY <1>1 DEF Restored
<1>3. ASSUME NEW j \in RowIds, Exists(j), history[j].number = file.version
      PROVE  Restored'
  BY <1>1, <1>3 DEF Restored
<1>4. ASSUME NEW j \in RowIds, NEW k \in RowIds, j # k, Exists(j), Exists(k),
             history[j].number = history[k].number
      PROVE  Restored'
  <2>1. j # i /\ k # i
    BY <1>4
  <2>2. Exists(j)' /\ Exists(k)' /\ history'[j].number = history'[k].number
    BY <1>1, <1>4, <2>1
  <2> QED
    BY <1>4, <2>2 DEF Restored
<1>5. Restored => Restored'
  BY <1>3, <1>4 DEF Restored
<1> QED
  BY <1>1, <1>2, <1>5

LEMMA UnlinkSerial ==
    ASSUME OneSession, SerialInv, NEW s \in Sessions, Unlink(s)
    PROVE  SerialInv'
<1>0. /\ TypeOK /\ TypeOK' /\ Tables /\ sess \in [Sessions -> Session]
      /\ Fresh(s) /\ served <= file.downloads
  <2>1. TypeOK /\ Fresh(s) /\ Tables
    BY DEF SerialInv, Tables
  <2>2. TypeOK'
    BY <2>1, FreshPutTyped, ContinueTyped DEF Continue
  <2> QED
    BY <2>1, <2>2 DEF SerialInv, TypeOK, Counted
<1>1. PICK i : i = sess[s].row
  OBVIOUS
<1>2. /\ sess[s].pc = "unlink" /\ history' = [history EXCEPT ![i] = Deleted]
      /\ Finish(s) /\ UNCHANGED <<file, served, stored>>
  BY <1>1 DEF Unlink
<1>3. /\ i \in RowIds /\ Exists(i) /\ history[i].number # file.version
      /\ \A j \in RowIds : Exists(j) /\ history[j].number = history[i].number => j = i
  BY <1>0, <1>1, <1>2 DEF Fresh
<1>4. /\ ~Exists(i)'
      /\ \A j \in RowIds \ {i} : history'[j] = history[j] /\ (Exists(j)' <=> Exists(j))
      /\ Restored' <=> Restored
  BY <1>0, <1>2, <1>3, UnlinkRows
<1>5. FileSound'
  BY <1>0, <1>2 DEF Tables, FileSound
<1>6. HistoryWhole' /\ HistoryBelow' /\ OwnBlobs'
  BY <1>0, <1>2, <1>4 DEF Tables, HistoryWhole, HistoryBelow, OwnBlobs
<1>7. sess'[s].pc = "idle" /\ sess'[s].op = None
  BY <1>0, <1>2, FinishMoves
<1>8. Fresh(s)'
  BY <1>7 DEF Fresh
<1> QED
  BY <1>0, <1>2, <1>5, <1>6, <1>7, <1>8, StepSerial DEF Tables

LEMMA NextSerial == OneSession /\ SerialInv /\ [Next]_vars => SerialInv'
<1> SUFFICES ASSUME OneSession, SerialInv, [Next]_vars
             PROVE  SerialInv'
  OBVIOUS
<1>1. ASSUME NEW s \in Sessions, Request(s) \/ Continue(s) \/ Crash(s)
      PROVE  SerialInv'
  BY <1>1, RequestSerial, QuietSerial, SaveSerial, CommitSerial, UnlinkSerial DEF Continue
<1>2. CASE UNCHANGED vars
  <2>1. UNCHANGED <<file, history, blobs, sess, uploads, requests, faults, served, stored>>
    BY <1>2 DEF vars
  <2>2. TypeOK' /\ Tables'
    BY <2>1, TablesKept DEF TypeOK, SerialInv, Tables
  <2>3. Counted'
    BY <2>1 DEF SerialInv, Counted, LimitReached
  <2>4. ASSUME NEW s \in Sessions
        PROVE  Fresh(s)'
    <3>1. Fresh(s)
      BY DEF SerialInv
    <3>2. \A i \in RowIds : /\ Exists(i)' <=> Exists(i)
                            /\ At(file, history[i])' = At(file, history[i])
      BY <2>1 DEF Exists, At
    <3> QED
      BY <2>1, <3>1, <3>2 DEF Fresh
  <2> QED
    BY <2>2, <2>3, <2>4 DEF SerialInv, Tables
<1> QED
  BY <1>1, <1>2 DEF Next

LEMMA InitSerial == Init => SerialInv
<1> SUFFICES ASSUME Init
             PROVE  SerialInv
  OBVIOUS
<1>1. TypeOK /\ FileSound /\ HistoryWhole
  BY InitSound DEF IInv
<1>2. \A i \in RowIds : ~Exists(i)
  BY DEF Init, Exists
<1>3. HistoryBelow /\ OwnBlobs
  BY <1>2 DEF HistoryBelow, OwnBlobs
<1>4. Counted
  BY <1>1, IdleTyped DEF Init, Counted, TypeOK, File
<1>5. \A s \in Sessions : Fresh(s)
  BY IdleTyped DEF Init, Fresh
<1> QED
  BY <1>1, <1>3, <1>4, <1>5 DEF SerialInv

\* One request at a time, whatever the operations and the failures.
THEOREM SerialInvariantHolds == OneSession => (Spec => []SerialInv)
<1> SUFFICES ASSUME OneSession
             PROVE  Spec => []SerialInv
  OBVIOUS
<1>1. SerialInv /\ [Next]_vars => SerialInv'
  BY NextSerial
<1> QED
  BY <1>1, InitSerial, PTL DEF Spec

\* One request at a time, no row pairs the path of one upload with the key of
\* another, restorations and failures included (restore_version).
THEOREM SerialRowsStayWhole == OneSession => (Spec => []RowsAreWhole)
<1> SUFFICES ASSUME OneSession
             PROVE  Spec => []RowsAreWhole
  OBVIOUS
<1>1. SerialInv => RowsAreWhole
  BY DEF SerialInv, FileSound, RowsAreWhole
<1> QED
  BY <1>1, SerialInvariantHolds, PTL

\* One request at a time, the download that reaches the limit is answered only
\* once the file is destroyed (check_and_destroy_on_download), whatever fails.
THEOREM LimitHolds == OneSession => (Spec => LimitEnforced)
<1> SUFFICES ASSUME OneSession
             PROVE  Spec => LimitEnforced
  OBVIOUS
<1>1. SerialInv /\ [Next]_vars =>
        [served' > served /\ file.limit # None /\ served' >= file.limit => file'.destroyed]_vars
  <2> SUFFICES ASSUME SerialInv, Next, served' > served, file.limit # None, served' >= file.limit
               PROVE  file'.destroyed
    OBVIOUS
  <2>0. served \in Nat /\ file \in File /\ file.limit \in Nat
    BY DEF SerialInv, TypeOK, File
  <2>a. served' # served
    BY <2>0
  <2>1. PICK s \in Sessions : Reply(s)
    BY <2>a DEF Next, Request, Continue, Upload, SetLimit, Start, Restore, Download, DownloadVersion,
       DeleteVersion, Destroy, Crash, Select, Archive, Put, Save, Deadlock, Fetch, Count, Configure,
       Scrub, Remove, StoreFails, Unlink, Mark
  <2>2. /\ sess[s].pc = "reply" /\ UNCHANGED file
        /\ served' = IF sess[s].op = "download" THEN served + 1 ELSE served
    BY <2>1 DEF Reply
  <2>3. sess[s].op = "download" /\ served' = served + 1
    BY <2>0, <2>2
  <2>4. served + 1 <= file.downloads /\ (file.destroyed \/ ~LimitReached(file))
    BY <2>2, <2>3 DEF SerialInv, Counted
  <2>5. LimitReached(file)
    BY <2>0, <2>3, <2>4 DEF LimitReached, File
  <2> QED
    BY <2>2, <2>4, <2>5
<1> QED
  BY <1>1, SerialInvariantHolds, PTL DEF Spec, LimitEnforced

-----------------------------------------------------------------------------
(* Contents stay readable *)

LEMMA OneTaken ==
    ASSUME OneSession, NEW s \in Sessions, NEW path
    PROVE  Taken(path) <=> sess[s].pc \in {"remove", "unlink", "mark"} /\ sess[s].seen.path = path
BY DEF OneSession, Taken

LEMMA OneTakenNext ==
    ASSUME OneSession, NEW s \in Sessions, NEW path
    PROVE  Taken(path)' <=> sess'[s].pc \in {"remove", "unlink", "mark"} /\ sess'[s].seen.path = path
BY DEF OneSession, Taken

\* Nothing is taken while no blob is being removed.
LEMMA IntactOpens ==
    ASSUME OneSession, NEW s \in Sessions, sess[s].pc \notin {"remove", "unlink", "mark"},
           NEW path, NEW key, Intact(path, key)
    PROVE  Opens(path, key)
BY OneTaken DEF Intact

LEMMA OpensKept ==
    ASSUME UNCHANGED blobs, NEW path, NEW key, Opens(path, key)
    PROVE  Intact(path, key)'
BY DEF Opens, Intact

LEMMA NewContentIdle ==
    ASSUME OneSession, NEW s \in Sessions, ~(sess'[s].pc = "save" /\ sess'[s].op = "upload")
    PROVE  NewContentStored'
BY DEF OneSession, NewContentStored

\* The blobs of the rows, when the rows' contents do not change.
LEMMA IntactKept ==
    ASSUME ReadInv, UNCHANGED history, file'.path = file.path, file'.key = file.key,
           file'.version = file.version, file'.destroyed = file.destroyed,
           \A path, key :
                /\ path = file.path \/ \E i \in RowIds : Exists(i) /\ history[i].path = path
                /\ Intact(path, key)
                => Intact(path, key)'
    PROVE  FileIntact' /\ VersionsIntact'
<1>1. /\ Restored' <=> Restored
      /\ BlobShared' <=> BlobShared
      /\ \A i \in RowIds : Exists(i)' <=> Exists(i)
  BY DEF Restored, BlobShared, Exists
<1>2. FileIntact'
  <2>1. Intact(file.path, file.key)' <=> \A path, key : path = file.path /\ key = file.key => Intact(path, key)'
    BY DEF Intact, Opens, Taken
  <2> QED
    BY <1>1, <2>1 DEF ReadInv, FileIntact
<1>3. VersionsIntact'
  <2> SUFFICES ASSUME ~BlobShared, ~(Restored /\ file.destroyed), NEW i \in RowIds, Exists(i)
               PROVE  Intact(history[i].path, history[i].key)'
    BY <1>1 DEF VersionsIntact
  <2>1. Intact(history[i].path, history[i].key)
    BY DEF ReadInv, VersionsIntact
  <2>2. PICK path, key : path = history[i].path /\ key = history[i].key
    OBVIOUS
  <2>3. Intact(path, key)'
    BY <2>1, <2>2
  <2> QED
    BY <2>2, <2>3 DEF Intact, Opens, Taken
<1> QED
  BY <1>2, <1>3

\* Steps that touch neither a blob nor the path, the key or the number of a row.
LEMMA QuietRead ==
    ASSUME OneSession, ReadInv, NEW s \in Sessions, UNCHANGED <<history, blobs>>,
           file'.path = file.path, file'.key = file.key,
           file'.version = file.version, file'.destroyed = file.destroyed,
           sess[s].pc \notin {"remove", "unlink", "mark"},
           ~(sess'[s].pc = "save" /\ sess'[s].op = "upload")
    PROVE  FileIntact' /\ VersionsIntact' /\ NewContentStored'
<1>1. ASSUME NEW path, NEW key, Intact(path, key)
      PROVE  Intact(path, key)'
  BY <1>1, IntactOpens, OpensKept
<1> QED
  BY <1>1, IntactKept, NewContentIdle

LEMMA RequestRead ==
    ASSUME OneSession, ReadInv, NEW s \in Sessions, Request(s)
    PROVE  FileIntact' /\ VersionsIntact' /\ NewContentStored'
<1>0. sess \in [Sessions -> Session]
  BY DEF ReadInv, SerialInv, TypeOK
<1>1. sess[s].pc = "idle" /\ UNCHANGED <<file, history, blobs>>
  BY DEF Request, Upload, SetLimit, Start, Restore, Download, DownloadVersion, DeleteVersion, Destroy
<1>2. sess'[s].pc # "save"
  <2>1. ASSUME NEW op, NEW pc, Start(s, op, pc)
        PROVE  sess'[s].pc = pc
    BY <1>0, <2>1, StartMoves
  <2>2. ASSUME NEW u \in Users, Upload(s, u)
        PROVE  sess'[s].pc = "archive"
    BY <1>0, <2>2, IdleTyped DEF Upload, Session
  <2>3. ASSUME NEW limit \in Limits, SetLimit(s, limit)
        PROVE  sess'[s].pc = "configure"
    BY <1>0, <2>3, IdleTyped DEF SetLimit, Session
  <2>4. CASE Restore(s) \/ DeleteVersion(s)
    BY <2>1, <2>4 DEF Restore, DeleteVersion
  <2>5. CASE Download(s) \/ Destroy(s)
    BY <2>1, <2>5 DEF Download, Destroy
  <2>6. CASE DownloadVersion(s)
    BY <2>1, <2>6 DEF DownloadVersion
  <2> QED
    BY <2>2, <2>3, <2>4, <2>5, <2>6 DEF Request
<1> QED
  BY <1>1, <1>2, QuietRead

LEMMA QuietContinueRead ==
    ASSUME OneSession, ReadInv, NEW s \in Sessions,
           Select(s) \/ Archive(s) \/ Deadlock(s) \/ Fetch(s) \/ Reply(s) \/ Count(s) \/ Configure(s)
    PROVE  FileIntact' /\ VersionsIntact' /\ NewContentStored'
<1> DEFINE seen == sess[s].seen
           next == sess[s].next
<1>0. /\ sess \in [Sessions -> Session] /\ sess[s].seen \in File /\ sess[s].next \in File
      /\ file \in File /\ TypeOK /\ Fresh(s)
  BY DEF ReadInv, SerialInv, TypeOK, Session
<1>a. ASSUME Finish(s)
      PROVE  sess'[s].pc # "save"
  BY <1>0, <1>a, FinishMoves
<1>1. CASE Select(s)
  <2>1. sess'[s].pc # "save"
    <3>1. CASE ~Finish(s)
      <4>1. PICK i \in RowIds :
              \/ sess'[s] = [sess[s] EXCEPT !.pc = "archive", !.next = At(sess[s].seen, history[i])]
              \/ sess'[s] = [sess[s] EXCEPT !.pc = "scrub", !.row = i,
                                            !.seen = At(sess[s].seen, history[i])]
              \/ sess'[s] = [sess[s] EXCEPT !.pc = "fetch", !.seen = At(sess[s].seen, history[i])]
        BY <1>0, <1>1, <3>1, SelectMoves
      <4> QED
        BY <1>0, <4>1 DEF Session
    <3> QED
      BY <1>a, <3>1
  <2> QED
    BY <1>1, <2>1, QuietRead DEF Select
<1>2. CASE Archive(s)
  <2>1. /\ sess[s].pc = "archive" /\ UNCHANGED <<file, history, blobs>>
        /\ Goto(s, IF sess[s].op = "upload" THEN "put" ELSE "save")
    BY <1>2 DEF Archive
  <2>2. ~(sess'[s].pc = "save" /\ sess'[s].op = "upload")
    BY <1>0, <2>1, GotoMoves
  <2> QED
    BY <2>1, <2>2, QuietRead
<1>3. CASE Deadlock(s) \/ Reply(s)
  BY <1>3, <1>a, QuietRead DEF Deadlock, Reply
<1>4. CASE Fetch(s)
  <2>1. sess'[s].pc # "save"
    BY <1>0, <1>4, <1>a DEF Fetch, Session
  <2> QED
    BY <1>4, <2>1, QuietRead DEF Fetch
<1>5. CASE Count(s)
  <2>1. PICK counted : counted = [seen EXCEPT !.downloads = @ + 1]
    OBVIOUS
  <2>2. /\ sess[s].pc = "count" /\ file' = Flush(file, seen, counted)
        /\ sess' = [sess EXCEPT ![s].seen = counted,
                                ![s].pc = IF LimitReached(counted) THEN "scrub" ELSE "reply"]
        /\ UNCHANGED <<history, blobs>>
    BY <1>5, <2>1 DEF Count
  <2>3. /\ counted.path = seen.path /\ counted.key = seen.key
        /\ counted.version = seen.version /\ counted.destroyed = seen.destroyed
    BY <1>0, <2>1 DEF File
  <2>4. /\ file'.path = file.path /\ file'.key = file.key
        /\ file'.version = file.version /\ file'.destroyed = file.destroyed
    BY <2>2, <2>3 DEF Flush, Column
  <2>5. sess'[s].pc # "save"
    BY <1>0, <2>2 DEF Session
  <2> QED
    BY <2>2, <2>4, <2>5, QuietRead
<1>6. CASE Configure(s)
  <2>1. /\ sess[s].pc = "configure" /\ file' = Flush(file, seen, next)
        /\ Finish(s) /\ UNCHANGED <<history, blobs>>
    BY <1>6 DEF Configure
  <2>2. seen = file /\ next = [file EXCEPT !.limit = next.limit]
    BY <1>0, <2>1 DEF Fresh
  <2>3. /\ next.path = seen.path /\ next.key = seen.key
        /\ next.version = seen.version /\ next.destroyed = seen.destroyed
    BY <1>0, <2>2 DEF File
  <2>4. /\ file'.path = file.path /\ file'.key = file.key
        /\ file'.version = file.version /\ file'.destroyed = file.destroyed
    BY <2>1, <2>3 DEF Flush, Column
  <2> QED
    BY <2>1, <2>4, <1>a, QuietRead
<1> QED
  BY <1>1, <1>2, <1>3, <1>4, <1>5, <1>6

\* The new content goes to a path no row has.
LEMMA PutRead ==
    ASSUME OneSession, ReadInv, NEW s \in Sessions, Put(s)
    PROVE  FileIntact' /\ VersionsIntact' /\ NewContentStored'
<1>1. PICK new : new = sess[s].next
  OBVIOUS
<1>2. /\ sess[s].pc = "put" /\ blobs' = Holding(new.path, new.key) /\ Goto(s, "save")
      /\ UNCHANGED <<file, history>>
  BY <1>1 DEF Put
<1>3. /\ sess \in [Sessions -> Session] /\ file \in File /\ Fresh(s) /\ FileSound /\ HistoryBelow
      /\ HistoryWhole /\ stored \subseteq (Users \X Nat) \X Nat
  BY DEF ReadInv, SerialInv, TypeOK
<1>4. /\ sess[s].op = "upload" /\ ~file.destroyed
      /\ new.path \in Users \X Nat /\ new.path[2] = file.version + 1
  BY <1>1, <1>2, <1>3 DEF Fresh
<1>5. file.path # new.path
  <2>1. file.path \in Users \X Nat /\ file.path[2] <= file.version
    BY <1>3, <1>4, ReadWhole DEF Whole, ReadInv, SerialInv
  <2> QED
    BY <1>3, <1>4, <2>1 DEF File
<1>6. ASSUME NEW i \in RowIds, Exists(i)
      PROVE  history[i].path # new.path
  <2>1. history[i].path[2] <= file.version
    BY <1>3, <1>6 DEF HistoryBelow
  <2> QED
    BY <1>3, <1>4, <2>1 DEF File
<1>7. ASSUME NEW path, NEW key, path # new.path, Intact(path, key)
      PROVE  Intact(path, key)'
  <2>1. Opens(path, key)
    BY <1>2, <1>7, IntactOpens
  <2> QED
    BY <1>2, <1>7, <2>1 DEF Opens, Holding, Intact
<1>8. FileIntact' /\ VersionsIntact'
  BY <1>2, <1>5, <1>6, <1>7, IntactKept
<1>9. sess'[s].next = new
  BY <1>1, <1>2, <1>3, GotoMoves
<1>10. Opens(new.path, new.key)'
  BY <1>2 DEF Opens, Holding
<1>11. NewContentStored'
  <2> SUFFICES ASSUME NEW t \in Sessions
               PROVE  Opens(sess[t].next.path, sess[t].next.key)'
    BY DEF NewContentStored
  <2>1. t = s
    BY DEF OneSession
  <2> QED
    BY <1>9, <1>10, <2>1 DEF Opens
<1> QED
  BY <1>8, <1>11

\* The noise and the removal only reach the blob the request is taking.
LEMMA TakeRead ==
    ASSUME OneSession, ReadInv, NEW s \in Sessions, Scrub(s) \/ Remove(s)
    PROVE  FileIntact' /\ VersionsIntact' /\ NewContentStored'
<1>0. sess \in [Sessions -> Session] /\ Fresh(s)
  BY DEF ReadInv, SerialInv, TypeOK
<1>1. PICK old : old = sess[s].seen.path
  OBVIOUS
<1>2. /\ UNCHANGED <<file, history>>
      /\ sess'[s].pc \in {"remove", "unlink", "mark"} /\ sess'[s].seen.path = old
  <2>1. CASE Scrub(s)
    BY <1>0, <1>1, <2>1, GotoMoves DEF Scrub
  <2>2. CASE Remove(s)
    BY <1>0, <1>1, <2>2, GotoMoves DEF Remove, AfterRemoval
  <2> QED
    BY <2>1, <2>2
<1>3. ASSUME NEW path, NEW key, Intact(path, key)
      PROVE  Intact(path, key)'
  <2>1. CASE path = old
    BY <1>2, <2>1, OneTakenNext DEF Intact
  <2>2. CASE path # old
    <3>1. ~Taken(path)
      BY <1>1, <2>2, OneTaken
    <3>2. Opens(path, key)
      BY <1>3, <3>1 DEF Intact
    <3>3. blobs' = Holding(old, Noise) \/ blobs' = Without(old)
      BY <1>1 DEF Scrub, Remove
    <3> QED
      BY <2>2, <3>2, <3>3 DEF Opens, Holding, Without, Intact
  <2> QED
    BY <2>1, <2>2
<1>4. FileIntact' /\ VersionsIntact'
  BY <1>2, <1>3, IntactKept
<1> QED
  BY <1>2, <1>4, NewContentIdle

\* The row that archives the current content opens as the file did; the file opens
\* as the new upload, or as the version restored.
LEMMA SaveRead ==
    ASSUME OneSession, ReadInv, NEW s \in Sessions, Save(s)
    PROVE  FileIntact' /\ VersionsIntact' /\ NewContentStored'
<1> DEFINE seen == sess[s].seen
           next == sess[s].next
           op == sess[s].op
<1>0. /\ TypeOK /\ Tables /\ sess \in [Sessions -> Session] /\ file \in File
      /\ Fresh(s) /\ seen \in File /\ next \in File
  BY DEF ReadInv, SerialInv, Tables, TypeOK, Session
<1>1. /\ sess[s].pc = "save"
      /\ \E i \in RowIds :
            /\ history[i] = NoRow
            /\ history' = [history EXCEPT ![i] =
                            [number |-> seen.version, path |-> seen.path, key |-> seen.key]]
      /\ file' = Flush(file, seen, next)
      /\ Finish(s)
      /\ UNCHANGED blobs
  BY DEF Save
<1>2. /\ op \in {"upload", "restore"} /\ seen = file /\ ~file.destroyed
      /\ op = "restore" => \E i \in RowIds : Exists(i) /\ next = At(file, history[i])
  BY <1>0, <1>1 DEF Fresh
<1>n. op = "upload" => Opens(next.path, next.key)
  BY <1>1 DEF ReadInv, NewContentStored
<1> HIDE DEF seen, next, op
<1>3. PICK i \in RowIds : Archived(i)
  BY <1>1, <1>2 DEF Archived
<1>4. file' = next
  BY <1>0, <1>1, <1>2, FlushSame
<1>5. Whole(file)
  BY <1>0, <1>2, ReadWhole DEF Tables
<1>6. /\ ~Exists(i)
      /\ Exists(i)' /\ history'[i].number = file.version
      /\ history'[i].path = file.path /\ history'[i].key = file.key
      /\ \A j \in RowIds \ {i} : history'[j] = history[j] /\ (Exists(j)' <=> Exists(j))
  BY <1>0, <1>3, <1>5, ArchivedRows DEF Whole
<1>7. BlobShared => BlobShared'
  <2> SUFFICES ASSUME BlobShared
               PROVE  BlobShared'
    OBVIOUS
  <2>1. Restored'
    BY <1>0, <1>3, <1>5, ArchivedKeeps DEF Whole, BlobShared
  <2>2. PICK j \in RowIds : history[j] = Deleted
    BY DEF BlobShared
  <2>3. history[i] = NoRow
    BY <1>3 DEF Archived
  <2>4. history'[j] = Deleted
    BY <1>6, <2>2, <2>3, RowsAssumption
  <2> QED
    BY <2>1, <2>4 DEF BlobShared
<1>8. CASE BlobShared'
  BY <1>0, <1>1, <1>8, FinishMoves, NewContentIdle DEF FileIntact, VersionsIntact
<1>9. CASE ~BlobShared'
  <2>1. ~BlobShared
    BY <1>7, <1>9
  <2>2. Opens(file.path, file.key)
    <3>1. Intact(file.path, file.key)
      BY <1>2, <2>1 DEF ReadInv, FileIntact
    <3> QED
      BY <1>1, <3>1, IntactOpens
  <2>3. ASSUME NEW j \in RowIds, Exists(j)
        PROVE  Opens(history[j].path, history[j].key)
    <3>1. Intact(history[j].path, history[j].key)
      BY <1>2, <2>1, <2>3 DEF ReadInv, VersionsIntact
    <3> QED
      BY <1>1, <3>1, IntactOpens
  <2>4. Opens(next.path, next.key)
    <3>1. CASE op = "restore"
      <4>1. PICK k \in RowIds : Exists(k) /\ next = At(file, history[k])
        BY <1>2, <3>1
      <4>2. next.path = history[k].path /\ next.key = history[k].key
        BY <1>0, <4>1 DEF At, File
      <4> QED
        BY <2>3, <4>1, <4>2
    <3> QED
      BY <1>2, <1>n, <3>1
  <2>5. FileIntact'
    BY <1>1, <1>4, <2>4 DEF FileIntact, Intact, Opens
  <2>6. VersionsIntact'
    <3> SUFFICES ASSUME NEW j \in RowIds, Exists(j)'
                 PROVE  Intact(history[j].path, history[j].key)'
      BY DEF VersionsIntact
    <3>1. CASE j = i
      BY <1>1, <1>6, <2>2, <3>1 DEF Intact, Opens
    <3>2. CASE j # i
      BY <1>1, <1>6, <2>3, <3>2 DEF Intact, Opens
    <3> QED
      BY <3>1, <3>2
  <2>7. NewContentStored'
    BY <1>0, <1>1, FinishMoves, NewContentIdle
  <2> QED
    BY <2>5, <2>6, <2>7
<1> QED
  BY <1>8, <1>9

\* The blob of the deleted row belonged to no other, unless something was restored.
LEMMA UnlinkRead ==
    ASSUME OneSession, ReadInv, NEW s \in Sessions, Unlink(s)
    PROVE  FileIntact' /\ VersionsIntact' /\ NewContentStored'
<1>0. /\ TypeOK /\ Tables /\ sess \in [Sessions -> Session] /\ Fresh(s)
  BY DEF ReadInv, SerialInv, Tables, TypeOK
<1>1. PICK i : i = sess[s].row
  OBVIOUS
<1>2. /\ sess[s].pc = "unlink" /\ history' = [history EXCEPT ![i] = Deleted]
      /\ Finish(s) /\ UNCHANGED <<file, blobs>>
  BY <1>1 DEF Unlink
<1>3. /\ i \in RowIds /\ Exists(i) /\ history[i].number # file.version
      /\ sess[s].seen.path = history[i].path
      /\ \A j \in RowIds : Exists(j) /\ history[j].number = history[i].number => j = i
  BY <1>0, <1>1, <1>2 DEF Fresh
<1>4. /\ ~Exists(i)' /\ history'[i] = Deleted
      /\ \A j \in RowIds \ {i} : history'[j] = history[j] /\ (Exists(j)' <=> Exists(j))
      /\ Restored' <=> Restored
  BY <1>0, <1>2, <1>3, UnlinkRows
<1>5. sess'[s].pc = "idle"
  BY <1>0, <1>2, FinishMoves
<1>6. CASE Restored
  <2>1. BlobShared'
    BY <1>3, <1>4, <1>6 DEF BlobShared
  <2> QED
    BY <2>1, <1>5, NewContentIdle DEF FileIntact, VersionsIntact
<1>7. CASE ~Restored
  <2>1. ~BlobShared
    BY <1>7 DEF BlobShared
  <2>2. /\ \A j \in RowIds : Exists(j) => history[j].path # file.path
        /\ \A j, k \in RowIds : Exists(j) /\ Exists(k) /\ history[j].path = history[k].path => j = k
    BY <1>0, <1>7 DEF Tables, OwnBlobs
  <2>3. ASSUME NEW path, NEW key, path # history[i].path, Intact(path, key)
        PROVE  Intact(path, key)'
    <3>1. Opens(path, key)
      BY <1>3, <2>3, OneTaken DEF Intact
    <3> QED
      BY <1>2, <3>1, OpensKept
  <2>4. ~file.destroyed => Intact(file.path, file.key)'
    <3>1. PICK path, key : path = file.path /\ key = file.key
      OBVIOUS
    <3>2. ~file.destroyed => Intact(path, key)'
      BY <1>3, <2>1, <2>2, <2>3, <3>1 DEF ReadInv, FileIntact
    <3> QED
      BY <1>2, <3>1, <3>2 DEF Intact, Opens, Taken
  <2>5. FileIntact'
    BY <1>2, <2>4 DEF FileIntact
  <2>6. VersionsIntact'
    <3> SUFFICES ASSUME NEW j \in RowIds, Exists(j)'
                 PROVE  Intact(history[j].path, history[j].key)'
      BY DEF VersionsIntact
    <3>1. j # i /\ Exists(j) /\ history'[j] = history[j]
      BY <1>4
    <3>2. PICK path, key : path = history[j].path /\ key = history[j].key
      OBVIOUS
    <3>3. Intact(path, key)'
      BY <1>3, <1>7, <2>1, <2>2, <2>3, <3>1, <3>2 DEF ReadInv, VersionsIntact
    <3> QED
      BY <3>1, <3>2, <3>3 DEF Intact, Opens, Taken
  <2> QED
    BY <1>5, <2>5, <2>6, NewContentIdle
<1> QED
  BY <1>6, <1>7

\* The destruction takes the file's own blob, which no version shares unless
\* something was restored.
LEMMA MarkRead ==
    ASSUME OneSession, ReadInv, NEW s \in Sessions, Mark(s)
    PROVE  FileIntact' /\ VersionsIntact' /\ NewContentStored'
<1>0. /\ TypeOK /\ Tables /\ sess \in [Sessions -> Session] /\ Fresh(s)
      /\ file \in File /\ sess[s].seen \in File
  BY DEF ReadInv, SerialInv, Tables, TypeOK, Session
<1>1. PICK gone : gone = Destroyed(sess[s].seen)
  OBVIOUS
<1>2. /\ sess[s].pc = "mark" /\ file' = Flush(file, sess[s].seen, gone)
      /\ IF sess[s].op = "download"
         THEN sess' = [sess EXCEPT ![s].seen = gone, ![s].pc = "reply"]
         ELSE Finish(s)
      /\ UNCHANGED <<history, blobs>>
  BY <1>1 DEF Mark
<1>3. sess[s].seen = file /\ ~file.destroyed
  BY <1>0, <1>2 DEF Fresh
<1>4. gone \in File /\ gone.version = file.version /\ gone.destroyed
  BY <1>0, <1>1, <1>3 DEF Destroyed, File, Path, Key
<1>5. file' = gone
  BY <1>0, <1>2, <1>3, <1>4, FlushSame
<1>6. sess'[s].pc \in {"reply", "idle"}
  BY <1>0, <1>2, FinishMoves DEF Session
<1>7. /\ Restored' <=> Restored
      /\ BlobShared' <=> BlobShared
      /\ \A i \in RowIds : Exists(i)' <=> Exists(i)
  BY <1>2, <1>4, <1>5 DEF Restored, BlobShared, Exists
<1>8. FileIntact'
  BY <1>4, <1>5 DEF FileIntact
<1>9. VersionsIntact'
  <2> SUFFICES ASSUME ~Restored, NEW j \in RowIds, Exists(j)
               PROVE  Intact(history[j].path, history[j].key)'
    BY <1>4, <1>5, <1>7 DEF VersionsIntact
  <2>1. ~BlobShared
    BY DEF BlobShared
  <2>2. history[j].path # file.path
    BY <1>0 DEF Tables, OwnBlobs
  <2>3. PICK path, key : path = history[j].path /\ key = history[j].key
    OBVIOUS
  <2>4. Intact(path, key)
    BY <2>1, <2>3 DEF ReadInv, VersionsIntact
  <2>5. Opens(path, key)
    BY <1>3, <2>2, <2>3, <2>4, OneTaken DEF Intact
  <2>6. Intact(path, key)'
    BY <1>2, <2>5, OpensKept
  <2> QED
    BY <1>2, <2>3, <2>6 DEF Intact, Opens, Taken
<1> QED
  BY <1>6, <1>8, <1>9, NewContentIdle

LEMMA NextRead == OneSession /\ MaxFaults = 0 /\ ReadInv /\ [Next]_vars => ReadInv'
<1> SUFFICES ASSUME OneSession, MaxFaults = 0, ReadInv, [Next]_vars
             PROVE  ReadInv'
  OBVIOUS
<1>1. SerialInv /\ SerialInv'
  BY NextSerial DEF ReadInv
<1>2. faults = 0
  BY <1>1 DEF SerialInv, TypeOK
<1>3. ASSUME NEW s \in Sessions, Request(s) \/ Continue(s) \/ Crash(s)
      PROVE  FileIntact' /\ VersionsIntact' /\ NewContentStored'
  <2>1. ~StoreFails(s) /\ ~Crash(s)
    BY <1>2 DEF StoreFails, Crash
  <2> QED
    BY <1>3, <2>1, RequestRead, QuietContinueRead, PutRead, TakeRead, SaveRead, UnlinkRead, MarkRead
    DEF Continue
<1>4. CASE UNCHANGED vars
  <2>1. UNCHANGED <<file, history, blobs, sess>>
    BY <1>4 DEF vars
  <2>2. ASSUME NEW path, NEW key, Intact(path, key)
        PROVE  Intact(path, key)'
    BY <2>1, <2>2 DEF Intact, Opens, Taken
  <2>3. FileIntact' /\ VersionsIntact'
    BY <2>1, <2>2, IntactKept
  <2>4. NewContentStored'
    BY <2>1 DEF ReadInv, NewContentStored, Opens
  <2> QED
    BY <1>1, <2>3, <2>4 DEF ReadInv
<1> QED
  BY <1>1, <1>3, <1>4 DEF Next, ReadInv

LEMMA InitRead == Init => ReadInv
<1> SUFFICES ASSUME Init
             PROVE  ReadInv
  OBVIOUS
<1>1. PICK limit \in Limits : file = [Original EXCEPT !.limit = limit]
  BY DEF Init
<1>2. file.path = Original.path /\ file.key = 0
  BY <1>1, OriginalTyped DEF File
<1>3. FileIntact
  BY <1>2 DEF Init, FileIntact, Intact, Opens
<1>4. VersionsIntact /\ NewContentStored
  BY IdleTyped DEF Init, VersionsIntact, Exists, NewContentStored
<1> QED
  BY <1>3, <1>4, InitSerial DEF ReadInv

\* One request at a time and nothing failing, no order of uploads, restorations,
\* deletions, downloads and destructions loses a content or parts it from its key,
\* but the deletion of a version beside a restoration.
THEOREM ReadableHolds == OneSession /\ MaxFaults = 0 => (Spec => []Readable)
<1> SUFFICES ASSUME OneSession, MaxFaults = 0
             PROVE  Spec => []Readable
  OBVIOUS
<1>1. ReadInv /\ [Next]_vars => ReadInv'
  BY NextRead
<1>2. ReadInv => Readable
  <2> SUFFICES ASSUME ReadInv, Quiet
               PROVE  Readable
    BY DEF Readable, CurrentReadable, VersionsReadable
  <2>1. ASSUME NEW path, NEW key, Intact(path, key)
        PROVE  Opens(path, key)
    BY <2>1 DEF Quiet, Intact, Taken
  <2> QED
    BY <2>1 DEF ReadInv, FileIntact, VersionsIntact, Readable, CurrentReadable, VersionsReadable
<1> QED
  BY <1>1, <1>2, InitRead, PTL DEF Spec
=============================================================================
