--------------------------- MODULE OpenFile_proofs ---------------------------
(* Proofs about OpenFile: the dialog for the PIN, the preview, the copies  *)
(* and the edits, for any number of files, names, openings and edits.      *)
EXTENDS OpenFile, SequenceTheorems, TLAPS

JobType == [pc : Steps, kind : {"open", "card", "media", "plain"},
            file : Files \cup {None}, url : 0..MaxOpens, mount : Mounts,
            here : BOOLEAN]

PageTypes ==
  desktop \in BOOLEAN /\ page \in {"files", "setting", "dashboard"} /\ leaked \in BOOLEAN

JobTypes ==
  /\ job \in [Openings -> JobType] /\ opens \in 0..MaxOpens
  /\ pin \in [open : BOOLEAN, for : 0..MaxOpens, checks : 0..MaxChecks]
  /\ preview \in [shown : BOOLEAN, url : 0..MaxOpens]
  /\ revoked \subseteq Openings /\ displaced \subseteq Openings

WatchType == [on : BOOLEAN, file : Files \cup {None}, hash : Contents, touched : BOOLEAN]

PaperTypes ==
  /\ nameOf \in [Files -> Names]
  /\ mount \in Mounts /\ entry \in [Mounts -> [Files -> 0..MaxOpens]]
  /\ temp \in [Names -> Contents] /\ windows \subseteq Files
  /\ watched \in [Names -> WatchType]
  /\ events \in Seq([file : Files, path : Names])
  /\ handlers \subseteq [file : Files, content : Contents]
  /\ stored \subseteq [file : Files, content : Contents]
  /\ saves \in 0..MaxSaves /\ lost \subseteq 1..MaxSaves /\ stray \subseteq Names

(* Openings begin in order, and what is under way has a file.              *)
Begun ==
  \A n \in Openings :
    /\ n > opens => job[n].pc = "new"
    /\ job[n].pc \notin {"new", "done"} => job[n].file \in Files

(* The dialog is that of an opening that waits, and who waits without it   *)
(* was displaced.                                                          *)
Waiting ==
  /\ pin.open <=> pin.for # 0
  /\ pin.for # 0 => job[pin.for].pc = "pin"
  /\ \A n \in Openings : job[n].pc = "leaving" => n \in displaced
  /\ PromiseKept

(* An opening makes a URL when it ends, and only once: the URLs a handler, *)
(* the preview and the revocations know are those of ended openings.       *)
UrlsMade ==
  /\ \A m \in revoked : job[m].pc = "done"
  /\ preview.url # 0 => job[preview.url].pc = "done"
  /\ \A n \in Openings : job[n].url # 0 =>
       /\ job[job[n].url].pc = "done"
       /\ ~job[n].here => preview.url # job[n].url
  /\ PreviewAlive

(* Copies, their watches, events and versions agree about the name.        *)
Named(s) == s.content.of \in Files /\ nameOf[s.content.of] = nameOf[s.file]
WellNamed ==
  /\ \A p \in Names : temp[p] # Absent => temp[p].of \in Files /\ nameOf[temp[p].of] = p
  /\ \A p \in Names : watched[p].on => watched[p].file \in Files /\ nameOf[watched[p].file] = p
  /\ \A i \in 1..Len(events) : nameOf[events[i].file] = events[i].path
  /\ \A s \in handlers \cup stored : Named(s)

(* No copy holds or held an edit to come.                                  *)
Remembered ==
  /\ \A p \in Names : watched[p].hash.edit <= saves /\ temp[p].edit <= saves
  /\ EditNotForgotten

(* The timer kept for a file is one an opening of that file has set.       *)
Timed == {"armed", "late", "done"}
TimersKept ==
  \A i \in Mounts, f \in Files : entry[i][f] # 0 =>
    /\ job[entry[i][f]].pc \in Timed
    /\ job[entry[i][f]].pc # "done" => job[entry[i][f]].file = f

JobsSound == JobTypes /\ Begun /\ Waiting /\ UrlsMade
PaperSound == PaperTypes /\ WellNamed /\ Remembered

IInv == PageTypes /\ JobsSound /\ PaperSound /\ TimersKept /\ CopyIsTimed

LEMMA TypesFollow == IInv => TypeOK
  BY DEF IInv, PageTypes, JobsSound, JobTypes, JobType, PaperSound, PaperTypes, WatchType,
     Waiting, TypeOK

LEMMA VersionsFollow == IInv => VersionIsOfItsFile
  BY DEF IInv, PaperSound, PaperTypes, WellNamed, Named, VersionIsOfItsFile

-----------------------------------------------------------------------------
(* What does not change *)

LEMMA PaperMoved ==
  ASSUME PaperSound, UNCHANGED <<nameOf, entry, paper>>, mount' \in Mounts, stray' \subseteq Names
  PROVE  PaperSound'
  BY DEF PaperSound, PaperTypes, WellNamed, Named, Remembered, EditNotForgotten, InHand,
     Changed, paper

LEMMA PaperStays ==
  ASSUME PaperSound, UNCHANGED <<nameOf, timers, paper>>, stray' \subseteq Names
  PROVE  PaperSound'
  BY PaperMoved DEF PaperSound, PaperTypes, timers

LEMMA JobsStay ==
  ASSUME JobsSound, UNCHANGED <<job, opens, pin, preview, revoked, displaced>>
  PROVE  JobsSound'
  BY DEF JobsSound, JobTypes, Begun, Waiting, PromiseKept, UrlsMade, PreviewAlive

LEMMA PathsStay ==
  ASSUME CopyIsTimed, UNCHANGED <<nameOf, temp>>, stray \subseteq stray',
         \A n \in Openings : job[n].pc \in Holding /\ job[n].kind = "open" /\
           PathOf(n) \notin stray' =>
           \E k \in Openings : job'[k].pc \in Holding /\ job'[k].kind = "open" /\
             job'[k].file = job[n].file
  PROVE  CopyIsTimed'
  BY DEF CopyIsTimed, PathOf, CopyOf

-----------------------------------------------------------------------------
(* How a job moves *)

LEMMA GoneTo ==
  ASSUME job \in [Openings -> JobType], NEW n \in Openings, NEW pc \in Steps, Goto(n, pc)
  PROVE  /\ job' \in [Openings -> JobType]
         /\ \A k \in Openings \ {n} : job'[k] = job[k]
         /\ job'[n].pc = pc
         /\ pc # "done" => job'[n] = [job[n] EXCEPT !.pc = pc]
         /\ pc = "done" => job'[n] = Finished
  <1>1. CASE pc = "done"
    <2>1. Finished \in JobType
      <3>1. NoJob \in JobType
        BY OpenFileAssumption DEF NoJob, JobType, Steps, Mounts
      <3> QED BY <3>1 DEF Finished, JobType, Steps
    <2>2. job' = [job EXCEPT ![n] = Finished]
      BY <1>1 DEF Goto, Moved
    <2> QED BY <1>1, <2>1, <2>2 DEF Finished, NoJob
  <1>2. CASE pc # "done"
    <2>1. job' = [job EXCEPT ![n] = [job[n] EXCEPT !.pc = pc]]
      BY <1>2 DEF Goto, Moved
    <2>2. [job[n] EXCEPT !.pc = pc] \in JobType /\ [job[n] EXCEPT !.pc = pc].pc = pc
      BY DEF JobType
    <2> QED BY <1>2, <2>1, <2>2
  <1> QED BY <1>1, <1>2

(* A job that does not wait goes on. *)
LEMMA JobGoesOn ==
  ASSUME JobsSound, NEW n \in Openings, NEW pc \in Steps \ {"new", "pin", "leaving"}, Goto(n, pc),
         job[n].pc \notin {"new", "pin", "done"}, UNCHANGED <<opens, screen>>
  PROVE  JobsSound'
  <1> USE DEF JobType
  <1>1. /\ job' \in [Openings -> JobType]
        /\ \A k \in Openings \ {n} : job'[k] = job[k]
        /\ job'[n].pc = pc
        /\ pc # "done" => job'[n] = [job[n] EXCEPT !.pc = pc]
        /\ pc = "done" => job'[n] = Finished
    BY GoneTo DEF JobsSound, JobTypes
  <1>2. JobTypes'
    BY <1>1 DEF JobsSound, JobTypes, screen
  <1>3. Begun'
    BY <1>1 DEF JobsSound, Begun, JobTypes
  <1>4. Waiting'
    BY <1>1 DEF JobsSound, Waiting, PromiseKept, JobTypes, screen, Openings
  <1>5. /\ job'[n].url \in {0, job[n].url}
        /\ job'[n].url # 0 => job'[n].here = job[n].here
    BY <1>1 DEF Finished, NoJob, JobsSound, JobTypes
  <1>6. ASSUME NEW m \in Openings, job[m].pc = "done"
        PROVE  job'[m].pc = "done"
    BY <1>1, <1>6
  <1>7. ASSUME NEW k \in Openings, job'[k].url # 0
        PROVE  job[k].url = job'[k].url /\ job[k].here = job'[k].here /\ job[k].url \in Openings
    BY <1>1, <1>5, <1>7 DEF JobsSound, JobTypes, Openings
  <1>8. preview.url # 0 => preview.url \in Openings
    BY DEF JobsSound, JobTypes, Openings
  <1>9. UrlsMade'
    BY <1>6, <1>7, <1>8 DEF JobsSound, UrlsMade, PreviewAlive, JobTypes, screen
  <1> QED BY <1>2, <1>3, <1>4, <1>9 DEF JobsSound

(* A job that waited or left its page goes on, after the dialog has closed. *)
LEMMA SettleMoves ==
  ASSUME JobsSound, NEW pc \in {"got", "done"}, NEW checks \in 0..MaxChecks, Settle(pin.for, pc),
         pin' = [NoPin EXCEPT !.checks = checks],
         UNCHANGED <<opens, preview, revoked, displaced>>
  PROVE  JobsSound'
  <1>1. pin' \in [open : BOOLEAN, for : 0..MaxOpens, checks : 0..MaxChecks]
        /\ pin'.for = 0 /\ ~pin'.open
    <2>1. NoPin \in [open : BOOLEAN, for : 0..MaxOpens, checks : 0..MaxChecks]
          /\ NoPin.for = 0 /\ ~NoPin.open
      BY OpenFileAssumption DEF NoPin
    <2> QED BY <2>1
  <1>2. CASE pin.for = 0
    <2>1. job' = job
      BY <1>2 DEF Settle
    <2>2. JobTypes' /\ Begun'
      BY <1>1, <2>1 DEF JobsSound, JobTypes, Begun
    <2>3. Waiting'
      BY <1>1, <1>2, <2>1 DEF JobsSound, JobTypes, Waiting, PromiseKept, Openings
    <2>4. UrlsMade'
      BY <2>1 DEF JobsSound, UrlsMade, PreviewAlive
    <2> QED BY <2>2, <2>3, <2>4 DEF JobsSound
  <1>3. CASE pin.for # 0
    <2> PICK n \in Openings : n = pin.for
      BY <1>3 DEF JobsSound, JobTypes, Openings
    <2>1. Goto(n, pc) /\ job[n].pc = "pin" /\ pc \in Steps
      BY <1>3 DEF Settle, JobsSound, Waiting, Steps
    <2>2. /\ job' \in [Openings -> JobType]
          /\ \A k \in Openings \ {n} : job'[k] = job[k]
          /\ job'[n].pc = pc
          /\ pc # "done" => job'[n] = [job[n] EXCEPT !.pc = pc]
          /\ pc = "done" => job'[n] = Finished
      BY <2>1, GoneTo DEF JobsSound, JobTypes
    <2>3. JobTypes'
      BY <1>1, <2>2 DEF JobsSound, JobTypes
    <2>4. Begun'
      BY <2>1, <2>2 DEF JobsSound, Begun, JobTypes, JobType
    <2>5. Waiting'
      BY <1>1, <2>1, <2>2 DEF JobsSound, Waiting, PromiseKept
    <2>6. /\ job'[n].url \in {0, job[n].url}
          /\ job'[n].url # 0 => job'[n].here = job[n].here
      BY <2>2 DEF Finished, NoJob, JobsSound, JobTypes, JobType
    <2>7. ASSUME NEW m \in Openings, job[m].pc = "done"
          PROVE  job'[m].pc = "done"
      BY <2>1, <2>2, <2>7
    <2>8. ASSUME NEW k \in Openings, job'[k].url # 0
          PROVE  job[k].url = job'[k].url /\ job[k].here = job'[k].here /\ job[k].url \in Openings
      BY <2>2, <2>6, <2>8 DEF JobsSound, JobTypes, JobType, Openings
    <2>9. preview.url # 0 => preview.url \in Openings
      BY DEF JobsSound, JobTypes, Openings
    <2>10. UrlsMade'
      BY <2>7, <2>8, <2>9 DEF JobsSound, UrlsMade, PreviewAlive, JobTypes
    <2> QED BY <2>3, <2>4, <2>5, <2>10 DEF JobsSound
  <1> QED BY <1>2, <1>3

(* The other openings of a step that moves job n alone keep their copies.  *)
LEMMA CopiesKept ==
  ASSUME JobsSound, CopyIsTimed, NEW n \in Openings, UNCHANGED <<nameOf, temp>>,
         stray \subseteq stray', \A k \in Openings \ {n} : job'[k] = job[k],
         \/ job[n].pc \notin Holding
         \/ PathOf(n) \in stray'
         \/ job'[n].pc \in Holding /\ job'[n].kind = job[n].kind /\ job'[n].file = job[n].file
  PROVE  CopyIsTimed'
  <1>1. ASSUME NEW m \in Openings, job[m].pc \in Holding, job[m].kind = "open",
               PathOf(m) \notin stray'
        PROVE  \E k \in Openings : job'[k].pc \in Holding /\ job'[k].kind = "open" /\
                 job'[k].file = job[m].file
    <2>1. CASE m = n
      BY <1>1, <2>1
    <2>2. CASE m # n
      BY <1>1, <2>2
    <2> QED BY <2>1, <2>2
  <1> QED BY <1>1, PathsStay

LEMMA TimersStay ==
  ASSUME IInv, \A i \in Mounts, f \in Files : entry'[i][f] \in {0, entry[i][f]},
         \A k \in Openings : job[k].pc \in Timed =>
           job'[k].pc \in Timed /\ (job'[k].pc # "done" => job[k].pc # "done" /\ job'[k].file = job[k].file)
  PROVE  TimersKept'
  <1> SUFFICES ASSUME NEW i \in Mounts, NEW f \in Files, entry'[i][f] # 0
               PROVE  /\ job'[entry'[i][f]].pc \in Timed
                      /\ job'[entry'[i][f]].pc # "done" => job'[entry'[i][f]].file = f
    BY DEF TimersKept
  <1>1. entry'[i][f] = entry[i][f] /\ entry[i][f] # 0
    OBVIOUS
  <1>2. entry[i][f] \in Openings
    BY <1>1 DEF IInv, PaperSound, PaperTypes, Openings
  <1>3. /\ job[entry[i][f]].pc \in Timed
        /\ job[entry[i][f]].pc # "done" => job[entry[i][f]].file = f
    BY <1>1 DEF IInv, TimersKept
  <1> QED BY <1>1, <1>2, <1>3

(* Neither does a step of an opening whose timer is not set. *)
LEMMA TimersStayBut ==
  ASSUME IInv, NEW n \in Openings, UNCHANGED timers, job[n].pc \notin Timed,
         \A k \in Openings \ {n} : job'[k] = job[k]
  PROVE  TimersKept'
  <1>1. ASSUME NEW k \in Openings, job[k].pc \in Timed
        PROVE  job'[k] = job[k]
    BY <1>1
  <1>2. \A i \in Mounts, f \in Files : entry'[i][f] = entry[i][f]
    BY DEF timers
  <1> QED BY <1>1, <1>2, TimersStay

-----------------------------------------------------------------------------
(* The pages and the dialog *)

LEMMA AsideSound ==
  ASSUME IInv, Registered \/ ConfirmPin \/ WrongPin
  PROVE  IInv'
  <1>1. /\ UNCHANGED <<nameOf, timers, paper, job, opens, preview, revoked, displaced, stray>>
        /\ UNCHANGED <<desktop, leaked>> /\ page' \in {page, "dashboard"}
    BY DEF Registered, ConfirmPin, WrongPin, screen
  <1>2. PaperSound' /\ PageTypes'
    BY <1>1, PaperStays DEF IInv, PageTypes, PaperSound, PaperTypes
  <1>3. pin'.open = pin.open /\ pin'.for = pin.for
        /\ pin' \in [open : BOOLEAN, for : 0..MaxOpens, checks : 0..MaxChecks]
    BY OpenFileAssumption
       DEF Registered, ConfirmPin, WrongPin, screen, IInv, JobsSound, JobTypes
  <1>4. JobsSound'
    BY <1>1, <1>3 DEF IInv, JobsSound, JobTypes, Begun, Waiting, PromiseKept, UrlsMade, PreviewAlive
  <1>5. CopyIsTimed'
    BY <1>1 DEF IInv, CopyIsTimed, PathOf, CopyOf, paper
  <1>6. TimersKept'
    BY <1>1 DEF IInv, TimersKept, timers
  <1> QED BY <1>2, <1>4, <1>5, <1>6 DEF IInv

LEMMA SettledSound ==
  ASSUME IInv, ValidPin \/ CancelPin
  PROVE  IInv'
  <1>1. PICK pc \in {"got", "done"}, checks \in 0..MaxChecks :
          /\ CloseModal(pc)
          /\ pin' = [NoPin EXCEPT !.checks = checks]
    <2>1. pin.checks \in 0..MaxChecks
      BY DEF IInv, JobsSound, JobTypes
    <2>2. CASE ValidPin
      <3>1. pin.checks - 1 \in 0..MaxChecks
        BY <2>1, <2>2, OpenFileAssumption DEF ValidPin
      <3> QED BY <2>2, <3>1 DEF ValidPin
    <2>3. CASE CancelPin
      BY <2>1, <2>3 DEF CancelPin
    <2> QED BY <2>2, <2>3
  <1>2. JobsSound'
    BY <1>1, SettleMoves DEF CloseModal, IInv
  <1>3. PaperSound' /\ PageTypes'
    BY <1>1, PaperStays DEF CloseModal, IInv, PageTypes, PaperSound, PaperTypes
  <1>4. CopyIsTimed' /\ TimersKept'
    <2>1. CASE pin.for = 0
      BY <1>1, <2>1 DEF CloseModal, Settle, IInv, CopyIsTimed, PathOf, CopyOf, paper, timers,
         TimersKept
    <2>2. CASE pin.for # 0
      <3> PICK n \in Openings : n = pin.for
        BY <2>2 DEF IInv, JobsSound, JobTypes, Openings
      <3>1. Goto(n, pc) /\ job[n].pc \notin Holding \cup Timed /\ pc \in Steps
        BY <1>1, <2>2 DEF CloseModal, Settle, IInv, JobsSound, Waiting, Holding, Timed, Steps
      <3>2. \A k \in Openings \ {n} : job'[k] = job[k]
        BY <3>1, GoneTo DEF IInv, JobsSound, JobTypes
      <3>3. UNCHANGED <<nameOf, temp, stray, timers>>
        BY <1>1 DEF CloseModal, paper
      <3> QED BY <3>1, <3>2, <3>3, CopiesKept, TimersStayBut DEF IInv
    <2> QED BY <2>1, <2>2
  <1> QED BY <1>2, <1>3, <1>4 DEF IInv

LEMMA NavigateSound ==
  ASSUME IInv, Navigate
  PROVE  IInv'
  <1> USE DEF JobType
  <1> DEFINE Leaves(n) == n = pin.for /\ pin.checks > 0
  <1>1. ASSUME NEW n \in Openings
        PROVE  /\ job'[n] \in JobType /\ job'[n].here = FALSE
               /\ job'[n].kind = job[n].kind /\ job'[n].file = job[n].file
               /\ job'[n].url = job[n].url
               /\ job'[n].pc = IF Leaves(n) THEN "leaving" ELSE job[n].pc
    <2>1. job[n] \in JobType
      BY DEF IInv, JobsSound, JobTypes
    <2>2. job'[n] = [Left(job[n]) EXCEPT !.pc = IF Leaves(n) THEN "leaving" ELSE Left(job[n]).pc]
      BY DEF Navigate
    <2>3. Left(job[n]) \in JobType /\ Left(job[n]).here = FALSE
          /\ Left(job[n]).kind = job[n].kind /\ Left(job[n]).file = job[n].file
          /\ Left(job[n]).url = job[n].url /\ Left(job[n]).pc = job[n].pc
      BY <2>1 DEF Left
    <2>4. CASE Leaves(n)
      <3>1. job'[n] = [Left(job[n]) EXCEPT !.pc = "leaving"]
        BY <2>2, <2>4
      <3> QED BY <2>3, <2>4, <3>1 DEF Steps
    <2>5. CASE ~Leaves(n)
      <3>1. job'[n] = [Left(job[n]) EXCEPT !.pc = Left(job[n]).pc]
        BY <2>2, <2>5
      <3> QED BY <2>3, <2>5, <3>1
    <2> QED BY <2>4, <2>5
  <1>2. ASSUME NEW n \in Openings, Leaves(n)
        PROVE  job[n].pc = "pin" /\ n \in displaced'
    BY <1>2 DEF Navigate, IInv, JobsSound, Waiting, Openings
  <1>3. job' \in [Openings -> JobType]
    BY <1>1 DEF Navigate
  <1> HIDE DEF Leaves
  <1>4. /\ pin' \in [open : BOOLEAN, for : 0..MaxOpens, checks : 0..MaxChecks]
        /\ pin'.for = 0 /\ ~pin'.open
        /\ preview' \in [shown : BOOLEAN, url : 0..MaxOpens]
        /\ preview'.url = 0 /\ ~preview'.shown
        /\ UNCHANGED <<opens, revoked, nameOf, entry, paper, stray>> /\ mount' = opens
    BY OpenFileAssumption DEF Navigate, NoPin, NoPreview
  <1>5. displaced \subseteq displaced' /\ displaced' \subseteq Openings
        /\ (pin.for # 0 => pin.for \in displaced')
    BY DEF Navigate, IInv, JobsSound, JobTypes, Openings
  <1>6. JobTypes'
    BY <1>3, <1>4, <1>5 DEF IInv, JobsSound, JobTypes
  <1>7. Begun'
    BY <1>1, <1>2, <1>4 DEF IInv, JobsSound, Begun
  <1>8. Waiting'
    <2>1. ASSUME NEW n \in Openings, job'[n].pc \in {"pin", "leaving"}
          PROVE  n \in displaced'
      BY <1>1, <1>2, <1>5, <2>1 DEF IInv, JobsSound, Waiting, PromiseKept
    <2> QED BY <1>4, <2>1 DEF Waiting, PromiseKept
  <1>9. UrlsMade'
    <2>1. ASSUME NEW m \in Openings, job[m].pc = "done"
          PROVE  job'[m].pc = "done"
      BY <1>1, <1>2, <2>1
    <2>2. ASSUME NEW n \in Openings, job'[n].url # 0
          PROVE  job'[job'[n].url].pc = "done" /\ preview'.url # job'[n].url
      <3>1. job[n].url \in Openings /\ job[job[n].url].pc = "done"
        <4>1. job[n].url # 0
          BY <1>1, <2>2
        <4> QED BY <4>1 DEF IInv, JobsSound, JobTypes, UrlsMade, Openings
      <3> QED BY <1>1, <1>4, <2>1, <2>2, <3>1
    <2> QED BY <1>4, <2>1, <2>2 DEF IInv, JobsSound, JobTypes, UrlsMade, PreviewAlive
  <1>10. CopyIsTimed'
    <2>1. ASSUME NEW n \in Openings, job[n].pc \in Holding
          PROVE  job'[n].pc \in Holding
      BY <1>1, <1>2, <2>1 DEF Holding
    <2>2. UNCHANGED <<nameOf, temp, stray>>
      BY <1>4 DEF paper
    <2> QED BY <1>1, <2>1, <2>2, PathsStay DEF IInv
  <1>11. PaperSound'
    <2>1. mount' \in Mounts
      BY <1>4 DEF IInv, JobsSound, JobTypes, Mounts
    <2> QED BY <1>4, <2>1, PaperMoved DEF IInv, PaperSound, PaperTypes
  <1>12. PageTypes'
    BY DEF Navigate, IInv, PageTypes
  <1>13. TimersKept'
    <2>1. ASSUME NEW k \in Openings, job[k].pc \in Timed
          PROVE  job'[k].pc = job[k].pc /\ job'[k].file = job[k].file
      BY <1>1, <1>2, <2>1 DEF Timed
    <2>2. \A i \in Mounts, f \in Files : entry'[i][f] = entry[i][f]
      BY <1>4
    <2> QED BY <2>1, <2>2, TimersStay
  <1> QED BY <1>6, <1>7, <1>8, <1>9, <1>10, <1>11, <1>12, <1>13 DEF IInv, JobsSound

LEMMA OpenSound ==
  ASSUME IInv, NEW f \in Files, NEW kind \in {"open", "card", "media", "plain"}, Open(f, kind)
  PROVE  IInv'
  <1> USE DEF JobType
  <1> PICK n : n = opens + 1
    OBVIOUS
  <1>1. n \in Openings /\ job[n].pc = "new" /\ opens' = n /\ n \in 0..MaxOpens
    BY OpenFileAssumption DEF Open, IInv, JobsSound, JobTypes, Begun, Openings
  <1> PICK j : j = [pc |-> "fetch", kind |-> kind, file |-> f, url |-> preview.url,
                    mount |-> mount, here |-> TRUE]
    OBVIOUS
  <1>2. j \in JobType
    BY DEF IInv, JobsSound, JobTypes, PaperSound, PaperTypes, Steps
  <1>3. job' = [job EXCEPT ![n] = j]
    BY DEF Open
  <1>4. UNCHANGED <<pin, preview, revoked, displaced, nameOf, timers, paper, stray>>
        /\ UNCHANGED <<desktop, page, leaked>>
    BY DEF Open, screen
  <1>5. job' \in [Openings -> JobType] /\ job'[n] = j /\ \A k \in Openings \ {n} : job'[k] = job[k]
    BY <1>1, <1>2, <1>3 DEF IInv, JobsSound, JobTypes
  <1>6. JobTypes'
    BY <1>1, <1>4, <1>5 DEF IInv, JobsSound, JobTypes
  <1>7. Begun'
    BY <1>1, <1>5 DEF IInv, JobsSound, JobTypes, Begun, Openings
  <1>8. Waiting'
    <2>1. ASSUME NEW k \in Openings, job[k].pc \in {"pin", "leaving"} \/ job'[k].pc \in {"pin", "leaving"}
          PROVE  job'[k].pc = job[k].pc
      BY <1>1, <1>5, <2>1
    <2> QED BY <1>4, <2>1 DEF IInv, JobsSound, JobTypes, Waiting, PromiseKept, Openings
  <1>9. UrlsMade'
    <2>1. ASSUME NEW m \in Openings, job[m].pc = "done"
          PROVE  job'[m].pc = "done"
      BY <1>1, <1>5, <2>1
    <2>2. ASSUME NEW k \in Openings, job'[k].url # 0
          PROVE  /\ job'[k].url \in Openings /\ job[job'[k].url].pc = "done"
                 /\ ~job'[k].here => preview.url # job'[k].url
      <3>1. CASE k = n
        BY <1>5, <2>2, <3>1 DEF IInv, JobsSound, JobTypes, UrlsMade, Openings
      <3>2. CASE k # n
        BY <1>5, <2>2, <3>2 DEF IInv, JobsSound, JobTypes, UrlsMade, Openings
      <3> QED BY <3>1, <3>2
    <2>3. preview.url # 0 => preview.url \in Openings
      BY DEF IInv, JobsSound, JobTypes, Openings
    <2> QED BY <1>4, <2>1, <2>2, <2>3 DEF IInv, JobsSound, JobTypes, UrlsMade, PreviewAlive
  <1>10. CopyIsTimed' /\ TimersKept'
    BY <1>1, <1>4, <1>5, CopiesKept, TimersStayBut DEF IInv, Holding, Timed, paper
  <1>11. PaperSound' /\ PageTypes'
    BY <1>4, PaperStays DEF IInv, PaperSound, PaperTypes, PageTypes
  <1> QED BY <1>6, <1>7, <1>8, <1>9, <1>10, <1>11 DEF IInv, JobsSound

(* The answer of a download shows the dialog, or finds no page to show it. *)
LEMMA GuardedSound ==
  ASSUME IInv, NEW n \in Openings, job[n].pc \in {"fetch", "leaving"}, Goto(n, "pin"),
         \/ pin' = [pin EXCEPT !.open = TRUE, !.for = n] /\ displaced' = displaced \cup ({pin.for} \ {0})
         \/ pin' = pin /\ displaced' = displaced \cup {n},
         UNCHANGED <<opens, preview, revoked>>
  PROVE  JobsSound'
  <1> USE DEF JobType
  <1>1. /\ job' \in [Openings -> JobType]
        /\ \A k \in Openings \ {n} : job'[k] = job[k]
        /\ job'[n] = [job[n] EXCEPT !.pc = "pin"] /\ job'[n].pc = "pin"
    BY GoneTo DEF IInv, JobsSound, JobTypes, Steps
  <1>2. pin' \in [open : BOOLEAN, for : 0..MaxOpens, checks : 0..MaxChecks]
        /\ displaced' \subseteq Openings /\ displaced \subseteq displaced'
    <2>1. /\ n \in 0..MaxOpens /\ n \in Openings /\ displaced \subseteq Openings
          /\ pin \in [open : BOOLEAN, for : 0..MaxOpens, checks : 0..MaxChecks]
          /\ {pin.for} \ {0} \subseteq Openings
      BY OpenFileAssumption DEF IInv, JobsSound, JobTypes, Openings
    <2>2. [pin EXCEPT !.open = TRUE, !.for = n]
            \in [open : BOOLEAN, for : 0..MaxOpens, checks : 0..MaxChecks]
      BY <2>1
    <2> QED BY <2>1, <2>2
  <1>3. JobTypes'
    BY <1>1, <1>2 DEF IInv, JobsSound, JobTypes
  <1>4. Begun'
    BY <1>1 DEF IInv, JobsSound, JobTypes, Begun
  <1>5. Waiting'
    <2>1. CASE pin' = [pin EXCEPT !.open = TRUE, !.for = n]
               /\ displaced' = displaced \cup ({pin.for} \ {0})
      BY <1>1, <2>1 DEF IInv, JobsSound, JobTypes, Waiting, PromiseKept, Openings
    <2>2. CASE pin' = pin /\ displaced' = displaced \cup {n}
      BY <1>1, <2>2 DEF IInv, JobsSound, JobTypes, Waiting, PromiseKept, Openings
    <2> QED BY <2>1, <2>2
  <1>6. UrlsMade'
    <2>1. ASSUME NEW m \in Openings, job[m].pc = "done"
          PROVE  job'[m].pc = "done"
      BY <1>1, <2>1
    <2>2. ASSUME NEW k \in Openings
          PROVE  job'[k].url = job[k].url /\ job'[k].here = job[k].here
      BY <1>1 DEF IInv, JobsSound, JobTypes
    <2>3. ASSUME NEW k \in Openings, job[k].url # 0
          PROVE  job[k].url \in Openings
      BY <2>3 DEF IInv, JobsSound, JobTypes, Openings
    <2> QED BY <2>1, <2>2, <2>3 DEF IInv, JobsSound, JobTypes, UrlsMade, PreviewAlive, Openings
  <1> QED BY <1>3, <1>4, <1>5, <1>6 DEF JobsSound

(* A step of an opening that has no copy yet leaves the paper alone. *)
LEMMA MovedSound ==
  ASSUME IInv, JobsSound', NEW n \in Openings, NEW pc \in Steps, Goto(n, pc),
         job[n].pc \in {"fetch", "got", "leaving"},
         UNCHANGED <<desktop, nameOf, page, timers, paper, leaked, stray>>
  PROVE  IInv'
  <1>1. \A k \in Openings \ {n} : job'[k] = job[k]
    BY GoneTo DEF IInv, JobsSound, JobTypes
  <1>2. CopyIsTimed' /\ TimersKept'
    BY <1>1, CopiesKept, TimersStayBut DEF IInv, paper, Holding, Timed
  <1>3. PaperSound' /\ PageTypes'
    BY PaperStays DEF IInv, PaperSound, PaperTypes, PageTypes
  <1> QED BY <1>2, <1>3 DEF IInv

LEMMA KnownPath ==
  ASSUME IInv, NEW n \in Openings, job[n].pc \notin {"new", "done"}
  PROVE  job[n].file \in Files /\ PathOf(n) \in Names /\ PathOf(n) = nameOf[job[n].file]
  BY DEF IInv, JobsSound, Begun, PaperSound, PaperTypes, PathOf, CopyOf

LEMMA FetchedSound ==
  ASSUME IInv, NEW n \in Openings, Fetched(n)
  PROVE  IInv'
  <1>1. job[n].pc = "fetch"
        /\ UNCHANGED <<desktop, nameOf, page, opens, timers, paper, leaked, stray>>
    BY DEF Fetched, Holding
  <1>2. \/ \E pc \in {"done", "got"} : Goto(n, pc) /\ UNCHANGED screen
        \/ RequestPin(n)
        \/ /\ Goto(n, "pin") /\ displaced' = displaced \cup {n}
           /\ UNCHANGED <<pin, preview, revoked>>
    BY DEF Fetched
  <1>3. ASSUME NEW pc \in {"done", "got"}, Goto(n, pc), UNCHANGED screen
        PROVE  IInv'
    <2>1. pc \in Steps \ {"new", "pin", "leaving"}
      BY DEF Steps
    <2>2. JobsSound'
      BY <1>1, <1>3, <2>1, JobGoesOn DEF IInv
    <2> QED BY <1>1, <1>3, <2>1, <2>2, MovedSound
  <1>4. CASE RequestPin(n)
    <2>1. JobsSound' /\ Goto(n, "pin") /\ "pin" \in Steps
      BY <1>1, <1>4, GuardedSound DEF RequestPin, Steps
    <2> QED BY <1>1, <2>1, MovedSound
  <1>5. CASE /\ Goto(n, "pin") /\ displaced' = displaced \cup {n}
             /\ UNCHANGED <<pin, preview, revoked>>
    <2>1. JobsSound' /\ "pin" \in Steps
      BY <1>1, <1>5, GuardedSound DEF Steps
    <2> QED BY <1>1, <1>5, <2>1, MovedSound
  <1> QED BY <1>2, <1>3, <1>4, <1>5

LEMMA LatePinSound ==
  ASSUME IInv, NEW n \in Openings, LatePin(n)
  PROVE  IInv'
  <1>1. job[n].pc = "leaving" /\ n \in displaced
        /\ UNCHANGED <<desktop, nameOf, page, opens, screen, timers, paper, leaked, stray>>
    BY DEF LatePin, Holding, IInv, JobsSound, Waiting
  <1>2. CASE Goto(n, "got")
    <2>1. JobsSound' /\ "got" \in Steps
      BY <1>1, <1>2, JobGoesOn DEF Steps, IInv
    <2> QED BY <1>1, <1>2, <2>1, MovedSound
  <1>3. CASE Goto(n, "pin")
    <2>1. pin' = pin /\ displaced' = displaced \cup {n}
          /\ UNCHANGED <<opens, preview, revoked>>
      BY <1>1 DEF screen
    <2>2. JobsSound' /\ "pin" \in Steps
      BY <1>1, <1>3, <2>1, GuardedSound DEF Steps
    <2> QED BY <1>1, <1>3, <2>2, MovedSound
  <1> QED BY <1>2, <1>3 DEF LatePin

LEMMA ShowTabSound ==
  ASSUME IInv, NEW n \in Openings, ShowTab(n)
  PROVE  IInv'
  <1>1. job[n].pc = "got" /\ Goto(n, "done")
        /\ "done" \in Steps \ {"new", "pin", "leaving"}
        /\ UNCHANGED <<desktop, nameOf, page, opens, timers, paper, leaked, stray>>
    BY DEF ShowTab, InPage, Holding, Steps
  <1>2. UNCHANGED screen
    BY DEF ShowTab, Revoked, screen
  <1>3. JobsSound'
    BY <1>1, <1>2, JobGoesOn DEF IInv
  <1> QED BY <1>1, <1>3, MovedSound

LEMMA ClosePreviewSound ==
  ASSUME IInv, ClosePreview
  PROVE  IInv'
  <1>1. /\ UNCHANGED <<desktop, nameOf, page, job, opens, pin, displaced, timers, paper, leaked,
                       stray>>
        /\ revoked' = revoked \cup ({preview.url} \ {0})
        /\ preview' = [shown |-> FALSE, url |-> 0]
    BY DEF ClosePreview, NoPreview
  <1>2. JobTypes'
    <2>1. preview' \in [shown : BOOLEAN, url : 0..MaxOpens]
      BY <1>1, OpenFileAssumption
    <2>2. revoked' \subseteq Openings
      <3>1. preview.url \in 0..MaxOpens /\ revoked \subseteq Openings
        BY DEF IInv, JobsSound, JobTypes
      <3>2. {preview.url} \ {0} \subseteq Openings
        BY <3>1, OpenFileAssumption DEF Openings
      <3> QED BY <1>1, <3>1, <3>2
    <2> QED BY <1>1, <2>1, <2>2 DEF IInv, JobsSound, JobTypes
  <1>3. Begun' /\ Waiting'
    BY <1>1 DEF IInv, JobsSound, Begun, Waiting, PromiseKept
  <1>4. UrlsMade'
    BY <1>1 DEF IInv, JobsSound, JobTypes, UrlsMade, PreviewAlive
  <1>5. CopyIsTimed' /\ TimersKept'
    BY <1>1, PathsStay DEF IInv, paper, TimersKept, timers
  <1>6. PaperSound' /\ PageTypes'
    BY <1>1, PaperStays DEF IInv, PaperSound, PaperTypes, PageTypes
  <1> QED BY <1>2, <1>3, <1>4, <1>5, <1>6 DEF IInv, JobsSound

LEMMA FailSound ==
  ASSUME IInv, NEW n \in Openings, Fail(n)
  PROVE  IInv'
  <1>1. job[n].pc \in {"fetch", "write", "watch", "start"} /\ Goto(n, "done")
        /\ "done" \in Steps \ {"new", "pin", "leaving"}
        /\ UNCHANGED <<desktop, nameOf, page, opens, screen, timers, paper, leaked>>
    BY DEF Fail, Steps
  <1>2. JobsSound'
    BY <1>1, JobGoesOn DEF IInv
  <1>3. \A k \in Openings \ {n} : job'[k] = job[k]
    BY <1>1, GoneTo DEF IInv, JobsSound, JobTypes
  <1>4. stray \subseteq stray' /\ (job[n].pc \in Holding => PathOf(n) \in stray')
        /\ stray' \subseteq Names
    <2>1. PathOf(n) \in Names /\ stray \subseteq Names
      BY <1>1, KnownPath DEF IInv, PaperSound, PaperTypes
    <2>2. stray' = IF job[n].pc = "fetch" THEN stray ELSE stray \cup {PathOf(n)}
      BY DEF Fail
    <2> QED BY <2>1, <2>2 DEF Holding
  <1>5. CopyIsTimed' /\ TimersKept'
    BY <1>1, <1>3, <1>4, CopiesKept, TimersStayBut DEF IInv, paper, Timed
  <1>6. PaperSound' /\ PageTypes'
    BY <1>1, <1>4, PaperStays DEF IInv, PageTypes
  <1> QED BY <1>2, <1>5, <1>6 DEF IInv

LEMMA DownloadAgainSound ==
  ASSUME IInv, NEW n \in Openings, DownloadAgain(n)
  PROVE  IInv'
  <1> USE DEF JobType
  <1> DEFINE j == [[job[n] EXCEPT !.kind = "plain"] EXCEPT !.pc = "fetch"]
  <1>1. job[n].pc = "got"
        /\ UNCHANGED <<desktop, nameOf, page, opens, screen, timers, paper, leaked, stray>>
    BY DEF DownloadAgain, InPage
  <1>2. job' = [job EXCEPT ![n] = j]
    BY DEF DownloadAgain, IInv, JobsSound, JobTypes
  <1>3. /\ j \in JobType /\ j.pc = "fetch" /\ j.file = job[n].file /\ j.url = job[n].url
        /\ j.here = job[n].here
    BY DEF IInv, JobsSound, JobTypes, Steps
  <1> HIDE DEF j
  <1>4. job' \in [Openings -> JobType] /\ job'[n] = j /\ \A k \in Openings \ {n} : job'[k] = job[k]
    BY <1>2, <1>3 DEF IInv, JobsSound, JobTypes
  <1>5. JobTypes' /\ Begun'
    BY <1>1, <1>3, <1>4 DEF IInv, JobsSound, JobTypes, Begun, screen
  <1>6. Waiting'
    BY <1>1, <1>3, <1>4 DEF IInv, JobsSound, JobTypes, Waiting, PromiseKept, screen, Openings
  <1>7. UrlsMade'
    <2>1. ASSUME NEW m \in Openings, job[m].pc = "done"
          PROVE  job'[m].pc = "done"
      BY <1>1, <1>4, <2>1
    <2>2. ASSUME NEW k \in Openings
          PROVE  job'[k].url = job[k].url /\ job'[k].here = job[k].here
      BY <1>3, <1>4
    <2>3. ASSUME NEW k \in Openings, job[k].url # 0
          PROVE  job[k].url \in Openings
      BY <2>3 DEF IInv, JobsSound, JobTypes, Openings
    <2> QED BY <1>1, <2>1, <2>2, <2>3
            DEF IInv, JobsSound, JobTypes, UrlsMade, PreviewAlive, Openings, screen
  <1>8. CopyIsTimed' /\ TimersKept'
    BY <1>1, <1>4, CopiesKept, TimersStayBut DEF IInv, Holding, Timed, paper
  <1>9. PaperSound' /\ PageTypes'
    BY <1>1, PaperStays DEF IInv, PaperSound, PaperTypes, PageTypes
  <1> QED BY <1>5, <1>6, <1>7, <1>8, <1>9 DEF IInv, JobsSound

LEMMA ShowPreviewSound ==
  ASSUME IInv, NEW n \in Openings, ShowPreview(n)
  PROVE  IInv'
  <1> USE DEF JobType
  <1>1. job[n].pc = "got" /\ Goto(n, "done") /\ "done" \in Steps
        /\ UNCHANGED <<desktop, nameOf, page, opens, pin, displaced, timers, paper, leaked, stray>>
    BY DEF ShowPreview, InPage, Holding, Steps
  <1> PICK url \in {n, 0} : preview' = IF job[n].here THEN [shown |-> TRUE, url |-> url] ELSE preview
    BY DEF ShowPreview
  <1>2. revoked' = revoked \cup ({job[n].url} \ {0})
    BY DEF ShowPreview, Revoked
  <1>3. /\ job' \in [Openings -> JobType]
        /\ \A k \in Openings \ {n} : job'[k] = job[k]
        /\ job'[n] = Finished /\ job'[n].pc = "done"
    BY <1>1, GoneTo DEF IInv, JobsSound, JobTypes
  <1>4. Finished.url = 0
    BY DEF Finished, NoJob
  <1>5. /\ job[n].url # 0 => job[n].url \in Openings /\ job[job[n].url].pc = "done"
        /\ job[n].url # n /\ n \notin revoked /\ n # 0
        /\ preview.url # 0 => preview.url \in Openings
    BY <1>1 DEF IInv, JobsSound, JobTypes, UrlsMade, Openings
  <1>6. JobTypes'
    <2>1. preview' \in [shown : BOOLEAN, url : 0..MaxOpens]
      <3>1. CASE job[n].here
        BY <3>1, OpenFileAssumption DEF Openings
      <3>2. CASE ~job[n].here
        BY <3>2 DEF IInv, JobsSound, JobTypes
      <3> QED BY <3>1, <3>2
    <2> QED BY <1>1, <1>2, <1>3, <1>5, <2>1 DEF IInv, JobsSound, JobTypes
  <1>7. Begun' /\ Waiting'
    BY <1>1, <1>3 DEF IInv, JobsSound, JobTypes, Begun, Waiting, PromiseKept, Openings
  <1>8. UrlsMade'
    <2>1. ASSUME NEW m \in Openings, job[m].pc = "done"
          PROVE  job'[m].pc = "done" /\ m # n
      BY <1>1, <1>3, <2>1
    <2>2. \A m \in revoked' : job'[m].pc = "done"
      BY <1>2, <1>5, <2>1 DEF IInv, JobsSound, JobTypes, UrlsMade
    <2>3. preview'.url # 0 => job'[preview'.url].pc = "done"
      <3>1. CASE job[n].here
        BY <1>3, <3>1
      <3>2. CASE ~job[n].here
        BY <1>5, <2>1, <3>2 DEF IInv, JobsSound, UrlsMade
      <3> QED BY <3>1, <3>2
    <2>4. ASSUME NEW k \in Openings, job'[k].url # 0
          PROVE  job'[job'[k].url].pc = "done" /\ (~job'[k].here => preview'.url # job'[k].url)
      <3>1. k # n /\ job'[k] = job[k]
        BY <1>3, <1>4, <2>4
      <3>2. job[k].url \in Openings /\ job[job[k].url].pc = "done"
            /\ (~job[k].here => preview.url # job[k].url)
        BY <2>4, <3>1 DEF IInv, JobsSound, JobTypes, UrlsMade, Openings
      <3>3. job[k].url # n
        BY <2>1, <3>2
      <3>4. preview'.url \in {n, 0, preview.url}
        BY DEF IInv
      <3> QED BY <2>1, <2>4, <3>1, <3>2, <3>3, <3>4
    <2>5. PreviewAlive'
      <3>1. CASE job[n].here
        BY <1>2, <1>5, <3>1 DEF PreviewAlive, IInv, JobsSound, JobTypes, Openings
      <3>2. CASE ~job[n].here
        BY <1>2, <1>5, <3>2 DEF PreviewAlive, IInv, JobsSound, UrlsMade
      <3> QED BY <3>1, <3>2
    <2> QED BY <2>2, <2>3, <2>4, <2>5 DEF UrlsMade
  <1> QED BY <1>1, <1>6, <1>7, <1>8, MovedSound DEF JobsSound

LEMMA OpenNativeSound ==
  ASSUME IInv, NEW n \in Openings, OpenNative(n)
  PROVE  IInv'
  <1> USE DEF JobType
  <1>1. job[n].pc = "got" /\ job[n].file \in Files /\ job[n] \in JobType
        /\ UNCHANGED <<desktop, nameOf, page, opens, screen, timers, paper, leaked, stray>>
    BY DEF OpenNative, IInv, JobsSound, JobTypes, Begun
  <1> PICK m : m = IF job[n].kind = "open" THEN entry[job[n].mount][job[n].file] ELSE 0
    OBVIOUS
  <1> DEFINE pc == IF m = 0 THEN "write" ELSE "unwatch"
  <1> DEFINE j == [job[n] EXCEPT !.pc = pc]
  <1> DEFINE Ended(k) == k = m /\ job[k].pc = "armed"
  <1>2. pc \in {"write", "unwatch"} /\ pc \in Steps /\ pc \in Holding /\ pc # "done"
    BY DEF Steps, Holding
  <1>3. job' = [k \in Openings |-> IF k = n THEN j ELSE IF Ended(k) THEN Finished ELSE job[k]]
    BY <1>2 DEF OpenNative, Moved
  <1>4. j \in JobType /\ j.pc = pc /\ j.file = job[n].file /\ j.url = job[n].url
        /\ j.here = job[n].here /\ j.kind = job[n].kind
    BY <1>1, <1>2
  <1>5. Finished \in JobType /\ Finished.pc = "done" /\ Finished.url = 0
    <2>1. NoJob \in JobType /\ NoJob.url = 0
      BY OpenFileAssumption DEF NoJob, Steps, Mounts
    <2> QED BY <2>1 DEF Finished, Steps
  <1> HIDE DEF j, pc
  <1>6. ASSUME NEW k \in Openings
        PROVE  /\ job'[k] \in JobType
               /\ k = n => job'[k] = j
               /\ k # n /\ Ended(k) => job'[k] = Finished
               /\ k # n /\ ~Ended(k) => job'[k] = job[k]
    BY <1>3, <1>4, <1>5 DEF IInv, JobsSound, JobTypes
  <1>7. \A k \in Openings : Ended(k) => k = m /\ job[k].pc = "armed"
    OBVIOUS
  <1> HIDE DEF Ended
  <1>8. JobTypes'
    BY <1>1, <1>3, <1>6 DEF IInv, JobsSound, JobTypes, screen
  <1>9. Begun'
    BY <1>1, <1>2, <1>4, <1>5, <1>6, <1>7 DEF IInv, JobsSound, Begun
  <1>10. Waiting'
    <2>1. ASSUME NEW k \in Openings, job[k].pc \in {"pin", "leaving"} \/ job'[k].pc \in {"pin", "leaving"}
          PROVE  job'[k].pc = job[k].pc
      BY <1>1, <1>2, <1>4, <1>5, <1>6, <1>7, <2>1
    <2> QED BY <1>1, <2>1 DEF IInv, JobsSound, JobTypes, Waiting, PromiseKept, screen, Openings
  <1>11. UrlsMade'
    <2>1. ASSUME NEW k \in Openings, job[k].pc = "done"
          PROVE  job'[k].pc = "done"
      BY <1>1, <1>6, <1>7, <2>1
    <2>2. ASSUME NEW k \in Openings, job'[k].url # 0
          PROVE  job'[k].url = job[k].url /\ job'[k].here = job[k].here /\ job[k].url \in Openings
      <3>1. job'[k].url = job[k].url /\ job'[k].here = job[k].here
        BY <1>4, <1>5, <1>6, <2>2
      <3> QED BY <2>2, <3>1 DEF IInv, JobsSound, JobTypes, Openings
    <2>3. preview.url # 0 => preview.url \in Openings
      BY DEF IInv, JobsSound, JobTypes, Openings
    <2> QED BY <1>1, <2>1, <2>2, <2>3
            DEF IInv, JobsSound, JobTypes, UrlsMade, PreviewAlive, screen
  <1>12. CopyIsTimed'
    <2>1. ASSUME NEW k \in Openings, job[k].pc \in Holding, job[k].kind = "open"
          PROVE  \E h \in Openings : job'[h].pc \in Holding /\ job'[h].kind = "open" /\
                   job'[h].file = job[k].file
      <3>1. CASE Ended(k)
        <4>1. m = entry[job[n].mount][job[n].file] /\ job[n].kind = "open" /\ m # 0 /\ job[m].pc = "armed"
          BY <1>7, <3>1 DEF Openings
        <4>2. job[k].file = job[n].file
          BY <1>1, <1>7, <3>1, <4>1 DEF IInv, TimersKept
        <4> QED BY <1>2, <1>4, <1>6, <4>1, <4>2
      <3>2. CASE ~Ended(k)
        BY <1>1, <1>6, <2>1, <3>2 DEF Holding
      <3> QED BY <3>1, <3>2
    <2> QED BY <1>1, <2>1, PathsStay DEF IInv, paper
  <1>13. PaperSound' /\ PageTypes'
    BY <1>1, PaperStays DEF IInv, PaperSound, PaperTypes, PageTypes
  <1>14. TimersKept'
    <2>1. ASSUME NEW k \in Openings, job[k].pc \in Timed
          PROVE  job'[k] \in {job[k], Finished}
      BY <1>1, <1>6, <2>1 DEF Timed
    <2> QED BY <1>1, <1>5, <2>1, TimersStay DEF Timed, timers
  <1> QED BY <1>8, <1>9, <1>10, <1>11, <1>12, <1>13, <1>14 DEF IInv, JobsSound

-----------------------------------------------------------------------------
(* The copies *)

(* An edit stays where it is, or goes to another place where it counts.    *)
LEMMA EditsKept ==
  ASSUME EditNotForgotten, saves' = saves,
         \A e \in 1..saves : e \in lost \cup InHand => e \in lost' \cup InHand',
         \A e \in 1..saves, p \in Names :
           /\ temp[p].edit = e /\ e \notin lost \cup InHand
           /\ Changed(p) \/ \E i \in 1..Len(events) : events[i].path = p
           => \/ e \in lost' \cup InHand'
              \/ \E q \in Names : temp'[q].edit = e /\
                   (Changed(q)' \/ \E i \in 1..Len(events') : events'[i].path = q)
  PROVE  EditNotForgotten'
  BY DEF EditNotForgotten

(* A path is left by a watch, or by what it holds. *)
LEMMA PathLeft ==
  ASSUME IInv, NEW p \in Names, saves' = saves, UNCHANGED <<nameOf, handlers, stored, events>>,
         lost \subseteq lost', lost' \subseteq 1..MaxSaves,
         temp' \in [Names -> Contents], watched' \in [Names -> WatchType],
         \A q \in Names \ {p} : temp'[q] = temp[q] /\ watched'[q] = watched[q],
         \/ Unread(p) \subseteq lost'
         \/ temp'[p] = temp[p] /\ Unsent(p) \subseteq lost',
         watched'[p].hash.edit <= saves, temp'[p].edit <= saves
  PROVE  Remembered'
  <1>1. InHand' = InHand
    BY DEF InHand
  <1>2. ASSUME NEW e \in 1..saves, NEW q \in Names, temp[q].edit = e, e \notin lost \cup InHand,
               Changed(q) \/ \E i \in 1..Len(events) : events[i].path = q
        PROVE  \/ e \in lost' \cup InHand'
               \/ temp'[q].edit = e /\ (Changed(q)' \/ \E i \in 1..Len(events') : events'[i].path = q)
    <2>1. CASE q # p
      BY <1>2, <2>1 DEF Changed
    <2>2. CASE q = p
      <3>1. e \in Unread(p)
        BY <1>2, <2>2 DEF Unread
      <3>2. CASE Unread(p) \subseteq lost'
        BY <3>1, <3>2
      <3>3. CASE temp'[p] = temp[p] /\ Unsent(p) \subseteq lost'
        <4>1. CASE Changed(q)
          BY <2>2, <3>1, <3>3, <4>1 DEF Unsent, Changed
        <4>2. CASE ~Changed(q)
          BY <1>2, <2>2, <3>3, <4>2
        <4> QED BY <4>1, <4>2
      <3> QED BY <3>2, <3>3
    <2> QED BY <2>1, <2>2
  <1>3. EditNotForgotten'
    BY <1>1, <1>2, EditsKept DEF IInv, PaperSound, Remembered
  <1>4. \A q \in Names : watched'[q].hash.edit <= saves' /\ temp'[q].edit <= saves'
    BY DEF IInv, PaperSound, Remembered
  <1> QED BY <1>3, <1>4 DEF Remembered

LEMMA UnwatchSound ==
  ASSUME IInv, NEW n \in Openings, Unwatch(n)
  PROVE  IInv'
  <1> PICK pc : pc = IF job[n].pc = "armed" THEN "late" ELSE "delete"
    OBVIOUS
  <1>1. /\ job[n].pc \in {"unwatch", "armed"} /\ Goto(n, pc)
        /\ pc \in Steps \ {"new", "pin", "leaving"} /\ pc \in Holding /\ pc # "done"
        /\ job[n].pc = "armed" => pc = "late"
        /\ UNCHANGED <<desktop, nameOf, page, opens, screen, timers, temp, windows, events,
                       handlers, stored, saves, leaked, stray>>
    BY DEF Unwatch, Steps, Holding
  <1> PICK p \in Names : p = PathOf(n)
    BY <1>1, KnownPath
  <1>2. watched' = [watched EXCEPT ![p] = Unwatched] /\ lost' = lost \cup Unsent(p)
    BY DEF Unwatch
  <1>3. Unwatched \in WatchType /\ ~Unwatched.on /\ Unwatched.hash.edit = 0
    BY OpenFileAssumption DEF Unwatched, WatchType, Absent, Contents
  <1>4. JobsSound'
    BY <1>1, JobGoesOn DEF IInv
  <1>5. /\ \A k \in Openings \ {n} : job'[k] = job[k]
        /\ job'[n] = [job[n] EXCEPT !.pc = pc] /\ job'[n].pc = pc
    BY <1>1, GoneTo DEF IInv, JobsSound, JobTypes
  <1>6. job'[n].kind = job[n].kind /\ job'[n].file = job[n].file
    BY <1>5 DEF IInv, JobsSound, JobTypes, JobType
  <1>7. CopyIsTimed'
    BY <1>1, <1>5, <1>6, CopiesKept DEF IInv
  <1>8. TimersKept'
    BY <1>1, <1>5, <1>6, TimersStay DEF Timed, Holding, timers
  <1>9. Unsent(p) \subseteq 1..MaxSaves
    BY OpenFileAssumption DEF Unsent, Unread, IInv, PaperSound, PaperTypes, Contents
  <1>10. PaperTypes'
    BY <1>1, <1>2, <1>3, <1>9 DEF IInv, PaperSound, PaperTypes, timers
  <1>11. WellNamed'
    BY <1>1, <1>2, <1>3 DEF IInv, PaperSound, PaperTypes, WellNamed, Named
  <1>12. Remembered'
    <2>1. saves \in Nat
      BY DEF IInv, PaperSound, PaperTypes
    <2>2. watched'[p].hash.edit <= saves /\ \A q \in Names \ {p} : watched'[q] = watched[q]
      BY <1>2, <1>3, <2>1 DEF IInv, PaperSound, PaperTypes
    <2>3. /\ temp' \in [Names -> Contents] /\ watched' \in [Names -> WatchType]
          /\ temp' = temp /\ lost \subseteq lost' /\ lost' \subseteq 1..MaxSaves
          /\ Unsent(p) \subseteq lost' /\ temp[p].edit <= saves
      BY <1>1, <1>2, <1>10 DEF PaperTypes, IInv, PaperSound, Remembered
    <2> QED BY <1>1, <2>2, <2>3, PathLeft
  <1>13. PageTypes'
    BY <1>1 DEF IInv, PageTypes
  <1> QED BY <1>4, <1>7, <1>8, <1>10, <1>11, <1>12, <1>13 DEF IInv, PaperSound

(* A step of an opening that holds a copy. *)
LEMMA HolderGoesOn ==
  ASSUME IInv, NEW n \in Openings, job[n].pc \in Holding, NEW pc \in Holding \cup {"done"},
         Goto(n, pc), UNCHANGED <<desktop, page, leaked, opens, screen>>
  PROVE  /\ JobsSound' /\ PageTypes'
         /\ \A k \in Openings \ {n} : job'[k] = job[k]
         /\ job'[n].pc = pc
         /\ pc # "done" => job'[n].kind = job[n].kind /\ job'[n].file = job[n].file
  <1>1. pc \in Steps \ {"new", "pin", "leaving"} /\ job[n].pc \notin {"new", "pin", "done"}
    BY DEF Steps, Holding
  <1>2. JobsSound'
    BY <1>1, JobGoesOn DEF IInv
  <1>3. /\ \A k \in Openings \ {n} : job'[k] = job[k]
        /\ job'[n].pc = pc
        /\ pc # "done" => job'[n] = [job[n] EXCEPT !.pc = pc]
    BY <1>1, GoneTo DEF IInv, JobsSound, JobTypes
  <1> QED BY <1>2, <1>3 DEF IInv, JobsSound, JobTypes, JobType, PageTypes

LEMMA UnreadType ==
  ASSUME IInv, NEW p \in Names
  PROVE  Unread(p) \subseteq 1..MaxSaves /\ Unsent(p) \subseteq Unread(p) /\ saves \in Nat
  BY OpenFileAssumption DEF Unread, Unsent, IInv, PaperSound, PaperTypes, Contents

LEMMA DeleteSound ==
  ASSUME IInv, NEW n \in Openings, Delete(n)
  PROVE  IInv'
  <1> PICK pc : pc = IF job[n].pc = "late" THEN "done" ELSE "write"
    OBVIOUS
  <1>1. /\ job[n].pc \in {"delete", "late"} /\ job[n].pc \in Holding /\ Goto(n, pc)
        /\ pc \in Holding \cup {"done"} /\ (job[n].pc = "late" => pc = "done")
        /\ pc # "done" => pc \in Holding
        /\ UNCHANGED <<desktop, nameOf, page, opens, screen, watched, windows, events, handlers,
                       stored, saves, leaked>>
    BY DEF Delete, Holding
  <1> PICK p \in Names : p = PathOf(n)
    BY <1>1, KnownPath
  <1>2. \/ temp' = [temp EXCEPT ![p] = Absent] /\ lost' = lost \cup Unread(p) /\ stray' = stray
        \/ stray' = stray \cup {p} /\ UNCHANGED <<temp, lost>>
    BY DEF Delete
  <1> PICK i \in Mounts, f \in Files, zero \in 0..MaxOpens :
           i = job[n].mount /\ f = job[n].file /\ zero = 0
    BY <1>1, KnownPath, OpenFileAssumption DEF IInv, JobsSound, JobTypes, JobType
  <1>3. entry' = [entry EXCEPT ![i][f] = zero] /\ mount' = mount
    BY DEF Delete
  <1>4. /\ JobsSound' /\ PageTypes'
        /\ \A k \in Openings \ {n} : job'[k] = job[k]
        /\ job'[n].pc = pc
        /\ pc # "done" => job'[n].kind = job[n].kind /\ job'[n].file = job[n].file
    BY <1>1, HolderGoesOn
  <1>5. Absent \in Contents
    BY OpenFileAssumption DEF Absent, Contents
  <1>6. PaperTypes'
    <2>1. mount' \in Mounts /\ entry' \in [Mounts -> [Files -> 0..MaxOpens]]
      BY <1>3 DEF IInv, PaperSound, PaperTypes
    <2>2. temp' \in [Names -> Contents] /\ stray' \subseteq Names /\ lost' \subseteq 1..MaxSaves
      <3>1. /\ temp \in [Names -> Contents] /\ stray \subseteq Names /\ lost \subseteq 1..MaxSaves
            /\ Unread(p) \subseteq 1..MaxSaves
        BY UnreadType DEF IInv, PaperSound, PaperTypes
      <3>2. CASE temp' = [temp EXCEPT ![p] = Absent] /\ lost' = lost \cup Unread(p) /\ stray' = stray
        BY <1>5, <3>1, <3>2
      <3>3. CASE stray' = stray \cup {p} /\ UNCHANGED <<temp, lost>>
        BY <3>1, <3>3
      <3> QED BY <1>2, <3>2, <3>3
    <2> QED BY <1>1, <2>1, <2>2 DEF IInv, PaperSound, PaperTypes
  <1>7. temp' \in [Names -> Contents] /\ \A q \in Names \ {p} : temp'[q] = temp[q]
    BY <1>2, <1>6 DEF IInv, PaperSound, PaperTypes
  <1>8. WellNamed'
    BY <1>1, <1>2 DEF IInv, PaperSound, PaperTypes, WellNamed, Named
  <1>9. Remembered'
    <2>1. CASE temp' = [temp EXCEPT ![p] = Absent] /\ lost' = lost \cup Unread(p)
      <3>1. Unread(p) \subseteq lost' /\ lost' \subseteq 1..MaxSaves /\ watched' \in [Names -> WatchType]
        BY <1>1, <2>1, <1>6 DEF PaperTypes
      <3>2. temp'[p].edit = 0 /\ watched'[p].hash.edit <= saves /\ temp'[p].edit <= saves
        BY <1>1, <2>1, UnreadType DEF Absent, IInv, PaperSound, PaperTypes, Remembered
      <3>3. lost \subseteq lost' /\ UNCHANGED <<nameOf, handlers, stored, events, saves, watched>>
        BY <1>1, <2>1
      <3> QED BY <1>7, <3>1, <3>2, <3>3, PathLeft
    <2>2. CASE UNCHANGED <<temp, lost>>
      BY <1>1, <2>2 DEF IInv, PaperSound, Remembered, EditNotForgotten, InHand, Changed
    <2> QED BY <1>2, <2>1, <2>2
  <1>10. TimersKept'
    <2>1. \A k \in Mounts, g \in Files : entry'[k][g] \in {0, entry[k][g]}
      BY <1>3 DEF IInv, PaperSound, PaperTypes
    <2>2. ASSUME NEW k \in Openings, job[k].pc \in Timed
          PROVE  job'[k] = job[k] \/ job'[k].pc = "done"
      BY <1>1, <1>4, <2>2 DEF Timed
    <2> QED BY <2>1, <2>2, TimersStay DEF Timed
  <1>11. CopyIsTimed'
    <2>1. CASE temp' = [temp EXCEPT ![p] = Absent] /\ stray' = stray
      <3>1. ASSUME NEW q \in Names, temp'[q] # Absent, q \notin stray'
            PROVE  \E k \in Openings : job'[k].pc \in Holding /\ job'[k].kind = "open" /\
                     nameOf'[job'[k].file] = q
        <4>1. q # p /\ temp[q] # Absent /\ q \notin stray
          BY <2>1, <3>1 DEF IInv, PaperSound, PaperTypes
        <4>2. PICK k \in Openings : job[k].pc \in Holding /\ job[k].kind = "open" /\ PathOf(k) = q
          BY <4>1 DEF IInv, CopyIsTimed
        <4> QED BY <1>1, <1>4, <4>1, <4>2 DEF PathOf, CopyOf
      <3> QED BY <3>1 DEF CopyIsTimed, PathOf, CopyOf
    <2>2. CASE stray' = stray \cup {p} /\ UNCHANGED temp
      BY <1>1, <1>4, <2>2, CopiesKept DEF IInv
    <2> QED BY <1>2, <2>1, <2>2
  <1> QED BY <1>4, <1>6, <1>8, <1>9, <1>10, <1>11 DEF IInv, PaperSound

LEMMA WriteSound ==
  ASSUME IInv, NEW n \in Openings, Write(n)
  PROVE  IInv'
  <1> PICK pc : pc = IF job[n].kind = "open" THEN "watch" ELSE "start"
    OBVIOUS
  <1>1. /\ job[n].pc = "write" /\ job[n].pc \in Holding /\ Goto(n, pc)
        /\ pc \in Holding \cup {"done"} /\ pc \in Holding /\ pc # "done" /\ job[n].file \in Files
        /\ UNCHANGED <<desktop, nameOf, page, opens, screen, timers, windows, events, handlers,
                       stored, saves, leaked>>
    BY KnownPath DEF Write, Holding
  <1> PICK p \in Names : p = PathOf(n) /\ p = nameOf[job[n].file]
    BY <1>1, KnownPath
  <1>c. [of |-> job[n].file, edit |-> 0] \in Contents
    BY <1>1, OpenFileAssumption DEF Contents
  <1> PICK c \in Contents : c = [of |-> job[n].file, edit |-> 0]
    BY <1>c
  <1>2. /\ temp' = [temp EXCEPT ![p] = c] /\ lost' = lost \cup Unread(p)
        /\ stray' = IF job[n].kind = "open" THEN stray \ {p} ELSE stray \cup {p}
        /\ watched' = [watched EXCEPT ![p] = Touched(watched[p])]
    BY DEF Write
  <1>3. /\ Touched(watched[p]) \in WatchType
        /\ Touched(watched[p]).on = watched[p].on /\ Touched(watched[p]).file = watched[p].file
        /\ Touched(watched[p]).hash = watched[p].hash
    BY DEF Touched, WatchType, IInv, PaperSound, PaperTypes
  <1>4. /\ JobsSound' /\ PageTypes'
        /\ \A k \in Openings \ {n} : job'[k] = job[k]
        /\ job'[n].pc = pc
        /\ job'[n].kind = job[n].kind /\ job'[n].file = job[n].file
    BY <1>1, HolderGoesOn
  <1>5. PaperTypes'
    BY <1>1, <1>2, <1>3, UnreadType DEF IInv, PaperSound, PaperTypes, timers
  <1>6. WellNamed'
    BY <1>1, <1>2, <1>3 DEF IInv, PaperSound, PaperTypes, WellNamed, Named
  <1>7. Remembered'
    <2>1. /\ temp' \in [Names -> Contents] /\ watched' \in [Names -> WatchType]
          /\ lost \subseteq lost' /\ lost' \subseteq 1..MaxSaves /\ Unread(p) \subseteq lost'
          /\ \A q \in Names \ {p} : temp'[q] = temp[q] /\ watched'[q] = watched[q]
      BY <1>2, <1>5 DEF PaperTypes, IInv, PaperSound
    <2>2. watched'[p].hash.edit <= saves /\ temp'[p].edit <= saves
      BY <1>2, <1>3, UnreadType DEF IInv, PaperSound, PaperTypes, Remembered
    <2> QED BY <1>1, <2>1, <2>2, PathLeft
  <1>8. TimersKept'
    BY <1>1, <1>4, TimersStayBut DEF Timed
  <1>9. CopyIsTimed'
    <2>1. ASSUME NEW q \in Names, temp'[q] # Absent, q \notin stray'
          PROVE  \E k \in Openings : job'[k].pc \in Holding /\ job'[k].kind = "open" /\
                   nameOf'[job'[k].file] = q
      <3>1. CASE q = p
        BY <1>1, <1>2, <1>4, <2>1, <3>1
      <3>2. CASE q # p
        <4>1. temp[q] # Absent /\ q \notin stray
          BY <1>2, <2>1, <3>2 DEF IInv, PaperSound, PaperTypes
        <4>2. PICK k \in Openings : job[k].pc \in Holding /\ job[k].kind = "open" /\ PathOf(k) = q
          BY <4>1 DEF IInv, CopyIsTimed
        <4> QED BY <1>1, <1>4, <3>2, <4>2 DEF PathOf, CopyOf
      <3> QED BY <3>1, <3>2
    <2> QED BY <2>1 DEF CopyIsTimed, PathOf, CopyOf
  <1> QED BY <1>4, <1>5, <1>6, <1>7, <1>8, <1>9 DEF IInv, PaperSound

LEMMA WatchSound ==
  ASSUME IInv, NEW n \in Openings, Watch(n)
  PROVE  IInv'
  <1>1. /\ job[n].pc = "watch" /\ job[n].pc \in Holding /\ Goto(n, "start")
        /\ "start" \in Holding \cup {"done"} /\ "start" \in Holding /\ job[n].file \in Files
        /\ UNCHANGED <<desktop, nameOf, page, opens, screen, timers, temp, windows, events,
                       handlers, stored, saves, leaked, stray>>
    BY KnownPath DEF Watch, Holding
  <1> PICK p \in Names : p = PathOf(n) /\ p = nameOf[job[n].file]
    BY <1>1, KnownPath
  <1> PICK w : w = [on |-> TRUE, file |-> job[n].file, hash |-> temp[p], touched |-> TRUE]
    OBVIOUS
  <1>2. watched' = [watched EXCEPT ![p] = w] /\ lost' = lost \cup Unsent(p)
    BY DEF Watch
  <1>3. w \in WatchType /\ w.file = job[n].file /\ w.hash = temp[p]
    BY <1>1 DEF WatchType, IInv, PaperSound, PaperTypes
  <1>4. /\ JobsSound' /\ PageTypes'
        /\ \A k \in Openings \ {n} : job'[k] = job[k]
        /\ job'[n].pc = "start"
        /\ job'[n].kind = job[n].kind /\ job'[n].file = job[n].file
    BY <1>1, HolderGoesOn
  <1>5. PaperTypes'
    BY <1>1, <1>2, <1>3, UnreadType DEF IInv, PaperSound, PaperTypes, timers
  <1>6. WellNamed'
    BY <1>1, <1>2, <1>3 DEF IInv, PaperSound, PaperTypes, WellNamed, Named
  <1>7. temp[p].edit <= saves
    BY DEF IInv, PaperSound, Remembered
  <1>8. Remembered'
    <2>1. /\ temp' \in [Names -> Contents] /\ watched' \in [Names -> WatchType]
          /\ lost \subseteq lost' /\ lost' \subseteq 1..MaxSaves /\ Unsent(p) \subseteq lost'
          /\ \A q \in Names \ {p} : temp'[q] = temp[q] /\ watched'[q] = watched[q]
      BY <1>1, <1>2, <1>5 DEF PaperTypes, IInv, PaperSound
    <2>2. watched'[p].hash.edit <= saves /\ temp'[p].edit <= saves
      BY <1>1, <1>2, <1>3, <1>7 DEF IInv, PaperSound, PaperTypes
    <2> QED BY <1>1, <2>1, <2>2, PathLeft
  <1>9. TimersKept'
    BY <1>1, <1>4, TimersStayBut DEF Timed
  <1>10. CopyIsTimed'
    BY <1>1, <1>4, CopiesKept DEF IInv
  <1> QED BY <1>4, <1>5, <1>6, <1>8, <1>9, <1>10 DEF IInv, PaperSound

LEMMA StartSound ==
  ASSUME IInv, NEW n \in Openings, Start(n)
  PROVE  IInv'
  <1> PICK pc : pc = IF job[n].kind = "open" THEN "armed" ELSE "done"
    OBVIOUS
  <1>1. /\ job[n].pc = "start" /\ job[n].pc \in Holding /\ Goto(n, pc)
        /\ pc \in Holding \cup {"done"} /\ job[n].file \in Files
        /\ job[n].kind = "open" <=> pc = "armed"
        /\ pc # "armed" => pc = "done"
        /\ UNCHANGED <<desktop, nameOf, page, opens, screen, temp, watched, events, handlers,
                       stored, saves, lost, leaked, stray>>
    BY KnownPath DEF Start, Holding
  <1> PICK i \in Mounts, g \in Files : i = job[n].mount /\ g = job[n].file
    BY <1>1 DEF IInv, JobsSound, JobTypes, JobType
  <1>2. /\ windows' = windows \cup {job[n].file}
        /\ entry' = IF job[n].kind = "open" THEN [entry EXCEPT ![i][g] = n] ELSE entry
        /\ mount' = mount
    BY DEF Start
  <1>3. /\ JobsSound' /\ PageTypes'
        /\ \A k \in Openings \ {n} : job'[k] = job[k]
        /\ job'[n].pc = pc
        /\ pc # "done" => job'[n].kind = job[n].kind /\ job'[n].file = job[n].file
    BY <1>1, HolderGoesOn
  <1>4. entry' \in [Mounts -> [Files -> 0..MaxOpens]]
    <2>1. entry \in [Mounts -> [Files -> 0..MaxOpens]] /\ n \in 0..MaxOpens
      BY OpenFileAssumption DEF IInv, PaperSound, PaperTypes, Openings
    <2>2. CASE job[n].kind = "open"
      BY <1>2, <2>1, <2>2
    <2>3. CASE job[n].kind # "open"
      BY <1>2, <2>1, <2>3
    <2> QED BY <2>2, <2>3
  <1>5. PaperTypes'
    BY <1>1, <1>2, <1>4 DEF IInv, PaperSound, PaperTypes
  <1>6. WellNamed' /\ Remembered'
    BY <1>1 DEF IInv, PaperSound, WellNamed, Named, Remembered, EditNotForgotten, InHand, Changed
  <1>7. TimersKept'
    <2>1. ASSUME NEW k \in Mounts, NEW f \in Files, entry'[k][f] # 0
          PROVE  /\ job'[entry'[k][f]].pc \in Timed
                 /\ job'[entry'[k][f]].pc # "done" => job'[entry'[k][f]].file = f
      <3>1. CASE job[n].kind = "open" /\ k = i /\ f = g
        <4>1. entry'[k][f] = n
          BY <1>2, <3>1 DEF IInv, PaperSound, PaperTypes
        <4> QED BY <1>1, <1>3, <3>1, <4>1 DEF Timed
      <3>2. CASE ~(job[n].kind = "open" /\ k = i /\ f = g)
        <4>1. entry'[k][f] = entry[k][f]
          <5>1. CASE job[n].kind = "open"
            BY <1>2, <3>2, <5>1 DEF IInv, PaperSound, PaperTypes
          <5>2. CASE job[n].kind # "open"
            BY <1>2, <5>2
          <5> QED BY <5>1, <5>2
        <4>2. entry[k][f] \in Openings \ {n}
          <5>1. entry[k][f] \in 0..MaxOpens /\ entry[k][f] # 0
            BY <2>1, <4>1 DEF IInv, PaperSound, PaperTypes
          <5>2. job[entry[k][f]].pc \in Timed
            BY <5>1 DEF IInv, TimersKept
          <5>3. entry[k][f] # n
            BY <1>1, <5>2 DEF Timed
          <5> QED BY <5>1, <5>3, OpenFileAssumption DEF Openings
        <4> QED BY <1>3, <2>1, <4>1, <4>2 DEF IInv, TimersKept
      <3> QED BY <3>1, <3>2
    <2> QED BY <2>1 DEF TimersKept
  <1>8. CopyIsTimed'
    <2>1. ASSUME NEW k \in Openings, job[k].pc \in Holding, job[k].kind = "open"
          PROVE  job'[k].pc \in Holding /\ job'[k].kind = "open" /\ job'[k].file = job[k].file
      BY <1>1, <1>3, <2>1 DEF Holding
    <2> QED BY <1>1, <2>1, PathsStay DEF IInv
  <1> QED BY <1>3, <1>5, <1>6, <1>7, <1>8 DEF IInv, PaperSound

-----------------------------------------------------------------------------
(* Editing, watching and uploading *)

(* The jobs and the screen do not know of the program and the listener. *)
LEMMA Bystanders ==
  ASSUME IInv, UNCHANGED <<desktop, page, job, opens, screen, timers, leaked>>
  PROVE  PageTypes' /\ JobsSound' /\ TimersKept'
  <1>1. UNCHANGED <<pin, preview, revoked, displaced>>
    BY DEF screen
  <1>2. PageTypes' /\ TimersKept'
    BY DEF IInv, PageTypes, TimersKept, timers
  <1> QED BY <1>1, <1>2, JobsStay DEF IInv

LEMMA CopiesStay ==
  ASSUME IInv, UNCHANGED <<nameOf, temp, job, stray>>
  PROVE  CopyIsTimed'
  BY DEF IInv, CopyIsTimed, PathOf, CopyOf

LEMMA SaveSound ==
  ASSUME IInv, NEW f \in Files, Save(f)
  PROVE  IInv'
  <1> PICK e \in 1..MaxSaves : e = saves + 1
    BY OpenFileAssumption DEF Save, IInv, PaperSound, PaperTypes
  <1> PICK p \in Names : p = nameOf[f]
    BY DEF IInv, PaperSound, PaperTypes
  <1>1. [of |-> f, edit |-> e] \in Contents
    BY OpenFileAssumption DEF Contents
  <1> PICK c \in Contents : c = [of |-> f, edit |-> e]
    BY <1>1
  <1> PICK w : w = Touched(watched[p])
    OBVIOUS
  <1>2. /\ saves' = e /\ temp' = [temp EXCEPT ![p] = c]
        /\ watched' = [watched EXCEPT ![p] = w]
        /\ lost' = lost \cup Unread(p) \cup IF watched[p].on THEN {} ELSE {e}
        /\ stray' = IF temp[p] = Absent THEN stray \cup {p} ELSE stray
        /\ UNCHANGED <<desktop, nameOf, page, job, opens, screen, timers, windows, events, handlers,
                       stored, leaked>>
    BY DEF Save, CopyOf
  <1>3. /\ w \in WatchType /\ w.on = watched[p].on /\ w.touched = w.on
        /\ w.file = watched[p].file /\ w.hash = watched[p].hash
    BY DEF Touched, WatchType, IInv, PaperSound, PaperTypes
  <1>4. PageTypes' /\ JobsSound' /\ TimersKept'
    BY <1>2, Bystanders
  <1>5. PaperTypes'
    <2>1. lost' \subseteq 1..MaxSaves
      BY <1>2, UnreadType DEF IInv, PaperSound, PaperTypes
    <2>2. stray' \subseteq Names
      BY <1>2 DEF IInv, PaperSound, PaperTypes
    <2>3. saves' \in 0..MaxSaves
      BY <1>2
    <2> QED BY <1>2, <1>3, <2>1, <2>2, <2>3 DEF IInv, PaperSound, PaperTypes, timers
  <1>6. WellNamed'
    BY <1>2, <1>3 DEF IInv, PaperSound, PaperTypes, WellNamed, Named
  <1>7. \A q \in Names : watched'[q].hash.edit <= saves' /\ temp'[q].edit <= saves'
    <2>1. \A q \in Names : watched'[q].hash = watched[q].hash /\ temp'[q] \in {temp[q], c}
      BY <1>2, <1>3 DEF IInv, PaperSound, PaperTypes
    <2>2. ASSUME NEW q \in Names
          PROVE  /\ watched[q].hash.edit <= saves /\ temp[q].edit <= saves /\ saves \in Nat
                 /\ watched[q].hash.edit \in Nat /\ temp[q].edit \in Nat
      BY UnreadType DEF IInv, PaperSound, PaperTypes, Remembered, Contents, WatchType
    <2> QED BY <1>2, <2>1, <2>2
  <1>8. EditNotForgotten'
    <2>1. ASSUME NEW d \in 1..saves'
          PROVE  d \in lost' \cup InHand' \/
                   \E q \in Names : temp'[q].edit = d /\
                     (Changed(q)' \/ \E i \in 1..Len(events') : events'[i].path = q)
      <3>1. InHand' = InHand
        BY <1>2 DEF InHand
      <3>2. CASE d = e
        <4>1. CASE watched[p].on
          <5>1. temp'[p].edit = e /\ watched'[p].on /\ watched'[p].touched
            BY <1>2, <1>3, <4>1 DEF IInv, PaperSound, PaperTypes
          <5>2. watched'[p].hash.edit <= saves
            BY <1>2, <1>3 DEF IInv, PaperSound, PaperTypes, Remembered
          <5>3. temp'[p] # watched'[p].hash
            BY <5>1, <5>2, UnreadType
          <5> QED BY <3>2, <5>1, <5>3 DEF Changed
        <4>2. CASE ~watched[p].on
          BY <1>2, <3>2, <4>2
        <4> QED BY <4>1, <4>2
      <3>3. CASE d \in 1..saves
        <4>1. CASE d \in lost \cup InHand
          BY <1>2, <3>1, <4>1
        <4>2. CASE d \notin lost \cup InHand
          <5>1. PICK q \in Names : temp[q].edit = d /\
                   (Changed(q) \/ \E i \in 1..Len(events) : events[i].path = q)
            BY <3>3, <4>2 DEF IInv, PaperSound, Remembered, EditNotForgotten
          <5>2. CASE q = p
            BY <1>2, <3>3, <4>2, <5>1, <5>2 DEF Unread
          <5>3. CASE q # p
            <6>1. temp'[q] = temp[q] /\ watched'[q] = watched[q]
              BY <1>2, <5>3 DEF IInv, PaperSound, PaperTypes
            <6> QED BY <1>2, <5>1, <6>1 DEF Changed
          <5> QED BY <5>2, <5>3
        <4> QED BY <4>1, <4>2
      <3> QED BY <1>2, <2>1, <3>2, <3>3, UnreadType
    <2> QED BY <2>1 DEF EditNotForgotten
  <1>9. CopyIsTimed'
    <2>1. ASSUME NEW q \in Names, temp'[q] # Absent, q \notin stray'
          PROVE  temp[q] # Absent /\ q \notin stray
      BY <1>2, <2>1 DEF IInv, PaperSound, PaperTypes
    <2> QED BY <1>2, <2>1 DEF IInv, CopyIsTimed, PathOf, CopyOf
  <1> QED BY <1>4, <1>5, <1>6, <1>7, <1>8, <1>9 DEF IInv, PaperSound, Remembered

LEMMA ScanSound ==
  ASSUME IInv, NEW p \in Names, Scan(p)
  PROVE  IInv'
  <1> USE DEF WatchType
  <1> DEFINE w == [[watched[p] EXCEPT !.hash = temp[p]] EXCEPT !.touched = FALSE]
  <1> DEFINE ev == [file |-> watched[p].file, path |-> p]
  <1>1. /\ Changed(p) /\ watched' = [watched EXCEPT ![p] = w] /\ events' = Append(events, ev)
        /\ UNCHANGED <<desktop, nameOf, page, job, opens, screen, timers, temp, windows, handlers,
                       stored, saves, lost, leaked, stray>>
    BY DEF Scan, IInv, PaperSound, PaperTypes
  <1>2. /\ w \in WatchType /\ w.on = watched[p].on /\ w.file = watched[p].file
        /\ w.hash = temp[p]
    BY DEF IInv, PaperSound, PaperTypes
  <1>3. /\ ev \in [file : Files, path : Names] /\ nameOf[ev.file] = ev.path /\ ev.path = p
    BY <1>1 DEF Changed, IInv, PaperSound, PaperTypes, WellNamed
  <1> HIDE DEF w, ev
  <1>4. /\ events' \in Seq([file : Files, path : Names]) /\ Len(events') = Len(events) + 1
        /\ \A i \in 1..Len(events) : events'[i] = events[i]
        /\ events'[Len(events) + 1] = ev /\ Len(events) \in Nat
    BY <1>1, <1>3, AppendProperties, LenProperties DEF IInv, PaperSound, PaperTypes
  <1>5. PageTypes' /\ JobsSound' /\ TimersKept' /\ CopyIsTimed'
    BY <1>1, Bystanders, CopiesStay
  <1>6. PaperTypes'
    BY <1>1, <1>2, <1>4 DEF IInv, PaperSound, PaperTypes, timers
  <1>7. WellNamed'
    <2>1. \A i \in 1..Len(events') : nameOf'[events'[i].file] = events'[i].path
      BY <1>1, <1>3, <1>4 DEF IInv, PaperSound, WellNamed
    <2> QED BY <1>1, <1>2, <2>1 DEF IInv, PaperSound, PaperTypes, WellNamed, Named
  <1>8. Remembered'
    <2>1. \A q \in Names : watched'[q].hash.edit <= saves' /\ temp'[q].edit <= saves'
      BY <1>1, <1>2 DEF IInv, PaperSound, PaperTypes, Remembered
    <2>2. InHand' = InHand
      BY <1>1 DEF InHand
    <2>3. ASSUME NEW e \in 1..saves, NEW q \in Names, temp[q].edit = e,
                 Changed(q) \/ \E i \in 1..Len(events) : events[i].path = q
          PROVE  temp'[q].edit = e /\ (Changed(q)' \/ \E i \in 1..Len(events') : events'[i].path = q)
      <3>1. CASE q = p
        BY <1>1, <1>3, <1>4, <2>3, <3>1
      <3>2. CASE q # p /\ Changed(q)
        BY <1>1, <2>3, <3>2 DEF Changed, IInv, PaperSound, PaperTypes
      <3>3. CASE \E i \in 1..Len(events) : events[i].path = q
        BY <1>1, <1>4, <2>3, <3>3
      <3> QED BY <2>3, <3>1, <3>2, <3>3
    <2>4. EditNotForgotten'
      BY <1>1, <2>2, <2>3, EditsKept DEF IInv, PaperSound, Remembered
    <2> QED BY <2>1, <2>4 DEF Remembered
  <1> QED BY <1>5, <1>6, <1>7, <1>8 DEF IInv, PaperSound

LEMMA EmitSound ==
  ASSUME IInv, Emit
  PROVE  IInv'
  <1>1. /\ events # <<>> /\ events' = Tail(events)
        /\ UNCHANGED <<desktop, nameOf, page, job, opens, screen, timers, temp, watched, windows,
                       stored, saves, leaked, stray>>
    BY DEF Emit
  <1>2. /\ events \in Seq([file : Files, path : Names]) /\ Len(events) \in Nat /\ Len(events) # 0
        /\ events' \in Seq([file : Files, path : Names]) /\ Len(events') = Len(events) - 1
        /\ \A i \in 1..Len(events') : events'[i] = events[i + 1]
        /\ Head(events) = events[1] /\ Head(events) \in [file : Files, path : Names]
    <2> PICK E : E = [file : Files, path : Names]
      OBVIOUS
    <2>1. events \in Seq(E) /\ events # <<>> /\ events' = Tail(events)
      BY <1>1 DEF IInv, PaperSound, PaperTypes
    <2>2. /\ Head(events) \in E /\ Tail(events) \in Seq(E) /\ Len(Tail(events)) = Len(events) - 1
          /\ \A i \in 1..Len(Tail(events)) : Tail(events)[i] = events[i + 1]
      BY <2>1, HeadTailProperties
    <2>3. Len(events) \in Nat /\ Len(events) # 0
      BY <2>1, LenProperties, EmptySeq
    <2>4. Head(events) = events[1]
      BY <2>1
    <2> QED BY <2>1, <2>2, <2>3, <2>4
  <1> PICK e \in [file : Files, path : Names] : e = Head(events)
    BY <1>2
  <1> PICK p \in Names : p = e.path
    OBVIOUS
  <1>3. \/ /\ temp[p] # Absent /\ lost' = lost
           /\ handlers' = handlers \cup {[file |-> e.file, content |-> temp[p]]}
        \/ lost' = lost \cup Unread(p) /\ handlers' = handlers
    BY DEF Emit
  <1>4. PageTypes' /\ JobsSound' /\ TimersKept' /\ CopyIsTimed'
    BY <1>1, Bystanders, CopiesStay
  <1>5. PaperTypes'
    <2>1. handlers' \subseteq [file : Files, content : Contents] /\ lost' \subseteq 1..MaxSaves
      BY <1>3, UnreadType DEF IInv, PaperSound, PaperTypes
    <2> QED BY <1>1, <1>2, <2>1 DEF IInv, PaperSound, PaperTypes, timers
  <1>6. WellNamed'
    <2>1. \A i \in 1..Len(events') : nameOf'[events'[i].file] = events'[i].path
      BY <1>1, <1>2 DEF IInv, PaperSound, WellNamed
    <2>2. nameOf[e.file] = p
      BY <1>2 DEF IInv, PaperSound, WellNamed
    <2>3. ASSUME NEW h \in handlers' \cup stored'
          PROVE  h.content.of \in Files /\ nameOf[h.content.of] = nameOf[h.file]
      <3>1. CASE h \in handlers \cup stored
        BY <3>1 DEF IInv, PaperSound, WellNamed, Named
      <3>2. CASE h = [file |-> e.file, content |-> temp[p]] /\ temp[p] # Absent
        BY <2>2, <3>2 DEF IInv, PaperSound, WellNamed
      <3> QED BY <1>1, <1>3, <2>3, <3>1, <3>2
    <2> QED BY <1>1, <2>1, <2>3 DEF IInv, PaperSound, WellNamed, Named
  <1>7. Remembered'
    <2>1. InHand \subseteq InHand' /\ lost \subseteq lost'
      BY <1>1, <1>3 DEF InHand
    <2>2. Unread(p) \subseteq lost' \cup InHand'
      <3>1. CASE lost' = lost \cup Unread(p)
        BY <3>1
      <3>2. CASE handlers' = handlers \cup {[file |-> e.file, content |-> temp[p]]}
        <4>1. [file |-> e.file, content |-> temp[p]].content.edit \in InHand'
          BY <3>2 DEF InHand
        <4> QED BY <4>1 DEF Unread
      <3> QED BY <1>3, <3>1, <3>2
    <2>3. ASSUME NEW d \in 1..saves, NEW q \in Names, temp[q].edit = d, d \notin lost \cup InHand,
                 Changed(q) \/ \E i \in 1..Len(events) : events[i].path = q
          PROVE  \/ d \in lost' \cup InHand'
                 \/ temp'[q].edit = d /\ (Changed(q)' \/ \E i \in 1..Len(events') : events'[i].path = q)
      <3>1. CASE q = p
        BY <2>2, <2>3, <3>1 DEF Unread
      <3>2. CASE q # p /\ Changed(q)
        BY <1>1, <2>3, <3>2 DEF Changed
      <3>3. CASE q # p /\ \E i \in 1..Len(events) : events[i].path = q
        <4>1. PICK i \in 1..Len(events) : events[i].path = q
          BY <3>3
        <4>2. i # 1
          BY <1>2, <3>3, <4>1
        <4>3. i - 1 \in 1..Len(events') /\ events'[i - 1] = events[i]
          BY <1>2, <4>2
        <4> QED BY <1>1, <2>3, <4>1, <4>3
      <3> QED BY <2>3, <3>1, <3>2, <3>3
    <2>4. EditNotForgotten'
      BY <1>1, <2>1, <2>3, EditsKept DEF IInv, PaperSound, Remembered
    <2> QED BY <1>1, <2>4 DEF IInv, PaperSound, Remembered
  <1> QED BY <1>4, <1>5, <1>6, <1>7 DEF IInv, PaperSound

LEMMA UploadSound ==
  ASSUME IInv, NEW h \in handlers, Upload(h)
  PROVE  IInv'
  <1>1. /\ handlers' = handlers \ {h}
        /\ UNCHANGED <<desktop, nameOf, page, job, opens, screen, timers, temp, watched, windows,
                       events, saves, leaked, stray>>
    BY DEF Upload
  <1>2. h \in [file : Files, content : Contents]
    BY DEF IInv, PaperSound, PaperTypes
  <1>3. [file |-> h.file, content |-> h.content] = h
    BY <1>2
  <1>4. \/ stored' = stored \cup {h} /\ lost' = lost
        \/ lost' = lost \cup ({h.content.edit} \ {0}) /\ stored' = stored
    BY <1>3 DEF Upload
  <1>5. PageTypes' /\ JobsSound' /\ TimersKept' /\ CopyIsTimed'
    BY <1>1, Bystanders, CopiesStay
  <1>6. PaperTypes'
    <2>1. h.content.edit \in 0..MaxSaves
      BY <1>2 DEF Contents
    <2>2. lost' \subseteq 1..MaxSaves
      <3>1. lost \subseteq 1..MaxSaves /\ {h.content.edit} \ {0} \subseteq 1..MaxSaves
        BY <2>1, OpenFileAssumption DEF IInv, PaperSound, PaperTypes
      <3> QED BY <1>4, <3>1
    <2> QED BY <1>1, <1>2, <1>4, <2>2 DEF IInv, PaperSound, PaperTypes, timers
  <1>7. WellNamed'
    BY <1>1, <1>4 DEF IInv, PaperSound, WellNamed, Named
  <1>8. Remembered'
    <2>1. ASSUME NEW d \in 1..saves, d \in lost \cup InHand
          PROVE  d \in lost' \cup InHand'
      <3>1. CASE d \in lost
        BY <1>4, <3>1
      <3>2. CASE \E s \in stored : s.content.edit = d
        BY <1>4, <3>2 DEF InHand
      <3>3. CASE \E g \in handlers : g.content.edit = d
        <4>1. PICK g \in handlers : g.content.edit = d
          BY <3>3
        <4>2. CASE g = h
          BY <1>4, <4>1, <4>2 DEF InHand
        <4>3. CASE g # h
          BY <1>1, <4>1, <4>3 DEF InHand
        <4> QED BY <4>2, <4>3
      <3> QED BY <2>1, <3>1, <3>2, <3>3 DEF InHand
    <2>2. EditNotForgotten'
      BY <1>1, <2>1, EditsKept DEF IInv, PaperSound, Remembered, Changed
    <2> QED BY <1>1, <2>2 DEF IInv, PaperSound, Remembered
  <1> QED BY <1>5, <1>6, <1>7, <1>8 DEF IInv, PaperSound

-----------------------------------------------------------------------------
(* The window goes, and perhaps the client *)

LEMMA GoneSound ==
  ASSUME IInv, Reload \/ Quit
  PROVE  IInv'
  <1> USE DEF JobType, WatchType
  <1>1. /\ PagesGone /\ lost \subseteq lost' /\ Dropped \subseteq lost'
        /\ \/ UNCHANGED <<watched, events>> /\ lost' = lost \cup Dropped
           \/ /\ watched' = [p \in Names |-> Unwatched] /\ events' = <<>>
              /\ lost' = lost \cup Dropped \cup UNION {Unread(p) : p \in Names}
    BY DEF Reload, Quit
  <1>2. /\ page' = "files" /\ leaked' = FALSE /\ mount' = opens /\ entry' = NoTimers
        /\ preview' = NoPreview /\ pin' = NoPin /\ revoked' = {} /\ displaced' = {}
        /\ stray' = stray \cup {p \in Names : temp[p] # Absent} /\ handlers' = {}
        /\ UNCHANGED <<desktop, nameOf, opens, temp, windows, stored, saves>>
    BY <1>1 DEF PagesGone
  <1>3. PageTypes'
    BY <1>2 DEF IInv, PageTypes
  <1>4. NoJob \in JobType /\ Finished \in JobType /\ NoJob.pc = "new" /\ Finished.pc = "done"
        /\ NoJob.url = 0 /\ Finished.url = 0
    <2>1. NoJob \in JobType /\ NoJob.pc = "new" /\ NoJob.url = 0
      BY OpenFileAssumption DEF NoJob, Steps, Mounts
    <2> QED BY <2>1 DEF Finished, Steps
  <1>5. ASSUME NEW n \in Openings
        PROVE  /\ job'[n] \in JobType /\ job'[n].pc \in {"new", "done"} /\ job'[n].url = 0
               /\ n > opens => job'[n].pc = "new"
    <2>1. job'[n] = IF n <= opens THEN Finished ELSE NoJob
      BY <1>1 DEF PagesGone
    <2>2. CASE n <= opens
      BY <1>4, <2>1, <2>2 DEF IInv, JobsSound, JobTypes, Openings
    <2>3. CASE ~(n <= opens)
      BY <1>4, <2>1, <2>3
    <2> QED BY <2>2, <2>3
  <1>6. pin' \in [open : BOOLEAN, for : 0..MaxOpens, checks : 0..MaxChecks]
        /\ pin'.for = 0 /\ ~pin'.open
        /\ preview' \in [shown : BOOLEAN, url : 0..MaxOpens] /\ preview'.url = 0 /\ ~preview'.shown
    BY <1>2, OpenFileAssumption DEF NoPin, NoPreview
  <1>7. job' \in [Openings -> JobType]
    <2>1. job' = [n \in Openings |-> IF n <= opens THEN Finished ELSE NoJob]
      BY <1>1 DEF PagesGone
    <2> QED BY <1>4, <2>1
  <1>8. JobsSound'
    <2>1. JobTypes'
      BY <1>2, <1>6, <1>7 DEF IInv, JobsSound, JobTypes
    <2>2. Begun'
      BY <1>2, <1>5 DEF Begun
    <2>3. Waiting'
      BY <1>5, <1>6 DEF Waiting, PromiseKept
    <2>4. UrlsMade'
      BY <1>2, <1>5, <1>6 DEF UrlsMade, PreviewAlive
    <2> QED BY <2>1, <2>2, <2>3, <2>4 DEF JobsSound
  <1>9. ASSUME NEW i \in Mounts, NEW f \in Files
        PROVE  entry'[i][f] = 0
    BY <1>2 DEF NoTimers
  <1>10. TimersKept'
    BY <1>9 DEF TimersKept
  <1>11. CopyIsTimed'
    BY <1>2 DEF CopyIsTimed
  <1>12. /\ Unwatched \in WatchType /\ ~Unwatched.on /\ Unwatched.hash.edit = 0
         /\ <<>> \in Seq([file : Files, path : Names]) /\ Len(<<>>) = 0
    <2>1. Absent \in Contents /\ Absent.edit = 0
      BY OpenFileAssumption DEF Absent, Contents
    <2>2. Unwatched \in WatchType /\ ~Unwatched.on /\ Unwatched.hash.edit = 0
      BY <2>1 DEF Unwatched
    <2> QED BY <2>2, EmptySeq
  <1>13. PaperTypes'
    <2>1. mount' \in Mounts /\ entry' \in [Mounts -> [Files -> 0..MaxOpens]]
      BY <1>2, OpenFileAssumption DEF NoTimers, Mounts, IInv, JobsSound, JobTypes
    <2>2. Dropped \subseteq 1..MaxSaves /\ UNION {Unread(p) : p \in Names} \subseteq 1..MaxSaves
      <3>1. Dropped \subseteq 1..MaxSaves
        BY OpenFileAssumption DEF Dropped, IInv, PaperSound, PaperTypes, Contents
      <3> QED BY <3>1, UnreadType
    <2>3. lost' \subseteq 1..MaxSaves /\ stray' \subseteq Names
      BY <1>1, <1>2, <2>2 DEF IInv, PaperSound, PaperTypes
    <2>4. watched' \in [Names -> WatchType] /\ events' \in Seq([file : Files, path : Names])
      BY <1>1, <1>12 DEF IInv, PaperSound, PaperTypes
    <2> QED BY <1>2, <2>1, <2>3, <2>4 DEF IInv, PaperSound, PaperTypes
  <1>14. WellNamed'
    BY <1>1, <1>2, <1>12 DEF IInv, PaperSound, WellNamed, Named
  <1>15. Remembered'
    <2>1. \A p \in Names : watched'[p].hash.edit <= saves' /\ temp'[p].edit <= saves'
      BY <1>1, <1>2, <1>12 DEF IInv, PaperSound, PaperTypes, Remembered
    <2>2. ASSUME NEW d \in 1..saves, d \in lost \cup InHand
          PROVE  d \in lost' \cup InHand'
      <3>1. CASE d \in lost
        BY <1>1, <3>1
      <3>2. CASE \E s \in stored : s.content.edit = d
        BY <1>2, <3>2 DEF InHand
      <3>3. CASE \E g \in handlers : g.content.edit = d
        BY <1>1, <3>3, UnreadType DEF Dropped
      <3> QED BY <2>2, <3>1, <3>2, <3>3 DEF InHand
    <2>3. ASSUME NEW d \in 1..saves, NEW q \in Names, temp[q].edit = d, d \notin lost \cup InHand,
                 Changed(q) \/ \E i \in 1..Len(events) : events[i].path = q
          PROVE  \/ d \in lost' \cup InHand'
                 \/ temp'[q].edit = d /\ (Changed(q)' \/ \E i \in 1..Len(events') : events'[i].path = q)
      <3>1. CASE UNCHANGED <<watched, events>>
        BY <1>2, <2>3, <3>1 DEF Changed
      <3>2. CASE lost' = lost \cup Dropped \cup UNION {Unread(p) : p \in Names}
        <4>1. d \in Unread(q)
          BY <2>3, UnreadType DEF Unread
        <4> QED BY <3>2, <4>1
      <3> QED BY <1>1, <3>1, <3>2
    <2>4. EditNotForgotten'
      BY <1>2, <2>2, <2>3, EditsKept DEF IInv, PaperSound, Remembered
    <2> QED BY <2>1, <2>4 DEF Remembered
  <1> QED BY <1>3, <1>8, <1>10, <1>11, <1>13, <1>14, <1>15 DEF IInv, PaperSound

-----------------------------------------------------------------------------
LEMMA InitSound == Init => IInv
  <1> SUFFICES ASSUME Init
               PROVE  IInv
    OBVIOUS
  <1>1. NoJob \in JobType /\ NoJob.pc = "new" /\ NoJob.url = 0
    BY OpenFileAssumption DEF NoJob, JobType, Steps, Mounts
  <1>2. NoPin \in [open : BOOLEAN, for : 0..MaxOpens, checks : 0..MaxChecks]
        /\ NoPin.for = 0 /\ ~NoPin.open
    BY OpenFileAssumption DEF NoPin
  <1>3. PageTypes /\ TimersKept /\ CopyIsTimed
    BY DEF Init, PageTypes, TimersKept, CopyIsTimed, NoTimers
  <1>4. JobTypes
    BY <1>1, <1>2, OpenFileAssumption DEF Init, JobTypes, NoPreview
  <1>5. Begun /\ Waiting /\ UrlsMade
    BY <1>1, <1>2 DEF Init, Begun, Waiting, PromiseKept, UrlsMade, PreviewAlive, NoPreview
  <1>6. Absent \in Contents /\ Absent.edit = 0
    BY OpenFileAssumption DEF Absent, Contents
  <1>7. Unwatched \in WatchType /\ ~Unwatched.on /\ Unwatched.hash.edit = 0
    BY <1>6 DEF Unwatched, WatchType
  <1>8. events \in Seq([file : Files, path : Names]) /\ Len(events) = 0
    BY EmptySeq DEF Init
  <1>9. PaperTypes
    BY <1>6, <1>7, <1>8, OpenFileAssumption DEF Init, PaperTypes, NoTimers, Mounts
  <1>10. WellNamed
    BY <1>7, <1>8 DEF Init, WellNamed
  <1>11. Remembered
    BY <1>6, <1>7 DEF Init, Remembered, EditNotForgotten
  <1> QED BY <1>3, <1>4, <1>5, <1>9, <1>10, <1>11 DEF IInv, JobsSound, PaperSound

LEMMA StepSound == IInv /\ [Next]_vars => IInv'
  <1> SUFFICES ASSUME IInv, [Next]_vars
               PROVE  IInv'
    OBVIOUS
  <1>1. CASE Navigate \/ Registered \/ Reload \/ Quit \/ Pinning \/ ClosePreview
    BY <1>1, NavigateSound, AsideSound, GoneSound, SettledSound, ClosePreviewSound DEF Pinning
  <1>2. CASE Emit \/ \E h \in handlers : Upload(h)
    BY <1>2, EmitSound, UploadSound
  <1>3. CASE \/ \E f \in Files : Save(f)
             \/ \E f \in Files, kind \in {"open", "card", "media", "plain"} : Open(f, kind)
    BY <1>3, SaveSound, OpenSound
  <1>4. ASSUME NEW n \in Openings, Downloading(n) \/ Showing(n) \/ Copying(n)
        PROVE  IInv'
    <2>1. CASE Downloading(n)
      BY <2>1, FetchedSound, LatePinSound, FailSound DEF Downloading
    <2>2. CASE Showing(n)
      BY <2>2, ShowTabSound, ShowPreviewSound, DownloadAgainSound DEF Showing
    <2>3. CASE Copying(n)
      BY <2>3, OpenNativeSound, UnwatchSound, DeleteSound, WriteSound, WatchSound, StartSound
      DEF Copying
    <2> QED BY <1>4, <2>1, <2>2, <2>3
  <1>5. ASSUME NEW p \in Names, Scan(p)
        PROVE  IInv'
    BY <1>5, ScanSound
  <1>6. CASE UNCHANGED vars
    <2>1. UNCHANGED <<desktop, nameOf, page, job, opens, screen, timers, paper, leaked, stray>>
      BY <1>6 DEF vars
    <2> QED BY <2>1, Bystanders, CopiesStay, PaperStays DEF IInv, paper, PaperSound, PaperTypes
  <1> QED BY <1>1, <1>2, <1>3, <1>4, <1>5, <1>6 DEF Next

(* The inductive invariant: types; openings that begin in order; the URLs  *)
(* known anywhere are those of ended openings; copies, watches, events and *)
(* versions agree about a name; a timer kept for a file is of that file.   *)
THEOREM OpeningsAreSound == Spec => []IInv
  BY InitSound, StepSound, PTL DEF Spec

(* Types, for any number of files, openings, edits and answers under way.  *)
THEOREM TypesHold == Spec => []TypeOK
  BY OpeningsAreSound, TypesFollow, PTL

(* A version the listener of the dashboard uploads for a file whose name   *)
(* no other has holds an edit of that file, whatever the timers, the other *)
(* openings and the other pages do to the copies.                          *)
THEOREM VersionsAreOfTheirFiles == Spec => []VersionIsOfItsFile
  BY OpeningsAreSound, VersionsFollow, PTL

(* A preview that shows has a URL nobody revoked, for any overlap of       *)
(* openings that revoke the URL they were rendered with (handleOpen).      *)
THEOREM PreviewsStayAlive == Spec => []PreviewAlive
  <1>1. IInv => PreviewAlive
    BY DEF IInv, JobsSound, UrlsMade
  <1> QED BY <1>1, OpeningsAreSound, PTL

(* A decrypted copy has a timer, or an opening under way that sets one,    *)
(* over any leaving of the dashboard and coming back; except for the       *)
(* copies of other pages, of calls that failed, those on the disk when the *)
(* window was reloaded or the client ended, and those saved again after    *)
(* they were deleted (openWithNativeApp).                                  *)
THEOREM CopiesAreTimed == Spec => []CopyIsTimed
  <1>1. IInv => CopyIsTimed
    BY DEF IInv
  <1> QED BY <1>1, OpeningsAreSound, PTL

(* What a program saved is uploaded, in the listener's hands or still to   *)
(* be read from the copy, or was lost for one of the reasons the property  *)
(* names, a reload and the end of the client among them (FileWatcher, the  *)
(* listener of the dashboard).                                             *)
THEOREM NoEditIsForgotten == Spec => []EditNotForgotten
  <1>1. IInv => EditNotForgotten
    BY DEF IInv, PaperSound, Remembered
  <1> QED BY <1>1, OpeningsAreSound, PTL

(* Who waits for the PIN has the dialog, unless another opening took it or *)
(* its page was left (usePinVerification).                                 *)
THEOREM PromisesAreKept == Spec => []PromiseKept
  <1>1. IInv => PromiseKept
    BY DEF IInv, JobsSound, Waiting
  <1> QED BY <1>1, OpeningsAreSound, PTL
=============================================================================
