------------------------------ MODULE OpenFile ------------------------------
(***************************************************************************)
(* Opening files: the download, the dialog for the PIN of a shared file,   *)
(* the preview in the page and, in the desktop client, the decrypted copy  *)
(* that another program edits and that becomes a new version each time it  *)
(* is saved.  The copy is named like the file, in one directory.  A thread *)
(* of the client looks for saved copies, the listener of the dashboard     *)
(* uploads them, and half an hour after the opening the copy is deleted.   *)
(*                                                                         *)
(* An opening is known by its number; what a page does for it is a job.    *)
(* An edit, that is what a program saves in a copy, has a number too.      *)
(* Rust answers the page in the same step.                                 *)
(***************************************************************************)
EXTENDS Naturals, Sequences, FiniteSets

CONSTANTS Files, Names, None,
          Guarded,             \* the files shared with the user on condition of a PIN
          MaxOpens, MaxSaves,  \* bounds: openings, edits
          MaxActs,             \* bound: the two together
          MaxChecks            \* bound: answers about a PIN under way

ASSUME OpenFileAssumption ==
  /\ None \notin Files \cup Names /\ Guarded \subseteq Files
  /\ MaxOpens \in Nat /\ MaxSaves \in Nat /\ MaxActs \in Nat /\ MaxChecks \in Nat

VARIABLES
  desktop,   \* whether the page runs in the desktop client
  nameOf,    \* the decrypted names
  page,      \* the dashboard, before or after its listener is registered, or another page
  job, opens,
  pin,       \* the dialog: the opening whose promise it keeps, and the answers under way
  preview,   \* the preview: whether it shows, and the opening that made its URL
  revoked,   \* the URLs revoked, by the opening that made them
  mount,     \* the mount of the page, known by the number of openings before it
  entry,     \* tempFileTimeoutsRef of each mount: the opening whose timer is kept for a file
  temp,      \* the copies
  watched,   \* the copies watched: of which file, their last known content, and
             \* whether they were touched since the last event
  windows,   \* the files open in other programs
  events, handlers,
  leaked,    \* whether a listener has outlived its page
  stored,    \* the versions uploaded by the listener
  saves,
  lost,      \* history: the edits whose copy was replaced, deleted or no longer watched, or
             \* whose event, reading or upload failed or ended with the page, on the way
  stray,     \* history: the copies no dashboard opening has written since their timer was
             \* gone with the window, a call failed, or an opening set none
  displaced  \* history: the openings whose PIN dialog was taken over or left

paper == <<temp, watched, windows, events, handlers, stored, saves, lost>>
screen == <<pin, preview, revoked, displaced>>
timers == <<mount, entry>>
vars == <<desktop, nameOf, page, job, opens, screen, timers, paper, leaked, stray>>

Openings == 1..MaxOpens
Mounts == 0..MaxOpens
Contents == [of : Files \cup {None}, edit : 0..MaxSaves]
Absent == [of |-> None, edit |-> 0]
Unwatched == [on |-> FALSE, file |-> None, hash |-> Absent, touched |-> FALSE]
NoJob == [pc |-> "new", kind |-> "open", file |-> None, url |-> 0, mount |-> 0, here |-> FALSE]
Finished == [NoJob EXCEPT !.pc = "done"]
NoPin == [open |-> FALSE, for |-> 0, checks |-> 0]
NoPreview == [shown |-> FALSE, url |-> 0]
NoTimers == [i \in Mounts |-> [f \in Files |-> 0]]

\* The jobs that hold a copy, or are about to make one.
Holding == {"unwatch", "delete", "write", "watch", "start", "armed", "late"}
Steps == {"new", "fetch", "pin", "leaving", "got", "done"} \cup Holding

TypeOK ==
  /\ desktop \in BOOLEAN /\ nameOf \in [Files -> Names]
  /\ page \in {"files", "setting", "dashboard"}
  /\ job \in [Openings -> [pc : Steps, kind : {"open", "card", "media", "plain"},
                           file : Files \cup {None}, url : 0..MaxOpens, mount : Mounts,
                           here : BOOLEAN]]
  /\ opens \in 0..MaxOpens /\ saves \in 0..MaxSaves /\ leaked \in BOOLEAN
  /\ pin \in [open : BOOLEAN, for : 0..MaxOpens, checks : 0..MaxChecks]
  /\ pin.open => pin.for # 0 /\ job[pin.for].pc = "pin"
  /\ preview \in [shown : BOOLEAN, url : 0..MaxOpens]
  /\ revoked \subseteq Openings /\ displaced \subseteq Openings
  /\ mount \in Mounts /\ entry \in [Mounts -> [Files -> 0..MaxOpens]]
  /\ temp \in [Names -> Contents] /\ windows \subseteq Files
  /\ watched \in [Names -> [on : BOOLEAN, file : Files \cup {None}, hash : Contents,
                            touched : BOOLEAN]]
  /\ events \in Seq([file : Files, path : Names])
  /\ handlers \subseteq [file : Files, content : Contents]
  /\ stored \subseteq [file : Files, content : Contents]
  /\ lost \subseteq 1..MaxSaves /\ stray \subseteq Names

Init ==
  /\ desktop \in BOOLEAN /\ nameOf \in [Files -> Names]
  /\ page = "files"
  /\ job = [n \in Openings |-> NoJob] /\ opens = 0
  /\ pin = NoPin /\ preview = NoPreview
  /\ revoked = {} /\ displaced = {}
  /\ mount = 0 /\ entry = NoTimers
  /\ temp = [p \in Names |-> Absent] /\ watched = [p \in Names |-> Unwatched]
  /\ windows = {} /\ events = <<>> /\ leaked = FALSE /\ handlers = {} /\ stored = {}
  /\ saves = 0 /\ lost = {} /\ stray = {}

\* Mutant: one file name for all copies.
OneCopy(f) == nameOf[CHOOSE g \in Files : TRUE]

CopyOf(f) == nameOf[f]
PathOf(n) == CopyOf(job[n].file)
OnDashboard == page # "files"
Moved(j, pc) == IF pc = "done" THEN Finished ELSE [j EXCEPT !.pc = pc]
Goto(n, pc) == job' = [job EXCEPT ![n] = Moved(@, pc)]

InHand == {h.content.edit : h \in handlers} \cup {s.content.edit : s \in stored}

(* The edit a copy holds, unless it was read already.                      *)
Unread(p) == {temp[p].edit} \ (InHand \cup {0})

-----------------------------------------------------------------------------
(* The pages *)

\* Mutant: leaving the page clears the timers.
Cleared(j) == IF j.pc = "armed" THEN Finished ELSE [j EXCEPT !.here = FALSE]

Left(j) == [j EXCEPT !.here = FALSE]

(* Leaving the dashboard before its listener is registered leaves one that *)
(* nobody removes; what two listeners upload differs in nothing, and is    *)
(* one version here.  The dialog, the preview and the map of the timers  *)
(* go with their mount; what is under way goes on, timers too, with the    *)
(* map of its own mount, and an answer about a PIN reaches its promise.    *)
Navigate ==
  /\ page' = IF OnDashboard THEN "files" ELSE IF desktop THEN "setting" ELSE "dashboard"
  /\ leaked' = (leaked \/ page = "setting")
  /\ job' = [n \in Openings |->
               [Left(job[n]) EXCEPT !.pc = IF n = pin.for /\ pin.checks > 0 THEN "leaving" ELSE @]]
  /\ displaced' = displaced \cup ({pin.for} \ {0})
  /\ pin' = NoPin /\ preview' = NoPreview /\ mount' = opens
  /\ UNCHANGED <<desktop, nameOf, opens, revoked, entry, paper, stray>>

(* The window loses all that its pages hold: openings, timers, the dialog, *)
(* the preview, listeners, the uploads under way.  The copies stay.        *)
PagesGone ==
  /\ page' = "files" /\ leaked' = FALSE
  /\ job' = [n \in Openings |-> IF n <= opens THEN Finished ELSE NoJob]
  /\ pin' = NoPin /\ preview' = NoPreview /\ revoked' = {} /\ displaced' = {}
  /\ mount' = opens /\ entry' = NoTimers
  /\ stray' = stray \cup {p \in Names : temp[p] # Absent}
  /\ handlers' = {}
  /\ UNCHANGED <<desktop, nameOf, opens, temp, windows, stored, saves>>

Dropped == {h.content.edit : h \in handlers} \ {0}

(* The watched copies and the events are kept by the client.               *)
Reload ==
  /\ PagesGone
  /\ lost' = lost \cup Dropped
  /\ UNCHANGED <<watched, events>>

(* The tray, or a crash, and the next start, which finds the directory of  *)
(* the copies as it was left and watches nothing.                          *)
Quit ==
  /\ desktop /\ PagesGone
  /\ watched' = [p \in Names |-> Unwatched] /\ events' = <<>>
  /\ lost' = lost \cup Dropped \cup UNION {Unread(p) : p \in Names}

Registered ==
  /\ page = "setting" /\ page' = "dashboard"
  /\ UNCHANGED <<desktop, nameOf, job, opens, screen, timers, paper, leaked, stray>>

(* A click, or on the dashboard the card of a file that wants its first    *)
(* page.  Nothing keeps one opening from beginning while others are under  *)
(* way.  The handler keeps the URL of the preview it was rendered with.    *)
Open(f, kind) ==
  /\ opens < MaxOpens /\ opens + saves < MaxActs
  /\ kind = "media" => ~OnDashboard
  /\ kind = "plain" => ~OnDashboard \/ ~desktop
  /\ kind \in {"open", "card"} => OnDashboard
  /\ opens' = opens + 1
  /\ job' = [job EXCEPT ![opens + 1] = [pc |-> "fetch", kind |-> kind, file |-> f,
                                        url |-> preview.url, mount |-> mount,
                                        here |-> TRUE]]
  /\ UNCHANGED <<desktop, nameOf, page, screen, timers, paper, leaked, stray>>

-----------------------------------------------------------------------------
(* The download and the dialog for the PIN *)

(* requestPin: the dialog has one place for the promise it settles.        *)
RequestPin(n) ==
  /\ Goto(n, "pin")
  /\ pin' = [pin EXCEPT !.open = TRUE, !.for = n]
  /\ displaced' = displaced \cup ({pin.for} \ {0})
  /\ UNCHANGED <<preview, revoked>>

(* Outside the desktop client the plain download is the encrypted file,    *)
(* without a key.  A page that is gone has no dialog to show.              *)
Fetched(n) ==
  /\ job[n].pc = "fetch"
  /\ \/ /\ Goto(n, "done") /\ UNCHANGED screen
     \/ /\ desktop \/ job[n].kind # "plain"
        /\ \/ job[n].file \notin Guarded /\ Goto(n, "got") /\ UNCHANGED screen
           \/ job[n].file \in Guarded /\ job[n].here /\ RequestPin(n)
           \/ /\ job[n].file \in Guarded /\ ~job[n].here /\ Goto(n, "pin")
              /\ displaced' = displaced \cup {n} /\ UNCHANGED <<pin, preview, revoked>>
  /\ UNCHANGED <<desktop, nameOf, page, opens, timers, paper, leaked, stray>>

\* Mutant: the promise is dropped before it is settled.
ForgetfulSettle(n, pc) == job' = job

(* closeModal: whoever the dialog is for now goes on, or gives up.         *)
Settle(n, pc) == IF n = 0 THEN job' = job ELSE Goto(n, pc)

CloseModal(pc) ==
  /\ Settle(pin.for, pc)
  /\ UNCHANGED <<desktop, nameOf, page, opens, preview, revoked, displaced, timers, paper,
                 leaked, stray>>

ConfirmPin ==
  /\ pin.open /\ pin.checks < MaxChecks
  /\ pin' = [pin EXCEPT !.checks = @ + 1]
  /\ UNCHANGED <<desktop, nameOf, page, job, opens, preview, revoked, displaced, timers,
                 paper, leaked, stray>>

(* The answer may come when the dialog is closed, or for another file.     *)
ValidPin ==
  /\ pin.checks > 0
  /\ pin' = [NoPin EXCEPT !.checks = pin.checks - 1]
  /\ CloseModal("got")

WrongPin ==
  /\ pin.checks > 0
  /\ pin' = [pin EXCEPT !.checks = @ - 1]
  /\ UNCHANGED <<desktop, nameOf, page, job, opens, preview, revoked, displaced, timers,
                 paper, leaked, stray>>

\* Mutant: the dialog stays when its promise is settled.
StickyCancel == pin.open /\ pin' = pin /\ CloseModal("done")

CancelPin ==
  /\ pin.open
  /\ pin' = [NoPin EXCEPT !.checks = pin.checks]
  /\ CloseModal("done")

LatePin(n) ==
  /\ job[n].pc = "leaving"
  /\ \E pc \in {"got", "pin"} : Goto(n, pc)
  /\ UNCHANGED <<desktop, nameOf, page, opens, screen, timers, paper, leaked, stray>>

-----------------------------------------------------------------------------
(* What is shown in the page *)

InPage(n) == job[n].pc = "got" /\ job[n].kind # "plain" /\ ~(desktop /\ job[n].kind = "open")

\* Mutant: the URL is revoked before the type of the file is known.
RevokedEarly(n, inPreview) == revoked \cup ({job[n].url} \ {0})

(* The URL the page had when the handler was made is revoked.              *)
Revoked(n, inPreview) == revoked \cup IF inPreview THEN {job[n].url} \ {0} ELSE {}

(* A new tab, or the picture of the card.                                  *)
ShowTab(n) ==
  /\ InPage(n) /\ Goto(n, "done")
  /\ revoked' = Revoked(n, FALSE)
  /\ UNCHANGED <<desktop, nameOf, page, opens, pin, preview, displaced, timers, paper, leaked,
                 stray>>

(* A picture, video or sound; the dashboard also says that it cannot show  *)
(* the file.  Setting the state of a page that is gone does nothing.       *)
ShowPreview(n) ==
  /\ InPage(n) /\ job[n].kind \in {"open", "media"} /\ Goto(n, "done")
  /\ \E url \in {n} \cup IF job[n].kind = "open" THEN {0} ELSE {} :
       /\ revoked' = Revoked(n, TRUE)
       /\ preview' = IF job[n].here THEN [shown |-> TRUE, url |-> url] ELSE preview
  /\ UNCHANGED <<desktop, nameOf, page, opens, pin, displaced, timers, paper, leaked, stray>>

ClosePreview ==
  /\ preview.shown
  /\ revoked' = revoked \cup ({preview.url} \ {0})
  /\ preview' = NoPreview
  /\ UNCHANGED <<desktop, nameOf, page, job, opens, pin, displaced, timers, paper, leaked, stray>>

(* The other pages download again what they cannot show.                   *)
DownloadAgain(n) ==
  /\ InPage(n) /\ job[n].kind = "media"
  /\ job' = [job EXCEPT ![n].kind = "plain", ![n].pc = "fetch"]
  /\ UNCHANGED <<desktop, nameOf, page, opens, screen, timers, paper, leaked, stray>>

-----------------------------------------------------------------------------
(* The copy for another program *)

(* The edit of a copy the watching thread has not sent an event of.        *)
Unsent(p) == IF watched[p].touched /\ temp[p] # watched[p].hash THEN Unread(p) ELSE {}

Touched(w) == [w EXCEPT !.touched = w.on]

(* openWithNativeApp: the timer this mount keeps for the file is cleared,  *)
(* if it has not gone off, and its copy goes.                              *)
OpenNative(n) ==
  /\ job[n].pc = "got" /\ desktop /\ job[n].kind \in {"open", "plain"}
  /\ LET m == IF job[n].kind = "open" THEN entry[job[n].mount][job[n].file] ELSE 0 IN
     job' = [k \in Openings |->
               IF k = n THEN Moved(job[k], IF m = 0 THEN "write" ELSE "unwatch")
               ELSE IF k = m /\ job[k].pc = "armed" THEN Finished ELSE job[k]]
  /\ UNCHANGED <<desktop, nameOf, page, opens, screen, timers, paper, leaked, stray>>

(* unwatch_temp_file *)
Unwatch(n) ==
  /\ job[n].pc \in {"unwatch", "armed"}
  /\ Goto(n, IF job[n].pc = "armed" THEN "late" ELSE "delete")
  /\ watched' = [watched EXCEPT ![PathOf(n)] = Unwatched]
  /\ lost' = lost \cup Unsent(PathOf(n))
  /\ UNCHANGED <<desktop, nameOf, page, opens, screen, timers, temp, windows, events,
                 handlers, stored, saves, leaked, stray>>

(* delete_temp_file, whose failure is ignored; the timer its mount keeps   *)
(* by now for the file is forgotten, whichever it is.                      *)
Delete(n) ==
  LET p == PathOf(n) IN
  /\ job[n].pc \in {"delete", "late"}
  /\ Goto(n, IF job[n].pc = "late" THEN "done" ELSE "write")
  /\ entry' = [entry EXCEPT ![job[n].mount][job[n].file] = 0]
  /\ \/ /\ temp' = [temp EXCEPT ![p] = Absent]
        /\ lost' = lost \cup Unread(p) /\ UNCHANGED stray
     \/ stray' = stray \cup {p} /\ UNCHANGED <<temp, lost>>
  /\ UNCHANGED <<desktop, nameOf, page, opens, screen, mount, watched, windows, events, handlers,
                 stored, saves, leaked>>

(* write_temp_file; the other pages neither watch the copy nor set a timer. *)
Write(n) ==
  LET p == PathOf(n) IN
  /\ job[n].pc = "write"
  /\ Goto(n, IF job[n].kind = "open" THEN "watch" ELSE "start")
  /\ temp' = [temp EXCEPT ![p] = [of |-> job[n].file, edit |-> 0]]
  /\ watched' = [watched EXCEPT ![p] = Touched(@)]
  /\ lost' = lost \cup Unread(p)
  /\ stray' = IF job[n].kind = "open" THEN stray \ {p} ELSE stray \cup {p}
  /\ UNCHANGED <<desktop, nameOf, page, opens, screen, timers, windows, events, handlers,
                 stored, saves, leaked>>

(* watch_temp_file: the content by now counts as known.                    *)
Watch(n) ==
  LET p == PathOf(n) IN
  /\ job[n].pc = "watch" /\ Goto(n, "start")
  /\ watched' = [watched EXCEPT ![p] =
                   [on |-> TRUE, file |-> job[n].file, hash |-> temp[p], touched |-> TRUE]]
  /\ lost' = lost \cup Unsent(p)
  /\ UNCHANGED <<desktop, nameOf, page, opens, screen, timers, temp, windows, events,
                 handlers, stored, saves, leaked, stray>>

(* open_file_native and, on the dashboard, the timer of half an hour.      *)
Start(n) ==
  /\ job[n].pc = "start"
  /\ windows' = windows \cup {job[n].file}
  /\ Goto(n, IF job[n].kind = "open" THEN "armed" ELSE "done")
  /\ entry' = IF job[n].kind = "open" THEN [entry EXCEPT ![job[n].mount][job[n].file] = n]
              ELSE entry
  /\ UNCHANGED <<desktop, nameOf, page, opens, screen, mount, temp, watched, events, handlers,
                 stored, saves, lost, leaked, stray>>

(* Any call may fail; what was done before stays.                          *)
Fail(n) ==
  /\ job[n].pc \in {"fetch", "write", "watch", "start"}
  /\ Goto(n, "done")
  /\ stray' = IF job[n].pc = "fetch" THEN stray ELSE stray \cup {PathOf(n)}
  /\ UNCHANGED <<desktop, nameOf, page, opens, screen, timers, paper, leaked>>

-----------------------------------------------------------------------------
(* Editing, watching and uploading *)

(* The program saves the file it has open.                                 *)
Save(f) ==
  LET p == CopyOf(f) IN
  /\ f \in windows /\ saves < MaxSaves /\ opens + saves < MaxActs
  /\ saves' = saves + 1
  /\ temp' = [temp EXCEPT ![p] = [of |-> f, edit |-> saves + 1]]
  /\ watched' = [watched EXCEPT ![p] = Touched(@)]
  /\ lost' = lost \cup Unread(p) \cup IF watched[p].on THEN {} ELSE {saves + 1}
  /\ stray' = IF temp[p] = Absent THEN stray \cup {p} ELSE stray
  /\ UNCHANGED <<desktop, nameOf, page, job, opens, screen, timers, windows, events,
                 handlers, stored, leaked>>

\* Mutant: an event for the first change only.
FirstOnly(p) == watched[p].touched /\ temp[p] # watched[p].hash /\ watched[p].hash.edit = 0

(* Touched since the last event, and another content.                      *)
Changed(p) == watched[p].on /\ watched[p].touched /\ temp[p] # watched[p].hash

(* The thread, once the copy has been left alone for two seconds.          *)
Scan(p) ==
  /\ Changed(p)
  /\ watched' = [watched EXCEPT ![p].hash = temp[p], ![p].touched = FALSE]
  /\ events' = Append(events, [file |-> watched[p].file, path |-> p])
  /\ UNCHANGED <<desktop, nameOf, page, job, opens, screen, timers, temp, windows, handlers,
                 stored, saves, lost, leaked, stray>>

Listening == leaked \/ page = "dashboard"

(* The listener reads the copy; an event nobody listens to is gone.        *)
Emit ==
  LET e == Head(events) IN
  /\ events # <<>> /\ events' = Tail(events)
  /\ \/ /\ Listening /\ temp[e.path] # Absent
        /\ handlers' = handlers \cup {[file |-> e.file, content |-> temp[e.path]]}
        /\ UNCHANGED lost
     \/ lost' = lost \cup Unread(e.path) /\ UNCHANGED handlers
  /\ UNCHANGED <<desktop, nameOf, page, job, opens, screen, timers, temp, watched, windows,
                 stored, saves, leaked, stray>>

(* uploadNewVersion, whose failure the listener reports as a success: the  *)
(* thread counts the content as known and does not send it again.          *)
Upload(h) ==
  /\ handlers' = handlers \ {h}
  /\ \/ stored' = stored \cup {[file |-> h.file, content |-> h.content]} /\ UNCHANGED lost
     \/ lost' = lost \cup ({h.content.edit} \ {0}) /\ UNCHANGED stored
  /\ UNCHANGED <<desktop, nameOf, page, job, opens, screen, timers, temp, watched, windows,
                 events, saves, leaked, stray>>

-----------------------------------------------------------------------------
Downloading(n) == Fetched(n) \/ LatePin(n) \/ Fail(n)
Showing(n) == ShowTab(n) \/ ShowPreview(n) \/ DownloadAgain(n)
Copying(n) == OpenNative(n) \/ Unwatch(n) \/ Delete(n) \/ Write(n) \/ Watch(n) \/ Start(n)
Pinning == ConfirmPin \/ ValidPin \/ WrongPin \/ CancelPin

Next ==
  \/ Navigate \/ Registered \/ Reload \/ Quit
  \/ Pinning \/ ClosePreview \/ Emit \/ \E h \in handlers : Upload(h)
  \/ \E f \in Files : Save(f) \/ \E kind \in {"open", "card", "media", "plain"} : Open(f, kind)
  \/ \E n \in Openings : Downloading(n) \/ Showing(n) \/ Copying(n)
  \/ \E p \in Names : Scan(p)

Spec == Init /\ [][Next]_vars
-----------------------------------------------------------------------------
(* Properties *)

\* A version the listener uploads to a file holds an edit of that file, unless
\* another has its name (openWithNativeApp, FileWatcher, the listener): not what
\* a second opening, a timer or another page put in the copy meanwhile.
VersionIsOfItsFile ==
  \A s \in stored : (\A g \in Files : nameOf[g] = nameOf[s.file] => g = s.file) =>
    s.content.of = s.file

\* A preview that shows has a URL that is not revoked, however openings, which
\* revoke the URL they were rendered with, overlap (handleOpen, closePreview).
PreviewAlive == preview.shown => preview.url \notin revoked

\* The decrypted copy of a file opened on the dashboard has a timer set, or an
\* opening under way that will set one or replace it, also over leaving the page and
\* coming back, which loses the map of the timers but not the timers; unless, since
\* an opening last wrote it, the window was reloaded or the client ended, a call failed,
\* or the program saved the copy again after it was deleted (openWithNativeApp).
CopyIsTimed ==
  \A p \in Names : temp[p] # Absent /\ p \notin stray =>
    \E n \in Openings : job[n].pc \in Holding /\ job[n].kind = "open" /\ PathOf(n) = p

\* No edit is forgotten: what a program saved in a watched copy was uploaded, is in
\* the hands of the listener, or is in the copy and will be read, unless the copy
\* was replaced, deleted or left unwatched before, nobody listened, the reading or the
\* upload failed, or a reload stopped the upload or an end of the client the watch
\* (FileWatcher, the listener of the dashboard).
EditNotForgotten ==
  \A e \in 1..saves : e \in lost \cup InHand \/
    \E p \in Names : temp[p].edit = e /\
      (Changed(p) \/ \E i \in 1..Len(events) : events[i].path = p)

\* An opening that waits for the PIN has its dialog on the screen, unless another
\* took the dialog over or the user left the page (usePinVerification).
PromiseKept ==
  \A n \in Openings : job[n].pc = "pin" => n \in displaced \/ (pin.open /\ pin.for = n)
=============================================================================
