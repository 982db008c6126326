----------------------------- MODULE ClientKeys -----------------------------
(***************************************************************************)
(* The RSA key pair of one account: where its halves are kept, how the     *)
(* pages make, replace and erase it in several calls, and which pair the   *)
(* file keys are wrapped for.                                              *)
(*                                                                         *)
(* The server keeps the public key, the private key encrypted with a PIN   *)
(* or a passphrase, and the hash of the PIN.  Each device keeps the public *)
(* key in IndexedDB and, while unlocked, the private key in memory.  A key *)
(* pair and the PIN chosen with it are the number of the change that made  *)
(* them; 0 is none.  Another account that shares a file reads the public   *)
(* key from the server: it is a device that stores and unlocks nothing.    *)
(*                                                                         *)
(* A change of keys is a program of steps, one per call, any of which may  *)
(* fail; the page may be closed between two.  A device runs one at a time. *)
(***************************************************************************)
EXTENDS Naturals, Sequences, FiniteSets

CONSTANTS Devices, Peer,
          MaxChanges    \* bound: the changes of keys ever begun

ASSUME KeysAssumption == Peer \notin Devices /\ MaxChanges \in Nat

VARIABLES
  server,     \* the columns of the user: pub, bundle and its form, and the PIN's hash
  store,      \* the public key in the IndexedDB of each device
  key,        \* the private key in the memory of each device
  job,        \* what each device is in the middle of
  begun,      \* changes of keys begun
  torn,       \* history: a change stopped half-way or ran into another one
  last,       \* history: the kind of the last change that was completed
  storeOld,   \* history: the keys began to change since the device stored them
  keyOld      \* history: ... since the device fetched the bundle it unlocked

past == <<torn, last, storeOld, keyOld>>
vars == <<server, store, key, job, begun, past>>

Actors == Devices \cup {Peer}

\* Mutant: the PIN is not sent to the server.
PinStepsWithoutHash == <<"public", "private", "store", "open">>

(* generateAndStoreWithPin, then setPin, getPrivateKey and unlockWithPin.  *)
PinSteps == <<"public", "private", "store", "hash", "open">>

(* setupKeys: generateAndStore, then uploadPublicKey; the signing pair     *)
(* made next is not of this module.                                        *)
PhraseSteps == <<"store", "private", "public">>

\* Mutant: the keys are deleted on the server alone.
EraseStepsOnServer == <<"delete">>

(* "Rigenera chiavi": deleteKeys, then clearAll.                           *)
EraseSteps == <<"delete", "clear">>

Program(kind) == CASE kind = "pin" -> PinSteps
                   [] kind = "phrase" -> PhraseSteps
                   [] kind = "erase" -> EraseSteps

Changes == {"pin", "phrase", "erase"}
NoJob == [kind |-> "none", left |-> <<>>, k |-> 0, alone |-> FALSE, sure |-> FALSE]
NoKeys == [pub |-> 0, bundle |-> 0, form |-> "none", hash |-> 0]

Ids == 0..MaxChanges
Steps == {"public", "private", "store", "hash", "open", "delete", "clear"}

TypeOK ==
  /\ server \in [pub : Ids, bundle : Ids, form : {"none", "pin", "phrase"}, hash : Ids]
  /\ store \in [Actors -> Ids] /\ key \in [Actors -> Ids] /\ begun \in Ids
  /\ job \in [Actors -> [kind : Changes \cup {"none", "wrap", "unlock"}, left : Seq(Steps), k : Ids,
                         alone : BOOLEAN, sure : BOOLEAN]]
  /\ torn \in BOOLEAN /\ last \in Changes \cup {"none"}
  /\ storeOld \in [Actors -> BOOLEAN] /\ keyOld \in [Actors -> BOOLEAN]
  /\ store[Peer] = 0 /\ key[Peer] = 0
  /\ server.bundle = 0 <=> server.form = "none"

Init ==
  /\ server = NoKeys /\ begun = 0
  /\ store = [d \in Actors |-> 0] /\ key = [d \in Actors |-> 0]
  /\ job = [d \in Actors |-> NoJob]
  /\ torn = FALSE /\ last = "none"
  /\ storeOld = [d \in Actors |-> FALSE] /\ keyOld = [d \in Actors |-> FALSE]

-----------------------------------------------------------------------------
(* A change of keys and its steps *)

Changing == {d \in Devices : job[d].kind \in Changes}

(* A change begins with a new key pair made in memory.  Whatever the       *)
(* devices hold may be out of date from here on.                           *)
Begin(d, kind) ==
  LET solo == Changing = {}
      mine == [NoJob EXCEPT !.kind = kind, !.left = Program(kind), !.k = begun + 1, !.alone = solo]
  IN /\ job[d].kind = "none" /\ begun < MaxChanges
     /\ begun' = begun + 1
     /\ job' = [e \in Actors |-> IF e = d THEN mine
                                 ELSE [job[e] EXCEPT !.alone = FALSE, !.sure = FALSE]]
     /\ torn' = (torn \/ ~solo)
     /\ storeOld' = [e \in Actors |-> e # Peer] /\ keyOld' = [e \in Actors |-> e # Peer]
     /\ UNCHANGED <<server, store, key, last>>

(* The last steps of a registration.                                       *)
Register(d)   == begun = 0 /\ Begin(d, "pin")
(* The setup page, which a user without keys is sent to.                   *)
SetUpPin(d)   == server.pub = 0 /\ Begin(d, "pin")
(* The settings: "Cambia PIN" is the setup once more.                      *)
ChangePin(d)  == server.pub # 0 /\ Begin(d, "pin")
(* The passphrase form of the settings.                                    *)
SetUpPhrase(d) == Begin(d, "phrase")
(* The first run of the desktop client.                                    *)
Onboard(d)    == Begin(d, "phrase")
(* "Rigenera chiavi", on the setup page and in the settings.               *)
Regenerate(d) == server.pub # 0 /\ Begin(d, "erase")

AtStep(d, s) == job[d].kind \in Changes /\ job[d].left # <<>> /\ Head(job[d].left) = s

(* The step is done: on to the next, or the change is complete and, if it  *)
(* was alone from beginning to end, it mended what others had torn.        *)
Advance(d) ==
  LET rest == Tail(job[d].left)
  IN /\ job' = [job EXCEPT ![d] = IF rest = <<>> THEN NoJob ELSE [job[d] EXCEPT !.left = rest]]
     /\ torn' = (torn /\ ~(rest = <<>> /\ job[d].alone))
     /\ storeOld' = [storeOld EXCEPT ![d] = @ /\ ~(rest = <<>> /\ job[d].alone)]
     /\ last' = IF rest = <<>> THEN job[d].kind ELSE last

(* The step fails, or the page is closed before it: what was done stays.   *)
Abandon(d) ==
  /\ job' = [job EXCEPT ![d] = NoJob]
  /\ torn' = (torn \/ (d \in Changing /\ job[d].left # Program(job[d].kind)))

Public(d) ==
  /\ AtStep(d, "public") /\ Advance(d)
  /\ server' = [server EXCEPT !.pub = job[d].k]
  /\ UNCHANGED <<store, key, begun, keyOld>>

Private(d) ==
  /\ AtStep(d, "private") /\ Advance(d)
  /\ server' = [server EXCEPT !.bundle = job[d].k, !.form = job[d].kind]
  /\ UNCHANGED <<store, key, begun, keyOld>>

(* generateAndStore goes on when the private key could not be saved.       *)
PrivateSwallowed(d) ==
  /\ AtStep(d, "private") /\ job[d].kind = "phrase"
  /\ job' = [job EXCEPT ![d].left = Tail(@), ![d].alone = FALSE]
  /\ torn' = TRUE
  /\ UNCHANGED <<server, store, key, begun, last, storeOld, keyOld>>

Store(d) ==
  /\ AtStep(d, "store") /\ Advance(d)
  /\ store' = [store EXCEPT ![d] = job[d].k]
  /\ UNCHANGED <<server, key, begun, keyOld>>

(* generateAndStoreWithPin goes on without IndexedDB.                      *)
StoreSwallowed(d) ==
  /\ AtStep(d, "store") /\ job[d].kind = "pin"
  /\ job' = [job EXCEPT ![d].left = Tail(@), ![d].alone = FALSE]
  /\ UNCHANGED <<server, store, key, begun, past>>

Hash(d) ==
  /\ AtStep(d, "hash") /\ Advance(d)
  /\ server' = [server EXCEPT !.hash = job[d].k]
  /\ UNCHANGED <<store, key, begun, keyOld>>

(* The key is read back and opened with the PIN just chosen: an error if   *)
(* the bundle is another's by now.                                         *)
Open(d) ==
  /\ AtStep(d, "open") /\ server.bundle = job[d].k /\ Advance(d)
  /\ key' = [key EXCEPT ![d] = job[d].k]
  /\ keyOld' = [keyOld EXCEPT ![d] = ~job[d].alone]
  /\ UNCHANGED <<server, store, begun>>

\* Mutant: the form of the bundle is not reset with it.
ErasedKeepingForm(row) == [row EXCEPT !.pub = 0, !.bundle = 0]

(* reset_user_keys: the PIN's hash stays.                                  *)
Erased(row) == [row EXCEPT !.pub = 0, !.bundle = 0, !.form = "none"]

(* The key in memory stays too.                                            *)
Delete(d) ==
  /\ AtStep(d, "delete") /\ Advance(d)
  /\ server' = Erased(server)
  /\ UNCHANGED <<store, key, begun, keyOld>>

Clear(d) ==
  /\ AtStep(d, "clear") /\ Advance(d)
  /\ store' = [store EXCEPT ![d] = 0]
  /\ UNCHANGED <<server, key, begun, keyOld>>

Fail(d) ==
  /\ d \in Changing /\ Abandon(d)
  /\ UNCHANGED <<server, store, key, begun, last, storeOld, keyOld>>

-----------------------------------------------------------------------------
(* Unlocking, locking and using the keys *)

\* Mutant: the public key the device remembers picks the key to open.
RememberedKey(d) == IF store[d] # 0 THEN store[d] ELSE server.bundle

(* getPrivateKey: what unlockWithPin opens.                                *)
EncryptedKey(d) == server.bundle

(* The PIN dialog: the bundle is fetched, and may be replaced before it is *)
(* opened.                                                                 *)
FetchBundle(d) ==
  /\ d \in Devices /\ job[d].kind = "none" /\ key[d] = 0
  /\ server.form = "pin"
  /\ job' = [job EXCEPT ![d] = [NoJob EXCEPT !.kind = "unlock", !.k = EncryptedKey(d),
                                             !.sure = Changing = {}]]
  /\ UNCHANGED <<server, store, key, begun, past>>

(* The PIN opens the bundle that was fetched, whatever the server has by   *)
(* now, and IndexedDB is not touched.                                      *)
Unlock(d) ==
  /\ job[d].kind = "unlock"
  /\ job' = [job EXCEPT ![d] = NoJob]
  /\ key' = [key EXCEPT ![d] = job[d].k]
  /\ keyOld' = [keyOld EXCEPT ![d] = ~job[d].sure]
  /\ UNCHANGED <<server, store, begun, torn, last, storeOld>>

(* The PIN of another bundle, or no answer to the fetch.                   *)
UnlockFails(d) ==
  /\ job[d].kind = "unlock"
  /\ job' = [job EXCEPT ![d] = NoJob]
  /\ UNCHANGED <<server, store, key, begun, past>>

(* Locked, logged out or closed: memory is empty, and a change that was    *)
(* under way stops where it was.                                           *)
Close(d) ==
  /\ d \in Devices /\ (key[d] # 0 \/ job[d].kind # "none")
  /\ key' = [key EXCEPT ![d] = 0]
  /\ Abandon(d)
  /\ UNCHANGED <<server, store, begun, last, storeOld, keyOld>>

(* getPublicKeyPem: IndexedDB, else the server.                            *)
PublicKey(d) == IF store[d] # 0 THEN store[d] ELSE server.pub

(* uploadFile, uploadNewVersion and, for the peer, a grant: the file key   *)
(* is wrapped with the public key read now and stored later.               *)
Wrap(d) ==
  /\ d \in Actors /\ job[d].kind = "none" /\ PublicKey(d) # 0
  /\ job' = [job EXCEPT ![d] = [NoJob EXCEPT !.kind = "wrap", !.k = PublicKey(d),
       !.sure = ~torn /\ Changing = {} /\ (storeOld[d] => store[d] = 0) /\ last # "none"]]
  /\ UNCHANGED <<server, store, key, begun, past>>

(* The wrapped key is stored with the file, or the upload fails.           *)
Keep(d) ==
  /\ job[d].kind = "wrap"
  /\ job' = [job EXCEPT ![d] = NoJob]
  /\ UNCHANGED <<server, store, key, begun, past>>

(* A file key opens with the very pair it was wrapped for.                 *)
Opens(k, wrap) == k = wrap

-----------------------------------------------------------------------------
Step(d) == \/ Public(d) \/ Private(d) \/ PrivateSwallowed(d) \/ Store(d) \/ StoreSwallowed(d)
           \/ Hash(d) \/ Open(d) \/ Delete(d) \/ Clear(d) \/ Fail(d)

Next ==
  \/ \E d \in Devices : \/ Register(d) \/ SetUpPin(d) \/ ChangePin(d)
                        \/ SetUpPhrase(d) \/ Onboard(d) \/ Regenerate(d) \/ Step(d)
                        \/ FetchBundle(d) \/ Unlock(d) \/ UnlockFails(d) \/ Close(d)
  \/ \E d \in Actors : Wrap(d) \/ Keep(d)

Spec == Init /\ [][Next]_vars

-----------------------------------------------------------------------------
(* Properties *)

Quiet == ~torn /\ Changing = {}

(* Between changes, unless one stopped half-way or two overlapped and none *)
(* was made alone since, the halves on the server are of one pair, and     *)
(* after a setup with a PIN the PIN that opens it is the one verify-pin    *)
(* accepts.                                                                *)
HalvesMatch ==
  Quiet => /\ server.pub = server.bundle
           /\ last = "pin" => server.form = "pin" /\ server.hash = server.bundle

(* A file key wrapped between changes, on a device whose IndexedDB is      *)
(* empty or its own work since the last change, or by a peer, is wrapped   *)
(* for the pair the PIN opens, and for the one in the device's memory      *)
(* unless the keys began to change since the bundle it opened was fetched. *)
UploadsOpen ==
  \A d \in Actors : job[d].kind = "wrap" /\ job[d].sure =>
    /\ Opens(server.bundle, job[d].k)
    /\ key[d] # 0 /\ ~keyOld[d] => Opens(key[d], job[d].k)

(* A device that unlocked with a bundle fetched while nothing changed, and *)
(* since when no change has begun, holds the pair the server has: nothing  *)
(* short of a change makes the key in memory stale.                        *)
SessionIsCurrent ==
  Quiet => \A d \in Devices : key[d] # 0 /\ ~keyOld[d] => key[d] = server.bundle
=============================================================================
