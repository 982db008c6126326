--------------------------- MODULE ClientSession ---------------------------
(***************************************************************************)
(* One browser tab (or desktop window): who is signed in, the tokens in    *)
(* localStorage, the PIN in sessionStorage, the private key in memory, and *)
(* the calls that are under way when any of these changes.                 *)
(*                                                                         *)
(* Every asynchronous function is cut where it awaits: a call is sent with *)
(* the token stored at that moment and answered later, in any order, and   *)
(* what its continuation writes is written then.  An access token is the   *)
(* number of its issue; tokens expire in the order they are issued.  The   *)
(* server's part is POST /auth/token/refresh, which asks for a valid       *)
(* access token AND a refresh token of the same user.                      *)
(*                                                                         *)
(* Every user here has key material (has_public_key); React effects run    *)
(* before the next answer or click (`changed' stands for the effects due). *)
(***************************************************************************)
EXTENDS Naturals, Sequences, FiniteSets

CONSTANTS Users, None,
          Slots,       \* the calls that may be under way at once
          MaxTokens,   \* bound: the access tokens ever issued
          MaxLoads     \* bound: the times the page is reloaded or a page calls refreshUser

ASSUME SessionAssumption == None \notin Users /\ MaxTokens \in Nat /\ MaxLoads \in Nat

VARIABLES
  issued,     \* issued[t]: the user access token t was issued to
  lapsed,     \* tokens 1..lapsed have expired
  access,     \* localStorage: the access token, 0 when there is none
  refresh,    \* localStorage: whose refresh token it is
  pin,        \* sessionStorage: whose PIN is remembered
  user,       \* the signed-in user of AuthContext
  key,        \* whose private key is in memory
  loading, restoring,        \* isLoading, isRestoringSessionKey
  modal,      \* the PIN dialog of the layout
  page,       \* "login" or a page of the layout, "app"
  header,     \* the token in apiClient.defaults.headers
  isRefreshing,
  calls,      \* the calls under way
  leaving,    \* a logout is waiting for the virtual disk to unmount
  changed,    \* the effects due: "none", those of the layout, or all
  loads,      \* for the bound
  who,        \* history: the last to log in
  asked,      \* history: a PIN was typed since the last lock or logout
  straddled   \* history: something was under way across a logout, lock or login

stored == <<access, refresh>>
clock  == <<issued, lapsed>>
shown  == <<loading, restoring, modal, page>>
past   == <<who, asked, straddled>>
vars   == <<clock, stored, pin, user, key, shown, header, isRefreshing, calls,
            leaving, changed, loads, past>>

Idle == [flow |-> "none", pc |-> "idle", by |-> None, token |-> 0, held |-> None,
         pin |-> None, retry |-> FALSE, gone |-> FALSE]

(* Flows: the getMe of a refreshUser ("login" when a login waits for it),  *)
(* the key fetched by the PIN dialog and by the restore effect, and any    *)
(* other request.                                                          *)
Call ==
  [flow : {"none", "me", "login", "unlock", "restore", "data"},
   pc : {"idle", "sent", "queued", "refreshing", "opening"},
   by : Users \cup {None}, token : Nat, held : Users \cup {None},
   pin : Users \cup {None}, retry : BOOLEAN, gone : BOOLEAN]

(* One type invariant: beside the types, no token is used that was not     *)
(* issued and none expires before it exists.                               *)
TypeOK ==
  /\ issued \in Seq(Users) /\ Len(issued) <= MaxTokens
  /\ lapsed \in 0..Len(issued)
  /\ access \in 0..Len(issued) /\ header \in 0..Len(issued)
  /\ {refresh, pin, user, key, who} \subseteq Users \cup {None}
  /\ {loading, restoring, modal, isRefreshing, leaving, asked, straddled} \subseteq BOOLEAN
  /\ page \in {"login", "app"} /\ changed \in {"none", "view", "auth"}
  /\ loads \in 0..MaxLoads
  /\ calls \in [Slots -> Call]
  /\ \A c \in Slots : calls[c].token \in 0..Len(issued)

Init ==
  /\ issued = <<>> /\ lapsed = 0
  /\ access = 0 /\ refresh = None /\ pin = None /\ header = 0
  /\ user = None /\ key = None /\ who = None
  /\ loading = FALSE /\ restoring = FALSE /\ modal = FALSE /\ page = "login"
  /\ isRefreshing = FALSE /\ leaving = FALSE /\ changed = "none"
  /\ calls = [c \in Slots |-> Idle]
  /\ asked = FALSE /\ straddled = FALSE /\ loads = 0

-----------------------------------------------------------------------------
(* Calls and what their ends write *)

(* The interceptor: the stored token, else the default header left by the  *)
(* last refresh of this tab.                                               *)
TokenToSend == IF access # 0 THEN access ELSE header

Request(f) == [Idle EXCEPT !.flow = f, !.pc = "sent", !.token = TokenToSend,
                           !.by = IF f \in {"unlock", "restore"} THEN user ELSE None]

Under(flows) == {c \in Slots : calls[c].flow \in flows}
Restores == {c \in Under({"restore"}) : ~calls[c].gone}

(* The calls whose end writes session state whoever is signed in by then.  *)
Writers == Under({"me", "login", "unlock"}) \cup {c \in Slots : calls[c].pc = "refreshing"}

(* A failing refreshUser signs out.                                        *)
UserAfter(mes) == IF mes # {} THEN None ELSE user

\* Mutant: a restore that fails does not say that it is over.
StillRestoring(restores) == restoring

RestoringAfter(restores) == restoring /\ restores = {}

(* The calls of S fail together, with a bare 401 or with anything else.    *)
(* For refreshUser a 401 forgets the PIN and keeps the tokens, any other   *)
(* error forgets the tokens and keeps the PIN; neither touches the key.    *)
(* The restore effect forgets the PIN.                                     *)
Fail(S, why) ==
  LET mes == S \cap Under({"me", "login"})
      restores == S \cap Restores
  IN /\ user' = UserAfter(mes)
     /\ loading' = (loading /\ mes = {})
     /\ access' = IF mes # {} /\ why = "other" THEN 0 ELSE access
     /\ refresh' = IF mes # {} /\ why = "other" THEN None ELSE refresh
     /\ pin' = IF (mes # {} /\ why = "401") \/ restores # {} THEN None ELSE pin
     /\ restoring' = RestoringAfter(restores)
     /\ page' = IF S \cap Under({"login"}) # {} THEN "app" ELSE page
     /\ changed' = IF mes # {} THEN "auth" ELSE IF restores # {} THEN "view" ELSE changed

Settled(S) == [c \in Slots |-> IF c \in S THEN Idle ELSE calls[c]]

Fails(S, why) ==
  /\ Fail(S, why) /\ calls' = Settled(S)
  /\ UNCHANGED <<clock, key, modal, header, leaving, past, loads>>

(* isTokenExpired: never of a valid token, and not of one that expired     *)
(* less than 10 seconds ago.                                               *)
Unusable == IF access = 0 THEN {TRUE} ELSE IF access <= lapsed THEN BOOLEAN ELSE {FALSE}

(* refreshUser without a token it may use: signed out, PIN forgotten.      *)
SignOutUnasked ==
  /\ user' = None /\ pin' = None /\ loading' = FALSE /\ changed' = "auth"

(* The answers.  200: getMe signs in and asks for a restore if a PIN is    *)
(* remembered; a fetched key bundle is then opened.                        *)
AnswerOk(c) ==
  LET call == calls[c]
      whose == issued[call.token]
  IN /\ call.pc = "sent" /\ call.token > lapsed
     /\ IF call.flow \in {"me", "login"}
          THEN /\ user' = whose /\ loading' = FALSE
               /\ restoring' = (restoring \/ pin # None)
               /\ page' = IF call.flow = "login" THEN "app" ELSE page
               /\ changed' = "auth"
          ELSE UNCHANGED <<user, loading, restoring, page, changed>>
     /\ calls' = [calls EXCEPT ![c] =
          IF call.flow = "unlock" \/ c \in Restores
            THEN [call EXCEPT !.pc = "opening", !.held = whose, !.token = 0, !.retry = FALSE]
            ELSE Idle]
     /\ UNCHANGED <<clock, stored, pin, key, modal, header, isRefreshing, leaving,
                    past, loads>>

\* Mutant: nothing is looked up before a refresh is started.
NeverJoins == FALSE

JoinsQueue == isRefreshing

\* Mutant: a call that was sent again is refreshed again.
Untiring(call) == TRUE

(* _retry, which is set on the call that refreshes only: one that waited   *)
(* for another's refresh is sent again without it.                         *)
MayRefresh(call) == ~call.retry

(* 401, which an expired token gets, and a wrong code or password with a   *)
(* valid one: the call waits for the refresh under way, or becomes it.     *)
Refused(c) ==
  LET call == calls[c]
  IN /\ call.pc = "sent" /\ call.token # 0
     /\ call.token > lapsed => call.flow = "data"
     /\ MayRefresh(call) /\ refresh # None
     /\ calls' = [calls EXCEPT ![c] =
          IF JoinsQueue THEN [call EXCEPT !.pc = "queued", !.token = 0]
          ELSE [call EXCEPT !.pc = "refreshing", !.retry = TRUE, !.token = access,
                            !.held = refresh]]
     /\ isRefreshing' = TRUE
     /\ UNCHANGED <<clock, stored, pin, user, key, shown, header, leaving, changed, past, loads>>

(* 401 with no refresh token: passed on as it is.                          *)
RefusedForGood(c) ==
  LET call == calls[c]
  IN /\ call.pc = "sent" /\ call.token # 0
     /\ call.token > lapsed => call.flow = "data"
     /\ MayRefresh(call) /\ refresh = None
     /\ Fails({c}, "401") /\ UNCHANGED isRefreshing

(* Any other error, the second 401 of a retried call included: an          *)
(* ApiError, which carries no response.                                    *)
AnswerError(c) ==
  /\ calls[c].pc = "sent"
  /\ Fails({c}, "other") /\ UNCHANGED isRefreshing

(* refreshUser gives up after 30 s; its request goes on by itself.         *)
GetMeTimeout(c) ==
  /\ calls[c].pc # "idle" /\ c \in Under({"me", "login"})
  /\ Fail({c}, "other") /\ calls' = [calls EXCEPT ![c].flow = "data"]
  /\ UNCHANGED <<clock, key, modal, header, isRefreshing, leaving,
                    past, loads>>

-----------------------------------------------------------------------------
(* The refresh *)

Queued == {c \in Slots : calls[c].pc = "queued"}

\* Mutant: the server does not compare the users of the two tokens.
GrantableToAnyone(c) == calls[c].token > lapsed

(* What the server checks: the access token is valid, and the refresh      *)
(* token is of the same user.                                              *)
Grantable(c) == calls[c].token > lapsed /\ issued[calls[c].token] = calls[c].held

(* Past the bound the last number stands for the token issued next: the    *)
(* two expire together.                                                    *)
NewToken == IF Len(issued) < MaxTokens THEN Len(issued) + 1 ELSE MaxTokens

(* Granted: the new token is stored whatever is stored by now, and the     *)
(* call and those that waited are sent again with it.                      *)
RefreshOk(c) ==
  LET t == NewToken
  IN /\ calls[c].pc = "refreshing"
     /\ Grantable(c)
     /\ issued' = IF t \in DOMAIN issued THEN issued ELSE Append(issued, calls[c].held)
     /\ t > lapsed /\ issued'[t] = calls[c].held
     /\ access' = t /\ header' = t
     /\ calls' = [d \in Slots |->
          IF d = c \/ d \in Queued THEN [calls[d] EXCEPT !.pc = "sent", !.token = t, !.held = None]
                                   ELSE calls[d]]
     /\ isRefreshing' = FALSE
     /\ UNCHANGED <<lapsed, refresh, pin, user, key, shown, leaving, changed, past, loads>>

(* Who is told of a failed refresh.                                        *)
FailWith(c) == {c} \cup Queued

(* Failed: so do the calls that waited, with the error of the refresh.     *)
RefreshFails(c, why) ==
  /\ calls[c].pc = "refreshing"
  /\ Fails(FailWith(c), why)
  /\ isRefreshing' = FALSE

(* The server refuses it: the access token it came with has expired, is    *)
(* missing, or is of another user than the refresh token.                  *)
RefreshRefused(c) ==
  /\ ~Grantable(c)
  /\ RefreshFails(c, "401")

RefreshLost(c) == RefreshFails(c, "other")

-----------------------------------------------------------------------------
(* Opening the key: PBKDF2 over the PIN and the e-mail, then AES *)

(* The PIN dialog: with the right PIN the key goes to the session and the  *)
(* PIN to sessionStorage; otherwise the dialog shows the error.            *)
UnlockDone(c, right) ==
  LET call == calls[c]
      opened == right /\ call.held = call.by
  IN /\ call.pc = "opening" /\ call.flow = "unlock"
     /\ key' = IF opened THEN call.by ELSE key
     /\ pin' = IF opened THEN call.by ELSE pin
     /\ modal' = (modal /\ ~opened)
     /\ changed' = IF opened THEN "auth" ELSE changed
     /\ calls' = Settled({c})
     /\ UNCHANGED <<clock, stored, user, loading, restoring, page, header, isRefreshing,
                    leaving, past, loads>>

Opens(c) == calls[c].held = calls[c].by /\ calls[c].pin = calls[c].by

(* The restore effect, with the PIN it read when it started; nothing if it *)
(* was cancelled.                                                          *)
RestoreDone(c) ==
  LET live == ~calls[c].gone
  IN /\ calls[c].pc = "opening" /\ calls[c].flow = "restore"
     /\ key' = IF live /\ Opens(c) THEN calls[c].by ELSE key
     /\ pin' = IF live /\ ~Opens(c) THEN None ELSE pin
     /\ restoring' = (restoring /\ ~live)
     /\ changed' = IF ~live THEN changed ELSE IF Opens(c) THEN "auth" ELSE "view"
     /\ calls' = Settled({c})
     /\ UNCHANGED <<clock, stored, user, loading, modal, page, header, isRefreshing, leaving,
                    past, loads>>

-----------------------------------------------------------------------------
(* Effects *)

(* The cleanup of the restore effect, when what it depends on changed; an  *)
(* unlock whose dialog is taken down loses its form, not its continuation. *)
Cleaned(dialog) ==
  [c \in Slots |->
     IF (c \in Restores /\ changed = "auth") \/ (calls[c].flow = "unlock" /\ ~dialog)
       THEN [calls[c] EXCEPT !.gone = TRUE] ELSE calls[c]]

RunEffects ==
  LET rerun == changed = "auth" /\ ~loading /\ user # None /\ key = None
      waiting == restoring /\ ~(rerun /\ pin = None)
      dialog == IF loading THEN modal
                ELSE page = "app" /\ user # None /\ key = None /\ ~waiting
      free == CHOOSE c \in Slots : calls[c].pc = "idle"
  IN /\ changed # "none" /\ changed' = "none"
     /\ restoring' = waiting /\ modal' = dialog
     /\ page' = IF ~loading /\ user = None THEN "login" ELSE page
     /\ calls' = IF rerun /\ pin # None
                   THEN [Cleaned(dialog) EXCEPT ![free] = [Request("restore") EXCEPT !.pin = pin]]
                   ELSE Cleaned(dialog)
     /\ UNCHANGED <<clock, stored, pin, user, key, loading, header, isRefreshing, leaving,
                    past, loads>>

-----------------------------------------------------------------------------
(* What the user and the pages do *)

(* The form: one submission at a time.                                     *)
CanLogIn(c) ==
  /\ page = "login" /\ Under({"login"}) = {} /\ calls[c].pc = "idle"
  /\ Len(issued) < MaxTokens

(* What both ways of logging in do: the access token is stored, the        *)
(* refresh token if one came (else that of before stays), and refreshUser. *)
LogIn(c, u, newRefresh) ==
  LET t == Len(issued) + 1
  IN /\ issued' = Append(issued, u) /\ access' = t
     /\ refresh' = IF newRefresh = None THEN refresh ELSE newRefresh
     /\ calls' = [calls EXCEPT ![c] = [Idle EXCEPT !.flow = "login", !.pc = "sent", !.token = t]]
     /\ who' = u
     /\ straddled' = (straddled \/ user # None \/ key # None \/ Writers # {})
     /\ UNCHANGED <<lapsed, pin, user, key, shown, header, isRefreshing, leaving,
                    changed, asked, loads>>

PasswordLogin(c, u) == CanLogIn(c) /\ LogIn(c, u, u)

(* A passkey gives the access token alone.                                 *)
PasskeyLogin(c, u) == CanLogIn(c) /\ LogIn(c, u, None)

(* refreshUser, by a page of the settings after it changed the keys.       *)
RefreshUser(c, unusable) ==
  /\ unusable \in Unusable
  /\ page = "app" /\ user # None /\ calls[c].pc = "idle"
  /\ loads < MaxLoads /\ loads' = loads + 1
  /\ IF unusable
       THEN SignOutUnasked /\ UNCHANGED <<calls, straddled>>
       ELSE /\ calls' = [calls EXCEPT ![c] = Request("me")]
            /\ straddled' = (straddled \/ Under({"me", "login"}) # {})
            /\ UNCHANGED <<user, pin, loading, changed>>
  /\ UNCHANGED <<clock, stored, key, restoring, modal, page, header, isRefreshing, leaving,
                 who, asked>>

(* Any other request of a page: the passkeys, the TOTP code, the files.    *)
Send(c) ==
  /\ page = "app" /\ user # None /\ calls[c].pc = "idle"
  /\ calls' = [calls EXCEPT ![c] = Request("data")]
  /\ UNCHANGED <<clock, stored, pin, user, key, shown, header, isRefreshing, leaving, changed,
                 past, loads>>

(* The dialog is drawn for a user, and its button is disabled while the    *)
(* PIN it was given is tried.                                              *)
DialogShown == modal /\ user # None
CanUnlock(c) ==
  /\ DialogShown /\ calls[c].pc = "idle"
  /\ \A d \in Under({"unlock"}) : calls[d].gone

(* handlePinUnlock: the key bundle is fetched.                             *)
Unlock(c) ==
  /\ CanUnlock(c)
  /\ calls' = [calls EXCEPT ![c] = Request("unlock")]
  /\ asked' = TRUE
  /\ UNCHANGED <<clock, stored, pin, user, key, shown, header, isRefreshing, leaving, changed,
                 who, straddled, loads>>

(* logout: on the desktop the virtual disk is unmounted first.             *)
LogoutStart ==
  /\ page = "app" /\ user # None /\ ~leaving
  /\ leaving' = TRUE
  /\ UNCHANGED <<clock, stored, pin, user, key, shown, header, isRefreshing, calls, changed,
                 past, loads>>

\* Mutant: logout leaves the PIN in sessionStorage.
PinKept == pin

PinAfterLogout == None

LogoutDone ==
  /\ leaving /\ leaving' = FALSE
  /\ pin' = PinAfterLogout /\ access' = 0 /\ refresh' = None /\ user' = None /\ key' = None
  /\ page' = "login" /\ changed' = "auth"
  /\ asked' = FALSE /\ straddled' = (Writers # {})
  /\ UNCHANGED <<clock, loading, restoring, modal, header, isRefreshing, calls, who, loads>>

(* "Blocca sessione" of the tray.                                          *)
Lock ==
  /\ page = "app"
  /\ key' = None /\ pin' = None /\ modal' = TRUE
  /\ changed' = IF key # None THEN "auth" ELSE changed
  /\ asked' = FALSE
  /\ straddled' = (straddled \/ Under({"unlock"}) \cup Restores # {})
  /\ UNCHANGED <<clock, stored, user, loading, restoring, page, header, isRefreshing, calls,
                 leaving, who, loads>>

(* The page is loaded again (or crashed and was opened again): memory and  *)
(* calls are gone, the stored token decides.                               *)
Reload(c, p, unusable) ==
  /\ unusable \in Unusable
  /\ loads < MaxLoads /\ loads' = loads + 1
  /\ key' = None /\ restoring' = FALSE /\ modal' = FALSE /\ page' = p
  /\ header' = 0 /\ isRefreshing' = FALSE /\ leaving' = FALSE
  /\ IF unusable
       THEN SignOutUnasked /\ calls' = [d \in Slots |-> Idle]
       ELSE /\ calls' = [d \in Slots |->
                 IF d = c THEN [Idle EXCEPT !.flow = "me", !.pc = "sent", !.token = access]
                 ELSE Idle]
            /\ user' = None /\ loading' = TRUE /\ changed' = "none"
            /\ UNCHANGED pin
  /\ UNCHANGED <<clock, stored, past>>

(* Time: the next token expires.                                           *)
Lapse ==
  /\ lapsed < Len(issued) /\ lapsed' = lapsed + 1
  /\ UNCHANGED <<issued, stored, pin, user, key, shown, header, isRefreshing, calls,
                 leaving, changed, past, loads>>

-----------------------------------------------------------------------------
Answer(c) == AnswerOk(c) \/ Refused(c) \/ RefusedForGood(c) \/ AnswerError(c)

RefreshAnswer(c) == RefreshOk(c) \/ RefreshRefused(c) \/ RefreshLost(c)

Opened(c) == RestoreDone(c) \/ \E right \in BOOLEAN : UnlockDone(c, right)

(* The effects come first.                                                 *)
Calm == changed = "none"

Next ==
  \/ RunEffects
  \/ Calm /\ \E c \in Slots :
       \/ Answer(c) \/ RefreshAnswer(c) \/ Opened(c) \/ GetMeTimeout(c)
       \/ Send(c) \/ Unlock(c) \/ \E b \in BOOLEAN : RefreshUser(c, b)
       \/ \E u \in Users : PasswordLogin(c, u) \/ PasskeyLogin(c, u)
       \/ \E p \in {"login", "app"}, b \in BOOLEAN : Reload(c, p, b)
  \/ Calm /\ (LogoutStart \/ LogoutDone \/ Lock \/ Lapse)

Spec == Init /\ [][Next]_vars

(* Effects run, every request and every refresh gets an answer or an error *)
(* in the end, a key is opened or not, and the disk answers.  Strong for   *)
(* the answers: the effects of other answers hold them up only for a       *)
(* moment.                                                                 *)
Fairness ==
  /\ WF_vars(RunEffects) /\ SF_vars(Calm /\ LogoutDone)
  /\ \A c \in Slots : SF_vars(Calm /\ (Answer(c) \/ RefreshAnswer(c) \/ Opened(c)))

FairSpec == Spec /\ Fairness

-----------------------------------------------------------------------------
(* Properties *)

(* The tab belongs to the last who logged in: the user shown, the stored   *)
(* token and the key in memory are theirs or nobody's, unless a getMe, an  *)
(* unlock or a refresh was under way across a login or logout, or a login  *)
(* was made over a user or key.  (The cancelled restore, the kept refresh  *)
(* token of another user and the tokens kept after a 401 never mix two     *)
(* users.)                                                                 *)
TabIsOfLastLogin ==
  straddled \/
  /\ {user, key} \subseteq {None, who}
  /\ access # 0 => issued[access] = who

(* A key or a remembered PIN is there only if a PIN was typed since the    *)
(* last lock or logout, again unless an unlock or restore was under way    *)
(* then: not by a reload, a restore or a new login.                        *)
KeyWasAskedFor == (key # None \/ pin # None) => asked \/ straddled

(* At most one refresh is under way, isRefreshing says so, and a call      *)
(* waits only for one that is.                                             *)
RefreshIsSingle ==
  LET refreshers == {c \in Slots : calls[c].pc = "refreshing"}
  IN /\ Cardinality(refreshers) <= 1
     /\ isRefreshing = (refreshers # {})
     /\ Queued # {} => isRefreshing

(* The tab is of its types and its refresh is single.                      *)
Coherent == TypeOK /\ RefreshIsSingle

Begins(c) == calls[c].pc = "idle" /\ calls'[c].pc # "idle"

(* Every call ends: none is left in the queue of a refresh that failed or  *)
(* was granted, and one call alone is not sent around for ever by a server *)
(* that always says 401.  Only a call that waits behind the refreshes of   *)
(* others may be sent again without end, while others keep being started.  *)
CallsSettle ==
  \A c \in Slots :
    \/ []<>(calls[c].pc = "idle")
    \/ []<><<\E d \in Slots \ {c} : Begins(d)>>_vars

(* Who is signed in on a page of the layout without a key gets the PIN     *)
(* dialog, the key back, or is signed out: the restore that holds the      *)
(* dialog back always ends.                                                *)
SignedInIsUsable ==
  (page = "app" /\ user # None /\ key = None) ~> (modal \/ key # None \/ user = None)
=============================================================================
