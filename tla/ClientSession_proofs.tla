------------------------ MODULE ClientSession_proofs ------------------------
(* Proofs about ClientSession: a tab is of one user, its key was asked     *)
(* for, and its refresh is single, for any number of users and calls.      *)
EXTENDS ClientSession, FiniteSetTheorems, TLAPS

Calling(c) == calls[c].pc = "refreshing"

Single ==
  /\ \A c, d \in Slots : Calling(c) /\ Calling(d) => c = d
  /\ isRefreshing <=> \E c \in Slots : Calling(c)
  /\ \A c \in Slots : calls[c].pc = "queued" => isRefreshing

(* Who may still write a key was asked for it.  A restore that has         *)
(* outlived its user is cancelled by the effects that are due.             *)
Asked ==
  /\ key # None \/ pin # None => asked \/ straddled
  /\ \A c \in Slots : calls[c].flow = "unlock" => asked \/ straddled
  /\ \A c \in Restores : asked \/ straddled \/ changed = "auth"

(* Whose the calls are whose end writes a user, a key or a token.          *)
CallsOwned ==
  /\ \A c \in Slots : calls[c].flow = "unlock" => calls[c].by \in {None, who}
  /\ \A c \in Slots : calls[c].flow \in {"me", "login"} \/ Calling(c) =>
       calls[c].token = 0 \/ issued[calls[c].token] = who

Owned ==
  /\ \A c \in Restores : changed = "auth" \/ (calls[c].by = user /\ user # None)
  /\ straddled \/ (/\ user \in {None, who} /\ key \in {None, who}
                   /\ access # 0 => issued[access] = who
                   /\ CallsOwned)

IInv == TypeOK /\ Single /\ Asked /\ Owned

-----------------------------------------------------------------------------
(* Types *)

Accounts == Users \cup {None}

LEMMA IdleIsCall ==
  /\ Idle \in Call /\ Idle.flow = "none" /\ Idle.pc = "idle" /\ Idle.token = 0 /\ ~Idle.gone
  BY DEF Idle, Call

LEMMA Typed ==
  ASSUME TypeOK
  PROVE  /\ \A c \in Slots : calls[c] \in Call /\ calls[c].token \in 0..Len(issued)
         /\ issued \in Seq(Users) /\ Len(issued) \in Nat /\ lapsed \in 0..Len(issued)
         /\ {user, key, pin, refresh, who} \subseteq Accounts
         /\ {access, header} \subseteq 0..Len(issued)
         /\ TokenToSend \in 0..Len(issued)
  BY DEF TypeOK, Accounts, TokenToSend

LEMMA RequestIsCall ==
  ASSUME TypeOK, NEW f \in {"me", "unlock", "restore", "data"}
  PROVE  /\ Request(f) \in Call /\ Request(f).flow = f /\ Request(f).pc = "sent"
         /\ Request(f).token = TokenToSend /\ ~Request(f).gone
         /\ f \in {"unlock", "restore"} => Request(f).by = user
  <1>1. TokenToSend \in Nat /\ user \in Users \cup {None} /\ None \in Users \cup {None}
    BY Typed DEF Accounts
  <1> DEFINE by == IF f \in {"unlock", "restore"} THEN user ELSE None
  <1>2. by \in Users \cup {None}
    BY <1>1
  <1>3. Request(f) = [Idle EXCEPT !.flow = f, !.pc = "sent", !.token = TokenToSend, !.by = by]
    BY DEF Request
  <1> HIDE DEF by
  <1>4. /\ Request(f) \in Call /\ Request(f).flow = f /\ Request(f).pc = "sent"
        /\ Request(f).token = TokenToSend /\ ~Request(f).gone /\ Request(f).by = by
    BY <1>1, <1>2, <1>3, IdleIsCall DEF Call
  <1> QED
    BY <1>4 DEF by

(* The getMe of a login or of a loaded page.                               *)
Sent(f, t) == [Idle EXCEPT !.flow = f, !.pc = "sent", !.token = t]

LEMMA SentIsCall ==
  ASSUME NEW f \in {"me", "login"}, NEW t \in Nat
  PROVE  /\ Sent(f, t) \in Call /\ Sent(f, t).flow = f /\ Sent(f, t).pc = "sent"
         /\ Sent(f, t).token = t
  BY IdleIsCall DEF Call, Sent

(* A function of calls whose tokens exist.                                 *)
CallsTyped(cs, n) == cs \in [Slots -> Call] /\ \A c \in Slots : cs[c].token \in 0..n

LEMMA CallsAreTyped == TypeOK => CallsTyped(calls, Len(issued))
  BY DEF TypeOK, CallsTyped

LEMMA OneCallTyped ==
  ASSUME NEW cs, NEW n \in Nat, CallsTyped(cs, n), NEW c, NEW call \in Call, call.token \in 0..n
  PROVE  CallsTyped([cs EXCEPT ![c] = call], n)
  BY DEF CallsTyped

LEMMA SettledTyped ==
  ASSUME TypeOK, NEW S
  PROVE  CallsTyped(Settled(S), Len(issued))
  BY IdleIsCall DEF TypeOK, CallsTyped, Settled

(* What a failing call writes.                                             *)
LEMMA FailTyped ==
  ASSUME TypeOK, NEW S, NEW why, Fail(S, why), Calm,
         UNCHANGED <<clock, key, modal, header, leaving, past, loads>>,
         CallsTyped(calls', Len(issued)), isRefreshing' \in BOOLEAN
  PROVE  TypeOK'
  <1>1. {user', pin', refresh'} \subseteq Users \cup {None} /\ access' \in 0..Len(issued)
    BY DEF Fail, UserAfter, TypeOK
  <1>2. {loading', restoring'} \subseteq BOOLEAN /\ page' \in {"login", "app"}
    BY DEF Fail, RestoringAfter, TypeOK
  <1>3. changed' \in {"none", "view", "auth"}
    BY DEF Fail, TypeOK
  <1> QED
    BY <1>1, <1>2, <1>3 DEF TypeOK, CallsTyped, clock, past

-----------------------------------------------------------------------------
(* The refresh is single *)

LEMMA SingleKept ==
  ASSUME Single, UNCHANGED isRefreshing,
         \A c \in Slots : /\ calls'[c].pc = "refreshing" <=> calls[c].pc = "refreshing"
                          /\ calls'[c].pc = "queued" => calls[c].pc = "queued"
  PROVE  Single'
  BY DEF Single, Calling

LEMMA NoRefresh ==
  ASSUME ~isRefreshing', \A c \in Slots : calls'[c].pc \notin {"refreshing", "queued"}
  PROVE  Single'
  BY DEF Single, Calling

-----------------------------------------------------------------------------
(* The key was asked for *)

LEMMA AskedKept ==
  ASSUME Asked, Calm, asked \/ straddled => asked' \/ straddled',
         key' # None \/ pin' # None => key # None \/ pin # None \/ asked' \/ straddled',
         \A c \in Slots : /\ calls'[c].flow = "unlock" =>
                               calls[c].flow = "unlock" \/ asked' \/ straddled'
                          /\ calls'[c].flow = "restore" /\ ~calls'[c].gone =>
                               calls[c].flow = "restore" /\ ~calls[c].gone
  PROVE  Asked'
  BY DEF Asked, Calm, Restores, Under

-----------------------------------------------------------------------------
(* Steps that leave the calls alone *)

LEMMA LogoutStartHolds == IInv /\ Calm /\ LogoutStart => IInv'
  <1> SUFFICES ASSUME IInv, Calm, LogoutStart  PROVE IInv'
    OBVIOUS
  <1>1. TypeOK'
    BY DEF LogoutStart, clock, stored, shown, past, IInv, TypeOK
  <1>2. Single' /\ Asked'
    BY DEF LogoutStart, clock, stored, shown, past, IInv, Single, Calling, Asked, Restores, Under
  <1>3. Owned'
    BY DEF LogoutStart, clock, stored, shown, past, IInv, Owned, CallsOwned, Calling, Restores,
           Under
  <1> QED
    BY <1>1, <1>2, <1>3 DEF IInv

LEMMA LogoutDoneHolds == IInv /\ Calm /\ LogoutDone => IInv'
  <1> SUFFICES ASSUME IInv, Calm, LogoutDone  PROVE IInv'
    OBVIOUS
  <1>1. TypeOK'
    <2>1. {straddled', asked', leaving'} \subseteq BOOLEAN
      BY DEF LogoutDone
    <2>2. 0 \in 0..Len(issued)
      BY Typed DEF IInv
    <2> QED
      BY <2>1, <2>2 DEF LogoutDone, PinAfterLogout, clock, IInv, TypeOK
  <1>2. Single'
    BY SingleKept DEF LogoutDone, IInv
  <1>3. \A c \in Slots : straddled' \/ (calls[c].flow \notin {"me", "login", "unlock"} /\ ~Calling(c))
    BY DEF LogoutDone, Writers, Under, Calling
  <1>4. Asked'
    BY <1>3 DEF LogoutDone, PinAfterLogout, Asked, Restores, Under
  <1>5. Owned'
    BY <1>3 DEF LogoutDone, Owned, CallsOwned, Calling, Restores, Under
  <1> QED
    BY <1>1, <1>2, <1>4, <1>5 DEF IInv

LEMMA LockHolds == IInv /\ Calm /\ Lock => IInv'
  <1> SUFFICES ASSUME IInv, Calm, Lock  PROVE IInv'
    OBVIOUS
  <1>1. TypeOK'
    BY DEF Lock, clock, stored, IInv, TypeOK
  <1>2. Single'
    BY SingleKept DEF Lock, IInv
  <1>3. \A c \in Slots : straddled' \/ (calls[c].flow # "unlock" /\ c \notin Restores)
    BY DEF Lock, Under
  <1>4. Asked'
    BY <1>3 DEF Lock, Asked, Restores, Under
  <1>5. straddled => straddled'
    BY DEF Lock
  <1>6. Owned'
    BY <1>5 DEF Lock, IInv, Calm, Owned, CallsOwned, Calling, Restores, Under, clock, stored
  <1> QED
    BY <1>1, <1>2, <1>4, <1>6 DEF IInv

LEMMA LapseHolds == IInv /\ Calm /\ Lapse => IInv'
  <1> SUFFICES ASSUME IInv, Calm, Lapse  PROVE IInv'
    OBVIOUS
  <1>1. TypeOK'
    BY Typed DEF Lapse, stored, shown, past, IInv, TypeOK
  <1>2. Single' /\ Asked'
    BY DEF Lapse, stored, shown, past, IInv, Single, Calling, Asked, Restores, Under
  <1>3. Owned'
    BY DEF Lapse, stored, shown, past, IInv, Owned, CallsOwned, Calling, Restores, Under
  <1> QED
    BY <1>1, <1>2, <1>3 DEF IInv

LEMMA StutterHolds == IInv /\ UNCHANGED vars => IInv'
  <1> SUFFICES ASSUME IInv, UNCHANGED vars  PROVE IInv'
    OBVIOUS
  <1> USE DEF vars, clock, stored, shown, past
  <1>1. TypeOK'
    BY DEF IInv, TypeOK
  <1>2. Single' /\ Asked'
    BY DEF IInv, Single, Calling, Asked, Restores, Under
  <1>3. Owned'
    BY DEF IInv, Owned, CallsOwned, Calling, Restores, Under
  <1> QED
    BY <1>1, <1>2, <1>3 DEF IInv

-----------------------------------------------------------------------------
(* Requests are sent *)

LEMMA SendHolds ==
  ASSUME IInv, Calm, NEW c \in Slots, Send(c)
  PROVE  IInv'
  <1>1. /\ calls' = [calls EXCEPT ![c] = Request("data")] /\ calls[c].pc = "idle"
        /\ UNCHANGED <<clock, stored, pin, user, key, shown, header, isRefreshing, leaving,
                       changed, past, loads>>
    BY DEF Send
  <1>2. /\ Request("data") \in Call /\ Request("data").token \in 0..Len(issued)
        /\ Request("data").flow = "data" /\ Request("data").pc = "sent"
    BY RequestIsCall, Typed DEF IInv
  <1>3. \A d \in Slots : calls'[d] = IF d = c THEN Request("data") ELSE calls[d]
    BY <1>1 DEF IInv, TypeOK
  <1>4. CallsTyped(calls', Len(issued))
    BY <1>1, <1>2, CallsAreTyped, OneCallTyped, Typed DEF IInv
  <1>5. TypeOK'
    BY <1>1, <1>4 DEF IInv, TypeOK, CallsTyped, clock, stored, shown, past
  <1>6. Single'
    BY <1>1, <1>2, <1>3, SingleKept DEF IInv
  <1>7. Asked'
    BY <1>1, <1>2, <1>3, AskedKept DEF IInv, past
  <1>8. Owned'
    BY <1>1, <1>2, <1>3
    DEF IInv, Calm, Owned, CallsOwned, Calling, Restores, Under, clock, stored, past
  <1> QED
    BY <1>5, <1>6, <1>7, <1>8 DEF IInv

LEMMA UnlockHolds ==
  ASSUME IInv, Calm, NEW c \in Slots, Unlock(c)
  PROVE  IInv'
  <1>1. /\ calls' = [calls EXCEPT ![c] = Request("unlock")] /\ calls[c].pc = "idle"
        /\ UNCHANGED <<clock, stored, pin, user, key, shown, header, isRefreshing, leaving,
                       changed, who, straddled, loads>>
        /\ asked'
    BY DEF Unlock, CanUnlock
  <1>2. /\ Request("unlock") \in Call /\ Request("unlock").token \in 0..Len(issued)
        /\ Request("unlock").flow = "unlock" /\ Request("unlock").pc = "sent"
        /\ Request("unlock").by = user
    BY RequestIsCall, Typed DEF IInv
  <1>3. \A d \in Slots : calls'[d] = IF d = c THEN Request("unlock") ELSE calls[d]
    BY <1>1 DEF IInv, TypeOK
  <1>4. CallsTyped(calls', Len(issued))
    BY <1>1, <1>2, CallsAreTyped, OneCallTyped, Typed DEF IInv
  <1>5. TypeOK'
    BY <1>1, <1>4 DEF IInv, TypeOK, CallsTyped, clock, stored, shown, Unlock
  <1>6. Single'
    BY <1>1, <1>2, <1>3, SingleKept DEF IInv
  <1>7. Asked'
    BY <1>1, <1>2, <1>3, AskedKept DEF IInv
  <1>8. Owned'
    BY <1>1, <1>2, <1>3
    DEF IInv, Calm, Owned, CallsOwned, Calling, Restores, Under, clock, stored
  <1> QED
    BY <1>5, <1>6, <1>7, <1>8 DEF IInv

LEMMA RefreshUserHolds ==
  ASSUME IInv, Calm, NEW c \in Slots, NEW unusable, RefreshUser(c, unusable)
  PROVE  IInv'
  <1>0. /\ UNCHANGED <<clock, stored, key, restoring, modal, page, header, isRefreshing, leaving,
                       who, asked>>
        /\ loads < MaxLoads /\ loads' = loads + 1
    BY DEF RefreshUser
  <1>1. loads' \in 0..MaxLoads
    BY <1>0, SessionAssumption DEF IInv, TypeOK
  <1>2. CASE unusable
    <2>1. user' = None /\ pin' = None /\ loading' = FALSE /\ changed' = "auth"
          /\ UNCHANGED <<calls, straddled>>
      BY <1>2 DEF RefreshUser, SignOutUnasked
    <2>2. TypeOK'
      BY <1>0, <1>1, <2>1 DEF IInv, TypeOK, clock, stored
    <2>3. Single' /\ Asked'
      BY <1>0, <2>1 DEF IInv, Single, Calling, Asked, Restores, Under
    <2>4. Owned'
      BY <1>0, <2>1 DEF IInv, Owned, CallsOwned, Calling, Restores, Under, clock, stored
    <2> QED
      BY <2>2, <2>3, <2>4 DEF IInv
  <1>3. CASE ~unusable
    <2>1. /\ calls' = [calls EXCEPT ![c] = Request("me")] /\ calls[c].pc = "idle"
          /\ straddled => straddled'
          /\ UNCHANGED <<user, pin, loading, changed>>
      BY <1>3 DEF RefreshUser
    <2>2. straddled' \in BOOLEAN
      BY <1>3 DEF RefreshUser, IInv, TypeOK
    <2>3. access # 0
      BY <1>3 DEF RefreshUser, Unusable
    <2>4. /\ Request("me") \in Call /\ Request("me").token \in 0..Len(issued)
          /\ Request("me").flow = "me" /\ Request("me").pc = "sent"
          /\ Request("me").token = access
      BY <2>3, RequestIsCall, Typed DEF IInv, TokenToSend
    <2>5. \A d \in Slots : calls'[d] = IF d = c THEN Request("me") ELSE calls[d]
      BY <2>1 DEF IInv, TypeOK
    <2>6. CallsTyped(calls', Len(issued))
      BY <2>1, <2>4, CallsAreTyped, OneCallTyped, Typed DEF IInv
    <2>7. TypeOK'
      BY <1>0, <1>1, <2>1, <2>2, <2>6 DEF IInv, TypeOK, CallsTyped, clock, stored
    <2>8. Single'
      BY <1>0, <2>1, <2>4, <2>5, SingleKept DEF IInv
    <2>9. Asked'
      BY <1>0, <2>1, <2>4, <2>5, AskedKept DEF IInv
    <2>10. Owned'
      BY <1>0, <2>1, <2>4, <2>5
      DEF IInv, Calm, Owned, CallsOwned, Calling, Restores, Under, clock, stored
    <2> QED
      BY <2>7, <2>8, <2>9, <2>10 DEF IInv
  <1> QED
    BY <1>2, <1>3

(* One more token.                                                         *)
LEMMA TokenIssued ==
  ASSUME TypeOK, NEW u \in Users, issued' = Append(issued, u), Len(issued) + 1 <= MaxTokens
  PROVE  /\ issued' \in Seq(Users) /\ Len(issued') = Len(issued) + 1
         /\ Len(issued') <= MaxTokens /\ issued'[Len(issued) + 1] = u
         /\ \A t \in 1..Len(issued) : issued'[t] = issued[t]
  BY DEF TypeOK

LEMMA LogInHolds ==
  ASSUME IInv, Calm, NEW c \in Slots, NEW u \in Users, NEW new \in {u, None},
         CanLogIn(c), LogIn(c, u, new)
  PROVE  IInv'
  <1> DEFINE t == Len(issued) + 1
             call == Sent("login", Len(issued) + 1)
  <1>1. /\ issued' = Append(issued, u) /\ access' = t /\ who' = u
        /\ calls' = [calls EXCEPT ![c] = call] /\ calls[c].pc = "idle"
        /\ straddled' = (straddled \/ user # None \/ key # None \/ Writers # {})
        /\ UNCHANGED <<lapsed, pin, user, key, shown, header, isRefreshing, leaving, changed,
                       asked, loads>>
    BY DEF LogIn, CanLogIn, Sent
  <1>2. Len(issued) \in Nat /\ t <= MaxTokens
    BY Typed, SessionAssumption DEF CanLogIn, IInv
  <1>3. /\ issued' \in Seq(Users) /\ Len(issued') = t /\ Len(issued') <= MaxTokens
        /\ issued'[t] = u
    BY <1>1, <1>2, TokenIssued DEF IInv
  <1>4. /\ call \in Call /\ call.flow = "login" /\ call.pc = "sent" /\ call.token = t
    <2>1. t \in Nat
      BY <1>2
    <2> QED
      BY <2>1, SentIsCall
  <1> HIDE DEF call
  <1>5. \A d \in Slots : calls'[d] = IF d = c THEN call ELSE calls[d]
    BY <1>1 DEF IInv, TypeOK
  <1>6. CallsTyped(calls', t)
    <2>1. CallsTyped(calls, t)
      BY <1>2, CallsAreTyped DEF IInv, CallsTyped
    <2>2. t \in Nat /\ call.token \in 0..t
      BY <1>2, <1>4
    <2> QED
      BY <1>1, <1>4, <2>1, <2>2, OneCallTyped
  <1>7. TypeOK'
    <2>1. refresh' \in Users \cup {None}
      BY DEF LogIn, IInv, TypeOK
    <2>2. lapsed' \in 0..t /\ access' \in 0..t /\ header' \in 0..t
      BY <1>1, <1>2 DEF IInv, TypeOK
    <2>3. straddled' \in BOOLEAN
      BY <1>1
    <2> QED
      BY <1>1, <1>3, <1>6, <2>1, <2>2, <2>3 DEF IInv, TypeOK, CallsTyped, shown
  <1>8. Single'
    BY <1>1, <1>4, <1>5, SingleKept DEF IInv
  <1>9. Asked'
    BY <1>1, <1>4, <1>5, AskedKept DEF IInv
  <1>10. Owned'
    <2>1. ASSUME ~straddled'
          PROVE  /\ user = None /\ key = None
                 /\ \A d \in Slots : calls[d].flow \notin {"me", "login", "unlock"} /\ ~Calling(d)
      BY <2>1, <1>1 DEF Writers, Under, Calling
    <2>2. straddled' \/ CallsOwned'
      BY <2>1, <1>1, <1>3, <1>4, <1>5 DEF CallsOwned, Calling
    <2>3. straddled' \/ (user' \in {None, who'} /\ key' \in {None, who'} /\ issued'[access'] = who')
      BY <2>1, <1>1, <1>3
    <2>4. \A d \in Restores' : calls'[d].by = user' /\ user' # None
      BY <1>1, <1>4, <1>5 DEF IInv, Calm, Owned, Restores, Under
    <2> QED
      BY <2>2, <2>3, <2>4 DEF Owned
  <1> QED
    BY <1>7, <1>8, <1>9, <1>10 DEF IInv

LEMMA ReloadHolds ==
  ASSUME IInv, Calm, NEW c \in Slots, NEW p \in {"login", "app"}, NEW unusable,
         Reload(c, p, unusable)
  PROVE  IInv'
  <1>0. /\ UNCHANGED <<clock, stored, past>>
        /\ loads < MaxLoads /\ loads' = loads + 1
        /\ key' = None /\ restoring' = FALSE /\ modal' = FALSE /\ page' = p
        /\ header' = 0 /\ isRefreshing' = FALSE /\ leaving' = FALSE /\ user' = None
    BY DEF Reload, SignOutUnasked
  <1>1. loads' \in 0..MaxLoads /\ 0 \in 0..Len(issued)
    BY <1>0, SessionAssumption, Typed DEF IInv, TypeOK
  <1>2. pin' \in {pin, None} /\ loading' \in BOOLEAN /\ changed' \in {"none", "auth"}
    BY DEF Reload, SignOutUnasked
  <1>3. /\ calls' \in [Slots -> Call]
        /\ \A d \in Slots :
             \/ calls'[d] = Idle
             \/ calls'[d].flow = "me" /\ calls'[d].pc = "sent" /\ calls'[d].token = access
    <2> DEFINE call == Sent("me", access)
    <2>1. call \in Call /\ call.flow = "me" /\ call.pc = "sent" /\ call.token = access
      <3>1. access \in Nat
        BY Typed DEF IInv
      <3> QED
        BY <3>1, SentIsCall
    <2>2. \/ calls' = [d \in Slots |-> Idle]
          \/ calls' = [d \in Slots |-> IF d = c THEN call ELSE Idle]
      BY DEF Reload, Sent
    <2> HIDE DEF call
    <2> QED
      BY <2>1, <2>2, IdleIsCall
  <1>4. TypeOK'
    BY <1>0, <1>1, <1>2, <1>3, IdleIsCall DEF IInv, TypeOK, clock, stored, past
  <1>5. Single'
    BY <1>0, <1>3, IdleIsCall, NoRefresh
  <1>6. Asked'
    BY <1>0, <1>2, <1>3, IdleIsCall DEF IInv, Asked, Restores, Under, past
  <1>7. Owned'
    BY <1>0, <1>3, IdleIsCall
    DEF IInv, Owned, CallsOwned, Calling, Restores, Under, clock, stored, past
  <1> QED
    BY <1>4, <1>5, <1>6, <1>7 DEF IInv

-----------------------------------------------------------------------------
(* Calls fail *)

LEMMA SettledIs ==
  ASSUME NEW S, NEW c \in Slots
  PROVE  Settled(S)[c] = IF c \in S THEN Idle ELSE calls[c]
  BY DEF Settled

(* A failing call writes no key and no token; it may sign out.             *)
LEMMA FailOwned ==
  ASSUME IInv, Calm, NEW S, NEW why, Fail(S, why),
         UNCHANGED <<clock, key, modal, header, leaving, past, loads>>,
         \A c \in Slots : \/ calls'[c] = Idle
                          \/ calls'[c] = calls[c]
                          \/ /\ calls'[c].flow = "data"
                             /\ calls'[c].pc = calls[c].pc /\ calls'[c].token = calls[c].token
                             /\ ~(calls[c].flow = "restore" /\ ~calls[c].gone)
  PROVE  Asked' /\ Owned'
  <1>1. /\ user' \in {user, None} /\ pin' \in {pin, None} /\ access' \in {access, 0}
        /\ user' = user \/ changed' = "auth"
    BY DEF Fail, UserAfter
  <1>2. Asked'
    BY <1>1, IdleIsCall, AskedKept DEF IInv, past
  <1>3. \A c \in Restores' : c \in Restores /\ calls'[c] = calls[c]
    BY IdleIsCall DEF Restores, Under
  <1>4. CallsOwned => CallsOwned'
    BY IdleIsCall DEF CallsOwned, Calling, clock, past
  <1>5. Owned'
    BY <1>1, <1>3, <1>4 DEF IInv, Calm, Owned, clock, past
  <1> QED
    BY <1>2, <1>5

LEMMA FailsHolds ==
  ASSUME IInv, Calm, NEW S, NEW why, Fails(S, why), isRefreshing' \in BOOLEAN, Single'
  PROVE  IInv'
  <1>1. /\ Fail(S, why) /\ calls' = Settled(S)
        /\ UNCHANGED <<clock, key, modal, header, leaving, past, loads>>
    BY DEF Fails
  <1>2. CallsTyped(calls', Len(issued))
    BY <1>1, SettledTyped DEF IInv
  <1>3. TypeOK'
    BY <1>1, <1>2, FailTyped DEF IInv
  <1>4. \A c \in Slots : calls'[c] = Idle \/ calls'[c] = calls[c]
    BY <1>1, SettledIs
  <1>5. Asked' /\ Owned'
    BY <1>1, <1>4, FailOwned
  <1> QED
    BY <1>3, <1>5 DEF IInv

LEMMA SentFailsHolds ==
  ASSUME IInv, Calm, NEW c \in Slots, calls[c].pc = "sent", NEW why, Fails({c}, why),
         UNCHANGED isRefreshing
  PROVE  IInv'
  <1>1. \A d \in Slots : calls'[d] = IF d = c THEN Idle ELSE calls[d]
    BY SettledIs DEF Fails
  <1>2. Single'
    BY <1>1, IdleIsCall, SingleKept DEF IInv
  <1>3. isRefreshing' \in BOOLEAN
    BY DEF IInv, TypeOK
  <1> QED
    BY <1>2, <1>3, FailsHolds

LEMMA RefreshFailsHolds ==
  ASSUME IInv, Calm, NEW c \in Slots, NEW why, RefreshFails(c, why)
  PROVE  IInv'
  <1>1. /\ calls[c].pc = "refreshing" /\ Fails(FailWith(c), why) /\ isRefreshing' = FALSE
    BY DEF RefreshFails
  <1>2. \A d \in Slots : calls'[d] = IF d = c \/ d \in Queued THEN Idle ELSE calls[d]
    BY <1>1, SettledIs DEF Fails, FailWith
  <1>3. \A d \in Slots : calls'[d].pc \notin {"refreshing", "queued"}
    BY <1>1, <1>2, IdleIsCall DEF IInv, Single, Calling, Queued
  <1>4. Single'
    BY <1>1, <1>3, NoRefresh
  <1> QED
    BY <1>1, <1>4, FailsHolds

LEMMA GetMeTimeoutHolds ==
  ASSUME IInv, Calm, NEW c \in Slots, GetMeTimeout(c)
  PROVE  IInv'
  <1>1. /\ Fail({c}, "other") /\ calls' = [calls EXCEPT ![c].flow = "data"]
        /\ calls[c].flow \in {"me", "login"}
        /\ UNCHANGED <<clock, key, modal, header, isRefreshing, leaving, past, loads>>
    BY DEF GetMeTimeout, Under
  <1>2. /\ calls[c] \in Call /\ calls[c].token \in 0..Len(issued) /\ Len(issued) \in Nat
    BY Typed DEF IInv
  <1>3. \A d \in Slots :
          calls'[d] = IF d = c THEN [calls[c] EXCEPT !.flow = "data"] ELSE calls[d]
    BY <1>1 DEF IInv, TypeOK
  <1>4. /\ calls'[c] \in Call /\ calls'[c].flow = "data" /\ calls'[c].pc = calls[c].pc
        /\ calls'[c].token = calls[c].token
    BY <1>2, <1>3 DEF Call
  <1>5. CallsTyped(calls', Len(issued))
    BY <1>1, <1>2, <1>3, <1>4 DEF CallsTyped, IInv, TypeOK
  <1>6. TypeOK'
    BY <1>1, <1>5, FailTyped DEF IInv, TypeOK
  <1>7. Single'
    BY <1>1, <1>3, <1>4, SingleKept DEF IInv
  <1>8. Asked' /\ Owned'
    BY <1>1, <1>3, <1>4, FailOwned
  <1> QED
    BY <1>6, <1>7, <1>8 DEF IInv

-----------------------------------------------------------------------------
(* Calls are answered *)

LEMMA AnswerOkHolds ==
  ASSUME IInv, Calm, NEW c \in Slots, AnswerOk(c)
  PROVE  IInv'
  <1> DEFINE call == calls[c]
             whose == issued[calls[c].token]
             opening == [calls[c] EXCEPT !.pc = "opening", !.held = whose, !.token = 0,
                                         !.retry = FALSE]
             next == IF calls[c].flow = "unlock" \/ c \in Restores THEN opening ELSE Idle
  <1>1. /\ calls[c].pc = "sent" /\ calls[c].token > lapsed
        /\ calls' = [calls EXCEPT ![c] = next]
        /\ UNCHANGED <<clock, stored, pin, key, modal, header, isRefreshing, leaving,
                       past, loads>>
    BY DEF AnswerOk
  <1>2. /\ calls[c] \in Call /\ Len(issued) \in Nat
        /\ whose \in Users /\ calls[c].token # 0
    BY <1>1, Typed DEF IInv
  <1>3. /\ opening \in Call /\ opening.pc = "opening" /\ opening.token = 0
        /\ opening.flow = calls[c].flow /\ opening.by = calls[c].by /\ opening.gone = calls[c].gone
    BY <1>2 DEF Call
  <1> HIDE DEF opening
  <1>4. /\ next \in Call /\ next.token \in 0..Len(issued)
        /\ next.pc \in {"opening", "idle"} /\ next.flow \in {"none", "unlock", "restore"}
        /\ next.flow \in {"unlock", "restore"} =>
             next.flow = calls[c].flow /\ next.by = calls[c].by /\ next.gone = calls[c].gone
    BY <1>2, <1>3, IdleIsCall DEF Restores, Under
  <1> HIDE DEF next
  <1>5. \A d \in Slots : calls'[d] = IF d = c THEN next ELSE calls[d]
    BY <1>1 DEF IInv, TypeOK
  <1>6. CallsTyped(calls', Len(issued))
    BY <1>1, <1>2, <1>4, CallsAreTyped, OneCallTyped DEF IInv
  <1>7. CASE calls[c].flow \in {"me", "login"}
    <2>1. /\ user' = whose /\ loading' = FALSE /\ restoring' = (restoring \/ pin # None)
          /\ page' = IF calls[c].flow = "login" THEN "app" ELSE page
          /\ changed' = "auth"
      BY <1>7 DEF AnswerOk
    <2>2. TypeOK'
      BY <1>1, <1>2, <1>6, <2>1 DEF IInv, TypeOK, CallsTyped, clock, stored, past
    <2>3. Asked'
      BY <1>1, <1>4, <1>5, AskedKept DEF IInv, past
    <2>4. straddled \/ whose = who
      BY <1>7, <1>2 DEF IInv, Owned, CallsOwned
    <2>5. CallsOwned => CallsOwned'
      BY <1>1, <1>4, <1>5 DEF CallsOwned, Calling, clock, past
    <2>6. Owned'
      BY <1>1, <2>1, <2>4, <2>5 DEF IInv, Owned, clock, stored, past
    <2>7. Single'
      BY <1>1, <1>4, <1>5, SingleKept DEF IInv
    <2> QED
      BY <2>2, <2>3, <2>6, <2>7 DEF IInv
  <1>8. CASE calls[c].flow \notin {"me", "login"}
    <2>1. UNCHANGED <<user, loading, restoring, page, changed>>
      BY <1>8 DEF AnswerOk
    <2>2. TypeOK'
      BY <1>1, <1>6, <2>1 DEF IInv, TypeOK, CallsTyped, clock, stored, past
    <2>3. Asked'
      BY <1>1, <1>4, <1>5, AskedKept DEF IInv, past
    <2>5. CallsOwned => CallsOwned'
      BY <1>1, <1>4, <1>5 DEF CallsOwned, Calling, clock, past
    <2>6. \A d \in Restores' : d \in Restores /\ calls'[d].by = calls[d].by
      BY <1>4, <1>5 DEF Restores, Under
    <2>7. Owned'
      BY <1>1, <2>1, <2>5, <2>6 DEF IInv, Owned, clock, stored, past
    <2>8. Single'
      BY <1>1, <1>4, <1>5, SingleKept DEF IInv
    <2> QED
      BY <2>2, <2>3, <2>7, <2>8 DEF IInv
  <1> QED
    BY <1>7, <1>8

LEMMA RefusedHolds ==
  ASSUME IInv, Calm, NEW c \in Slots, Refused(c)
  PROVE  IInv'
  <1> DEFINE waits == [calls[c] EXCEPT !.pc = "queued", !.token = 0]
             asks == [calls[c] EXCEPT !.pc = "refreshing", !.retry = TRUE, !.token = access,
                                      !.held = refresh]
             next == IF isRefreshing THEN waits ELSE asks
  <1>1. /\ calls[c].pc = "sent" /\ calls' = [calls EXCEPT ![c] = next] /\ isRefreshing' = TRUE
        /\ UNCHANGED <<clock, stored, pin, user, key, shown, header, leaving, changed, past,
                       loads>>
    BY DEF Refused, JoinsQueue
  <1>2. /\ calls[c] \in Call /\ Len(issued) \in Nat /\ access \in 0..Len(issued)
        /\ refresh \in Users \cup {None}
    BY Typed DEF IInv, Accounts
  <1>3. /\ waits \in Call /\ waits.pc = "queued" /\ waits.token = 0
        /\ waits.flow = calls[c].flow /\ waits.by = calls[c].by /\ waits.gone = calls[c].gone
    BY <1>2 DEF Call
  <1>4. /\ asks \in Call /\ asks.pc = "refreshing" /\ asks.token = access
        /\ asks.flow = calls[c].flow /\ asks.by = calls[c].by /\ asks.gone = calls[c].gone
    <2>1. access \in Nat
      BY <1>2
    <2> QED
      BY <1>2, <2>1 DEF Call
  <1> HIDE DEF waits, asks
  <1>5. /\ next \in Call /\ next.token \in {0, access}
        /\ next.pc = IF isRefreshing THEN "queued" ELSE "refreshing"
        /\ next.flow = calls[c].flow /\ next.by = calls[c].by /\ next.gone = calls[c].gone
    BY <1>3, <1>4
  <1> HIDE DEF next
  <1>6. \A d \in Slots : calls'[d] = IF d = c THEN next ELSE calls[d]
    BY <1>1 DEF IInv, TypeOK
  <1>7. TypeOK'
    <2>1. next.token \in 0..Len(issued)
      BY <1>2, <1>5
    <2>2. CallsTyped(calls', Len(issued))
      BY <1>1, <1>2, <1>5, <2>1, CallsAreTyped, OneCallTyped DEF IInv
    <2> QED
      BY <1>1, <2>2 DEF IInv, TypeOK, CallsTyped, clock, stored, shown, past
  <1>8. Single'
    BY <1>1, <1>5, <1>6 DEF IInv, Single, Calling
  <1>9. Asked'
    BY <1>1, <1>5, <1>6, AskedKept DEF IInv, past
  <1>10. Owned'
    <2>1. straddled \/ CallsOwned'
      BY <1>1, <1>5, <1>6 DEF IInv, Owned, CallsOwned, Calling, clock, past
    <2>2. \A d \in Restores' : d \in Restores /\ calls'[d].by = calls[d].by
      BY <1>5, <1>6 DEF Restores, Under
    <2> QED
      BY <1>1, <2>1, <2>2 DEF IInv, Owned, clock, stored, past
  <1> QED
    BY <1>7, <1>8, <1>9, <1>10 DEF IInv

LEMMA RefreshOkHolds ==
  ASSUME IInv, Calm, NEW c \in Slots, RefreshOk(c)
  PROVE  IInv'
  <1> DEFINE t == NewToken
             u == calls[c].held
             again(d) == [calls[d] EXCEPT !.pc = "sent", !.token = t, !.held = None]
  <1>1. /\ calls[c].pc = "refreshing" /\ Grantable(c)
        /\ issued' = IF t \in DOMAIN issued THEN issued ELSE Append(issued, u)
        /\ t > lapsed /\ issued'[t] = u /\ access' = t /\ header' = t
        /\ calls' = [d \in Slots |-> IF d = c \/ d \in Queued THEN again(d) ELSE calls[d]]
        /\ isRefreshing' = FALSE
        /\ UNCHANGED <<lapsed, refresh, pin, user, key, shown, leaving, changed, past, loads>>
    BY DEF RefreshOk
  <1>2. /\ Len(issued) \in Nat /\ calls[c].token \in 1..Len(issued)
        /\ u = issued[calls[c].token] /\ u \in Users
    <2>1. /\ Len(issued) \in Nat /\ lapsed \in 0..Len(issued) /\ issued \in Seq(Users)
          /\ calls[c].token \in 0..Len(issued)
      BY Typed DEF IInv
    <2>2. calls[c].token > lapsed /\ issued[calls[c].token] = u
      BY <1>1 DEF Grantable
    <2>3. calls[c].token \in 1..Len(issued)
      BY <2>1, <2>2
    <2>4. issued[calls[c].token] \in Users
      BY <2>1, <2>3
    <2> QED
      BY <2>1, <2>2, <2>3, <2>4
  \* A number of its own, or past the bound the last one.
  <1>3. /\ t \in 1..Len(issued') /\ Len(issued') \in Nat /\ Len(issued) <= Len(issued')
        /\ issued' \in Seq(Users) /\ Len(issued') <= MaxTokens
        /\ issued'[t] = u /\ \A n \in 1..Len(issued) : issued'[n] = issued[n]
    <2>0. issued \in Seq(Users)
      BY DEF IInv, TypeOK
    <2>1. DOMAIN issued = 1..Len(issued)
      BY <2>0
    <2>6. Len(issued) <= MaxTokens /\ MaxTokens \in Nat
      BY SessionAssumption DEF IInv, TypeOK
    <2> HIDE DEF t, u, again
    <2>4. issued' = IF t \in 1..Len(issued) THEN issued ELSE Append(issued, u)
      BY <1>1, <2>1
    <2>5. issued'[t] = u
      BY <1>1
    <2>2. CASE Len(issued) < MaxTokens
      <3>1. t = Len(issued) + 1
        BY <2>2 DEF t, NewToken
      <3>2. issued' = Append(issued, u)
        BY <1>2, <2>4, <3>1
      <3> QED
        BY <1>2, <2>0, <2>6, <2>2, <3>1, <3>2, TokenIssued DEF IInv
    <2>3. CASE ~(Len(issued) < MaxTokens)
      <3>1. t = Len(issued) /\ t \in 1..Len(issued)
        <4>0. PICK l \in Nat : l = Len(issued)
          BY <1>2
        <4>3. l # 0
          BY <1>2, <4>0
        <4>4. MaxTokens = l
          <5>1. l <= MaxTokens /\ ~(l < MaxTokens)
            BY <2>3, <2>6, <4>0
          <5> QED
            BY <2>6, <4>0, <5>1
        <4>1. MaxTokens = Len(issued) /\ Len(issued) \in 1..Len(issued)
          BY <4>0, <4>3, <4>4
        <4>2. t = MaxTokens
          BY <2>3 DEF t, NewToken
        <4> QED
          BY <4>1, <4>2
      <3>2. issued' = issued
        BY <2>4, <3>1
      <3> QED
        BY <1>2, <2>0, <2>6, <2>5, <3>1, <3>2
    <2> QED
      BY <2>2, <2>3
  <1> HIDE DEF t
  <1>4. \A d \in Slots :
          /\ again(d) \in Call /\ again(d).pc = "sent" /\ again(d).token = t
          /\ again(d).flow = calls[d].flow /\ again(d).by = calls[d].by
          /\ again(d).gone = calls[d].gone
    <2> TAKE d \in Slots
    <2>1. calls[d] \in Call /\ None \in Users \cup {None} /\ t \in Nat
      BY <1>3, Typed DEF IInv
    <2> QED
      BY <2>1 DEF Call
  <1> HIDE DEF again
  <1>5. \A d \in Slots : calls'[d] = IF d = c \/ d \in Queued THEN again(d) ELSE calls[d]
    BY <1>1
  <1>6. TypeOK'
    <2>1. \A d \in Slots : calls'[d] \in Call /\ calls'[d].token \in 0..Len(issued')
      BY <1>3, <1>4, <1>5, Typed DEF IInv
    <2>2. calls' \in [Slots -> Call]
      BY <1>1, <2>1
    <2>3. {lapsed', access', header'} \subseteq 0..Len(issued')
      BY <1>1, <1>3, Typed DEF IInv
    <2> QED
      BY <1>1, <1>3, <2>1, <2>2, <2>3 DEF IInv, TypeOK, shown, past
  <1>7. Single'
    <2>1. \A d \in Slots : calls'[d].pc \notin {"refreshing", "queued"}
      BY <1>1, <1>4, <1>5 DEF IInv, Single, Calling, Queued
    <2> QED
      BY <1>1, <2>1, NoRefresh
  <1>8. Asked'
    BY <1>1, <1>4, <1>5, AskedKept DEF IInv, past
  <1>9. Owned'
    <2>1. straddled \/ u = who
      BY <1>1, <1>2 DEF IInv, Owned, CallsOwned, Calling
    <2>2. ASSUME ~straddled, NEW d \in Slots,
                 calls'[d].flow \in {"me", "login"} \/ Calling(d)'
          PROVE  calls'[d].token = 0 \/ issued'[calls'[d].token] = who
      <3>1. CASE d = c \/ d \in Queued
        BY <3>1, <2>1, <2>2, <1>3, <1>4, <1>5
      <3>2. CASE ~(d = c \/ d \in Queued)
        <4>1. calls'[d] = calls[d]
          BY <3>2, <1>5
        <4>2. calls[d].token = 0 \/ issued[calls[d].token] = who
          BY <4>1, <2>2 DEF IInv, Owned, CallsOwned, Calling
        <4>3. calls[d].token \in 0..Len(issued)
          BY Typed DEF IInv
        <4> QED
          BY <4>1, <4>2, <4>3, <1>2, <1>3
      <3> QED
        BY <3>1, <3>2
    <2>3. straddled \/ \A d \in Slots : calls'[d].flow = "unlock" => calls'[d].by \in {None, who}
      BY <1>4, <1>5 DEF IInv, Owned, CallsOwned
    <2>4. \A d \in Restores' : d \in Restores /\ calls'[d].by = calls[d].by
      BY <1>4, <1>5 DEF Restores, Under
    <2>5. straddled \/ CallsOwned'
      BY <2>2, <2>3, <1>1 DEF CallsOwned, past
    <2> QED
      BY <1>1, <1>3, <2>1, <2>4, <2>5 DEF IInv, Owned, past
  <1> QED
    BY <1>6, <1>7, <1>8, <1>9 DEF IInv

-----------------------------------------------------------------------------
(* Keys are opened *)

LEMMA UnlockDoneHolds ==
  ASSUME IInv, Calm, NEW c \in Slots, NEW right \in BOOLEAN, UnlockDone(c, right)
  PROVE  IInv'
  <1> DEFINE opened == right /\ calls[c].held = calls[c].by
  <1>1. /\ calls[c].pc = "opening" /\ calls[c].flow = "unlock"
        /\ key' = (IF opened THEN calls[c].by ELSE key)
        /\ pin' = (IF opened THEN calls[c].by ELSE pin)
        /\ modal' = (modal /\ ~opened)
        /\ changed' = (IF opened THEN "auth" ELSE changed)
        /\ calls' = Settled({c})
        /\ UNCHANGED <<clock, stored, user, loading, restoring, page, header, isRefreshing,
                       leaving, past, loads>>
    BY DEF UnlockDone
  <1>2. calls[c].by \in Users \cup {None}
    BY Typed DEF IInv, Call
  <1> HIDE DEF opened
  <1>3. \A d \in Slots : calls'[d] = IF d = c THEN Idle ELSE calls[d]
    BY <1>1, SettledIs
  <1>4. TypeOK'
    <2>1. CallsTyped(calls', Len(issued))
      BY <1>1, SettledTyped DEF IInv
    <2>2. {key', pin'} \subseteq Users \cup {None} /\ modal' \in BOOLEAN
          /\ changed' \in {"none", "view", "auth"}
      BY <1>1, <1>2 DEF IInv, TypeOK
    <2> QED
      BY <1>1, <2>1, <2>2 DEF IInv, TypeOK, CallsTyped, clock, stored, past
  <1>5. Single'
    BY <1>1, <1>3, IdleIsCall, SingleKept DEF IInv
  <1>6. Asked'
    <2>1. asked \/ straddled
      BY <1>1 DEF IInv, Asked
    <2> QED
      BY <1>1, <1>3, <2>1, IdleIsCall, AskedKept DEF IInv, past
  <1>7. Owned'
    <2>1. straddled \/ calls[c].by \in {None, who}
      BY <1>1 DEF IInv, Owned, CallsOwned
    <2>2. CallsOwned => CallsOwned'
      BY <1>1, <1>3, IdleIsCall DEF CallsOwned, Calling, clock, past
    <2>3. \A d \in Restores' : d \in Restores /\ calls'[d].by = calls[d].by
      BY <1>3, IdleIsCall DEF Restores, Under
    <2> QED
      BY <1>1, <2>1, <2>2, <2>3 DEF IInv, Calm, Owned, clock, stored, past
  <1> QED
    BY <1>4, <1>5, <1>6, <1>7 DEF IInv

LEMMA RestoreDoneHolds ==
  ASSUME IInv, Calm, NEW c \in Slots, RestoreDone(c)
  PROVE  IInv'
  <1> DEFINE live == ~calls[c].gone
  <1>1. /\ calls[c].pc = "opening" /\ calls[c].flow = "restore"
        /\ key' = (IF live /\ Opens(c) THEN calls[c].by ELSE key)
        /\ pin' = (IF live /\ ~Opens(c) THEN None ELSE pin)
        /\ restoring' = (restoring /\ ~live)
        /\ changed' = (IF ~live THEN changed ELSE IF Opens(c) THEN "auth" ELSE "view")
        /\ calls' = Settled({c})
        /\ UNCHANGED <<clock, stored, user, loading, modal, page, header, isRefreshing, leaving,
                       past, loads>>
    BY DEF RestoreDone
  <1>2. calls[c].by \in Users \cup {None}
    BY Typed DEF IInv, Call
  <1>3. live => c \in Restores
    BY <1>1 DEF Restores, Under
  <1> HIDE DEF live
  <1>4. \A d \in Slots : calls'[d] = IF d = c THEN Idle ELSE calls[d]
    BY <1>1, SettledIs
  <1>5. TypeOK'
    <2>1. CallsTyped(calls', Len(issued))
      BY <1>1, SettledTyped DEF IInv
    <2>2. {key', pin'} \subseteq Users \cup {None} /\ restoring' \in BOOLEAN
          /\ changed' \in {"none", "view", "auth"}
      BY <1>1, <1>2 DEF IInv, TypeOK
    <2> QED
      BY <1>1, <2>1, <2>2 DEF IInv, TypeOK, CallsTyped, clock, stored, past
  <1>6. Single'
    BY <1>1, <1>4, IdleIsCall, SingleKept DEF IInv
  <1>7. Asked'
    <2>1. live => asked \/ straddled
      BY <1>3 DEF IInv, Calm, Asked
    <2> QED
      BY <1>1, <1>4, <2>1, IdleIsCall, AskedKept DEF IInv, past
  <1>8. Owned'
    <2>1. live => calls[c].by = user
      BY <1>3 DEF IInv, Calm, Owned
    <2>2. CallsOwned => CallsOwned'
      BY <1>1, <1>4, IdleIsCall DEF CallsOwned, Calling, clock, past
    <2>3. \A d \in Restores' : d \in Restores /\ calls'[d].by = calls[d].by
      BY <1>4, IdleIsCall DEF Restores, Under
    <2> QED
      BY <1>1, <2>1, <2>2, <2>3 DEF IInv, Calm, Owned, clock, stored, past
  <1> QED
    BY <1>5, <1>6, <1>7, <1>8 DEF IInv

-----------------------------------------------------------------------------
(* Effects *)

(* When the restore effect is due and has a PIN, the answer that made it   *)
(* due has left a call free.                                               *)
Room ==
  changed = "auth" => user = None \/ pin = None \/ \E c \in Slots : calls[c].pc = "idle"

LEMMA RunEffectsHolds ==
  ASSUME IInv, Room, RunEffects
  PROVE  IInv'
  <1> DEFINE rerun == changed = "auth" /\ ~loading /\ user # None /\ key = None
             waiting == restoring /\ ~(rerun /\ pin = None)
             dialog == IF loading THEN modal
                       ELSE page = "app" /\ user # None /\ key = None /\ ~waiting
             free == CHOOSE c \in Slots : calls[c].pc = "idle"
             new == [Request("restore") EXCEPT !.pin = pin]
             starts == rerun /\ pin # None
  <1>1. /\ changed # "none" /\ changed' = "none"
        /\ restoring' = waiting /\ modal' = dialog
        /\ page' = (IF ~loading /\ user = None THEN "login" ELSE page)
        /\ calls' = (IF starts THEN [Cleaned(dialog) EXCEPT ![free] = new] ELSE Cleaned(dialog))
        /\ UNCHANGED <<clock, stored, pin, user, key, loading, header, isRefreshing, leaving,
                       past, loads>>
    BY DEF RunEffects
  <1>2. starts => free \in Slots /\ calls[free].pc = "idle" /\ user # None /\ changed = "auth"
    BY DEF Room
  <1>3. /\ new \in Call /\ new.flow = "restore" /\ new.pc = "sent" /\ new.by = user
        /\ new.token \in 0..Len(issued)
    <2>1. /\ Request("restore") \in Call /\ Request("restore").flow = "restore"
          /\ Request("restore").pc = "sent" /\ Request("restore").by = user
          /\ Request("restore").token \in 0..Len(issued)
      BY RequestIsCall, Typed DEF IInv
    <2>2. pin \in Users \cup {None}
      BY DEF IInv, TypeOK
    <2> QED
      BY <2>1, <2>2 DEF Call
  <1>4. waiting \in BOOLEAN /\ dialog \in BOOLEAN
    BY DEF IInv, TypeOK
  <1> HIDE DEF new, waiting, dialog, free
  <1>5. /\ Cleaned(dialog) \in [Slots -> Call]
        /\ \A c \in Slots :
             /\ Cleaned(dialog)[c].flow = calls[c].flow /\ Cleaned(dialog)[c].pc = calls[c].pc
             /\ Cleaned(dialog)[c].by = calls[c].by /\ Cleaned(dialog)[c].token = calls[c].token
             /\ calls[c].gone => Cleaned(dialog)[c].gone
             /\ c \in Restores /\ changed = "auth" => Cleaned(dialog)[c].gone
    <2>1. \A c \in Slots : calls[c] \in Call
      BY Typed DEF IInv
    <2> QED
      BY <2>1 DEF Cleaned, Call
  <1>6. \A c \in Slots : calls'[c] = IF starts /\ c = free THEN new ELSE Cleaned(dialog)[c]
    BY <1>1, <1>5
  <1>7. TypeOK'
    <2>1. \A c \in Slots : calls'[c].token \in 0..Len(issued)
      BY <1>3, <1>5, <1>6, Typed DEF IInv
    <2>2. calls' \in [Slots -> Call]
      BY <1>1, <1>3, <1>5
    <2>3. page' \in {"login", "app"} /\ restoring' \in BOOLEAN /\ modal' \in BOOLEAN
      BY <1>1, <1>4 DEF IInv, TypeOK
    <2> QED
      BY <1>1, <2>1, <2>2, <2>3 DEF IInv, TypeOK, clock, stored, past
  <1>8. Single'
    <2>1. \A c \in Slots : /\ calls'[c].pc = "refreshing" <=> calls[c].pc = "refreshing"
                           /\ calls'[c].pc = "queued" => calls[c].pc = "queued"
      BY <1>2, <1>3, <1>5, <1>6
    <2> QED
      BY <1>1, <2>1, SingleKept DEF IInv
  <1>9. \A c \in Slots : calls'[c].flow = "restore" /\ ~calls'[c].gone =>
          \/ starts /\ c = free
          \/ c \in Restores /\ changed # "auth" /\ calls'[c].by = calls[c].by
    BY <1>5, <1>6 DEF Restores, Under
  <1>10. Asked'
    <2>1. starts => asked \/ straddled
      BY DEF IInv, Asked
    <2>2. \A c \in Slots : calls'[c].flow = "unlock" => asked \/ straddled
      BY <1>3, <1>5, <1>6 DEF IInv, Asked
    <2>3. \A c \in Restores' : asked \/ straddled
      BY <1>9, <2>1 DEF IInv, Asked, Restores, Under
    <2> QED
      BY <1>1, <2>2, <2>3 DEF IInv, Asked, past
  <1>11. Owned'
    <2>1. \A c \in Restores' : calls'[c].by = user /\ user # None
      BY <1>2, <1>3, <1>6, <1>9 DEF IInv, Owned, Restores, Under
    <2>2. CallsOwned => CallsOwned'
      BY <1>1, <1>3, <1>5, <1>6 DEF CallsOwned, Calling, clock, past
    <2> QED
      BY <1>1, <2>1, <2>2 DEF IInv, Owned, clock, stored, past
  <1> QED
    BY <1>7, <1>8, <1>10, <1>11 DEF IInv

LEMMA NoneDue == changed' = "none" => Room'
  BY DEF Room

LEMMA FailRoom ==
  ASSUME Calm, NEW c \in Slots, NEW S, c \in S, NEW why, Fails(S, why)
  PROVE  Room'
  <1>1. calls'[c].pc = "idle"
    BY SettledIs, IdleIsCall DEF Fails
  <1> QED
    BY <1>1 DEF Room

(* Whatever makes the restore effect due ends a call or forgets the PIN or *)
(* the user.                                                               *)
LEMMA RoomKept ==
  ASSUME IInv, Next
  PROVE  Room'
  <1>1. CASE RunEffects
    BY <1>1, NoneDue DEF RunEffects
  <1>2. CASE Calm /\ (LogoutStart \/ LogoutDone \/ Lock \/ Lapse)
    BY <1>2 DEF Calm, LogoutStart, LogoutDone, Lock, Lapse, Room
  <1>3. ASSUME Calm, NEW c \in Slots, Answer(c)  PROVE Room'
    <2>1. CASE AnswerOk(c)
      <3>1. CASE calls[c].flow \in {"me", "login"}
        <4>1. calls' = [calls EXCEPT ![c] = Idle]
          BY <2>1, <3>1 DEF AnswerOk, Restores, Under
        <4>2. calls'[c] = Idle
          BY <4>1 DEF IInv, TypeOK
        <4> QED
          BY <4>2, IdleIsCall DEF Room
      <3>2. CASE calls[c].flow \notin {"me", "login"}
        BY <1>3, <2>1, <3>2, NoneDue DEF AnswerOk, Calm
      <3> QED
        BY <3>1, <3>2
    <2>2. CASE Refused(c)
      BY <1>3, <2>2, NoneDue DEF Refused, Calm
    <2>3. CASE RefusedForGood(c) \/ AnswerError(c)
      BY <1>3, <2>3, FailRoom DEF RefusedForGood, AnswerError
    <2> QED
      BY <1>3, <2>1, <2>2, <2>3 DEF Answer
  <1>4. ASSUME Calm, NEW c \in Slots, RefreshAnswer(c)  PROVE Room'
    <2>1. CASE RefreshOk(c)
      BY <1>4, <2>1, NoneDue DEF RefreshOk, Calm
    <2>2. ASSUME NEW why, RefreshFails(c, why)  PROVE Room'
      BY <1>4, <2>2, FailRoom DEF RefreshFails, FailWith
    <2> QED
      BY <1>4, <2>1, <2>2 DEF RefreshAnswer, RefreshRefused, RefreshLost
  <1>5. ASSUME Calm, NEW c \in Slots, Opened(c)  PROVE Room'
    <2>1. calls' = Settled({c})
      BY <1>5 DEF Opened, RestoreDone, UnlockDone
    <2> QED
      BY <2>1, SettledIs, IdleIsCall DEF Room
  <1>6. ASSUME Calm, NEW c \in Slots, GetMeTimeout(c)  PROVE Room'
    <2>1. user' = None
      BY <1>6 DEF GetMeTimeout, Fail, UserAfter
    <2> QED
      BY <2>1 DEF Room
  <1>7. ASSUME Calm, NEW c \in Slots, Send(c) \/ Unlock(c)  PROVE Room'
    BY <1>7, NoneDue DEF Send, Unlock, Calm
  <1>8. ASSUME Calm, NEW c \in Slots, NEW b \in BOOLEAN, RefreshUser(c, b)  PROVE Room'
    BY <1>8 DEF RefreshUser, SignOutUnasked, Calm, Room
  <1>9. ASSUME Calm, NEW c \in Slots, NEW u \in Users, PasswordLogin(c, u) \/ PasskeyLogin(c, u)
        PROVE  Room'
    BY <1>9, NoneDue DEF PasswordLogin, PasskeyLogin, LogIn, Calm
  <1>10. ASSUME Calm, NEW c \in Slots, NEW p \in {"login", "app"}, NEW b \in BOOLEAN,
                Reload(c, p, b)
         PROVE  Room'
    BY <1>10 DEF Reload, SignOutUnasked, Room
  <1> QED
    BY <1>1, <1>2, <1>3, <1>4, <1>5, <1>6, <1>7, <1>8, <1>9, <1>10 DEF Next

-----------------------------------------------------------------------------
(* The specification *)

LEMMA InitHolds == Init => IInv /\ Room
  <1> SUFFICES ASSUME Init  PROVE IInv /\ Room
    OBVIOUS
  <1>1. <<>> \in Seq(Users) /\ Len(<<>>) = 0
    OBVIOUS
  <1>2. \A c \in Slots : calls[c] = Idle
    BY DEF Init
  <1>3. TypeOK
    <2>1. /\ issued \in Seq(Users) /\ Len(issued) = 0 /\ Len(issued) <= MaxTokens
          /\ {lapsed, access, header} \subseteq 0..Len(issued) /\ loads \in 0..MaxLoads
      BY <1>1, SessionAssumption DEF Init
    <2>2. {refresh, pin, user, key, who} \subseteq Users \cup {None}
      BY DEF Init
    <2>3. /\ {loading, restoring, modal, isRefreshing, leaving, asked, straddled} \subseteq BOOLEAN
          /\ page \in {"login", "app"} /\ changed \in {"none", "view", "auth"}
      BY DEF Init
    <2>4. calls \in [Slots -> Call]
      BY IdleIsCall DEF Init
    <2>5. \A c \in Slots : calls[c].token \in 0..Len(issued)
      BY <1>2, <2>1, IdleIsCall
    <2> QED
      BY <2>1, <2>2, <2>3, <2>4, <2>5 DEF TypeOK
  <1>4. Single
    BY <1>2, IdleIsCall DEF Init, Single, Calling
  <1>5. Asked /\ Owned
    BY <1>2, IdleIsCall DEF Init, Asked, Owned, CallsOwned, Calling, Restores, Under
  <1>6. Room
    BY DEF Init, Room
  <1> QED
    BY <1>3, <1>4, <1>5, <1>6 DEF IInv

LEMMA NextHolds ==
  ASSUME IInv, Room, Next
  PROVE  IInv'
  <1>1. CASE RunEffects
    BY <1>1, RunEffectsHolds
  <1>2. CASE Calm /\ (LogoutStart \/ LogoutDone \/ Lock \/ Lapse)
    BY <1>2, LogoutStartHolds, LogoutDoneHolds, LockHolds, LapseHolds
  <1>3. ASSUME Calm, NEW c \in Slots, Answer(c)  PROVE IInv'
    <2>1. CASE AnswerOk(c)
      BY <1>3, <2>1, AnswerOkHolds
    <2>2. CASE Refused(c)
      BY <1>3, <2>2, RefusedHolds
    <2>3. CASE RefusedForGood(c)
      BY <1>3, <2>3, SentFailsHolds DEF RefusedForGood
    <2>4. CASE AnswerError(c)
      BY <1>3, <2>4, SentFailsHolds DEF AnswerError
    <2> QED
      BY <1>3, <2>1, <2>2, <2>3, <2>4 DEF Answer
  <1>4. ASSUME Calm, NEW c \in Slots, RefreshAnswer(c)  PROVE IInv'
    BY <1>4, RefreshOkHolds, RefreshFailsHolds DEF RefreshAnswer, RefreshRefused, RefreshLost
  <1>5. ASSUME Calm, NEW c \in Slots, Opened(c)  PROVE IInv'
    BY <1>5, RestoreDoneHolds, UnlockDoneHolds DEF Opened
  <1>6. ASSUME Calm, NEW c \in Slots, GetMeTimeout(c) \/ Send(c) \/ Unlock(c)  PROVE IInv'
    BY <1>6, GetMeTimeoutHolds, SendHolds, UnlockHolds
  <1>7. ASSUME Calm, NEW c \in Slots, NEW b \in BOOLEAN, RefreshUser(c, b)  PROVE IInv'
    BY <1>7, RefreshUserHolds
  <1>8. ASSUME Calm, NEW c \in Slots, NEW u \in Users, PasswordLogin(c, u) \/ PasskeyLogin(c, u)
        PROVE  IInv'
    <2>1. CASE PasswordLogin(c, u)
      BY <1>8, <2>1, LogInHolds DEF PasswordLogin
    <2>2. CASE PasskeyLogin(c, u)
      BY <1>8, <2>2, LogInHolds DEF PasskeyLogin
    <2> QED
      BY <1>8, <2>1, <2>2
  <1>9. ASSUME Calm, NEW c \in Slots, NEW p \in {"login", "app"}, NEW b \in BOOLEAN,
               Reload(c, p, b)
        PROVE  IInv'
    BY <1>9, ReloadHolds
  <1> QED
    BY <1>1, <1>2, <1>3, <1>4, <1>5, <1>6, <1>7, <1>8, <1>9 DEF Next

(* What is true of a tab at every moment, the calls under way included.    *)
THEOREM SessionIsSound == Spec => [](IInv /\ Room)
  <1>1. ASSUME IInv, Room, [Next]_vars
        PROVE  IInv' /\ Room'
    <2>1. CASE Next
      BY <1>1, <2>1, NextHolds, RoomKept
    <2>2. CASE UNCHANGED vars
      BY <1>1, <2>2, StutterHolds DEF vars, Room
    <2> QED
      BY <1>1, <2>1, <2>2
  <1> QED
    BY <1>1, InitHolds, PTL DEF Spec

LEMMA SingleCounts == TypeOK /\ Single => RefreshIsSingle
  <1> SUFFICES ASSUME TypeOK, Single  PROVE RefreshIsSingle
    OBVIOUS
  <1> DEFINE R == {c \in Slots : calls[c].pc = "refreshing"}
  <1>1. Cardinality(R) <= 1
    <2>1. CASE R = {}
      BY <2>1, FS_EmptySet
    <2>2. CASE R # {}
      <3>1. PICK c \in R : TRUE
        BY <2>2
      <3>2. \A d \in R : d = c
        BY <3>1 DEF Single, Calling
      <3> HIDE DEF R
      <3>3. R = {c}
        BY <3>1, <3>2
      <3>4. Cardinality({c}) = 1
        BY FS_Singleton
      <3> QED
        BY <3>3, <3>4
    <2> QED
      BY <2>1, <2>2
  <1>2. isRefreshing = (R # {})
    BY DEF Single, Calling, TypeOK
  <1>3. Queued # {} => isRefreshing
    BY DEF Single, Queued
  <1> QED
    BY <1>1, <1>2, <1>3 DEF RefreshIsSingle

(* The tab is of its types; at most one refresh is under way, isRefreshing *)
(* says so, and a call waits only for one that is: however many 401s come  *)
(* in while another is answered.                                           *)
THEOREM CoherentAlways == Spec => []Coherent
  <1>1. IInv => Coherent
    BY SingleCounts DEF IInv, Coherent
  <1> QED
    BY <1>1, SessionIsSound, PTL

(* The user shown, the stored token and the key in memory are of the last  *)
(* who logged in or of nobody, unless a getMe, an unlock or a refresh was  *)
(* under way across the last login or logout, or a login was made over a   *)
(* user or key: then a late answer does write what is of the user before.  *)
(* What is claimed is that nothing else does: no reload, no restore, no    *)
(* kept refresh token and no failure.                                      *)
THEOREM TabStaysOfLastLogin == Spec => []TabIsOfLastLogin
  <1>1. IInv => TabIsOfLastLogin
    BY DEF IInv, Owned, TabIsOfLastLogin
  <1> QED
    BY <1>1, SessionIsSound, PTL

(* No reload, new login or restore that starts after the last lock or      *)
(* logout brings back a key or a PIN.  An unlock or restore under way      *)
(* across it is exempt: answered late, it does bring them back.            *)
THEOREM KeyIsAlwaysAskedFor == Spec => []KeyWasAskedFor
  <1>1. IInv => KeyWasAskedFor
    BY DEF IInv, Asked, KeyWasAskedFor
  <1> QED
    BY <1>1, SessionIsSound, PTL
=============================================================================
