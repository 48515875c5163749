------------------------- MODULE AdminSessionProofs -------------------------
(***************************************************************************)
(* Proofs about AdminSession, for any number of users and sessions: only a *)
(* session that is over is expired, and nobody is shown what a former      *)
(* session of the tab left behind.                                         *)
(***************************************************************************)
EXTENDS AdminSession, TLAPS

Requests == [Kinds -> [session : Nat, accepted : BOOLEAN, current : BOOLEAN]]

RequestsTyped == requests \in Requests /\ cookie \in Nat /\ issued \in Nat

(* A request of the transport's generation presents the tab's session.     *)
OfCookie(sent, held) ==
  \A kind \in Kinds \ {"signIn"} :
    sent[kind] # Idle /\ sent[kind].current => sent[kind].session = held

SessionInv == RequestsTyped /\ OfCookie(requests, cookie)

-----------------------------------------------------------------------------
(* What the operators on requests keep.                                    *)

LEMMA IdleIsTyped == Idle \in [session : Nat, accepted : BOOLEAN, current : BOOLEAN]
BY DEF Idle, Request

LEMMA WithoutKeeps ==
  ASSUME SessionInv, NEW kinds
  PROVE  Without(kinds) \in Requests /\ OfCookie(Without(kinds), cookie)
BY IdleIsTyped DEF SessionInv, RequestsTyped, Requests, OfCookie, Without

(* After a new generation nothing in flight counts.                        *)
LEMMA RenewedCountsNone ==
  ASSUME NEW sent \in Requests
  PROVE  /\ Renewed(sent) \in Requests
         /\ \A held : OfCookie(Renewed(sent), held)
<1>1. \A kind \in Kinds :
        /\ Renewed(sent)[kind] \in [session : Nat, accepted : BOOLEAN, current : BOOLEAN]
        /\ Renewed(sent)[kind] # Idle => ~Renewed(sent)[kind].current
  <2> TAKE kind \in Kinds
  <2>1. CASE sent[kind] = Idle
    BY <2>1, IdleIsTyped DEF Renewed
  <2>2. CASE sent[kind] # Idle
    <3>1. Renewed(sent)[kind] = [sent[kind] EXCEPT !.current = FALSE]
      BY <2>2 DEF Renewed
    <3> QED BY <3>1 DEF Requests
  <2> QED BY <2>1, <2>2
<1>2. Renewed(sent) \in Requests
  BY <1>1 DEF Renewed, Requests
<1> QED BY <1>1, <1>2 DEF OfCookie

LEMMA SentKeeps ==
  ASSUME SessionInv, NEW kind \in Kinds, Send(kind), UNCHANGED <<cookie, issued>>
  PROVE  SessionInv'
<1>1. requests' = [requests EXCEPT ![kind] = Sent]
  BY DEF Send
<1>2. /\ Sent \in [session : Nat, accepted : BOOLEAN, current : BOOLEAN]
      /\ Sent.session = cookie
  BY DEF SessionInv, RequestsTyped, Sent, Request
<1> HIDE DEF Sent
<1> QED BY <1>1, <1>2 DEF SessionInv, RequestsTyped, Requests, OfCookie

(* Requests taken away, with or without a new generation.                  *)
LEMMA FewerRequestsKeep ==
  ASSUME SessionInv, NEW kinds, requests' \in {Without(kinds), Renewed(Without(kinds))},
         UNCHANGED <<cookie, issued>>
  PROVE  SessionInv'
BY WithoutKeeps, RenewedCountsNone DEF SessionInv, RequestsTyped

LEMMA SameRequestsKeep ==
  ASSUME SessionInv, UNCHANGED <<requests, cookie, issued>>
  PROVE  SessionInv'
BY DEF SessionInv, RequestsTyped

(* Signing in gives the tab another session and renews the generation.     *)
LEMMA LoginKeeps == ASSUME SessionInv, useLogin PROVE SessionInv'
<1> DEFINE sent == Renewed(Without({"signIn"}))
<1>1. sent \in Requests /\ OfCookie(sent, cookie')
  BY WithoutKeeps, RenewedCountsNone
<1>2. issued' = issued + 1 /\ cookie' = issued' /\ InvalidateSession(sent)
  BY DEF useLogin
<1>3. cookie' \in Nat /\ issued' \in Nat
  BY <1>2 DEF SessionInv, RequestsTyped
<1>4. CASE requests' = sent
  BY <1>1, <1>3, <1>4 DEF SessionInv, RequestsTyped
<1>5. CASE requests' = [sent EXCEPT !["session"] = Request(issued', TRUE)]
  <2> HIDE DEF sent
  <2>1. /\ Request(issued', TRUE) \in [session : Nat, accepted : BOOLEAN, current : BOOLEAN]
        /\ Request(issued', TRUE).session = cookie'
    BY <1>2, <1>3 DEF Request
  <2>2. requests' \in Requests
    BY <1>1, <1>5, <2>1 DEF Requests
  <2>3. OfCookie(requests', cookie')
    BY <1>1, <1>5, <2>1 DEF Requests, OfCookie
  <2> QED BY <1>3, <2>2, <2>3 DEF SessionInv, RequestsTyped
<1> QED BY <1>2, <1>4, <1>5 DEF InvalidateSession

LEMMA LogoutKeeps == ASSUME SessionInv, useLogout PROVE SessionInv'
<1>1. requests' = Renewed(Without(Reads \cup {"signOut"})) /\ cookie' = 0 /\ issued' = issued
  BY DEF useLogout, Clear
<1> QED BY <1>1, WithoutKeeps, RenewedCountsNone DEF SessionInv, RequestsTyped

LEMMA ShowKeeps ==
  ASSUME SessionInv, NEW page, Show(page), UNCHANGED <<cookie, issued>>
  PROVE  SessionInv'
<1>1. PICK kinds : requests' = Without(kinds)
  BY DEF Show
<1> QED BY <1>1, FewerRequestsKeep

LEMMA RefusedKeeps == ASSUME SessionInv, NEW kind \in Kinds, Refused(kind) PROVE SessionInv'
<1>1. UNCHANGED <<cookie, issued>>
  BY DEF Refused, server
<1>2. PICK kinds : requests' \in {Without(kinds), Renewed(Without(kinds))}
  BY DEF Refused, expireSession, Dropped, Clear
<1> QED BY <1>1, <1>2, FewerRequestsKeep

LEMMA SessionSteps == ASSUME SessionInv, [SessionNext]_sessionVars PROVE SessionInv'
<1>1. CASE loadSession \/ loadAccount \/ \E key \in Cached : Observe(key)
  <2>1. PICK key \in Cached : Fetch(key)
    BY <1>1 DEF loadSession, loadAccount, Observe, Cached
  <2> QED BY <2>1, SentKeeps DEF Fetch, server, Cached, Reads, Kinds
<1>2. CASE Read \/ Write \/ SignIn \/ SignOut
  BY <1>2, SentKeeps DEF Read, Write, SignIn, SignOut, server, Reads, Kinds
<1>3. CASE Pass
  <2>1. UNCHANGED <<cookie, issued>>
    BY <1>3 DEF Pass, requireUser, redirectAuthenticatedFromLogin, server
  <2>2. (\E page \in {"login", "app"} : Show(page)) \/ UNCHANGED requests
    BY <1>3 DEF Pass, requireUser, redirectAuthenticatedFromLogin, Redirect
  <2> QED BY <2>1, <2>2, ShowKeeps, SameRequestsKeep
<1>4. CASE useLogin BY <1>4, LoginKeeps
<1>5. CASE LandSession
  <2>1. UNCHANGED <<cookie, issued>>
    BY <1>5 DEF LandSession, server
  <2>2. CASE Fresh("account") \/ InFlight("account")
    BY <1>5, <2>1, <2>2, SameRequestsKeep DEF LandSession
  <2>3. CASE ~(Fresh("account") \/ InFlight("account"))
    <3>1. Send("account")
      BY <1>5, <2>3 DEF LandSession, Send
    <3> QED BY <2>1, <3>1, SentKeeps DEF Kinds, Reads, Cached
  <2> QED BY <2>2, <2>3
<1>6. CASE useLogout BY <1>6, LogoutKeeps
<1>7. CASE LandAccount \/ Wander \/ Turn \/ Age \/ End
  BY <1>7, SameRequestsKeep DEF LandAccount, Wander, Turn, Age, End, server
<1>8. CASE Lose
  BY <1>8, FewerRequestsKeep DEF Lose
<1>9. CASE \E kind \in Kinds : Refused(kind) \/ Answered(kind)
  BY <1>9, RefusedKeeps, FewerRequestsKeep DEF Answered, server
<1>10. CASE \E key \in Cached : Loaded(key)
  BY <1>10, FewerRequestsKeep DEF Loaded, server
<1>11. CASE UNCHANGED sessionVars
  BY <1>11, SameRequestsKeep DEF sessionVars
<1> QED
  BY <1>1, <1>2, <1>3, <1>4, <1>5, <1>6, <1>7, <1>8, <1>9, <1>10, <1>11
  DEF SessionNext, Guards, Land

LEMMA SessionStart == SessionInit([Sessions -> Users]) => SessionInv
BY IdleIsTyped DEF SessionInit, SessionInv, RequestsTyped, Requests, OfCookie

-----------------------------------------------------------------------------
(* Only an answer to a request of the transport's generation, refused      *)
(* because its session is over, starts the way to the login page.          *)
LEMMA ExpiryNeedsDeath ==
  ASSUME SessionInv, SessionNext, ~redirecting, redirecting'
  PROVE  cookie \notin alive
<1>1. PICK kind \in Kinds : Refused(kind)
  <2>1. ~(Pass \/ LandSession \/ LandAccount \/ useLogin \/ useLogout \/ Wander \/ Turn)
    BY DEF Pass, requireUser, redirectAuthenticatedFromLogin, Show, Redirect, LandSession,
           LandAccount, useLogin, useLogout, Wander, Turn, router
  <2>2. ~(loadSession \/ loadAccount \/ Read \/ Write \/ Age \/ SignIn \/ SignOut)
    BY DEF loadSession, loadAccount, Fetch, Read, Write, Age, SignIn, SignOut, router
  <2>3. ~(Lose \/ End \/ \E kind \in Kinds : Answered(kind))
    BY DEF Lose, End, Answered, router
  <2>4. ~(\E key \in Cached : Observe(key) \/ Loaded(key))
    BY DEF Observe, Fetch, Loaded, router
  <2> QED BY <2>1, <2>2, <2>3, <2>4 DEF SessionNext, Guards, Land
<1>2. /\ kind # "signIn" /\ requests[kind] # Idle
      /\ requests[kind].current /\ requests[kind].session \notin alive
  <2>1. ~Drop(kind)
    BY DEF Drop
  <2> QED BY <1>1, <2>1 DEF Refused, Rejects, InFlight
<1> QED BY <1>2 DEF SessionInv, OfCookie

(* Whoever signed in since is not thrown out by an answer to a request of  *)
(* an earlier session, however late, for any number of sessions.           *)
THEOREM ExpiredOnlyDeadHolds == SessionSpec => ExpiredOnlyDead
<1>1. SessionInv /\ [SessionNext]_sessionVars =>
        [~redirecting /\ redirecting' => cookie \notin alive]_sessionVars
  BY ExpiryNeedsDeath
<1> QED BY SessionStart, SessionSteps, <1>1, PTL DEF SessionSpec, ExpiredOnlyDead
-----------------------------------------------------------------------------
(* Whose account is cached.  What is said of it holds until an account is  *)
(* left over.                                                              *)

Answers == [of : {owner[session] : session \in Nat} \cup {Nobody, "missing"}, stale : BOOLEAN]

(* An answer that is fresh is not being fetched.                           *)
FreshIsSettled == \A key \in Cached : InFlight(key) => ~Fresh(key)

(* The cached account and the one on its way are the session's own.        *)
OwnAccount ==
  /\ cache["account"] # Missing => cache["account"].of = owner[cookie]
  /\ Accepts("account") => requests["account"].session = cookie

(* Somebody signs in after the session is over, with no account left.      *)
CleanSignIn ==
  InFlight("signIn") =>
    cookie \notin alive /\ cache["account"] = Missing /\ ~Accepts("account")

(* Outside the application an account is there, or coming, only for a      *)
(* guard or for a sign-in that lands.                                      *)
AccountIsAwaited ==
  /\ Accepts("account") /\ shown # "app" => landing # "none" \/ (entering /\ SignedIn)
  /\ shown = "login" /\ cache["account"] # Missing =>
       Fresh("account") /\ (landing # "none" \/ entering)

Untainted == OwnAccount /\ CleanSignIn /\ AccountIsAwaited

AccountKept ==
  /\ cache \in [Cached -> Answers]
  /\ FreshIsSettled
  /\ landing # "none" => ~InFlight("signIn")
  /\ 0 \notin alive
  /\ leftover \/ Untainted

(* The facts about a step that takes requests away.                        *)
FewerRequests(kinds) ==
  \A kind \in Kinds : InFlight(kind)' =>
    /\ InFlight(kind) /\ kind \notin kinds
    /\ requests'[kind].accepted = requests[kind].accepted
    /\ requests'[kind].session = requests[kind].session

LEMMA TakenAway ==
  ASSUME RequestsTyped, NEW kinds, requests' \in {Without(kinds), Renewed(Without(kinds))}
  PROVE  FewerRequests(kinds)
<1> SUFFICES ASSUME NEW kind \in Kinds, InFlight(kind)'
             PROVE  /\ InFlight(kind) /\ kind \notin kinds
                    /\ requests'[kind].accepted = requests[kind].accepted
                    /\ requests'[kind].session = requests[kind].session
  BY DEF FewerRequests
<1>1. CASE requests' = Without(kinds)
  BY <1>1 DEF Without, InFlight
<1>2. CASE requests' = Renewed(Without(kinds))
  <2>1. Without(kinds)[kind] = (IF kind \in kinds THEN Idle ELSE requests[kind])
    BY DEF Without
  <2>2. requests'[kind] = (IF Without(kinds)[kind] = Idle THEN Idle
                           ELSE [Without(kinds)[kind] EXCEPT !.current = FALSE])
    BY <1>2 DEF Renewed
  <2>3. requests[kind] # Idle /\ kind \notin kinds
    BY <2>1, <2>2 DEF InFlight
  <2>4. requests'[kind] = [requests[kind] EXCEPT !.current = FALSE]
    BY <2>1, <2>2, <2>3
  <2> QED BY <2>3, <2>4 DEF InFlight, RequestsTyped, Requests
<1> QED BY <1>1, <1>2

LEMMA KindsAre ==
  /\ Cached = {"session", "account"}
  /\ Kinds = {"session", "account", "read", "write", "signIn", "signOut"}
BY DEF Cached, Reads, Kinds

LEMMA MissingIsAnswer == Missing \in Answers /\ Missing.stale
BY DEF Missing, Answers

(* Sending leaves the other requests alone.                                *)
LEMMA SentAlone ==
  ASSUME RequestsTyped, NEW kind \in Kinds, Send(kind)
  PROVE  /\ \A other \in Kinds \ {kind} : requests'[other] = requests[other]
         /\ requests'[kind].session = cookie
         /\ requests'[kind].accepted <=> cookie \in alive
BY DEF Send, Sent, Request, RequestsTyped, Requests

(* A fetch, started by a guard or by the application.                      *)
LEMMA FetchKeepsAccount ==
  ASSUME SessionInv, AccountKept, NEW key \in Cached, Fetch(key), UNCHANGED router,
         key = "account" => shown = "app" \/ (entering /\ SignedIn)
  PROVE  AccountKept'
<1>1. UNCHANGED <<owner, alive, cookie, cache, landing, leftover, shown, entering>>
  BY DEF Fetch, server, router
<1>2. /\ \A other \in Kinds \ {key} : requests'[other] = requests[other]
      /\ requests'[key].session = cookie
      /\ requests'[key].accepted <=> cookie \in alive
  BY SentAlone, KindsAre DEF Fetch, SessionInv
<1>3. ~Fresh(key)
  BY DEF Fetch
<1>4. FreshIsSettled'
  BY <1>1, <1>2, <1>3, KindsAre DEF AccountKept, FreshIsSettled, InFlight, Fresh
<1>5. ASSUME Untainted PROVE Untainted'
  <2>1. OwnAccount'
    BY <1>1, <1>2, <1>5, KindsAre DEF Untainted, OwnAccount, Accepts, InFlight
  <2>2. CleanSignIn'
    BY <1>1, <1>2, <1>5, KindsAre DEF Untainted, CleanSignIn, Accepts, InFlight
  <2>3. AccountIsAwaited'
    BY <1>1, <1>2, <1>5, KindsAre
    DEF Untainted, AccountIsAwaited, Accepts, InFlight, Fresh, SignedIn
  <2> QED BY <2>1, <2>2, <2>3 DEF Untainted
<1>6. landing' # "none" => ~InFlight("signIn")'
  BY <1>1, <1>2, KindsAre DEF AccountKept, InFlight
<1>7. (cache \in [Cached -> Answers])' /\ 0 \notin alive'
  BY <1>1 DEF AccountKept, Answers
<1> QED BY <1>1, <1>4, <1>5, <1>6, <1>7 DEF AccountKept
(* Poll, save, sign out: no account is asked for.                          *)
LEMMA SendKeepsAccount ==
  ASSUME SessionInv, AccountKept, Read \/ Write \/ SignOut
  PROVE  AccountKept'
<1>1. PICK kind \in {"read", "write", "signOut"} : Send(kind)
  BY DEF Read, Write, SignOut
<1>2. UNCHANGED <<owner, alive, cookie, cache, landing, leftover, shown, entering>>
  BY DEF Read, Write, SignOut, server, router
<1>3. \A other \in {"session", "account", "signIn"} : requests'[other] = requests[other]
  BY <1>1, SentAlone, KindsAre DEF SessionInv
<1>4. FreshIsSettled'
  BY <1>2, <1>3, KindsAre DEF AccountKept, FreshIsSettled, InFlight, Fresh
<1>5. ASSUME Untainted PROVE Untainted'
  <2>1. OwnAccount' /\ CleanSignIn'
    BY <1>2, <1>3, <1>5 DEF Untainted, OwnAccount, CleanSignIn, Accepts, InFlight
  <2>2. AccountIsAwaited'
    BY <1>2, <1>3, <1>5
    DEF Untainted, AccountIsAwaited, Accepts, InFlight, Fresh, SignedIn
  <2> QED BY <2>1, <2>2 DEF Untainted
<1> QED BY <1>2, <1>3, <1>4, <1>5 DEF AccountKept, InFlight, Answers

(* The login page was rendered with no account cached or coming.           *)
LEMMA SignInKeepsAccount ==
  ASSUME SessionInv, AccountKept, SignIn
  PROVE  AccountKept'
<1>1. /\ shown = "login" /\ ~entering /\ landing = "none"
      /\ leftover' = (leftover \/ cookie \in alive)
      /\ UNCHANGED <<owner, alive, cookie, cache, landing, shown, entering>>
  BY DEF SignIn, server, router
<1>2. \A other \in Cached : requests'[other] = requests[other]
  BY SentAlone, KindsAre DEF SignIn, SessionInv
<1>3. FreshIsSettled'
  BY <1>1, <1>2 DEF AccountKept, FreshIsSettled, InFlight, Fresh
<1>4. ASSUME Untainted, cookie \notin alive PROVE Untainted'
  <2>1. OwnAccount'
    BY <1>1, <1>2, <1>4, KindsAre DEF Untainted, OwnAccount, Accepts, InFlight
  <2>2. cache["account"] = Missing /\ ~Accepts("account")
    BY <1>1, <1>4 DEF Untainted, AccountIsAwaited
  <2>3. CleanSignIn' /\ AccountIsAwaited'
    BY <1>1, <1>2, <1>4, <2>2, KindsAre DEF CleanSignIn, AccountIsAwaited, Accepts, InFlight
  <2> QED BY <2>1, <2>3 DEF Untainted
<1> QED BY <1>1, <1>3, <1>4 DEF AccountKept, Answers

(* Nothing is cached or fetched any more, and the session is over.         *)
LEMMA ClearKeepsAccount ==
  ASSUME SessionInv, AccountKept, NEW kind \in Kinds, Clear(kind),
         owner' = owner, cookie' \notin alive', 0 \notin alive'
  PROVE  AccountKept'
<1>1. cache' = [key \in Cached |-> Missing]
  BY DEF Clear
<1>2. FewerRequests(Reads \cup {kind})
  BY TakenAway DEF SessionInv, Clear
<1>3. \A key \in Cached : ~InFlight(key)'
  BY <1>2, KindsAre DEF FewerRequests, Reads
<1>4. landing' # "none" => ~InFlight("signIn")'
  <2>1. landing' # "none" => landing # "none"
    BY DEF Clear, Forsaken
  <2> QED BY <1>2, <2>1, KindsAre DEF AccountKept, FewerRequests
<1>5. cache' \in [Cached -> Answers']
  BY <1>1, MissingIsAnswer DEF Answers
<1>6. FreshIsSettled'
  BY <1>3 DEF FreshIsSettled
<1>7. cache'["account"] = Missing /\ ~Accepts("account")'
  BY <1>1, <1>3, KindsAre DEF Accepts
<1>8. Untainted'
  BY <1>7 DEF Untainted, OwnAccount, CleanSignIn, AccountIsAwaited
<1> QED BY <1>4, <1>5, <1>6, <1>8 DEF AccountKept

(* Requests are taken away, and the guards stop at most for the refusal of *)
(* an account.                                                             *)
LEMMA FewerKeepAccount ==
  ASSUME SessionInv, AccountKept, NEW kinds, FewerRequests(kinds),
         UNCHANGED <<owner, cookie, cache, leftover>>,
         alive' \subseteq alive,
         shown' = shown \/ ("account" \in kinds /\ InFlight("account") /\ shown' = "error"),
         landing' = landing \/ ("account" \in kinds /\ InFlight("account") /\ landing' = "none"),
         (entering' <=> entering) \/ ("account" \in kinds /\ InFlight("account"))
  PROVE  AccountKept'
<1>1. FreshIsSettled'
  BY KindsAre DEF AccountKept, FreshIsSettled, FewerRequests, Fresh
<1>2. landing' # "none" => ~InFlight("signIn")'
  BY KindsAre DEF AccountKept, FewerRequests
<1>3. Accepts("account")' => Accepts("account") /\ "account" \notin kinds
  BY KindsAre DEF FewerRequests, Accepts, InFlight
<1>4. InFlight("account") => ~Fresh("account")
  BY KindsAre DEF AccountKept, FreshIsSettled
<1>5. ASSUME Untainted PROVE Untainted'
  <2>1. OwnAccount'
    BY <1>3, <1>5, KindsAre DEF Untainted, OwnAccount, FewerRequests, Accepts
  <2>2. CleanSignIn'
    BY <1>3, <1>5, KindsAre DEF Untainted, CleanSignIn, FewerRequests
  <2>3. AccountIsAwaited'
    BY <1>3, <1>4, <1>5 DEF Untainted, AccountIsAwaited, Fresh, SignedIn
  <2> QED BY <2>1, <2>2, <2>3 DEF Untainted
<1> QED BY <1>1, <1>2, <1>5 DEF AccountKept, Answers

LEMMA RefusedKeepsAccount ==
  ASSUME SessionInv, AccountKept, NEW kind \in Kinds, Refused(kind)
  PROVE  AccountKept'
<1>1. /\ UNCHANGED <<owner, alive, cookie>>
      /\ kind # "signIn" /\ InFlight(kind) /\ requests[kind].session \notin alive
  BY DEF Refused, Rejects, server
<1>2. CASE Clear(kind) /\ requests[kind].current
  <2>1. cookie \notin alive
    BY <1>1, <1>2 DEF SessionInv, OfCookie, InFlight
  <2> QED BY <1>1, <1>2, <2>1, ClearKeepsAccount DEF AccountKept
<1>3. CASE requests' \in {Dropped(kind), Renewed(Dropped(kind))} /\ Drop(kind)
  <2>1. PICK kinds : /\ Dropped(kind) = Without(kinds)
                     /\ kind = "account" => "account" \in kinds
    BY DEF Dropped
  <2>2. FewerRequests(kinds)
    BY <1>3, <2>1, TakenAway DEF SessionInv
  <2>3. /\ landing' = landing \/ (kind = "account" /\ landing' = "none")
        /\ UNCHANGED <<cache, leftover>>
    BY <1>3 DEF Drop, Forsaken
  <2>4. \/ entering' = entering /\ shown' = shown
        \/ kind = "account" /\ shown' = "error"
    BY <1>3 DEF Drop, Fails
  <2> QED BY <1>1, <2>1, <2>2, <2>3, <2>4, FewerKeepAccount
<1> QED BY <1>2, <1>3 DEF Refused, expireSession

(* The login page is shown only when no account is cached, or one is left  *)
(* over; the application takes its requests along.                         *)
LEMMA PassKeepsAccount ==
  ASSUME SessionInv, AccountKept, Pass
  PROVE  AccountKept'
<1>1. UNCHANGED <<owner, alive, cookie, cache>>
  BY DEF Pass, requireUser, redirectAuthenticatedFromLogin, server
<1>2. CASE UNCHANGED <<entering, shown, requests, landing>>
  <2>1. leftover' = leftover \/ leftover' = (leftover \/ cache["account"] # Missing)
    BY DEF Pass, requireUser, redirectAuthenticatedFromLogin
  <2>2. Untainted => Untainted'
    BY <1>1, <1>2 DEF Untainted, OwnAccount, CleanSignIn, AccountIsAwaited, Accepts, InFlight,
                      Fresh, SignedIn
  <2> QED BY <1>1, <1>2, <2>1, <2>2 DEF AccountKept, FreshIsSettled, InFlight, Fresh, Answers
<1>3. ASSUME NEW page \in {"login", "app"}, Show(page),
             \/ page = "app" /\ leftover' = leftover
             \/ /\ page = "login" /\ SignedOut
                /\ leftover' = (leftover \/ cache["account"] # Missing)
      PROVE  AccountKept'
  <2>0. PICK left : /\ requests' = Without(left) /\ Forsaken(left) /\ shown' = page
                    /\ "account" \in left <=> page = "login" /\ shown = "app"
    BY <1>3 DEF Show
  <2>1. FewerRequests(left) /\ shown' = page
    BY <2>0, TakenAway DEF SessionInv
  <2>2. landing' = landing \/ ("account" \in left /\ landing' = "none")
    BY <2>0 DEF Forsaken
  <2>3. FreshIsSettled' /\ (landing' # "none" => ~InFlight("signIn")')
    BY <1>1, <2>1, <2>2, KindsAre DEF AccountKept, FreshIsSettled, FewerRequests, Fresh
  <2>4. ASSUME Untainted PROVE leftover' \/ Untainted'
    <3>1. Accepts("account")' => Accepts("account") /\ ~(page = "login" /\ shown = "app")
      BY <2>0, <2>1, KindsAre DEF FewerRequests, Accepts
    <3>2. OwnAccount'
      BY <1>1, <2>1, <2>4, <3>1, KindsAre DEF Untainted, OwnAccount, FewerRequests, Accepts
    <3>3. CleanSignIn'
      BY <1>1, <2>1, <2>4, <3>1, KindsAre DEF Untainted, CleanSignIn, FewerRequests
    <3>4. page = "login" /\ Accepts("account")' => landing' # "none"
      <4> SUFFICES ASSUME page = "login", Accepts("account")' PROVE landing' # "none"
        OBVIOUS
      <4>1. ~SignedIn
        BY <1>3 DEF SignedOut, SignedIn
      <4> QED BY <2>0, <2>2, <2>4, <3>1, <4>1 DEF Untainted, AccountIsAwaited
    <3>5. CASE page = "app"
      BY <2>1, <3>2, <3>3, <3>5 DEF Untainted, AccountIsAwaited
    <3>6. CASE page = "login" /\ cache["account"] = Missing
      BY <1>1, <2>1, <3>2, <3>3, <3>4, <3>6 DEF Untainted, AccountIsAwaited
    <3>7. CASE page = "login" /\ leftover'
      BY <3>7
    <3> QED BY <1>3, <3>5, <3>6, <3>7
  <2>5. leftover => leftover'
    BY <1>3
  <2>6. (cache \in [Cached -> Answers])' /\ 0 \notin alive'
    BY <1>1 DEF AccountKept, Answers
  <2> QED BY <2>3, <2>4, <2>5, <2>6 DEF AccountKept
<1> QED
  BY <1>2, <1>3 DEF Pass, requireUser, redirectAuthenticatedFromLogin, Redirect

LEMMA OtherPagesKeepAccount ==
  ASSUME SessionInv, AccountKept, Wander \/ Turn \/ End \/ UNCHANGED sessionVars
  PROVE  AccountKept'
<1>1. /\ UNCHANGED <<owner, cookie, shown, cache, requests, landing, leftover>>
      /\ alive' \subseteq alive
      /\ entering => entering'
  BY DEF Wander, Turn, End, server, router, sessionVars
<1>2. Untainted => Untainted'
  BY <1>1 DEF Untainted, OwnAccount, CleanSignIn, AccountIsAwaited, Accepts, InFlight, Fresh,
              SignedIn
<1> QED BY <1>1, <1>2 DEF AccountKept, FreshIsSettled, InFlight, Fresh, Answers

(* What grows old is not awaited by a guard or a sign-in.                  *)
LEMMA AgeKeepsAccount ==
  ASSUME SessionInv, AccountKept, Age
  PROVE  AccountKept'
<1>1. /\ ~entering /\ landing = "none"
      /\ UNCHANGED <<owner, alive, cookie, entering, shown, requests, landing, leftover>>
  BY DEF Age, server, router
<1>2. PICK key \in Cached : Fresh(key) /\ cache' = [cache EXCEPT ![key].stale = TRUE]
  BY DEF Age
<1>3. \A other \in Cached :
        /\ cache'[other].of = cache[other].of
        /\ Fresh(other)' => Fresh(other)
        /\ ~Fresh(other) => cache'[other] = cache[other]
  BY <1>2 DEF AccountKept, Answers, Fresh
<1>4. cache' \in [Cached -> Answers']
  BY <1>1, <1>2 DEF AccountKept, Answers
<1>5. FreshIsSettled'
  BY <1>1, <1>3 DEF AccountKept, FreshIsSettled, InFlight
<1>6. cache["account"] = Missing => cache'["account"] = Missing
  BY <1>3, MissingIsAnswer, KindsAre DEF Fresh
<1>7. cache'["account"] # Missing => cache["account"] # Missing
  BY <1>6
<1>8. ASSUME Untainted PROVE Untainted'
  <2>1. OwnAccount' /\ CleanSignIn'
    BY <1>1, <1>3, <1>6, <1>8, KindsAre
    DEF Untainted, OwnAccount, CleanSignIn, Accepts, InFlight
  <2>2. AccountIsAwaited'
    BY <1>1, <1>7, <1>8 DEF Untainted, AccountIsAwaited, Accepts, InFlight
  <2> QED BY <2>1, <2>2 DEF Untainted
<1> QED BY <1>1, <1>4, <1>5, <1>8 DEF AccountKept, InFlight

(* The account that arrives was asked for by the session.                  *)
LEMMA LoadedKeepsAccount ==
  ASSUME SessionInv, AccountKept, NEW key \in Cached, Loaded(key)
  PROVE  AccountKept'
<1>1. /\ UNCHANGED <<owner, alive, cookie, entering, shown, landing, leftover>>
      /\ InFlight(key) /\ FewerRequests({key})
  BY TakenAway DEF Loaded, server, router, Accepts, Rejects, SessionInv
<1>2. PICK of : /\ \/ Accepts(key) /\ of = owner[requests[key].session]
                   \/ key = "session" /\ of = Nobody
                /\ cache' = [cache EXCEPT ![key] = [of |-> of, stale |-> FALSE]]
  BY DEF Loaded
<1>3. requests[key].session \in Nat
  BY KindsAre DEF SessionInv, RequestsTyped, Requests
<1>4. cache' \in [Cached -> Answers']
  BY <1>1, <1>2, <1>3 DEF AccountKept, Answers
<1>5. FreshIsSettled' /\ (landing' # "none" => ~InFlight("signIn")')
  BY <1>1, <1>2, KindsAre DEF AccountKept, FreshIsSettled, FewerRequests, Fresh
<1>6. Accepts("account")' => Accepts("account") /\ key # "account"
  BY <1>1, KindsAre DEF FewerRequests, Accepts
<1>7. ASSUME Untainted, key = "session" PROVE Untainted'
  <2>1. ~SignedIn /\ cache'["account"] = cache["account"]
    BY <1>1, <1>2, <1>7, KindsAre DEF AccountKept, FreshIsSettled, SignedIn
  <2>2. OwnAccount'
    BY <1>1, <1>6, <1>7, <2>1, KindsAre DEF Untainted, OwnAccount, FewerRequests, Accepts
  <2>3. CleanSignIn'
    BY <1>1, <1>6, <1>7, <2>1, KindsAre DEF Untainted, CleanSignIn, FewerRequests
  <2>4. AccountIsAwaited'
    BY <1>1, <1>6, <1>7, <2>1 DEF Untainted, AccountIsAwaited, Fresh
  <2> QED BY <2>2, <2>3, <2>4 DEF Untainted
<1>8. ASSUME Untainted, key = "account" PROVE Untainted'
  <2>1. Accepts("account") /\ ~InFlight("signIn")'
    BY <1>1, <1>2, <1>8, KindsAre DEF Untainted, CleanSignIn, FewerRequests
  <2>2. cache'["account"] = [of |-> owner[cookie], stale |-> FALSE]
    BY <1>2, <1>8, <2>1, KindsAre DEF Untainted, OwnAccount, AccountKept
  <2>3. OwnAccount' /\ CleanSignIn'
    BY <1>1, <1>6, <1>8, <2>1, <2>2 DEF OwnAccount, CleanSignIn
  <2>4. AccountIsAwaited'
    BY <1>1, <1>6, <1>8, <2>1, <2>2 DEF Untainted, AccountIsAwaited, Fresh
  <2> QED BY <2>3, <2>4 DEF Untainted
<1> QED BY <1>1, <1>4, <1>5, <1>7, <1>8, KindsAre DEF AccountKept
(* Nothing of the former session is cached or on its way when somebody     *)
(* signs in.                                                               *)
LEMMA LoginKeepsAccount ==
  ASSUME SessionInv, AccountKept, useLogin
  PROVE  AccountKept'
<1> DEFINE sent == Renewed(Without({"signIn"}))
<1>1. /\ UNCHANGED <<owner, shown, entering, leftover>>
      /\ InFlight("signIn") /\ InvalidateSession(sent)
      /\ cookie' = issued + 1 /\ alive' = alive \cup {issued + 1} /\ issued \in Nat
  BY DEF useLogin, router, SessionInv, RequestsTyped
<1>2. \A kind \in Kinds : sent[kind] # Idle =>
        InFlight(kind) /\ kind # "signIn" /\ sent[kind].accepted = requests[kind].accepted
  <2> SUFFICES ASSUME NEW kind \in Kinds, sent[kind] # Idle
               PROVE  /\ InFlight(kind) /\ kind # "signIn"
                      /\ sent[kind].accepted = requests[kind].accepted
    OBVIOUS
  <2>1. Without({"signIn"})[kind] = (IF kind = "signIn" THEN Idle ELSE requests[kind])
    BY DEF Without
  <2>2. sent[kind] = (IF Without({"signIn"})[kind] = Idle THEN Idle
                      ELSE [Without({"signIn"})[kind] EXCEPT !.current = FALSE])
    BY DEF Renewed
  <2>3. requests[kind] # Idle /\ kind # "signIn"
    BY <2>1, <2>2
  <2>4. sent[kind] = [requests[kind] EXCEPT !.current = FALSE]
    BY <2>1, <2>2, <2>3
  <2> QED BY <2>3, <2>4 DEF InFlight, RequestsTyped, Requests, SessionInv
<1>3. sent \in Requests
  BY WithoutKeeps, RenewedCountsNone
<1> HIDE DEF sent
<1>4. /\ \A kind \in Kinds \ {"session"} : requests'[kind] = sent[kind]
      /\ cache' = [cache EXCEPT !["session"].stale = TRUE]
  BY <1>1, <1>3 DEF InvalidateSession, Requests
<1>5. ~InFlight("signIn")' /\ landing' # "none"
  BY <1>1, <1>2, <1>4, KindsAre DEF InFlight, InvalidateSession
<1>6. cache'["account"] = cache["account"] /\ cache' \in [Cached -> Answers'] /\ ~Fresh("session")'
  <2>1. cache \in [Cached -> Answers] /\ Answers' = Answers
    BY <1>1 DEF AccountKept, Answers
  <2>2. [cache["session"] EXCEPT !.stale = TRUE] \in Answers
    BY <2>1, KindsAre DEF Answers
  <2>3. cache'["session"].stale
    BY <1>4, <2>1, KindsAre DEF Answers
  <2> QED BY <1>4, <2>1, <2>2, <2>3, KindsAre DEF Fresh
<1>7. FreshIsSettled'
  BY <1>2, <1>4, <1>6, KindsAre DEF AccountKept, FreshIsSettled, InFlight, Fresh
<1>8. Accepts("account")' => Accepts("account")
  BY <1>2, <1>4, KindsAre DEF Accepts, InFlight
<1>9. ASSUME Untainted PROVE Untainted'
  BY <1>1, <1>5, <1>6, <1>8, <1>9
  DEF Untainted, OwnAccount, CleanSignIn, AccountIsAwaited
<1> QED BY <1>1, <1>5, <1>6, <1>7, <1>9 DEF AccountKept

LEMMA LandKeepsAccount ==
  ASSUME SessionInv, AccountKept, LandSession \/ LandAccount
  PROVE  AccountKept'
<1>1. UNCHANGED <<owner, alive, cookie, cache, shown, leftover>> /\ ~InFlight("signIn")
  BY DEF LandSession, LandAccount, server, router, AccountKept
<1>2. CASE LandAccount
  <2>1. entering' /\ Fresh("account") /\ landing' = "none" /\ requests' = requests
    BY <1>2 DEF LandAccount
  <2>2. ~Accepts("account")
    BY <2>1, KindsAre DEF AccountKept, FreshIsSettled, Accepts
  <2>3. Untainted => Untainted'
    BY <1>1, <2>1, <2>2
    DEF Untainted, OwnAccount, CleanSignIn, AccountIsAwaited, Accepts, InFlight, Fresh
  <2> QED BY <1>1, <2>1, <2>3 DEF AccountKept, FreshIsSettled, InFlight, Fresh, Answers
<1>3. CASE LandSession
  <2>1. landing' = "account" /\ UNCHANGED entering
    BY <1>3 DEF LandSession, router
  <2>2. CASE requests' = requests
    <3>1. Untainted => Untainted'
      BY <1>1, <1>3, <2>1, <2>2
      DEF Untainted, OwnAccount, CleanSignIn, AccountIsAwaited, Accepts, InFlight, Fresh,
          LandSession
    <3> QED BY <1>1, <2>1, <2>2, <3>1 DEF AccountKept, FreshIsSettled, InFlight, Fresh, Answers
  <2>3. CASE ~Fresh("account") /\ Send("account")
    <3>1. /\ \A other \in Kinds \ {"account"} : requests'[other] = requests[other]
          /\ requests'["account"].session = cookie
      BY <2>3, SentAlone, KindsAre DEF SessionInv
    <3>2. FreshIsSettled' /\ ~InFlight("signIn")'
      BY <1>1, <2>3, <3>1, KindsAre DEF AccountKept, FreshIsSettled, InFlight, Fresh
    <3>3. Untainted => Untainted'
      BY <1>1, <1>3, <2>1, <3>1, <3>2
      DEF Untainted, OwnAccount, CleanSignIn, AccountIsAwaited, Fresh, LandSession
    <3> QED BY <1>1, <3>2, <3>3 DEF AccountKept, Answers
  <2> QED BY <1>3, <2>2, <2>3 DEF LandSession, Send
<1> QED BY <1>2, <1>3

LEMMA StepsKeepAccount ==
  ASSUME SessionInv, AccountKept, [SessionNext]_sessionVars
  PROVE  AccountKept'
<1>1. CASE loadSession \/ loadAccount \/ \E key \in Cached : Observe(key)
  <2>1. PICK key \in Cached :
          Fetch(key) /\ (key = "account" => shown = "app" \/ (entering /\ SignedIn))
    BY <1>1, KindsAre DEF loadSession, loadAccount, Observe
  <2> QED BY <2>1, FetchKeepsAccount DEF Fetch
<1>2. CASE Read \/ Write \/ SignOut BY <1>2, SendKeepsAccount
<1>3. CASE SignIn BY <1>3, SignInKeepsAccount
<1>4. CASE Pass BY <1>4, PassKeepsAccount
<1>5. CASE useLogin BY <1>5, LoginKeepsAccount
<1>6. CASE LandSession \/ LandAccount BY <1>6, LandKeepsAccount
<1>7. CASE useLogout
  <2>1. /\ owner' = owner /\ cookie' = 0 /\ Clear("signOut")
        /\ alive' \subseteq alive
    BY <1>7 DEF useLogout
  <2> QED BY <2>1, ClearKeepsAccount, KindsAre DEF AccountKept
<1>8. CASE Wander \/ Turn \/ End \/ UNCHANGED sessionVars BY <1>8, OtherPagesKeepAccount
<1>9. CASE Age BY <1>9, AgeKeepsAccount
<1>10. CASE Lose
  <2>1. PICK kinds : requests' = Without(kinds)
    BY <1>10 DEF Lose
  <2>2. /\ UNCHANGED <<owner, cookie, cache, shown, leftover, landing, entering>>
        /\ alive' \subseteq alive
    BY <1>10 DEF Lose, router
  <2> QED BY <2>1, <2>2, TakenAway, FewerKeepAccount DEF SessionInv
<1>11. CASE \E kind \in Kinds : Refused(kind) BY <1>11, RefusedKeepsAccount
<1>12. CASE \E kind \in Kinds : Answered(kind)
  <2>1. PICK kind : requests' = Without({kind})
    BY <1>12 DEF Answered
  <2>2. UNCHANGED <<owner, alive, cookie, cache, shown, leftover, landing, entering>>
    BY <1>12 DEF Answered, server, router
  <2> QED BY <2>1, <2>2, TakenAway, FewerKeepAccount DEF SessionInv
<1>13. CASE \E key \in Cached : Loaded(key) BY <1>13, LoadedKeepsAccount
<1> QED
  BY <1>1, <1>2, <1>3, <1>4, <1>5, <1>6, <1>7, <1>8, <1>9, <1>10, <1>11, <1>12, <1>13
  DEF SessionNext, Guards, Land

LEMMA InitiallyKept == SessionInit([Sessions -> Users]) => AccountKept
<1> SUFFICES ASSUME SessionInit([Sessions -> Users]) PROVE AccountKept
  OBVIOUS
<1>1. /\ cache = [key \in Cached |-> Missing] /\ alive = {1}
      /\ \A kind \in Kinds : ~InFlight(kind)
  BY DEF SessionInit, InFlight
<1>2. Untainted
  BY <1>1, KindsAre DEF Untainted, OwnAccount, CleanSignIn, AccountIsAwaited, Accepts
<1> QED BY <1>1, <1>2, KindsAre, MissingIsAnswer DEF AccountKept, FreshIsSettled

(* Nobody is shown the account of somebody who used the tab before, except *)
(* one that was left over, for any number of users and sessions.           *)
THEOREM NoForeignDataHolds == SessionSpec => []NoForeignData
<1>1. AccountKept => NoForeignData
  BY DEF AccountKept, Untainted, OwnAccount, NoForeignData
<1> QED BY SessionStart, InitiallyKept, SessionSteps, StepsKeepAccount, <1>1, PTL DEF SessionSpec

-----------------------------------------------------------------------------
(* Of what kind everything is.  A sign-in is sent only while the server    *)
(* may still create a session, and only an existing one is accepted.       *)

Presented ==
  /\ requests \in [Kinds -> [session : 0..issued, accepted : BOOLEAN, current : BOOLEAN]]
  /\ InFlight("signIn") => issued < MaxSessions
  /\ \A kind \in Kinds : Accepts(kind) => requests[kind].session # 0

TabTyped ==
  /\ owner \in [Sessions -> Users]
  /\ issued \in Sessions
  /\ alive \subseteq 1..issued
  /\ cookie \in 0..issued
  /\ path \in {"login", "app"}
  /\ shown \in {"nothing", "error", "login", "app"}
  /\ polling \in BOOLEAN
  /\ entering \in BOOLEAN /\ redirecting \in BOOLEAN /\ leftover \in BOOLEAN
  /\ cache \in [Cached -> [of : Users \cup {Nobody, "missing"}, stale : BOOLEAN]]
  /\ landing \in {"none", "session", "joined", "account"}

LEMMA PresentedAreTyped == TabTyped /\ Presented => RequestsTyped
BY MaxSessionsAssumption DEF TabTyped, Presented, RequestsTyped, Requests, Sessions

LEMMA MissingIsTyped ==
  Missing \in [of : Users \cup {Nobody, "missing"}, stale : BOOLEAN]
BY DEF Missing

(* Requests taken away.                                                    *)
LEMMA FewerPresented ==
  ASSUME TabTyped, Presented, NEW kinds, issued' = issued,
         requests' \in {Without(kinds), Renewed(Without(kinds))}
  PROVE  Presented'
<1> DEFINE Asked == [session : 0..issued, accepted : BOOLEAN, current : BOOLEAN]
<1>1. Idle \in Asked
  BY MaxSessionsAssumption DEF Idle, Request, TabTyped, Sessions
<1>2. Without(kinds) \in [Kinds -> Asked]
  BY <1>1 DEF Without, Presented
<1>3. Renewed(Without(kinds)) \in [Kinds -> Asked]
  <2> DEFINE sent == Without(kinds)
  <2>1. sent \in [Kinds -> Asked]
    BY <1>2
  <2> HIDE DEF sent
  <2>2. ASSUME NEW kind \in Kinds PROVE Renewed(sent)[kind] \in Asked
    <3>1. [sent[kind] EXCEPT !.current = FALSE] \in Asked
      BY <2>1
    <3> QED BY <1>1, <3>1 DEF Renewed
  <2>3. Renewed(sent) \in [Kinds -> Asked]
    BY <2>2 DEF Renewed
  <2> QED BY <2>3 DEF sent
<1>4. FewerRequests(kinds)
  BY TakenAway, PresentedAreTyped
<1>5. requests' \in [Kinds -> Asked]
  BY <1>2, <1>3
<1>6. (InFlight("signIn") => issued < MaxSessions)'
  BY <1>4, KindsAre DEF FewerRequests, Presented
<1>7. (\A kind \in Kinds : Accepts(kind) => requests[kind].session # 0)'
  BY <1>4 DEF FewerRequests, Presented, Accepts
<1> QED BY <1>5, <1>6, <1>7 DEF Presented

(* One request sent.                                                       *)
LEMMA SentPresented ==
  ASSUME TabTyped, Presented, NEW kind \in Kinds, Send(kind), issued' = issued,
         kind = "signIn" => issued < MaxSessions
  PROVE  Presented'
<1>1. requests' = [requests EXCEPT ![kind] = Sent]
  BY DEF Send
<1>2. Sent \in [session : 0..issued, accepted : BOOLEAN, current : BOOLEAN]
  BY DEF Sent, Request, TabTyped
<1>3. Sent.accepted => Sent.session # 0
  <2>1. (Sent.accepted <=> cookie \in alive) /\ Sent.session = cookie
    BY DEF Sent, Request
  <2> QED BY <2>1 DEF TabTyped, Sessions
<1> HIDE DEF Sent
<1> QED BY <1>1, <1>2, <1>3 DEF Presented, InFlight, Accepts

LEMMA SamePresented ==
  ASSUME Presented, UNCHANGED <<requests, issued>>
  PROVE  Presented'
BY DEF Presented, InFlight, Accepts

LEMMA LandingTyped ==
  ASSUME TabTyped, NEW kinds, Forsaken(kinds)
  PROVE  landing' \in {"none", "session", "joined", "account"}
BY DEF TabTyped, Forsaken

(* The session that a sign-in creates is one of the server's.              *)
LEMMA LoginTyped ==
  ASSUME TabTyped, Presented, useLogin
  PROVE  TabTyped' /\ Presented'
<1> DEFINE sent == Renewed(Without({"signIn"}))
           Asked == [session : 0..issued, accepted : BOOLEAN, current : BOOLEAN]
           AskedNow == [session : 0..issued', accepted : BOOLEAN, current : BOOLEAN]
<1>1. /\ issued \in 1..MaxSessions /\ issued < MaxSessions
      /\ issued' = issued + 1 /\ cookie' = issued' /\ alive' = alive \cup {issued'}
      /\ UNCHANGED <<owner, path, entering, shown, polling, redirecting, leftover>>
      /\ InvalidateSession(sent)
  BY DEF useLogin, TabTyped, Presented, Sessions, router
<1>2. issued' \in Sessions /\ 0..issued \subseteq 0..issued' /\ issued' # 0
  BY <1>1, MaxSessionsAssumption DEF Sessions
<1>3. sent \in [Kinds -> AskedNow]
  <2>1. Idle \in Asked
    BY <1>1 DEF Idle, Request
  <2>2. Without({"signIn"}) \in [Kinds -> Asked]
    BY <2>1 DEF Without, Presented
  <2>3. ASSUME NEW kind \in Kinds PROVE sent[kind] \in AskedNow
    <3> DEFINE kept == Without({"signIn"})
    <3>1. [kept[kind] EXCEPT !.current = FALSE] \in AskedNow
      BY <1>2, <2>2
    <3>2. Idle \in AskedNow
      BY <1>2, <2>1
    <3> QED BY <3>1, <3>2 DEF Renewed
  <2> QED BY <2>3 DEF Renewed
<1>4. \A kind \in Kinds : sent[kind] # Idle =>
        /\ kind # "signIn"
        /\ sent[kind].accepted => sent[kind].session # 0
  <2> SUFFICES ASSUME NEW kind \in Kinds, sent[kind] # Idle
               PROVE  /\ kind # "signIn"
                      /\ sent[kind].accepted => sent[kind].session # 0
    OBVIOUS
  <2>1. Without({"signIn"})[kind] = (IF kind = "signIn" THEN Idle ELSE requests[kind])
    BY DEF Without
  <2>2. sent[kind] = (IF Without({"signIn"})[kind] = Idle THEN Idle
                      ELSE [Without({"signIn"})[kind] EXCEPT !.current = FALSE])
    BY DEF Renewed
  <2>3. requests[kind] # Idle /\ kind # "signIn"
    BY <2>1, <2>2
  <2>4. sent[kind] = [requests[kind] EXCEPT !.current = FALSE]
    BY <2>1, <2>2, <2>3
  <2> QED BY <2>3, <2>4 DEF Presented, Accepts, InFlight
<1> HIDE DEF sent
<1>5. /\ \/ requests' = sent
         \/ requests' = [sent EXCEPT !["session"] = Request(issued', TRUE)]
      /\ cache' = [cache EXCEPT !["session"].stale = TRUE]
      /\ landing' \in {"session", "joined"}
  BY <1>1 DEF InvalidateSession
<1>6. Request(issued', TRUE) \in AskedNow /\ Request(issued', TRUE).session # 0
  BY <1>2, MaxSessionsAssumption DEF Request, Sessions
<1>7. Presented'
  <2>1. requests' \in [Kinds -> AskedNow]
    BY <1>3, <1>5, <1>6
  <2>2. ~InFlight("signIn")'
    BY <1>3, <1>4, <1>5, KindsAre DEF InFlight
  <2>3. (\A kind \in Kinds : Accepts(kind) => requests[kind].session # 0)'
    BY <1>3, <1>4, <1>5, <1>6, KindsAre DEF Accepts, InFlight
  <2> QED BY <2>1, <2>2, <2>3 DEF Presented
<1>8. (cache \in [Cached -> [of : Users \cup {Nobody, "missing"}, stale : BOOLEAN]])'
  BY <1>5 DEF TabTyped
<1>9. (alive \subseteq 1..issued)' /\ (cookie \in 0..issued)'
  BY <1>1, <1>2 DEF TabTyped
<1> QED BY <1>1, <1>2, <1>5, <1>7, <1>8, <1>9 DEF TabTyped

LEMMA LogoutTyped ==
  ASSUME TabTyped, Presented, useLogout
  PROVE  TabTyped' /\ Presented'
<1>1. /\ UNCHANGED <<owner, issued, shown, polling, redirecting>>
      /\ alive' \subseteq alive /\ cookie' = 0 /\ path' = "login" /\ entering' = TRUE
      /\ cache' = [key \in Cached |-> Missing] /\ leftover' = FALSE
      /\ requests' = Renewed(Without(Reads \cup {"signOut"})) /\ Forsaken(Reads)
  BY DEF useLogout, Clear
<1>2. Presented'
  BY <1>1, FewerPresented
<1>3. landing' \in {"none", "session", "joined", "account"}
  BY <1>1, LandingTyped
<1>4. cookie' \in 0..issued'
  BY <1>1, MaxSessionsAssumption DEF TabTyped, Sessions
<1>5. (cache \in [Cached -> [of : Users \cup {Nobody, "missing"}, stale : BOOLEAN]])'
  BY <1>1, MissingIsTyped
<1>6. TabTyped'
  BY <1>1, <1>3, <1>4, <1>5 DEF TabTyped
<1> QED BY <1>2, <1>6

LEMMA RefusedTyped ==
  ASSUME TabTyped, Presented, NEW kind \in Kinds, Refused(kind)
  PROVE  TabTyped' /\ Presented'
<1>1. UNCHANGED <<owner, issued, alive, cookie>>
  BY DEF Refused, server
<1>2. CASE requests' \in {Dropped(kind), Renewed(Dropped(kind))} /\ Drop(kind)
  <2>1. Presented'
    BY <1>1, <1>2, FewerPresented DEF Dropped
  <2>2. landing' \in {"none", "session", "joined", "account"}
    BY <1>2, LandingTyped DEF Drop
  <2>3. /\ UNCHANGED <<path, cache, leftover>>
        /\ \/ UNCHANGED <<entering, shown, polling, redirecting>>
           \/ /\ entering' = FALSE /\ shown' = "error" /\ polling' = FALSE
              /\ redirecting' = FALSE
    BY <1>2 DEF Drop
  <2> QED BY <1>1, <2>1, <2>2, <2>3 DEF TabTyped
<1>3. CASE /\ Clear(kind) /\ path' = "login" /\ entering' = TRUE /\ redirecting' = TRUE
           /\ UNCHANGED <<shown, polling>>
  <2>1. Presented'
    BY <1>1, <1>3, FewerPresented DEF Clear
  <2>2. landing' \in {"none", "session", "joined", "account"}
    BY <1>3, LandingTyped DEF Clear
  <2>3. leftover' = FALSE /\ cache' = [key \in Cached |-> Missing]
    BY <1>3 DEF Clear
  <2> QED BY <1>1, <1>3, <2>1, <2>2, <2>3, MissingIsTyped DEF TabTyped
<1> QED BY <1>2, <1>3 DEF Refused, expireSession

LEMMA PassTyped ==
  ASSUME TabTyped, Presented, Pass
  PROVE  TabTyped' /\ Presented'
<1>1. UNCHANGED <<owner, issued, alive, cookie, cache>>
  BY DEF Pass, requireUser, redirectAuthenticatedFromLogin, server
<1>2. leftover' \in BOOLEAN
  BY DEF Pass, requireUser, redirectAuthenticatedFromLogin, TabTyped
<1>3. CASE \E to \in {"login", "app"} : Redirect(to)
  <2>1. /\ path' \in {"login", "app"}
        /\ UNCHANGED <<entering, shown, polling, redirecting, requests, landing>>
    BY <1>3 DEF Redirect
  <2> QED BY <1>1, <1>2, <2>1, SamePresented DEF TabTyped
<1>4. CASE \E page \in {"login", "app"} : Show(page) /\ path' = path
  <2>1. PICK kinds :
          /\ requests' = Without(kinds) /\ Forsaken(kinds)
          /\ shown' \in {"login", "app"} /\ polling' \in BOOLEAN
          /\ entering' = FALSE /\ redirecting' = FALSE /\ path' = path
    BY <1>4 DEF Show, Polling, TabTyped
  <2>2. landing' \in {"none", "session", "joined", "account"}
    BY <2>1, LandingTyped
  <2> QED BY <1>1, <1>2, <2>1, <2>2, FewerPresented DEF TabTyped
<1> QED BY <1>3, <1>4 DEF Pass, requireUser, redirectAuthenticatedFromLogin

(* Whose account arrives is one of the users: the server accepted the      *)
(* session that asked for it.                                              *)
LEMMA LoadedTyped ==
  ASSUME TabTyped, Presented, NEW key \in Cached, Loaded(key)
  PROVE  TabTyped' /\ Presented'
<1>1. UNCHANGED <<owner, issued, alive, cookie, path, entering, shown, polling,
                  redirecting, landing,
                  leftover>>
  BY DEF Loaded, server, router
<1>2. PICK of : /\ (Accepts(key) /\ of = owner[requests[key].session]) \/ of = Nobody
                /\ cache' = [cache EXCEPT ![key] = [of |-> of, stale |-> FALSE]]
  BY DEF Loaded
<1>3. of \in Users \cup {Nobody, "missing"}
  <2>1. CASE Accepts(key) /\ of = owner[requests[key].session]
    <3>1. requests[key].session \in 0..issued /\ requests[key].session # 0
      BY <2>1, KindsAre DEF Presented
    <3>2. requests[key].session \in Sessions
      BY <3>1, MaxSessionsAssumption DEF TabTyped, Sessions
    <3> QED BY <2>1, <3>2 DEF TabTyped
  <2> QED BY <1>2, <2>1
<1>4. (cache \in [Cached -> [of : Users \cup {Nobody, "missing"}, stale : BOOLEAN]])'
  BY <1>2, <1>3 DEF TabTyped
<1>5. Presented'
  BY <1>1, FewerPresented DEF Loaded
<1> QED BY <1>1, <1>4, <1>5 DEF TabTyped

LEMMA TypedSteps ==
  ASSUME TabTyped, Presented, [SessionNext]_sessionVars
  PROVE  TabTyped' /\ Presented'
<1>1. CASE loadSession \/ loadAccount \/ \E key \in Cached : Observe(key)
  <2>1. PICK key \in Cached : Fetch(key) /\ UNCHANGED router
    BY <1>1 DEF loadSession, loadAccount, Observe, Fetch, Cached
  <2>2. Presented'
    BY <2>1, SentPresented, KindsAre DEF Fetch, server
  <2> QED BY <2>1, <2>2 DEF Fetch, server, router, TabTyped
<1>2. CASE Read \/ Write \/ SignIn \/ SignOut
  <2>1. Presented'
    BY <1>2, SentPresented, KindsAre DEF Read, Write, SignIn, SignOut, server
  <2>2. /\ UNCHANGED <<owner, issued, alive, cookie, path, entering, shown, polling,
                       redirecting, cache,
                       landing>>
        /\ leftover' \in BOOLEAN
    BY <1>2 DEF Read, Write, SignIn, SignOut, server, router, TabTyped
  <2> QED BY <2>1, <2>2 DEF TabTyped
<1>3. CASE Pass BY <1>3, PassTyped
<1>4. CASE useLogin BY <1>4, LoginTyped
<1>5. CASE LandSession
  <2>1. Presented'
    <3>1. CASE requests' = requests
      BY <1>5, <3>1, SamePresented DEF LandSession, server
    <3>2. CASE Send("account")
      BY <1>5, <3>2, SentPresented, KindsAre DEF LandSession, server
    <3> QED BY <1>5, <3>1, <3>2 DEF LandSession, Send
  <2> QED BY <1>5, <2>1 DEF LandSession, server, router, TabTyped
<1>6. CASE LandAccount
  BY <1>6, SamePresented DEF LandAccount, server, TabTyped
<1>7. CASE useLogout BY <1>7, LogoutTyped
<1>8. CASE Wander \/ Turn
  BY <1>8, SamePresented DEF Wander, Turn, server, TabTyped
<1>9. CASE Age
  <2>1. PICK key \in Cached : cache' = [cache EXCEPT ![key].stale = TRUE]
    BY <1>9 DEF Age
  <2>2. (cache \in [Cached -> [of : Users \cup {Nobody, "missing"}, stale : BOOLEAN]])'
    BY <2>1 DEF TabTyped
  <2> QED BY <1>9, <2>2, SamePresented DEF Age, server, router, TabTyped
<1>10. CASE Lose
  <2>1. PICK kinds : requests' = Without(kinds)
    BY <1>10 DEF Lose
  <2>2. /\ UNCHANGED <<owner, issued, cookie, path, entering, shown, polling, redirecting,
                       cache, landing,
                       leftover>>
        /\ alive' \subseteq alive
    BY <1>10 DEF Lose, router
  <2> QED BY <2>1, <2>2, FewerPresented DEF TabTyped
<1>11. CASE \E kind \in Kinds : Refused(kind) BY <1>11, RefusedTyped
<1>12. CASE \E kind \in Kinds : Answered(kind)
  <2>1. PICK kinds : requests' = Without(kinds)
    BY <1>12 DEF Answered
  <2>2. UNCHANGED <<owner, issued, alive, cookie, path, entering, shown, polling,
                    redirecting, cache,
                    landing, leftover>>
    BY <1>12 DEF Answered, server, router
  <2> QED BY <2>1, <2>2, FewerPresented DEF TabTyped
<1>13. CASE \E key \in Cached : Loaded(key) BY <1>13, LoadedTyped
<1>14. CASE End
  <2>1. /\ UNCHANGED <<owner, issued, cookie, path, entering, shown, polling, redirecting,
                       cache, requests,
                       landing, leftover>>
        /\ alive' \subseteq alive
    BY <1>14 DEF End, router
  <2> QED BY <2>1, SamePresented DEF TabTyped
<1>15. CASE UNCHANGED sessionVars
  BY <1>15, SamePresented DEF sessionVars, TabTyped
<1> QED
  BY <1>1, <1>2, <1>3, <1>4, <1>5, <1>6, <1>7, <1>8, <1>9, <1>10, <1>11, <1>12, <1>13, <1>14,
     <1>15
  DEF SessionNext, Guards, Land

LEMMA TypedStart ==
  ASSUME NEW owners \in SUBSET [Sessions -> Users], SessionInit(owners)
  PROVE  TabTyped /\ Presented
<1>1. \A kind \in Kinds : requests[kind] = Idle /\ ~InFlight(kind)
  BY DEF SessionInit, InFlight
<1>2. issued = 1 /\ 1 \in Sessions /\ 1 \in 0..1 /\ 0 \in 0..1 /\ alive \subseteq 1..1
  BY MaxSessionsAssumption DEF SessionInit, Sessions
<1>3. Presented
  BY <1>1, <1>2, KindsAre DEF SessionInit, Presented, Accepts, Idle, Request
<1>4. TabTyped
  BY <1>2, MissingIsTyped DEF SessionInit, TabTyped
<1> QED BY <1>3, <1>4

(* The tab never presents a session that the server has not created, and   *)
(* caches nobody's account but a user's, for any number of them.           *)
THEOREM SessionTyped == SessionSpec => []SessionTypeOK
<1>1. SessionInit([Sessions -> Users]) => TabTyped /\ Presented
  BY TypedStart
<1>2. TabTyped /\ Presented => SessionTypeOK
  BY DEF TabTyped, Presented, SessionTypeOK
<1> QED BY <1>1, TypedSteps, <1>2, PTL DEF SessionSpec
=============================================================================
