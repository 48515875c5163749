---------------------------- MODULE AdminSession ----------------------------
(***************************************************************************)
(* Sessions as one tab of the administration web interface sees them: the  *)
(* transport that notices a session is over and tells answers of earlier   *)
(* generations apart, the cached session and account, the guards of the    *)
(* login page and of the application, signing in and out.  The server may  *)
(* end the session at any moment, and answers arrive in any order.         *)
(***************************************************************************)
EXTENDS Naturals, FiniteSets

CONSTANTS
  Users,         \* who may sign in
  MaxSessions    \* how many sessions the server creates

ASSUME MaxSessionsAssumption == MaxSessions \in Nat \ {0}

VARIABLES
  owner,         \* whose session each is, decided in advance
  issued,        \* sessions created so far; the first is older than the tab
  alive,         \* sessions the server still accepts
  cookie,        \* the session the tab presents, 0 for none
  path,          \* where the router is or is going
  entering,      \* the guards of that address have not finished
  shown,         \* what is rendered meanwhile
  polling,       \* that page polls, and the tab is not in the background
  redirecting,   \* expireSession is on its way to the login page
  cache,         \* the cached session and account: whose, and whether stale
  requests,      \* at most one of each kind in flight
  landing,       \* how far the page is after a sign-in succeeded
  leftover       \* an account stayed cached when a guard found its session over,
                 \* or somebody signed in during a session

sessionVars == <<owner, issued, alive, cookie, path, entering, shown, polling, redirecting,
                 cache, requests, landing, leftover>>
server == <<owner, issued, alive>>
router == <<path, entering, shown, polling, redirecting>>

Sessions == 1..MaxSessions
Cached == {"session", "account"}
Reads == Cached \cup {"read"}
Kinds == Reads \cup {"write", "signIn", "signOut"}

Nobody == "nobody"
Missing == [of |-> "missing", stale |-> TRUE]

(* A request in flight: the session it presents, whether the server        *)
(* accepted that session when it was sent, and whether the transport's     *)
(* generation is still the one it was sent in.                             *)
Request(session, accepted) == [session |-> session, accepted |-> accepted, current |-> TRUE]

(* None: no request without a session is ever accepted.                    *)
Idle == Request(0, TRUE)

SessionTypeOK ==
  /\ owner \in [Sessions -> Users]
  /\ issued \in Sessions
  /\ alive \subseteq 1..issued
  /\ cookie \in 0..issued
  /\ path \in {"login", "app"}
  /\ shown \in {"nothing", "error", "login", "app"}
  /\ {entering, polling, redirecting, leftover} \subseteq BOOLEAN
  /\ cache \in [Cached -> [of : Users \cup {Nobody, "missing"}, stale : BOOLEAN]]
  /\ requests \in [Kinds -> [session : 0..issued, accepted : BOOLEAN, current : BOOLEAN]]
  /\ landing \in {"none", "session", "joined", "account"}

(* A tab is opened on the application, with a session from before.         *)
SessionInit(owners) ==
  /\ owner \in owners
  /\ issued = 1
  /\ alive = {1}
  /\ cookie = 1
  /\ path = "app" /\ entering = TRUE /\ shown = "nothing" /\ polling = FALSE
  /\ redirecting = FALSE
  /\ cache = [key \in Cached |-> Missing]
  /\ requests = [kind \in Kinds |-> Idle]
  /\ landing = "none"
  /\ leftover = FALSE

(* The server ends the session: it ran out, or its user was deleted.       *)
End ==
  /\ cookie \in alive
  /\ alive' = alive \ {cookie}
  /\ UNCHANGED <<owner, issued, cookie, router, cache, requests, landing, leftover>>

-----------------------------------------------------------------------------
(* Requests and answers.                                                   *)

InFlight(kind) == requests[kind] # Idle

Sent == Request(cookie, cookie \in alive)

Send(kind) == ~InFlight(kind) /\ requests' = [requests EXCEPT ![kind] = Sent]

(* The server answered at some moment between the two: it may have         *)
(* accepted a session that is over by now.                                 *)
Accepts(kind) == InFlight(kind) /\ requests[kind].accepted
Rejects(kind) == InFlight(kind) /\ requests[kind].session \notin alive

Without(kinds) == [kind \in Kinds |-> IF kind \in kinds THEN Idle ELSE requests[kind]]

(* A new generation of the transport.                                      *)
Renewed(sent) ==
  [kind \in Kinds |-> IF sent[kind] = Idle THEN Idle ELSE [sent[kind] EXCEPT !.current = FALSE]]

(* Whoever awaits the account after a sign-in fails with its request.      *)
Forsaken(kinds) ==
  landing' = IF landing = "account" /\ "account" \in kinds /\ InFlight("account")
               THEN "none" ELSE landing

ClearAborting(kind) ==
  /\ requests' = Renewed(Without(Reads \cup {kind}))
  /\ Forsaken(Reads)
  /\ leftover' = FALSE
  /\ UNCHANGED cache

(* Clearing the query cache aborts its queries, never a mutation.          *)
Clear(kind) ==
  /\ cache' = [key \in Cached |-> Missing]
  /\ requests' = Renewed(Without(Reads \cup {kind}))
  /\ Forsaken(Reads)
  /\ leftover' = FALSE

Fresh(key) == ~cache[key].stale
SignedOut == Fresh("session") /\ cache["session"].of = Nobody
SignedIn == Fresh("session") /\ cache["session"].of # Nobody

(* Observers and guards share one fetch of what is missing or stale.       *)
Fetch(key) ==
  /\ ~Fresh(key)
  /\ Send(key)
  /\ UNCHANGED <<server, cookie, router, cache, landing, leftover>>

-----------------------------------------------------------------------------
(* The guards: a cached answer that is fresh is enough.                    *)

loadSession == entering /\ Fetch("session")
loadAccount == entering /\ SignedIn /\ Fetch("account")

(* Which pages of the application poll: those of the stations, and that of *)
(* the directory's synchronisation where it is enabled.                    *)
Polling(page) == IF page = "app" THEN BOOLEAN ELSE {FALSE}

(* Another page drops what the observers of the last one were waiting for; *)
(* leaving the application drops the account too.                          *)
Show(page) ==
  \E stays \in BOOLEAN :
    LET left == (IF stays THEN {} ELSE {"read"})
                  \cup (IF page = "login" /\ shown = "app" THEN {"account"} ELSE {})
    IN /\ IF stays THEN shown = page /\ UNCHANGED polling ELSE polling' \in Polling(page)
       /\ shown' = page
       /\ entering' = FALSE
       /\ redirecting' = FALSE
       /\ requests' = Without(left)
       /\ Forsaken(left)

Redirect(to) ==
  /\ path' = to
  /\ UNCHANGED <<entering, shown, polling, redirecting, requests, landing>>

requireUser ==
  /\ entering /\ path = "app"
  /\ \/ /\ SignedOut
        /\ Redirect("login")
        /\ leftover' = (leftover \/ cache["account"] # Missing)
     \/ /\ SignedIn /\ Fresh("account")
        /\ Show("app")
        /\ UNCHANGED <<path, leftover>>
  /\ UNCHANGED <<server, cookie, cache>>

redirectAuthenticatedFromLogin ==
  /\ entering /\ path = "login"
  /\ \/ /\ SignedOut
        /\ Show("login")
        /\ leftover' = (leftover \/ cache["account"] # Missing)
        /\ UNCHANGED path
     \/ /\ SignedIn /\ Fresh("account")
        /\ Redirect("app")
        /\ UNCHANGED leftover
  /\ UNCHANGED <<server, cookie, cache>>

(* Somebody follows a link, goes back, or tries an error page again.       *)
Wander ==
  /\ shown # "nothing" \/ ~entering
  /\ path' \in {"login", "app"}
  /\ entering' = TRUE
  /\ UNCHANGED <<server, cookie, shown, polling, redirecting, cache, requests, landing, leftover>>

-----------------------------------------------------------------------------
(* What a rendered page sends: its observers refetch a stale session or    *)
(* account, its queries read, and somebody saves something.                *)

Observe(key) == (shown = "app" \/ (shown = "login" /\ key = "session")) /\ Fetch(key)

Read ==
  /\ shown = "app"
  /\ Send("read")
  /\ UNCHANGED <<server, cookie, router, cache, landing, leftover>>

Poll == polling /\ Read

(* The tab goes to the background or comes back, or the synchronisation is *)
(* disabled or enabled while its page is shown.                            *)
Turn ==
  /\ shown = "app"
  /\ polling' = ~polling
  /\ UNCHANGED <<server, cookie, path, entering, shown, redirecting, cache, requests, landing,
                 leftover>>

(* Bound: what the last session saves is followed by no other session.     *)
Write ==
  /\ shown = "app" /\ issued < MaxSessions
  /\ Send("write")
  /\ UNCHANGED <<server, cookie, router, cache, landing, leftover>>

(* Thirty seconds pass; entering a page takes less.                        *)
Age ==
  /\ ~entering /\ landing = "none"
  /\ \E key \in Cached : Fresh(key) /\ cache' = [cache EXCEPT ![key].stale = TRUE]
  /\ UNCHANGED <<server, cookie, router, requests, landing, leftover>>

-----------------------------------------------------------------------------
(* An answer arrives.                                                      *)

(* The guards that awaited an account they are refused put an error page   *)
(* in the place of what was shown.                                         *)
Fails(kind) == kind = "account" /\ entering /\ SignedIn

Drop(kind) ==
  /\ \/ /\ Fails(kind)
        /\ entering' = FALSE /\ shown' = "error" /\ polling' = FALSE
        /\ redirecting' = FALSE
     \/ ~Fails(kind) /\ UNCHANGED <<entering, shown, polling, redirecting>>
  /\ Forsaken({kind})
  /\ UNCHANGED <<path, cache, leftover>>

Dropped(kind) == Without(IF Fails(kind) THEN {kind, "read"} ELSE {kind})

expireSession(kind) ==
  IF path = "login" \/ redirecting
    THEN requests' = Renewed(Dropped(kind)) /\ Drop(kind)
    ELSE /\ redirecting' = TRUE
         /\ Clear(kind)
         /\ path' = "login" /\ entering' = TRUE
         /\ UNCHANGED <<shown, polling>>

(* A 401 expires the session if the generation is still its own.           *)
RefusedInAny(kind) ==
  /\ kind \notin {"session", "signIn"}
  /\ Rejects(kind)
  /\ expireSession(kind)
  /\ UNCHANGED <<server, cookie>>

RefusedQuietly(kind) ==
  /\ kind \notin {"session", "signIn"}
  /\ Rejects(kind)
  /\ \/ kind # "read" /\ requests[kind].current /\ expireSession(kind)
     \/ /\ kind = "read" \/ ~requests[kind].current
        /\ requests' = Dropped(kind)
        /\ Drop(kind)
  /\ UNCHANGED <<server, cookie>>

Refused(kind) ==
  /\ kind \notin {"session", "signIn"}
  /\ Rejects(kind)
  /\ \/ requests[kind].current /\ expireSession(kind)
     \/ ~requests[kind].current /\ requests' = Dropped(kind) /\ Drop(kind)
  /\ UNCHANGED <<server, cookie>>

(* GET /api/session answers whoever asks; nobody without a session.        *)
Loaded(key) ==
  /\ \E of \in (IF Accepts(key) THEN {owner[requests[key].session]} ELSE {})
                 \cup (IF key = "session" /\ Rejects(key) THEN {Nobody} ELSE {}) :
       cache' = [cache EXCEPT ![key] = [of |-> of, stale |-> FALSE]]
  /\ requests' = Without({key})
  /\ UNCHANGED <<server, cookie, router, landing, leftover>>

Answered(kind) ==
  /\ kind \in {"read", "write"}
  /\ Accepts(kind)
  /\ requests' = Without({kind})
  /\ UNCHANGED <<server, cookie, router, cache, landing, leftover>>

-----------------------------------------------------------------------------
(* Signing in and out.  A call that is lost on its way back leaves what it *)
(* did to the server: a session nobody holds, or a session that is over.   *)

SignIn ==
  /\ shown = "login" /\ path = "login" /\ ~entering
  /\ landing = "none" /\ issued < MaxSessions
  /\ Send("signIn")
  /\ leftover' = (leftover \/ cookie \in alive)
  /\ UNCHANGED <<server, cookie, router, cache, landing>>

(* Invalidated, the session is fetched again, its fetch on the way dropped *)
(* unless it is the first.                                                 *)
InvalidateNothing(sent) == requests' = sent /\ landing' = "session" /\ UNCHANGED cache

InvalidateSession(sent) ==
  /\ cache' = [cache EXCEPT !["session"].stale = TRUE]
  /\ \/ /\ InFlight("session") /\ cache["session"] = Missing
        /\ requests' = sent
        /\ landing' = "joined"
     \/ /\ ~InFlight("session") \/ cache["session"] # Missing
        /\ requests' = [sent EXCEPT !["session"] = Request(issued', TRUE)]
        /\ landing' = "session"

useLogin ==
  /\ InFlight("signIn")
  /\ issued' = issued + 1
  /\ alive' = alive \cup {issued'}
  /\ cookie' = issued'
  /\ InvalidateSession(Renewed(Without({"signIn"})))
  /\ UNCHANGED <<owner, router, leftover>>

LandSession ==
  /\ landing \in {"session", "joined"} /\ ~InFlight("session")
  /\ landing' = "account"
  /\ requests' = IF Fresh("account") \/ InFlight("account") THEN requests
                 ELSE [requests EXCEPT !["account"] = Sent]
  /\ UNCHANGED <<server, cookie, router, cache, leftover>>

LandAccount ==
  /\ landing = "account" /\ Fresh("account")
  /\ landing' = "none"
  /\ path' = "app" /\ entering' = TRUE
  /\ UNCHANGED <<server, cookie, shown, polling, redirecting, cache, requests, leftover>>

SignOut ==
  /\ shown = "app" /\ ~entering
  /\ Send("signOut")
  /\ UNCHANGED <<server, cookie, router, cache, landing, leftover>>

useLogout ==
  /\ InFlight("signOut")
  /\ alive' = alive \ {requests["signOut"].session}
  /\ cookie' = 0
  /\ Clear("signOut")
  /\ path' = "login" /\ entering' = TRUE
  /\ UNCHANGED <<owner, issued, shown, polling, redirecting>>

Lose ==
  /\ \/ InFlight("signIn") /\ requests' = Without({"signIn"}) /\ UNCHANGED alive
     \/ /\ InFlight("signOut")
        /\ requests' = Without({"signOut"})
        /\ alive' \in {alive, alive \ {requests["signOut"].session}}
  /\ UNCHANGED <<owner, issued, cookie, router, cache, landing, leftover>>

-----------------------------------------------------------------------------
Pass == requireUser \/ redirectAuthenticatedFromLogin
Guards == loadSession \/ loadAccount \/ Pass
Land == useLogin \/ LandSession \/ LandAccount

SessionNext ==
  \/ Guards \/ Land \/ useLogout
  \/ Wander \/ Turn \/ Read \/ Write \/ Age \/ SignIn \/ SignOut \/ Lose \/ End
  \/ \E kind \in Kinds : Refused(kind) \/ Answered(kind)
  \/ \E key \in Cached : Observe(key) \/ Loaded(key)

(* Guards and sign-ins go on, pages that poll poll in the foreground, and  *)
(* every request is answered.                                              *)
SessionFairness ==
  /\ WF_sessionVars(Guards) /\ WF_sessionVars(Land) /\ WF_sessionVars(Poll)
  /\ \A key \in Cached : WF_sessionVars(Loaded(key) \/ Refused(key))
  /\ WF_sessionVars(Answered("read") \/ Refused("read"))

SessionSpec == SessionInit([Sessions -> Users]) /\ [][SessionNext]_sessionVars /\ SessionFairness

-----------------------------------------------------------------------------
(* Only a session that is over is expired: an answer to a request of an    *)
(* earlier session, however late, never throws out whoever signed in since.*)
ExpiredOnlyDead == [][~redirecting /\ redirecting' => cookie \notin alive]_sessionVars

(* Nobody is shown the account of somebody who used the tab before, except *)
(* one that was left cached because a guard, and not an answer, found the  *)
(* session over, or because somebody signed in while it was not.           *)
NoForeignData ==
  shown = "app" /\ ~entering /\ cookie \in alive /\ cache["account"] # Missing =>
    cache["account"].of = owner[cookie] \/ leftover

(* Whoever stays on a page that polls, with the tab in the foreground and  *)
(* a session that is over, ends on the login page, or on the error page of *)
(* a guard that was refused the account meanwhile.  Other pages notice it  *)
(* with their next request, whenever that is, and somebody who never stops *)
(* navigating takes every answer away before it arrives.                   *)
DeadSessionEndsAtLogin ==
  \/ []<><<Wander>>_sessionVars
  \/ polling /\ cookie \notin alive ~>
       \/ shown \in {"login", "error"}
       \/ cookie \in alive
       \/ shown = "app" /\ ~polling

(* A sign-in that succeeded ends in the application, unless its session is *)
(* already over or somebody never stops navigating.  The exception is a    *)
(* sign-in that joins the fetch a late sign-out made the login page start: *)
(* it is told that nobody is signed in.                                    *)
SignInLands ==
  \/ []<><<Wander>>_sessionVars
  \/ landing = "session" ~> (shown = "app" /\ ~entering) \/ cookie \notin alive
=============================================================================
