----------------------------- MODULE StationApp -----------------------------
(***************************************************************************)
(* The companion app: ModelData (app/WoodGate/State/ModelData.swift) with  *)
(* the settings it saves (Model/AppSettings.swift) and the views that call *)
(* it.  All of it runs on the main actor, so code between two awaits is    *)
(* one step and everything else interleaves: the bootstrap, a pairing, a   *)
(* refresh, a submission and the control loops suspend at their requests   *)
(* and resume in whatever state the others have left.                      *)
(*                                                                         *)
(* A pairing stands for a server with a key that this server accepts;      *)
(* settings keep the two halves apart.  What a server answers is left      *)
(* open: a request succeeds or fails.  controlGeneration is compared only  *)
(* for equality, so current holds the loops whose generation it is.  A     *)
(* stored URL is always one that serverURL accepts, and the station and    *)
(* location ids are stored with it, so woodGateClient is nil exactly when  *)
(* hasPairing is false.                                                    *)
(***************************************************************************)
EXTENDS FiniteSets

CONSTANTS
    Pairings,      \* servers the station can be paired with
    Pairers,       \* calls of beginPairing that can be under way together
    Loops,         \* control loops that can be alive together
    StorageFails,  \* whether SwiftData's fetch and save may throw
    None

ASSUME StorageAssumption == StorageFails \in BOOLEAN
ASSUME NoneAssumption == None \notin Pairings \cup Pairers \cup Loops

VARIABLES
    url, secret,   \* AppSettings.baseURLString and stationSecret: whose they are, None when empty
    session,       \* currentSession, by its baseURLString
    unavailable,   \* unavailableState is set
    busy,          \* isBusy
    boot,          \* bootstrap: where it is, and the URL of the session it is building
    pairing,       \* each call of beginPairing: where it is, and its payload
    refresh,       \* refreshInFlightTask: where it is, the session it captured, who cleans up
    submit,        \* the check-in form: idle, tapped, sending or failed
    control,       \* controlTask, by its loop
    controlSocket, \* controlSocket, by the loop that opened it
    current,       \* loops whose generation is controlGeneration
    at,            \* where each control loop is
    cancelled,     \* loops whose task was cancelled
    open           \* loops whose activeSocket is open

settings == <<url, secret>>
display == <<session, unavailable>>
controlVars == <<control, controlSocket, current, at, cancelled, open>>
vars == <<settings, display, busy, boot, pairing, refresh, submit, controlVars>>

---------------------------------------------------------------------------
HasPairing == url # None /\ secret # None

NotBooting(step) == [at |-> step, url |-> None]
NotPairing == [at |-> "idle", with |-> None]
NoRefresh == [at |-> "none", session |-> None, by |-> None]

RefreshRuns == refresh.at \in {"scheduled", "fetching"}

TypeOK ==
    /\ url \in Pairings \cup {None}
    /\ secret \in Pairings \cup {None}
    /\ session \in Pairings \cup {None}
    /\ unavailable \in BOOLEAN
    /\ busy \in BOOLEAN
    /\ boot \in [at : {"pending", "fetching", "done"}, url : Pairings \cup {None}]
    /\ pairing \in [Pairers -> [at : {"idle", "waiting", "ready", "fetching"},
                                with : Pairings \cup {None}]]
    /\ refresh \in [at : {"scheduled", "fetching", "done"},
                    session : Pairings, by : Loops \cup {None}] \cup {NoRefresh}
    /\ submit \in {"idle", "tapped", "sending", "failed"}
    /\ control \in Loops \cup {None}
    /\ controlSocket \in Loops \cup {None}
    /\ current \subseteq Loops
    /\ at \in [Loops -> {"idle", "top", "connected", "refreshing", "resumed", "sleeping"}]
    /\ cancelled \subseteq Loops
    /\ open \subseteq Loops

\* The URL (user defaults) and the key (keychain) survive a reinstallation or a restored backup
\* independently, so each may be there without the other.
Init ==
    /\ url \in Pairings \cup {None}
    /\ secret \in {url, None} \cup (IF url = None THEN Pairings ELSE {})
    /\ session = None /\ unavailable = FALSE /\ busy = FALSE
    /\ boot = NotBooting("pending")
    /\ pairing = [t \in Pairers |-> NotPairing]
    /\ refresh = NoRefresh
    /\ submit = "idle"
    /\ control = None /\ controlSocket = None /\ current = {}
    /\ at = [l \in Loops |-> "idle"]
    /\ cancelled = {} /\ open = {}

---------------------------------------------------------------------------
(* Storage and errors. *)

\* persist, as far as the settings go; the people it caches follow the session.
Persisted(u, k) == url' = u /\ secret' = k

\* clearStoredSession.
Cleared == url' = None /\ secret' = None

\* An answer says whether the location is enabled, an error is looked up in unavailableState(for:):
\* the display may be set or reset either way.
Judged == unavailable' \in BOOLEAN

---------------------------------------------------------------------------
(* The control connection. *)

\* startControlConnection, with the session and settings its caller leaves: a loop of a new generation.
StartControl ==
    IF control = None /\ session' # None /\ HasPairing'
    THEN \E l \in Loops :
            /\ at[l] = "idle"
            /\ control' = l
            /\ current' = {l}
            /\ at' = [at EXCEPT ![l] = "top"]
            /\ UNCHANGED <<controlSocket, cancelled, open>>
    ELSE UNCHANGED controlVars

\* stopControlConnection: a new generation, the task cancelled, the socket closed.
Stopped ==
    /\ cancelled' = cancelled \cup ({control} \ {None})
    /\ open' = open \ {controlSocket}
    /\ controlSocket' = None

StopKeepingTask == Stopped /\ current' = {} /\ UNCHANGED <<control, at>>
StopControl ==
    /\ Stopped
    /\ control' = None
    /\ current' = {}
    /\ UNCHANGED at

\* stopControlConnection, then startControlConnection.
RestartControl ==
    \E l \in Loops :
        /\ at[l] = "idle"
        /\ Stopped
        /\ control' = l
        /\ current' = {l}
        /\ at' = [at EXCEPT ![l] = "top"]

\* The deferred clean-up of runControlConnection, by a loop that takes itself for the present one.
ExitAsCurrent(l) ==
    /\ at' = [at EXCEPT ![l] = "idle"]
    /\ cancelled' = cancelled \ {l}
    /\ open' = open \ {l}
    /\ current' = current \ {l}
    /\ controlSocket' = None
    /\ control' = None

\* The deferred clean-up of runControlConnection: the handles go only if the generation is its own.
Exit(l) ==
    /\ at' = [at EXCEPT ![l] = "idle"]
    /\ cancelled' = cancelled \ {l}
    /\ open' = open \ {l}
    /\ current' = current \ {l}
    /\ controlSocket' = IF l \in current THEN None ELSE controlSocket
    /\ control' = IF l \in current THEN None ELSE control

\* The outer loop without its test of cancellation and generation.
MayConnectWhenPaired(l) == HasPairing
MayConnect(l) == l \notin cancelled /\ l \in current /\ HasPairing

\* The head of the outer loop: a socket is opened with the present settings, or the loop ends.
LoopTop(l) ==
    /\ at[l] = "top"
    /\ IF MayConnect(l)
       THEN /\ at' = [at EXCEPT ![l] = "connected"]
            /\ controlSocket' = l
            /\ open' = open \cup {l}
            /\ UNCHANGED <<control, current, cancelled>>
       ELSE Exit(l)
    /\ UNCHANGED <<settings, display, busy, boot, pairing, refresh, submit>>

\* An error that ends the loop.
LoopBrokenEnds(l) ==
    /\ at[l] = "connected"
    /\ Exit(l)
    /\ UNCHANGED <<settings, display, busy, boot, pairing, refresh, submit>>

\* send or receive throws: the network, the server, a message that does not decode, or a stop.
LoopBroken(l) ==
    /\ at[l] = "connected"
    /\ IF l \in cancelled
       THEN Exit(l)
       ELSE /\ at' = [at EXCEPT ![l] = "sleeping"]
            /\ open' = open \ {l}
            /\ controlSocket' = IF l \in current THEN None ELSE controlSocket
            /\ UNCHANGED <<control, current, cancelled>>
    /\ UNCHANGED <<settings, display, busy, boot, pairing, refresh, submit>>

\* The five seconds are over, or the sleep is cancelled.
LoopWakes(l) ==
    /\ at[l] = "sleeping"
    /\ IF l \in cancelled
       THEN Exit(l)
       ELSE at' = [at EXCEPT ![l] = "top"] /\ UNCHANGED <<control, controlSocket, current, cancelled, open>>
    /\ UNCHANGED <<settings, display, busy, boot, pairing, refresh, submit>>

---------------------------------------------------------------------------
(* The session refresh. *)

\* The guard of refreshSession, and one that does not ask for a session.
MayRefreshAnything == HasPairing /\ ~busy
MayRefresh == session # None /\ HasPairing /\ ~busy

\* refreshSession called by a loop or, for b = None, by the timer or a view: it captures the session
\* and spawns the task, unless a task is there already.
CallRefresh(b) ==
    refresh' = IF refresh.at = "none"
               THEN [at |-> "scheduled", session |-> session, by |-> b] ELSE refresh

\* startBackgroundRefresh's timer, or the menu's button.
Tick ==
    /\ MayRefresh
    /\ CallRefresh(None)
    /\ UNCHANGED <<settings, display, busy, boot, pairing, submit, controlVars>>

\* handleSceneActive.
SceneActive ==
    /\ UNCHANGED <<settings, display, busy, boot, pairing, submit>>
    /\ StartControl
    /\ IF MayRefresh THEN CallRefresh(None) ELSE UNCHANGED refresh

\* configuration_changed arrives. When the guard refuses, the message is dropped: nothing changes.
ConfigurationChanged(l) ==
    /\ at[l] = "connected"
    /\ l \in open
    /\ MayRefresh
    /\ CallRefresh(l)
    /\ at' = [at EXCEPT ![l] = IF refresh.at = "done" THEN "resumed" ELSE "refreshing"]
    /\ UNCHANGED <<settings, display, busy, boot, pairing, submit,
                   control, controlSocket, current, cancelled, open>>

\* performRefresh takes its client from the settings of the moment.
RefreshFetches ==
    /\ refresh.at = "scheduled"
    /\ HasPairing
    /\ refresh' = [refresh EXCEPT !.at = "fetching"]
    /\ UNCHANGED <<settings, display, busy, boot, pairing, submit, controlVars>>

\* The task's value is there: everyone who awaits it goes on.
RefreshReturns ==
    /\ refresh' = [refresh EXCEPT !.at = "done"]
    /\ at' = [l \in Loops |-> IF at[l] = "refreshing" THEN "resumed" ELSE at[l]]
    /\ pairing' = [t \in Pairers |-> IF pairing[t].at = "waiting"
                                     THEN [pairing[t] EXCEPT !.at = "ready"] ELSE pairing[t]]
    /\ UNCHANGED <<control, controlSocket, current, cancelled, open>>

\* There is no client any more: an error that unavailableState(for:) does not know.
RefreshWithoutClient ==
    /\ refresh.at = "scheduled"
    /\ ~HasPairing
    /\ unavailable' = FALSE
    /\ RefreshReturns
    /\ UNCHANGED <<settings, session, busy, boot, submit>>

\* persist writes the URL of the session it captured next to the key of the moment.
RefreshSucceeds ==
    /\ refresh.at = "fetching"
    /\ Persisted(refresh.session, secret)
    /\ session' = refresh.session
    /\ Judged
    /\ RefreshReturns
    /\ UNCHANGED <<busy, boot, submit>>

\* The requests fail; or persist throws, before or after it has changed the settings.
RefreshFails ==
    /\ refresh.at = "fetching"
    /\ UNCHANGED settings \/ (StorageFails /\ Persisted(refresh.session, secret))
    /\ Judged
    /\ RefreshReturns
    /\ UNCHANGED <<session, busy, boot, submit>>

\* refreshSession without its last line.
RefreshKept(b) == UNCHANGED refresh

\* refreshSession's last line, in the call that spawned the task; those that joined it leave it alone.
RefreshCleared(b) == refresh' = IF refresh.by = b THEN NoRefresh ELSE refresh

\* The timer or the view resumes.
RefreshEnds ==
    /\ refresh.at = "done"
    /\ refresh.by = None
    /\ RefreshCleared(None)
    /\ UNCHANGED <<settings, display, busy, boot, pairing, submit, controlVars>>

\* A control loop resumes. A cancelled one leaves the inner loop, then the outer one.
LoopResumes(l) ==
    /\ at[l] = "resumed"
    /\ RefreshCleared(l)
    /\ IF l \in cancelled
       THEN Exit(l)
       ELSE /\ at' = [at EXCEPT ![l] = "connected"]
            /\ UNCHANGED <<control, controlSocket, current, cancelled, open>>
    /\ UNCHANGED <<settings, display, busy, boot, pairing, submit>>

---------------------------------------------------------------------------
(* The bootstrap. *)

\* Without a pairing, what is left of one is removed.
BootUnpaired ==
    /\ boot.at = "pending"
    /\ ~HasPairing
    /\ boot' = NotBooting("done")
    /\ Cleared
    /\ session' = None
    /\ StopControl
    /\ UNCHANGED <<unavailable, busy, pairing, refresh, submit>>

\* loadStoredSession or clearStoredSession throws: the alert "Could Not Start".
BootThrows ==
    /\ boot.at = "pending"
    /\ StorageFails
    /\ boot' = NotBooting("done")
    /\ UNCHANGED <<settings, display, busy, pairing, refresh, submit, controlVars>>

\* The stored session is loaded and the requests start.
BootFetches ==
    /\ boot.at = "pending"
    /\ HasPairing
    /\ boot' = [at |-> "fetching", url |-> url]
    /\ UNCHANGED <<settings, display, busy, pairing, refresh, submit, controlVars>>

\* The session, fetched or cached, becomes current. A fetched one is saved with the key of the moment.
BootFinishes ==
    /\ boot.at = "fetching"
    /\ boot' = NotBooting("done")
    /\ UNCHANGED settings \/ Persisted(boot.url, secret)
    /\ session' = boot.url
    /\ Judged
    /\ UNCHANGED <<busy, pairing, refresh, submit>>
    /\ StartControl

---------------------------------------------------------------------------
(* Pairing. *)

\* beginPairing: busy from here on; it first waits for a refresh that runs.
PairStarts(t, p) ==
    /\ pairing[t] = NotPairing
    /\ ~busy
    /\ busy' = TRUE
    /\ pairing' = [pairing EXCEPT ![t] =
                      [at |-> IF RefreshRuns THEN "waiting" ELSE "ready", with |-> p]]
    /\ UNCHANGED <<settings, display, boot, refresh, submit, controlVars>>

PairFetches(t) ==
    /\ pairing[t].at = "ready"
    /\ pairing' = [pairing EXCEPT ![t].at = "fetching"]
    /\ UNCHANGED <<settings, display, busy, boot, refresh, submit, controlVars>>

\* A deferred isBusy = false that is missing.
StaysBusy == UNCHANGED busy
NotBusy == busy' = FALSE

\* The call was cancelled, the payload is bad, a request failed, or persist threw; in the last case
\* the settings may be the new ones already.
PairFails(t) ==
    /\ pairing[t].at \in {"ready", "fetching"}
    /\ \/ UNCHANGED settings
       \/ /\ StorageFails
          /\ pairing[t].at = "fetching"
          /\ Persisted(pairing[t].with, pairing[t].with)
    /\ pairing' = [pairing EXCEPT ![t] = NotPairing]
    /\ NotBusy
    /\ UNCHANGED <<display, boot, refresh, submit, controlVars>>

\* The station is paired; the control connection starts anew.
PairSucceeds(t) ==
    /\ pairing[t].at = "fetching"
    /\ Persisted(pairing[t].with, pairing[t].with)
    /\ session' = pairing[t].with
    /\ Judged
    /\ RestartControl
    /\ pairing' = [pairing EXCEPT ![t] = NotPairing]
    /\ NotBusy
    /\ UNCHANGED <<boot, refresh, submit>>

\* forgetPairing, from the device menu. Nobody gets there between a tap on the form and its task.
Forget ==
    /\ submit # "tapped"
    /\ StopControl
    /\ \/ Cleared /\ session' = None /\ unavailable' = FALSE
       \/ StorageFails /\ UNCHANGED <<settings, display>>
    /\ UNCHANGED <<busy, boot, pairing, refresh, submit>>

---------------------------------------------------------------------------
(* A submission, and the life of the process. *)

\* The form is shown for a session that is available; its button asks for canSubmit.
Tap ==
    /\ submit = "idle"
    /\ session # None /\ ~unavailable
    /\ ~busy
    /\ submit' = "tapped"
    /\ UNCHANGED <<settings, display, busy, boot, pairing, refresh, controlVars>>

\* The task of the tap runs: submitCheckin does not look at isBusy.
SubmitStarts ==
    /\ submit = "tapped"
    /\ HasPairing
    /\ busy' = TRUE
    /\ submit' = "sending"
    /\ UNCHANGED <<settings, display, boot, pairing, refresh, controlVars>>

SubmitEnds ==
    /\ submit = "sending"
    /\ submit' \in {"idle", "failed"}
    /\ NotBusy
    /\ UNCHANGED <<settings, display, boot, pairing, refresh, controlVars>>

\* The outcome of a failure has been shown: handleSubmissionFailure, unless the form has gone.
FailureShown ==
    /\ submit = "failed"
    /\ submit' = "idle"
    /\ unavailable' \in {unavailable, TRUE}
    /\ UNCHANGED <<settings, session, busy, boot, pairing, refresh, controlVars>>

\* The process ends, and starts with what was saved. The keychain may not let its key be read.
Relaunch ==
    /\ UNCHANGED url
    /\ secret' \in {secret, None}
    /\ session' = None /\ unavailable' = FALSE /\ busy' = FALSE
    /\ boot' = NotBooting("pending")
    /\ pairing' = [t \in Pairers |-> NotPairing]
    /\ refresh' = NoRefresh
    /\ submit' = "idle"
    /\ control' = None /\ controlSocket' = None /\ current' = {}
    /\ at' = [l \in Loops |-> "idle"]
    /\ cancelled' = {} /\ open' = {}

---------------------------------------------------------------------------
Loop(l) == LoopTop(l) \/ LoopWakes(l) \/ LoopResumes(l)

Boot == BootUnpaired \/ BootThrows \/ BootFetches \/ BootFinishes

Refresh ==
    \/ RefreshFetches \/ RefreshWithoutClient \/ RefreshSucceeds \/ RefreshFails \/ RefreshEnds

Pairs(t) == PairFetches(t) \/ PairFails(t) \/ PairSucceeds(t)

Submit == SubmitStarts \/ SubmitEnds \/ FailureShown

Next ==
    \/ Boot \/ Refresh \/ Submit
    \/ Tick \/ SceneActive \/ Forget \/ Tap \/ Relaunch
    \/ \E t \in Pairers : Pairs(t) \/ \E p \in Pairings : PairStarts(t, p)
    \/ \E l \in Loops : Loop(l) \/ LoopBroken(l) \/ ConfigurationChanged(l)

Spec == Init /\ [][Next]_vars

\* Requests time out after 30 seconds, sleeps and awaits end, a closed or cancelled socket throws,
\* and the timer ticks. Nothing is assumed of users, of the server, or of a socket that works.
Fairness ==
    /\ WF_vars(Boot) /\ WF_vars(Refresh) /\ WF_vars(Submit) /\ WF_vars(Tick)
    /\ \A t \in Pairers : WF_vars(Pairs(t))
    /\ \A l \in Loops : WF_vars(Loop(l)) /\ WF_vars(l \notin open /\ LoopBroken(l))

FairSpec == Spec /\ Fairness

---------------------------------------------------------------------------
(* What must hold. *)

\* Every open control socket is the one stopControlConnection would close: after a disconnect or a
\* new pairing no socket to the old server stays up, whatever the loops were waiting for.
NoStraySocket == open \subseteq {controlSocket}

\* The handle is that of a loop that runs, is not cancelled and has the present generation: no loop
\* that was stopped clears, or passes for, its successor.
HandleIsLive ==
    control # None => control \in current /\ control \notin cancelled /\ at[control] # "idle"

\* A paired station that shows a session has a control loop: no interleaving of bootstrap, pairing,
\* disconnect and refresh leaves it deaf to its server. Storage that works is assumed.
PairedStationIsControlled ==
    session # None /\ HasPairing => control # None

\* Whatever is under way, the station does not stay busy for ever: the form and the pairing sheet
\* become usable again, also when a pairing waits for a refresh that hangs or is cancelled.
BusyEnds == busy ~> ~busy

\* A paired station that shows a session and is not busy refreshes it again and again.
KeepsRefreshing ==
    session # None /\ HasPairing /\ ~busy
        ~> refresh.at = "fetching" \/ session = None \/ ~HasPairing \/ busy

\* A loop that was stopped ends, wherever it was suspended.
StoppedLoopsEnd == \A l \in Loops : l \in cancelled ~> l \notin cancelled

\* A paired station that shows a session gets its control socket, however often it loses it, unless
\* its user pairs or submits again and again.
Reconnects ==
    session # None /\ HasPairing /\ ~busy
        ~> open # {} \/ session = None \/ ~HasPairing \/ busy

---------------------------------------------------------------------------
(* Statements of the repository that the code does not keep. *)

\* PRIVACY.md: "The app communicates only with the backend server configured for its operation."
\* A server is configured by its URL together with its Station key; the app must not end up with the
\* URL of one pairing and the key of another.
CommunicatesWithConfiguredServer == HasPairing => url = secret

\* submitCheckin force-unwraps woodGateClient(): a submission always finds a client.
SubmissionHasClient == submit = "tapped" => HasPairing

\* ContentView.swift, shown for a pairing without a session: "The saved Station configuration is
\* unavailable. This device will keep trying in the background."
KeepsTrying ==
    HasPairing /\ session = None /\ boot.at = "done"
        ~> session # None \/ ~HasPairing \/ boot.at # "done" \/ refresh.at = "fetching"

=============================================================================
