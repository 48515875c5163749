-------------------------- MODULE StationAppProofs --------------------------
(***************************************************************************)
(* Theorems about StationApp, for any number of servers, pairing calls and *)
(* control loops.                                                          *)
(*                                                                         *)
(* The control connection rests on one fact that no line of the code       *)
(* states: the present generation belongs to the loop of the handle and to *)
(* no other (ControlInv).  The session is followed separately, with the    *)
(* refresh that may bring it back (PairingInv).                            *)
(***************************************************************************)
EXTENDS StationApp, TLAPS

USE DEF Persisted, Cleared, Judged

---------------------------------------------------------------------------
(* Types. *)

TasksTyped ==
    /\ busy \in BOOLEAN
    /\ boot \in [at : {"pending", "fetching", "done"}, url : Pairings \cup {None}]
    /\ pairing \in [Pairers -> [at : {"idle", "waiting", "ready", "fetching"},
                                with : Pairings \cup {None}]]
    /\ refresh \in [at : {"scheduled", "fetching", "done"},
                    session : Pairings, by : Loops \cup {None}] \cup {NoRefresh}
    /\ submit \in {"idle", "tapped", "sending", "failed"}
    /\ boot.at = "fetching" => boot.url \in Pairings
    /\ \A t \in Pairers : pairing[t].at = "fetching" \/ pairing[t].at = "ready"
                              \/ pairing[t].at = "waiting" => pairing[t].with \in Pairings

SettingsTyped ==
    /\ url \in Pairings \cup {None}
    /\ secret \in Pairings \cup {None}
    /\ session \in Pairings \cup {None}
    /\ unavailable \in BOOLEAN

ControlTyped ==
    /\ control \in Loops \cup {None}
    /\ controlSocket \in Loops \cup {None}
    /\ current \subseteq Loops
    /\ at \in [Loops -> {"idle", "top", "connected", "refreshing", "resumed", "sleeping"}]
    /\ cancelled \subseteq Loops
    /\ open \subseteq Loops

TypeInv == TasksTyped /\ SettingsTyped /\ ControlTyped

LEMMA TypeInvTypeOK == TypeInv => TypeOK
  BY DEF TypeInv, TypeOK, TasksTyped, SettingsTyped, ControlTyped

---------------------------------------------------------------------------
(* What the steps do to the control connection. *)

\* The present generation is that of the handle's loop; only that loop has a socket.
ControlSound ==
    /\ current = {control} \ {None}
    /\ control # None => control \notin cancelled /\ at[control] # "idle"
    /\ \A m \in open : /\ m = control
                       /\ m = controlSocket
                       /\ at[m] \in {"connected", "refreshing", "resumed"}
    /\ \A l \in cancelled : at[l] # "idle"

ControlInv == ControlTyped /\ ControlSound

LEMMA StartSound == ControlInv /\ StartControl => ControlInv'
  BY NoneAssumption DEF ControlInv, ControlTyped, ControlSound, StartControl, controlVars

LEMMA StopSound == ControlInv /\ StopControl => ControlInv'
  BY NoneAssumption DEF ControlInv, ControlTyped, ControlSound, StopControl, Stopped

LEMMA RestartSound == ControlInv /\ RestartControl => ControlInv' /\ control' # None
  BY NoneAssumption DEF ControlInv, ControlTyped, ControlSound, RestartControl, Stopped

\* A loop that ends takes the handle away only when it is the handle's own.
LEMMA ExitSound ==
  ASSUME ControlInv, NEW l \in Loops, Exit(l), at[l] # "idle"
  PROVE  ControlInv' /\ control' = (IF l = control THEN None ELSE control)
<1>1. l \in current <=> l = control
  BY NoneAssumption DEF ControlInv, ControlSound
<1>2. ControlTyped'
  BY DEF Exit, ControlInv, ControlTyped
<1>3. ControlSound'
  BY <1>1, NoneAssumption DEF Exit, ControlInv, ControlTyped, ControlSound
<1> QED
  BY <1>1, <1>2, <1>3 DEF Exit, ControlInv

\* A loop on its way: it goes on as the present one, or it ends.
LEMMA LoopSound ==
  ASSUME ControlInv, NEW l \in Loops, Loop(l) \/ LoopBroken(l)
  PROVE  /\ ControlInv'
         /\ control' # control => control' = None /\ ~HasPairing /\ UNCHANGED settings
<1>0. l \in current <=> l = control
  BY NoneAssumption DEF ControlInv, ControlSound
<1>1. CASE LoopTop(l)
  <2>1. CASE MayConnect(l)
    BY <1>1, <2>1, <1>0, NoneAssumption DEF LoopTop, MayConnect, ControlInv, ControlTyped, ControlSound
  <2>2. CASE ~MayConnect(l)
    <3>1. Exit(l) /\ at[l] # "idle" /\ UNCHANGED settings
      BY <1>1, <2>2 DEF LoopTop
    <3>2. l = control => ~HasPairing
      BY <2>2, <1>0, NoneAssumption DEF MayConnect, ControlInv, ControlSound
    <3> QED
      BY <3>1, <3>2, ExitSound
  <2> QED
    BY <2>1, <2>2
<1>2. CASE Exit(l) /\ l \in cancelled /\ at[l] # "idle"
  <2>1. l # control
    BY <1>2, NoneAssumption DEF ControlInv, ControlSound
  <2> QED
    BY <1>2, <2>1, ExitSound
<1>3. CASE LoopWakes(l) /\ l \notin cancelled
  BY <1>3 DEF LoopWakes, ControlInv, ControlTyped, ControlSound
<1>4. CASE LoopResumes(l) /\ l \notin cancelled
  BY <1>4 DEF LoopResumes, ControlInv, ControlTyped, ControlSound
<1>5. CASE LoopBroken(l) /\ l \notin cancelled
  BY <1>5, <1>0 DEF LoopBroken, ControlInv, ControlTyped, ControlSound
<1> QED
  BY <1>1, <1>2, <1>3, <1>4, <1>5 DEF Loop, LoopWakes, LoopResumes, LoopBroken

LEMMA RefreshSound == ControlInv /\ RefreshReturns => ControlInv' /\ UNCHANGED control
  BY DEF RefreshReturns, ControlInv, ControlTyped, ControlSound

LEMMA ConfigurationSound ==
  ASSUME ControlInv, NEW l \in Loops, ConfigurationChanged(l)
  PROVE  ControlInv' /\ UNCHANGED control
  BY DEF ConfigurationChanged, ControlInv, ControlTyped, ControlSound

LEMMA ControlInit == Init => ControlInv
  BY DEF Init, ControlInv, ControlTyped, ControlSound

LEMMA RelaunchSound == Relaunch => ControlInv'
  BY DEF Relaunch, ControlInv, ControlTyped, ControlSound

---------------------------------------------------------------------------
(* The invariant, and every step of Next. *)

\* A loop that runs for the handle has a pairing to connect with.
HandleIsPaired == control # None => HasPairing

Inv == TasksTyped /\ SettingsTyped /\ ControlInv /\ HandleIsPaired

LEMMA InvInit == Init => Inv
<1> SUFFICES ASSUME Init PROVE Inv
  OBVIOUS
<1>1. TasksTyped
  BY DEF Init, TasksTyped, NotBooting, NotPairing
<1>2. SettingsTyped /\ HandleIsPaired
  BY DEF Init, SettingsTyped, HandleIsPaired
<1> QED
  BY <1>1, <1>2, ControlInit DEF Inv

LEMMA RefreshReturnsTyped ==
  ASSUME TasksTyped, refresh # NoRefresh, RefreshReturns, UNCHANGED <<busy, boot, submit>>
  PROVE  TasksTyped'
<1> USE DEF TasksTyped, RefreshReturns
<1>1. refresh' \in [at : {"scheduled", "fetching", "done"},
                    session : Pairings, by : Loops \cup {None}]
  OBVIOUS
<1>2. \A t \in Pairers :
         /\ pairing'[t] \in [at : {"idle", "waiting", "ready", "fetching"},
                             with : Pairings \cup {None}]
         /\ pairing'[t].with = pairing[t].with
         /\ pairing'[t].at # "idle" => pairing[t].at # "idle"
  OBVIOUS
<1>3. pairing' = [t \in Pairers |-> pairing'[t]]
  OBVIOUS
<1>4. pairing' \in [Pairers -> [at : {"idle", "waiting", "ready", "fetching"},
                                with : Pairings \cup {None}]]
  BY <1>2, <1>3
<1>5. \A t \in Pairers : pairing'[t].at = "fetching" \/ pairing'[t].at = "ready"
                              \/ pairing'[t].at = "waiting" => pairing'[t].with \in Pairings
  BY <1>2
<1> QED
  BY <1>1, <1>4, <1>5

LEMMA CallRefreshTyped ==
  ASSUME TasksTyped, SettingsTyped, MayRefresh, NEW b \in Loops \cup {None}, CallRefresh(b),
         UNCHANGED <<busy, boot, pairing, submit>>
  PROVE  TasksTyped'
<1>1. session \in Pairings
  BY DEF SettingsTyped, MayRefresh
<1> QED
  BY <1>1 DEF TasksTyped, CallRefresh, NoRefresh

\* The bootstrap.
LEMMA BootInv == Inv /\ Boot => Inv'
<1> SUFFICES ASSUME Inv, Boot PROVE Inv'
  OBVIOUS
<1> USE DEF Inv
<1>1. CASE BootUnpaired
  BY <1>1, StopSound DEF BootUnpaired, TasksTyped, SettingsTyped, HandleIsPaired, StopControl, NotBooting
<1>2. CASE BootThrows
  <2>1. UNCHANGED <<controlVars, settings, display>>
    BY <1>2 DEF BootThrows
  <2>2. TasksTyped'
    BY <1>2 DEF BootThrows, TasksTyped, NotBooting
  <2> QED
    BY <2>1, <2>2 DEF controlVars, settings, display, SettingsTyped, ControlInv, ControlTyped,
                      ControlSound, HandleIsPaired, HasPairing
<1>3. CASE BootFetches
  <2>1. UNCHANGED <<controlVars, settings, display>>
    BY <1>3 DEF BootFetches
  <2>2. TasksTyped'
    BY <1>3 DEF BootFetches, TasksTyped, SettingsTyped, HasPairing
  <2> QED
    BY <2>1, <2>2 DEF controlVars, settings, display, SettingsTyped, ControlInv, ControlTyped,
                      ControlSound, HandleIsPaired, HasPairing
<1>4. CASE BootFinishes
  <2>1. boot.url \in Pairings
    BY <1>4 DEF BootFinishes, TasksTyped
  <2>2. TasksTyped' /\ SettingsTyped'
    BY <1>4, <2>1 DEF BootFinishes, TasksTyped, SettingsTyped, NotBooting, settings
  <2>3. ControlInv'
    BY <1>4, StartSound DEF BootFinishes
  <2>4. HandleIsPaired'
    BY <1>4, <2>1, NoneAssumption
    DEF BootFinishes, StartControl, HandleIsPaired, HasPairing, controlVars, settings
  <2> QED
    BY <2>2, <2>3, <2>4
<1> QED
  BY <1>1, <1>2, <1>3, <1>4 DEF Boot

\* The refresh task and whoever clears it.
LEMMA RefreshInv == Inv /\ Refresh => Inv'
<1> SUFFICES ASSUME Inv, Refresh PROVE Inv'
  OBVIOUS
<1> USE DEF Inv
<1>1. CASE RefreshFetches \/ RefreshEnds
  <2>1. UNCHANGED <<controlVars, settings, display>>
    BY <1>1 DEF RefreshFetches, RefreshEnds
  <2>2. TasksTyped'
    BY <1>1 DEF RefreshFetches, RefreshEnds, RefreshCleared, TasksTyped, NoRefresh
  <2> QED
    BY <2>1, <2>2 DEF controlVars, settings, display, SettingsTyped, ControlInv, ControlTyped,
                      ControlSound, HandleIsPaired, HasPairing
<1>2. CASE RefreshWithoutClient \/ RefreshSucceeds \/ RefreshFails
  <2>1. refresh # NoRefresh /\ refresh.session \in Pairings /\ RefreshReturns
    BY <1>2 DEF RefreshWithoutClient, RefreshSucceeds, RefreshFails, NoRefresh, TasksTyped
  <2>2. TasksTyped'
    <3>1. UNCHANGED <<busy, boot, submit>>
      BY <1>2 DEF RefreshWithoutClient, RefreshSucceeds, RefreshFails
    <3> QED
      BY <2>1, <3>1, RefreshReturnsTyped
  <2>3. ControlInv' /\ UNCHANGED control
    BY <2>1, RefreshSound
  <2>4. /\ UNCHANGED secret
        /\ url' \in {url, refresh.session}
        /\ session' \in {session, refresh.session}
        /\ unavailable' \in BOOLEAN
    BY <1>2 DEF RefreshWithoutClient, RefreshSucceeds, RefreshFails, settings
  <2>5. SettingsTyped'
    BY <2>1, <2>4 DEF SettingsTyped
  <2>6. HandleIsPaired'
    BY <2>1, <2>3, <2>4, NoneAssumption DEF HandleIsPaired, HasPairing
  <2> QED
    BY <2>2, <2>3, <2>5, <2>6
<1> QED
  BY <1>1, <1>2 DEF Refresh

LEMMA CallersInv ==
  ASSUME Inv, Tick \/ SceneActive \/ \E l \in Loops : ConfigurationChanged(l)
  PROVE  Inv'
<1> USE DEF Inv
<1>1. CASE Tick
  <2>1. UNCHANGED <<controlVars, settings, display>>
    BY <1>1 DEF Tick
  <2>2. TasksTyped'
    BY <1>1, CallRefreshTyped DEF Tick
  <2> QED
    BY <2>1, <2>2 DEF controlVars, settings, display, SettingsTyped, ControlInv, ControlTyped,
                      ControlSound, HandleIsPaired, HasPairing
<1>2. CASE SceneActive
  <2>1. TasksTyped'
    <3>1. CASE MayRefresh
      BY <1>2, <3>1, CallRefreshTyped DEF SceneActive
    <3>2. CASE ~MayRefresh
      BY <1>2, <3>2 DEF SceneActive, TasksTyped
    <3> QED
      BY <3>1, <3>2
  <2>2. SettingsTyped'
    BY <1>2 DEF SceneActive, SettingsTyped, settings, display
  <2>3. ControlInv'
    BY <1>2, StartSound DEF SceneActive
  <2>4. HandleIsPaired'
    BY <1>2 DEF SceneActive, StartControl, HandleIsPaired, HasPairing, controlVars, settings
  <2> QED
    BY <2>1, <2>2, <2>3, <2>4
<1>3. ASSUME NEW l \in Loops, ConfigurationChanged(l) PROVE Inv'
  <2>1. TasksTyped'
    BY <1>3, CallRefreshTyped DEF ConfigurationChanged
  <2>2. ControlInv' /\ UNCHANGED control
    BY <1>3, ConfigurationSound
  <2>3. SettingsTyped' /\ HandleIsPaired'
    BY <1>3, <2>2 DEF ConfigurationChanged, SettingsTyped, settings, display, HandleIsPaired, HasPairing
  <2> QED
    BY <2>1, <2>2, <2>3
<1> QED
  BY <1>1, <1>2, <1>3

\* The control loops.
LEMMA LoopInv ==
  ASSUME Inv, NEW l \in Loops, Loop(l) \/ LoopBroken(l)
  PROVE  Inv'
<1> USE DEF Inv
<1>1. TasksTyped'
  BY DEF Loop, LoopTop, LoopWakes, LoopResumes, LoopBroken, RefreshCleared, TasksTyped
<1>2. SettingsTyped' /\ UNCHANGED settings
  BY DEF Loop, LoopTop, LoopWakes, LoopResumes, LoopBroken, SettingsTyped, settings, display
<1>3. ControlInv' /\ (control' # control => control' = None)
  BY LoopSound
<1>4. HandleIsPaired'
  BY <1>2, <1>3 DEF HandleIsPaired, HasPairing, settings
<1> QED
  BY <1>1, <1>2, <1>3, <1>4

\* Pairing.
LEMMA PairingStepInv ==
  ASSUME Inv, NEW t \in Pairers, Pairs(t) \/ \E p \in Pairings : PairStarts(t, p)
  PROVE  Inv'
<1> USE DEF Inv
<1>1. CASE PairFetches(t) \/ \E p \in Pairings : PairStarts(t, p)
  <2>1. UNCHANGED <<controlVars, settings, display>>
    BY <1>1 DEF PairFetches, PairStarts
  <2>2. PICK r \in [at : {"waiting", "ready", "fetching"}, with : Pairings] :
           pairing' = [pairing EXCEPT ![t] = r]
    <3>1. CASE PairFetches(t)
      <4>1. /\ pairing[t].at = "ready"
            /\ pairing[t].with \in Pairings
            /\ pairing[t] = [at |-> "ready", with |-> pairing[t].with]
        BY <3>1 DEF PairFetches, TasksTyped
      <4>2. pairing' = [pairing EXCEPT ![t] = [pairing[t] EXCEPT !.at = "fetching"]]
        BY <3>1 DEF PairFetches
      <4>3. [pairing[t] EXCEPT !.at = "fetching"] = [at |-> "fetching", with |-> pairing[t].with]
        BY <4>1
      <4>4. [at |-> "fetching", with |-> pairing[t].with]
              \in [at : {"waiting", "ready", "fetching"}, with : Pairings]
        BY <4>1
      <4> QED
        BY <4>2, <4>3, <4>4
    <3>2. ASSUME NEW p \in Pairings, PairStarts(t, p)
          PROVE  \E r \in [at : {"waiting", "ready", "fetching"}, with : Pairings] :
                    pairing' = [pairing EXCEPT ![t] = r]
      <4>1. [at |-> IF RefreshRuns THEN "waiting" ELSE "ready", with |-> p]
              \in [at : {"waiting", "ready", "fetching"}, with : Pairings]
        OBVIOUS
      <4> QED
        BY <3>2, <4>1 DEF PairStarts
    <3> QED
      BY <1>1, <3>1, <3>2
  <2>3. UNCHANGED <<boot, refresh, submit>> /\ busy' \in BOOLEAN
    BY <1>1 DEF PairFetches, PairStarts, TasksTyped
  <2>4. TasksTyped'
    BY <2>2, <2>3 DEF TasksTyped
  <2> QED
    BY <2>1, <2>4 DEF controlVars, settings, display, SettingsTyped, ControlInv, ControlTyped,
                      ControlSound, HandleIsPaired, HasPairing
<1>2. CASE PairFails(t)
  <2>1. TasksTyped'
    BY <1>2 DEF PairFails, TasksTyped, NotPairing, NotBusy
  <2>2. UNCHANGED <<controlVars, display>>
    BY <1>2 DEF PairFails
  <2>3. UNCHANGED settings \/ (url' \in Pairings /\ secret' \in Pairings)
    BY <1>2 DEF PairFails, TasksTyped
  <2>4. ControlInv'
    BY <2>2 DEF controlVars, ControlInv, ControlTyped, ControlSound
  <2>5. SettingsTyped' /\ HandleIsPaired'
    BY <2>2, <2>3, NoneAssumption
    DEF controlVars, settings, display, SettingsTyped, HandleIsPaired, HasPairing
  <2> QED
    BY <2>1, <2>4, <2>5
<1>3. CASE PairSucceeds(t)
  <2>1. pairing[t].with \in Pairings
    BY <1>3 DEF PairSucceeds, TasksTyped
  <2>2. TasksTyped'
    BY <1>3 DEF PairSucceeds, TasksTyped, NotPairing, NotBusy
  <2>3. ControlInv'
    BY <1>3, RestartSound DEF PairSucceeds
  <2>4. SettingsTyped' /\ HandleIsPaired'
    BY <1>3, <2>1, NoneAssumption DEF PairSucceeds, SettingsTyped, HandleIsPaired, HasPairing
  <2> QED
    BY <2>2, <2>3, <2>4
<1> QED
  BY <1>1, <1>2, <1>3 DEF Pairs

\* The user, the form and the process.
LEMMA UserInv == Inv /\ (Submit \/ Tap \/ Forget \/ Relaunch) => Inv'
<1> SUFFICES ASSUME Inv, Submit \/ Tap \/ Forget \/ Relaunch PROVE Inv'
  OBVIOUS
<1> USE DEF Inv
<1>1. CASE Submit \/ Tap
  <2>1. UNCHANGED <<controlVars, settings>>
    BY <1>1 DEF Submit, SubmitStarts, SubmitEnds, FailureShown, Tap
  <2>2. TasksTyped'
    BY <1>1 DEF Submit, SubmitStarts, SubmitEnds, FailureShown, Tap, TasksTyped, NotBusy
  <2>3. SettingsTyped'
    BY <1>1 DEF Submit, SubmitStarts, SubmitEnds, FailureShown, Tap, SettingsTyped, settings, display
  <2> QED
    BY <2>1, <2>2, <2>3 DEF controlVars, settings, ControlInv, ControlTyped, ControlSound,
                            HandleIsPaired, HasPairing
<1>2. CASE Forget
  <2>1. TasksTyped'
    BY <1>2 DEF Forget, TasksTyped
  <2>2. SettingsTyped'
    BY <1>2 DEF Forget, SettingsTyped, settings, display
  <2>3. ControlInv' /\ control' = None
    BY <1>2, StopSound DEF Forget, StopControl
  <2> QED
    BY <2>1, <2>2, <2>3 DEF HandleIsPaired
<1>3. CASE Relaunch
  <2>1. TasksTyped'
    BY <1>3 DEF Relaunch, TasksTyped, NotBooting, NotPairing
  <2>2. SettingsTyped' /\ HandleIsPaired'
    BY <1>3 DEF Relaunch, SettingsTyped, HandleIsPaired
  <2> QED
    BY <1>3, <2>1, <2>2, RelaunchSound
<1> QED
  BY <1>1, <1>2, <1>3

LEMMA InvNext == Inv /\ [Next]_vars => Inv'
<1> SUFFICES ASSUME Inv, [Next]_vars PROVE Inv'
  OBVIOUS
<1>1. CASE UNCHANGED vars
  BY <1>1 DEF vars, settings, display, controlVars, Inv, TasksTyped, SettingsTyped, ControlInv,
              ControlTyped, ControlSound, HandleIsPaired, HasPairing
<1>2. CASE Next
  BY <1>2, BootInv, RefreshInv, CallersInv, LoopInv, PairingStepInv, UserInv DEF Next
<1> QED
  BY <1>1, <1>2

LEMMA InvAlways == Spec => []Inv
  BY InvInit, InvNext, PTL DEF Spec

\* Every variable keeps its type: in particular a refresh always has a session to refresh.
THEOREM TypeCorrect == Spec => []TypeOK
<1>1. Inv => TypeOK
  BY TypeInvTypeOK DEF Inv, TypeInv, ControlInv
<1> QED
  BY <1>1, InvAlways, PTL

\* stopControlConnection reaches every socket there is.
THEOREM SocketsReachable == Spec => []NoStraySocket
<1>1. Inv => NoStraySocket
  BY DEF Inv, ControlInv, ControlSound, NoStraySocket
<1> QED
  BY <1>1, InvAlways, PTL

\* The handle of the control task is that of a live, uncancelled loop of the present generation.
THEOREM HandleLive == Spec => []HandleIsLive
<1>1. Inv => HandleIsLive
  BY NoneAssumption DEF Inv, ControlInv, ControlTyped, ControlSound, HandleIsLive
<1> QED
  BY <1>1, InvAlways, PTL

---------------------------------------------------------------------------
(* A paired station is controlled, when storage works. *)

\* A refresh that runs can bring a session back that was forgotten, but only under a key that the
\* present control loop was started with.
PairingInv ==
    /\ session # None /\ HasPairing => control # None
    /\ RefreshRuns /\ secret # None => control # None

\* What a step may do to what PairingInv speaks of, unless it leaves the station controlled or
\* without a key: at most finish the refresh and save its session.
Calm ==
    /\ UNCHANGED <<secret, control>>
    /\ RefreshRuns' => RefreshRuns \/ control # None
    /\ UNCHANGED <<url, session>> \/ RefreshRuns \/ ~HasPairing'

\* Nothing is shown and nothing runs.
Blank == session' = None /\ ~RefreshRuns'

LEMMA CalmKeeps ==
  ASSUME PairingInv, Calm \/ Blank \/ control' # None \/ secret' = None
  PROVE  PairingInv'
  BY DEF PairingInv, Calm, Blank, HasPairing, RefreshRuns

LEMMA PairingNext ==
  ASSUME ~StorageFails, Inv, PairingInv, [Next]_vars
  PROVE  PairingInv'
<1> SUFFICES Calm \/ Blank \/ control' # None \/ secret' = None
  BY CalmKeeps
<1> USE DEF settings, display, controlVars
<1>1. CASE UNCHANGED vars
  BY <1>1 DEF vars, Calm, RefreshRuns
<1>2. CASE Boot
  <2>1. CASE BootUnpaired
    BY <2>1 DEF BootUnpaired
  <2>2. CASE BootFetches \/ BootThrows
    BY <2>2 DEF BootFetches, BootThrows, Calm, RefreshRuns
  <2>3. CASE BootFinishes
    <3>1. session' # None
      BY <2>3, NoneAssumption DEF BootFinishes, Inv, TasksTyped
    <3>2. CASE control = None /\ HasPairing'
      BY <2>3, <3>1, <3>2, NoneAssumption DEF BootFinishes, StartControl
    <3>3. CASE control # None \/ ~HasPairing'
      BY <2>3, <3>3 DEF BootFinishes, StartControl, Calm, RefreshRuns
    <3> QED
      BY <3>2, <3>3
  <2> QED
    BY <1>2, <2>1, <2>2, <2>3 DEF Boot
<1>3. CASE Refresh
  <2>1. CASE RefreshFetches \/ RefreshEnds
    BY <2>1 DEF RefreshFetches, RefreshEnds, RefreshCleared, NoRefresh, Calm, RefreshRuns, Inv, TasksTyped
  <2>2. CASE RefreshWithoutClient \/ RefreshSucceeds \/ RefreshFails
    BY <1>3, <2>2 DEF RefreshWithoutClient, RefreshSucceeds, RefreshFails, RefreshReturns, Calm,
                      RefreshRuns, Inv, TasksTyped, NoRefresh
  <2> QED
    BY <1>3, <2>1, <2>2 DEF Refresh
<1>4. CASE Tick \/ SceneActive \/ \E l \in Loops : ConfigurationChanged(l)
  <2>1. MayRefresh => control # None
    BY DEF MayRefresh, PairingInv
  <2>2. CASE Tick \/ \E l \in Loops : ConfigurationChanged(l)
    BY <2>1, <2>2 DEF Tick, ConfigurationChanged, CallRefresh, Calm, RefreshRuns
  <2>3. CASE SceneActive
    BY <2>1, <2>3, NoneAssumption DEF SceneActive, StartControl, CallRefresh, Calm, RefreshRuns
  <2> QED
    BY <1>4, <2>2, <2>3
<1>5. ASSUME NEW l \in Loops, Loop(l) \/ LoopBroken(l)
      PROVE  Calm \/ control' # None \/ secret' = None
  <2>1. control' # control => control' = None /\ ~HasPairing
    BY <1>5, LoopSound DEF Inv
  <2>2. control' = control
    BY <2>1 DEF Inv, HandleIsPaired
  <2>3. UNCHANGED <<url, secret, session>> /\ (RefreshRuns' => RefreshRuns)
    BY <1>5 DEF Loop, LoopTop, LoopWakes, LoopResumes, LoopBroken, RefreshCleared, RefreshRuns, NoRefresh
  <2> QED
    BY <2>2, <2>3 DEF Calm
<1>6. ASSUME NEW t \in Pairers, Pairs(t) \/ \E p \in Pairings : PairStarts(t, p)
      PROVE  Calm \/ control' # None \/ secret' = None
  <2>1. CASE PairSucceeds(t)
    BY <2>1, RestartSound DEF PairSucceeds, Inv
  <2>2. CASE PairFetches(t) \/ PairFails(t) \/ \E p \in Pairings : PairStarts(t, p)
    BY <2>2 DEF PairFetches, PairFails, PairStarts, Calm, RefreshRuns
  <2> QED
    BY <1>6, <2>1, <2>2 DEF Pairs
<1>7. CASE Submit \/ Tap \/ Forget \/ Relaunch
  <2>1. CASE Submit \/ Tap
    BY <2>1 DEF Submit, SubmitStarts, SubmitEnds, FailureShown, Tap, Calm, RefreshRuns
  <2>2. CASE Forget
    BY <2>2 DEF Forget
  <2>3. CASE Relaunch
    BY <2>3 DEF Relaunch, Blank, RefreshRuns, NoRefresh
  <2> QED
    BY <1>7, <2>1, <2>2, <2>3
<1> QED
  BY <1>1, <1>2, <1>3, <1>4, <1>5, <1>6, <1>7 DEF Next

\* With storage that works, a paired station that shows a session always has a control loop.
THEOREM StationControlled == ~StorageFails /\ Spec => []PairedStationIsControlled
<1> SUFFICES ASSUME ~StorageFails PROVE Spec => []PairedStationIsControlled
  OBVIOUS
<1>1. Init => PairingInv
  BY DEF Init, PairingInv, RefreshRuns, NoRefresh
<1>2. PairingInv => PairedStationIsControlled
  BY DEF PairingInv, PairedStationIsControlled
<1>3. Inv /\ PairingInv /\ [Next]_vars => PairingInv'
  BY PairingNext
<1> QED
  BY <1>1, <1>2, <1>3, InvAlways, PTL DEF Spec

=============================================================================
