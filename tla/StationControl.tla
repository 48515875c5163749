--------------------------- MODULE StationControl ---------------------------
(***************************************************************************)
(* The Station control plane: the stations, station_sessions and           *)
(* station_rejections tables (internal/station/store.go), the Hub of every *)
(* server process with the handler that serves one WebSocket               *)
(* (internal/station/hub.go, server.go), and the administrative Service    *)
(* that changes a station and then tells the hub of its own process        *)
(* (internal/station/service.go).                                          *)
(*                                                                         *)
(* One step is one database transaction, one critical section of Hub.mu,   *)
(* or one socket operation.  ws.Close is always called after mu has been   *)
(* released, so a close decided upon stays pending in doomed until the     *)
(* calling goroutine gets to it.  The messages of one hub call are queued  *)
(* in the step of its critical section: only the connection's own writer   *)
(* looks at the queue, and every hub message asks for the same refresh.    *)
(*                                                                         *)
(* Connection ids, station keys and station ids are never reused by the    *)
(* program (random tokens, BIGSERIAL).  Here an element is used again      *)
(* once nothing refers to it, so that behaviours go on for ever in a       *)
(* finite state space.                                                     *)
(***************************************************************************)
EXTENDS Naturals

CONSTANTS
    Stations,
    Locations,
    Keys,          \* station credentials; a row stores only the key's hash
    Conns,         \* control connections
    Servers,       \* server processes, each with a hub of its own
    Requests,      \* administrative requests that can be in flight together
    ControlBuffer, \* capacity of a connection's send channel (4 in the code)
    SessionTTL,    \* presence intervals an unrenewed session lives (15s / 5s = 3 in the code)
    None

ASSUME BoundsAssumption ==
    /\ ControlBuffer \in Nat \ {0}
    /\ SessionTTL \in Nat \ {0}

ASSUME NoneAssumption ==
    None \notin Stations \cup Locations \cup Keys \cup Conns \cup Servers

VARIABLES
    status, location, key,   \* the stations table (key stands for secret_hash)
    owner, grant, remaining, \* the station_sessions table: connection_id, the key it was claimed
                             \* with, and the presence intervals until expires_at
    rejected,                \* stations with an unexpired row in station_rejections
    hub,      \* server -> station -> the registered connection (Hub.conns)
    closed,   \* servers whose Hub.closed is set
    doomed,   \* connections on which some goroutine is about to call ws.Close
    pc,       \* where the handler of a connection is
    peer,     \* the station, key and server a connection's handler was started with
    bound,    \* controlConnection.locationID
    open,     \* whether the socket still works for its handler
    queued,   \* messages in controlConnection.send
    request   \* administrative requests between their commit and their hub call

stationVars == <<status, location, key>>
sessionVars == <<owner, grant, remaining>>
tables == <<stationVars, sessionVars, rejected>>
hubVars == <<hub, closed, doomed>>
connVars == <<pc, peer, bound, open, queued>>
vars == <<tables, hubVars, connVars, request>>

---------------------------------------------------------------------------
Running == {"registered", "serving"}   \* the writer goroutine runs
Upgraded == Running \cup {"claimed"}   \* the WebSocket is in the handler's hands

Peer == [station : Stations, key : Keys, server : Servers]
NoPeer == [station |-> None, key |-> None, server |-> None]

Request ==
    [step : {"updated", "rotated", "configure", "disconnect", "location"},
     server : Servers, station : Stations \cup {None}, location : Locations \cup {None}]
NoRequest == [step |-> "idle", server |-> None, station |-> None, location |-> None]

TypeOK ==
    /\ status \in [Stations -> {"absent", "enabled", "disabled"}]
    /\ location \in [Stations -> Locations \cup {None}]
    /\ key \in [Stations -> Keys \cup {None}]
    /\ owner \in [Stations -> Conns \cup {None}]
    /\ grant \in [Stations -> Keys \cup {None}]
    /\ remaining \in [Stations -> 0..SessionTTL]
    /\ rejected \subseteq Stations
    /\ hub \in [Servers -> [Stations -> Conns \cup {None}]]
    /\ closed \subseteq Servers
    /\ doomed \subseteq Conns
    /\ pc \in [Conns -> {"idle", "authenticated", "leaving"} \cup Upgraded]
    /\ peer \in [Conns -> Peer \cup {NoPeer}]
    /\ bound \in [Conns -> Locations \cup {None}]
    /\ open \in [Conns -> BOOLEAN]
    /\ queued \in [Conns -> 0..ControlBuffer]
    /\ request \in [Requests -> Request \cup {NoRequest}]

\* A server starts on any database in which no session is live: the last one has expired.
Init ==
    /\ status \in [Stations -> {"absent", "enabled", "disabled"}]
    /\ location \in [Stations -> Locations \cup {None}]
    /\ key \in [Stations -> Keys \cup {None}]
    /\ \A s \in Stations :
          /\ location[s] = None <=> status[s] = "absent"
          /\ key[s] = None <=> status[s] = "absent"
          /\ \A t \in Stations \ {s} : key[s] # None => key[s] # key[t]
    /\ owner = [s \in Stations |-> None]
    /\ grant = [s \in Stations |-> None]
    /\ remaining = [s \in Stations |-> 0]
    /\ rejected = {}
    /\ hub = [v \in Servers |-> [s \in Stations |-> None]]
    /\ closed = {}
    /\ doomed = {}
    /\ pc = [c \in Conns |-> "idle"]
    /\ peer = [c \in Conns |-> NoPeer]
    /\ bound = [c \in Conns |-> None]
    /\ open = [c \in Conns |-> FALSE]
    /\ queued = [c \in Conns |-> 0]
    /\ request = [r \in Requests |-> NoRequest]

---------------------------------------------------------------------------
(* Parts of the store's statements. *)

\* lockStationCredential: the station is enabled and still has the key the handler presents.
CredentialHoldsAnyKey(c) == status[peer[c].station] = "enabled"
CredentialHolds(c) ==
    /\ status[peer[c].station] = "enabled"
    /\ key[peer[c].station] = peer[c].key

\* The row claimClientSession writes, whatever was there.
TakeSession(c) ==
    /\ owner' = [owner EXCEPT ![peer[c].station] = c]
    /\ grant' = [grant EXCEPT ![peer[c].station] = peer[c].key]
    /\ remaining' = [remaining EXCEPT ![peer[c].station] = SessionTTL]

\* renewClientSession: the WHERE clause of the UPDATE, without and with its look at expires_at.
RenewableLate(c) ==
    /\ owner[peer[c].station] = c
    /\ status[peer[c].station] = "enabled"
Renewable(c) ==
    /\ owner[peer[c].station] = c
    /\ remaining[peer[c].station] > 0
    /\ status[peer[c].station] = "enabled"

\* The row of station s goes.
EndSession(s) ==
    /\ owner' = [owner EXCEPT ![s] = None]
    /\ grant' = [grant EXCEPT ![s] = None]
    /\ remaining' = [remaining EXCEPT ![s] = 0]

\* releaseClientSession: the station's row goes only if it is the connection's own.
ReleaseSessionOfAny(c) == EndSession(peer[c].station)
ReleaseSession(c) ==
    IF owner[peer[c].station] = c THEN EndSession(peer[c].station) ELSE UNCHANGED sessionVars

\* clearClientStates, in the transaction that disables a station or rotates its key.
ClearRejectionOnly(s) == rejected' = rejected \ {s} /\ UNCHANGED sessionVars
ClearClientStates(s) == rejected' = rejected \ {s} /\ EndSession(s)

(* Parts of the hub's critical sections. *)

\* register: a closed hub takes no connection in.
HubTakesAll(c) == TRUE
HubTakes(c) == peer[c].server \notin closed

\* register: the connection this one displaces, to be closed after the unlock.
Displaced(c) == {hub[peer[c].server][peer[c].station]} \ {None}

\* unregister: the entry goes only if it still is the connection's own.
UnregisteredNever(c) == hub
UnregisteredAny(c) == [hub EXCEPT ![peer[c].server][peer[c].station] = None]
Unregistered(c) ==
    IF hub[peer[c].server][peer[c].station] = c
    THEN [hub EXCEPT ![peer[c].server][peer[c].station] = None] ELSE hub

\* enqueue to every connection of C, with a channel that takes one message more than it holds.
EnqueueOffByOne(C) ==
    /\ queued' = [c \in Conns |-> IF c \in C /\ queued[c] <= ControlBuffer
                                  THEN queued[c] + 1 ELSE queued[c]]
    /\ doomed' = doomed \cup {c \in C : queued[c] > ControlBuffer}

\* enqueue to every connection of C: a full channel closes the connection instead of blocking.
Enqueue(C) ==
    /\ queued' = [c \in Conns |-> IF c \in C /\ queued[c] < ControlBuffer
                                  THEN queued[c] + 1 ELSE queued[c]]
    /\ doomed' = doomed \cup {c \in C : queued[c] = ControlBuffer}

\* The handlers of C are over, and with them what they kept in memory.
Vanish(C) ==
    /\ pc' = [c \in Conns |-> IF c \in C THEN "idle" ELSE pc[c]]
    /\ peer' = [c \in Conns |-> IF c \in C THEN NoPeer ELSE peer[c]]
    /\ bound' = [c \in Conns |-> IF c \in C THEN None ELSE bound[c]]
    /\ open' = [c \in Conns |-> IF c \in C THEN FALSE ELSE open[c]]
    /\ queued' = [c \in Conns |-> IF c \in C THEN 0 ELSE queued[c]]

---------------------------------------------------------------------------
(* One connection: Server.connect, then Hub.serve. *)

\* Nothing refers to c any more, so its name can stand for a new connection.
Unreferenced(c) ==
    /\ pc[c] = "idle"
    /\ c \notin doomed
    /\ \A s \in Stations : owner[s] # c

\* Server.authenticate: the snapshot read here is all the handler knows of the station.
Authenticate(c, v, s) ==
    /\ Unreferenced(c)
    /\ status[s] = "enabled"
    /\ pc' = [pc EXCEPT ![c] = "authenticated"]
    /\ peer' = [peer EXCEPT ![c] = [station |-> s, key |-> key[s], server |-> v]]
    /\ bound' = [bound EXCEPT ![c] = location[s]]
    /\ open' = [open EXCEPT ![c] = TRUE]
    /\ UNCHANGED <<tables, hubVars, queued, request>>

\* An incompatible client is recorded (if its credential still holds) and refused with 426.
RefuseProtocol(c) ==
    /\ pc[c] = "authenticated"
    /\ rejected' = IF CredentialHolds(c) THEN rejected \cup {peer[c].station} ELSE rejected
    /\ Vanish({c})
    /\ UNCHANGED <<stationVars, sessionVars, hubVars, request>>

\* claimClientSession commits. The handler goes on, or loses the answer and returns without releasing.
Claim(c) ==
    /\ pc[c] = "authenticated"
    /\ CredentialHolds(c)
    /\ TakeSession(c)
    /\ rejected' = rejected \ {peer[c].station}
    /\ \/ pc' = [pc EXCEPT ![c] = "claimed"] /\ UNCHANGED <<peer, bound, open, queued>>
       \/ Vanish({c})
    /\ UNCHANGED <<stationVars, hubVars, request>>

\* The credential changed since authenticate, or the transaction failed: the socket is closed.
ClaimRefused(c) ==
    /\ pc[c] = "authenticated"
    /\ Vanish({c})
    /\ UNCHANGED <<tables, hubVars, request>>

\* Hub.register, hub open: the connection takes the station's entry.
Register(c) ==
    /\ pc[c] = "claimed"
    /\ HubTakes(c)
    /\ hub' = [hub EXCEPT ![peer[c].server][peer[c].station] = c]
    /\ doomed' = doomed \cup Displaced(c)
    /\ pc' = [pc EXCEPT ![c] = "registered"]
    /\ UNCHANGED <<tables, closed, peer, bound, open, queued, request>>

\* Hub.register, hub closed: serve gives the session back and returns errHubClosed.
RegisterRefused(c) ==
    /\ pc[c] = "claimed"
    /\ ~HubTakes(c)
    /\ pc' = [pc EXCEPT ![c] = "leaving"]
    /\ UNCHANGED <<tables, hubVars, peer, bound, open, queued, request>>

\* serve queues hello and enters readLoop; the channel may already hold hub messages.
SendHello(c) ==
    /\ pc[c] = "registered"
    /\ pc' = [pc EXCEPT ![c] = "serving"]
    /\ Enqueue({c})
    /\ UNCHANGED <<tables, hub, closed, peer, bound, open, request>>

\* writeLoop takes a message off the channel and writes it.
WriteMessage(c) ==
    /\ pc[c] \in Running
    /\ open[c]
    /\ queued[c] > 0
    /\ queued' = [queued EXCEPT ![c] = @ - 1]
    /\ UNCHANGED <<tables, hubVars, pc, peer, bound, open, request>>

\* Renewal by insert-or-update, as Claim writes it.
RenewUpserting(c) ==
    /\ pc[c] \in Running
    /\ open[c]
    /\ CredentialHolds(c)
    /\ TakeSession(c)
    /\ UNCHANGED <<stationVars, rejected, hubVars, connVars, request>>

\* The presence ticker, or a presence message, renews the session.
Renew(c) ==
    /\ pc[c] \in Running
    /\ open[c]
    /\ Renewable(c)
    /\ remaining' = [remaining EXCEPT ![peer[c].station] = SessionTTL]
    /\ UNCHANGED <<stationVars, owner, grant, rejected, hubVars, connVars, request>>

\* The session is no longer this connection's: writeLoop cancels the handler, readLoop closes it.
RenewRefused(c) ==
    /\ pc[c] \in Running
    /\ open[c]
    /\ ~Renewable(c)
    /\ open' = [open EXCEPT ![c] = FALSE]
    /\ UNCHANGED <<tables, hubVars, pc, peer, bound, queued, request>>

\* The peer leaves or sends a bad message, a ping times out, or the store answers with an error.
Drop(c) ==
    /\ pc[c] \in Upgraded
    /\ open[c]
    /\ open' = [open EXCEPT ![c] = FALSE]
    /\ UNCHANGED <<tables, hubVars, pc, peer, bound, queued, request>>

\* A pending ws.Close gets its turn; on a connection that has already gone it does nothing.
Close(c) ==
    /\ c \in doomed
    /\ doomed' = doomed \ {c}
    /\ open' = [open EXCEPT ![c] = FALSE]
    /\ UNCHANGED <<tables, hub, closed, pc, peer, bound, queued, request>>

\* readLoop returned and the writer has stopped: the critical section of Hub.unregister.
Unregister(c) ==
    /\ pc[c] = "serving"
    /\ ~open[c]
    /\ hub' = Unregistered(c)
    /\ pc' = [pc EXCEPT ![c] = "leaving"]
    /\ UNCHANGED <<tables, closed, doomed, peer, bound, open, queued, request>>

\* The handler's last step: releaseClientSession, which may fail and leave the row to expire.
Release(c) ==
    /\ pc[c] = "leaving"
    /\ ReleaseSession(c) \/ UNCHANGED sessionVars
    /\ Vanish({c})
    /\ UNCHANGED <<stationVars, rejected, hubVars, request>>

---------------------------------------------------------------------------
(* Time, shutdown and crashes. *)

\* A row whose last interval never ends.
ElapseButLast(s) ==
    /\ remaining[s] > 1
    /\ remaining' = [remaining EXCEPT ![s] = @ - 1]
    /\ UNCHANGED <<stationVars, owner, grant, rejected, hubVars, connVars, request>>

\* A presence interval goes by for an unrenewed session.
Elapse(s) ==
    /\ remaining[s] > 0
    /\ remaining' = [remaining EXCEPT ![s] = @ - 1]
    /\ UNCHANGED <<stationVars, owner, grant, rejected, hubVars, connVars, request>>

\* The five minutes of a rejection are over.
ExpireRejection(s) ==
    /\ s \in rejected
    /\ rejected' = rejected \ {s}
    /\ UNCHANGED <<stationVars, sessionVars, hubVars, connVars, request>>

\* The connections of Hub.conns, which Close and configurationChangedForLocation walk.
RegisteredNone(v) == {}
Registered(v) == {hub[v][s] : s \in Stations} \ {None}

\* Hub.Close at shutdown.
CloseHub(v) ==
    /\ v \notin closed
    /\ closed' = closed \cup {v}
    /\ doomed' = doomed \cup Registered(v)
    /\ hub' = [hub EXCEPT ![v] = [s \in Stations |-> None]]
    /\ UNCHANGED <<tables, connVars, request>>

\* The process exits or dies, and starts again: only the tables survive.
Restart(v) ==
    /\ hub' = [hub EXCEPT ![v] = [s \in Stations |-> None]]
    /\ closed' = closed \ {v}
    /\ doomed' = {c \in doomed : peer[c].server \notin {v, None}}
    /\ Vanish({c \in Conns : peer[c].server = v})
    /\ request' = [r \in Requests |-> IF request[r].server = v THEN NoRequest ELSE request[r]]
    /\ UNCHANGED tables

---------------------------------------------------------------------------
(* Station administration: one request commits its change, reads the row   *)
(* back where the code does, and calls the hub of its own server.          *)

\* newKey: a key nobody has.
FreshKey(k) ==
    /\ \A s \in Stations : key[s] # k
    /\ \A c \in Conns : peer[c].key # k

\* The request r, free until now, goes on to its next step on server v.
Begin(r, step, v, s, l) ==
    /\ request[r] = NoRequest
    /\ request' = [request EXCEPT ![r] =
                      [step |-> step, server |-> v, station |-> s, location |-> l]]

Finish(r) == request' = [request EXCEPT ![r] = NoRequest]

\* Service.Create. Nothing refers to a new station's id.
CreateStation(s, l, e, k) ==
    /\ status[s] = "absent"
    /\ \A c \in Conns : peer[c].station # s
    /\ \A r \in Requests : request[r].station # s
    /\ FreshKey(k)
    /\ status' = [status EXCEPT ![s] = e]
    /\ location' = [location EXCEPT ![s] = l]
    /\ key' = [key EXCEPT ![s] = k]
    /\ UNCHANGED <<sessionVars, rejected, hubVars, connVars, request>>

\* The transaction of Store.update.
UpdateStation(r, v, s, l, e) ==
    /\ status[s] # "absent"
    /\ status' = [status EXCEPT ![s] = e]
    /\ location' = [location EXCEPT ![s] = l]
    /\ IF e = "disabled" THEN ClearClientStates(s) ELSE UNCHANGED <<sessionVars, rejected>>
    /\ Begin(r, "updated", v, s, None)
    /\ UNCHANGED <<key, hubVars, connVars>>

\* The transaction of Store.rotateKey.
RotateKey(r, v, s, k) ==
    /\ status[s] # "absent"
    /\ FreshKey(k)
    /\ key' = [key EXCEPT ![s] = k]
    /\ ClearClientStates(s)
    /\ Begin(r, "rotated", v, s, None)
    /\ UNCHANGED <<status, location, hubVars, connVars>>

\* Store.delete: sessions and rejections go with the row (ON DELETE CASCADE). When the answer of the
\* database is lost, Service.Delete returns an error and tells nobody.
DeleteStation(r, v, s) ==
    /\ status[s] # "absent"
    /\ status' = [status EXCEPT ![s] = "absent"]
    /\ location' = [location EXCEPT ![s] = None]
    /\ key' = [key EXCEPT ![s] = None]
    /\ EndSession(s)
    /\ rejected' = rejected \ {s}
    /\ Begin(r, "disconnect", v, s, None) \/ UNCHANGED request
    /\ UNCHANGED <<hubVars, connVars>>

\* A location was saved; Service.LocationChanged is about to be called.
SaveLocation(r, v, l) ==
    /\ Begin(r, "location", v, None, l)
    /\ UNCHANGED <<tables, hubVars, connVars>>

\* Store.update and Store.rotateKey end with Get: what is read now decides the hub call. There is
\* none when the row is gone or the read fails, though the change is committed.
ReadBack(r) ==
    LET s == request[r].station
        Goes(step, l) == request' = [request EXCEPT ![r] =
            [step |-> step, server |-> request[r].server, station |-> s, location |-> l]]
    IN
    /\ request[r].step \in {"updated", "rotated"}
    /\ \/ Finish(r)
       \/ status[s] = "enabled" /\ request[r].step = "updated" /\ Goes("configure", location[s])
       \/ status[s] = "disabled" /\ request[r].step = "updated" /\ Goes("disconnect", None)
       \/ status[s] # "absent" /\ request[r].step = "rotated" /\ Goes("disconnect", None)
    /\ UNCHANGED <<tables, hubVars, connVars>>

\* Hub.configurationChanged: rebinds the station's connection and queues a refresh.
Configure(r) ==
    LET C == {hub[request[r].server][request[r].station]} \ {None} IN
    /\ request[r].step = "configure"
    /\ bound' = [c \in Conns |-> IF c \in C THEN request[r].location ELSE bound[c]]
    /\ Enqueue(C)
    /\ Finish(r)
    /\ UNCHANGED <<tables, hub, closed, pc, peer, open>>

\* Hub.disconnect: takes the station's connection out of the hub, to be closed after the unlock.
Disconnect(r) ==
    LET C == {hub[request[r].server][request[r].station]} \ {None} IN
    /\ request[r].step = "disconnect"
    /\ hub' = [hub EXCEPT ![request[r].server][request[r].station] = None]
    /\ doomed' = doomed \cup C
    /\ Finish(r)
    /\ UNCHANGED <<tables, closed, connVars>>

\* Hub.configurationChangedForLocation: a refresh for every connection bound to the location.
NotifyLocation(r) ==
    /\ request[r].step = "location"
    /\ Enqueue({c \in Registered(request[r].server) : bound[c] = request[r].location})
    /\ Finish(r)
    /\ UNCHANGED <<tables, hub, closed, pc, peer, bound, open>>

---------------------------------------------------------------------------
Handler(c) ==
    \/ RefuseProtocol(c) \/ Claim(c) \/ ClaimRefused(c)
    \/ Register(c) \/ RegisterRefused(c) \/ SendHello(c)
    \/ Unregister(c) \/ Release(c)

Presence(c) == Renew(c) \/ RenewRefused(c)

Administration(r) ==
    \/ \E v \in Servers, s \in Stations :
          \/ \E l \in Locations, e \in {"enabled", "disabled"} : UpdateStation(r, v, s, l, e)
          \/ \E k \in Keys : RotateKey(r, v, s, k)
          \/ DeleteStation(r, v, s)
    \/ \E v \in Servers, l \in Locations : SaveLocation(r, v, l)
    \/ ReadBack(r) \/ Configure(r) \/ Disconnect(r) \/ NotifyLocation(r)

Next ==
    \/ \E c \in Conns :
          \/ \E v \in Servers, s \in Stations : Authenticate(c, v, s)
          \/ Handler(c) \/ Presence(c) \/ WriteMessage(c) \/ Drop(c) \/ Close(c)
    \/ \E s \in Stations :
          \/ Elapse(s) \/ ExpireRejection(s)
          \/ \E l \in Locations, e \in {"enabled", "disabled"}, k \in Keys :
                CreateStation(s, l, e, k)
    \/ \E v \in Servers : CloseHub(v) \/ Restart(v)
    \/ \E r \in Requests : Administration(r)

Spec == Init /\ [][Next]_vars

\* Every goroutine that can take a step eventually does, and time passes. Nothing is assumed of
\* clients, administrators, crashes or the network. A ws.Write has no deadline of its own
\* (hub.go writeLoop): that the ticker gets its turn rests on TCP failing a write nobody reads.
Fairness ==
    /\ \A c \in Conns :
          /\ WF_vars(Handler(c))
          /\ WF_vars(Presence(c))
          /\ WF_vars(Close(c))
    /\ \A s \in Stations : WF_vars(Elapse(s))

FairSpec == Spec /\ Fairness

---------------------------------------------------------------------------
(* What an administrator is shown, and what must hold. *)

\* The state column of stationColumnsSQL.
State(s) ==
    IF owner[s] # None /\ remaining[s] > 0 THEN "online"
    ELSE IF s \in rejected THEN "incompatible" ELSE "offline"

\* A session row is always backed by the credential it was claimed with: no interleaving of a claim
\* with a rotation, a disabling or a deletion leaves a session that a revoked key obtained.
SessionHoldsCurrentKey ==
    \A s \in Stations : owner[s] # None => status[s] = "enabled" /\ grant[s] = key[s]

\* A station that is disabled or gone is never shown online or incompatible, however late the
\* transaction of a client that authenticated before commits.
DisabledStationIsOffline ==
    \A s \in Stations : status[s] # "enabled" => State(s) = "offline"

\* Whatever a hub has registered is a handler that still runs in that very process for that very
\* station: no handler leaves its entry behind.
HubEntriesAreLive ==
    \A v \in Servers, s \in Stations :
        hub[v][s] # None =>
            /\ pc[hub[v][s]] \in Running
            /\ peer[hub[v][s]].server = v
            /\ peer[hub[v][s]].station = s

\* A running handler that its hub no longer knows has lost its socket or is about to: no socket
\* stays open out of reach of notices, of disconnects and of shutdown.
NoOrphanedSocket ==
    \A c \in Conns :
        pc[c] \in Running /\ open[c] /\ c \notin doomed =>
            hub[peer[c].server][peer[c].station] = c

\* A closed hub has no connections and takes none in, though handlers past their claim still arrive.
ClosedHubIsEmpty ==
    \A v \in closed, s \in Stations : hub[v][s] = None

\* A session disappears only when its owner's handler releases it, or in a change that takes the
\* credential away. The late release of a connection that was replaced never ends its successor's.
SessionEndsByOwnerOrRevocation ==
    [][\A s \in Stations :
          owner[s] # None /\ owner'[s] = None =>
              \/ pc[owner[s]] = "leaving" /\ pc'[owner[s]] = "idle"
              \/ status'[s] # "enabled"
              \/ key'[s] # key[s]]_vars

\* The tables implement the session authority: a connection that lost its session never renews or
\* claims its way back.
Authority == INSTANCE SessionAuthority WITH
    credential <- [s \in Stations |-> IF status[s] = "enabled" THEN key[s] ELSE None],
    holder <- owner,
    spent <- {c \in Conns : /\ pc[c] \notin {"idle", "authenticated"}
                            /\ \A s \in Stations : owner[s] # c}

ImplementsAuthority == Authority!Spec

\* A connection whose session is gone does not stay, be its row another's (it was replaced), missing
\* (its credential was revoked) or still its own and expired: its handler ends even when its hub is
\* never told to disconnect it, or was told before it had registered, and a late renewal revives
\* nothing.
EvictedConnectionsLeave ==
    \A c \in Conns :
        pc[c] \in Running /\ (owner[peer[c].station] # c \/ remaining[peer[c].station] = 0)
            ~> pc[c] = "idle"

\* A crash or a failed release leaves a session row without a handler; it is not shown online for ever.
DeadSessionsFade ==
    \A s \in Stations, c \in Conns :
        owner[s] = c /\ pc[c] = "idle" ~> owner[s] # c \/ remaining[s] = 0

\* Shutdown drains: every handler of a server whose hub was closed ends.
ShutdownDrains ==
    \A c \in Conns, v \in Servers :
        v \in closed /\ peer[c].server = v ~> peer[c].server # v

---------------------------------------------------------------------------
(* Statements of the repository that the code does not keep. *)

\* service.go: "LocationChanged notifies every connected station bound to locationID." Said of the
\* connections that hold their station's session, and of stations that no other request is being
\* processed for.
LocationChangedNotifiesBoundStations ==
    [][\A r \in Requests, c \in Conns :
          /\ NotifyLocation(r)
          /\ pc[c] = "serving" /\ open[c] /\ c \notin doomed
          /\ owner[peer[c].station] = c
          /\ peer[c].server = request[r].server
          /\ location[peer[c].station] = request[r].location
          /\ \A q \in Requests : request[q].station # peer[c].station
          => queued'[c] > queued[c] \/ c \in doomed']_vars

\* hub.go: "Hub owns this process's sockets; PostgreSQL owns Station session authority." A hub that
\* follows the authority never closes the connection that holds the session for one that lost it.
DisplacedConnectionHasLostSession ==
    [][\A c \in Conns :
          Register(c) => \A d \in Displaced(c) : owner[peer[c].station] # d]_vars

=============================================================================
