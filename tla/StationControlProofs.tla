------------------------ MODULE StationControlProofs ------------------------
(***************************************************************************)
(* Theorems about StationControl, for any number of stations, replicas,    *)
(* connections and administrative requests.                                *)
(*                                                                         *)
(* Types come first (TypeInv), split by group of variables so that a step  *)
(* is only asked about the groups it writes: Frame covers the rest.        *)
(* The hubs come last: what is registered runs, what runs with an open     *)
(* socket is registered, and a closed hub is empty.                        *)
(***************************************************************************)
EXTENDS StationControl, TLAPS

---------------------------------------------------------------------------
(* Types, one part for each group of variables. *)

StationsTyped ==
    /\ status \in [Stations -> {"absent", "enabled", "disabled"}]
    /\ location \in [Stations -> Locations \cup {None}]
    /\ key \in [Stations -> Keys \cup {None}]
    /\ \A s \in Stations : status[s] # "absent" => key[s] \in Keys /\ location[s] \in Locations

SessionsTyped ==
    /\ owner \in [Stations -> Conns \cup {None}]
    /\ grant \in [Stations -> Keys \cup {None}]
    /\ remaining \in [Stations -> 0..SessionTTL]

HubTyped ==
    /\ hub \in [Servers -> [Stations -> Conns \cup {None}]]
    /\ closed \subseteq Servers
    /\ doomed \subseteq Conns

\* A handler past authentication knows its station, key and server; an idle one knows nothing.
ConnsTyped ==
    /\ pc \in [Conns -> {"idle", "authenticated", "claimed", "registered", "serving", "leaving"}]
    /\ peer \in [Conns -> Peer \cup {NoPeer}]
    /\ bound \in [Conns -> Locations \cup {None}]
    /\ open \in [Conns -> BOOLEAN]
    /\ queued \in [Conns -> 0..ControlBuffer]
    /\ \A c \in Conns : pc[c] # "idle" <=> peer[c] # NoPeer

\* A request in flight knows its station unless it is about a location.
RequestsTyped ==
    /\ request \in [Requests -> Request \cup {NoRequest}]
    /\ \A r \in Requests : request[r].step \notin {"idle", "location"} =>
          request[r].station \in Stations

TypeInv ==
    /\ StationsTyped
    /\ SessionsTyped
    /\ rejected \subseteq Stations
    /\ HubTyped
    /\ ConnsTyped
    /\ RequestsTyped

LEMMA TypeInvTypeOK == TypeInv => TypeOK
  BY DEF TypeInv, TypeOK, StationsTyped, SessionsTyped, HubTyped, ConnsTyped, RequestsTyped,
         Upgraded, Running

LEMMA TypeInit == Init => TypeInv
<1> SUFFICES ASSUME Init PROVE TypeInv
  OBVIOUS
<1> USE DEF Init
<1>1. StationsTyped
  BY DEF StationsTyped
<1>2. SessionsTyped
  BY BoundsAssumption DEF SessionsTyped
<1>3. HubTyped
  BY DEF HubTyped
<1>4. ConnsTyped
  BY BoundsAssumption DEF ConnsTyped
<1>5. RequestsTyped
  BY DEF RequestsTyped, NoRequest
<1> QED
  BY <1>1, <1>2, <1>3, <1>4, <1>5 DEF TypeInv

\* What a step leaves alone stays typed.
LEMMA Frame ==
  ASSUME TypeInv
  PROVE  /\ UNCHANGED stationVars => StationsTyped'
         /\ UNCHANGED sessionVars => SessionsTyped'
         /\ UNCHANGED hubVars => HubTyped'
         /\ UNCHANGED connVars => ConnsTyped'
         /\ UNCHANGED request => RequestsTyped'
<1>1. UNCHANGED stationVars => StationsTyped'
  BY DEF TypeInv, StationsTyped, stationVars
<1>2. UNCHANGED sessionVars => SessionsTyped'
  BY DEF TypeInv, SessionsTyped, sessionVars
<1>3. UNCHANGED hubVars => HubTyped'
  BY DEF TypeInv, HubTyped, hubVars
<1>4. UNCHANGED connVars => ConnsTyped'
  BY DEF TypeInv, ConnsTyped, connVars
<1>5. UNCHANGED request => RequestsTyped'
  BY DEF TypeInv, RequestsTyped
<1> QED
  BY <1>1, <1>2, <1>3, <1>4, <1>5

LEMMA PeerFacts ==
  ASSUME TypeInv, NEW c \in Conns, pc[c] # "idle"
  PROVE  /\ peer[c] \in Peer
         /\ peer[c].station \in Stations
         /\ peer[c].key \in Keys
         /\ peer[c].server \in Servers
  BY DEF TypeInv, ConnsTyped, Peer

LEMMA RequestFacts ==
  ASSUME TypeInv, NEW r \in Requests, request[r].step # "idle"
  PROVE  /\ request[r] \in Request
         /\ request[r].server \in Servers
         /\ request[r].location \in Locations \cup {None}
         /\ request[r].step # "location" => request[r].station \in Stations
  BY DEF TypeInv, RequestsTyped, Request, NoRequest

LEMMA VanishType == ASSUME TypeInv, NEW C, Vanish(C) PROVE ConnsTyped'
<1>1. queued' \in [Conns -> 0..ControlBuffer]
  BY BoundsAssumption DEF TypeInv, ConnsTyped, Vanish
<1> QED
  BY <1>1 DEF TypeInv, ConnsTyped, Vanish

LEMMA EndSessionType ==
  ASSUME TypeInv, NEW s \in Stations, EndSession(s)
  PROVE  SessionsTyped'
  BY BoundsAssumption DEF TypeInv, SessionsTyped, EndSession

LEMMA TakeSessionType ==
  ASSUME TypeInv, NEW c \in Conns, pc[c] # "idle", TakeSession(c)
  PROVE  SessionsTyped'
  BY BoundsAssumption, PeerFacts DEF TypeInv, SessionsTyped, TakeSession

LEMMA EnqueueType ==
  ASSUME TypeInv, NEW C \in SUBSET Conns, Enqueue(C)
  PROVE  queued' \in [Conns -> 0..ControlBuffer] /\ doomed' \subseteq Conns
<1>1. queued \in [Conns -> 0..ControlBuffer] /\ doomed \subseteq Conns
  BY DEF TypeInv, ConnsTyped, HubTyped
<1>2. ASSUME NEW n \in 0..ControlBuffer, n < ControlBuffer PROVE n + 1 \in 0..ControlBuffer
  BY <1>2, BoundsAssumption
<1> QED
  BY <1>1, <1>2 DEF Enqueue

LEMMA FinishType == ASSUME TypeInv, NEW r \in Requests, Finish(r) PROVE RequestsTyped'
  BY DEF TypeInv, RequestsTyped, Finish, NoRequest

LEMMA BeginType ==
  ASSUME TypeInv, NEW r \in Requests, NEW v \in Servers,
         NEW s \in Stations \cup {None}, NEW l \in Locations \cup {None},
         NEW step \in {"updated", "rotated", "configure", "disconnect", "location"},
         step # "location" => s \in Stations,
         request' = [request EXCEPT ![r] =
                        [step |-> step, server |-> v, station |-> s, location |-> l]]
  PROVE  RequestsTyped'
<1> DEFINE new == [step |-> step, server |-> v, station |-> s, location |-> l]
<1>1. new \in Request /\ new.step = step /\ new.station = s
  BY DEF Request
<1>2. request' = [request EXCEPT ![r] = new]
  OBVIOUS
<1> HIDE DEF new
<1> QED
  BY <1>1, <1>2 DEF TypeInv, RequestsTyped

\* The steps of one connection.
LEMMA TypeConnection ==
  ASSUME TypeInv, NEW c \in Conns,
         \/ \E v \in Servers, s \in Stations : Authenticate(c, v, s)
         \/ Handler(c) \/ Presence(c) \/ WriteMessage(c) \/ Drop(c) \/ Close(c)
  PROVE  TypeInv'
<1> USE DEF tables, TypeInv
<1>1. ASSUME NEW v \in Servers, NEW s \in Stations, Authenticate(c, v, s) PROVE TypeInv'
  <2> DEFINE new == [station |-> s, key |-> key[s], server |-> v]
  <2>1. new \in Peer /\ new # NoPeer /\ location[s] \in Locations
    BY <1>1, NoneAssumption DEF Authenticate, StationsTyped, Peer, NoPeer
  <2>2. peer' = [peer EXCEPT ![c] = new]
    BY <1>1 DEF Authenticate
  <2> HIDE DEF new
  <2>3. ConnsTyped'
    BY <1>1, <2>1, <2>2 DEF Authenticate, ConnsTyped
  <2> QED
    BY <1>1, <2>3, Frame DEF Authenticate
<1>2. CASE RefuseProtocol(c)
  BY <1>2, PeerFacts, VanishType, Frame DEF RefuseProtocol
<1>3. CASE Claim(c)
  <2>1. ConnsTyped'
    BY <1>3, VanishType DEF Claim, ConnsTyped
  <2> QED
    BY <1>3, <2>1, PeerFacts, TakeSessionType, Frame DEF Claim
<1>4. CASE ClaimRefused(c)
  BY <1>4, VanishType, Frame DEF ClaimRefused
<1>5. CASE Register(c)
  <2>1. peer[c].station \in Stations /\ peer[c].server \in Servers
    BY <1>5, PeerFacts DEF Register
  <2>2. HubTyped'
    BY <1>5, <2>1 DEF Register, Displaced, HubTyped
  <2>3. ConnsTyped'
    BY <1>5 DEF Register, ConnsTyped
  <2> QED
    BY <1>5, <2>2, <2>3, Frame DEF Register
<1>6. CASE RegisterRefused(c)
  <2>1. ConnsTyped'
    BY <1>6 DEF RegisterRefused, ConnsTyped
  <2> QED
    BY <1>6, <2>1, Frame DEF RegisterRefused
<1>7. CASE SendHello(c)
  <2>1. queued' \in [Conns -> 0..ControlBuffer] /\ doomed' \subseteq Conns
    BY <1>7, EnqueueType DEF SendHello
  <2>2. ConnsTyped' /\ HubTyped'
    BY <1>7, <2>1 DEF SendHello, ConnsTyped, HubTyped
  <2> QED
    BY <1>7, <2>2, Frame DEF SendHello
<1>8. CASE Unregister(c)
  <2>1. HubTyped'
    BY <1>8, PeerFacts DEF Unregister, Unregistered, HubTyped
  <2>2. ConnsTyped'
    BY <1>8 DEF Unregister, ConnsTyped
  <2> QED
    BY <1>8, <2>1, <2>2, Frame DEF Unregister
<1>9. CASE Release(c)
  <2>1. SessionsTyped'
    BY <1>9, PeerFacts, EndSessionType, Frame DEF Release, ReleaseSession
  <2> QED
    BY <1>9, <2>1, VanishType, Frame DEF Release
<1>10. CASE Renew(c)
  <2>1. SessionTTL \in 0..SessionTTL /\ UNCHANGED <<owner, grant>>
    BY <1>10, BoundsAssumption DEF Renew
  <2>2. remaining' \in [Stations -> 0..SessionTTL]
    BY <1>10, <2>1 DEF Renew, SessionsTyped
  <2>3. SessionsTyped'
    BY <2>1, <2>2 DEF SessionsTyped
  <2> QED
    BY <1>10, <2>3, Frame DEF Renew
<1>11. CASE RenewRefused(c) \/ Drop(c)
  <2>1. ConnsTyped'
    BY <1>11 DEF RenewRefused, Drop, ConnsTyped
  <2> QED
    BY <1>11, <2>1, Frame DEF RenewRefused, Drop
<1>12. CASE WriteMessage(c)
  <2>1. queued[c] - 1 \in 0..ControlBuffer
    BY <1>12, BoundsAssumption DEF WriteMessage, ConnsTyped
  <2>2. ConnsTyped'
    BY <1>12, <2>1 DEF WriteMessage, ConnsTyped
  <2> QED
    BY <1>12, <2>2, Frame DEF WriteMessage
<1>13. CASE Close(c)
  <2>1. ConnsTyped' /\ HubTyped'
    BY <1>13 DEF Close, ConnsTyped, HubTyped
  <2> QED
    BY <1>13, <2>1, Frame DEF Close
<1> QED
  BY <1>1, <1>2, <1>3, <1>4, <1>5, <1>6, <1>7, <1>8, <1>9, <1>10, <1>11, <1>12, <1>13
  DEF Handler, Presence

\* The steps of time, of a server process and of station creation.
LEMMA TypeEnvironment ==
  ASSUME TypeInv,
         \/ \E s \in Stations :
               \/ Elapse(s) \/ ExpireRejection(s)
               \/ \E l \in Locations, e \in {"enabled", "disabled"}, k \in Keys :
                     CreateStation(s, l, e, k)
         \/ \E v \in Servers : CloseHub(v) \/ Restart(v)
  PROVE  TypeInv'
<1> USE DEF tables, TypeInv
<1>1. ASSUME NEW s \in Stations, Elapse(s) PROVE TypeInv'
  <2>1. remaining[s] - 1 \in 0..SessionTTL
    BY <1>1, BoundsAssumption DEF Elapse, SessionsTyped
  <2>2. SessionsTyped'
    BY <1>1, <2>1 DEF Elapse, SessionsTyped
  <2> QED
    BY <1>1, <2>2, Frame DEF Elapse
<1>2. ASSUME NEW s \in Stations, ExpireRejection(s) PROVE TypeInv'
  BY <1>2, Frame DEF ExpireRejection
<1>3. ASSUME NEW s \in Stations, NEW l \in Locations, NEW e \in {"enabled", "disabled"},
             NEW k \in Keys, CreateStation(s, l, e, k)
      PROVE TypeInv'
  <2>1. StationsTyped'
    BY <1>3 DEF CreateStation, StationsTyped
  <2> QED
    BY <1>3, <2>1, Frame DEF CreateStation
<1>4. ASSUME NEW v \in Servers, CloseHub(v) PROVE TypeInv'
  <2>1. HubTyped'
    BY <1>4 DEF CloseHub, Registered, HubTyped
  <2> QED
    BY <1>4, <2>1, Frame DEF CloseHub
<1>5. ASSUME NEW v \in Servers, Restart(v) PROVE TypeInv'
  <2>1. HubTyped'
    BY <1>5 DEF Restart, HubTyped
  <2>2. RequestsTyped'
    BY <1>5 DEF Restart, RequestsTyped, NoRequest
  <2> QED
    BY <1>5, <2>1, <2>2, VanishType, Frame DEF Restart
<1> QED
  BY <1>1, <1>2, <1>3, <1>4, <1>5

\* The steps of an administrative request.
LEMMA TypeAdministration ==
  ASSUME TypeInv, NEW r \in Requests, Administration(r)
  PROVE  TypeInv'
<1> USE DEF tables, TypeInv
<1>1. ASSUME NEW v \in Servers, NEW s \in Stations, NEW l \in Locations,
             NEW e \in {"enabled", "disabled"}, UpdateStation(r, v, s, l, e)
      PROVE TypeInv'
  <2>1. StationsTyped'
    BY <1>1 DEF UpdateStation, StationsTyped
  <2>2. SessionsTyped' /\ rejected' \subseteq Stations
    BY <1>1, EndSessionType, Frame DEF UpdateStation, ClearClientStates
  <2>3. RequestsTyped'
    BY <1>1, BeginType DEF UpdateStation, Begin
  <2> QED
    BY <1>1, <2>1, <2>2, <2>3, Frame DEF UpdateStation
<1>2. ASSUME NEW v \in Servers, NEW s \in Stations, NEW k \in Keys, RotateKey(r, v, s, k)
      PROVE TypeInv'
  <2>1. StationsTyped'
    BY <1>2 DEF RotateKey, StationsTyped
  <2>2. SessionsTyped' /\ rejected' \subseteq Stations
    BY <1>2, EndSessionType DEF RotateKey, ClearClientStates
  <2>3. RequestsTyped'
    BY <1>2, BeginType DEF RotateKey, Begin
  <2> QED
    BY <1>2, <2>1, <2>2, <2>3, Frame DEF RotateKey
<1>3. ASSUME NEW v \in Servers, NEW s \in Stations, DeleteStation(r, v, s) PROVE TypeInv'
  <2>1. StationsTyped'
    BY <1>3 DEF DeleteStation, StationsTyped
  <2>2. SessionsTyped' /\ rejected' \subseteq Stations
    BY <1>3, EndSessionType DEF DeleteStation
  <2>3. RequestsTyped'
    BY <1>3, BeginType, Frame DEF DeleteStation, Begin
  <2> QED
    BY <1>3, <2>1, <2>2, <2>3, Frame DEF DeleteStation
<1>4. ASSUME NEW v \in Servers, NEW l \in Locations, SaveLocation(r, v, l) PROVE TypeInv'
  <2>1. RequestsTyped'
    BY <1>4, BeginType DEF SaveLocation, Begin
  <2> QED
    BY <1>4, <2>1, Frame DEF SaveLocation
<1>5. CASE ReadBack(r)
  <2> DEFINE s == request[r].station
  <2>1. request[r].server \in Servers /\ s \in Stations
    BY <1>5, RequestFacts DEF ReadBack
  <2>2. \/ Finish(r)
        \/ \E step \in {"configure", "disconnect"}, l \in Locations \cup {None} :
              request' = [request EXCEPT ![r] =
                 [step |-> step, server |-> request[r].server, station |-> s, location |-> l]]
    BY <1>5, <2>1 DEF ReadBack, StationsTyped
  <2>3. RequestsTyped'
    BY <2>1, <2>2, FinishType, BeginType
  <2> QED
    BY <1>5, <2>3, Frame DEF ReadBack
<1>6. CASE Configure(r)
  <2> DEFINE C == {hub[request[r].server][request[r].station]} \ {None}
  <2>1. /\ request[r].station \in Stations
        /\ request[r].server \in Servers
        /\ request[r].location \in Locations \cup {None}
    BY <1>6, RequestFacts DEF Configure
  <2>2. C \in SUBSET Conns
    BY <2>1 DEF HubTyped
  <2>3. queued' \in [Conns -> 0..ControlBuffer] /\ doomed' \subseteq Conns
    BY <1>6, <2>2, EnqueueType DEF Configure
  <2>4. ConnsTyped' /\ HubTyped'
    BY <1>6, <2>1, <2>3 DEF Configure, ConnsTyped, HubTyped
  <2> QED
    BY <1>6, <2>4, FinishType, Frame DEF Configure
<1>7. CASE Disconnect(r)
  <2>1. request[r].server \in Servers /\ request[r].station \in Stations
    BY <1>7, RequestFacts DEF Disconnect
  <2>2. HubTyped'
    BY <1>7, <2>1 DEF Disconnect, HubTyped
  <2> QED
    BY <1>7, <2>2, FinishType, Frame DEF Disconnect
<1>8. CASE NotifyLocation(r)
  <2> DEFINE C == {c \in Registered(request[r].server) : bound[c] = request[r].location}
  <2>1. C \in SUBSET Conns
    BY <1>8, RequestFacts DEF NotifyLocation, Registered, HubTyped
  <2>2. queued' \in [Conns -> 0..ControlBuffer] /\ doomed' \subseteq Conns
    BY <1>8, <2>1, EnqueueType DEF NotifyLocation
  <2>3. ConnsTyped' /\ HubTyped'
    BY <1>8, <2>2 DEF NotifyLocation, ConnsTyped, HubTyped
  <2> QED
    BY <1>8, <2>3, FinishType, Frame DEF NotifyLocation
<1> QED
  BY <1>1, <1>2, <1>3, <1>4, <1>5, <1>6, <1>7, <1>8 DEF Administration

LEMMA TypeNext == TypeInv /\ [Next]_vars => TypeInv'
<1> SUFFICES ASSUME TypeInv, [Next]_vars PROVE TypeInv'
  OBVIOUS
<1>1. CASE Next
  BY <1>1, TypeConnection, TypeEnvironment, TypeAdministration DEF Next
<1>2. CASE UNCHANGED vars
  BY <1>2, Frame DEF TypeInv, vars, tables
<1> QED
  BY <1>1, <1>2

\* Every variable keeps its type.
THEOREM TypeCorrect == Spec => []TypeOK
<1>1. Spec => []TypeInv
  BY TypeInit, TypeNext, PTL DEF Spec
<1> QED
  BY <1>1, TypeInvTypeOK, PTL

---------------------------------------------------------------------------
(* Sessions and credentials. *)

\* A handler ends, or goes on for the same station with or without a session of its own.
HandlersGoOn ==
    \A c \in Conns :
        \/ pc'[c] = "idle"
        \/ /\ peer'[c] = peer[c]
           /\ \/ pc'[c] = pc[c]
              \/ pc[c] \notin {"idle", "authenticated"} /\ pc'[c] \notin {"idle", "authenticated"}

\* The steps that write credentials or the owner of a session, and the others.
LEMMA StoreSteps ==
  ASSUME TypeInv, [Next]_vars
  PROVE  \/ \E c \in Conns :
               Claim(c) \/ Release(c) \/ \E v \in Servers, s \in Stations : Authenticate(c, v, s)
         \/ \E s \in Stations, l \in Locations, e \in {"enabled", "disabled"}, k \in Keys :
               CreateStation(s, l, e, k)
         \/ \E r \in Requests, v \in Servers, s \in Stations :
               \/ \E l \in Locations, e \in {"enabled", "disabled"} : UpdateStation(r, v, s, l, e)
               \/ \E k \in Keys : RotateKey(r, v, s, k)
               \/ DeleteStation(r, v, s)
         \/ UNCHANGED <<status, key, owner, grant>> /\ HandlersGoOn
<1> DEFINE Kept == UNCHANGED <<status, key, owner, grant>> /\ HandlersGoOn
<1> USE DEF tables, stationVars, sessionVars, connVars, HandlersGoOn
<1>0. pc \in [Conns -> {"idle", "authenticated", "claimed", "registered", "serving", "leaving"}]
  BY DEF TypeInv, ConnsTyped
<1>1. CASE UNCHANGED vars
  BY <1>1 DEF vars
<1>2. ASSUME NEW c \in Conns, Presence(c) \/ WriteMessage(c) \/ Drop(c) \/ Close(c) PROVE Kept
  BY <1>2 DEF Presence, Renew, RenewRefused, WriteMessage, Drop, Close
<1>3. ASSUME NEW c \in Conns, Register(c) \/ RegisterRefused(c) \/ SendHello(c) \/ Unregister(c)
      PROVE Kept
  BY <1>0, <1>3 DEF Register, RegisterRefused, SendHello, Unregister
<1>4. ASSUME NEW c \in Conns, RefuseProtocol(c) \/ ClaimRefused(c) PROVE Kept
  BY <1>0, <1>4 DEF RefuseProtocol, ClaimRefused, Vanish
<1>5. ASSUME NEW s \in Stations, Elapse(s) \/ ExpireRejection(s) PROVE Kept
  BY <1>5 DEF Elapse, ExpireRejection
<1>6. ASSUME NEW v \in Servers, CloseHub(v) \/ Restart(v) PROVE Kept
  BY <1>6 DEF CloseHub, Restart, Vanish
<1>7. ASSUME NEW r \in Requests,
             \/ \E v \in Servers, l \in Locations : SaveLocation(r, v, l)
             \/ ReadBack(r) \/ Configure(r) \/ Disconnect(r) \/ NotifyLocation(r)
      PROVE Kept
  BY <1>7 DEF SaveLocation, ReadBack, Configure, Disconnect, NotifyLocation
<1> QED
  BY <1>1, <1>2, <1>3, <1>4, <1>5, <1>6, <1>7 DEF Next, Handler, Administration

LEMMA SessionKeyNext ==
  TypeInv /\ SessionHoldsCurrentKey /\ [Next]_vars => SessionHoldsCurrentKey'
<1> SUFFICES ASSUME TypeInv, SessionHoldsCurrentKey, [Next]_vars
    PROVE SessionHoldsCurrentKey'
  OBVIOUS
<1> USE NoneAssumption DEF SessionHoldsCurrentKey, stationVars, sessionVars
<1>0. StationsTyped /\ SessionsTyped
  BY DEF TypeInv
<1>1. ASSUME NEW c \in Conns, Claim(c) PROVE SessionHoldsCurrentKey'
  BY <1>0, <1>1, PeerFacts DEF Claim, TakeSession, CredentialHolds, StationsTyped, SessionsTyped
<1>2. ASSUME NEW c \in Conns, Release(c) PROVE SessionHoldsCurrentKey'
  BY <1>0, <1>2 DEF Release, ReleaseSession, EndSession, SessionsTyped
<1>3. ASSUME NEW s \in Stations, NEW l \in Locations, NEW e \in {"enabled", "disabled"},
             NEW k \in Keys, CreateStation(s, l, e, k)
      PROVE SessionHoldsCurrentKey'
  BY <1>0, <1>3 DEF CreateStation, StationsTyped
<1>4. ASSUME NEW r \in Requests, NEW v \in Servers, NEW s \in Stations, NEW l \in Locations,
             NEW e \in {"enabled", "disabled"}, UpdateStation(r, v, s, l, e)
      PROVE SessionHoldsCurrentKey'
  BY <1>0, <1>4 DEF UpdateStation, ClearClientStates, EndSession, StationsTyped, SessionsTyped
<1>5. ASSUME NEW r \in Requests, NEW v \in Servers, NEW s \in Stations, NEW k \in Keys,
             RotateKey(r, v, s, k)
      PROVE SessionHoldsCurrentKey'
  BY <1>0, <1>5 DEF RotateKey, ClearClientStates, EndSession, StationsTyped, SessionsTyped
<1>6. ASSUME NEW r \in Requests, NEW v \in Servers, NEW s \in Stations, DeleteStation(r, v, s)
      PROVE SessionHoldsCurrentKey'
  BY <1>0, <1>6 DEF DeleteStation, EndSession, StationsTyped, SessionsTyped
<1>7. ASSUME NEW c \in Conns, NEW v \in Servers, NEW s \in Stations, Authenticate(c, v, s)
      PROVE SessionHoldsCurrentKey'
  BY <1>7 DEF Authenticate, tables
<1>8. CASE UNCHANGED <<status, key, owner, grant>>
  BY <1>8
<1> QED
  BY <1>1, <1>2, <1>3, <1>4, <1>5, <1>6, <1>7, <1>8, StoreSteps

\* A session never outlives the credential it was claimed with.
THEOREM SessionKeyCorrect == Spec => []SessionHoldsCurrentKey
<1>1. Init => SessionHoldsCurrentKey
  BY DEF Init, SessionHoldsCurrentKey
<1>2. Spec => [](TypeInv /\ SessionHoldsCurrentKey)
  BY <1>1, TypeInit, TypeNext, SessionKeyNext, PTL DEF Spec
<1> QED
  BY <1>2, PTL

\* Only a station that is enabled is ever recorded as having refused a client.
RejectedEnabled == \A s \in rejected : status[s] = "enabled"

LEMMA RejectedNext == TypeInv /\ RejectedEnabled /\ [Next]_vars => RejectedEnabled'
<1> SUFFICES ASSUME TypeInv, RejectedEnabled, [Next]_vars PROVE RejectedEnabled'
  OBVIOUS
<1> DEFINE Fewer == status' = status /\ rejected' \subseteq rejected
<1> USE DEF RejectedEnabled, tables, stationVars
<1>0. StationsTyped /\ rejected \subseteq Stations
  BY DEF TypeInv
<1>1. ASSUME NEW c \in Conns, RefuseProtocol(c) PROVE RejectedEnabled'
  BY <1>1 DEF RefuseProtocol, CredentialHolds
<1>2. ASSUME NEW c \in Conns,
             \/ Claim(c) \/ ClaimRefused(c) \/ Register(c) \/ RegisterRefused(c) \/ SendHello(c)
             \/ Unregister(c) \/ Release(c)
      PROVE Fewer
  BY <1>2 DEF Claim, ClaimRefused, Register, RegisterRefused, SendHello, Unregister, Release
<1>3. ASSUME NEW c \in Conns,
             \/ Presence(c) \/ WriteMessage(c) \/ Drop(c) \/ Close(c)
             \/ \E v \in Servers, s \in Stations : Authenticate(c, v, s)
      PROVE Fewer
  BY <1>3 DEF Presence, Renew, RenewRefused, WriteMessage, Drop, Close, Authenticate
<1>4. ASSUME NEW s \in Stations, Elapse(s) \/ ExpireRejection(s) PROVE Fewer
  BY <1>4 DEF Elapse, ExpireRejection
<1>5. ASSUME NEW s \in Stations, NEW l \in Locations, NEW e \in {"enabled", "disabled"},
             NEW k \in Keys, CreateStation(s, l, e, k)
      PROVE RejectedEnabled'
  BY <1>0, <1>5 DEF CreateStation, StationsTyped
<1>6. ASSUME NEW v \in Servers, CloseHub(v) \/ Restart(v) PROVE Fewer
  BY <1>6 DEF CloseHub, Restart
<1>7. ASSUME NEW r \in Requests, Administration(r) PROVE RejectedEnabled'
  <2>1. ASSUME NEW v \in Servers, NEW s \in Stations, NEW l \in Locations,
               NEW e \in {"enabled", "disabled"}, UpdateStation(r, v, s, l, e)
        PROVE RejectedEnabled'
    BY <1>0, <2>1 DEF UpdateStation, ClearClientStates, StationsTyped
  <2>2. ASSUME NEW v \in Servers, NEW s \in Stations, NEW k \in Keys, RotateKey(r, v, s, k)
        PROVE RejectedEnabled'
    BY <2>2 DEF RotateKey, ClearClientStates
  <2>3. ASSUME NEW v \in Servers, NEW s \in Stations, DeleteStation(r, v, s)
        PROVE RejectedEnabled'
    BY <1>0, <2>3 DEF DeleteStation, StationsTyped
  <2>4. ASSUME \/ \E v \in Servers, l \in Locations : SaveLocation(r, v, l)
               \/ ReadBack(r) \/ Configure(r) \/ Disconnect(r) \/ NotifyLocation(r)
        PROVE Fewer
    BY <2>4 DEF SaveLocation, ReadBack, Configure, Disconnect, NotifyLocation
  <2> QED
    BY <1>7, <2>1, <2>2, <2>3, <2>4 DEF Administration
<1>8. CASE UNCHANGED vars
  BY <1>8 DEF vars
<1> QED
  BY <1>1, <1>2, <1>3, <1>4, <1>5, <1>6, <1>7, <1>8 DEF Next, Handler

\* Neither a late claim nor a late refusal of a client makes a disabled or deleted station show up
\* as online or incompatible.
THEOREM DisabledOffline == Spec => []DisabledStationIsOffline
<1>1. Init => TypeInv /\ SessionHoldsCurrentKey /\ RejectedEnabled
  BY TypeInit DEF Init, SessionHoldsCurrentKey, RejectedEnabled
<1>2. Spec => [](TypeInv /\ SessionHoldsCurrentKey /\ RejectedEnabled)
  BY <1>1, TypeNext, SessionKeyNext, RejectedNext, PTL DEF Spec
<1>3. SessionHoldsCurrentKey /\ RejectedEnabled => DisabledStationIsOffline
  BY DEF SessionHoldsCurrentKey, RejectedEnabled, DisabledStationIsOffline, State
<1> QED
  BY <1>2, <1>3, PTL

\* No step but the owner's own release and a change of the credential ends a session.
THEOREM SessionEnds == Spec => SessionEndsByOwnerOrRevocation
<1> DEFINE Ends(s) == owner[s] # None /\ owner'[s] = None =>
                          \/ pc[owner[s]] = "leaving" /\ pc'[owner[s]] = "idle"
                          \/ status'[s] # "enabled"
                          \/ key'[s] # key[s]
<1>1. TypeInv /\ [Next]_vars => [\A s \in Stations : Ends(s)]_vars
  <2> SUFFICES ASSUME TypeInv, [Next]_vars, NEW s \in Stations, owner[s] # None, owner'[s] = None
               PROVE  \/ pc[owner[s]] = "leaving" /\ pc'[owner[s]] = "idle"
                      \/ status'[s] # "enabled"
                      \/ key'[s] # key[s]
    OBVIOUS
  <2> USE NoneAssumption DEF sessionVars, stationVars, tables
  <2>0. StationsTyped /\ SessionsTyped
    BY DEF TypeInv
  <2>1. ASSUME NEW c \in Conns, Claim(c) PROVE FALSE
    BY <2>0, <2>1, PeerFacts DEF Claim, TakeSession, SessionsTyped
  <2>2. ASSUME NEW c \in Conns, Release(c)
        PROVE pc[owner[s]] = "leaving" /\ pc'[owner[s]] = "idle"
    BY <2>0, <2>2 DEF Release, ReleaseSession, EndSession, Vanish, SessionsTyped
  <2>3. ASSUME NEW c \in Conns, NEW v \in Servers, NEW t \in Stations, Authenticate(c, v, t)
        PROVE FALSE
    BY <2>3 DEF Authenticate
  <2>4. ASSUME NEW t \in Stations, NEW l \in Locations, NEW e \in {"enabled", "disabled"},
               NEW k \in Keys, CreateStation(t, l, e, k)
        PROVE FALSE
    BY <2>4 DEF CreateStation
  <2>5. ASSUME NEW r \in Requests, NEW v \in Servers, NEW t \in Stations, NEW l \in Locations,
               NEW e \in {"enabled", "disabled"}, UpdateStation(r, v, t, l, e)
        PROVE status'[s] # "enabled"
    BY <2>0, <2>5 DEF UpdateStation, ClearClientStates, EndSession, StationsTyped, SessionsTyped
  <2>6. ASSUME NEW r \in Requests, NEW v \in Servers, NEW t \in Stations, NEW k \in Keys,
               RotateKey(r, v, t, k)
        PROVE key'[s] # key[s]
    BY <2>0, <2>6 DEF RotateKey, FreshKey, ClearClientStates, EndSession, StationsTyped, SessionsTyped
  <2>7. ASSUME NEW r \in Requests, NEW v \in Servers, NEW t \in Stations, DeleteStation(r, v, t)
        PROVE status'[s] # "enabled"
    BY <2>0, <2>7 DEF DeleteStation, EndSession, StationsTyped, SessionsTyped
  <2> QED
    BY <2>1, <2>2, <2>3, <2>4, <2>5, <2>6, <2>7, StoreSteps
<1>2. Spec => [][\A s \in Stations : Ends(s)]_vars
  BY <1>1, TypeInit, TypeNext, PTL DEF Spec
<1> QED
  BY <1>2 DEF SessionEndsByOwnerOrRevocation

---------------------------------------------------------------------------
(* StationControl implements SessionAuthority. *)

\* A connection owns the session of one station at most, the one its handler was started for, and
\* has claimed it if its handler still runs.
OwnersClaimed ==
    /\ \A s \in Stations : owner[s] # None =>
          /\ pc[owner[s]] # "authenticated"
          /\ pc[owner[s]] # "idle" => peer[owner[s]].station = s
    /\ \A s, t \in Stations : owner[s] # None /\ owner[s] = owner[t] => s = t

LEMMA OwnersNext == TypeInv /\ OwnersClaimed /\ [Next]_vars => OwnersClaimed'
<1> SUFFICES ASSUME TypeInv, OwnersClaimed, [Next]_vars PROVE OwnersClaimed'
  OBVIOUS
<1> USE NoneAssumption DEF tables, sessionVars, connVars
<1>0. /\ owner \in [Stations -> Conns \cup {None}]
      /\ pc \in [Conns -> {"idle", "authenticated", "claimed", "registered", "serving", "leaving"}]
      /\ peer \in [Conns -> Peer \cup {NoPeer}]
  BY DEF TypeInv, SessionsTyped, ConnsTyped
<1>1. ASSUME NEW c \in Conns, NEW v \in Servers, NEW s \in Stations, Authenticate(c, v, s)
      PROVE OwnersClaimed'
  BY <1>0, <1>1 DEF Authenticate, Unreferenced, OwnersClaimed
<1>2. ASSUME NEW c \in Conns, Claim(c) PROVE OwnersClaimed'
  <2> DEFINE s == peer[c].station
  <2>1. s \in Stations /\ pc[c] = "authenticated" /\ \A t \in Stations : owner[t] # c
    BY <1>2, PeerFacts DEF Claim, OwnersClaimed
  <2>2. owner' = [owner EXCEPT ![s] = c]
    BY <1>2 DEF Claim, TakeSession
  <2>3. /\ \A d \in Conns \ {c} : pc'[d] = pc[d] /\ peer'[d] = peer[d]
        /\ pc'[c] = "idle" \/ (pc'[c] = "claimed" /\ peer'[c] = peer[c])
    BY <1>0, <1>2 DEF Claim, Vanish
  <2> QED
    BY <1>0, <2>1, <2>2, <2>3 DEF OwnersClaimed
<1>3. ASSUME NEW c \in Conns, Release(c) PROVE OwnersClaimed'
  <2>1. \A t \in Stations : owner'[t] = owner[t] \/ owner'[t] = None
    BY <1>0, <1>3 DEF Release, ReleaseSession, EndSession
  <2>2. \A d \in Conns : pc'[d] = "idle" \/ (pc'[d] = pc[d] /\ peer'[d] = peer[d])
    BY <1>0, <1>3 DEF Release, Vanish
  <2> QED
    BY <1>0, <2>1, <2>2 DEF OwnersClaimed
<1>4. ASSUME NEW s \in Stations, NEW l \in Locations, NEW e \in {"enabled", "disabled"},
             NEW k \in Keys, CreateStation(s, l, e, k)
      PROVE OwnersClaimed'
  BY <1>4 DEF CreateStation, OwnersClaimed
<1>5. ASSUME NEW r \in Requests, NEW v \in Servers, NEW s \in Stations,
             \/ \E l \in Locations, e \in {"enabled", "disabled"} : UpdateStation(r, v, s, l, e)
             \/ \E k \in Keys : RotateKey(r, v, s, k)
             \/ DeleteStation(r, v, s)
      PROVE OwnersClaimed'
  <2>1. \A t \in Stations : owner'[t] = owner[t] \/ owner'[t] = None
    BY <1>0, <1>5 DEF UpdateStation, RotateKey, DeleteStation, ClearClientStates, EndSession
  <2>2. pc' = pc /\ peer' = peer
    BY <1>5 DEF UpdateStation, RotateKey, DeleteStation
  <2> QED
    BY <1>0, <2>1, <2>2 DEF OwnersClaimed
<1>6. CASE UNCHANGED <<status, key, owner, grant>> /\ HandlersGoOn
  BY <1>0, <1>6 DEF HandlersGoOn, OwnersClaimed
<1> QED
  BY <1>1, <1>2, <1>3, <1>4, <1>5, <1>6, StoreSteps

\* The refinement mapping, by name.
Credential == [s \in Stations |-> IF status[s] = "enabled" THEN key[s] ELSE None]
Spent == {c \in Conns : /\ pc[c] \notin {"idle", "authenticated"}
                        /\ \A s \in Stations : owner[s] # c}

\* When the session of s ends and no handler moves, its owner is spent if its handler runs.
LEMMA DismissOwner ==
  ASSUME TypeInv, OwnersClaimed, NEW s \in Stations,
         owner' = [owner EXCEPT ![s] = None], UNCHANGED pc
  PROVE  Spent' = Spent \/ (owner[s] # None /\ Spent' = Spent \cup {owner[s]})
<1> USE NoneAssumption
<1>0. owner \in [Stations -> Conns \cup {None}]
  BY DEF TypeInv, SessionsTyped
<1>1. CASE owner[s] = None
  BY <1>0, <1>1 DEF Spent
<1>2. CASE owner[s] # None /\ pc[owner[s]] = "idle"
  BY <1>0, <1>2 DEF Spent
<1>3. CASE owner[s] # None /\ pc[owner[s]] # "idle"
  <2>1. \A t \in Stations \ {s} : owner[t] # owner[s]
    BY <1>3 DEF OwnersClaimed
  <2>2. pc[owner[s]] \notin {"idle", "authenticated"} /\ owner[s] \in Conns
    BY <1>0, <1>3 DEF OwnersClaimed
  <2> QED
    BY <1>0, <1>3, <2>1, <2>2 DEF Spent
<1> QED
  BY <1>1, <1>2, <1>3

AuthorityInv == TypeInv /\ SessionHoldsCurrentKey /\ OwnersClaimed

\* Every step of the control plane is a step of the authority, or none.
LEMMA AuthorityStep ==
  AuthorityInv /\ [Next]_vars =>
    \/ Authority!Next
    \/ UNCHANGED <<Credential, owner, Spent>>
<1> SUFFICES ASSUME AuthorityInv, [Next]_vars
             PROVE  Authority!Next \/ UNCHANGED <<Credential, owner, Spent>>
  OBVIOUS
<1> USE NoneAssumption DEF tables, stationVars, sessionVars, connVars
<1>0. /\ owner \in [Stations -> Conns \cup {None}]
      /\ pc \in [Conns -> {"idle", "authenticated", "claimed", "registered", "serving", "leaving"}]
      /\ key \in [Stations -> Keys \cup {None}]
      /\ status \in [Stations -> {"absent", "enabled", "disabled"}]
      /\ \A s \in Stations : status[s] # "absent" => key[s] \in Keys
      /\ TypeInv /\ OwnersClaimed /\ SessionHoldsCurrentKey
  BY DEF AuthorityInv, TypeInv, SessionsTyped, StationsTyped, ConnsTyped
<1>1. ASSUME NEW c \in Conns, NEW v \in Servers, NEW s \in Stations, Authenticate(c, v, s)
      PROVE UNCHANGED <<Credential, owner, Spent>>
  BY <1>0, <1>1 DEF Authenticate, Unreferenced, Credential, Spent
<1>2. ASSUME NEW c \in Conns, Claim(c), NEW s \in Stations, peer[c].station = s
      PROVE Authority!Next
  <2>1. /\ status[s] = "enabled" /\ key[s] \in Keys
        /\ pc[c] = "authenticated" /\ \A t \in Stations : owner[t] # c
    BY <1>0, <1>2, PeerFacts DEF Claim, CredentialHolds, OwnersClaimed
  <2>2. owner' = [owner EXCEPT ![s] = c] /\ UNCHANGED <<status, key>>
    BY <1>2 DEF Claim, TakeSession
  <2>3. /\ \A d \in Conns \ {c} : pc'[d] = pc[d]
        /\ pc'[c] \in {"idle", "claimed"}
    BY <1>0, <1>2 DEF Claim, Vanish
  <2>4. c \notin Spent /\ c \notin Spent'
    BY <1>0, <2>1, <2>2 DEF Spent
  <2>5. ASSUME NEW d \in Conns \ {c}, d # owner[s] PROVE d \in Spent' <=> d \in Spent
    BY <1>0, <2>1, <2>2, <2>3, <2>5 DEF Spent
  <2>6. owner[s] # None => owner[s] \in Conns \ {c} /\ owner[s] \notin Spent
    BY <1>0, <2>1 DEF Spent
  <2>7. Spent' = Spent \/ (owner[s] # None /\ Spent' = Spent \cup {owner[s]})
    BY <2>4, <2>5, <2>6 DEF Spent
  <2>8. UNCHANGED Credential /\ Credential[s] # None
    BY <2>1, <2>2 DEF Credential
  <2>9. Authority!Grant(s, c)
    BY <2>1, <2>2, <2>4, <2>7, <2>8 DEF Authority!Grant, Authority!Dismiss, Spent, Credential
  <2> QED
    BY <2>1, <2>9 DEF Authority!Next
<1>3. ASSUME NEW c \in Conns, Release(c), NEW s \in Stations, peer[c].station = s
      PROVE Authority!Next
  <2>1. UNCHANGED Credential
    BY <1>0, <1>3 DEF Release, Credential
  <2>2. pc[c] = "leaving" /\ pc' = [pc EXCEPT ![c] = "idle"]
    BY <1>0, <1>3 DEF Release, Vanish
  <2>3. CASE owner[s] = c /\ owner' = [owner EXCEPT ![s] = None]
    <3>1. UNCHANGED Spent
      BY <1>0, <2>1, <2>2, <2>3 DEF Spent
    <3>2. Authority!Yield(s)
      BY <2>1, <2>3, <3>1 DEF Authority!Yield, Credential, Spent
    <3> QED
      BY <2>1, <3>2 DEF Authority!Next
  <2>4. CASE UNCHANGED owner
    <3>1. Spent' \in SUBSET Spent
      BY <1>0, <2>2, <2>4 DEF Spent
    <3>2. Authority!Retire
      BY <2>1, <2>4, <3>1 DEF Authority!Retire, Credential, Spent
    <3> QED
      BY <3>2 DEF Authority!Next
  <2> QED
    BY <1>3, <2>3, <2>4 DEF Release, ReleaseSession, EndSession
<1>4. ASSUME NEW s \in Stations, NEW k \in Keys \cup {None},
             Credential' = [Credential EXCEPT ![s] = k],
             owner' = [owner EXCEPT ![s] = None], UNCHANGED pc
      PROVE Authority!Next
  <2>1. Authority!ChangeCredential(s, k)
    BY <1>0, <1>4, DismissOwner DEF Authority!ChangeCredential, Authority!Dismiss, Credential, Spent
  <2> QED
    BY <2>1 DEF Authority!Next
<1>5. ASSUME NEW s \in Stations, status[s] # "enabled" PROVE owner = [owner EXCEPT ![s] = None]
  BY <1>0, <1>5 DEF SessionHoldsCurrentKey
<1>6. ASSUME NEW s \in Stations, NEW l \in Locations, NEW e \in {"enabled", "disabled"},
             NEW k \in Keys, CreateStation(s, l, e, k)
      PROVE Authority!Next
  <2>1. Credential' = [Credential EXCEPT ![s] = IF e = "enabled" THEN k ELSE None]
    BY <1>0, <1>6 DEF CreateStation, Credential
  <2>2. owner' = [owner EXCEPT ![s] = None] /\ UNCHANGED pc
    BY <1>5, <1>6 DEF CreateStation
  <2> QED
    BY <1>4, <2>1, <2>2
<1>7. ASSUME NEW r \in Requests, NEW v \in Servers, NEW s \in Stations, NEW l \in Locations,
             NEW e \in {"enabled", "disabled"}, UpdateStation(r, v, s, l, e)
      PROVE Authority!Next \/ UNCHANGED <<Credential, owner, Spent>>
  <2>1. Credential' = [Credential EXCEPT ![s] = IF e = "enabled" THEN key[s] ELSE None]
    BY <1>0, <1>7 DEF UpdateStation, Credential
  <2>2. key[s] \in Keys /\ UNCHANGED pc
    BY <1>0, <1>7 DEF UpdateStation
  <2>3. CASE e = "disabled"
    <3>1. owner' = [owner EXCEPT ![s] = None]
      BY <1>7, <2>3 DEF UpdateStation, ClearClientStates, EndSession
    <3> QED
      BY <1>4, <2>1, <2>2, <2>3, <3>1
  <2>4. CASE e = "enabled" /\ status[s] = "enabled"
    <3>1. UNCHANGED <<owner, Credential>>
      BY <1>7, <2>1, <2>4 DEF UpdateStation, Credential
    <3> QED
      BY <2>2, <3>1 DEF Spent
  <2>5. CASE e = "enabled" /\ status[s] # "enabled"
    <3>1. owner' = [owner EXCEPT ![s] = None]
      BY <1>5, <1>7, <2>5 DEF UpdateStation
    <3> QED
      BY <1>4, <2>1, <2>2, <2>5, <3>1
  <2> QED
    BY <2>3, <2>4, <2>5
<1>8. ASSUME NEW r \in Requests, NEW v \in Servers, NEW s \in Stations, NEW k \in Keys,
             RotateKey(r, v, s, k)
      PROVE Authority!Next
  <2>1. Credential' = [Credential EXCEPT ![s] = IF status[s] = "enabled" THEN k ELSE None]
    BY <1>0, <1>8 DEF RotateKey, Credential
  <2>2. owner' = [owner EXCEPT ![s] = None] /\ UNCHANGED pc
    BY <1>8 DEF RotateKey, ClearClientStates, EndSession
  <2> QED
    BY <1>4, <2>1, <2>2
<1>9. ASSUME NEW r \in Requests, NEW v \in Servers, NEW s \in Stations, DeleteStation(r, v, s)
      PROVE Authority!Next
  <2>1. Credential' = [Credential EXCEPT ![s] = None]
    BY <1>0, <1>9 DEF DeleteStation, Credential
  <2>2. owner' = [owner EXCEPT ![s] = None] /\ UNCHANGED pc
    BY <1>9 DEF DeleteStation, EndSession
  <2> QED
    BY <1>4, <2>1, <2>2
<1>10. CASE UNCHANGED <<status, key, owner, grant>> /\ HandlersGoOn
  <2>1. Spent' \in SUBSET Spent /\ UNCHANGED <<Credential, owner>>
    BY <1>0, <1>10 DEF HandlersGoOn, Spent, Credential
  <2>2. Authority!Retire
    BY <2>1 DEF Authority!Retire, Credential, Spent
  <2> QED
    BY <2>2 DEF Authority!Next
<1>11. \A c \in Conns : Claim(c) \/ Release(c) => \E s \in Stations : peer[c].station = s
  BY <1>0, PeerFacts DEF Claim, Release
<1> QED
  BY <1>0, <1>1, <1>2, <1>3, <1>11, <1>6, <1>7, <1>8, <1>9, <1>10, StoreSteps

\* The session table, under every interleaving with crashes, replicas and administration, behaves
\* as the authority does: a session lost is never had again by the same connection.
THEOREM AuthorityImplemented == Spec => ImplementsAuthority
<1>1. Init => AuthorityInv
  BY TypeInit DEF Init, AuthorityInv, SessionHoldsCurrentKey, OwnersClaimed
<1>2. AuthorityInv /\ [Next]_vars => AuthorityInv'
  BY TypeNext, SessionKeyNext, OwnersNext DEF AuthorityInv
<1>3. Init => Authority!Init
  <2> SUFFICES ASSUME Init PROVE Authority!Init
    OBVIOUS
  <2>1. Credential \in [Stations -> Keys \cup {None}]
    BY DEF Init, Credential
  <2>2. Spent = {}
    BY DEF Init, Spent
  <2> QED
    BY <2>1, <2>2 DEF Init, Authority!Init, Credential, Spent
<1>4. AuthorityInv /\ [Next]_vars => [Authority!Next]_Authority!vars
  BY AuthorityStep DEF Authority!vars, Credential, Spent
<1> QED
  BY <1>1, <1>2, <1>3, <1>4, PTL DEF Spec, ImplementsAuthority, Authority!Spec

---------------------------------------------------------------------------
(* Hubs and handlers. *)

\* A step of a handler that its hub does not know, before or after.
OutsideHub(c) ==
    /\ UNCHANGED hubVars
    /\ pc[c] \notin Running /\ pc'[c] \notin Running
    /\ \A d \in Conns \ {c} : pc'[d] = pc[d] /\ peer'[d] = peer[d] /\ open'[d] = open[d]

\* A step that changes no hub and no handler, and at most closes sockets.
HubQuiet ==
    /\ UNCHANGED <<hub, closed, pc, peer>>
    /\ doomed \subseteq doomed'
    /\ \A c \in Conns : open'[c] => open[c]

LEMMA EnqueueDoomed == ASSUME NEW C, Enqueue(C) PROVE doomed \subseteq doomed'
  BY DEF Enqueue

LEMMA HubSteps ==
  ASSUME TypeInv, [Next]_vars
  PROVE  \/ \E c \in Conns :
               OutsideHub(c) \/ Register(c) \/ SendHello(c) \/ Close(c) \/ Unregister(c)
         \/ \E v \in Servers : CloseHub(v) \/ Restart(v)
         \/ \E r \in Requests : Disconnect(r)
         \/ HubQuiet
<1> USE DEF hubVars, connVars
<1>0. pc \in [Conns -> {"idle", "authenticated", "claimed", "registered", "serving", "leaving"}]
  BY DEF TypeInv, ConnsTyped
<1>01. open \in [Conns -> BOOLEAN] /\ peer \in [Conns -> Peer \cup {NoPeer}]
  BY DEF TypeInv, ConnsTyped
<1>1. CASE UNCHANGED vars
  BY <1>1 DEF vars, HubQuiet
<1>2. ASSUME NEW c \in Conns, NEW v \in Servers, NEW s \in Stations, Authenticate(c, v, s)
      PROVE OutsideHub(c)
  BY <1>0, <1>01, <1>2 DEF Authenticate, Unreferenced, OutsideHub, Running
<1>3. ASSUME NEW c \in Conns, RefuseProtocol(c) \/ Claim(c) \/ ClaimRefused(c) \/ Release(c)
      PROVE OutsideHub(c)
  BY <1>0, <1>01, <1>3 DEF RefuseProtocol, Claim, ClaimRefused, Release, Vanish, OutsideHub, Running
<1>4. ASSUME NEW c \in Conns, RegisterRefused(c) PROVE OutsideHub(c)
  BY <1>0, <1>4 DEF RegisterRefused, OutsideHub, Running
<1>5. ASSUME NEW c \in Conns, WriteMessage(c) \/ Presence(c) \/ Drop(c) PROVE HubQuiet
  BY <1>01, <1>5 DEF WriteMessage, Presence, Renew, RenewRefused, Drop, HubQuiet
<1>6. ASSUME NEW s \in Stations,
             \/ Elapse(s) \/ ExpireRejection(s)
             \/ \E l \in Locations, e \in {"enabled", "disabled"}, k \in Keys :
                   CreateStation(s, l, e, k)
      PROVE HubQuiet
  BY <1>6 DEF Elapse, ExpireRejection, CreateStation, HubQuiet
<1>7. ASSUME NEW r \in Requests, Administration(r) PROVE Disconnect(r) \/ HubQuiet
  <2>1. ASSUME NEW v \in Servers, NEW s \in Stations,
               \/ \E l \in Locations, e \in {"enabled", "disabled"} : UpdateStation(r, v, s, l, e)
               \/ \E k \in Keys : RotateKey(r, v, s, k)
               \/ DeleteStation(r, v, s)
        PROVE HubQuiet
    BY <2>1 DEF UpdateStation, RotateKey, DeleteStation, HubQuiet
  <2>2. CASE ReadBack(r) \/ \E v \in Servers, l \in Locations : SaveLocation(r, v, l)
    BY <2>2 DEF ReadBack, SaveLocation, HubQuiet
  <2>3. CASE Configure(r) \/ NotifyLocation(r)
    BY <2>3, EnqueueDoomed DEF Configure, NotifyLocation, HubQuiet
  <2> QED
    BY <1>7, <2>1, <2>2, <2>3 DEF Administration
<1> QED
  BY <1>1, <1>2, <1>3, <1>4, <1>5, <1>6, <1>7 DEF Next, Handler

\* The typing facts that the steps of a hub rest on.
LEMMA HubFacts ==
  ASSUME TypeInv
  PROVE  /\ hub \in [Servers -> [Stations -> Conns \cup {None}]]
         /\ pc \in [Conns -> {"idle", "authenticated", "claimed", "registered", "serving", "leaving"}]
         /\ peer \in [Conns -> Peer \cup {NoPeer}]
         /\ open \in [Conns -> BOOLEAN]
         /\ closed \subseteq Servers /\ doomed \subseteq Conns
         /\ \A c \in Conns : pc[c] # "idle" =>
               peer[c].station \in Stations /\ peer[c].server \in Servers
         /\ \A c \in Conns : pc[c] = "idle" => peer[c].server = None
  BY PeerFacts DEF TypeInv, HubTyped, ConnsTyped, NoPeer

LEMMA HubLiveNext == TypeInv /\ HubEntriesAreLive /\ [Next]_vars => HubEntriesAreLive'
<1> SUFFICES ASSUME TypeInv, HubEntriesAreLive, [Next]_vars,
                    NEW v \in Servers, NEW s \in Stations, hub'[v][s] # None
             PROVE  /\ pc'[hub'[v][s]] \in Running
                    /\ peer'[hub'[v][s]].server = v
                    /\ peer'[hub'[v][s]].station = s
  BY DEF HubEntriesAreLive, Running
<1> DEFINE d == hub[v][s]
<1> USE HubFacts, NoneAssumption DEF hubVars, connVars, Running
<1>1. d # None => d \in Conns /\ pc[d] \in Running /\ peer[d].server = v /\ peer[d].station = s
  BY DEF HubEntriesAreLive
<1>2. ASSUME NEW c \in Conns, OutsideHub(c) PROVE pc'[d] \in Running /\ peer'[d] = peer[d] /\ hub'[v][s] = d
  BY <1>1, <1>2 DEF OutsideHub
<1>3. ASSUME NEW c \in Conns, Register(c)
      PROVE  IF peer[c].server = v /\ peer[c].station = s
             THEN hub'[v][s] = c /\ pc'[c] = "registered" /\ peer' = peer
             ELSE hub'[v][s] = d /\ pc'[d] \in Running /\ peer' = peer
  BY <1>1, <1>3 DEF Register
<1>4. ASSUME NEW c \in Conns, SendHello(c)
      PROVE pc'[d] \in Running /\ peer' = peer /\ hub'[v][s] = d
  BY <1>1, <1>4 DEF SendHello
<1>5. ASSUME NEW c \in Conns, Close(c)
      PROVE pc'[d] \in Running /\ peer' = peer /\ hub'[v][s] = d
  BY <1>1, <1>5 DEF Close
<1>6. ASSUME NEW c \in Conns, Unregister(c)
      PROVE d # c /\ pc'[d] \in Running /\ peer' = peer /\ hub'[v][s] = d
  BY <1>1, <1>6 DEF Unregister, Unregistered
<1>7. ASSUME NEW w \in Servers, CloseHub(w)
      PROVE pc'[d] \in Running /\ peer' = peer /\ hub'[v][s] = d
  BY <1>1, <1>7 DEF CloseHub
<1>8. ASSUME NEW w \in Servers, Restart(w)
      PROVE pc'[d] \in Running /\ peer'[d] = peer[d] /\ hub'[v][s] = d
  BY <1>1, <1>8 DEF Restart, Vanish
<1>9. ASSUME NEW r \in Requests, Disconnect(r)
      PROVE pc'[d] \in Running /\ peer' = peer /\ hub'[v][s] = d
  BY <1>1, <1>9, RequestFacts DEF Disconnect
<1>10. CASE HubQuiet
  BY <1>1, <1>10 DEF HubQuiet
<1> QED
  BY <1>1, <1>2, <1>3, <1>4, <1>5, <1>6, <1>7, <1>8, <1>9, <1>10, HubSteps

LEMMA OrphanNext ==
  TypeInv /\ HubEntriesAreLive /\ NoOrphanedSocket /\ [Next]_vars => NoOrphanedSocket'
<1> SUFFICES ASSUME TypeInv, HubEntriesAreLive, NoOrphanedSocket, [Next]_vars,
                    NEW d \in Conns, pc'[d] \in Running, open'[d], d \notin doomed'
             PROVE  hub'[peer'[d].server][peer'[d].station] = d
  BY DEF NoOrphanedSocket, Running
<1> DEFINE v == peer[d].server
           s == peer[d].station
<1> USE HubFacts, NoneAssumption DEF hubVars, connVars, Running
<1>1. pc[d] \in Running /\ open[d] /\ d \notin doomed =>
         d # None /\ hub[v][s] = d /\ v \in Servers /\ s \in Stations
  BY DEF NoOrphanedSocket
<1>2. ASSUME NEW c \in Conns, OutsideHub(c) PROVE hub'[peer'[d].server][peer'[d].station] = d
  BY <1>1, <1>2 DEF OutsideHub
<1>3. ASSUME NEW c \in Conns, Register(c) PROVE hub'[peer'[d].server][peer'[d].station] = d
  <2>1. CASE c = d
    BY <1>3, <2>1 DEF Register
  <2>2. CASE c # d
    <3>1. pc[d] \in Running /\ open[d] /\ d \notin doomed /\ peer' = peer
      BY <1>3, <2>2 DEF Register
    <3>2. ~(peer[c].server = v /\ peer[c].station = s)
      BY <1>1, <1>3, <3>1 DEF Register, Displaced
    <3> QED
      BY <1>1, <1>3, <3>1, <3>2 DEF Register
  <2> QED
    BY <2>1, <2>2
<1>4. ASSUME NEW c \in Conns, SendHello(c) PROVE hub'[peer'[d].server][peer'[d].station] = d
  <2>1. doomed \subseteq doomed'
    BY <1>4, EnqueueDoomed DEF SendHello
  <2>2. pc[d] \in Running /\ open' = open /\ peer' = peer /\ hub' = hub
    BY <1>4 DEF SendHello
  <2> QED
    BY <1>1, <2>1, <2>2
<1>5. ASSUME NEW c \in Conns, Close(c) PROVE hub'[peer'[d].server][peer'[d].station] = d
  BY <1>1, <1>5 DEF Close
<1>6. ASSUME NEW c \in Conns, Unregister(c) PROVE hub'[peer'[d].server][peer'[d].station] = d
  <2>1. c # d /\ pc[d] \in Running /\ peer' = peer
    BY <1>6 DEF Unregister
  <2>2. hub'[v][s] = hub[v][s]
    BY <1>1, <1>6, <2>1 DEF Unregister, Unregistered
  <2> QED
    BY <1>1, <1>6, <2>1, <2>2 DEF Unregister
<1>7. ASSUME NEW w \in Servers, CloseHub(w) PROVE hub'[peer'[d].server][peer'[d].station] = d
  <2>1. pc[d] \in Running /\ open[d] /\ d \notin doomed /\ peer' = peer /\ d \notin Registered(w)
    BY <1>7 DEF CloseHub
  <2>2. v # w
    BY <1>1, <2>1 DEF Registered
  <2> QED
    BY <1>1, <1>7, <2>1, <2>2 DEF CloseHub
<1>8. ASSUME NEW w \in Servers, Restart(w) PROVE hub'[peer'[d].server][peer'[d].station] = d
  <2>1. v # w /\ pc[d] \in Running /\ open[d] /\ peer'[d] = peer[d]
    BY <1>8 DEF Restart, Vanish
  <2>2. v # None
    BY <2>1
  <2>3. d \notin doomed
    BY <1>8, <2>1, <2>2 DEF Restart
  <2> QED
    BY <1>1, <1>8, <2>1, <2>3 DEF Restart
<1>9. ASSUME NEW r \in Requests, Disconnect(r) PROVE hub'[peer'[d].server][peer'[d].station] = d
  <2>1. pc[d] \in Running /\ open[d] /\ d \notin doomed /\ peer' = peer
    BY <1>9 DEF Disconnect
  <2>2. ~(request[r].server = v /\ request[r].station = s)
    BY <1>1, <1>9, <2>1 DEF Disconnect
  <2> QED
    BY <1>1, <1>9, <2>1, <2>2 DEF Disconnect
<1>10. CASE HubQuiet
  BY <1>1, <1>10 DEF HubQuiet
<1> QED
  BY <1>2, <1>3, <1>4, <1>5, <1>6, <1>7, <1>8, <1>9, <1>10, HubSteps

LEMMA ClosedHubNext == TypeInv /\ ClosedHubIsEmpty /\ [Next]_vars => ClosedHubIsEmpty'
<1> SUFFICES ASSUME TypeInv, ClosedHubIsEmpty, [Next]_vars,
                    NEW v \in closed', NEW s \in Stations
             PROVE  hub'[v][s] = None
  BY DEF ClosedHubIsEmpty
<1> USE HubFacts DEF ClosedHubIsEmpty, hubVars
<1>1. ASSUME NEW c \in Conns,
             OutsideHub(c) \/ Register(c) \/ SendHello(c) \/ Close(c) \/ Unregister(c)
      PROVE hub'[v][s] = None
  BY <1>1 DEF OutsideHub, Register, HubTakes, SendHello, Close, Unregister, Unregistered
<1>2. ASSUME NEW w \in Servers, CloseHub(w) \/ Restart(w) PROVE hub'[v][s] = None
  BY <1>2 DEF CloseHub, Restart
<1>3. ASSUME NEW r \in Requests, Disconnect(r) PROVE hub'[v][s] = None
  BY <1>3, RequestFacts DEF Disconnect
<1>4. CASE HubQuiet
  BY <1>4 DEF HubQuiet
<1> QED
  BY <1>1, <1>2, <1>3, <1>4, HubSteps

HubInv == TypeInv /\ HubEntriesAreLive /\ NoOrphanedSocket /\ ClosedHubIsEmpty

LEMMA HubInit == Init => HubInv
<1>1. Init => HubEntriesAreLive /\ ClosedHubIsEmpty
  BY DEF Init, HubEntriesAreLive, ClosedHubIsEmpty
<1>2. Init => NoOrphanedSocket
  BY DEF Init, NoOrphanedSocket, Running
<1> QED
  BY <1>1, <1>2, TypeInit DEF HubInv

LEMMA HubAlways == Spec => []HubInv
<1>1. HubInv /\ [Next]_vars => HubInv'
  BY TypeNext, HubLiveNext, OrphanNext, ClosedHubNext DEF HubInv
<1> QED
  BY <1>1, HubInit, PTL DEF Spec

\* Whatever unregister, disconnect, Close and a crash do in whatever order, a hub's entry is a
\* handler that runs in that process for that station.
THEOREM HubEntriesLive == Spec => []HubEntriesAreLive
  BY HubAlways, PTL DEF HubInv

\* register, unregister and disconnect leave no live socket that its hub cannot reach.
THEOREM NoSocketOrphaned == Spec => []NoOrphanedSocket
  BY HubAlways, PTL DEF HubInv

\* After Hub.Close a hub stays empty, whichever handlers were on their way to register.
THEOREM ClosedHubsEmpty == Spec => []ClosedHubIsEmpty
  BY HubAlways, PTL DEF HubInv
=============================================================================
