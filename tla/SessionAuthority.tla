-------------------------- MODULE SessionAuthority --------------------------
(***************************************************************************)
(* What the station session table promises, with no sockets, no replicas   *)
(* and no hub: at most one control connection holds a station's session,   *)
(* it holds it under the station's present credential, and a connection    *)
(* that has lost the session never gets it back.  StationControl           *)
(* implements this module.                                                 *)
(***************************************************************************)
CONSTANTS Stations, Conns, Keys, None

VARIABLES
    credential, \* station -> the key that authenticates it, None when no key does
    holder,     \* station -> the connection that holds its session, or None
    spent       \* connections that held a session, lost it and still run

vars == <<credential, holder, spent>>

TypeOK ==
    /\ credential \in [Stations -> Keys \cup {None}]
    /\ holder \in [Stations -> Conns \cup {None}]
    /\ spent \subseteq Conns

Init ==
    /\ credential \in [Stations -> Keys \cup {None}]
    /\ holder = [s \in Stations |-> None]
    /\ spent = {}

\* The connection that stops holding s is spent if it still runs; one whose process is gone is not.
Dismiss(s) == spent' = spent \/ (holder[s] # None /\ spent' = spent \cup {holder[s]})

\* A connection that has never held a session takes the one of s, whoever held it before.
Grant(s, c) ==
    /\ credential[s] # None
    /\ c \notin spent
    /\ \A t \in Stations : holder[t] # c
    /\ holder' = [holder EXCEPT ![s] = c]
    /\ Dismiss(s)
    /\ UNCHANGED credential

\* Any change of credential (rotation, disabling, enabling, deletion) leaves s without a holder.
ChangeCredential(s, k) ==
    /\ credential' = [credential EXCEPT ![s] = k]
    /\ holder' = [holder EXCEPT ![s] = None]
    /\ Dismiss(s)

\* The holder gives the session up.
Yield(s) ==
    /\ holder' = [holder EXCEPT ![s] = None]
    /\ UNCHANGED <<credential, spent>>

\* Spent connections finish.
Retire ==
    /\ spent' \in SUBSET spent
    /\ UNCHANGED <<credential, holder>>

Next ==
    \/ \E s \in Stations :
          \/ \E c \in Conns : Grant(s, c)
          \/ \E k \in Keys \cup {None} : ChangeCredential(s, k)
          \/ Yield(s)
    \/ Retire

Spec == Init /\ [][Next]_vars

=============================================================================
