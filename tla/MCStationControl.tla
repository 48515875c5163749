-------------------------- MODULE MCStationControl --------------------------
(***************************************************************************)
(* Model-checking instances of StationControl.  Elements of Locations,     *)
(* Keys, Conns, Servers and Requests are interchangeable in the safety     *)
(* runs; the liveness run uses no symmetry.                                *)
(***************************************************************************)
EXTENDS StationControl, TLC

Symmetry ==
    Permutations(Locations) \cup Permutations(Keys) \cup Permutations(Conns)
        \cup Permutations(Servers) \cup Permutations(Requests)

\* Behaviours in which no update of a station that still exists goes unannounced: it is read back,
\* by a server that lives on. What is refuted of these is not a fault's doing.
Announced ==
    \A r \in Requests :
        request[r].step = "updated" /\ status[request[r].station] # "absent" =>
            request'[r].step # "idle"
FaultlessSpec == Init /\ [][Next /\ Announced]_vars

=============================================================================
