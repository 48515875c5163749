------------------------------ MODULE MCCheckin ------------------------------
(***************************************************************************)
(* Model-checking instance of Checkin: locations, objects, check-ins and   *)
(* requests are interchangeable.                                           *)
(***************************************************************************)
EXTENDS Checkin, TLC

Symmetry ==
    Permutations(Locations) \cup Permutations(Objects) \cup Permutations(Checkins)
        \cup Permutations(Requests)

=============================================================================
