---------------------------- MODULE MCStationApp ----------------------------
(***************************************************************************)
(* Model-checking instances of StationApp.  Pairings, pairing calls and    *)
(* control loops are interchangeable in the safety runs.                   *)
(***************************************************************************)
EXTENDS StationApp, TLC

Symmetry == Permutations(Pairings) \cup Permutations(Pairers) \cup Permutations(Loops)

=============================================================================
