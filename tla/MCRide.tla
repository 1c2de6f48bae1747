------------------------------- MODULE MCRide -------------------------------
(***************************************************************************)
(* Two drivers and two passengers for the model checker.  No definition of *)
(* Ride tells two drivers or two passengers apart.                         *)
(***************************************************************************)
EXTENDS Ride, TLC

Symmetry == Permutations(Drivers) \cup Permutations(Passengers)
=============================================================================
