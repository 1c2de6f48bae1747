---------------------------- MODULE RideContract ----------------------------
(***************************************************************************)
(* What the drivers promise their passengers, whatever crashes: a driver   *)
(* takes one passenger at a time, a passenger gets one driver once, and a  *)
(* driver is free again only after it has picked its passenger up.         *)
(* Module Ride implements this contract with what the drivers have on      *)
(* disk.                                                                   *)
(***************************************************************************)
CONSTANTS Drivers, Passengers, None

VARIABLES
    serving,     \* serving[d]: the passenger d has taken, or None
    carried      \* passengers that were picked up

vars == <<serving, carried>>

Init ==
    /\ serving = [d \in Drivers |-> None]
    /\ carried = {}

Take(d, p) ==
    /\ serving[d] = None
    /\ \A e \in Drivers : serving[e] # p
    /\ p \notin carried
    /\ serving' = [serving EXCEPT ![d] = p]
    /\ UNCHANGED carried

PickUp(d) ==
    /\ serving[d] # None
    /\ carried' = carried \cup {serving[d]}
    /\ UNCHANGED serving

SetFree(d) ==
    /\ serving[d] \in carried
    /\ serving' = [serving EXCEPT ![d] = None]
    /\ UNCHANGED carried

Next ==
    \E d \in Drivers :
        \/ \E p \in Passengers : Take(d, p)
        \/ PickUp(d)
        \/ SetFree(d)

Spec == Init /\ [][Next]_vars
=============================================================================
