------------------------------- MODULE Motion -------------------------------
(***************************************************************************)
(* How a ride moves: the driver goes to its passenger (PickUpPassenger),   *)
(* tells it (driver_arrived), and from then on the driver                  *)
(* (RideToDestination) and the passenger (Traveling) each count their way  *)
(* to the destination, half a second a step, without a word to each other. *)
(* Both use the same move_to, on coordinates of type u64, in a build with  *)
(* overflow checks: `cargo run`, as the README starts the programs, uses   *)
(* the debug profile.  A handler that panics ends its actor.               *)
(* Crashes, and the positions exchanged after them, are left out.          *)
(***************************************************************************)
EXTENDS Integers

CONSTANTS
    Coordinates,   \* what the command line gives for x and y; the u64 limit is out of reach
    MaxMoves       \* bound: calls of move_to on one leg (some legs never end)

ASSUME MotionAssumption == Coordinates \subseteq Nat /\ MaxMoves \in Nat

VARIABLES
    start,         \* where the driver was when it accepted the ride
    origin,        \* where the passenger waits (Driver::passenger_position)
    destination,
    driver,        \* Driver::position
    passenger,     \* Passenger::info.position
    leg,           \* what the driver's mailbox holds: "pickup", "ride", "end", or "dead"
    trip,          \* the same for the passenger: "waiting", "traveling", "end", or "dead"
    driver_arrived,  \* the message is on its way to the passenger
    moves          \* moves[a]: calls of move_to on a's present leg

vars == <<start, origin, destination, driver, passenger, leg, trip, driver_arrived, moves>>

Position == Coordinates \X Coordinates

TypeOK ==
    /\ {start, origin, destination} \subseteq Position
    /\ {driver, passenger} \subseteq Nat \X Nat
    /\ leg \in {"pickup", "ride", "end", "dead"}
    /\ trip \in {"waiting", "traveling", "end", "dead"}
    /\ driver_arrived \in BOOLEAN
    /\ moves \in [{"driver", "passenger"} -> Nat]

\* The driver has accepted: it starts to look for the passenger.
Init ==
    /\ start \in Position /\ origin \in Position /\ destination \in Position
    /\ driver = start /\ passenger = origin
    /\ leg = "pickup" /\ trip = "waiting"
    /\ driver_arrived = FALSE
    /\ moves = [a \in {"driver", "passenger"} |-> 0]

-----------------------------------------------------------------------------
(* move_to.                                                                *)

\* Mutant: a coordinate that has arrived stays.
StaysThere(x, to) == IF x < to THEN x + 1 ELSE IF x > to THEN x - 1 ELSE x

\* One coordinate: up if it is below, down otherwise, also when it is there.
Closer(x, to) == IF x < to THEN x + 1 ELSE x - 1

\* Mutant: only the first coordinate moves.
OneAxis(pos, to) == <<Closer(pos[1], to[1]), pos[2]>>

move_to(pos, to) == <<Closer(pos[1], to[1]), Closer(pos[2], to[2])>>

\* Mutant: the decrement is not checked.
Unchecked(pos, to) == FALSE

\* The decrement of a coordinate that is 0 panics.
Panics(pos, to) == \E i \in 1..2 : pos[i] = 0 /\ to[i] = 0

MayMove(a) == moves[a] < MaxMoves
Moved(a)   == moves' = [moves EXCEPT ![a] = @ + 1]

-----------------------------------------------------------------------------
PickUpPassenger ==
    /\ leg = "pickup" /\ MayMove("driver")
    /\ \/ /\ Panics(driver, origin)
          /\ leg' = "dead"
          /\ UNCHANGED <<driver, driver_arrived, moves>>
       \/ /\ ~Panics(driver, origin)
          /\ driver' = move_to(driver, origin)
          /\ IF driver' = origin
             THEN /\ leg' = "ride"
                  /\ driver_arrived' = TRUE
                  /\ moves' = [moves EXCEPT !["driver"] = 0]
             ELSE /\ Moved("driver")
                  /\ UNCHANGED <<leg, driver_arrived>>
    /\ UNCHANGED <<start, origin, destination, passenger, trip>>

RideToDestination ==
    /\ leg = "ride" /\ MayMove("driver")
    /\ \/ /\ Panics(driver, destination)
          /\ leg' = "dead"
          /\ UNCHANGED <<driver, moves>>
       \/ /\ ~Panics(driver, destination)
          /\ driver' = move_to(driver, destination)
          /\ leg' = IF driver' = destination THEN "end" ELSE "ride"
          /\ Moved("driver")
    /\ UNCHANGED <<start, origin, destination, passenger, trip, driver_arrived>>

DriverArrived ==
    /\ driver_arrived /\ trip = "waiting"
    /\ driver_arrived' = FALSE
    /\ trip' = "traveling"
    /\ UNCHANGED <<start, origin, destination, driver, passenger, leg, moves>>

Traveling ==
    /\ trip = "traveling" /\ MayMove("passenger")
    /\ \/ /\ Panics(passenger, destination)
          /\ trip' = "dead"
          /\ UNCHANGED <<passenger, moves>>
       \/ /\ ~Panics(passenger, destination)
          /\ passenger' = move_to(passenger, destination)
          /\ trip' = IF passenger' = destination THEN "end" ELSE "traveling"
          /\ Moved("passenger")
    /\ UNCHANGED <<start, origin, destination, driver, leg, driver_arrived>>

Next == PickUpPassenger \/ RideToDestination \/ DriverArrived \/ Traveling

\* The timers of both actors fire and messages arrive.
Spec == Init /\ [][Next]_vars
FairSpec ==
    /\ Spec
    /\ WF_vars(PickUpPassenger) /\ WF_vars(RideToDestination)
    /\ WF_vars(DriverArrived) /\ WF_vars(Traveling)

-----------------------------------------------------------------------------
(* Properties.                                                             *)

Gap(x, y) == IF x < y THEN y - x ELSE x - y

\* The gaps of the two coordinates have the same parity.
Aligned(p, q) == (Gap(p[1], q[1]) + Gap(p[2], q[2])) % 2 = 0

\* Steps from p to q: the larger gap, but one away and one back if there is none.
Steps(p, q) ==
    LET dx == Gap(p[1], q[1])
        dy == Gap(p[2], q[2])
    IN IF dx = 0 /\ dy = 0 THEN 2 ELSE IF dx < dy THEN dy ELSE dx

\* A ride ends after exactly the steps of its way, for the driver and for the
\* passenger alike, and only if the way is aligned: on any other way the two
\* coordinates are never right at once (move_to, called until they are).
EndsOnTime ==
    /\ leg \in {"ride", "end"} => Aligned(start, origin)
    /\ leg = "end" => Aligned(origin, destination)
                         /\ moves["driver"] = Steps(origin, destination)
    /\ trip = "end" => Aligned(origin, destination)
                          /\ moves["passenger"] = Steps(origin, destination)

\* Where no coordinate aimed at is 0 and both ways are aligned, driver and passenger
\* both reach the end of the ride (EndRide, ConfirmPayment).
Reachable(p, q) == Aligned(p, q) /\ q[1] > 0 /\ q[2] > 0
RideEnds ==
    Reachable(start, origin) /\ Reachable(origin, destination)
        ~> leg = "end" /\ trip = "end"
=============================================================================
