---------------------------- MODULE MotionProofs ----------------------------
(***************************************************************************)
(* Motion: a ride takes exactly the steps of its way, and a way whose gaps *)
(* differ in parity never ends, whatever the coordinates.  The inductive   *)
(* invariant says where a traveller is after k calls of move_to: on its    *)
(* way as long as k is at most the gap, then swinging between the          *)
(* coordinate aimed at and the one below it.                               *)
(***************************************************************************)
EXTENDS Motion, TLAPS

\* The coordinate after k moves from a towards t.
At(a, t, k) ==
    IF k <= Gap(a, t) THEN IF a < t THEN a + k ELSE a - k
    ELSE t - ((k - Gap(a, t)) % 2)

OnWay(p, q, pos, k) == pos = <<At(p[1], q[1], k), At(p[2], q[2], k)>>

NotYet(p, q, k) == Aligned(p, q) => k < Steps(p, q)

Done(p, q, k) == Aligned(p, q) /\ k = Steps(p, q)

DriverInv ==
    /\ leg = "pickup" => OnWay(start, origin, driver, moves["driver"])
    /\ leg \in {"ride", "end"} => Aligned(start, origin)
    /\ leg = "ride" => /\ OnWay(origin, destination, driver, moves["driver"])
                       /\ NotYet(origin, destination, moves["driver"])
    /\ leg = "end" => Done(origin, destination, moves["driver"])

PassengerInv ==
    /\ trip = "waiting" => passenger = origin /\ moves["passenger"] = 0
    /\ trip = "traveling" => /\ OnWay(origin, destination, passenger, moves["passenger"])
                             /\ NotYet(origin, destination, moves["passenger"])
    /\ trip = "end" => Done(origin, destination, moves["passenger"])

IInv == TypeOK /\ DriverInv /\ PassengerInv

-----------------------------------------------------------------------------
(* One coordinate.                                                         *)

\* move_to takes a coordinate from where it is after k moves to where it is after k + 1.
LEMMA CloserAt ==
    ASSUME NEW a \in Nat, NEW t \in Nat, NEW k \in Nat
    PROVE  Closer(At(a, t, k), t) = At(a, t, k + 1)
<1> DEFINE g == Gap(a, t)
<1>1. g \in Nat  BY DEF Gap
<1>2. CASE k < g
  BY <1>1, <1>2 DEF Closer, At, Gap
<1>3. CASE k >= g
  <2>1. At(a, t, k) = t - ((k - g) % 2)
    <3>1. CASE k = g
      <4>1. (k - g) % 2 = 0  BY <1>1, <3>1
      <4> QED  BY <3>1, <4>1 DEF At, Gap
    <3>2. CASE k > g
      BY <1>1, <3>2 DEF At
    <3> QED  BY <1>1, <1>3, <3>1, <3>2
  <2>2. At(a, t, k + 1) = t - ((k + 1 - g) % 2)
    BY <1>1, <1>3 DEF At
  <2>3. \/ (k - g) % 2 = 0 /\ (k + 1 - g) % 2 = 1
        \/ (k - g) % 2 = 1 /\ (k + 1 - g) % 2 = 0
    BY <1>1, <1>3
  <2> HIDE DEF g
  <2> QED  BY <2>1, <2>2, <2>3 DEF Closer
<1> QED  BY <1>1, <1>2, <1>3

\* It is where it should be after the gap and every second move from then on.
LEMMA AtTarget ==
    ASSUME NEW a \in Nat, NEW t \in Nat, NEW k \in Nat
    PROVE  At(a, t, k) = t <=> k >= Gap(a, t) /\ (k - Gap(a, t)) % 2 = 0
<1> DEFINE g == Gap(a, t)
<1>1. g \in Nat  BY DEF Gap
<1>2. CASE k <= g
  <2>1. At(a, t, k) = t <=> k = g  BY <1>1, <1>2 DEF At, Gap
  <2>2. k = g => (k - g) % 2 = 0  BY <1>1
  <2> QED  BY <1>1, <1>2, <2>1, <2>2
<1>3. CASE k > g
  <2>1. At(a, t, k) = t - ((k - g) % 2)  BY <1>1, <1>3 DEF At
  <2> QED  BY <1>1, <1>3, <2>1
<1> QED  BY <1>1, <1>2, <1>3

-----------------------------------------------------------------------------
(* Both coordinates.                                                       *)

\* The first k > 0 at which both coordinates are right is Steps, if there is one.
LEMMA ArrivesAtSteps ==
    ASSUME NEW p \in Nat \X Nat, NEW q \in Nat \X Nat, NEW k \in Nat,
           NotYet(p, q, k)
    PROVE  /\ OnWay(p, q, q, k + 1) => Done(p, q, k + 1)
           /\ ~OnWay(p, q, q, k + 1) => NotYet(p, q, k + 1)
<1> DEFINE dx == Gap(p[1], q[1])
           dy == Gap(p[2], q[2])
           n  == k + 1
<1>1. dx \in Nat /\ dy \in Nat /\ n \in Nat /\ n > 0
  BY DEF Gap
<1>2. OnWay(p, q, q, n) <=> /\ n >= dx /\ (n - dx) % 2 = 0
                            /\ n >= dy /\ (n - dy) % 2 = 0
  <2>1. At(p[1], q[1], n) = q[1] <=> n >= dx /\ (n - dx) % 2 = 0  BY <1>1, AtTarget
  <2>2. At(p[2], q[2], n) = q[2] <=> n >= dy /\ (n - dy) % 2 = 0  BY <1>1, AtTarget
  <2>3. q = <<q[1], q[2]>>  OBVIOUS
  <2> QED  BY <2>1, <2>2, <2>3 DEF OnWay
<1>3. (dx + dy) % 2 = 0 => k < Steps(p, q)
  BY DEF NotYet, Aligned
<1>4. Steps(p, q) = IF dx = 0 /\ dy = 0 THEN 2 ELSE IF dx < dy THEN dy ELSE dx
  BY DEF Steps
<1>5. Aligned(p, q) <=> (dx + dy) % 2 = 0
  BY DEF Aligned
<1> HIDE DEF dx, dy
<1>6. ASSUME OnWay(p, q, q, n) PROVE Done(p, q, n)
  <2>1. n >= dx /\ (n - dx) % 2 = 0 /\ n >= dy /\ (n - dy) % 2 = 0
    BY <1>2, <1>6
  <2>2. (dx + dy) % 2 = 0  BY <1>1, <2>1
  <2>3. n <= Steps(p, q)  BY <1>1, <1>3, <1>4, <2>2
  <2>4. n >= Steps(p, q)  BY <1>1, <1>4, <2>1
  <2> QED  BY <1>1, <1>4, <1>5, <2>2, <2>3, <2>4 DEF Done
<1>7. ASSUME ~OnWay(p, q, q, n), (dx + dy) % 2 = 0 PROVE n < Steps(p, q)
  <2>1. SUFFICES ASSUME n = Steps(p, q) PROVE FALSE
    BY <1>1, <1>3, <1>4, <1>7
  <2>2. n >= dx /\ n >= dy  BY <1>1, <1>4, <2>1
  <2>3. (n - dx) % 2 = 0 /\ (n - dy) % 2 = 0  BY <1>1, <1>4, <1>7, <2>1
  <2> QED  BY <1>2, <1>7, <2>2, <2>3
<1> QED  BY <1>5, <1>6, <1>7 DEF NotYet
\* Whoever arrives came on an aligned way.
LEMMA AlignedIfThere ==
    ASSUME NEW p \in Nat \X Nat, NEW q \in Nat \X Nat, NEW k \in Nat, OnWay(p, q, q, k)
    PROVE  Aligned(p, q)
<1> DEFINE dx == Gap(p[1], q[1])
           dy == Gap(p[2], q[2])
<1>1. dx \in Nat /\ dy \in Nat  BY DEF Gap
<1>2. At(p[1], q[1], k) = q[1] /\ At(p[2], q[2], k) = q[2]  BY DEF OnWay
<1>3. (k - dx) % 2 = 0 /\ (k - dy) % 2 = 0 /\ k >= dx /\ k >= dy
  BY <1>2, AtTarget
<1> HIDE DEF dx, dy
<1>4. (dx + dy) % 2 = 0  BY <1>1, <1>3
<1> QED  BY <1>4 DEF Aligned, dx, dy

\* One call of move_to.
LEMMA MoveOnWay ==
    ASSUME NEW p \in Nat \X Nat, NEW q \in Nat \X Nat, NEW k \in Nat, NEW pos,
           OnWay(p, q, pos, k)
    PROVE  OnWay(p, q, move_to(pos, q), k + 1)
<1>1. p[1] \in Nat /\ p[2] \in Nat /\ q[1] \in Nat /\ q[2] \in Nat  OBVIOUS
<1>2. pos[1] = At(p[1], q[1], k) /\ pos[2] = At(p[2], q[2], k)  BY DEF OnWay
<1> QED  BY <1>1, <1>2, CloserAt DEF OnWay, move_to

\* Before the first one nobody has arrived, also who is there already.
LEMMA NotYetAtStart ==
    ASSUME NEW p \in Nat \X Nat, NEW q \in Nat \X Nat
    PROVE  OnWay(p, q, p, 0) /\ NotYet(p, q, 0)
<1>1. Gap(p[1], q[1]) \in Nat /\ Gap(p[2], q[2]) \in Nat  BY DEF Gap
<1>2. At(p[1], q[1], 0) = p[1] /\ At(p[2], q[2], 0) = p[2]  BY <1>1 DEF At
<1>3. p = <<p[1], p[2]>>  OBVIOUS
<1>4. 0 < Steps(p, q)  BY <1>1 DEF Steps
<1> QED  BY <1>2, <1>3, <1>4 DEF OnWay, NotYet

\* A decrement that does not panic stays in u64.
LEMMA MoveType ==
    ASSUME NEW pos \in Nat \X Nat, NEW q \in Nat \X Nat, ~Panics(pos, q)
    PROVE  move_to(pos, q) \in Nat \X Nat
<1>1. \A i \in 1..2 : pos[i] # 0 \/ q[i] # 0  BY DEF Panics
<1>2. Closer(pos[1], q[1]) \in Nat  BY <1>1 DEF Closer
<1>3. Closer(pos[2], q[2]) \in Nat  BY <1>1 DEF Closer
<1> QED  BY <1>2, <1>3 DEF move_to

-----------------------------------------------------------------------------
(* The inductive invariant.                                                *)

LEMMA PositionType == Position \subseteq Nat \X Nat
BY MotionAssumption DEF Position

LEMMA InitInv == Init => IInv
<1> SUFFICES ASSUME Init PROVE IInv  OBVIOUS
<1>1. TypeOK  BY PositionType DEF Init, TypeOK
<1>2. OnWay(start, origin, start, 0)  BY PositionType, NotYetAtStart DEF Init
<1>3. DriverInv  BY <1>2 DEF Init, DriverInv
<1>4. PassengerInv  BY DEF Init, PassengerInv
<1> QED  BY <1>1, <1>3, <1>4 DEF IInv

LEMMA StepInv == IInv /\ [Next]_vars => IInv'
<1> SUFFICES ASSUME IInv, [Next]_vars PROVE IInv'  OBVIOUS
<1> USE DEF IInv
<1>0. /\ start \in Nat \X Nat /\ origin \in Nat \X Nat /\ destination \in Nat \X Nat
      /\ driver \in Nat \X Nat /\ passenger \in Nat \X Nat
      /\ moves["driver"] \in Nat /\ moves["passenger"] \in Nat
  BY PositionType DEF TypeOK
<1>1. CASE PickUpPassenger
  <2>1. CASE Panics(driver, origin)
    <3>1. /\ leg' = "dead" /\ leg = "pickup"
          /\ UNCHANGED <<start, origin, destination, driver, passenger, trip,
                         driver_arrived, moves>>
      BY <1>1, <2>1 DEF PickUpPassenger
    <3> QED  BY <3>1 DEF TypeOK, DriverInv, PassengerInv
  <2>2. CASE ~Panics(driver, origin)
    <3>1. /\ leg = "pickup" /\ driver' = move_to(driver, origin)
          /\ UNCHANGED <<start, origin, destination, passenger, trip>>
      BY <1>1, <2>2 DEF PickUpPassenger
    <3>2. driver' \in Nat \X Nat  BY <1>0, <2>2, <3>1, MoveType
    <3>3. OnWay(start, origin, driver', moves["driver"] + 1)
      BY <1>0, <3>1, MoveOnWay DEF DriverInv
    <3>4. CASE driver' = origin
      <4>1. leg' = "ride" /\ driver_arrived' = TRUE /\ moves' = [moves EXCEPT !["driver"] = 0]
        BY <1>1, <2>2, <3>4 DEF PickUpPassenger
      <4>2. Aligned(start, origin)
        <5>1. OnWay(start, origin, origin, moves["driver"] + 1)  BY <3>3, <3>4
        <5> QED  BY <1>0, <5>1, AlignedIfThere
      <4>3. OnWay(origin, destination, driver', 0) /\ NotYet(origin, destination, 0)
        BY <1>0, <3>4, NotYetAtStart
      <4>4. moves'["driver"] = 0 /\ moves'["passenger"] = moves["passenger"]
        BY <4>1 DEF TypeOK
      <4>5. TypeOK'  BY <3>1, <3>2, <4>1 DEF TypeOK
      <4>6. DriverInv'  BY <3>1, <4>1, <4>2, <4>3, <4>4 DEF DriverInv
      <4>7. PassengerInv'  BY <3>1, <4>4 DEF PassengerInv
      <4> QED  BY <4>5, <4>6, <4>7
    <3>5. CASE driver' # origin
      <4>1. /\ UNCHANGED <<leg, driver_arrived>>
            /\ moves' = [moves EXCEPT !["driver"] = @ + 1]
        BY <1>1, <2>2, <3>5 DEF PickUpPassenger, Moved
      <4>2. moves'["driver"] = moves["driver"] + 1 /\ moves'["passenger"] = moves["passenger"]
        BY <4>1 DEF TypeOK
      <4>3. TypeOK'  BY <1>0, <3>1, <3>2, <4>1 DEF TypeOK
      <4>4. DriverInv'  BY <3>1, <3>3, <4>1, <4>2 DEF DriverInv
      <4>5. PassengerInv'  BY <3>1, <4>2 DEF PassengerInv
      <4> QED  BY <4>3, <4>4, <4>5
    <3> QED  BY <3>4, <3>5
  <2> QED  BY <2>1, <2>2
<1>2. CASE RideToDestination
  <2>1. CASE Panics(driver, destination)
    <3>1. /\ leg' = "dead" /\ leg = "ride"
          /\ UNCHANGED <<start, origin, destination, driver, passenger, trip,
                         driver_arrived, moves>>
      BY <1>2, <2>1 DEF RideToDestination
    <3> QED  BY <3>1 DEF TypeOK, DriverInv, PassengerInv
  <2>2. CASE ~Panics(driver, destination)
    <3>1. /\ leg = "ride" /\ driver' = move_to(driver, destination)
          /\ leg' = IF driver' = destination THEN "end" ELSE "ride"
          /\ moves' = [moves EXCEPT !["driver"] = @ + 1]
          /\ UNCHANGED <<start, origin, destination, passenger, trip, driver_arrived>>
      BY <1>2, <2>2 DEF RideToDestination, Moved
    <3>2. driver' \in Nat \X Nat  BY <1>0, <2>2, <3>1, MoveType
    <3>3. OnWay(origin, destination, driver', moves["driver"] + 1)
      BY <1>0, <3>1, MoveOnWay DEF DriverInv
    <3>4. moves'["driver"] = moves["driver"] + 1 /\ moves'["passenger"] = moves["passenger"]
      BY <3>1 DEF TypeOK
    <3>5. TypeOK'  BY <1>0, <3>1, <3>2 DEF TypeOK
    <3>6. driver' = destination => Done(origin, destination, moves'["driver"])
      BY <1>0, <3>1, <3>3, <3>4, ArrivesAtSteps DEF DriverInv
    <3>7. driver' # destination => NotYet(origin, destination, moves'["driver"])
      BY <1>0, <3>1, <3>3, <3>4, ArrivesAtSteps DEF DriverInv, OnWay
    <3>8. DriverInv'  BY <3>1, <3>3, <3>4, <3>6, <3>7 DEF DriverInv
    <3>9. PassengerInv'  BY <3>1, <3>4 DEF PassengerInv
    <3> QED  BY <3>5, <3>8, <3>9
  <2> QED  BY <2>1, <2>2
<1>3. CASE DriverArrived
  <2>1. /\ trip = "waiting" /\ trip' = "traveling" /\ driver_arrived' = FALSE
        /\ UNCHANGED <<start, origin, destination, driver, passenger, leg, moves>>
    BY <1>3 DEF DriverArrived
  <2>2. OnWay(origin, destination, origin, 0) /\ NotYet(origin, destination, 0)
    BY <1>0, NotYetAtStart
  <2>3. TypeOK'  BY <2>1 DEF TypeOK
  <2>4. DriverInv'  BY <2>1 DEF DriverInv
  <2>5. PassengerInv'  BY <2>1, <2>2 DEF PassengerInv
  <2> QED  BY <2>3, <2>4, <2>5
<1>4. CASE Traveling
  <2>1. CASE Panics(passenger, destination)
    <3>1. /\ trip' = "dead"
          /\ UNCHANGED <<start, origin, destination, driver, passenger, leg,
                         driver_arrived, moves>>
      BY <1>4, <2>1 DEF Traveling
    <3> QED  BY <3>1 DEF TypeOK, DriverInv, PassengerInv
  <2>2. CASE ~Panics(passenger, destination)
    <3>1. /\ trip = "traveling" /\ passenger' = move_to(passenger, destination)
          /\ trip' = IF passenger' = destination THEN "end" ELSE "traveling"
          /\ moves' = [moves EXCEPT !["passenger"] = @ + 1]
          /\ UNCHANGED <<start, origin, destination, driver, leg, driver_arrived>>
      BY <1>4, <2>2 DEF Traveling, Moved
    <3>2. passenger' \in Nat \X Nat  BY <1>0, <2>2, <3>1, MoveType
    <3>3. OnWay(origin, destination, passenger', moves["passenger"] + 1)
      BY <1>0, <3>1, MoveOnWay DEF PassengerInv
    <3>4. moves'["passenger"] = moves["passenger"] + 1 /\ moves'["driver"] = moves["driver"]
      BY <3>1 DEF TypeOK
    <3>5. TypeOK'  BY <1>0, <3>1, <3>2 DEF TypeOK
    <3>6. passenger' = destination => Done(origin, destination, moves'["passenger"])
      BY <1>0, <3>1, <3>3, <3>4, ArrivesAtSteps DEF PassengerInv
    <3>7. passenger' # destination => NotYet(origin, destination, moves'["passenger"])
      BY <1>0, <3>1, <3>3, <3>4, ArrivesAtSteps DEF PassengerInv, OnWay
    <3>8. PassengerInv'  BY <3>1, <3>3, <3>4, <3>6, <3>7 DEF PassengerInv
    <3>9. DriverInv'  BY <3>1, <3>4 DEF DriverInv
    <3> QED  BY <3>5, <3>8, <3>9
  <2> QED  BY <2>1, <2>2
<1>5. CASE UNCHANGED vars
  BY <1>5 DEF vars, TypeOK, DriverInv, PassengerInv
<1> QED  BY <1>1, <1>2, <1>3, <1>4, <1>5 DEF Next

LEMMA Inductive == Spec => []IInv
<1>1. Init => IInv  BY InitInv
<1>2. IInv /\ [Next]_vars => IInv'  BY StepInv
<1> QED  BY <1>1, <1>2, PTL DEF Spec

-----------------------------------------------------------------------------
(* The theorems.                                                           *)

\* Positions stay natural numbers: an actor whose decrement would leave u64 ends
\* instead (move_to).
THEOREM TypeCorrect == Spec => []TypeOK
<1>1. IInv => TypeOK  BY DEF IInv
<1> QED  BY <1>1, Inductive, PTL

\* For every start, origin and destination, a leg that ends has an aligned way and
\* took exactly its steps, the driver as well as the passenger; so a ride between
\* places whose gaps differ in parity never ends (PickUpPassenger,
\* RideToDestination, Traveling).
THEOREM RidesEndOnTime == Spec => []EndsOnTime
<1>1. IInv => EndsOnTime
  BY DEF IInv, DriverInv, PassengerInv, EndsOnTime, Done
<1> QED  BY <1>1, Inductive, PTL
=============================================================================
