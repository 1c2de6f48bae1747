-------------------------------- MODULE Ride --------------------------------
(***************************************************************************)
(* A ride, from the search for a driver to the confirmation of its         *)
(* payment, between passengers, drivers, the gateway and the leader, with  *)
(* crashes of passengers and drivers and what their status files bring     *)
(* back: the handlers of Passenger, of Driver and of the connections       *)
(* between them.                                                           *)
(*                                                                         *)
(* The leader stays up (module Registry has its failover) and the id of a  *)
(* passenger is its name, which Registry shows to be stable; so is the     *)
(* socket of a driver, which a recovery binds again.  Coordinates are left *)
(* to module Motion: a position is a place of the ride it belongs to.  A   *)
(* message is in the mailbox of its receiver as soon as it is sent.        *)
(***************************************************************************)
EXTENDS Integers, Sequences

CONSTANTS
    Drivers, Passengers,
    None,
    MaxStarts,     \* bound: starts of processes, over all of them
    MaxCrashes,    \* bound: crashes, over all of them
    MaxDenials     \* bound: payments the gateway denies

ASSUME RideAssumption ==
    /\ Drivers \cap Passengers = {}
    /\ None \notin Drivers \cup Passengers
    /\ {MaxStarts, MaxCrashes, MaxDenials} \subseteq Nat

Actors == Drivers \cup Passengers

VARIABLES
    up,                    \* processes that run
    starts,                \* starts[a]: how often the process of a was started
    mailbox,               \* mailbox[a]: messages a has still to handle
    registry,              \* registry[d]: where the leader keeps driver d
    passengers_address,    \* passengers_address[p]: the process of p that logged in last, or None
    reconnecting,          \* reconnect_driver messages on their way to the leader
    authorizing,           \* passengers whose AuthorizePayment is at the gateway
    payments,              \* payments[p]: ConfirmPayment messages of p at the gateway
    driver,                \* driver[d]: fields of Driver
    driver_file,           \* driver_file[d]: driver_<name>.json, or None
    current_passenger_connection,
    saving,                \* saving[d]: the handler of d that waits for save_state, or None
    passenger,             \* passenger[p]: fields of Passenger
    passenger_file,        \* passenger_file[p]: passenger_<name>.json, or None
    carried,               \* history: passengers that were picked up
    counts

serverVars    == <<registry, passengers_address, reconnecting>>
gatewayVars   == <<authorizing, payments>>
driverVars    == <<driver, driver_file, current_passenger_connection, saving, carried>>
passengerVars == <<passenger, passenger_file>>
vars == <<up, starts, mailbox, serverVars, gatewayVars, driverVars, passengerVars, counts>>

-----------------------------------------------------------------------------
(* Data.                                                                   *)

\* Where somebody is, as seen from the ride; the road is any other place.
Place == {"origin", "road", "destination"}

\* One run of a program, what a connection ends in.
Process(A) == [actor : A, start : Nat]

DriverState ==
    [is_available : BOOLEAN, id_current_passenger : Passengers \cup {None},
     position : Place, passenger_position : Place \cup {None}, passenger_picked_up : BOOLEAN]

NewDriver ==
    [is_available |-> TRUE, id_current_passenger |-> None,
     position |-> "road", passenger_position |-> None, passenger_picked_up |-> FALSE]

PassengerState ==
    [position : Place, payment_authorized : BOOLEAN, driver_socket : Drivers \cup {None},
     connection : Process(Drivers) \cup {None}, drivers_info : SUBSET Drivers]

NewPassenger ==
    [position |-> "origin", payment_authorized |-> FALSE, driver_socket |-> None,
     connection |-> None, drivers_info |-> {}]

\* What save_state of the passenger writes and Recover reads; payment_confirmed
\* is not in it.
PassengerFile == [payment_authorized : BOOLEAN, driver_socket : Drivers \cup {None}]
Saved(s) == [payment_authorized |-> s.payment_authorized, driver_socket |-> s.driver_socket]

ASSUME NoneAssumption ==
    /\ None \notin Process(Actors) \cup DriverState \cup PassengerFile
    /\ None \notin Place \cup {"RequestRide", "EndRide"}

Plain(t) == [type |-> t]
PlainType ==
    {"Login", "GetDrivers", "Recover", "PaymentAuthorized", "RequestDrive", "PaymentDeny",
     "KeepLooking", "DriverArrived", "Traveling", "Register", "Recovery", "StartRide",
     "PickUpPassenger", "RideToDestination", "EndRide"}

\* What a passenger is sent by the leader and by drivers, and a driver by
\* passengers, as their connections hand it on.
PassengerMsg ==
    [type : {"Drivers"}, drivers_info : SUBSET Drivers]
    \cup [type : {"RideAccepted", "ReconnectDriver"}, socket : Drivers]
    \cup [type : {"RecoverResponse"}, picked_up : BOOLEAN, position : Place, end_ride : BOOLEAN]
DriverMsg ==
    [type : {"RequestRide", "ReconnectPassenger"}, from : Process(Passengers),
     position : Place]
    \cup [type : {"PassengerRecover"}, from : Process(Passengers)]

Msg == [type : PlainType] \cup PassengerMsg \cup DriverMsg

TypeOK ==
    /\ up \subseteq Actors
    /\ starts \in [Actors -> Nat]
    /\ mailbox \in [Actors -> Seq(Msg)]
    /\ registry \in [Drivers -> {"unknown", "available", "busy"}]
    /\ passengers_address \in [Passengers -> Process(Passengers) \cup {None}]
    /\ \A p \in Passengers : passengers_address[p] # None => passengers_address[p].actor = p
    /\ reconnecting \subseteq Drivers \X Passengers
    /\ authorizing \subseteq Passengers
    /\ payments \in [Passengers -> Nat]
    /\ driver \in [Drivers -> DriverState]
    /\ driver_file \in [Drivers -> DriverState \cup {None}]
    /\ current_passenger_connection \in [Drivers -> Process(Passengers) \cup {None}]
    /\ saving \in [Drivers -> {"RequestRide", "EndRide", None}]
    /\ passenger \in [Passengers -> PassengerState]
    /\ passenger_file \in [Passengers -> PassengerFile \cup {None}]
    /\ carried \subseteq Passengers
    /\ counts \in [starts : Nat, crashes : Nat, denials : Nat]

Init ==
    /\ up = {}
    /\ starts = [a \in Actors |-> 0]
    /\ mailbox = [a \in Actors |-> <<>>]
    /\ registry = [d \in Drivers |-> "unknown"]
    /\ passengers_address = [p \in Passengers |-> None]
    /\ reconnecting = {}
    /\ authorizing = {}
    /\ payments = [p \in Passengers |-> 0]
    /\ driver = [d \in Drivers |-> NewDriver]
    /\ driver_file = [d \in Drivers |-> None]
    /\ current_passenger_connection = [d \in Drivers |-> None]
    /\ saving = [d \in Drivers |-> None]
    /\ passenger = [p \in Passengers |-> NewPassenger]
    /\ passenger_file = [p \in Passengers |-> None]
    /\ carried = {}
    /\ counts = [starts |-> 0, crashes |-> 0, denials |-> 0]

-----------------------------------------------------------------------------
(* Actors and connections.                                                 *)

Self(a) == [actor |-> a, start |-> starts[a]]

\* Both ends of a connection to process c still run.
Running(c) == c # None /\ c.actor \in up /\ starts[c.actor] = c.start

\* Actor a handles a message of type t; a handler that waits for save_state
\* keeps the mailbox of its actor closed.
Handles(a, t) ==
    /\ a \in up
    /\ a \in Drivers => saving[a] = None
    /\ mailbox[a] # <<>> /\ Head(mailbox[a]).type = t

\* a is done with its first message: it has sent own to itself, and out to c,
\* which gets it only if it still runs.
Mail(a, own, c, out) ==
    mailbox' = [b \in Actors |->
        LET rest == IF b = a THEN Tail(mailbox[b]) \o own ELSE mailbox[b]
        IN  IF Running(c) /\ b = c.actor THEN rest \o out ELSE rest]

\* The same without a message to another process.
Continue(a, own) == mailbox' = [mailbox EXCEPT ![a] = Tail(@) \o own]

\* The process of a is started, within the bound.
Starts(a) ==
    /\ a \notin up
    /\ counts.starts < MaxStarts
    /\ counts' = [counts EXCEPT !.starts = @ + 1]
    /\ up' = up \cup {a}
    /\ starts' = [starts EXCEPT ![a] = @ + 1]

\* It crashes, within the bound, and only if it can still be started again.
Crashes(a) ==
    /\ a \in up
    /\ counts.crashes < MaxCrashes /\ counts.starts < MaxStarts
    /\ counts' = [counts EXCEPT !.crashes = @ + 1]

-----------------------------------------------------------------------------
(* Passenger.                                                              *)

\* main: the leader and the gateway answer; with recovery if there is a file.
StartPassenger(p) ==
    /\ Starts(p)
    /\ mailbox' = [mailbox EXCEPT ![p] =
          IF passenger_file[p] = None THEN <<Plain("Login"), Plain("GetDrivers")>>
          ELSE <<Plain("Recover")>>]
    /\ UNCHANGED <<serverVars, gatewayVars, driverVars, passengerVars>>

\* The process of p is gone, with what it had in memory and asked the gateway.
Ends(p) ==
    /\ up' = up \ {p}
    /\ mailbox' = [mailbox EXCEPT ![p] = <<>>]
    /\ passenger' = [passenger EXCEPT ![p] = NewPassenger]
    /\ authorizing' = authorizing \ {p}

CrashPassenger(p) ==
    /\ Crashes(p)
    /\ Ends(p)
    /\ UNCHANGED <<starts, serverVars, payments, driverVars, passenger_file>>

\* The leader stores the connection under the id it answers with.
Login(p) ==
    /\ Handles(p, "Login")
    /\ Continue(p, <<>>)
    /\ passengers_address' = [passengers_address EXCEPT ![p] = Self(p)]
    /\ UNCHANGED <<up, starts, registry, reconnecting, gatewayVars, driverVars, passengerVars,
                   counts>>

\* The drivers the leader holds for available.
Listed == {d \in Drivers : registry[d] = "available"}

GetDrivers(p) ==
    /\ Handles(p, "GetDrivers")
    /\ Continue(p, <<[type |-> "Drivers", drivers_info |-> Listed]>>)
    /\ UNCHANGED <<up, starts, serverVars, gatewayVars, driverVars, passengerVars, counts>>

\* select_driver takes the driver it returns off the list; any one may be the
\* first in reach.
Selected(S) == {[chosen |-> d, rest |-> S \ {d}] : d \in S}

DriversHandler(p) ==
    LET offered == Head(mailbox[p]).drivers_info IN
    /\ Handles(p, "Drivers")
    /\ passenger_file' = [passenger_file EXCEPT ![p] = Saved(passenger[p])]
    /\ \/ /\ offered = {}
          /\ passenger' = [passenger EXCEPT ![p].drivers_info = {}]
          /\ Continue(p, <<>>)
          /\ UNCHANGED authorizing
       \/ \E s \in Selected(offered) :
            \/ /\ s.chosen \in up
               /\ passenger' = [passenger EXCEPT ![p].drivers_info = s.rest,
                                                 ![p].connection = Self(s.chosen)]
               /\ authorizing' = authorizing \cup {p}
               /\ Continue(p, <<>>)
            \/ /\ s.chosen \notin up
               /\ passenger' = [passenger EXCEPT ![p].drivers_info = s.rest]
               /\ Continue(p, <<[type |-> "Drivers", drivers_info |-> s.rest]>>)
               /\ UNCHANGED authorizing
    /\ UNCHANGED <<up, starts, serverVars, payments, driverVars, counts>>

\* The gateway authorizes by chance.
authorize_payment == IF counts.denials < MaxDenials THEN BOOLEAN ELSE {TRUE}

\* What the connection to the gateway makes of its answer.
Decision(is_authorized) ==
    IF is_authorized THEN <<Plain("PaymentAuthorized"), Plain("RequestDrive")>>
    ELSE <<Plain("PaymentDeny")>>

Authorize(p) ==
    /\ p \in authorizing
    /\ authorizing' = authorizing \ {p}
    /\ \E is_authorized \in authorize_payment :
          /\ mailbox' = [mailbox EXCEPT ![p] = @ \o Decision(is_authorized)]
          /\ counts' = IF is_authorized THEN counts ELSE [counts EXCEPT !.denials = @ + 1]
    /\ UNCHANGED <<up, starts, serverVars, payments, driverVars, passengerVars>>

\* p goes on as s, which it writes to its file, and sends own to itself.
Becomes(p, s, own) ==
    /\ passenger' = [passenger EXCEPT ![p] = s]
    /\ passenger_file' = [passenger_file EXCEPT ![p] = Saved(s)]
    /\ Continue(p, own)
    /\ UNCHANGED <<up, starts, serverVars, gatewayVars, driverVars, counts>>

PaymentAuthorized(p) ==
    /\ Handles(p, "PaymentAuthorized")
    /\ Becomes(p, [passenger[p] EXCEPT !.payment_authorized = TRUE], <<>>)

PaymentDeny(p) ==
    /\ Handles(p, "PaymentDeny")
    /\ Becomes(p, [passenger[p] EXCEPT !.payment_authorized = FALSE], <<Plain("GetDrivers")>>)

\* Mutant: the passenger does not wait for driver_arrived.
TravelsAtOnce(p) ==
    /\ Handles(p, "RideAccepted")
    /\ Becomes(p, [passenger[p] EXCEPT !.driver_socket = Head(mailbox[p]).socket],
               <<Plain("Traveling")>>)

RideAccepted(p) ==
    /\ Handles(p, "RideAccepted")
    /\ Becomes(p, [passenger[p] EXCEPT !.driver_socket = Head(mailbox[p]).socket], <<>>)

\* The request goes to the driver connected to last, wherever that is by now.
RequestDrive(p) ==
    /\ Handles(p, "RequestDrive")
    /\ Mail(p, <<>>, passenger[p].connection,
            <<[type |-> "RequestRide", from |-> Self(p), position |-> passenger[p].position]>>)
    /\ UNCHANGED <<up, starts, serverVars, gatewayVars, driverVars, passengerVars, counts>>

\* Mutant: a refusal ends the search.
StopsLooking(p) ==
    /\ Handles(p, "KeepLooking")
    /\ Continue(p, <<>>)
    /\ UNCHANGED <<up, starts, serverVars, gatewayVars, driverVars, passengerVars, counts>>

KeepLooking(p) ==
    /\ Handles(p, "KeepLooking")
    /\ Continue(p, <<[type |-> "Drivers", drivers_info |-> passenger[p].drivers_info]>>)
    /\ UNCHANGED <<up, starts, serverVars, gatewayVars, driverVars, passengerVars, counts>>

DriverArrived(p) ==
    /\ Handles(p, "DriverArrived")
    /\ Continue(p, <<Plain("Traveling")>>)
    /\ UNCHANGED <<up, starts, serverVars, gatewayVars, driverVars, passengerVars, counts>>

\* One more confirmation at the gateway, and the process of p ends.
ConfirmPayment(p) ==
    /\ payments' = [payments EXCEPT ![p] = @ + 1]
    /\ Ends(p)

\* Traveling: the file, then a step, which reaches the destination or not.
TravelOn(p) ==
    /\ Handles(p, "Traveling")
    /\ Becomes(p, [passenger[p] EXCEPT !.position = "road"], <<Plain("Traveling")>>)

TravelEnds(p) ==
    /\ Handles(p, "Traveling")
    /\ passenger[p].position # "destination"
    /\ passenger_file' = [passenger_file EXCEPT ![p] = Saved(passenger[p])]
    /\ ConfirmPayment(p)
    /\ UNCHANGED <<starts, serverVars, driverVars, counts>>

\* Mutant: an authorised passenger without a driver asks again.
LacksDriver(s) == ~s.payment_authorized \/ s.driver_socket = None

\* A passenger that comes back with state s looks for a driver again.
NeedsDriver(s) == ~s.payment_authorized

\* Recover: what the file says of the ride decides how p goes on.  A passenger
\* that was authorized and has no driver, or whose driver is gone, does nothing.
Recover(p) ==
    LET s == [NewPassenger EXCEPT !.payment_authorized = passenger_file[p].payment_authorized,
                                  !.driver_socket      = passenger_file[p].driver_socket]
        d == s.driver_socket
    IN
    /\ Handles(p, "Recover")
    /\ passenger' = [passenger EXCEPT ![p] = s]
    /\ \/ /\ NeedsDriver(s)
          /\ Continue(p, <<Plain("Login"), Plain("GetDrivers")>>)
       \/ /\ ~NeedsDriver(s) /\ d \in up
          /\ Mail(p, <<Plain("Login")>>, Self(d),
                  <<[type |-> "PassengerRecover", from |-> Self(p)]>>)
       \/ /\ ~NeedsDriver(s) /\ d \notin up
          /\ Continue(p, <<Plain("Login")>>)
    /\ UNCHANGED <<up, starts, serverVars, gatewayVars, driverVars, passenger_file, counts>>

RecoverResponse(p) ==
    LET m == Head(mailbox[p]) IN
    /\ Handles(p, "RecoverResponse")
    /\ \/ /\ m.end_ride
          /\ ConfirmPayment(p)
       \/ /\ ~m.end_ride /\ m.picked_up
          /\ passenger' = [passenger EXCEPT ![p].position = m.position]
          /\ Continue(p, <<Plain("Traveling")>>)
          /\ UNCHANGED <<up, gatewayVars>>
       \/ /\ ~m.end_ride /\ ~m.picked_up
          /\ Continue(p, <<>>)
          /\ UNCHANGED <<up, gatewayVars, passenger>>
    /\ UNCHANGED <<starts, serverVars, driverVars, passenger_file, counts>>

ReconnectDriver(p) ==
    LET d == Head(mailbox[p]).socket IN
    /\ Handles(p, "ReconnectDriver")
    /\ \/ /\ d \in up
          /\ passenger' = [passenger EXCEPT ![p].connection = Self(d)]
          /\ Mail(p, <<>>, Self(d), <<[type |-> "ReconnectPassenger", from |-> Self(p),
                                       position |-> passenger[p].position]>>)
       \/ /\ d \notin up
          /\ Continue(p, <<>>)
          /\ UNCHANGED passenger
    /\ UNCHANGED <<up, starts, serverVars, gatewayVars, driverVars, passenger_file, counts>>

-----------------------------------------------------------------------------
(* Driver.                                                                 *)

\* main: always with recovery, which finds a file from the second start on.
StartDriver(d) ==
    /\ Starts(d)
    /\ mailbox' = [mailbox EXCEPT ![d] =
          IF driver_file[d] = None THEN <<Plain("Register")>>
          ELSE <<Plain("Recovery"), Plain("Register")>>]
    /\ UNCHANGED <<serverVars, gatewayVars, driverVars, passengerVars>>

CrashDriver(d) ==
    /\ Crashes(d)
    /\ up' = up \ {d}
    /\ mailbox' = [mailbox EXCEPT ![d] = <<>>]
    /\ driver' = [driver EXCEPT ![d] = NewDriver]
    /\ current_passenger_connection' = [current_passenger_connection EXCEPT ![d] = None]
    /\ saving' = [saving EXCEPT ![d] = None]
    /\ UNCHANGED <<starts, serverVars, gatewayVars, driver_file, carried,
                   passengerVars>>

\* The leader knows the name, or stores it among the available.
Register(d) ==
    /\ Handles(d, "Register")
    /\ Continue(d, <<>>)
    /\ registry' = [registry EXCEPT ![d] = IF @ = "unknown" THEN "available" ELSE @]
    /\ driver_file' = [driver_file EXCEPT ![d] = driver[d]]
    /\ UNCHANGED <<up, starts, passengers_address, reconnecting, gatewayVars, driver,
                   current_passenger_connection, saving, carried, passengerVars, counts>>

\* Mutant: a driver that was on its way to the passenger forgets it.
ResumesAboard(f) == IF f.passenger_picked_up THEN <<Plain("RideToDestination")>> ELSE <<>>

\* What a driver with file f has still to do.
Resume(f) == <<Plain(IF f.passenger_picked_up THEN "RideToDestination" ELSE "PickUpPassenger")>>

\* A ride that was under way goes on from the file, and the passenger is told.
Recovery(d) ==
    LET f == driver_file[d] IN
    /\ Handles(d, "Recovery")
    /\ driver' = [driver EXCEPT ![d] = f]
    /\ \/ /\ f.is_available
          /\ Continue(d, <<>>)
          /\ UNCHANGED reconnecting
       \/ /\ ~f.is_available
          /\ reconnecting' = reconnecting \cup {<<d, f.id_current_passenger>>}
          /\ Continue(d, Resume(f))
    /\ UNCHANGED <<up, starts, registry, passengers_address, gatewayVars, driver_file,
                   current_passenger_connection, saving, carried, passengerVars, counts>>

\* ReconnectDriver of the leader: to the connection p logged in with last.
TellPassenger(d, p) ==
    LET c == passengers_address[p] IN
    /\ <<d, p>> \in reconnecting
    /\ reconnecting' = reconnecting \ {<<d, p>>}
    /\ mailbox' = IF Running(c)
                  THEN [mailbox EXCEPT ![p] = Append(@, [type |-> "ReconnectDriver", socket |-> d])]
                  ELSE mailbox
    /\ UNCHANGED <<up, starts, registry, passengers_address, gatewayVars, driverVars,
                   passengerVars, counts>>

RefuseRide(d) ==
    /\ Handles(d, "RequestRide")
    /\ ~driver[d].is_available
    /\ Mail(d, <<>>, Head(mailbox[d]).from, <<Plain("KeepLooking")>>)
    /\ UNCHANGED <<up, starts, serverVars, gatewayVars, driverVars, passengerVars, counts>>

\* Where d is, is seen from the new ride from now on.  The answer is sent before
\* the file is written.
AcceptRide(d) ==
    LET m == Head(mailbox[d]) IN
    /\ Handles(d, "RequestRide")
    /\ driver[d].is_available
    /\ \E place \in Place :
          driver' = [driver EXCEPT ![d].is_available = FALSE,
                                   ![d].id_current_passenger = m.from.actor,
                                   ![d].passenger_position = m.position,
                                   ![d].position = place]
    /\ current_passenger_connection' = [current_passenger_connection EXCEPT ![d] = m.from]
    /\ saving' = [saving EXCEPT ![d] = "RequestRide"]
    /\ Mail(d, <<>>, m.from, <<[type |-> "RideAccepted", socket |-> d]>>)
    /\ UNCHANGED <<up, starts, serverVars, gatewayVars, driver_file, carried,
                   passengerVars, counts>>

\* save_state returns, and the handler that called it goes on to its end.
SaveState(d) ==
    /\ d \in up /\ saving[d] # None
    /\ saving' = [saving EXCEPT ![d] = None]
    /\ driver_file' = [driver_file EXCEPT ![d] = driver[d]]
    /\ \/ /\ saving[d] = "RequestRide"
          /\ registry' = [registry EXCEPT ![d] = IF @ = "available" THEN "busy" ELSE @]
          /\ mailbox' = [mailbox EXCEPT ![d] = Append(@, Plain("StartRide"))]
       \/ /\ saving[d] = "EndRide"
          /\ UNCHANGED <<registry, mailbox>>
    /\ UNCHANGED <<up, starts, passengers_address, reconnecting, gatewayVars, driver,
                   current_passenger_connection, carried, passengerVars, counts>>

StartRide(d) ==
    /\ Handles(d, "StartRide")
    /\ Continue(d, <<Plain("PickUpPassenger")>>)
    /\ UNCHANGED <<up, starts, serverVars, gatewayVars, driverVars, passengerVars, counts>>

\* Where a step can take somebody who is at place q: never to q itself, unless
\* both are just somewhere on the road.
Step(q) == {r \in Place : r # q \/ r = "road"}

\* PickUpPassenger: a step, which reaches the passenger or not.
ApproachPassenger(d) ==
    LET target == driver[d].passenger_position IN
    /\ Handles(d, "PickUpPassenger")
    /\ target # None
    /\ \E q \in Step(driver[d].position) :
          /\ q # target \/ q = "road"
          /\ driver' = [driver EXCEPT ![d].position = q]
    /\ Continue(d, <<Plain("PickUpPassenger")>>)
    /\ UNCHANGED <<up, starts, serverVars, gatewayVars, driver_file,
                   current_passenger_connection, saving, carried, passengerVars, counts>>

PickUpPassenger(d) ==
    LET target == driver[d].passenger_position IN
    /\ Handles(d, "PickUpPassenger")
    /\ target # None /\ target \in Step(driver[d].position)
    /\ driver' = [driver EXCEPT ![d].position = target, ![d].passenger_picked_up = TRUE]
    /\ carried' = carried \cup {driver[d].id_current_passenger}
    /\ Mail(d, <<Plain("RideToDestination")>>, current_passenger_connection[d],
            <<Plain("DriverArrived")>>)
    /\ UNCHANGED <<up, starts, serverVars, gatewayVars, driver_file,
                   current_passenger_connection, saving, passengerVars, counts>>

\* RideToDestination: the file, then a step, which reaches the destination or not.
RideStep(d, places, own) ==
    /\ Handles(d, "RideToDestination")
    /\ driver_file' = [driver_file EXCEPT ![d] = driver[d]]
    /\ \E q \in Step(driver[d].position) \cap places :
          driver' = [driver EXCEPT ![d].position = q]
    /\ Continue(d, <<Plain(own)>>)
    /\ UNCHANGED <<up, starts, serverVars, gatewayVars, current_passenger_connection, saving,
                   carried, passengerVars, counts>>

RideOn(d)            == RideStep(d, Place \ {"destination"}, "RideToDestination")
ReachDestination(d)  == RideStep(d, {"destination"}, "EndRide")

\* Mutant: the flag of the last ride stays.
KeepsFlag(s) == [s EXCEPT !.is_available = TRUE]

\* The driver once the ride has ended: free, at the destination of this ride.
Freed(s) ==
    [s EXCEPT !.is_available = TRUE, !.passenger_picked_up = FALSE, !.position = "destination"]

\* The leader is told before the file is written.
EndRide(d) ==
    /\ Handles(d, "EndRide")
    /\ Continue(d, <<>>)
    /\ registry' = [registry EXCEPT ![d] = IF @ = "busy" THEN "available" ELSE @]
    /\ driver' = [driver EXCEPT ![d] = Freed(@)]
    /\ saving' = [saving EXCEPT ![d] = "EndRide"]
    /\ UNCHANGED <<up, starts, passengers_address, reconnecting, gatewayVars, driver_file,
                   current_passenger_connection, carried, passengerVars, counts>>

\* Mutants: a busy driver has picked its passenger up; the answer to any other
\* passenger holds the place of the current one.
BusyIsAboard(s, p) ==
    [type |-> "RecoverResponse", picked_up |-> ~s.is_available, position |-> s.position,
     end_ride |-> s.id_current_passenger # p \/ s.position = "destination"]
TheirPlace(s, p) ==
    IF s.id_current_passenger = p
    THEN [type |-> "RecoverResponse", picked_up |-> s.passenger_picked_up,
          position |-> s.position, end_ride |-> s.position = "destination"]
    ELSE [type |-> "RecoverResponse", picked_up |-> FALSE, position |-> s.passenger_position,
          end_ride |-> TRUE]

\* What a driver in state s answers to the passenger p that comes back.
Answer(s, p) ==
    IF s.id_current_passenger = p
    THEN [type |-> "RecoverResponse", picked_up |-> s.passenger_picked_up,
          position |-> s.position, end_ride |-> s.position = "destination"]
    ELSE [type |-> "RecoverResponse", picked_up |-> FALSE, position |-> "road", end_ride |-> TRUE]

\* Mutant: the driver keeps the connection of before the crash.
KeepsConnection(s, old, c) == old

\* The connection a driver in state s has once c has come back.
ConnectionWith(s, old, c) == IF s.id_current_passenger = c.actor THEN c ELSE old

PassengerRecover(d) ==
    LET c == Head(mailbox[d]).from IN
    /\ Handles(d, "PassengerRecover")
    /\ current_passenger_connection' =
          [current_passenger_connection EXCEPT ![d] = ConnectionWith(driver[d], @, c)]
    /\ Mail(d, <<>>, c, <<Answer(driver[d], c.actor)>>)
    /\ UNCHANGED <<up, starts, serverVars, gatewayVars, driver, driver_file, saving, carried,
                   passengerVars, counts>>

\* The place of the sender in the ride of d: its own, if the ride is its own.
PlaceFor(d, m) ==
    IF driver[d].id_current_passenger = m.from.actor THEN {m.position} ELSE Place

\* Whoever reconnects becomes the passenger the driver talks to, and the driver
\* takes its position over.
ReconnectPassenger(d) ==
    LET m == Head(mailbox[d]) IN
    /\ Handles(d, "ReconnectPassenger")
    /\ Continue(d, <<>>)
    /\ current_passenger_connection' = [current_passenger_connection EXCEPT ![d] = m.from]
    /\ \E q \in PlaceFor(d, m) :
          driver' = [driver EXCEPT ![d].position = q, ![d].passenger_position = q]
    /\ UNCHANGED <<up, starts, serverVars, gatewayVars, driver_file, saving, carried,
                   passengerVars, counts>>

-----------------------------------------------------------------------------
PassengerStep(p) ==
    \/ Login(p) \/ GetDrivers(p) \/ DriversHandler(p) \/ RequestDrive(p) \/ KeepLooking(p)
    \/ PaymentAuthorized(p) \/ PaymentDeny(p) \/ RideAccepted(p) \/ DriverArrived(p)
    \/ TravelOn(p) \/ TravelEnds(p)
    \/ Recover(p) \/ RecoverResponse(p) \/ ReconnectDriver(p)

DriverStep(d) ==
    \/ Register(d) \/ Recovery(d) \/ RefuseRide(d) \/ AcceptRide(d) \/ SaveState(d)
    \/ StartRide(d) \/ ApproachPassenger(d) \/ PickUpPassenger(d)
    \/ RideOn(d) \/ ReachDestination(d) \/ EndRide(d)
    \/ PassengerRecover(d) \/ ReconnectPassenger(d)

Next ==
    \/ \E p \in Passengers :
          StartPassenger(p) \/ CrashPassenger(p) \/ Authorize(p) \/ PassengerStep(p)
    \/ \E d \in Drivers : StartDriver(d) \/ CrashDriver(d) \/ DriverStep(d)
    \/ \E d \in Drivers, p \in Passengers : TellPassenger(d, p)

\* Actors are never starved, what was sent arrives and is answered, and a way
\* ends (which ones do is module Motion); starts and crashes happen or not.
Fairness ==
    /\ \A p \in Passengers :
          /\ WF_vars(PassengerStep(p)) /\ WF_vars(Authorize(p)) /\ WF_vars(TravelEnds(p))
    /\ \A d \in Drivers :
          /\ WF_vars(DriverStep(d))
          /\ WF_vars(PickUpPassenger(d)) /\ WF_vars(ReachDestination(d))
    /\ \A d \in Drivers, p \in Passengers : WF_vars(TellPassenger(d, p))

Spec     == Init /\ [][Next]_vars
FairSpec == Spec /\ Fairness

-----------------------------------------------------------------------------
(* Safety.                                                                 *)

\* The passenger of a driver with state or file s, if it has one.
PassengerOf(s) == IF s = None \/ s.is_available THEN None ELSE s.id_current_passenger

\* A passenger is never the current one of two drivers, in memory or on disk,
\* whatever crashes between the request, the answer and the two files.
OneDriverEach ==
    \A d, e \in Drivers :
        d # e => \A s \in {driver[d], driver_file[d]}, t \in {driver[e], driver_file[e]} :
                    PassengerOf(s) # None => PassengerOf(s) # PassengerOf(t)

\* Nobody travels that was not picked up, also when a driver_arrived or an
\* answer of before a crash reaches a process started after it.
TravelsCarried ==
    \A p \in Passengers :
        \/ passenger[p].position # "origin"
        \/ \E i \in 1..Len(mailbox[p]) : mailbox[p][i].type \in {"DriverArrived", "Traveling"}
        => p \in carried

\* A passenger pays once, and only if it was picked up (passenger.rs:497 and 610
\* say so also of one that was started again).
PaidPerRide == \A p \in Passengers : payments[p] <= (IF p \in carried THEN 1 ELSE 0)

\* That holds of the rides that no crash and no second start touches.
PaysForRide == (counts.crashes = 0 /\ \A p \in Passengers : starts[p] <= 1) => PaidPerRide

NoDriverCrashed == \A d \in Drivers : starts[d] = (IF d \in up THEN 1 ELSE 0)

\* Somebody will yet tell p how its ride goes on.
Expected(p) ==
    \E d \in Drivers :
        \/ \E i \in 1..Len(mailbox[d]) :
              /\ mailbox[d][i].type \in {"RequestRide", "PassengerRecover"}
              /\ mailbox[d][i].from = Self(p)
        \/ /\ PassengerOf(driver[d]) = p /\ ~driver[d].passenger_picked_up
           /\ current_passenger_connection[d] = Self(p)

\* A passenger with nothing left to do is expected by a driver or has asked every
\* driver it was offered, unless a driver crashed, or it crashed itself between
\* its authorisation and the answer of a driver.
NobodyForgotten ==
    NoDriverCrashed =>
        \A p \in up \cap Passengers :
            mailbox[p] = <<>> /\ p \notin authorizing =>
                \/ Expected(p)
                \/ passenger[p].driver_socket = None
                   /\ (passenger[p].drivers_info = {} \/ starts[p] > 1)

\* The drivers keep their contract with what they have on disk, through crashes.
Contract == INSTANCE RideContract WITH
    serving <- [d \in Drivers |-> PassengerOf(driver_file[d])]
KeepsContract == Contract!Spec

-----------------------------------------------------------------------------
(* Liveness.                                                               *)

\* A driver that took a passenger becomes free again unless it crashes, also
\* after a recovery.
DriversFreed ==
    \A d \in Drivers : ~driver[d].is_available ~> (driver[d].is_available \/ d \notin up)

\* While no driver crashes, a passenger with a driver comes to an end, however
\* often it was itself started again.
RidersArrive ==
    \A p \in Passengers :
        p \in up /\ passenger[p].driver_socket # None
            ~> (p \notin up \/ ~NoDriverCrashed)
=============================================================================
