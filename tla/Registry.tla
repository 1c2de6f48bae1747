------------------------------ MODULE Registry ------------------------------
(***************************************************************************)
(* The registry of drivers and passengers that the leading server keeps,   *)
(* its replication, and what the clients do to keep it up to date: the     *)
(* handlers of Server for drivers and passengers, Pong and                 *)
(* UpdateNetworkState, and on the client side registration, login, the     *)
(* messages a ride causes, the status file of a driver, and Reconnect.     *)
(*                                                                         *)
(* The election is one step here: module Election shows which server comes *)
(* out of it.  What driver and passenger say to each other, the gateway    *)
(* and GetDrivers, which changes nothing in the server, are left out.  A   *)
(* position is the number of rides ended in it: only EndRide changes the   *)
(* one the server sees.  A socket is the number of the bind that made it.  *)
(* A connection of a passenger is the number of the process that opened it *)
(* (while one server leads, each process opens one).  What a client wrote  *)
(* before it stopped is taken to be read before what it writes after its   *)
(* next start.                                                             *)
(***************************************************************************)
EXTENDS Integers, Sequences

CONSTANTS
    MAX_SERVERS,       \* the highest id a server can have
    Server,            \* ids of the servers that run at first
    FirstLeader,       \* the one that was started as leader
    Drivers, Passengers,
    None,
    MaxLeaderCrashes,  \* bound: crashes of the leading server
    MaxDriverCrashes,  \* bound: crashes of drivers
    MaxLogins,         \* bound: starts of passenger processes, over all names
    MaxRides,          \* bound: rides accepted, over all drivers
    MaxPongs           \* bound: snapshots sent

ASSUME RegistryAssumption ==
    /\ MAX_SERVERS \in Nat /\ Server \subseteq 1..MAX_SERVERS
    /\ FirstLeader \in Server
    /\ Drivers \cap Passengers = {}
    /\ None \notin Server \cup Drivers \cup Passengers
    /\ {MaxLeaderCrashes, MaxDriverCrashes, MaxLogins, MaxRides, MaxPongs} \subseteq Nat

Client == Drivers \cup Passengers

VARIABLES
    alive,                \* servers that run
    leader,               \* the server that clients can connect to, or None
    registry,             \* registry[s]: the fields of Server that Pong replicates
    passengers_address,   \* passengers_address[s]: ids of passengers and connections
    own,                  \* UpdateDriverSocket messages the leader sent to itself
    pongs,                \* pongs[s]: snapshots on their way to replica s
    up,                   \* client processes that run
    link,                 \* link[c]: server at the end of c's connection; None once its end is read
    wire,                 \* wire[c]: messages from c to the leader
    retries,              \* retries[c]: messages of the Reconnects in c's mailbox
    pending,              \* pending[c]: what c's actor has still to do first
    is_available, position, id_current_passenger, driver_socket,
    file,                 \* file[d]: driver_<name>.json
    rider,                \* rider[d]: the passenger d accepted last (id_current_passenger is its id then)
    abandoned,            \* drivers started without recovery in mid-ride that ended no ride since
    id,                   \* id[p]: info.id of passenger p
    starts,               \* starts[p]: processes of p so far; the last one may run
    replies,              \* replies[p]: identificador messages on their way to p
    counts

serverVars == <<alive, leader, registry, passengers_address, own, pongs>>
netVars    == <<up, link, wire, retries>>
driverVars == <<is_available, position, id_current_passenger, driver_socket, file, rider,
                abandoned>>
passengerVars == <<id, starts, replies>>
vars == <<serverVars, netVars, pending, driverVars, passengerVars, counts>>

-----------------------------------------------------------------------------
(* Data.                                                                   *)

DriverInfo == [id : Nat, socket : Nat, position : Nat]

RegistryState ==
    [drivers      : [Drivers -> DriverInfo \cup {None}],
     busy_drivers : [Drivers -> DriverInfo \cup {None}],
     passengers   : [Passengers -> Nat],
     ids_count    : Nat]

Empty ==
    [drivers      |-> [d \in Drivers |-> None],
     busy_drivers |-> [d \in Drivers |-> None],
     passengers   |-> [p \in Passengers |-> 0],
     ids_count    |-> 0]

Msg ==
    [type : {"new_driver"}, name : Drivers, socket : Nat, position : Nat]
    \cup [type : {"busy_driver"}, name : Drivers]
    \cup [type : {"available_driver"}, name : Drivers, position : Nat]
    \cup [type : {"reconnect_driver"}, name : Drivers, id_passenger : Nat, socket : Nat]
    \cup [type : {"login"}, name : Passengers, start : Nat]

SocketUpdate == [name : Drivers, socket : Nat]
Address      == [id : Nat, passenger : Passengers, start : Nat]
DriverFile   == [is_available : BOOLEAN, position : Nat, id_current_passenger : Nat,
                 driver_socket : Nat]
Counts       == [leader_crashes : Nat, driver_crashes : Nat, logins : Nat,
                 rides : Nat, pongs : Nat, sockets : Nat]

TypeOK ==
    /\ alive \subseteq Server
    /\ leader \in Server \cup {None}
    /\ registry \in [Server -> RegistryState]
    /\ passengers_address \in [Server -> SUBSET Address]
    /\ own \in Seq(SocketUpdate)
    /\ pongs \in [Server -> Seq(RegistryState)]
    /\ up \subseteq Client
    /\ link \in [Client -> Server \cup {None}]
    /\ wire \in [Client -> Seq(Msg)]
    /\ retries \in [Client -> Seq(Msg)]
    /\ pending \in [Client -> {"none", "register", "login", "busy", "save"}]
    /\ is_available \in [Drivers -> BOOLEAN]
    /\ position \in [Drivers -> Nat]
    /\ id_current_passenger \in [Drivers -> Nat]
    /\ driver_socket \in [Drivers -> Nat]
    /\ file \in [Drivers -> DriverFile \cup {None}]
    /\ rider \in [Drivers -> Passengers \cup {None}]
    /\ abandoned \subseteq Drivers
    /\ id \in [Passengers -> Nat]
    /\ starts \in [Passengers -> Nat]
    /\ replies \in [Passengers -> Seq(Nat)]
    /\ counts \in Counts

Highest(S) == CHOOSE h \in S : \A s \in S : h >= s

Init ==
    /\ alive = Server
    /\ leader = FirstLeader
    /\ registry = [s \in Server |-> Empty]
    /\ passengers_address = [s \in Server |-> {}]
    /\ own = <<>>
    /\ pongs = [s \in Server |-> <<>>]
    /\ up = {}
    /\ link = [c \in Client |-> None]
    /\ wire = [c \in Client |-> <<>>]
    /\ retries = [c \in Client |-> <<>>]
    /\ pending = [c \in Client |-> "none"]
    /\ is_available = [d \in Drivers |-> TRUE]
    /\ position = [d \in Drivers |-> 0]
    /\ id_current_passenger = [d \in Drivers |-> 0]
    /\ driver_socket = [d \in Drivers |-> 0]
    /\ file = [d \in Drivers |-> None]
    /\ rider = [d \in Drivers |-> None]
    /\ abandoned = {}
    /\ id = [p \in Passengers |-> 0]
    /\ starts = [p \in Passengers |-> 0]
    /\ replies = [p \in Passengers |-> <<>>]
    /\ counts = [leader_crashes |-> 0, driver_crashes |-> 0, logins |-> 0,
                 rides |-> 0, pongs |-> 0, sockets |-> 0]

-----------------------------------------------------------------------------
(* Server: the handlers of the leader.  What it reads from a connection it *)
(* handles in the order it was sent; two connections may overtake.         *)

\* The leader takes the next message of client c, of the given type.
Received(c, type) ==
    /\ leader # None
    /\ wire[c] # <<>>
    /\ Head(wire[c]).type = type
    /\ wire' = [wire EXCEPT ![c] = Tail(@)]
    /\ UNCHANGED <<alive, leader, up, link, retries, pending, driverVars, counts>>

\* Mutant: the busy drivers are forgotten.
KnownAvailable(r, d) == r.drivers[d] # None

Known(r, d) == r.drivers[d] # None \/ r.busy_drivers[d] # None

\* The handler of a new name: a fresh id, and the name among the available.
Registered(r, m) ==
    [r EXCEPT !.ids_count = @ + 1,
              !.drivers[m.name] = [id |-> r.ids_count + 1, socket |-> m.socket,
                                   position |-> m.position]]

NewDriver(d) ==
    LET m == Head(wire[d])
        r == registry[leader]
    IN
    /\ Received(d, "new_driver")
    /\ \/ /\ Known(r, m.name)
          /\ own' = Append(own, [name |-> m.name, socket |-> m.socket])
          /\ UNCHANGED registry
       \/ /\ ~Known(r, m.name)
          /\ registry' = [registry EXCEPT ![leader] = Registered(r, m)]
          /\ UNCHANGED own
    /\ UNCHANGED <<passengers_address, pongs, passengerVars>>

\* The handler of BusyDriver: remove from one map, insert into the other.
MovedToBusy(r, d) ==
    IF r.drivers[d] = None THEN r
    ELSE [r EXCEPT !.drivers[d] = None, !.busy_drivers[d] = r.drivers[d]]

BusyDriver(d) ==
    /\ Received(d, "busy_driver")
    /\ registry' = [registry EXCEPT ![leader] = MovedToBusy(@, d)]
    /\ UNCHANGED <<passengers_address, own, pongs, passengerVars>>

\* The handler of UpdateDriver: back again, at another position.
MovedToAvailable(r, d, pos) ==
    IF r.busy_drivers[d] = None THEN r
    ELSE [r EXCEPT !.busy_drivers[d] = None,
                   !.drivers[d] = [r.busy_drivers[d] EXCEPT !.position = pos]]

UpdateDriver(d) ==
    /\ Received(d, "available_driver")
    /\ registry' =
          [registry EXCEPT ![leader] = MovedToAvailable(@, d, Head(wire[d]).position)]
    /\ UNCHANGED <<passengers_address, own, pongs, passengerVars>>

Connection(i, p, n) == [id |-> i, passenger |-> p, start |-> n]

\* Mutant: the connection is stored only with an id that is new.
KeepsFirst(a, i, p, n) ==
    IF \E x \in a : x.id = i THEN a ELSE a \cup {Connection(i, p, n)}

\* insert on the HashMap of connections.
WithAddress(a, i, p, n) == {x \in a : x.id # i} \cup {Connection(i, p, n)}

\* Mutant: an id below the counter is handed out.
OneBelow(r, p) == IF r.passengers[p] # 0 THEN r.passengers[p] ELSE r.ids_count - 1

\* The id a name has, or the one it is given now.
IdFor(r, p) == IF r.passengers[p] # 0 THEN r.passengers[p] ELSE r.ids_count + 1

CountAfter(r, p) == IF r.passengers[p] # 0 THEN r.ids_count ELSE r.ids_count + 1

LoggedIn(r, p) ==
    [r EXCEPT !.ids_count = CountAfter(r, p), !.passengers[p] = IdFor(r, p)]

\* The answer goes to the connection that the login came from.
PassengerLogin(p) ==
    LET m == Head(wire[p])
        i == IdFor(registry[leader], p)
    IN
    /\ Received(p, "login")
    /\ registry' = [registry EXCEPT ![leader] = LoggedIn(@, p)]
    /\ passengers_address' = [passengers_address EXCEPT ![leader] = WithAddress(@, i, p, m.start)]
    /\ replies' = IF m.start = starts[p] THEN [replies EXCEPT ![p] = Append(@, i)] ELSE replies
    /\ UNCHANGED <<own, pongs, id, starts>>

\* The message to the passenger found in passengers_address is not kept.
ReconnectDriver(d) ==
    LET m == Head(wire[d]) IN
    /\ Received(d, "reconnect_driver")
    /\ own' = Append(own, [name |-> m.name, socket |-> m.socket])
    /\ UNCHANGED <<registry, passengers_address, pongs, passengerVars>>

\* The info of a driver, if it is there, with another socket.
AtSocket(info, s) == IF info = None THEN None ELSE [info EXCEPT !.socket = s]

\* Mutant: only busy drivers are looked up.
WithSocketIfBusy(r, d, s) ==
    [r EXCEPT !.busy_drivers[d] = AtSocket(r.busy_drivers[d], s)]

WithSocket(r, d, s) ==
    [r EXCEPT !.drivers[d]      = AtSocket(r.drivers[d], s),
              !.busy_drivers[d] = AtSocket(r.busy_drivers[d], s)]

UpdateDriverSocket ==
    LET m == Head(own) IN
    /\ own # <<>>
    /\ own' = Tail(own)
    /\ registry' = [registry EXCEPT ![leader] = WithSocket(@, m.name, m.socket)]
    /\ UNCHANGED <<alive, leader, passengers_address, pongs, netVars, pending,
                   driverVars, passengerVars, counts>>

\* Answer to the ping of a replica, whenever it comes.
Pong(s) ==
    /\ leader # None /\ s \in alive \ {leader}
    /\ counts.pongs < MaxPongs
    /\ counts' = [counts EXCEPT !.pongs = @ + 1]
    /\ pongs' = [pongs EXCEPT ![s] = Append(@, registry[leader])]
    /\ UNCHANGED <<alive, leader, registry, passengers_address, own, netVars, pending,
                   driverVars, passengerVars>>

\* Also a server that has been elected meanwhile may still read one.
UpdateNetworkState(s) ==
    /\ s \in alive
    /\ pongs[s] # <<>>
    /\ pongs' = [pongs EXCEPT ![s] = Tail(@)]
    /\ registry' = [registry EXCEPT ![s] = Head(pongs[s])]
    /\ UNCHANGED <<alive, leader, passengers_address, own, netVars, pending,
                   driverVars, passengerVars, counts>>

\* What the process held and what it had not read is lost; what it sent is not.
LeaderCrash ==
    /\ leader # None
    /\ counts.leader_crashes < MaxLeaderCrashes
    /\ counts' = [counts EXCEPT !.leader_crashes = @ + 1]
    /\ alive' = alive \ {leader}
    /\ leader' = None
    /\ registry' = [registry EXCEPT ![leader] = Empty]
    /\ passengers_address' = [passengers_address EXCEPT ![leader] = {}]
    /\ own' = <<>>
    /\ wire' = [c \in Client |-> <<>>]
    /\ UNCHANGED <<pongs, up, link, retries, pending, driverVars, passengerVars>>

\* The outcome of an election: the highest survivor starts to listen.
Elect ==
    /\ leader = None /\ alive # {}
    /\ leader' = Highest(alive)
    /\ UNCHANGED <<alive, registry, passengers_address, own, pongs, netVars, pending,
                   driverVars, passengerVars, counts>>

-----------------------------------------------------------------------------
(* Clients: the connection to the leader.                                  *)

\* Connected to a server that runs.
Linked(c) == link[c] \in alive

\* m is written to the connection; if its receiver has stopped, the same
\* message goes into a Reconnect.  A peer that is gone loses it unnoticed.
Send(c, m) ==
    /\ wire' = IF Linked(c) THEN [wire EXCEPT ![c] = Append(@, m)] ELSE wire
    /\ retries' = IF link[c] = None THEN [retries EXCEPT ![c] = Append(@, m)] ELSE retries

\* The TcpReceiver reads the end of the stream and stops.
NoticeEof(c) ==
    /\ c \in up
    /\ link[c] # None /\ ~Linked(c)
    /\ link' = [link EXCEPT ![c] = None]
    /\ UNCHANGED <<serverVars, up, wire, retries, pending, driverVars, passengerVars, counts>>

\* Reconnect: connect_to_server_leader, then the message again.
Reconnect(c) ==
    /\ c \in up
    /\ pending[c] = "none"
    /\ retries[c] # <<>>
    /\ retries' = [retries EXCEPT ![c] = Tail(@)]
    /\ \/ /\ leader # None
          /\ link' = [link EXCEPT ![c] = leader]
          /\ wire' = [wire EXCEPT ![c] = Append(@, Head(retries[c]))]
       \/ leader = None /\ UNCHANGED <<link, wire>>
    /\ UNCHANGED <<serverVars, up, pending, driverVars, passengerVars, counts>>

-----------------------------------------------------------------------------
(* Drivers.                                                                *)

Saved(d) == [is_available |-> is_available[d], position |-> position[d],
             id_current_passenger |-> id_current_passenger[d],
             driver_socket |-> driver_socket[d]]

\* What d sends when it starts: a ride that was under way is announced first.
Announced(d, f) ==
    IF f.is_available THEN <<>>
    ELSE <<[type |-> "reconnect_driver", name |-> d,
            id_passenger |-> f.id_current_passenger, socket |-> f.driver_socket]>>

\* The last start, if any, left d busy, by its file.
InMidRide(d) == file[d] # None /\ ~file[d].is_available

\* The process connects, binds its socket and, with recovery, handles Recovery
\* with the file; without, it is free, also when its file says otherwise.
StartDriver(d) ==
    /\ d \notin up /\ leader # None
    /\ up' = up \cup {d}
    /\ link' = [link EXCEPT ![d] = leader]
    /\ pending' = [pending EXCEPT ![d] = "register"]
    /\ \/ /\ file[d] # None
          /\ is_available' = [is_available EXCEPT ![d] = file[d].is_available]
          /\ position' = [position EXCEPT ![d] = file[d].position]
          /\ id_current_passenger' =
                [id_current_passenger EXCEPT ![d] = file[d].id_current_passenger]
          /\ driver_socket' = [driver_socket EXCEPT ![d] = file[d].driver_socket]
          /\ wire' = [wire EXCEPT ![d] = @ \o Announced(d, file[d])]
          /\ abandoned' = IF InMidRide(d) THEN abandoned \ {d} ELSE abandoned
          /\ UNCHANGED counts
       \/ /\ is_available' = [is_available EXCEPT ![d] = TRUE]
          /\ position' = [position EXCEPT ![d] = 0]
          /\ id_current_passenger' = [id_current_passenger EXCEPT ![d] = 0]
          /\ driver_socket' = [driver_socket EXCEPT ![d] = counts.sockets + 1]
          /\ counts' = [counts EXCEPT !.sockets = @ + 1]
          /\ abandoned' = IF InMidRide(d) THEN abandoned \cup {d} ELSE abandoned
          /\ UNCHANGED wire
    /\ UNCHANGED <<serverVars, retries, file, rider, passengerVars>>

\* The position it registers is the one it was started with, not its own.
Register(d) ==
    /\ d \in up /\ pending[d] = "register"
    /\ Send(d, [type |-> "new_driver", name |-> d, socket |-> driver_socket[d], position |-> 0])
    /\ file' = [file EXCEPT ![d] = Saved(d)]
    /\ pending' = [pending EXCEPT ![d] = "none"]
    /\ UNCHANGED <<serverVars, up, link, is_available, position, id_current_passenger,
                   driver_socket, rider, abandoned, passengerVars, counts>>

\* A free driver accepts the ride of p, whatever the server has told p; the
\* file is written before the server is told.
RequestRide(d, p) ==
    /\ d \in up /\ pending[d] = "none" /\ is_available[d]
    /\ p \in up /\ pending[p] = "none"
    /\ \A e \in Drivers : rider[e] = p => IF e \in up THEN is_available[e]
                                         ELSE file[e].is_available
    /\ counts.rides < MaxRides
    /\ counts' = [counts EXCEPT !.rides = @ + 1]
    /\ is_available' = [is_available EXCEPT ![d] = FALSE]
    /\ id_current_passenger' = [id_current_passenger EXCEPT ![d] = id[p]]
    /\ rider' = [rider EXCEPT ![d] = p]
    /\ file' = [file EXCEPT ![d] = [Saved(d) EXCEPT !.is_available = FALSE,
                                                    !.id_current_passenger = id[p]]]
    /\ pending' = [pending EXCEPT ![d] = "busy"]
    /\ UNCHANGED <<serverVars, netVars, position, driver_socket, abandoned, passengerVars>>

\* The rest of the handler of RequestRide.
TellBusy(d) ==
    /\ d \in up /\ pending[d] = "busy"
    /\ Send(d, [type |-> "busy_driver", name |-> d])
    /\ pending' = [pending EXCEPT ![d] = "none"]
    /\ UNCHANGED <<serverVars, up, link, driverVars, passengerVars, counts>>

\* The server is told before the file is written.
EndRide(d) ==
    /\ d \in up /\ pending[d] = "none" /\ ~is_available[d]
    /\ retries[d] = <<>>
    /\ position' = [position EXCEPT ![d] = counts.rides]
    /\ Send(d, [type |-> "available_driver", name |-> d, position |-> counts.rides])
    /\ is_available' = [is_available EXCEPT ![d] = TRUE]
    /\ abandoned' = abandoned \ {d}
    /\ pending' = [pending EXCEPT ![d] = "save"]
    /\ UNCHANGED <<serverVars, up, link, id_current_passenger, driver_socket, file, rider,
                   passengerVars, counts>>

\* save_state at the end of the handler of EndRide.
SaveState(d) ==
    /\ d \in up /\ pending[d] = "save"
    /\ file' = [file EXCEPT ![d] = Saved(d)]
    /\ pending' = [pending EXCEPT ![d] = "none"]
    /\ UNCHANGED <<serverVars, netVars, is_available, position, id_current_passenger,
                   driver_socket, rider, abandoned, passengerVars, counts>>

\* What was written to the connection still arrives; the actor's mailbox does not survive.
DriverCrash(d) ==
    /\ d \in up
    /\ counts.driver_crashes < MaxDriverCrashes
    /\ counts' = [counts EXCEPT !.driver_crashes = @ + 1]
    /\ up' = up \ {d}
    /\ link' = [link EXCEPT ![d] = None]
    /\ retries' = [retries EXCEPT ![d] = <<>>]
    /\ pending' = [pending EXCEPT ![d] = "none"]
    /\ is_available' = [is_available EXCEPT ![d] = TRUE]
    /\ position' = [position EXCEPT ![d] = 0]
    /\ id_current_passenger' = [id_current_passenger EXCEPT ![d] = 0]
    /\ driver_socket' = [driver_socket EXCEPT ![d] = 0]
    /\ UNCHANGED <<serverVars, wire, file, rider, abandoned, passengerVars>>

-----------------------------------------------------------------------------
(* Passengers.                                                             *)

\* The process of p starts, for the first time or after it crashed, also before
\* its login or during a ride; with recovery it may have the id of before.
StartPassenger(p) ==
    /\ leader # None
    /\ counts.logins < MaxLogins
    /\ counts' = [counts EXCEPT !.logins = @ + 1]
    /\ up' = up \cup {p}
    /\ link' = [link EXCEPT ![p] = leader]
    /\ retries' = [retries EXCEPT ![p] = <<>>]
    /\ replies' = [replies EXCEPT ![p] = <<>>]
    /\ starts' = [starts EXCEPT ![p] = @ + 1]
    /\ pending' = [pending EXCEPT ![p] = "login"]
    /\ \E i \in {0, id[p]} : id' = [id EXCEPT ![p] = i]
    /\ UNCHANGED <<serverVars, wire, driverVars>>

Login(p) ==
    /\ p \in up /\ pending[p] = "login"
    /\ Send(p, [type |-> "login", name |-> p, start |-> starts[p]])
    /\ pending' = [pending EXCEPT ![p] = "none"]
    /\ UNCHANGED <<serverVars, up, link, driverVars, passengerVars, counts>>

CompleteLogin(p) ==
    /\ replies[p] # <<>>
    /\ replies' = [replies EXCEPT ![p] = Tail(@)]
    /\ id' = [id EXCEPT ![p] = Head(replies[p])]
    /\ UNCHANGED <<serverVars, netVars, pending, driverVars, starts, counts>>

-----------------------------------------------------------------------------
Handle(c) ==
    \/ /\ c \in Drivers
       /\ NewDriver(c) \/ BusyDriver(c) \/ UpdateDriver(c) \/ ReconnectDriver(c)
    \/ c \in Passengers /\ PassengerLogin(c)

\* What a client that runs does without being asked.
ClientStep(c) ==
    \/ NoticeEof(c) \/ Reconnect(c)
    \/ c \in Drivers /\ (Register(c) \/ TellBusy(c) \/ SaveState(c))
    \/ c \in Passengers /\ (Login(c) \/ CompleteLogin(c))

Next ==
    \/ UpdateDriverSocket \/ LeaderCrash \/ Elect
    \/ \E s \in Server : Pong(s) \/ UpdateNetworkState(s)
    \/ \E c \in Client : Handle(c) \/ ClientStep(c)
    \/ \E d \in Drivers : StartDriver(d) \/ EndRide(d) \/ DriverCrash(d)
    \/ \E d \in Drivers, p \in Passengers : RequestRide(d, p)
    \/ \E p \in Passengers : StartPassenger(p)

\* Actors are never starved and what was written is read; crashes, starts, pings
\* and rides happen or not.
Fairness ==
    /\ WF_vars(UpdateDriverSocket)
    /\ WF_vars(Elect)
    /\ \A s \in Server : WF_vars(UpdateNetworkState(s))
    /\ \A c \in Client : WF_vars(Handle(c)) /\ WF_vars(ClientStep(c))

Spec     == Init /\ [][Next]_vars
FairSpec == Spec /\ Fairness

-----------------------------------------------------------------------------
(* Properties.                                                             *)

\* What UpdateNetworkState, PassengerLogin and the handlers of drivers must keep
\* true of the fields of a Server, replicated or on their way to a replica:
\* no driver is available and busy at once,
OneStateEach(r) == \A d \in Drivers : r.drivers[d] = None \/ r.busy_drivers[d] = None

\* and the id of a name is an id that no other name has.
DriverId(r, d) == IF r.drivers[d] # None THEN r.drivers[d].id ELSE r.busy_drivers[d].id
IdsDistinct(r) ==
    /\ \A d, e \in Drivers : Known(r, d) /\ Known(r, e) /\ d # e => DriverId(r, d) # DriverId(r, e)
    /\ \A d \in Drivers, p \in Passengers : Known(r, d) => DriverId(r, d) # r.passengers[p]
    /\ \A p, q \in Passengers :
          p # q /\ r.passengers[p] # 0 => r.passengers[p] # r.passengers[q]

RegistryConsistent ==
    \A s \in Server :
        /\ OneStateEach(registry[s]) /\ IdsDistinct(registry[s])
        /\ \A i \in DOMAIN pongs[s] : OneStateEach(pongs[s][i]) /\ IdsDistinct(pongs[s][i])

\* What this module takes of the election is the contract that module Election keeps.
Leadership == INSTANCE LeaderContract WITH
    running <- alive,
    leaders <- {leader} \ {None}

\* The login of the last process of p has been handled, if one runs.
LoginHandled(p) == pending[p] = "none" /\ wire[p] = <<>>

\* As long as the first leader runs, the id under which a driver keeps its
\* passenger leads ReconnectDriver to one connection, which is that passenger's,
\* also after either of the two was started again: to the one of the process that
\* runs as soon as its login has been handled, and until then to one of before.
\* An id of 0 is that of a login not answered yet.
RiderReachable ==
    counts.leader_crashes = 0 =>
        \A d \in Drivers :
            LET i == id_current_passenger[d]
                p == rider[d]
            IN  p # None /\ i # 0 =>
                \E n \in 1..starts[p] :
                    /\ {a \in passengers_address[leader] : a.id = i} = {Connection(i, p, n)}
                    /\ LoginHandled(p) => n = starts[p]

\* Driver d waits for a ride.
Free(d) == d \in up /\ is_available[d]

\* As long as the first leader runs, a free driver ends up among those the leader
\* offers, with the socket it listens on; where it is, only if it never crashed.
\* Not so a driver started without recovery in mid-ride: it is free and the leader,
\* which only takes its new socket (server.rs:127), keeps it among the busy ones.
FreeDriversListed ==
    <>[](counts.leader_crashes = 0 =>
            \A d \in Drivers \ abandoned : Free(d) =>
                LET info == registry[leader].drivers[d] IN
                /\ info # None
                /\ info.socket = driver_socket[d]
                /\ counts.driver_crashes = 0 => info.position = position[d])

-----------------------------------------------------------------------------
(* What a comment says, and the code does not do.                          *)

\* "reenviar el mensaje que no se pudo enviar al lider anterior, para no perder
\* ningun tipo de informacion del lado del server": a driver that is free and
\* stays connected ends up among those the leader offers.
NothingLost ==
    <>[](\A d \in Drivers : leader # None /\ Free(d) => registry[leader].drivers[d] # None)
=============================================================================
