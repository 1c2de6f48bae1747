# A verification project for ConcuRide

TLA+ models of ConcuRide (Rust, actix actors), the TLC configurations that check them on small
instances, and theorems about them with proofs for TLAPS. Source lines below are those of the
repository; `PROJECT.json` maps every definition to the lines it stands for.

ConcuRide is a distributed ride-hailing program: *servers* that elect a leader and replicate a
registry, *drivers* and *passengers* that are clients of the leading server and of each other, and
a *payment gateway*. All of them run on one machine; the address of a server is computed from its
id (`common/src/constants.rs`, five servers at most).

## 1. Inventory

### 1.1 Components, their state, their operations

| component | source | state | operations |
|---|---|---|---|
| Election and ring | `server/src/server.rs` | `id_leader`, `im_leader`, `leader_connection`, `disconnected_servers`, `actual_neighbor_id`, `sequence_number`, `message_received_ack` | `StartElection`, `WaitForNeighborAck`, `CheckIfNeighborAcked`, `Election`, `NewLeader`, `NeighborAck`, `ConnectToServer`, `update_neighbor` |
| UDP transport | `server/src/udp_receiver.rs`, `udp_sender.rs` | the socket | `Listen`: read one datagram, ack it, hand it on; `UdpMessage`: send |
| TCP between servers | `server/src/server_connection.rs`, `connection_listener.rs` | the link, `response_time` | `Ping`, the lines read from the leader, accepting |
| Server process | `server/src/main.rs` | - | start as leader, start as replica (find a leader, join, or exit), the timer of `Ping` |
| Registry | `server/src/server.rs`, `models/` | `drivers`, `busy_drivers`, `passengers`, `ids_count`, `passengers_address`, `servers` | `NewDriver`, `BusyDriver`, `UpdateDriver`, `UpdateDriverSocket`, `ReconnectDriver`, `PassengerLogin`, `GetDrivers`, `Pong`, `UpdateNetworkState` |
| Driver | `driver/src/` | `is_available`, `position`, `id_current_passenger`, its socket, `driver_<name>.json` | `Recovery`, `Register`, `RequestRide`, `PickUpPassenger`, `RideToDestination`, `EndRide`, `Reconnect`, `save_state`, and the conversation with the passenger |
| Passenger | `passenger/src/` | `info`, payment flags, candidate drivers, `passenger_<name>.json` | `Login`, `CompleteLogin`, `GetDrivers`, `RequestDriver`, `Traveling`, `ConfirmPayment`, `Recover`, `Reconnect` |
| Gateway | `gateway/src/` | none for the messages it is sent | `AuthorizePayment` (by chance), `ConfirmPayment` (always) |
| Common | `common/src/` | - | JSON lines, addresses, `connect_to_server_leader` |

### 1.2 How they interact

* Inside a process: messages to actor mailboxes, taken one at a time. Asynchronous handlers are
  `AtomicResponse`s, so no other message of the same actor is handled while one awaits. A handler
  that sends to its own actor queues behind whatever arrived meanwhile; several of the hazards come
  from that.
* Between servers: UDP on the ring for elections (with acks and a retry at the next neighbour),
  TCP from each replica to the leader for the heartbeat, whose answer carries a snapshot of the
  whole state of the leader.
* Clients to the leader: one TCP connection each, used for registration, login and the changes of
  a driver's availability. When a client finds that its connection has ended it looks for the new leader and
  sends the message again.
* Driver and passenger: a TCP connection of their own; afterwards both count the way of
  the ride independently, with the same `move_to`.

### 1.3 What is hard about it

Concurrent elections; retries over a channel that loses; acks that are identified by a number
different senders choose independently; a snapshot that replaces everything a server
knows, also on one that leads by now; messages lost between the crash of a leader and its discovery; two
writes (file and server) that a crash can separate; two processes that must
reach the end of a ride after the same number of steps on `u64`s. `PROJECT.json` lists each at its
line, with the property that would catch it, or with the reason why none does yet.

### 1.4 What makes each component correct

* **Ring.** `update_neighbor` ends, finds the next server that is not suspected, and says so
  exactly when there is one.
* **Election.** No server handles a message it has no socket for; until the first leader stops nobody
  else leads and nobody is suspected, unless a replica is held up for longer than the limit of its heartbeat. Left
  undisturbed (acks in time, no loss, no late heartbeat, no start and no crash during an election): one leader at a
  time, the highest survivor ends up leading and everybody knows it and is connected to it, no running server is
  taken for a stopped one however many elections run at once, and the traffic of an election dies out.
* **Registry.** In every copy a driver is in one map, a name has one id and an id one name; the
  leader ends up offering every free driver, at the socket it listens on, but one that was started without recovery in
  mid-ride; the id a driver stored leads back to its passenger, to the process that runs and not to one that has stopped.
* **Movement.** Driver and passenger both end, after the same number of steps, and no arithmetic
  wraps.
* **Ride.** A passenger gets one driver and a driver one passenger at a time, whatever crashes
  between the request, the answer and the two files; nobody travels that was not picked up; a payment is
  confirmed once and for a ride that took place; a driver becomes free again, and a passenger with a driver
  comes to an end, also after either was started again; nobody is forgotten by the protocol.

## 2. Modules

```
Ring            the ring of ids and what update_neighbor finds
  ^--EXTENDS--  RingProofs  <--EXTENDS--  RingLoop    the loop of update_neighbor, with its proof
  ^--EXTENDS--  Election           servers, UDP, TCP links, crashes, restarts
          |         ^------------  ElectionProofs (with RingProofs)  <--EXTENDS--  LeadershipProofs
          ^--EXTENDS--  MCElection (one course of Election, for TLC)
LeaderContract  what the servers promise            <--INSTANCE WITH--  Election, Registry
Registry        registry, replication, clients      <--  RegistryProofs
Motion          the two travellers of a ride        <--  MotionProofs
RideContract    what drivers promise passengers
  ^--INSTANCE WITH--  Ride         passengers, drivers, gateway, leader; crashes and recovery
                        |--EXTENDS--  MCRide                (symmetry, for TLC)
                        ^--EXTENDS--  RideProofs  <--EXTENDS--  RideWaitingProofs
```

**Ring** states what `update_neighbor` (server.rs:81-101) finds: an operator on (neighbour, own
id, suspects). It is the abstract specification of the search. **RingLoop** is the method as a
state machine, one state per iteration; a behaviour is one call. Its invariant
`LoopMatchesClosedForm` says that the loop implements Ring. `count = 1` stands for the code's
`count = 0` inside the loop, so that 0 can mean "not entered".

**Election** has one variable per field of `Server` that the election reads, indexed by server,
and a mailbox and a UDP buffer for each server. An action is a whole handler. `StartElection`,
`WaitForNeighborAck`, `CheckIfNeighborAcked`, `ElectionHandler`, `NewLeaderHandler`, `NeighborAck`,
`ConnectToServer`, `NewServerConnection`, `Pong`, `UpdateNetworkState` and `SetLeader` are the
handlers of the `Server` actor; `PingLiveLeader`, `PingTooLate` and `PingDeadLeader` are the timer of a replica, the
handler of `Ping` and what `ServerConnection` makes of it. A ping that is handled more than `MAX_RESPONSE_TIME` (5 s)
after the one before starts an election with the link open (server_connection.rs:67); it can happen to any
replica at any moment, up to `MaxLatePings` times. `faults` counts it (`late`), and the crashes that fell into an
election (`amid`), so that the properties that need a quiet course name it: `Undisturbed` is a condition on the state,
not on the constants. `ReceiveDatagram` is `UdpReceiver`;
`ReceivePong` is the reader of the TCP link. `StartReplica` and `JoinLeader` are
`servidor_replica`, including the replica that finds no leader and exits. `Crash` and `LoseDatagram` are the
environment. The messages a handler sends to its own actor go to the end of the mailbox, as
in the code, so the order of an ack and the check that waits for it is checked and not assumed.

**MCElection** is Election restricted to one course of crashes and detections, with every
interleaving inside it; without that the counterexample of `Failovers` is out of TLC's reach.

**LeaderContract** is the abstract specification of leadership: one leader, until it stops, then the highest of the
servers that run. It ties the next module to the last one: Election implements it with all its messages
(`KeepsLeadership`, mapping `leaders` to the servers whose `im_leader` is set), and Registry, in which an election
is one step, implements it too (theorem `LeadershipKept`), so that Registry takes nothing of an election that Election does
not keep. The contract has no starts of servers: a replica that is started *during* an election owns a UDP
socket before it looks for a leader (main.rs:85-136), can win the election with it, and then exits because nobody listens yet
(main.rs:175). `ElectionRejoin` has such starts, without the contract.

**Registry** has the fields of `Server` that the clients change, the copies of them in flight
to the replicas, the clients' connections (`link`, `wire`), their pending reconnections
(`retries`), the driver's state and its file. `Register` is one step;
`RequestRide`/`TellBusy` and `EndRide`/`SaveState` are two each, because between the write of the file and
the message to the server a crash matters. The election is the single step `Elect`: the highest
survivor leads, which is what `Election` shows (`KeepsLeadership` that nothing else happens, `HighestLeads` that it does). Positions are the number of rides
they result from, sockets the number of the bind that made them. A connection of a passenger is the number of the
process that opened it (`starts`), so that `passengers_address` may hold one whose process has stopped, and an answer
to a login that came from such a process reaches nobody. What a process wrote before it stopped is taken to be read before what the
next process of that name writes. A driver may be started with or without recovery, whatever its file says; one
started without recovery in mid-ride is in `abandoned` until it ends a ride: it is free, while the leader, which only
takes its new socket (server.rs:127), keeps it among the busy ones.

**Motion** is a ride from its acceptance to its end: the driver on its way to the passenger, the
message `driver_arrived`, and the two legs to the destination. The programs are started with
`cargo run`, a build with overflow checks, so the decrement of a coordinate that is 0 is a panic
that ends the actor (`"dead"`).

**Ride** has the fields of `Passenger` and `Driver` that the protocol reads, the file of each, one
mailbox per process and the part of the leader's state that a ride touches. One action is one handler:
`Login`, `GetDrivers`, `DriversHandler` (`CompleteGetDrivers`, `select_driver` and the connection to the
driver), `PaymentAuthorized`, `PaymentDeny`, `RequestDrive`, `RideAccepted`, `KeepLooking`,
`DriverArrived`, `TravelOn`/`TravelEnds` (`Traveling`), `Recover`, `RecoverResponse` and `ReconnectDriver` of
the passenger; `Register`, `Recovery`, `RefuseRide`/`AcceptRide` (`RequestRide`), `StartRide`,
`ApproachPassenger`/`PickUpPassenger`, `RideOn`/`ReachDestination` (`RideToDestination`), `EndRide`,
`PassengerRecover` and `ReconnectPassenger` of the driver; `Authorize` is the gateway's answer,
`TellPassenger` the leader's `ReconnectDriver`. Two handlers send something *before* they
wait for `save_state` (`AcceptRide` answers the passenger, `EndRide` tells the leader): for these the
write is a step of its own, `SaveState`, a crash may come in between, and `saving` keeps the
mailbox closed meanwhile. A connection is the process it ends in (`Process`: actor and
number of its start), so what is sent to a process that has been replaced is lost, and what a process of
before a crash was sent never reaches the next one. Positions are places of the ride they belong to (`"origin"`,
`"road"`, `"destination"`); which ways end is what Motion shows. `carried` is a history variable.

**RideContract** is the abstract specification: a driver takes a passenger, picks it up, is
free again, in this order; a passenger is taken by one driver, once. The refinement mapping is
`serving <- [d |-> PassengerOf(driver_file[d])]`: what binds a driver is what it has **on disk**. Mapped to
the memory of the drivers the contract would be broken by every crash; mapped to the file, a crash is a
stutter, acceptance happens when `SaveState` returns, and a passenger that was told "ok" by a driver that
then crashed was never taken.

### Abstractions

* A handler is one step; other actors and processes interleave between handlers.
* `Timely = TRUE` means that what a timeout waits for is waited for until it has come or cannot
  come any more: an ack within the 300 ms of `WaitForNeighborAck`, the announcement to the leader
  within the tries of `ConnectToServer`. `Timely = FALSE` lets every timeout run out at any moment.
* A link counts as closed for a replica once the Pongs received on it have been read. No leader hangs with its
  links open: one that runs goes on. (The code would not find such a leader out: `response_time`, which the
  limit is measured from, is set again by the replica's own pings, so that a missing answer goes unnoticed, and only the
  replica's own delay counts. README.md:1666 of the repository says that no answer before the next ping starts an election.)
* `disconnected_servers` is a set (the `Vec` is read only through `contains`, `retain` and copies).
* Mailboxes are unbounded (16 in the code), datagrams are well formed, and a process whose id is
  reused keeps nothing.

## 3. Runs

Every bound is a CONSTANT in a guard (`Max...`). Deadlock is not checked: once the bounds
are used up nothing more has to happen, and a ride ends.

| run | instance | shows |
|---|---|---|
| `RingLoop` | 5 servers, every id, neighbour and set of suspects | `LoopMatchesClosedForm`, `LoopEnds`: the loop computes Ring and ends |
| `ElectionSequential` | 5 servers, leader 1, 4 crashes in any order, none during an election, one server notices each | `NoLiveServerSuspected`, the refinement `KeepsLeadership`, `OnlyHighestAdopted`, `HighestLeads`, `SurvivorsConnected` |
| `ElectionFaults` | 3 servers, 2 crashes at any moment, 2 servers notice, so that two elections run at once, a lost datagram (642,955 states) | `TypeOK`, `LeaderDominatesSender`, `RingHandlersHaveSocket`; as long as `Undisturbed`, `NoLiveServerSuspected` and `OnlyHighestAdopted` with the two elections |
| `ElectionRejoin` | 3 servers, 2 crashes, a replica started again at any moment, a heartbeat in time and a late one (427,794 states) | `ReignUndisturbed`, `TokensDrain`, `LeaderTrustsItsReplicas` |
| `Registry` | 2 servers, 1 driver, 1 passenger, a crash of the leader and of the driver, with a start after it with or without recovery, 2 starts of the passenger, 1 ride, 1 snapshot, under `FairSpec` (343,552 states) | `TypeOK`, `RegistryConsistent`, `RiderReachable`, `FreeDriversListed` |
| `Ride` | 2 drivers, 2 passengers, 4 starts, 2 crashes, 1 denied payment, with symmetry (384,798 states) | `TypeOK`, `OneDriverEach`, `TravelsCarried`, `PaysForRide`, `NobodyForgotten`, and the refinement `KeepsContract` |
| `RideEnds` | 1 driver, 2 passengers, 4 starts, 1 crash, under `FairSpec` | `DriversFreed`, `RidersArrive` |
| `Motion` | every start, origin and destination on a 5 x 5 grid, 7 moves a leg | `TypeOK`, `EndsOnTime`, `RideEnds` |

**Why these bounds.** Five servers are all there are (`MAX_SERVERS`), and four crashes one after
the other leave one: they cover up to four elections in a row, in which the sequence numbers and acks of the
earlier ones are still there. The four scenarios of the end-to-end test
`tests/test_eleccion_lider.py` are behaviours of `ElectionSequential`. Crashes during an election multiply the states: three servers with
two crashes and two detectors are the smallest ring where two tokens and a retry meet; that is where the properties
about elections running at once are checked (`ElectionFaults`), since in `ElectionSequential` one server notices each
crash. `KeepsLeadership` with elections at once is the theorem `ContractKept`, not a run. One late heartbeat is
enough for an election against a leader that runs, with a restart and a crash around it; `LeaderTrustsItsReplicas` is claimed
without one, because server 1, once it has rejoined, records as leader the id 1 while it is linked to
another server (main.rs:147), and the election it would start marks itself. Which leader
is the first matters only for who owns no UDP socket. For the registry, two starts let the
passenger come back, before its login, with its login unread or during the ride, when the entry of
`passengers_address` is that of the process before, and a failover with one snapshot leaves a successor with an
old, or an empty, copy. One driver is enough there for the order of messages, as no handler relates two drivers; that
the ids of two drivers, or of two passengers, never collide and never lead to another passenger is what the proofs
cover (`RegistriesConsistent`, `RidersReachable`). On the grid, gaps of 0 to 4 give
every parity and the case of a target at 0; seven moves are three more than the longest way.

Four starts among two drivers and two passengers let all four run, or leave one or two of them out for
one that is started again; two crashes (of any two processes, or of one twice) meet at every place between the
request, the answer, the files and the arrival. They are the smallest bounds with two drivers asked by one passenger and
two passengers at one driver, both with a recovery. The four starts leave no second start to anyone when all four
processes run; the proofs, which hold for any number of starts and crashes, cover that.
`RideEnds` has one driver so that both passengers want it; with the fourth start one of the three comes back.
No definition tells two drivers or two passengers apart, so the symmetry of `MCRide` is sound; it is used with
the safety properties and the refinement only, never with liveness.

**The heartbeat bound.** `MaxElections` counts, per crash, how many servers notice the dead leader
by themselves before an election message tells them. With `1`, which one is free.

### Runs that end in a violation

Each checks one statement of a comment or a document that the code does not keep.

| run | statement | what happens |
|---|---|---|
| `StaleAck` | server.rs:509, README.md:394: without an ack the message is sent on to the next neighbour | `AckedNeighborRuns`: a forwarded `NewLeader` keeps its sender's number, so its ack is recorded under a number the relay uses itself later; that old ack answers for a neighbour that has stopped |
| `NothingLost` | driver.rs:110: no information of the server is lost | `NothingLost`: what was written before the end of the stream was read, or registered but not replicated, is gone |
| `Failovers` | server.rs:421: `StartElection` marks the current leader, which has stopped, as disconnected | `MarksStoppedLeader`: `Ping` queues a `StartElection` that does not say which leader it is about; an `Election` handled before it sets `id_leader` to a server that runs, and this one is marked instead. Four servers; the elected leader stops while a second election of the same failover still goes round |
| `PaidPerRide` | passenger.rs:497: "if the driver has already left me at my destination" | `PaidPerRide`: 1 driver, 1 passenger, 3 starts, 1 crash. `end_ride` is `position == destination`, also for a driver that is still on its way to the passenger and happens to stand there: the passenger that asks at that moment pays and exits without a ride |

`NothingLost` is temporal and checked under `FairSpec`; the other three are invariants.

`Failovers` has a consequence: continued, the course lets a running server be suspected by others, a token
pass it by, and two servers lead at once. It needs four servers and a crash *during* an election. `NoLiveServerSuspected`
and `OnlyHighestAdopted` are therefore claimed as long as `Undisturbed` holds, and `KeepsLeadership` for spaced crashes
(`CrashesAnytime = FALSE`); `LeadershipProofs` shows
that nothing of the kind happens then.

A late heartbeat has one, too: the leader it deposes runs, and where it is the first leader it has no UDP
socket to be told of it. All that is claimed after one is that the traffic dies out (`TokensDrain`) and what
`ElectionProofs` shows for any faults.

Two limits were met while modelling that are not runs. A second crash that takes the token of an
election with it leaves the servers that took part without a leader connection, so that none of them
notices again (the reason why `HighestLeads` is stated for crashes between elections). And a coordinate that has
arrived is decremented by `move_to`, so that a step can lead away from the target: `EndsOnTime` and `RideEnds` say
which ways end all the same.

What `StaleAck` finds has a consequence: the last of five servers, after three elections,
sends an `Election` to a server it does not know to have stopped, takes the old ack for its answer,
and neither leads nor tries again. `HighestLeads` and `SurvivorsConnected` are therefore stated
under `AcksUnambiguous`, which leaves out a lone survivor that holds acks of earlier
elections, and nothing else; a lone survivor without any (the test's "queda replica sola") is
included. With at most three crashes `AckedNeighborRuns` itself holds, so that no wrong ack is taken
while two servers run.

### Fairness

`Election!Fairness`: weak fairness of every server's actor, of its timer, of the reader of
its socket and of its links, and of a starting replica. The runtime schedules actors
with messages and timers that are due; an actor is taken as one process, so that
fairness says only that it goes on, not which handler. Crashes, losses, restarts and the answered heartbeats have
none: a property may not rely on them. `Registry!Fairness`: the leader reads what was
written to it, replicas read their snapshots, clients do what they have to do by themselves, a
survivor gets elected. Crashes, starts, rides and pings have none. `Motion!FairSpec`: both timers
fire and the message arrives. `Ride!Fairness`: weak fairness only, of every actor (as one process: the runtime
goes on with an actor that has a message, whichever it is), of the gateway's answer, of the leader's delivery,
and of the end of a way (`TravelEnds`, `PickUpPassenger`, `ReachDestination`), which stands for the counting that
Motion has in full and assumes a way that ends. Starts and crashes have none. `RingLoop`: the loop runs on.

## 4. Proofs

All are proved for every value of the constants, from `MaxServersAssumption`,
`ElectionAssumption`, `RegistryAssumption`, `MotionAssumption`, `RideAssumption` and `NoneAssumption` (`None` is
none of the values it stands beside).

* **RingProofs** `NeighborNotSuspected`: when `update_neighbor` finds a neighbour, it is a server
  of the ring that is not suspected. The step is that a non-empty set of eligible ids has one at the least
  distance (`FirstEligibleProperties`), from the least number of a set of naturals.
* **RingLoop** `LoopCorrect`: the loop computes the closed form for a ring of any size.
  The invariant adds `Walked`: every id already passed is not eligible, and there are `count - 1` of them, so
  that the counter that ends the loop can cut off nothing but a full round.
* **ElectionProofs** `TypeCorrect`, `AnnouncementsDominate`, `SocketWhenNeeded`: with any
  number of servers, crashes, restarts, losses and late acks. `RingHandlersHaveSocket` is not inductive:
  nothing in it keeps an `election` out of the middle of a mailbox. `NoSocketOK` says
  that a process without a socket has only messages in its mailbox that do not make it join the ring, an empty buffer, and no
  leader connection (with one it would start an election). `LeaderDominatesSender` needs that
  an announcement is good wherever it is, also inside the `wait` and `check` a retry sends again
  (`GoodMessage`, `MailboxOK`, `SocketOK`). There is one lemma per action, and helper lemmas for
  `Consume`, `SendToNeighbor`, `ProclaimItself` and `Stop`. `ReignIsCalm` is about the reign of the first leader, under
  the same faults, replicas that stop and join included, until a heartbeat is late: `ReignInv` says that until then and until it stops no mailbox, buffer or link
  carries anything of the ring or a snapshot with a suspect, and every open link ends at the first leader.
* **LeadershipProofs** `NobodyLiveSuspected` and `OnlyTheHighest` assume `Timely` only; crashes at any
  moment, losses, restarts and late heartbeats may happen, and the properties speak of the course until the first of them
  (`Undisturbed`, which once false stays false). `ContractKept` is a refinement and has no such condition: it assumes `Spaced`, which is
  `Timely`, no crash during an election, no loss, no late heartbeat and nobody started again - the constants of
  `ElectionSequential`, but for any ring, any number of crashes, heartbeats and servers that notice at once; then
  every state is undisturbed (`SpacedUndisturbed`). The invariant
  is `LInv(L)`, L being the leader that stopped last. The argument is about *where* an election is: seen from
  the server it goes to next, its list is an arc of the ring that leaves out only servers still to come (`Arc`). So
  it is back at a server of its list only when the list is all that run, and its highest id is the highest that runs.
  No server that runs is passed by because each one's neighbour is the nearest that runs, but for those known to have
  stopped (`Near`); that needs that no running server is suspected (`Trusting`), which needs that a check finds
  the ack of a neighbour that runs, in the set of acks or ahead of it in the mailbox (`Answered`, `Ordered`); and that a
  link that has ended is one to L (`Orphaned`). `ContractKept` is the step simulation to LeaderContract.
* **RegistryProofs** `TypeCorrect`, `RegistriesConsistent`: no driver in two maps and no id with two
  names, in any copy, through any number of failovers. The strengthening is
  `IdsBounded`: no id is above the counter *of the same registry*. As a snapshot carries its counter with it,
  the next id is new wherever the snapshot is installed; without this, a failover that sets
  the counter back could not be shown harmless. Each operator on registries (`Registered`,
  `MovedToBusy`, `MovedToAvailable`, `WithSocket`, `LoggedIn`) has a lemma that it keeps a registry good.
  `RidersReachable`: `SteadyInv` says that, until the first leader stops, every id that is written down or under way for a
  passenger (at the passenger, in an answer to a login, in the memory or the file of a driver) is the one the registry has for
  it; that `passengers_address` has one connection under an id (`AddressesKept`); and that the one under the id of a passenger is of one of
  its processes, the last one unless a login of it is still to be handled (`Reached`). That needs that the logins
  on the way are of its processes and the one of the last process is behind the others (`LoginsInOrder`).
  `LeadershipKept`: Registry implements LeaderContract; the step is that a non-empty set of servers has a highest.
* **MotionProofs** `TypeCorrect`, `RidesEndOnTime`: a ride that ends took exactly the larger
  gap (two steps if there is none), for both travellers, and its ways were aligned. The invariant gives the position in
  closed form after k moves (`At`, `OnWay`): on its way, then swinging between the target and one below. Hence a way whose gaps
  differ in parity never ends.
* **RideProofs** `TypeCorrect`, `OneDriver`, `NobodyTravelsAlone`, `ContractKept`:
  for any number of drivers, passengers, starts and crashes. None of the properties is inductive: that no second
  driver takes a passenger depends on there being no second request for one, in any mailbox. The invariant `IInv`
  follows two tokens. The *search* of a passenger is in one place at most: one message of its own mailbox, or
  the gateway, or one request in one driver's mailbox, and there is none once a driver has the passenger or it was
  carried (`Exclusive`). The *way* of a driver is one message of its own mailbox, and only a busy driver has one
  (`DriverInv`). Around these, the invariant says what is known after a crash: a process that recovers does so before
  anything else (`DriverRecovers`, `PassengerRecovers`); a request leaves only after the authorisation is on disk, so
  that a passenger that asked and crashed does not ask again (`PassengerSaves`); file and memory of a driver
  name the same passenger but while `SaveState` is due; and whom a driver may be told to be its
  passenger by a message under way (`DriverKnows`). There is one lemma per action; `NeutralPassenger`, `NeutralDriver`,
  `WayStep` and the `Frame` lemmas carry the parts an action does not disturb. `RidesPaidOnce`: `FirstRidesInv` adds that while nothing crashed and
  no passenger was started twice no message of a recovery is under way, so that only the end of a journey
  pays, and it ends the only process of its passenger. `ContractKept` proves the step simulation: `SaveState` of an acceptance is
  `Take`, `PickUpPassenger` is `PickUp`, `SaveState` of an end is `SetFree`, all else stutters.
* **RideWaitingProofs** `NobodyIsForgotten`: for any number of drivers and passengers, and of crashes of
  *passengers*. The property looks only at a passenger with an empty mailbox; the invariant, `NobodyLostInv`, says of
  every passenger that runs what makes it go on (`GoesOn`): the gateway, a message of its own, a driver that is
  asked by *this* process or on its way to it, or one of the settled cases. That a step keeps it rests on what the
  two sides know of each other across a passenger's crash. A driver answers the process that asked last: its mailbox
  holds what one passenger sent in the order of the passenger's starts, and the connection it remembers
  is no later than any of it (`InOrder`, `Precedes` in `Newest`); without that a late message of a dead process could take
  the answer away from the living one. The driver a passenger knows, in memory, on disk or from an answer under way, runs
  and has it or had it (`DriverStays`), so that a recovery is not addressed to nobody. A driver that is free after a
  ride stands at the destination (`FirstWay`), which is what `PassengerRecover` looks at to say `end_ride`; were it
  anywhere else, a passenger that returns late would be told to wait on. A process that has still to recover
  has asked nobody (`Fresh`), and one about to ask has somebody to ask (`Connected`). All of this needs that no driver crashed:
  one that is started again has lost its mailbox, its connection and what it had not saved.

**Only model-checked:** all liveness (`LoopEnds`, `HighestLeads`, `SurvivorsConnected`,
`TokensDrain`, `LeaderTrustsItsReplicas`, `FreeDriversListed`, `RideEnds`, `DriversFreed`, `RidersArrive`), because TLAPS does not
prove statements with fairness and ENABLED here. Every invariant, action property and refinement a passing run checks is
stated by a theorem, `KeepsLeadership` for the courses that `Spaced` allows. Acks that come late (`Timely = FALSE`) are covered by the proofs of ElectionProofs, which do not depend
on `Timely`; no run has them.

## 5. What is not modelled

* In Ride: a failover of the leader (Registry has it, for the clients' messages to the leader), clients that are
  started without recovery although they have a file, a request sent with the id 0 before the login was
  answered, distances (any driver of the list may be the first in reach, and none is beyond `MAX_RANGE`), delay
  on a connection beyond the mailbox it ends in, and a socket that cannot be bound again after a crash (`TIME_WAIT`).
  The gateway's list of connections is never read.
* A leader that hangs with its links open, mailboxes that are full,
  datagrams with unreadable fields.
* Serialisation, argument parsing, logging; the gateway's `PassengerLogin`, which nobody sends.
* A crash in the middle of `save_state` (truncate, then write).
* `file` is `passenger_<name>.json` only as far as the id: a restarted passenger has its old id or none.

## 6. Plan

1. Done: Ring, RingLoop, Election, Registry, Motion, Ride and the two contracts with their runs, and the proofs above.
2. Proofs: `RiderReachable` beyond the first leader, for the riders a snapshot had when it was sent; which of the election's
   properties hold with losses (`Undisturbed` without `faults.losses = 0`).
3. The leader's failover inside Ride: `registry` and `passengers_address` replaced by a snapshot while rides go on.
