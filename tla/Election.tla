------------------------------ MODULE Election ------------------------------
(***************************************************************************)
(* Leader election between the servers of ConcuRide (server/src).          *)
(*                                                                         *)
(* A server process is one Server actor with a FIFO mailbox, a UdpReceiver *)
(* actor that reads the process's UDP socket, and at most one useful       *)
(* ServerConnection actor, its TCP link to the leader.  Handlers run to    *)
(* the end before the next message of the mailbox is taken (AtomicResponse *)
(* for the asynchronous ones), so a handler is one step.                   *)
(*                                                                         *)
(* Covered: every handler of Server that the election, the membership of   *)
(* the ring or the heartbeat goes through, the datagrams with their acks   *)
(* and sequence numbers, the start of a replica, crashes, loss of          *)
(* datagrams, and the snapshots of disconnected_servers that Pong carries. *)
(* Not covered: drivers and passengers (module Registry), a leader that    *)
(* hangs with its links open, the capacity of the mailboxes.               *)
(***************************************************************************)
EXTENDS Ring, Sequences, FiniteSets

CONSTANTS
    FirstLeader,     \* the server started with es-lider = true
    Replicas,        \* the servers that joined it before the behaviour begins
    None,            \* no connection
    MaxCrashes,      \* bound: crashes of server processes
    MaxRestarts,     \* bound: replicas started again after a crash
    MaxPings,        \* bound: heartbeats answered by a live leader
    MaxLatePings,    \* bound: heartbeats handled more than 5 s after the last one
    MaxElections,    \* bound: servers that notice a dead leader themselves, per crash
    MaxLosses,       \* bound: datagrams lost by the network
    Timely,          \* TRUE: what a timeout waits for arrives in time if it arrives at all
    CrashesAnytime   \* FALSE: no crash while an election is under way

ASSUME ElectionAssumption ==
    /\ FirstLeader \in Server
    /\ Replicas \subseteq Server \ {FirstLeader}
    /\ None \notin Server
    /\ {MaxCrashes, MaxRestarts, MaxPings, MaxLatePings, MaxElections, MaxLosses} \subseteq Nat
    /\ {Timely, CrashesAnytime} \subseteq BOOLEAN

VARIABLES
    alive,                 \* server processes that run
    joining,               \* replicas started, not yet connected to a leader
    udp_sender,            \* servers that own a UDP socket (the first leader does not)
    id_leader, im_leader,
    leader_connection,     \* leader_connection[s]: the Option is Some
    link,                  \* peer of the open TCP link of s's ServerConnection, or None
    servers,               \* replicas a leader holds an address of
    disconnected_servers,  \* the Vec of suspects, as a set
    actual_neighbor_id,
    sequence_number,
    message_received_ack,  \* sequence numbers acked
    mailbox,               \* mailbox of the Server actor
    socket,                \* receive buffer of the UDP socket
    pongs,                 \* pongs[l][s]: Pongs on the TCP link from l to s
    faults                 \* crashes (and those amid an election), restarts, pings, late pings and
                           \* losses so far, elections since the last crash

leaderVars   == <<id_leader, im_leader, leader_connection, link, servers>>
ringVars     == <<disconnected_servers, actual_neighbor_id>>
ackVars      == <<sequence_number, message_received_ack>>
processVars  == <<alive, joining, udp_sender, faults>>
vars == <<processVars, leaderVars, ringVars, ackVars, mailbox, socket, pongs>>

-----------------------------------------------------------------------------
(* Messages.                                                               *)

ElectionMsg(ids, leader, seq) ==
    [type |-> "election", server_ids |-> ids,
     disconnected_leader_id |-> leader, sequence_number |-> seq]
\* Mutant: the announcement carries the dead leader's id as its sender.
SentByDeadLeader(leader, sender, seq) ==
    [type |-> "new_leader", leader_id |-> leader, id_sender |-> FirstLeader,
     sequence_number |-> seq]

NewLeaderMsg(leader, sender, seq) ==
    [type |-> "new_leader", leader_id |-> leader, id_sender |-> sender,
     sequence_number |-> seq]
\* Mutant: the ack carries the number of the next message.
AcksNext(id, seq) == [type |-> "ack", id |-> id, sequence_number |-> seq + 1]

AckMsg(id, seq) == [type |-> "ack", id |-> id, sequence_number |-> seq]

WaitMsg(n, m)  == [type |-> "wait",  neighbor_id |-> n, msg |-> m]
CheckMsg(n, m) == [type |-> "check", neighbor_id |-> n, msg |-> m]

RingMessage ==
    [type : {"election"}, server_ids : SUBSET Server,
     disconnected_leader_id : Server, sequence_number : Nat]
    \cup [type : {"new_leader"}, leader_id : Server, id_sender : Server,
          sequence_number : Nat]
AckMessage == [type : {"ack"}, id : Nat, sequence_number : Nat]
Payload    == RingMessage \cup AckMessage
Datagram   == [src : Server, msg : Payload]

FaultCounts ==
    [crashes : Nat, amid : Nat, restarts : Nat, pings : Nat, late : Nat, elections : Nat,
     losses : Nat]

Message ==
    Payload
    \cup [type : {"wait", "check"}, neighbor_id : Server, msg : RingMessage]
    \cup [type : {"start_election", "connect"}]
    \cup [type : {"new_server"}, id : Server]
    \cup [type : {"pong"}, to : SUBSET Server]
    \cup [type : {"update_state"}, disconnected_servers : SUBSET Server]
    \cup [type : {"set_leader"}, id_leader : Server]

TypeOK ==
    /\ alive \subseteq Server
    /\ joining \subseteq alive
    /\ udp_sender \subseteq alive
    /\ id_leader \in [Server -> Server]
    /\ im_leader \in [Server -> BOOLEAN]
    /\ leader_connection \in [Server -> BOOLEAN]
    /\ link \in [Server -> Server \cup {None}]
    /\ servers \in [Server -> SUBSET Server]
    /\ disconnected_servers \in [Server -> SUBSET Server]
    /\ actual_neighbor_id \in [Server -> Server]
    /\ sequence_number \in [Server -> Nat]
    /\ message_received_ack \in [Server -> SUBSET Nat]
    /\ mailbox \in [Server -> Seq(Message)]
    /\ socket \in [Server -> Seq(Datagram)]
    /\ pongs \in [Server -> [Server -> Seq(SUBSET Server)]]
    /\ faults \in FaultCounts

-----------------------------------------------------------------------------
(* Initial state: the first leader runs, every replica has joined it and   *)
(* holds the state of the network, and nothing is in flight.               *)

Init ==
    /\ alive = Replicas \cup {FirstLeader}
    /\ joining = {}
    /\ udp_sender = Replicas
    /\ id_leader = [s \in Server |-> CASE s \in Replicas -> FirstLeader
                                      [] s = FirstLeader -> s
                                      [] OTHER -> 1]
    /\ im_leader = [s \in Server |-> s = FirstLeader]
    /\ leader_connection = [s \in Server |-> s \in Replicas]
    /\ link = [s \in Server |-> IF s \in Replicas THEN FirstLeader ELSE None]
    /\ servers = [s \in Server |-> IF s = FirstLeader THEN Replicas ELSE {}]
    /\ disconnected_servers = [s \in Server |-> {}]
    /\ actual_neighbor_id = [s \in Server |-> get_neighbor_id(s)]
    /\ sequence_number = [s \in Server |-> 0]
    /\ message_received_ack = [s \in Server |-> {}]
    /\ mailbox = [s \in Server |-> <<>>]
    /\ socket = [s \in Server |-> <<>>]
    /\ pongs = [l \in Server |-> [s \in Server |-> <<>>]]
    /\ faults = [crashes |-> 0, amid |-> 0, restarts |-> 0, pings |-> 0, late |-> 0,
                 elections |-> 0, losses |-> 0]

-----------------------------------------------------------------------------
(* What handlers are made of.                                              *)

\* The Server actor of s takes a message of this type from its mailbox.
Received(s, type) ==
    /\ s \in alive
    /\ mailbox[s] # <<>>
    /\ Head(mailbox[s]).type = type

\* It leaves the mailbox; the handler sends `out` to its own actor.
Consume(s, out) == mailbox' = [mailbox EXCEPT ![s] = Tail(@) \o out]

\* A datagram to a server without a UDP socket goes nowhere.
SendDatagram(s, n, m) ==
    socket' = IF {s, n} \subseteq udp_sender
              THEN [socket EXCEPT ![n] = Append(@, [src |-> s, msg |-> m])]
              ELSE socket

\* Mutant: a server that is elected never starts its listener.
OnlyFirstListens(t) == t \in alive /\ t = FirstLeader

\* A server that listens on its TCP port, as only leaders do.
Listening(t) == t \in alive /\ im_leader[t]

\* Suspects are added and update_neighbor is called.
Suspect(s, new) ==
    LET down == disconnected_servers[s] \cup new IN
    /\ disconnected_servers' = [disconnected_servers EXCEPT ![s] = down]
    /\ actual_neighbor_id' = [actual_neighbor_id EXCEPT ![s] = NextNeighbor(@, s, down)]

Alone(s, new) ==
    ~HasNeighbor(actual_neighbor_id[s], s, disconnected_servers[s] \cup new)

\* No neighbour is left: the server tells itself that it is the leader.
ProclaimItself(s, more) ==
    /\ Consume(s, <<NewLeaderMsg(s, s, sequence_number[s])>> \o more)
    /\ sequence_number' = [sequence_number EXCEPT ![s] = @ + 1]
    /\ UNCHANGED socket

\* m goes to the neighbour just chosen, and the server waits for the ack.
SendToNeighbor(s, m, more) ==
    /\ SendDatagram(s, actual_neighbor_id'[s], m)
    /\ Consume(s, <<WaitMsg(actual_neighbor_id'[s], m)>> \o more)

-----------------------------------------------------------------------------
(* Handlers of the Server actor: the ring.                                 *)

StartElection(s) ==
    LET seq == sequence_number[s] IN
    /\ Received(s, "start_election")
    /\ Suspect(s, {id_leader[s]})
    /\ \/ Alone(s, {id_leader[s]}) /\ ProclaimItself(s, <<>>)
       \/ /\ ~Alone(s, {id_leader[s]})
          /\ SendToNeighbor(s, ElectionMsg({s}, id_leader[s], seq), <<>>)
          /\ sequence_number' = [sequence_number EXCEPT ![s] = seq + 2]
    /\ UNCHANGED <<processVars, leaderVars, message_received_ack, pongs>>

\* m, or the ack of it, is still on its way between s and its neighbour n.
InTransit(s, n, m) ==
    \/ \E i \in DOMAIN socket[n] : socket[n][i] = [src |-> s, msg |-> m]
    \/ \E i \in DOMAIN socket[s] :
          /\ socket[s][i].src = n
          /\ socket[s][i].msg.type = "ack"
          /\ socket[s][i].msg.sequence_number = m.sequence_number

\* The 300 ms of sleep, with the actor's mailbox blocked, then the check is
\* queued behind what arrived meanwhile.
WaitForNeighborAck(s) ==
    LET w == Head(mailbox[s]) IN
    /\ Received(s, "wait")
    /\ Timely => ~InTransit(s, w.neighbor_id, w.msg)
    /\ Consume(s, <<CheckMsg(w.neighbor_id, w.msg)>>)
    /\ UNCHANGED <<processVars, leaderVars, ringVars, ackVars, socket, pongs>>

CheckIfNeighborAcked(s) ==
    LET c == Head(mailbox[s]) IN
    /\ Received(s, "check")
    /\ \/ /\ c.msg.sequence_number \in message_received_ack[s]
          /\ Consume(s, <<>>)
          /\ UNCHANGED <<ringVars, sequence_number, socket>>
       \/ /\ c.msg.sequence_number \notin message_received_ack[s]
          /\ Suspect(s, {c.neighbor_id})
          /\ \/ Alone(s, {c.neighbor_id}) /\ ProclaimItself(s, <<>>)
             \/ /\ ~Alone(s, {c.neighbor_id})
                /\ SendToNeighbor(s, c.msg, <<>>)
                /\ UNCHANGED sequence_number
    /\ UNCHANGED <<processVars, leaderVars, message_received_ack, pongs>>

\* Mutant: the comparison is the wrong way round.
Lowest(ids) == CHOOSE i \in ids : \A j \in ids : i <= j

Highest(ids) == CHOOSE i \in ids : \A j \in ids : i >= j

ElectionHandler(s) ==
    LET m   == Head(mailbox[s])
        seq == sequence_number[s]
    IN
    /\ Received(s, "election")
    /\ Suspect(s, {m.disconnected_leader_id})
    /\ leader_connection' =
          [leader_connection EXCEPT ![s] = @ /\ id_leader[s] # m.disconnected_leader_id]
    /\ \/ /\ Alone(s, {m.disconnected_leader_id})
          /\ ProclaimItself(s, <<>>)
          /\ UNCHANGED id_leader
       \/ /\ ~Alone(s, {m.disconnected_leader_id})
          /\ sequence_number' = [sequence_number EXCEPT ![s] = seq + 1]
          /\ \/ /\ s \in m.server_ids
                /\ id_leader' = [id_leader EXCEPT ![s] = Highest(m.server_ids)]
                /\ SendToNeighbor(s, NewLeaderMsg(Highest(m.server_ids), s, seq), <<>>)
             \/ /\ s \notin m.server_ids
                /\ SendToNeighbor(s, ElectionMsg(m.server_ids \cup {s},
                                                 m.disconnected_leader_id, seq), <<>>)
                /\ UNCHANGED id_leader
    /\ UNCHANGED <<processVars, im_leader, link, servers, message_received_ack, pongs>>

NewLeaderHandler(s) ==
    LET m       == Head(mailbox[s])
        connect == IF m.leader_id # s /\ ~leader_connection[s]
                   THEN <<[type |-> "connect"]>> ELSE <<>>
    IN
    /\ Received(s, "new_leader")
    /\ id_leader' = [id_leader EXCEPT ![s] = m.leader_id]
    /\ im_leader' = [im_leader EXCEPT ![s] = @ \/ m.leader_id = s]
    /\ \/ /\ m.id_sender = s
          /\ Consume(s, connect)
          /\ UNCHANGED <<ringVars, sequence_number, socket>>
       \/ /\ m.id_sender # s
          /\ Suspect(s, {})
          /\ \/ Alone(s, {}) /\ ProclaimItself(s, connect)
             \/ ~Alone(s, {}) /\ SendToNeighbor(s, m, connect) /\ UNCHANGED sequence_number
    /\ UNCHANGED <<processVars, leader_connection, link, servers,
                   message_received_ack, pongs>>

NeighborAck(s) ==
    LET m == Head(mailbox[s]) IN
    /\ Received(s, "ack")
    /\ disconnected_servers' = [disconnected_servers EXCEPT ![s] = @ \ {m.id}]
    /\ message_received_ack' =
          [message_received_ack EXCEPT ![s] = @ \cup {m.sequence_number}]
    /\ Consume(s, <<>>)
    /\ UNCHANGED <<processVars, leaderVars, actual_neighbor_id, sequence_number,
                   socket, pongs>>

\* Another server still has an announcement of t to handle or to pass on.
AnnouncementPending(s, t) ==
    \E r \in alive \ {s} :
        \/ \E i \in DOMAIN mailbox[r] :
              LET m == mailbox[r][i] IN
              \/ m.type = "new_leader" /\ m.leader_id = t
              \/ m.type \in {"wait", "check"} /\ m.msg.type = "new_leader" /\ m.msg.leader_id = t
        \/ \E i \in DOMAIN socket[r] :
              LET m == socket[r][i].msg IN m.type = "new_leader" /\ m.leader_id = t

\* One try per 100 ms while the actor is blocked; when all fail the server is
\* left without a leader connection.
ConnectToServer(s) ==
    /\ Received(s, "connect")
    /\ Consume(s, <<>>)
    /\ \/ /\ Listening(id_leader[s])
          /\ leader_connection' = [leader_connection EXCEPT ![s] = TRUE]
          /\ link' = [link EXCEPT ![s] = id_leader[s]]
       \/ /\ ~Listening(id_leader[s])
          /\ Timely /\ id_leader[s] \in alive => ~AnnouncementPending(s, id_leader[s])
          /\ UNCHANGED <<leader_connection, link>>
    /\ UNCHANGED <<processVars, id_leader, im_leader, servers, ringVars, ackVars,
                   socket, pongs>>

-----------------------------------------------------------------------------
(* Handlers of the Server actor: membership and heartbeat.                 *)

\* Mutant: a replica that joins again stays among the suspects.
KeepsSuspecting(s) ==
    LET r == Head(mailbox[s]).id IN
    /\ Received(s, "new_server")
    /\ servers' = [servers EXCEPT ![s] = @ \cup {r}]
    /\ Consume(s, <<[type |-> "pong", to |-> servers[s] \cup {r}]>>)
    /\ UNCHANGED <<processVars, id_leader, im_leader, leader_connection, link,
                   ringVars, ackVars, socket, pongs>>

NewServerConnection(s) ==
    LET r == Head(mailbox[s]).id IN
    /\ Received(s, "new_server")
    /\ disconnected_servers' = [disconnected_servers EXCEPT ![s] = @ \ {r}]
    /\ servers' = [servers EXCEPT ![s] = @ \cup {r}]
    /\ Consume(s, <<[type |-> "pong", to |-> servers[s] \cup {r}]>>)
    /\ UNCHANGED <<processVars, id_leader, im_leader, leader_connection, link,
                   actual_neighbor_id, ackVars, socket, pongs>>

\* The snapshot is taken when the Pong is handled, once for each receiver
\* whose TCP link is still open.
Pong(s) ==
    LET to == {r \in Head(mailbox[s]).to : link[r] = s} IN
    /\ Received(s, "pong")
    /\ pongs' = [pongs EXCEPT ![s] = [r \in Server |->
                    IF r \in to THEN Append(@[r], disconnected_servers[s]) ELSE @[r]]]
    /\ Consume(s, <<>>)
    /\ UNCHANGED <<processVars, leaderVars, ringVars, ackVars, socket>>

\* The part of UpdateNetworkState that the election reads.
UpdateNetworkState(s) ==
    /\ Received(s, "update_state")
    /\ disconnected_servers' =
          [disconnected_servers EXCEPT ![s] = Head(mailbox[s]).disconnected_servers]
    /\ Consume(s, <<>>)
    /\ UNCHANGED <<processVars, leaderVars, actual_neighbor_id, ackVars, socket, pongs>>

SetLeader(s) ==
    /\ Received(s, "set_leader")
    /\ id_leader' = [id_leader EXCEPT ![s] = Head(mailbox[s]).id_leader]
    /\ leader_connection' = [leader_connection EXCEPT ![s] = TRUE]
    /\ Consume(s, <<>>)
    /\ UNCHANGED <<processVars, im_leader, link, servers, ringVars, ackVars, socket, pongs>>

(***************************************************************************)
(* The Ping a timer of the process sends to its own Server actor.  The     *)
(* timer may fire anywhere, so the handler may run between any other two.  *)
(* A link counts as closed once what was received on it has been read.     *)
(***************************************************************************)
\* Mutant: the timer is no shorter than MAX_RESPONSE_TIME, so that every ping is late.
SlowTimer(s) ==
    /\ s \in alive \ joining
    /\ leader_connection[s] /\ ~im_leader[s]
    /\ link[s] # None
    /\ faults.pings < MaxPings
    /\ faults' = [faults EXCEPT !.pings = @ + 1]
    /\ mailbox' = [mailbox EXCEPT ![s] = Append(@, [type |-> "start_election"])]
    /\ UNCHANGED <<alive, joining, udp_sender, leaderVars, ringVars, ackVars, socket, pongs>>

PingLiveLeader(s) ==
    /\ s \in alive \ joining
    /\ leader_connection[s] /\ ~im_leader[s]
    /\ link[s] # None
    /\ faults.pings < MaxPings
    /\ faults' = [faults EXCEPT !.pings = @ + 1]
    /\ mailbox' = [mailbox EXCEPT ![link[s]] = Append(@, [type |-> "pong", to |-> {s}])]
    /\ UNCHANGED <<alive, joining, udp_sender, leaderVars, ringVars, ackVars, socket, pongs>>

\* ServerConnection::Ping more than MAX_RESPONSE_TIME after the last ping it
\* handled and the last line it read: an election starts with the link still open.
PingTooLate(s) ==
    /\ s \in alive \ joining
    /\ leader_connection[s] /\ ~im_leader[s]
    /\ link[s] # None
    /\ faults.late < MaxLatePings
    /\ faults' = [faults EXCEPT !.late = @ + 1]
    /\ mailbox' = [mailbox EXCEPT ![s] = Append(@, [type |-> "start_election"])]
    /\ UNCHANGED <<alive, joining, udp_sender, leaderVars, ringVars, ackVars, socket, pongs>>

\* Mutant: without the early return, a leader pings itself.
LeaderPings(s) ==
    /\ s \in alive \ joining
    /\ link[s] = None
    /\ \A l \in Server : pongs[l][s] = <<>>
    /\ faults.elections < MaxElections
    /\ faults' = [faults EXCEPT !.elections = @ + 1]
    /\ leader_connection' = [leader_connection EXCEPT ![s] = FALSE]
    /\ mailbox' = [mailbox EXCEPT ![s] = Append(@, [type |-> "start_election"])]
    /\ UNCHANGED <<alive, joining, udp_sender, id_leader, im_leader, link, servers, ringVars, ackVars,
                   socket, pongs>>

PingDeadLeader(s) ==
    /\ s \in alive \ joining
    /\ leader_connection[s] /\ ~im_leader[s]
    /\ link[s] = None
    /\ \A l \in Server : pongs[l][s] = <<>>
    /\ faults.elections < MaxElections
    /\ faults' = [faults EXCEPT !.elections = @ + 1]
    /\ leader_connection' = [leader_connection EXCEPT ![s] = FALSE]
    /\ mailbox' = [mailbox EXCEPT ![s] = Append(@, [type |-> "start_election"])]
    /\ UNCHANGED <<alive, joining, udp_sender, id_leader, im_leader, link, servers, ringVars, ackVars,
                   socket, pongs>>

\* ServerConnection reads a Pong and hands it to the Server actor.
ReceivePong(s, l) ==
    /\ pongs[l][s] # <<>>
    /\ pongs' = [pongs EXCEPT ![l][s] = Tail(@)]
    /\ mailbox' = [mailbox EXCEPT ![s] =
          Append(@, [type |-> "update_state", disconnected_servers |-> Head(pongs[l][s])])]
    /\ UNCHANGED <<processVars, leaderVars, ringVars, ackVars, socket>>

-----------------------------------------------------------------------------
(* UdpReceiver: one datagram at a time.  Messages of the ring are acked,   *)
(* with id 0, and every message is handed to the Server actor.             *)

ReceiveDatagram(s) ==
    LET d   == Head(socket[s])
        ack == [src |-> s, msg |-> AckMsg(0, d.msg.sequence_number)]
        rest == [socket EXCEPT ![s] = Tail(@)]
    IN
    /\ s \in udp_sender
    /\ socket[s] # <<>>
    /\ mailbox' = [mailbox EXCEPT ![s] = Append(@, d.msg)]
    /\ socket' = IF d.msg.type # "ack" /\ d.src \in udp_sender
                 THEN [rest EXCEPT ![d.src] = Append(@, ack)]
                 ELSE rest
    /\ UNCHANGED <<processVars, leaderVars, ringVars, ackVars, pongs>>

LoseDatagram(s) ==
    /\ socket[s] # <<>>
    /\ faults.losses < MaxLosses
    /\ faults' = [faults EXCEPT !.losses = @ + 1]
    /\ socket' = [socket EXCEPT ![s] = Tail(@)]
    /\ UNCHANGED <<alive, joining, udp_sender, leaderVars, ringVars, ackVars, mailbox, pongs>>

-----------------------------------------------------------------------------
(* Processes stop and start.                                               *)

\* No election is under way, and whoever lost the leader has not noticed.
Quiet ==
    /\ \A s \in Server : mailbox[s] = <<>> /\ socket[s] = <<>>
    /\ \A s \in alive : leader_connection[s] \/ im_leader[s]

\* The state of the process goes with it, and so do its ends of the links;
\* what it already sent stays on its way.
Stop(s) ==
    /\ alive' = alive \ {s}
    /\ joining' = joining \ {s}
    /\ udp_sender' = udp_sender \ {s}
    /\ id_leader' = [id_leader EXCEPT ![s] = 1]
    /\ im_leader' = [im_leader EXCEPT ![s] = FALSE]
    /\ leader_connection' = [leader_connection EXCEPT ![s] = FALSE]
    /\ link' = [r \in Server |-> IF r = s \/ link[r] = s THEN None ELSE link[r]]
    /\ servers' = [servers EXCEPT ![s] = {}]
    /\ disconnected_servers' = [disconnected_servers EXCEPT ![s] = {}]
    /\ actual_neighbor_id' = [actual_neighbor_id EXCEPT ![s] = get_neighbor_id(s)]
    /\ sequence_number' = [sequence_number EXCEPT ![s] = 0]
    /\ message_received_ack' = [message_received_ack EXCEPT ![s] = {}]
    /\ mailbox' = [mailbox EXCEPT ![s] = <<>>]
    /\ socket' = [socket EXCEPT ![s] = <<>>]
    /\ pongs' = [l \in Server |-> [pongs[l] EXCEPT ![s] = <<>>]]

Crash(s) ==
    /\ s \in alive
    /\ faults.crashes < MaxCrashes
    /\ CrashesAnytime \/ Quiet
    /\ Stop(s)
    /\ faults' = [faults EXCEPT !.crashes = @ + 1, !.elections = 0,
                                !.amid = IF Quiet THEN @ ELSE @ + 1]

\* servidor_replica up to its first TCP connect: both actors run, the UDP
\* socket is bound, no leader is known.
StartReplica(s) ==
    /\ s \in Server \ alive
    /\ faults.restarts < MaxRestarts
    /\ faults' = [faults EXCEPT !.restarts = @ + 1]
    /\ alive' = alive \cup {s}
    /\ joining' = joining \cup {s}
    /\ udp_sender' = udp_sender \cup {s}
    /\ UNCHANGED <<leaderVars, ringVars, ackVars, mailbox, socket, pongs>>

\* The TCP link to t is open: new_replica goes to t, SetLeader to the own actor.
Join(s, t, leader_id) ==
    LET told == [mailbox EXCEPT ![t] = Append(@, [type |-> "new_server", id |-> s])] IN
    /\ joining' = joining \ {s}
    /\ link' = [link EXCEPT ![s] = t]
    /\ mailbox' = [told EXCEPT
          ![s] = Append(@, [type |-> "set_leader", id_leader |-> leader_id])]
    /\ UNCHANGED <<alive, udp_sender, faults, id_leader, im_leader, leader_connection,
                   servers, ringVars, ackVars, socket, pongs>>

\* The address tried first; leader_id is 1 in both cases.
FirstTried(s) == IF s = 1 THEN 2 ELSE 1

JoinLeader(s) ==
    LET up == {t \in Server \ {s} : Listening(t)} IN
    /\ s \in joining
    /\ \/ Listening(FirstTried(s)) /\ Join(s, FirstTried(s), 1)
       \/ /\ ~Listening(FirstTried(s)) /\ up # {}
          /\ Join(s, Highest(up), Highest(up))
       \/ ~Listening(FirstTried(s)) /\ up = {} /\ Stop(s) /\ UNCHANGED faults

-----------------------------------------------------------------------------
ServerActor(s) ==
    \/ StartElection(s) \/ WaitForNeighborAck(s) \/ CheckIfNeighborAcked(s)
    \/ ElectionHandler(s) \/ NewLeaderHandler(s) \/ NeighborAck(s)
    \/ ConnectToServer(s) \/ NewServerConnection(s) \/ Pong(s)
    \/ UpdateNetworkState(s) \/ SetLeader(s)

Next ==
    \E s \in Server :
        \/ ServerActor(s)
        \/ PingLiveLeader(s) \/ PingTooLate(s) \/ PingDeadLeader(s)
        \/ ReceiveDatagram(s) \/ LoseDatagram(s)
        \/ \E l \in Server : ReceivePong(s, l)
        \/ Crash(s) \/ StartReplica(s) \/ JoinLeader(s)

\* Actors and timers are never starved; crashes, losses, starts and the pings
\* a live leader answers happen or not.
Fairness ==
    \A s \in Server :
        /\ WF_vars(ServerActor(s))
        /\ WF_vars(PingDeadLeader(s))
        /\ WF_vars(ReceiveDatagram(s))
        /\ WF_vars(JoinLeader(s))
        /\ \A l \in Server : WF_vars(ReceivePong(s, l))

Spec     == Init /\ [][Next]_vars
FairSpec == Spec /\ Fairness

-----------------------------------------------------------------------------
(* Properties.                                                             *)

\* A NewLeader never proposes a leader below the server that sends it round:
\* a server that ends an election has put its own id on the list, and a server
\* that is alone proposes itself (ElectionHandler, ProclaimItself).
Dominates(m) == m.type = "new_leader" => m.leader_id >= m.id_sender
LeaderDominatesSender ==
    \A s \in Server :
        /\ \A i \in DOMAIN mailbox[s] :
              /\ Dominates(mailbox[s][i])
              /\ mailbox[s][i].type \in {"wait", "check"} => Dominates(mailbox[s][i].msg)
        /\ \A i \in DOMAIN socket[s] : Dominates(socket[s][i].msg)

\* The handlers of Election and NewLeader call expect on udp_sender, which the
\* first leader does not have: no such message may ever be handled there.
RingHandlersHaveSocket ==
    \A s \in Server :
        mailbox[s] # <<>> /\ Head(mailbox[s]).type \in {"election", "new_leader"}
            => s \in udp_sender

\* No heartbeat was late, no datagram was lost, nobody was started again, and no
\* crash fell into an election.
Undisturbed == faults.late = 0 /\ faults.losses = 0 /\ faults.restarts = 0 /\ faults.amid = 0

\* When acks are timely and the servers were left undisturbed, a server that runs is
\* never put among the suspects, by itself or by another one, whatever elections run
\* at once (CheckIfNeighborAcked, ElectionHandler).
NoLiveServerSuspected ==
    Undisturbed => \A s \in alive : disconnected_servers[s] \cap alive = {}

\* As long as the first leader has not stopped, and no replica's timer was so late that
\* ServerConnection took its own delay for the leader's (server_connection.rs:67),
\* nobody else leads and nobody is suspected, whatever replicas stop and join again and
\* whatever datagrams and acks are lost or late: otherwise only a link that ended makes
\* a replica start an election.  The first leader is the one process without a UDP socket.
ReignUndisturbed ==
    FirstLeader \in alive \ udp_sender /\ faults.late = 0 =>
        \A s \in alive :
            /\ disconnected_servers[s] = {}
            /\ im_leader[s] => s = FirstLeader

IsHighest(h, S) == h \in S /\ \A t \in S : h >= t

\* Left undisturbed, a server that changes its leader changes it to the highest
\* server that runs, whatever elections run at once (test_eleccion_lider.py expects
\* that outcome).
OnlyHighestAdopted ==
    [][\A s \in Server : Undisturbed /\ s \in alive' /\ id_leader'[s] # id_leader[s]
           => IsHighest(id_leader'[s], alive)]_vars

\* A last survivor may take an ack of an earlier election for an answer of a server
\* that has stopped, and wait for ever (AckedNeighborRuns, below); two or more do not.
AcksUnambiguous == Cardinality(alive) >= 2 \/ \A s \in alive : message_received_ack[s] = {}

\* When nobody crashes or starts during an election and no heartbeat is late, the
\* servers keep the contract of module LeaderContract: one leader, until it stops,
\* and then the highest that runs.
Leadership == INSTANCE LeaderContract WITH
    running <- alive,
    leaders <- {s \in alive : im_leader[s]}
KeepsLeadership == Leadership!Spec

\* Once the first leader is gone, the highest survivor ends up leader, and all the
\* survivors end up holding its id (the four cases of test_eleccion_lider.py).
HighestLeads ==
    <>[](FirstLeader \notin alive /\ alive # {} /\ AcksUnambiguous =>
            \E h \in alive :
                /\ IsHighest(h, alive)
                /\ im_leader[h]
                /\ \A s \in alive : id_leader[s] = h)

\* Every survivor that does not lead ends up connected to a server that runs, so
\* that it would notice the next crash (Ping does nothing without a connection).
SurvivorsConnected ==
    <>[](AcksUnambiguous =>
            \A s \in alive : im_leader[s] \/ (leader_connection[s] /\ link[s] \in alive))

\* An announcement is taken off the ring by its sender, an election by the first
\* server that finds its own id in it, and every check ends: traffic dies out.
TokensDrain == <>[](\A s \in alive : mailbox[s] = <<>> /\ socket[s] = <<>>)

\* As long as no heartbeat is late, a leader ends up trusting every server that holds
\* an open link to it, also one it suspected before that server was started again
\* (NewServerConnection).
LeaderTrustsItsReplicas ==
    <>[](faults.late = 0 => \A s \in alive : link[s] # None => s \notin disconnected_servers[link[s]])

-----------------------------------------------------------------------------
(* What comments and documents say, and the code does not do.              *)

\* "En caso de no haber recibido el ACK, se reenvia el mensaje original": when no
\* crash falls into an election, a check that finds its message acked waits for a
\* neighbour that runs (CheckIfNeighborAcked).
AckedNeighborRuns ==
    \A s \in alive :
        LET c == Head(mailbox[s]) IN
        /\ mailbox[s] # <<>>
        /\ c.type = "check"
        /\ c.msg.sequence_number \in message_received_ack[s]
        => c.neighbor_id \in alive

\* "Marca el lider actual como desconectado": the leader that StartElection is about
\* to put among the suspects is one that stopped.
MarksStoppedLeader ==
    \A s \in alive :
        mailbox[s] # <<>> /\ Head(mailbox[s]).type = "start_election"
            => id_leader[s] \notin alive
=============================================================================
