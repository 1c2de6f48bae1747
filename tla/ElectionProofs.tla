-------------------------- MODULE ElectionProofs --------------------------
(***************************************************************************)
(* Safety of module Election for any number of servers and any bounds:     *)
(* its types, what announcements may say, that a process without a UDP     *)
(* socket is never made to take part in the ring, and that nothing         *)
(* disturbs the reign of the first leader.                                 *)
(***************************************************************************)
EXTENDS Election, RingProofs, SequenceTheorems

-----------------------------------------------------------------------------
(* The inductive invariant.                                                *)

GoodRing     == {m \in RingMessage : Dominates(m)}
GoodPayload  == GoodRing \cup AckMessage
GoodDatagram == [src : Server, msg : GoodPayload]
WaitMessage  == [type : {"wait", "check"}, neighbor_id : Server, msg : GoodRing]

\* What a process may be sent whether or not it owns a UDP socket.
PlainMessage ==
    [type : {"new_server"}, id : Server]
    \cup [type : {"pong"}, to : SUBSET Server]
    \cup [type : {"update_state"}, disconnected_servers : SUBSET Server]

GoodMessage ==
    GoodPayload
    \cup WaitMessage
    \cup [type : {"start_election", "connect"}]
    \cup PlainMessage
    \cup [type : {"set_leader"}, id_leader : Server]

ProcessesOK ==
    /\ alive \subseteq Server
    /\ joining \subseteq udp_sender
    /\ udp_sender \subseteq alive
    /\ faults \in FaultCounts

LeadersOK ==
    /\ id_leader \in [Server -> Server]
    /\ im_leader \in [Server -> BOOLEAN]
    /\ leader_connection \in [Server -> BOOLEAN]
    /\ link \in [Server -> Server \cup {None}]
    /\ servers \in [Server -> SUBSET Server]

SuspectsOK ==
    /\ disconnected_servers \in [Server -> SUBSET Server]
    /\ actual_neighbor_id \in [Server -> Server]
    /\ pongs \in [Server -> [Server -> Seq(SUBSET Server)]]

AcksOK ==
    /\ sequence_number \in [Server -> Nat]
    /\ message_received_ack \in [Server -> SUBSET Nat]

MailboxOK == mailbox \in [Server -> Seq(GoodMessage)]
SocketOK  == socket \in [Server -> Seq(GoodDatagram)]

\* A process without a UDP socket follows nobody and hears nothing of the ring.
NoSocketOK ==
    \A s \in Server \ udp_sender :
        /\ mailbox[s] \in Seq(PlainMessage)
        /\ socket[s] = <<>>
        /\ ~leader_connection[s]

IInv ==
    /\ ProcessesOK
    /\ LeadersOK
    /\ SuspectsOK
    /\ AcksOK
    /\ MailboxOK
    /\ SocketOK
    /\ NoSocketOK

-----------------------------------------------------------------------------
(* Facts about the helpers.                                                *)

\* A set of servers that is not empty has a highest member, which Highest returns.
LEMMA HighestProperties ==
    ASSUME NEW S \in SUBSET Server, S # {}
    PROVE  /\ Highest(S) \in S
           /\ \A i \in S : Highest(S) >= i
<1> DEFINE T == {MAX_SERVERS - i : i \in S}
<1>1. T \in SUBSET Nat /\ T # {}
  <2>1. \A i \in S : i \in Nat /\ MAX_SERVERS - i \in Nat
    BY MaxServersAssumption DEF Server
  <2>2. QED
    BY <2>1
<1>2. PICK m \in T : \A k \in T : m <= k
  BY <1>1, LeastNumber
<1>3. PICK j \in S : m = MAX_SERVERS - j
  BY <1>2
<1>4. ASSUME NEW i \in S PROVE j >= i
  <2>1. MAX_SERVERS - i \in T
    OBVIOUS
  <2>2. MAX_SERVERS - j <= MAX_SERVERS - i
    BY <1>2, <1>3, <2>1
  <2>3. i \in Nat /\ j \in Nat
    BY DEF Server
  <2>4. QED
    BY <2>2, <2>3, MaxServersAssumption
<1>5. QED
  BY <1>3, <1>4 DEF Highest

\* The fields of a message, by its type.
LEMMA MessageFields ==
    ASSUME NEW m \in GoodMessage
    PROVE  /\ m.type = "election" =>
                 /\ m \in GoodRing
                 /\ m.server_ids \in SUBSET Server
                 /\ m.disconnected_leader_id \in Server
           /\ m.type = "new_leader" =>
                 /\ m \in GoodRing
                 /\ m.leader_id \in Server
                 /\ m.id_sender \in Server
           /\ m.type = "ack" => m.sequence_number \in Nat
           /\ m.type \in {"wait", "check"} =>
                 /\ m.neighbor_id \in Server
                 /\ m.msg \in GoodRing
           /\ m.type = "new_server" => m.id \in Server
           /\ m.type = "pong" => m.to \in SUBSET Server
           /\ m.type = "update_state" => m.disconnected_servers \in SUBSET Server
           /\ m.type = "set_leader" => m.id_leader \in Server
BY DEF GoodMessage, GoodPayload, GoodRing, RingMessage, AckMessage, WaitMessage, PlainMessage

\* What is received from a mailbox is a message, and the rest stays a mailbox.
LEMMA ReceivedMessage ==
    ASSUME IInv, NEW s \in Server, NEW type, Received(s, type)
    PROVE  /\ Head(mailbox[s]) \in GoodMessage
           /\ Head(mailbox[s]).type = type
           /\ Tail(mailbox[s]) \in Seq(GoodMessage)
           /\ type \notin {"new_server", "pong", "update_state"} => s \in udp_sender
<1>1. mailbox[s] \in Seq(GoodMessage) /\ mailbox[s] # <<>>
  BY DEF IInv, MailboxOK, Received
<1>2. ASSUME s \notin udp_sender PROVE type \in {"new_server", "pong", "update_state"}
  <2>1. mailbox[s] \in Seq(PlainMessage)
    BY <1>2 DEF IInv, NoSocketOK
  <2>2. Head(mailbox[s]) \in PlainMessage
    BY <1>1, <2>1, HeadTailProperties
  <2>3. QED
    BY <2>2 DEF PlainMessage, Received
<1>3. QED
  BY <1>1, <1>2, HeadTailProperties DEF Received

\* A handler may send nothing to its own actor.
LEMMA NothingSent == <<>> \in Seq(GoodMessage) /\ <<>> \in Seq(PlainMessage)
BY EmptySeq

\* A handler's messages to its own actor are appended behind what waits.
LEMMA ConsumeProperties ==
    ASSUME IInv, NEW s \in Server, NEW type, Received(s, type),
           NEW out \in Seq(GoodMessage), Consume(s, out)
    PROVE  /\ MailboxOK'
           /\ \A r \in Server \ {s} : mailbox'[r] = mailbox[r]
<1>1. Tail(mailbox[s]) \o out \in Seq(GoodMessage)
  BY ReceivedMessage, ConcatProperties
<1>2. QED
  BY <1>1 DEF Consume, MailboxOK, IInv

\* The same for a process without a socket.
LEMMA PlainConsume ==
    ASSUME IInv, NEW s \in Server, NEW type, Received(s, type),
           NEW out \in Seq(PlainMessage), Consume(s, out)
    PROVE  s \notin udp_sender => mailbox'[s] \in Seq(PlainMessage)
<1> SUFFICES ASSUME s \notin udp_sender PROVE mailbox'[s] \in Seq(PlainMessage)
  OBVIOUS
<1>1. mailbox[s] \in Seq(PlainMessage) /\ mailbox[s] # <<>>
  BY DEF IInv, NoSocketOK, Received
<1>2. Tail(mailbox[s]) \o out \in Seq(PlainMessage)
  BY <1>1, HeadTailProperties, ConcatProperties
<1>3. QED
  BY <1>2 DEF Consume, IInv, MailboxOK

\* A datagram only ever reaches a process that owns a socket.
LEMMA SendProperties ==
    ASSUME IInv, NEW s \in Server, NEW n \in Server, NEW m \in GoodPayload,
           SendDatagram(s, n, m)
    PROVE  /\ SocketOK'
           /\ \A r \in Server \ udp_sender : socket'[r] = socket[r]
<1>1. [src |-> s, msg |-> m] \in GoodDatagram
  BY DEF GoodDatagram
<1>2. Append(socket[n], [src |-> s, msg |-> m]) \in Seq(GoodDatagram)
  BY <1>1, AppendProperties DEF IInv, SocketOK
<1>3. QED
  BY <1>2 DEF SendDatagram, SocketOK, IInv

\* A step that touches only a process with a socket keeps the others quiet.
LEMMA OthersStayQuiet ==
    ASSUME NoSocketOK, NEW s \in udp_sender, udp_sender' = udp_sender,
           \A r \in Server \ {s} : mailbox'[r] = mailbox[r],
           \A r \in Server \ udp_sender : socket'[r] = socket[r],
           \A r \in Server \ {s} : leader_connection'[r] = leader_connection[r]
    PROVE  NoSocketOK'
BY DEF NoSocketOK

\* Suspicions are about servers, and so is the neighbour chosen.
LEMMA SuspectProperties ==
    ASSUME IInv, NEW s \in Server, NEW new \in SUBSET Server, Suspect(s, new),
           UNCHANGED pongs
    PROVE  /\ SuspectsOK'
           /\ actual_neighbor_id'[s] \in Server
BY NextNeighborType DEF Suspect, SuspectsOK, IInv

\* The messages of the ring are well formed.
LEMMA RingMessages ==
    ASSUME NEW seq \in Nat, NEW s \in Server, NEW n \in Server
    PROVE  /\ \A ids \in SUBSET Server, l \in Server : ElectionMsg(ids, l, seq) \in GoodRing
           /\ \A l \in Server : l >= s => NewLeaderMsg(l, s, seq) \in GoodRing
           /\ \A m \in GoodRing : WaitMsg(n, m) \in WaitMessage /\ CheckMsg(n, m) \in WaitMessage
<1>1. \A ids \in SUBSET Server, l \in Server : ElectionMsg(ids, l, seq) \in GoodRing
  BY DEF ElectionMsg, GoodRing, RingMessage, Dominates
<1>2. \A l \in Server : l >= s => NewLeaderMsg(l, s, seq) \in GoodRing
  BY DEF NewLeaderMsg, GoodRing, RingMessage, Dominates
<1>3. \A m \in GoodRing : WaitMsg(n, m) \in WaitMessage /\ CheckMsg(n, m) \in WaitMessage
  BY DEF WaitMsg, CheckMsg, WaitMessage
<1>4. QED
  BY <1>1, <1>2, <1>3

\* A server that proclaims itself sends nothing but an announcement to itself.
LEMMA ProclaimProperties ==
    ASSUME IInv, NEW s \in Server, NEW type, Received(s, type),
           NEW more \in Seq(GoodMessage), ProclaimItself(s, more)
    PROVE  /\ MailboxOK' /\ SocketOK'
           /\ sequence_number' \in [Server -> Nat]
           /\ \A r \in Server \ {s} : mailbox'[r] = mailbox[r]
           /\ socket' = socket
<1> DEFINE m == NewLeaderMsg(s, s, sequence_number[s])
<1>1. sequence_number[s] \in Nat /\ s >= s
  BY DEF IInv, AcksOK, Server
<1>2. m \in GoodMessage
  BY <1>1, RingMessages DEF GoodMessage, GoodPayload
<1>3. <<m>> \o more \in Seq(GoodMessage)
  <2> HIDE DEF m
  <2>1. <<m>> \in Seq(GoodMessage)
    BY <1>2
  <2>2. QED
    BY <2>1, ConcatProperties
<1>4. Consume(s, <<m>> \o more)
  BY DEF ProclaimItself
<1>5. MailboxOK' /\ \A r \in Server \ {s} : mailbox'[r] = mailbox[r]
  BY <1>3, <1>4, ConsumeProperties
<1>6. SocketOK' /\ socket' = socket
  BY DEF ProclaimItself, IInv, SocketOK
<1>7. sequence_number' \in [Server -> Nat]
  BY DEF ProclaimItself, IInv, AcksOK
<1>8. QED
  BY <1>5, <1>6, <1>7

\* A server that sends to its neighbour changes no mailbox but its own.
LEMMA ToNeighborProperties ==
    ASSUME IInv, NEW s \in Server, NEW type, Received(s, type),
           NEW m \in GoodRing, actual_neighbor_id'[s] \in Server,
           NEW more \in Seq(GoodMessage), SendToNeighbor(s, m, more)
    PROVE  /\ MailboxOK' /\ SocketOK'
           /\ \A r \in Server \ {s} : mailbox'[r] = mailbox[r]
           /\ \A r \in Server \ udp_sender : socket'[r] = socket[r]
<1> DEFINE n == actual_neighbor_id'[s]
<1> DEFINE w == WaitMsg(n, m)
<1>1. w \in GoodMessage
  BY RingMessages, 0 \in Nat DEF GoodMessage
<1>2. <<w>> \o more \in Seq(GoodMessage)
  <2> HIDE DEF w
  <2>1. <<w>> \in Seq(GoodMessage)
    BY <1>1
  <2>2. QED
    BY <2>1, ConcatProperties
<1>3. Consume(s, <<w>> \o more) /\ SendDatagram(s, n, m)
  BY DEF SendToNeighbor
<1>4. m \in GoodPayload
  BY DEF GoodPayload
<1>5. QED
  BY <1>2, <1>3, <1>4, ConsumeProperties, SendProperties

-----------------------------------------------------------------------------
(* The invariant holds initially.                                          *)

LEMMA IInvInit == Init => IInv
<1> SUFFICES ASSUME Init PROVE IInv
  OBVIOUS
<1> USE ElectionAssumption DEF Init
<1>1. ProcessesOK
  BY DEF ProcessesOK, FaultCounts
<1>2. LeadersOK
  <2>1. 1 \in Server
    BY MaxServersAssumption DEF Server
  <2>2. \A s \in Server : (CASE s \in Replicas -> FirstLeader
                              [] s = FirstLeader -> s
                              [] OTHER -> 1) \in Server
    BY <2>1
  <2>3. id_leader \in [Server -> Server]
    BY <2>2
  <2>4. /\ im_leader \in [Server -> BOOLEAN]
        /\ leader_connection \in [Server -> BOOLEAN]
        /\ link \in [Server -> Server \cup {None}]
        /\ servers \in [Server -> SUBSET Server]
    OBVIOUS
  <2> QED  BY <2>3, <2>4 DEF LeadersOK
<1>3. SuspectsOK
  BY NeighborType DEF SuspectsOK
<1>4. AcksOK
  BY DEF AcksOK
<1>5. MailboxOK /\ SocketOK
  BY DEF MailboxOK, SocketOK
<1>6. NoSocketOK
  <2> SUFFICES ASSUME NEW s \in Server, s \notin Replicas
               PROVE  mailbox[s] \in Seq(PlainMessage) /\ socket[s] = <<>> /\ ~leader_connection[s]
    BY DEF NoSocketOK
  <2>1. mailbox[s] = <<>> /\ socket[s] = <<>>
    OBVIOUS
  <2>2. ~leader_connection[s]
    BY Zenon
  <2>3. QED
    BY <2>1, <2>2, NothingSent
<1>7. QED
  BY <1>1, <1>2, <1>3, <1>4, <1>5, <1>6 DEF IInv

-----------------------------------------------------------------------------
(* Every handler of the ring keeps it.                                     *)

LEMMA StartElectionStep ==
    ASSUME IInv, NEW s \in Server, StartElection(s)
    PROVE  IInv'
<1> DEFINE new == {id_leader[s]}
<1>1. /\ Received(s, "start_election")
      /\ Suspect(s, new)
      /\ UNCHANGED <<processVars, leaderVars, message_received_ack, pongs>>
  BY DEF StartElection
<1>2. s \in udp_sender /\ new \in SUBSET Server /\ id_leader[s] \in Server
      /\ sequence_number[s] \in Nat
  <2>1. s \in udp_sender
    BY <1>1, ReceivedMessage
  <2>2. id_leader[s] \in Server /\ sequence_number[s] \in Nat
    BY DEF IInv, LeadersOK, AcksOK
  <2>3. QED
    BY <2>1, <2>2
<1>3. ProcessesOK' /\ LeadersOK'
  BY <1>1 DEF IInv, ProcessesOK, LeadersOK, processVars, leaderVars
<1>4. SuspectsOK' /\ actual_neighbor_id'[s] \in Server
  BY <1>1, <1>2, SuspectProperties
<1>5. /\ MailboxOK' /\ SocketOK'
      /\ sequence_number' \in [Server -> Nat]
      /\ \A r \in Server \ {s} : mailbox'[r] = mailbox[r]
      /\ \A r \in Server \ udp_sender : socket'[r] = socket[r]
  <2>1. CASE ProclaimItself(s, <<>>)
    BY <1>1, <2>1, ProclaimProperties, NothingSent
  <2>2. CASE /\ SendToNeighbor(s, ElectionMsg({s}, id_leader[s], sequence_number[s]), <<>>)
             /\ sequence_number' = [sequence_number EXCEPT ![s] = sequence_number[s] + 2]
    <3>1. ElectionMsg({s}, id_leader[s], sequence_number[s]) \in GoodRing
      BY <1>2, RingMessages
    <3>2. sequence_number' \in [Server -> Nat]
      BY <1>2, <2>2 DEF IInv, AcksOK
    <3>3. QED
      BY <1>1, <1>4, <2>2, <3>1, <3>2, ToNeighborProperties, NothingSent
  <2>3. QED
    BY <2>1, <2>2 DEF StartElection
<1>6. AcksOK'
  BY <1>1, <1>5 DEF AcksOK, IInv
<1>7. NoSocketOK'
  BY <1>1, <1>2, <1>5, OthersStayQuiet DEF IInv, processVars, leaderVars
<1>8. QED
  BY <1>3, <1>4, <1>5, <1>6, <1>7 DEF IInv

LEMMA WaitForNeighborAckStep ==
    ASSUME IInv, NEW s \in Server, WaitForNeighborAck(s)
    PROVE  IInv'
<1> DEFINE w == Head(mailbox[s])
<1>1. /\ Received(s, "wait")
      /\ Consume(s, <<CheckMsg(w.neighbor_id, w.msg)>>)
      /\ UNCHANGED <<processVars, leaderVars, ringVars, ackVars, socket, pongs>>
  BY DEF WaitForNeighborAck
<1>2. s \in udp_sender /\ w \in GoodMessage /\ w.type = "wait"
  BY <1>1, ReceivedMessage
<1>3. CheckMsg(w.neighbor_id, w.msg) \in GoodMessage
  BY <1>2, MessageFields, RingMessages, 0 \in Nat DEF GoodMessage
<1>4. MailboxOK' /\ \A r \in Server \ {s} : mailbox'[r] = mailbox[r]
  BY <1>1, <1>3, ConsumeProperties
<1>5. ProcessesOK' /\ LeadersOK' /\ SuspectsOK' /\ AcksOK' /\ SocketOK'
  BY <1>1 DEF IInv, ProcessesOK, LeadersOK, SuspectsOK, AcksOK, SocketOK,
              processVars, leaderVars, ringVars, ackVars
<1>6. NoSocketOK'
  BY <1>1, <1>2, <1>4, OthersStayQuiet DEF IInv, processVars, leaderVars
<1>7. QED
  BY <1>4, <1>5, <1>6 DEF IInv

LEMMA CheckIfNeighborAckedStep ==
    ASSUME IInv, NEW s \in Server, CheckIfNeighborAcked(s)
    PROVE  IInv'
<1> DEFINE c == Head(mailbox[s])
<1>1. /\ Received(s, "check")
      /\ UNCHANGED <<processVars, leaderVars, message_received_ack, pongs>>
  BY DEF CheckIfNeighborAcked
<1>2. /\ s \in udp_sender
      /\ c.neighbor_id \in Server
      /\ c.msg \in GoodRing
  BY <1>1, ReceivedMessage, MessageFields
<1>3. ProcessesOK' /\ LeadersOK'
  BY <1>1 DEF IInv, ProcessesOK, LeadersOK, processVars, leaderVars
<1>4. /\ SuspectsOK' /\ MailboxOK' /\ SocketOK'
      /\ sequence_number' \in [Server -> Nat]
      /\ \A r \in Server \ {s} : mailbox'[r] = mailbox[r]
      /\ \A r \in Server \ udp_sender : socket'[r] = socket[r]
  <2>1. CASE /\ Consume(s, <<>>)
             /\ UNCHANGED <<ringVars, sequence_number, socket>>
    <3>1. MailboxOK' /\ \A r \in Server \ {s} : mailbox'[r] = mailbox[r]
      BY <1>1, <2>1, ConsumeProperties, NothingSent
    <3>2. QED
      BY <1>1, <2>1, <3>1 DEF IInv, SuspectsOK, SocketOK, AcksOK, ringVars
  <2>2. CASE Suspect(s, {c.neighbor_id}) /\ ProclaimItself(s, <<>>)
    <3>1. SuspectsOK'
      BY <1>1, <1>2, <2>2, SuspectProperties
    <3>2. QED
      BY <1>1, <2>2, <3>1, ProclaimProperties, NothingSent
  <2>3. CASE /\ Suspect(s, {c.neighbor_id})
             /\ SendToNeighbor(s, c.msg, <<>>)
             /\ UNCHANGED sequence_number
    <3>1. SuspectsOK' /\ actual_neighbor_id'[s] \in Server
      BY <1>1, <1>2, <2>3, SuspectProperties
    <3>2. sequence_number' \in [Server -> Nat]
      BY <2>3 DEF IInv, AcksOK
    <3>3. QED
      BY <1>1, <1>2, <2>3, <3>1, <3>2, ToNeighborProperties, NothingSent
  <2>4. QED
    BY <2>1, <2>2, <2>3 DEF CheckIfNeighborAcked
<1>5. AcksOK'
  BY <1>1, <1>4 DEF AcksOK, IInv
<1>6. NoSocketOK'
  BY <1>1, <1>2, <1>4, OthersStayQuiet DEF IInv, processVars, leaderVars
<1>7. QED
  BY <1>3, <1>4, <1>5, <1>6 DEF IInv

LEMMA ElectionHandlerStep ==
    ASSUME IInv, NEW s \in Server, ElectionHandler(s)
    PROVE  IInv'
<1> DEFINE m    == Head(mailbox[s])
           seq  == sequence_number[s]
           dead == {m.disconnected_leader_id}
           more == ElectionMsg(m.server_ids \cup {s}, m.disconnected_leader_id, seq)
           new  == NewLeaderMsg(Highest(m.server_ids), s, seq)
<1>1. /\ Received(s, "election")
      /\ Suspect(s, dead)
      /\ leader_connection' = [leader_connection EXCEPT
             ![s] = @ /\ id_leader[s] # m.disconnected_leader_id]
      /\ UNCHANGED <<processVars, im_leader, link, servers, message_received_ack, pongs>>
  BY DEF ElectionHandler
<1>2. /\ s \in udp_sender
      /\ m.server_ids \in SUBSET Server
      /\ m.disconnected_leader_id \in Server
      /\ seq \in Nat
  BY <1>1, ReceivedMessage, MessageFields DEF IInv, AcksOK
<1>3. SuspectsOK' /\ actual_neighbor_id'[s] \in Server
  BY <1>1, <1>2, SuspectProperties
<1>4. /\ MailboxOK' /\ SocketOK'
      /\ id_leader' \in [Server -> Server]
      /\ sequence_number' \in [Server -> Nat]
      /\ \A r \in Server \ {s} : mailbox'[r] = mailbox[r]
      /\ \A r \in Server \ udp_sender : socket'[r] = socket[r]
  <2>1. CASE ProclaimItself(s, <<>>) /\ UNCHANGED id_leader
    <3>1. id_leader' \in [Server -> Server]
      BY <2>1 DEF IInv, LeadersOK
    <3>2. QED
      BY <1>1, <2>1, <3>1, ProclaimProperties, NothingSent
  <2>2. CASE /\ s \in m.server_ids
             /\ id_leader' = [id_leader EXCEPT ![s] = Highest(m.server_ids)]
             /\ SendToNeighbor(s, new, <<>>)
             /\ sequence_number' = [sequence_number EXCEPT ![s] = seq + 1]
    <3>1. Highest(m.server_ids) \in Server /\ Highest(m.server_ids) >= s
      BY <1>2, <2>2, HighestProperties
    <3>2. new \in GoodRing
      BY <1>2, <3>1, RingMessages
    <3>3. /\ MailboxOK' /\ SocketOK'
          /\ \A r \in Server \ {s} : mailbox'[r] = mailbox[r]
          /\ \A r \in Server \ udp_sender : socket'[r] = socket[r]
      <4> HIDE DEF new
      <4> QED  BY <1>1, <1>3, <2>2, <3>2, ToNeighborProperties, NothingSent
    <3>4. id_leader' \in [Server -> Server] /\ sequence_number' \in [Server -> Nat]
      BY <1>2, <2>2, <3>1 DEF IInv, LeadersOK, AcksOK
    <3>5. QED
      BY <3>3, <3>4
  <2>3. CASE /\ SendToNeighbor(s, more, <<>>)
             /\ UNCHANGED id_leader
             /\ sequence_number' = [sequence_number EXCEPT ![s] = seq + 1]
    <3>1. more \in GoodRing
      BY <1>2, RingMessages
    <3>2. /\ MailboxOK' /\ SocketOK'
          /\ \A r \in Server \ {s} : mailbox'[r] = mailbox[r]
          /\ \A r \in Server \ udp_sender : socket'[r] = socket[r]
      <4> HIDE DEF more
      <4> QED  BY <1>1, <1>3, <2>3, <3>1, ToNeighborProperties, NothingSent
    <3>3. id_leader' \in [Server -> Server] /\ sequence_number' \in [Server -> Nat]
      BY <1>2, <2>3 DEF IInv, LeadersOK, AcksOK
    <3>4. QED
      BY <3>2, <3>3
  <2>4. QED
    BY <2>1, <2>2, <2>3 DEF ElectionHandler
<1>5. ProcessesOK' /\ LeadersOK' /\ AcksOK'
  BY <1>1, <1>4 DEF IInv, ProcessesOK, LeadersOK, AcksOK, processVars
<1>6. \A r \in Server \ {s} : leader_connection'[r] = leader_connection[r]
  BY <1>1 DEF IInv, LeadersOK
<1>7. NoSocketOK'
  BY <1>1, <1>2, <1>4, <1>6, OthersStayQuiet DEF IInv, processVars
<1>8. QED
  BY <1>3, <1>4, <1>5, <1>7 DEF IInv

LEMMA NewLeaderHandlerStep ==
    ASSUME IInv, NEW s \in Server, NewLeaderHandler(s)
    PROVE  IInv'
<1> DEFINE m       == Head(mailbox[s])
           connect == IF m.leader_id # s /\ ~leader_connection[s]
                      THEN <<[type |-> "connect"]>> ELSE <<>>
<1>1. /\ Received(s, "new_leader")
      /\ id_leader' = [id_leader EXCEPT ![s] = m.leader_id]
      /\ im_leader' = [im_leader EXCEPT ![s] = @ \/ m.leader_id = s]
      /\ UNCHANGED <<processVars, leader_connection, link, servers,
                     message_received_ack, pongs>>
  BY DEF NewLeaderHandler
<1>2. s \in udp_sender /\ m \in GoodRing /\ m.leader_id \in Server
  BY <1>1, ReceivedMessage, MessageFields
<1>3. connect \in Seq(GoodMessage)
  <2>1. [type |-> "connect"] \in GoodMessage
    BY DEF GoodMessage
  <2>2. QED
    BY <2>1, NothingSent
<1>4. /\ SuspectsOK' /\ MailboxOK' /\ SocketOK'
      /\ sequence_number' \in [Server -> Nat]
      /\ \A r \in Server \ {s} : mailbox'[r] = mailbox[r]
      /\ \A r \in Server \ udp_sender : socket'[r] = socket[r]
  <2> HIDE DEF connect
  <2>1. CASE /\ Consume(s, connect)
             /\ UNCHANGED <<ringVars, sequence_number, socket>>
    <3>1. MailboxOK' /\ \A r \in Server \ {s} : mailbox'[r] = mailbox[r]
      BY <1>1, <1>3, <2>1, ConsumeProperties
    <3>2. QED
      BY <1>1, <2>1, <3>1 DEF IInv, SuspectsOK, SocketOK, AcksOK, ringVars
  <2>2. CASE Suspect(s, {}) /\ ProclaimItself(s, connect)
    <3>1. SuspectsOK'
      BY <1>1, <2>2, SuspectProperties
    <3>2. QED
      BY <1>1, <1>3, <2>2, <3>1, ProclaimProperties
  <2>3. CASE Suspect(s, {}) /\ SendToNeighbor(s, m, connect) /\ UNCHANGED sequence_number
    <3>1. SuspectsOK' /\ actual_neighbor_id'[s] \in Server
      BY <1>1, <2>3, SuspectProperties
    <3>2. sequence_number' \in [Server -> Nat]
      BY <2>3 DEF IInv, AcksOK
    <3>3. QED
      BY <1>1, <1>2, <1>3, <2>3, <3>1, <3>2, ToNeighborProperties
  <2>4. QED
    BY <2>1, <2>2, <2>3 DEF NewLeaderHandler, connect
<1>5. ProcessesOK' /\ AcksOK'
  BY <1>1, <1>4 DEF IInv, ProcessesOK, AcksOK, processVars
<1>6. LeadersOK'
  BY <1>1, <1>2 DEF IInv, LeadersOK
<1>7. NoSocketOK'
  BY <1>1, <1>2, <1>4, OthersStayQuiet DEF IInv, processVars
<1>8. QED
  BY <1>4, <1>5, <1>6, <1>7 DEF IInv

LEMMA NeighborAckStep ==
    ASSUME IInv, NEW s \in Server, NeighborAck(s)
    PROVE  IInv'
<1> DEFINE m == Head(mailbox[s])
<1>1. /\ Received(s, "ack")
      /\ disconnected_servers' = [disconnected_servers EXCEPT ![s] = @ \ {m.id}]
      /\ message_received_ack' =
            [message_received_ack EXCEPT ![s] = @ \cup {m.sequence_number}]
      /\ Consume(s, <<>>)
      /\ UNCHANGED <<processVars, leaderVars, actual_neighbor_id, sequence_number,
                     socket, pongs>>
  BY DEF NeighborAck
<1>2. s \in udp_sender /\ m.sequence_number \in Nat
  BY <1>1, ReceivedMessage, MessageFields
<1>3. MailboxOK' /\ \A r \in Server \ {s} : mailbox'[r] = mailbox[r]
  BY <1>1, ConsumeProperties, NothingSent
<1>4. ProcessesOK' /\ LeadersOK' /\ SuspectsOK' /\ SocketOK'
  BY <1>1 DEF IInv, ProcessesOK, LeadersOK, SuspectsOK, SocketOK, processVars, leaderVars
<1>5. AcksOK'
  BY <1>1, <1>2 DEF IInv, AcksOK
<1>6. NoSocketOK'
  BY <1>1, <1>2, <1>3, OthersStayQuiet DEF IInv, processVars, leaderVars
<1>7. QED
  BY <1>3, <1>4, <1>5, <1>6 DEF IInv

LEMMA ConnectToServerStep ==
    ASSUME IInv, NEW s \in Server, ConnectToServer(s)
    PROVE  IInv'
<1>1. /\ Received(s, "connect")
      /\ Consume(s, <<>>)
      /\ UNCHANGED <<processVars, id_leader, im_leader, servers, ringVars, ackVars,
                     socket, pongs>>
      /\ \/ /\ leader_connection' = [leader_connection EXCEPT ![s] = TRUE]
            /\ link' = [link EXCEPT ![s] = id_leader[s]]
         \/ UNCHANGED <<leader_connection, link>>
  BY DEF ConnectToServer
<1>2. s \in udp_sender
  BY <1>1, ReceivedMessage
<1>3. MailboxOK' /\ \A r \in Server \ {s} : mailbox'[r] = mailbox[r]
  BY <1>1, ConsumeProperties, NothingSent
<1>4. ProcessesOK' /\ SuspectsOK' /\ AcksOK' /\ SocketOK'
  BY <1>1 DEF IInv, ProcessesOK, SuspectsOK, AcksOK, SocketOK, processVars, ringVars, ackVars
<1>5. LeadersOK' /\ \A r \in Server \ {s} : leader_connection'[r] = leader_connection[r]
  BY <1>1 DEF IInv, LeadersOK
<1>6. NoSocketOK'
  BY <1>1, <1>2, <1>3, <1>5, OthersStayQuiet DEF IInv, processVars
<1>7. QED
  BY <1>3, <1>4, <1>5, <1>6 DEF IInv

-----------------------------------------------------------------------------
(* So does every handler of the membership and of the heartbeat.           *)

\* A step that leaves the sockets alone, and gives a process without one only
\* what any process may be sent.
LEMMA PlainStep ==
    ASSUME NoSocketOK, udp_sender' = udp_sender, socket' = socket,
           leader_connection' = leader_connection,
           \A r \in Server \ udp_sender :
               mailbox'[r] = mailbox[r] \/ mailbox'[r] \in Seq(PlainMessage)
    PROVE  NoSocketOK'
BY DEF NoSocketOK

LEMMA NewServerConnectionStep ==
    ASSUME IInv, NEW s \in Server, NewServerConnection(s)
    PROVE  IInv'
<1> DEFINE r    == Head(mailbox[s]).id
           pong == [type |-> "pong", to |-> servers[s] \cup {r}]
<1>1. /\ Received(s, "new_server")
      /\ disconnected_servers' = [disconnected_servers EXCEPT ![s] = @ \ {r}]
      /\ servers' = [servers EXCEPT ![s] = @ \cup {r}]
      /\ Consume(s, <<pong>>)
      /\ UNCHANGED <<processVars, id_leader, im_leader, leader_connection, link,
                     actual_neighbor_id, ackVars, socket, pongs>>
  BY DEF NewServerConnection
<1>2. r \in Server
  BY <1>1, ReceivedMessage, MessageFields
<1>3. pong \in PlainMessage /\ pong \in GoodMessage
  BY <1>2 DEF PlainMessage, GoodMessage, IInv, LeadersOK
<1>4. /\ MailboxOK'
      /\ \A t \in Server \ {s} : mailbox'[t] = mailbox[t]
      /\ s \notin udp_sender => mailbox'[s] \in Seq(PlainMessage)
  <2> HIDE DEF pong
  <2>1. <<pong>> \in Seq(PlainMessage) /\ <<pong>> \in Seq(GoodMessage)
    BY <1>3
  <2>2. QED
    BY <1>1, <2>1, ConsumeProperties, PlainConsume
<1>5. ProcessesOK' /\ LeadersOK' /\ SuspectsOK' /\ AcksOK' /\ SocketOK'
  BY <1>1, <1>2 DEF IInv, ProcessesOK, LeadersOK, SuspectsOK, AcksOK, SocketOK,
                    processVars, ackVars
<1>6. NoSocketOK'
  BY <1>1, <1>4, PlainStep DEF IInv, processVars
<1>7. QED
  BY <1>4, <1>5, <1>6 DEF IInv

LEMMA PongStep ==
    ASSUME IInv, NEW s \in Server, Pong(s)
    PROVE  IInv'
<1> DEFINE to == {r \in Head(mailbox[s]).to : link[r] = s}
<1>1. /\ Received(s, "pong")
      /\ pongs' = [pongs EXCEPT ![s] = [r \in Server |->
             IF r \in to THEN Append(@[r], disconnected_servers[s]) ELSE @[r]]]
      /\ Consume(s, <<>>)
      /\ UNCHANGED <<processVars, leaderVars, ringVars, ackVars, socket>>
  BY DEF Pong
<1>2. /\ MailboxOK'
      /\ \A r \in Server \ {s} : mailbox'[r] = mailbox[r]
      /\ s \notin udp_sender => mailbox'[s] \in Seq(PlainMessage)
  BY <1>1, NothingSent, ConsumeProperties, PlainConsume
<1>3. \A r \in Server : Append(pongs[s][r], disconnected_servers[s]) \in Seq(SUBSET Server)
  BY AppendProperties DEF IInv, SuspectsOK
<1>4. SuspectsOK'
  <2> HIDE DEF to
  <2> QED  BY <1>1, <1>3 DEF IInv, SuspectsOK, ringVars
<1>5. ProcessesOK' /\ LeadersOK' /\ AcksOK' /\ SocketOK'
  BY <1>1 DEF IInv, ProcessesOK, LeadersOK, AcksOK, SocketOK, processVars, leaderVars, ackVars
<1>6. NoSocketOK'
  BY <1>1, <1>2, PlainStep DEF IInv, processVars, leaderVars
<1>7. QED
  BY <1>2, <1>4, <1>5, <1>6 DEF IInv

LEMMA UpdateNetworkStateStep ==
    ASSUME IInv, NEW s \in Server, UpdateNetworkState(s)
    PROVE  IInv'
<1> DEFINE m == Head(mailbox[s])
<1>1. /\ Received(s, "update_state")
      /\ disconnected_servers' =
             [disconnected_servers EXCEPT ![s] = m.disconnected_servers]
      /\ Consume(s, <<>>)
      /\ UNCHANGED <<processVars, leaderVars, actual_neighbor_id, ackVars, socket, pongs>>
  BY DEF UpdateNetworkState
<1>2. m.disconnected_servers \in SUBSET Server
  BY <1>1, ReceivedMessage, MessageFields
<1>3. /\ MailboxOK'
      /\ \A r \in Server \ {s} : mailbox'[r] = mailbox[r]
      /\ s \notin udp_sender => mailbox'[s] \in Seq(PlainMessage)
  BY <1>1, NothingSent, ConsumeProperties, PlainConsume
<1>4. ProcessesOK' /\ LeadersOK' /\ SuspectsOK' /\ AcksOK' /\ SocketOK'
  BY <1>1, <1>2 DEF IInv, ProcessesOK, LeadersOK, SuspectsOK, AcksOK, SocketOK,
                    processVars, leaderVars, ackVars
<1>5. NoSocketOK'
  BY <1>1, <1>3, PlainStep DEF IInv, processVars, leaderVars
<1>6. QED
  BY <1>3, <1>4, <1>5 DEF IInv

LEMMA SetLeaderStep ==
    ASSUME IInv, NEW s \in Server, SetLeader(s)
    PROVE  IInv'
<1> DEFINE m == Head(mailbox[s])
<1>1. /\ Received(s, "set_leader")
      /\ id_leader' = [id_leader EXCEPT ![s] = m.id_leader]
      /\ leader_connection' = [leader_connection EXCEPT ![s] = TRUE]
      /\ Consume(s, <<>>)
      /\ UNCHANGED <<processVars, im_leader, link, servers, ringVars, ackVars, socket, pongs>>
  BY DEF SetLeader
<1>2. s \in udp_sender /\ m.id_leader \in Server
  BY <1>1, ReceivedMessage, MessageFields
<1>3. MailboxOK' /\ \A r \in Server \ {s} : mailbox'[r] = mailbox[r]
  BY <1>1, NothingSent, ConsumeProperties
<1>4. ProcessesOK' /\ SuspectsOK' /\ AcksOK' /\ SocketOK'
  BY <1>1 DEF IInv, ProcessesOK, SuspectsOK, AcksOK, SocketOK, processVars, ringVars, ackVars
<1>5. LeadersOK' /\ \A r \in Server \ {s} : leader_connection'[r] = leader_connection[r]
  BY <1>1, <1>2 DEF IInv, LeadersOK
<1>6. NoSocketOK'
  BY <1>1, <1>2, <1>3, <1>5, OthersStayQuiet DEF IInv, processVars
<1>7. QED
  BY <1>3, <1>4, <1>5, <1>6 DEF IInv

-----------------------------------------------------------------------------
(* What happens outside the Server actor.                                  *)

\* One more message at the end of one mailbox.
LEMMA MailProperties ==
    ASSUME IInv, NEW t \in Server, NEW m \in GoodMessage,
           mailbox' = [mailbox EXCEPT ![t] = Append(@, m)]
    PROVE  /\ MailboxOK'
           /\ \A r \in Server \ {t} : mailbox'[r] = mailbox[r]
           /\ t \notin udp_sender /\ m \in PlainMessage => mailbox'[t] \in Seq(PlainMessage)
<1>1. mailbox[t] \in Seq(GoodMessage) /\ mailbox'[t] = Append(mailbox[t], m)
  BY DEF IInv, MailboxOK
<1>2. Append(mailbox[t], m) \in Seq(GoodMessage)
  BY <1>1, AppendProperties
<1>3. MailboxOK' /\ \A r \in Server \ {t} : mailbox'[r] = mailbox[r]
  BY <1>2 DEF IInv, MailboxOK
<1>4. ASSUME t \notin udp_sender, m \in PlainMessage
      PROVE  Append(mailbox[t], m) \in Seq(PlainMessage)
  BY <1>4, AppendProperties DEF IInv, NoSocketOK
<1>5. QED
  BY <1>1, <1>3, <1>4

\* Counting one more fault.
LEMMA FaultCounted ==
    ASSUME faults \in FaultCounts
    PROVE  /\ [faults EXCEPT !.pings = @ + 1] \in FaultCounts
           /\ [faults EXCEPT !.late = @ + 1] \in FaultCounts
           /\ [faults EXCEPT !.elections = @ + 1] \in FaultCounts
           /\ [faults EXCEPT !.losses = @ + 1] \in FaultCounts
           /\ [faults EXCEPT !.restarts = @ + 1] \in FaultCounts
           /\ \A n \in {faults.amid, faults.amid + 1} :
                 [faults EXCEPT !.crashes = @ + 1, !.elections = 0, !.amid = n] \in FaultCounts
<1>1. /\ faults.pings + 1 \in Nat /\ faults.elections + 1 \in Nat /\ faults.losses + 1 \in Nat
      /\ faults.restarts + 1 \in Nat /\ faults.crashes + 1 \in Nat /\ faults.late + 1 \in Nat
      /\ faults.amid \in Nat /\ faults.amid + 1 \in Nat
  BY DEF FaultCounts
<1>2. [faults EXCEPT !.pings = @ + 1] \in FaultCounts
  BY <1>1 DEF FaultCounts
<1>3. [faults EXCEPT !.elections = @ + 1] \in FaultCounts
  BY <1>1 DEF FaultCounts
<1>4. [faults EXCEPT !.losses = @ + 1] \in FaultCounts
  BY <1>1 DEF FaultCounts
<1>5. [faults EXCEPT !.restarts = @ + 1] \in FaultCounts
  BY <1>1 DEF FaultCounts
<1>6. [faults EXCEPT !.late = @ + 1] \in FaultCounts
  BY <1>1 DEF FaultCounts
<1>7. ASSUME NEW n \in {faults.amid, faults.amid + 1}
      PROVE  [faults EXCEPT !.crashes = @ + 1, !.elections = 0, !.amid = n] \in FaultCounts
  <2> DEFINE counted == [faults EXCEPT !.crashes = @ + 1]
             cleared == [counted EXCEPT !.elections = 0]
  <2>1. counted \in FaultCounts
    BY <1>1 DEF FaultCounts
  <2>2. cleared \in FaultCounts
    BY <2>1 DEF FaultCounts
  <2>3. [cleared EXCEPT !.amid = n] \in FaultCounts
    BY <1>1, <2>2 DEF FaultCounts
  <2>4. QED
    BY <2>3
<1>8. QED
  BY <1>2, <1>3, <1>4, <1>5, <1>6, <1>7

LEMMA PingLiveLeaderStep ==
    ASSUME IInv, NEW s \in Server, PingLiveLeader(s)
    PROVE  IInv'
<1> DEFINE m == [type |-> "pong", to |-> {s}]
           t == link[s]
<1>1. /\ link[s] # None
      /\ faults' = [faults EXCEPT !.pings = @ + 1]
      /\ mailbox' = [mailbox EXCEPT ![t] = Append(@, m)]
      /\ UNCHANGED <<alive, joining, udp_sender, leaderVars, ringVars, ackVars, socket, pongs>>
  BY DEF PingLiveLeader
<1>2. t \in Server /\ m \in PlainMessage /\ m \in GoodMessage
  BY <1>1 DEF IInv, LeadersOK, PlainMessage, GoodMessage
<1>3. /\ MailboxOK'
      /\ \A r \in Server \ {t} : mailbox'[r] = mailbox[r]
      /\ t \notin udp_sender => mailbox'[t] \in Seq(PlainMessage)
  <2> HIDE DEF m
  <2> QED  BY <1>1, <1>2, MailProperties
<1>4. ProcessesOK' /\ LeadersOK' /\ SuspectsOK' /\ AcksOK' /\ SocketOK'
  BY <1>1, FaultCounted DEF IInv, ProcessesOK, LeadersOK, SuspectsOK, AcksOK, SocketOK,
                            leaderVars, ringVars, ackVars
<1>5. NoSocketOK'
  BY <1>1, <1>2, <1>3, PlainStep DEF IInv, leaderVars
<1>6. QED
  BY <1>3, <1>4, <1>5 DEF IInv

LEMMA PingTooLateStep ==
    ASSUME IInv, NEW s \in Server, PingTooLate(s)
    PROVE  IInv'
<1> DEFINE m == [type |-> "start_election"]
<1>1. /\ s \in alive /\ leader_connection[s]
      /\ faults' = [faults EXCEPT !.late = @ + 1]
      /\ mailbox' = [mailbox EXCEPT ![s] = Append(@, m)]
      /\ UNCHANGED <<alive, joining, udp_sender, leaderVars, ringVars, ackVars, socket, pongs>>
  BY DEF PingTooLate
<1>2. s \in udp_sender
  BY <1>1 DEF IInv, NoSocketOK
<1>3. MailboxOK' /\ \A r \in Server \ {s} : mailbox'[r] = mailbox[r]
  <2>1. m \in GoodMessage
    BY DEF GoodMessage
  <2> HIDE DEF m
  <2> QED  BY <1>1, <2>1, MailProperties
<1>4. ProcessesOK' /\ LeadersOK' /\ SuspectsOK' /\ AcksOK' /\ SocketOK'
  BY <1>1, FaultCounted DEF IInv, ProcessesOK, LeadersOK, SuspectsOK, AcksOK, SocketOK,
                            leaderVars, ringVars, ackVars
<1>5. NoSocketOK'
  BY <1>1, <1>2, <1>3, OthersStayQuiet DEF IInv, leaderVars
<1>6. QED
  BY <1>3, <1>4, <1>5 DEF IInv

LEMMA PingDeadLeaderStep ==
    ASSUME IInv, NEW s \in Server, PingDeadLeader(s)
    PROVE  IInv'
<1> DEFINE m == [type |-> "start_election"]
<1>1. /\ s \in alive /\ leader_connection[s]
      /\ faults' = [faults EXCEPT !.elections = @ + 1]
      /\ leader_connection' = [leader_connection EXCEPT ![s] = FALSE]
      /\ mailbox' = [mailbox EXCEPT ![s] = Append(@, m)]
      /\ UNCHANGED <<alive, joining, udp_sender, id_leader, im_leader, link, servers,
                     ringVars, ackVars, socket, pongs>>
  BY DEF PingDeadLeader
<1>2. s \in udp_sender
  BY <1>1 DEF IInv, NoSocketOK
<1>3. MailboxOK' /\ \A r \in Server \ {s} : mailbox'[r] = mailbox[r]
  <2>1. m \in GoodMessage
    BY DEF GoodMessage
  <2> HIDE DEF m
  <2> QED  BY <1>1, <2>1, MailProperties
<1>4. ProcessesOK' /\ SuspectsOK' /\ AcksOK' /\ SocketOK'
  BY <1>1, FaultCounted DEF IInv, ProcessesOK, SuspectsOK, AcksOK, SocketOK, ringVars, ackVars
<1>5. LeadersOK' /\ \A r \in Server \ {s} : leader_connection'[r] = leader_connection[r]
  BY <1>1 DEF IInv, LeadersOK
<1>6. NoSocketOK'
  BY <1>1, <1>2, <1>3, <1>5, OthersStayQuiet DEF IInv
<1>7. QED
  BY <1>3, <1>4, <1>5, <1>6 DEF IInv

LEMMA ReceivePongStep ==
    ASSUME IInv, NEW s \in Server, NEW l \in Server, ReceivePong(s, l)
    PROVE  IInv'
<1> DEFINE m == [type |-> "update_state", disconnected_servers |-> Head(pongs[l][s])]
<1>1. /\ pongs[l][s] # <<>>
      /\ pongs' = [pongs EXCEPT ![l][s] = Tail(@)]
      /\ mailbox' = [mailbox EXCEPT ![s] = Append(@, m)]
      /\ UNCHANGED <<processVars, leaderVars, ringVars, ackVars, socket>>
  BY DEF ReceivePong
<1>2. Head(pongs[l][s]) \in SUBSET Server /\ Tail(pongs[l][s]) \in Seq(SUBSET Server)
  BY <1>1, HeadTailProperties DEF IInv, SuspectsOK
<1>3. m \in PlainMessage /\ m \in GoodMessage
  BY <1>2 DEF PlainMessage, GoodMessage
<1>4. /\ MailboxOK'
      /\ \A r \in Server \ {s} : mailbox'[r] = mailbox[r]
      /\ s \notin udp_sender => mailbox'[s] \in Seq(PlainMessage)
  <2> HIDE DEF m
  <2> QED  BY <1>1, <1>3, MailProperties
<1>5. SuspectsOK'
  BY <1>1, <1>2 DEF IInv, SuspectsOK, ringVars
<1>6. ProcessesOK' /\ LeadersOK' /\ AcksOK' /\ SocketOK'
  BY <1>1 DEF IInv, ProcessesOK, LeadersOK, AcksOK, SocketOK, processVars, leaderVars, ackVars
<1>7. NoSocketOK'
  BY <1>1, <1>4, PlainStep DEF IInv, processVars, leaderVars
<1>8. QED
  BY <1>4, <1>5, <1>6, <1>7 DEF IInv

\* The first datagram of a socket.
LEMMA DatagramProperties ==
    ASSUME IInv, NEW s \in Server, socket[s] # <<>>
    PROVE  /\ s \in udp_sender
           /\ Head(socket[s]).src \in Server
           /\ Head(socket[s]).msg \in GoodPayload
           /\ Head(socket[s]).msg.sequence_number \in Nat
           /\ Tail(socket[s]) \in Seq(GoodDatagram)
<1>1. s \in udp_sender
  BY DEF IInv, NoSocketOK
<1>2. Head(socket[s]) \in GoodDatagram /\ Tail(socket[s]) \in Seq(GoodDatagram)
  BY HeadTailProperties DEF IInv, SocketOK
<1>3. QED
  BY <1>1, <1>2 DEF GoodDatagram, GoodPayload, GoodRing, RingMessage, AckMessage

LEMMA ReceiveDatagramStep ==
    ASSUME IInv, NEW s \in Server, ReceiveDatagram(s)
    PROVE  IInv'
<1> DEFINE d    == Head(socket[s])
           ack  == [src |-> s, msg |-> AckMsg(0, d.msg.sequence_number)]
           rest == [socket EXCEPT ![s] = Tail(@)]
<1>1. /\ s \in udp_sender /\ socket[s] # <<>>
      /\ mailbox' = [mailbox EXCEPT ![s] = Append(@, d.msg)]
      /\ \/ d.src \in udp_sender /\ socket' = [rest EXCEPT ![d.src] = Append(@, ack)]
         \/ socket' = rest
      /\ UNCHANGED <<processVars, leaderVars, ringVars, ackVars, pongs>>
  BY DEF ReceiveDatagram
<1>2. /\ d.src \in Server
      /\ d.msg \in GoodPayload
      /\ d.msg.sequence_number \in Nat
      /\ Tail(socket[s]) \in Seq(GoodDatagram)
  BY <1>1, DatagramProperties
<1>3. ack \in GoodDatagram
  BY <1>2 DEF AckMsg, GoodDatagram, GoodPayload, AckMessage
<1>4. MailboxOK' /\ \A r \in Server \ {s} : mailbox'[r] = mailbox[r]
  <2>1. d.msg \in GoodMessage
    BY <1>2 DEF GoodMessage
  <2>2. QED
    BY <1>1, <2>1, MailProperties
<1>5. /\ rest \in [Server -> Seq(GoodDatagram)]
      /\ \A r \in Server \ udp_sender : rest[r] = socket[r]
  BY <1>1, <1>2 DEF IInv, SocketOK
<1>6. SocketOK' /\ \A r \in Server \ udp_sender : socket'[r] = socket[r]
  <2> HIDE DEF rest, ack, d
  <2>1. \A r \in Server : Append(rest[r], ack) \in Seq(GoodDatagram)
    BY <1>3, <1>5, AppendProperties
  <2>2. QED
    BY <1>1, <1>2, <1>5, <2>1 DEF SocketOK
<1>7. ProcessesOK' /\ LeadersOK' /\ SuspectsOK' /\ AcksOK'
  BY <1>1 DEF IInv, ProcessesOK, LeadersOK, SuspectsOK, AcksOK,
              processVars, leaderVars, ringVars, ackVars
<1>8. NoSocketOK'
  BY <1>1, <1>4, <1>6, OthersStayQuiet DEF IInv, processVars, leaderVars
<1>9. QED
  BY <1>4, <1>6, <1>7, <1>8 DEF IInv

LEMMA LoseDatagramStep ==
    ASSUME IInv, NEW s \in Server, LoseDatagram(s)
    PROVE  IInv'
<1>1. /\ socket[s] # <<>>
      /\ faults' = [faults EXCEPT !.losses = @ + 1]
      /\ socket' = [socket EXCEPT ![s] = Tail(@)]
      /\ UNCHANGED <<alive, joining, udp_sender, leaderVars, ringVars, ackVars, mailbox, pongs>>
  BY DEF LoseDatagram
<1>2. s \in udp_sender /\ Tail(socket[s]) \in Seq(GoodDatagram)
  BY <1>1, DatagramProperties
<1>3. SocketOK' /\ \A r \in Server \ udp_sender : socket'[r] = socket[r]
  BY <1>1, <1>2 DEF IInv, SocketOK
<1>4. ProcessesOK' /\ LeadersOK' /\ SuspectsOK' /\ AcksOK' /\ MailboxOK'
  BY <1>1, FaultCounted DEF IInv, ProcessesOK, LeadersOK, SuspectsOK, AcksOK, MailboxOK,
                            leaderVars, ringVars, ackVars
<1>5. NoSocketOK'
  BY <1>1, <1>2, <1>3, OthersStayQuiet DEF IInv, leaderVars
<1>6. QED
  BY <1>3, <1>4, <1>5 DEF IInv

-----------------------------------------------------------------------------
(* Processes stop and start.                                               *)

LEMMA StopStep ==
    ASSUME IInv, NEW s \in Server, Stop(s),
           faults' \in FaultCounts
    PROVE  IInv'
<1> USE DEF Stop
<1>0. 1 \in Server
  BY MaxServersAssumption DEF Server
<1>1. ProcessesOK'
  BY DEF IInv, ProcessesOK
<1>2. LeadersOK'
  BY <1>0 DEF IInv, LeadersOK
<1>3. SuspectsOK'
  <2>1. <<>> \in Seq(SUBSET Server)
    BY EmptySeq
  <2>2. QED
    BY <2>1, NeighborType DEF IInv, SuspectsOK
<1>4. AcksOK'
  BY DEF IInv, AcksOK
<1>5. MailboxOK'
  BY NothingSent DEF IInv, MailboxOK
<1>6. SocketOK'
  <2>1. <<>> \in Seq(GoodDatagram)
    BY EmptySeq
  <2>2. QED
    BY <2>1 DEF IInv, SocketOK
<1>7. NoSocketOK'
  <2> SUFFICES ASSUME NEW r \in Server, r \notin udp_sender \ {s}
               PROVE  /\ mailbox'[r] \in Seq(PlainMessage)
                      /\ socket'[r] = <<>>
                      /\ ~leader_connection'[r]
    BY DEF NoSocketOK
  <2>1. CASE r = s
    BY <2>1, NothingSent DEF IInv, MailboxOK, SocketOK, LeadersOK
  <2>2. CASE r # s
    BY <2>2 DEF IInv, NoSocketOK, MailboxOK, SocketOK, LeadersOK
  <2>3. QED
    BY <2>1, <2>2
<1>8. QED
  BY <1>1, <1>2, <1>3, <1>4, <1>5, <1>6, <1>7 DEF IInv

LEMMA StartReplicaStep ==
    ASSUME IInv, NEW s \in Server, StartReplica(s)
    PROVE  IInv'
<1>1. /\ faults' = [faults EXCEPT !.restarts = @ + 1]
      /\ alive' = alive \cup {s}
      /\ joining' = joining \cup {s}
      /\ udp_sender' = udp_sender \cup {s}
      /\ UNCHANGED <<leaderVars, ringVars, ackVars, mailbox, socket, pongs>>
  BY DEF StartReplica
<1>2. ProcessesOK'
  BY <1>1, FaultCounted DEF IInv, ProcessesOK
<1>3. LeadersOK' /\ SuspectsOK' /\ AcksOK' /\ MailboxOK' /\ SocketOK' /\ NoSocketOK'
  BY <1>1 DEF IInv, LeadersOK, SuspectsOK, AcksOK, MailboxOK, SocketOK, NoSocketOK,
              leaderVars, ringVars, ackVars
<1>4. QED
  BY <1>2, <1>3 DEF IInv

LEMMA JoinStep ==
    ASSUME IInv, NEW s \in joining, NEW t \in Server, NEW leader_id \in Server,
           Join(s, t, leader_id)
    PROVE  IInv'
<1> DEFINE new == [type |-> "new_server", id |-> s]
           set == [type |-> "set_leader", id_leader |-> leader_id]
           one == [mailbox EXCEPT ![t] = Append(@, new)]
<1>1. /\ joining' = joining \ {s}
      /\ link' = [link EXCEPT ![s] = t]
      /\ mailbox' = [one EXCEPT ![s] = Append(@, set)]
      /\ UNCHANGED <<alive, udp_sender, faults, id_leader, im_leader, leader_connection,
                     servers, ringVars, ackVars, socket, pongs>>
  BY DEF Join
<1>2. s \in Server /\ s \in udp_sender
  BY DEF IInv, ProcessesOK
<1>3. new \in GoodMessage /\ new \in PlainMessage /\ set \in GoodMessage
  BY <1>2 DEF GoodMessage, PlainMessage
<1>4. /\ MailboxOK'
      /\ \A r \in Server \ udp_sender :
            mailbox'[r] = mailbox[r] \/ mailbox'[r] \in Seq(PlainMessage)
  <2> HIDE DEF new, set
  <2>1. Append(mailbox[t], new) \in Seq(GoodMessage)
    BY <1>3, AppendProperties DEF IInv, MailboxOK
  <2>2. one \in [Server -> Seq(GoodMessage)]
    BY <2>1 DEF IInv, MailboxOK
  <2>3. Append(one[s], set) \in Seq(GoodMessage)
    BY <1>2, <1>3, <2>2, AppendProperties
  <2>4. MailboxOK'
    BY <1>1, <2>2, <2>3 DEF MailboxOK
  <2>5. ASSUME NEW r \in Server \ udp_sender
        PROVE  mailbox'[r] = mailbox[r] \/ mailbox'[r] \in Seq(PlainMessage)
    <3>1. mailbox'[r] = one[r]
      BY <1>1, <1>2, <2>2
    <3>2. mailbox[r] \in Seq(PlainMessage)
      BY DEF IInv, NoSocketOK
    <3>3. Append(mailbox[r], new) \in Seq(PlainMessage)
      BY <1>3, <3>2, AppendProperties
    <3>4. QED
      BY <3>1, <3>3 DEF IInv, MailboxOK
  <2>6. QED
    BY <2>4, <2>5
<1>5. ProcessesOK' /\ LeadersOK' /\ SuspectsOK' /\ AcksOK' /\ SocketOK'
  BY <1>1 DEF IInv, ProcessesOK, LeadersOK, SuspectsOK, AcksOK, SocketOK, ringVars, ackVars
<1>6. NoSocketOK'
  BY <1>1, <1>4, PlainStep DEF IInv
<1>7. QED
  BY <1>4, <1>5, <1>6 DEF IInv

LEMMA JoinLeaderStep ==
    ASSUME IInv, NEW s \in Server, JoinLeader(s)
    PROVE  IInv'
<1> DEFINE up == {t \in Server \ {s} : Listening(t)}
<1>1. s \in joining
  BY DEF JoinLeader
<1>2. 1 \in Server /\ FirstTried(s) \in Server
  BY MaxServersAssumption DEF FirstTried, Server
<1>3. CASE Join(s, FirstTried(s), 1)
  BY <1>1, <1>2, <1>3, JoinStep
<1>4. CASE up # {} /\ Join(s, Highest(up), Highest(up))
  <2>1. Highest(up) \in Server
    <3>1. up \in SUBSET Server
      OBVIOUS
    <3> HIDE DEF up
    <3> QED  BY <1>4, <3>1, HighestProperties
  <2>2. QED
    BY <1>1, <1>4, <2>1, JoinStep
<1>5. CASE Stop(s) /\ UNCHANGED faults
  BY <1>5, StopStep DEF IInv, ProcessesOK
<1>6. QED
  BY <1>3, <1>4, <1>5 DEF JoinLeader

LEMMA CrashStep ==
    ASSUME IInv, NEW s \in Server, Crash(s)
    PROVE  IInv'
<1>1. faults' \in FaultCounts
  <2> DEFINE n == IF Quiet THEN faults.amid ELSE faults.amid + 1
  <2>1. faults \in FaultCounts /\ n \in {faults.amid, faults.amid + 1}
    BY DEF IInv, ProcessesOK
  <2>2. faults' = [faults EXCEPT !.crashes = @ + 1, !.elections = 0, !.amid = n]
    BY DEF Crash
  <2> HIDE DEF n
  <2> QED  BY <2>1, <2>2, FaultCounted
<1>2. QED
  BY <1>1, StopStep DEF Crash

-----------------------------------------------------------------------------
(* The invariant is inductive, and implies the safety properties.          *)

LEMMA IInvStep == IInv /\ [Next]_vars => IInv'
<1> SUFFICES ASSUME IInv, [Next]_vars PROVE IInv'
  OBVIOUS
<1>1. ASSUME NEW s \in Server, ServerActor(s) PROVE IInv'
  BY <1>1, StartElectionStep, WaitForNeighborAckStep, CheckIfNeighborAckedStep,
     ElectionHandlerStep, NewLeaderHandlerStep, NeighborAckStep, ConnectToServerStep,
     NewServerConnectionStep, PongStep, UpdateNetworkStateStep, SetLeaderStep
     DEF ServerActor
<1>2. ASSUME NEW s \in Server,
             \/ PingLiveLeader(s) \/ PingTooLate(s) \/ PingDeadLeader(s)
             \/ ReceiveDatagram(s) \/ LoseDatagram(s)
             \/ \E l \in Server : ReceivePong(s, l)
             \/ Crash(s) \/ StartReplica(s) \/ JoinLeader(s)
      PROVE  IInv'
  BY <1>2, PingLiveLeaderStep, PingTooLateStep, PingDeadLeaderStep, ReceiveDatagramStep, LoseDatagramStep,
     ReceivePongStep, CrashStep, StartReplicaStep, JoinLeaderStep
<1>3. CASE UNCHANGED vars
  BY <1>3 DEF vars, processVars, leaderVars, ringVars, ackVars, IInv, ProcessesOK, LeadersOK,
              SuspectsOK, AcksOK, MailboxOK, SocketOK, NoSocketOK
<1>4. QED
  BY <1>1, <1>2, <1>3 DEF Next

LEMMA GoodIsMessage ==
    /\ GoodMessage \subseteq Message
    /\ GoodDatagram \subseteq Datagram
    /\ \A m \in GoodMessage :
          /\ Dominates(m)
          /\ m.type \in {"wait", "check"} => Dominates(m.msg)
    /\ \A d \in GoodDatagram : Dominates(d.msg)
<1> USE DEF GoodPayload, GoodRing, WaitMessage, PlainMessage
<1>1. GoodMessage \subseteq Message
  BY DEF GoodMessage, Message, Payload
<1>2. GoodDatagram \subseteq Datagram
  BY DEF GoodDatagram, Datagram, Payload
<1>3. ASSUME NEW m \in GoodMessage
      PROVE  Dominates(m) /\ (m.type \in {"wait", "check"} => Dominates(m.msg))
  <2>1. Dominates(m)
    BY DEF GoodMessage, Dominates, AckMessage, RingMessage
  <2>2. m.type \in {"wait", "check"} => m.msg \in GoodRing
    BY MessageFields
  <2>3. QED
    BY <2>1, <2>2
<1>4. \A d \in GoodDatagram : Dominates(d.msg)
  BY DEF GoodDatagram, Dominates, AckMessage
<1>5. QED
  BY <1>1, <1>2, <1>3, <1>4

LEMMA IInvImpliesTypeOK == IInv => TypeOK
<1> SUFFICES ASSUME IInv PROVE TypeOK
  OBVIOUS
<1>1. \A s \in Server : mailbox[s] \in Seq(Message)
  BY GoodIsMessage, SeqMonotonic DEF IInv, MailboxOK
<1>2. \A s \in Server : socket[s] \in Seq(Datagram)
  BY GoodIsMessage, SeqMonotonic DEF IInv, SocketOK
<1>3. mailbox \in [Server -> Seq(Message)] /\ socket \in [Server -> Seq(Datagram)]
  BY <1>1, <1>2 DEF IInv, MailboxOK, SocketOK
<1>4. QED
  BY <1>3 DEF IInv, TypeOK, ProcessesOK, LeadersOK, SuspectsOK, AcksOK

LEMMA IInvImpliesDominates == IInv => LeaderDominatesSender
<1> SUFFICES ASSUME IInv, NEW s \in Server
             PROVE  /\ \A i \in DOMAIN mailbox[s] :
                           /\ Dominates(mailbox[s][i])
                           /\ mailbox[s][i].type \in {"wait", "check"}
                                 => Dominates(mailbox[s][i].msg)
                    /\ \A i \in DOMAIN socket[s] : Dominates(socket[s][i].msg)
  BY DEF LeaderDominatesSender
<1>1. \A i \in DOMAIN mailbox[s] : mailbox[s][i] \in GoodMessage
  BY ElementOfSeq, LenProperties DEF IInv, MailboxOK
<1>2. \A i \in DOMAIN socket[s] : socket[s][i] \in GoodDatagram
  BY ElementOfSeq, LenProperties DEF IInv, SocketOK
<1>3. QED
  BY <1>1, <1>2, GoodIsMessage

LEMMA IInvImpliesSocket == IInv => RingHandlersHaveSocket
<1> SUFFICES ASSUME IInv, NEW s \in Server, s \notin udp_sender, mailbox[s] # <<>>
             PROVE  Head(mailbox[s]).type \notin {"election", "new_leader"}
  BY DEF RingHandlersHaveSocket
<1>1. Head(mailbox[s]) \in PlainMessage
  BY HeadTailProperties DEF IInv, NoSocketOK
<1>2. QED
  BY <1>1 DEF PlainMessage

LEMMA Invariance == Spec => []IInv
BY IInvInit, IInvStep, PTL DEF Spec

\* Every variable keeps its type, for any number of servers and any bounds.
THEOREM TypeCorrect == Spec => []TypeOK
BY Invariance, IInvImpliesTypeOK, PTL

\* Whatever is lost, late or crashes, no announcement on the ring or in a mailbox
\* proposes a leader below the server that sent it round (server.rs, Election).
THEOREM AnnouncementsDominate == Spec => []LeaderDominatesSender
BY Invariance, IInvImpliesDominates, PTL

\* The expect calls on udp_sender never fail: the first leader, which has no UDP
\* sender, is never handed an election or an announcement (server.rs, Election).
THEOREM SocketWhenNeeded == Spec => []RingHandlersHaveSocket
BY Invariance, IInvImpliesSocket, PTL
-----------------------------------------------------------------------------
(* While the first leader has not stopped, and no heartbeat was late: no   *)
(* election, nobody suspected.                                             *)

FirstReigns == FirstLeader \in alive \ udp_sender /\ faults.late = 0

\* What may wait in the mailbox of s then: nothing of the ring, snapshots
\* without suspects, and set_leader only where the link to the first leader is.
CalmMessage(s) ==
    [type : {"new_server"}, id : Server]
    \cup [type : {"pong"}, to : SUBSET Server]
    \cup [type : {"update_state"}, disconnected_servers : {{}}]
    \cup {m \in [type : {"set_leader"}, id_leader : Server] : link[s] = FirstLeader}

Calm(s) ==
    /\ mailbox[s] \in Seq(CalmMessage(s))
    /\ socket[s] = <<>>
    /\ disconnected_servers[s] = {}
    /\ \A l \in Server : pongs[l][s] \in Seq({{}})
    /\ im_leader[s] => s = FirstLeader
    /\ link[s] \in {None, FirstLeader}
    /\ leader_connection[s] => link[s] = FirstLeader

ReignInv == FirstReigns => \A s \in Server : Calm(s)

\* Nobody comes to reign by joining: whoever starts again has a UDP socket.
LEMMA ReignLasts ==
    ASSUME IInv, FirstReigns', [Next]_vars
    PROVE  FirstReigns
<1> DEFINE Counted == faults'.late \in {faults.late, faults.late + 1}
<1>1. /\ Counted
      /\ \/ UNCHANGED <<alive, udp_sender>>
         \/ \E s \in Server : alive' = alive \ {s} /\ udp_sender' = udp_sender \ {s}
         \/ \E s \in Server : alive' = alive \cup {s} /\ udp_sender' = udp_sender \cup {s}
  <2>0. faults \in FaultCounts
    BY DEF IInv, ProcessesOK
  <2>1. ASSUME NEW s \in Server, ServerActor(s)
        PROVE  UNCHANGED <<alive, udp_sender>> /\ Counted
    BY <2>1 DEF ServerActor, StartElection, WaitForNeighborAck, CheckIfNeighborAcked,
                ElectionHandler, NewLeaderHandler, NeighborAck, ConnectToServer,
                NewServerConnection, Pong, UpdateNetworkState, SetLeader, processVars
  <2>2. ASSUME NEW s \in Server,
               \/ PingLiveLeader(s) \/ PingTooLate(s) \/ PingDeadLeader(s)
               \/ ReceiveDatagram(s) \/ LoseDatagram(s)
               \/ \E l \in Server : ReceivePong(s, l)
        PROVE  UNCHANGED <<alive, udp_sender>> /\ Counted
    BY <2>0, <2>2 DEF PingLiveLeader, PingTooLate, PingDeadLeader, ReceiveDatagram,
                      LoseDatagram, ReceivePong, processVars, FaultCounts
  <2>3. ASSUME NEW s \in Server, Crash(s) \/ StartReplica(s) \/ JoinLeader(s)
        PROVE  /\ Counted
               /\ \/ UNCHANGED <<alive, udp_sender>>
                  \/ alive' = alive \ {s} /\ udp_sender' = udp_sender \ {s}
                  \/ alive' = alive \cup {s} /\ udp_sender' = udp_sender \cup {s}
    BY <2>0, <2>3 DEF Crash, Stop, StartReplica, JoinLeader, Join, FaultCounts
  <2>4. CASE UNCHANGED vars
    BY <2>4 DEF vars, processVars
  <2> QED  BY <2>1, <2>2, <2>3, <2>4 DEF Next
<1>2. faults.late \in Nat
  BY DEF IInv, ProcessesOK, FaultCounts
<1> QED  BY <1>1, <1>2 DEF FirstReigns, IInv, ProcessesOK

\* Nothing that is received then is of the ring.
LEMMA CalmHead ==
    ASSUME IInv, NEW s \in Server, Calm(s), NEW type, Received(s, type)
    PROVE  /\ Head(mailbox[s]) \in CalmMessage(s)
           /\ Tail(mailbox[s]) \in Seq(CalmMessage(s))
           /\ type \in {"new_server", "pong", "update_state", "set_leader"}
<1>1. mailbox[s] \in Seq(CalmMessage(s)) /\ mailbox[s] # <<>>  BY DEF Calm, Received
<1>2. Head(mailbox[s]) \in CalmMessage(s) /\ Tail(mailbox[s]) \in Seq(CalmMessage(s))
  BY <1>1, HeadTailProperties
<1> QED  BY <1>2 DEF CalmMessage, Received

LEMMA CalmActor ==
    ASSUME IInv, NEW s \in Server, \A r \in Server : Calm(r), ServerActor(s)
    PROVE  \A r \in Server : Calm(r)'
<1>1. \E type \in {"new_server", "pong", "update_state", "set_leader"} : Received(s, type)
  <2>1. \E type : Received(s, type)
    BY DEF ServerActor, StartElection, WaitForNeighborAck, CheckIfNeighborAcked,
           ElectionHandler, NewLeaderHandler, NeighborAck, ConnectToServer,
           NewServerConnection, Pong, UpdateNetworkState, SetLeader
  <2> QED  BY <2>1, CalmHead
<1>2. NewServerConnection(s) \/ Pong(s) \/ UpdateNetworkState(s) \/ SetLeader(s)
  BY <1>1 DEF ServerActor, StartElection, WaitForNeighborAck, CheckIfNeighborAcked,
              ElectionHandler, NewLeaderHandler, NeighborAck, ConnectToServer, Received
<1>3. ASSUME NEW type, Received(s, type), NEW out \in Seq(CalmMessage(s)), Consume(s, out),
             UNCHANGED <<im_leader, link, socket>>,
             \A r \in Server : disconnected_servers'[r] = {},
             \A r, l \in Server : pongs'[l][r] \in Seq({{}}),
             \A r \in Server : leader_connection'[r] => link[r] = FirstLeader
      PROVE  \A r \in Server : Calm(r)'
  <2>1. \A r \in Server : CalmMessage(r)' = CalmMessage(r)  BY <1>3 DEF CalmMessage
  <2>2. Tail(mailbox[s]) \o out \in Seq(CalmMessage(s))
    BY <1>3, CalmHead, ConcatProperties
  <2>3. \A r \in Server : mailbox'[r] = IF r = s THEN Tail(mailbox[s]) \o out ELSE mailbox[r]
    BY <1>3 DEF Consume, IInv, MailboxOK
  <2>4. \A r \in Server : mailbox'[r] \in Seq(CalmMessage(r)')
    BY <2>1, <2>2, <2>3 DEF Calm
  <2> QED  BY <1>3, <2>4 DEF Calm
<1>4. <<>> \in Seq(CalmMessage(s))  OBVIOUS
<1>5. /\ \A r \in Server : disconnected_servers[r] = {}
      /\ \A r, l \in Server : pongs[l][r] \in Seq({{}})
      /\ \A r \in Server : leader_connection[r] => link[r] = FirstLeader
      /\ disconnected_servers \in [Server -> SUBSET Server]
      /\ pongs \in [Server -> [Server -> Seq(SUBSET Server)]]
      /\ leader_connection \in [Server -> BOOLEAN]
      /\ servers \in [Server -> SUBSET Server]
  BY DEF Calm, IInv, SuspectsOK, LeadersOK
<1>6. CASE NewServerConnection(s)
  <2> DEFINE r == Head(mailbox[s]).id
             pong == [type |-> "pong", to |-> servers[s] \cup {r}]
  <2>1. /\ Received(s, "new_server") /\ Consume(s, <<pong>>)
        /\ disconnected_servers' = [disconnected_servers EXCEPT ![s] = @ \ {r}]
        /\ UNCHANGED <<im_leader, link, socket, pongs, leader_connection>>
    BY <1>6 DEF NewServerConnection
  <2>2. pong \in CalmMessage(s)
    <3>1. r \in Server  BY <2>1, ReceivedMessage, MessageFields
    <3> QED  BY <1>5, <3>1 DEF CalmMessage
  <2>3. <<pong>> \in Seq(CalmMessage(s))
    <3> HIDE DEF pong
    <3> QED  BY <2>2
  <2>4. \A q \in Server : disconnected_servers'[q] = {}  BY <1>5, <2>1
  <2> HIDE DEF pong
  <2> QED  BY <1>3, <1>5, <2>1, <2>3, <2>4
<1>7. CASE Pong(s)
  <2> DEFINE to == {r \in Head(mailbox[s]).to : link[r] = s}
  <2>1. /\ Received(s, "pong") /\ Consume(s, <<>>)
        /\ pongs' = [pongs EXCEPT ![s] = [r \in Server |->
               IF r \in to THEN Append(@[r], disconnected_servers[s]) ELSE @[r]]]
        /\ UNCHANGED <<im_leader, link, socket, disconnected_servers, leader_connection>>
    BY <1>7 DEF Pong, leaderVars, ringVars
  <2>2. \A r \in Server : Append(pongs[s][r], disconnected_servers[s]) \in Seq({{}})
    BY <1>5, AppendProperties
  <2>3. \A r, l \in Server : pongs'[l][r] \in Seq({{}})
    <3> HIDE DEF to
    <3> QED  BY <1>5, <2>1, <2>2
  <2> QED  BY <1>3, <1>4, <1>5, <2>1, <2>3
<1>8. CASE UpdateNetworkState(s)
  <2> DEFINE m == Head(mailbox[s])
  <2>1. /\ Received(s, "update_state") /\ Consume(s, <<>>)
        /\ disconnected_servers' = [disconnected_servers EXCEPT ![s] = m.disconnected_servers]
        /\ UNCHANGED <<im_leader, link, socket, pongs, leader_connection>>
    BY <1>8 DEF UpdateNetworkState, leaderVars
  <2>2. m.disconnected_servers = {}
    <3>1. m \in CalmMessage(s) /\ m.type = "update_state"  BY <2>1, CalmHead DEF Received
    <3> QED  BY <3>1 DEF CalmMessage
  <2>3. \A q \in Server : disconnected_servers'[q] = {}  BY <1>5, <2>1, <2>2
  <2> QED  BY <1>3, <1>4, <1>5, <2>1, <2>3
<1>9. CASE SetLeader(s)
  <2>1. /\ Received(s, "set_leader") /\ Consume(s, <<>>)
        /\ leader_connection' = [leader_connection EXCEPT ![s] = TRUE]
        /\ UNCHANGED <<im_leader, link, socket, pongs, disconnected_servers>>
    BY <1>9 DEF SetLeader, ringVars
  <2>2. link[s] = FirstLeader
    <3>1. Head(mailbox[s]) \in CalmMessage(s) /\ Head(mailbox[s]).type = "set_leader"
      BY <2>1, CalmHead DEF Received
    <3> QED  BY <3>1 DEF CalmMessage
  <2>3. \A q \in Server : leader_connection'[q] => link[q] = FirstLeader
    BY <1>5, <2>1, <2>2
  <2> QED  BY <1>3, <1>4, <1>5, <2>1, <2>3
<1> QED  BY <1>2, <1>6, <1>7, <1>8, <1>9

LEMMA CalmElsewhere ==
    ASSUME IInv, NEW s \in Server, FirstReigns, FirstReigns', \A r \in Server : Calm(r),
           \/ PingLiveLeader(s) \/ PingTooLate(s) \/ PingDeadLeader(s)
           \/ ReceiveDatagram(s) \/ LoseDatagram(s)
           \/ \E l \in Server : ReceivePong(s, l)
           \/ Crash(s) \/ StartReplica(s) \/ JoinLeader(s)
    PROVE  \A r \in Server : Calm(r)'
<1> USE DEF leaderVars, ringVars
<1>1. /\ mailbox \in [Server -> Seq(GoodMessage)]
      /\ pongs \in [Server -> [Server -> Seq(SUBSET Server)]]
      /\ link \in [Server -> Server \cup {None}]
      /\ None \notin Server /\ FirstLeader \in Server /\ 1 \in Server
  <2>1. None \notin Server /\ FirstLeader \in Server
    BY ElectionAssumption DEF Server
  <2>2. 1 \in Server
    BY MaxServersAssumption DEF Server
  <2>3. /\ mailbox \in [Server -> Seq(GoodMessage)]
        /\ pongs \in [Server -> [Server -> Seq(SUBSET Server)]]
        /\ link \in [Server -> Server \cup {None}]
    BY DEF IInv, MailboxOK, SuspectsOK, LeadersOK
  <2> QED  BY <2>1, <2>2, <2>3
<1>2. CASE UNCHANGED <<mailbox, socket, disconnected_servers, pongs, im_leader, link,
                       leader_connection>>
  BY <1>2 DEF Calm, CalmMessage
<1>3. CASE PingLiveLeader(s)
  <2> DEFINE m == [type |-> "pong", to |-> {s}]
             t == link[s]
  <2>1. /\ t \in Server
        /\ mailbox' = [mailbox EXCEPT ![t] = Append(@, m)]
        /\ UNCHANGED <<socket, disconnected_servers, pongs, im_leader, link, leader_connection>>
    BY <1>1, <1>3 DEF PingLiveLeader
  <2>2. \A r \in Server : CalmMessage(r)' = CalmMessage(r)  BY <2>1 DEF CalmMessage
  <2>3. m \in CalmMessage(t)  BY DEF CalmMessage
  <2>4. Append(mailbox[t], m) \in Seq(CalmMessage(t))
    <3> HIDE DEF m, t
    <3> QED  BY <2>1, <2>3, AppendProperties DEF Calm
  <2>5. \A r \in Server : mailbox'[r] \in Seq(CalmMessage(r)')
    <3> HIDE DEF m, t
    <3> QED  BY <1>1, <2>1, <2>2, <2>4 DEF Calm
  <2> QED  BY <2>1, <2>5 DEF Calm
<1>4. CASE PingDeadLeader(s)
  BY <1>1, <1>4 DEF PingDeadLeader, Calm
<1>10. ~PingTooLate(s)
  BY DEF PingTooLate, FirstReigns, IInv, ProcessesOK, FaultCounts
<1>5. CASE ReceiveDatagram(s) \/ LoseDatagram(s)
  BY <1>5 DEF ReceiveDatagram, LoseDatagram, Calm
<1>6. ASSUME NEW l \in Server, ReceivePong(s, l)  PROVE \A r \in Server : Calm(r)'
  <2> DEFINE m == [type |-> "update_state", disconnected_servers |-> Head(pongs[l][s])]
  <2>1. /\ pongs[l][s] # <<>>
        /\ pongs' = [pongs EXCEPT ![l][s] = Tail(@)]
        /\ mailbox' = [mailbox EXCEPT ![s] = Append(@, m)]
        /\ UNCHANGED <<socket, disconnected_servers, im_leader, link, leader_connection>>
    BY <1>6 DEF ReceivePong
  <2>2. Head(pongs[l][s]) = {} /\ Tail(pongs[l][s]) \in Seq({{}})
    BY <2>1, HeadTailProperties DEF Calm
  <2>3. \A r \in Server : CalmMessage(r)' = CalmMessage(r)  BY <2>1 DEF CalmMessage
  <2>4. m \in CalmMessage(s)  BY <2>2 DEF CalmMessage
  <2>5. Append(mailbox[s], m) \in Seq(CalmMessage(s))
    <3> HIDE DEF m
    <3> QED  BY <2>4, AppendProperties DEF Calm
  <2>6. \A r \in Server : mailbox'[r] \in Seq(CalmMessage(r)')
    <3> HIDE DEF m
    <3> QED  BY <1>1, <2>1, <2>3, <2>5 DEF Calm
  <2>7. \A r, k \in Server : pongs'[k][r] \in Seq({{}})
    BY <1>1, <2>1, <2>2 DEF Calm
  <2> QED  BY <2>1, <2>6, <2>7 DEF Calm
<1>7. ASSUME Stop(s)  PROVE \A r \in Server : Calm(r)'
  <2>1. s # FirstLeader  BY <1>7 DEF Stop, FirstReigns
  <2>2. \A r \in Server \ {s} : link[r] # s /\ link'[r] = link[r]
    BY <1>1, <1>7, <2>1 DEF Stop, Calm
  <2>3. ASSUME NEW r \in Server, r # s  PROVE Calm(r)'
    <3>1. /\ mailbox'[r] = mailbox[r] /\ socket'[r] = socket[r] /\ link'[r] = link[r]
          /\ disconnected_servers'[r] = disconnected_servers[r]
          /\ im_leader'[r] = im_leader[r] /\ leader_connection'[r] = leader_connection[r]
          /\ \A l \in Server : pongs'[l][r] = pongs[l][r]
      BY <1>1, <1>7, <2>2, <2>3
         DEF Stop, IInv, SocketOK, LeadersOK, SuspectsOK
    <3>2. CalmMessage(r)' = CalmMessage(r)  BY <3>1 DEF CalmMessage
    <3> QED  BY <3>1, <3>2 DEF Calm
  <2>4. Calm(s)'
    <3>1. /\ mailbox'[s] = <<>> /\ socket'[s] = <<>> /\ link'[s] = None
          /\ disconnected_servers'[s] = {} /\ ~im_leader'[s] /\ ~leader_connection'[s]
          /\ \A l \in Server : pongs'[l][s] = <<>>
      BY <1>1, <1>7 DEF Stop, IInv, SocketOK, LeadersOK, SuspectsOK
    <3>2. mailbox'[s] \in Seq(CalmMessage(s)')
      BY <3>1
    <3>3. \A l \in Server : pongs'[l][s] \in Seq({{}})
      BY <3>1, EmptySeq, Zenon
    <3> QED  BY <3>1, <3>2, <3>3 DEF Calm
  <2> QED  BY <2>3, <2>4
<1>8. ASSUME NEW t \in Server, NEW leader_id \in Server, Listening(t), s # t, Join(s, t, leader_id)
      PROVE  \A r \in Server : Calm(r)'
  <2> DEFINE new == [type |-> "new_server", id |-> s]
             set == [type |-> "set_leader", id_leader |-> leader_id]
             told == [mailbox EXCEPT ![t] = Append(@, new)]
  <2>1. t = FirstLeader  BY <1>8 DEF Listening, Calm
  <2>2. /\ link' = [link EXCEPT ![s] = t]
        /\ mailbox' = [told EXCEPT ![s] = Append(@, set)]
        /\ UNCHANGED <<socket, disconnected_servers, pongs, im_leader, leader_connection>>
    BY <1>8 DEF Join
  <2>3. \A r \in Server : CalmMessage(r) \subseteq CalmMessage(r)'
    BY <1>1, <2>1, <2>2 DEF CalmMessage
  <2>4. new \in CalmMessage(t)' /\ set \in CalmMessage(s)'
    BY <1>1, <2>1, <2>2 DEF CalmMessage
  <2> HIDE DEF new, set
  <2>5. \A r \in Server : mailbox[r] \in Seq(CalmMessage(r)')
    BY <2>3, SeqMonotonic DEF Calm
  <2>6. Append(mailbox[t], new) \in Seq(CalmMessage(t)')
        /\ Append(mailbox[s], set) \in Seq(CalmMessage(s)')
    BY <2>4, <2>5, AppendProperties
  <2>7. \A r \in Server : mailbox'[r] \in Seq(CalmMessage(r)')
    BY <1>1, <1>8, <2>2, <2>5, <2>6
  <2>8. \A r \in Server : link'[r] \in {None, FirstLeader} /\ (link[r] = FirstLeader => link'[r] = FirstLeader)
    BY <1>1, <2>1, <2>2 DEF Calm
  <2> QED  BY <2>2, <2>7, <2>8 DEF Calm
<1>9. CASE JoinLeader(s)
  <2> DEFINE up == {t \in Server \ {s} : Listening(t)}
  <2>1. FirstTried(s) \in Server /\ FirstTried(s) # s
    BY <1>1, MaxServersAssumption DEF FirstTried, Server
  <2>2. CASE Listening(FirstTried(s)) /\ Join(s, FirstTried(s), 1)
    BY <1>1, <1>8, <2>1, <2>2
  <2>3. CASE up # {} /\ Join(s, Highest(up), Highest(up))
    <3>1. Highest(up) \in up /\ up \subseteq Server
      <4>1. up \in SUBSET Server  OBVIOUS
      <4> HIDE DEF up
      <4> QED  BY <2>3, <4>1, HighestProperties
    <3>2. Highest(up) \in Server /\ Highest(up) # s /\ Listening(Highest(up))  BY <3>1
    <3> HIDE DEF up
    <3> QED  BY <1>8, <2>3, <3>2
  <2> QED  BY <1>7, <1>9, <2>2, <2>3 DEF JoinLeader
<1> QED  BY <1>2, <1>3, <1>4, <1>5, <1>6, <1>7, <1>9, <1>10 DEF Crash, StartReplica

LEMMA ReignStep ==
    ASSUME IInv, ReignInv, [Next]_vars
    PROVE  ReignInv'
<1> SUFFICES ASSUME FirstReigns'  PROVE \A s \in Server : Calm(s)'
  BY DEF ReignInv
<1>1. FirstReigns /\ \A s \in Server : Calm(s)  BY ReignLasts DEF ReignInv
<1>2. CASE UNCHANGED vars
  BY <1>1, <1>2 DEF vars, leaderVars, ringVars, Calm, CalmMessage
<1>3. ASSUME NEW s \in Server, ServerActor(s)  PROVE \A r \in Server : Calm(r)'
  BY <1>1, <1>3, CalmActor
<1> QED  BY <1>1, <1>2, <1>3, CalmElsewhere DEF Next

LEMMA ReignInit == Init => ReignInv
<1> SUFFICES ASSUME Init, NEW s \in Server  PROVE Calm(s)
  BY DEF ReignInv
<1>1. /\ mailbox[s] = <<>> /\ socket[s] = <<>> /\ disconnected_servers[s] = {}
      /\ \A l \in Server : pongs[l][s] = <<>>
      /\ im_leader[s] <=> s = FirstLeader
      /\ leader_connection[s] <=> s \in Replicas
      /\ link[s] = IF s \in Replicas THEN FirstLeader ELSE None
  BY DEF Init
<1>2. mailbox[s] \in Seq(CalmMessage(s))
  BY <1>1
<1>3. \A l \in Server : pongs[l][s] \in Seq({{}})
  BY <1>1, EmptySeq, Zenon
<1>4. FirstLeader \notin Replicas
  BY ElectionAssumption
<1> QED  BY <1>1, <1>2, <1>3, <1>4 DEF Calm

\* As long as the first leader runs and ServerConnection handled every heartbeat in
\* time, nobody else leads and nobody is suspected, whatever crashes and joins again
\* and whatever datagrams and acks are lost or late (server_connection.rs, Ping).
THEOREM ReignIsCalm == Spec => []ReignUndisturbed
<1>1. IInv /\ ReignInv => ReignUndisturbed
  BY DEF ReignInv, ReignUndisturbed, FirstReigns, Calm, IInv, ProcessesOK
<1>2. Init => ReignInv  BY ReignInit
<1>3. IInv /\ ReignInv /\ [Next]_vars => ReignInv'  BY ReignStep
<1> QED  BY <1>1, <1>2, <1>3, Invariance, PTL DEF Spec
=============================================================================
