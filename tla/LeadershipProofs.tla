------------------------- MODULE LeadershipProofs -------------------------
(***************************************************************************)
(* What module Election promises as long as the servers are left           *)
(* undisturbed (no crash falls into an election, no heartbeat is late,     *)
(* nothing is lost and nobody starts again) and acks and connections are   *)
(* timely, for any number of servers and of elections at once: nobody who  *)
(* runs is suspected, only the highest server is adopted as leader, and    *)
(* the servers keep the contract of module LeaderContract.                 *)
(*                                                                         *)
(* The argument is about where an election is.  Its list, seen from the    *)
(* server it is on its way to, is an arc of the ring: every server that    *)
(* runs and is not on the list comes before those that are (Arc).  So the  *)
(* election is back at a server of its list only when the list is all that *)
(* run.  That needs that no server which runs is passed (Near), which      *)
(* needs that none is suspected (Trusting), which needs that a check finds *)
(* the ack of a neighbour that runs (Answered).                            *)
(***************************************************************************)
EXTENDS ElectionProofs

\* The bounds under which nobody is ever disturbed, and what a timeout waits for
\* arrives in time.
Spaced ==
    /\ Timely /\ ~CrashesAnytime
    /\ MaxRestarts = 0 /\ MaxLosses = 0 /\ MaxLatePings = 0

-----------------------------------------------------------------------------
(* The ring.                                                               *)

\* Going round from g, the servers that run and are not in ids come before those in ids.
Arc(ids, g) == \A x \in alive \ ids, y \in ids : Distance(g, x) < Distance(g, y)

\* No server that runs lies between s and its neighbour.
Near(s) == \A x \in alive \ {s} :
    Distance(get_neighbor_id(s), actual_neighbor_id[s]) <= Distance(get_neighbor_id(s), x)

\* From one id on: the id itself is the last, all others are one nearer.
LEMMA FromNext ==
    ASSUME NEW a \in Server, NEW b \in Server
    PROVE  /\ a # b => Distance(get_neighbor_id(a), b) = Distance(a, b) - 1
           /\ Distance(get_neighbor_id(a), a) = MAX_SERVERS - 1
           /\ a # b => Distance(get_neighbor_id(a), b) < MAX_SERVERS - 1
           /\ a # b => Distance(a, b) > 0
BY MaxServersAssumption DEF Distance, Server, get_neighbor_id

\* Distances from an id on the way to another one.
LEMMA FromBetween ==
    ASSUME NEW a \in Server, NEW n \in Server, NEW x \in Server,
           Distance(a, n) <= Distance(a, x)
    PROVE  Distance(n, x) = Distance(a, x) - Distance(a, n)
BY MaxServersAssumption DEF Distance, Server

\* The converse: what is reached from n without passing a again.
LEMMA AddDistance ==
    ASSUME NEW a \in Server, NEW n \in Server, NEW x \in Server,
           Distance(a, n) + Distance(n, x) < MAX_SERVERS
    PROVE  Distance(a, x) = Distance(a, n) + Distance(n, x)
BY MaxServersAssumption DEF Distance, Server

LEMMA DistanceType ==
    ASSUME NEW a \in Server, NEW b \in Server
    PROVE  /\ Distance(a, b) \in Nat
           /\ Distance(a, b) < MAX_SERVERS
BY MaxServersAssumption DEF Distance, Server

\* A server that adds itself to an election that reached it keeps the arc.
LEMMA ArcAdd ==
    ASSUME alive \subseteq Server, NEW s \in Server, NEW ids \in SUBSET Server, Arc(ids, s), s \notin ids
    PROVE  Arc(ids \cup {s}, get_neighbor_id(s))
<1> SUFFICES ASSUME NEW x \in alive \ (ids \cup {s}), NEW y \in ids \cup {s}
             PROVE  Distance(get_neighbor_id(s), x) < Distance(get_neighbor_id(s), y)
  BY DEF Arc
<1>1. /\ Distance(get_neighbor_id(s), x) = Distance(s, x) - 1
      /\ Distance(get_neighbor_id(s), x) < MAX_SERVERS - 1
  BY FromNext
<1>2. CASE y = s
  BY <1>1, <1>2, FromNext
<1>3. CASE y \in ids
  <2>1. Distance(s, x) < Distance(s, y)
    BY <1>3 DEF Arc
  <2>2. Distance(get_neighbor_id(s), y) = Distance(s, y) - 1
    BY <1>3, FromNext
  <2> QED  BY <1>1, <2>1, <2>2, <1>3, DistanceType
<1> QED  BY <1>2, <1>3

\* An election of one server.
LEMMA ArcOne ==
    ASSUME alive \subseteq Server, NEW s \in Server
    PROVE  Arc({s}, get_neighbor_id(s))
BY FromNext DEF Arc

\* Sent to the neighbour, an election passes no server it has not visited.
LEMMA ArcMove ==
    ASSUME alive \subseteq Server, NEW s \in Server, NEW n \in Server,
           NEW ids \in SUBSET Server, s \in ids, Arc(ids, get_neighbor_id(s)),
           \A x \in alive \ {s} : Distance(get_neighbor_id(s), n) <= Distance(get_neighbor_id(s), x)
    PROVE  Arc(ids, n)
<1> DEFINE g == get_neighbor_id(s)
<1> SUFFICES ASSUME NEW x \in alive \ ids, NEW y \in ids
             PROVE  Distance(n, x) < Distance(n, y)
  BY DEF Arc
<1>1. x \in Server /\ y \in Server /\ x # s /\ g \in Server
  BY NeighborType
<1>2. Distance(g, n) <= Distance(g, x)
  BY <1>1
<1>3. Distance(g, x) < Distance(g, y)
  BY DEF Arc
<1> HIDE DEF g
<1>4. Distance(g, n) <= Distance(g, y)
  BY <1>1, <1>2, <1>3, DistanceType
<1>5. /\ Distance(n, x) = Distance(g, x) - Distance(g, n)
      /\ Distance(n, y) = Distance(g, y) - Distance(g, n)
  BY <1>1, <1>2, <1>4, FromBetween
<1> QED  BY <1>1, <1>3, <1>5, DistanceType

\* An election that is back at a server of its list has visited all that run.
LEMMA ArcClosed ==
    ASSUME IInv, NEW s \in Server, NEW ids \in SUBSET Server, s \in ids, Arc(ids, s),
           ids \subseteq alive
    PROVE  ids = alive
<1> SUFFICES ASSUME NEW x \in alive \ ids  PROVE FALSE
  OBVIOUS
<1>1. Distance(s, x) < Distance(s, s) /\ x \in Server
  BY DEF Arc, IInv, ProcessesOK
<1> QED  BY <1>1, DistanceProperties, DistanceType

\* update_neighbor passes no server that runs and is not suspected.
LEMMA NextIsNear ==
    ASSUME NEW s \in Server, NEW n \in Server, NEW down, NEW A \in SUBSET Server,
           down \cap A = {},
           \A x \in A \ {s} : Distance(get_neighbor_id(s), n) <= Distance(get_neighbor_id(s), x)
    PROVE  \A x \in A \ {s} : Distance(get_neighbor_id(s), NextNeighbor(n, s, down))
                                  <= Distance(get_neighbor_id(s), x)
<1> DEFINE g == get_neighbor_id(s)
           b == get_neighbor_id(n)
           f == FirstEligible(b, s, down)
<1> SUFFICES ASSUME NEW x \in A \ {s}
             PROVE  Distance(g, NextNeighbor(n, s, down)) <= Distance(g, x)
  OBVIOUS
<1>1. CASE n \notin down
  BY <1>1 DEF NextNeighbor
<1>2. CASE n \in down
  <2>1. Eligible(x, s, down) /\ HasNeighbor(n, s, down) /\ x # n
    BY <1>2 DEF Eligible, HasNeighbor
  <2>2. NextNeighbor(n, s, down) = f
    BY <1>2, <2>1 DEF NextNeighbor
  <2>3. b \in Server /\ g \in Server
    BY NeighborType
  <2>4. f \in Server /\ Distance(b, f) <= Distance(b, x)
    BY <2>1, <2>3, FirstEligibleProperties
  <2>5. Distance(g, n) <= Distance(g, x)
    OBVIOUS
  <2> HIDE DEF f, g
  <2>6. Distance(n, x) = Distance(g, x) - Distance(g, n)
    BY <2>3, <2>5, FromBetween
  <2>7. Distance(b, x) = Distance(n, x) - 1
    BY <2>1, FromNext
  <2> HIDE DEF b
  <2>8. f # n
    <3>1. CASE f = n
      <4>1. Distance(b, n) = MAX_SERVERS - 1
        BY FromNext DEF b
      <4> QED  BY <2>3, <2>4, <2>7, <3>1, <4>1, DistanceType, MaxServersAssumption
    <3> QED  BY <3>1
  <2>9. Distance(b, f) = Distance(n, f) - 1
    BY <2>4, <2>8, FromNext DEF b
  <2>10. Distance(g, n) + Distance(n, f) <= Distance(g, x)
    BY <2>3, <2>4, <2>6, <2>7, <2>9, DistanceType
  <2>11. Distance(g, f) = Distance(g, n) + Distance(n, f)
    <3>1. Distance(g, n) + Distance(n, f) < MAX_SERVERS
      BY <2>3, <2>4, <2>10, DistanceType, MaxServersAssumption
    <3> QED  BY <2>3, <2>4, <3>1, AddDistance
  <2> QED  BY <2>2, <2>10, <2>11
<1> QED  BY <1>1, <1>2

-----------------------------------------------------------------------------
(* The inductive invariant, for the leader L that stopped last.            *)

\* s has not noticed yet that its leader stopped.
Orphan(s) == s \in alive /\ leader_connection[s] /\ link[s] = None

\* An election is about a leader that stopped, and visits servers that run and
\* that have noticed.
ElectionOk(L, m) ==
    /\ m.disconnected_leader_id = L /\ L \notin alive
    /\ m.server_ids \subseteq alive
    /\ \A t \in m.server_ids : ~Orphan(t)

\* An announcement names the highest server, and everybody has noticed by then.
AnnouncementOk(m) ==
    /\ IsHighest(m.leader_id, alive)
    /\ \A t \in Server : ~Orphan(t)

ArrivingOk(L, s, m) ==
    /\ m.type = "election" => ElectionOk(L, m) /\ Arc(m.server_ids, s)
    /\ m.type = "new_leader" => AnnouncementOk(m)

SentOk(L, s, m) ==
    /\ m.type = "election" =>
         ElectionOk(L, m) /\ s \in m.server_ids /\ Arc(m.server_ids, get_neighbor_id(s))
    /\ m.type = "new_leader" => AnnouncementOk(m)

MessageOk(L, s, m) ==
    /\ m.type \notin {"new_server", "set_leader"}
    /\ m.type = "update_state" => m.disconnected_servers \cap alive = {}
    /\ ArrivingOk(L, s, m)
    /\ m.type \in {"wait", "check"} => SentOk(L, s, m.msg)
    /\ m.type = "connect" => ~Orphan(s)
    /\ m.type = "start_election" =>
         ~leader_connection[s] /\ id_leader[s] = L /\ L \notin alive

OkMessage(L, s)  == {m \in GoodMessage : MessageOk(L, s, m)}
OkDatagram(L, s) == {d \in GoodDatagram : ArrivingOk(L, s, d.msg)}

Mail(L, s) ==
    /\ mailbox[s] \in Seq(OkMessage(L, s))
    /\ socket[s] \in Seq(OkDatagram(L, s))

\* Neither s nor a snapshot on its way to s suspects a server that runs.
Trusting(s) ==
    /\ disconnected_servers[s] \cap alive = {}
    /\ \A l \in Server : pongs[l][s] \in Seq(SUBSET (Server \ alive))

Linked(s) ==
    s \in alive /\ link[s] # None =>
        /\ link[s] \in alive
        /\ im_leader[link[s]]
        /\ leader_connection[s]
        /\ id_leader[s] = link[s]

Orphaned(L, s) ==
    Orphan(s) =>
        /\ id_leader[s] = L /\ L \notin alive
        /\ \A t \in alive : ~im_leader[t]

Led(s) == s \in alive /\ im_leader[s] => IsHighest(s, alive) \/ s = FirstLeader

\* A message that may be handled while start_election waits behind it: the leader
\* the server then suspects is still the one that stopped.
Harmless(s, m) ==
    /\ m.type \notin {"new_leader", "connect"}
    /\ m.type = "election" => s \notin m.server_ids

Ordered(s) ==
    \A i, j \in DOMAIN mailbox[s] :
        j < i /\ mailbox[s][i].type = "start_election" => Harmless(s, mailbox[s][j])

\* The ack of m was handled, or will be before the i-th message of the mailbox.
AckBefore(s, i, m) ==
    \/ m.sequence_number \in message_received_ack[s]
    \/ \E j \in DOMAIN mailbox[s] :
          /\ j < i
          /\ mailbox[s][j].type = "ack"
          /\ mailbox[s][j].sequence_number = m.sequence_number

\* A neighbour that runs is found to have acked.
Answered(s) ==
    \A i \in DOMAIN mailbox[s] :
        LET w == mailbox[s][i] IN
        w.type \in {"wait", "check"} /\ w.neighbor_id \in alive =>
            \/ AckBefore(s, i, w.msg)
            \/ /\ w.type = "wait"
               /\ \/ InTransit(s, w.neighbor_id, w.msg)
                  \/ AckBefore(s, Len(mailbox[s]) + 1, w.msg)

Local(L, s) ==
    /\ Mail(L, s)
    /\ Trusting(s)
    /\ Near(s)
    /\ Linked(s)
    /\ Orphaned(L, s)
    /\ Led(s)
    /\ Ordered(s)
    /\ s \in udp_sender => Answered(s)

LInv(L) ==
    /\ joining = {}
    /\ udp_sender = alive \ {FirstLeader}
    /\ \A s \in Server : Local(L, s)

-----------------------------------------------------------------------------
(* Mailboxes.                                                              *)

LEMMA SeqOf ==
    ASSUME NEW S, NEW T, NEW q \in Seq(S), \A i \in DOMAIN q : q[i] \in T
    PROVE  q \in Seq(T)
OBVIOUS

\* What a mailbox holds after its first message was taken and out was sent.
LEMMA ConsumedIndex ==
    ASSUME NEW S, NEW q \in Seq(S), q # <<>>, NEW out \in Seq(S)
    PROVE  /\ Tail(q) \o out \in Seq(S)
           /\ Len(q) \in Nat /\ Len(out) \in Nat /\ Len(q) >= 1
           /\ DOMAIN q = 1..Len(q) /\ DOMAIN out = 1..Len(out)
           /\ Len(Tail(q) \o out) = Len(q) - 1 + Len(out)
           /\ DOMAIN (Tail(q) \o out) = 1..(Len(q) - 1 + Len(out))
           /\ \A i \in 1..(Len(q) - 1) : (Tail(q) \o out)[i] = q[i + 1]
           /\ \A i \in 1..Len(out) : (Tail(q) \o out)[Len(q) - 1 + i] = out[i]
           /\ Head(q) = q[1]
<1>1. Tail(q) \in Seq(S) /\ Len(Tail(q)) = Len(q) - 1
      /\ \A i \in 1..(Len(q) - 1) : Tail(q)[i] = q[i + 1]
  BY HeadTailProperties
<1>2. Len(q) \in Nat /\ Len(out) \in Nat /\ Len(q) >= 1 /\ Head(q) = q[1]
      /\ DOMAIN q = 1..Len(q) /\ DOMAIN out = 1..Len(out)
  OBVIOUS
<1>3. /\ Tail(q) \o out \in Seq(S)
      /\ Len(Tail(q) \o out) = Len(Tail(q)) + Len(out)
      /\ \A i \in 1..(Len(Tail(q)) + Len(out)) : (Tail(q) \o out)[i] =
              IF i <= Len(Tail(q)) THEN Tail(q)[i] ELSE out[i - Len(Tail(q))]
  BY <1>1, ConcatProperties
<1>4. \A i \in 1..(Len(q) - 1) : (Tail(q) \o out)[i] = q[i + 1]
  BY <1>1, <1>2, <1>3
<1>5. \A i \in 1..Len(out) : (Tail(q) \o out)[Len(q) - 1 + i] = out[i]
  BY <1>1, <1>2, <1>3
<1>6. DOMAIN (Tail(q) \o out) = 1..(Len(q) - 1 + Len(out))
  BY <1>1, <1>2, <1>3, LenProperties
<1> QED  BY <1>1, <1>2, <1>3, <1>4, <1>5, <1>6

LEMMA AppendedIndex ==
    ASSUME NEW S, NEW q \in Seq(S), NEW m \in S
    PROVE  /\ Append(q, m) \in Seq(S)
           /\ Len(q) \in Nat
           /\ DOMAIN q = 1..Len(q)
           /\ Len(Append(q, m)) = Len(q) + 1
           /\ DOMAIN Append(q, m) = 1..(Len(q) + 1)
           /\ \A i \in 1..Len(q) : Append(q, m)[i] = q[i]
           /\ Append(q, m)[Len(q) + 1] = m
BY AppendProperties, LenProperties

-----------------------------------------------------------------------------
(* What a step of one server leaves as it was.                             *)

\* Nobody stops, and nobody becomes an orphan.
Settled == alive' = alive /\ \A t \in Server : Orphan(t)' => Orphan(t)

LEMMA RingKept ==
    ASSUME IInv, Settled, NEW L, NEW s, NEW m
    PROVE  /\ ElectionOk(L, m) => ElectionOk(L, m)'
           /\ AnnouncementOk(m) => AnnouncementOk(m)'
           /\ ArrivingOk(L, s, m) => ArrivingOk(L, s, m)'
           /\ SentOk(L, s, m) => SentOk(L, s, m)'
<1>1. ElectionOk(L, m) => ElectionOk(L, m)'
  <2>1. alive \subseteq Server  BY DEF IInv, ProcessesOK
  <2> QED  BY <2>1 DEF ElectionOk, Settled
<1>2. AnnouncementOk(m) => AnnouncementOk(m)'
  BY DEF AnnouncementOk, Settled, IsHighest
<1>3. \A ids, g : Arc(ids, g) => Arc(ids, g)'
  BY DEF Arc, Settled
<1> QED  BY <1>1, <1>2, <1>3 DEF ArrivingOk, SentOk

LEMMA MessagesKept ==
    ASSUME IInv, Settled, NEW L, NEW s \in Server
    PROVE  /\ OkDatagram(L, s) \subseteq OkDatagram(L, s)'
           /\ \A m \in OkMessage(L, s) :
                 \/ m.type # "start_election"
                 \/ (leader_connection'[s] => leader_connection[s]) /\ id_leader'[s] = id_leader[s]
                 => m \in OkMessage(L, s)'
<1>1. OkDatagram(L, s) \subseteq OkDatagram(L, s)'
  BY RingKept DEF OkDatagram
<1>2. ASSUME NEW m \in OkMessage(L, s),
             \/ m.type # "start_election"
             \/ (leader_connection'[s] => leader_connection[s]) /\ id_leader'[s] = id_leader[s]
      PROVE  MessageOk(L, s, m)'
  <2>1. MessageOk(L, s, m)  BY DEF OkMessage
  <2>2. m.type = "update_state" => m.disconnected_servers \cap alive' = {}
    BY <2>1 DEF MessageOk, Settled
  <2>3. ArrivingOk(L, s, m)'  BY <2>1, RingKept DEF MessageOk
  <2>4. m.type \in {"wait", "check"} => SentOk(L, s, m.msg)'  BY <2>1, RingKept DEF MessageOk
  <2>5. m.type = "connect" => ~Orphan(s)'  BY <2>1 DEF MessageOk, Settled
  <2>6. m.type = "start_election" => ~leader_connection'[s] /\ id_leader'[s] = L /\ L \notin alive'
    BY <1>2, <2>1 DEF MessageOk, Settled
  <2> QED  BY <2>1, <2>2, <2>3, <2>4, <2>5, <2>6 DEF MessageOk
<1> QED  BY <1>1, <1>2 DEF OkMessage

\* The first message and those that wait behind it.
LEMMA HeadOk ==
    ASSUME IInv, NEW L, NEW s \in Server, Mail(L, s), NEW type, Received(s, type)
    PROVE  /\ Head(mailbox[s]) \in GoodMessage
           /\ Head(mailbox[s]).type = type
           /\ MessageOk(L, s, Head(mailbox[s]))
           /\ Tail(mailbox[s]) \in Seq(OkMessage(L, s))
<1>1. mailbox[s] \in Seq(OkMessage(L, s)) /\ mailbox[s] # <<>> /\ Head(mailbox[s]).type = type
  BY DEF Mail, Received
<1>2. Head(mailbox[s]) \in OkMessage(L, s) /\ Tail(mailbox[s]) \in Seq(OkMessage(L, s))
  BY <1>1, HeadTailProperties
<1> QED  BY <1>1, <1>2 DEF OkMessage

\* No start_election waits behind a message that is not harmless.
LEMMA TailKept ==
    ASSUME IInv, Settled, NEW L, NEW s \in Server, Mail(L, s), Ordered(s),
           NEW type, Received(s, type),
           \/ (leader_connection'[s] => leader_connection[s]) /\ id_leader'[s] = id_leader[s]
           \/ ~Harmless(s, Head(mailbox[s]))
    PROVE  Tail(mailbox[s]) \in Seq(OkMessage(L, s)')
<1> DEFINE q == mailbox[s]
           t == Tail(q)
<1>1. q \in Seq(OkMessage(L, s)) /\ q # <<>>
  BY DEF Mail, Received
<1>2. /\ t \in Seq(OkMessage(L, s)) /\ Len(q) \in Nat /\ DOMAIN q = 1..Len(q)
      /\ DOMAIN t = 1..(Len(q) - 1) /\ Head(q) = q[1] /\ Len(q) >= 1
      /\ \A i \in 1..(Len(q) - 1) : t[i] = q[i + 1]
  <2> HIDE DEF q
  <2>1. t \in Seq(OkMessage(L, s)) /\ Len(t) = Len(q) - 1
        /\ \A i \in 1..(Len(q) - 1) : t[i] = q[i + 1]
    BY <1>1, HeadTailProperties
  <2>2. Len(q) \in Nat /\ DOMAIN q = 1..Len(q) /\ Head(q) = q[1] /\ Len(q) >= 1
    BY <1>1
  <2> QED  BY <2>1, <2>2, LenProperties
<1>3. ASSUME NEW i \in DOMAIN t  PROVE t[i] \in OkMessage(L, s)'
  <2>1. t[i] \in OkMessage(L, s)
    <3> HIDE DEF t
    <3> QED  BY <1>2, <1>3, ElementOfSeq
  <2>2. ASSUME ~Harmless(s, Head(q))  PROVE t[i].type # "start_election"
    <3>1. i + 1 \in DOMAIN q /\ 1 \in DOMAIN q /\ 1 < i + 1 /\ t[i] = q[i + 1] /\ Head(q) = q[1]
      <4> HIDE DEF q, t
      <4> QED  BY <1>2, <1>3
    <3> QED  BY <2>2, <3>1 DEF Ordered
  <2> HIDE DEF t, q
  <2>3. \/ t[i].type # "start_election"
        \/ (leader_connection'[s] => leader_connection[s]) /\ id_leader'[s] = id_leader[s]
    BY <2>2 DEF q
  <2> QED  BY <2>1, <2>3, MessagesKept
<1> HIDE DEF t
<1> QED  BY <1>2, <1>3, SeqOf DEF t

LEMMA ActorMail ==
    ASSUME IInv, Settled, NEW L, \A r \in Server : Mail(L, r), NEW s \in Server,
           NEW type, Received(s, type),
           \A r \in Server \ {s} : /\ leader_connection'[r] = leader_connection[r]
                                   /\ id_leader'[r] = id_leader[r],
           Tail(mailbox[s]) \in Seq(OkMessage(L, s)'),
           NEW out \in Seq(OkMessage(L, s)'), Consume(s, out),
           \A r \in Server : socket'[r] \in Seq(OkDatagram(L, r)')
    PROVE  \A r \in Server : Mail(L, r)'
<1>1. Tail(mailbox[s]) \o out \in Seq(OkMessage(L, s)')  BY ConcatProperties
<1>2. \A r \in Server : mailbox'[r] = IF r = s THEN Tail(mailbox[s]) \o out ELSE mailbox[r]
  BY DEF Consume, IInv, MailboxOK
<1>3. ASSUME NEW r \in Server \ {s}  PROVE mailbox[r] \in Seq(OkMessage(L, r)')
  <2>1. OkMessage(L, r) \subseteq OkMessage(L, r)'  BY MessagesKept
  <2> QED  BY <2>1, SeqMonotonic DEF Mail
<1>4. \A r \in Server : mailbox'[r] \in Seq(OkMessage(L, r)')  BY <1>1, <1>2, <1>3
<1> QED  BY <1>4 DEF Mail

LEMMA SocketsKept ==
    ASSUME IInv, Settled, NEW L, \A r \in Server : Mail(L, r)
    PROVE  \A r \in Server : socket[r] \in Seq(OkDatagram(L, r)')
<1> SUFFICES ASSUME NEW r \in Server  PROVE socket[r] \in Seq(OkDatagram(L, r)')
  OBVIOUS
<1>1. OkDatagram(L, r) \subseteq OkDatagram(L, r)'  BY MessagesKept
<1> QED  BY <1>1, SeqMonotonic DEF Mail

LEMMA OrderedConsume ==
    ASSUME IInv, NEW s \in Server, NEW type, Received(s, type), Ordered(s),
           NEW out \in Seq(GoodMessage), \A i \in DOMAIN out : out[i].type # "start_election",
           Consume(s, out)
    PROVE  Ordered(s)'
<1> DEFINE q == mailbox[s]
           t == Tail(q) \o out
<1>1. q \in Seq(GoodMessage) /\ q # <<>>
  BY DEF IInv, MailboxOK, Received
<1>2. mailbox'[s] = t
  BY DEF Consume, IInv, MailboxOK
<1>3. /\ Len(q) \in Nat /\ Len(out) \in Nat /\ Len(q) >= 1
      /\ DOMAIN q = 1..Len(q) /\ DOMAIN out = 1..Len(out)
      /\ DOMAIN t = 1..(Len(q) - 1 + Len(out))
      /\ \A i \in 1..(Len(q) - 1) : t[i] = q[i + 1]
      /\ \A i \in 1..Len(out) : t[Len(q) - 1 + i] = out[i]
  <2> HIDE DEF q
  <2> QED  BY <1>1, ConsumedIndex
<1>4. ASSUME NEW i \in DOMAIN t, NEW j \in DOMAIN t, j < i, t[i].type = "start_election"
      PROVE  Harmless(s, t[j])
  <2>1. i <= Len(q) - 1
    <3>1. CASE i > Len(q) - 1
      <4>1. i - (Len(q) - 1) \in 1..Len(out) /\ Len(q) - 1 + (i - (Len(q) - 1)) = i
        <5> HIDE DEF q, t
        <5> QED  BY <1>3, <1>4, <3>1
      <4>2. t[i] = out[i - (Len(q) - 1)]
        <5> HIDE DEF q, t
        <5> QED  BY <1>3, <4>1
      <4> QED  BY <1>3, <1>4, <4>1, <4>2
    <3> HIDE DEF q, t
    <3> QED  BY <1>3, <1>4, <3>1
  <2>2. i + 1 \in DOMAIN q /\ j + 1 \in DOMAIN q /\ j + 1 < i + 1
        /\ t[i] = q[i + 1] /\ t[j] = q[j + 1]
    <3> HIDE DEF q, t
    <3> QED  BY <1>3, <1>4, <2>1
  <2> QED  BY <1>4, <2>2 DEF Ordered
<1> HIDE DEF t
<1> QED  BY <1>2, <1>4 DEF Ordered, Harmless

\* What is on its way stays there while sockets only fill up.
LEMMA TransitKept ==
    ASSUME IInv, NEW s \in Server, NEW n \in Server, NEW x \in Server, NEW d \in GoodDatagram,
           socket' = socket \/ socket' = [socket EXCEPT ![x] = Append(@, d)],
           NEW m, InTransit(s, n, m)
    PROVE  InTransit(s, n, m)'
<1>1. \A r \in Server : \A i \in DOMAIN socket[r] :
          i \in DOMAIN socket'[r] /\ socket'[r][i] = socket[r][i]
  <2> SUFFICES ASSUME NEW r \in Server, NEW i \in DOMAIN socket[r]
               PROVE  i \in DOMAIN socket'[r] /\ socket'[r][i] = socket[r][i]
    OBVIOUS
  <2>1. socket[r] \in Seq(GoodDatagram) /\ socket \in [Server -> Seq(GoodDatagram)]
    BY DEF IInv, SocketOK
  <2>2. CASE socket' = socket
    BY <2>2
  <2>3. CASE socket' = [socket EXCEPT ![x] = Append(@, d)]
    <3>1. CASE r = x
      <4>1. socket'[r] = Append(socket[r], d)  BY <2>1, <2>3, <3>1
      <4> QED  BY <2>1, <4>1, AppendedIndex
    <3>2. CASE r # x
      BY <2>1, <2>3, <3>2
    <3> QED  BY <3>1, <3>2
  <2> QED  BY <2>2, <2>3
<1> QED  BY <1>1 DEF InTransit

\* A message of the ring sent to a server that runs is on its way.
LEMMA SentInTransit ==
    ASSUME IInv, NEW s \in udp_sender, NEW n \in udp_sender, NEW m \in GoodPayload,
           SendDatagram(s, n, m)
    PROVE  InTransit(s, n, m)'
<1> DEFINE d == [src |-> s, msg |-> m]
<1>1. n \in Server /\ socket[n] \in Seq(GoodDatagram) /\ socket \in [Server -> Seq(GoodDatagram)]
  BY DEF IInv, SocketOK, ProcessesOK
<1>2. d \in GoodDatagram
  <2>1. s \in Server  BY DEF IInv, ProcessesOK
  <2> QED  BY <2>1 DEF GoodDatagram
<1>3. socket'[n] = Append(socket[n], d)
  BY <1>1 DEF SendDatagram
<1>4. \E i \in DOMAIN socket'[n] : socket'[n][i] = d
  <2> HIDE DEF d
  <2>1. Len(socket[n]) + 1 \in DOMAIN Append(socket[n], d)
        /\ Append(socket[n], d)[Len(socket[n]) + 1] = d
    BY <1>1, <1>2, AppendedIndex
  <2> QED  BY <1>3, <2>1
<1> QED  BY <1>4 DEF InTransit

LEMMA AnsweredConsume ==
    ASSUME IInv, alive' = alive, NEW s \in Server, NEW type, Received(s, type), Answered(s),
           NEW out \in Seq(GoodMessage), Consume(s, out),
           message_received_ack[s] \subseteq message_received_ack'[s],
           type = "ack" => Head(mailbox[s]).sequence_number \in message_received_ack'[s],
           \A n \in Server : \A m : InTransit(s, n, m) => InTransit(s, n, m)',
           \A k \in DOMAIN out :
               out[k].type \in {"wait", "check"} /\ out[k].neighbor_id \in alive =>
                   \/ out[k].type = "wait" /\ InTransit(s, out[k].neighbor_id, out[k].msg)'
                   \/ AckBefore(s, Len(mailbox[s]) + 1, out[k].msg)
    PROVE  Answered(s)'
<1> DEFINE q == mailbox[s]
           t == Tail(q) \o out
<1>1. q \in Seq(GoodMessage) /\ q # <<>> /\ Head(q).type = type
  BY DEF IInv, MailboxOK, Received
<1>2. mailbox'[s] = t
  BY DEF Consume, IInv, MailboxOK
<1>3. /\ t \in Seq(GoodMessage)
      /\ Len(q) \in Nat /\ Len(out) \in Nat /\ Len(q) >= 1
      /\ DOMAIN q = 1..Len(q) /\ DOMAIN out = 1..Len(out)
      /\ Len(t) = Len(q) - 1 + Len(out)
      /\ DOMAIN t = 1..(Len(q) - 1 + Len(out))
      /\ \A i \in 1..(Len(q) - 1) : t[i] = q[i + 1]
      /\ \A i \in 1..Len(out) : t[Len(q) - 1 + i] = out[i]
      /\ Head(q) = q[1]
  <2> HIDE DEF q
  <2> QED  BY <1>1, ConsumedIndex
<1>4. ASSUME NEW m, NEW i \in 1..(Len(q) + 1), AckBefore(s, i, m), NEW k \in Nat, k >= i - 1
      PROVE  AckBefore(s, k, m)'
  <2>1. CASE m.sequence_number \in message_received_ack[s]
    BY <2>1 DEF AckBefore
  <2>2. CASE \E j \in DOMAIN q : j < i /\ q[j].type = "ack" /\ q[j].sequence_number = m.sequence_number
    <3>1. PICK j \in DOMAIN q :
              j < i /\ q[j].type = "ack" /\ q[j].sequence_number = m.sequence_number
      BY <2>2
    <3>2. CASE j = 1
      <4>1. type = "ack" /\ Head(mailbox[s]).sequence_number = m.sequence_number
        BY <1>1, <1>3, <3>1, <3>2
      <4> QED  BY <4>1 DEF AckBefore
    <3>3. CASE j # 1
      <4>1. j - 1 \in DOMAIN t /\ t[j - 1] = q[j] /\ j - 1 < k
        <5> HIDE DEF q, t
        <5>1. j \in 1..Len(q) /\ j - 1 \in 1..(Len(q) - 1) /\ (j - 1) + 1 = j  BY <1>3, <3>1, <3>3
        <5> QED  BY <1>3, <1>4, <3>1, <5>1
      <4>2. /\ j - 1 \in DOMAIN mailbox'[s] /\ j - 1 < k
            /\ mailbox'[s][j - 1].type = "ack"
            /\ mailbox'[s][j - 1].sequence_number = m.sequence_number
        BY <1>2, <3>1, <4>1
      <4> QED  BY <4>2 DEF AckBefore
    <3> QED  BY <3>2, <3>3
  <2> QED  BY <1>4, <2>1, <2>2 DEF AckBefore
<1>5. ASSUME NEW i \in Nat, NEW w, NEW e \in Nat,
             i \in DOMAIN t, w = t[i], e = Len(t) + 1,
             w.type \in {"wait", "check"}, w.neighbor_id \in alive
      PROVE  \/ AckBefore(s, i, w.msg)'
             \/ /\ w.type = "wait"
                /\ InTransit(s, w.neighbor_id, w.msg)' \/ AckBefore(s, e, w.msg)'
  <2>1. w \in GoodMessage /\ w.neighbor_id \in Server
    <3>1. w \in GoodMessage
      <4> HIDE DEF t
      <4> QED  BY <1>3, <1>5, ElementOfSeq
    <3> QED  BY <1>5, <3>1, MessageFields
  <2>2. i \in 1..(Len(q) - 1 + Len(out)) /\ Len(q) + 1 \in 1..(Len(q) + 1)
        /\ e >= (Len(q) + 1) - 1
    <3> HIDE DEF q, t
    <3> QED  BY <1>3, <1>5
  <2>3. CASE i <= Len(q) - 1
    <3>1. i + 1 \in DOMAIN q /\ w = q[i + 1] /\ i + 1 \in 1..(Len(q) + 1) /\ i >= (i + 1) - 1
      <4> HIDE DEF q, t
      <4> QED  BY <1>3, <1>5, <2>2, <2>3
    <3>2. \/ AckBefore(s, i + 1, w.msg)
          \/ /\ w.type = "wait"
             /\ InTransit(s, w.neighbor_id, w.msg) \/ AckBefore(s, Len(mailbox[s]) + 1, w.msg)
      BY <1>5, <3>1 DEF Answered
    <3> HIDE DEF t
    <3>3. AckBefore(s, i + 1, w.msg) => AckBefore(s, i, w.msg)'
      BY <1>4, <3>1
    <3>4. AckBefore(s, Len(q) + 1, w.msg) => AckBefore(s, e, w.msg)'
      BY <1>4, <2>2
    <3>5. InTransit(s, w.neighbor_id, w.msg) => InTransit(s, w.neighbor_id, w.msg)'
      BY <2>1
    <3> QED  BY <3>2, <3>3, <3>4, <3>5
  <2>4. CASE i > Len(q) - 1
    <3>1. \E k \in DOMAIN out : w = out[k] /\ i >= (Len(q) + 1) - 1
      <4> HIDE DEF q, t
      <4>1. i - (Len(q) - 1) \in 1..Len(out) /\ Len(q) - 1 + (i - (Len(q) - 1)) = i
        BY <1>3, <2>2, <2>4
      <4>2. t[i] = out[i - (Len(q) - 1)]  BY <1>3, <4>1
      <4> QED  BY <1>3, <1>5, <2>2, <2>4, <4>1, <4>2
    <3>2. PICK k \in DOMAIN out : w = out[k]  BY <3>1
    <3>3. \/ w.type = "wait" /\ InTransit(s, w.neighbor_id, w.msg)'
          \/ AckBefore(s, Len(q) + 1, w.msg)
      <4>1. out[k].type \in {"wait", "check"} /\ out[k].neighbor_id \in alive  BY <1>5, <3>2
      <4> QED  BY <3>2, <4>1
    <3> HIDE DEF t
    <3>4. AckBefore(s, Len(q) + 1, w.msg) => AckBefore(s, i, w.msg)'
      BY <1>4, <2>2, <3>1
    <3> QED  BY <3>3, <3>4
  <2> HIDE DEF q, t
  <2> QED  BY <1>3, <2>2, <2>3, <2>4
<1>6. \A i \in DOMAIN t : i \in Nat
  <2> HIDE DEF q, t
  <2> QED  BY <1>3
<1>7. Len(t) + 1 \in Nat
  <2> HIDE DEF q, t
  <2> QED  BY <1>3
<1> HIDE DEF t
<1> SUFFICES ASSUME NEW i, NEW w, NEW e, i \in DOMAIN mailbox'[s], w = mailbox'[s][i],
                    e = Len(mailbox'[s]) + 1,
                    w.type \in {"wait", "check"}, w.neighbor_id \in alive'
             PROVE  \/ AckBefore(s, i, w.msg)'
                    \/ /\ w.type = "wait"
                       /\ InTransit(s, w.neighbor_id, w.msg)' \/ AckBefore(s, e, w.msg)'
  BY DEF Answered
<1> QED  BY <1>2, <1>5, <1>6, <1>7

LEMMA AnsweredKept ==
    ASSUME IInv, alive' = alive, NEW r \in Server, Answered(r),
           mailbox'[r] = mailbox[r], message_received_ack'[r] = message_received_ack[r],
           \A n \in Server, m \in GoodRing : InTransit(r, n, m) => InTransit(r, n, m)'
    PROVE  Answered(r)'
<1>1. \A i, m : AckBefore(r, i, m) => AckBefore(r, i, m)'
  BY DEF AckBefore
<1>2. alive \subseteq Server  BY DEF IInv, ProcessesOK
<1> SUFFICES ASSUME NEW i, NEW w, NEW e, i \in DOMAIN mailbox[r], w = mailbox[r][i],
                    e = Len(mailbox[r]) + 1,
                    w.type \in {"wait", "check"}, w.neighbor_id \in alive
             PROVE  \/ AckBefore(r, i, w.msg)'
                    \/ /\ w.type = "wait"
                       /\ InTransit(r, w.neighbor_id, w.msg)' \/ AckBefore(r, e, w.msg)'
  BY DEF Answered
<1>3. \/ AckBefore(r, i, w.msg)
      \/ /\ w.type = "wait"
         /\ InTransit(r, w.neighbor_id, w.msg) \/ AckBefore(r, e, w.msg)
  BY DEF Answered
<1>4. w.msg \in GoodRing
  <2>1. w \in GoodMessage  BY ElementOfSeq, LenProperties DEF IInv, MailboxOK
  <2> QED  BY <2>1, MessageFields
<1> QED  BY <1>1, <1>2, <1>3, <1>4

\* What has to be seen of the other servers when s takes a step.
LEMMA OthersKept ==
    ASSUME IInv, Settled, NEW L, LInv(L), NEW s \in Server,
           joining' = joining, udp_sender' = udp_sender,
           \A r \in Server \ {s} :
               /\ id_leader'[r] = id_leader[r]
               /\ im_leader'[r] = im_leader[r]
               /\ leader_connection'[r] = leader_connection[r]
               /\ link'[r] = link[r]
               /\ disconnected_servers'[r] = disconnected_servers[r]
               /\ actual_neighbor_id'[r] = actual_neighbor_id[r],
           \A r, l \in Server : pongs'[l][r] \in Seq(SUBSET (Server \ alive)),
           im_leader[s] => im_leader'[s],
           im_leader'[s] = im_leader[s] \/ \A t \in Server : ~Orphan(t),
           \A r \in Server : Mail(L, r)',
           \A r \in Server \ {s} : Ordered(r)',
           \A r \in udp_sender \ {s} : Answered(r)',
           Local(L, s)'
    PROVE  LInv(L)'
<1>1. alive' = alive /\ alive \subseteq Server  BY DEF IInv, ProcessesOK, Settled
<1>2. joining' = {} /\ udp_sender' = alive' \ {FirstLeader}
  BY <1>1 DEF LInv
<1>3. ASSUME NEW r \in Server \ {s}  PROVE Local(L, r)'
  <2>1. Local(L, r)  BY DEF LInv
  <2>2. Trusting(r)'  BY <1>1, <2>1 DEF Local, Trusting
  <2>3. Near(r)'  BY <1>1, <2>1 DEF Local, Near
  <2>4. Linked(r)'  BY <1>1, <2>1 DEF Local, Linked
  <2>5. Orphaned(L, r)'
    <3> SUFFICES ASSUME Orphan(r)'
                 PROVE  id_leader'[r] = L /\ L \notin alive' /\ \A t \in alive' : ~im_leader'[t]
      BY DEF Orphaned
    <3>1. Orphan(r)  BY DEF Settled
    <3>2. id_leader[r] = L /\ L \notin alive /\ \A t \in alive : ~im_leader[t]
      BY <2>1, <3>1 DEF Local, Orphaned
    <3>3. im_leader'[s] = im_leader[s]  BY <3>1
    <3> QED  BY <1>1, <3>2, <3>3
  <2>6. Led(r)'  BY <1>1, <2>1 DEF Local, Led
  <2>7. r \in udp_sender' => Answered(r)'  OBVIOUS
  <2> QED  BY <2>2, <2>3, <2>4, <2>5, <2>6, <2>7 DEF Local
<1> QED  BY <1>2, <1>3 DEF LInv

\* A handler of s: what it does to its own state, its mailbox and one socket.
LEMMA HandlerStep ==
    ASSUME IInv, Settled, NEW L, LInv(L), NEW s \in Server, NEW type, Received(s, type),
           joining' = joining, udp_sender' = udp_sender,
           \A r \in Server \ {s} :
               /\ id_leader'[r] = id_leader[r]
               /\ im_leader'[r] = im_leader[r]
               /\ leader_connection'[r] = leader_connection[r]
               /\ link'[r] = link[r]
               /\ disconnected_servers'[r] = disconnected_servers[r]
               /\ actual_neighbor_id'[r] = actual_neighbor_id[r]
               /\ message_received_ack'[r] = message_received_ack[r],
           \A r, l \in Server : pongs'[l][r] \in Seq(SUBSET (Server \ alive)),
           im_leader[s] => im_leader'[s],
           im_leader'[s] = im_leader[s] \/ \A t \in Server : ~Orphan(t),
           disconnected_servers'[s] \cap alive = {},
           Near(s)', Linked(s)', Orphaned(L, s)', Led(s)',
           Tail(mailbox[s]) \in Seq(OkMessage(L, s)'),
           NEW out \in Seq(OkMessage(L, s)'), Consume(s, out),
           \A k \in DOMAIN out : out[k].type # "start_election",
           message_received_ack[s] \subseteq message_received_ack'[s],
           type = "ack" => Head(mailbox[s]).sequence_number \in message_received_ack'[s],
           \/ socket' = socket
           \/ \E x \in Server : \E d \in OkDatagram(L, x)' :
                 socket' = [socket EXCEPT ![x] = Append(@, d)],
           s \in udp_sender => \A k \in DOMAIN out :
               out[k].type \in {"wait", "check"} /\ out[k].neighbor_id \in alive =>
                   \/ out[k].type = "wait" /\ InTransit(s, out[k].neighbor_id, out[k].msg)'
                   \/ AckBefore(s, Len(mailbox[s]) + 1, out[k].msg)
    PROVE  LInv(L)'
<1>1. /\ \A r \in Server : Local(L, r)
      /\ \A r \in Server : Mail(L, r)
      /\ \A r \in Server : Ordered(r)
      /\ \A r \in udp_sender : Answered(r)
      /\ udp_sender \subseteq Server
  <2>1. \A r \in Server : Local(L, r)  BY DEF LInv
  <2>2. udp_sender \subseteq Server  BY DEF IInv, ProcessesOK
  <2> QED  BY <2>1, <2>2 DEF Local
<1>2. \A r \in Server : socket'[r] \in Seq(OkDatagram(L, r)')
  <2>1. \A r \in Server : socket[r] \in Seq(OkDatagram(L, r)')  BY <1>1, SocketsKept
  <2>2. CASE socket' = socket  BY <2>1, <2>2
  <2>3. ASSUME NEW x \in Server, NEW d \in OkDatagram(L, x)',
               socket' = [socket EXCEPT ![x] = Append(@, d)]
        PROVE  \A r \in Server : socket'[r] \in Seq(OkDatagram(L, r)')
    <3>1. Append(socket[x], d) \in Seq(OkDatagram(L, x)')  BY <2>1, <2>3, AppendProperties
    <3> QED  BY <2>1, <2>3, <3>1 DEF IInv, SocketOK
  <2> QED  BY <2>2, <2>3
<1>3. \A r \in Server : Mail(L, r)'
  BY <1>1, <1>2, ActorMail
<1>4. \A r, n \in Server : \A m : InTransit(r, n, m) => InTransit(r, n, m)'
  <2>1. CASE socket' = socket  BY <2>1 DEF InTransit
  <2>2. ASSUME NEW x \in Server, NEW d \in OkDatagram(L, x)',
               socket' = [socket EXCEPT ![x] = Append(@, d)]
        PROVE  \A r, n \in Server : \A m : InTransit(r, n, m) => InTransit(r, n, m)'
    <3>1. d \in GoodDatagram  BY DEF OkDatagram
    <3> QED  BY <2>2, <3>1, TransitKept
  <2> QED  BY <2>1, <2>2
<1>5. out \in Seq(GoodMessage)
  <2>1. OkMessage(L, s)' \subseteq GoodMessage  BY DEF OkMessage
  <2> QED  BY <2>1, SeqMonotonic
<1>6. Ordered(s)'
  BY <1>1, <1>5, OrderedConsume
<1>7. alive' = alive  BY DEF Settled
<1>8. s \in udp_sender => Answered(s)'
  BY <1>1, <1>4, <1>5, <1>7, AnsweredConsume
<1>9. Local(L, s)'
  <2>1. Trusting(s)'  BY <1>7 DEF Trusting
  <2> QED  BY <1>3, <1>6, <1>8, <2>1 DEF Local
<1>10. \A r \in Server \ {s} : mailbox'[r] = mailbox[r]
  BY DEF Consume, IInv, MailboxOK
<1>11. \A r \in Server \ {s} : Ordered(r)'
  BY <1>1, <1>10 DEF Ordered, Harmless
<1>12. \A r \in udp_sender \ {s} : Answered(r)'
  BY <1>1, <1>4, <1>7, <1>10, AnsweredKept
<1> QED  BY <1>3, <1>9, <1>11, <1>12, OthersKept

-----------------------------------------------------------------------------
(* Leaders.                                                                *)

LEMMA HighestUnique ==
    ASSUME NEW A \in SUBSET Server, NEW g, NEW h, IsHighest(g, A), IsHighest(h, A)
    PROVE  g = h
BY DEF IsHighest, Server

\* What module ElectionProofs shows of the time before the first leader stops.
CalmReign == FirstLeader \in alive \ udp_sender => \A s \in Server : Calm(s)

\* While the first leader runs, nobody else leads; after it only the highest does.
LEMMA OneLeader ==
    ASSUME IInv, CalmReign, NEW L, LInv(L), NEW s \in alive, NEW t \in alive,
           im_leader[s], im_leader[t]
    PROVE  s = t
<1>1. alive \in SUBSET Server /\ s \in Server /\ t \in Server
  BY DEF IInv, ProcessesOK
<1>2. Led(s) /\ Led(t)  BY <1>1 DEF LInv, Local
<1>3. CASE FirstLeader \in alive
  <2>1. Calm(s) /\ Calm(t)  BY <1>1, <1>3 DEF CalmReign, LInv
  <2> QED  BY <2>1 DEF Calm
<1>4. CASE FirstLeader \notin alive
  <2>1. IsHighest(s, alive) /\ IsHighest(t, alive)  BY <1>2, <1>4 DEF Led
  <2> QED  BY <1>1, <2>1, HighestUnique
<1> QED  BY <1>3, <1>4

\* Messages of the ring are handled only after the first leader stopped.
LEMMA Electing ==
    ASSUME IInv, CalmReign, NEW L, LInv(L), NEW s \in Server,
           NEW type \in {"start_election", "wait", "check", "election", "new_leader",
                         "connect", "ack"},
           Received(s, type)
    PROVE  /\ s \in alive /\ FirstLeader \notin alive /\ udp_sender = alive
           /\ \A t \in alive : im_leader[t] => IsHighest(t, alive)
<1>1. s \in alive  BY DEF Received
<1>2. ASSUME FirstLeader \in alive  PROVE FALSE
  <2>1. Calm(s)  BY <1>2 DEF CalmReign, LInv
  <2>2. type \in {"new_server", "pong", "update_state", "set_leader"}  BY <2>1, CalmHead
  <2> QED  BY <2>2
<1>3. udp_sender = alive  BY <1>2 DEF LInv
<1>4. \A t \in alive : im_leader[t] => IsHighest(t, alive)
  <2>1. alive \subseteq Server  BY DEF IInv, ProcessesOK
  <2> QED  BY <1>2, <2>1 DEF LInv, Local, Led
<1> QED  BY <1>1, <1>2, <1>3, <1>4

\* Snapshots and suspicions name servers that do not run; so they stay while none starts.
LEMMA PongsKept ==
    ASSUME NEW L, LInv(L), UNCHANGED pongs
    PROVE  \A r, l \in Server : pongs'[l][r] \in Seq(SUBSET (Server \ alive))
BY DEF LInv, Local, Trusting

-----------------------------------------------------------------------------
(* Handlers that send nothing to the ring.                                 *)

LEMMA LWaitForNeighborAck ==
    ASSUME IInv, CalmReign, Timely, NEW L, LInv(L), NEW s \in Server, WaitForNeighborAck(s)
    PROVE  LInv(L)'
<1>1. /\ Received(s, "wait")
      /\ UNCHANGED <<alive, joining, udp_sender, id_leader, im_leader, leader_connection, link,
                     disconnected_servers, actual_neighbor_id, message_received_ack, socket, pongs>>
  BY DEF WaitForNeighborAck, processVars, leaderVars, ringVars, ackVars
<1>2. Local(L, s) /\ s \in alive /\ udp_sender = alive
  BY <1>1, Electing DEF LInv
<1>3. Settled  BY <1>1 DEF Settled, Orphan
<1>4. /\ Near(s)' /\ Linked(s)' /\ Orphaned(L, s)' /\ Led(s)'
      /\ disconnected_servers'[s] \cap alive = {}
  BY <1>1, <1>2 DEF Local, Near, Linked, Orphaned, Orphan, Led, IsHighest, Trusting
<1>5. PICK w \in GoodMessage : w = Head(mailbox[s]) /\ w.type = "wait" /\ MessageOk(L, s, w)
  BY <1>1, <1>2, HeadOk DEF Local
<1>6. Tail(mailbox[s]) \in Seq(OkMessage(L, s)')
  BY <1>1, <1>2, <1>3, TailKept DEF Local
<1>7. ~InTransit(s, w.neighbor_id, w.msg)
  BY <1>5 DEF WaitForNeighborAck
<1>8. PICK c \in GoodMessage : /\ Consume(s, <<c>>)
                               /\ c.type = "check" /\ c.neighbor_id = w.neighbor_id /\ c.msg = w.msg
  <2> DEFINE c == CheckMsg(w.neighbor_id, w.msg)
  <2>1. c \in GoodMessage
    BY <1>5, MessageFields, RingMessages, 0 \in Nat DEF GoodMessage
  <2>2. c.type = "check" /\ c.neighbor_id = w.neighbor_id /\ c.msg = w.msg  BY DEF CheckMsg
  <2>3. Consume(s, <<c>>)  BY <1>5 DEF WaitForNeighborAck
  <2> HIDE DEF c
  <2> QED  BY <2>1, <2>2, <2>3
<1>9. <<c>> \in Seq(OkMessage(L, s)')
  <2>1. SentOk(L, s, w.msg)'  BY <1>3, <1>5, RingKept DEF MessageOk
  <2>2. c \in OkMessage(L, s)'
    BY <1>8, <2>1 DEF OkMessage, MessageOk, ArrivingOk
  <2> QED  BY <2>2
<1>10. w.neighbor_id \in alive => AckBefore(s, Len(mailbox[s]) + 1, w.msg)
  <2>1. 1 \in DOMAIN mailbox[s] /\ mailbox[s][1] = w /\ Len(mailbox[s]) \in Nat
        /\ DOMAIN mailbox[s] = 1..Len(mailbox[s])
    BY <1>1, <1>5 DEF Received, IInv, MailboxOK
  <2>2. \A m : AckBefore(s, 1, m) => AckBefore(s, Len(mailbox[s]) + 1, m)
    BY <2>1 DEF AckBefore
  <2>3. Answered(s)  BY <1>2 DEF Local
  <2> QED  BY <1>5, <1>7, <2>1, <2>2, <2>3 DEF Answered
<1>11. \A r, l \in Server : pongs'[l][r] \in Seq(SUBSET (Server \ alive))
  BY <1>1, PongsKept
<1>12. PICK out \in Seq(OkMessage(L, s)') : Consume(s, out) /\ DOMAIN out = {1} /\ out[1] = c
  <2>1. DOMAIN <<c>> = {1} /\ <<c>>[1] = c  OBVIOUS
  <2> QED  BY <1>8, <1>9, <2>1, Zenon
<1>13. \A k \in DOMAIN out : out[k].type # "start_election"
  BY <1>8, <1>12
<1>14. s \in udp_sender => \A k \in DOMAIN out :
          out[k].type \in {"wait", "check"} /\ out[k].neighbor_id \in alive =>
              \/ out[k].type = "wait" /\ InTransit(s, out[k].neighbor_id, out[k].msg)'
              \/ AckBefore(s, Len(mailbox[s]) + 1, out[k].msg)
  BY <1>8, <1>10, <1>12
<1> QED  BY <1>1, <1>3, <1>4, <1>6, <1>11, <1>12, <1>13, <1>14, HandlerStep

\* A handler that sends nothing, and changes nothing another server sees.
LEMMA SilentStep ==
    ASSUME IInv, Settled, NEW L, LInv(L), NEW s \in Server, NEW type, Received(s, type),
           Consume(s, <<>>),
           joining' = joining, udp_sender' = udp_sender,
           \A r \in Server \ {s} :
               /\ leader_connection'[r] = leader_connection[r]
               /\ link'[r] = link[r]
               /\ disconnected_servers'[r] = disconnected_servers[r]
               /\ message_received_ack'[r] = message_received_ack[r],
           UNCHANGED <<id_leader, im_leader, actual_neighbor_id, socket>>,
           \A r, l \in Server : pongs'[l][r] \in Seq(SUBSET (Server \ alive)),
           disconnected_servers'[s] \cap alive = {},
           \/ leader_connection'[s] = leader_connection[s]
           \/ ~Harmless(s, Head(mailbox[s])),
           Linked(s)',
           message_received_ack[s] \subseteq message_received_ack'[s],
           type = "ack" => Head(mailbox[s]).sequence_number \in message_received_ack'[s]
    PROVE  LInv(L)'
<1>1. Local(L, s)  BY DEF LInv
<1>2. Near(s)' /\ Led(s)'
  BY <1>1 DEF Local, Near, Led, IsHighest, Settled
<1>3. Orphaned(L, s)'
  BY <1>1 DEF Local, Orphaned, Settled
<1>4. Tail(mailbox[s]) \in Seq(OkMessage(L, s)')
  BY <1>1, TailKept DEF Local
<1>5. PICK out \in Seq(OkMessage(L, s)') : out = <<>> /\ DOMAIN out = {}
  <2>1. <<>> \in Seq(OkMessage(L, s)') /\ DOMAIN <<>> = {}  BY EmptySeq
  <2> QED  BY <2>1, Zenon
<1>6. Consume(s, out) /\ \A k \in DOMAIN out : FALSE
  BY <1>5
<1> QED  BY <1>2, <1>3, <1>4, <1>6, HandlerStep

LEMMA LNeighborAck ==
    ASSUME IInv, CalmReign, NEW L, LInv(L), NEW s \in Server, NeighborAck(s)
    PROVE  LInv(L)'
<1>1. /\ Received(s, "ack") /\ Consume(s, <<>>)
      /\ UNCHANGED <<alive, joining, udp_sender, id_leader, im_leader, leader_connection, link,
                     actual_neighbor_id, socket, pongs>>
      /\ disconnected_servers' = [disconnected_servers EXCEPT ![s] = @ \ {Head(mailbox[s]).id}]
      /\ message_received_ack' =
            [message_received_ack EXCEPT ![s] = @ \cup {Head(mailbox[s]).sequence_number}]
  BY DEF NeighborAck, processVars, leaderVars
<1>2. Local(L, s)  BY DEF LInv
<1>3. Settled  BY <1>1 DEF Settled, Orphan
<1>4. Linked(s)'  BY <1>1, <1>2 DEF Local, Linked
<1>5. disconnected_servers \in [Server -> SUBSET Server]
      /\ message_received_ack \in [Server -> SUBSET Nat]
  BY DEF IInv, SuspectsOK, AcksOK
<1>6. disconnected_servers'[s] \cap alive = {}
  BY <1>1, <1>2, <1>5 DEF Local, Trusting
<1>7. /\ \A r \in Server \ {s} : disconnected_servers'[r] = disconnected_servers[r]
                                 /\ message_received_ack'[r] = message_received_ack[r]
      /\ message_received_ack[s] \subseteq message_received_ack'[s]
      /\ Head(mailbox[s]).sequence_number \in message_received_ack'[s]
  BY <1>1, <1>5
<1>8. \A r, l \in Server : pongs'[l][r] \in Seq(SUBSET (Server \ alive))
  BY <1>1, PongsKept
<1> QED  BY <1>1, <1>3, <1>4, <1>6, <1>7, <1>8, SilentStep

LEMMA LUpdateNetworkState ==
    ASSUME IInv, CalmReign, NEW L, LInv(L), NEW s \in Server, UpdateNetworkState(s)
    PROVE  LInv(L)'
<1>1. /\ Received(s, "update_state") /\ Consume(s, <<>>)
      /\ UNCHANGED <<alive, joining, udp_sender, id_leader, im_leader, leader_connection, link,
                     actual_neighbor_id, message_received_ack, socket, pongs>>
      /\ disconnected_servers' =
            [disconnected_servers EXCEPT ![s] = Head(mailbox[s]).disconnected_servers]
  BY DEF UpdateNetworkState, processVars, leaderVars, ackVars
<1>2. Local(L, s)  BY DEF LInv
<1>3. Settled  BY <1>1 DEF Settled, Orphan
<1>4. Linked(s)'  BY <1>1, <1>2 DEF Local, Linked
<1>5. disconnected_servers \in [Server -> SUBSET Server]  BY DEF IInv, SuspectsOK
<1>6. MessageOk(L, s, Head(mailbox[s])) /\ Head(mailbox[s]).type = "update_state"
  BY <1>1, <1>2, HeadOk DEF Local
<1>7. disconnected_servers'[s] \cap alive = {}
  BY <1>1, <1>5, <1>6 DEF MessageOk
<1>8. \A r \in Server \ {s} : disconnected_servers'[r] = disconnected_servers[r]
  BY <1>1, <1>5
<1>9. \A r, l \in Server : pongs'[l][r] \in Seq(SUBSET (Server \ alive))
  BY <1>1, PongsKept
<1> QED  BY <1>1, <1>3, <1>4, <1>7, <1>8, <1>9, SilentStep

LEMMA LPong ==
    ASSUME IInv, CalmReign, NEW L, LInv(L), NEW s \in Server, Pong(s)
    PROVE  LInv(L)'
<1> DEFINE to == {r \in Head(mailbox[s]).to : link[r] = s}
<1>1. /\ Received(s, "pong") /\ Consume(s, <<>>)
      /\ UNCHANGED <<alive, joining, udp_sender, id_leader, im_leader, leader_connection, link,
                     disconnected_servers, actual_neighbor_id, message_received_ack, socket>>
      /\ pongs' = [pongs EXCEPT ![s] = [r \in Server |->
             IF r \in to THEN Append(@[r], disconnected_servers[s]) ELSE @[r]]]
  BY DEF Pong, processVars, leaderVars, ringVars, ackVars
<1>2. Local(L, s) /\ \A r \in Server : Trusting(r)  BY DEF LInv, Local
<1>3. Settled  BY <1>1 DEF Settled, Orphan
<1>4. Linked(s)'  BY <1>1, <1>2 DEF Local, Linked
<1>5. disconnected_servers'[s] \cap alive = {}  BY <1>1, <1>2 DEF Trusting
<1>6. \A r, l \in Server : pongs'[l][r] \in Seq(SUBSET (Server \ alive))
  <2>1. disconnected_servers[s] \in SUBSET (Server \ alive)
    BY <1>2 DEF Trusting, IInv, SuspectsOK
  <2>2. \A r \in Server : Append(pongs[s][r], disconnected_servers[s]) \in Seq(SUBSET (Server \ alive))
    BY <1>2, <2>1, AppendProperties DEF Trusting
  <2>3. pongs \in [Server -> [Server -> Seq(SUBSET Server)]]  BY DEF IInv, SuspectsOK
  <2> HIDE DEF to
  <2> QED  BY <1>1, <1>2, <2>2, <2>3 DEF Trusting
<1> QED  BY <1>1, <1>3, <1>4, <1>5, <1>6, SilentStep

LEMMA LConnectToServer ==
    ASSUME IInv, CalmReign, NEW L, LInv(L), NEW s \in Server, ConnectToServer(s)
    PROVE  LInv(L)'
<1>1. /\ Received(s, "connect") /\ Consume(s, <<>>)
      /\ UNCHANGED <<alive, joining, udp_sender, id_leader, im_leader, disconnected_servers,
                     actual_neighbor_id, message_received_ack, socket, pongs>>
  BY DEF ConnectToServer, processVars, ringVars, ackVars
<1>2. Local(L, s)  BY DEF LInv
<1>3. Head(mailbox[s]).type = "connect" /\ MessageOk(L, s, Head(mailbox[s]))
  BY <1>1, <1>2, HeadOk DEF Local
<1>4. ~Harmless(s, Head(mailbox[s])) /\ ~Orphan(s)  BY <1>3 DEF Harmless, MessageOk
<1>5. /\ leader_connection \in [Server -> BOOLEAN]
      /\ link \in [Server -> Server \cup {None}]
      /\ id_leader \in [Server -> Server]
      /\ None \notin Server
  BY ElectionAssumption DEF IInv, LeadersOK
<1>6. /\ \A r \in Server \ {s} : leader_connection'[r] = leader_connection[r] /\ link'[r] = link[r]
      /\ \/ leader_connection'[s] = leader_connection[s] /\ link'[s] = link[s]
         \/ leader_connection'[s] /\ link'[s] = id_leader[s] /\ Listening(id_leader[s])
  <2>1. CASE /\ Listening(id_leader[s])
             /\ leader_connection' = [leader_connection EXCEPT ![s] = TRUE]
             /\ link' = [link EXCEPT ![s] = id_leader[s]]
    BY <1>5, <2>1
  <2>2. CASE UNCHANGED <<leader_connection, link>>
    BY <2>2
  <2> QED  BY <2>1, <2>2 DEF ConnectToServer
<1>7. Settled  BY <1>1, <1>4, <1>5, <1>6 DEF Settled, Orphan
<1>8. Linked(s)'
  BY <1>1, <1>2, <1>5, <1>6 DEF Local, Linked, Listening
<1>9. disconnected_servers'[s] \cap alive = {}  BY <1>1, <1>2 DEF Local, Trusting
<1>10. \A r, l \in Server : pongs'[l][r] \in Seq(SUBSET (Server \ alive))
  BY <1>1, PongsKept
<1> QED  BY <1>1, <1>4, <1>6, <1>7, <1>8, <1>9, <1>10, SilentStep

-----------------------------------------------------------------------------
(* Handlers that send a message round.                                     *)

\* Suspicions of servers that do not run leave the nearest one that runs as neighbour.
LEMMA SuspectKeeps ==
    ASSUME IInv, alive' = alive, NEW L, LInv(L), NEW s \in Server,
           NEW new \in SUBSET Server, new \cap alive = {}, Suspect(s, new)
    PROVE  /\ disconnected_servers'[s] \cap alive = {}
           /\ Near(s)'
           /\ actual_neighbor_id'[s] \in Server
           /\ \A r \in Server \ {s} : /\ disconnected_servers'[r] = disconnected_servers[r]
                                      /\ actual_neighbor_id'[r] = actual_neighbor_id[r]
           /\ Alone(s, new) => alive \subseteq {s}
<1> DEFINE down == disconnected_servers[s] \cup new
<1>1. /\ disconnected_servers' = [disconnected_servers EXCEPT ![s] = down]
      /\ actual_neighbor_id' =
            [actual_neighbor_id EXCEPT ![s] = NextNeighbor(actual_neighbor_id[s], s, down)]
      /\ disconnected_servers \in [Server -> SUBSET Server]
      /\ actual_neighbor_id \in [Server -> Server]
      /\ alive \in SUBSET Server
  BY DEF Suspect, IInv, SuspectsOK, ProcessesOK
<1>2. Near(s) /\ disconnected_servers[s] \cap alive = {}
  BY DEF LInv, Local, Trusting
<1>3. down \cap alive = {}  BY <1>2
<1>4. Alone(s, new) => alive \subseteq {s}
  <2> SUFFICES ASSUME Alone(s, new), NEW x \in alive, x # s  PROVE FALSE
    OBVIOUS
  <2>1. x \in Server /\ Eligible(x, s, down)  BY <1>1, <1>3 DEF Eligible
  <2> QED  BY <2>1 DEF Alone, HasNeighbor
<1> HIDE DEF down
<1>5. actual_neighbor_id[s] \in Server
      /\ NextNeighbor(actual_neighbor_id[s], s, down) \in Server
  BY <1>1, NextNeighborType
<1>6. \A x \in alive \ {s} :
         Distance(get_neighbor_id(s), NextNeighbor(actual_neighbor_id[s], s, down))
             <= Distance(get_neighbor_id(s), x)
  BY <1>1, <1>2, <1>3, <1>5, NextIsNear DEF Near
<1>7. Near(s)'  BY <1>1, <1>5, <1>6 DEF Near
<1> QED  BY <1>1, <1>3, <1>4, <1>5, <1>7

\* What the handlers that send have in common.
Handling(L, s, type) ==
    /\ Received(s, type)
    /\ UNCHANGED <<alive, joining, udp_sender, message_received_ack, pongs, link>>
    /\ \A r \in Server \ {s} :
          /\ id_leader'[r] = id_leader[r]
          /\ im_leader'[r] = im_leader[r]
          /\ leader_connection'[r] = leader_connection[r]
    /\ im_leader[s] => im_leader'[s]
    /\ im_leader'[s] = im_leader[s] \/ \A t \in Server : ~Orphan(t)
    /\ ~Orphan(s)' /\ Linked(s)' /\ Led(s)'
    /\ Tail(mailbox[s]) \in Seq(OkMessage(L, s)')

ConnectMsg == [type |-> "connect"]

LEMMA OneMessage ==
    ASSUME NEW S, NEW a \in S, NEW more \in Seq(S)
    PROVE  /\ <<a>> \o more \in Seq(S)
           /\ DOMAIN (<<a>> \o more) = 1..(1 + Len(more))
           /\ Len(more) \in Nat
           /\ DOMAIN more = 1..Len(more)
           /\ (<<a>> \o more)[1] = a
           /\ \A k \in 2..(1 + Len(more)) : (<<a>> \o more)[k] = more[k - 1]
<1>1. <<a>> \in Seq(S) /\ Len(<<a>>) = 1 /\ <<a>>[1] = a  OBVIOUS
<1>2. Len(more) \in Nat /\ DOMAIN more = 1..Len(more)  OBVIOUS
<1>3. /\ <<a>> \o more \in Seq(S)
      /\ Len(<<a>> \o more) = Len(<<a>>) + Len(more)
      /\ \A i \in 1..(Len(<<a>>) + Len(more)) : (<<a>> \o more)[i] =
              IF i <= Len(<<a>>) THEN <<a>>[i] ELSE more[i - Len(<<a>>)]
  BY <1>1, ConcatProperties
<1>4. DOMAIN (<<a>> \o more) = 1..(1 + Len(more))  BY <1>1, <1>3, LenProperties
<1>5. (<<a>> \o more)[1] = a  BY <1>1, <1>2, <1>3
<1>6. \A k \in 2..(1 + Len(more)) : (<<a>> \o more)[k] = more[k - 1]  BY <1>1, <1>2, <1>3
<1> QED  BY <1>2, <1>3, <1>4, <1>5, <1>6

\* A handler's own messages: one of the ring, perhaps followed by a connect.
Outgoing(L, s, a, out) ==
    /\ out \in Seq(OkMessage(L, s))
    /\ \A k \in DOMAIN out : out[k].type # "start_election"
    /\ \A k \in DOMAIN out : out[k].type \in {"wait", "check"} => out[k] = a

LEMMA OutgoingOk ==
    ASSUME IInv, NEW L, NEW s \in Server, ~Orphan(s)',
           NEW a \in GoodMessage, MessageOk(L, s, a)',
           NEW more \in Seq({ConnectMsg}), NEW out, out = <<a>> \o more,
           a.type \notin {"start_election", "check"}
    PROVE  Outgoing(L, s, a, out)'
<1>1. a \in OkMessage(L, s)'  BY DEF OkMessage
<1>2. ConnectMsg \in OkMessage(L, s)'
  BY DEF OkMessage, MessageOk, ArrivingOk, ConnectMsg, GoodMessage
<1>3. more \in Seq(OkMessage(L, s)')  BY <1>2, SeqMonotonic
<1>4. /\ out \in Seq(OkMessage(L, s)') /\ Len(more) \in Nat
      /\ DOMAIN out = 1..(1 + Len(more)) /\ out[1] = a
      /\ DOMAIN more = 1..Len(more)
      /\ \A k \in 2..(1 + Len(more)) : out[k] = more[k - 1]
  BY <1>1, <1>3, OneMessage
<1>5. \A k \in DOMAIN more : more[k] = ConnectMsg
  BY ElementOfSeq, <1>4
<1>6. \A k \in DOMAIN out : out[k] = a \/ out[k] = ConnectMsg
  <2> SUFFICES ASSUME NEW k \in 2..(1 + Len(more))  PROVE out[k] = ConnectMsg
    BY <1>4
  <2>1. k - 1 \in DOMAIN more  BY <1>4
  <2> QED  BY <1>4, <1>5, <2>1
<1> QED  BY <1>4, <1>6 DEF ConnectMsg, Outgoing

\* A server that is alone announces itself: it is the highest that runs.
LEMMA ProclaimStep ==
    ASSUME IInv, NEW L, LInv(L), NEW s \in Server,
           NEW type \in {"start_election", "check", "election", "new_leader"}, Handling(L, s, type),
           NEW new \in SUBSET Server, new \cap alive = {}, Suspect(s, new), Alone(s, new),
           NEW more \in Seq({ConnectMsg}), ProclaimItself(s, more)
    PROVE  LInv(L)'
<1>1. /\ Received(s, type)
      /\ UNCHANGED <<alive, joining, udp_sender, message_received_ack, pongs, link>>
      /\ ~Orphan(s)' /\ Linked(s)' /\ Led(s)'
  BY DEF Handling
<1>2. /\ disconnected_servers'[s] \cap alive = {}
      /\ Near(s)'
      /\ \A r \in Server \ {s} : /\ disconnected_servers'[r] = disconnected_servers[r]
                                 /\ actual_neighbor_id'[r] = actual_neighbor_id[r]
      /\ alive \subseteq {s}
  BY <1>1, SuspectKeeps
<1>3. Settled
  <2> SUFFICES ASSUME NEW t \in Server, t # s, Orphan(t)'  PROVE Orphan(t)
    BY <1>1 DEF Settled
  <2> QED  BY <1>1 DEF Handling, Orphan
<1>4. s \in alive /\ s >= s  BY <1>1 DEF Received, Server
<1>5. PICK a \in GoodMessage : a.type = "new_leader" /\ a.leader_id = s
                               /\ Consume(s, <<a>> \o more)
  <2> DEFINE a == NewLeaderMsg(s, s, sequence_number[s])
  <2>1. a \in GoodMessage
    <3>1. sequence_number[s] \in Nat  BY DEF IInv, AcksOK
    <3> QED  BY <1>4, <3>1, RingMessages DEF GoodMessage, GoodPayload
  <2>2. a.type = "new_leader" /\ a.leader_id = s  BY DEF NewLeaderMsg
  <2>3. Consume(s, <<a>> \o more)  BY DEF ProclaimItself
  <2> HIDE DEF a
  <2> QED  BY <2>1, <2>2, <2>3
<1>6. AnnouncementOk(a)'
  <2>1. IsHighest(s, alive)'
    BY <1>1, <1>2, <1>4 DEF IsHighest
  <2>2. \A t \in Server : ~Orphan(t)'
    BY <1>1, <1>2 DEF Orphan
  <2> QED  BY <1>5, <2>1, <2>2 DEF AnnouncementOk
<1>7. MessageOk(L, s, a)'
  BY <1>5, <1>6 DEF MessageOk, ArrivingOk
<1>8. PICK out : out = <<a>> \o more  OBVIOUS
<1>9. /\ out \in Seq(OkMessage(L, s)')
      /\ \A k \in DOMAIN out : out[k].type # "start_election"
      /\ \A k \in DOMAIN out : out[k].type \in {"wait", "check"} => out[k] = a
  <2>1. a.type \notin {"start_election", "check"}  BY <1>5
  <2>2. Outgoing(L, s, a, out)'  BY <1>1, <1>7, <1>8, <2>1, OutgoingOk
  <2> QED  BY <2>2 DEF Outgoing
<1>10. s \in udp_sender => \A k \in DOMAIN out :
          out[k].type \in {"wait", "check"} /\ out[k].neighbor_id \in alive =>
              \/ out[k].type = "wait" /\ InTransit(s, out[k].neighbor_id, out[k].msg)'
              \/ AckBefore(s, Len(mailbox[s]) + 1, out[k].msg)
  BY <1>5, <1>9
<1>11. \A r, l \in Server : pongs'[l][r] \in Seq(SUBSET (Server \ alive))
  BY <1>1, PongsKept
<1>12. Orphaned(L, s)'  BY <1>1 DEF Orphaned
<1>13. Consume(s, out) /\ socket' = socket  BY <1>5, <1>8 DEF ProclaimItself
<1>14. /\ \A r \in Server \ {s} :
            /\ id_leader'[r] = id_leader[r]
            /\ im_leader'[r] = im_leader[r]
            /\ leader_connection'[r] = leader_connection[r]
            /\ link'[r] = link[r]
            /\ disconnected_servers'[r] = disconnected_servers[r]
            /\ actual_neighbor_id'[r] = actual_neighbor_id[r]
            /\ message_received_ack'[r] = message_received_ack[r]
       /\ im_leader[s] => im_leader'[s]
       /\ im_leader'[s] = im_leader[s] \/ \A t \in Server : ~Orphan(t)
       /\ Tail(mailbox[s]) \in Seq(OkMessage(L, s)')
       /\ message_received_ack[s] \subseteq message_received_ack'[s]
       /\ joining' = joining /\ udp_sender' = udp_sender
  BY <1>1, <1>2 DEF Handling
<1> QED  BY <1>1, <1>2, <1>3, <1>9, <1>10, <1>11, <1>12, <1>13, <1>14, HandlerStep

\* A message sent to the neighbour arrives at the next server that runs.
LEMMA SendStep ==
    ASSUME IInv, CalmReign, NEW L, LInv(L), NEW s \in Server,
           NEW type \in {"start_election", "check", "election", "new_leader"}, Handling(L, s, type),
           NEW new \in SUBSET Server, new \cap alive = {}, Suspect(s, new),
           NEW m \in GoodRing, SentOk(L, s, m)',
           NEW more \in Seq({ConnectMsg}), SendToNeighbor(s, m, more)
    PROVE  LInv(L)'
<1>1. /\ Received(s, type)
      /\ UNCHANGED <<alive, joining, udp_sender, message_received_ack, pongs, link>>
      /\ ~Orphan(s)' /\ Linked(s)' /\ Led(s)'
  BY DEF Handling
<1>2. /\ disconnected_servers'[s] \cap alive = {}
      /\ Near(s)'
      /\ actual_neighbor_id'[s] \in Server
      /\ \A r \in Server \ {s} : /\ disconnected_servers'[r] = disconnected_servers[r]
                                 /\ actual_neighbor_id'[r] = actual_neighbor_id[r]
  BY <1>1, SuspectKeeps
<1>3. Settled
  <2> SUFFICES ASSUME NEW t \in Server, t # s, Orphan(t)'  PROVE Orphan(t)
    BY <1>1 DEF Settled
  <2> QED  BY <1>1 DEF Handling, Orphan
<1>4. udp_sender = alive /\ s \in alive /\ alive \in SUBSET Server
  BY <1>1, Electing DEF IInv, ProcessesOK
<1>5. PICK n \in Server : n = actual_neighbor_id'[s]  BY <1>2
<1>6. PICK w \in GoodMessage : /\ w.type = "wait" /\ w.neighbor_id = n /\ w.msg = m
                               /\ Consume(s, <<w>> \o more)
  <2> DEFINE w == WaitMsg(n, m)
  <2>1. w \in GoodMessage  BY RingMessages, 0 \in Nat DEF GoodMessage
  <2>2. w.type = "wait" /\ w.neighbor_id = n /\ w.msg = m  BY DEF WaitMsg
  <2>3. Consume(s, <<w>> \o more)  BY <1>5 DEF SendToNeighbor
  <2> HIDE DEF w
  <2> QED  BY <2>1, <2>2, <2>3
<1>7. SendDatagram(s, n, m) /\ m \in GoodPayload
  BY <1>5 DEF SendToNeighbor, GoodPayload
<1>8. ArrivingOk(L, n, m)'
  <2>1. m.type = "election" => m.server_ids \in SUBSET Server
    BY DEF GoodRing, RingMessage
  <2>2. \A x \in alive \ {s} : Distance(get_neighbor_id(s), n) <= Distance(get_neighbor_id(s), x)
    BY <1>1, <1>2, <1>5 DEF Near
  <2>3. m.type = "election" => Arc(m.server_ids, n)
    BY <1>1, <1>4, <2>1, <2>2, ArcMove DEF SentOk, Arc
  <2> QED  BY <1>1, <2>3 DEF SentOk, ArrivingOk, Arc
<1>9. MessageOk(L, s, w)'
  BY <1>6 DEF MessageOk, ArrivingOk
<1>10. PICK out : out = <<w>> \o more  OBVIOUS
<1>11. /\ out \in Seq(OkMessage(L, s)')
       /\ \A k \in DOMAIN out : out[k].type # "start_election"
       /\ \A k \in DOMAIN out : out[k].type \in {"wait", "check"} => out[k] = w
  <2>1. w.type \notin {"start_election", "check"}  BY <1>6
  <2>2. Outgoing(L, s, w, out)'  BY <1>1, <1>9, <1>10, <2>1, OutgoingOk
  <2> QED  BY <2>2 DEF Outgoing
<1>12. n \in alive => InTransit(s, n, m)'
  BY <1>4, <1>7, SentInTransit
<1>13. s \in udp_sender => \A k \in DOMAIN out :
          out[k].type \in {"wait", "check"} /\ out[k].neighbor_id \in alive =>
              \/ out[k].type = "wait" /\ InTransit(s, out[k].neighbor_id, out[k].msg)'
              \/ AckBefore(s, Len(mailbox[s]) + 1, out[k].msg)
  BY <1>6, <1>11, <1>12
<1>14. \/ socket' = socket
       \/ \E x \in Server : \E d \in OkDatagram(L, x)' :
              socket' = [socket EXCEPT ![x] = Append(@, d)]
  <2>1. [src |-> s, msg |-> m] \in OkDatagram(L, n)'
    BY <1>7, <1>8 DEF OkDatagram, GoodDatagram
  <2> QED  BY <1>7, <2>1 DEF SendDatagram
<1>15. \A r, l \in Server : pongs'[l][r] \in Seq(SUBSET (Server \ alive))
  BY <1>1, PongsKept
<1>16. Orphaned(L, s)'  BY <1>1 DEF Orphaned
<1>17. Consume(s, out)  BY <1>6, <1>10
<1>18. /\ \A r \in Server \ {s} :
            /\ id_leader'[r] = id_leader[r]
            /\ im_leader'[r] = im_leader[r]
            /\ leader_connection'[r] = leader_connection[r]
            /\ link'[r] = link[r]
            /\ disconnected_servers'[r] = disconnected_servers[r]
            /\ actual_neighbor_id'[r] = actual_neighbor_id[r]
            /\ message_received_ack'[r] = message_received_ack[r]
       /\ im_leader[s] => im_leader'[s]
       /\ im_leader'[s] = im_leader[s] \/ \A t \in Server : ~Orphan(t)
       /\ Tail(mailbox[s]) \in Seq(OkMessage(L, s)')
       /\ message_received_ack[s] \subseteq message_received_ack'[s]
       /\ joining' = joining /\ udp_sender' = udp_sender
  BY <1>1, <1>2 DEF Handling
<1> QED  BY <1>1, <1>2, <1>3, <1>11, <1>13, <1>14, <1>15, <1>16, <1>17, <1>18, HandlerStep

\* A handler that takes a message off the ring.
LEMMA DoneStep ==
    ASSUME IInv, NEW L, LInv(L), NEW s \in Server,
           NEW type \in {"start_election", "check", "election", "new_leader"}, Handling(L, s, type),
           UNCHANGED <<disconnected_servers, actual_neighbor_id, socket>>,
           NEW more \in Seq({ConnectMsg}), Consume(s, more)
    PROVE  LInv(L)'
<1>1. /\ Received(s, type)
      /\ UNCHANGED <<alive, joining, udp_sender, message_received_ack, pongs, link>>
      /\ ~Orphan(s)' /\ Linked(s)' /\ Led(s)'
  BY DEF Handling
<1>2. Local(L, s)  BY DEF LInv
<1>3. Settled
  <2> SUFFICES ASSUME NEW t \in Server, t # s, Orphan(t)'  PROVE Orphan(t)
    BY <1>1 DEF Settled
  <2> QED  BY <1>1 DEF Handling, Orphan
<1>4. Near(s)' /\ disconnected_servers'[s] \cap alive = {}
  BY <1>1, <1>2 DEF Local, Near, Trusting
<1>5. ConnectMsg \in OkMessage(L, s)'
  BY <1>1 DEF OkMessage, MessageOk, ArrivingOk, ConnectMsg, GoodMessage
<1>6. PICK out : out = more  OBVIOUS
<1>7. out \in Seq(OkMessage(L, s)')  BY <1>5, <1>6, SeqMonotonic
<1>8. \A k \in DOMAIN out : out[k].type = "connect"
  <2>1. \A k \in DOMAIN more : more[k] = ConnectMsg  BY ElementOfSeq, LenProperties
  <2> QED  BY <1>6, <2>1 DEF ConnectMsg
<1>9. /\ \A k \in DOMAIN out : out[k].type # "start_election"
      /\ \A k \in DOMAIN out : out[k].type \notin {"wait", "check"}
  BY <1>8
<1>10. s \in udp_sender => \A k \in DOMAIN out :
          out[k].type \in {"wait", "check"} /\ out[k].neighbor_id \in alive =>
              \/ out[k].type = "wait" /\ InTransit(s, out[k].neighbor_id, out[k].msg)'
              \/ AckBefore(s, Len(mailbox[s]) + 1, out[k].msg)
  BY <1>9
<1>11. \A r, l \in Server : pongs'[l][r] \in Seq(SUBSET (Server \ alive))
  BY <1>1, PongsKept
<1>12. Orphaned(L, s)'  BY <1>1 DEF Orphaned
<1>13. Consume(s, out) /\ socket' = socket  BY <1>6
<1>14. /\ \A r \in Server \ {s} :
            /\ id_leader'[r] = id_leader[r]
            /\ im_leader'[r] = im_leader[r]
            /\ leader_connection'[r] = leader_connection[r]
            /\ link'[r] = link[r]
            /\ disconnected_servers'[r] = disconnected_servers[r]
            /\ actual_neighbor_id'[r] = actual_neighbor_id[r]
            /\ message_received_ack'[r] = message_received_ack[r]
       /\ im_leader[s] => im_leader'[s]
       /\ im_leader'[s] = im_leader[s] \/ \A t \in Server : ~Orphan(t)
       /\ Tail(mailbox[s]) \in Seq(OkMessage(L, s)')
       /\ message_received_ack[s] \subseteq message_received_ack'[s]
       /\ joining' = joining /\ udp_sender' = udp_sender
  BY <1>1 DEF Handling
<1> QED  BY <1>1, <1>3, <1>4, <1>7, <1>9, <1>10, <1>11, <1>12, <1>13, <1>14, HandlerStep

LEMMA LStartElection ==
    ASSUME IInv, CalmReign, NEW L, LInv(L), NEW s \in Server, StartElection(s)
    PROVE  LInv(L)'
<1>1. /\ Received(s, "start_election") /\ Suspect(s, {id_leader[s]})
      /\ UNCHANGED <<alive, joining, udp_sender, id_leader, im_leader, leader_connection, link,
                     message_received_ack, pongs>>
  BY DEF StartElection, processVars, leaderVars
<1>2. Local(L, s)  BY DEF LInv
<1>3. s \in alive /\ alive \subseteq Server  BY <1>1 DEF Received, IInv, ProcessesOK
<1>4. ~leader_connection[s] /\ id_leader[s] = L /\ L \notin alive
  BY <1>1, <1>2, HeadOk DEF Local, MessageOk
<1>5. id_leader[s] \in Server /\ sequence_number[s] \in Nat  BY DEF IInv, LeadersOK, AcksOK
<1>6. Settled  BY <1>1 DEF Settled, Orphan
<1>7. Handling(L, s, "start_election")
  <2>1. Tail(mailbox[s]) \in Seq(OkMessage(L, s)')
    BY <1>1, <1>2, <1>6, TailKept DEF Local
  <2>2. ~Orphan(s)'  BY <1>1, <1>4 DEF Orphan
  <2>3. Linked(s)' /\ Led(s)'  BY <1>1, <1>2 DEF Local, Linked, Led, IsHighest
  <2> QED  BY <1>1, <2>1, <2>2, <2>3 DEF Handling
<1>8. PICK new \in SUBSET Server : new = {id_leader[s]} /\ new \cap alive = {}
  <2>1. {id_leader[s]} \in SUBSET Server /\ {id_leader[s]} \cap alive = {}  BY <1>4, <1>5
  <2> QED  BY <2>1, Zenon
<1>9. <<>> \in Seq({ConnectMsg})  BY EmptySeq
<1>10. CASE Alone(s, {id_leader[s]}) /\ ProclaimItself(s, <<>>)
  BY <1>1, <1>7, <1>8, <1>9, <1>10, ProclaimStep
<1>11. CASE SendToNeighbor(s, ElectionMsg({s}, id_leader[s], sequence_number[s]), <<>>)
  <2>1. PICK m \in GoodRing : m = ElectionMsg({s}, id_leader[s], sequence_number[s])
    BY <1>5, RingMessages
  <2>2. m.type = "election" /\ m.server_ids = {s} /\ m.disconnected_leader_id = L
    BY <1>4, <2>1 DEF ElectionMsg
  <2>3. Arc({s}, get_neighbor_id(s))'  BY <1>1, <1>3, ArcOne DEF Arc
  <2>4. SentOk(L, s, m)'
    BY <1>1, <1>3, <1>4, <2>2, <2>3 DEF SentOk, ElectionOk, Orphan
  <2>5. SendToNeighbor(s, m, <<>>)  BY <1>11, <2>1
  <2> QED  BY <1>1, <1>7, <1>8, <1>9, <2>4, <2>5, SendStep
<1> QED  BY <1>10, <1>11 DEF StartElection

LEMMA LCheckIfNeighborAcked ==
    ASSUME IInv, CalmReign, NEW L, LInv(L), NEW s \in Server, CheckIfNeighborAcked(s)
    PROVE  LInv(L)'
<1>1. /\ Received(s, "check")
      /\ UNCHANGED <<alive, joining, udp_sender, id_leader, im_leader, leader_connection, link,
                     message_received_ack, pongs>>
  BY DEF CheckIfNeighborAcked, processVars, leaderVars
<1>2. Local(L, s)  BY DEF LInv
<1>3. s \in alive /\ alive \subseteq Server /\ udp_sender = alive
  BY <1>1, Electing DEF IInv, ProcessesOK
<1>4. PICK c \in GoodMessage : /\ c = Head(mailbox[s]) /\ c.type = "check"
                               /\ SentOk(L, s, c.msg)
                               /\ c.neighbor_id \in Server /\ c.msg \in GoodRing
  BY <1>1, <1>2, HeadOk, MessageFields DEF Local, MessageOk
<1>5. Settled  BY <1>1 DEF Settled, Orphan
<1>6. Linked(s)' /\ Led(s)'  BY <1>1, <1>2 DEF Local, Linked, Led, IsHighest
<1>7. CASE Consume(s, <<>>) /\ UNCHANGED <<ringVars, sequence_number, socket>>
  <2>1. disconnected_servers'[s] \cap alive = {}
    BY <1>2, <1>7 DEF ringVars, Local, Trusting
  <2>2. \A r, l \in Server : pongs'[l][r] \in Seq(SUBSET (Server \ alive))
    BY <1>1, PongsKept
  <2> QED  BY <1>1, <1>5, <1>6, <1>7, <2>1, <2>2, SilentStep DEF ringVars
<1>8. ASSUME c.msg.sequence_number \notin message_received_ack[s], Suspect(s, {c.neighbor_id}),
             \/ Alone(s, {c.neighbor_id}) /\ ProclaimItself(s, <<>>)
             \/ SendToNeighbor(s, c.msg, <<>>)
      PROVE  LInv(L)'
  <2>1. c.neighbor_id \notin alive
    <3>1. 1 \in DOMAIN mailbox[s] /\ mailbox[s][1] = c /\ DOMAIN mailbox[s] = 1..Len(mailbox[s])
      BY <1>1, <1>4 DEF Received, IInv, MailboxOK
    <3>2. ~AckBefore(s, 1, c.msg)
      BY <1>8, <3>1 DEF AckBefore
    <3>3. Answered(s)  BY <1>2, <1>3 DEF Local
    <3> QED  BY <1>4, <3>1, <3>2, <3>3 DEF Answered
  <2>2. ~Orphan(s)
    BY <1>4 DEF SentOk, ElectionOk, AnnouncementOk, GoodRing, RingMessage
  <2>3. Handling(L, s, "check")
    <3>1. Tail(mailbox[s]) \in Seq(OkMessage(L, s)')
      BY <1>1, <1>2, <1>5, TailKept DEF Local
    <3>2. ~Orphan(s)'  BY <1>5, <2>2 DEF Settled
    <3> QED  BY <1>1, <1>6, <3>1, <3>2 DEF Handling
  <2>4. PICK new \in SUBSET Server : new = {c.neighbor_id} /\ new \cap alive = {}
    <3>1. {c.neighbor_id} \in SUBSET Server /\ {c.neighbor_id} \cap alive = {}  BY <1>4, <2>1
    <3> QED  BY <3>1, Zenon
  <2>5. <<>> \in Seq({ConnectMsg})  BY EmptySeq
  <2>6. CASE Alone(s, {c.neighbor_id}) /\ ProclaimItself(s, <<>>)
    BY <1>8, <2>3, <2>4, <2>5, <2>6, ProclaimStep
  <2>7. CASE SendToNeighbor(s, c.msg, <<>>)
    <3>1. PICK m \in GoodRing : m = c.msg  BY <1>4
    <3>2. SentOk(L, s, m)'  BY <1>4, <1>5, <3>1, RingKept
    <3>3. SendToNeighbor(s, m, <<>>)  BY <2>7, <3>1
    <3> QED  BY <1>8, <2>3, <2>4, <2>5, <3>2, <3>3, SendStep
  <2> QED  BY <1>8, <2>6, <2>7
<1> QED  BY <1>4, <1>7, <1>8 DEF CheckIfNeighborAcked

LEMMA LElectionHandler ==
    ASSUME IInv, CalmReign, NEW L, LInv(L), NEW s \in Server, ElectionHandler(s)
    PROVE  LInv(L)'
<1>1. /\ Received(s, "election")
      /\ UNCHANGED <<alive, joining, udp_sender, im_leader, link, message_received_ack, pongs>>
  BY DEF ElectionHandler, processVars
<1>2. Local(L, s) /\ \A r \in Server : Orphaned(L, r)  BY DEF LInv, Local
<1>3. s \in alive /\ alive \subseteq Server /\ \A t \in alive : im_leader[t] => IsHighest(t, alive)
  BY <1>1, Electing DEF IInv, ProcessesOK
<1>4. PICK m \in GoodMessage : /\ m = Head(mailbox[s]) /\ m.type = "election"
                               /\ ElectionOk(L, m) /\ Arc(m.server_ids, s)
                               /\ m.server_ids \in SUBSET Server
                               /\ m.disconnected_leader_id = L /\ L \in Server
  BY <1>1, <1>2, HeadOk, MessageFields DEF Local, MessageOk, ArrivingOk, ElectionOk
<1>5. /\ leader_connection \in [Server -> BOOLEAN]
      /\ id_leader \in [Server -> Server]
      /\ link \in [Server -> Server \cup {None}]
      /\ sequence_number[s] \in Nat
      /\ None \notin Server
  BY ElectionAssumption DEF IInv, LeadersOK, AcksOK
<1>6. /\ leader_connection' = [leader_connection EXCEPT ![s] = @ /\ id_leader[s] # L]
      /\ Suspect(s, {L})
  BY <1>4 DEF ElectionHandler
<1>7. /\ \A r \in Server \ {s} : leader_connection'[r] = leader_connection[r]
      /\ leader_connection'[s] <=> leader_connection[s] /\ id_leader[s] # L
  <2>1. (leader_connection[s] /\ id_leader[s] # L) \in BOOLEAN  BY <1>5
  <2> QED  BY <1>5, <1>6, <2>1
<1>8. ~Orphan(s)'
  <2> SUFFICES ASSUME Orphan(s)'  PROVE FALSE
    OBVIOUS
  <2>1. Orphan(s) /\ id_leader[s] # L  BY <1>1, <1>7 DEF Orphan
  <2> QED  BY <1>2, <2>1 DEF Orphaned
<1>9. Settled
  BY <1>1, <1>7, <1>8 DEF Settled, Orphan
<1>10. L \notin alive  BY <1>4 DEF ElectionOk
<1>11. ASSUME id_leader'[s] = id_leader[s] \/ IsHighest(id_leader'[s], alive)  PROVE Linked(s)'
  <2> SUFFICES ASSUME link[s] # None
               PROVE  /\ link[s] \in alive /\ im_leader[link[s]] /\ leader_connection'[s]
                      /\ id_leader'[s] = link[s]
    BY <1>1 DEF Linked
  <2>1. link[s] \in alive /\ im_leader[link[s]] /\ leader_connection[s] /\ id_leader[s] = link[s]
    BY <1>2, <1>3 DEF Local, Linked
  <2>2. leader_connection'[s]  BY <1>7, <1>10, <2>1
  <2>3. IsHighest(link[s], alive)  BY <1>3, <2>1
  <2>4. alive \in SUBSET Server  BY <1>3
  <2> QED  BY <1>11, <2>1, <2>2, <2>3, <2>4, HighestUnique
<1>12. Led(s)'  BY <1>1, <1>2 DEF Local, Led, IsHighest
<1>13. ASSUME \A r \in Server \ {s} : id_leader'[r] = id_leader[r],
              \/ id_leader'[s] = id_leader[s]
              \/ IsHighest(id_leader'[s], alive) /\ s \in m.server_ids
       PROVE  Handling(L, s, "election")
  <2>1. s \in m.server_ids => ~Harmless(s, Head(mailbox[s]))  BY <1>4 DEF Harmless
  <2>2. Tail(mailbox[s]) \in Seq(OkMessage(L, s)')
    BY <1>1, <1>2, <1>7, <1>9, <1>13, <2>1, TailKept DEF Local
  <2>3. Linked(s)'  BY <1>11, <1>13
  <2> QED  BY <1>1, <1>7, <1>8, <1>12, <1>13, <2>2, <2>3 DEF Handling
<1>14. PICK new \in SUBSET Server : new = {L} /\ new \cap alive = {}
  <2>1. {L} \in SUBSET Server /\ {L} \cap alive = {}  BY <1>4, <1>10
  <2> QED  BY <2>1, Zenon
<1>15. <<>> \in Seq({ConnectMsg})  BY EmptySeq
<1>16. CASE Alone(s, {L}) /\ ProclaimItself(s, <<>>) /\ UNCHANGED id_leader
  BY <1>6, <1>13, <1>14, <1>15, <1>16, ProclaimStep
<1>17. CASE /\ s \in m.server_ids
            /\ id_leader' = [id_leader EXCEPT ![s] = Highest(m.server_ids)]
            /\ SendToNeighbor(s, NewLeaderMsg(Highest(m.server_ids), s, sequence_number[s]), <<>>)
  <2>1. m.server_ids = alive
    BY <1>4, <1>17, ArcClosed DEF ElectionOk
  <2>2. PICK h \in Server : h = Highest(m.server_ids) /\ IsHighest(h, alive) /\ h >= s
    <3>1. Highest(alive) \in alive /\ \A i \in alive : Highest(alive) >= i
      BY <1>3, HighestProperties
    <3> QED  BY <1>3, <2>1, <3>1 DEF IsHighest
  <2>3. id_leader'[s] = h /\ \A r \in Server \ {s} : id_leader'[r] = id_leader[r]
    BY <1>5, <1>17, <2>2
  <2>4. PICK a \in GoodRing : a = NewLeaderMsg(h, s, sequence_number[s])
    BY <1>5, <2>2, RingMessages
  <2>5. a.type = "new_leader" /\ a.leader_id = h  BY <2>4 DEF NewLeaderMsg
  <2>6. \A t \in Server : ~Orphan(t)
    BY <1>4, <2>1 DEF ElectionOk, Orphan
  <2>7. SentOk(L, s, a)'
    BY <1>1, <1>9, <2>2, <2>5, <2>6 DEF SentOk, AnnouncementOk, IsHighest, Settled
  <2>8. SendToNeighbor(s, a, <<>>)  BY <1>17, <2>2, <2>4
  <2>9. Handling(L, s, "election")  BY <1>13, <1>17, <2>2, <2>3
  <2> QED  BY <1>6, <1>14, <1>15, <2>7, <2>8, <2>9, SendStep
<1>18. CASE /\ s \notin m.server_ids
            /\ UNCHANGED id_leader
            /\ SendToNeighbor(s, ElectionMsg(m.server_ids \cup {s}, L, sequence_number[s]), <<>>)
  <2>1. PICK ids \in SUBSET Server : ids = m.server_ids \cup {s}
    BY <1>4
  <2>2. PICK e \in GoodRing : e = ElectionMsg(ids, L, sequence_number[s])
    BY <1>4, <1>5, RingMessages
  <2>3. e.type = "election" /\ e.server_ids = ids /\ e.disconnected_leader_id = L
    BY <2>2 DEF ElectionMsg
  <2>4. Arc(ids, get_neighbor_id(s))'
    BY <1>1, <1>3, <1>4, <1>18, <2>1, ArcAdd DEF Arc
  <2>5. ElectionOk(L, e)'
    <3>1. \A t \in m.server_ids : ~Orphan(t)'  BY <1>4, <1>9 DEF ElectionOk, Settled
    <3> QED  BY <1>1, <1>3, <1>4, <1>8, <1>10, <2>1, <2>3, <3>1 DEF ElectionOk
  <2>6. SentOk(L, s, e)'  BY <2>1, <2>3, <2>4, <2>5 DEF SentOk
  <2>7. SendToNeighbor(s, e, <<>>)  BY <1>18, <2>1, <2>2
  <2>8. Handling(L, s, "election")  BY <1>13, <1>18
  <2> QED  BY <1>6, <1>14, <1>15, <2>6, <2>7, <2>8, SendStep
<1> QED  BY <1>4, <1>16, <1>17, <1>18 DEF ElectionHandler

LEMMA LNewLeaderHandler ==
    ASSUME IInv, CalmReign, NEW L, LInv(L), NEW s \in Server, NewLeaderHandler(s)
    PROVE  LInv(L)'
<1>1. /\ Received(s, "new_leader")
      /\ UNCHANGED <<alive, joining, udp_sender, leader_connection, link,
                     message_received_ack, pongs>>
  BY DEF NewLeaderHandler, processVars
<1>2. Local(L, s)  BY DEF LInv
<1>3. s \in alive /\ alive \in SUBSET Server /\ \A t \in alive : im_leader[t] => IsHighest(t, alive)
  BY <1>1, Electing DEF IInv, ProcessesOK
<1>4. PICK m \in GoodRing : /\ m = Head(mailbox[s]) /\ m.type = "new_leader"
                            /\ AnnouncementOk(m) /\ m.leader_id \in Server
  <2>1. PICK m \in GoodMessage : /\ m = Head(mailbox[s]) /\ m.type = "new_leader"
                                 /\ AnnouncementOk(m)
    BY <1>1, <1>2, HeadOk DEF Local, MessageOk, ArrivingOk
  <2> QED  BY <2>1, MessageFields
<1>5. /\ id_leader \in [Server -> Server]
      /\ im_leader \in [Server -> BOOLEAN]
      /\ link \in [Server -> Server \cup {None}]
  BY DEF IInv, LeadersOK
<1>6. IsHighest(m.leader_id, alive) /\ \A t \in Server : ~Orphan(t)
  BY <1>4 DEF AnnouncementOk
<1>7. Settled  BY <1>1, <1>6 DEF Settled, Orphan
<1>8. /\ id_leader'[s] = m.leader_id
      /\ \A r \in Server \ {s} : id_leader'[r] = id_leader[r] /\ im_leader'[r] = im_leader[r]
      /\ im_leader'[s] <=> im_leader[s] \/ m.leader_id = s
      /\ im_leader' \in [Server -> BOOLEAN]
  <2>1. id_leader' = [id_leader EXCEPT ![s] = m.leader_id]
        /\ im_leader' = [im_leader EXCEPT ![s] = @ \/ m.leader_id = s]
    BY <1>4 DEF NewLeaderHandler
  <2>2. (im_leader[s] \/ m.leader_id = s) \in BOOLEAN  BY <1>5
  <2> QED  BY <1>5, <2>1, <2>2
<1>9. Linked(s)'
  <2> SUFFICES ASSUME link[s] # None
               PROVE  /\ link[s] \in alive /\ im_leader'[link[s]] /\ leader_connection[s]
                      /\ id_leader'[s] = link[s]
    BY <1>1 DEF Linked
  <2>1. link[s] \in alive /\ im_leader[link[s]] /\ leader_connection[s]
    BY <1>2, <1>3 DEF Local, Linked
  <2>2. link[s] = m.leader_id  BY <1>3, <1>6, <2>1, HighestUnique
  <2> QED  BY <1>3, <1>8, <2>1, <2>2
<1>10. Led(s)'  BY <1>1, <1>2, <1>6, <1>8 DEF Local, Led, IsHighest
<1>11. Handling(L, s, "new_leader")
  <2>1. ~Harmless(s, Head(mailbox[s]))  BY <1>4 DEF Harmless
  <2>2. Tail(mailbox[s]) \in Seq(OkMessage(L, s)')
    BY <1>1, <1>2, <1>7, <2>1, TailKept DEF Local
  <2>3. ~Orphan(s)'  BY <1>6, <1>7 DEF Settled
  <2>4. im_leader'[s] = im_leader[s] \/ \A t \in Server : ~Orphan(t)  BY <1>6
  <2> QED  BY <1>1, <1>8, <1>9, <1>10, <2>2, <2>3, <2>4 DEF Handling
<1>12. PICK more \in Seq({ConnectMsg}) :
          more = IF m.leader_id # s /\ ~leader_connection[s] THEN <<ConnectMsg>> ELSE <<>>
  <2>1. <<ConnectMsg>> \in Seq({ConnectMsg}) /\ <<>> \in Seq({ConnectMsg})  BY EmptySeq
  <2> QED  BY <2>1
<1>13. \/ Consume(s, more) /\ UNCHANGED <<ringVars, sequence_number, socket>>
       \/ /\ Suspect(s, {})
          /\ (Alone(s, {}) /\ ProclaimItself(s, more)) \/ SendToNeighbor(s, m, more)
  BY <1>4, <1>12 DEF NewLeaderHandler, ConnectMsg
<1>14. PICK new \in SUBSET Server : new = {} /\ new \cap alive = {}
  <2>1. {} \in SUBSET Server /\ {} \cap alive = {}  OBVIOUS
  <2> QED  BY <2>1, Zenon
<1>15. SentOk(L, s, m)'  BY <1>4, <1>7, RingKept DEF SentOk
<1>16. CASE Suspect(s, {}) /\ Alone(s, {}) /\ ProclaimItself(s, more)
  BY <1>11, <1>14, <1>16, ProclaimStep
<1>17. CASE Suspect(s, {}) /\ SendToNeighbor(s, m, more)
  BY <1>11, <1>14, <1>15, <1>17, SendStep
<1>18. CASE Consume(s, more) /\ UNCHANGED <<ringVars, sequence_number, socket>>
  BY <1>11, <1>18, DoneStep DEF ringVars
<1> QED  BY <1>13, <1>16, <1>17, <1>18

-----------------------------------------------------------------------------
(* Timers, the UDP receiver and the TCP link.                              *)

LEMMA OrderedAppend ==
    ASSUME IInv, NEW t \in Server, Ordered(t), NEW msg \in GoodMessage,
           mailbox'[t] = Append(mailbox[t], msg),
           msg.type = "start_election" =>
               \A j \in DOMAIN mailbox[t] : Harmless(t, mailbox[t][j])
    PROVE  Ordered(t)'
<1> DEFINE q == mailbox[t]
           p == Append(q, msg)
<1>1. /\ Len(q) \in Nat /\ DOMAIN q = 1..Len(q)
      /\ DOMAIN p = 1..(Len(q) + 1)
      /\ \A i \in 1..Len(q) : p[i] = q[i]
      /\ p[Len(q) + 1] = msg
  <2>1. q \in Seq(GoodMessage)  BY DEF IInv, MailboxOK
  <2> HIDE DEF q
  <2> QED  BY <2>1, AppendedIndex
<1>2. ASSUME NEW i \in DOMAIN p, NEW j \in DOMAIN p, j < i, p[i].type = "start_election"
      PROVE  Harmless(t, p[j])
  <2>1. j \in 1..Len(q) /\ j \in DOMAIN q /\ p[j] = q[j]
    <3> HIDE DEF p, q
    <3> QED  BY <1>1, <1>2
  <2>2. CASE i = Len(q) + 1
    <3>1. msg.type = "start_election"  BY <1>1, <1>2, <2>2
    <3>2. Harmless(t, mailbox[t][j])  BY <2>1, <3>1
    <3> QED  BY <2>1, <3>2
  <2>3. CASE i # Len(q) + 1
    <3>1. i \in DOMAIN q /\ p[i] = q[i]
      <4> HIDE DEF p, q
      <4> QED  BY <1>1, <1>2, <2>3
    <3>2. mailbox[t][i].type = "start_election" /\ i \in DOMAIN mailbox[t]
          /\ j \in DOMAIN mailbox[t] /\ j < i
      BY <1>2, <2>1, <3>1
    <3>3. Harmless(t, mailbox[t][j])
      BY <3>2 DEF Ordered
    <3> QED  BY <2>1, <3>3
  <2> QED  BY <2>2, <2>3
<1> HIDE DEF p
<1>3. mailbox'[t] = p  BY DEF p
<1> QED  BY <1>2, <1>3 DEF Ordered, Harmless

LEMMA AnsweredAppend ==
    ASSUME IInv, alive' = alive, NEW t \in Server, Answered(t), NEW msg \in GoodMessage,
           mailbox'[t] = Append(mailbox[t], msg), msg.type \notin {"wait", "check"},
           message_received_ack'[t] = message_received_ack[t],
           \A n \in Server, m \in GoodRing : InTransit(t, n, m) =>
               InTransit(t, n, m)' \/ (msg.type = "ack" /\ msg.sequence_number = m.sequence_number)
    PROVE  Answered(t)'
<1>1. /\ Len(mailbox[t]) \in Nat /\ DOMAIN mailbox[t] = 1..Len(mailbox[t])
      /\ DOMAIN mailbox'[t] = 1..(Len(mailbox[t]) + 1)
      /\ Len(mailbox'[t]) = Len(mailbox[t]) + 1
      /\ \A i \in 1..Len(mailbox[t]) : mailbox'[t][i] = mailbox[t][i]
      /\ mailbox'[t][Len(mailbox[t]) + 1] = msg
  <2>1. mailbox[t] \in Seq(GoodMessage)  BY DEF IInv, MailboxOK
  <2> QED  BY <2>1, AppendedIndex
<1>2. alive \subseteq Server  BY DEF IInv, ProcessesOK
<1> SUFFICES ASSUME NEW i \in DOMAIN mailbox'[t], NEW w, NEW e, w = mailbox'[t][i],
                    e = Len(mailbox'[t]) + 1,
                    w.type \in {"wait", "check"}, w.neighbor_id \in alive
             PROVE  \/ AckBefore(t, i, w.msg)'
                    \/ /\ w.type = "wait"
                       /\ InTransit(t, w.neighbor_id, w.msg)' \/ AckBefore(t, e, w.msg)'
  BY DEF Answered
<1>3. i \in 1..Len(mailbox[t]) /\ w = mailbox[t][i] /\ i \in DOMAIN mailbox[t]
  BY <1>1
<1>4. w.msg \in GoodRing /\ w.neighbor_id \in Server
  <2>1. w \in GoodMessage  BY <1>3, ElementOfSeq, LenProperties DEF IInv, MailboxOK
  <2> QED  BY <2>1, MessageFields
<1>5. AckBefore(t, i, w.msg) => AckBefore(t, i, w.msg)'
  BY <1>1, <1>3 DEF AckBefore
<1>6. AckBefore(t, Len(mailbox[t]) + 1, w.msg) => AckBefore(t, e, w.msg)'
  <2>1. CASE w.msg.sequence_number \in message_received_ack[t]
    BY <2>1 DEF AckBefore
  <2>2. ASSUME NEW j \in DOMAIN mailbox[t], mailbox[t][j].type = "ack",
               mailbox[t][j].sequence_number = w.msg.sequence_number
        PROVE  AckBefore(t, e, w.msg)'
    <3>1. j \in DOMAIN mailbox'[t] /\ mailbox'[t][j] = mailbox[t][j] /\ j < e  BY <1>1
    <3> QED  BY <2>2, <3>1 DEF AckBefore
  <2> QED  BY <2>1, <2>2 DEF AckBefore
<1>7. msg.type = "ack" /\ msg.sequence_number = w.msg.sequence_number => AckBefore(t, e, w.msg)'
  <2>1. Len(mailbox[t]) + 1 \in DOMAIN mailbox'[t] /\ Len(mailbox[t]) + 1 < e  BY <1>1
  <2> QED  BY <1>1, <2>1 DEF AckBefore
<1>8. \/ AckBefore(t, i, w.msg)
      \/ /\ w.type = "wait"
         /\ InTransit(t, w.neighbor_id, w.msg) \/ AckBefore(t, Len(mailbox[t]) + 1, w.msg)
  BY <1>3 DEF Answered
<1> QED  BY <1>4, <1>5, <1>6, <1>7, <1>8

\* A message put into the mailbox of t, with the sockets as they are.
LEMMA AppendStep ==
    ASSUME IInv, Settled, NEW L, LInv(L), NEW t \in Server, NEW msg \in OkMessage(L, t)',
           mailbox' = [mailbox EXCEPT ![t] = Append(@, msg)],
           UNCHANGED <<joining, udp_sender, id_leader, im_leader, link, disconnected_servers,
                       actual_neighbor_id, message_received_ack, socket>>,
           \A r \in Server \ {t} : leader_connection'[r] = leader_connection[r],
           leader_connection'[t] => leader_connection[t],
           Linked(t)',
           \A r, l \in Server : pongs'[l][r] \in Seq(SUBSET (Server \ alive)),
           msg.type \notin {"wait", "check"},
           msg.type = "start_election" =>
               \A j \in DOMAIN mailbox[t] : Harmless(t, mailbox[t][j])
    PROVE  LInv(L)'
<1>1. /\ \A r \in Server : Local(L, r)
      /\ \A r \in Server : Mail(L, r) /\ Ordered(r)
      /\ \A r \in udp_sender : Answered(r)
      /\ udp_sender \subseteq Server
  <2>1. \A r \in Server : Local(L, r)  BY DEF LInv
  <2>2. udp_sender \subseteq Server  BY DEF IInv, ProcessesOK
  <2> QED  BY <2>1, <2>2 DEF Local
<1>2. msg \in GoodMessage  BY DEF OkMessage
<1>3. mailbox'[t] = Append(mailbox[t], msg) /\ \A r \in Server \ {t} : mailbox'[r] = mailbox[r]
  BY DEF IInv, MailboxOK
<1>4. \A r \in Server : OkMessage(L, r) \subseteq OkMessage(L, r)'
  <2> SUFFICES ASSUME NEW r \in Server, NEW m \in OkMessage(L, r)  PROVE m \in OkMessage(L, r)'
    OBVIOUS
  <2>1. (leader_connection'[r] => leader_connection[r]) /\ id_leader'[r] = id_leader[r]
    OBVIOUS
  <2> QED  BY <2>1, MessagesKept
<1>5. \A r \in Server : Mail(L, r)'
  <2>1. \A r \in Server : mailbox[r] \in Seq(OkMessage(L, r)')
    BY <1>1, <1>4, SeqMonotonic DEF Mail
  <2>2. mailbox'[t] \in Seq(OkMessage(L, t)')  BY <1>3, <2>1, AppendProperties
  <2>3. \A r \in Server : socket[r] \in Seq(OkDatagram(L, r)')  BY <1>1, SocketsKept
  <2> QED  BY <1>3, <2>1, <2>2, <2>3 DEF Mail
<1>6. alive' = alive  BY DEF Settled
<1>7. \A r, n \in Server, m \in GoodRing : InTransit(r, n, m) => InTransit(r, n, m)'
  BY DEF InTransit
<1>8. Ordered(t)'  BY <1>1, <1>2, <1>3, OrderedAppend
<1>9. t \in udp_sender => Answered(t)'
  BY <1>1, <1>2, <1>3, <1>6, <1>7, AnsweredAppend
<1>10. Local(L, t)'
  <2>1. Trusting(t)'  BY <1>1, <1>6 DEF Local, Trusting
  <2>2. Near(t)' /\ Led(t)'  BY <1>1, <1>6 DEF Local, Near, Led, IsHighest
  <2>3. Orphaned(L, t)'  BY <1>1, <1>6 DEF Local, Orphaned, Settled
  <2> QED  BY <1>5, <1>8, <1>9, <2>1, <2>2, <2>3 DEF Local
<1>11. \A r \in Server \ {t} : Ordered(r)'
  BY <1>1, <1>3 DEF Ordered, Harmless
<1>12. \A r \in udp_sender \ {t} : Answered(r)'
  BY <1>1, <1>3, <1>6, <1>7, AnsweredKept
<1> QED  BY <1>5, <1>10, <1>11, <1>12, OthersKept

LEMMA LPingLiveLeader ==
    ASSUME IInv, NEW L, LInv(L), NEW s \in Server, PingLiveLeader(s)
    PROVE  LInv(L)'
<1>1. /\ UNCHANGED <<alive, joining, udp_sender, id_leader, im_leader, leader_connection, link,
                     disconnected_servers, actual_neighbor_id, message_received_ack, socket, pongs>>
      /\ link[s] # None
      /\ mailbox' = [mailbox EXCEPT ![link[s]] = Append(@, [type |-> "pong", to |-> {s}])]
  BY DEF PingLiveLeader, leaderVars, ringVars, ackVars
<1>2. link[s] \in Server  BY <1>1 DEF IInv, LeadersOK
<1>3. PICK t \in Server : t = link[s]  BY <1>2
<1>4. PICK msg \in GoodMessage : msg = [type |-> "pong", to |-> {s}] /\ msg.type = "pong"
  <2> DEFINE p == [type |-> "pong", to |-> {s}]
  <2>1. p \in GoodMessage /\ p.type = "pong"  BY DEF GoodMessage, PlainMessage
  <2> QED  BY <2>1, Zenon
<1>5. msg \in OkMessage(L, t)'
  BY <1>4 DEF OkMessage, MessageOk, ArrivingOk
<1>6. Settled  BY <1>1 DEF Settled, Orphan
<1>7. Linked(t)'  BY <1>1 DEF LInv, Local, Linked
<1>8. \A r, l \in Server : pongs'[l][r] \in Seq(SUBSET (Server \ alive))
  BY <1>1, PongsKept
<1>9. mailbox' = [mailbox EXCEPT ![t] = Append(@, msg)]  BY <1>1, <1>3, <1>4
<1> QED  BY <1>1, <1>4, <1>5, <1>6, <1>7, <1>8, <1>9, AppendStep

\* An orphan has handled no message of the election that it could start.
LEMMA LPingDeadLeader ==
    ASSUME IInv, NEW L, LInv(L), NEW s \in Server, PingDeadLeader(s)
    PROVE  LInv(L)'
<1>1. /\ UNCHANGED <<alive, joining, udp_sender, id_leader, im_leader, link,
                     disconnected_servers, actual_neighbor_id, message_received_ack, socket, pongs>>
      /\ Orphan(s)
      /\ leader_connection' = [leader_connection EXCEPT ![s] = FALSE]
      /\ mailbox' = [mailbox EXCEPT ![s] = Append(@, [type |-> "start_election"])]
  BY DEF PingDeadLeader, Orphan, ringVars, ackVars
<1>2. Local(L, s)  BY DEF LInv
<1>3. id_leader[s] = L /\ L \notin alive  BY <1>1, <1>2 DEF Local, Orphaned
<1>4. leader_connection \in [Server -> BOOLEAN]  BY DEF IInv, LeadersOK
<1>5. ~leader_connection'[s] /\ \A r \in Server \ {s} : leader_connection'[r] = leader_connection[r]
  BY <1>1, <1>4
<1>6. Settled  BY <1>1, <1>5 DEF Settled, Orphan
<1>7. Linked(s)'  BY <1>1 DEF Linked, Orphan
<1>8. PICK msg \in GoodMessage : msg = [type |-> "start_election"] /\ msg.type = "start_election"
  <2> DEFINE p == [type |-> "start_election"]
  <2>1. p \in GoodMessage /\ p.type = "start_election"  BY DEF GoodMessage
  <2> QED  BY <2>1, Zenon
<1>9. msg \in OkMessage(L, s)'
  BY <1>1, <1>3, <1>5, <1>8 DEF OkMessage, MessageOk, ArrivingOk
<1>10. \A j \in DOMAIN mailbox[s] : Harmless(s, mailbox[s][j])
  <2> SUFFICES ASSUME NEW j \in DOMAIN mailbox[s]  PROVE Harmless(s, mailbox[s][j])
    OBVIOUS
  <2>1. mailbox[s][j] \in OkMessage(L, s)  BY <1>2, ElementOfSeq, LenProperties DEF Local, Mail
  <2> QED  BY <1>1, <2>1 DEF OkMessage, MessageOk, ArrivingOk, AnnouncementOk, ElectionOk, Harmless
<1>11. \A r, l \in Server : pongs'[l][r] \in Seq(SUBSET (Server \ alive))
  BY <1>1, PongsKept
<1>12. mailbox' = [mailbox EXCEPT ![s] = Append(@, msg)]  BY <1>1, <1>8
<1> QED  BY <1>1, <1>5, <1>6, <1>7, <1>8, <1>9, <1>10, <1>11, <1>12, AppendStep

LEMMA LReceivePong ==
    ASSUME IInv, NEW L, LInv(L), NEW s \in Server, NEW l \in Server, ReceivePong(s, l)
    PROVE  LInv(L)'
<1>1. /\ UNCHANGED <<alive, joining, udp_sender, id_leader, im_leader, leader_connection, link,
                     disconnected_servers, actual_neighbor_id, message_received_ack, socket>>
      /\ pongs[l][s] # <<>>
      /\ pongs' = [pongs EXCEPT ![l][s] = Tail(@)]
      /\ mailbox' = [mailbox EXCEPT ![s] = Append(@,
             [type |-> "update_state", disconnected_servers |-> Head(pongs[l][s])])]
  BY DEF ReceivePong, processVars, leaderVars, ringVars, ackVars
<1>2. \A r, k \in Server : pongs[k][r] \in Seq(SUBSET (Server \ alive))
  BY DEF LInv, Local, Trusting
<1>3. PICK down \in SUBSET (Server \ alive) : down = Head(pongs[l][s])
  BY <1>1, <1>2, HeadTailProperties
<1>4. Tail(pongs[l][s]) \in Seq(SUBSET (Server \ alive))
  BY <1>1, <1>2, HeadTailProperties
<1>5. \A r, k \in Server : pongs'[k][r] \in Seq(SUBSET (Server \ alive))
  <2>1. pongs \in [Server -> [Server -> Seq(SUBSET Server)]]  BY DEF IInv, SuspectsOK
  <2> QED  BY <1>1, <1>2, <1>4, <2>1
<1>6. PICK msg \in GoodMessage :
          /\ msg = [type |-> "update_state", disconnected_servers |-> down]
          /\ msg.type = "update_state" /\ msg.disconnected_servers = down
  <2> DEFINE p == [type |-> "update_state", disconnected_servers |-> down]
  <2>1. p \in GoodMessage /\ p.type = "update_state" /\ p.disconnected_servers = down
    BY DEF GoodMessage, PlainMessage
  <2> QED  BY <2>1, Zenon
<1>7. msg \in OkMessage(L, s)'
  BY <1>1, <1>6 DEF OkMessage, MessageOk, ArrivingOk
<1>8. Settled  BY <1>1 DEF Settled, Orphan
<1>9. Linked(s)'  BY <1>1 DEF LInv, Local, Linked
<1>10. mailbox' = [mailbox EXCEPT ![s] = Append(@, msg)]  BY <1>1, <1>3, <1>6
<1> QED  BY <1>1, <1>5, <1>6, <1>7, <1>8, <1>9, <1>10, AppendStep

\* What a datagram that is read turns into: the ack of it, or an ack handed to the actor.
LEMMA TransitMoves ==
    ASSUME IInv, NEW s \in Server, ReceiveDatagram(s), NEW d, d = Head(socket[s]),
           NEW r \in udp_sender, NEW n \in Server, NEW m \in GoodRing, InTransit(r, n, m)
    PROVE  \/ InTransit(r, n, m)'
           \/ r = s /\ d.msg.type = "ack" /\ d.msg.sequence_number = m.sequence_number
<1> DEFINE rest == [socket EXCEPT ![s] = Tail(@)]
<1>1. /\ socket \in [Server -> Seq(GoodDatagram)] /\ socket[s] # <<>>
      /\ r \in Server
      /\ d.src \in Server
      /\ d.msg.sequence_number \in Nat
  BY DatagramProperties DEF ReceiveDatagram, IInv, SocketOK, ProcessesOK
<1>2. PICK ack \in GoodDatagram : /\ ack = [src |-> s, msg |-> AckMsg(0, d.msg.sequence_number)]
                                  /\ ack.src = s /\ ack.msg.type = "ack"
                                  /\ ack.msg.sequence_number = d.msg.sequence_number
  <2> DEFINE a == [src |-> s, msg |-> AckMsg(0, d.msg.sequence_number)]
  <2>1. a \in GoodDatagram  BY <1>1 DEF AckMsg, GoodDatagram, GoodPayload, AckMessage
  <2>2. a.src = s /\ a.msg.type = "ack" /\ a.msg.sequence_number = d.msg.sequence_number
    BY DEF AckMsg
  <2> QED  BY <2>1, <2>2, Zenon
<1>3. /\ rest \in [Server -> Seq(GoodDatagram)]
      /\ \A x \in Server \ {s} : rest[x] = socket[x]
      /\ Len(socket[s]) \in Nat /\ DOMAIN socket[s] = 1..Len(socket[s]) /\ d = socket[s][1]
      /\ DOMAIN rest[s] = 1..(Len(socket[s]) - 1)
      /\ \A i \in 1..(Len(socket[s]) - 1) : rest[s][i] = socket[s][i + 1]
  <2>1. Tail(socket[s]) \in Seq(GoodDatagram) /\ Len(Tail(socket[s])) = Len(socket[s]) - 1
        /\ \A i \in 1..(Len(socket[s]) - 1) : Tail(socket[s])[i] = socket[s][i + 1]
    BY <1>1, HeadTailProperties
  <2>2. rest \in [Server -> Seq(GoodDatagram)] /\ rest[s] = Tail(socket[s])
        /\ \A x \in Server \ {s} : rest[x] = socket[x]
    BY <1>1, <2>1
  <2> HIDE DEF rest
  <2>3. Len(socket[s]) \in Nat /\ DOMAIN socket[s] = 1..Len(socket[s]) /\ d = socket[s][1]
    BY <1>1
  <2> QED  BY <2>1, <2>2, <2>3, LenProperties
<1>4. socket' = IF d.msg.type # "ack" /\ d.src \in udp_sender
                THEN [rest EXCEPT ![d.src] = Append(@, ack)]
                ELSE rest
  BY <1>2 DEF ReceiveDatagram
<1> HIDE DEF rest
<1>5. ASSUME NEW x \in Server, NEW i \in DOMAIN socket[x], x # s \/ i # 1
      PROVE  \E j \in DOMAIN rest[x] : rest[x][j] = socket[x][i]
  <2>1. CASE x # s
    BY <1>3, <1>5, <2>1
  <2>2. CASE x = s
    <3>1. i - 1 \in 1..(Len(socket[s]) - 1) /\ (i - 1) + 1 = i
      BY <1>3, <1>5, <2>2
    <3> QED  BY <1>3, <2>2, <3>1
  <2> QED  BY <2>1, <2>2
<1>6. ASSUME NEW x \in Server, NEW j \in DOMAIN rest[x]
      PROVE  j \in DOMAIN socket'[x] /\ socket'[x][j] = rest[x][j]
  <2>1. rest[x] \in Seq(GoodDatagram)  BY <1>3
  <2>2. CASE socket'[x] = rest[x]  BY <1>6, <2>2
  <2>3. CASE socket'[x] = Append(rest[x], ack)
    <3>1. j \in 1..Len(rest[x])  BY <1>6, <2>1, AppendedIndex
    <3>2. j \in DOMAIN Append(rest[x], ack) /\ Append(rest[x], ack)[j] = rest[x][j]
      BY <2>1, <3>1, AppendedIndex
    <3> QED  BY <2>3, <3>2
  <2>4. socket'[x] = rest[x] \/ socket'[x] = Append(rest[x], ack)
    <3>1. CASE socket' = rest  BY <3>1
    <3>2. CASE socket' = [rest EXCEPT ![d.src] = Append(@, ack)]
      <4>1. PICK g \in Server : g = d.src  BY <1>1
      <4>2. socket' = [rest EXCEPT ![g] = Append(@, ack)]  BY <3>2, <4>1
      <4> QED  BY <1>3, <4>1, <4>2
    <3> QED  BY <1>4, <3>1, <3>2
  <2> QED  BY <2>2, <2>3, <2>4
<1>7. ASSUME NEW x \in Server, NEW i \in DOMAIN socket[x], x # s \/ i # 1
      PROVE  \E j \in DOMAIN socket'[x] : socket'[x][j] = socket[x][i]
  <2>1. PICK j \in DOMAIN rest[x] : rest[x][j] = socket[x][i]  BY <1>5, <1>7
  <2>2. j \in DOMAIN socket'[x] /\ socket'[x][j] = rest[x][j]  BY <1>6
  <2> QED  BY <2>1, <2>2
<1>8. CASE \E i \in DOMAIN socket[n] : socket[n][i] = [src |-> r, msg |-> m]
  <2>1. PICK i \in DOMAIN socket[n] : socket[n][i] = [src |-> r, msg |-> m]
    BY <1>8
  <2>2. CASE n # s \/ i # 1
    <3>1. PICK j \in DOMAIN socket'[n] : socket'[n][j] = socket[n][i]  BY <1>7, <2>2
    <3> QED  BY <2>1, <3>1 DEF InTransit
  <2>3. CASE n = s /\ i = 1
    <3>1. d.src = r /\ d.msg = m /\ m.type # "ack"
      BY <1>3, <2>1, <2>3 DEF GoodRing, RingMessage
    <3>2. socket'[r] = Append(rest[r], ack)  BY <1>1, <1>3, <1>4, <3>1
    <3>3. rest[r] \in Seq(GoodDatagram)  BY <1>1, <1>3
    <3>4. PICK j \in DOMAIN socket'[r] : socket'[r][j] = ack
      <4>1. Len(rest[r]) + 1 \in DOMAIN Append(rest[r], ack)
            /\ Append(rest[r], ack)[Len(rest[r]) + 1] = ack
        BY <3>3, AppendedIndex
      <4> QED  BY <3>2, <4>1
    <3> QED  BY <1>2, <2>3, <3>1, <3>4 DEF InTransit
  <2> QED  BY <2>2, <2>3
<1>9. CASE \E i \in DOMAIN socket[r] : /\ socket[r][i].src = n
                                       /\ socket[r][i].msg.type = "ack"
                                       /\ socket[r][i].msg.sequence_number = m.sequence_number
  <2>1. PICK i \in DOMAIN socket[r] : /\ socket[r][i].src = n
                                      /\ socket[r][i].msg.type = "ack"
                                      /\ socket[r][i].msg.sequence_number = m.sequence_number
    BY <1>9
  <2>2. CASE r # s \/ i # 1
    <3>1. PICK j \in DOMAIN socket'[r] : socket'[r][j] = socket[r][i]  BY <1>1, <1>7, <2>2
    <3> QED  BY <2>1, <3>1 DEF InTransit
  <2>3. CASE r = s /\ i = 1
    BY <1>3, <2>1, <2>3
  <2> QED  BY <2>2, <2>3
<1> QED  BY <1>8, <1>9 DEF InTransit

LEMMA LReceiveDatagram ==
    ASSUME IInv, NEW L, LInv(L), NEW s \in Server, ReceiveDatagram(s)
    PROVE  LInv(L)'
<1>1. /\ UNCHANGED <<alive, joining, udp_sender, id_leader, im_leader, leader_connection, link,
                     disconnected_servers, actual_neighbor_id, message_received_ack, pongs>>
      /\ socket[s] # <<>>
  BY DEF ReceiveDatagram, processVars, leaderVars, ringVars, ackVars
<1>2. /\ \A r \in Server : Local(L, r)
      /\ \A r \in Server : Mail(L, r) /\ Ordered(r)
      /\ \A r \in udp_sender : Answered(r)
      /\ udp_sender \subseteq Server
  <2>1. \A r \in Server : Local(L, r)  BY DEF LInv
  <2>2. udp_sender \subseteq Server  BY DEF IInv, ProcessesOK
  <2> QED  BY <2>1, <2>2 DEF Local
<1>3. PICK d \in OkDatagram(L, s) : d = Head(socket[s]) /\ Tail(socket[s]) \in Seq(OkDatagram(L, s))
  BY <1>1, <1>2, HeadTailProperties DEF Mail
<1>4. d \in GoodDatagram /\ d.src \in Server /\ d.msg \in GoodPayload /\ d.msg.sequence_number \in Nat
      /\ ArrivingOk(L, s, d.msg)
  BY <1>1, <1>3, DatagramProperties DEF OkDatagram
<1>5. PICK ack \in GoodDatagram : /\ ack = [src |-> s, msg |-> AckMsg(0, d.msg.sequence_number)]
                                  /\ ack.src = s /\ ack.msg.type = "ack"
                                  /\ ack.msg.sequence_number = d.msg.sequence_number
  <2> DEFINE a == [src |-> s, msg |-> AckMsg(0, d.msg.sequence_number)]
  <2>1. a \in GoodDatagram  BY <1>4 DEF AckMsg, GoodDatagram, GoodPayload, AckMessage
  <2>2. a.src = s /\ a.msg.type = "ack" /\ a.msg.sequence_number = d.msg.sequence_number
    BY DEF AckMsg
  <2> QED  BY <2>1, <2>2, Zenon
<1>6. /\ mailbox' = [mailbox EXCEPT ![s] = Append(@, d.msg)]
      /\ socket' = LET rest == [socket EXCEPT ![s] = Tail(@)] IN
                   IF d.msg.type # "ack" /\ d.src \in udp_sender
                   THEN [rest EXCEPT ![d.src] = Append(@, ack)]
                   ELSE rest
  BY <1>3, <1>5 DEF ReceiveDatagram
<1>7. Settled /\ alive' = alive  BY <1>1 DEF Settled, Orphan
<1>8. PICK msg \in GoodMessage : msg = d.msg /\ msg.type \in {"election", "new_leader", "ack"}
  BY <1>4 DEF GoodMessage, GoodPayload, GoodRing, RingMessage, AckMessage
<1>9. msg \in OkMessage(L, s)'
  <2>1. ArrivingOk(L, s, msg)'  BY <1>4, <1>7, <1>8, RingKept
  <2> QED  BY <1>8, <2>1 DEF OkMessage, MessageOk
<1>10. mailbox'[s] = Append(mailbox[s], msg) /\ \A r \in Server \ {s} : mailbox'[r] = mailbox[r]
  BY <1>6, <1>8 DEF IInv, MailboxOK
<1>11. \A r \in Server : Mail(L, r)'
  <2>1. \A r \in Server : mailbox[r] \in Seq(OkMessage(L, r)')
    <3> SUFFICES ASSUME NEW r \in Server  PROVE mailbox[r] \in Seq(OkMessage(L, r)')
      OBVIOUS
    <3>1. OkMessage(L, r) \subseteq OkMessage(L, r)'  BY <1>1, <1>7, MessagesKept
    <3> QED  BY <1>2, <3>1, SeqMonotonic DEF Mail
  <2>2. mailbox'[s] \in Seq(OkMessage(L, s)')  BY <1>9, <1>10, <2>1, AppendProperties
  <2>3. \A r \in Server : socket[r] \in Seq(OkDatagram(L, r)')  BY <1>2, <1>7, SocketsKept
  <2>4. Tail(socket[s]) \in Seq(OkDatagram(L, s)')  BY <1>1, <2>3, HeadTailProperties
  <2>5. \A r \in Server : ack \in OkDatagram(L, r)'
    BY <1>5 DEF OkDatagram, ArrivingOk
  <2>6. PICK rest : rest = [socket EXCEPT ![s] = Tail(@)]  OBVIOUS
  <2>7. rest \in [Server -> Seq(GoodDatagram)] /\ \A r \in Server : rest[r] \in Seq(OkDatagram(L, r)')
    <3>1. Tail(socket[s]) \in Seq(GoodDatagram)  BY <1>1, DatagramProperties
    <3> QED  BY <2>3, <2>4, <2>6, <3>1 DEF IInv, SocketOK
  <2>8. \A r \in Server : Append(rest[r], ack) \in Seq(OkDatagram(L, r)')
    BY <2>5, <2>7, AppendProperties
  <2>9. \A r \in Server : socket'[r] \in {rest[r], Append(rest[r], ack)}
    BY <1>4, <1>6, <2>6, <2>7
  <2>10. \A r \in Server : socket'[r] \in Seq(OkDatagram(L, r)')  BY <2>7, <2>8, <2>9
  <2> QED  BY <1>10, <2>1, <2>2, <2>10 DEF Mail
<1>12. \A r \in udp_sender, n \in Server, m \in GoodRing : InTransit(r, n, m) =>
          \/ InTransit(r, n, m)'
          \/ r = s /\ msg.type = "ack" /\ msg.sequence_number = m.sequence_number
  <2> SUFFICES ASSUME NEW r \in udp_sender, NEW n \in Server, NEW m \in GoodRing, InTransit(r, n, m)
               PROVE  \/ InTransit(r, n, m)'
                      \/ r = s /\ d.msg.type = "ack" /\ d.msg.sequence_number = m.sequence_number
    BY <1>8
  <2> QED  BY <1>3, TransitMoves
<1>13. s \in udp_sender => Answered(s)'
  <2> SUFFICES ASSUME s \in udp_sender  PROVE Answered(s)'
    OBVIOUS
  <2>1. msg.type \notin {"wait", "check"}  BY <1>8
  <2>2. \A n \in Server, m \in GoodRing : InTransit(s, n, m) =>
            InTransit(s, n, m)' \/ (msg.type = "ack" /\ msg.sequence_number = m.sequence_number)
    BY <1>12
  <2> QED  BY <1>1, <1>2, <1>7, <1>10, <2>1, <2>2, AnsweredAppend
<1>14. \A r \in udp_sender \ {s} : Answered(r)'
  <2> SUFFICES ASSUME NEW r \in udp_sender, r # s  PROVE Answered(r)'
    OBVIOUS
  <2>1. \A n \in Server, m \in GoodRing : InTransit(r, n, m) => InTransit(r, n, m)'
    BY <1>12
  <2>2. r \in Server /\ Answered(r)  BY <1>2
  <2> QED  BY <1>1, <1>7, <1>10, <2>1, <2>2, AnsweredKept
<1>15. Ordered(s)' /\ \A r \in Server \ {s} : Ordered(r)'
  <2>1. Ordered(s)'  BY <1>2, <1>8, <1>10, OrderedAppend
  <2>2. \A r \in Server \ {s} : Ordered(r)'  BY <1>2, <1>10 DEF Ordered, Harmless
  <2> QED  BY <2>1, <2>2
<1>16. Local(L, s)'
  <2>1. Trusting(s)' /\ Near(s)' /\ Linked(s)' /\ Led(s)'
    BY <1>1, <1>2 DEF Local, Trusting, Near, Linked, Led, IsHighest
  <2>2. Orphaned(L, s)'  BY <1>1, <1>2 DEF Local, Orphaned, Orphan
  <2> QED  BY <1>1, <1>11, <1>13, <1>15, <2>1, <2>2 DEF Local
<1>17. \A r, l \in Server : pongs'[l][r] \in Seq(SUBSET (Server \ alive))
  BY <1>1, PongsKept
<1> QED  BY <1>1, <1>7, <1>11, <1>14, <1>15, <1>16, <1>17, OthersKept

-----------------------------------------------------------------------------
(* Crashes.                                                                *)

\* When the leader stops, whoever had a link to it becomes an orphan of it.
LEMMA LCrash ==
    ASSUME IInv, CalmReign, NEW L \in Server, LInv(L), NEW s \in Server, Crash(s), Quiet
    PROVE  \E M \in Server : LInv(M)'
<1>1. /\ s \in alive
      /\ \A r \in Server : mailbox[r] = <<>> /\ socket[r] = <<>>
      /\ Stop(s)
  BY DEF Crash, Quiet
<1>2. /\ alive' = alive \ {s}
      /\ joining' = joining \ {s}
      /\ udp_sender' = udp_sender \ {s}
      /\ \A r \in Server \ {s} : /\ id_leader'[r] = id_leader[r]
                                 /\ im_leader'[r] = im_leader[r]
                                 /\ leader_connection'[r] = leader_connection[r]
                                 /\ link'[r] = IF link[r] = s THEN None ELSE link[r]
                                 /\ disconnected_servers'[r] = disconnected_servers[r]
                                 /\ actual_neighbor_id'[r] = actual_neighbor_id[r]
      /\ disconnected_servers'[s] = {}
      /\ actual_neighbor_id'[s] = get_neighbor_id(s)
      /\ \A r \in Server : mailbox'[r] = <<>> /\ socket'[r] = <<>>
      /\ \A r, l \in Server : pongs'[l][r] \in {pongs[l][r], <<>>}
  BY <1>1 DEF Stop, IInv, LeadersOK, SuspectsOK, MailboxOK, SocketOK
<1>3. PICK M \in Server : M = IF im_leader[s] THEN s ELSE L
  OBVIOUS
<1>4. alive \subseteq Server /\ \A r \in Server : Local(L, r)
  BY DEF LInv, IInv, ProcessesOK
<1>5. ASSUME NEW r \in Server  PROVE Local(M, r)'
  <2>1. Mail(M, r)'
    <3>1. mailbox'[r] \in Seq(OkMessage(M, r)') /\ socket'[r] \in Seq(OkDatagram(M, r)')
      BY <1>2, EmptySeq
    <3> QED  BY <3>1 DEF Mail
  <2>2. Trusting(r)'
    <3>1. \A l \in Server : pongs'[l][r] \in Seq(SUBSET (Server \ alive'))
      <4>1. SUBSET (Server \ alive) \subseteq SUBSET (Server \ alive')  BY <1>2
      <4>2. \A l \in Server : pongs[l][r] \in Seq(SUBSET (Server \ alive'))
        BY <1>4, <4>1, SeqMonotonic DEF Local, Trusting
      <4>3. <<>> \in Seq(SUBSET (Server \ alive'))  BY EmptySeq
      <4> QED  BY <1>2, <4>2, <4>3
    <3>2. disconnected_servers'[r] \cap alive' = {}  BY <1>2, <1>4 DEF Local, Trusting
    <3> QED  BY <3>1, <3>2 DEF Trusting
  <2>3. Near(r)'
    <3>1. CASE r # s  BY <1>2, <1>4, <3>1 DEF Local, Near
    <3>2. CASE r = s
      <4>1. get_neighbor_id(s) \in Server /\ Distance(get_neighbor_id(s), get_neighbor_id(s)) = 0
        BY NeighborType, DistanceProperties
      <4>2. \A x \in alive' : Distance(get_neighbor_id(s), x) >= 0
        BY <1>2, <1>4, <4>1, DistanceType
      <4> QED  BY <1>2, <3>2, <4>1, <4>2 DEF Near
    <3> QED  BY <3>1, <3>2
  <2>4. Linked(r)'
    <3> SUFFICES ASSUME r \in alive', link'[r] # None
                 PROVE  /\ link'[r] \in alive' /\ im_leader'[link'[r]]
                        /\ leader_connection'[r] /\ id_leader'[r] = link'[r]
      BY DEF Linked
    <3>1. r \in alive /\ r # s /\ link[r] # s /\ link[r] # None /\ link'[r] = link[r]
      BY <1>2
    <3>2. link[r] \in alive /\ im_leader[link[r]] /\ leader_connection[r] /\ id_leader[r] = link[r]
      BY <1>4, <3>1 DEF Local, Linked
    <3> QED  BY <1>2, <1>4, <3>1, <3>2
  <2>5. Orphaned(M, r)'
    <3> SUFFICES ASSUME r \in alive', leader_connection'[r], link'[r] = None
                 PROVE  id_leader'[r] = M /\ M \notin alive' /\ \A t \in alive' : ~im_leader'[t]
      BY DEF Orphaned, Orphan
    <3>1. r \in alive /\ r # s /\ leader_connection[r]  BY <1>2
    <3>2. CASE link[r] = None
      <4>1. id_leader[r] = L /\ L \notin alive /\ \A t \in alive : ~im_leader[t]
        BY <1>4, <3>1, <3>2 DEF Local, Orphaned, Orphan
      <4> QED  BY <1>1, <1>2, <1>3, <1>4, <3>1, <4>1
    <3>3. CASE link[r] # None
      <4>1. link[r] = s  BY <1>2, <3>1, <3>3
      <4>2. im_leader[s] /\ id_leader[r] = s  BY <1>4, <3>1, <3>3, <4>1 DEF Local, Linked
      <4>3. \A t \in alive \ {s} : ~im_leader[t]  BY <1>1, <4>2, OneLeader
      <4> QED  BY <1>2, <1>3, <1>4, <3>1, <4>2, <4>3
    <3> QED  BY <3>2, <3>3
  <2>6. Led(r)'  BY <1>2, <1>4 DEF Local, Led, IsHighest
  <2>7. Ordered(r)' /\ Answered(r)'
    <3>1. DOMAIN mailbox'[r] = {}  BY <1>2
    <3> QED  BY <3>1 DEF Ordered, Answered
  <2> QED  BY <2>1, <2>2, <2>3, <2>4, <2>5, <2>6, <2>7 DEF Local
<1>6. joining' = {} /\ udp_sender' = alive' \ {FirstLeader}
  BY <1>2 DEF LInv
<1> QED  BY <1>5, <1>6 DEF LInv

-----------------------------------------------------------------------------
(* The invariant is inductive.                                             *)

\* A leader, at first the first one, is the last that stopped.
Leading == \E L \in Server : LInv(L)

LEMMA LInit == Init => Leading
<1> SUFFICES ASSUME Init  PROVE LInv(FirstLeader)
  BY ElectionAssumption DEF Leading
<1>1. /\ FirstLeader \in Server /\ Replicas \subseteq Server \ {FirstLeader} /\ None \notin Server
  BY ElectionAssumption
<1>2. joining = {} /\ udp_sender = alive \ {FirstLeader}  BY <1>1 DEF Init
<1>3. ASSUME NEW s \in Server  PROVE Local(FirstLeader, s)
  <2>1. /\ mailbox[s] = <<>> /\ socket[s] = <<>> /\ disconnected_servers[s] = {}
        /\ \A l \in Server : pongs[l][s] = <<>>
        /\ actual_neighbor_id[s] = get_neighbor_id(s)
        /\ alive = Replicas \cup {FirstLeader}
        /\ \A t \in Server : /\ im_leader[t] <=> t = FirstLeader
                             /\ leader_connection[t] <=> t \in Replicas
                             /\ link[t] = IF t \in Replicas THEN FirstLeader ELSE None
                             /\ t \in Replicas => id_leader[t] = FirstLeader
    BY <1>3 DEF Init
  <2>2. Mail(FirstLeader, s)
    <3>1. mailbox[s] \in Seq(OkMessage(FirstLeader, s)) /\ socket[s] \in Seq(OkDatagram(FirstLeader, s))
      BY <2>1, EmptySeq
    <3> QED  BY <3>1 DEF Mail
  <2>3. Trusting(s)
    <3>1. \A l \in Server : pongs[l][s] \in Seq(SUBSET (Server \ alive))  BY <2>1, EmptySeq
    <3> QED  BY <2>1, <3>1 DEF Trusting
  <2>4. Near(s)
    <3>1. get_neighbor_id(s) \in Server /\ Distance(get_neighbor_id(s), get_neighbor_id(s)) = 0
      BY NeighborType, DistanceProperties
    <3>2. \A x \in alive : Distance(get_neighbor_id(s), x) >= 0
      BY <1>1, <2>1, <3>1, DistanceType
    <3> QED  BY <2>1, <3>1, <3>2 DEF Near
  <2>5. Linked(s) /\ ~Orphan(s) /\ Led(s)
    BY <1>1, <2>1 DEF Linked, Orphan, Led
  <2>6. Ordered(s) /\ Answered(s)
    <3>1. DOMAIN mailbox[s] = {}  BY <2>1
    <3> QED  BY <3>1 DEF Ordered, Answered
  <2> QED  BY <2>2, <2>3, <2>4, <2>5, <2>6 DEF Local, Orphaned
<1> QED  BY <1>2, <1>3 DEF LInv

\* Whoever runs has joined.
LEMMA NobodyJoins ==
    ASSUME IInv, NEW L, LInv(L), NEW s \in Server
    PROVE  ~NewServerConnection(s) /\ ~SetLeader(s) /\ ~JoinLeader(s)
<1>1. \A type : Received(s, type) => type \notin {"new_server", "set_leader"}
  BY HeadOk DEF LInv, Local, MessageOk
<1>2. ~NewServerConnection(s) /\ ~SetLeader(s)
  BY <1>1 DEF NewServerConnection, SetLeader
<1>3. ~JoinLeader(s)  BY DEF LInv, JoinLeader
<1> QED  BY <1>2, <1>3

\* Whoever is undisturbed after a step was so before it, and the step is no disturbance.
LEMMA UndisturbedBefore ==
    ASSUME IInv, [Next]_vars, Undisturbed'
    PROVE  /\ Undisturbed
           /\ \A s \in Server : /\ ~PingTooLate(s) /\ ~LoseDatagram(s) /\ ~StartReplica(s)
                                /\ Crash(s) => Quiet
<1> DEFINE Kept == /\ faults'.late = faults.late /\ faults'.losses = faults.losses
                   /\ faults'.restarts = faults.restarts /\ faults'.amid = faults.amid
<1>1. faults \in FaultCounts
  BY DEF IInv, ProcessesOK
<1>2. /\ faults.late \in Nat /\ faults.losses \in Nat
      /\ faults.restarts \in Nat /\ faults.amid \in Nat
  BY <1>1 DEF FaultCounts
<1>3. ASSUME NEW s \in Server
      PROVE  /\ ~PingTooLate(s) /\ ~LoseDatagram(s) /\ ~StartReplica(s)
             /\ Crash(s) => Quiet /\ Kept
  <2>1. ~PingTooLate(s)
    BY <1>1, <1>2 DEF PingTooLate, Undisturbed, FaultCounts
  <2>2. ~LoseDatagram(s)
    BY <1>1, <1>2 DEF LoseDatagram, Undisturbed, FaultCounts
  <2>3. ~StartReplica(s)
    BY <1>1, <1>2 DEF StartReplica, Undisturbed, FaultCounts
  <2>4. ASSUME Crash(s)  PROVE Quiet /\ Kept
    <3> DEFINE n == IF Quiet THEN faults.amid ELSE faults.amid + 1
    <3>1. faults' = [faults EXCEPT !.crashes = @ + 1, !.elections = 0, !.amid = n]
      BY <2>4 DEF Crash
    <3>2. n = 0
      <4>1. faults'.amid = n
        <5> HIDE DEF n
        <5> QED  BY <1>1, <3>1 DEF FaultCounts
      <4> QED  BY <4>1 DEF Undisturbed
    <3>3. Quiet /\ n = faults.amid
      BY <1>2, <3>2
    <3> HIDE DEF n
    <3> QED  BY <1>1, <3>1, <3>3 DEF FaultCounts
  <2> QED  BY <2>1, <2>2, <2>3, <2>4
<1>4. Kept
  <2>1. ASSUME NEW s \in Server, ServerActor(s)  PROVE Kept
    BY <2>1 DEF ServerActor, StartElection, WaitForNeighborAck, CheckIfNeighborAcked,
                ElectionHandler, NewLeaderHandler, NeighborAck, ConnectToServer,
                NewServerConnection, Pong, UpdateNetworkState, SetLeader, processVars
  <2>2. ASSUME NEW s \in Server,
               \/ PingLiveLeader(s) \/ PingDeadLeader(s) \/ ReceiveDatagram(s)
               \/ \E l \in Server : ReceivePong(s, l)
        PROVE  Kept
    BY <1>1, <2>2 DEF PingLiveLeader, PingDeadLeader, ReceiveDatagram, ReceivePong,
                      processVars, FaultCounts
  <2>3. ASSUME NEW s \in Server, JoinLeader(s)  PROVE Kept
    BY <2>3 DEF JoinLeader, Join
  <2>4. CASE UNCHANGED vars
    BY <2>4 DEF vars, processVars
  <2> QED  BY <1>3, <2>1, <2>2, <2>3, <2>4 DEF Next
<1> QED  BY <1>3, <1>4 DEF Undisturbed

LEMMA LStep ==
    ASSUME Timely, IInv, CalmReign, Leading, [Next]_vars, Undisturbed'
    PROVE  Leading'
<1>1. PICK L \in Server : LInv(L)  BY DEF Leading
<1>2. ASSUME LInv(L)'  PROVE Leading'
  BY <1>2 DEF Leading
<1>3. ASSUME NEW s \in Server, ServerActor(s)  PROVE LInv(L)'
  BY <1>1, <1>3, NobodyJoins, LStartElection, LWaitForNeighborAck, LCheckIfNeighborAcked,
     LElectionHandler, LNewLeaderHandler, LNeighborAck, LConnectToServer, LPong,
     LUpdateNetworkState DEF ServerActor
<1>4. ASSUME NEW s \in Server,
             \/ PingLiveLeader(s) \/ PingDeadLeader(s) \/ ReceiveDatagram(s)
             \/ \E l \in Server : ReceivePong(s, l)
      PROVE  LInv(L)'
  BY <1>1, <1>4, LPingLiveLeader, LPingDeadLeader, LReceiveDatagram, LReceivePong
<1>5. ASSUME NEW s \in Server, Crash(s)  PROVE Leading'
  <2>1. PICK M \in Server : LInv(M)'  BY <1>1, <1>5, UndisturbedBefore, LCrash
  <2> QED  BY <2>1 DEF Leading
<1>6. CASE UNCHANGED vars
  <2>1. UNCHANGED <<alive, joining, udp_sender, id_leader, im_leader, leader_connection, link,
                    disconnected_servers, actual_neighbor_id, message_received_ack, mailbox,
                    socket, pongs>>
    BY <1>6 DEF vars, processVars, leaderVars, ringVars, ackVars
  <2>2. Settled  BY <2>1 DEF Settled, Orphan
  <2>3. ASSUME NEW r \in Server  PROVE Local(L, r)'
    <3>1. Local(L, r)  BY <1>1 DEF LInv
    <3>2. OkMessage(L, r) \subseteq OkMessage(L, r)' /\ OkDatagram(L, r) \subseteq OkDatagram(L, r)'
      BY <2>1, <2>2, MessagesKept
    <3>3. Mail(L, r)'  BY <2>1, <3>1, <3>2, SeqMonotonic DEF Local, Mail
    <3>4. Trusting(r)' /\ Near(r)' /\ Linked(r)' /\ Led(r)'
      BY <2>1, <3>1 DEF Local, Trusting, Near, Linked, Led, IsHighest
    <3>5. Orphaned(L, r)'  BY <2>1, <3>1 DEF Local, Orphaned, Orphan
    <3>6. Ordered(r)'  BY <2>1, <3>1 DEF Local, Ordered, Harmless
    <3>7. r \in udp_sender' => Answered(r)'
      BY <2>1, <3>1 DEF Local, Answered, AckBefore, InTransit
    <3> QED  BY <3>3, <3>4, <3>5, <3>6, <3>7 DEF Local
  <2>4. LInv(L)'  BY <1>1, <2>1, <2>3 DEF LInv
  <2> QED  BY <1>2, <2>4
<1> QED  BY <1>1, <1>2, <1>3, <1>4, <1>5, <1>6, NobodyJoins, UndisturbedBefore DEF Next

\* All of it holds as long as the servers are undisturbed.
Orderly == Undisturbed => CalmReign /\ Leading

LEMMA OrderlyInvariance ==
    ASSUME Timely
    PROVE  Spec => [](IInv /\ ReignInv /\ Orderly)
<1>1. IInv /\ ReignInv /\ Undisturbed => CalmReign
  BY DEF ReignInv, CalmReign, FirstReigns, Undisturbed
<1>2. Init => IInv /\ ReignInv /\ Orderly
  BY <1>1, IInvInit, ReignInit, LInit DEF Orderly
<1>3. ASSUME IInv, ReignInv, Orderly, [Next]_vars  PROVE (IInv /\ ReignInv /\ Orderly)'
  <2>1. IInv' /\ ReignInv'  BY <1>3, IInvStep, ReignStep
  <2>2. ASSUME Undisturbed'  PROVE CalmReign' /\ Leading'
    <3>1. Undisturbed  BY <1>3, <2>2, UndisturbedBefore
    <3>2. Leading'  BY <1>1, <1>3, <2>2, <3>1, LStep DEF Orderly
    <3>3. CalmReign'  BY <2>1, <2>2 DEF ReignInv, CalmReign, FirstReigns, Undisturbed
    <3> QED  BY <3>2, <3>3
  <2> QED  BY <2>1, <2>2 DEF Orderly
<1> QED  BY <1>2, <1>3, PTL DEF Spec

-----------------------------------------------------------------------------
(* What the servers promise when they are undisturbed.                     *)

\* Left undisturbed, a check that runs out of time suspects only a neighbour that
\* stopped: no server that runs is ever suspected by one that does, whatever
\* elections run at once (server.rs, CheckIfNeighborAcked).
THEOREM NobodyLiveSuspected ==
    ASSUME Timely
    PROVE  Spec => []NoLiveServerSuspected
<1>1. IInv /\ Orderly => NoLiveServerSuspected
  BY DEF Orderly, Leading, LInv, Local, Trusting, NoLiveServerSuspected, IInv, ProcessesOK
<1> QED  BY <1>1, OrderlyInvariance, PTL

\* What a step does to the leaders.
LEMMA LeaderSteps ==
    ASSUME IInv, Leading, [Next]_vars
    PROVE  \/ UNCHANGED <<alive, id_leader, im_leader>>
           \/ \E s \in Server : \/ ElectionHandler(s) \/ NewLeaderHandler(s)
                               \/ Crash(s) \/ StartReplica(s)
<1>1. PICK L \in Server : LInv(L)  BY DEF Leading
<1>2. ASSUME NEW s \in Server, ServerActor(s), ~ElectionHandler(s), ~NewLeaderHandler(s)
      PROVE  UNCHANGED <<alive, id_leader, im_leader>>
  BY <1>1, <1>2, NobodyJoins DEF ServerActor, StartElection, WaitForNeighborAck,
     CheckIfNeighborAcked, NeighborAck, ConnectToServer, Pong, UpdateNetworkState,
     processVars, leaderVars
<1>3. ASSUME NEW s \in Server,
             \/ PingLiveLeader(s) \/ PingTooLate(s) \/ PingDeadLeader(s)
             \/ ReceiveDatagram(s) \/ LoseDatagram(s)
             \/ \E l \in Server : ReceivePong(s, l)
      PROVE  UNCHANGED <<alive, id_leader, im_leader>>
  BY <1>3 DEF PingLiveLeader, PingTooLate, PingDeadLeader, ReceiveDatagram, LoseDatagram,
              ReceivePong, processVars, leaderVars
<1>4. CASE UNCHANGED vars
  BY <1>4 DEF vars, processVars, leaderVars
<1> QED  BY <1>1, <1>2, <1>3, <1>4, NobodyJoins DEF Next

\* What an announcement or a closed round of the election proposes.
LEMMA ProposedLeader ==
    ASSUME IInv, Leading, NEW s \in Server
    PROVE  /\ NewLeaderHandler(s) => IsHighest(Head(mailbox[s]).leader_id, alive)
           /\ ElectionHandler(s) /\ s \in Head(mailbox[s]).server_ids =>
                  IsHighest(Highest(Head(mailbox[s]).server_ids), alive)
<1>1. PICK L \in Server : LInv(L)  BY DEF Leading
<1>2. Local(L, s)  BY <1>1 DEF LInv
<1>3. ASSUME NewLeaderHandler(s)  PROVE IsHighest(Head(mailbox[s]).leader_id, alive)
  BY <1>2, <1>3, HeadOk DEF NewLeaderHandler, Local, MessageOk, ArrivingOk, AnnouncementOk
<1>4. ASSUME ElectionHandler(s), s \in Head(mailbox[s]).server_ids
      PROVE  IsHighest(Highest(Head(mailbox[s]).server_ids), alive)
  <2>1. Received(s, "election")  BY <1>4 DEF ElectionHandler
  <2>2. /\ Head(mailbox[s]).server_ids \in SUBSET Server
        /\ Head(mailbox[s]).server_ids \subseteq alive
        /\ Arc(Head(mailbox[s]).server_ids, s)
    BY <1>2, <2>1, HeadOk, MessageFields DEF Local, MessageOk, ArrivingOk, ElectionOk
  <2>3. Head(mailbox[s]).server_ids = alive  BY <1>4, <2>2, ArcClosed
  <2>4. s \in alive /\ alive \subseteq Server  BY <2>1 DEF Received, IInv, ProcessesOK
  <2>5. Highest(alive) \in alive /\ \A i \in alive : Highest(alive) >= i
    BY <2>4, HighestProperties
  <2> QED  BY <2>3, <2>5 DEF IsHighest
<1> QED  BY <1>3, <1>4

\* Left undisturbed, a server only ever changes its leader to the highest server
\* that runs, whatever elections run at once (server.rs, Election and NewLeader).
THEOREM OnlyTheHighest ==
    ASSUME Timely
    PROVE  Spec => OnlyHighestAdopted
<1> DEFINE Adopts == \A s \in Server :
                        Undisturbed /\ s \in alive' /\ id_leader'[s] # id_leader[s]
                           => IsHighest(id_leader'[s], alive)
<1>1. ASSUME IInv, Orderly, [Next]_vars  PROVE [Adopts]_vars
  <2> SUFFICES ASSUME NEW r \in Server, Undisturbed, r \in alive', id_leader'[r] # id_leader[r]
               PROVE  IsHighest(id_leader'[r], alive)
    OBVIOUS
  <2>0. Leading  BY <1>1 DEF Orderly
  <2>1. id_leader \in [Server -> Server]  BY <1>1 DEF IInv, LeadersOK
  <2>2. ASSUME NEW s \in Server, ElectionHandler(s)  PROVE IsHighest(id_leader'[r], alive)
    <3>1. /\ s \in Head(mailbox[s]).server_ids
          /\ id_leader' = [id_leader EXCEPT ![s] = Highest(Head(mailbox[s]).server_ids)]
      BY <2>2 DEF ElectionHandler
    <3> QED  BY <1>1, <2>0, <2>1, <2>2, <3>1, ProposedLeader
  <2>3. ASSUME NEW s \in Server, NewLeaderHandler(s)  PROVE IsHighest(id_leader'[r], alive)
    <3>1. id_leader' = [id_leader EXCEPT ![s] = Head(mailbox[s]).leader_id]
      BY <2>3 DEF NewLeaderHandler
    <3> QED  BY <1>1, <2>0, <2>1, <2>3, <3>1, ProposedLeader
  <2>4. ASSUME NEW s \in Server, Crash(s)  PROVE FALSE
    BY <2>1, <2>4 DEF Crash, Stop
  <2>5. ASSUME NEW s \in Server, StartReplica(s)  PROVE FALSE
    BY <2>5 DEF StartReplica, leaderVars
  <2> QED  BY <1>1, <2>0, <2>1, <2>2, <2>3, <2>4, <2>5, LeaderSteps
<1> QED  BY <1>1, OrderlyInvariance, PTL DEF Spec, OnlyHighestAdopted

\* Within these bounds nobody is disturbed.
LEMMA SpacedUndisturbed ==
    ASSUME Spaced
    PROVE  Spec => []Undisturbed
<1>1. Init => Undisturbed
  BY DEF Init, Undisturbed
<1>2. ASSUME IInv, Undisturbed, [Next]_vars  PROVE Undisturbed'
  <2>1. faults \in FaultCounts
    BY <1>2 DEF IInv, ProcessesOK
  <2>2. ASSUME NEW s \in Server, ServerActor(s)  PROVE UNCHANGED faults
    BY <2>2 DEF ServerActor, StartElection, WaitForNeighborAck, CheckIfNeighborAcked,
                ElectionHandler, NewLeaderHandler, NeighborAck, ConnectToServer,
                NewServerConnection, Pong, UpdateNetworkState, SetLeader, processVars
  <2>3. ASSUME NEW s \in Server
        PROVE  ~PingTooLate(s) /\ ~LoseDatagram(s) /\ ~StartReplica(s)
    BY <1>2, <2>1 DEF PingTooLate, LoseDatagram, StartReplica, Undisturbed, Spaced
  <2>4. ASSUME NEW s \in Server, PingLiveLeader(s) \/ PingDeadLeader(s)  PROVE Undisturbed'
    BY <1>2, <2>1, <2>4 DEF PingLiveLeader, PingDeadLeader, Undisturbed, FaultCounts
  <2>5. ASSUME NEW s \in Server,
               \/ ReceiveDatagram(s) \/ JoinLeader(s)
               \/ \E l \in Server : ReceivePong(s, l)
        PROVE  UNCHANGED faults
    BY <2>5 DEF ReceiveDatagram, JoinLeader, Join, ReceivePong, processVars
  <2>6. ASSUME NEW s \in Server, Crash(s)  PROVE Undisturbed'
    <3>1. faults' = [faults EXCEPT !.crashes = @ + 1, !.elections = 0, !.amid = faults.amid]
      BY <2>6 DEF Crash, Spaced
    <3> QED  BY <1>2, <2>1, <3>1 DEF Undisturbed, FaultCounts
  <2>7. CASE UNCHANGED vars
    BY <1>2, <2>7 DEF vars, processVars, Undisturbed
  <2>8. UNCHANGED faults => Undisturbed'
    BY <1>2 DEF Undisturbed
  <2> QED  BY <1>2, <2>2, <2>3, <2>4, <2>5, <2>6, <2>7, <2>8 DEF Next
<1> QED  BY <1>1, <1>2, Invariance, PTL DEF Spec

\* When crashes are spaced, nothing is lost or late and nobody starts again, the
\* servers keep the contract of module LeaderContract: one leader until it stops,
\* and then the highest that runs (server.rs, NewLeader; README, failover).
THEOREM ContractKept ==
    ASSUME Spaced
    PROVE  Spec => KeepsLeadership
<1> DEFINE leaders == {s \in alive : im_leader[s]}
<1>1. Init => Leadership!Init
  <2> SUFFICES ASSUME Init  PROVE Leadership!Init
    OBVIOUS
  <2>1. FirstLeader \in alive /\ alive \subseteq Server
        /\ \A s \in alive : im_leader[s] <=> s = FirstLeader
    BY ElectionAssumption DEF Init
  <2>2. leaders = {FirstLeader}  BY <2>1
  <2> QED  BY <2>1, <2>2 DEF Leadership!Init
<1>2. ASSUME IInv, CalmReign, Leading, [Next]_vars
      PROVE  [Leadership!Next]_(Leadership!vars)
  <2>1. CASE UNCHANGED <<alive, id_leader, im_leader>>
    BY <2>1 DEF Leadership!vars
  <2>2. ASSUME NEW s \in Server, ElectionHandler(s)  PROVE UNCHANGED <<alive, im_leader>>
    BY <2>2 DEF ElectionHandler, processVars
  <2>3. ASSUME NEW s \in Server, Crash(s)  PROVE Leadership!Stop(s)
    <3>1. alive' = alive \ {s} /\ im_leader' = [im_leader EXCEPT ![s] = FALSE]
      BY <2>3 DEF Crash, Stop
    <3>2. im_leader \in [Server -> BOOLEAN] /\ alive \subseteq Server
      BY <1>2 DEF IInv, LeadersOK, ProcessesOK
    <3>3. leaders' = leaders \ {s}  BY <3>1, <3>2
    <3> QED  BY <3>1, <3>3 DEF Leadership!Stop
  <2>4. ASSUME NEW s \in Server, NewLeaderHandler(s)
        PROVE  Leadership!Elect \/ UNCHANGED <<alive, leaders>>
    <3>1. /\ alive' = alive /\ Received(s, "new_leader")
          /\ im_leader' = [im_leader EXCEPT ![s] = @ \/ Head(mailbox[s]).leader_id = s]
      BY <2>4 DEF NewLeaderHandler, processVars
    <3>2. im_leader \in [Server -> BOOLEAN] /\ alive \in SUBSET Server
      BY <1>2 DEF IInv, LeadersOK, ProcessesOK
    <3>3. s \in alive /\ \A t \in alive : im_leader[t] => IsHighest(t, alive)
      BY <1>2, <3>1, Electing DEF Leading
    <3>4. CASE im_leader[s] \/ Head(mailbox[s]).leader_id # s
      <4>1. im_leader' = im_leader  BY <3>1, <3>2, <3>4
      <4> QED  BY <3>1, <4>1
    <3>5. CASE ~im_leader[s] /\ Head(mailbox[s]).leader_id = s
      <4>1. IsHighest(s, alive)  BY <1>2, <2>4, <3>5, ProposedLeader
      <4>2. leaders = {}  BY <3>2, <3>3, <3>5, <4>1, HighestUnique
      <4>3. leaders' = {s}
        <5>1. im_leader'[s] /\ \A t \in alive \ {s} : ~im_leader'[t]
          BY <3>1, <3>2, <3>5, <4>2
        <5> QED  BY <3>1, <3>3, <5>1
      <4>4. Leadership!Highest(alive) = s
        <5>1. \A h \in alive : (\A t \in alive : h >= t) => h = s
          BY <3>2, <4>1, HighestUnique DEF IsHighest
        <5> QED  BY <4>1, <5>1 DEF IsHighest, Leadership!Highest
      <4> QED  BY <3>1, <3>3, <4>2, <4>3, <4>4 DEF Leadership!Elect
    <3> QED  BY <3>4, <3>5
  <2>5. ASSUME NEW s \in Server  PROVE ~StartReplica(s)
    <3>1. faults.restarts \in Nat  BY <1>2 DEF IInv, ProcessesOK, FaultCounts
    <3> QED  BY <3>1 DEF StartReplica, Spaced
  <2> QED  BY <1>2, <2>1, <2>2, <2>3, <2>4, <2>5, LeaderSteps
           DEF Leadership!Next, Leadership!vars
<1>3. IInv /\ Orderly /\ Undisturbed => CalmReign /\ Leading
  BY DEF Orderly
<1>4. Spec => [](IInv /\ ReignInv /\ Orderly)
  BY OrderlyInvariance DEF Spaced
<1> QED  BY <1>1, <1>2, <1>3, <1>4, SpacedUndisturbed, PTL
         DEF Spec, KeepsLeadership, Leadership!Spec
=============================================================================
