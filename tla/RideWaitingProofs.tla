------------------------- MODULE RideWaitingProofs -------------------------
(***************************************************************************)
(* Ride: while no driver crashes, no passenger is forgotten, however often *)
(* passengers crash and are started again.                                 *)
(*                                                                         *)
(* A passenger that runs always has a message that makes it go on, or its  *)
(* process has asked a driver, or a driver is on its way to that process   *)
(* (GoesOn).  That a driver answers the process that asked last needs the  *)
(* order of the mailbox: what one passenger sent is there by the starts of *)
(* its sender, and the connection of the driver is no later than any of it *)
(* (Newest).  That it answers at all needs the driver that a passenger     *)
(* knows: it runs, and serves the passenger or has picked it up            *)
(* (DriverStays); and a driver that is free is at the destination of its   *)
(* last ride (FirstWay), so that it tells whoever returns that the ride is *)
(* over.                                                                   *)
(***************************************************************************)
EXTENDS RideProofs

-----------------------------------------------------------------------------
(* The invariant.                                                          *)

AcceptMsg      == OfType({"RideAccepted"})
AcceptedBy(d)  == {m \in AcceptMsg : m.socket = d}
RecoverFrom(p) == {m \in OfType({"PassengerRecover"}) : m.from.actor = p}
AskedBy(c)     == {m \in OfType({"RequestRide", "PassengerRecover"}) : m.from = c}
EndMsg         == OfType({"EndRide"})

\* What is under way only after a driver was started again.
ReturnMsg == OfType({"Recovery", "ReconnectPassenger", "ReconnectDriver"})

\* Messages that make a passenger go on.
LiveMsg == SearchMsg \cup RecoverMsg \cup TravelMsg
           \cup {m \in OfType({"RecoverResponse"}) : m.end_ride}

\* Who runs, or has written a file, was started.
Counted ==
    /\ \A a \in Actors : a \in up => starts[a] >= 1
    /\ \A p \in Passengers : passenger_file[p] # None => starts[p] >= 1

\* A driver that has reached the destination stays there until its next ride.
FirstWay(d) ==
    /\ d \notin up => driver_file[d] = None
    /\ \/ ~NoneOf(mailbox[d], EndMsg)
       \/ driver[d].is_available /\ driver[d].id_current_passenger # None
       => driver[d].position = "destination"

\* The messages of a passenger in mailbox q, by the starts of their senders; and
\* that process c is none of a later start.
InOrder(q) ==
    \A i, j \in 1..Len(q) :
        i < j /\ q[i] \in DriverInbox /\ q[j] \in DriverInbox /\ q[i].from.actor = q[j].from.actor
            => q[i].from.start <= q[j].from.start
Started(q) == \A i \in 1..Len(q) :
                  q[i] \in DriverInbox => q[i].from.start <= starts[q[i].from.actor]
Precedes(c, q) ==
    \A i \in 1..Len(q) :
        q[i] \in DriverInbox /\ q[i].from.actor = c.actor => c.start <= q[i].from.start

Newest(d) ==
    LET c == current_passenger_connection[d] IN
    /\ InOrder(mailbox[d]) /\ Started(mailbox[d])
    /\ c # None => c.start <= starts[c.actor] /\ Precedes(c, mailbox[d])

\* A driver that p knows to be its own has it, or had it.
HasDriver(p, d) ==
    \/ passenger[p].driver_socket = d
    \/ passenger_file[p] # None /\ passenger_file[p].driver_socket = d
    \/ ~NoneOf(mailbox[p], AcceptedBy(d))
    \/ ~NoneOf(mailbox[d], RecoverFrom(p))
DriverStays(p) ==
    \A d \in Drivers : HasDriver(p, d) => d \in up /\ (p \in carried \/ PassengerOf(driver[d]) = p)

\* A passenger that is about to ask has somebody to ask.
Connected(p) == p \in authorizing \/ ~NoneOf(mailbox[p], RequestMsg)
                    => Running(passenger[p].connection)

\* A process that has still to recover has not asked anybody.
Fresh(p) ==
    ~NoneOf(mailbox[p], RecoverMsg) =>
        /\ starts[p] > 1
        /\ NoneOf(mailbox[p], RequestMsg) /\ NoneOf(mailbox[p], AcceptMsg)
        /\ \A d \in Drivers : NoneOf(mailbox[d], AskedBy(Self(p)))

\* d is on its way to the process of p that runs.
Fetches(d, p) ==
    /\ PassengerOf(driver[d]) = p /\ ~driver[d].passenger_picked_up
    /\ current_passenger_connection[d] = Self(p)
Awaits(p, d) == ~NoneOf(mailbox[d], AskedBy(Self(p))) \/ Fetches(d, p)

Settled(p) ==
    /\ passenger[p].driver_socket = None
    /\ NoneOf(mailbox[p], AcceptMsg)
    /\ passenger[p].drivers_info = {} \/ starts[p] > 1

GoesOn(p) ==
    p \in up => \/ p \in authorizing
                \/ ~NoneOf(mailbox[p], LiveMsg)
                \/ \E d \in Drivers : Awaits(p, d)
                \/ Settled(p)

Uninterrupted ==
    /\ reconnecting = {}
    /\ \A a \in Actors : NoneOf(mailbox[a], ReturnMsg)
    /\ \A d \in Drivers : FirstWay(d) /\ Newest(d)
    /\ \A p \in Passengers : DriverStays(p) /\ Connected(p) /\ Fresh(p) /\ GoesOn(p)

NobodyLostInv == Counted /\ (NoDriverCrashed => Uninterrupted)

-----------------------------------------------------------------------------
(* What mailboxes hold after a step.                                       *)

\* Messages at the end of a mailbox are there, and what was there stays.
LEMMA AppendNone ==
    ASSUME NEW q \in Seq(Msg), NEW out \in Seq(Msg), NEW M
    PROVE  NoneOf(q \o out, M) <=> NoneOf(q, M) /\ NoneOf(out, M)
<1> DEFINE r == q \o out
<1>1. /\ Len(r) = Len(q) + Len(out) /\ Len(q) \in Nat /\ Len(out) \in Nat
      /\ \A i \in 1..Len(r) : r[i] = IF i <= Len(q) THEN q[i] ELSE out[i - Len(q)]
  BY ConcatProperties, LenProperties
<1> HIDE DEF r
<1>2. NoneOf(q, M) /\ NoneOf(out, M) => NoneOf(r, M)  BY AppendFacts DEF r
<1>3. \A i \in 1..Len(q) : i \in 1..Len(r) /\ r[i] = q[i]  BY <1>1
<1>4. \A i \in 1..Len(out) : i + Len(q) \in 1..Len(r) /\ r[i + Len(q)] = out[i]
  <2> SUFFICES ASSUME NEW i \in 1..Len(out)
               PROVE  i + Len(q) \in 1..Len(r) /\ r[i + Len(q)] = out[i]
    OBVIOUS
  <2>1. i + Len(q) \in 1..Len(r) /\ ~(i + Len(q) <= Len(q)) /\ (i + Len(q)) - Len(q) = i
    BY <1>1
  <2> QED  BY <1>1, <2>1
<1>5. NoneOf(r, M) => NoneOf(q, M) /\ NoneOf(out, M)  BY <1>3, <1>4 DEF NoneOf
<1> QED  BY <1>2, <1>5 DEF r

LEMMA TailNone ==
    ASSUME NEW q \in Seq(Msg), q # <<>>, NEW M
    PROVE  NoneOf(q, M) <=> Head(q) \notin M /\ NoneOf(Tail(q), M)
<1>1. /\ Len(q) \in Nat /\ Len(q) >= 1 /\ Len(Tail(q)) = Len(q) - 1
      /\ \A i \in 1..Len(Tail(q)) : Tail(q)[i] = q[i + 1]
  BY HeadTailProperties, LenProperties, EmptySeq
<1>2. NoneOf(q, M) => Head(q) \notin M  BY HeadFacts
<1>3. \A i \in 1..Len(Tail(q)) : i + 1 \in 1..Len(q)  BY <1>1
<1>4. NoneOf(q, M) => NoneOf(Tail(q), M)  BY <1>1, <1>3 DEF NoneOf
<1>5. ~NoneOf(q, M) => Head(q) \in M \/ ~NoneOf(Tail(q), M)  BY HeadFacts
<1> QED  BY <1>2, <1>4, <1>5

\* The head is handled and out is sent.
LEMMA HandledNone ==
    ASSUME NEW q \in Seq(Msg), q # <<>>, NEW out \in Seq(Msg)
    PROVE  /\ Tail(q) \o out \in Seq(Msg)
           /\ \A M : NoneOf(Tail(q) \o out, M) <=> NoneOf(Tail(q), M) /\ NoneOf(out, M)
           /\ \A M : NoneOf(q, M) <=> Head(q) \notin M /\ NoneOf(Tail(q), M)
<1>1. Tail(q) \in Seq(Msg)  BY TailExtends
<1>2. ASSUME NEW M PROVE NoneOf(Tail(q) \o out, M) <=> NoneOf(Tail(q), M) /\ NoneOf(out, M)
  BY <1>1, AppendNone
<1>3. ASSUME NEW M PROVE NoneOf(q, M) <=> Head(q) \notin M /\ NoneOf(Tail(q), M)
  BY TailNone
<1> QED  BY <1>1, <1>2, <1>3, ConcatProperties

LEMMA OneNone ==
    ASSUME NEW m \in Msg
    PROVE  /\ <<m>> \in Seq(Msg) /\ \A M : NoneOf(<<m>>, M) <=> m \notin M
           /\ <<>> \in Seq(Msg) /\ \A M : NoneOf(<<>>, M)
<1>1. Len(<<m>>) = 1 /\ <<m>>[1] = m /\ Len(<<>>) = 0  OBVIOUS
<1> QED  BY <1>1 DEF NoneOf

LEMMA PairNone ==
    ASSUME NEW m \in Msg, NEW n \in Msg
    PROVE  /\ <<m, n>> \in Seq(Msg)
           /\ \A M : NoneOf(<<m, n>>, M) <=> m \notin M /\ n \notin M
<1>1. /\ Len(<<m, n>>) = 2 /\ <<m, n>>[1] = m /\ <<m, n>>[2] = n
      /\ \A i \in 1..2 : i = 1 \/ i = 2
  OBVIOUS
<1> QED  BY <1>1 DEF NoneOf

\* The order of a mailbox: without its head, and with more at its end.
LEMMA OrderTail ==
    ASSUME NEW q \in Seq(Msg), q # <<>>, InOrder(q), Started(q)
    PROVE  /\ InOrder(Tail(q)) /\ Started(Tail(q))
           /\ \A c : Precedes(c, q) => Precedes(c, Tail(q))
           /\ Head(q) \in DriverInbox => Precedes(Head(q).from, Tail(q))
<1>1. /\ Len(q) \in Nat /\ Len(q) >= 1 /\ Len(Tail(q)) = Len(q) - 1 /\ Head(q) = q[1]
      /\ \A i \in 1..Len(Tail(q)) : Tail(q)[i] = q[i + 1]
  BY HeadTailProperties, LenProperties, EmptySeq
<1>2. \A i \in 1..Len(Tail(q)) :
         i + 1 \in 1..Len(q) /\ 1 < i + 1 /\ Tail(q)[i] = q[i + 1]
  BY <1>1
<1>3. InOrder(Tail(q))
  <2> SUFFICES ASSUME NEW i \in 1..Len(Tail(q)), NEW j \in 1..Len(Tail(q)), i < j,
                      Tail(q)[i] \in DriverInbox, Tail(q)[j] \in DriverInbox,
                      Tail(q)[i].from.actor = Tail(q)[j].from.actor
               PROVE  Tail(q)[i].from.start <= Tail(q)[j].from.start
    BY DEF InOrder
  <2>1. i + 1 < j + 1  BY <1>1
  <2> QED  BY <1>2, <2>1 DEF InOrder
<1>4. Started(Tail(q))  BY <1>2 DEF Started
<1>5. \A c : Precedes(c, q) => Precedes(c, Tail(q))  BY <1>2 DEF Precedes
<1>6. ASSUME Head(q) \in DriverInbox PROVE Precedes(Head(q).from, Tail(q))
  <2> SUFFICES ASSUME NEW i \in 1..Len(Tail(q)), Tail(q)[i] \in DriverInbox,
                      Tail(q)[i].from.actor = Head(q).from.actor
               PROVE  Head(q).from.start <= Tail(q)[i].from.start
    BY DEF Precedes
  <2>1. 1 \in 1..Len(q) /\ i + 1 \in 1..Len(q) /\ 1 < i + 1
        /\ q[1] = Head(q) /\ q[i + 1] = Tail(q)[i]
    BY <1>1, <1>2
  <2> QED  BY <1>6, <2>1 DEF InOrder
<1> QED  BY <1>3, <1>4, <1>5, <1>6

\* Messages that no passenger sent.
LEMMA OrderOwn ==
    ASSUME NEW q \in Seq(Msg), NEW out \in Seq(Msg), NoneOf(out, DriverInbox)
    PROVE  /\ InOrder(q) => InOrder(q \o out)
           /\ Started(q) => Started(q \o out)
           /\ \A c : Precedes(c, q) => Precedes(c, q \o out)
<1> DEFINE r == q \o out
<1>1. /\ Len(r) = Len(q) + Len(out) /\ Len(q) \in Nat /\ Len(out) \in Nat
      /\ \A i \in 1..Len(r) : r[i] = IF i <= Len(q) THEN q[i] ELSE out[i - Len(q)]
  BY ConcatProperties, LenProperties
<1> HIDE DEF r
<1>2. ASSUME NEW i \in 1..Len(r), r[i] \in DriverInbox PROVE i \in 1..Len(q) /\ r[i] = q[i]
  <2>1. CASE i <= Len(q)  BY <1>1, <2>1
  <2>2. CASE ~(i <= Len(q))
    <3>1. i - Len(q) \in 1..Len(out) /\ r[i] = out[i - Len(q)]  BY <1>1, <2>2
    <3> QED  BY <1>2, <3>1 DEF NoneOf
  <2> QED  BY <2>1, <2>2
<1>3. InOrder(q) => InOrder(r)  BY <1>2 DEF InOrder
<1>4. Started(q) => Started(r)  BY <1>2 DEF Started
<1>5. \A c : Precedes(c, q) => Precedes(c, r)  BY <1>2 DEF Precedes
<1> QED  BY <1>3, <1>4, <1>5 DEF r

\* A message of the process of p that runs.
LEMMA OrderSent ==
    ASSUME TypeOK, NEW q \in Seq(Msg), InOrder(q), Started(q), NEW p \in Passengers,
           NEW m \in From(p), m.from = Self(p)
    PROVE  /\ InOrder(q \o <<m>>) /\ Started(q \o <<m>>)
           /\ \A c \in Process(Passengers) :
                 Precedes(c, q) /\ c.start <= starts[c.actor] => Precedes(c, q \o <<m>>)
<1> DEFINE r == q \o <<m>>
<1>1. m \in DriverInbox /\ m \in Msg /\ m.from.actor = p /\ m.from.start = starts[p]
  BY DEF From, DriverInbox, OfType, Self
<1>2. /\ Len(r) = Len(q) + 1 /\ Len(q) \in Nat
      /\ \A i \in 1..Len(q) : r[i] = q[i]
      /\ r[Len(q) + 1] = m
  BY <1>1, ConcatProperties, LenProperties
<1> HIDE DEF r
<1>3. \A i \in 1..Len(r) : i \in 1..Len(q) \/ i = Len(q) + 1  BY <1>2
<1>4. Started(r)
  <2>1. starts[p] \in Nat  BY ActorsApart DEF TypeOK
  <2> QED  BY <1>1, <1>2, <1>3, <2>1 DEF Started
<1>5. InOrder(r)
  <2> SUFFICES ASSUME NEW i \in 1..Len(r), NEW j \in 1..Len(r), i < j,
                      r[i] \in DriverInbox, r[j] \in DriverInbox,
                      r[i].from.actor = r[j].from.actor
               PROVE  r[i].from.start <= r[j].from.start
    BY DEF InOrder
  <2>1. i \in 1..Len(q)  BY <1>2
  <2>2. CASE j \in 1..Len(q)  BY <1>2, <2>1, <2>2 DEF InOrder
  <2>3. CASE j = Len(q) + 1
    BY <1>1, <1>2, <2>1, <2>3 DEF Started
  <2> QED  BY <1>3, <2>2, <2>3
<1>6. ASSUME NEW c \in Process(Passengers), Precedes(c, q), c.start <= starts[c.actor]
      PROVE  Precedes(c, r)
  BY <1>1, <1>2, <1>3, <1>6 DEF Precedes
<1> QED  BY <1>4, <1>5, <1>6 DEF r

\* What a passenger knows and what is sent to it do not mix.
LEMMA KindsApart ==
    /\ \A p \in Passengers : From(p) \cap (ReturnMsg \cup EndMsg \cup PassengerInbox)
                                \subseteq Reconnect(p)
    /\ \A p \in Passengers : \A m \in AskedBy(Self(p)) :
          m \in From(p) /\ m \notin ReturnMsg /\ m \notin EndMsg
          /\ \A q \in Passengers : q # p => m \notin RecoverFrom(q) /\ m \notin AskedBy(Self(q))
BY DEF From, ReturnMsg, EndMsg, PassengerInbox, Reconnect, AskedBy, RecoverFrom, DriverInbox,
       OfType, Self

\* A mailbox that has got at most one message of S.
LEMMA DeliveredNone ==
    ASSUME TypeOK, NEW a \in Actors, NEW S, S \subseteq Msg, Delivers(a, S)
    PROVE  /\ \A M : M \cap S = {} => (NoneOf(mailbox'[a], M) <=> NoneOf(mailbox[a], M))
           /\ \A M : ~NoneOf(mailbox[a], M) => ~NoneOf(mailbox'[a], M)
<1>1. mailbox[a] \in Seq(Msg)  BY DEF TypeOK
<1>2. CASE mailbox'[a] = mailbox[a]  BY <1>2
<1>3. ASSUME NEW m \in S, mailbox'[a] = mailbox[a] \o <<m>>
      PROVE  \A M : NoneOf(mailbox'[a], M) <=> NoneOf(mailbox[a], M) /\ m \notin M
  <2>1. m \in Msg /\ <<m>> \in Seq(Msg)  BY OneNone
  <2> SUFFICES ASSUME NEW M
               PROVE  NoneOf(mailbox'[a], M) <=> NoneOf(mailbox[a], M) /\ m \notin M
    OBVIOUS
  <2>2. NoneOf(<<m>>, M) <=> m \notin M  BY <2>1, OneNone
  <2> QED  BY <1>1, <1>3, <2>1, <2>2, AppendNone
<1> QED  BY <1>2, <1>3 DEF Delivers

\* A step of p is one of a system that goes on if p itself does.
LEMMA PassengerGoesOn ==
    ASSUME IInv, Uninterrupted, NEW p \in Passengers, NEW S, PassengerFrame(p, S),
           S \subseteq AskedBy(Self(p)), UNCHANGED starts,
           NoneOf(mailbox'[p], ReturnMsg), DriverStays(p)', Connected(p)', Fresh(p)', GoesOn(p)'
    PROVE  Uninterrupted'
<1>1. /\ TypeOK /\ reconnecting' = {} /\ reconnecting = {}
      /\ UNCHANGED <<driver, driver_file, current_passenger_connection, carried>>
      /\ \A d \in Drivers : Delivers(d, S) /\ (d \in up' <=> d \in up)
      /\ S \subseteq From(p) /\ S \subseteq Msg
  BY DEF IInv, PassengerFrame, driverVars, Uninterrupted, From, DriverInbox, OfType
<1>2. ASSUME NEW d \in Drivers
      PROVE  /\ d \in Actors
             /\ \A M : M \cap S = {} => (NoneOf(mailbox'[d], M) <=> NoneOf(mailbox[d], M))
             /\ \A M : ~NoneOf(mailbox[d], M) => ~NoneOf(mailbox'[d], M)
  <2>1. d \in Actors  BY ActorsApart
  <2> QED  BY <1>1, <2>1, DeliveredNone
<1>3. S \cap ReturnMsg = {} /\ S \cap EndMsg = {}
      /\ \A q \in Passengers : q # p => RecoverFrom(q) \cap S = {} /\ AskedBy(Self(q)) \cap S = {}
  BY KindsApart
<1>4. ASSUME NEW a \in Actors PROVE NoneOf(mailbox'[a], ReturnMsg)
  <2>1. NoneOf(mailbox[a], ReturnMsg)  BY DEF Uninterrupted
  <2>2. CASE a \in Drivers  BY <1>2, <1>3, <2>1, <2>2
  <2>3. CASE a \in Passengers /\ a # p  BY <2>1, <2>3 DEF PassengerFrame
  <2> QED  BY <2>2, <2>3, ActorsApart
<1>5. ASSUME NEW d \in Drivers PROVE FirstWay(d)'
  <2>1. NoneOf(mailbox'[d], EndMsg) <=> NoneOf(mailbox[d], EndMsg)  BY <1>2, <1>3
  <2>2. FirstWay(d)  BY DEF Uninterrupted
  <2> QED  BY <1>1, <2>1, <2>2 DEF FirstWay, EndMsg, OfType
<1>6. ASSUME NEW d \in Drivers PROVE Newest(d)'
  <2>1. Newest(d) /\ mailbox[d] \in Seq(Msg)  BY <1>1, <1>2 DEF Uninterrupted, TypeOK
  <2>2. CASE mailbox'[d] = mailbox[d]
    BY <1>1, <2>1, <2>2 DEF Newest, InOrder, Started, Precedes, DriverInbox, OfType
  <2>3. ASSUME NEW m \in S, mailbox'[d] = mailbox[d] \o <<m>> PROVE Newest(d)'
    <3> DEFINE c == current_passenger_connection[d]
    <3>1. m \in From(p) /\ m.from = Self(p)  BY <1>1 DEF AskedBy
    <3>2. /\ InOrder(mailbox'[d]) /\ Started(mailbox'[d])
          /\ \A k \in Process(Passengers) :
                Precedes(k, mailbox[d]) /\ k.start <= starts[k.actor] => Precedes(k, mailbox'[d])
      BY <1>1, <2>1, <2>3, <3>1, OrderSent DEF Newest
    <3>3. c \in Process(Passengers) \cup {None}  BY <1>1 DEF TypeOK
    <3> QED
      BY <1>1, <2>1, <3>2, <3>3 DEF Newest, InOrder, Started, Precedes, DriverInbox, OfType
  <2> QED  BY <1>1, <2>2, <2>3 DEF Delivers
<1>7. ASSUME NEW q \in Passengers, q # p
      PROVE  DriverStays(q)' /\ Connected(q)' /\ Fresh(q)' /\ GoesOn(q)'
  <2>1. /\ mailbox'[q] = mailbox[q] /\ passenger'[q] = passenger[q]
        /\ passenger_file'[q] = passenger_file[q]
        /\ q \in authorizing' <=> q \in authorizing
        /\ q \in up' <=> q \in up
    BY <1>7 DEF PassengerFrame
  <2>2. DriverStays(q) /\ Connected(q) /\ Fresh(q) /\ GoesOn(q)  BY DEF Uninterrupted
  <2>3. \A d \in Drivers :
           /\ NoneOf(mailbox'[d], RecoverFrom(q)) <=> NoneOf(mailbox[d], RecoverFrom(q))
           /\ NoneOf(mailbox'[d], AskedBy(Self(q))) <=> NoneOf(mailbox[d], AskedBy(Self(q)))
    BY <1>2, <1>3, <1>7
  <2>4. DriverStays(q)'
    BY <1>1, <2>1, <2>2, <2>3 DEF DriverStays, HasDriver, AcceptedBy, AcceptMsg, RecoverFrom, OfType,
        PassengerOf
  <2>5. Connected(q)'
    <3>1. passenger[q].connection \in Process(Drivers) \cup {None}
      BY PassengerTyped DEF PassengerState
    <3> DEFINE c == passenger[q].connection
    <3>2. c # None => c.actor \in Drivers  BY <3>1 DEF Process
    <3> QED
      BY <1>1, <2>1, <2>2, <3>2 DEF Connected, Running, RequestMsg, OfType
  <2>6. Self(q)' = Self(q)  BY DEF Self
  <2>7. Fresh(q)'
    BY <2>1, <2>2, <2>3, <2>6 DEF Fresh, RecoverMsg, RequestMsg, AcceptMsg, AskedBy, OfType
  <2>8. GoesOn(q)'
    <3>1. \A d \in Drivers : Awaits(q, d)' <=> Awaits(q, d)
      BY <1>1, <2>3, <2>6 DEF Awaits, Fetches, PassengerOf, AskedBy, OfType
    <3>2. Settled(q)' <=> Settled(q)  BY <2>1 DEF Settled, AcceptMsg, OfType
    <3> QED
      BY <2>1, <2>2, <3>1, <3>2 DEF GoesOn, LiveMsg, SearchMsg, RecoverMsg, TravelMsg, OfType
  <2> QED  BY <2>4, <2>5, <2>7, <2>8
<1>8. \A a \in Actors : NoneOf(mailbox[a], ReturnMsg)'
  BY <1>4 DEF ReturnMsg, OfType
<1> QED  BY <1>1, <1>5, <1>6, <1>7, <1>8 DEF Uninterrupted

-----------------------------------------------------------------------------
(* What a passenger does.                                                  *)

\* The messages a passenger sends to itself are none of these but in a few
\* handlers.
StartMsg == ReturnMsg \cup AcceptMsg \cup RecoverMsg \cup RequestMsg

LEMMA OwnStep ==
    ASSUME IInv, Uninterrupted, NEW p \in Passengers, NEW t, Handles(p, t),
           NEW S, PassengerFrame(p, S), S \subseteq AskedBy(Self(p)),
           UNCHANGED <<up, starts>>,
           NEW own \in Seq(Msg), NoneOf(own, StartMsg), mailbox'[p] = Tail(mailbox[p]) \o own,
           p \in authorizing' \/ ~NoneOf(mailbox[p], RequestMsg)
              => Running(passenger'[p].connection),
           \A d \in Drivers :
              \/ passenger'[p].driver_socket = d
              \/ passenger_file'[p] # None /\ passenger_file'[p].driver_socket = d
              \/ ~NoneOf(mailbox'[d], RecoverFrom(p))
              => HasDriver(p, d),
           GoesOn(p)'
    PROVE  Uninterrupted'
<1>1. /\ TypeOK /\ p \in Actors /\ mailbox[p] \in Seq(Msg)
      /\ mailbox[p] # <<>> /\ Head(mailbox[p]) \in Msg /\ Head(mailbox[p]).type = t
      /\ UNCHANGED <<driver, carried>>
  BY PassengerTyped, HeadMsg DEF PassengerFrame, driverVars
<1>2. \A M : NoneOf(mailbox[p], M) <=> Head(mailbox[p]) \notin M /\ NoneOf(Tail(mailbox[p]), M)
  BY <1>1, HandledNone
<1>3. \A M : NoneOf(mailbox'[p], M) <=> NoneOf(Tail(mailbox[p]), M) /\ NoneOf(own, M)
  BY <1>1, HandledNone
<1>4. /\ NoneOf(own, ReturnMsg) /\ NoneOf(own, AcceptMsg) /\ NoneOf(own, RecoverMsg)
      /\ NoneOf(own, RequestMsg) /\ \A d \in Drivers : NoneOf(own, AcceptedBy(d))
  BY DEF NoneOf, StartMsg, AcceptedBy
<1>5. DriverStays(p) /\ Fresh(p) /\ NoneOf(mailbox[p], ReturnMsg)
  BY <1>1 DEF Uninterrupted
<1>6. NoneOf(mailbox'[p], ReturnMsg)  BY <1>2, <1>3, <1>4, <1>5
<1>7. DriverStays(p)'
  <2>1. \A d \in Drivers : HasDriver(p, d)' => HasDriver(p, d)
    <3> SUFFICES ASSUME NEW d \in Drivers, HasDriver(p, d)' PROVE HasDriver(p, d)
      OBVIOUS
    <3>1. CASE ~NoneOf(mailbox'[p], AcceptedBy(d))
      <4>1. ~NoneOf(mailbox[p], AcceptedBy(d))  BY <1>2, <1>3, <1>4, <3>1
      <4> QED  BY <4>1 DEF HasDriver
    <3> QED
      BY <3>1 DEF HasDriver, AcceptedBy, AcceptMsg, RecoverFrom, OfType
  <2> QED  BY <1>1, <1>5, <2>1 DEF DriverStays, PassengerOf
<1>8. Connected(p)'
  <2>1. ~NoneOf(mailbox'[p], RequestMsg) => ~NoneOf(mailbox[p], RequestMsg)
    BY <1>2, <1>3, <1>4
  <2> QED  BY <2>1 DEF Connected, Running, RequestMsg, OfType
<1>9. Fresh(p)'
  <2>1. FirstOnly(mailbox[p], RecoverMsg)  BY DEF IInv, PassengerInv, PassengerRecovers
  <2>2. NoneOf(mailbox'[p], RecoverMsg)  BY <1>1, <1>3, <1>4, <2>1, HeadFacts
  <2> QED  BY <2>2 DEF Fresh, RecoverMsg, OfType
<1> QED  BY <1>6, <1>7, <1>8, <1>9, PassengerGoesOn

\* What it sends to itself, or had already received, makes it go on.
LEMMA OwnGoesOn ==
    ASSUME IInv, Uninterrupted, NEW p \in Passengers, NEW t, Handles(p, t), UNCHANGED starts,
           NEW own \in Seq(Msg), mailbox'[p] = Tail(mailbox[p]) \o own,
           \/ ~NoneOf(own, LiveMsg)
           \/ /\ Head(mailbox[p]) \notin LiveMsg
              /\ p \in authorizing => p \in authorizing'
              /\ Settled(p) => Settled(p)'
              /\ \E S : PassengerFrame(p, S)
    PROVE  GoesOn(p)'
<1>1. /\ TypeOK /\ p \in up /\ mailbox[p] \in Seq(Msg) /\ mailbox[p] # <<>>
  BY PassengerTyped, HeadMsg
<1>2. \A M : NoneOf(mailbox[p], M) <=> Head(mailbox[p]) \notin M /\ NoneOf(Tail(mailbox[p]), M)
  BY <1>1, HandledNone
<1>3. \A M : NoneOf(mailbox'[p], M) <=> NoneOf(Tail(mailbox[p]), M) /\ NoneOf(own, M)
  BY <1>1, HandledNone
<1>4. ASSUME ~NoneOf(mailbox'[p], LiveMsg) PROVE GoesOn(p)'
  BY <1>4 DEF GoesOn, LiveMsg, SearchMsg, RecoverMsg, TravelMsg, OfType
<1>5. CASE ~NoneOf(own, LiveMsg)  BY <1>3, <1>4, <1>5
<1>6. ASSUME Head(mailbox[p]) \notin LiveMsg, p \in authorizing => p \in authorizing',
             Settled(p) => Settled(p)', NEW S, PassengerFrame(p, S)
      PROVE  GoesOn(p)'
  <2>1. \/ p \in authorizing
        \/ ~NoneOf(mailbox[p], LiveMsg)
        \/ \E d \in Drivers : Awaits(p, d)
        \/ Settled(p)
    BY <1>1 DEF Uninterrupted, GoesOn
  <2>2. ASSUME NEW d \in Drivers, Awaits(p, d) PROVE Awaits(p, d)'
    <3>1. S \subseteq Msg /\ Delivers(d, S) /\ d \in Actors
          /\ UNCHANGED <<driver, current_passenger_connection>>
      BY <1>6, ActorsApart DEF PassengerFrame, From, DriverInbox, OfType, driverVars
    <3>2. ~NoneOf(mailbox[d], AskedBy(Self(p))) => ~NoneOf(mailbox'[d], AskedBy(Self(p)))
      BY <1>1, <3>1, DeliveredNone
    <3> QED  BY <2>2, <3>1, <3>2 DEF Awaits, Fetches, PassengerOf, AskedBy, OfType, Self
  <2>3. ~NoneOf(mailbox[p], LiveMsg) => ~NoneOf(mailbox'[p], LiveMsg)  BY <1>2, <1>3, <1>6
  <2> QED  BY <1>4, <1>6, <2>1, <2>2, <2>3 DEF GoesOn
<1> QED  BY <1>5, <1>6

\* The handlers that reach nobody else.
LEMMA QuietOwn ==
    ASSUME IInv, Uninterrupted, NEW p \in Passengers, NEW t, Handles(p, t),
           NEW own \in Seq(Msg), NoneOf(own, StartMsg), Continue(p, own),
           UNCHANGED <<up, starts, reconnecting, driverVars>>,
           \A q \in Passengers \ {p} :
              /\ passenger'[q] = passenger[q] /\ passenger_file'[q] = passenger_file[q]
              /\ q \in authorizing' <=> q \in authorizing,
           p \in authorizing' \/ ~NoneOf(mailbox[p], RequestMsg)
              => Running(passenger'[p].connection),
           \A d \in Drivers :
              \/ passenger'[p].driver_socket = d
              \/ passenger_file'[p] # None /\ passenger_file'[p].driver_socket = d
              => HasDriver(p, d),
           \/ ~NoneOf(own, LiveMsg) \/ p \in authorizing' \/ Settled(p)'
           \/ /\ Head(mailbox[p]) \notin LiveMsg
              /\ p \in authorizing => p \in authorizing'
              /\ Settled(p) => Settled(p)'
    PROVE  Uninterrupted'
<1>1. TypeOK /\ p \in Actors /\ mailbox[p] # <<>>  BY PassengerTyped, HeadMsg
<1>2. PassengerFrame(p, {}) /\ mailbox'[p] = Tail(mailbox[p]) \o own  BY <1>1, QuietFrame
<1>3. \A d \in Drivers : mailbox'[d] = mailbox[d]  BY <1>2 DEF PassengerFrame, Delivers
<1>4. GoesOn(p)'
  <2>1. p \in authorizing' \/ Settled(p)' => GoesOn(p)'  BY DEF GoesOn
  <2> QED  BY <1>2, <2>1, OwnGoesOn
<1>5. \A d \in Drivers : ~NoneOf(mailbox'[d], RecoverFrom(p)) => HasDriver(p, d)
  BY <1>3 DEF HasDriver
<1> QED  BY <1>2, <1>4, <1>5, OwnStep

\* The messages a passenger sends to itself.
LEMMA OwnMsg ==
    /\ \A x \in {"Login", "GetDrivers", "Traveling"} :
          <<Plain(x)>> \in Seq(Msg) /\ NoneOf(<<Plain(x)>>, StartMsg)
    /\ \A x \in {"GetDrivers", "Traveling"} : ~NoneOf(<<Plain(x)>>, LiveMsg)
    /\ \A S \in SUBSET Drivers : LET m == [type |-> "Drivers", drivers_info |-> S] IN
          <<m>> \in Seq(Msg) /\ NoneOf(<<m>>, StartMsg) /\ ~NoneOf(<<m>>, LiveMsg)
    /\ <<>> \in Seq(Msg) /\ NoneOf(<<>>, StartMsg)
<1>1. ASSUME NEW m \in Msg, m.type \in {"Login", "GetDrivers", "Traveling", "Drivers"}
      PROVE  /\ <<m>> \in Seq(Msg) /\ NoneOf(<<m>>, StartMsg)
             /\ m.type # "Login" => ~NoneOf(<<m>>, LiveMsg)
  <2>1. m \notin StartMsg
    BY <1>1 DEF StartMsg, ReturnMsg, AcceptMsg, RecoverMsg, RequestMsg, OfType
  <2>2. m.type # "Login" => m \in LiveMsg
    BY <1>1 DEF LiveMsg, SearchMsg, TravelMsg, OfType
  <2> QED  BY <2>1, <2>2, OneNone
<1>2. \A x \in {"Login", "GetDrivers", "Traveling"} : Plain(x) \in Msg /\ Plain(x).type = x
  BY PlainMsg DEF PlainType
<1>3. \A S \in SUBSET Drivers : LET m == [type |-> "Drivers", drivers_info |-> S] IN
         m \in Msg /\ m.type = "Drivers"
  BY DEF Msg, PassengerMsg
<1> QED  BY <1>1, <1>2, <1>3, OneNone

\* Handlers that leave the fields and the file of p alone.
LEMMA SameOwn ==
    ASSUME IInv, Uninterrupted, NEW p \in Passengers, NEW t, Handles(p, t),
           NEW own \in Seq(Msg), NoneOf(own, StartMsg), Continue(p, own),
           UNCHANGED <<up, starts, reconnecting, authorizing, driverVars, passengerVars>>,
           ~NoneOf(own, LiveMsg) \/ Head(mailbox[p]) \notin LiveMsg
    PROVE  Uninterrupted'
<1> DEFINE s == passenger[p]
<1>1. UNCHANGED <<passenger, passenger_file>> /\ TypeOK /\ p \in Actors
  BY PassengerTyped DEF passengerVars
<1>2. p \in authorizing' \/ ~NoneOf(mailbox[p], RequestMsg) => Running(passenger'[p].connection)
  BY <1>1 DEF Uninterrupted, Connected
<1>3. \A d \in Drivers :
              \/ passenger'[p].driver_socket = d
              \/ passenger_file'[p] # None /\ passenger_file'[p].driver_socket = d
              => HasDriver(p, d)
  BY <1>1 DEF HasDriver
<1>4. ~NoneOf(own, LiveMsg) \/ (Settled(p) => Settled(p)')
  <2>1. CASE Settled(p) /\ NoneOf(own, LiveMsg)
    <3>1. /\ mailbox[p] # <<>> /\ mailbox[p] \in Seq(Msg)
          /\ mailbox'[p] = Tail(mailbox[p]) \o own
      BY <1>1, HeadMsg, ContinueFacts
    <3>2. NoneOf(own, AcceptMsg)  BY DEF NoneOf, StartMsg
    <3>3. NoneOf(mailbox'[p], AcceptMsg)
      BY <2>1, <3>1, <3>2, HandledNone DEF Settled
    <3> QED  BY <1>1, <2>1, <3>3 DEF Settled, AcceptMsg, OfType
  <2> QED  BY <2>1
<1> QED  BY <1>1, <1>2, <1>3, <1>4, QuietOwn

LEMMA SimpleOn ==
    ASSUME IInv, Uninterrupted, NEW p \in Passengers,
           Login(p) \/ GetDrivers(p) \/ KeepLooking(p) \/ DriverArrived(p)
    PROVE  Uninterrupted'
<1> USE DEF serverVars, gatewayVars
<1>1. TypeOK /\ p \in Actors /\ passenger[p] \in PassengerState  BY PassengerTyped
<1>2. CASE Login(p)
  <2>1. /\ Handles(p, "Login") /\ Continue(p, <<>>)
        /\ UNCHANGED <<up, starts, reconnecting, authorizing, driverVars, passengerVars>>
    BY <1>2 DEF Login
  <2>2. Head(mailbox[p]) \notin LiveMsg
    BY <1>1, <2>1, HeadMsg DEF LiveMsg, SearchMsg, RecoverMsg, TravelMsg, OfType
  <2> QED  BY <2>1, <2>2, OwnMsg, SameOwn
<1>3. ASSUME NEW t, Handles(p, t), NEW S \in SUBSET Drivers,
             Continue(p, <<[type |-> "Drivers", drivers_info |-> S]>>),
             UNCHANGED <<up, starts, reconnecting, authorizing, driverVars, passengerVars>>
      PROVE  Uninterrupted'
  BY <1>3, OwnMsg, SameOwn
<1>4. Listed \in SUBSET Drivers /\ passenger[p].drivers_info \in SUBSET Drivers
  BY <1>1 DEF Listed, PassengerState
<1>5. CASE GetDrivers(p)  BY <1>3, <1>4, <1>5 DEF GetDrivers
<1>6. CASE KeepLooking(p)  BY <1>3, <1>4, <1>6 DEF KeepLooking
<1>7. CASE DriverArrived(p)
  <2>1. /\ Handles(p, "DriverArrived") /\ Continue(p, <<Plain("Traveling")>>)
        /\ UNCHANGED <<up, starts, reconnecting, authorizing, driverVars, passengerVars>>
    BY <1>7 DEF DriverArrived
  <2> QED  BY <2>1, OwnMsg, SameOwn
<1> QED  BY <1>2, <1>5, <1>6, <1>7

\* Handlers that write the file.
LEMMA BecomesOn ==
    ASSUME IInv, Uninterrupted, NEW p \in Passengers, NEW t, Handles(p, t), NEW s \in PassengerState,
           NEW own \in Seq(Msg), NoneOf(own, StartMsg), Becomes(p, s, own),
           s.connection = passenger[p].connection, s.drivers_info = passenger[p].drivers_info,
           s.driver_socket # None => HasDriver(p, s.driver_socket),
           \/ ~NoneOf(own, LiveMsg)
           \/ /\ Head(mailbox[p]) \notin LiveMsg
              /\ s.driver_socket = passenger[p].driver_socket \/ Head(mailbox[p]) \in AcceptMsg
    PROVE  Uninterrupted'
<1>1. /\ TypeOK /\ p \in Actors /\ Continue(p, own)
      /\ mailbox[p] # <<>> /\ mailbox[p] \in Seq(Msg)
      /\ passenger' = [passenger EXCEPT ![p] = s]
      /\ passenger_file' = [passenger_file EXCEPT ![p] = Saved(s)]
      /\ UNCHANGED <<up, starts, reconnecting, authorizing, driverVars>>
  BY PassengerTyped, HeadMsg DEF Becomes, serverVars, gatewayVars
<1>2. /\ passenger'[p] = s /\ passenger_file'[p] = Saved(s)
      /\ \A q \in Passengers \ {p} :
            passenger'[q] = passenger[q] /\ passenger_file'[q] = passenger_file[q]
  BY <1>1 DEF TypeOK
<1>3. p \in authorizing' \/ ~NoneOf(mailbox[p], RequestMsg) => Running(passenger'[p].connection)
  BY <1>1, <1>2 DEF Uninterrupted, Connected
<1>4. \A d \in Drivers :
              \/ passenger'[p].driver_socket = d
              \/ passenger_file'[p] # None /\ passenger_file'[p].driver_socket = d
              => HasDriver(p, d)
  BY <1>2, ActorsApart DEF Saved
<1>5. ~NoneOf(own, LiveMsg) \/ (Settled(p) => Settled(p)')
  <2>1. CASE Settled(p) /\ NoneOf(own, LiveMsg)
    <3>1. mailbox'[p] = Tail(mailbox[p]) \o own  BY <1>1, ContinueFacts
    <3>2. NoneOf(own, AcceptMsg)  BY DEF NoneOf, StartMsg
    <3>3. NoneOf(mailbox'[p], AcceptMsg) /\ Head(mailbox[p]) \notin AcceptMsg
      BY <1>1, <2>1, <3>1, <3>2, HandledNone DEF Settled
    <3> QED  BY <1>1, <1>2, <2>1, <3>3 DEF Settled, AcceptMsg, OfType
  <2> QED  BY <2>1
<1> QED  BY <1>1, <1>2, <1>3, <1>4, <1>5, QuietOwn

LEMMA WritingOn ==
    ASSUME IInv, Uninterrupted, NEW p \in Passengers,
           PaymentAuthorized(p) \/ PaymentDeny(p) \/ RideAccepted(p) \/ TravelOn(p)
    PROVE  Uninterrupted'
<1> DEFINE f == passenger[p]
<1>1. /\ TypeOK /\ p \in Actors /\ f \in PassengerState
      /\ mailbox[p] \in Seq(Msg)
  BY PassengerTyped
<1>2. f.driver_socket # None => HasDriver(p, f.driver_socket)  BY DEF HasDriver
<1>3. \A b \in BOOLEAN : LET s == [f EXCEPT !.payment_authorized = b] IN
         /\ s \in PassengerState /\ s.connection = f.connection
         /\ s.drivers_info = f.drivers_info /\ s.driver_socket = f.driver_socket
  BY <1>1 DEF PassengerState
<1>4. CASE PaymentAuthorized(p)
  <2> DEFINE s == [f EXCEPT !.payment_authorized = TRUE]
  <2>1. Handles(p, "PaymentAuthorized") /\ Becomes(p, s, <<>>)  BY <1>4 DEF PaymentAuthorized
  <2>2. Head(mailbox[p]) \notin LiveMsg
    BY <1>1, <2>1, HeadMsg DEF LiveMsg, SearchMsg, RecoverMsg, TravelMsg, OfType
  <2>3. /\ s \in PassengerState /\ s.connection = f.connection
        /\ s.drivers_info = f.drivers_info /\ s.driver_socket = f.driver_socket
    BY <1>3
  <2> HIDE DEF s
  <2> QED  BY <1>2, <2>1, <2>2, <2>3, OwnMsg, BecomesOn
<1>5. CASE PaymentDeny(p)
  <2> DEFINE s == [f EXCEPT !.payment_authorized = FALSE]
  <2>1. Handles(p, "PaymentDeny") /\ Becomes(p, s, <<Plain("GetDrivers")>>)
    BY <1>5 DEF PaymentDeny
  <2>2. /\ s \in PassengerState /\ s.connection = f.connection
        /\ s.drivers_info = f.drivers_info /\ s.driver_socket = f.driver_socket
    BY <1>3
  <2> HIDE DEF s
  <2> QED  BY <1>2, <2>1, <2>2, OwnMsg, BecomesOn
<1>6. CASE RideAccepted(p)
  <2> DEFINE m == Head(mailbox[p])
             s == [f EXCEPT !.driver_socket = m.socket]
  <2>1. Handles(p, "RideAccepted") /\ Becomes(p, s, <<>>)  BY <1>6 DEF RideAccepted
  <2>2. m \in Msg /\ m.type = "RideAccepted" /\ mailbox[p] # <<>> /\ m.socket \in Drivers
    BY <1>1, <2>1, HeadMsg, MsgOfType
  <2>3. m \in AcceptMsg /\ m \in AcceptedBy(m.socket) /\ m \notin LiveMsg
    BY <2>2 DEF AcceptMsg, AcceptedBy, LiveMsg, SearchMsg, RecoverMsg, TravelMsg, OfType
  <2>4. HasDriver(p, m.socket)
    BY <1>1, <2>2, <2>3, HeadFacts DEF HasDriver
  <2>5. /\ s \in PassengerState /\ s.connection = f.connection
        /\ s.drivers_info = f.drivers_info /\ s.driver_socket = m.socket
    BY <1>1, <2>2 DEF PassengerState
  <2> HIDE DEF s, m
  <2> QED  BY <2>1, <2>3, <2>4, <2>5, OwnMsg, BecomesOn DEF m
<1>7. CASE TravelOn(p)
  <2> DEFINE s == [f EXCEPT !.position = "road"]
  <2>1. Handles(p, "Traveling") /\ Becomes(p, s, <<Plain("Traveling")>>)
    BY <1>7 DEF TravelOn
  <2>2. /\ s \in PassengerState /\ s.connection = f.connection
        /\ s.drivers_info = f.drivers_info /\ s.driver_socket = f.driver_socket
    BY <1>1 DEF PassengerState, Place
  <2> HIDE DEF s
  <2> QED  BY <1>2, <2>1, <2>2, OwnMsg, BecomesOn
<1> QED  BY <1>4, <1>5, <1>6, <1>7

\* A passenger that searches has no driver, nor had it one.
LEMMA SearchingAlone ==
    ASSUME IInv, Uninterrupted, NEW p \in Passengers, Seeks(p), NEW d \in Drivers
    PROVE  ~HasDriver(p, d)
<1>1. Exclusive(p) /\ DriverStays(p)  BY DEF IInv, Uninterrupted
<1>2. p \notin carried /\ PassengerOf(driver[d]) # p  BY <1>1 DEF Exclusive, Serves
<1> QED  BY <1>1, <1>2 DEF DriverStays

\* Without a driver, nobody has accepted.
LEMMA NobodyAccepted ==
    ASSUME NEW p \in Passengers, mailbox[p] \in Seq(Msg), \A d \in Drivers : ~HasDriver(p, d)
    PROVE  NoneOf(mailbox[p], AcceptMsg)
<1> SUFFICES ASSUME NEW i \in 1..Len(mailbox[p]), mailbox[p][i] \in AcceptMsg PROVE FALSE
  BY DEF NoneOf
<1>1. mailbox[p][i] \in Msg  BY ElementOfSeq
<1>2. mailbox[p][i].socket \in Drivers  BY <1>1, MsgOfType DEF AcceptMsg, OfType
<1>3. ~NoneOf(mailbox[p], AcceptedBy(mailbox[p][i].socket))  BY DEF NoneOf, AcceptedBy
<1> QED  BY <1>2, <1>3 DEF HasDriver

LEMMA DriversHandlerOn ==
    ASSUME IInv, Uninterrupted, NEW p \in Passengers, DriversHandler(p)
    PROVE  Uninterrupted'
<1> DEFINE f == passenger[p]
           t == "Drivers"
<1>1. /\ TypeOK /\ p \in Actors /\ f \in PassengerState /\ mailbox[p] \in Seq(Msg)
      /\ Handles(p, t)
      /\ UNCHANGED <<up, starts, reconnecting, driverVars>>
      /\ passenger_file' = [passenger_file EXCEPT ![p] = Saved(f)]
  BY PassengerTyped DEF DriversHandler, serverVars
<1>2. /\ mailbox[p] # <<>> /\ p \in up /\ Head(mailbox[p]) \in Msg /\ Head(mailbox[p]).type = t
      /\ Head(mailbox[p]).drivers_info \subseteq Drivers
  BY <1>1, HeadMsg, MsgOfType
<1>3. passenger_file'[p] = Saved(f)
      /\ \A q \in Passengers \ {p} : passenger_file'[q] = passenger_file[q]
  BY <1>1 DEF TypeOK
<1>4. Seeks(p)
  <2>1. Head(mailbox[p]) \in SearchMsg  BY <1>2 DEF SearchMsg, OfType
  <2> QED  BY <1>1, <1>2, <2>1, HeadFacts DEF Seeks
<1>5. ASSUME NEW s, s.driver_socket = f.driver_socket,
             passenger' = [passenger EXCEPT ![p] = s]
      PROVE  /\ passenger'[p] = s
             /\ \A q \in Passengers \ {p} : passenger'[q] = passenger[q]
             /\ \A d \in Drivers :
                   \/ passenger'[p].driver_socket = d
                   \/ passenger_file'[p] # None /\ passenger_file'[p].driver_socket = d
                   => HasDriver(p, d)
  <2>1. passenger'[p] = s /\ \A q \in Passengers \ {p} : passenger'[q] = passenger[q]
    BY <1>1, <1>5 DEF TypeOK
  <2> QED  BY <1>3, <1>5, <2>1 DEF HasDriver, Saved
<1>6. CASE /\ Head(mailbox[p]).drivers_info = {}
           /\ passenger' = [passenger EXCEPT ![p].drivers_info = {}]
           /\ Continue(p, <<>>)
           /\ UNCHANGED authorizing
  <2> DEFINE s == [f EXCEPT !.drivers_info = {}]
  <2>1. /\ s.driver_socket = f.driver_socket /\ s.connection = f.connection
        /\ s.drivers_info = {}
        /\ passenger' = [passenger EXCEPT ![p] = s]
    BY <1>1, <1>6 DEF PassengerState
  <2> HIDE DEF s
  <2>2. passenger'[p] = s  BY <1>5, <2>1
  <2>3. \A d \in Drivers : ~HasDriver(p, d)  BY <1>4, SearchingAlone
  <2>4. Settled(p)'
    <3>1. f.driver_socket = None
      BY <1>1, <2>3 DEF PassengerState, HasDriver
    <3>2. mailbox'[p] = Tail(mailbox[p]) \o <<>>
      BY <1>1, <1>2, <1>6, OwnMsg, ContinueFacts
    <3>3. NoneOf(mailbox[p], AcceptMsg)  BY <1>1, <2>3, NobodyAccepted
    <3>4. NoneOf(mailbox'[p], AcceptMsg)  BY <1>1, <1>2, <3>2, <3>3, OneNone, HandledNone
    <3> QED  BY <2>1, <2>2, <3>1, <3>4 DEF Settled, AcceptMsg, OfType
  <2>5. p \in authorizing' \/ ~NoneOf(mailbox[p], RequestMsg)
              => Running(passenger'[p].connection)
    BY <1>6, <2>1, <2>2 DEF Uninterrupted, Connected
  <2> HIDE DEF t
  <2> QED  BY <1>1, <1>3, <1>5, <1>6, <2>1, <2>4, <2>5, OwnMsg, QuietOwn
<1>7. ASSUME NEW c \in Selected(Head(mailbox[p]).drivers_info), c.chosen \in up,
             passenger' = [passenger EXCEPT ![p].drivers_info = c.rest,
                                            ![p].connection = Self(c.chosen)],
             authorizing' = authorizing \cup {p},
             Continue(p, <<>>)
      PROVE  Uninterrupted'
  <2> DEFINE s == [f EXCEPT !.drivers_info = c.rest, !.connection = Self(c.chosen)]
  <2>1. c.chosen \in Drivers  BY <1>2, <1>7 DEF Selected
  <2>2. /\ s.driver_socket = f.driver_socket /\ s.connection = Self(c.chosen)
        /\ passenger' = [passenger EXCEPT ![p] = s]
    BY <1>1, <1>7 DEF PassengerState
  <2> HIDE DEF s
  <2>3. passenger'[p] = s  BY <1>5, <2>2
  <2>4. Running(Self(c.chosen))
    <3>1. Self(c.chosen) \in Process(Actors)
      BY <1>1, <2>1, ActorsApart DEF Self, Process, TypeOK
    <3>2. Self(c.chosen) # None  BY <3>1, NoneAssumption
    <3> QED  BY <1>7, <3>2 DEF Running, Self
  <2>5. p \in authorizing' \/ ~NoneOf(mailbox[p], RequestMsg)
              => Running(passenger'[p].connection)
    BY <2>2, <2>3, <2>4
  <2>6. \A q \in Passengers \ {p} : q \in authorizing' <=> q \in authorizing  BY <1>7
  <2>7. p \in authorizing'  BY <1>7
  <2> HIDE DEF t
  <2> QED  BY <1>1, <1>3, <1>5, <1>7, <2>2, <2>5, <2>6, <2>7, OwnMsg, QuietOwn
<1>8. ASSUME NEW c \in Selected(Head(mailbox[p]).drivers_info), c.chosen \notin up,
             passenger' = [passenger EXCEPT ![p].drivers_info = c.rest],
             Continue(p, <<[type |-> "Drivers", drivers_info |-> c.rest]>>),
             UNCHANGED authorizing
      PROVE  Uninterrupted'
  <2> DEFINE s   == [f EXCEPT !.drivers_info = c.rest]
             own == <<[type |-> "Drivers", drivers_info |-> c.rest]>>
  <2>1. /\ s.driver_socket = f.driver_socket /\ s.connection = f.connection
        /\ passenger' = [passenger EXCEPT ![p] = s]
    BY <1>1, <1>8 DEF PassengerState
  <2>2. own \in Seq(Msg) /\ NoneOf(own, StartMsg) /\ ~NoneOf(own, LiveMsg) /\ Continue(p, own)
    <3>1. c.rest \in SUBSET Drivers  BY <1>2, <1>8 DEF Selected
    <3> QED  BY <1>8, <3>1, OwnMsg
  <2> HIDE DEF s, own, t
  <2>3. passenger'[p] = s  BY <1>5, <2>1
  <2>4. p \in authorizing' \/ ~NoneOf(mailbox[p], RequestMsg)
              => Running(passenger'[p].connection)
    BY <1>8, <2>1, <2>3 DEF Uninterrupted, Connected
  <2> QED  BY <1>1, <1>3, <1>5, <1>8, <2>1, <2>2, <2>4, QuietOwn
<1> QED  BY <1>6, <1>7, <1>8 DEF DriversHandler

\* A message to a driver that runs arrives.
LEMMA MailArrives ==
    ASSUME TypeOK, NEW p \in Passengers, NEW own \in Seq(Msg), NEW c, Running(c), c.actor \in Drivers,
           NEW m, m \in AskedBy(Self(p)), Mail(p, own, c, <<m>>), UNCHANGED starts
    PROVE  \E d \in Drivers : Awaits(p, d)'
<1> DEFINE d == c.actor
<1>1. d \in Actors /\ d # p /\ mailbox[d] \in Seq(Msg)  BY ActorsApart DEF TypeOK
<1>2. mailbox'[d] = mailbox[d] \o <<m>>  BY <1>1 DEF Mail
<1>3. m \in Msg  BY DEF AskedBy, OfType
<1>4. <<m>> \in Seq(Msg) /\ ~NoneOf(<<m>>, AskedBy(Self(p)))  BY <1>3, OneNone
<1> HIDE DEF d
<1>5. ~NoneOf(mailbox'[d], AskedBy(Self(p)))  BY <1>1, <1>2, <1>4, AppendNone
<1> QED  BY <1>5 DEF Awaits, AskedBy, OfType, Self, d

LEMMA RequestDriveOn ==
    ASSUME IInv, Uninterrupted, NEW p \in Passengers, RequestDrive(p)
    PROVE  Uninterrupted'
<1> DEFINE m   == [type |-> "RequestRide", from |-> Self(p), position |-> passenger[p].position]
           c   == passenger[p].connection
           own == <<>>
           t   == "RequestDrive"
<1>1. /\ TypeOK /\ p \in Actors /\ Handles(p, t) /\ Mail(p, own, c, <<m>>)
      /\ passenger[p] \in PassengerState /\ mailbox[p] \in Seq(Msg) /\ mailbox[p] # <<>>
      /\ UNCHANGED <<up, starts, reconnecting, authorizing, passenger, passenger_file, driverVars>>
  BY PassengerTyped, HeadMsg DEF RequestDrive, serverVars, gatewayVars, passengerVars
<1>2. Running(c) /\ c \in Process(Drivers) \cup {None}
  <2>1. Head(mailbox[p]) \in RequestMsg  BY <1>1, HeadMsg DEF RequestMsg, OfType
  <2>2. ~NoneOf(mailbox[p], RequestMsg)  BY <1>1, <2>1, HeadFacts
  <2> QED  BY <1>1, <2>2 DEF Uninterrupted, Connected, PassengerState
<1>3. c.actor \in Drivers  BY <1>2 DEF Running, Process
<1>4. m \in Msg /\ m \in From(p) /\ m \in AskedBy(Self(p)) /\ m \notin RecoverFrom(p)
  <2>1. m \in Msg /\ m.type = "RequestRide" /\ m.from = Self(p) /\ Self(p).actor = p
    BY <1>1, TypedMsg DEF Self, Msg, DriverMsg, TypeOK, Process, PassengerState
  <2> HIDE DEF m
  <2> QED  BY <2>1 DEF From, DriverInbox, AskedBy, RecoverFrom, OfType
<1>5. own \in Seq(Msg) /\ NoneOf(own, StartMsg)  BY OwnMsg
<1> HIDE DEF m, c, own, t
<1>6. /\ PassengerFrame(p, {m}) /\ mailbox'[p] = Tail(mailbox[p]) \o own
  BY <1>1, <1>2, <1>4, <1>5, SendFrame
<1>7. GoesOn(p)'
  <2>1. \E d \in Drivers : Awaits(p, d)'  BY <1>1, <1>2, <1>3, <1>4, <1>5, MailArrives
  <2> QED  BY <2>1 DEF GoesOn
<1>8. p \in authorizing' \/ ~NoneOf(mailbox[p], RequestMsg) => Running(passenger'[p].connection)
  BY <1>1 DEF Uninterrupted, Connected
<1>9. \A d \in Drivers :
              \/ passenger'[p].driver_socket = d
              \/ passenger_file'[p] # None /\ passenger_file'[p].driver_socket = d
              \/ ~NoneOf(mailbox'[d], RecoverFrom(p))
              => HasDriver(p, d)
  <2>1. ASSUME NEW d \in Drivers
        PROVE  NoneOf(mailbox'[d], RecoverFrom(p)) <=> NoneOf(mailbox[d], RecoverFrom(p))
    <3>1. d \in Actors /\ Delivers(d, {m}) /\ {m} \subseteq Msg /\ RecoverFrom(p) \cap {m} = {}
      BY <1>4, <1>6, ActorsApart DEF PassengerFrame
    <3> QED  BY <1>1, <3>1, DeliveredNone
  <2> QED  BY <1>1, <2>1 DEF HasDriver
<1>10. {m} \subseteq AskedBy(Self(p)) /\ UNCHANGED <<up, starts>>  BY <1>1, <1>4
<1> QED  BY <1>1, <1>5, <1>6, <1>7, <1>8, <1>9, <1>10, OwnStep

\* A passenger that comes back.
LEMMA RecoverOn ==
    ASSUME IInv, Uninterrupted, NEW p \in Passengers, Recover(p)
    PROVE  Uninterrupted'
<1> DEFINE s == [NewPassenger EXCEPT !.payment_authorized = passenger_file[p].payment_authorized,
                                     !.driver_socket      = passenger_file[p].driver_socket]
           e == s.driver_socket
           m == [type |-> "PassengerRecover", from |-> Self(p)]
           t == "Recover"
<1>1. /\ TypeOK /\ p \in Actors /\ Handles(p, t)
      /\ passenger[p] \in PassengerState /\ mailbox[p] \in Seq(Msg) /\ mailbox[p] # <<>>
      /\ passenger' = [passenger EXCEPT ![p] = s]
      /\ UNCHANGED <<up, starts, reconnecting, authorizing, passenger_file, driverVars>>
  BY PassengerTyped, HeadMsg DEF Recover, serverVars, gatewayVars
<1>2. ~NoneOf(mailbox[p], RecoverMsg)
  <2>1. Head(mailbox[p]) \in RecoverMsg  BY <1>1, HeadMsg DEF RecoverMsg, OfType
  <2> QED  BY <1>1, <2>1, HeadFacts
<1>3. /\ passenger_file[p] # None /\ p \notin authorizing
      /\ passenger_file[p] \in PassengerFile
  BY <1>1, <1>2 DEF IInv, PassengerInv, PassengerRecovers, TypeOK
<1>4. /\ starts[p] > 1 /\ NoneOf(mailbox[p], RequestMsg) /\ NoneOf(mailbox[p], AcceptMsg)
  BY <1>1, <1>2 DEF Uninterrupted, Fresh
<1>5. e = passenger_file[p].driver_socket /\ e \in Drivers \cup {None}
  BY <1>3 DEF NewPassenger, PassengerFile
<1>6. /\ passenger'[p] = s
      /\ \A q \in Passengers \ {p} : /\ passenger'[q] = passenger[q]
                                     /\ passenger_file'[q] = passenger_file[q]
                                     /\ q \in authorizing' <=> q \in authorizing
  BY <1>1 DEF TypeOK
<1>7. \A d \in Drivers :
         \/ passenger'[p].driver_socket = d
         \/ passenger_file'[p] # None /\ passenger_file'[p].driver_socket = d
         => HasDriver(p, d)
  BY <1>1, <1>3, <1>5, <1>6 DEF HasDriver
<1>8. p \in authorizing' \/ ~NoneOf(mailbox[p], RequestMsg) => Running(passenger'[p].connection)
  BY <1>1, <1>3, <1>4
<1>9. <<Plain("Login")>> \in Seq(Msg) /\ NoneOf(<<Plain("Login")>>, StartMsg)  BY OwnMsg
<1> HIDE DEF t
<1>10. CASE Continue(p, <<Plain("Login"), Plain("GetDrivers")>>)
  <2> DEFINE own == <<Plain("Login"), Plain("GetDrivers")>>
  <2>1. /\ own \in Seq(Msg) /\ NoneOf(own, StartMsg) /\ ~NoneOf(own, LiveMsg)
    <3> DEFINE a == Plain("Login")
               b == Plain("GetDrivers")
    <3>1. a \in Msg /\ b \in Msg /\ a.type = "Login" /\ b.type = "GetDrivers"
      BY PlainMsg DEF PlainType
    <3> HIDE DEF a, b
    <3>2. a \notin StartMsg /\ b \notin StartMsg /\ b \in LiveMsg
      BY <3>1 DEF StartMsg, ReturnMsg, AcceptMsg, RecoverMsg, RequestMsg, LiveMsg, SearchMsg, OfType
    <3> QED  BY <3>1, <3>2, PairNone DEF a, b
  <2>2. Continue(p, own)  BY <1>10
  <2> HIDE DEF own, s
  <2> QED  BY <1>1, <1>6, <1>7, <1>8, <2>1, <2>2, QuietOwn
<1>11. CASE e \notin up /\ Continue(p, <<Plain("Login")>>)
  <2>1. e = None
    <3> SUFFICES ASSUME e \in Drivers PROVE FALSE  BY <1>5
    <3>1. HasDriver(p, e)  BY <1>3, <1>5 DEF HasDriver
    <3> QED  BY <1>11, <3>1 DEF Uninterrupted, DriverStays
  <2>2. Settled(p)'
    <3> DEFINE own == <<Plain("Login")>>
    <3>1. mailbox'[p] = Tail(mailbox[p]) \o own  BY <1>1, <1>9, <1>11, ContinueFacts
    <3>2. own \in Seq(Msg) /\ NoneOf(own, AcceptMsg)  BY <1>9 DEF NoneOf, StartMsg
    <3> HIDE DEF own
    <3>3. NoneOf(mailbox'[p], AcceptMsg)  BY <1>1, <1>4, <3>1, <3>2, HandledNone
    <3>4. passenger'[p].driver_socket = None  BY <1>6, <2>1
    <3> QED  BY <1>1, <1>4, <3>3, <3>4 DEF Settled, AcceptMsg, OfType
  <2> HIDE DEF s
  <2> QED  BY <1>1, <1>6, <1>7, <1>8, <1>9, <1>11, <2>2, QuietOwn
<1>12. CASE e \in up /\ Mail(p, <<Plain("Login")>>, Self(e), <<m>>)
  <2> DEFINE own == <<Plain("Login")>>
             c   == Self(e)
  <2>1. e \in Drivers
    <3>1. e \in Actors  BY <1>1, <1>12 DEF TypeOK
    <3> QED  BY <1>5, <3>1, RideAssumption DEF Actors
  <2>2. c \in Process(Drivers) \cup {None} /\ c.actor = e /\ Running(c)
    <3>1. c \in Process(Drivers) /\ c \in Process(Actors)
      BY <1>1, <2>1, ActorsApart DEF TypeOK, Self, Process
    <3> QED  BY <1>12, <3>1, NoneAssumption DEF Running, Self
  <2>3. m \in Msg /\ m \in From(p) /\ m \in AskedBy(Self(p))
    <3>1. m \in Msg /\ m.type = "PassengerRecover" /\ m.from = Self(p) /\ Self(p).actor = p
      BY <1>1, TypedMsg DEF Self, Msg, DriverMsg, TypeOK, Process
    <3> HIDE DEF m
    <3> QED  BY <3>1 DEF From, DriverInbox, AskedBy, OfType
  <2>4. own \in Seq(Msg) /\ NoneOf(own, StartMsg) /\ Mail(p, own, c, <<m>>)  BY <1>9, <1>12
  <2>5. HasDriver(p, e)  BY <1>3, <1>5, <2>1 DEF HasDriver
  <2> HIDE DEF own, c, m, s
  <2>6. /\ PassengerFrame(p, {m}) /\ mailbox'[p] = Tail(mailbox[p]) \o own
        /\ \A d \in Drivers : d # e => mailbox'[d] = mailbox[d]
    BY <1>1, <1>6, <2>2, <2>3, <2>4, SendFrame
  <2>7. GoesOn(p)'
    <3>1. \E d \in Drivers : Awaits(p, d)'  BY <1>1, <2>1, <2>2, <2>3, <2>4, MailArrives
    <3> QED  BY <3>1 DEF GoesOn
  <2>8. \A d \in Drivers :
              \/ passenger'[p].driver_socket = d
              \/ passenger_file'[p] # None /\ passenger_file'[p].driver_socket = d
              \/ ~NoneOf(mailbox'[d], RecoverFrom(p))
              => HasDriver(p, d)
    BY <1>7, <2>5, <2>6 DEF HasDriver
  <2>9. {m} \subseteq AskedBy(Self(p)) /\ UNCHANGED <<up, starts>>  BY <1>1, <2>3
  <2> QED  BY <1>1, <1>8, <2>4, <2>6, <2>7, <2>8, <2>9, OwnStep
<1> QED  BY <1>10, <1>11, <1>12 DEF Recover

\* The process of a passenger is gone.
LEMMA EndsOn ==
    ASSUME IInv, Uninterrupted, NEW p \in Passengers, Ends(p),
           UNCHANGED <<starts, reconnecting, driverVars>>,
           passenger_file' = passenger_file
              \/ passenger_file' = [passenger_file EXCEPT ![p] = Saved(passenger[p])]
    PROVE  Uninterrupted'
<1>1. /\ TypeOK /\ \A q \in Passengers : passenger_file'[q] # passenger_file[q] => q = p
      /\ passenger_file'[p] = passenger_file[p] \/ passenger_file'[p] = Saved(passenger[p])
      /\ UNCHANGED <<driver, carried>>
  BY DEF IInv, TypeOK, driverVars
<1>2. /\ PassengerFrame(p, {}) /\ mailbox'[p] = <<>> /\ p \notin up'
      /\ passenger'[p] = NewPassenger /\ p \notin authorizing'
  BY <1>1, EndsFacts
<1>3. \A M : NoneOf(mailbox'[p], M)  BY <1>2, OneNone DEF NoneOf
<1>4. \A d \in Drivers : mailbox'[d] = mailbox[d] /\ (d \in up' <=> d \in up)
  BY <1>2 DEF PassengerFrame, Delivers
<1>5. DriverStays(p)'
  <2>1. ASSUME NEW d \in Drivers, HasDriver(p, d)' PROVE HasDriver(p, d)
    <3>1. \/ passenger_file'[p] # None /\ passenger_file'[p].driver_socket = d
          \/ ~NoneOf(mailbox[d], RecoverFrom(p))
      BY <1>2, <1>3, <1>4, <2>1, ActorsApart DEF HasDriver, NewPassenger, RecoverFrom, OfType
    <3> QED  BY <1>1, <3>1 DEF HasDriver, Saved
  <2>2. DriverStays(p)  BY DEF Uninterrupted
  <2> QED  BY <1>1, <1>4, <2>1, <2>2 DEF DriverStays, PassengerOf
<1>6. Connected(p)' /\ Fresh(p)' /\ GoesOn(p)'
  BY <1>2, <1>3 DEF Connected, Fresh, GoesOn
<1> QED  BY <1>2, <1>3, <1>5, <1>6, PassengerGoesOn

LEMMA EndingOn ==
    ASSUME IInv, Uninterrupted, NEW p \in Passengers,
           CrashPassenger(p) \/ TravelEnds(p)
    PROVE  Uninterrupted'
<1>1. CASE CrashPassenger(p)
  BY <1>1, EndsOn DEF CrashPassenger, serverVars
<1>2. CASE TravelEnds(p)
  BY <1>2, EndsOn DEF TravelEnds, ConfirmPayment, serverVars
<1> QED  BY <1>1, <1>2

LEMMA RecoverResponseOn ==
    ASSUME IInv, Uninterrupted, NEW p \in Passengers, RecoverResponse(p)
    PROVE  Uninterrupted'
<1> DEFINE m == Head(mailbox[p])
           t == "RecoverResponse"
<1>1. /\ TypeOK /\ p \in Actors /\ Handles(p, t) /\ passenger[p] \in PassengerState
      /\ UNCHANGED <<starts, reconnecting, driverVars, passenger_file>>
  BY PassengerTyped DEF RecoverResponse, serverVars
<1>2. m \in Msg /\ m.type = t /\ m.picked_up \in BOOLEAN /\ m.end_ride \in BOOLEAN
  BY <1>1, HeadMsg, MsgOfType
<1>3. CASE ConfirmPayment(p)
  BY <1>1, <1>3, EndsOn DEF ConfirmPayment
<1>4. CASE /\ passenger' = [passenger EXCEPT ![p].position = m.position]
           /\ Continue(p, <<Plain("Traveling")>>)
           /\ UNCHANGED <<up, gatewayVars>>
  <2> DEFINE s   == [passenger[p] EXCEPT !.position = m.position]
             own == <<Plain("Traveling")>>
  <2>1. /\ s.driver_socket = passenger[p].driver_socket /\ s.connection = passenger[p].connection
        /\ passenger' = [passenger EXCEPT ![p] = s]
    BY <1>1, <1>4 DEF PassengerState
  <2>2. own \in Seq(Msg) /\ NoneOf(own, StartMsg) /\ ~NoneOf(own, LiveMsg) /\ Continue(p, own)
    BY <1>4, OwnMsg
  <2> HIDE DEF s, own, t
  <2>3. /\ passenger'[p] = s /\ UNCHANGED <<up, authorizing>>
        /\ \A q \in Passengers \ {p} : passenger'[q] = passenger[q]
    BY <1>1, <1>4, <2>1 DEF TypeOK, gatewayVars
  <2>4. p \in authorizing' \/ ~NoneOf(mailbox[p], RequestMsg)
              => Running(passenger'[p].connection)
    BY <2>1, <2>3 DEF Uninterrupted, Connected
  <2>5. \A d \in Drivers :
         \/ passenger'[p].driver_socket = d
         \/ passenger_file'[p] # None /\ passenger_file'[p].driver_socket = d
         => HasDriver(p, d)
    BY <1>1, <2>1, <2>3 DEF HasDriver
  <2> QED  BY <1>1, <2>2, <2>3, <2>4, <2>5, QuietOwn
<1>5. CASE /\ ~m.end_ride /\ ~m.picked_up
           /\ Continue(p, <<>>)
           /\ UNCHANGED <<up, gatewayVars, passenger>>
  <2>1. m \notin LiveMsg
    BY <1>2, <1>5 DEF LiveMsg, SearchMsg, RecoverMsg, TravelMsg, OfType
  <2> HIDE DEF t
  <2> QED  BY <1>1, <1>5, <2>1, OwnMsg, SameOwn DEF gatewayVars, passengerVars
<1> QED  BY <1>3, <1>4, <1>5 DEF RecoverResponse

LEMMA AuthorizeOn ==
    ASSUME IInv, Uninterrupted, NEW p \in Passengers, Authorize(p)
    PROVE  Uninterrupted'
<1>1. PICK yes \in BOOLEAN : mailbox' = [mailbox EXCEPT ![p] = @ \o Decision(yes)]
  BY DEF Authorize, authorize_payment
<1> DEFINE out == Decision(yes)
<1>2. /\ TypeOK /\ p \in Actors /\ p \in authorizing /\ mailbox[p] \in Seq(Msg)
      /\ authorizing' = authorizing \ {p}
      /\ UNCHANGED <<up, starts, reconnecting, driverVars, passenger, passenger_file>>
  BY PassengerTyped DEF Authorize, serverVars, passengerVars
<1>3. /\ out \in Seq(Msg) /\ ~NoneOf(out, LiveMsg)
      /\ NoneOf(out, ReturnMsg) /\ NoneOf(out, AcceptMsg) /\ NoneOf(out, RecoverMsg)
  <2>1. \A x \in {"PaymentAuthorized", "RequestDrive", "PaymentDeny"} :
           Plain(x) \in Msg /\ Plain(x).type = x
    BY PlainMsg DEF PlainType
  <2>2. CASE ~yes
    <3> DEFINE m == Plain("PaymentDeny")
    <3>1. out = <<m>>  BY <2>2 DEF Decision
    <3>2. m \in Msg /\ m.type = "PaymentDeny"  BY <2>1
    <3> HIDE DEF m, out
    <3>3. m \notin ReturnMsg /\ m \notin AcceptMsg /\ m \notin RecoverMsg /\ m \in LiveMsg
      BY <3>2 DEF ReturnMsg, AcceptMsg, RecoverMsg, LiveMsg, SearchMsg, OfType
    <3> QED  BY <3>1, <3>2, <3>3, OneNone
  <2>3. CASE yes
    <3> DEFINE a == Plain("PaymentAuthorized")
               b == Plain("RequestDrive")
    <3>1. out = <<a, b>>  BY <2>3 DEF Decision
    <3>2. a \in Msg /\ b \in Msg /\ a.type = "PaymentAuthorized" /\ b.type = "RequestDrive"
      BY <2>1
    <3> HIDE DEF a, b, out
    <3>3. /\ a \notin ReturnMsg /\ a \notin AcceptMsg /\ a \notin RecoverMsg
          /\ b \notin ReturnMsg /\ b \notin AcceptMsg /\ b \notin RecoverMsg /\ b \in LiveMsg
      BY <3>2 DEF ReturnMsg, AcceptMsg, RecoverMsg, LiveMsg, SearchMsg, OfType
    <3> QED  BY <3>1, <3>2, <3>3, PairNone
  <2> QED  BY <2>2, <2>3
<1> HIDE DEF out
<1>4. /\ mailbox'[p] = mailbox[p] \o out
      /\ \A b \in Actors : b # p => mailbox'[b] = mailbox[b]
  BY <1>1, <1>2 DEF TypeOK, out
<1>5. \A M : NoneOf(mailbox'[p], M) <=> NoneOf(mailbox[p], M) /\ NoneOf(out, M)
  BY <1>2, <1>3, <1>4, AppendNone
<1>6. PassengerFrame(p, {}) /\ \A d \in Drivers : mailbox'[d] = mailbox[d]
  <2>1. \A d \in Drivers : Delivers(d, {}) /\ mailbox'[d] = mailbox[d] /\ (d \in up' <=> d \in up)
    BY <1>2, <1>4, ActorsApart DEF Delivers
  <2> QED  BY <1>2, <1>4, <2>1, ActorsApart DEF PassengerFrame
<1>7. NoneOf(mailbox'[p], ReturnMsg)  BY <1>2, <1>3, <1>5 DEF Uninterrupted
<1>8. DriverStays(p)'
  <2>1. \A d \in Drivers : NoneOf(out, AcceptedBy(d))  BY <1>3 DEF NoneOf, AcceptedBy
  <2>2. \A d \in Drivers : NoneOf(mailbox[p], AcceptedBy(d)) => NoneOf(mailbox'[p], AcceptedBy(d))
    BY <1>5, <2>1
  <2>3. UNCHANGED <<driver, carried>>  BY <1>2 DEF driverVars
  <2>4. DriverStays(p)  BY DEF Uninterrupted
  <2> QED
    BY <1>2, <1>6, <2>2, <2>3, <2>4
       DEF DriverStays, HasDriver, AcceptedBy, AcceptMsg, RecoverFrom, OfType, PassengerOf
<1>9. Connected(p)'
  BY <1>2 DEF Uninterrupted, Connected, Running
<1>10. Fresh(p)'
  <2>1. NoneOf(mailbox[p], RecoverMsg)
    BY <1>2 DEF IInv, PassengerInv, PassengerRecovers
  <2>2. NoneOf(mailbox'[p], RecoverMsg)  BY <1>3, <1>5, <2>1
  <2> QED  BY <2>2 DEF Fresh, RecoverMsg, OfType
<1>11. GoesOn(p)'
  BY <1>3, <1>5 DEF GoesOn, LiveMsg, SearchMsg, RecoverMsg, TravelMsg, OfType
<1> QED  BY <1>2, <1>6, <1>7, <1>8, <1>9, <1>10, <1>11, PassengerGoesOn

LEMMA PassengerOn ==
    ASSUME IInv, Uninterrupted, NEW p \in Passengers,
           CrashPassenger(p) \/ Authorize(p) \/ PassengerStep(p)
    PROVE  Uninterrupted'
<1>1. ~ReconnectDriver(p)
  <2> SUFFICES ASSUME Handles(p, "ReconnectDriver") PROVE FALSE  BY DEF ReconnectDriver
  <2>1. /\ p \in Actors /\ mailbox[p] \in Seq(Msg) /\ mailbox[p] # <<>>
        /\ Head(mailbox[p]) \in ReturnMsg
    BY PassengerTyped, HeadMsg DEF ReturnMsg, OfType
  <2> QED  BY <2>1, HeadFacts DEF Uninterrupted
<1> QED
  BY <1>1, SimpleOn, WritingOn, DriversHandlerOn, RequestDriveOn, RecoverOn, EndingOn,
     RecoverResponseOn, AuthorizeOn DEF PassengerStep

-----------------------------------------------------------------------------
(* What a driver does.                                                     *)

\* Whom d serves it serves on, and asks nobody itself; whoever waits for it
\* goes on waiting or is told how to go on.
DriverKeeps(d, p) ==
    /\ PassengerOf(driver[d]) = p => p \in carried' \/ PassengerOf(driver'[d]) = p
    /\ NoneOf(mailbox[d], RecoverFrom(p)) => NoneOf(mailbox'[d], RecoverFrom(p))
    /\ NoneOf(mailbox[d], AskedBy(Self(p))) => NoneOf(mailbox'[d], AskedBy(Self(p)))
    /\ p \in up /\ Awaits(p, d) => Awaits(p, d)' \/ ~NoneOf(mailbox'[p], LiveMsg)

\* A step of d is one of a system that goes on if d itself does.
LEMMA DriverGoesOn ==
    ASSUME IInv, Uninterrupted, NEW d \in Drivers, d \in up, NEW c, NEW m, DriverFrame(d, c, m),
           UNCHANGED <<up, starts, reconnecting>>,
           m.type # "ReconnectDriver",
           NoneOf(mailbox'[d], ReturnMsg), FirstWay(d)', Newest(d)',
           \A p \in Passengers : DriverKeeps(d, p),
           \A p \in Passengers : mailbox'[p] # mailbox[p] /\ m \in AcceptMsg =>
              m.socket = d /\ Fetches(d, p)' /\ NoneOf(mailbox[p], RecoverMsg)
    PROVE  Uninterrupted'
<1>1. /\ TypeOK /\ reconnecting' = {} /\ carried \subseteq carried'
      /\ UNCHANGED <<authorizing, passenger, passenger_file>>
      /\ \A e \in Drivers \ {d} :
            /\ mailbox'[e] = mailbox[e] /\ driver'[e] = driver[e]
            /\ driver_file'[e] = driver_file[e]
            /\ current_passenger_connection'[e] = current_passenger_connection[e]
  BY DEF IInv, DriverFrame, Uninterrupted, passengerVars
<1>2. ASSUME NEW p \in Passengers
      PROVE  /\ \A M : m \notin M => (NoneOf(mailbox'[p], M) <=> NoneOf(mailbox[p], M))
             /\ \A M : ~NoneOf(mailbox[p], M) => ~NoneOf(mailbox'[p], M)
             /\ mailbox'[p] # mailbox[p] => m \in PassengerInbox
  BY DeliveredTo
<1>3. ASSUME NEW p \in Passengers, NEW M, M \cap PassengerInbox = {}
      PROVE  NoneOf(mailbox'[p], M) <=> NoneOf(mailbox[p], M)
  BY <1>2, <1>3
<1>4. /\ RecoverMsg \cap PassengerInbox = {} /\ RequestMsg \cap PassengerInbox = {}
      /\ m \notin ReturnMsg \/ m \notin PassengerInbox
  BY DEF RecoverMsg, RequestMsg, PassengerInbox, ReturnMsg, OfType
<1>5. ASSUME NEW a \in Actors PROVE NoneOf(mailbox'[a], ReturnMsg)
  <2>1. NoneOf(mailbox[a], ReturnMsg)  BY DEF Uninterrupted
  <2> QED  BY <1>1, <1>2, <1>4, <2>1, ActorsApart
<1>6. ASSUME NEW e \in Drivers PROVE FirstWay(e)' /\ Newest(e)'
  <2>1. CASE e = d  BY <2>1
  <2>2. CASE e # d
    <3>1. FirstWay(e) /\ Newest(e)  BY DEF Uninterrupted
    <3> QED
      BY <1>1, <2>2, <3>1
         DEF FirstWay, Newest, InOrder, Started, Precedes, EndMsg, DriverInbox, OfType
  <2> QED  BY <2>1, <2>2
<1>7. ASSUME NEW p \in Passengers
      PROVE  DriverStays(p)' /\ Connected(p)' /\ Fresh(p)' /\ GoesOn(p)'
  <2>1. DriverStays(p) /\ Connected(p) /\ Fresh(p) /\ GoesOn(p) /\ DriverKeeps(d, p)
    BY DEF Uninterrupted
  <2>2. Self(p)' = Self(p)  BY DEF Self
  <2>3. mailbox'[p] # mailbox[p] /\ m \in AcceptMsg =>
           m.socket = d /\ Fetches(d, p)' /\ NoneOf(mailbox[p], RecoverMsg)
    OBVIOUS
  <2>4. DriverStays(p)'
    <3> SUFFICES ASSUME NEW e \in Drivers, HasDriver(p, e)'
                 PROVE  e \in up' /\ (p \in carried' \/ PassengerOf(driver'[e]) = p)
      BY DEF DriverStays, PassengerOf
    <3>1. CASE HasDriver(p, e)
      <4>1. e \in up /\ (p \in carried \/ PassengerOf(driver[e]) = p)
        BY <2>1, <3>1 DEF DriverStays
      <4> QED  BY <1>1, <2>1, <4>1 DEF DriverKeeps
    <3>2. CASE ~HasDriver(p, e)
      <4>1. ~NoneOf(mailbox'[p], AcceptedBy(e)) /\ NoneOf(mailbox[p], AcceptedBy(e))
        BY <1>1, <2>1, <3>2 DEF HasDriver, DriverKeeps, AcceptedBy, AcceptMsg, RecoverFrom, OfType
      <4>2. m \in AcceptedBy(e) /\ mailbox'[p] # mailbox[p]  BY <1>2, <4>1
      <4>3. e = d /\ Fetches(d, p)'  BY <2>3, <4>2 DEF AcceptedBy
      <4> QED  BY <4>3 DEF Fetches, PassengerOf
    <3> QED  BY <3>1, <3>2
  <2>5. Connected(p)'
    <3>1. NoneOf(mailbox'[p], RequestMsg) <=> NoneOf(mailbox[p], RequestMsg)  BY <1>3, <1>4
    <3> QED  BY <1>1, <2>1, <3>1 DEF Connected, Running, RequestMsg, OfType
  <2>6. Fresh(p)'
    <3>1. SUFFICES ASSUME ~NoneOf(mailbox'[p], RecoverMsg)
                   PROVE  /\ starts[p] > 1
                          /\ NoneOf(mailbox'[p], RequestMsg) /\ NoneOf(mailbox'[p], AcceptMsg)
                          /\ \A e \in Drivers : NoneOf(mailbox'[e], AskedBy(Self(p)))
      BY <2>2 DEF Fresh, RecoverMsg, RequestMsg, AcceptMsg, AskedBy, OfType
    <3>2. ~NoneOf(mailbox[p], RecoverMsg)  BY <1>3, <1>4, <3>1
    <3>3. /\ starts[p] > 1
          /\ NoneOf(mailbox[p], RequestMsg) /\ NoneOf(mailbox[p], AcceptMsg)
          /\ \A e \in Drivers : NoneOf(mailbox[e], AskedBy(Self(p)))
      BY <2>1, <3>2 DEF Fresh
    <3>4. NoneOf(mailbox'[p], RequestMsg)  BY <1>3, <1>4, <3>3
    <3>5. NoneOf(mailbox'[p], AcceptMsg)  BY <1>2, <2>3, <3>2, <3>3
    <3>6. \A e \in Drivers : NoneOf(mailbox'[e], AskedBy(Self(p)))
      BY <1>1, <2>1, <3>3 DEF DriverKeeps
    <3> QED  BY <3>3, <3>4, <3>5, <3>6
  <2>7. GoesOn(p)'
    <3>1. SUFFICES ASSUME p \in up
                   PROVE  \/ p \in authorizing'
                          \/ ~NoneOf(mailbox'[p], LiveMsg)
                          \/ \E e \in Drivers : Awaits(p, e)'
                          \/ Settled(p)'
      BY DEF GoesOn, LiveMsg, SearchMsg, RecoverMsg, TravelMsg, OfType
    <3>2. ASSUME NEW e \in Drivers, Awaits(p, e)
          PROVE  (\E x \in Drivers : Awaits(p, x)') \/ ~NoneOf(mailbox'[p], LiveMsg)
      <4>1. CASE e = d  BY <2>1, <3>1, <3>2, <4>1 DEF DriverKeeps
      <4>2. CASE e # d
        <5>1. Awaits(p, e)'
          BY <1>1, <2>2, <3>2, <4>2 DEF Awaits, Fetches, PassengerOf, AskedBy, OfType
        <5> QED  BY <5>1
      <4> QED  BY <4>1, <4>2
    <3>3. ASSUME Settled(p)
          PROVE  Settled(p)' \/ \E e \in Drivers : Awaits(p, e)'
      <4>1. CASE NoneOf(mailbox'[p], AcceptMsg)
        BY <1>1, <3>3, <4>1 DEF Settled, AcceptMsg, OfType
      <4>2. CASE ~NoneOf(mailbox'[p], AcceptMsg)
        <5>1. m \in AcceptMsg /\ mailbox'[p] # mailbox[p]  BY <1>2, <3>3, <4>2 DEF Settled
        <5>2. Awaits(p, d)'  BY <2>3, <5>1 DEF Awaits
        <5> QED  BY <5>2
      <4> QED  BY <4>1, <4>2
    <3> QED  BY <1>1, <1>2, <2>1, <3>1, <3>2, <3>3 DEF GoesOn
  <2> QED  BY <2>4, <2>5, <2>6, <2>7
<1>8. \A a \in Actors : NoneOf(mailbox[a], ReturnMsg)'
  BY <1>5 DEF ReturnMsg, OfType
<1> QED  BY <1>1, <1>6, <1>7, <1>8 DEF Uninterrupted

\* What d has still to handle once it has handled its head.
LEMMA DriverHandled ==
    ASSUME IInv, Uninterrupted, NEW d \in Drivers, NEW t, Handles(d, t), UNCHANGED starts,
           NEW own \in Seq(Msg), NoneOf(own, DriverInbox), NoneOf(own, ReturnMsg),
           mailbox'[d] = Tail(mailbox[d]) \o own,
           \/ current_passenger_connection'[d] = current_passenger_connection[d]
           \/ /\ Head(mailbox[d]) \in DriverInbox
              /\ current_passenger_connection'[d] = Head(mailbox[d]).from
    PROVE  /\ d \in up /\ mailbox[d] # <<>> /\ mailbox[d] \in Seq(Msg)
           /\ Head(mailbox[d]) \in Msg /\ Head(mailbox[d]).type = t
           /\ NoneOf(mailbox'[d], ReturnMsg) /\ Newest(d)'
           /\ \A M : NoneOf(mailbox'[d], M) <=> NoneOf(Tail(mailbox[d]), M) /\ NoneOf(own, M)
           /\ \A M : NoneOf(mailbox[d], M) <=> Head(mailbox[d]) \notin M /\ NoneOf(Tail(mailbox[d]), M)
           /\ \A p \in Passengers :
                 /\ NoneOf(mailbox[d], RecoverFrom(p)) => NoneOf(mailbox'[d], RecoverFrom(p))
                 /\ NoneOf(mailbox[d], AskedBy(Self(p))) => NoneOf(mailbox'[d], AskedBy(Self(p)))
                 /\ ~NoneOf(mailbox[d], AskedBy(Self(p))) =>
                       ~NoneOf(mailbox'[d], AskedBy(Self(p))) \/ Head(mailbox[d]) \in AskedBy(Self(p))
<1> DEFINE q == mailbox[d]
           r == Tail(q)
           c == current_passenger_connection[d]
<1>1. /\ TypeOK /\ d \in Actors /\ d \in up /\ q \in Seq(Msg) /\ q # <<>>
      /\ Head(q) \in Msg /\ Head(q).type = t
  BY DriverTyped, HeadMsg
<1>2. /\ r \in Seq(Msg)
      /\ \A M : NoneOf(mailbox'[d], M) <=> NoneOf(r, M) /\ NoneOf(own, M)
      /\ \A M : NoneOf(q, M) <=> Head(q) \notin M /\ NoneOf(r, M)
  BY <1>1, HandledNone, TailExtends
<1>3. /\ NoneOf(q, ReturnMsg) /\ InOrder(q) /\ Started(q)
      /\ c # None => c.start <= starts[c.actor] /\ Precedes(c, q)
  BY <1>1 DEF Uninterrupted, Newest
<1>4. NoneOf(mailbox'[d], ReturnMsg)  BY <1>2, <1>3
<1>5. ASSUME NEW p \in Passengers
      PROVE  NoneOf(own, RecoverFrom(p)) /\ NoneOf(own, AskedBy(Self(p)))
  BY DEF NoneOf, RecoverFrom, AskedBy, DriverInbox, OfType
<1>6. /\ InOrder(r) /\ Started(r)
      /\ \A k : Precedes(k, q) => Precedes(k, r)
      /\ Head(q) \in DriverInbox => Precedes(Head(q).from, r)
  BY <1>1, <1>3, OrderTail
<1>7. /\ InOrder(mailbox'[d]) /\ Started(mailbox'[d])
      /\ \A k : Precedes(k, r) => Precedes(k, mailbox'[d])
  BY <1>2, <1>6, OrderOwn
<1>8. Head(q) \in DriverInbox => Head(q).from.start <= starts[Head(q).from.actor]
  <2>1. 1 \in 1..Len(q) /\ q[1] = Head(q)
    BY <1>1, HeadTailProperties, LenProperties, EmptySeq
  <2> QED  BY <1>3, <2>1 DEF Started
<1> DEFINE k == current_passenger_connection'[d]
<1>9. k # None => k.start <= starts[k.actor] /\ Precedes(k, mailbox'[d])
  BY <1>3, <1>6, <1>7, <1>8
<1>10. Newest(d)'
  BY <1>7, <1>9 DEF Newest, InOrder, Started, Precedes, DriverInbox, OfType
<1> QED  BY <1>1, <1>2, <1>4, <1>5, <1>10

\* A handler that is about nobody's request.
LEMMA HandlerOn ==
    ASSUME IInv, Uninterrupted, NEW d \in Drivers, NEW t, Handles(d, t),
           t \notin {"RequestRide", "PassengerRecover"},
           NEW c, NEW m, DriverFrame(d, c, m), m.type \notin {"ReconnectDriver", "RideAccepted"},
           UNCHANGED <<up, starts, reconnecting>>,
           NEW own \in Seq(Msg), NoneOf(own, DriverInbox), NoneOf(own, ReturnMsg),
           mailbox'[d] = Tail(mailbox[d]) \o own,
           current_passenger_connection'[d] = current_passenger_connection[d],
           \/ ~NoneOf(Tail(mailbox[d]), EndMsg) \/ ~NoneOf(own, EndMsg)
           \/ driver'[d].is_available /\ driver'[d].id_current_passenger # None
           => driver'[d].position = "destination",
           \A p \in Passengers : PassengerOf(driver[d]) = p =>
              p \in carried' \/ PassengerOf(driver'[d]) = p,
           \A p \in Passengers : p \in up /\ Fetches(d, p) =>
              Fetches(d, p)' \/ ~NoneOf(mailbox'[p], LiveMsg)
    PROVE  Uninterrupted'
<1>1. /\ d \in up /\ Head(mailbox[d]).type = t
      /\ NoneOf(mailbox'[d], ReturnMsg) /\ Newest(d)'
      /\ \A M : NoneOf(mailbox'[d], M) <=> NoneOf(Tail(mailbox[d]), M) /\ NoneOf(own, M)
      /\ \A p \in Passengers :
            /\ NoneOf(mailbox[d], RecoverFrom(p)) => NoneOf(mailbox'[d], RecoverFrom(p))
            /\ NoneOf(mailbox[d], AskedBy(Self(p))) => NoneOf(mailbox'[d], AskedBy(Self(p)))
            /\ ~NoneOf(mailbox[d], AskedBy(Self(p))) =>
                  ~NoneOf(mailbox'[d], AskedBy(Self(p))) \/ Head(mailbox[d]) \in AskedBy(Self(p))
  BY DriverHandled
<1>2. FirstWay(d)'
  <2>1. ~NoneOf(mailbox'[d], EndMsg) => ~NoneOf(Tail(mailbox[d]), EndMsg) \/ ~NoneOf(own, EndMsg)
    BY <1>1
  <2> QED  BY <1>1, <2>1 DEF FirstWay, EndMsg, OfType
<1>3. ASSUME NEW p \in Passengers PROVE DriverKeeps(d, p)
  <2>1. Head(mailbox[d]) \notin AskedBy(Self(p))  BY <1>1 DEF AskedBy, OfType
  <2>2. p \in up /\ Awaits(p, d) => Awaits(p, d)' \/ ~NoneOf(mailbox'[p], LiveMsg)
    <3>1. ~NoneOf(mailbox'[d], AskedBy(Self(p))) => Awaits(p, d)'
      BY DEF Awaits, AskedBy, OfType, Self
    <3>2. Fetches(d, p)' => Awaits(p, d)'  BY DEF Awaits
    <3> QED  BY <1>1, <2>1, <3>1, <3>2 DEF Awaits
  <2> QED  BY <1>1, <2>2 DEF DriverKeeps
<1>4. m \notin AcceptMsg  BY DEF AcceptMsg, OfType
<1> QED  BY <1>1, <1>2, <1>3, <1>4, DriverGoesOn

\* The one message of its way that d handles is the only one.
LEMMA OneWay ==
    ASSUME IInv, NEW d \in Drivers,
           NEW t \in {"StartRide", "PickUpPassenger", "RideToDestination", "EndRide"}, Handles(d, t)
    PROVE  NoneOf(Tail(mailbox[d]), EndMsg)
<1>1. TypeOK /\ d \in Actors /\ DriverInv(d)  BY DriverTyped
<1>2. /\ mailbox[d] \in Seq(Msg) /\ mailbox[d] # <<>>
      /\ Head(mailbox[d]) \in Msg /\ Head(mailbox[d]).type = t
  BY <1>1, HeadMsg
<1>3. Head(mailbox[d]) \in WayMsg  BY <1>2 DEF WayMsg, OfType
<1>4. NoneOf(Tail(mailbox[d]), WayMsg)
  BY <1>1, <1>2, <1>3, HeadFacts DEF DriverInv, DriverWay
<1> QED  BY <1>4 DEF NoneOf, WayMsg, EndMsg, OfType

\* What a driver on its way sends to itself.
LEMMA WayOwn ==
    ASSUME NEW w \in {"StartRide", "PickUpPassenger", "RideToDestination", "EndRide"}
    PROVE  /\ <<Plain(w)>> \in Seq(Msg) /\ Plain(w) \in Msg
           /\ NoneOf(<<Plain(w)>>, DriverInbox) /\ NoneOf(<<Plain(w)>>, ReturnMsg)
           /\ NoneOf(<<Plain(w)>>, EndMsg) <=> w # "EndRide"
           /\ \A M : M \subseteq DriverInbox \cup ReturnMsg => NoneOf(<<Plain(w)>>, M)
<1> DEFINE m == Plain(w)
<1>1. m \in Msg /\ m.type = w  BY PlainMsg DEF PlainType
<1> HIDE DEF m
<1>2. m \notin DriverInbox /\ m \notin ReturnMsg /\ (m \in EndMsg <=> w = "EndRide")
  BY <1>1 DEF DriverInbox, ReturnMsg, EndMsg, OfType
<1>3. <<m>> \in Seq(Msg) /\ \A M : NoneOf(<<m>>, M) <=> m \notin M  BY <1>1, OneNone
<1> QED  BY <1>1, <1>2, <1>3 DEF m

LEMMA QuietMsg ==
    /\ Plain("Login").type \notin {"ReconnectDriver", "RideAccepted"}
    /\ <<>> \in Seq(Msg) /\ \A M : NoneOf(<<>>, M)
BY OneNone, PlainMsg DEF Plain, NoneOf

LEMMA RegisterOn ==
    ASSUME IInv, Uninterrupted, NEW d \in Drivers, Register(d)
    PROVE  Uninterrupted'
<1> DEFINE t   == "Register"
           own == <<>>
           m   == Plain("Login")
<1>1. /\ TypeOK /\ d \in Actors /\ Handles(d, t) /\ mailbox[d] # <<>> /\ Continue(d, own)
      /\ mailbox[d] \in Seq(Msg)
      /\ UNCHANGED <<up, starts, reconnecting, driver, current_passenger_connection, saving, carried,
                     authorizing, passengerVars>>
  BY DriverTyped DEF Handles, Register, gatewayVars
<1>2. own \in Seq(Msg) /\ \A M : NoneOf(own, M)  BY QuietMsg
<1>3. OthersAlone(d)
  <2>1. \A e \in Drivers \ {d} : driver_file'[e] = driver_file[e]
    BY <1>1 DEF Register, TypeOK
  <2> QED  BY <1>1, <2>1 DEF OthersAlone
<1> HIDE DEF own
<1>4. DriverFrame(d, None, m) /\ mailbox'[d] = Tail(mailbox[d]) \o own
  BY <1>1, <1>2, <1>3, QuietDriver
<1>5. \/ ~NoneOf(Tail(mailbox[d]), EndMsg) \/ ~NoneOf(own, EndMsg)
      \/ driver'[d].is_available /\ driver'[d].id_current_passenger # None
      => driver'[d].position = "destination"
  <2>1. NoneOf(mailbox[d], EndMsg) => NoneOf(Tail(mailbox[d]), EndMsg)  BY <1>1, HandledNone
  <2>2. FirstWay(d)  BY DEF Uninterrupted
  <2> QED  BY <1>1, <1>2, <2>1, <2>2 DEF FirstWay
<1>6. \A p \in Passengers :
         /\ PassengerOf(driver[d]) = p => p \in carried' \/ PassengerOf(driver'[d]) = p
         /\ p \in up /\ Fetches(d, p) => Fetches(d, p)' \/ ~NoneOf(mailbox'[p], LiveMsg)
  BY <1>1 DEF Fetches, PassengerOf, Self
<1>7. m.type \notin {"ReconnectDriver", "RideAccepted"}  BY QuietMsg
<1> HIDE DEF m
<1> QED  BY <1>1, <1>2, <1>4, <1>5, <1>6, <1>7, HandlerOn

\* A step of the way that tells nobody.
LEMMA QuietWayOn ==
    ASSUME IInv, Uninterrupted, NEW d \in Drivers,
           NEW t \in {"StartRide", "PickUpPassenger", "RideToDestination"}, Handles(d, t),
           NEW w \in {"PickUpPassenger", "RideToDestination", "EndRide"}, Continue(d, <<Plain(w)>>),
           \/ driver' = driver /\ w # "EndRide"
           \/ \E q \in Place : /\ driver' = [driver EXCEPT ![d].position = q]
                               /\ w = "EndRide" => q = "destination",
           driver_file' = driver_file \/ driver_file' = [driver_file EXCEPT ![d] = driver[d]],
           UNCHANGED <<up, starts, serverVars, gatewayVars, current_passenger_connection, saving,
                       carried, passengerVars, counts>>
    PROVE  Uninterrupted'
<1> DEFINE own == <<Plain(w)>>
           m   == Plain("Login")
<1>1. /\ TypeOK /\ d \in Actors /\ Continue(d, own) /\ mailbox[d] # <<>>
      /\ driver \in [Drivers -> DriverState] /\ ~driver[d].is_available
      /\ UNCHANGED <<up, starts, reconnecting, current_passenger_connection>>
  BY DriverTyped, BusyOnWay DEF Handles, serverVars
<1>2. /\ own \in Seq(Msg) /\ NoneOf(own, DriverInbox) /\ NoneOf(own, ReturnMsg)
      /\ w # "EndRide" => NoneOf(own, EndMsg)
  BY WayOwn
<1>3. /\ \A e \in Drivers \ {d} : driver'[e] = driver[e]
      /\ driver'[d].is_available = driver[d].is_available
      /\ driver'[d].id_current_passenger = driver[d].id_current_passenger
      /\ driver'[d].passenger_picked_up = driver[d].passenger_picked_up
      /\ w = "EndRide" => driver'[d].position = "destination"
  <2>1. CASE driver' = driver /\ w # "EndRide"  BY <2>1
  <2>2. ASSUME NEW q \in Place, driver' = [driver EXCEPT ![d].position = q],
               w = "EndRide" => q = "destination"
        PROVE  <1>3
    BY <1>1, <2>2 DEF DriverState
  <2> QED  BY <2>1, <2>2
<1>4. \A e \in Drivers \ {d} : driver_file'[e] = driver_file[e]
  <2>1. driver_file \in [Drivers -> DriverState \cup {None}]  BY <1>1 DEF TypeOK
  <2> QED  BY <1>1, <2>1
<1>5. OthersAlone(d)  BY <1>3, <1>4 DEF OthersAlone, gatewayVars, serverVars
<1> HIDE DEF own
<1>6. DriverFrame(d, None, m) /\ mailbox'[d] = Tail(mailbox[d]) \o own
  BY <1>1, <1>2, <1>5, QuietDriver
<1>7. \/ ~NoneOf(Tail(mailbox[d]), EndMsg) \/ ~NoneOf(own, EndMsg)
      \/ driver'[d].is_available /\ driver'[d].id_current_passenger # None
      => driver'[d].position = "destination"
  BY <1>1, <1>2, <1>3, OneWay
<1>8. PassengerOf(driver'[d]) = PassengerOf(driver[d])
  <2>1. driver[d] # None /\ driver'[d] # None
    <3>1. driver'[d] \in DriverState
      BY <1>1 DEF DriverState
    <3> QED  BY <1>1, <3>1, NoneAssumption
  <2> QED  BY <1>3, <2>1 DEF PassengerOf
<1>9. \A p \in Passengers :
         /\ PassengerOf(driver[d]) = p => p \in carried' \/ PassengerOf(driver'[d]) = p
         /\ p \in up /\ Fetches(d, p) => Fetches(d, p)' \/ ~NoneOf(mailbox'[p], LiveMsg)
  BY <1>1, <1>3, <1>8 DEF Fetches, PassengerOf, Self
<1>10. m.type \notin {"ReconnectDriver", "RideAccepted"}
       /\ t \notin {"RequestRide", "PassengerRecover"}
  BY QuietMsg
<1> HIDE DEF m
<1> QED  BY <1>1, <1>2, <1>6, <1>7, <1>9, <1>10, HandlerOn

LEMMA WayOn ==
    ASSUME IInv, Uninterrupted, NEW d \in Drivers,
           StartRide(d) \/ ApproachPassenger(d) \/ RideOn(d) \/ ReachDestination(d)
    PROVE  Uninterrupted'
<1>1. CASE StartRide(d)
  <2>1. Handles(d, "StartRide") /\ Continue(d, <<Plain("PickUpPassenger")>>)
    BY <1>1 DEF StartRide
  <2> QED  BY <1>1, <2>1, QuietWayOn DEF StartRide, driverVars
<1>2. CASE ApproachPassenger(d)
  <2>1. /\ Handles(d, "PickUpPassenger") /\ Continue(d, <<Plain("PickUpPassenger")>>)
        /\ \E q \in Place : driver' = [driver EXCEPT ![d].position = q]
    BY <1>2 DEF ApproachPassenger, Step
  <2> QED  BY <1>2, <2>1, QuietWayOn DEF ApproachPassenger
<1>3. CASE RideOn(d)
  <2>1. /\ Handles(d, "RideToDestination") /\ Continue(d, <<Plain("RideToDestination")>>)
        /\ \E q \in Place : driver' = [driver EXCEPT ![d].position = q]
    BY <1>3 DEF RideOn, RideStep, Step
  <2> QED  BY <1>3, <2>1, QuietWayOn DEF RideOn, RideStep
<1>4. CASE ReachDestination(d)
  <2>1. /\ Handles(d, "RideToDestination") /\ Continue(d, <<Plain("EndRide")>>)
        /\ \E q \in Place : driver' = [driver EXCEPT ![d].position = q] /\ q = "destination"
    BY <1>4 DEF ReachDestination, RideStep, Step
  <2> QED  BY <1>4, <2>1, QuietWayOn DEF ReachDestination, RideStep
<1> QED  BY <1>1, <1>2, <1>3, <1>4

LEMMA EndRideOn ==
    ASSUME IInv, Uninterrupted, NEW d \in Drivers, EndRide(d)
    PROVE  Uninterrupted'
<1> DEFINE t   == "EndRide"
           s   == Freed(driver[d])
           own == <<>>
           m   == Plain("Login")
<1>1. /\ TypeOK /\ d \in Actors /\ Handles(d, t) /\ Continue(d, own)
      /\ driver \in [Drivers -> DriverState]
      /\ driver' = [driver EXCEPT ![d] = s]
      /\ saving' = [saving EXCEPT ![d] = "EndRide"]
      /\ UNCHANGED <<up, starts, reconnecting, authorizing, driver_file,
                     current_passenger_connection, carried, passengerVars>>
  BY DriverTyped DEF EndRide, gatewayVars
<1>2. /\ mailbox[d] \in Seq(Msg) /\ mailbox[d] # <<>>
      /\ Head(mailbox[d]) \in Msg /\ Head(mailbox[d]).type = t
  BY <1>1, HeadMsg
<1>3. driver[d].position = "destination"
  <2>1. Head(mailbox[d]) \in EndMsg  BY <1>2 DEF EndMsg, OfType
  <2>2. ~NoneOf(mailbox[d], EndMsg)  BY <1>2, <2>1, HeadFacts
  <2> QED  BY <2>2 DEF Uninterrupted, FirstWay
<1>4. s.position = "destination" /\ s \in DriverState  BY <1>1, <1>3 DEF Freed, DriverState, Place
<1>5. /\ PassengerOf(driver[d]) \in carried /\ driver[d].passenger_picked_up
  BY <1>1, AboardIsPickedUp
<1>6. own \in Seq(Msg) /\ \A M : NoneOf(own, M)  BY QuietMsg
<1> HIDE DEF s, own
<1>7. /\ driver'[d] = s
      /\ \A e \in Drivers \ {d} : driver'[e] = driver[e] /\ saving'[e] = saving[e]
  BY <1>1, <1>4 DEF TypeOK
<1>8. OthersAlone(d)  BY <1>1, <1>7 DEF OthersAlone
<1>9. DriverFrame(d, None, m) /\ mailbox'[d] = Tail(mailbox[d]) \o own
  BY <1>1, <1>2, <1>6, <1>8, QuietDriver
<1>10. m.type \notin {"ReconnectDriver", "RideAccepted"}
       /\ t \notin {"RequestRide", "PassengerRecover"}
  BY QuietMsg
<1>11. \A p \in Passengers :
         /\ PassengerOf(driver[d]) = p => p \in carried' \/ PassengerOf(driver'[d]) = p
         /\ p \in up /\ Fetches(d, p) => Fetches(d, p)' \/ ~NoneOf(mailbox'[p], LiveMsg)
  BY <1>1, <1>5 DEF Fetches
<1> HIDE DEF m, t
<1> QED  BY <1>1, <1>4, <1>6, <1>7, <1>9, <1>10, <1>11, HandlerOn

\* What a driver sends to a passenger that runs arrives; what arrives was sent to
\* the process that runs.
LEMMA AnswerArrives ==
    ASSUME TypeOK, NEW d \in Drivers, NEW own, NEW c \in Process(Passengers) \cup {None}, NEW m \in Msg,
           Mail(d, own, c, <<m>>), NEW p \in Passengers
    PROVE  /\ p \in up /\ c = Self(p) => \A M : m \in M => ~NoneOf(mailbox'[p], M)
           /\ mailbox'[p] # mailbox[p] => c = Self(p) /\ c # None
<1>1. p \in Actors /\ p # d /\ mailbox[p] \in Seq(Msg)  BY ActorsApart DEF TypeOK
<1>2. mailbox'[p] = IF Running(c) /\ p = c.actor THEN mailbox[p] \o <<m>> ELSE mailbox[p]
  BY <1>1 DEF Mail
<1>3. ASSUME p \in up, c = Self(p), NEW M, m \in M PROVE ~NoneOf(mailbox'[p], M)
  <2>1. Self(p) \in Process(Actors) /\ Self(p).actor = p /\ Self(p).start = starts[p]
    BY <1>1 DEF Self, Process, TypeOK
  <2>2. Running(c) /\ p = c.actor  BY <1>3, <2>1, NoneAssumption DEF Running
  <2>3. <<m>> \in Seq(Msg) /\ ~NoneOf(<<m>>, M)  BY <1>3, OneNone
  <2> QED  BY <1>1, <1>2, <2>2, <2>3, AppendNone
<1>4. ASSUME mailbox'[p] # mailbox[p] PROVE c = Self(p) /\ c # None
  BY <1>2, <1>4 DEF Running, Process, Self
<1> QED  BY <1>3, <1>4

LEMMA PickUpPassengerOn ==
    ASSUME IInv, Uninterrupted, NEW d \in Drivers, PickUpPassenger(d)
    PROVE  Uninterrupted'
<1> DEFINE t   == "PickUpPassenger"
           s   == [driver[d] EXCEPT !.position = driver[d].passenger_position,
                                    !.passenger_picked_up = TRUE]
           c   == current_passenger_connection[d]
           own == <<Plain("RideToDestination")>>
           m   == Plain("DriverArrived")
<1>1. /\ TypeOK /\ d \in Actors /\ Handles(d, t) /\ mailbox[d] # <<>>
      /\ driver \in [Drivers -> DriverState] /\ DriverInv(d)
      /\ UNCHANGED <<up, starts, reconnecting, authorizing, driver_file,
                     current_passenger_connection, saving, passengerVars>>
  BY DriverTyped DEF Handles, PickUpPassenger, serverVars, gatewayVars
<1>2. /\ PassengerOf(driver[d]) = driver[d].id_current_passenger
      /\ driver[d].id_current_passenger \in Passengers /\ ~driver[d].is_available
  BY <1>1, BusyOnWay
<1>3. /\ driver' = [driver EXCEPT ![d] = s]
      /\ carried' = carried \cup {driver[d].id_current_passenger}
      /\ Mail(d, own, c, <<m>>)
  BY DEF PickUpPassenger
<1>4. ~s.is_available  BY <1>1, <1>2 DEF DriverState
<1>5. own \in Seq(Msg) /\ NoneOf(own, DriverInbox) /\ NoneOf(own, ReturnMsg) /\ NoneOf(own, EndMsg)
  BY WayOwn
<1>6. m \in Msg /\ m.type = "DriverArrived"  BY PlainMsg DEF PlainType
<1>7. c \in Process(Passengers) \cup {None}  BY <1>1 DEF TypeOK
<1>8. c # None => c.actor \in carried'
  BY <1>1, <1>2, <1>3 DEF DriverInv, DriverTalks
<1> HIDE DEF s, c, own, m, t
<1>9. m \in PassengerInbox /\ m \notin SearchMsg /\ m \in LiveMsg
      /\ m.type \notin {"ReconnectDriver", "RideAccepted"}
  BY <1>6 DEF PassengerInbox, SearchMsg, LiveMsg, TravelMsg, OfType
<1>10. driver'[d] = s /\ \A e \in Drivers \ {d} : driver'[e] = driver[e]
  BY <1>1, <1>3
<1>11. OthersAlone(d)
  <2>1. \A p \in Passengers : p \in carried' => p \in carried \/ Serves(d, p)
    BY <1>2, <1>3 DEF Serves
  <2>2. carried \subseteq carried'  BY <1>3
  <2> QED  BY <1>1, <1>10, <2>1, <2>2 DEF OthersAlone
<1>12. DriverFrame(d, c, m) /\ mailbox'[d] = Tail(mailbox[d]) \o own
  BY <1>1, <1>3, <1>5, <1>7, <1>8, <1>9, <1>11, SendingDriver
<1>13. \/ ~NoneOf(Tail(mailbox[d]), EndMsg) \/ ~NoneOf(own, EndMsg)
       \/ driver'[d].is_available /\ driver'[d].id_current_passenger # None
       => driver'[d].position = "destination"
  <2>1. NoneOf(Tail(mailbox[d]), EndMsg)  BY <1>1, OneWay DEF t
  <2> QED  BY <1>4, <1>5, <1>10, <2>1
<1>14. ASSUME NEW p \in Passengers, PassengerOf(driver[d]) = p PROVE p \in carried'
  BY <1>2, <1>3, <1>14
<1>15. ASSUME NEW p \in Passengers, p \in up, Fetches(d, p) PROVE ~NoneOf(mailbox'[p], LiveMsg)
  <2>1. c = Self(p)  BY <1>15 DEF Fetches, c
  <2> QED  BY <1>1, <1>3, <1>6, <1>7, <1>9, <1>15, <2>1, AnswerArrives
<1>16. t \notin {"RequestRide", "PassengerRecover"}  BY DEF t
<1> QED  BY <1>1, <1>5, <1>9, <1>12, <1>13, <1>14, <1>15, <1>16, HandlerOn

LEMMA SaveStateOn ==
    ASSUME IInv, Uninterrupted, NEW d \in Drivers, SaveState(d)
    PROVE  Uninterrupted'
<1> DEFINE m == Plain("StartRide")
           n == Plain("Login")
<1>1. /\ TypeOK /\ d \in Actors /\ d \in up /\ mailbox[d] \in Seq(Msg)
      /\ mailbox \in [Actors -> Seq(Msg)]
      /\ saving' = [saving EXCEPT ![d] = None]
      /\ driver_file' = [driver_file EXCEPT ![d] = driver[d]]
      /\ UNCHANGED <<up, starts, reconnecting, authorizing, driver, current_passenger_connection,
                     carried, passengerVars>>
  BY DriverTyped DEF SaveState, gatewayVars, TypeOK
<1>2. /\ \A e \in Drivers \ {d} : driver_file'[e] = driver_file[e] /\ saving'[e] = saving[e]
  BY <1>1 DEF TypeOK
<1>3. PICK own \in Seq(Msg) : /\ mailbox'[d] = mailbox[d] \o own
                              /\ NoneOf(own, DriverInbox) /\ NoneOf(own, ReturnMsg)
                              /\ NoneOf(own, EndMsg)
                              /\ \A a \in Actors : a # d => mailbox'[a] = mailbox[a]
  <2>1. CASE mailbox' = [mailbox EXCEPT ![d] = Append(@, m)]
    <3>1. /\ m \in Msg /\ <<m>> \in Seq(Msg) /\ NoneOf(<<m>>, DriverInbox)
          /\ NoneOf(<<m>>, ReturnMsg) /\ NoneOf(<<m>>, EndMsg)
      BY WayOwn
    <3> HIDE DEF m
    <3>2. Append(mailbox[d], m) = mailbox[d] \o <<m>>  BY <1>1, <3>1
    <3> QED  BY <1>1, <2>1, <3>1, <3>2
  <2>2. CASE UNCHANGED mailbox
    <3>1. <<>> \in Seq(Msg) /\ \A M : NoneOf(<<>>, M)  BY QuietMsg
    <3>2. mailbox[d] = mailbox[d] \o <<>>  BY <1>1
    <3> QED  BY <2>2, <3>1, <3>2
  <2> QED  BY <2>1, <2>2 DEF SaveState
<1>4. DriverFrame(d, None, n)
  <2>1. \A e \in Drivers : n \notin SocketMsg(e)  BY DEF Plain, SocketMsg, OfType
  <2>2. /\ \A e \in Drivers \ {d} : mailbox'[e] = mailbox[e]
        /\ \A p \in Passengers : mailbox'[p] = mailbox[p]
    BY <1>3, ActorsApart
  <2> QED  BY <1>1, <1>2, <2>1, <2>2 DEF DriverFrame
<1>5. \A M : NoneOf(mailbox'[d], M) <=> NoneOf(mailbox[d], M) /\ NoneOf(own, M)
  BY <1>1, <1>3, AppendNone
<1>6. NoneOf(mailbox'[d], ReturnMsg)  BY <1>1, <1>3, <1>5 DEF Uninterrupted
<1>7. FirstWay(d)'
  <2>1. FirstWay(d)  BY DEF Uninterrupted
  <2> QED  BY <1>1, <1>3, <1>5, <2>1 DEF FirstWay, EndMsg, OfType
<1>8. Newest(d)'
  <2>1. Newest(d)  BY DEF Uninterrupted
  <2>2. /\ InOrder(mailbox[d]) => InOrder(mailbox'[d])
        /\ Started(mailbox[d]) => Started(mailbox'[d])
        /\ \A k : Precedes(k, mailbox[d]) => Precedes(k, mailbox'[d])
    BY <1>1, <1>3, OrderOwn
  <2> QED  BY <1>1, <2>1, <2>2 DEF Newest, InOrder, Started, Precedes, DriverInbox, OfType
<1>9. ASSUME NEW p \in Passengers PROVE DriverKeeps(d, p)
  <2>1. NoneOf(own, RecoverFrom(p)) /\ NoneOf(own, AskedBy(Self(p)))
    BY <1>3 DEF NoneOf, RecoverFrom, AskedBy, DriverInbox, OfType
  <2>2. Awaits(p, d) => Awaits(p, d)'
    BY <1>1, <1>5, <2>1 DEF Awaits, Fetches, PassengerOf, AskedBy, OfType, Self
  <2> QED  BY <1>1, <1>5, <2>1, <2>2 DEF DriverKeeps, PassengerOf
<1>10. n.type \notin {"ReconnectDriver", "RideAccepted"}  BY QuietMsg
<1>11. n \notin AcceptMsg  BY <1>10 DEF AcceptMsg, OfType
<1> HIDE DEF n
<1> QED  BY <1>1, <1>4, <1>6, <1>7, <1>8, <1>9, <1>10, <1>11, DriverGoesOn

\* A handler that answers the process its message is from.
LEMMA AnswerOn ==
    ASSUME IInv, Uninterrupted, NEW d \in Drivers,
           NEW t \in {"RequestRide", "PassengerRecover"}, Handles(d, t),
           NEW c \in Process(Passengers), c = Head(mailbox[d]).from,
           NEW m \in Msg, m.type # "ReconnectDriver", Mail(d, <<>>, c, <<m>>),
           DriverFrame(d, c, m), mailbox'[d] = Tail(mailbox[d]) \o <<>>,
           UNCHANGED <<up, starts, reconnecting>>,
           current_passenger_connection'[d] \in {current_passenger_connection[d], c},
           \/ ~NoneOf(mailbox[d], EndMsg)
           \/ driver'[d].is_available /\ driver'[d].id_current_passenger # None
           => driver'[d].position = "destination",
           \A p \in Passengers : PassengerOf(driver[d]) = p =>
              p \in carried' \/ PassengerOf(driver'[d]) = p,
           \A p \in Passengers : c = Self(p) => m \in LiveMsg \/ Fetches(d, p)',
           \A p \in Passengers : Fetches(d, p) /\ c # Self(p) => Fetches(d, p)',
           \A p \in Passengers : c = Self(p) /\ m \in AcceptMsg => m.socket = d /\ Fetches(d, p)'
    PROVE  Uninterrupted'
<1> DEFINE own == <<>>
<1>1. /\ TypeOK /\ d \in Actors /\ mailbox[d] \in Seq(Msg) /\ mailbox[d] # <<>>
      /\ Head(mailbox[d]) \in Msg /\ Head(mailbox[d]).type = t
  BY DriverTyped, HeadMsg
<1>2. Head(mailbox[d]) \in DriverInbox
  BY <1>1 DEF DriverInbox, OfType
<1>3. own \in Seq(Msg) /\ \A M : NoneOf(own, M)  BY QuietMsg
<1>4. mailbox'[d] = Tail(mailbox[d]) \o own  OBVIOUS
<1> HIDE DEF own
<1>5. /\ d \in up
      /\ NoneOf(mailbox'[d], ReturnMsg) /\ Newest(d)'
      /\ \A M : NoneOf(mailbox'[d], M) <=> NoneOf(Tail(mailbox[d]), M) /\ NoneOf(own, M)
      /\ \A M : NoneOf(mailbox[d], M) <=> Head(mailbox[d]) \notin M /\ NoneOf(Tail(mailbox[d]), M)
      /\ \A p \in Passengers :
            /\ NoneOf(mailbox[d], RecoverFrom(p)) => NoneOf(mailbox'[d], RecoverFrom(p))
            /\ NoneOf(mailbox[d], AskedBy(Self(p))) => NoneOf(mailbox'[d], AskedBy(Self(p)))
            /\ ~NoneOf(mailbox[d], AskedBy(Self(p))) =>
                  ~NoneOf(mailbox'[d], AskedBy(Self(p))) \/ Head(mailbox[d]) \in AskedBy(Self(p))
  BY <1>2, <1>3, <1>4, DriverHandled
<1>6. FirstWay(d)'
  <2>1. ~NoneOf(mailbox'[d], EndMsg) => ~NoneOf(mailbox[d], EndMsg)  BY <1>3, <1>5
  <2> QED  BY <1>5, <2>1 DEF FirstWay, EndMsg, OfType
<1>7. ASSUME NEW p \in Passengers
      PROVE  /\ p \in up /\ c = Self(p) => \A M : m \in M => ~NoneOf(mailbox'[p], M)
             /\ mailbox'[p] # mailbox[p] => c = Self(p) /\ c # None
  BY <1>1, AnswerArrives
<1>8. ASSUME NEW p \in Passengers PROVE DriverKeeps(d, p)
  <2>1. p \in up /\ Awaits(p, d) => Awaits(p, d)' \/ ~NoneOf(mailbox'[p], LiveMsg)
    <3>1. ~NoneOf(mailbox'[d], AskedBy(Self(p))) \/ Fetches(d, p)' => Awaits(p, d)'
      BY DEF Awaits, AskedBy, OfType, Self
    <3>2. Head(mailbox[d]) \in AskedBy(Self(p)) => c = Self(p)  BY DEF AskedBy
    <3>3. ASSUME p \in up, c = Self(p)
          PROVE  Fetches(d, p)' \/ ~NoneOf(mailbox'[p], LiveMsg)
      BY <1>7, <3>3
    <3> QED  BY <1>5, <3>1, <3>2, <3>3 DEF Awaits
  <2> QED  BY <1>5, <2>1 DEF DriverKeeps
<1>9. ASSUME NEW p \in Passengers, mailbox'[p] # mailbox[p], m \in AcceptMsg
      PROVE  m.socket = d /\ Fetches(d, p)' /\ NoneOf(mailbox[p], RecoverMsg)
  <2>1. c = Self(p)  BY <1>7, <1>9
  <2>2. Head(mailbox[d]) \in AskedBy(Self(p))  BY <1>1, <2>1 DEF AskedBy, OfType
  <2>3. ~NoneOf(mailbox[d], AskedBy(Self(p)))  BY <1>5, <2>2
  <2>4. NoneOf(mailbox[p], RecoverMsg)  BY <2>3 DEF Uninterrupted, Fresh
  <2> QED  BY <1>9, <2>1, <2>4
<1> QED  BY <1>5, <1>6, <1>8, <1>9, DriverGoesOn

\* What a handler of a request sends and whom it answers.
LEMMA RequestFrame ==
    ASSUME IInv, NEW d \in Drivers, Handles(d, "RequestRide"),
           NEW m \in PassengerInbox, m.type # "ReconnectDriver", m \notin TravelMsg,
           Mail(d, <<>>, Head(mailbox[d]).from, <<m>>), OthersAlone(d)
    PROVE  LET c == Head(mailbox[d]).from
               p == c.actor
           IN  /\ c \in Process(Passengers) /\ p \in Passengers /\ Head(mailbox[d]).position \in Place
               /\ DriverFrame(d, c, m) /\ mailbox'[d] = Tail(mailbox[d]) \o <<>>
               /\ \A e \in Drivers : ~Serves(e, p)
<1> DEFINE c == Head(mailbox[d]).from
           t == "RequestRide"
<1>1. TypeOK /\ d \in Actors  BY DriverTyped
<1>2. mailbox[d] # <<>> /\ Head(mailbox[d]) \in Msg /\ Head(mailbox[d]).type = t
  BY <1>1, HeadMsg
<1>3. c \in Process(Passengers) /\ c.actor \in Passengers /\ c.actor # d
  BY <1>2, MsgOfType, ActorsApart
<1>4. m \in Msg  BY DEF PassengerInbox, OfType
<1> HIDE DEF c
<1>5. Mail(d, <<>>, c, <<m>>) /\ <<>> \in Seq(Msg)  BY DEF c
<1>6. mailbox'[d] = Tail(mailbox[d]) \o <<>>
  BY <1>1, <1>2, <1>3, <1>4, <1>5, MailFacts
<1>7. /\ Authorized(c.actor) /\ Head(mailbox[d]).position \in Place
      /\ \A e \in Drivers : ~Serves(e, c.actor)
  BY <1>6, RequestTaken DEF c
<1>8. DriverFrame(d, c, m)
  BY <1>2, <1>3, <1>5, <1>7, SendingDriver
<1> QED  BY <1>3, <1>6, <1>7, <1>8 DEF c

LEMMA RefuseRideOn ==
    ASSUME IInv, Uninterrupted, NEW d \in Drivers, RefuseRide(d)
    PROVE  Uninterrupted'
<1> DEFINE t == "RequestRide"
           c == Head(mailbox[d]).from
           m == Plain("KeepLooking")
<1>1. /\ TypeOK /\ Handles(d, t) /\ Mail(d, <<>>, c, <<m>>)
      /\ UNCHANGED <<up, starts, serverVars, gatewayVars, driverVars, passengerVars, counts>>
  BY DriverTyped DEF RefuseRide
<1>2. m \in Msg /\ m.type = "KeepLooking"  BY PlainMsg DEF PlainType, Plain
<1>3. OthersAlone(d)  BY <1>1 DEF OthersAlone, driverVars, gatewayVars, serverVars
<1>4. UNCHANGED <<up, starts, reconnecting, driver, current_passenger_connection>>
  BY <1>1 DEF driverVars, serverVars
<1> HIDE DEF m
<1>5. /\ m \in PassengerInbox /\ m.type # "ReconnectDriver" /\ m \notin TravelMsg
      /\ m \in LiveMsg /\ m \notin AcceptMsg
  BY <1>2 DEF PassengerInbox, SearchMsg, LiveMsg, TravelMsg, AcceptMsg, OfType
<1>6. /\ c \in Process(Passengers) /\ DriverFrame(d, c, m)
      /\ mailbox'[d] = Tail(mailbox[d]) \o <<>>
  BY <1>1, <1>3, <1>5, RequestFrame
<1>7. \/ ~NoneOf(mailbox[d], EndMsg)
      \/ driver'[d].is_available /\ driver'[d].id_current_passenger # None
      => driver'[d].position = "destination"
  BY <1>4 DEF Uninterrupted, FirstWay
<1>8. \A p \in Passengers : (PassengerOf(driver[d]) = p => PassengerOf(driver'[d]) = p)
                            /\ (Fetches(d, p) => Fetches(d, p)')
  BY <1>4 DEF Fetches, PassengerOf, Self
<1> HIDE DEF c
<1>9. current_passenger_connection'[d] \in {current_passenger_connection[d], c}  BY <1>4
<1> QED  BY <1>1, <1>2, <1>4, <1>5, <1>6, <1>7, <1>8, <1>9, AnswerOn DEF c

LEMMA AcceptRideOn ==
    ASSUME IInv, Uninterrupted, NEW d \in Drivers, AcceptRide(d)
    PROVE  Uninterrupted'
<1> DEFINE t == "RequestRide"
           c == Head(mailbox[d]).from
           m == [type |-> "RideAccepted", socket |-> d]
<1>1. /\ TypeOK /\ d \in Actors /\ Handles(d, t) /\ Mail(d, <<>>, c, <<m>>)
      /\ driver \in [Drivers -> DriverState] /\ DriverInv(d) /\ driver[d].is_available
      /\ current_passenger_connection' = [current_passenger_connection EXCEPT ![d] = c]
      /\ saving' = [saving EXCEPT ![d] = "RequestRide"]
      /\ UNCHANGED <<up, starts, serverVars, gatewayVars, driver_file, carried, passengerVars>>
  BY DriverTyped DEF AcceptRide
<1>2. m \in Msg /\ m.type = "RideAccepted" /\ m.socket = d  BY DEF Msg, PassengerMsg
<1>3. PICK place \in Place :
         driver' = [driver EXCEPT ![d].is_available = FALSE,
                                  ![d].id_current_passenger = c.actor,
                                  ![d].passenger_position = Head(mailbox[d]).position,
                                  ![d].position = place]
  BY DEF AcceptRide
<1> HIDE DEF m
<1>4. /\ m \in PassengerInbox /\ m.type # "ReconnectDriver" /\ m \notin TravelMsg
      /\ m \in AcceptMsg
  BY <1>2 DEF PassengerInbox, TravelMsg, AcceptMsg, OfType
<1>5. /\ \A e \in Drivers \ {d} :
            /\ driver'[e] = driver[e] /\ saving'[e] = saving[e]
            /\ current_passenger_connection'[e] = current_passenger_connection[e]
      /\ current_passenger_connection'[d] = c
  BY <1>1, <1>3 DEF TypeOK
<1>6. OthersAlone(d)  BY <1>1, <1>5 DEF OthersAlone, gatewayVars, serverVars
<1>7. /\ c \in Process(Passengers) /\ c.actor \in Passengers /\ DriverFrame(d, c, m)
      /\ mailbox'[d] = Tail(mailbox[d]) \o <<>>
  BY <1>1, <1>4, <1>6, RequestFrame
<1> HIDE DEF c
<1>8. ~driver[d].passenger_picked_up /\ NoneOf(mailbox[d], WayMsg)
  BY <1>1 DEF DriverInv, DriverWay, DriverSound, Sound
<1>9. /\ ~driver'[d].is_available /\ driver'[d].id_current_passenger = c.actor
      /\ ~driver'[d].passenger_picked_up /\ driver'[d] # None
  <2>1. driver'[d] = [driver[d] EXCEPT !.is_available = FALSE,
                                       !.id_current_passenger = c.actor,
                                       !.passenger_position = Head(mailbox[d]).position,
                                       !.position = place]
    BY <1>1, <1>3
  <2>2. Head(mailbox[d]).position \in Place
    <3>1. Head(mailbox[d]) \in Msg /\ Head(mailbox[d]).type = t  BY <1>1, HeadMsg
    <3> QED  BY <3>1, MsgOfType
  <2>3. driver'[d] \in DriverState  BY <1>1, <1>7, <2>1, <2>2 DEF DriverState
  <2> QED  BY <1>1, <1>8, <2>1, <2>3, NoneAssumption DEF DriverState
<1>10. NoneOf(mailbox[d], EndMsg)  BY <1>8 DEF NoneOf, WayMsg, EndMsg, OfType
<1>11. \A p \in Passengers : PassengerOf(driver[d]) # p
  BY <1>1, ActorsApart DEF PassengerOf
<1>12. ASSUME NEW p \in Passengers, c = Self(p) PROVE Fetches(d, p)'
  <2>1. c.actor = p  BY <1>12 DEF Self
  <2>2. PassengerOf(driver'[d]) = p  BY <1>9, <2>1 DEF PassengerOf
  <2> QED  BY <1>1, <1>5, <1>9, <1>12, <2>2 DEF Fetches, PassengerOf, Self
<1>13. \A p \in Passengers : ~Fetches(d, p)  BY <1>11 DEF Fetches
<1>14. UNCHANGED <<up, starts, reconnecting>>  BY <1>1 DEF serverVars
<1>15. current_passenger_connection'[d] \in {current_passenger_connection[d], c}  BY <1>5
<1> QED
  BY <1>1, <1>2, <1>4, <1>7, <1>9, <1>10, <1>11, <1>12, <1>13, <1>14, <1>15, AnswerOn DEF c

LEMMA PassengerRecoverOn ==
    ASSUME IInv, Uninterrupted, NEW d \in Drivers, PassengerRecover(d)
    PROVE  Uninterrupted'
<1> DEFINE t == "PassengerRecover"
           c == Head(mailbox[d]).from
           s == driver[d]
           m == Answer(s, c.actor)
           old == current_passenger_connection[d]
           k == ConnectionWith(s, old, c)
<1>1. /\ TypeOK /\ d \in Actors /\ Handles(d, t) /\ s \in DriverState /\ s # None
      /\ Mail(d, <<>>, c, <<m>>) /\ <<>> \in Seq(Msg)
      /\ current_passenger_connection' = [current_passenger_connection EXCEPT ![d] = k]
      /\ UNCHANGED <<up, starts, serverVars, gatewayVars, driver, driver_file, saving, carried,
                     passengerVars, counts>>
  BY DriverTyped DEF PassengerRecover
<1>2. /\ mailbox[d] \in Seq(Msg) /\ mailbox[d] # <<>>
      /\ Head(mailbox[d]) \in Msg /\ Head(mailbox[d]).type = t
  BY <1>1, HeadMsg
<1>3. c \in Process(Passengers) /\ c.actor \in Passengers /\ c.actor # d
  BY <1>2, MsgOfType, ActorsApart
<1>4. /\ m \in Msg /\ m.type = "RecoverResponse"
      /\ m \in TravelMsg => c.actor \in carried
      /\ m \in LiveMsg \/ /\ s.id_current_passenger = c.actor /\ ~s.passenger_picked_up
                          /\ s.position # "destination"
  <2>1. /\ m \in Msg /\ m.type = "RecoverResponse" /\ (m.picked_up => c.actor \in carried)
        /\ \/ m.picked_up \/ m.end_ride
           \/ /\ s.id_current_passenger = c.actor /\ ~s.passenger_picked_up
              /\ s.position # "destination"
    BY <1>3, AnswerFacts
  <2> HIDE DEF m
  <2> QED  BY <2>1 DEF TravelMsg, LiveMsg, OfType
<1>5. /\ current_passenger_connection'[d] = k
      /\ \A e \in Drivers \ {d} :
            current_passenger_connection'[e] = current_passenger_connection[e]
  BY <1>1 DEF TypeOK
<1>6. \/ k = c /\ s.id_current_passenger = c.actor
      \/ k = old /\ s.id_current_passenger # c.actor
  BY DEF ConnectionWith
<1> HIDE DEF c, m, k
<1>7. OthersAlone(d)  BY <1>1, <1>5 DEF OthersAlone, gatewayVars, serverVars
<1>8. /\ m \in PassengerInbox /\ m.type # "ReconnectDriver" /\ m \notin SearchMsg /\ m \notin AcceptMsg
  BY <1>4 DEF PassengerInbox, SearchMsg, AcceptMsg, OfType
<1>9. DriverFrame(d, c, m) /\ mailbox'[d] = Tail(mailbox[d]) \o <<>>
  BY <1>1, <1>2, <1>3, <1>4, <1>7, <1>8, SendingDriver
<1>10. FirstWay(d) /\ Newest(d)  BY DEF Uninterrupted
<1>11. /\ UNCHANGED <<up, starts, reconnecting, driver>> /\ driver'[d] = s
  BY <1>1 DEF serverVars
<1>12. \/ ~NoneOf(mailbox[d], EndMsg)
       \/ driver'[d].is_available /\ driver'[d].id_current_passenger # None
       => driver'[d].position = "destination"
  BY <1>10, <1>11 DEF FirstWay
<1>13. ASSUME NEW p \in Passengers, c = Self(p), m \notin LiveMsg PROVE Fetches(d, p)'
  <2>1. c.actor = p  BY <1>13 DEF Self
  <2>2. s.id_current_passenger = p /\ ~s.passenger_picked_up /\ s.position # "destination"
    BY <1>4, <1>13, <2>1
  <2>3. ~s.is_available  BY <1>10, <2>2, ActorsApart DEF FirstWay
  <2>4. PassengerOf(s) = p  BY <1>1, <2>2, <2>3 DEF PassengerOf
  <2>5. k = Self(p)  BY <1>6, <1>13, <2>1, <2>2
  <2> QED  BY <1>5, <1>11, <2>2, <2>4, <2>5 DEF Fetches, PassengerOf, Self
<1>14. ASSUME NEW p \in Passengers, Fetches(d, p), c # Self(p) PROVE Fetches(d, p)'
  <2>1. /\ PassengerOf(s) = p /\ ~s.passenger_picked_up /\ old = Self(p)
        /\ s.id_current_passenger = p
    BY <1>14, ActorsApart DEF Fetches, PassengerOf
  <2>2. c.actor # p
    <3> SUFFICES ASSUME c.actor = p PROVE FALSE  OBVIOUS
    <3>1. 1 \in 1..Len(mailbox[d]) /\ mailbox[d][1] = Head(mailbox[d])
      BY <1>2, HeadTailProperties, LenProperties, EmptySeq
    <3>2. Head(mailbox[d]) \in DriverInbox  BY <1>2 DEF DriverInbox, OfType
    <3>3. old # None /\ old.actor = p /\ old.start = starts[p] /\ starts[p] \in Nat
      <4>1. Self(p) \in Process(Actors)  BY <1>1, ActorsApart DEF Self, Process, TypeOK
      <4> QED  BY <1>1, <2>1, <4>1, NoneAssumption, ActorsApart DEF Self, TypeOK
    <3>4. Started(mailbox[d]) /\ Precedes(old, mailbox[d])  BY <1>10, <3>3 DEF Newest
    <3>5. c.start <= starts[p]  BY <3>1, <3>2, <3>4 DEF Started, c
    <3>6. starts[p] <= c.start  BY <3>1, <3>2, <3>3, <3>4 DEF Precedes, c
    <3>7. c.start = starts[p]  BY <1>3, <3>3, <3>5, <3>6 DEF Process
    <3> QED  BY <1>3, <1>14, <3>7 DEF Self, Process
  <2>3. k = old  BY <1>6, <2>1, <2>2
  <2> QED  BY <1>5, <1>11, <2>1, <2>3 DEF Fetches, PassengerOf, Self
<1>15. \A p \in Passengers : PassengerOf(driver[d]) = p => PassengerOf(driver'[d]) = p
  BY <1>11
<1>16. current_passenger_connection'[d] \in {old, c}  BY <1>5, <1>6
<1> QED
  BY <1>1, <1>3, <1>4, <1>8, <1>9, <1>11, <1>12, <1>13, <1>14, <1>15, <1>16, AnswerOn DEF c

LEMMA DriverOn ==
    ASSUME IInv, Uninterrupted, NEW d \in Drivers, DriverStep(d)
    PROVE  Uninterrupted'
<1>1. ~Recovery(d) /\ ~ReconnectPassenger(d)
  <2> SUFFICES ASSUME NEW t \in {"Recovery", "ReconnectPassenger"}, Handles(d, t) PROVE FALSE
    BY DEF Recovery, ReconnectPassenger
  <2>1. /\ d \in Actors /\ mailbox[d] \in Seq(Msg) /\ mailbox[d] # <<>>
        /\ Head(mailbox[d]) \in ReturnMsg
    BY DriverTyped, HeadMsg DEF ReturnMsg, OfType
  <2> QED  BY <2>1, HeadFacts DEF Uninterrupted
<1> QED
  BY <1>1, RegisterOn, RefuseRideOn, AcceptRideOn, SaveStateOn, WayOn, PickUpPassengerOn, EndRideOn,
     PassengerRecoverOn DEF DriverStep

-----------------------------------------------------------------------------
(* Starts.                                                                 *)

\* Starts only grow: what a mailbox holds was still started.
LEMMA StillNewest ==
    ASSUME TypeOK, NEW d \in Drivers, Newest(d),
           mailbox'[d] = mailbox[d],
           current_passenger_connection'[d] = current_passenger_connection[d],
           \A p \in Passengers : starts'[p] \in Nat /\ starts'[p] >= starts[p]
    PROVE  Newest(d)'
<1> DEFINE q == mailbox[d]
           c == current_passenger_connection[d]
<1>1. /\ \A p \in Passengers : starts[p] \in Nat
      /\ q \in Seq(Msg) /\ c \in Process(Passengers) \cup {None}
  BY ActorsApart DEF TypeOK
<1>2. /\ InOrder(q) /\ \A i \in 1..Len(q) :
            q[i] \in DriverInbox => q[i].from.start <= starts[q[i].from.actor]
      /\ c # None => c.start <= starts[c.actor] /\ Precedes(c, q)
  BY DEF Newest, Started
<1>3. ASSUME NEW i \in 1..Len(q), q[i] \in DriverInbox
      PROVE  q[i].from.start <= starts'[q[i].from.actor]
  <2>1. q[i].from \in Process(Passengers)
    BY <1>3, MsgOfType DEF DriverInbox, OfType
  <2>2. q[i].from.actor \in Passengers /\ q[i].from.start \in Nat  BY <2>1 DEF Process
  <2> QED  BY <1>1, <1>2, <1>3, <2>2
<1>4. c # None => c.start <= starts'[c.actor]
  <2> SUFFICES ASSUME c # None PROVE c.start <= starts'[c.actor]  OBVIOUS
  <2>1. c.actor \in Passengers /\ c.start \in Nat  BY <1>1 DEF Process
  <2> QED  BY <1>1, <1>2, <2>1
<1> QED
  BY <1>2, <1>3, <1>4 DEF Newest, InOrder, Started, Precedes, DriverInbox, OfType

LEMMA StartPassengerOn ==
    ASSUME IInv, Counted, Uninterrupted, NEW p \in Passengers, StartPassenger(p)
    PROVE  Uninterrupted'
<1> DEFINE out == IF passenger_file[p] = None THEN <<Plain("Login"), Plain("GetDrivers")>>
                  ELSE <<Plain("Recover")>>
<1>1. /\ TypeOK /\ p \in Actors /\ p \notin up /\ up' = up \cup {p}
      /\ starts' = [starts EXCEPT ![p] = @ + 1] /\ mailbox' = [mailbox EXCEPT ![p] = out]
      /\ UNCHANGED <<reconnecting, authorizing, driver, driver_file, current_passenger_connection,
                     carried, passenger, passenger_file>>
  BY PassengerTyped DEF StartPassenger, Starts, serverVars, gatewayVars, driverVars, passengerVars
<1>2. p \notin authorizing /\ PassengerInv(p)  BY <1>1 DEF IInv, PassengerInv, PassengerDown
<1>3. /\ \A M : M \in {ReturnMsg, AcceptMsg, RequestMsg} => NoneOf(out, M)
      /\ ~NoneOf(out, LiveMsg)
      /\ ~NoneOf(out, RecoverMsg) => passenger_file[p] # None
  <2>1. \A x \in {"Login", "GetDrivers", "Recover"} : Plain(x) \in Msg /\ Plain(x).type = x
    BY PlainMsg DEF PlainType
  <2>2. CASE passenger_file[p] = None
    <3> DEFINE a == Plain("Login")
               b == Plain("GetDrivers")
    <3>1. out = <<a, b>>  BY <2>2
    <3>2. a \in Msg /\ b \in Msg /\ a.type = "Login" /\ b.type = "GetDrivers"  BY <2>1
    <3> HIDE DEF a, b, out
    <3>3. /\ \A M : M \in {ReturnMsg, AcceptMsg, RequestMsg, RecoverMsg} => a \notin M /\ b \notin M
          /\ b \in LiveMsg
      BY <3>2 DEF ReturnMsg, AcceptMsg, RequestMsg, RecoverMsg, LiveMsg, SearchMsg, OfType
    <3> QED  BY <3>1, <3>2, <3>3, PairNone
  <2>3. CASE passenger_file[p] # None
    <3> DEFINE a == Plain("Recover")
    <3>1. out = <<a>>  BY <2>3
    <3>2. a \in Msg /\ a.type = "Recover"  BY <2>1
    <3> HIDE DEF a, out
    <3>3. /\ \A M : M \in {ReturnMsg, AcceptMsg, RequestMsg} => a \notin M
          /\ a \in LiveMsg
      BY <3>2 DEF ReturnMsg, AcceptMsg, RequestMsg, RecoverMsg, LiveMsg, OfType
    <3> QED  BY <2>3, <3>1, <3>2, <3>3, OneNone
  <2> QED  BY <2>2, <2>3
<1> HIDE DEF out
<1>4. /\ mailbox'[p] = out /\ \A a \in Actors : a # p => mailbox'[a] = mailbox[a]
      /\ starts'[p] = starts[p] + 1 /\ \A a \in Actors : a # p => starts'[a] = starts[a]
      /\ \A a \in Actors : starts[a] \in Nat
  BY <1>1 DEF TypeOK
<1>5. \A d \in Drivers : d \in Actors /\ d # p /\ mailbox'[d] = mailbox[d]
                         /\ starts'[d] = starts[d] /\ (d \in up' <=> d \in up)
  BY <1>1, <1>4, ActorsApart
<1>6. \A a \in Actors : NoneOf(mailbox[a], ReturnMsg)'
  BY <1>3, <1>4 DEF Uninterrupted, ReturnMsg, OfType
<1>7. ASSUME NEW d \in Drivers PROVE FirstWay(d)' /\ Newest(d)'
  <2>1. FirstWay(d) /\ Newest(d)  BY DEF Uninterrupted
  <2>2. \A q \in Passengers : starts'[q] \in Nat /\ starts'[q] >= starts[q]
    BY <1>4, ActorsApart
  <2>3. Newest(d)'  BY <1>1, <1>5, <2>1, <2>2, StillNewest
  <2> QED  BY <1>1, <1>5, <2>1, <2>3 DEF FirstWay, EndMsg, OfType
<1>8. ASSUME NEW q \in Passengers, q # p
      PROVE  DriverStays(q)' /\ Connected(q)' /\ Fresh(q)' /\ GoesOn(q)'
  <2>1. DriverStays(q) /\ Connected(q) /\ Fresh(q) /\ GoesOn(q)  BY DEF Uninterrupted
  <2>2. mailbox'[q] = mailbox[q] /\ starts'[q] = starts[q] /\ (q \in up' <=> q \in up)
    BY <1>1, <1>4, <1>8, ActorsApart
  <2>3. Self(q)' = Self(q)  BY <2>2 DEF Self
  <2>4. DriverStays(q)'
    BY <1>1, <1>5, <2>1, <2>2
       DEF DriverStays, HasDriver, AcceptedBy, AcceptMsg, RecoverFrom, OfType, PassengerOf
  <2>5. Connected(q)'
    <3> DEFINE c == passenger[q].connection
    <3>1. c # None => c.actor \in Drivers
      BY PassengerTyped DEF PassengerState, Process
    <3> QED  BY <1>1, <1>5, <2>1, <2>2, <3>1 DEF Connected, Running, RequestMsg, OfType
  <2>6. Fresh(q)'
    BY <1>5, <2>1, <2>2, <2>3 DEF Fresh, RecoverMsg, RequestMsg, AcceptMsg, AskedBy, OfType
  <2>7. GoesOn(q)'
    <3>1. \A d \in Drivers : Awaits(q, d)' <=> Awaits(q, d)
      BY <1>1, <1>5, <2>3 DEF Awaits, Fetches, PassengerOf, AskedBy, OfType
    <3>2. Settled(q)' <=> Settled(q)  BY <1>1, <2>2 DEF Settled, AcceptMsg, OfType
    <3> QED
      BY <1>1, <2>1, <2>2, <3>1, <3>2 DEF GoesOn, LiveMsg, SearchMsg, RecoverMsg, TravelMsg, OfType
  <2> QED  BY <2>4, <2>5, <2>6, <2>7
<1>9. DriverStays(p)'
  <2>1. \A d \in Drivers : NoneOf(mailbox'[p], AcceptedBy(d))
    BY <1>3, <1>4 DEF NoneOf, AcceptedBy
  <2>2. \A d \in Drivers : HasDriver(p, d)' => HasDriver(p, d)
    BY <1>1, <1>5, <2>1 DEF HasDriver, AcceptedBy, AcceptMsg, RecoverFrom, OfType
  <2>3. DriverStays(p)  BY DEF Uninterrupted
  <2> QED  BY <1>1, <1>5, <2>2, <2>3 DEF DriverStays, PassengerOf
<1>10. Connected(p)'  BY <1>1, <1>2, <1>3, <1>4 DEF Connected, RequestMsg, OfType
<1>11. Fresh(p)'
  <2> SUFFICES ASSUME ~NoneOf(mailbox'[p], RecoverMsg)
               PROVE  /\ starts'[p] > 1
                      /\ NoneOf(mailbox'[p], RequestMsg) /\ NoneOf(mailbox'[p], AcceptMsg)
                      /\ \A d \in Drivers : NoneOf(mailbox'[d], AskedBy(Self(p))')
    BY DEF Fresh, RecoverMsg, RequestMsg, AcceptMsg, AskedBy, OfType
  <2>1. starts[p] >= 1  BY <1>3, <1>4 DEF Counted
  <2>2. ASSUME NEW d \in Drivers, NEW i \in 1..Len(mailbox[d]), mailbox[d][i] \in AskedBy(Self(p))'
        PROVE  FALSE
    <3> DEFINE m == mailbox[d][i]
    <3>1. m \in DriverInbox /\ m.from.actor = p /\ m.from.start = starts'[p]
      BY <2>2 DEF AskedBy, DriverInbox, OfType, Self
    <3>2. m.from.start <= starts[p]
      <4>1. Newest(d)  BY DEF Uninterrupted
      <4> QED  BY <3>1, <4>1 DEF Newest, Started
    <3> QED  BY <1>1, <1>4, <3>1, <3>2
  <2>3. \A d \in Drivers : NoneOf(mailbox'[d], AskedBy(Self(p))')
    BY <1>5, <2>2 DEF NoneOf
  <2>4. starts'[p] > 1  BY <1>1, <1>4, <2>1
  <2> QED  BY <1>3, <1>4, <2>3, <2>4
<1>12. GoesOn(p)'
  BY <1>3, <1>4 DEF GoesOn, LiveMsg, SearchMsg, RecoverMsg, TravelMsg, OfType
<1> QED  BY <1>1, <1>6, <1>7, <1>8, <1>9, <1>10, <1>11, <1>12 DEF Uninterrupted

LEMMA StartDriverOn ==
    ASSUME IInv, Uninterrupted, NEW d \in Drivers, StartDriver(d), starts[d] = 0
    PROVE  Uninterrupted'
<1> DEFINE own == Plain("Register")
<1>1. /\ TypeOK /\ d \in Actors /\ d \notin up /\ up' = up \cup {d}
      /\ starts' = [starts EXCEPT ![d] = @ + 1]
      /\ mailbox' = [mailbox EXCEPT ![d] =
            IF driver_file[d] = None THEN <<own>> ELSE <<Plain("Recovery"), own>>]
      /\ UNCHANGED <<reconnecting, authorizing, driver, driver_file, current_passenger_connection,
                     carried, passenger, passenger_file>>
  BY DriverTyped DEF StartDriver, Starts, serverVars, gatewayVars, driverVars, passengerVars
<1>2. driver_file[d] = None  BY <1>1 DEF Uninterrupted, FirstWay
<1>3. /\ <<own>> \in Seq(Msg) /\ NoneOf(<<own>>, ReturnMsg) /\ NoneOf(<<own>>, EndMsg)
      /\ NoneOf(<<own>>, DriverInbox)
  <2>1. own \in Msg /\ own.type = "Register"  BY PlainMsg DEF PlainType
  <2> HIDE DEF own
  <2>2. own \notin ReturnMsg /\ own \notin EndMsg /\ own \notin DriverInbox
    BY <2>1 DEF ReturnMsg, EndMsg, DriverInbox, OfType
  <2> QED  BY <2>1, <2>2, OneNone
<1> HIDE DEF own
<1>4. /\ mailbox'[d] = <<own>> /\ \A a \in Actors : a # d => mailbox'[a] = mailbox[a]
      /\ \A a \in Actors : a # d => starts'[a] = starts[a]
      /\ \A a \in Actors : starts[a] \in Nat
  BY <1>1, <1>2 DEF TypeOK
<1>5. /\ mailbox[d] = <<>> /\ driver[d] = NewDriver /\ current_passenger_connection[d] = None
  BY <1>1 DEF IInv, DriverInv, DriverDown
<1>6. \A p \in Passengers : p \in Actors /\ p # d /\ mailbox'[p] = mailbox[p]
                            /\ starts'[p] = starts[p] /\ (p \in up' <=> p \in up)
  BY <1>1, <1>4, ActorsApart
<1>7. \A a \in Actors : NoneOf(mailbox[a], ReturnMsg)'
  BY <1>3, <1>4 DEF Uninterrupted, ReturnMsg, OfType
<1>8. ASSUME NEW e \in Drivers PROVE FirstWay(e)' /\ Newest(e)'
  <2>1. FirstWay(e) /\ Newest(e)  BY DEF Uninterrupted
  <2>2. CASE e = d
    <3>1. FirstWay(d)'
      BY <1>1, <1>3, <1>4, <1>5, NewDriverFacts DEF FirstWay, EndMsg, OfType
    <3>2. Newest(d)'
      <4>1. \A i \in 1..Len(mailbox'[d]) : mailbox'[d][i] \notin DriverInbox
        BY <1>3, <1>4 DEF NoneOf
      <4>2. current_passenger_connection'[d] = None  BY <1>1, <1>5
      <4> QED  BY <4>1, <4>2 DEF Newest, InOrder, Started, DriverInbox, OfType
    <3> QED  BY <2>2, <3>1, <3>2
  <2>3. CASE e # d
    <3>1. mailbox'[e] = mailbox[e] /\ (e \in up' <=> e \in up)
      BY <1>1, <1>4, <2>3, ActorsApart
    <3>2. \A q \in Passengers : starts'[q] \in Nat /\ starts'[q] >= starts[q]
      BY <1>4, <1>6
    <3>3. Newest(e)'  BY <1>1, <2>1, <3>1, <3>2, StillNewest
    <3> QED  BY <1>1, <2>1, <3>1, <3>3 DEF FirstWay, EndMsg, OfType
  <2> QED  BY <2>2, <2>3
<1>9. ASSUME NEW p \in Passengers
      PROVE  DriverStays(p)' /\ Connected(p)' /\ Fresh(p)' /\ GoesOn(p)'
  <2>1. DriverStays(p) /\ Connected(p) /\ Fresh(p) /\ GoesOn(p)  BY DEF Uninterrupted
  <2>2. /\ mailbox'[p] = mailbox[p] /\ (p \in up' <=> p \in up) /\ starts'[p] = starts[p]
        /\ Self(p)' = Self(p)
    BY <1>6 DEF Self
  <2>3. NoneOf(<<own>>, RecoverFrom(p)) /\ NoneOf(<<own>>, AskedBy(Self(p)))
    BY <1>3 DEF NoneOf, RecoverFrom, AskedBy, DriverInbox, OfType
  <2>4. \A e \in Drivers : /\ e # d => mailbox'[e] = mailbox[e]
                           /\ e \in up => e \in up'
    BY <1>1, <1>4, ActorsApart
  <2>5. DriverStays(p)'
    <3>1. \A e \in Drivers : HasDriver(p, e)' => HasDriver(p, e)
      BY <1>1, <1>4, <2>2, <2>3, <2>4 DEF HasDriver, AcceptedBy, AcceptMsg, RecoverFrom, OfType
    <3> QED  BY <1>1, <2>1, <2>4, <3>1 DEF DriverStays, PassengerOf
  <2>6. Connected(p)'
    <3> DEFINE c == passenger[p].connection
    <3>1. Running(c) => Running(c)'
      <4>1. SUFFICES ASSUME Running(c) PROVE c.actor \in up' /\ starts'[c.actor] = c.start
        BY <1>1 DEF Running
      <4>2. c.actor \in up /\ c.actor # d /\ c.actor \in Actors
        BY <1>1, <4>1 DEF Running, TypeOK
      <4> QED  BY <1>1, <1>4, <4>1, <4>2 DEF Running
    <3> QED  BY <1>1, <2>1, <2>2, <3>1 DEF Connected, RequestMsg, OfType
  <2>7. Fresh(p)'
    <3>1. \A e \in Drivers : NoneOf(mailbox[e], AskedBy(Self(p)))
                               => NoneOf(mailbox'[e], AskedBy(Self(p)))
      BY <1>4, <2>3, <2>4
    <3> QED
      BY <2>1, <2>2, <3>1 DEF Fresh, RecoverMsg, RequestMsg, AcceptMsg, AskedBy, OfType
  <2>8. GoesOn(p)'
    <3>1. ASSUME NEW e \in Drivers, Awaits(p, e) PROVE Awaits(p, e)'
      <4>1. e # d
        <5>1. NoneOf(mailbox[d], AskedBy(Self(p)))  BY <1>5, QuietMsg
        <5>2. ~Fetches(d, p)  BY <1>5, NewDriverFacts, ActorsApart DEF Fetches
        <5> QED  BY <3>1, <5>1, <5>2 DEF Awaits
      <4> QED  BY <1>1, <2>2, <2>4, <3>1, <4>1 DEF Awaits, Fetches, PassengerOf, AskedBy, OfType
    <3>2. Settled(p)' <=> Settled(p)  BY <1>1, <2>2 DEF Settled, AcceptMsg, OfType
    <3> QED
      BY <1>1, <2>1, <2>2, <3>1, <3>2 DEF GoesOn, LiveMsg, SearchMsg, RecoverMsg, TravelMsg, OfType
  <2> QED  BY <2>5, <2>6, <2>7, <2>8
<1>10. reconnecting' = {}  BY <1>1 DEF Uninterrupted
<1> QED  BY <1>7, <1>8, <1>9, <1>10 DEF Uninterrupted

\* Who did not start anybody keeps the count.
LEMMA CountedStays ==
    ASSUME Counted, UNCHANGED starts, up' \subseteq up,
           \A p \in Passengers : passenger_file'[p] # passenger_file[p] => p \in up,
           \A d \in Drivers : d \in up' <=> d \in up
    PROVE  Counted' /\ (NoDriverCrashed' <=> NoDriverCrashed)
<1>1. \A a \in Actors : a \in up' => starts'[a] >= 1  BY DEF Counted
<1>2. \A p \in Passengers : p \in Actors  BY ActorsApart
<1>3. \A p \in Passengers : passenger_file'[p] # None => starts'[p] >= 1
  BY <1>2 DEF Counted
<1> QED  BY <1>1, <1>3 DEF Counted, NoDriverCrashed

\* A process that starts is counted.
LEMMA CountedStarts ==
    ASSUME TypeOK, Counted, NEW a \in Actors, Starts(a), UNCHANGED passenger_file
    PROVE  Counted'
<1>1. /\ up' = up \cup {a} /\ starts'[a] = starts[a] + 1 /\ \A b \in Actors : starts[b] \in Nat
      /\ \A b \in Actors : b # a => starts'[b] = starts[b]
  BY DEF Starts, TypeOK
<1>2. \A b \in Actors : starts'[b] >= starts[b] /\ (b = a => starts'[b] >= 1) /\ starts'[b] \in Nat
  <2> SUFFICES ASSUME NEW b \in Actors
               PROVE  starts'[b] >= starts[b] /\ (b = a => starts'[b] >= 1) /\ starts'[b] \in Nat
    OBVIOUS
  <2>1. CASE b = a  BY <1>1, <2>1
  <2>2. CASE b # a  BY <1>1, <2>2
  <2> QED  BY <2>1, <2>2
<1>3. ASSUME NEW b \in Actors, starts[b] >= 1 PROVE starts'[b] >= 1
  BY <1>1, <1>2, <1>3
<1>4. \A p \in Passengers : p \in Actors  BY ActorsApart
<1> QED  BY <1>1, <1>2, <1>3, <1>4 DEF Counted

LEMMA StutterOn ==
    ASSUME NobodyLostInv, UNCHANGED vars
    PROVE  NobodyLostInv'
<1>1. UNCHANGED <<up, starts, mailbox, reconnecting, authorizing, driver, driver_file,
                  current_passenger_connection, carried, passenger, passenger_file>>
  BY DEF vars, serverVars, gatewayVars, driverVars, passengerVars
<1>2. \A p \in Passengers : Self(p)' = Self(p)  BY <1>1 DEF Self
<1>3. Counted' /\ (NoDriverCrashed' <=> NoDriverCrashed)
  BY <1>1, CountedStays DEF NobodyLostInv
<1>4. ASSUME Uninterrupted PROVE Uninterrupted'
  <2>1. \A d \in Drivers : FirstWay(d)' /\ Newest(d)'
    BY <1>1, <1>4
       DEF Uninterrupted, FirstWay, Newest, InOrder, Started, Precedes, EndMsg, DriverInbox, OfType
  <2>2. ASSUME NEW p \in Passengers
        PROVE  DriverStays(p)' /\ Connected(p)' /\ Fresh(p)' /\ GoesOn(p)'
    <3>1. DriverStays(p) /\ Connected(p) /\ Fresh(p) /\ GoesOn(p)  BY <1>4 DEF Uninterrupted
    <3>2. DriverStays(p)'
      BY <1>1, <3>1
         DEF DriverStays, HasDriver, AcceptedBy, AcceptMsg, RecoverFrom, OfType, PassengerOf
    <3>3. Connected(p)'  BY <1>1, <3>1 DEF Connected, Running, RequestMsg, OfType
    <3>4. Fresh(p)'
      BY <1>1, <1>2, <3>1 DEF Fresh, RecoverMsg, RequestMsg, AcceptMsg, AskedBy, OfType
    <3>5. GoesOn(p)'
      <4>1. \A d \in Drivers : Awaits(p, d)' <=> Awaits(p, d)
        BY <1>1, <1>2 DEF Awaits, Fetches, PassengerOf, AskedBy, OfType
      <4>2. Settled(p)' <=> Settled(p)  BY <1>1 DEF Settled, AcceptMsg, OfType
      <4> QED
        BY <1>1, <3>1, <4>1, <4>2 DEF GoesOn, LiveMsg, SearchMsg, RecoverMsg, TravelMsg, OfType
    <3> QED  BY <3>2, <3>3, <3>4, <3>5
  <2> QED  BY <1>1, <1>4, <2>1, <2>2 DEF Uninterrupted, ReturnMsg, OfType
<1> QED  BY <1>3, <1>4 DEF NobodyLostInv

LEMMA NobodyLostStep == IInv /\ NobodyLostInv /\ [Next]_vars => NobodyLostInv'
<1> SUFFICES ASSUME IInv, NobodyLostInv, [Next]_vars PROVE NobodyLostInv'
  OBVIOUS
<1>1. TypeOK /\ Counted  BY DEF IInv, NobodyLostInv
<1>2. ASSUME NEW p \in Passengers, StartPassenger(p) PROVE NobodyLostInv'
  <2>1. /\ p \in Actors /\ Starts(p) /\ UNCHANGED passenger_file
        /\ up' = up \cup {p} /\ starts' = [starts EXCEPT ![p] = @ + 1]
    BY <1>2, ActorsApart DEF StartPassenger, Starts, passengerVars
  <2>2. \A d \in Drivers : starts'[d] = starts[d] /\ (d \in up' <=> d \in up)
    BY <1>1, <2>1, ActorsApart DEF TypeOK
  <2>3. NoDriverCrashed' => NoDriverCrashed  BY <2>2 DEF NoDriverCrashed
  <2> QED  BY <1>1, <1>2, <2>1, <2>3, CountedStarts, StartPassengerOn DEF NobodyLostInv
<1>3. ASSUME NEW d \in Drivers, StartDriver(d) PROVE NobodyLostInv'
  <2>1. /\ d \in Actors /\ Starts(d) /\ UNCHANGED passenger_file /\ d \notin up
        /\ up' = up \cup {d} /\ starts' = [starts EXCEPT ![d] = @ + 1]
    BY <1>3, ActorsApart DEF StartDriver, Starts, passengerVars
  <2>2. /\ starts'[d] = starts[d] + 1 /\ starts[d] \in Nat /\ d \in up'
        /\ \A e \in Drivers : e # d => starts'[e] = starts[e] /\ (e \in up' <=> e \in up)
    BY <1>1, <2>1, ActorsApart DEF TypeOK
  <2>3. ASSUME NoDriverCrashed' PROVE NoDriverCrashed /\ starts[d] = 0
    <3>1. starts[d] = 0  BY <2>2, <2>3 DEF NoDriverCrashed
    <3> QED  BY <2>1, <2>2, <2>3, <3>1 DEF NoDriverCrashed
  <2> QED  BY <1>1, <1>3, <2>1, <2>3, CountedStarts, StartDriverOn DEF NobodyLostInv
<1>4. ASSUME NEW d \in Drivers, CrashDriver(d) PROVE NobodyLostInv'
  <2>1. /\ d \in Actors /\ d \in up /\ up' = up \ {d}
        /\ UNCHANGED <<starts, passenger_file>>
    BY <1>4, ActorsApart DEF CrashDriver, Crashes, passengerVars
  <2>2. starts[d] >= 1  BY <1>1, <2>1 DEF Counted
  <2>3. ~NoDriverCrashed'  BY <2>1, <2>2 DEF NoDriverCrashed
  <2>4. Counted'
    <3>1. \A a \in Actors : a \in up' => starts'[a] >= 1  BY <1>1, <2>1 DEF Counted
    <3> QED  BY <1>1, <2>1, <3>1 DEF Counted
  <2> QED  BY <2>3, <2>4 DEF NobodyLostInv
<1>5. ASSUME Uninterrupted => Uninterrupted', UNCHANGED starts, up' \subseteq up,
             \A p \in Passengers : passenger_file'[p] # passenger_file[p] => p \in up,
             \A d \in Drivers : d \in up' <=> d \in up
      PROVE  NobodyLostInv'
  BY <1>1, <1>5, CountedStays DEF NobodyLostInv
<1>6. ASSUME NEW p \in Passengers, CrashPassenger(p) \/ Authorize(p) \/ PassengerStep(p)
      PROVE  NobodyLostInv'
  <2> USE DEF passengerVars
  <2>1. UNCHANGED starts
    BY <1>6
       DEF CrashPassenger, Authorize, PassengerStep, Login, GetDrivers, DriversHandler, RequestDrive,
           KeepLooking, PaymentAuthorized, PaymentDeny, RideAccepted, DriverArrived, TravelOn, Becomes,
           TravelEnds, Recover, RecoverResponse, ReconnectDriver
  <2>2. up' = up \/ up' = up \ {p}
    BY <1>6
       DEF CrashPassenger, Authorize, PassengerStep, Login, GetDrivers, DriversHandler, RequestDrive,
           KeepLooking, PaymentAuthorized, PaymentDeny, RideAccepted, DriverArrived, TravelOn, Becomes,
           TravelEnds, Recover, RecoverResponse, ReconnectDriver, ConfirmPayment, Ends
  <2>3. \/ passenger_file' = passenger_file
        \/ p \in up /\ \E f : passenger_file' = [passenger_file EXCEPT ![p] = f]
    BY <1>6
       DEF CrashPassenger, Authorize, PassengerStep, Login, GetDrivers, DriversHandler, RequestDrive,
           KeepLooking, PaymentAuthorized, PaymentDeny, RideAccepted, DriverArrived, TravelOn, Becomes,
           TravelEnds, Recover, RecoverResponse, ReconnectDriver, Handles
  <2>4. \A q \in Passengers : passenger_file'[q] # passenger_file[q] => q \in up
    BY <1>1, <2>3 DEF TypeOK
  <2>5. \A d \in Drivers : d \in up' <=> d \in up  BY <2>2, ActorsApart
  <2> QED  BY <1>5, <1>6, <2>1, <2>2, <2>4, <2>5, PassengerOn
<1>7. ASSUME NEW d \in Drivers, DriverStep(d) PROVE NobodyLostInv'
  <2>1. UNCHANGED <<up, starts, passenger_file>>
    BY <1>7
       DEF DriverStep, Register, Recovery, RefuseRide, AcceptRide, SaveState, StartRide,
           ApproachPassenger, PickUpPassenger, RideOn, ReachDestination, RideStep, EndRide,
           PassengerRecover, ReconnectPassenger, passengerVars
  <2> QED  BY <1>5, <1>7, <2>1, DriverOn
<1>8. ASSUME NEW d \in Drivers, NEW p \in Passengers, TellPassenger(d, p) PROVE NobodyLostInv'
  <2>1. UNCHANGED <<up, starts, passenger_file>> /\ <<d, p>> \in reconnecting
    BY <1>8 DEF TellPassenger, passengerVars
  <2>2. ~Uninterrupted  BY <2>1 DEF Uninterrupted
  <2> QED  BY <1>5, <2>1, <2>2
<1>9. CASE UNCHANGED vars  BY <1>9, StutterOn
<1> QED  BY <1>2, <1>3, <1>4, <1>6, <1>7, <1>8, <1>9 DEF Next

\* While no driver crashes, a passenger that runs and has nothing left to do is
\* expected by a driver, or has no driver and nobody left to ask, or was started
\* again after it was authorised and before a driver answered: no handler of a
\* passenger or a driver leaves the other without the message that makes it go on.
THEOREM NobodyIsForgotten == Spec => []NobodyForgotten
<1>1. Init => NobodyLostInv
  <2> SUFFICES ASSUME Init PROVE Counted /\ Uninterrupted  BY DEF NobodyLostInv
  <2>1. /\ \A a \in Actors : mailbox[a] = <<>>
        /\ \A a \in Actors : \A M : NoneOf(mailbox[a], M)
        /\ up = {} /\ reconnecting = {} /\ authorizing = {}
    BY QuietMsg DEF Init
  <2>2. /\ \A d \in Drivers : /\ d \in Actors /\ driver[d] = NewDriver /\ driver_file[d] = None
                               /\ current_passenger_connection[d] = None
        /\ \A p \in Passengers : /\ p \in Actors /\ passenger[p] = NewPassenger
                                  /\ passenger_file[p] = None
    BY ActorsApart DEF Init
  <2>3. Counted  BY <2>1, <2>2 DEF Counted
  <2>4. ASSUME NEW d \in Drivers PROVE FirstWay(d) /\ Newest(d)
    <3>1. FirstWay(d)  BY <2>1, <2>2, NewDriverFacts DEF FirstWay
    <3>2. InOrder(<<>>) /\ Started(<<>>)  BY DEF InOrder, Started
    <3>3. Newest(d)  BY <2>1, <2>2, <3>2 DEF Newest
    <3> QED  BY <3>1, <3>3
  <2>5. ASSUME NEW p \in Passengers
        PROVE  DriverStays(p) /\ Connected(p) /\ Fresh(p) /\ GoesOn(p)
    <3>1. Connected(p) /\ Fresh(p) /\ GoesOn(p)
      BY <2>1, <2>2 DEF Connected, Fresh, GoesOn
    <3>2. passenger[p].driver_socket = None  BY <2>2 DEF NewPassenger
    <3>3. \A d \in Drivers : ~HasDriver(p, d)
      BY <2>1, <2>2, <3>2, ActorsApart DEF HasDriver
    <3> QED  BY <3>1, <3>3 DEF DriverStays
  <2> QED  BY <2>1, <2>3, <2>4, <2>5 DEF Uninterrupted
<1>2. IInv /\ NobodyLostInv => NobodyForgotten
  <2> SUFFICES ASSUME IInv, NobodyLostInv, NoDriverCrashed, NEW p \in up \cap Passengers,
                      mailbox[p] = <<>>, p \notin authorizing
               PROVE  \/ Expected(p)
                      \/ passenger[p].driver_socket = None
                         /\ (passenger[p].drivers_info = {} \/ starts[p] > 1)
    BY DEF NobodyForgotten
  <2>1. GoesOn(p)  BY DEF NobodyLostInv, Uninterrupted
  <2>2. NoneOf(mailbox[p], LiveMsg)  BY QuietMsg
  <2>3. ASSUME NEW d \in Drivers, Awaits(p, d) PROVE Expected(p)
    <3>1. CASE ~NoneOf(mailbox[d], AskedBy(Self(p)))
      BY <3>1 DEF NoneOf, AskedBy, OfType, Expected
    <3>2. CASE Fetches(d, p)  BY <3>2 DEF Fetches, Expected
    <3> QED  BY <2>3, <3>1, <3>2 DEF Awaits
  <2>4. CASE Settled(p)  BY <2>4 DEF Settled
  <2> QED  BY <2>1, <2>2, <2>3, <2>4 DEF GoesOn
<1> QED  BY <1>1, <1>2, Invariant, NobodyLostStep, PTL DEF Spec
=============================================================================
