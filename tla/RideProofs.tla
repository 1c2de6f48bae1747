----------------------------- MODULE RideProofs -----------------------------
(***************************************************************************)
(* Ride: for any number of passengers and drivers and whatever crashes,    *)
(* the drivers keep the contract of module RideContract, no passenger is   *)
(* the current one of two drivers, and nobody travels that was not picked  *)
(* up; while nothing has crashed, a ride is paid for once.  The steps of   *)
(* passengers come first, then those of drivers and of the leader.         *)
(*                                                                         *)
(* The strengthening follows two tokens.  The search of a passenger is in  *)
(* one place at a time: in its mailbox, at the gateway, in the mailbox of  *)
(* a driver, or with the driver that took it; once a driver has been asked *)
(* the file of the passenger says that it is authorized, so that no crash  *)
(* starts a second search.  The way of a driver is one message in its own  *)
(* mailbox, and is there only between the taking of the passenger and the  *)
(* end of its ride.                                                        *)
(***************************************************************************)
EXTENDS Ride, SequenceTheorems, TLAPS

-----------------------------------------------------------------------------
(* Mailboxes.                                                              *)

NoneOf(q, M)    == \A i \in 1..Len(q) : q[i] \notin M
AtMostOne(q, M) == \A i, j \in 1..Len(q) : q[i] \in M /\ q[j] \in M => i = j
FirstOnly(q, M) == \A i \in 1..Len(q) : q[i] \in M => i = 1

\* Every request to a driver is behind the news that the payment is authorized.
RequestBehind(q) ==
    \A i \in 1..Len(q) :
        q[i].type = "RequestDrive" => \E j \in 1..(i - 1) : q[j].type = "PaymentAuthorized"

OfType(T)      == {m \in Msg : m.type \in T}
SearchMsg      == OfType({"GetDrivers", "Drivers", "KeepLooking", "RequestDrive", "PaymentDeny"})
RecoverMsg     == OfType({"Recover"})
RequestMsg     == OfType({"RequestDrive"})
TravelMsg      == OfType({"DriverArrived", "Traveling"})
                  \cup {m \in OfType({"RecoverResponse"}) : m.picked_up}
SocketMsg(d)   == {m \in OfType({"ReconnectDriver"}) : m.socket = d}
RecoveryMsg    == OfType({"Recovery"})
WayMsg         == OfType({"StartRide", "PickUpPassenger", "RideToDestination", "EndRide"})
AboardMsg      == OfType({"RideToDestination", "EndRide"})
RideRequest(p) == {m \in OfType({"RequestRide"}) : m.from.actor = p}
Reconnect(p)   == {m \in OfType({"ReconnectPassenger"}) : m.from.actor = p}

\* What drivers get from others, and what passengers get.
DriverInbox    == OfType({"RequestRide", "PassengerRecover", "ReconnectPassenger"})
PassengerInbox == OfType({"KeepLooking", "RideAccepted", "DriverArrived", "RecoverResponse",
                          "ReconnectDriver"})

-----------------------------------------------------------------------------
(* The inductive invariant.                                                *)

\* A state or a file of a driver: whoever it holds is a passenger it has picked
\* up, or one it is on its way to.
Sound(s) ==
    /\ s.is_available => ~s.passenger_picked_up
    /\ ~s.is_available => s.id_current_passenger # None
    /\ s.id_current_passenger # None /\ (s.is_available \/ s.passenger_picked_up)
          => s.id_current_passenger \in carried

\* A process that does not run has nothing in memory.
DriverDown(d) ==
    d \notin up => /\ mailbox[d] = <<>>
                   /\ driver[d] = NewDriver
                   /\ saving[d] = None
                   /\ current_passenger_connection[d] = None

\* A driver with a file recovers before anything else.
DriverRecovers(d) ==
    /\ FirstOnly(mailbox[d], RecoveryMsg)
    /\ ~NoneOf(mailbox[d], RecoveryMsg) =>
          /\ driver[d] = NewDriver
          /\ driver_file[d] # None
          /\ saving[d] = None
          /\ current_passenger_connection[d] = None
          /\ NoneOf(mailbox[d], WayMsg)

\* The file lags behind the memory only while it is being written.
DriverSaves(d) ==
    /\ d \in up /\ NoneOf(mailbox[d], RecoveryMsg) /\ saving[d] = None
          => PassengerOf(driver[d]) = PassengerOf(driver_file[d])
    /\ saving[d] = "RequestRide" =>
          /\ ~driver[d].is_available
          /\ ~driver[d].passenger_picked_up
          /\ PassengerOf(driver_file[d]) = None
          /\ PassengerOf(driver[d]) \notin carried
          /\ NoneOf(mailbox[d], WayMsg)
    /\ saving[d] = "EndRide" =>
          /\ driver[d].is_available
          /\ PassengerOf(driver_file[d]) \in carried

\* The way is one message, of a driver that is busy.
DriverWay(d) ==
    /\ AtMostOne(mailbox[d], WayMsg)
    /\ driver[d].is_available => NoneOf(mailbox[d], WayMsg)
    /\ ~driver[d].passenger_picked_up => NoneOf(mailbox[d], AboardMsg)

DriverSound(d) == Sound(driver[d]) /\ (driver_file[d] # None => Sound(driver_file[d]))

\* The connection is to the current passenger or to one of before.
DriverTalks(d) ==
    LET c == current_passenger_connection[d] IN
    c # None => c.actor \in carried \/ c.actor = PassengerOf(driver[d])

\* Who is told to reconnect to d is or was its passenger.
DriverKnows(d) ==
    \A p \in Passengers :
        \/ <<d, p>> \in reconnecting
        \/ ~NoneOf(mailbox[p], SocketMsg(d))
        \/ ~NoneOf(mailbox[d], Reconnect(p))
        => p \in carried \/ PassengerOf(driver_file[d]) = p

DriverInv(d) ==
    /\ DriverDown(d) /\ DriverRecovers(d) /\ DriverSaves(d) /\ DriverWay(d)
    /\ DriverSound(d) /\ DriverTalks(d)

Authorized(p) == passenger_file[p] # None /\ passenger_file[p].payment_authorized

PassengerDown(p) ==
    p \notin up => /\ mailbox[p] = <<>>
                   /\ passenger[p] = NewPassenger
                   /\ p \notin authorizing

\* A passenger with a file recovers before anything else.
PassengerRecovers(p) ==
    /\ FirstOnly(mailbox[p], RecoverMsg)
    /\ ~NoneOf(mailbox[p], RecoverMsg) =>
          /\ passenger_file[p] # None
          /\ p \notin authorizing
          /\ Authorized(p) \/ NoneOf(mailbox[p], SearchMsg)

\* A request is sent only after the authorisation is on disk.
PassengerSaves(p) ==
    /\ p \in up /\ NoneOf(mailbox[p], RecoverMsg)
          => (passenger[p].payment_authorized <=> Authorized(p))
    /\ passenger[p].payment_authorized \/ RequestBehind(mailbox[p])

PassengerTravels(p) ==
    ~NoneOf(mailbox[p], TravelMsg) \/ passenger[p].position # "origin" => p \in carried

PassengerInv(p) ==
    PassengerDown(p) /\ PassengerRecovers(p) /\ PassengerSaves(p) /\ PassengerTravels(p)

\* Where the search of p can be.
Seeks(p)     == p \in authorizing \/ ~NoneOf(mailbox[p], SearchMsg)
Asks(p, d)   == ~NoneOf(mailbox[d], RideRequest(p))
Serves(d, p) == PassengerOf(driver[d]) = p \/ PassengerOf(driver_file[d]) = p

Exclusive(p) ==
    /\ AtMostOne(mailbox[p], SearchMsg)
    /\ p \in authorizing => NoneOf(mailbox[p], SearchMsg)
    /\ \A d \in Drivers : AtMostOne(mailbox[d], RideRequest(p))
    /\ Seeks(p) => p \notin carried /\ \A d \in Drivers : ~Asks(p, d) /\ ~Serves(d, p)
    /\ \A d, e \in Drivers :
          /\ Asks(p, d) => p \notin carried /\ ~Serves(e, p) /\ (Asks(p, e) => e = d)
          /\ Serves(d, p) /\ Serves(e, p) => e = d
    /\ p \in carried \/ (\E d \in Drivers : Asks(p, d) \/ Serves(d, p)) => Authorized(p)

IInv ==
    /\ TypeOK
    /\ \A d \in Drivers : DriverInv(d) /\ DriverKnows(d)
    /\ \A p \in Passengers : PassengerInv(p) /\ Exclusive(p)

-----------------------------------------------------------------------------
(* Lemmas about mailboxes.                                                 *)

\* r is q, which may have lost messages at its head, with messages of S behind it.
Extends(r, q, S) ==
    \A M : M \cap S = {} =>
        /\ NoneOf(q, M)    => NoneOf(r, M)
        /\ AtMostOne(q, M) => AtMostOne(r, M)
        /\ FirstOnly(q, M) => FirstOnly(r, M)

LEMMA ExtendsUse ==
    ASSUME NEW r, NEW q, NEW S, NEW M, Extends(r, q, S), M \cap S = {}
    PROVE  /\ NoneOf(q, M)    => NoneOf(r, M)
           /\ AtMostOne(q, M) => AtMostOne(r, M)
           /\ FirstOnly(q, M) => FirstOnly(r, M)
BY DEF Extends

LEMMA ExtendsSame ==
    ASSUME NEW q, NEW S
    PROVE  Extends(q, q, S)
BY DEF Extends

\* Messages at the end of a mailbox.
LEMMA AppendExtends ==
    ASSUME NEW q \in Seq(Msg), NEW out \in Seq(Msg), NEW S,
           \A i \in 1..Len(out) : out[i] \in S
    PROVE  q \o out \in Seq(Msg) /\ Extends(q \o out, q, S)
<1> DEFINE r == q \o out
<1>1. /\ r \in Seq(Msg) /\ Len(r) = Len(q) + Len(out) /\ Len(q) \in Nat /\ Len(out) \in Nat
      /\ \A i \in 1..Len(r) : r[i] = IF i <= Len(q) THEN q[i] ELSE out[i - Len(q)]
  BY ConcatProperties, LenProperties
<1> HIDE DEF r
<1>2. ASSUME NEW M, M \cap S = {}
      PROVE  \A i \in 1..Len(r) : r[i] \in M => i \in 1..Len(q) /\ q[i] \in M
  <2> SUFFICES ASSUME NEW i \in 1..Len(r), r[i] \in M  PROVE i \in 1..Len(q) /\ q[i] \in M
    OBVIOUS
  <2>1. CASE i <= Len(q)  BY <1>1, <2>1
  <2>2. CASE ~(i <= Len(q))
    <3>1. i - Len(q) \in 1..Len(out) /\ r[i] = out[i - Len(q)]  BY <1>1, <2>2
    <3> QED  BY <1>2, <3>1
  <2> QED  BY <2>1, <2>2
<1>3. Extends(r, q, S)
  BY <1>2 DEF Extends, NoneOf, AtMostOne, FirstOnly
<1> QED  BY <1>1, <1>3 DEF r

\* The head is handled.
LEMMA TailExtends ==
    ASSUME NEW q \in Seq(Msg), q # <<>>
    PROVE  Tail(q) \in Seq(Msg) /\ Extends(Tail(q), q, {})
<1>1. /\ Tail(q) \in Seq(Msg) /\ Len(Tail(q)) = Len(q) - 1 /\ Len(q) \in Nat
      /\ \A i \in 1..Len(Tail(q)) : Tail(q)[i] = q[i + 1]
  BY HeadTailProperties, LenProperties
<1>2. ASSUME NEW M
      PROVE  \A i \in 1..Len(Tail(q)) : Tail(q)[i] \in M => i + 1 \in 1..Len(q) /\ q[i + 1] \in M
  BY <1>1
<1>3. Extends(Tail(q), q, {})
  <2> SUFFICES ASSUME NEW M
               PROVE  /\ NoneOf(q, M)    => NoneOf(Tail(q), M)
                      /\ AtMostOne(q, M) => AtMostOne(Tail(q), M)
                      /\ FirstOnly(q, M) => FirstOnly(Tail(q), M)
    BY DEF Extends
  <2>1. NoneOf(q, M) => NoneOf(Tail(q), M)  BY <1>2 DEF NoneOf
  <2>2. AtMostOne(q, M) => AtMostOne(Tail(q), M)
    <3> SUFFICES ASSUME AtMostOne(q, M), NEW i \in 1..Len(Tail(q)), NEW j \in 1..Len(Tail(q)),
                        Tail(q)[i] \in M, Tail(q)[j] \in M
                 PROVE  i = j
      BY DEF AtMostOne
    <3>1. i + 1 = j + 1  BY <1>2 DEF AtMostOne
    <3> QED  BY <3>1
  <2>3. FirstOnly(q, M) => FirstOnly(Tail(q), M)
    <3> SUFFICES ASSUME FirstOnly(q, M), NEW i \in 1..Len(Tail(q)), Tail(q)[i] \in M
                 PROVE  i = 1
      BY DEF FirstOnly
    <3>1. i + 1 = 1  BY <1>2 DEF FirstOnly
    <3> QED  BY <3>1
  <2> QED  BY <2>1, <2>2, <2>3
<1> QED  BY <1>1, <1>3

LEMMA ExtendsTwice ==
    ASSUME NEW r, NEW q, NEW o, NEW S, Extends(r, q, S), Extends(q, o, {})
    PROVE  Extends(r, o, S)
<1> SUFFICES ASSUME NEW M, M \cap S = {}
             PROVE  /\ NoneOf(o, M)    => NoneOf(r, M)
                    /\ AtMostOne(o, M) => AtMostOne(r, M)
                    /\ FirstOnly(o, M) => FirstOnly(r, M)
  BY DEF Extends
<1>1. M \cap {} = {}  OBVIOUS
<1>2. /\ NoneOf(o, M)    => NoneOf(q, M)
      /\ AtMostOne(o, M) => AtMostOne(q, M)
      /\ FirstOnly(o, M) => FirstOnly(q, M)
  BY <1>1, ExtendsUse
<1> QED  BY <1>2, ExtendsUse

\* The head of a mailbox and what is behind it.
LEMMA HeadFacts ==
    ASSUME NEW q \in Seq(Msg), q # <<>>, NEW M
    PROVE  /\ Head(q) \in Msg
           /\ Head(q) \in M => ~NoneOf(q, M)
           /\ Head(q) \in M /\ AtMostOne(q, M) => NoneOf(Tail(q), M)
           /\ FirstOnly(q, M) => NoneOf(Tail(q), M)
           /\ Head(q) \notin M /\ FirstOnly(q, M) => NoneOf(q, M)
           /\ ~NoneOf(q, M) => Head(q) \in M \/ ~NoneOf(Tail(q), M)
<1>1. /\ Head(q) \in Msg /\ Head(q) = q[1] /\ Len(q) \in Nat /\ Len(q) >= 1
      /\ Len(Tail(q)) = Len(q) - 1
      /\ \A i \in 1..Len(Tail(q)) : Tail(q)[i] = q[i + 1]
  BY HeadTailProperties, LenProperties, EmptySeq
<1>2. Head(q) \in M => ~NoneOf(q, M)  BY <1>1 DEF NoneOf
<1>3. ASSUME NEW i \in 1..Len(Tail(q))
      PROVE  i + 1 \in 1..Len(q) /\ i + 1 # 1 /\ q[i + 1] = Tail(q)[i]
  BY <1>1
<1>4. Head(q) \in M /\ AtMostOne(q, M) => NoneOf(Tail(q), M)
  <2> SUFFICES ASSUME Head(q) \in M, AtMostOne(q, M), NEW i \in 1..Len(Tail(q)), Tail(q)[i] \in M
               PROVE  FALSE
    BY DEF NoneOf
  <2>1. 1 \in 1..Len(q)  BY <1>1
  <2> QED  BY <1>1, <1>3, <2>1 DEF AtMostOne
<1>5. FirstOnly(q, M) => NoneOf(Tail(q), M)
  BY <1>3 DEF FirstOnly, NoneOf
<1>6. Head(q) \notin M /\ FirstOnly(q, M) => NoneOf(q, M)
  BY <1>1 DEF FirstOnly, NoneOf
<1>7. ~NoneOf(q, M) => Head(q) \in M \/ ~NoneOf(Tail(q), M)
  <2> SUFFICES ASSUME NEW i \in 1..Len(q), q[i] \in M, Head(q) \notin M
               PROVE  ~NoneOf(Tail(q), M)
    BY DEF NoneOf
  <2>1. i # 1  BY <1>1
  <2>2. i - 1 \in 1..Len(Tail(q)) /\ Tail(q)[i - 1] = q[i]
    <3>1. i - 1 \in 1..Len(Tail(q)) /\ (i - 1) + 1 = i  BY <1>1, <2>1
    <3> QED  BY <1>1, <3>1
  <2> QED  BY <2>2 DEF NoneOf
<1> QED  BY <1>1, <1>2, <1>4, <1>5, <1>6, <1>7

\* What a mailbox without messages of M may get.
LEMMA AppendFacts ==
    ASSUME NEW q \in Seq(Msg), NEW out \in Seq(Msg), NEW M
    PROVE  /\ NoneOf(q, M) /\ NoneOf(out, M) => NoneOf(q \o out, M)
           /\ NoneOf(q, M) /\ AtMostOne(out, M) => AtMostOne(q \o out, M)
           /\ AtMostOne(q, M) /\ NoneOf(out, M) => AtMostOne(q \o out, M)
<1> DEFINE r == q \o out
<1>1. /\ Len(r) = Len(q) + Len(out) /\ Len(q) \in Nat /\ Len(out) \in Nat
      /\ \A i \in 1..Len(r) : r[i] = IF i <= Len(q) THEN q[i] ELSE out[i - Len(q)]
  BY ConcatProperties, LenProperties
<1> HIDE DEF r
<1>2. ASSUME NEW i \in 1..Len(r), r[i] \in M
      PROVE  \/ i \in 1..Len(q) /\ q[i] \in M
             \/ i - Len(q) \in 1..Len(out) /\ out[i - Len(q)] \in M
  BY <1>1, <1>2
<1>3. NoneOf(q, M) /\ NoneOf(out, M) => NoneOf(r, M)  BY <1>2 DEF NoneOf
<1>4. NoneOf(q, M) /\ AtMostOne(out, M) => AtMostOne(r, M)
  <2> SUFFICES ASSUME NoneOf(q, M), AtMostOne(out, M),
                      NEW i \in 1..Len(r), NEW j \in 1..Len(r), r[i] \in M, r[j] \in M
               PROVE  i = j
    BY DEF AtMostOne
  <2>1. i - Len(q) = j - Len(q)  BY <1>2 DEF NoneOf, AtMostOne
  <2> QED  BY <1>1, <2>1
<1>5. AtMostOne(q, M) /\ NoneOf(out, M) => AtMostOne(r, M)
  BY <1>2 DEF NoneOf, AtMostOne
<1> QED  BY <1>3, <1>4, <1>5 DEF r

\* Requests stay behind their authorisations.
LEMMA BehindAppend ==
    ASSUME NEW q \in Seq(Msg), NEW out \in Seq(Msg), NoneOf(out, RequestMsg), RequestBehind(q)
    PROVE  RequestBehind(q \o out)
<1> DEFINE r == q \o out
<1>1. /\ Len(r) = Len(q) + Len(out) /\ Len(q) \in Nat /\ Len(out) \in Nat
      /\ \A i \in 1..Len(r) : r[i] = IF i <= Len(q) THEN q[i] ELSE out[i - Len(q)]
      /\ \A i \in 1..Len(out) : out[i] \in Msg
  BY ConcatProperties, LenProperties
<1> HIDE DEF r
<1> SUFFICES ASSUME NEW i \in 1..Len(r), r[i].type = "RequestDrive"
             PROVE  \E j \in 1..(i - 1) : r[j].type = "PaymentAuthorized"
  BY DEF RequestBehind, r
<1>2. i \in 1..Len(q)
  <2> SUFFICES ASSUME ~(i <= Len(q))  PROVE FALSE
    BY <1>1
  <2>1. i - Len(q) \in 1..Len(out) /\ r[i] = out[i - Len(q)]  BY <1>1
  <2> QED  BY <1>1, <2>1 DEF NoneOf, RequestMsg, OfType
<1>3. PICK j \in 1..(i - 1) : q[j].type = "PaymentAuthorized"
  BY <1>1, <1>2 DEF RequestBehind
<1>4. r[j] = q[j]  BY <1>1, <1>2
<1> QED  BY <1>3, <1>4

LEMMA BehindTail ==
    ASSUME NEW q \in Seq(Msg), q # <<>>, Head(q).type # "PaymentAuthorized", RequestBehind(q)
    PROVE  RequestBehind(Tail(q))
<1>1. /\ Head(q) = q[1] /\ Len(q) \in Nat /\ Len(Tail(q)) = Len(q) - 1
      /\ \A i \in 1..Len(Tail(q)) : Tail(q)[i] = q[i + 1]
  BY HeadTailProperties, LenProperties
<1> SUFFICES ASSUME NEW i \in 1..Len(Tail(q)), Tail(q)[i].type = "RequestDrive"
             PROVE  \E j \in 1..(i - 1) : Tail(q)[j].type = "PaymentAuthorized"
  BY DEF RequestBehind
<1>2. i + 1 \in 1..Len(q) /\ q[i + 1].type = "RequestDrive"  BY <1>1
<1>3. PICK j \in 1..i : q[j].type = "PaymentAuthorized"
  BY <1>1, <1>2 DEF RequestBehind
<1>4. j # 1  BY <1>1, <1>3
<1>5. j - 1 \in 1..(i - 1) /\ j - 1 \in 1..Len(Tail(q)) /\ (j - 1) + 1 = j  BY <1>1, <1>4
<1> QED  BY <1>1, <1>3, <1>5

LEMMA BehindNone ==
    ASSUME NEW q \in Seq(Msg), NoneOf(q, RequestMsg)
    PROVE  RequestBehind(q)
BY LenProperties DEF NoneOf, RequestMsg, OfType, RequestBehind

LEMMA BehindHead ==
    ASSUME NEW q \in Seq(Msg), q # <<>>, RequestBehind(q)
    PROVE  Head(q).type # "RequestDrive"
<1>1. Head(q) = q[1] /\ Len(q) \in Nat /\ Len(q) >= 1
  BY HeadTailProperties, LenProperties, EmptySeq
<1> QED  BY <1>1 DEF RequestBehind

-----------------------------------------------------------------------------
(* Lemmas about messages.                                                  *)

LEMMA ShortMailbox ==
    ASSUME NEW m \in Msg, NEW n \in Msg, NEW M
    PROVE  /\ <<>> \in Seq(Msg) /\ NoneOf(<<>>, M) /\ AtMostOne(<<>>, M) /\ FirstOnly(<<>>, M)
           /\ <<m>> \in Seq(Msg) /\ AtMostOne(<<m>>, M) /\ FirstOnly(<<m>>, M)
           /\ m \notin M => NoneOf(<<m>>, M)
           /\ <<m, n>> \in Seq(Msg)
           /\ m \notin M /\ n \notin M => NoneOf(<<m, n>>, M)
           /\ m \notin M \/ n \notin M => AtMostOne(<<m, n>>, M)
           /\ n \notin M => FirstOnly(<<m, n>>, M)
<1>1. /\ Len(<<>>) = 0 /\ Len(<<m>>) = 1 /\ Len(<<m, n>>) = 2
      /\ <<m>>[1] = m /\ <<m, n>>[1] = m /\ <<m, n>>[2] = n
  OBVIOUS
<1> QED  BY <1>1 DEF NoneOf, AtMostOne, FirstOnly

LEMMA PlainMsg ==
    ASSUME NEW t \in PlainType
    PROVE  Plain(t) \in Msg /\ Plain(t).type = t
BY DEF Plain, Msg

\* A message with more than a type, by its type.
LEMMA MsgOfType ==
    ASSUME NEW m \in Msg
    PROVE  /\ m.type = "Drivers" => m.drivers_info \in SUBSET Drivers
           /\ m.type \in {"RideAccepted", "ReconnectDriver"} => m.socket \in Drivers
           /\ m.type = "RecoverResponse" =>
                 m.picked_up \in BOOLEAN /\ m.position \in Place /\ m.end_ride \in BOOLEAN
           /\ m.type \in {"RequestRide", "ReconnectPassenger"} => m.position \in Place
           /\ m.type \in {"RequestRide", "ReconnectPassenger", "PassengerRecover"} =>
                 /\ m.from \in Process(Passengers)
                 /\ m.from.actor \in Passengers
BY DEF Msg, PlainType, PassengerMsg, DriverMsg, Process

LEMMA TypedMsg ==
    ASSUME NEW S \in SUBSET Drivers, NEW d \in Drivers, NEW p \in Passengers,
           NEW q \in Place, NEW b \in BOOLEAN, NEW e \in BOOLEAN, TypeOK
    PROVE  /\ [type |-> "Drivers", drivers_info |-> S] \in Msg
           /\ [type |-> "RideAccepted", socket |-> d] \in Msg
           /\ [type |-> "ReconnectDriver", socket |-> d] \in Msg
           /\ [type |-> "RecoverResponse", picked_up |-> b, position |-> q, end_ride |-> e] \in Msg
           /\ Self(p) \in Process(Passengers) /\ Self(p).actor = p
           /\ Self(d) \in Process(Drivers) /\ Self(d).actor = d
           /\ [type |-> "RequestRide", from |-> Self(p), position |-> q] \in Msg
           /\ [type |-> "ReconnectPassenger", from |-> Self(p), position |-> q] \in Msg
           /\ [type |-> "PassengerRecover", from |-> Self(p)] \in Msg
<1>1. Self(p) \in Process(Passengers) /\ Self(d) \in Process(Drivers)
  BY DEF TypeOK, Self, Process, Actors
<1> QED  BY <1>1 DEF Msg, PassengerMsg, DriverMsg, Self

LEMMA ActorsApart ==
    /\ \A d \in Drivers, p \in Passengers : d # p
    /\ None \notin Drivers /\ None \notin Passengers
    /\ Drivers \subseteq Actors /\ Passengers \subseteq Actors
    /\ \A a \in Actors : a \in Drivers \/ a \in Passengers
BY RideAssumption DEF Actors

-----------------------------------------------------------------------------
(* Lemmas about what actors send.                                          *)

\* What the invariant says of the state of one actor.
LEMMA PassengerTyped ==
    ASSUME IInv, NEW p \in Passengers
    PROVE  /\ TypeOK /\ p \in Actors
           /\ passenger[p] \in PassengerState /\ mailbox[p] \in Seq(Msg)
<1>1. TypeOK /\ p \in Actors  BY ActorsApart DEF IInv
<1>2. passenger \in [Passengers -> PassengerState] /\ mailbox \in [Actors -> Seq(Msg)]
  BY <1>1 DEF TypeOK
<1> QED  BY <1>1, <1>2

LEMMA DriverTyped ==
    ASSUME IInv, NEW d \in Drivers
    PROVE  /\ TypeOK /\ d \in Actors /\ DriverInv(d)
           /\ driver \in [Drivers -> DriverState]
           /\ driver[d] \in DriverState /\ driver[d] # None /\ mailbox[d] \in Seq(Msg)
<1>1. TypeOK /\ d \in Actors /\ DriverInv(d)  BY ActorsApart DEF IInv
<1>2. driver \in [Drivers -> DriverState] /\ mailbox \in [Actors -> Seq(Msg)]
  BY <1>1 DEF TypeOK
<1>3. driver[d] # None  BY <1>2, NoneAssumption
<1> QED  BY <1>1, <1>2, <1>3

LEMMA HeadMsg ==
    ASSUME TypeOK, NEW a \in Actors, NEW t, Handles(a, t)
    PROVE  /\ a \in up /\ mailbox[a] \in Seq(Msg) /\ mailbox[a] # <<>>
           /\ Head(mailbox[a]) \in Msg /\ Head(mailbox[a]).type = t
           /\ a \in Drivers => saving[a] = None
<1>1. mailbox[a] \in Seq(Msg)  BY DEF TypeOK
<1>2. a \in up /\ mailbox[a] # <<>> /\ Head(mailbox[a]).type = t /\ (a \in Drivers => saving[a] = None)
  BY DEF Handles
<1>3. Head(mailbox[a]) \in Msg  BY <1>1, <1>2, HeadFacts
<1> QED  BY <1>1, <1>2, <1>3

LEMMA ContinueFacts ==
    ASSUME TypeOK, NEW a \in Actors, mailbox[a] # <<>>, NEW own \in Seq(Msg), Continue(a, own)
    PROVE  /\ mailbox' \in [Actors -> Seq(Msg)]
           /\ mailbox'[a] = Tail(mailbox[a]) \o own
           /\ \A b \in Actors : b # a => mailbox'[b] = mailbox[b]
<1>1. mailbox \in [Actors -> Seq(Msg)]  BY DEF TypeOK
<1>2. Tail(mailbox[a]) \in Seq(Msg)  BY <1>1, TailExtends
<1>3. Tail(mailbox[a]) \o own \in Seq(Msg)  BY <1>2, ConcatProperties
<1> QED  BY <1>1, <1>3 DEF Continue

\* Mail to another actor: to c.actor, if it is still the same process.
LEMMA MailFacts ==
    ASSUME TypeOK, NEW a \in Actors, mailbox[a] # <<>>, NEW own \in Seq(Msg), NEW c, NEW m \in Msg,
           c # None => c.actor # a, Mail(a, own, c, <<m>>)
    PROVE  /\ mailbox' \in [Actors -> Seq(Msg)]
           /\ mailbox'[a] = Tail(mailbox[a]) \o own
           /\ \A b \in Actors : b # a =>
                 \/ mailbox'[b] = mailbox[b]
                 \/ /\ c # None /\ b = c.actor /\ b \in up
                    /\ mailbox'[b] = mailbox[b] \o <<m>>
<1>1. mailbox \in [Actors -> Seq(Msg)]  BY DEF TypeOK
<1>2. Tail(mailbox[a]) \o own \in Seq(Msg)  BY <1>1, TailExtends, ConcatProperties
<1>3. \A b \in Actors : mailbox[b] \o <<m>> \in Seq(Msg)  BY <1>1, ShortMailbox, ConcatProperties
<1>4. Running(c) => c # None /\ c.actor \in up  BY DEF Running
<1>5. \A b \in Actors : mailbox'[b] =
         IF b = a THEN Tail(mailbox[a]) \o own
         ELSE IF Running(c) /\ b = c.actor THEN mailbox[b] \o <<m>> ELSE mailbox[b]
  BY <1>4 DEF Mail
<1>6. mailbox' \in [Actors -> Seq(Msg)]
  <2>1. mailbox' = [b \in Actors |-> mailbox'[b]]  BY DEF Mail
  <2>2. \A b \in Actors : mailbox'[b] \in Seq(Msg)  BY <1>1, <1>2, <1>3, <1>5
  <2> QED  BY <2>1, <2>2
<1> QED  BY <1>4, <1>5, <1>6

\* What an actor that handles a message sends to itself extends its mailbox.
LEMMA OwnExtends ==
    ASSUME NEW q \in Seq(Msg), q # <<>>, NEW own \in Seq(Msg), NEW S,
           \A i \in 1..Len(own) : own[i] \in S
    PROVE  Extends(Tail(q) \o own, q, S)
<1>1. Tail(q) \in Seq(Msg) /\ Extends(Tail(q), q, {})  BY TailExtends
<1>2. Extends(Tail(q) \o own, Tail(q), S)  BY <1>1, AppendExtends
<1> QED  BY <1>1, <1>2, ExtendsTwice

-----------------------------------------------------------------------------
(* What the step of one passenger leaves alone.                            *)

\* The messages passenger p can send to a driver.
From(p) == {m \in DriverInbox : m.from.actor = p}

LEMMA TypesApart ==
    ASSUME NEW p \in Passengers, NEW d \in Drivers
    PROVE  /\ DriverInbox \cap RecoveryMsg = {} /\ DriverInbox \cap WayMsg = {}
           /\ DriverInbox \cap AboardMsg = {}
           /\ From(p) \subseteq DriverInbox
           /\ RequestMsg \subseteq SearchMsg /\ AboardMsg \subseteq WayMsg
           /\ PassengerInbox \cap RecoverMsg = {} /\ PassengerInbox \cap RequestMsg = {}
BY DEF From, DriverInbox, RecoveryMsg, WayMsg, AboardMsg, RideRequest, Reconnect, OfType,
       RequestMsg, SearchMsg, PassengerInbox, RecoverMsg

\* At most one message, of S, has come to a.
Delivers(a, S) ==
    \/ mailbox'[a] = mailbox[a]
    \/ a \in up /\ \E m \in S : mailbox'[a] = mailbox[a] \o <<m>>

LEMMA DeliveryFacts ==
    ASSUME TypeOK, NEW a \in Actors, NEW S, S \subseteq Msg, Delivers(a, S)
    PROVE  /\ mailbox'[a] \in Seq(Msg)
           /\ Extends(mailbox'[a], mailbox[a], S)
           /\ a \notin up => mailbox'[a] = mailbox[a]
           /\ \A M : ~NoneOf(mailbox[a], M) => ~NoneOf(mailbox'[a], M)
<1>1. mailbox[a] \in Seq(Msg)  BY DEF TypeOK
<1>2. CASE mailbox'[a] = mailbox[a]  BY <1>1, <1>2, ExtendsSame
<1>3. ASSUME a \in up, NEW m \in S, mailbox'[a] = mailbox[a] \o <<m>>
      PROVE  /\ mailbox'[a] \in Seq(Msg)
             /\ Extends(mailbox'[a], mailbox[a], S)
             /\ \A M : ~NoneOf(mailbox[a], M) => ~NoneOf(mailbox'[a], M)
  <2>1. <<m>> \in Seq(Msg) /\ Len(<<m>>) = 1 /\ <<m>>[1] = m  BY ShortMailbox
  <2>2. \A i \in 1..Len(<<m>>) : <<m>>[i] \in S  BY <2>1
  <2>3. mailbox'[a] \in Seq(Msg) /\ Extends(mailbox'[a], mailbox[a], S)
    BY <1>1, <1>3, <2>1, <2>2, AppendExtends
  <2>4. \A i \in 1..Len(mailbox[a]) : i \in 1..Len(mailbox'[a]) /\ mailbox'[a][i] = mailbox[a][i]
    BY <1>1, <1>3, <2>1, ConcatProperties, LenProperties
  <2>5. \A M : ~NoneOf(mailbox[a], M) => ~NoneOf(mailbox'[a], M)
    BY <2>4 DEF NoneOf
  <2> QED  BY <2>3, <2>5
<1> QED  BY <1>2, <1>3 DEF Delivers

\* A step of p: drivers may have got messages of S.
PassengerFrame(p, S) ==
    /\ S \subseteq From(p)
    /\ UNCHANGED <<driverVars, reconnecting>>
    /\ \A q \in Passengers \ {p} :
          /\ mailbox'[q] = mailbox[q] /\ passenger'[q] = passenger[q]
          /\ passenger_file'[q] = passenger_file[q]
          /\ q \in authorizing' <=> q \in authorizing
          /\ q \in up' <=> q \in up
    /\ \A d \in Drivers : Delivers(d, S) /\ (d \in up' <=> d \in up)

LEMMA DriversStand ==
    ASSUME IInv, NEW p \in Passengers, NEW S, PassengerFrame(p, S), NEW d \in Drivers
    PROVE  DriverInv(d)'
<1> USE DEF driverVars
<1>1. /\ UNCHANGED <<driver, driver_file, current_passenger_connection, saving, carried>>
      /\ d \in up' <=> d \in up
      /\ Delivers(d, S) /\ S \subseteq DriverInbox /\ S \subseteq Msg
      /\ TypeOK /\ d \in Actors /\ DriverInv(d)
  BY ActorsApart DEF PassengerFrame, IInv, From, DriverInbox, OfType
<1>2. /\ NoneOf(mailbox[d], RecoveryMsg) => NoneOf(mailbox'[d], RecoveryMsg)
      /\ FirstOnly(mailbox[d], RecoveryMsg) => FirstOnly(mailbox'[d], RecoveryMsg)
      /\ NoneOf(mailbox[d], WayMsg) => NoneOf(mailbox'[d], WayMsg)
      /\ AtMostOne(mailbox[d], WayMsg) => AtMostOne(mailbox'[d], WayMsg)
      /\ NoneOf(mailbox[d], AboardMsg) => NoneOf(mailbox'[d], AboardMsg)
  <2>1. S \subseteq DriverInbox /\ Extends(mailbox'[d], mailbox[d], S)
    BY <1>1, DeliveryFacts
  <2>2. RecoveryMsg \cap S = {} /\ WayMsg \cap S = {} /\ AboardMsg \cap S = {}
    BY <2>1, TypesApart
  <2> QED  BY <2>1, <2>2, ExtendsUse
<1>3. DriverDown(d)'  BY <1>1, DeliveryFacts DEF DriverInv, DriverDown
<1>4. DriverRecovers(d)'
  BY <1>1, <1>2 DEF DriverInv, DriverRecovers
<1>5. DriverSaves(d)'
  <2>1. NoneOf(mailbox'[d], RecoveryMsg) /\ d \in up /\ saving[d] = None
           => PassengerOf(driver[d]) = PassengerOf(driver_file[d])
    <3>1. CASE NoneOf(mailbox[d], RecoveryMsg)  BY <1>1, <3>1 DEF DriverInv, DriverSaves
    <3>2. CASE ~NoneOf(mailbox[d], RecoveryMsg)
      <4>1. ~NoneOf(mailbox'[d], RecoveryMsg)
        BY <1>1, <3>2, DeliveryFacts
      <4> QED  BY <4>1
    <3> QED  BY <3>1, <3>2
  <2> QED  BY <1>1, <1>2, <2>1 DEF DriverInv, DriverSaves, PassengerOf
<1>6. DriverWay(d)'  BY <1>1, <1>2 DEF DriverInv, DriverWay
<1>7. DriverSound(d)'  BY <1>1 DEF DriverInv, DriverSound, Sound
<1>8. DriverTalks(d)'  BY <1>1 DEF DriverInv, DriverTalks, PassengerOf
<1> QED  BY <1>3, <1>4, <1>5, <1>6, <1>7, <1>8 DEF DriverInv

\* Nobody else's search moves: whatever holds it after the step held it before.
LEMMA SearchStands ==
    ASSUME NEW p \in Passengers, Exclusive(p),
           AtMostOne(mailbox'[p], SearchMsg),
           Seeks(p)' => Seeks(p),
           p \in authorizing' => NoneOf(mailbox'[p], SearchMsg),
           \A d \in Drivers : /\ AtMostOne(mailbox'[d], RideRequest(p))
                              /\ Asks(p, d)' => Asks(p, d)
                              /\ Serves(d, p)' => Serves(d, p),
           p \in carried' => p \in carried \/ \E d \in Drivers : Serves(d, p),
           Authorized(p) => Authorized(p)'
    PROVE  Exclusive(p)'
<1>1. AtMostOne(mailbox[p], SearchMsg)'  OBVIOUS
<1>2. (p \in authorizing => NoneOf(mailbox[p], SearchMsg))'  OBVIOUS
<1>3. (\A d \in Drivers : AtMostOne(mailbox[d], RideRequest(p)))'  BY DEF RideRequest, OfType
<1>4. (Seeks(p) => p \notin carried /\ \A d \in Drivers : ~Asks(p, d) /\ ~Serves(d, p))'
  BY DEF Exclusive
<1>5. (\A d, e \in Drivers :
          /\ Asks(p, d) => p \notin carried /\ ~Serves(e, p) /\ (Asks(p, e) => e = d)
          /\ Serves(d, p) /\ Serves(e, p) => e = d)'
  BY DEF Exclusive
<1>6. (p \in carried \/ (\E d \in Drivers : Asks(p, d) \/ Serves(d, p)) => Authorized(p))'
  BY DEF Exclusive
<1> QED  BY <1>1, <1>2, <1>3, <1>4, <1>5, <1>6 DEF Exclusive

\* Where drivers stand with a passenger that sent them no request.
LEMMA DriversWith ==
    ASSUME TypeOK, NEW p \in Passengers, NEW S, PassengerFrame(p, S),
           NEW q \in Passengers, S \cap RideRequest(q) = {}, Exclusive(q)
    PROVE  /\ \A d \in Drivers : /\ AtMostOne(mailbox'[d], RideRequest(q))
                                 /\ Asks(q, d)' => Asks(q, d)
                                 /\ Serves(d, q)' <=> Serves(d, q)
           /\ q \in carried' <=> q \in carried
<1>1. UNCHANGED <<driver, driver_file, carried>>  BY DEF PassengerFrame, driverVars
<1> SUFFICES ASSUME NEW d \in Drivers
             PROVE  /\ AtMostOne(mailbox'[d], RideRequest(q))
                    /\ Asks(q, d)' => Asks(q, d)
                    /\ Serves(d, q)' <=> Serves(d, q)
  BY <1>1
<1>2. S \subseteq Msg /\ Delivers(d, S) /\ d \in Actors
  BY ActorsApart DEF PassengerFrame, From, DriverInbox, OfType
<1>3. Extends(mailbox'[d], mailbox[d], S) /\ RideRequest(q) \cap S = {}
  BY <1>2, DeliveryFacts
<1>4. /\ NoneOf(mailbox[d], RideRequest(q)) => NoneOf(mailbox'[d], RideRequest(q))
      /\ AtMostOne(mailbox[d], RideRequest(q)) => AtMostOne(mailbox'[d], RideRequest(q))
  BY <1>3, ExtendsUse
<1>5. AtMostOne(mailbox'[d], RideRequest(q))  BY <1>4 DEF Exclusive
<1>6. Asks(q, d)' => Asks(q, d)  BY <1>4 DEF Asks, RideRequest, OfType
<1>7. Serves(d, q)' <=> Serves(d, q)  BY <1>1 DEF Serves, PassengerOf
<1> QED  BY <1>5, <1>6, <1>7

LEMMA PassengersStand ==
    ASSUME IInv, NEW p \in Passengers, NEW S, PassengerFrame(p, S), NEW q \in Passengers, q # p
    PROVE  PassengerInv(q)' /\ Exclusive(q)'
<1>1. /\ mailbox'[q] = mailbox[q] /\ passenger'[q] = passenger[q]
      /\ passenger_file'[q] = passenger_file[q]
      /\ q \in authorizing' <=> q \in authorizing
      /\ q \in up' <=> q \in up
      /\ carried' = carried
  BY DEF PassengerFrame, driverVars
<1>2. PassengerInv(q) /\ Exclusive(q) /\ TypeOK  BY DEF IInv
<1>3. Authorized(q)' <=> Authorized(q)  BY <1>1 DEF Authorized
<1>4. PassengerDown(q)'  BY <1>1, <1>2 DEF PassengerInv, PassengerDown
<1>5. PassengerRecovers(q)'
  <2>1. (PassengerRecovers(q) <=> PassengerRecovers(q))'  OBVIOUS
  <2> QED  BY <1>1, <1>2, <1>3, <2>1
           DEF PassengerInv, PassengerRecovers, RecoverMsg, SearchMsg, OfType
<1>6. PassengerSaves(q)'
  BY <1>1, <1>2, <1>3 DEF PassengerInv, PassengerSaves, RecoverMsg, OfType
<1>7. PassengerTravels(q)'
  BY <1>1, <1>2 DEF PassengerInv, PassengerTravels, TravelMsg, OfType
<1>8. Exclusive(q)'
  <2>1. S \cap RideRequest(q) = {}  BY DEF PassengerFrame, From, RideRequest
  <2>2. Seeks(q)' => Seeks(q)  BY <1>1 DEF Seeks, SearchMsg, OfType
  <2>3. AtMostOne(mailbox'[q], SearchMsg) /\ (q \in authorizing' => NoneOf(mailbox'[q], SearchMsg))
    BY <1>1, <1>2 DEF Exclusive
  <2>4. /\ \A d \in Drivers : /\ AtMostOne(mailbox'[d], RideRequest(q))
                              /\ Asks(q, d)' => Asks(q, d)
                              /\ Serves(d, q)' <=> Serves(d, q)
        /\ q \in carried' <=> q \in carried
    BY <1>2, <2>1, DriversWith
  <2> QED  BY <1>2, <1>3, <2>2, <2>3, <2>4, SearchStands
<1> QED  BY <1>4, <1>5, <1>6, <1>7, <1>8 DEF PassengerInv

\* Nobody learns of a driver that did not know of it.
LEMMA KnowledgeStands ==
    ASSUME IInv, NEW p \in Passengers, NEW S, PassengerFrame(p, S), NEW d \in Drivers,
           ~NoneOf(mailbox'[p], SocketMsg(d)) \/ ~NoneOf(mailbox'[d], Reconnect(p)) =>
               ~NoneOf(mailbox[p], SocketMsg(d)) \/ ~NoneOf(mailbox[d], Reconnect(p))
    PROVE  DriverKnows(d)'
<1>1. /\ carried' = carried /\ driver_file' = driver_file /\ reconnecting' = reconnecting
      /\ DriverKnows(d) /\ TypeOK
  BY DEF PassengerFrame, driverVars, IInv
<1> SUFFICES ASSUME NEW q \in Passengers,
                    \/ <<d, q>> \in reconnecting
                    \/ ~NoneOf(mailbox'[q], SocketMsg(d))
                    \/ ~NoneOf(mailbox'[d], Reconnect(q))
             PROVE  q \in carried \/ PassengerOf(driver_file[d]) = q
  BY <1>1 DEF DriverKnows, PassengerOf, SocketMsg, Reconnect, OfType
<1>2. CASE q = p  BY <1>1, <1>2 DEF DriverKnows
<1>3. CASE q # p
  <2>1. mailbox'[q] = mailbox[q]  BY <1>3 DEF PassengerFrame
  <2>2. Extends(mailbox'[d], mailbox[d], S) /\ Reconnect(q) \cap S = {}
    <3>1. S \subseteq Msg /\ Delivers(d, S) /\ d \in Actors
      BY ActorsApart DEF PassengerFrame, From, DriverInbox, OfType
    <3>2. S \cap Reconnect(q) = {}  BY <1>3 DEF PassengerFrame, From, Reconnect
    <3> QED  BY <1>1, <3>1, <3>2, DeliveryFacts
  <2>3. NoneOf(mailbox[d], Reconnect(q)) => NoneOf(mailbox'[d], Reconnect(q))
    BY <2>2, ExtendsUse
  <2> QED  BY <1>1, <2>1, <2>3 DEF DriverKnows
<1> QED  BY <1>2, <1>3

-----------------------------------------------------------------------------
(* What the step of a passenger does to itself.                            *)

\* A passenger that handles anything but Recover has recovered.
LEMMA Awake ==
    ASSUME IInv, NEW p \in Passengers, NEW t, t # "Recover", Handles(p, t)
    PROVE  /\ NoneOf(mailbox[p], RecoverMsg) /\ p \in up
           /\ passenger[p].payment_authorized <=> Authorized(p)
<1>1. TypeOK /\ PassengerInv(p) /\ p \in Actors  BY ActorsApart DEF IInv
<1>2. /\ p \in up /\ mailbox[p] \in Seq(Msg) /\ mailbox[p] # <<>>
      /\ Head(mailbox[p]).type = t
  BY <1>1, HeadMsg
<1>3. Head(mailbox[p]) \notin RecoverMsg  BY <1>2 DEF RecoverMsg, OfType
<1>4. NoneOf(mailbox[p], RecoverMsg)
  BY <1>1, <1>2, <1>3, HeadFacts DEF PassengerInv, PassengerRecovers
<1> QED  BY <1>1, <1>2, <1>4 DEF PassengerInv, PassengerSaves

\* The travel of p, and what it holds of its own ride.
LEMMA TravelKept ==
    ASSUME IInv, NEW p \in Passengers, mailbox[p] # <<>>, NEW own \in Seq(Msg),
           mailbox'[p] = Tail(mailbox[p]) \o own, carried' = carried,
           NoneOf(own, TravelMsg) \/ p \in carried,
           passenger'[p].position = passenger[p].position \/ p \in carried
    PROVE  PassengerTravels(p)'
<1>1. mailbox[p] \in Seq(Msg) /\ PassengerTravels(p)
  BY ActorsApart DEF IInv, TypeOK, PassengerInv
<1>2. CASE p \in carried  BY <1>2 DEF PassengerTravels
<1>3. CASE p \notin carried
  <2>1. NoneOf(mailbox[p], TravelMsg) /\ passenger[p].position = "origin"
    BY <1>1, <1>3 DEF PassengerTravels
  <2>2. Tail(mailbox[p]) \in Seq(Msg) /\ Extends(Tail(mailbox[p]), mailbox[p], {})
    BY <1>1, TailExtends
  <2>3. TravelMsg \cap {} = {}  OBVIOUS
  <2>4. NoneOf(Tail(mailbox[p]), TravelMsg)  BY <2>1, <2>2, <2>3, ExtendsUse
  <2>5. NoneOf(mailbox'[p], TravelMsg)  BY <1>3, <2>2, <2>4, AppendFacts
  <2> QED  BY <1>3, <2>1, <2>5 DEF PassengerTravels, TravelMsg, OfType
<1> QED  BY <1>2, <1>3

\* A step of p that leaves its search where it is.
LEMMA NeutralPassenger ==
    ASSUME IInv, NEW p \in Passengers, NEW S, PassengerFrame(p, S), S \cap RideRequest(p) = {},
           NEW t, t # "Recover", Handles(p, t), NEW own \in Seq(Msg),
           NoneOf(own, SearchMsg), NoneOf(own, RecoverMsg),
           mailbox'[p] = Tail(mailbox[p]) \o own,
           p \in up', p \in authorizing' <=> p \in authorizing,
           passenger'[p].payment_authorized <=> Authorized(p)',
           Authorized(p) \/ t = "PaymentAuthorized" => Authorized(p)',
           NoneOf(own, TravelMsg) \/ p \in carried,
           passenger'[p].position = passenger[p].position \/ p \in carried
    PROVE  PassengerInv(p)' /\ Exclusive(p)'
<1>1. TypeOK /\ PassengerInv(p) /\ Exclusive(p) /\ p \in Actors  BY ActorsApart DEF IInv
<1>2. /\ p \in up /\ mailbox[p] \in Seq(Msg) /\ mailbox[p] # <<>> /\ Head(mailbox[p]).type = t
      /\ NoneOf(mailbox[p], RecoverMsg) /\ (passenger[p].payment_authorized <=> Authorized(p))
  BY <1>1, HeadMsg, Awake
<1>3. Tail(mailbox[p]) \in Seq(Msg) /\ Extends(Tail(mailbox[p]), mailbox[p], {})
  BY <1>2, TailExtends
<1>4. /\ NoneOf(Tail(mailbox[p]), RecoverMsg)
      /\ NoneOf(mailbox[p], SearchMsg) => NoneOf(Tail(mailbox[p]), SearchMsg)
      /\ AtMostOne(mailbox[p], SearchMsg) => AtMostOne(Tail(mailbox[p]), SearchMsg)
  <2>1. RecoverMsg \cap {} = {} /\ SearchMsg \cap {} = {}  OBVIOUS
  <2> QED  BY <1>2, <1>3, <2>1, ExtendsUse
<1>5. /\ NoneOf(mailbox'[p], RecoverMsg)
      /\ NoneOf(mailbox[p], SearchMsg) => NoneOf(mailbox'[p], SearchMsg)
      /\ AtMostOne(mailbox'[p], SearchMsg)
  BY <1>1, <1>3, <1>4, AppendFacts DEF Exclusive
<1>6. PassengerDown(p)'  BY DEF PassengerDown
<1>7. PassengerRecovers(p)'
  BY <1>5 DEF PassengerRecovers, NoneOf, FirstOnly, RecoverMsg, OfType
<1>8. PassengerSaves(p)'
  <2>1. passenger'[p].payment_authorized \/ RequestBehind(mailbox'[p])
    <3>1. CASE Authorized(p) \/ t = "PaymentAuthorized"  BY <3>1
    <3>2. CASE ~Authorized(p) /\ t # "PaymentAuthorized"
      <4>1. RequestBehind(mailbox[p])  BY <1>1, <1>2, <3>2 DEF PassengerInv, PassengerSaves
      <4>2. RequestBehind(Tail(mailbox[p]))  BY <1>2, <3>2, <4>1, BehindTail
      <4>3. NoneOf(own, RequestMsg)  BY TypesApart DEF NoneOf, RequestMsg, SearchMsg, OfType
      <4> QED  BY <1>3, <4>2, <4>3, BehindAppend
    <3> QED  BY <3>1, <3>2
  <2> QED  BY <2>1 DEF PassengerSaves
<1>9. PassengerTravels(p)'
  <2>1. carried' = carried  BY DEF PassengerFrame, driverVars
  <2> QED  BY <1>2, <2>1, TravelKept
<1>10. Exclusive(p)'
  <2>1. Seeks(p)' => Seeks(p)  BY <1>5 DEF Seeks, SearchMsg, OfType
  <2>2. p \in authorizing' => NoneOf(mailbox'[p], SearchMsg)
    BY <1>1, <1>5 DEF Exclusive
  <2>3. /\ \A d \in Drivers : /\ AtMostOne(mailbox'[d], RideRequest(p))
                              /\ Asks(p, d)' => Asks(p, d)
                              /\ Serves(d, p)' <=> Serves(d, p)
        /\ p \in carried' <=> p \in carried
    BY <1>1, DriversWith
  <2> QED  BY <1>1, <1>5, <2>1, <2>2, <2>3, SearchStands
<1> QED  BY <1>6, <1>7, <1>8, <1>9, <1>10 DEF PassengerInv

\* A step of p that has its search in hand, and sends it on to itself or to the
\* gateway, or ends it.
LEMMA SearchingPassenger ==
    ASSUME IInv, NEW p \in Passengers, NEW S, PassengerFrame(p, S), S \cap RideRequest(p) = {},
           NEW t, Handles(p, t),
           t \in {"GetDrivers", "Drivers", "KeepLooking", "PaymentDeny"},
           NEW own \in Seq(Msg), AtMostOne(own, SearchMsg), NoneOf(own, RecoverMsg),
           NoneOf(own, RequestMsg), NoneOf(own, TravelMsg),
           mailbox'[p] = Tail(mailbox[p]) \o own,
           p \in up', p \in authorizing' => p \in authorizing \/ NoneOf(own, SearchMsg),
           passenger'[p].payment_authorized <=> Authorized(p)',
           passenger'[p].position = passenger[p].position
    PROVE  PassengerInv(p)' /\ Exclusive(p)'
<1>1. TypeOK /\ PassengerInv(p) /\ Exclusive(p) /\ p \in Actors  BY ActorsApart DEF IInv
<1>2. /\ p \in up /\ mailbox[p] \in Seq(Msg) /\ mailbox[p] # <<>>
      /\ Head(mailbox[p]) \in Msg /\ Head(mailbox[p]).type = t
      /\ NoneOf(mailbox[p], RecoverMsg)
  BY <1>1, HeadMsg, Awake
<1>3. Tail(mailbox[p]) \in Seq(Msg) /\ Extends(Tail(mailbox[p]), mailbox[p], {})
  BY <1>2, TailExtends
<1>4. Head(mailbox[p]) \in SearchMsg  BY <1>2 DEF SearchMsg, OfType
<1>5. /\ Seeks(p) /\ ~NoneOf(mailbox[p], SearchMsg) /\ p \notin authorizing
      /\ NoneOf(Tail(mailbox[p]), SearchMsg)
  BY <1>1, <1>2, <1>4, HeadFacts DEF Exclusive, Seeks
<1>6. NoneOf(Tail(mailbox[p]), RecoverMsg)
  <2>1. RecoverMsg \cap {} = {}  OBVIOUS
  <2> QED  BY <1>2, <1>3, <2>1, ExtendsUse
<1>7. /\ NoneOf(mailbox'[p], RecoverMsg)
      /\ AtMostOne(mailbox'[p], SearchMsg)
      /\ NoneOf(own, SearchMsg) => NoneOf(mailbox'[p], SearchMsg)
  BY <1>3, <1>5, <1>6, AppendFacts
<1>8. PassengerDown(p)'  BY DEF PassengerDown
<1>9. PassengerRecovers(p)'
  BY <1>7 DEF PassengerRecovers, NoneOf, FirstOnly, RecoverMsg, OfType
<1>10. PassengerSaves(p)'
  <2>1. NoneOf(Tail(mailbox[p]), RequestMsg)
    BY <1>5, TypesApart DEF NoneOf, RequestMsg, SearchMsg, OfType
  <2>2. RequestBehind(mailbox'[p])
    BY <1>3, <2>1, BehindNone, BehindAppend
  <2> QED  BY <2>2 DEF PassengerSaves
<1>11. PassengerTravels(p)'
  <2>1. carried' = carried  BY DEF PassengerFrame, driverVars
  <2> QED  BY <1>2, <2>1, TravelKept
<1>12. Exclusive(p)'
  <2>1. p \notin carried /\ \A d \in Drivers : ~Asks(p, d) /\ ~Serves(d, p)
    BY <1>1, <1>5 DEF Exclusive
  <2>2. p \in authorizing' => NoneOf(mailbox'[p], SearchMsg)
    BY <1>5, <1>7
  <2>3. /\ \A d \in Drivers : /\ AtMostOne(mailbox'[d], RideRequest(p))
                              /\ Asks(p, d)' => Asks(p, d)
                              /\ Serves(d, p)' <=> Serves(d, p)
        /\ p \in carried' <=> p \in carried
    BY <1>1, DriversWith
  <2>5. (/\ p \notin carried
         /\ \A d \in Drivers : ~Asks(p, d) /\ ~Serves(d, p))'
    BY <2>1, <2>3
  <2>6. (\A d \in Drivers : AtMostOne(mailbox[d], RideRequest(p)))'
    BY <2>3 DEF RideRequest, OfType
  <2> QED  BY <1>7, <2>2, <2>5, <2>6 DEF Exclusive
<1> QED  BY <1>8, <1>9, <1>10, <1>11, <1>12 DEF PassengerInv

\* The process of p ends.
LEMMA EndedPassenger ==
    ASSUME IInv, NEW p \in Passengers, NEW S, PassengerFrame(p, S), S \cap RideRequest(p) = {},
           mailbox'[p] = <<>>, passenger'[p] = NewPassenger, p \notin authorizing',
           Authorized(p) => Authorized(p)'
    PROVE  (p \notin up' => PassengerInv(p)') /\ Exclusive(p)'
<1>1. TypeOK /\ Exclusive(p)  BY DEF IInv
<1>2. \A M : NoneOf(mailbox'[p], M) /\ AtMostOne(mailbox'[p], M) /\ FirstOnly(mailbox'[p], M)
  BY DEF NoneOf, AtMostOne, FirstOnly
<1>3. PassengerDown(p)'  BY DEF PassengerDown
<1>4. PassengerRecovers(p)'  BY <1>2 DEF PassengerRecovers
<1>5. p \notin up' => PassengerSaves(p)'  BY DEF PassengerSaves, RequestBehind
<1>6. PassengerTravels(p)'  BY <1>2 DEF PassengerTravels, NewPassenger
<1>7. Exclusive(p)'
  <2>1. Seeks(p)' => Seeks(p)  BY <1>2 DEF Seeks
  <2>2. /\ \A d \in Drivers : /\ AtMostOne(mailbox'[d], RideRequest(p))
                              /\ Asks(p, d)' => Asks(p, d)
                              /\ Serves(d, p)' <=> Serves(d, p)
        /\ p \in carried' <=> p \in carried
    BY <1>1, DriversWith
  <2> QED  BY <1>1, <1>2, <2>1, <2>2, SearchStands
<1> QED  BY <1>3, <1>4, <1>5, <1>6, <1>7 DEF PassengerInv

-----------------------------------------------------------------------------
(* The actions of a passenger.                                             *)

LEMMA PassengerPreserves ==
    ASSUME IInv, NEW p \in Passengers, NEW S, PassengerFrame(p, S), TypeOK',
           PassengerInv(p)', Exclusive(p)', \A d \in Drivers : DriverKnows(d)'
    PROVE  IInv'
<1>1. \A d \in Drivers : DriverInv(d)'  BY DriversStand
<1>2. \A q \in Passengers : PassengerInv(q)' /\ Exclusive(q)'  BY PassengersStand
<1> QED  BY <1>1, <1>2 DEF IInv

\* A handler of p that neither is told of a driver nor tells one.
LEMMA KnowledgeQuiet ==
    ASSUME IInv, NEW p \in Passengers, NEW S, PassengerFrame(p, S), S \cap Reconnect(p) = {},
           mailbox[p] # <<>>, NEW own \in Seq(Msg), mailbox'[p] = Tail(mailbox[p]) \o own,
           NoneOf(own, OfType({"ReconnectDriver"})), NEW d \in Drivers
    PROVE  DriverKnows(d)'
<1>1. TypeOK /\ p \in Actors /\ d \in Actors  BY ActorsApart DEF IInv
<1>2. mailbox[p] \in Seq(Msg)  BY <1>1 DEF TypeOK
<1>3. NoneOf(own, SocketMsg(d))  BY DEF NoneOf, SocketMsg, OfType
<1>4. Tail(mailbox[p]) \in Seq(Msg) /\ Extends(Tail(mailbox[p]), mailbox[p], {})
  BY <1>2, TailExtends
<1>5. SocketMsg(d) \cap {} = {}  OBVIOUS
<1>6. NoneOf(mailbox[p], SocketMsg(d)) => NoneOf(mailbox'[p], SocketMsg(d))
  <2>1. NoneOf(mailbox[p], SocketMsg(d)) => NoneOf(Tail(mailbox[p]), SocketMsg(d))
    BY <1>4, <1>5, ExtendsUse
  <2> QED  BY <1>3, <1>4, <2>1, AppendFacts
<1>7. NoneOf(mailbox[d], Reconnect(p)) => NoneOf(mailbox'[d], Reconnect(p))
  <2>1. S \subseteq Msg /\ Delivers(d, S) /\ Reconnect(p) \cap S = {}
    BY DEF PassengerFrame, From, DriverInbox, OfType
  <2>2. Extends(mailbox'[d], mailbox[d], S)  BY <1>1, <2>1, DeliveryFacts
  <2> QED  BY <2>1, <2>2, ExtendsUse
<1> QED  BY <1>6, <1>7, KnowledgeStands

\* The handlers that reach nobody else: the frame, with a mailbox of its own.
LEMMA QuietFrame ==
    ASSUME TypeOK, NEW p \in Passengers, mailbox[p] # <<>>, NEW own \in Seq(Msg), Continue(p, own),
           UNCHANGED <<up, reconnecting, driverVars>>,
           \A q \in Passengers \ {p} :
              /\ passenger'[q] = passenger[q] /\ passenger_file'[q] = passenger_file[q]
              /\ q \in authorizing' <=> q \in authorizing
    PROVE  /\ PassengerFrame(p, {})
           /\ mailbox' \in [Actors -> Seq(Msg)]
           /\ mailbox'[p] = Tail(mailbox[p]) \o own
<1>1. /\ mailbox' \in [Actors -> Seq(Msg)]
      /\ mailbox'[p] = Tail(mailbox[p]) \o own
      /\ \A b \in Actors : b # p => mailbox'[b] = mailbox[b]
  BY ContinueFacts, ActorsApart
<1>2. \A d \in Drivers : Delivers(d, {})  BY <1>1, ActorsApart DEF Delivers
<1>3. \A q \in Passengers \ {p} : mailbox'[q] = mailbox[q]  BY <1>1, ActorsApart
<1> QED  BY <1>1, <1>2, <1>3 DEF PassengerFrame

LEMMA NoSent ==
    ASSUME NEW p
    PROVE  {} \cap RideRequest(p) = {} /\ {} \cap Reconnect(p) = {}
OBVIOUS

LEMMA LoginStep ==
    ASSUME IInv, NEW p \in Passengers, Login(p)
    PROVE  IInv'
<1> DEFINE own == <<>>
<1>1. TypeOK /\ p \in Actors  BY ActorsApart DEF IInv
<1>2. /\ mailbox[p] # <<>> /\ p \in up
      /\ passenger[p].payment_authorized <=> Authorized(p)
  BY <1>1, HeadMsg, Awake DEF Login
<1>3. /\ own \in Seq(Msg) /\ NoneOf(own, SearchMsg) /\ NoneOf(own, RecoverMsg)
      /\ NoneOf(own, TravelMsg) /\ NoneOf(own, OfType({"ReconnectDriver"}))
  BY DEF NoneOf
<1> HIDE DEF own
<1>4. /\ PassengerFrame(p, {}) /\ mailbox' \in [Actors -> Seq(Msg)]
      /\ mailbox'[p] = Tail(mailbox[p]) \o own
  BY <1>1, <1>2, <1>3, QuietFrame DEF Login, own, passengerVars, gatewayVars
<1>5. TypeOK'
  <2>1. Self(p) \in Process(Passengers) /\ Self(p).actor = p
    BY <1>1 DEF TypeOK, Self, Process
  <2>2. passengers_address' = [passengers_address EXCEPT ![p] = Self(p)]  BY DEF Login
  <2>3. /\ passengers_address' \in [Passengers -> Process(Passengers) \cup {None}]
        /\ \A q \in Passengers : passengers_address'[q] # None => passengers_address'[q].actor = q
    BY <1>1, <2>1, <2>2 DEF TypeOK
  <2>4. UNCHANGED <<up, starts, registry, reconnecting, gatewayVars, driverVars, passengerVars,
                    counts>>
    BY DEF Login
  <2> QED  BY <1>1, <1>4, <2>3, <2>4
           DEF TypeOK, gatewayVars, driverVars, passengerVars
<1>6. PassengerInv(p)' /\ Exclusive(p)'
  <2>1. /\ Authorized(p)' <=> Authorized(p)
        /\ UNCHANGED <<passenger, up, authorizing>> /\ Handles(p, "Login")
    BY DEF Authorized, Login, passengerVars, gatewayVars
  <2>2. Authorized(p) \/ "Login" = "PaymentAuthorized" => Authorized(p)'  BY <2>1
  <2>3. passenger'[p].payment_authorized <=> Authorized(p)'  BY <1>2, <2>1
  <2>4. p \in up' /\ "Login" # "Recover"  BY <1>2, <2>1
  <2> QED  BY <1>2, <1>3, <1>4, <2>1, <2>2, <2>3, <2>4, NoSent, NeutralPassenger
<1>7. \A d \in Drivers : DriverKnows(d)'
  BY <1>2, <1>3, <1>4, NoSent, KnowledgeQuiet
<1> QED  BY <1>4, <1>5, <1>6, <1>7, PassengerPreserves

LEMMA GetDriversStep ==
    ASSUME IInv, NEW p \in Passengers, GetDrivers(p)
    PROVE  IInv'
<1> DEFINE m == [type |-> "Drivers", drivers_info |-> Listed]
<1>1. TypeOK /\ p \in Actors  BY ActorsApart DEF IInv
<1>2. /\ mailbox[p] # <<>> /\ p \in up
      /\ passenger[p].payment_authorized <=> Authorized(p)
  BY <1>1, HeadMsg, Awake DEF GetDrivers
<1>3. m \in Msg  BY <1>1 DEF Msg, PassengerMsg, Listed
<1>4. /\ <<m>> \in Seq(Msg) /\ AtMostOne(<<m>>, SearchMsg) /\ NoneOf(<<m>>, RecoverMsg)
      /\ NoneOf(<<m>>, RequestMsg) /\ NoneOf(<<m>>, TravelMsg)
      /\ NoneOf(<<m>>, OfType({"ReconnectDriver"}))
  BY <1>3, ShortMailbox DEF RecoverMsg, RequestMsg, TravelMsg, OfType
<1> HIDE DEF m
<1>5. /\ PassengerFrame(p, {}) /\ mailbox' \in [Actors -> Seq(Msg)]
      /\ mailbox'[p] = Tail(mailbox[p]) \o <<m>>
  BY <1>1, <1>2, <1>4, QuietFrame DEF GetDrivers, passengerVars, gatewayVars, serverVars, m
<1>6. TypeOK'
  BY <1>1, <1>5 DEF TypeOK, GetDrivers, gatewayVars, driverVars, passengerVars, serverVars
<1>7. PassengerInv(p)' /\ Exclusive(p)'
  <2>1. /\ Authorized(p)' <=> Authorized(p)
        /\ UNCHANGED <<passenger, up, authorizing>> /\ Handles(p, "GetDrivers")
    BY DEF Authorized, GetDrivers, passengerVars, gatewayVars
  <2> QED  BY <1>2, <1>4, <1>5, <2>1, NoSent, SearchingPassenger
<1>8. \A d \in Drivers : DriverKnows(d)'
  BY <1>2, <1>4, <1>5, NoSent, KnowledgeQuiet
<1> QED  BY <1>5, <1>6, <1>7, <1>8, PassengerPreserves

LEMMA KeepLookingStep ==
    ASSUME IInv, NEW p \in Passengers, KeepLooking(p)
    PROVE  IInv'
<1> DEFINE m == [type |-> "Drivers", drivers_info |-> passenger[p].drivers_info]
<1>1. TypeOK /\ p \in Actors  BY ActorsApart DEF IInv
<1>2. /\ mailbox[p] # <<>> /\ p \in up
      /\ passenger[p].payment_authorized <=> Authorized(p)
  BY <1>1, HeadMsg, Awake DEF KeepLooking
<1>3. m \in Msg  BY <1>1 DEF Msg, PassengerMsg, TypeOK, PassengerState
<1>4. /\ <<m>> \in Seq(Msg) /\ AtMostOne(<<m>>, SearchMsg) /\ NoneOf(<<m>>, RecoverMsg)
      /\ NoneOf(<<m>>, RequestMsg) /\ NoneOf(<<m>>, TravelMsg)
      /\ NoneOf(<<m>>, OfType({"ReconnectDriver"}))
  BY <1>3, ShortMailbox DEF RecoverMsg, RequestMsg, TravelMsg, OfType
<1> HIDE DEF m
<1>5. /\ PassengerFrame(p, {}) /\ mailbox' \in [Actors -> Seq(Msg)]
      /\ mailbox'[p] = Tail(mailbox[p]) \o <<m>>
  BY <1>1, <1>2, <1>4, QuietFrame DEF KeepLooking, passengerVars, gatewayVars, serverVars, m
<1>6. TypeOK'
  BY <1>1, <1>5 DEF TypeOK, KeepLooking, gatewayVars, driverVars, passengerVars, serverVars
<1>7. PassengerInv(p)' /\ Exclusive(p)'
  <2>1. /\ Authorized(p)' <=> Authorized(p)
        /\ UNCHANGED <<passenger, up, authorizing>> /\ Handles(p, "KeepLooking")
    BY DEF Authorized, KeepLooking, passengerVars, gatewayVars
  <2> QED  BY <1>2, <1>4, <1>5, <2>1, NoSent, SearchingPassenger
<1>8. \A d \in Drivers : DriverKnows(d)'
  BY <1>2, <1>4, <1>5, NoSent, KnowledgeQuiet
<1> QED  BY <1>5, <1>6, <1>7, <1>8, PassengerPreserves

\* The file of a passenger that runs.
LEMMA SavedType ==
    ASSUME NEW s \in PassengerState
    PROVE  /\ Saved(s) \in PassengerFile /\ Saved(s) # None
           /\ Saved(s).payment_authorized <=> s.payment_authorized
<1>1. Saved(s) \in PassengerFile /\ (Saved(s).payment_authorized <=> s.payment_authorized)
  BY DEF Saved, PassengerFile, PassengerState
<1>2. Saved(s) # None  BY NoneAssumption, <1>1
<1> QED  BY <1>1, <1>2

\* A handler that goes on as s and saves s.
LEMMA BecomesFacts ==
    ASSUME IInv, NEW p \in Passengers, NEW t, Handles(p, t), NEW s \in PassengerState,
           NEW own \in Seq(Msg), NoneOf(own, OfType({"ReconnectDriver"})), Becomes(p, s, own)
    PROVE  /\ PassengerFrame(p, {}) /\ TypeOK'
           /\ mailbox'[p] = Tail(mailbox[p]) \o own
           /\ p \in up' /\ (p \in authorizing' <=> p \in authorizing)
           /\ passenger'[p] = s
           /\ Authorized(p)' <=> s.payment_authorized
           /\ \A d \in Drivers : DriverKnows(d)'
<1>1. TypeOK /\ p \in Actors  BY ActorsApart DEF IInv
<1>2. mailbox[p] # <<>> /\ p \in up  BY <1>1, HeadMsg
<1>3. /\ Continue(p, own)
      /\ passenger' = [passenger EXCEPT ![p] = s]
      /\ passenger_file' = [passenger_file EXCEPT ![p] = Saved(s)]
      /\ UNCHANGED <<up, starts, registry, passengers_address, reconnecting, authorizing,
                     payments, driver, driver_file, current_passenger_connection, saving,
                     carried, counts>>
  BY DEF Becomes, serverVars, gatewayVars, driverVars
<1>4. /\ PassengerFrame(p, {}) /\ mailbox' \in [Actors -> Seq(Msg)]
      /\ mailbox'[p] = Tail(mailbox[p]) \o own
  <2>1. \A q \in Passengers \ {p} :
              /\ passenger'[q] = passenger[q] /\ passenger_file'[q] = passenger_file[q]
              /\ q \in authorizing' <=> q \in authorizing
    BY <1>1, <1>3 DEF TypeOK
  <2>2. UNCHANGED <<up, reconnecting, driverVars>>  BY <1>3 DEF driverVars
  <2> QED  BY <1>1, <1>2, <1>3, <2>1, <2>2, QuietFrame
<1>5. Saved(s) \in PassengerFile /\ Saved(s) # None
      /\ (Saved(s).payment_authorized <=> s.payment_authorized)
  BY SavedType
<1>6. passenger'[p] = s /\ passenger_file'[p] = Saved(s)
  BY <1>1, <1>3 DEF TypeOK
<1>7. TypeOK'
  <2>1. /\ passenger' \in [Passengers -> PassengerState]
        /\ passenger_file' \in [Passengers -> PassengerFile \cup {None}]
    BY <1>1, <1>3, <1>5 DEF TypeOK
  <2> QED  BY <1>1, <1>3, <1>4, <2>1 DEF TypeOK
<1>8. Authorized(p)' <=> s.payment_authorized
  BY <1>5, <1>6 DEF Authorized
<1>9. \A d \in Drivers : DriverKnows(d)'
  BY <1>2, <1>4, NoSent, KnowledgeQuiet
<1> QED  BY <1>2, <1>3, <1>4, <1>6, <1>7, <1>8, <1>9

LEMMA NothingSent ==
    /\ <<>> \in Seq(Msg)
    /\ \A M : NoneOf(<<>>, M) /\ AtMostOne(<<>>, M)
BY DEF NoneOf, AtMostOne

LEMMA PaymentAuthorizedStep ==
    ASSUME IInv, NEW p \in Passengers, PaymentAuthorized(p)
    PROVE  IInv'
<1> DEFINE s   == [passenger[p] EXCEPT !.payment_authorized = TRUE]
           own == <<>>
           t   == "PaymentAuthorized"
<1>1. Handles(p, t) /\ Becomes(p, s, own)  BY DEF PaymentAuthorized
<1>2. /\ s \in PassengerState /\ s.payment_authorized
      /\ s.position = passenger[p].position
  BY PassengerTyped DEF PassengerState
<1>3. /\ own \in Seq(Msg) /\ NoneOf(own, SearchMsg) /\ NoneOf(own, RecoverMsg)
      /\ NoneOf(own, TravelMsg) /\ NoneOf(own, OfType({"ReconnectDriver"}))
  BY NothingSent
<1>4. t # "Recover"  OBVIOUS
<1> HIDE DEF s, own, t
<1>5. /\ PassengerFrame(p, {}) /\ TypeOK'
      /\ mailbox'[p] = Tail(mailbox[p]) \o own
      /\ p \in up' /\ (p \in authorizing' <=> p \in authorizing)
      /\ passenger'[p] = s
      /\ Authorized(p)'
      /\ \A d \in Drivers : DriverKnows(d)'
  BY <1>1, <1>2, <1>3, BecomesFacts
<1>6. PassengerInv(p)' /\ Exclusive(p)'
  BY <1>1, <1>2, <1>3, <1>4, <1>5, NoSent, NeutralPassenger
<1> QED  BY <1>5, <1>6, PassengerPreserves

LEMMA PaymentDenyStep ==
    ASSUME IInv, NEW p \in Passengers, PaymentDeny(p)
    PROVE  IInv'
<1> DEFINE s   == [passenger[p] EXCEPT !.payment_authorized = FALSE]
           m   == Plain("GetDrivers")
<1>1. Handles(p, "PaymentDeny") /\ Becomes(p, s, <<m>>)  BY DEF PaymentDeny
<1>2. /\ s \in PassengerState /\ ~s.payment_authorized
      /\ s.position = passenger[p].position
  BY PassengerTyped DEF PassengerState
<1>3. m \in Msg /\ m.type = "GetDrivers"  BY PlainMsg DEF PlainType
<1> HIDE DEF s, m
<1>4. /\ <<m>> \in Seq(Msg) /\ AtMostOne(<<m>>, SearchMsg) /\ NoneOf(<<m>>, RecoverMsg)
      /\ NoneOf(<<m>>, RequestMsg) /\ NoneOf(<<m>>, TravelMsg)
      /\ NoneOf(<<m>>, OfType({"ReconnectDriver"}))
  BY <1>3, ShortMailbox DEF RecoverMsg, RequestMsg, TravelMsg, OfType
<1>5. /\ PassengerFrame(p, {}) /\ TypeOK'
      /\ mailbox'[p] = Tail(mailbox[p]) \o <<m>>
      /\ p \in up' /\ (p \in authorizing' <=> p \in authorizing)
      /\ passenger'[p] = s
      /\ ~Authorized(p)'
      /\ \A d \in Drivers : DriverKnows(d)'
  BY <1>1, <1>2, <1>4, BecomesFacts
<1>6. PassengerInv(p)' /\ Exclusive(p)'
  BY <1>1, <1>2, <1>4, <1>5, NoSent, SearchingPassenger
<1> QED  BY <1>5, <1>6, PassengerPreserves

LEMMA RideAcceptedStep ==
    ASSUME IInv, NEW p \in Passengers, RideAccepted(p)
    PROVE  IInv'
<1> DEFINE s   == [passenger[p] EXCEPT !.driver_socket = Head(mailbox[p]).socket]
           own == <<>>
           t   == "RideAccepted"
<1>1. Handles(p, t) /\ Becomes(p, s, own)  BY DEF RideAccepted
<1>2. /\ s \in PassengerState /\ s.payment_authorized = passenger[p].payment_authorized
      /\ s.position = passenger[p].position
  <2>1. TypeOK /\ p \in Actors /\ passenger[p] \in PassengerState  BY PassengerTyped
  <2>2. Head(mailbox[p]).socket \in Drivers  BY <1>1, <2>1, HeadMsg, MsgOfType
  <2> QED  BY <2>1, <2>2 DEF PassengerState
<1>3. /\ own \in Seq(Msg) /\ NoneOf(own, SearchMsg) /\ NoneOf(own, RecoverMsg)
      /\ NoneOf(own, TravelMsg) /\ NoneOf(own, OfType({"ReconnectDriver"}))
  BY NothingSent
<1>4. t # "Recover" /\ t # "PaymentAuthorized"  OBVIOUS
<1> HIDE DEF s, own, t
<1>5. /\ PassengerFrame(p, {}) /\ TypeOK'
      /\ mailbox'[p] = Tail(mailbox[p]) \o own
      /\ p \in up' /\ (p \in authorizing' <=> p \in authorizing)
      /\ passenger'[p] = s
      /\ Authorized(p)' <=> s.payment_authorized
      /\ \A d \in Drivers : DriverKnows(d)'
  BY <1>1, <1>2, <1>3, BecomesFacts
<1>6. passenger[p].payment_authorized <=> Authorized(p)  BY <1>1, <1>4, Awake
<1>7. PassengerInv(p)' /\ Exclusive(p)'
  BY <1>1, <1>2, <1>3, <1>4, <1>5, <1>6, NoSent, NeutralPassenger
<1> QED  BY <1>5, <1>7, PassengerPreserves

\* Who handles a message of its travel was picked up.
LEMMA TravelerCarried ==
    ASSUME IInv, NEW p \in Passengers, NEW t, Handles(p, t), Head(mailbox[p]) \in TravelMsg
    PROVE  p \in carried
<1>1. TypeOK /\ p \in Actors /\ PassengerTravels(p)  BY ActorsApart DEF IInv, PassengerInv
<1>2. ~NoneOf(mailbox[p], TravelMsg)  BY <1>1, HeadMsg, HeadFacts
<1> QED  BY <1>1, <1>2 DEF PassengerTravels

LEMMA TravelOnStep ==
    ASSUME IInv, NEW p \in Passengers, TravelOn(p)
    PROVE  IInv'
<1> DEFINE s   == [passenger[p] EXCEPT !.position = "road"]
           m   == Plain("Traveling")
           own == <<m>>
           t   == "Traveling"
<1>1. Handles(p, t) /\ Becomes(p, s, own)  BY DEF TravelOn
<1>2. s \in PassengerState /\ s.payment_authorized = passenger[p].payment_authorized
  <2>1. passenger[p] \in PassengerState  BY DEF IInv, TypeOK
  <2> QED  BY <2>1 DEF PassengerState, Place
<1>3. m \in Msg /\ m.type = "Traveling"  BY PlainMsg DEF PlainType
<1>4. /\ own \in Seq(Msg) /\ NoneOf(own, SearchMsg) /\ NoneOf(own, RecoverMsg)
      /\ NoneOf(own, OfType({"ReconnectDriver"}))
  BY <1>3, ShortMailbox DEF SearchMsg, RecoverMsg, OfType
<1>5. t # "Recover" /\ t # "PaymentAuthorized"  OBVIOUS
<1>6. p \in carried
  <2>1. Head(mailbox[p]) \in TravelMsg
    BY <1>1, HeadMsg, ActorsApart DEF IInv, TravelMsg, OfType
  <2> QED  BY <1>1, <2>1, TravelerCarried
<1> HIDE DEF s, own, t, m
<1>7. /\ PassengerFrame(p, {}) /\ TypeOK'
      /\ mailbox'[p] = Tail(mailbox[p]) \o own
      /\ p \in up' /\ (p \in authorizing' <=> p \in authorizing)
      /\ passenger'[p] = s
      /\ Authorized(p)' <=> s.payment_authorized
      /\ \A d \in Drivers : DriverKnows(d)'
  BY <1>1, <1>2, <1>4, BecomesFacts
<1>8. passenger[p].payment_authorized <=> Authorized(p)  BY <1>1, <1>5, Awake
<1>9. PassengerInv(p)' /\ Exclusive(p)'
  BY <1>1, <1>2, <1>4, <1>5, <1>6, <1>7, <1>8, NoSent, NeutralPassenger
<1> QED  BY <1>7, <1>9, PassengerPreserves

LEMMA DriverArrivedStep ==
    ASSUME IInv, NEW p \in Passengers, DriverArrived(p)
    PROVE  IInv'
<1> DEFINE m   == Plain("Traveling")
           own == <<m>>
           t   == "DriverArrived"
<1>1. TypeOK /\ p \in Actors  BY ActorsApart DEF IInv
<1>2. /\ Handles(p, t) /\ Continue(p, own)
      /\ UNCHANGED <<up, starts, serverVars, gatewayVars, driverVars, passengerVars, counts>>
  BY DEF DriverArrived
<1>3. m \in Msg /\ m.type = "Traveling"  BY PlainMsg DEF PlainType
<1>4. /\ own \in Seq(Msg) /\ NoneOf(own, SearchMsg) /\ NoneOf(own, RecoverMsg)
      /\ NoneOf(own, OfType({"ReconnectDriver"}))
  BY <1>3, ShortMailbox DEF SearchMsg, RecoverMsg, OfType
<1>5. t # "Recover" /\ t # "PaymentAuthorized"  OBVIOUS
<1>6. p \in carried
  <2>1. Head(mailbox[p]) \in TravelMsg
    BY <1>1, <1>2, HeadMsg DEF TravelMsg, OfType
  <2> QED  BY <1>2, <2>1, TravelerCarried
<1> HIDE DEF own, t, m
<1>7. mailbox[p] # <<>> /\ p \in up /\ (passenger[p].payment_authorized <=> Authorized(p))
  BY <1>1, <1>2, <1>5, HeadMsg, Awake
<1>8. /\ PassengerFrame(p, {}) /\ mailbox' \in [Actors -> Seq(Msg)]
      /\ mailbox'[p] = Tail(mailbox[p]) \o own
  BY <1>1, <1>2, <1>4, <1>7, QuietFrame DEF passengerVars, gatewayVars, serverVars
<1>9. TypeOK'
  BY <1>1, <1>2, <1>8 DEF TypeOK, gatewayVars, driverVars, passengerVars, serverVars
<1>10. PassengerInv(p)' /\ Exclusive(p)'
  <2>1. /\ Authorized(p)' <=> Authorized(p)
        /\ UNCHANGED <<passenger, up, authorizing>>
    BY <1>2 DEF Authorized, passengerVars, gatewayVars
  <2>2. passenger'[p].payment_authorized <=> Authorized(p)'  BY <1>7, <2>1
  <2> QED  BY <1>2, <1>4, <1>5, <1>6, <1>7, <1>8, <2>1, <2>2, NoSent, NeutralPassenger
<1>11. \A d \in Drivers : DriverKnows(d)'
  BY <1>4, <1>7, <1>8, NoSent, KnowledgeQuiet
<1> QED  BY <1>8, <1>9, <1>10, <1>11, PassengerPreserves

LEMMA EndsFacts ==
    ASSUME IInv, NEW p \in Passengers, Ends(p), UNCHANGED <<reconnecting, driverVars>>,
           \A q \in Passengers : passenger_file'[q] # passenger_file[q] => q = p
    PROVE  /\ PassengerFrame(p, {})
           /\ up' \subseteq Actors /\ p \notin up'
           /\ mailbox' \in [Actors -> Seq(Msg)] /\ mailbox'[p] = <<>>
           /\ passenger' \in [Passengers -> PassengerState] /\ passenger'[p] = NewPassenger
           /\ authorizing' \subseteq Passengers /\ p \notin authorizing'
           /\ \A d \in Drivers : DriverKnows(d)'
<1>1. TypeOK /\ p \in Actors /\ p \notin Drivers  BY ActorsApart DEF IInv
<1>2. /\ up' = up \ {p}
      /\ mailbox' = [mailbox EXCEPT ![p] = <<>>]
      /\ passenger' = [passenger EXCEPT ![p] = NewPassenger]
      /\ authorizing' = authorizing \ {p}
  BY DEF Ends
<1>3. NewPassenger \in PassengerState
  BY DEF NewPassenger, PassengerState, Place
<1>4. /\ mailbox' \in [Actors -> Seq(Msg)] /\ mailbox'[p] = <<>>
      /\ \A b \in Actors : b # p => mailbox'[b] = mailbox[b]
  BY <1>1, <1>2, NothingSent DEF TypeOK
<1>5. /\ passenger' \in [Passengers -> PassengerState] /\ passenger'[p] = NewPassenger
      /\ \A q \in Passengers : q # p => passenger'[q] = passenger[q]
  BY <1>1, <1>2, <1>3 DEF TypeOK
<1>6. PassengerFrame(p, {})
  <2>1. \A d \in Drivers : Delivers(d, {}) /\ (d \in up' <=> d \in up)
    BY <1>1, <1>2, <1>4, ActorsApart DEF Delivers
  <2> QED  BY <1>2, <1>4, <1>5, <2>1, ActorsApart DEF PassengerFrame
<1>7. ASSUME NEW d \in Drivers
      PROVE  DriverKnows(d)'
  <2>1. mailbox'[d] = mailbox[d]  BY <1>1, <1>4, ActorsApart
  <2>2. NoneOf(mailbox'[p], SocketMsg(d))  BY <1>4, NothingSent
  <2> QED  BY <1>6, <2>1, <2>2, KnowledgeStands
<1> QED  BY <1>1, <1>2, <1>4, <1>5, <1>6, <1>7 DEF TypeOK

LEMMA CountsGrow ==
    ASSUME NEW c \in [starts : Nat, crashes : Nat, denials : Nat]
    PROVE  /\ [c EXCEPT !.starts = @ + 1] \in [starts : Nat, crashes : Nat, denials : Nat]
           /\ [c EXCEPT !.crashes = @ + 1] \in [starts : Nat, crashes : Nat, denials : Nat]
           /\ [c EXCEPT !.denials = @ + 1] \in [starts : Nat, crashes : Nat, denials : Nat]
OBVIOUS

LEMMA CrashPassengerStep ==
    ASSUME IInv, NEW p \in Passengers, CrashPassenger(p)
    PROVE  IInv'
<1>1. /\ Ends(p) /\ TypeOK
      /\ UNCHANGED <<starts, registry, passengers_address, reconnecting, payments, driverVars,
                     passenger_file>>
      /\ counts' = [counts EXCEPT !.crashes = @ + 1]
  BY DEF CrashPassenger, Crashes, serverVars, IInv
<1>2. /\ PassengerFrame(p, {})
      /\ up' \subseteq Actors /\ p \notin up'
      /\ mailbox' \in [Actors -> Seq(Msg)] /\ mailbox'[p] = <<>>
      /\ passenger' \in [Passengers -> PassengerState] /\ passenger'[p] = NewPassenger
      /\ authorizing' \subseteq Passengers /\ p \notin authorizing'
      /\ \A d \in Drivers : DriverKnows(d)'
  BY <1>1, EndsFacts
<1>3. TypeOK'
  <2>1. counts' \in [starts : Nat, crashes : Nat, denials : Nat]
    BY <1>1, CountsGrow DEF TypeOK
  <2> QED  BY <1>1, <1>2, <2>1 DEF TypeOK, driverVars
<1>4. Authorized(p) => Authorized(p)'  BY <1>1 DEF Authorized
<1>5. PassengerInv(p)' /\ Exclusive(p)'
  BY <1>2, <1>4, NoSent, EndedPassenger
<1> QED  BY <1>2, <1>3, <1>5, PassengerPreserves

\* The confirmation of the payment, with or without a last write of the file.
LEMMA ConfirmPaymentStep ==
    ASSUME IInv, NEW p \in Passengers, ConfirmPayment(p),
           UNCHANGED <<starts, serverVars, driverVars, counts>>,
           passenger_file' \in [Passengers -> PassengerFile \cup {None}],
           \A q \in Passengers : passenger_file'[q] # passenger_file[q] => q = p,
           Authorized(p) => Authorized(p)'
    PROVE  IInv'
<1>1. /\ Ends(p) /\ TypeOK
      /\ UNCHANGED <<registry, passengers_address, reconnecting>>
      /\ payments' = [payments EXCEPT ![p] = @ + 1]
  BY DEF ConfirmPayment, serverVars, IInv
<1>2. /\ PassengerFrame(p, {})
      /\ up' \subseteq Actors /\ p \notin up'
      /\ mailbox' \in [Actors -> Seq(Msg)] /\ mailbox'[p] = <<>>
      /\ passenger' \in [Passengers -> PassengerState] /\ passenger'[p] = NewPassenger
      /\ authorizing' \subseteq Passengers /\ p \notin authorizing'
      /\ \A d \in Drivers : DriverKnows(d)'
  BY <1>1, EndsFacts
<1>3. TypeOK'
  <2>1. payments' \in [Passengers -> Nat]  BY <1>1 DEF TypeOK
  <2> QED  BY <1>1, <1>2, <2>1 DEF TypeOK, driverVars
<1>4. PassengerInv(p)' /\ Exclusive(p)'
  BY <1>2, NoSent, EndedPassenger
<1> QED  BY <1>2, <1>3, <1>4, PassengerPreserves

LEMMA TravelEndsStep ==
    ASSUME IInv, NEW p \in Passengers, TravelEnds(p)
    PROVE  IInv'
<1>1. /\ TypeOK /\ passenger[p] \in PassengerState
      /\ passenger_file' = [passenger_file EXCEPT ![p] = Saved(passenger[p])]
  BY DEF IInv, TypeOK, TravelEnds
<1>2. Saved(passenger[p]) \in PassengerFile /\ Saved(passenger[p]) # None
      /\ (Saved(passenger[p]).payment_authorized <=> passenger[p].payment_authorized)
  BY <1>1, SavedType
<1>3. /\ passenger_file' \in [Passengers -> PassengerFile \cup {None}]
      /\ passenger_file'[p] = Saved(passenger[p])
      /\ \A q \in Passengers : passenger_file'[q] # passenger_file[q] => q = p
  BY <1>1, <1>2 DEF TypeOK
<1>4. passenger[p].payment_authorized <=> Authorized(p)
  BY Awake DEF TravelEnds
<1>5. Authorized(p) => Authorized(p)'  BY <1>2, <1>3, <1>4 DEF Authorized
<1> QED  BY <1>3, <1>5, ConfirmPaymentStep DEF TravelEnds

LEMMA RecoverResponseStep ==
    ASSUME IInv, NEW p \in Passengers, RecoverResponse(p)
    PROVE  IInv'
<1> DEFINE m == Head(mailbox[p])
           t == "RecoverResponse"
<1>1. /\ TypeOK /\ p \in Actors /\ Handles(p, t)
      /\ UNCHANGED <<starts, serverVars, driverVars, passenger_file, counts>>
  BY ActorsApart DEF IInv, RecoverResponse
<1>2. /\ mailbox[p] # <<>> /\ p \in up /\ m \in Msg /\ m.type = t
      /\ m.picked_up \in BOOLEAN /\ m.position \in Place
      /\ passenger[p].payment_authorized <=> Authorized(p)
  BY <1>1, HeadMsg, MsgOfType, Awake
<1>3. Authorized(p)' <=> Authorized(p)  BY <1>1 DEF Authorized
<1>4. CASE ConfirmPayment(p)
  BY <1>1, <1>3, <1>4, ConfirmPaymentStep DEF TypeOK
<1>5. ASSUME NEW own, own \in {<<>>, <<Plain("Traveling")>>},
             own # <<>> => m.picked_up,
             (passenger' = [passenger EXCEPT ![p].position = m.position] /\ m.picked_up)
               \/ passenger' = passenger,
             Continue(p, own), UNCHANGED <<up, gatewayVars>>
      PROVE  IInv'
  <2>1. Plain("Traveling") \in Msg /\ Plain("Traveling").type = "Traveling"
    BY PlainMsg DEF PlainType
  <2>2. /\ own \in Seq(Msg) /\ NoneOf(own, SearchMsg) /\ NoneOf(own, RecoverMsg)
        /\ NoneOf(own, OfType({"ReconnectDriver"}))
    BY <1>5, <2>1, NothingSent, ShortMailbox DEF SearchMsg, RecoverMsg, OfType
  <2>3. /\ passenger' \in [Passengers -> PassengerState]
        /\ \A q \in Passengers : q # p => passenger'[q] = passenger[q]
        /\ passenger'[p].payment_authorized = passenger[p].payment_authorized
        /\ m.picked_up \/ passenger'[p].position = passenger[p].position
    <3>1. passenger \in [Passengers -> PassengerState]  BY <1>1 DEF TypeOK
    <3>2. CASE passenger' = passenger  BY <3>1, <3>2
    <3>3. CASE passenger' = [passenger EXCEPT ![p].position = m.position] /\ m.picked_up
      <4>1. [passenger[p] EXCEPT !.position = m.position] \in PassengerState
        BY <1>2, <3>1 DEF PassengerState
      <4> QED  BY <3>1, <3>3, <4>1 DEF PassengerState
    <3> QED  BY <1>5, <3>2, <3>3
  <2>4. m.picked_up => p \in carried
    <3>1. m.picked_up => m \in TravelMsg  BY <1>2 DEF TravelMsg, OfType
    <3> QED  BY <1>1, <3>1, TravelerCarried
  <2>5. NoneOf(own, TravelMsg) \/ p \in carried
    BY <1>5, <2>4, NothingSent
  <2>6. t # "Recover" /\ t # "PaymentAuthorized"  OBVIOUS
  <2> HIDE DEF m, t
  <2>7. /\ PassengerFrame(p, {}) /\ mailbox' \in [Actors -> Seq(Msg)]
        /\ mailbox'[p] = Tail(mailbox[p]) \o own
    BY <1>1, <1>2, <1>5, <2>2, <2>3, QuietFrame DEF gatewayVars, serverVars
  <2>8. TypeOK'
    BY <1>1, <1>5, <2>3, <2>7 DEF TypeOK, gatewayVars, driverVars, serverVars
  <2>9. PassengerInv(p)' /\ Exclusive(p)'
    <3>1. p \in up' /\ (p \in authorizing' <=> p \in authorizing)
      BY <1>2, <1>5 DEF gatewayVars
    <3>2. passenger'[p].payment_authorized <=> Authorized(p)'  BY <1>2, <1>3, <2>3
    <3>3. passenger'[p].position = passenger[p].position \/ p \in carried  BY <2>3, <2>4
    <3> QED  BY <1>1, <1>3, <2>2, <2>5, <2>6, <2>7, <3>1, <3>2, <3>3, NoSent, NeutralPassenger
  <2>10. \A d \in Drivers : DriverKnows(d)'
    BY <1>2, <2>2, <2>7, NoSent, KnowledgeQuiet
  <2> QED  BY <2>7, <2>8, <2>9, <2>10, PassengerPreserves
<1>6. CASE /\ ~m.end_ride /\ m.picked_up
           /\ passenger' = [passenger EXCEPT ![p].position = m.position]
           /\ Continue(p, <<Plain("Traveling")>>)
           /\ UNCHANGED <<up, gatewayVars>>
  BY <1>5, <1>6
<1>7. CASE /\ ~m.end_ride /\ ~m.picked_up
           /\ Continue(p, <<>>)
           /\ UNCHANGED <<up, gatewayVars, passenger>>
  BY <1>5, <1>7
<1> QED  BY <1>4, <1>6, <1>7 DEF RecoverResponse

LEMMA DriversHandlerStep ==
    ASSUME IInv, NEW p \in Passengers, DriversHandler(p)
    PROVE  IInv'
<1> DEFINE t == "Drivers"
           s == passenger[p]
<1>1. /\ TypeOK /\ p \in Actors /\ Handles(p, t) /\ s \in PassengerState
      /\ UNCHANGED <<up, starts, serverVars, payments, driverVars, counts>>
      /\ passenger_file' = [passenger_file EXCEPT ![p] = Saved(s)]
  BY ActorsApart DEF IInv, TypeOK, DriversHandler
<1>2. /\ mailbox[p] # <<>> /\ p \in up /\ Head(mailbox[p]) \in Msg /\ Head(mailbox[p]).type = t
      /\ Head(mailbox[p]).drivers_info \subseteq Drivers
      /\ s.payment_authorized <=> Authorized(p)
  BY <1>1, HeadMsg, MsgOfType, Awake
<1>3. Saved(s) \in PassengerFile /\ Saved(s) # None
      /\ (Saved(s).payment_authorized <=> s.payment_authorized)
  BY <1>1, SavedType
<1>4. /\ passenger_file' \in [Passengers -> PassengerFile \cup {None}]
      /\ passenger_file'[p] = Saved(s)
      /\ \A q \in Passengers : q # p => passenger_file'[q] = passenger_file[q]
  BY <1>1, <1>3 DEF TypeOK
<1>5. ASSUME NEW own \in Seq(Msg), NoneOf(own, Msg \ OfType({"Drivers"})), AtMostOne(own, SearchMsg),
             Continue(p, own),
             NEW f \in PassengerState, passenger' = [passenger EXCEPT ![p] = f],
             f.payment_authorized = s.payment_authorized, f.position = s.position,
             \/ authorizing' = authorizing
             \/ authorizing' = authorizing \cup {p} /\ NoneOf(own, SearchMsg)
      PROVE  IInv'
  <2>1. /\ NoneOf(own, RecoverMsg) /\ NoneOf(own, RequestMsg) /\ NoneOf(own, TravelMsg)
        /\ NoneOf(own, OfType({"ReconnectDriver"}))
    BY <1>5 DEF NoneOf, RecoverMsg, RequestMsg, TravelMsg, OfType
  <2>2. /\ passenger' \in [Passengers -> PassengerState] /\ passenger'[p] = f
        /\ \A q \in Passengers : q # p => passenger'[q] = passenger[q]
    BY <1>1, <1>5 DEF TypeOK
  <2>3. /\ authorizing' \subseteq Passengers
        /\ \A q \in Passengers : q # p => (q \in authorizing' <=> q \in authorizing)
        /\ p \in authorizing' => p \in authorizing \/ NoneOf(own, SearchMsg)
    BY <1>1, <1>5 DEF TypeOK
  <2> HIDE DEF t, s
  <2>4. /\ PassengerFrame(p, {}) /\ mailbox' \in [Actors -> Seq(Msg)]
        /\ mailbox'[p] = Tail(mailbox[p]) \o own
    <3>1. UNCHANGED <<up, reconnecting, driverVars>>  BY <1>1 DEF serverVars
    <3>2. \A q \in Passengers \ {p} :
              /\ passenger'[q] = passenger[q] /\ passenger_file'[q] = passenger_file[q]
              /\ q \in authorizing' <=> q \in authorizing
      BY <1>4, <2>2, <2>3
    <3> QED  BY <1>1, <1>2, <1>5, <3>1, <3>2, QuietFrame
  <2>5. TypeOK'
    BY <1>1, <1>4, <2>2, <2>3, <2>4 DEF TypeOK, driverVars, serverVars
  <2>6. PassengerInv(p)' /\ Exclusive(p)'
    <3>1. passenger'[p].payment_authorized <=> Authorized(p)'
      BY <1>3, <1>4, <1>5, <2>2 DEF Authorized
    <3>2. p \in up' /\ passenger'[p].position = passenger[p].position
      BY <1>1, <1>2, <1>5, <2>2 DEF s
    <3>3. t \in {"GetDrivers", "Drivers", "KeepLooking", "PaymentDeny"}  BY DEF t
    <3> QED  BY <1>1, <1>5, <2>1, <2>3, <2>4, <3>1, <3>2, <3>3, NoSent, SearchingPassenger
  <2>7. \A d \in Drivers : DriverKnows(d)'
    BY <1>2, <2>1, <2>4, NoSent, KnowledgeQuiet
  <2> QED  BY <2>4, <2>5, <2>6, <2>7, PassengerPreserves
<1>6. CASE /\ Head(mailbox[p]).drivers_info = {}
           /\ passenger' = [passenger EXCEPT ![p].drivers_info = {}]
           /\ Continue(p, <<>>)
           /\ UNCHANGED authorizing
  <2>1. /\ [s EXCEPT !.drivers_info = {}] \in PassengerState
        /\ [s EXCEPT !.drivers_info = {}].payment_authorized = s.payment_authorized
        /\ [s EXCEPT !.drivers_info = {}].position = s.position
    BY <1>1 DEF PassengerState
  <2>2. passenger' = [passenger EXCEPT ![p] = [s EXCEPT !.drivers_info = {}]]  BY <1>6
  <2> QED  BY <1>5, <1>6, <2>1, <2>2, NothingSent
<1>7. ASSUME NEW c \in Selected(Head(mailbox[p]).drivers_info), c.chosen \in up,
             passenger' = [passenger EXCEPT ![p].drivers_info = c.rest,
                                            ![p].connection = Self(c.chosen)],
             authorizing' = authorizing \cup {p},
             Continue(p, <<>>)
      PROVE  IInv'
  <2> DEFINE f == [s EXCEPT !.drivers_info = c.rest, !.connection = Self(c.chosen)]
  <2>1. c.rest \subseteq Drivers /\ c.chosen \in Drivers  BY <1>2, <1>7 DEF Selected
  <2>2. Self(c.chosen) \in Process(Drivers)
    BY <1>1, <2>1, ActorsApart DEF TypeOK, Self, Process
  <2>3. f \in PassengerState /\ f.payment_authorized = s.payment_authorized
        /\ f.position = s.position
    BY <1>1, <2>1, <2>2 DEF PassengerState
  <2>4. passenger' = [passenger EXCEPT ![p] = f]  BY <1>7
  <2> QED  BY <1>5, <1>7, <2>3, <2>4, NothingSent
<1>8. ASSUME NEW c \in Selected(Head(mailbox[p]).drivers_info), c.chosen \notin up,
             passenger' = [passenger EXCEPT ![p].drivers_info = c.rest],
             Continue(p, <<[type |-> "Drivers", drivers_info |-> c.rest]>>),
             UNCHANGED authorizing
      PROVE  IInv'
  <2> DEFINE f == [s EXCEPT !.drivers_info = c.rest]
             m == [type |-> "Drivers", drivers_info |-> c.rest]
  <2>1. c.rest \subseteq Drivers  BY <1>2, <1>8 DEF Selected
  <2>2. f \in PassengerState /\ f.payment_authorized = s.payment_authorized
        /\ f.position = s.position
    BY <1>1, <2>1 DEF PassengerState
  <2>3. passenger' = [passenger EXCEPT ![p] = f]  BY <1>8
  <2>4. m \in Msg /\ m.type = "Drivers"  BY <2>1 DEF Msg, PassengerMsg
  <2>5. <<m>> \in Seq(Msg) /\ NoneOf(<<m>>, Msg \ OfType({"Drivers"})) /\ AtMostOne(<<m>>, SearchMsg)
    BY <2>4, ShortMailbox DEF OfType
  <2> QED  BY <1>5, <1>8, <2>2, <2>3, <2>5
<1> QED  BY <1>6, <1>7, <1>8 DEF DriversHandler

LEMMA BehindPair ==
    ASSUME NEW q \in Seq(Msg), NoneOf(q, RequestMsg)
    PROVE  RequestBehind(q \o <<Plain("PaymentAuthorized"), Plain("RequestDrive")>>)
<1> DEFINE out == <<Plain("PaymentAuthorized"), Plain("RequestDrive")>>
           r   == q \o out
<1>1. /\ out \in Seq(Msg) /\ Len(out) = 2
      /\ out[1].type = "PaymentAuthorized" /\ out[2].type = "RequestDrive"
  BY PlainMsg, ShortMailbox DEF PlainType
<1> HIDE DEF out
<1>2. /\ Len(r) = Len(q) + 2 /\ Len(q) \in Nat
      /\ \A i \in 1..Len(r) : r[i] = IF i <= Len(q) THEN q[i] ELSE out[i - Len(q)]
      /\ \A i \in 1..Len(q) : q[i] \in Msg
  <2>1. /\ Len(q) \in Nat /\ Len(r) = Len(q) + Len(out)
        /\ \A i \in 1..(Len(q) + Len(out)) : r[i] = IF i <= Len(q) THEN q[i] ELSE out[i - Len(q)]
    BY <1>1, ConcatProperties, LenProperties
  <2>2. \A i \in 1..Len(q) : q[i] \in Msg  BY ElementOfSeq
  <2> HIDE DEF r
  <2> QED  BY <1>1, <2>1, <2>2
<1> HIDE DEF r
<1> SUFFICES ASSUME NEW i \in 1..Len(r), r[i].type = "RequestDrive"
             PROVE  \E j \in 1..(i - 1) : r[j].type = "PaymentAuthorized"
  BY DEF RequestBehind, r, out
<1>3. ~(i <= Len(q))
  BY <1>2 DEF NoneOf, RequestMsg, OfType
<1>4. i # Len(q) + 1
  <2> SUFFICES ASSUME i = Len(q) + 1  PROVE FALSE
    OBVIOUS
  <2>1. i - Len(q) = 1  BY <1>2
  <2> QED  BY <1>1, <1>2, <1>3, <2>1
<1>5. Len(q) + 1 \in 1..(i - 1) /\ Len(q) + 1 \in 1..Len(r)  BY <1>2, <1>3, <1>4
<1>6. r[Len(q) + 1] = out[1]
  <2>1. (Len(q) + 1) - Len(q) = 1 /\ ~(Len(q) + 1 <= Len(q))  BY <1>2
  <2> QED  BY <1>2, <1>5, <2>1
<1> QED  BY <1>1, <1>5, <1>6

LEMMA AuthorizeStep ==
    ASSUME IInv, NEW p \in Passengers, Authorize(p)
    PROVE  IInv'
<1>1. PICK is_authorized \in BOOLEAN :
          /\ mailbox' = [mailbox EXCEPT ![p] = @ \o Decision(is_authorized)]
          /\ counts' = IF is_authorized THEN counts ELSE [counts EXCEPT !.denials = @ + 1]
  BY DEF Authorize, authorize_payment
<1> DEFINE own == Decision(is_authorized)
<1>2. /\ TypeOK /\ p \in Actors /\ PassengerInv(p) /\ Exclusive(p) /\ p \in authorizing
      /\ authorizing' = authorizing \ {p}
      /\ UNCHANGED <<up, starts, serverVars, payments, driverVars, passengerVars>>
  BY ActorsApart DEF IInv, Authorize
<1>3. /\ p \in up /\ NoneOf(mailbox[p], RecoverMsg) /\ NoneOf(mailbox[p], SearchMsg)
      /\ passenger[p].payment_authorized <=> Authorized(p)
  <2>1. p \in up  BY <1>2 DEF PassengerInv, PassengerDown
  <2>2. NoneOf(mailbox[p], RecoverMsg)  BY <1>2 DEF PassengerInv, PassengerRecovers
  <2>3. NoneOf(mailbox[p], SearchMsg)  BY <1>2 DEF Exclusive
  <2>4. passenger[p].payment_authorized <=> Authorized(p)
    BY <1>2, <2>1, <2>2 DEF PassengerInv, PassengerSaves
  <2> QED  BY <2>1, <2>2, <2>3, <2>4
<1>4. /\ own \in Seq(Msg) /\ AtMostOne(own, SearchMsg) /\ NoneOf(own, RecoverMsg)
      /\ NoneOf(own, TravelMsg) /\ NoneOf(own, OfType({"ReconnectDriver"}))
  <2>1. CASE is_authorized
    <3> DEFINE m == Plain("PaymentAuthorized")
               n == Plain("RequestDrive")
    <3>1. /\ m \in Msg /\ m.type = "PaymentAuthorized"
          /\ n \in Msg /\ n.type = "RequestDrive"
      BY PlainMsg DEF PlainType
    <3>2. own = <<m, n>>  BY <2>1 DEF Decision
    <3> HIDE DEF m, n, own
    <3>3. /\ m \notin SearchMsg /\ m \notin RecoverMsg /\ n \notin RecoverMsg
          /\ m \notin TravelMsg /\ n \notin TravelMsg
          /\ m \notin OfType({"ReconnectDriver"}) /\ n \notin OfType({"ReconnectDriver"})
      BY <3>1 DEF SearchMsg, RecoverMsg, TravelMsg, OfType
    <3> QED  BY <3>1, <3>2, <3>3, ShortMailbox
  <2>2. CASE ~is_authorized
    BY <2>2, PlainMsg, ShortMailbox
       DEF Decision, PlainType, SearchMsg, RecoverMsg, TravelMsg, OfType
  <2> QED  BY <2>1, <2>2
<1>5. RequestBehind(mailbox[p] \o own)
  <2>1. mailbox[p] \in Seq(Msg) /\ NoneOf(mailbox[p], RequestMsg)
    BY <1>2, <1>3, TypesApart DEF TypeOK, NoneOf, RequestMsg, SearchMsg, OfType
  <2>2. CASE is_authorized  BY <2>1, <2>2, BehindPair DEF Decision
  <2>3. CASE ~is_authorized
    <3>1. own = <<Plain("PaymentDeny")>> /\ NoneOf(own, RequestMsg)
      BY <2>3, PlainMsg, ShortMailbox DEF Decision, PlainType, RequestMsg, OfType
    <3> QED  BY <1>4, <2>1, <3>1, BehindNone, BehindAppend
  <2> QED  BY <2>2, <2>3
<1> HIDE DEF own
<1>6. /\ mailbox[p] \in Seq(Msg) /\ mailbox[p] \o own \in Seq(Msg)
      /\ mailbox' \in [Actors -> Seq(Msg)] /\ mailbox'[p] = mailbox[p] \o own
      /\ \A b \in Actors : b # p => mailbox'[b] = mailbox[b]
  <2>1. mailbox \in [Actors -> Seq(Msg)]  BY <1>2 DEF TypeOK
  <2>2. mailbox[p] \o own \in Seq(Msg)  BY <1>2, <1>4, <2>1, ConcatProperties
  <2> QED  BY <1>1, <1>2, <2>1, <2>2 DEF own
<1>7. PassengerFrame(p, {})
  <2>1. \A d \in Drivers : Delivers(d, {}) /\ (d \in up' <=> d \in up)
    BY <1>2, <1>6, ActorsApart DEF Delivers
  <2> QED  BY <1>2, <1>6, <2>1, ActorsApart DEF PassengerFrame, serverVars, passengerVars
<1>8. TypeOK'
  <2>1. counts' \in [starts : Nat, crashes : Nat, denials : Nat]
    BY <1>1, <1>2, CountsGrow DEF TypeOK
  <2> QED  BY <1>2, <1>6, <2>1 DEF TypeOK, serverVars, driverVars, passengerVars
<1>9. PassengerInv(p)'
  <2>1. NoneOf(mailbox'[p], RecoverMsg)  BY <1>3, <1>4, <1>6, AppendFacts
  <2>2. Authorized(p)' <=> Authorized(p)  BY <1>2 DEF Authorized, passengerVars
  <2>3. passenger' = passenger /\ carried' = carried /\ up' = up
    BY <1>2 DEF passengerVars, driverVars
  <2>4. PassengerDown(p)'  BY <1>3, <2>3 DEF PassengerDown
  <2>5. PassengerRecovers(p)'
    BY <2>1 DEF PassengerRecovers, NoneOf, FirstOnly, RecoverMsg, OfType
  <2>6. PassengerSaves(p)'  BY <1>3, <1>5, <1>6, <2>2, <2>3 DEF PassengerSaves
  <2>7. PassengerTravels(p)'
    <3>1. NoneOf(mailbox[p], TravelMsg) => NoneOf(mailbox'[p], TravelMsg)
      BY <1>4, <1>6, AppendFacts
    <3> QED  BY <1>2, <2>3, <3>1 DEF PassengerInv, PassengerTravels, TravelMsg, OfType
  <2> QED  BY <2>4, <2>5, <2>6, <2>7 DEF PassengerInv
<1>10. Exclusive(p)'
  <2>1. Seeks(p)  BY <1>2 DEF Seeks
  <2>2. AtMostOne(mailbox'[p], SearchMsg) /\ p \notin authorizing'
    BY <1>2, <1>3, <1>4, <1>6, AppendFacts
  <2>3. /\ \A d \in Drivers : /\ AtMostOne(mailbox'[d], RideRequest(p))
                              /\ Asks(p, d)' => Asks(p, d)
                              /\ Serves(d, p)' <=> Serves(d, p)
        /\ p \in carried' <=> p \in carried
    BY <1>2, <1>7, NoSent, DriversWith
  <2>4. Authorized(p) => Authorized(p)'  BY <1>2 DEF Authorized, passengerVars
  <2> QED  BY <1>2, <2>1, <2>2, <2>3, <2>4, SearchStands
<1>11. ASSUME NEW d \in Drivers
       PROVE  DriverKnows(d)'
  <2>1. NoneOf(own, SocketMsg(d))  BY <1>4 DEF NoneOf, SocketMsg, OfType
  <2>2. NoneOf(mailbox[p], SocketMsg(d)) => NoneOf(mailbox'[p], SocketMsg(d))
    BY <1>4, <1>6, <2>1, AppendFacts
  <2>3. mailbox'[d] = mailbox[d]  BY <1>6, ActorsApart
  <2> QED  BY <1>7, <2>2, <2>3, KnowledgeStands
<1> QED  BY <1>7, <1>8, <1>9, <1>10, <1>11, PassengerPreserves

LEMMA StartPassengerStep ==
    ASSUME IInv, NEW p \in Passengers, StartPassenger(p)
    PROVE  IInv'
<1> DEFINE own == IF passenger_file[p] = None THEN <<Plain("Login"), Plain("GetDrivers")>>
                  ELSE <<Plain("Recover")>>
<1>1. /\ TypeOK /\ p \in Actors /\ p \notin up /\ PassengerInv(p) /\ Exclusive(p)
      /\ up' = up \cup {p}
      /\ starts' = [starts EXCEPT ![p] = @ + 1]
      /\ counts' = [counts EXCEPT !.starts = @ + 1]
      /\ mailbox' = [mailbox EXCEPT ![p] = own]
      /\ UNCHANGED <<serverVars, gatewayVars, driverVars, passengerVars>>
  BY ActorsApart DEF IInv, StartPassenger, Starts
<1>2. /\ passenger[p] = NewPassenger /\ p \notin authorizing
  BY <1>1 DEF PassengerInv, PassengerDown
<1>3. /\ own \in Seq(Msg) /\ AtMostOne(own, SearchMsg) /\ FirstOnly(own, RecoverMsg)
      /\ NoneOf(own, RequestMsg) /\ NoneOf(own, TravelMsg)
      /\ NoneOf(own, OfType({"ReconnectDriver"}))
      /\ passenger_file[p] = None => NoneOf(own, RecoverMsg)
      /\ passenger_file[p] # None => NoneOf(own, SearchMsg)
  <2>1. /\ \A x \in {"Login", "GetDrivers", "Recover"} : Plain(x) \in Msg /\ Plain(x).type = x
    BY PlainMsg DEF PlainType
  <2>2. CASE passenger_file[p] = None
    BY <2>1, <2>2, ShortMailbox DEF SearchMsg, RecoverMsg, RequestMsg, TravelMsg, OfType
  <2>3. CASE passenger_file[p] # None
    BY <2>1, <2>3, ShortMailbox DEF SearchMsg, RecoverMsg, RequestMsg, TravelMsg, OfType
  <2> QED  BY <2>2, <2>3
<1> HIDE DEF own
<1>4. /\ mailbox' \in [Actors -> Seq(Msg)] /\ mailbox'[p] = own
      /\ \A b \in Actors : b # p => mailbox'[b] = mailbox[b]
  BY <1>1, <1>3 DEF TypeOK
<1>5. PassengerFrame(p, {})
  <2>1. \A d \in Drivers : Delivers(d, {}) /\ (d \in up' <=> d \in up)
    BY <1>1, <1>4, ActorsApart DEF Delivers
  <2> QED
    BY <1>1, <1>4, <2>1, ActorsApart DEF PassengerFrame, serverVars, gatewayVars, passengerVars
<1>6. TypeOK'
  <2>1. counts' \in [starts : Nat, crashes : Nat, denials : Nat]
    BY <1>1, CountsGrow DEF TypeOK
  <2>2. starts' \in [Actors -> Nat] /\ up' \subseteq Actors  BY <1>1 DEF TypeOK
  <2> QED  BY <1>1, <1>4, <2>1, <2>2
           DEF TypeOK, serverVars, gatewayVars, driverVars, passengerVars
<1>7. /\ Authorized(p)' <=> Authorized(p)
      /\ passenger' = passenger /\ passenger_file' = passenger_file
      /\ authorizing' = authorizing /\ carried' = carried
  BY <1>1 DEF Authorized, passengerVars, gatewayVars, driverVars
<1>8. PassengerInv(p)'
  <2>1. PassengerDown(p)'  BY <1>1 DEF PassengerDown
  <2>2. PassengerRecovers(p)'
    BY <1>2, <1>3, <1>4, <1>7 DEF PassengerRecovers, RecoverMsg, SearchMsg, OfType
  <2>3. PassengerSaves(p)'
    <3>1. RequestBehind(mailbox'[p])  BY <1>3, <1>4, BehindNone
    <3>2. NoneOf(mailbox'[p], RecoverMsg) => ~Authorized(p)
      <4> SUFFICES ASSUME passenger_file[p] # None  PROVE ~NoneOf(own, RecoverMsg)
        BY <1>4 DEF Authorized
      <4>1. Plain("Recover") \in RecoverMsg  BY PlainMsg DEF PlainType, RecoverMsg, OfType
      <4>2. own = <<Plain("Recover")>>  BY DEF own
      <4> QED  BY <4>1, <4>2 DEF NoneOf
    <3>3. ~passenger[p].payment_authorized  BY <1>2 DEF NewPassenger
    <3> QED  BY <1>7, <3>1, <3>2, <3>3 DEF PassengerSaves, RecoverMsg, OfType
  <2>4. PassengerTravels(p)'
    BY <1>2, <1>3, <1>4, <1>7 DEF PassengerTravels, NewPassenger, TravelMsg, OfType
  <2> QED  BY <2>1, <2>2, <2>3, <2>4 DEF PassengerInv
<1>9. Exclusive(p)'
  <2>1. /\ \A d \in Drivers : /\ AtMostOne(mailbox'[d], RideRequest(p))
                              /\ Asks(p, d)' => Asks(p, d)
                              /\ Serves(d, p)' <=> Serves(d, p)
        /\ p \in carried' <=> p \in carried
    BY <1>1, <1>5, NoSent, DriversWith
  <2>2. AtMostOne(mailbox'[p], SearchMsg) /\ p \notin authorizing'
    BY <1>2, <1>3, <1>4, <1>7
  <2>3. CASE passenger_file[p] = None
    <3>1. ~Authorized(p)  BY <2>3 DEF Authorized
    <3>2. p \notin carried /\ \A d \in Drivers : ~Asks(p, d) /\ ~Serves(d, p)
      BY <1>1, <3>1 DEF Exclusive
    <3>3. (/\ p \notin carried
           /\ \A d \in Drivers : ~Asks(p, d) /\ ~Serves(d, p))'
      BY <2>1, <3>2
    <3>4. (\A d \in Drivers : AtMostOne(mailbox[d], RideRequest(p)))'
      BY <2>1 DEF RideRequest, OfType
    <3> QED  BY <2>2, <3>3, <3>4 DEF Exclusive
  <2>4. CASE passenger_file[p] # None
    <3>1. Seeks(p)' => Seeks(p)
      BY <1>3, <1>4, <2>2, <2>4 DEF Seeks, SearchMsg, OfType
    <3> QED  BY <1>1, <1>7, <2>1, <2>2, <3>1, SearchStands
  <2> QED  BY <2>3, <2>4
<1>10. ASSUME NEW d \in Drivers
       PROVE  DriverKnows(d)'
  <2>1. NoneOf(mailbox'[p], SocketMsg(d))  BY <1>3, <1>4 DEF NoneOf, SocketMsg, OfType
  <2>2. mailbox'[d] = mailbox[d]  BY <1>4, ActorsApart
  <2> QED  BY <1>5, <2>1, <2>2, KnowledgeStands
<1> QED  BY <1>5, <1>6, <1>8, <1>9, <1>10, PassengerPreserves

\* A handler of p that sends m to a driver.
LEMMA SendFrame ==
    ASSUME TypeOK, NEW p \in Passengers, mailbox[p] # <<>>, NEW own \in Seq(Msg),
           NEW c \in Process(Drivers) \cup {None}, NEW m \in From(p),
           Mail(p, own, c, <<m>>), UNCHANGED <<up, reconnecting, driverVars>>,
           \A q \in Passengers \ {p} :
              /\ passenger'[q] = passenger[q] /\ passenger_file'[q] = passenger_file[q]
              /\ q \in authorizing' <=> q \in authorizing
    PROVE  /\ PassengerFrame(p, {m})
           /\ mailbox' \in [Actors -> Seq(Msg)]
           /\ mailbox'[p] = Tail(mailbox[p]) \o own
           /\ \A d \in Drivers : c = None \/ d # c.actor => mailbox'[d] = mailbox[d]
<1>1. m \in Msg  BY DEF From, DriverInbox, OfType
<1>2. c # None => c.actor \in Drivers /\ c.actor # p
  BY ActorsApart DEF Process
<1>3. /\ mailbox' \in [Actors -> Seq(Msg)]
      /\ mailbox'[p] = Tail(mailbox[p]) \o own
      /\ \A b \in Actors : b # p =>
                 \/ mailbox'[b] = mailbox[b]
                 \/ /\ c # None /\ b = c.actor /\ b \in up
                    /\ mailbox'[b] = mailbox[b] \o <<m>>
  BY <1>1, <1>2, ActorsApart, MailFacts
<1>4. \A d \in Drivers : Delivers(d, {m})
  BY <1>3, ActorsApart DEF Delivers
<1>5. \A q \in Passengers \ {p} : mailbox'[q] = mailbox[q]
  BY <1>2, <1>3, ActorsApart
<1>6. \A d \in Drivers : c = None \/ d # c.actor => mailbox'[d] = mailbox[d]
  BY <1>3, ActorsApart
<1> QED  BY <1>3, <1>4, <1>5, <1>6 DEF PassengerFrame

LEMMA RequestDriveStep ==
    ASSUME IInv, NEW p \in Passengers, RequestDrive(p)
    PROVE  IInv'
<1> DEFINE m   == [type |-> "RequestRide", from |-> Self(p), position |-> passenger[p].position]
           c   == passenger[p].connection
           own == <<>>
           t   == "RequestDrive"
<1>1. /\ TypeOK /\ p \in Actors /\ PassengerInv(p) /\ Exclusive(p)
      /\ Handles(p, t) /\ Mail(p, own, c, <<m>>)
      /\ UNCHANGED <<up, starts, serverVars, gatewayVars, driverVars, passengerVars, counts>>
  BY ActorsApart DEF IInv, RequestDrive
<1>2. /\ mailbox[p] \in Seq(Msg) /\ mailbox[p] # <<>> /\ p \in up
      /\ Head(mailbox[p]) \in Msg /\ Head(mailbox[p]).type = t
      /\ NoneOf(mailbox[p], RecoverMsg)
      /\ passenger[p].payment_authorized <=> Authorized(p)
  BY <1>1, HeadMsg, Awake
<1>3. Authorized(p)
  BY <1>1, <1>2, BehindHead DEF PassengerInv, PassengerSaves
<1>4. c \in Process(Drivers) \cup {None} /\ passenger[p].position \in Place
  BY <1>1 DEF TypeOK, PassengerState
<1>5. m \in Msg /\ m \in From(p) /\ m.type = "RequestRide" /\ m.from.actor = p
  BY <1>1, <1>4, TypedMsg DEF From, DriverInbox, OfType, Self, Msg, DriverMsg, TypeOK, Process
<1>6. own \in Seq(Msg) /\ \A M : NoneOf(own, M)  BY NothingSent
<1>7. t \in {"GetDrivers", "Drivers", "KeepLooking", "RequestDrive", "PaymentDeny"}  OBVIOUS
<1> HIDE DEF m, c, own, t
<1>8. UNCHANGED <<up, reconnecting, authorizing, passenger, passenger_file, driver, driver_file,
                  carried, driverVars>>
  BY <1>1 DEF serverVars, gatewayVars, driverVars, passengerVars
<1>9. /\ PassengerFrame(p, {m}) /\ mailbox' \in [Actors -> Seq(Msg)]
      /\ mailbox'[p] = Tail(mailbox[p]) \o own
      /\ \A d \in Drivers : c = None \/ d # c.actor => mailbox'[d] = mailbox[d]
  <2>1. \A q \in Passengers \ {p} :
              /\ passenger'[q] = passenger[q] /\ passenger_file'[q] = passenger_file[q]
              /\ q \in authorizing' <=> q \in authorizing
    BY <1>8
  <2>2. UNCHANGED <<up, reconnecting, driverVars>>  BY <1>8
  <2>3. own \in Seq(Msg) /\ m \in From(p)  BY <1>5, <1>6
  <2>4. TypeOK /\ mailbox[p] # <<>> /\ Mail(p, own, c, <<m>>)  BY <1>1, <1>2
  <2> QED  BY <1>4, <2>1, <2>2, <2>3, <2>4, SendFrame
<1>10. TypeOK'
  BY <1>1, <1>9 DEF TypeOK, gatewayVars, driverVars, passengerVars, serverVars
<1>11. Authorized(p)'  BY <1>3, <1>8 DEF Authorized
<1>12. /\ Tail(mailbox[p]) \in Seq(Msg) /\ NoneOf(Tail(mailbox[p]), RecoverMsg)
       /\ NoneOf(Tail(mailbox[p]), SearchMsg) /\ ~NoneOf(mailbox[p], SearchMsg)
       /\ p \notin authorizing
  <2>1. Head(mailbox[p]) \in SearchMsg  BY <1>2, <1>7 DEF SearchMsg, OfType
  <2>2. Tail(mailbox[p]) \in Seq(Msg) /\ Extends(Tail(mailbox[p]), mailbox[p], {})
    BY <1>2, TailExtends
  <2>3. RecoverMsg \cap {} = {}  OBVIOUS
  <2>4. NoneOf(Tail(mailbox[p]), RecoverMsg)  BY <1>2, <2>2, <2>3, ExtendsUse
  <2> QED  BY <1>1, <1>2, <2>1, <2>2, <2>4, HeadFacts DEF Exclusive
<1>13. NoneOf(mailbox'[p], RecoverMsg) /\ NoneOf(mailbox'[p], SearchMsg)
  <2>1. NoneOf(own, RecoverMsg) /\ NoneOf(own, SearchMsg) /\ own \in Seq(Msg)  BY <1>6
  <2>2. mailbox'[p] = Tail(mailbox[p]) \o own  BY <1>9
  <2> QED  BY <1>12, <2>1, <2>2, AppendFacts
<1>14. PassengerInv(p)'
  <2>1. PassengerDown(p)'  BY <1>2, <1>8 DEF PassengerDown
  <2>2. PassengerRecovers(p)'
    BY <1>13 DEF PassengerRecovers, NoneOf, FirstOnly, RecoverMsg, OfType
  <2>3. PassengerSaves(p)'  BY <1>2, <1>3, <1>8, <1>11 DEF PassengerSaves
  <2>4. PassengerTravels(p)'  BY <1>2, <1>6, <1>8, <1>9, TravelKept
  <2> QED  BY <2>1, <2>2, <2>3, <2>4 DEF PassengerInv
<1>15. Exclusive(p)'
  <2>1. p \notin carried /\ \A d \in Drivers : ~Asks(p, d) /\ ~Serves(d, p)
    BY <1>1, <1>12 DEF Exclusive, Seeks
  <2>2. \A d \in Drivers : ~Serves(d, p)'  BY <1>8, <2>1 DEF Serves, PassengerOf
  <2>3. \A d \in Drivers : c = None \/ d # c.actor => ~Asks(p, d)'
    BY <1>9, <2>1 DEF Asks, RideRequest, OfType
  <2>4. ASSUME NEW d \in Drivers
        PROVE  AtMostOne(mailbox'[d], RideRequest(p))
    <3>1. NoneOf(mailbox[d], RideRequest(p)) /\ mailbox[d] \in Seq(Msg)
      BY <1>1, <2>1, ActorsApart DEF Asks, TypeOK
    <3>2. Delivers(d, {m})  BY <1>9 DEF PassengerFrame
    <3>3. AtMostOne(mailbox[d], RideRequest(p))  BY <3>1 DEF NoneOf, AtMostOne
    <3>4. <<m>> \in Seq(Msg) /\ AtMostOne(<<m>>, RideRequest(p))  BY <1>5, ShortMailbox
    <3> QED  BY <3>1, <3>2, <3>3, <3>4, AppendFacts DEF Delivers
  <2>5. (\A d \in Drivers : AtMostOne(mailbox[d], RideRequest(p)))'
    BY <2>4 DEF RideRequest, OfType
  <2>6. AtMostOne(mailbox'[p], SearchMsg) /\ ~Seeks(p)'
    <3>1. ~Seeks(p)'  BY <1>8, <1>12, <1>13 DEF Seeks, SearchMsg, OfType
    <3> QED  BY <1>13, <3>1 DEF NoneOf, AtMostOne
  <2>7. p \notin carried' /\ p \notin authorizing'  BY <1>8, <1>12, <2>1
  <2>8. \A d, e \in Drivers : Asks(p, d)' /\ Asks(p, e)' => e = d
    BY <2>3
  <2> QED  BY <1>11, <2>2, <2>5, <2>6, <2>7, <2>8 DEF Exclusive
<1>16. \A d \in Drivers : DriverKnows(d)'
  <2>1. {m} \cap Reconnect(p) = {}  BY <1>5 DEF Reconnect, OfType
  <2> QED  BY <1>2, <1>6, <1>9, <2>1, KnowledgeQuiet
<1> QED  BY <1>9, <1>10, <1>14, <1>15, <1>16, PassengerPreserves

\* What comes after Recover: the state is the file's, and the search starts again
\* only if the file does not say that the payment was authorized.
LEMMA RecoveredPassenger ==
    ASSUME IInv, NEW p \in Passengers, NEW S, PassengerFrame(p, S), S \cap RideRequest(p) = {},
           Handles(p, "Recover"), NEW own \in Seq(Msg), mailbox'[p] = Tail(mailbox[p]) \o own,
           NoneOf(own, RecoverMsg), NoneOf(own, RequestMsg), NoneOf(own, TravelMsg),
           AtMostOne(own, SearchMsg), NoneOf(own, SearchMsg) \/ ~Authorized(p),
           UNCHANGED <<up, authorizing, passenger_file>>,
           passenger'[p].payment_authorized <=> Authorized(p),
           passenger'[p].position = "origin"
    PROVE  PassengerInv(p)' /\ Exclusive(p)'
<1>1. TypeOK /\ PassengerInv(p) /\ Exclusive(p) /\ p \in Actors  BY ActorsApart DEF IInv
<1>2. /\ p \in up /\ mailbox[p] \in Seq(Msg) /\ mailbox[p] # <<>>
      /\ Head(mailbox[p]) \in Msg /\ Head(mailbox[p]).type = "Recover"
  BY <1>1, HeadMsg
<1>3. Head(mailbox[p]) \in RecoverMsg /\ ~NoneOf(mailbox[p], RecoverMsg)
  <2>1. Head(mailbox[p]) \in RecoverMsg  BY <1>2 DEF RecoverMsg, OfType
  <2> QED  BY <1>2, <2>1, HeadFacts
<1>4. /\ FirstOnly(mailbox[p], RecoverMsg) /\ p \notin authorizing
      /\ Authorized(p) \/ NoneOf(mailbox[p], SearchMsg)
  BY <1>1, <1>3 DEF PassengerInv, PassengerRecovers
<1>5. /\ Tail(mailbox[p]) \in Seq(Msg) /\ NoneOf(Tail(mailbox[p]), RecoverMsg)
      /\ NoneOf(mailbox[p], SearchMsg) => NoneOf(Tail(mailbox[p]), SearchMsg)
      /\ AtMostOne(mailbox[p], SearchMsg) => AtMostOne(Tail(mailbox[p]), SearchMsg)
  <2>1. Tail(mailbox[p]) \in Seq(Msg) /\ Extends(Tail(mailbox[p]), mailbox[p], {})
    BY <1>2, TailExtends
  <2>2. SearchMsg \cap {} = {}  OBVIOUS
  <2>3. NoneOf(Tail(mailbox[p]), RecoverMsg)  BY <1>2, <1>4, HeadFacts
  <2> QED  BY <2>1, <2>2, <2>3, ExtendsUse
<1>6. NoneOf(mailbox'[p], RecoverMsg)  BY <1>5, AppendFacts
<1>7. carried' = carried /\ (Authorized(p)' <=> Authorized(p))
  BY DEF PassengerFrame, driverVars, Authorized
<1>8. AtMostOne(mailbox'[p], SearchMsg) /\ (Authorized(p) /\ NoneOf(mailbox[p], SearchMsg)
         => NoneOf(mailbox'[p], SearchMsg))
  <2>1. AtMostOne(mailbox[p], SearchMsg)  BY <1>1 DEF Exclusive
  <2>2. CASE Authorized(p)
    <3>1. NoneOf(own, SearchMsg)  BY <2>2
    <3> QED  BY <1>5, <2>1, <3>1, AppendFacts
  <2>3. CASE ~Authorized(p)
    <3>1. NoneOf(Tail(mailbox[p]), SearchMsg)  BY <1>4, <1>5, <2>3
    <3> QED  BY <1>5, <2>3, <3>1, AppendFacts
  <2> QED  BY <2>2, <2>3
<1>9. PassengerInv(p)'
  <2>1. PassengerDown(p)'  BY <1>2 DEF PassengerDown
  <2>2. PassengerRecovers(p)'
    BY <1>6 DEF PassengerRecovers, NoneOf, FirstOnly, RecoverMsg, OfType
  <2>3. PassengerSaves(p)'
    <3>1. ASSUME ~Authorized(p)
          PROVE  RequestBehind(mailbox'[p])
      <4>1. NoneOf(Tail(mailbox[p]), SearchMsg)  BY <1>4, <1>5, <3>1
      <4>2. NoneOf(Tail(mailbox[p]), RequestMsg)
        BY <4>1, TypesApart DEF NoneOf, RequestMsg, SearchMsg, OfType
      <4>3. RequestBehind(Tail(mailbox[p]))  BY <1>5, <4>2, BehindNone
      <4> QED  BY <1>5, <4>3, BehindAppend
    <3> QED  BY <1>7, <3>1 DEF PassengerSaves
  <2>4. PassengerTravels(p)'
    <3>1. NoneOf(mailbox[p], TravelMsg) => NoneOf(mailbox'[p], TravelMsg)
      <4>1. Tail(mailbox[p]) \in Seq(Msg) /\ Extends(Tail(mailbox[p]), mailbox[p], {})
        BY <1>2, TailExtends
      <4>2. TravelMsg \cap {} = {}  OBVIOUS
      <4>3. NoneOf(mailbox[p], TravelMsg) => NoneOf(Tail(mailbox[p]), TravelMsg)
        BY <4>1, <4>2, ExtendsUse
      <4> QED  BY <4>1, <4>3, AppendFacts
    <3> QED  BY <1>1, <1>7, <3>1 DEF PassengerInv, PassengerTravels, TravelMsg, OfType
  <2> QED  BY <2>1, <2>2, <2>3, <2>4 DEF PassengerInv
<1>10. Exclusive(p)'
  <2>1. /\ \A d \in Drivers : /\ AtMostOne(mailbox'[d], RideRequest(p))
                              /\ Asks(p, d)' => Asks(p, d)
                              /\ Serves(d, p)' <=> Serves(d, p)
        /\ p \in carried' <=> p \in carried
    BY <1>1, DriversWith
  <2>2. p \notin authorizing'  BY <1>4
  <2>3. CASE ~Authorized(p)
    <3>1. p \notin carried /\ \A d \in Drivers : ~Asks(p, d) /\ ~Serves(d, p)
      BY <1>1, <2>3 DEF Exclusive
    <3>2. (/\ p \notin carried
           /\ \A d \in Drivers : ~Asks(p, d) /\ ~Serves(d, p))'
      BY <2>1, <3>1
    <3>3. (\A d \in Drivers : AtMostOne(mailbox[d], RideRequest(p)))'
      BY <2>1 DEF RideRequest, OfType
    <3> QED  BY <1>8, <2>2, <3>2, <3>3 DEF Exclusive
  <2>4. CASE Authorized(p)
    <3>1. Seeks(p)' => Seeks(p)
      BY <1>8, <2>2, <2>4 DEF Seeks, SearchMsg, OfType
    <3> QED  BY <1>1, <1>7, <1>8, <2>1, <2>2, <3>1, SearchStands
  <2> QED  BY <2>3, <2>4
<1> QED  BY <1>9, <1>10 DEF PassengerInv

LEMMA RecoverStep ==
    ASSUME IInv, NEW p \in Passengers, Recover(p)
    PROVE  IInv'
<1> DEFINE s == [NewPassenger EXCEPT !.payment_authorized = passenger_file[p].payment_authorized,
                                     !.driver_socket      = passenger_file[p].driver_socket]
           d == s.driver_socket
           m == [type |-> "PassengerRecover", from |-> Self(p)]
<1>1. /\ TypeOK /\ p \in Actors /\ PassengerInv(p) /\ Handles(p, "Recover")
      /\ passenger' = [passenger EXCEPT ![p] = s]
      /\ UNCHANGED <<up, starts, serverVars, gatewayVars, driverVars, passenger_file, counts>>
  BY ActorsApart DEF IInv, Recover
<1>2. mailbox[p] \in Seq(Msg) /\ mailbox[p] # <<>> /\ Head(mailbox[p]) \in RecoverMsg
  BY <1>1, HeadMsg DEF RecoverMsg, OfType
<1>3. passenger_file[p] \in PassengerFile /\ (Authorized(p) <=> passenger_file[p].payment_authorized)
  <2>1. ~NoneOf(mailbox[p], RecoverMsg)  BY <1>2, HeadFacts
  <2>2. passenger_file[p] # None  BY <1>1, <2>1 DEF PassengerInv, PassengerRecovers
  <2> QED  BY <1>1, <2>2 DEF TypeOK, Authorized
<1>4. /\ s \in PassengerState /\ s.position = "origin"
      /\ s.payment_authorized <=> Authorized(p)
      /\ d \in Drivers \cup {None}
  <2>1. NewPassenger \in PassengerState  BY DEF NewPassenger, PassengerState, Place
  <2>2. /\ passenger_file[p].payment_authorized \in BOOLEAN
        /\ passenger_file[p].driver_socket \in Drivers \cup {None}
    BY <1>3 DEF PassengerFile
  <2>3. s.position = "origin" /\ s.payment_authorized = passenger_file[p].payment_authorized
    BY DEF NewPassenger
  <2>4. d = passenger_file[p].driver_socket  BY DEF NewPassenger
  <2> QED  BY <1>3, <2>1, <2>2, <2>3, <2>4 DEF PassengerState
<1>5. /\ passenger' \in [Passengers -> PassengerState] /\ passenger'[p] = s
      /\ \A q \in Passengers : q # p => passenger'[q] = passenger[q]
  BY <1>1, <1>4 DEF TypeOK
<1>6. m \in Msg /\ m.type = "PassengerRecover" /\ m \in From(p)
  BY <1>1, TypedMsg DEF From, DriverInbox, OfType, Self, Msg, DriverMsg, TypeOK, Process
<1>7. \A x \in {"Login", "GetDrivers"} : Plain(x) \in Msg /\ Plain(x).type = x
  BY PlainMsg DEF PlainType
<1>8. UNCHANGED <<up, reconnecting, authorizing, passenger_file, driverVars>>
  BY <1>1 DEF serverVars, gatewayVars
<1>9. \A q \in Passengers \ {p} :
         /\ passenger'[q] = passenger[q] /\ passenger_file'[q] = passenger_file[q]
         /\ q \in authorizing' <=> q \in authorizing
  BY <1>5, <1>8
<1> HIDE DEF m
<1>10. ASSUME NEW S, S \subseteq {m}, NEW own \in Seq(Msg), PassengerFrame(p, S),
              mailbox' \in [Actors -> Seq(Msg)], mailbox'[p] = Tail(mailbox[p]) \o own,
              NoneOf(own, Msg \ OfType({"Login", "GetDrivers"})), AtMostOne(own, SearchMsg),
              NoneOf(own, SearchMsg) \/ ~Authorized(p)
       PROVE  IInv'
  <2>1. /\ NoneOf(own, RecoverMsg) /\ NoneOf(own, RequestMsg) /\ NoneOf(own, TravelMsg)
        /\ NoneOf(own, OfType({"ReconnectDriver"}))
    BY <1>10 DEF NoneOf, RecoverMsg, RequestMsg, TravelMsg, OfType
  <2>2. S \cap RideRequest(p) = {} /\ S \cap Reconnect(p) = {}
    BY <1>6, <1>10 DEF RideRequest, Reconnect, OfType
  <2>3. TypeOK'
    BY <1>1, <1>5, <1>10 DEF TypeOK, gatewayVars, driverVars, serverVars
  <2>4. PassengerInv(p)' /\ Exclusive(p)'
    <3>1. /\ passenger'[p].payment_authorized <=> Authorized(p)
          /\ passenger'[p].position = "origin"
      BY <1>4, <1>5
    <3>2. UNCHANGED <<up, authorizing, passenger_file>>  BY <1>8
    <3> HIDE DEF s
    <3> QED  BY <1>1, <1>10, <2>1, <2>2, <3>1, <3>2, RecoveredPassenger
  <2>5. \A e \in Drivers : DriverKnows(e)'
    BY <1>2, <1>10, <2>1, <2>2, KnowledgeQuiet
  <2> QED  BY <1>10, <2>3, <2>4, <2>5, PassengerPreserves
<1>11. CASE NeedsDriver(s) /\ Continue(p, <<Plain("Login"), Plain("GetDrivers")>>)
  <2> DEFINE own == <<Plain("Login"), Plain("GetDrivers")>>
  <2>1. /\ own \in Seq(Msg) /\ AtMostOne(own, SearchMsg)
        /\ NoneOf(own, Msg \ OfType({"Login", "GetDrivers"}))
    BY <1>7, ShortMailbox DEF OfType, SearchMsg
  <2>2. ~Authorized(p)  BY <1>4, <1>11 DEF NeedsDriver
  <2>3. Continue(p, own)  BY <1>11
  <2>4. UNCHANGED <<up, reconnecting, driverVars>>  BY <1>8
  <2> HIDE DEF own
  <2>5. PassengerFrame(p, {}) /\ mailbox' \in [Actors -> Seq(Msg)]
        /\ mailbox'[p] = Tail(mailbox[p]) \o own
    BY <1>1, <1>2, <1>9, <2>1, <2>3, <2>4, QuietFrame
  <2> QED  BY <1>10, <2>1, <2>2, <2>5
<1>12. CASE ~NeedsDriver(s) /\ d \in up /\ Mail(p, <<Plain("Login")>>, Self(d), <<m>>)
  <2> DEFINE own == <<Plain("Login")>>
             c   == Self(d)
  <2>1. /\ own \in Seq(Msg) /\ AtMostOne(own, SearchMsg) /\ NoneOf(own, SearchMsg)
        /\ NoneOf(own, Msg \ OfType({"Login", "GetDrivers"}))
    BY <1>7, ShortMailbox DEF OfType, SearchMsg
  <2>2. Mail(p, own, c, <<m>>)  BY <1>12
  <2>3. UNCHANGED <<up, reconnecting, driverVars>>  BY <1>8
  <2>4. c \in Process(Drivers) \cup {None}
    <3>1. d \in Drivers
      <4>1. d \in Actors  BY <1>1, <1>12 DEF TypeOK
      <4> QED  BY <1>4, <4>1, RideAssumption DEF Actors
    <3> QED  BY <1>1, <3>1, ActorsApart DEF TypeOK, Self, Process
  <2> HIDE DEF own, c
  <2>5. PassengerFrame(p, {m}) /\ mailbox' \in [Actors -> Seq(Msg)]
        /\ mailbox'[p] = Tail(mailbox[p]) \o own
    BY <1>1, <1>2, <1>6, <1>9, <2>1, <2>2, <2>3, <2>4, SendFrame
  <2> QED  BY <1>10, <2>1, <2>5
<1>13. CASE ~NeedsDriver(s) /\ d \notin up /\ Continue(p, <<Plain("Login")>>)
  <2> DEFINE own == <<Plain("Login")>>
  <2>1. /\ own \in Seq(Msg) /\ AtMostOne(own, SearchMsg) /\ NoneOf(own, SearchMsg)
        /\ NoneOf(own, Msg \ OfType({"Login", "GetDrivers"}))
    BY <1>7, ShortMailbox DEF OfType, SearchMsg
  <2>2. Continue(p, own)  BY <1>13
  <2>3. UNCHANGED <<up, reconnecting, driverVars>>  BY <1>8
  <2> HIDE DEF own
  <2>4. PassengerFrame(p, {}) /\ mailbox' \in [Actors -> Seq(Msg)]
        /\ mailbox'[p] = Tail(mailbox[p]) \o own
    BY <1>1, <1>2, <1>9, <2>1, <2>2, <2>3, QuietFrame
  <2> QED  BY <1>10, <2>1, <2>4
<1> QED  BY <1>11, <1>12, <1>13 DEF Recover, m

LEMMA ReconnectDriverStep ==
    ASSUME IInv, NEW p \in Passengers, ReconnectDriver(p)
    PROVE  IInv'
<1> DEFINE d   == Head(mailbox[p]).socket
           own == <<>>
           m   == [type |-> "ReconnectPassenger", from |-> Self(p),
                   position |-> passenger[p].position]
           t   == "ReconnectDriver"
<1>1. /\ TypeOK /\ p \in Actors /\ Handles(p, t)
      /\ UNCHANGED <<up, starts, serverVars, gatewayVars, driverVars, passenger_file, counts>>
  BY ActorsApart DEF IInv, ReconnectDriver
<1>2. /\ mailbox[p] \in Seq(Msg) /\ mailbox[p] # <<>> /\ p \in up
      /\ Head(mailbox[p]) \in Msg /\ Head(mailbox[p]).type = t /\ d \in Drivers
      /\ passenger[p].payment_authorized <=> Authorized(p)
  BY <1>1, HeadMsg, MsgOfType, Awake
<1>3. ~NoneOf(mailbox[p], SocketMsg(d))
  <2>1. Head(mailbox[p]) \in SocketMsg(d)  BY <1>2 DEF SocketMsg, OfType
  <2> QED  BY <1>2, <2>1, HeadFacts
<1>4. m \in Msg /\ m \in From(p) /\ m.type = "ReconnectPassenger"
  <2>1. passenger[p].position \in Place  BY <1>1 DEF TypeOK, PassengerState
  <2> QED  BY <1>1, <2>1, TypedMsg
           DEF From, DriverInbox, OfType, Self, Msg, DriverMsg, TypeOK, Process
<1>5. own \in Seq(Msg) /\ NoneOf(own, SearchMsg) /\ NoneOf(own, RecoverMsg)
      /\ NoneOf(own, TravelMsg)
  BY NothingSent
<1>6. t # "Recover" /\ t # "PaymentAuthorized"  OBVIOUS
<1>7. UNCHANGED <<up, reconnecting, authorizing, passenger_file, driverVars>>
  BY <1>1 DEF serverVars, gatewayVars
<1>8. Self(d) \in Process(Drivers) /\ Self(d).actor = d
  BY <1>1, <1>2, ActorsApart DEF TypeOK, Self, Process
<1> HIDE DEF m, t
<1>9. ASSUME NEW S, S \subseteq {m}, PassengerFrame(p, S),
             mailbox' \in [Actors -> Seq(Msg)], mailbox'[p] = Tail(mailbox[p]) \o own,
             \A e \in Drivers : e # d => mailbox'[e] = mailbox[e],
             passenger' \in [Passengers -> PassengerState],
             passenger'[p].payment_authorized = passenger[p].payment_authorized,
             passenger'[p].position = passenger[p].position
      PROVE  IInv'
  <2> HIDE DEF own
  <2>1. S \cap RideRequest(p) = {}  BY <1>4, <1>9 DEF RideRequest, OfType
  <2>2. TypeOK'
    BY <1>1, <1>9 DEF TypeOK, gatewayVars, driverVars, serverVars
  <2>3. PassengerInv(p)' /\ Exclusive(p)'
    <3>1. Authorized(p)' <=> Authorized(p)  BY <1>7 DEF Authorized
    <3>2. p \in up' /\ (p \in authorizing' <=> p \in authorizing)  BY <1>2, <1>7
    <3>3. passenger'[p].payment_authorized <=> Authorized(p)'  BY <1>2, <1>9, <3>1
    <3> QED  BY <1>1, <1>5, <1>6, <1>9, <2>1, <3>1, <3>2, <3>3, NeutralPassenger
  <2>4. ASSUME NEW e \in Drivers
        PROVE  DriverKnows(e)'
    <3>1. CASE e = d  BY <1>3, <1>9, <3>1, KnowledgeStands
    <3>2. CASE e # d
      <4>1. mailbox'[e] = mailbox[e]  BY <1>9, <3>2
      <4>2. Tail(mailbox[p]) \in Seq(Msg) /\ Extends(Tail(mailbox[p]), mailbox[p], {})
        BY <1>2, TailExtends
      <4>3. SocketMsg(e) \cap {} = {}  OBVIOUS
      <4>4. NoneOf(mailbox[p], SocketMsg(e)) => NoneOf(Tail(mailbox[p]), SocketMsg(e))
        BY <4>2, <4>3, ExtendsUse
      <4>5. NoneOf(own, SocketMsg(e))  BY NothingSent DEF own
      <4>6. NoneOf(mailbox[p], SocketMsg(e)) => NoneOf(mailbox'[p], SocketMsg(e))
        BY <1>5, <1>9, <4>2, <4>4, <4>5, AppendFacts
      <4> QED  BY <1>9, <4>1, <4>6, KnowledgeStands
    <3> QED  BY <3>1, <3>2
  <2> QED  BY <1>9, <2>2, <2>3, <2>4, PassengerPreserves
<1>10. CASE /\ d \in up
            /\ passenger' = [passenger EXCEPT ![p].connection = Self(d)]
            /\ Mail(p, own, Self(d), <<m>>)
  <2> DEFINE c == Self(d)
             f == [passenger[p] EXCEPT !.connection = c]
  <2>1. passenger \in [Passengers -> PassengerState]  BY <1>1 DEF TypeOK
  <2>2. f \in PassengerState /\ f.payment_authorized = passenger[p].payment_authorized
        /\ f.position = passenger[p].position
    BY <1>8, <2>1 DEF PassengerState
  <2>3. passenger' = [passenger EXCEPT ![p] = f]  BY <1>10
  <2>4. Mail(p, own, c, <<m>>) /\ c \in Process(Drivers) /\ c # None /\ c.actor = d
    BY <1>8, <1>10, NoneAssumption, ActorsApart DEF Process
  <2> HIDE DEF f, c, d, own
  <2>5. /\ passenger' \in [Passengers -> PassengerState] /\ passenger'[p] = f
        /\ \A q \in Passengers : q # p => passenger'[q] = passenger[q]
    BY <2>1, <2>2, <2>3
  <2>6. \A q \in Passengers \ {p} :
              /\ passenger'[q] = passenger[q] /\ passenger_file'[q] = passenger_file[q]
              /\ q \in authorizing' <=> q \in authorizing
    BY <1>7, <2>5
  <2>7. UNCHANGED <<up, reconnecting, driverVars>>  BY <1>7
  <2>8. c \in Process(Drivers) \cup {None} /\ own \in Seq(Msg) /\ m \in From(p)
    BY <1>4, <1>5, <2>4
  <2>9. PassengerFrame(p, {m}) /\ mailbox' \in [Actors -> Seq(Msg)]
        /\ mailbox'[p] = Tail(mailbox[p]) \o own
        /\ \A e \in Drivers : c = None \/ e # c.actor => mailbox'[e] = mailbox[e]
    BY <1>1, <1>2, <2>4, <2>6, <2>7, <2>8, SendFrame
  <2>10. c # None /\ c.actor = d  BY <2>4
  <2> QED  BY <1>9, <2>2, <2>5, <2>9, <2>10
<1>11. CASE d \notin up /\ Continue(p, own) /\ UNCHANGED passenger
  <2>1. \A q \in Passengers \ {p} :
              /\ passenger'[q] = passenger[q] /\ passenger_file'[q] = passenger_file[q]
              /\ q \in authorizing' <=> q \in authorizing
    BY <1>7, <1>11
  <2>2. UNCHANGED <<up, reconnecting, driverVars>> /\ own \in Seq(Msg)  BY <1>5, <1>7
  <2>3. Continue(p, own) /\ passenger \in [Passengers -> PassengerState] /\ passenger' = passenger
    BY <1>1, <1>11 DEF TypeOK
  <2>4. /\ mailbox' \in [Actors -> Seq(Msg)]
        /\ \A e \in Actors : e # p => mailbox'[e] = mailbox[e]
    BY <1>1, <1>2, <2>2, <2>3, ContinueFacts
  <2> HIDE DEF own, d
  <2>5. PassengerFrame(p, {}) /\ mailbox'[p] = Tail(mailbox[p]) \o own
    BY <1>1, <1>2, <2>1, <2>2, <2>3, QuietFrame
  <2>6. \A e \in Drivers : mailbox'[e] = mailbox[e]  BY <2>4, ActorsApart
  <2> QED  BY <1>9, <2>3, <2>4, <2>5, <2>6
<1> QED  BY <1>10, <1>11 DEF ReconnectDriver, m

-----------------------------------------------------------------------------
(* What the step of one driver leaves alone.                               *)

\* A step of d, or on its behalf, that sends at most m, to c.
DriverFrame(d, c, m) ==
    /\ UNCHANGED <<authorizing, passengerVars>>
    /\ \A e \in Drivers \ {d} :
          /\ mailbox'[e] = mailbox[e] /\ driver'[e] = driver[e]
          /\ driver_file'[e] = driver_file[e] /\ saving'[e] = saving[e]
          /\ current_passenger_connection'[e] = current_passenger_connection[e]
          /\ e \in up' <=> e \in up
          /\ m \notin SocketMsg(e)
          /\ \A p \in Passengers : <<e, p>> \in reconnecting' => <<e, p>> \in reconnecting
    /\ \A p \in Passengers : p \in up' <=> p \in up
    /\ c # None =>
          /\ c.actor \in Passengers /\ m \in PassengerInbox
          /\ m \in TravelMsg => c.actor \in carried'
          /\ m \in SearchMsg => Authorized(c.actor)
    /\ \A p \in Passengers :
          \/ mailbox'[p] = mailbox[p]
          \/ c # None /\ p = c.actor /\ p \in up /\ mailbox'[p] = mailbox[p] \o <<m>>
    /\ carried \subseteq carried'
    /\ \A p \in Passengers : p \in carried' => p \in carried \/ Serves(d, p)

LEMMA PassengerOfType ==
    ASSUME NEW s \in DriverState \cup {None}, s # None => Sound(s)
    PROVE  /\ PassengerOf(s) \in Passengers \cup {None}
           /\ s # None /\ ~s.is_available =>
                 PassengerOf(s) = s.id_current_passenger /\ PassengerOf(s) \in Passengers
           /\ s # None /\ s.is_available => PassengerOf(s) = None
BY DEF PassengerOf, DriverState, Sound

LEMMA OtherDriversStand ==
    ASSUME IInv, NEW d \in Drivers, NEW c, NEW m, DriverFrame(d, c, m), NEW e \in Drivers, e # d
    PROVE  DriverInv(e)'
<1>1. /\ mailbox'[e] = mailbox[e] /\ driver'[e] = driver[e]
      /\ driver_file'[e] = driver_file[e] /\ saving'[e] = saving[e]
      /\ current_passenger_connection'[e] = current_passenger_connection[e]
      /\ e \in up' <=> e \in up
      /\ carried \subseteq carried'
      /\ \A p \in Passengers : p \in carried' => p \in carried \/ Serves(d, p)
      /\ DriverInv(e) /\ TypeOK
  BY DEF DriverFrame, IInv
<1>2. DriverDown(e)'  BY <1>1 DEF DriverInv, DriverDown
<1>3. DriverRecovers(e)'
  BY <1>1 DEF DriverInv, DriverRecovers, RecoveryMsg, WayMsg, OfType
<1>4. DriverSaves(e)'
  <2>1. saving[e] = "RequestRide" => PassengerOf(driver[e]) \notin carried'
    <3> SUFFICES ASSUME saving[e] = "RequestRide", PassengerOf(driver[e]) \in carried'
                 PROVE  FALSE
      OBVIOUS
    <3> DEFINE p == PassengerOf(driver[e])
    <3>1. ~driver[e].is_available /\ p \notin carried  BY <1>1 DEF DriverInv, DriverSaves
    <3>2. p \in Passengers
      <4>1. driver[e] \in DriverState /\ driver[e] # None  BY <1>1, NoneAssumption DEF TypeOK
      <4>2. Sound(driver[e])  BY <1>1 DEF DriverInv, DriverSound
      <4> QED  BY <3>1, <4>1, <4>2, PassengerOfType
    <3>3. Serves(d, p) /\ Serves(e, p)  BY <1>1, <3>1, <3>2 DEF Serves
    <3>4. Exclusive(p)  BY <3>2 DEF IInv
    <3> QED  BY <3>3, <3>4 DEF Exclusive
  <2>2. saving[e] = "EndRide" => driver[e].is_available /\ PassengerOf(driver_file[e]) \in carried'
    BY <1>1 DEF DriverInv, DriverSaves
  <2>3. (DriverSaves(e) <=> DriverSaves(e))'  OBVIOUS
  <2> QED  BY <1>1, <2>1, <2>2 DEF DriverInv, DriverSaves, PassengerOf, RecoveryMsg, WayMsg, OfType
<1>5. DriverWay(e)'  BY <1>1 DEF DriverInv, DriverWay, WayMsg, AboardMsg, OfType
<1>6. DriverSound(e)'  BY <1>1 DEF DriverInv, DriverSound, Sound
<1>7. DriverTalks(e)'  BY <1>1 DEF DriverInv, DriverTalks, PassengerOf
<1> QED  BY <1>2, <1>3, <1>4, <1>5, <1>6, <1>7 DEF DriverInv

\* The mailbox of a passenger, which may have got m.
LEMMA DeliveredTo ==
    ASSUME IInv, NEW d \in Drivers, NEW c, NEW m, DriverFrame(d, c, m), NEW p \in Passengers
    PROVE  /\ mailbox[p] \in Seq(Msg)
           /\ \A M : m \notin M /\ NoneOf(mailbox[p], M) => NoneOf(mailbox'[p], M)
           /\ \A M : ~NoneOf(mailbox[p], M) => ~NoneOf(mailbox'[p], M)
           /\ mailbox'[p] # mailbox[p] =>
                 /\ c # None /\ p = c.actor /\ p \in up /\ m \in PassengerInbox
                 /\ mailbox'[p] = mailbox[p] \o <<m>> /\ <<m>> \in Seq(Msg)
<1>1. mailbox[p] \in Seq(Msg) /\ TypeOK /\ p \in Actors  BY ActorsApart DEF IInv, TypeOK
<1>2. CASE mailbox'[p] = mailbox[p]  BY <1>1, <1>2
<1>3. CASE mailbox'[p] # mailbox[p]
  <2>1. /\ c # None /\ p = c.actor /\ p \in up /\ m \in PassengerInbox
        /\ mailbox'[p] = mailbox[p] \o <<m>>
    BY <1>3 DEF DriverFrame
  <2>2. m \in Msg  BY <2>1 DEF PassengerInbox, OfType
  <2>3. <<m>> \in Seq(Msg)  BY <2>2
  <2>4. Delivers(p, {m})  BY <2>1 DEF Delivers
  <2>5. \A M : m \notin M /\ NoneOf(mailbox[p], M) => NoneOf(mailbox'[p], M)
    <3> SUFFICES ASSUME NEW M, m \notin M, NoneOf(mailbox[p], M)  PROVE NoneOf(mailbox'[p], M)
      OBVIOUS
    <3>1. NoneOf(<<m>>, M)  BY <2>2, ShortMailbox
    <3> QED  BY <1>1, <2>1, <2>3, <3>1, AppendFacts
  <2>6. \A M : ~NoneOf(mailbox[p], M) => ~NoneOf(mailbox'[p], M)
    BY <1>1, <2>2, <2>4, DeliveryFacts
  <2> QED  BY <1>1, <2>1, <2>3, <2>5, <2>6
<1> QED  BY <1>2, <1>3

LEMMA PassengersUntouched ==
    ASSUME IInv, NEW d \in Drivers, NEW c, NEW m, DriverFrame(d, c, m), NEW p \in Passengers
    PROVE  PassengerInv(p)'
<1>1. /\ UNCHANGED <<authorizing, passenger, passenger_file>>
      /\ p \in up' <=> p \in up
      /\ carried \subseteq carried'
      /\ PassengerInv(p)
  BY DEF DriverFrame, IInv, passengerVars
<1>2. /\ mailbox[p] \in Seq(Msg)
      /\ \A M : m \notin M /\ NoneOf(mailbox[p], M) => NoneOf(mailbox'[p], M)
      /\ \A M : ~NoneOf(mailbox[p], M) => ~NoneOf(mailbox'[p], M)
      /\ mailbox'[p] # mailbox[p] =>
            /\ c # None /\ p = c.actor /\ p \in up /\ m \in PassengerInbox
            /\ mailbox'[p] = mailbox[p] \o <<m>> /\ <<m>> \in Seq(Msg)
  BY DeliveredTo
<1>3. CASE mailbox'[p] = mailbox[p]
  BY <1>1, <1>3
     DEF PassengerInv, PassengerDown, PassengerRecovers, PassengerSaves, PassengerTravels,
         Authorized, RecoverMsg, SearchMsg, TravelMsg, OfType
<1>4. CASE mailbox'[p] # mailbox[p]
  <2>1. /\ c # None /\ p = c.actor /\ p \in up /\ m \in PassengerInbox /\ m \in Msg
        /\ mailbox'[p] = mailbox[p] \o <<m>> /\ <<m>> \in Seq(Msg)
    BY <1>2, <1>4 DEF PassengerInbox, OfType
  <2>2. m \notin RecoverMsg /\ m \notin RequestMsg
    BY <2>1 DEF PassengerInbox, RecoverMsg, RequestMsg, OfType
  <2>3. Authorized(p)' <=> Authorized(p)  BY <1>1 DEF Authorized
  <2>4. PassengerDown(p)'  BY <1>1, <2>1 DEF PassengerDown
  <2>5. PassengerRecovers(p)'
    <3>1. FirstOnly(mailbox'[p], RecoverMsg)
      <4>1. FirstOnly(mailbox[p], RecoverMsg)  BY <1>1 DEF PassengerInv, PassengerRecovers
      <4>2. \A i \in 1..Len(<<m>>) : <<m>>[i] \in {m}  BY <2>1
      <4>3. Extends(mailbox'[p], mailbox[p], {m})  BY <1>2, <2>1, <4>2, AppendExtends
      <4>4. RecoverMsg \cap {m} = {}  BY <2>2
      <4> QED  BY <4>1, <4>3, <4>4, ExtendsUse
    <3>2. NoneOf(mailbox[p], RecoverMsg) => NoneOf(mailbox'[p], RecoverMsg)  BY <1>2, <2>2
    <3>3. NoneOf(mailbox[p], SearchMsg) => NoneOf(mailbox'[p], SearchMsg) \/ Authorized(p)
      <4>1. m \in SearchMsg => Authorized(p)  BY <2>1 DEF DriverFrame
      <4> QED  BY <1>2, <4>1
    <3> QED
      BY <1>1, <2>3, <3>1, <3>2, <3>3
         DEF PassengerInv, PassengerRecovers, RecoverMsg, SearchMsg, OfType
  <2>6. PassengerSaves(p)'
    <3>1. NoneOf(mailbox'[p], RecoverMsg) => NoneOf(mailbox[p], RecoverMsg)  BY <1>2
    <3>2. RequestBehind(mailbox[p]) => RequestBehind(mailbox'[p])
      <4>1. NoneOf(<<m>>, RequestMsg)  BY <2>1, <2>2, ShortMailbox
      <4> QED  BY <1>2, <2>1, <4>1, BehindAppend
    <3> QED
      BY <1>1, <2>3, <3>1, <3>2 DEF PassengerInv, PassengerSaves, RecoverMsg, OfType
  <2>7. PassengerTravels(p)'
    <3>1. m \in TravelMsg => p \in carried'  BY <2>1 DEF DriverFrame
    <3>2. NoneOf(mailbox[p], TravelMsg) => NoneOf(mailbox'[p], TravelMsg) \/ p \in carried'
      BY <1>2, <3>1
    <3> QED
      BY <1>1, <3>2 DEF PassengerInv, PassengerTravels, TravelMsg, OfType
  <2> QED  BY <2>4, <2>5, <2>6, <2>7 DEF PassengerInv
<1> QED  BY <1>3, <1>4

\* A step of d that does not move the search of p.
LEMMA SearchesUntouched ==
    ASSUME IInv, NEW d \in Drivers, NEW c, NEW m, DriverFrame(d, c, m), NEW p \in Passengers,
           c = None \/ m \notin SearchMsg \/ c.actor # p,
           AtMostOne(mailbox[d], RideRequest(p)) => AtMostOne(mailbox'[d], RideRequest(p)),
           NoneOf(mailbox[d], RideRequest(p)) => NoneOf(mailbox'[d], RideRequest(p)),
           Serves(d, p)' => Serves(d, p)
    PROVE  Exclusive(p)'
<1>1. /\ UNCHANGED <<authorizing, passenger_file>> /\ Exclusive(p) /\ TypeOK
      /\ \A e \in Drivers : e # d =>
            mailbox'[e] = mailbox[e] /\ driver'[e] = driver[e] /\ driver_file'[e] = driver_file[e]
      /\ p \in carried' => p \in carried \/ Serves(d, p)
  BY DEF DriverFrame, IInv, passengerVars
<1>2. /\ mailbox[p] \in Seq(Msg)
      /\ m \notin SearchMsg /\ NoneOf(mailbox[p], SearchMsg) => NoneOf(mailbox'[p], SearchMsg)
      /\ mailbox'[p] # mailbox[p] =>
            /\ c # None /\ p = c.actor /\ m \in PassengerInbox
            /\ mailbox'[p] = mailbox[p] \o <<m>> /\ <<m>> \in Seq(Msg)
  BY DeliveredTo
<1>3. AtMostOne(mailbox'[p], SearchMsg)
      /\ (NoneOf(mailbox[p], SearchMsg) => NoneOf(mailbox'[p], SearchMsg))
  <2>1. AtMostOne(mailbox[p], SearchMsg)  BY <1>1 DEF Exclusive
  <2>2. CASE mailbox'[p] = mailbox[p]  BY <2>1, <2>2
  <2>3. CASE mailbox'[p] # mailbox[p]
    <3>1. m \notin SearchMsg /\ m \in Msg  BY <1>2, <2>3 DEF PassengerInbox, OfType
    <3>2. NoneOf(<<m>>, SearchMsg)  BY <3>1, ShortMailbox
    <3> QED  BY <1>2, <2>1, <2>3, <3>1, <3>2, AppendFacts
  <2> QED  BY <2>2, <2>3
<1>4. Seeks(p)' => Seeks(p)  BY <1>1, <1>3 DEF Seeks, SearchMsg, OfType
<1>5. p \in authorizing' => NoneOf(mailbox'[p], SearchMsg)  BY <1>1, <1>3 DEF Exclusive
<1>6. \A e \in Drivers : /\ AtMostOne(mailbox'[e], RideRequest(p))
                         /\ Asks(p, e)' => Asks(p, e)
                         /\ Serves(e, p)' => Serves(e, p)
  <2> SUFFICES ASSUME NEW e \in Drivers
               PROVE  /\ AtMostOne(mailbox'[e], RideRequest(p))
                      /\ Asks(p, e)' => Asks(p, e)
                      /\ Serves(e, p)' => Serves(e, p)
    OBVIOUS
  <2>1. AtMostOne(mailbox[e], RideRequest(p))  BY <1>1 DEF Exclusive
  <2>2. CASE e = d  BY <2>1, <2>2 DEF Asks, RideRequest, OfType
  <2>3. CASE e # d  BY <1>1, <2>1, <2>3 DEF Asks, Serves, PassengerOf, RideRequest, OfType
  <2> QED  BY <2>2, <2>3
<1>7. Authorized(p) => Authorized(p)'  BY <1>1 DEF Authorized
<1>8. p \in carried' => p \in carried \/ \E e \in Drivers : Serves(e, p)  BY <1>1
<1> QED  BY <1>1, <1>3, <1>4, <1>5, <1>6, <1>7, <1>8, SearchStands

\* Who knew of another driver than d.
LEMMA OthersKnow ==
    ASSUME IInv, NEW d \in Drivers, NEW c, NEW m, DriverFrame(d, c, m), NEW e \in Drivers, e # d
    PROVE  DriverKnows(e)'
<1>1. /\ mailbox'[e] = mailbox[e] /\ driver_file'[e] = driver_file[e] /\ m \notin SocketMsg(e)
      /\ \A p \in Passengers : <<e, p>> \in reconnecting' => <<e, p>> \in reconnecting
      /\ carried \subseteq carried' /\ DriverKnows(e)
  BY DEF DriverFrame, IInv
<1>2. \A p \in Passengers : NoneOf(mailbox[p], SocketMsg(e)) => NoneOf(mailbox'[p], SocketMsg(e))
  BY <1>1, DeliveredTo
<1> QED  BY <1>1, <1>2 DEF DriverKnows, PassengerOf, SocketMsg, Reconnect, OfType

\* A step of d that makes nobody new reconnect to it.
LEMMA DriverStaysKnown ==
    ASSUME IInv, NEW d \in Drivers, NEW c, NEW m, DriverFrame(d, c, m),
           c # None => m \notin SocketMsg(d),
           \A p \in Passengers :
              /\ <<d, p>> \in reconnecting' =>
                    <<d, p>> \in reconnecting \/ PassengerOf(driver_file[d]) = p
              /\ NoneOf(mailbox[d], Reconnect(p)) => NoneOf(mailbox'[d], Reconnect(p))
              /\ PassengerOf(driver_file[d]) = p =>
                    p \in carried' \/ PassengerOf(driver_file'[d]) = p
    PROVE  DriverKnows(d)'
<1>1. carried \subseteq carried' /\ DriverKnows(d)  BY DEF DriverFrame, IInv
<1>2. ASSUME NEW p \in Passengers
      PROVE  NoneOf(mailbox[p], SocketMsg(d)) => NoneOf(mailbox'[p], SocketMsg(d))
  <2>1. CASE c = None
    <3>1. mailbox'[p] = mailbox[p]  BY <2>1 DEF DriverFrame
    <3> QED  BY <3>1
  <2>2. CASE c # None  BY <2>2, DeliveredTo
  <2> QED  BY <2>1, <2>2
<1> SUFFICES ASSUME NEW p \in Passengers,
                    \/ <<d, p>> \in reconnecting'
                    \/ ~NoneOf(mailbox'[p], SocketMsg(d))
                    \/ ~NoneOf(mailbox'[d], Reconnect(p))
             PROVE  p \in carried' \/ PassengerOf(driver_file'[d]) = p
  BY DEF DriverKnows, PassengerOf, SocketMsg, Reconnect, OfType
<1>3. p \in carried \/ PassengerOf(driver_file[d]) = p
  BY <1>1, <1>2 DEF DriverKnows
<1> QED  BY <1>1, <1>3

LEMMA DriverPreserves ==
    ASSUME IInv, NEW d \in Drivers, NEW c, NEW m, DriverFrame(d, c, m), TypeOK',
           DriverInv(d)', DriverKnows(d)', \A p \in Passengers : Exclusive(p)'
    PROVE  IInv'
<1>1. \A e \in Drivers : DriverInv(e)' /\ DriverKnows(e)'
  BY OtherDriversStand, OthersKnow
<1>2. \A p \in Passengers : PassengerInv(p)'  BY PassengersUntouched
<1> QED  BY <1>1, <1>2 DEF IInv

-----------------------------------------------------------------------------
(* What the step of a driver does to itself.                               *)

\* A driver that handles anything but Recovery has recovered, and its file says
\* whom it carries.
LEMMA DriverAwake ==
    ASSUME IInv, NEW d \in Drivers, NEW t, t # "Recovery", Handles(d, t)
    PROVE  /\ NoneOf(mailbox[d], RecoveryMsg) /\ d \in up /\ saving[d] = None
           /\ PassengerOf(driver[d]) = PassengerOf(driver_file[d])
<1>1. TypeOK /\ DriverInv(d) /\ d \in Actors  BY ActorsApart DEF IInv
<1>2. /\ d \in up /\ mailbox[d] \in Seq(Msg) /\ mailbox[d] # <<>> /\ saving[d] = None
      /\ Head(mailbox[d]).type = t
  BY <1>1, HeadMsg
<1>3. Head(mailbox[d]) \notin RecoveryMsg  BY <1>2 DEF RecoveryMsg, OfType
<1>4. NoneOf(mailbox[d], RecoveryMsg)
  BY <1>1, <1>2, <1>3, HeadFacts DEF DriverInv, DriverRecovers
<1> QED  BY <1>1, <1>2, <1>4 DEF DriverInv, DriverSaves

\* The mailbox of a driver that has handled its head and sent own to itself.
LEMMA DriverMailbox ==
    ASSUME IInv, NEW d \in Drivers, NEW t, t # "Recovery", Handles(d, t), NEW own \in Seq(Msg),
           mailbox'[d] = Tail(mailbox[d]) \o own,
           NoneOf(own, RecoveryMsg), NoneOf(own, DriverInbox)
    PROVE  /\ mailbox[d] # <<>>
           /\ NoneOf(mailbox'[d], RecoveryMsg)
           /\ NoneOf(mailbox[d], WayMsg) /\ NoneOf(own, WayMsg) => NoneOf(mailbox'[d], WayMsg)
           /\ AtMostOne(mailbox[d], WayMsg) /\ NoneOf(own, WayMsg) => AtMostOne(mailbox'[d], WayMsg)
           /\ NoneOf(mailbox[d], AboardMsg) /\ NoneOf(own, AboardMsg)
                 => NoneOf(mailbox'[d], AboardMsg)
           /\ \A p \in Passengers :
                 /\ AtMostOne(mailbox[d], RideRequest(p)) => AtMostOne(mailbox'[d], RideRequest(p))
                 /\ NoneOf(mailbox[d], RideRequest(p)) => NoneOf(mailbox'[d], RideRequest(p))
                 /\ NoneOf(mailbox[d], Reconnect(p)) => NoneOf(mailbox'[d], Reconnect(p))
<1>1. /\ mailbox[d] \in Seq(Msg) /\ mailbox[d] # <<>> /\ NoneOf(mailbox[d], RecoveryMsg)
  BY HeadMsg, ActorsApart, DriverAwake DEF IInv
<1>2. Tail(mailbox[d]) \in Seq(Msg) /\ Extends(Tail(mailbox[d]), mailbox[d], {})
  BY <1>1, TailExtends
<1>3. ASSUME NEW M
      PROVE  /\ NoneOf(mailbox[d], M) => NoneOf(Tail(mailbox[d]), M)
             /\ AtMostOne(mailbox[d], M) => AtMostOne(Tail(mailbox[d]), M)
  <2>1. M \cap {} = {}  OBVIOUS
  <2> QED  BY <1>2, <2>1, ExtendsUse
<1>4. ASSUME NEW M, NoneOf(own, M)
      PROVE  /\ NoneOf(mailbox[d], M) => NoneOf(mailbox'[d], M)
             /\ AtMostOne(mailbox[d], M) => AtMostOne(mailbox'[d], M)
  BY <1>2, <1>3, <1>4, AppendFacts
<1>5. \A p \in Passengers : NoneOf(own, RideRequest(p)) /\ NoneOf(own, Reconnect(p))
  BY DEF NoneOf, RideRequest, Reconnect, DriverInbox, OfType
<1> QED  BY <1>1, <1>4, <1>5

\* A handler of d that has nothing to do with its way.
LEMMA NeutralDriver ==
    ASSUME IInv, NEW d \in Drivers, NEW c, NEW m, DriverFrame(d, c, m), c # None => m \notin SocketMsg(d),
           NEW t, t # "Recovery", Handles(d, t),
           mailbox'[d] = Tail(mailbox[d]) \o <<>>,
           UNCHANGED <<up, saving, reconnecting, carried>>,
           driver'[d].is_available = driver[d].is_available,
           driver'[d].id_current_passenger = driver[d].id_current_passenger,
           driver'[d].passenger_picked_up = driver[d].passenger_picked_up,
           driver_file'[d] = driver_file[d] \/ driver_file'[d] = driver[d],
           driver[d] # None, driver'[d] # None,
           LET k == current_passenger_connection'[d] IN
              \/ k = current_passenger_connection[d]
              \/ k.actor \in carried \/ k.actor = PassengerOf(driver[d])
    PROVE  DriverInv(d)' /\ DriverKnows(d)'
<1> DEFINE own == <<>>
<1>1. own \in Seq(Msg) /\ NoneOf(own, RecoveryMsg) /\ NoneOf(own, WayMsg)
      /\ NoneOf(own, AboardMsg) /\ NoneOf(own, DriverInbox)
  BY NothingSent
<1>2. mailbox'[d] = Tail(mailbox[d]) \o own  OBVIOUS
<1> HIDE DEF own
<1>3. /\ NoneOf(mailbox'[d], RecoveryMsg)
      /\ NoneOf(mailbox[d], WayMsg) => NoneOf(mailbox'[d], WayMsg)
      /\ AtMostOne(mailbox[d], WayMsg) => AtMostOne(mailbox'[d], WayMsg)
      /\ NoneOf(mailbox[d], AboardMsg) => NoneOf(mailbox'[d], AboardMsg)
      /\ \A p \in Passengers : NoneOf(mailbox[d], Reconnect(p)) => NoneOf(mailbox'[d], Reconnect(p))
  BY <1>1, <1>2, DriverMailbox
<1>4. /\ d \in up /\ saving[d] = None /\ DriverInv(d)
      /\ PassengerOf(driver[d]) = PassengerOf(driver_file[d])
  BY DriverAwake DEF IInv
<1>5. PassengerOf(driver'[d]) = PassengerOf(driver[d])  BY DEF PassengerOf
<1>6. PassengerOf(driver_file'[d]) = PassengerOf(driver_file[d])  BY <1>4
<1>7. DriverDown(d)'  BY <1>4 DEF DriverDown
<1>8. DriverRecovers(d)'
  BY <1>3 DEF DriverRecovers, FirstOnly, NoneOf, RecoveryMsg, OfType
<1>9. DriverSaves(d)'
  <2>1. saving'[d] = None /\ PassengerOf(driver'[d]) = PassengerOf(driver_file'[d])
    BY <1>4, <1>5, <1>6
  <2> QED  BY <2>1, NoneAssumption DEF DriverSaves, PassengerOf
<1>10. DriverWay(d)'
  BY <1>3, <1>4 DEF DriverInv, DriverWay, WayMsg, AboardMsg, OfType
<1>11. DriverSound(d)'
  <2>1. Sound(driver[d]) => Sound(driver[d])' BY DEF Sound
  <2> QED  BY <1>4, <2>1 DEF DriverInv, DriverSound, Sound
<1>12. DriverTalks(d)'
  BY <1>4, <1>5 DEF DriverInv, DriverTalks, PassengerOf
<1>13. DriverKnows(d)'
  BY <1>3, <1>6, DriverStaysKnown
<1> QED  BY <1>7, <1>8, <1>9, <1>10, <1>11, <1>12, <1>13 DEF DriverInv

\* A step of d on itself, as far as the others are concerned.
OthersAlone(d) ==
    /\ UNCHANGED <<up, authorizing, passengerVars>>
    /\ \A e \in Drivers \ {d} :
          /\ driver'[e] = driver[e] /\ driver_file'[e] = driver_file[e] /\ saving'[e] = saving[e]
          /\ current_passenger_connection'[e] = current_passenger_connection[e]
          /\ \A p \in Passengers : <<e, p>> \in reconnecting' => <<e, p>> \in reconnecting
    /\ carried \subseteq carried'
    /\ \A p \in Passengers : p \in carried' => p \in carried \/ Serves(d, p)

\* What a driver writes into its own mailbox is nobody else's.
LEMMA QuietDriver ==
    ASSUME IInv, NEW d \in Drivers, mailbox[d] # <<>>, NEW own \in Seq(Msg), Continue(d, own),
           OthersAlone(d)
    PROVE  /\ DriverFrame(d, None, Plain("Login"))
           /\ mailbox' \in [Actors -> Seq(Msg)] /\ mailbox'[d] = Tail(mailbox[d]) \o own
<1>1. TypeOK /\ d \in Actors  BY ActorsApart DEF IInv
<1>2. /\ mailbox' \in [Actors -> Seq(Msg)]
      /\ mailbox'[d] = Tail(mailbox[d]) \o own
      /\ \A b \in Actors : b # d => mailbox'[b] = mailbox[b]
  BY <1>1, ContinueFacts
<1>3. \A e \in Drivers : Plain("Login") \notin SocketMsg(e)  BY DEF Plain, SocketMsg, OfType
<1>4. /\ \A e \in Drivers \ {d} : mailbox'[e] = mailbox[e]
      /\ \A p \in Passengers : mailbox'[p] = mailbox[p]
  BY <1>2, ActorsApart
<1>5. DriverFrame(d, None, Plain("Login"))
  BY <1>3, <1>4 DEF DriverFrame, OthersAlone
<1> QED  BY <1>2, <1>5

\* Nor does anybody else notice what it answers to a passenger.
LEMMA SendingDriver ==
    ASSUME IInv, NEW d \in Drivers, mailbox[d] # <<>>, NEW own \in Seq(Msg),
           NEW c \in Process(Passengers) \cup {None}, NEW m, m \in PassengerInbox,
           m.type # "ReconnectDriver", Mail(d, own, c, <<m>>),
           OthersAlone(d),
           c # None /\ m \in TravelMsg => c.actor \in carried',
           c # None /\ m \in SearchMsg => Authorized(c.actor)
    PROVE  /\ DriverFrame(d, c, m)
           /\ mailbox' \in [Actors -> Seq(Msg)] /\ mailbox'[d] = Tail(mailbox[d]) \o own
<1>1. TypeOK /\ d \in Actors  BY ActorsApart DEF IInv
<1>2. c # None => c.actor \in Passengers  BY DEF Process
<1>3. c # None => c.actor # d  BY <1>2, ActorsApart
<1>4. m \in Msg  BY DEF PassengerInbox, OfType
<1>5. /\ mailbox' \in [Actors -> Seq(Msg)]
      /\ mailbox'[d] = Tail(mailbox[d]) \o own
      /\ \A b \in Actors : b # d =>
            \/ mailbox'[b] = mailbox[b]
            \/ c # None /\ b = c.actor /\ b \in up /\ mailbox'[b] = mailbox[b] \o <<m>>
  BY <1>1, <1>3, <1>4, MailFacts
<1>6. \A e \in Drivers : m \notin SocketMsg(e)  BY DEF SocketMsg, OfType
<1>7. \A e \in Drivers \ {d} : mailbox'[e] = mailbox[e]
  <2> SUFFICES ASSUME NEW e \in Drivers, e # d  PROVE mailbox'[e] = mailbox[e]
    OBVIOUS
  <2>1. c # None => e # c.actor  BY <1>2, ActorsApart
  <2> QED  BY <1>5, <2>1, ActorsApart
<1>8. \A p \in Passengers :
         \/ mailbox'[p] = mailbox[p]
         \/ c # None /\ p = c.actor /\ p \in up /\ mailbox'[p] = mailbox[p] \o <<m>>
  BY <1>5, ActorsApart
<1>9. DriverFrame(d, c, m)
  BY <1>2, <1>6, <1>7, <1>8 DEF DriverFrame, OthersAlone
<1> QED  BY <1>5, <1>9

\* A handler of d that sends its way on: it stays with its passenger, which has
\* been picked up once the way is behind that.
LEMMA WayStep ==
    ASSUME IInv, TypeOK', NEW d \in Drivers, NEW c, NEW m, DriverFrame(d, c, m),
           c # None => m \notin SocketMsg(d) /\ m \notin SearchMsg,
           NEW t \in {"StartRide", "PickUpPassenger", "RideToDestination"}, Handles(d, t),
           NEW w \in WayMsg, mailbox'[d] = Tail(mailbox[d]) \o <<w>>,
           UNCHANGED <<up, saving, reconnecting, current_passenger_connection>>,
           driver'[d].is_available = driver[d].is_available,
           driver'[d].id_current_passenger = driver[d].id_current_passenger,
           driver[d].passenger_picked_up => driver'[d].passenger_picked_up,
           driver'[d].passenger_picked_up =>
               driver[d].passenger_picked_up \/ driver[d].id_current_passenger \in carried',
           w \in AboardMsg => driver'[d].passenger_picked_up,
           driver_file'[d] = driver_file[d] \/ driver_file'[d] = driver[d]
    PROVE  IInv'
<1> DEFINE own == <<w>>
<1>1. /\ w \in Msg /\ own \in Seq(Msg) /\ NoneOf(own, RecoveryMsg) /\ NoneOf(own, DriverInbox)
      /\ AtMostOne(own, WayMsg) /\ (w \notin AboardMsg => NoneOf(own, AboardMsg))
  <2>1. w \in Msg  BY DEF WayMsg, OfType
  <2>2. w \notin RecoveryMsg /\ w \notin DriverInbox
    BY DEF WayMsg, RecoveryMsg, DriverInbox, OfType
  <2> QED  BY <2>1, <2>2, ShortMailbox
<1>2. mailbox'[d] = Tail(mailbox[d]) \o own /\ t # "Recovery"  OBVIOUS
<1> HIDE DEF own
<1>3. /\ TypeOK /\ DriverInv(d) /\ d \in Actors
      /\ driver[d] \in DriverState /\ driver'[d] \in DriverState
      /\ driver[d] # None /\ driver'[d] # None
  <2>1. driver'[d] \in DriverState  BY DEF TypeOK
  <2>2. driver'[d] # None  BY <2>1, NoneAssumption
  <2> QED  BY <2>1, <2>2, DriverTyped
<1>4. /\ mailbox[d] \in Seq(Msg) /\ mailbox[d] # <<>> /\ Head(mailbox[d]) \in WayMsg
  <2>1. /\ mailbox[d] \in Seq(Msg) /\ mailbox[d] # <<>>
        /\ Head(mailbox[d]) \in Msg /\ Head(mailbox[d]).type = t
    BY <1>3, HeadMsg
  <2> QED  BY <2>1 DEF WayMsg, OfType
<1>5. /\ ~NoneOf(mailbox[d], WayMsg) /\ NoneOf(Tail(mailbox[d]), WayMsg)
      /\ Tail(mailbox[d]) \in Seq(Msg)
  <2>1. AtMostOne(mailbox[d], WayMsg)  BY <1>3 DEF DriverInv, DriverWay
  <2> QED  BY <1>4, <2>1, HeadFacts, TailExtends
<1>6. ~driver[d].is_available  BY <1>3, <1>5 DEF DriverInv, DriverWay
<1>7. /\ NoneOf(mailbox[d], RecoveryMsg) /\ d \in up /\ saving[d] = None
      /\ PassengerOf(driver[d]) = PassengerOf(driver_file[d])
  BY <1>2, DriverAwake
<1>8. /\ NoneOf(mailbox'[d], RecoveryMsg)
      /\ NoneOf(mailbox[d], AboardMsg) /\ NoneOf(own, AboardMsg) => NoneOf(mailbox'[d], AboardMsg)
      /\ \A p \in Passengers :
            /\ AtMostOne(mailbox[d], RideRequest(p)) => AtMostOne(mailbox'[d], RideRequest(p))
            /\ NoneOf(mailbox[d], RideRequest(p)) => NoneOf(mailbox'[d], RideRequest(p))
            /\ NoneOf(mailbox[d], Reconnect(p)) => NoneOf(mailbox'[d], Reconnect(p))
  BY <1>1, <1>2, DriverMailbox
<1>9. AtMostOne(mailbox'[d], WayMsg)  BY <1>1, <1>2, <1>5, AppendFacts
<1>10. PassengerOf(driver'[d]) = PassengerOf(driver[d])
       /\ PassengerOf(driver_file'[d]) = PassengerOf(driver_file[d])
  BY <1>3, <1>7 DEF PassengerOf
<1>11. carried \subseteq carried'  BY DEF DriverFrame
<1>12. DriverDown(d)'  BY <1>7 DEF DriverDown
<1>13. DriverRecovers(d)'
  BY <1>8 DEF DriverRecovers, FirstOnly, NoneOf, RecoveryMsg, OfType
<1>14. DriverSaves(d)'
  <2>1. saving'[d] = None /\ PassengerOf(driver'[d]) = PassengerOf(driver_file'[d])
    BY <1>7, <1>10
  <2> QED  BY <2>1, NoneAssumption DEF DriverSaves, PassengerOf
<1>15. DriverWay(d)'
  <2>1. ~driver'[d].is_available  BY <1>6
  <2>2. ~driver'[d].passenger_picked_up => NoneOf(mailbox'[d], AboardMsg)
    BY <1>1, <1>3, <1>8 DEF DriverInv, DriverWay
  <2> QED  BY <1>9, <2>1, <2>2 DEF DriverWay, WayMsg, AboardMsg, OfType
<1>16. DriverSound(d)'
  <2>1. Sound(driver[d]) /\ (driver_file[d] # None => Sound(driver_file[d]))
    BY <1>3 DEF DriverInv, DriverSound
  <2>2. Sound(driver[d])'  BY <1>6, <1>11, <2>1 DEF Sound
  <2>3. (driver_file[d] # None => Sound(driver_file[d]))'  BY <1>11, <2>1 DEF Sound
  <2> QED  BY <2>2, <2>3 DEF DriverSound
<1>17. DriverTalks(d)'
  BY <1>3, <1>10, <1>11 DEF DriverInv, DriverTalks, PassengerOf
<1>18. DriverInv(d)'
  BY <1>12, <1>13, <1>14, <1>15, <1>16, <1>17 DEF DriverInv
<1>19. DriverKnows(d)'
  BY <1>8, <1>10, DriverStaysKnown
<1>20. \A p \in Passengers : Exclusive(p)'
  <2> SUFFICES ASSUME NEW p \in Passengers  PROVE Exclusive(p)'
    OBVIOUS
  <2>1. Serves(d, p)' => Serves(d, p)  BY <1>10 DEF Serves, PassengerOf
  <2> QED  BY <1>8, <2>1, SearchesUntouched
<1> QED  BY <1>18, <1>19, <1>20, DriverPreserves

LEMMA WayMessages ==
    ASSUME NEW w \in {"StartRide", "PickUpPassenger", "RideToDestination", "EndRide"}
    PROVE  /\ Plain(w) \in Msg /\ Plain(w) \in WayMsg /\ <<Plain(w)>> \in Seq(Msg)
           /\ Plain(w) \in AboardMsg <=> w \in {"RideToDestination", "EndRide"}
<1>1. Plain(w) \in Msg  BY PlainMsg DEF PlainType
<1>2. Plain(w) \in WayMsg  BY <1>1 DEF WayMsg, OfType, Plain
<1>3. Plain(w) \in AboardMsg <=> w \in {"RideToDestination", "EndRide"}
  BY <1>1 DEF AboardMsg, OfType, Plain
<1>4. <<Plain(w)>> \in Seq(Msg)  BY <1>1
<1> QED  BY <1>1, <1>2, <1>3, <1>4

\* A step of the way without a message to anybody else.
LEMMA QuietWayStep ==
    ASSUME IInv, NEW d \in Drivers,
           NEW t \in {"StartRide", "PickUpPassenger", "RideToDestination"}, Handles(d, t),
           NEW w \in {"PickUpPassenger", "RideToDestination", "EndRide"}, Continue(d, <<Plain(w)>>),
           w # "PickUpPassenger" => driver[d].passenger_picked_up,
           driver' = driver \/ \E q \in Place : driver' = [driver EXCEPT ![d].position = q],
           driver_file' = driver_file \/ driver_file' = [driver_file EXCEPT ![d] = driver[d]],
           UNCHANGED <<up, starts, serverVars, gatewayVars, current_passenger_connection, saving,
                       carried, passengerVars, counts>>
    PROVE  IInv'
<1>1. /\ TypeOK /\ d \in Actors /\ mailbox[d] # <<>>
      /\ driver \in [Drivers -> DriverState]
  BY ActorsApart DEF IInv, TypeOK, Handles
<1>2. Plain(w) \in WayMsg /\ <<Plain(w)>> \in Seq(Msg)
      /\ (Plain(w) \in AboardMsg => w # "PickUpPassenger")
  BY WayMessages
<1>3. /\ driver' \in [Drivers -> DriverState]
      /\ \A e \in Drivers \ {d} : driver'[e] = driver[e]
      /\ driver'[d].is_available = driver[d].is_available
      /\ driver'[d].id_current_passenger = driver[d].id_current_passenger
      /\ driver'[d].passenger_picked_up = driver[d].passenger_picked_up
  <2>1. CASE driver' = driver  BY <1>1, <2>1
  <2>2. ASSUME NEW q \in Place, driver' = [driver EXCEPT ![d].position = q]
        PROVE  <1>3
    <3> DEFINE s == [driver[d] EXCEPT !.position = q]
    <3>1. /\ s \in DriverState /\ s.is_available = driver[d].is_available
          /\ s.id_current_passenger = driver[d].id_current_passenger
          /\ s.passenger_picked_up = driver[d].passenger_picked_up
      BY <1>1 DEF DriverState
    <3>2. driver' = [driver EXCEPT ![d] = s]  BY <2>2
    <3> HIDE DEF s
    <3> QED  BY <1>1, <3>1, <3>2
  <2> QED  BY <2>1, <2>2
<1>4. /\ driver_file' \in [Drivers -> DriverState \cup {None}]
      /\ \A e \in Drivers \ {d} : driver_file'[e] = driver_file[e]
      /\ driver_file'[d] = driver_file[d] \/ driver_file'[d] = driver[d]
  <2>1. driver_file \in [Drivers -> DriverState \cup {None}]  BY <1>1 DEF TypeOK
  <2> QED  BY <1>1, <2>1
<1>5. OthersAlone(d)
  BY <1>3, <1>4 DEF OthersAlone, gatewayVars, serverVars
<1>6. /\ DriverFrame(d, None, Plain("Login"))
      /\ mailbox' \in [Actors -> Seq(Msg)] /\ mailbox'[d] = Tail(mailbox[d]) \o <<Plain(w)>>
  BY <1>1, <1>2, <1>5, QuietDriver
<1>7. TypeOK'
  BY <1>1, <1>3, <1>4, <1>6 DEF TypeOK, serverVars, gatewayVars, passengerVars
<1>8. UNCHANGED <<up, saving, reconnecting, current_passenger_connection>>  BY DEF serverVars
<1>9. /\ driver[d].passenger_picked_up => driver'[d].passenger_picked_up
      /\ driver'[d].passenger_picked_up =>
             driver[d].passenger_picked_up \/ driver[d].id_current_passenger \in carried'
      /\ Plain(w) \in AboardMsg => driver'[d].passenger_picked_up
  BY <1>2, <1>3
<1> QED  BY <1>2, <1>3, <1>4, <1>6, <1>7, <1>8, <1>9, WayStep

LEMMA StartRideStep ==
    ASSUME IInv, NEW d \in Drivers, StartRide(d)
    PROVE  IInv'
<1>1. Handles(d, "StartRide") /\ Continue(d, <<Plain("PickUpPassenger")>>)
  BY DEF StartRide
<1> QED  BY <1>1, QuietWayStep DEF StartRide, driverVars

LEMMA ApproachPassengerStep ==
    ASSUME IInv, NEW d \in Drivers, ApproachPassenger(d)
    PROVE  IInv'
<1>1. /\ Handles(d, "PickUpPassenger") /\ Continue(d, <<Plain("PickUpPassenger")>>)
      /\ \E q \in Place : driver' = [driver EXCEPT ![d].position = q]
  BY DEF ApproachPassenger, Step
<1> QED  BY <1>1, QuietWayStep DEF ApproachPassenger

\* A driver on its way to the destination has its passenger with it.
LEMMA AboardIsPickedUp ==
    ASSUME IInv, NEW d \in Drivers, NEW t \in {"RideToDestination", "EndRide"}, Handles(d, t)
    PROVE  /\ driver[d].passenger_picked_up /\ ~driver[d].is_available
           /\ PassengerOf(driver[d]) = driver[d].id_current_passenger
           /\ driver[d].id_current_passenger \in Passengers
           /\ driver[d].id_current_passenger \in carried
<1>1. TypeOK /\ d \in Actors /\ DriverInv(d) /\ driver[d] \in DriverState /\ driver[d] # None
  BY DriverTyped
<1>2. /\ mailbox[d] \in Seq(Msg) /\ mailbox[d] # <<>>
      /\ Head(mailbox[d]) \in Msg /\ Head(mailbox[d]).type = t
  BY <1>1, HeadMsg
<1>3. Head(mailbox[d]) \in AboardMsg /\ Head(mailbox[d]) \in WayMsg
  BY <1>2 DEF AboardMsg, WayMsg, OfType
<1>4. ~NoneOf(mailbox[d], AboardMsg) /\ ~NoneOf(mailbox[d], WayMsg)  BY <1>2, <1>3, HeadFacts
<1>5. driver[d].passenger_picked_up /\ ~driver[d].is_available
  BY <1>1, <1>4 DEF DriverInv, DriverWay
<1>6. Sound(driver[d])  BY <1>1 DEF DriverInv, DriverSound
<1> QED  BY <1>1, <1>5, <1>6 DEF Sound, PassengerOf, DriverState

LEMMA RideOnStep ==
    ASSUME IInv, NEW d \in Drivers, RideOn(d) \/ ReachDestination(d)
    PROVE  IInv'
<1> SUFFICES ASSUME NEW places, NEW w \in {"RideToDestination", "EndRide"}, RideStep(d, places, w)
             PROVE  IInv'
  BY DEF RideOn, ReachDestination
<1>1. /\ Handles(d, "RideToDestination") /\ Continue(d, <<Plain(w)>>)
      /\ \E q \in Place : driver' = [driver EXCEPT ![d].position = q]
      /\ driver_file' = [driver_file EXCEPT ![d] = driver[d]]
  BY DEF RideStep, Step
<1>2. driver[d].passenger_picked_up  BY <1>1, AboardIsPickedUp
<1> QED  BY <1>1, <1>2, QuietWayStep DEF RideStep

\* A driver on its way is busy.
LEMMA BusyOnWay ==
    ASSUME IInv, NEW d \in Drivers,
           NEW t \in {"StartRide", "PickUpPassenger", "RideToDestination", "EndRide"}, Handles(d, t)
    PROVE  /\ ~driver[d].is_available
           /\ PassengerOf(driver[d]) = driver[d].id_current_passenger
           /\ driver[d].id_current_passenger \in Passengers
<1>1. TypeOK /\ d \in Actors /\ DriverInv(d) /\ driver[d] \in DriverState /\ driver[d] # None
  BY DriverTyped
<1>2. /\ mailbox[d] \in Seq(Msg) /\ mailbox[d] # <<>>
      /\ Head(mailbox[d]) \in Msg /\ Head(mailbox[d]).type = t
  BY <1>1, HeadMsg
<1>3. Head(mailbox[d]) \in WayMsg  BY <1>2 DEF WayMsg, OfType
<1>4. ~NoneOf(mailbox[d], WayMsg)  BY <1>2, <1>3, HeadFacts
<1>5. ~driver[d].is_available  BY <1>1, <1>4 DEF DriverInv, DriverWay
<1>6. Sound(driver[d])  BY <1>1 DEF DriverInv, DriverSound
<1> QED  BY <1>1, <1>5, <1>6 DEF Sound, PassengerOf, DriverState

LEMMA PickUpPassengerStep ==
    ASSUME IInv, NEW d \in Drivers, PickUpPassenger(d)
    PROVE  IInv'
<1> DEFINE t   == "PickUpPassenger"
           s   == [driver[d] EXCEPT !.position = driver[d].passenger_position,
                                    !.passenger_picked_up = TRUE]
           c   == current_passenger_connection[d]
           own == <<Plain("RideToDestination")>>
           m   == Plain("DriverArrived")
<1>1. /\ TypeOK /\ d \in Actors /\ Handles(d, t) /\ mailbox[d] # <<>>
      /\ driver \in [Drivers -> DriverState] /\ DriverInv(d)
      /\ UNCHANGED <<up, starts, serverVars, gatewayVars, driver_file,
                     current_passenger_connection, saving, passengerVars, counts>>
  BY ActorsApart DEF IInv, TypeOK, Handles, PickUpPassenger
<1>2. /\ PassengerOf(driver[d]) = driver[d].id_current_passenger
      /\ driver[d].id_current_passenger \in Passengers
  BY <1>1, BusyOnWay
<1>3. /\ driver' = [driver EXCEPT ![d] = s]
      /\ carried' = carried \cup {driver[d].id_current_passenger}
      /\ Mail(d, own, c, <<m>>)
      /\ driver[d].passenger_position \in Place
  BY NoneAssumption DEF PickUpPassenger, Step
<1>4. /\ s \in DriverState /\ s.is_available = driver[d].is_available
      /\ s.id_current_passenger = driver[d].id_current_passenger
      /\ s.passenger_picked_up
  BY <1>1, <1>3 DEF DriverState
<1>5. own \in Seq(Msg) /\ Plain("RideToDestination") \in WayMsg  BY WayMessages
<1>6. m \in PassengerInbox /\ m.type # "ReconnectDriver" /\ m \notin SearchMsg
  <2>1. m \in Msg /\ m.type = "DriverArrived"  BY PlainMsg DEF PlainType, Plain
  <2> HIDE DEF m
  <2> QED  BY <2>1 DEF PassengerInbox, SearchMsg, OfType
<1>7. c \in Process(Passengers) \cup {None}  BY <1>1 DEF TypeOK
<1>8. c # None => c.actor \in carried'
  BY <1>1, <1>2, <1>3 DEF DriverInv, DriverTalks
<1> HIDE DEF s, c, own, m, t
<1>9. /\ driver' \in [Drivers -> DriverState] /\ driver'[d] = s
      /\ \A e \in Drivers \ {d} : driver'[e] = driver[e]
  BY <1>1, <1>3, <1>4
<1>10. OthersAlone(d)
  <2>1. \A p \in Passengers : p \in carried' => p \in carried \/ Serves(d, p)
    BY <1>2, <1>3 DEF Serves
  <2>2. carried \subseteq carried'  BY <1>3
  <2> QED  BY <1>1, <1>9, <2>1, <2>2 DEF OthersAlone, gatewayVars, serverVars
<1>11. /\ DriverFrame(d, c, m)
       /\ mailbox' \in [Actors -> Seq(Msg)] /\ mailbox'[d] = Tail(mailbox[d]) \o own
  BY <1>1, <1>3, <1>5, <1>6, <1>7, <1>8, <1>10, SendingDriver
<1>12. TypeOK'
  <2>1. carried' \subseteq Passengers  BY <1>1, <1>2, <1>3 DEF TypeOK
  <2> QED  BY <1>1, <1>9, <1>11, <2>1 DEF TypeOK, serverVars, gatewayVars, passengerVars
<1>13. UNCHANGED <<up, saving, reconnecting, current_passenger_connection>>
  BY <1>1 DEF serverVars
<1>14. /\ m \notin SocketMsg(d) /\ m \notin SearchMsg  BY <1>6 DEF SocketMsg, OfType
<1>15. driver'[d].is_available = driver[d].is_available
       /\ driver'[d].id_current_passenger = driver[d].id_current_passenger
       /\ driver'[d].passenger_picked_up
       /\ driver[d].id_current_passenger \in carried'
  BY <1>3, <1>4, <1>9
<1>16. mailbox'[d] = Tail(mailbox[d]) \o <<Plain("RideToDestination")>>
       /\ Handles(d, "PickUpPassenger")
  BY <1>1, <1>11 DEF own, t
<1>17. driver_file'[d] = driver_file[d]  BY <1>1
<1> QED  BY <1>5, <1>11, <1>12, <1>13, <1>14, <1>15, <1>16, <1>17, WayStep

\* The same of every passenger, when no search moves.
LEMMA NeutralStep ==
    ASSUME IInv, TypeOK', NEW d \in Drivers, NEW c, NEW m, DriverFrame(d, c, m),
           c # None => m \notin SocketMsg(d) /\ m \notin SearchMsg,
           NEW t, t # "Recovery", Handles(d, t),
           mailbox'[d] = Tail(mailbox[d]) \o <<>>,
           UNCHANGED <<up, saving, reconnecting, carried>>,
           driver'[d].is_available = driver[d].is_available,
           driver'[d].id_current_passenger = driver[d].id_current_passenger,
           driver'[d].passenger_picked_up = driver[d].passenger_picked_up,
           driver_file'[d] = driver_file[d] \/ driver_file'[d] = driver[d],
           LET k == current_passenger_connection'[d] IN
              \/ k = current_passenger_connection[d]
              \/ k.actor \in carried \/ k.actor = PassengerOf(driver[d])
    PROVE  IInv'
<1> DEFINE own == <<>>
<1>1. own \in Seq(Msg) /\ NoneOf(own, RecoveryMsg) /\ NoneOf(own, DriverInbox)
  BY NothingSent
<1>2. mailbox'[d] = Tail(mailbox[d]) \o own  OBVIOUS
<1> HIDE DEF own
<1>3. \A p \in Passengers :
         /\ AtMostOne(mailbox[d], RideRequest(p)) => AtMostOne(mailbox'[d], RideRequest(p))
         /\ NoneOf(mailbox[d], RideRequest(p)) => NoneOf(mailbox'[d], RideRequest(p))
  BY <1>1, <1>2, DriverMailbox
<1>4. driver[d] # None /\ driver'[d] # None
  <2>1. driver'[d] \in DriverState  BY DEF TypeOK
  <2> QED  BY <2>1, DriverTyped, NoneAssumption
<1>5. PassengerOf(driver'[d]) = PassengerOf(driver[d])  BY <1>4 DEF PassengerOf
<1>6. DriverInv(d)' /\ DriverKnows(d)'  BY <1>4, NeutralDriver
<1>7. \A p \in Passengers : Serves(d, p)' => Serves(d, p)
  BY <1>5 DEF Serves, PassengerOf
<1>8. \A p \in Passengers : Exclusive(p)'  BY <1>3, <1>7, SearchesUntouched
<1> QED  BY <1>6, <1>8, DriverPreserves

LEMMA RegisterStep ==
    ASSUME IInv, NEW d \in Drivers, Register(d)
    PROVE  IInv'
<1> DEFINE t == "Register"
<1>1. /\ TypeOK /\ d \in Actors /\ Handles(d, t) /\ mailbox[d] # <<>> /\ t # "Recovery"
      /\ Continue(d, <<>>) /\ <<>> \in Seq(Msg)
  BY ActorsApart DEF IInv, Handles, Register
<1> HIDE DEF t
<1>2. /\ driver_file' \in [Drivers -> DriverState \cup {None}]
      /\ \A e \in Drivers \ {d} : driver_file'[e] = driver_file[e]
      /\ driver_file'[d] = driver[d]
      /\ registry' \in [Drivers -> {"unknown", "available", "busy"}]
  BY <1>1 DEF TypeOK, Register
<1>3. UNCHANGED <<up, starts, passengers_address, reconnecting, gatewayVars, driver,
                  current_passenger_connection, saving, carried, passengerVars, counts>>
  BY DEF Register
<1>4. OthersAlone(d)  BY <1>2, <1>3 DEF OthersAlone, gatewayVars
<1>5. /\ DriverFrame(d, None, Plain("Login"))
      /\ mailbox' \in [Actors -> Seq(Msg)] /\ mailbox'[d] = Tail(mailbox[d]) \o <<>>
  BY <1>1, <1>4, QuietDriver
<1>6. TypeOK'  BY <1>1, <1>2, <1>3, <1>5 DEF TypeOK, gatewayVars, passengerVars
<1> QED  BY <1>1, <1>2, <1>3, <1>5, <1>6, NeutralStep

LEMMA ResponseMsg ==
    ASSUME NEW b \in BOOLEAN, NEW q \in Place, NEW e \in BOOLEAN,
           NEW m, m = [type |-> "RecoverResponse", picked_up |-> b, position |-> q, end_ride |-> e]
    PROVE  m \in Msg /\ m.type = "RecoverResponse" /\ m.picked_up = b /\ m.end_ride = e
BY DEF Msg, PassengerMsg

\* What a driver answers: only somebody it has yet to pick up is left waiting.
LEMMA AnswerFacts ==
    ASSUME IInv, NEW d \in Drivers, NEW p \in Passengers
    PROVE  LET s == driver[d]
               m == Answer(s, p)
           IN  /\ m \in Msg /\ m.type = "RecoverResponse"
               /\ m.picked_up => p \in carried
               /\ \/ m.picked_up \/ m.end_ride
                  \/ /\ s.id_current_passenger = p /\ ~s.passenger_picked_up
                     /\ s.position # "destination"
<1> DEFINE s == driver[d]
           m == Answer(s, p)
<1>1. s \in DriverState /\ Sound(s)
  BY DriverTyped DEF DriverInv, DriverSound
<1>2. CASE s.id_current_passenger = p
  <2> DEFINE b == s.passenger_picked_up
             q == s.position
             e == s.position = "destination"
  <2>1. m = [type |-> "RecoverResponse", picked_up |-> b, position |-> q, end_ride |-> e]
    BY <1>2 DEF Answer
  <2>2. q \in Place /\ b \in BOOLEAN /\ e \in BOOLEAN  BY <1>1 DEF DriverState
  <2>3. b => p \in carried  BY <1>1, <1>2, ActorsApart DEF Sound
  <2> HIDE DEF m, b, q, e
  <2>4. m \in Msg /\ m.type = "RecoverResponse" /\ m.picked_up = b /\ m.end_ride = e
    BY <2>1, <2>2, ResponseMsg
  <2> QED  BY <1>2, <2>3, <2>4 DEF b, e, m
<1>3. CASE s.id_current_passenger # p
  <2> DEFINE no  == FALSE
             yes == TRUE
  <2>1. m = [type |-> "RecoverResponse", picked_up |-> no, position |-> "road", end_ride |-> yes]
    BY <1>3 DEF Answer
  <2>2. "road" \in Place /\ no \in BOOLEAN /\ yes \in BOOLEAN  BY DEF Place
  <2> HIDE DEF m, no, yes
  <2>3. m \in Msg /\ m.type = "RecoverResponse" /\ m.picked_up = no /\ m.end_ride = yes
    BY <2>1, <2>2, ResponseMsg
  <2> QED  BY <2>3 DEF m, no, yes
<1> QED  BY <1>2, <1>3

LEMMA PassengerRecoverStep ==
    ASSUME IInv, NEW d \in Drivers, PassengerRecover(d)
    PROVE  IInv'
<1> DEFINE t == "PassengerRecover"
           c == Head(mailbox[d]).from
           m == Answer(driver[d], c.actor)
           k == ConnectionWith(driver[d], current_passenger_connection[d], c)
<1>1. /\ TypeOK /\ d \in Actors /\ Handles(d, t) /\ DriverInv(d)
      /\ driver[d] \in DriverState /\ driver[d] # None
      /\ Mail(d, <<>>, c, <<m>>) /\ <<>> \in Seq(Msg)
      /\ current_passenger_connection' = [current_passenger_connection EXCEPT ![d] = k]
      /\ UNCHANGED <<up, starts, serverVars, gatewayVars, driver, driver_file, saving, carried,
                     passengerVars, counts>>
  BY DriverTyped DEF PassengerRecover
<1>2. /\ mailbox[d] # <<>> /\ Head(mailbox[d]) \in Msg /\ Head(mailbox[d]).type = t
      /\ t # "Recovery"
  BY <1>1, HeadMsg
<1>3. c \in Process(Passengers) /\ c.actor \in Passengers  BY <1>2, MsgOfType
<1>4. Sound(driver[d])  BY <1>1 DEF DriverInv, DriverSound
<1>5. /\ m \in PassengerInbox /\ m.type = "RecoverResponse"
      /\ m \in TravelMsg => c.actor \in carried
  <2>1. m \in Msg /\ m.type = "RecoverResponse" /\ (m.picked_up => c.actor \in carried)
    BY <1>3, AnswerFacts
  <2> HIDE DEF m
  <2> QED  BY <2>1 DEF PassengerInbox, TravelMsg, OfType
<1>6. /\ k \in Process(Passengers) \cup {None}
      /\ \/ k = current_passenger_connection[d]
         \/ k.actor \in carried \/ k.actor = PassengerOf(driver[d])
  <2>1. CASE driver[d].id_current_passenger = c.actor
    <3>1. k = c  BY <2>1 DEF ConnectionWith
    <3>2. driver[d].is_available => c.actor \in carried
      BY <1>3, <1>4, <2>1, ActorsApart DEF Sound
    <3>3. ~driver[d].is_available => PassengerOf(driver[d]) = c.actor
      BY <1>1, <2>1 DEF PassengerOf
    <3> HIDE DEF k
    <3> QED  BY <1>3, <3>1, <3>2, <3>3
  <2>2. CASE driver[d].id_current_passenger # c.actor
    BY <1>1, <2>2 DEF ConnectionWith, TypeOK
  <2> QED  BY <2>1, <2>2
<1> HIDE DEF k, m, c, t
<1>7. m \notin SearchMsg /\ m \notin SocketMsg(d) /\ m.type # "ReconnectDriver"
  BY <1>5 DEF SearchMsg, SocketMsg, OfType
<1>8. /\ current_passenger_connection' \in [Drivers -> Process(Passengers) \cup {None}]
      /\ current_passenger_connection'[d] = k
      /\ \A e \in Drivers \ {d} :
            current_passenger_connection'[e] = current_passenger_connection[e]
  BY <1>1, <1>6 DEF TypeOK
<1>9. OthersAlone(d)  BY <1>1, <1>8 DEF OthersAlone, gatewayVars, serverVars
<1>10. /\ DriverFrame(d, c, m)
       /\ mailbox' \in [Actors -> Seq(Msg)] /\ mailbox'[d] = Tail(mailbox[d]) \o <<>>
  BY <1>1, <1>2, <1>3, <1>5, <1>7, <1>9, SendingDriver
<1>11. TypeOK'
  BY <1>1, <1>8, <1>10 DEF TypeOK, gatewayVars, serverVars, passengerVars
<1>12. UNCHANGED <<up, saving, reconnecting, carried>> /\ driver' = driver
       /\ driver_file' = driver_file
  BY <1>1 DEF serverVars
<1> QED  BY <1>1, <1>2, <1>6, <1>7, <1>8, <1>10, <1>11, <1>12, NeutralStep

LEMMA ReconnectPassengerStep ==
    ASSUME IInv, NEW d \in Drivers, ReconnectPassenger(d)
    PROVE  IInv'
<1> DEFINE t == "ReconnectPassenger"
           c == Head(mailbox[d]).from
<1>1. /\ TypeOK /\ d \in Actors /\ Handles(d, t) /\ DriverKnows(d)
      /\ driver \in [Drivers -> DriverState]
      /\ Continue(d, <<>>) /\ <<>> \in Seq(Msg)
      /\ current_passenger_connection' = [current_passenger_connection EXCEPT ![d] = c]
      /\ UNCHANGED <<up, starts, serverVars, gatewayVars, driver_file, saving, carried,
                     passengerVars, counts>>
  BY ActorsApart DEF IInv, TypeOK, ReconnectPassenger
<1>2. /\ mailbox[d] \in Seq(Msg) /\ mailbox[d] # <<>> /\ Head(mailbox[d]) \in Msg
      /\ Head(mailbox[d]).type = t /\ t # "Recovery"
  BY <1>1, HeadMsg
<1>3. /\ c \in Process(Passengers) /\ c.actor \in Passengers /\ Head(mailbox[d]).position \in Place
  BY <1>2, MsgOfType
<1>4. PICK q \in Place : driver' = [driver EXCEPT ![d].position = q, ![d].passenger_position = q]
  <2>1. PlaceFor(d, Head(mailbox[d])) \subseteq Place  BY <1>3 DEF PlaceFor
  <2> QED  BY <2>1 DEF ReconnectPassenger
<1>5. c.actor \in carried \/ c.actor = PassengerOf(driver[d])
  <2>1. Head(mailbox[d]) \in Reconnect(c.actor)  BY <1>2 DEF Reconnect, OfType
  <2>2. ~NoneOf(mailbox[d], Reconnect(c.actor))  BY <1>2, <2>1, HeadFacts
  <2>3. PassengerOf(driver[d]) = PassengerOf(driver_file[d])  BY <1>1, <1>2, DriverAwake
  <2> QED  BY <1>1, <1>3, <2>2, <2>3 DEF DriverKnows
<1> DEFINE s == [driver[d] EXCEPT !.position = q, !.passenger_position = q]
<1>6. /\ s \in DriverState /\ s.is_available = driver[d].is_available
      /\ s.id_current_passenger = driver[d].id_current_passenger
      /\ s.passenger_picked_up = driver[d].passenger_picked_up
  BY <1>1, <1>4 DEF DriverState
<1>7. driver' = [driver EXCEPT ![d] = s]  BY <1>4
<1> HIDE DEF t, c, s
<1>8. /\ driver' \in [Drivers -> DriverState] /\ driver'[d] = s
      /\ \A e \in Drivers \ {d} : driver'[e] = driver[e]
  BY <1>1, <1>6, <1>7
<1>9. /\ current_passenger_connection' \in [Drivers -> Process(Passengers) \cup {None}]
      /\ current_passenger_connection'[d] = c
      /\ \A e \in Drivers \ {d} :
            current_passenger_connection'[e] = current_passenger_connection[e]
  BY <1>1, <1>3 DEF TypeOK
<1>10. OthersAlone(d)  BY <1>1, <1>8, <1>9 DEF OthersAlone, gatewayVars, serverVars
<1>11. /\ DriverFrame(d, None, Plain("Login"))
       /\ mailbox' \in [Actors -> Seq(Msg)] /\ mailbox'[d] = Tail(mailbox[d]) \o <<>>
  BY <1>1, <1>2, <1>10, QuietDriver
<1>12. TypeOK'
  BY <1>1, <1>8, <1>9, <1>11 DEF TypeOK, gatewayVars, serverVars, passengerVars
<1>13. UNCHANGED <<up, saving, reconnecting, carried>> /\ driver_file' = driver_file
  BY <1>1 DEF serverVars
<1> QED  BY <1>1, <1>2, <1>5, <1>6, <1>8, <1>9, <1>11, <1>12, <1>13, NeutralStep

\* The request a driver handles is the search of its passenger, which is nowhere
\* else and leaves the driver.
LEMMA RequestTaken ==
    ASSUME IInv, NEW d \in Drivers, Handles(d, "RequestRide"),
           mailbox'[d] = Tail(mailbox[d]) \o <<>>
    PROVE  LET c == Head(mailbox[d]).from
               p == c.actor
           IN  /\ c \in Process(Passengers) /\ p \in Passengers /\ Head(mailbox[d]).position \in Place
               /\ p \notin carried /\ Authorized(p) /\ ~Seeks(p)
               /\ \A e \in Drivers : ~Serves(e, p) /\ (e # d => ~Asks(p, e))
               /\ NoneOf(mailbox'[d], RideRequest(p))
<1> DEFINE c   == Head(mailbox[d]).from
           p   == c.actor
           own == <<>>
<1>1. TypeOK /\ d \in Actors  BY ActorsApart DEF IInv
<1>2. /\ mailbox[d] \in Seq(Msg) /\ mailbox[d] # <<>> /\ Head(mailbox[d]) \in Msg
      /\ Head(mailbox[d]).type = "RequestRide"
  BY <1>1, HeadMsg
<1>3. c \in Process(Passengers) /\ p \in Passengers /\ Head(mailbox[d]).position \in Place
  BY <1>2, MsgOfType
<1>4. Head(mailbox[d]) \in RideRequest(p)  BY <1>2 DEF RideRequest, OfType
<1>5. Exclusive(p)  BY <1>3 DEF IInv
<1> HIDE DEF p
<1>6. Asks(p, d)  BY <1>2, <1>4, HeadFacts DEF Asks
<1>7. /\ p \notin carried /\ Authorized(p) /\ ~Seeks(p)
      /\ \A e \in Drivers : ~Serves(e, p) /\ (e # d => ~Asks(p, e))
  BY <1>5, <1>6 DEF Exclusive
<1>8. NoneOf(mailbox'[d], RideRequest(p))
  <2>1. AtMostOne(mailbox[d], RideRequest(p))  BY <1>5 DEF Exclusive
  <2>2. NoneOf(Tail(mailbox[d]), RideRequest(p)) /\ Tail(mailbox[d]) \in Seq(Msg)
    BY <1>2, <1>4, <2>1, HeadFacts, TailExtends
  <2>3. own \in Seq(Msg) /\ NoneOf(own, RideRequest(p))  BY NothingSent
  <2>4. mailbox'[d] = Tail(mailbox[d]) \o own  OBVIOUS
  <2> HIDE DEF own
  <2> QED  BY <2>2, <2>3, <2>4, AppendFacts
<1> QED  BY <1>3, <1>7, <1>8 DEF p

LEMMA RefuseRideStep ==
    ASSUME IInv, NEW d \in Drivers, RefuseRide(d)
    PROVE  IInv'
<1> DEFINE t == "RequestRide"
           c == Head(mailbox[d]).from
           p == c.actor
           m == Plain("KeepLooking")
<1>1. /\ TypeOK /\ d \in Actors /\ Handles(d, t) /\ mailbox[d] # <<>> /\ t # "Recovery"
      /\ driver \in [Drivers -> DriverState] /\ driver[d] # None
      /\ Mail(d, <<>>, c, <<m>>) /\ <<>> \in Seq(Msg)
      /\ UNCHANGED <<up, starts, serverVars, gatewayVars, driverVars, passengerVars, counts>>
  BY DriverTyped DEF Handles, RefuseRide
<1>2. m \in Msg /\ m.type = "KeepLooking"  BY PlainMsg DEF PlainType, Plain
<1> HIDE DEF m
<1>3. m \in PassengerInbox /\ m.type # "ReconnectDriver" /\ m \in SearchMsg /\ m \notin TravelMsg
      /\ m \notin SocketMsg(d)
  BY <1>2 DEF PassengerInbox, SearchMsg, TravelMsg, SocketMsg, OfType
<1>4. mailbox'[d] = Tail(mailbox[d]) \o <<>>
  <2>1. c \in Process(Passengers)
    <3>1. Head(mailbox[d]) \in Msg /\ Head(mailbox[d]).type = t  BY <1>1, HeadMsg
    <3> QED  BY <3>1, MsgOfType
  <2>2. c.actor # d  BY <2>1, ActorsApart DEF Process
  <2> HIDE DEF c
  <2> QED  BY <1>1, <1>2, <2>2, MailFacts
<1>5. /\ c \in Process(Passengers) /\ p \in Passengers
      /\ p \notin carried /\ Authorized(p) /\ ~Seeks(p)
      /\ \A e \in Drivers : ~Serves(e, p) /\ (e # d => ~Asks(p, e))
      /\ NoneOf(mailbox'[d], RideRequest(p))
  BY <1>1, <1>4, RequestTaken
<1>6. OthersAlone(d)  BY <1>1 DEF OthersAlone, driverVars, gatewayVars, serverVars
<1> HIDE DEF c, t
<1>7. DriverFrame(d, c, m) /\ mailbox' \in [Actors -> Seq(Msg)]
  BY <1>1, <1>3, <1>5, <1>6, SendingDriver
<1>8. TypeOK'
  BY <1>1, <1>7 DEF TypeOK, gatewayVars, serverVars, passengerVars, driverVars
<1>9. /\ UNCHANGED <<up, saving, reconnecting, carried, driver, driver_file,
                     current_passenger_connection, authorizing, passenger_file>>
  BY <1>1 DEF serverVars, driverVars, gatewayVars, passengerVars
<1>10. DriverInv(d)' /\ DriverKnows(d)'
  BY <1>1, <1>3, <1>4, <1>7, <1>9, NeutralDriver
<1>11. ASSUME NEW q \in Passengers
       PROVE  Exclusive(q)'
  <2>1. Serves(d, q)' => Serves(d, q)  BY <1>9 DEF Serves, PassengerOf
  <2>2. CASE q # p
    <3> DEFINE own == <<>>
    <3>1. own \in Seq(Msg) /\ NoneOf(own, RecoveryMsg) /\ NoneOf(own, DriverInbox)
      BY NothingSent
    <3>2. mailbox'[d] = Tail(mailbox[d]) \o own  BY <1>4
    <3> HIDE DEF own
    <3>3. /\ AtMostOne(mailbox[d], RideRequest(q)) => AtMostOne(mailbox'[d], RideRequest(q))
          /\ NoneOf(mailbox[d], RideRequest(q)) => NoneOf(mailbox'[d], RideRequest(q))
      BY <1>1, <3>1, <3>2, DriverMailbox
    <3> QED  BY <1>7, <2>1, <2>2, <3>3, SearchesUntouched
  <2>3. CASE q = p
    <3>0. /\ q \notin carried /\ Authorized(q) /\ ~Seeks(q) /\ NoneOf(mailbox'[d], RideRequest(q))
          /\ \A e \in Drivers : ~Serves(e, q) /\ (e # d => ~Asks(q, e))
      BY <1>5, <2>3
    <3>1. AtMostOne(mailbox'[q], SearchMsg)
      <4>1. AtMostOne(mailbox[q], SearchMsg) /\ NoneOf(mailbox[q], SearchMsg)
        BY <3>0 DEF IInv, Exclusive, Seeks
      <4>2. \/ mailbox'[q] = mailbox[q]
            \/ mailbox'[q] = mailbox[q] \o <<m>> /\ <<m>> \in Seq(Msg) /\ mailbox[q] \in Seq(Msg)
        BY <3>0, <1>7, DeliveredTo
      <4>3. AtMostOne(<<m>>, SearchMsg)  BY <1>2, ShortMailbox
      <4> QED  BY <4>1, <4>2, <4>3, AppendFacts
    <3>2. q \notin authorizing'  BY <3>0, <1>9 DEF Seeks
    <3>3. \A e \in Drivers : NoneOf(mailbox'[e], RideRequest(q))
      <4>1. \A e \in Drivers \ {d} : mailbox'[e] = mailbox[e]  BY <1>7 DEF DriverFrame
      <4> QED  BY <3>0, <4>1 DEF Asks
    <3>4. \A e \in Drivers : ~Asks(q, e)' /\ ~Serves(e, q)' /\ AtMostOne(mailbox'[e], RideRequest(q))
      <4>1. \A e \in Drivers : ~Asks(q, e)'  BY <3>3 DEF Asks, RideRequest, OfType
      <4>2. \A e \in Drivers : ~Serves(e, q)'  BY <3>0, <1>9 DEF Serves, PassengerOf
      <4>3. \A e \in Drivers : AtMostOne(mailbox'[e], RideRequest(q))
        BY <3>3 DEF NoneOf, AtMostOne
      <4> QED  BY <4>1, <4>2, <4>3
    <3>5. Authorized(q)' /\ q \notin carried'  BY <3>0, <1>9 DEF Authorized
    <3> QED
      BY <3>1, <3>2, <3>4, <3>5 DEF Exclusive, Seeks, SearchMsg, RideRequest, OfType
  <2> QED  BY <2>2, <2>3
<1> QED  BY <1>7, <1>8, <1>10, <1>11, DriverPreserves

LEMMA AcceptRideStep ==
    ASSUME IInv, NEW d \in Drivers, AcceptRide(d)
    PROVE  IInv'
<1> DEFINE t == "RequestRide"
           c == Head(mailbox[d]).from
           p == c.actor
           m == [type |-> "RideAccepted", socket |-> d]
<1>1. /\ TypeOK /\ d \in Actors /\ Handles(d, t) /\ mailbox[d] # <<>> /\ t # "Recovery"
      /\ driver \in [Drivers -> DriverState] /\ DriverInv(d)
      /\ driver[d].is_available
      /\ Mail(d, <<>>, c, <<m>>) /\ <<>> \in Seq(Msg)
      /\ current_passenger_connection' = [current_passenger_connection EXCEPT ![d] = c]
      /\ saving' = [saving EXCEPT ![d] = "RequestRide"]
      /\ UNCHANGED <<up, starts, serverVars, gatewayVars, driver_file, carried,
                     passengerVars, counts>>
  BY DriverTyped DEF Handles, AcceptRide
<1>2. m \in Msg /\ m.type = "RideAccepted"  BY <1>1 DEF Msg, PassengerMsg
<1> HIDE DEF m
<1>3. m \in PassengerInbox /\ m.type # "ReconnectDriver" /\ m \notin SearchMsg /\ m \notin TravelMsg
      /\ m \notin SocketMsg(d)
  BY <1>2 DEF PassengerInbox, SearchMsg, TravelMsg, SocketMsg, OfType
<1>4. mailbox'[d] = Tail(mailbox[d]) \o <<>>
  <2>1. c \in Process(Passengers)
    <3>1. Head(mailbox[d]) \in Msg /\ Head(mailbox[d]).type = t  BY <1>1, HeadMsg
    <3> QED  BY <3>1, MsgOfType
  <2>2. c.actor # d  BY <2>1, ActorsApart DEF Process
  <2> HIDE DEF c
  <2> QED  BY <1>1, <1>2, <2>2, MailFacts
<1>5. /\ c \in Process(Passengers) /\ p \in Passengers /\ Head(mailbox[d]).position \in Place
      /\ p \notin carried /\ Authorized(p) /\ ~Seeks(p)
      /\ \A e \in Drivers : ~Serves(e, p) /\ (e # d => ~Asks(p, e))
      /\ NoneOf(mailbox'[d], RideRequest(p))
  BY <1>1, <1>4, RequestTaken
<1>6. PICK s \in DriverState :
         /\ driver' = [driver EXCEPT ![d] = s]
         /\ ~s.is_available /\ s.id_current_passenger = p
         /\ s.passenger_picked_up <=> driver[d].passenger_picked_up
  <2>1. PICK place \in Place :
           driver' = [driver EXCEPT ![d].is_available = FALSE,
                                    ![d].id_current_passenger = p,
                                    ![d].passenger_position = Head(mailbox[d]).position,
                                    ![d].position = place]
    BY DEF AcceptRide
  <2> DEFINE f == [driver[d] EXCEPT !.is_available = FALSE,
                                    !.id_current_passenger = p,
                                    !.passenger_position = Head(mailbox[d]).position,
                                    !.position = place]
  <2>2. /\ f \in DriverState /\ ~f.is_available /\ f.id_current_passenger = p
        /\ f.passenger_picked_up <=> driver[d].passenger_picked_up
    <3> HIDE DEF c, p
    <3> QED  BY <1>1, <1>5 DEF DriverState
  <2>3. driver' = [driver EXCEPT ![d] = f]  BY <2>1
  <2> QED  BY <2>2, <2>3
<1> HIDE DEF c, t
<1>7. /\ driver' \in [Drivers -> DriverState] /\ driver'[d] = s
      /\ \A e \in Drivers \ {d} : driver'[e] = driver[e]
      /\ saving' \in [Drivers -> {"RequestRide", "EndRide", None}] /\ saving'[d] = "RequestRide"
      /\ \A e \in Drivers \ {d} : saving'[e] = saving[e]
      /\ current_passenger_connection' \in [Drivers -> Process(Passengers) \cup {None}]
      /\ current_passenger_connection'[d] = c
      /\ \A e \in Drivers \ {d} :
            current_passenger_connection'[e] = current_passenger_connection[e]
  BY <1>1, <1>5, <1>6 DEF TypeOK
<1>8. OthersAlone(d)  BY <1>1, <1>7 DEF OthersAlone, gatewayVars, serverVars
<1>9. DriverFrame(d, c, m) /\ mailbox' \in [Actors -> Seq(Msg)]
  BY <1>1, <1>3, <1>5, <1>8, SendingDriver
<1>10. TypeOK'
  BY <1>1, <1>7, <1>9 DEF TypeOK, gatewayVars, serverVars, passengerVars
<1>11. UNCHANGED <<up, reconnecting, carried, driver_file, authorizing, passenger_file>>
  BY <1>1 DEF serverVars, gatewayVars, passengerVars
<1>12. /\ NoneOf(mailbox'[d], RecoveryMsg)
       /\ NoneOf(mailbox[d], WayMsg) => NoneOf(mailbox'[d], WayMsg)
       /\ \A q \in Passengers :
             /\ AtMostOne(mailbox[d], RideRequest(q)) => AtMostOne(mailbox'[d], RideRequest(q))
             /\ NoneOf(mailbox[d], RideRequest(q)) => NoneOf(mailbox'[d], RideRequest(q))
             /\ NoneOf(mailbox[d], Reconnect(q)) => NoneOf(mailbox'[d], Reconnect(q))
  <2> DEFINE own == <<>>
  <2>1. /\ own \in Seq(Msg) /\ NoneOf(own, RecoveryMsg) /\ NoneOf(own, DriverInbox)
        /\ NoneOf(own, WayMsg)
    BY NothingSent
  <2>2. mailbox'[d] = Tail(mailbox[d]) \o own  BY <1>4
  <2> HIDE DEF own
  <2> QED  BY <1>1, <2>1, <2>2, DriverMailbox
<1>13. /\ d \in up /\ PassengerOf(driver[d]) = PassengerOf(driver_file[d])
       /\ PassengerOf(driver_file[d]) = None
  <2>1. PassengerOf(driver[d]) = None  BY <1>1 DEF PassengerOf
  <2> QED  BY <1>1, <2>1, DriverAwake
<1>14. ~s.passenger_picked_up  BY <1>1, <1>6 DEF DriverInv, DriverSound, Sound
<1>15. PassengerOf(s) = p /\ s # None  BY <1>6, NoneAssumption DEF PassengerOf
<1>16. NoneOf(mailbox'[d], WayMsg)  BY <1>1, <1>12 DEF DriverInv, DriverWay
<1>17. DriverInv(d)'
  <2>1. DriverDown(d)'  BY <1>11, <1>13 DEF DriverDown
  <2>2. DriverRecovers(d)'
    BY <1>12 DEF DriverRecovers, FirstOnly, NoneOf, RecoveryMsg, OfType
  <2>3. DriverSaves(d)'
    <3>1. saving'[d] = "RequestRide" /\ saving'[d] # None /\ saving'[d] # "EndRide"
      BY <1>7, NoneAssumption
    <3>2. /\ ~driver'[d].is_available /\ ~driver'[d].passenger_picked_up
          /\ PassengerOf(driver_file'[d]) = None
          /\ PassengerOf(driver'[d]) \notin carried'
      BY <1>5, <1>6, <1>7, <1>11, <1>13, <1>14, <1>15
    <3> QED  BY <1>16, <3>1, <3>2 DEF DriverSaves, PassengerOf, WayMsg, OfType
  <2>4. DriverWay(d)'
    <3>1. AtMostOne(mailbox'[d], WayMsg) /\ NoneOf(mailbox'[d], AboardMsg)
      BY <1>16, TypesApart DEF NoneOf, AtMostOne, AboardMsg, WayMsg, OfType
    <3> QED  BY <1>16, <3>1 DEF DriverWay, WayMsg, AboardMsg, OfType
  <2>5. DriverSound(d)'
    <3>1. Sound(driver[d])'
      <4>1. p # None  BY <1>5, ActorsApart
      <4> QED  BY <1>6, <1>7, <1>14, <4>1 DEF Sound
    <3>2. (driver_file[d] # None => Sound(driver_file[d]))'
      BY <1>1, <1>11 DEF DriverInv, DriverSound, Sound
    <3> QED  BY <3>1, <3>2 DEF DriverSound
  <2>6. DriverTalks(d)'
    <3>1. current_passenger_connection'[d].actor = PassengerOf(driver'[d])
      BY <1>7, <1>15
    <3> QED  BY <3>1 DEF DriverTalks, PassengerOf
  <2> QED  BY <2>1, <2>2, <2>3, <2>4, <2>5, <2>6 DEF DriverInv
<1>18. DriverKnows(d)'
  <2>1. \A q \in Passengers :
           /\ <<d, q>> \in reconnecting' => <<d, q>> \in reconnecting
           /\ PassengerOf(driver_file'[d]) = PassengerOf(driver_file[d])
    BY <1>11
  <2> QED  BY <1>3, <1>9, <1>12, <2>1, DriverStaysKnown
<1>19. ASSUME NEW q \in Passengers
       PROVE  Exclusive(q)'
  <2>1. PassengerOf(driver'[d]) = p  BY <1>7, <1>15
  <2>2. CASE q # p
    <3>1. Serves(d, q)' => Serves(d, q)  BY <1>11, <2>1, <2>2 DEF Serves, PassengerOf
    <3> QED  BY <1>3, <1>9, <1>12, <3>1, SearchesUntouched
  <2>3. CASE q = p
    <3>1. /\ q \notin carried /\ Authorized(q) /\ ~Seeks(q) /\ NoneOf(mailbox'[d], RideRequest(q))
          /\ \A e \in Drivers : ~Serves(e, q) /\ (e # d => ~Asks(q, e))
      BY <1>5, <2>3
    <3>2. NoneOf(mailbox'[q], SearchMsg)
      <4>1. NoneOf(mailbox[q], SearchMsg)  BY <3>1 DEF Seeks
      <4> QED  BY <1>3, <1>9, <4>1, DeliveredTo
    <3>3. ~Seeks(q)'  BY <1>11, <3>1, <3>2 DEF Seeks, SearchMsg, OfType
    <3>4. \A e \in Drivers : NoneOf(mailbox'[e], RideRequest(q))
      <4>1. \A e \in Drivers \ {d} : mailbox'[e] = mailbox[e]  BY <1>9 DEF DriverFrame
      <4> QED  BY <3>1, <4>1 DEF Asks
    <3>5. \A e \in Drivers : ~Asks(q, e)' /\ AtMostOne(mailbox'[e], RideRequest(q))
      <4>1. \A e \in Drivers : ~Asks(q, e)'  BY <3>4 DEF Asks, RideRequest, OfType
      <4>2. \A e \in Drivers : AtMostOne(mailbox'[e], RideRequest(q))
        BY <3>4 DEF NoneOf, AtMostOne
      <4> QED  BY <4>1, <4>2
    <3>6. \A e \in Drivers : e # d => ~Serves(e, q)'
      BY <1>7, <1>11, <3>1 DEF Serves, PassengerOf
    <3>7. Authorized(q)'  BY <1>11, <3>1 DEF Authorized
    <3>8. AtMostOne(mailbox'[q], SearchMsg)  BY <3>2 DEF NoneOf, AtMostOne
    <3>9. q \in authorizing' => NoneOf(mailbox'[q], SearchMsg)  BY <3>2
    <3> QED
      BY <3>3, <3>5, <3>6, <3>7, <3>8, <3>9 DEF Exclusive, SearchMsg, RideRequest, OfType
  <2> QED  BY <2>2, <2>3
<1> QED  BY <1>9, <1>10, <1>17, <1>18, <1>19, DriverPreserves

\* A handler that waits for its file is of a driver that has recovered.
LEMMA SavingDriver ==
    ASSUME IInv, NEW d \in Drivers, saving[d] # None
    PROVE  /\ d \in up /\ NoneOf(mailbox[d], RecoveryMsg)
           /\ saving[d] \in {"RequestRide", "EndRide"}
BY DEF IInv, TypeOK, DriverInv, DriverDown, DriverRecovers

LEMMA SaveStateStep ==
    ASSUME IInv, NEW d \in Drivers, SaveState(d)
    PROVE  IInv'
<1> DEFINE m == Plain("StartRide")
<1>1. /\ TypeOK /\ d \in Actors /\ DriverInv(d) /\ saving[d] # None
      /\ driver[d] \in DriverState /\ driver[d] # None
      /\ mailbox[d] \in Seq(Msg)
      /\ saving' = [saving EXCEPT ![d] = None]
      /\ driver_file' = [driver_file EXCEPT ![d] = driver[d]]
      /\ UNCHANGED <<up, starts, passengers_address, reconnecting, gatewayVars, driver,
                     current_passenger_connection, carried, passengerVars, counts>>
  BY DriverTyped DEF SaveState
<1>2. d \in up /\ NoneOf(mailbox[d], RecoveryMsg) /\ saving[d] \in {"RequestRide", "EndRide"}
  BY <1>1, SavingDriver
<1>3. /\ driver_file' \in [Drivers -> DriverState \cup {None}] /\ driver_file'[d] = driver[d]
      /\ \A e \in Drivers \ {d} : driver_file'[e] = driver_file[e]
      /\ saving' \in [Drivers -> {"RequestRide", "EndRide", None}] /\ saving'[d] = None
      /\ \A e \in Drivers \ {d} : saving'[e] = saving[e]
  <2>1. /\ driver_file \in [Drivers -> DriverState \cup {None}]
        /\ saving \in [Drivers -> {"RequestRide", "EndRide", None}]
    BY <1>1 DEF TypeOK
  <2> QED  BY <1>1, <2>1
<1>4. /\ m \in Msg /\ m \in WayMsg /\ m \notin AboardMsg /\ <<m>> \in Seq(Msg)
      /\ m \notin RecoveryMsg /\ m \notin DriverInbox
  <2>1. m \in Msg /\ m \in WayMsg /\ m \notin AboardMsg /\ <<m>> \in Seq(Msg)
    BY WayMessages
  <2> HIDE DEF m
  <2> QED  BY <2>1 DEF WayMsg, RecoveryMsg, DriverInbox, OfType
<1> HIDE DEF m
<1>5. /\ mailbox' \in [Actors -> Seq(Msg)]
      /\ registry' \in [Drivers -> {"unknown", "available", "busy"}]
      /\ \A a \in Actors : a # d => mailbox'[a] = mailbox[a]
      /\ saving[d] = "RequestRide" => mailbox'[d] = mailbox[d] \o <<m>>
      /\ saving[d] = "EndRide" => mailbox'[d] = mailbox[d]
  <2>1. /\ mailbox \in [Actors -> Seq(Msg)]
        /\ registry \in [Drivers -> {"unknown", "available", "busy"}]
    BY <1>1 DEF TypeOK
  <2>2. Append(mailbox[d], m) = mailbox[d] \o <<m>> /\ Append(mailbox[d], m) \in Seq(Msg)
    <3>1. mailbox[d] \in Seq(Msg)  BY <1>1
    <3>2. m \in Msg  BY <1>4
    <3> QED  BY <3>1, <3>2
  <2>3. CASE /\ saving[d] = "RequestRide"
             /\ registry' = [registry EXCEPT ![d] = IF @ = "available" THEN "busy" ELSE @]
             /\ mailbox' = [mailbox EXCEPT ![d] = Append(@, m)]
    BY <1>1, <2>1, <2>2, <2>3
  <2>4. CASE saving[d] = "EndRide" /\ UNCHANGED <<registry, mailbox>>
    BY <1>1, <2>1, <2>4
  <2> QED  BY <2>3, <2>4 DEF SaveState, m
<1>6. /\ \A e \in Drivers \ {d} : mailbox'[e] = mailbox[e]
      /\ \A p \in Passengers : mailbox'[p] = mailbox[p]
  BY <1>5, ActorsApart
<1>7. DriverFrame(d, None, Plain("Login"))
  <2>1. \A e \in Drivers : Plain("Login") \notin SocketMsg(e)  BY DEF Plain, SocketMsg, OfType
  <2> QED  BY <1>1, <1>3, <1>6, <2>1 DEF DriverFrame, gatewayVars
<1>8. TypeOK'  BY <1>1, <1>3, <1>5 DEF TypeOK, gatewayVars, passengerVars
<1>9. ASSUME NEW M, m \notin M
      PROVE  /\ NoneOf(mailbox[d], M) => NoneOf(mailbox'[d], M)
             /\ AtMostOne(mailbox[d], M) => AtMostOne(mailbox'[d], M)
  <2>1. NoneOf(<<m>>, M)  BY <1>4, <1>9, ShortMailbox
  <2>2. CASE mailbox'[d] = mailbox[d] \o <<m>>  BY <1>1, <1>4, <2>1, <2>2, AppendFacts
  <2>3. CASE mailbox'[d] = mailbox[d]  BY <2>3
  <2> QED  BY <1>2, <1>5, <2>2, <2>3
<1>10. DriverInv(d)'
  <2>1. DriverDown(d)'  BY <1>1, <1>2 DEF DriverDown
  <2>2. DriverRecovers(d)'
    <3>1. NoneOf(mailbox'[d], RecoveryMsg)  BY <1>2, <1>4, <1>9
    <3> QED  BY <3>1 DEF DriverRecovers, FirstOnly, NoneOf, RecoveryMsg, OfType
  <2>3. DriverSaves(d)'
    <3>1. saving'[d] = None /\ PassengerOf(driver'[d]) = PassengerOf(driver_file'[d])
      BY <1>1, <1>3
    <3> QED  BY <3>1, NoneAssumption DEF DriverSaves, PassengerOf
  <2>4. DriverWay(d)'
    <3>1. CASE saving[d] = "EndRide"
      BY <1>1, <1>5, <3>1 DEF DriverInv, DriverWay, WayMsg, AboardMsg, OfType
    <3>2. CASE saving[d] = "RequestRide"
      <4>1. NoneOf(mailbox[d], WayMsg) /\ ~driver[d].is_available
        BY <1>1, <3>2 DEF DriverInv, DriverSaves
      <4>2. NoneOf(mailbox[d], AboardMsg)
        BY <4>1, TypesApart DEF NoneOf, AboardMsg, WayMsg, OfType
      <4>3. NoneOf(mailbox'[d], AboardMsg)  BY <1>4, <1>9, <4>2
      <4>4. AtMostOne(<<m>>, WayMsg)  BY <1>4, ShortMailbox
      <4>5. AtMostOne(mailbox'[d], WayMsg)  BY <1>1, <1>4, <1>5, <3>2, <4>1, <4>4, AppendFacts
      <4> QED  BY <1>1, <4>1, <4>3, <4>5 DEF DriverWay, WayMsg, AboardMsg, OfType
    <3> QED  BY <1>2, <3>1, <3>2
  <2>5. DriverSound(d)'
    BY <1>1, <1>3 DEF DriverInv, DriverSound, Sound
  <2>6. DriverTalks(d)'  BY <1>1 DEF DriverInv, DriverTalks, PassengerOf
  <2> QED  BY <2>1, <2>2, <2>3, <2>4, <2>5, <2>6 DEF DriverInv
<1>11. \A p \in Passengers : m \notin RideRequest(p) /\ m \notin Reconnect(p)
  BY <1>4 DEF RideRequest, Reconnect, DriverInbox, OfType
<1>12. DriverKnows(d)'
  <2>1. \A p \in Passengers : PassengerOf(driver_file[d]) = p => p \in carried'
    <3>1. CASE saving[d] = "RequestRide"
      BY <1>1, <3>1, ActorsApart DEF DriverInv, DriverSaves
    <3>2. CASE saving[d] = "EndRide"  BY <1>1, <3>2 DEF DriverInv, DriverSaves
    <3> QED  BY <1>2, <3>1, <3>2
  <2>2. \A p \in Passengers : NoneOf(mailbox[d], Reconnect(p)) => NoneOf(mailbox'[d], Reconnect(p))
    BY <1>9, <1>11
  <2>3. reconnecting' = reconnecting  BY <1>1
  <2> QED  BY <1>7, <2>1, <2>2, <2>3, DriverStaysKnown
<1>13. \A p \in Passengers : Exclusive(p)'
  <2> SUFFICES ASSUME NEW p \in Passengers  PROVE Exclusive(p)'
    OBVIOUS
  <2>1. /\ AtMostOne(mailbox[d], RideRequest(p)) => AtMostOne(mailbox'[d], RideRequest(p))
        /\ NoneOf(mailbox[d], RideRequest(p)) => NoneOf(mailbox'[d], RideRequest(p))
    BY <1>9, <1>11
  <2>2. Serves(d, p)' => Serves(d, p)  BY <1>1, <1>3 DEF Serves, PassengerOf
  <2> QED  BY <1>7, <2>1, <2>2, SearchesUntouched
<1> QED  BY <1>7, <1>8, <1>10, <1>12, <1>13, DriverPreserves

LEMMA EndRideStep ==
    ASSUME IInv, NEW d \in Drivers, EndRide(d)
    PROVE  IInv'
<1> DEFINE t   == "EndRide"
           s   == Freed(driver[d])
           own == <<>>
<1>1. /\ TypeOK /\ d \in Actors /\ DriverInv(d) /\ Handles(d, t) /\ t # "Recovery"
      /\ driver \in [Drivers -> DriverState]
      /\ Continue(d, own)
      /\ driver' = [driver EXCEPT ![d] = s]
      /\ saving' = [saving EXCEPT ![d] = "EndRide"]
      /\ registry' = [registry EXCEPT ![d] = IF @ = "busy" THEN "available" ELSE @]
      /\ UNCHANGED <<up, starts, passengers_address, reconnecting, gatewayVars, driver_file,
                     current_passenger_connection, carried, passengerVars, counts>>
  BY DriverTyped DEF EndRide
<1>2. /\ mailbox[d] \in Seq(Msg) /\ mailbox[d] # <<>>
      /\ Head(mailbox[d]) \in Msg /\ Head(mailbox[d]).type = t
  BY <1>1, HeadMsg
<1>3. /\ PassengerOf(driver[d]) = driver[d].id_current_passenger
      /\ PassengerOf(driver[d]) \in carried
  BY <1>1, AboardIsPickedUp
<1>4. /\ d \in up /\ PassengerOf(driver[d]) = PassengerOf(driver_file[d])
  BY <1>1, DriverAwake
<1>5. /\ s \in DriverState /\ s.is_available /\ ~s.passenger_picked_up
      /\ s.id_current_passenger = driver[d].id_current_passenger
  BY <1>1 DEF Freed, DriverState, Place
<1>6. /\ own \in Seq(Msg) /\ NoneOf(own, RecoveryMsg) /\ NoneOf(own, DriverInbox)
      /\ NoneOf(own, WayMsg)
  BY NothingSent
<1>7. NoneOf(Tail(mailbox[d]), WayMsg) /\ Tail(mailbox[d]) \in Seq(Msg)
  <2>1. Head(mailbox[d]) \in WayMsg  BY <1>2 DEF WayMsg, OfType
  <2>2. AtMostOne(mailbox[d], WayMsg)  BY <1>1 DEF DriverInv, DriverWay
  <2> QED  BY <1>2, <2>1, <2>2, HeadFacts, TailExtends
<1> HIDE DEF s, own, t
<1>8. /\ driver' \in [Drivers -> DriverState] /\ driver'[d] = s /\ s # None
      /\ \A e \in Drivers \ {d} : driver'[e] = driver[e]
      /\ saving' \in [Drivers -> {"RequestRide", "EndRide", None}] /\ saving'[d] = "EndRide"
      /\ \A e \in Drivers \ {d} : saving'[e] = saving[e]
      /\ registry' \in [Drivers -> {"unknown", "available", "busy"}]
  <2>1. /\ saving \in [Drivers -> {"RequestRide", "EndRide", None}]
        /\ registry \in [Drivers -> {"unknown", "available", "busy"}]
    BY <1>1 DEF TypeOK
  <2> QED  BY <1>1, <1>5, <2>1, NoneAssumption
<1>9. OthersAlone(d)  BY <1>1, <1>8 DEF OthersAlone, gatewayVars
<1>10. /\ DriverFrame(d, None, Plain("Login"))
       /\ mailbox' \in [Actors -> Seq(Msg)] /\ mailbox'[d] = Tail(mailbox[d]) \o own
  BY <1>1, <1>2, <1>6, <1>9, QuietDriver
<1>11. TypeOK'
  BY <1>1, <1>8, <1>10 DEF TypeOK, gatewayVars, passengerVars
<1>12. /\ NoneOf(mailbox'[d], RecoveryMsg)
       /\ \A q \in Passengers :
             /\ AtMostOne(mailbox[d], RideRequest(q)) => AtMostOne(mailbox'[d], RideRequest(q))
             /\ NoneOf(mailbox[d], RideRequest(q)) => NoneOf(mailbox'[d], RideRequest(q))
             /\ NoneOf(mailbox[d], Reconnect(q)) => NoneOf(mailbox'[d], Reconnect(q))
  BY <1>1, <1>6, <1>10, DriverMailbox
<1>13. NoneOf(mailbox'[d], WayMsg)  BY <1>6, <1>7, <1>10, AppendFacts
<1>14. PassengerOf(driver'[d]) = None  BY <1>5, <1>8 DEF PassengerOf
<1>15. DriverInv(d)'
  <2>1. DriverDown(d)'  BY <1>1, <1>4 DEF DriverDown
  <2>2. DriverRecovers(d)'
    BY <1>12 DEF DriverRecovers, FirstOnly, NoneOf, RecoveryMsg, OfType
  <2>3. DriverSaves(d)'
    <3>1. saving'[d] = "EndRide" /\ saving'[d] # None /\ saving'[d] # "RequestRide"
      BY <1>8, NoneAssumption
    <3>2. driver'[d].is_available /\ PassengerOf(driver_file'[d]) \in carried'
      BY <1>1, <1>3, <1>4, <1>5, <1>8
    <3> QED  BY <3>1, <3>2 DEF DriverSaves, PassengerOf
  <2>4. DriverWay(d)'
    <3>1. AtMostOne(mailbox'[d], WayMsg) /\ NoneOf(mailbox'[d], AboardMsg)
      BY <1>13, TypesApart DEF NoneOf, AtMostOne, AboardMsg, WayMsg, OfType
    <3> QED  BY <1>13, <3>1 DEF DriverWay, WayMsg, AboardMsg, OfType
  <2>5. DriverSound(d)'
    <3>1. Sound(driver[d])'  BY <1>1, <1>3, <1>5, <1>8 DEF Sound
    <3>2. (driver_file[d] # None => Sound(driver_file[d]))'
      BY <1>1 DEF DriverInv, DriverSound, Sound
    <3> QED  BY <3>1, <3>2 DEF DriverSound
  <2>6. DriverTalks(d)'
    BY <1>1, <1>3 DEF DriverInv, DriverTalks
  <2> QED  BY <2>1, <2>2, <2>3, <2>4, <2>5, <2>6 DEF DriverInv
<1>16. DriverKnows(d)'
  <2>1. driver_file' = driver_file /\ reconnecting' = reconnecting  BY <1>1
  <2> QED  BY <1>10, <1>12, <2>1, DriverStaysKnown
<1>17. \A p \in Passengers : Exclusive(p)'
  <2> SUFFICES ASSUME NEW p \in Passengers  PROVE Exclusive(p)'
    OBVIOUS
  <2>1. Serves(d, p)' => Serves(d, p)
    BY <1>1, <1>14, ActorsApart DEF Serves, PassengerOf
  <2> QED  BY <1>10, <1>12, <2>1, SearchesUntouched
<1> QED  BY <1>10, <1>11, <1>15, <1>16, <1>17, DriverPreserves

LEMMA NewDriverFacts ==
    /\ NewDriver \in DriverState /\ NewDriver # None
    /\ NewDriver.is_available /\ ~NewDriver.passenger_picked_up
    /\ NewDriver.id_current_passenger = None
    /\ PassengerOf(NewDriver) = None /\ PassengerOf(None) = None
<1>1. NewDriver \in DriverState  BY DEF NewDriver, DriverState, Place
<1> QED  BY <1>1, NoneAssumption DEF NewDriver, PassengerOf

LEMMA RecoveryStep ==
    ASSUME IInv, NEW d \in Drivers, Recovery(d)
    PROVE  IInv'
<1> DEFINE f == driver_file[d]
           w == IF f.passenger_picked_up THEN "RideToDestination" ELSE "PickUpPassenger"
<1>1. /\ TypeOK /\ d \in Actors /\ DriverInv(d) /\ Handles(d, "Recovery")
      /\ driver \in [Drivers -> DriverState] /\ f \in DriverState \cup {None}
      /\ driver' = [driver EXCEPT ![d] = f]
      /\ UNCHANGED <<up, starts, registry, passengers_address, gatewayVars, driver_file,
                     current_passenger_connection, saving, carried, passengerVars, counts>>
  BY ActorsApart DEF IInv, TypeOK, Recovery
<1>2. /\ mailbox[d] \in Seq(Msg) /\ mailbox[d] # <<>> /\ d \in up
      /\ Head(mailbox[d]) \in Msg /\ Head(mailbox[d]).type = "Recovery" /\ saving[d] = None
  BY <1>1, HeadMsg
<1>3. /\ f # None /\ current_passenger_connection[d] = None
      /\ NoneOf(mailbox[d], WayMsg) /\ NoneOf(Tail(mailbox[d]), RecoveryMsg)
  <2>1. Head(mailbox[d]) \in RecoveryMsg  BY <1>2 DEF RecoveryMsg, OfType
  <2>2. ~NoneOf(mailbox[d], RecoveryMsg)  BY <1>2, <2>1, HeadFacts
  <2>3. FirstOnly(mailbox[d], RecoveryMsg)  BY <1>1 DEF DriverInv, DriverRecovers
  <2>4. NoneOf(Tail(mailbox[d]), RecoveryMsg)  BY <1>2, <2>3, HeadFacts
  <2> QED  BY <1>1, <2>2, <2>4 DEF DriverInv, DriverRecovers
<1>4. f \in DriverState /\ Sound(f)  BY <1>1, <1>3 DEF DriverInv, DriverSound
<1>5. PICK own \in Seq(Msg) :
         /\ Continue(d, own)
         /\ NoneOf(own, RecoveryMsg) /\ NoneOf(own, DriverInbox) /\ AtMostOne(own, WayMsg)
         /\ f.is_available => NoneOf(own, WayMsg)
         /\ ~f.passenger_picked_up => NoneOf(own, AboardMsg)
         /\ IF f.is_available THEN reconnecting' = reconnecting
            ELSE reconnecting' = reconnecting \cup {<<d, f.id_current_passenger>>}
  <2>1. CASE f.is_available /\ Continue(d, <<>>) /\ UNCHANGED reconnecting
    <3> DEFINE own == <<>>
    <3>1. /\ own \in Seq(Msg) /\ NoneOf(own, RecoveryMsg) /\ NoneOf(own, DriverInbox)
          /\ NoneOf(own, WayMsg) /\ NoneOf(own, AboardMsg)
      BY NothingSent
    <3>2. Continue(d, own)  BY <2>1
    <3>3. AtMostOne(own, WayMsg)  BY <3>1 DEF NoneOf, AtMostOne
    <3> HIDE DEF own
    <3> QED  BY <2>1, <3>1, <3>2, <3>3
  <2>2. CASE /\ ~f.is_available
             /\ reconnecting' = reconnecting \cup {<<d, f.id_current_passenger>>}
             /\ Continue(d, Resume(f))
    <3> DEFINE m   == Plain(w)
               own == <<m>>
    <3>1. Continue(d, own)  BY <2>2 DEF Resume
    <3>2. /\ m \in Msg /\ m \in WayMsg /\ own \in Seq(Msg)
          /\ ~f.passenger_picked_up => m \notin AboardMsg
      <4>1. w \in {"StartRide", "PickUpPassenger", "RideToDestination", "EndRide"}  OBVIOUS
      <4>2. ~f.passenger_picked_up => w \notin {"RideToDestination", "EndRide"}  OBVIOUS
      <4> HIDE DEF w
      <4> QED  BY <4>1, <4>2, WayMessages
    <3> HIDE DEF m
    <3>3. m \notin RecoveryMsg /\ m \notin DriverInbox
      BY <3>2 DEF WayMsg, RecoveryMsg, DriverInbox, OfType
    <3>4. /\ NoneOf(own, RecoveryMsg) /\ NoneOf(own, DriverInbox) /\ AtMostOne(own, WayMsg)
          /\ ~f.passenger_picked_up => NoneOf(own, AboardMsg)
      BY <3>2, <3>3, ShortMailbox
    <3> HIDE DEF own
    <3> QED  BY <2>2, <3>1, <3>2, <3>4
  <2> QED  BY <2>1, <2>2 DEF Recovery
<1> HIDE DEF f, w
<1>6. /\ driver' \in [Drivers -> DriverState] /\ driver'[d] = f
      /\ \A e \in Drivers \ {d} : driver'[e] = driver[e]
  BY <1>1, <1>4
<1>7. ~f.is_available => f.id_current_passenger \in Passengers
  BY <1>4 DEF Sound, DriverState
<1>8. /\ reconnecting' \subseteq Drivers \X Passengers
      /\ \A e \in Drivers, p \in Passengers :
            <<e, p>> \in reconnecting' =>
               \/ <<e, p>> \in reconnecting
               \/ e = d /\ ~f.is_available /\ p = f.id_current_passenger
  BY <1>1, <1>5, <1>7 DEF TypeOK
<1>9. OthersAlone(d)  BY <1>1, <1>6, <1>8 DEF OthersAlone, gatewayVars
<1>10. /\ DriverFrame(d, None, Plain("Login"))
       /\ mailbox' \in [Actors -> Seq(Msg)] /\ mailbox'[d] = Tail(mailbox[d]) \o own
  BY <1>1, <1>2, <1>5, <1>9, QuietDriver
<1>11. TypeOK'  BY <1>1, <1>6, <1>8, <1>10 DEF TypeOK, gatewayVars, passengerVars
<1>12. Tail(mailbox[d]) \in Seq(Msg) /\ Extends(Tail(mailbox[d]), mailbox[d], {})
  BY <1>2, TailExtends
<1>13. ASSUME NEW M
       PROVE  /\ NoneOf(mailbox[d], M) => NoneOf(Tail(mailbox[d]), M)
              /\ AtMostOne(mailbox[d], M) => AtMostOne(Tail(mailbox[d]), M)
  <2>1. M \cap {} = {}  OBVIOUS
  <2> QED  BY <1>12, <2>1, ExtendsUse
<1>14. /\ NoneOf(mailbox'[d], RecoveryMsg)
       /\ AtMostOne(mailbox'[d], WayMsg)
       /\ f.is_available => NoneOf(mailbox'[d], WayMsg)
       /\ ~f.passenger_picked_up => NoneOf(mailbox'[d], AboardMsg)
  <2>1. NoneOf(mailbox[d], AboardMsg)
    BY <1>3, TypesApart DEF NoneOf, AboardMsg, WayMsg, OfType
  <2>2. NoneOf(Tail(mailbox[d]), WayMsg) /\ NoneOf(Tail(mailbox[d]), AboardMsg)
    BY <1>3, <1>13, <2>1
  <2> QED  BY <1>3, <1>5, <1>10, <1>12, <2>2, AppendFacts
<1>15. \A q \in Passengers :
          /\ AtMostOne(mailbox[d], RideRequest(q)) => AtMostOne(mailbox'[d], RideRequest(q))
          /\ NoneOf(mailbox[d], RideRequest(q)) => NoneOf(mailbox'[d], RideRequest(q))
          /\ NoneOf(mailbox[d], Reconnect(q)) => NoneOf(mailbox'[d], Reconnect(q))
  <2>1. \A q \in Passengers : NoneOf(own, RideRequest(q)) /\ NoneOf(own, Reconnect(q))
    BY <1>5 DEF NoneOf, RideRequest, Reconnect, DriverInbox, OfType
  <2>2. ASSUME NEW M, NoneOf(own, M)
        PROVE  /\ NoneOf(mailbox[d], M) => NoneOf(mailbox'[d], M)
               /\ AtMostOne(mailbox[d], M) => AtMostOne(mailbox'[d], M)
    BY <1>5, <1>10, <1>12, <1>13, <2>2, AppendFacts
  <2> QED  BY <2>1, <2>2
<1>16. PassengerOf(driver'[d]) = PassengerOf(driver_file'[d])  BY <1>1, <1>6 DEF f
<1>17. DriverInv(d)'
  <2>1. DriverDown(d)'  BY <1>1, <1>2 DEF DriverDown
  <2>2. DriverRecovers(d)'
    BY <1>14 DEF DriverRecovers, FirstOnly, NoneOf, RecoveryMsg, OfType
  <2>3. DriverSaves(d)'
    <3>1. saving'[d] = None  BY <1>1, <1>2
    <3> QED  BY <1>16, <3>1, NoneAssumption DEF DriverSaves, PassengerOf
  <2>4. DriverWay(d)'  BY <1>6, <1>14 DEF DriverWay, WayMsg, AboardMsg, OfType
  <2>5. DriverSound(d)'  BY <1>1, <1>4, <1>6 DEF DriverSound, Sound, f
  <2>6. DriverTalks(d)'  BY <1>1, <1>3 DEF DriverTalks
  <2> QED  BY <2>1, <2>2, <2>3, <2>4, <2>5, <2>6 DEF DriverInv
<1>18. DriverKnows(d)'
  <2>1. ~f.is_available => PassengerOf(driver_file[d]) = f.id_current_passenger
    BY <1>3 DEF PassengerOf, f
  <2>2. driver_file' = driver_file  BY <1>1
  <2> QED  BY <1>8, <1>10, <1>15, <2>1, <2>2, DriverStaysKnown
<1>19. \A p \in Passengers : Exclusive(p)'
  <2> SUFFICES ASSUME NEW p \in Passengers  PROVE Exclusive(p)'
    OBVIOUS
  <2>1. Serves(d, p)' => Serves(d, p)
    BY <1>1, <1>16 DEF Serves, PassengerOf
  <2> QED  BY <1>10, <1>15, <2>1, SearchesUntouched
<1> QED  BY <1>10, <1>11, <1>17, <1>18, <1>19, DriverPreserves

\* A process of d that starts or ends leaves its file, the leader and everybody
\* else as they are.
LEMMA DriverRestarts ==
    ASSUME IInv, NEW d \in Drivers, NEW q \in Seq(Msg),
           mailbox' = [mailbox EXCEPT ![d] = q], NoneOf(q, DriverInbox),
           \A a \in Actors : a # d => (a \in up' <=> a \in up),
           driver'[d] = NewDriver,
           \A e \in Drivers \ {d} :
              /\ driver'[e] = driver[e] /\ saving'[e] = saving[e]
              /\ current_passenger_connection'[e] = current_passenger_connection[e],
           UNCHANGED <<serverVars, gatewayVars, driver_file, carried, passengerVars>>
    PROVE  /\ DriverFrame(d, None, Plain("Login")) /\ mailbox' \in [Actors -> Seq(Msg)]
           /\ DriverKnows(d)' /\ \A p \in Passengers : Exclusive(p)'
<1>1. TypeOK /\ d \in Actors  BY ActorsApart DEF IInv
<1>2. /\ mailbox' \in [Actors -> Seq(Msg)] /\ mailbox'[d] = q
      /\ \A a \in Actors : a # d => mailbox'[a] = mailbox[a]
  BY <1>1 DEF TypeOK
<1>3. UNCHANGED <<reconnecting, authorizing, driver_file, carried>>
  BY DEF serverVars, gatewayVars
<1>4. DriverFrame(d, None, Plain("Login"))
  <2>1. \A e \in Drivers : Plain("Login") \notin SocketMsg(e)  BY DEF Plain, SocketMsg, OfType
  <2>2. /\ \A e \in Drivers \ {d} : mailbox'[e] = mailbox[e] /\ (e \in up' <=> e \in up)
        /\ \A p \in Passengers : mailbox'[p] = mailbox[p] /\ (p \in up' <=> p \in up)
    BY <1>2, ActorsApart
  <2> QED  BY <1>3, <2>1, <2>2 DEF DriverFrame
<1>5. \A p \in Passengers : NoneOf(q, RideRequest(p)) /\ NoneOf(q, Reconnect(p))
  BY DEF NoneOf, RideRequest, Reconnect, DriverInbox, OfType
<1>6. DriverKnows(d)'
  BY <1>2, <1>3, <1>4, <1>5, DriverStaysKnown
<1>7. ASSUME NEW p \in Passengers
      PROVE  Exclusive(p)'
  <2>1. Serves(d, p)' => Serves(d, p)
    BY <1>3, NewDriverFacts, ActorsApart DEF Serves, PassengerOf
  <2>2. NoneOf(mailbox'[d], RideRequest(p)) /\ AtMostOne(mailbox'[d], RideRequest(p))
    BY <1>2, <1>5 DEF NoneOf, AtMostOne
  <2> QED  BY <1>4, <2>1, <2>2, SearchesUntouched
<1> QED  BY <1>2, <1>4, <1>6, <1>7

LEMMA StartDriverStep ==
    ASSUME IInv, NEW d \in Drivers, StartDriver(d)
    PROVE  IInv'
<1>1. /\ TypeOK /\ d \in Actors /\ DriverInv(d) /\ d \notin up
      /\ up' = up \cup {d} /\ starts' = [starts EXCEPT ![d] = @ + 1]
      /\ counts' = [counts EXCEPT !.starts = @ + 1]
      /\ UNCHANGED <<serverVars, gatewayVars, driverVars, passengerVars>>
  BY ActorsApart DEF IInv, StartDriver, Starts
<1>2. driver[d] = NewDriver /\ saving[d] = None /\ current_passenger_connection[d] = None
  BY <1>1 DEF DriverInv, DriverDown
<1>3. PICK q \in Seq(Msg) :
         /\ mailbox' = [mailbox EXCEPT ![d] = q]
         /\ FirstOnly(q, RecoveryMsg) /\ (NoneOf(q, RecoveryMsg) <=> driver_file[d] = None)
         /\ NoneOf(q, WayMsg) /\ NoneOf(q, AboardMsg) /\ NoneOf(q, DriverInbox)
  <2> DEFINE a == Plain("Register")
             b == Plain("Recovery")
  <2>1. /\ a \in Msg /\ a \notin RecoveryMsg /\ a \notin WayMsg /\ a \notin AboardMsg
        /\ a \notin DriverInbox
    <3>1. a \in Msg /\ a.type = "Register"  BY PlainMsg DEF PlainType, Plain
    <3> HIDE DEF a
    <3> QED  BY <3>1 DEF RecoveryMsg, WayMsg, AboardMsg, DriverInbox, OfType
  <2>2. /\ b \in Msg /\ b \in RecoveryMsg /\ b \notin WayMsg /\ b \notin AboardMsg
        /\ b \notin DriverInbox
    <3>1. b \in Msg /\ b.type = "Recovery"  BY PlainMsg DEF PlainType, Plain
    <3> HIDE DEF b
    <3> QED  BY <3>1 DEF RecoveryMsg, WayMsg, AboardMsg, DriverInbox, OfType
  <2>3. mailbox' = [mailbox EXCEPT ![d] = IF driver_file[d] = None THEN <<a>> ELSE <<b, a>>]
    BY DEF StartDriver
  <2> HIDE DEF a, b
  <2>4. CASE driver_file[d] = None
    <3> DEFINE q == <<a>>
    <3>1. /\ q \in Seq(Msg) /\ NoneOf(q, RecoveryMsg) /\ NoneOf(q, WayMsg)
          /\ NoneOf(q, AboardMsg) /\ NoneOf(q, DriverInbox)
      BY <2>1, ShortMailbox
    <3>2. FirstOnly(q, RecoveryMsg)  BY <3>1 DEF NoneOf, FirstOnly
    <3>3. mailbox' = [mailbox EXCEPT ![d] = q]  BY <2>3, <2>4
    <3> HIDE DEF q
    <3> QED  BY <2>4, <3>1, <3>2, <3>3
  <2>5. CASE driver_file[d] # None
    <3> DEFINE q == <<b, a>>
    <3>1. q \in Seq(Msg) /\ Len(q) = 2 /\ q[1] = b /\ q[2] = a  BY <2>1, <2>2
    <3>2. mailbox' = [mailbox EXCEPT ![d] = q]  BY <2>3, <2>5
    <3> HIDE DEF q
    <3>3. \A i \in 1..Len(q) : (i = 1 /\ q[i] = b) \/ (i = 2 /\ q[i] = a)  BY <3>1
    <3>4. /\ FirstOnly(q, RecoveryMsg) /\ NoneOf(q, WayMsg) /\ NoneOf(q, AboardMsg)
          /\ NoneOf(q, DriverInbox)
      BY <2>1, <2>2, <3>3 DEF NoneOf, FirstOnly
    <3>5. ~NoneOf(q, RecoveryMsg)
      <4>1. 1 \in 1..Len(q) /\ q[1] \in RecoveryMsg  BY <2>2, <3>1
      <4> QED  BY <4>1 DEF NoneOf
    <3> QED  BY <2>5, <3>1, <3>2, <3>4, <3>5
  <2> QED  BY <2>4, <2>5
<1>4. UNCHANGED <<driver, driver_file, current_passenger_connection, saving, carried>>
  BY <1>1 DEF driverVars
<1>5. \A a \in Actors : a # d => (a \in up' <=> a \in up)  BY <1>1
<1>6. driver'[d] = NewDriver /\ UNCHANGED <<serverVars, gatewayVars, passengerVars>>
  BY <1>1, <1>2, <1>4
<1>7. /\ DriverFrame(d, None, Plain("Login")) /\ mailbox' \in [Actors -> Seq(Msg)]
      /\ DriverKnows(d)' /\ \A p \in Passengers : Exclusive(p)'
  BY <1>3, <1>4, <1>5, <1>6, DriverRestarts
<1>8. TypeOK'
  <2>1. up' \subseteq Actors /\ starts' \in [Actors -> Nat]  BY <1>1 DEF TypeOK
  <2>2. counts' \in [starts : Nat, crashes : Nat, denials : Nat]
    <3>1. counts \in [starts : Nat, crashes : Nat, denials : Nat]  BY <1>1 DEF TypeOK
    <3> QED  BY <1>1, <3>1, CountsGrow
  <2> QED  BY <1>1, <1>7, <2>1, <2>2
           DEF TypeOK, serverVars, gatewayVars, driverVars, passengerVars
<1>9. mailbox'[d] = q  BY <1>1, <1>3 DEF TypeOK
<1>10. DriverInv(d)'
  <2>1. DriverDown(d)'  BY <1>1 DEF DriverDown
  <2>2. DriverRecovers(d)'
    BY <1>2, <1>3, <1>4, <1>9 DEF DriverRecovers, RecoveryMsg, WayMsg, OfType
  <2>3. DriverSaves(d)'
    <3>1. NoneOf(mailbox'[d], RecoveryMsg) => PassengerOf(driver[d]) = PassengerOf(driver_file[d])
      BY <1>2, <1>3, <1>9, NewDriverFacts
    <3> QED  BY <1>2, <1>4, <3>1, NoneAssumption DEF DriverSaves, PassengerOf, RecoveryMsg, OfType
  <2>4. DriverWay(d)'
    BY <1>3, <1>9 DEF DriverWay, NoneOf, AtMostOne, WayMsg, AboardMsg, OfType
  <2>5. DriverSound(d)'  BY <1>1, <1>4 DEF DriverInv, DriverSound, Sound
  <2>6. DriverTalks(d)'  BY <1>2, <1>4 DEF DriverTalks
  <2> QED  BY <2>1, <2>2, <2>3, <2>4, <2>5, <2>6 DEF DriverInv
<1> QED  BY <1>7, <1>8, <1>10, DriverPreserves

LEMMA CrashDriverStep ==
    ASSUME IInv, NEW d \in Drivers, CrashDriver(d)
    PROVE  IInv'
<1> DEFINE q == <<>>
<1>1. /\ TypeOK /\ d \in Actors /\ DriverInv(d)
      /\ up' = up \ {d} /\ mailbox' = [mailbox EXCEPT ![d] = q]
      /\ counts' = [counts EXCEPT !.crashes = @ + 1]
      /\ driver' = [driver EXCEPT ![d] = NewDriver]
      /\ current_passenger_connection' = [current_passenger_connection EXCEPT ![d] = None]
      /\ saving' = [saving EXCEPT ![d] = None]
      /\ UNCHANGED <<starts, serverVars, gatewayVars, driver_file, carried, passengerVars>>
  BY ActorsApart DEF IInv, CrashDriver, Crashes
<1>2. /\ q \in Seq(Msg) /\ NoneOf(q, DriverInbox) /\ NoneOf(q, RecoveryMsg)
      /\ NoneOf(q, WayMsg) /\ NoneOf(q, AboardMsg)
  BY NothingSent
<1> HIDE DEF q
<1>3. /\ driver' \in [Drivers -> DriverState] /\ driver'[d] = NewDriver
      /\ saving' \in [Drivers -> {"RequestRide", "EndRide", None}] /\ saving'[d] = None
      /\ current_passenger_connection' \in [Drivers -> Process(Passengers) \cup {None}]
      /\ current_passenger_connection'[d] = None
      /\ \A e \in Drivers \ {d} :
            /\ driver'[e] = driver[e] /\ saving'[e] = saving[e]
            /\ current_passenger_connection'[e] = current_passenger_connection[e]
      /\ mailbox'[d] = q
  BY <1>1, NewDriverFacts DEF TypeOK
<1>4. \A a \in Actors : a # d => (a \in up' <=> a \in up)  BY <1>1
<1>5. UNCHANGED <<serverVars, gatewayVars, driver_file, carried, passengerVars>>  BY <1>1
<1>6. /\ DriverFrame(d, None, Plain("Login")) /\ mailbox' \in [Actors -> Seq(Msg)]
      /\ DriverKnows(d)' /\ \A p \in Passengers : Exclusive(p)'
  BY <1>1, <1>2, <1>3, <1>4, <1>5, DriverRestarts
<1>7. TypeOK'
  <2>1. up' \subseteq Actors  BY <1>1 DEF TypeOK
  <2>2. counts' \in [starts : Nat, crashes : Nat, denials : Nat]
    <3>1. counts \in [starts : Nat, crashes : Nat, denials : Nat]  BY <1>1 DEF TypeOK
    <3> QED  BY <1>1, <3>1, CountsGrow
  <2> QED  BY <1>1, <1>3, <1>6, <2>1, <2>2 DEF TypeOK, serverVars, gatewayVars, passengerVars
<1>8. DriverInv(d)'
  <2>1. d \notin up'  BY <1>1
  <2>2. DriverDown(d)'
    <3>1. mailbox'[d] = <<>>  BY <1>3 DEF q
    <3> QED  BY <1>3, <3>1 DEF DriverDown, NewDriver
  <2>3. DriverRecovers(d)'
    <3>1. NoneOf(mailbox'[d], RecoveryMsg)  BY <1>2, <1>3
    <3> QED  BY <3>1 DEF DriverRecovers, FirstOnly, NoneOf, RecoveryMsg, OfType
  <2>4. DriverSaves(d)'  BY <1>3, <2>1, NoneAssumption DEF DriverSaves
  <2>5. DriverWay(d)'
    BY <1>2, <1>3 DEF DriverWay, NoneOf, AtMostOne, WayMsg, AboardMsg, OfType
  <2>6. DriverSound(d)'
    <3>1. Sound(driver[d])'  BY <1>3, NewDriverFacts DEF Sound
    <3>2. (driver_file[d] # None => Sound(driver_file[d]))'
      BY <1>1 DEF DriverInv, DriverSound, Sound
    <3> QED  BY <3>1, <3>2 DEF DriverSound
  <2>7. DriverTalks(d)'  BY <1>3 DEF DriverTalks
  <2> QED  BY <2>2, <2>3, <2>4, <2>5, <2>6, <2>7 DEF DriverInv
<1> QED  BY <1>6, <1>7, <1>8, DriverPreserves

LEMMA TellPassengerStep ==
    ASSUME IInv, NEW d \in Drivers, NEW p \in Passengers, TellPassenger(d, p)
    PROVE  IInv'
<1> DEFINE m == [type |-> "ReconnectDriver", socket |-> d]
           c == passengers_address[p]
           k == IF Running(c) THEN c ELSE None
<1>1. /\ TypeOK /\ d \in Actors /\ p \in Actors /\ DriverInv(d) /\ DriverKnows(d)
      /\ mailbox \in [Actors -> Seq(Msg)]
      /\ <<d, p>> \in reconnecting /\ reconnecting' = reconnecting \ {<<d, p>>}
      /\ mailbox' = IF Running(c) THEN [mailbox EXCEPT ![p] = Append(@, m)] ELSE mailbox
      /\ UNCHANGED <<up, starts, registry, passengers_address, gatewayVars, driverVars,
                     passengerVars, counts>>
  BY ActorsApart DEF IInv, TypeOK, TellPassenger
<1>2. m \in Msg /\ m.type = "ReconnectDriver" /\ m.socket = d  BY DEF Msg, PassengerMsg
<1> HIDE DEF m
<1>3. /\ m \in PassengerInbox /\ m \notin TravelMsg /\ m \notin SearchMsg
      /\ \A e \in Drivers : e # d => m \notin SocketMsg(e)
  BY <1>2 DEF PassengerInbox, TravelMsg, SearchMsg, SocketMsg, OfType
<1>4. Running(c) => c # None /\ c.actor = p /\ p \in up  BY <1>1 DEF TypeOK, Running
<1>5. /\ mailbox' \in [Actors -> Seq(Msg)]
      /\ \A a \in Actors : a # p => mailbox'[a] = mailbox[a]
      /\ mailbox'[p] = IF Running(c) THEN mailbox[p] \o <<m>> ELSE mailbox[p]
  <2>1. Append(mailbox[p], m) = mailbox[p] \o <<m>> /\ Append(mailbox[p], m) \in Seq(Msg)
    BY <1>1, <1>2
  <2> QED  BY <1>1, <2>1
<1>6. UNCHANGED <<up, authorizing, driver, driver_file, current_passenger_connection, saving,
                  carried, passengerVars>>
  BY <1>1 DEF gatewayVars, driverVars
<1>7. DriverFrame(d, k, m)
  <2>1. \A e \in Drivers : mailbox'[e] = mailbox[e]  BY <1>5, ActorsApart
  <2>2. \A q \in Passengers : q # p => mailbox'[q] = mailbox[q]  BY <1>5, ActorsApart
  <2>3. k # None => Running(c) /\ k.actor = p /\ p \in up  BY <1>4
  <2>4. k = None => mailbox'[p] = mailbox[p]  BY <1>4, <1>5
  <2>5. k # None => mailbox'[p] = mailbox[p] \o <<m>>  BY <1>5, <2>3
  <2>6. \A e \in Drivers, q \in Passengers : <<e, q>> \in reconnecting' => <<e, q>> \in reconnecting
    BY <1>1
  <2> HIDE DEF k, c
  <2> QED  BY <1>3, <1>6, <2>1, <2>2, <2>3, <2>4, <2>5, <2>6 DEF DriverFrame
<1>8. TypeOK'
  <2>1. reconnecting' \subseteq Drivers \X Passengers  BY <1>1 DEF TypeOK
  <2> QED  BY <1>1, <1>5, <2>1 DEF TypeOK, gatewayVars, driverVars, passengerVars
<1>9. mailbox'[d] = mailbox[d]  BY <1>5, ActorsApart
<1>10. DriverInv(d)'
  BY <1>1, <1>6, <1>9
     DEF DriverInv, DriverDown, DriverRecovers, DriverSaves, DriverWay, DriverSound, Sound,
         DriverTalks, PassengerOf, RecoveryMsg, WayMsg, AboardMsg, OfType
<1>11. DriverKnows(d)'
  <2> SUFFICES ASSUME NEW q \in Passengers,
                      \/ <<d, q>> \in reconnecting'
                      \/ ~NoneOf(mailbox'[q], SocketMsg(d))
                      \/ ~NoneOf(mailbox'[d], Reconnect(q))
               PROVE  q \in carried' \/ PassengerOf(driver_file'[d]) = q
    BY DEF DriverKnows, PassengerOf, SocketMsg, Reconnect, OfType
  <2>1. CASE q = p  BY <1>1, <1>6, <2>1 DEF DriverKnows
  <2>2. CASE q # p
    <3>1. mailbox'[q] = mailbox[q]  BY <1>5, <2>2, ActorsApart
    <3> QED  BY <1>1, <1>6, <1>9, <3>1 DEF DriverKnows
  <2> QED  BY <2>1, <2>2
<1>12. \A q \in Passengers : Exclusive(q)'
  <2> SUFFICES ASSUME NEW q \in Passengers  PROVE Exclusive(q)'
    OBVIOUS
  <2>1. Serves(d, q)' => Serves(d, q)  BY <1>6 DEF Serves, PassengerOf
  <2> QED  BY <1>3, <1>7, <1>9, <2>1, SearchesUntouched
<1> QED  BY <1>7, <1>8, <1>10, <1>11, <1>12, DriverPreserves

-----------------------------------------------------------------------------
(* The invariant.                                                          *)

LEMMA InitIInv == Init => IInv
<1> SUFFICES ASSUME Init  PROVE IInv
  OBVIOUS
<1> USE DEF Init
<1>1. /\ \A M : NoneOf(<<>>, M) /\ AtMostOne(<<>>, M)
      /\ \A M : FirstOnly(<<>>, M) /\ <<>> \in Seq(Msg)
  BY DEF NoneOf, AtMostOne, FirstOnly
<1>2. \A a \in Actors : mailbox[a] = <<>>  OBVIOUS
<1>3. /\ \A d \in Drivers : mailbox[d] = <<>>
      /\ \A p \in Passengers : mailbox[p] = <<>>
  BY <1>2, ActorsApart
<1>4. NewPassenger \in PassengerState /\ ~NewPassenger.payment_authorized
      /\ NewPassenger.position = "origin"
  BY DEF NewPassenger, PassengerState, Place
<1>5. TypeOK
  BY <1>1, <1>4, NewDriverFacts DEF TypeOK
<1>6. ASSUME NEW d \in Drivers
      PROVE  DriverInv(d) /\ DriverKnows(d)
  <2>1. /\ mailbox[d] = <<>> /\ driver[d] = NewDriver /\ driver_file[d] = None
        /\ saving[d] = None /\ current_passenger_connection[d] = None
        /\ \A M : NoneOf(mailbox[d], M) /\ AtMostOne(mailbox[d], M) /\ FirstOnly(mailbox[d], M)
        /\ \A p \in Passengers : \A M : NoneOf(mailbox[p], M)
    BY <1>1, <1>3
  <2>2. DriverDown(d) /\ DriverRecovers(d) /\ DriverWay(d) /\ DriverTalks(d) /\ DriverKnows(d)
    BY <2>1 DEF DriverDown, DriverRecovers, DriverWay, DriverTalks, DriverKnows
  <2>3. DriverSaves(d)  BY <2>1, NoneAssumption DEF DriverSaves
  <2>4. DriverSound(d)  BY <2>1, NewDriverFacts DEF DriverSound, Sound
  <2> QED  BY <2>2, <2>3, <2>4 DEF DriverInv
<1>7. ASSUME NEW p \in Passengers
      PROVE  PassengerInv(p) /\ Exclusive(p)
  <2>1. /\ mailbox[p] = <<>> /\ passenger[p] = NewPassenger /\ passenger_file[p] = None
        /\ p \notin up /\ p \notin authorizing /\ p \notin carried
        /\ \A M : NoneOf(mailbox[p], M) /\ AtMostOne(mailbox[p], M) /\ FirstOnly(mailbox[p], M)
    BY <1>1, <1>3
  <2>2. PassengerDown(p) /\ PassengerRecovers(p) /\ PassengerTravels(p)
    BY <1>4, <2>1 DEF PassengerDown, PassengerRecovers, PassengerTravels
  <2>3. PassengerSaves(p)
    <3>1. RequestBehind(mailbox[p])  BY <2>1 DEF RequestBehind
    <3> QED  BY <2>1, <3>1 DEF PassengerSaves
  <2>4. \A d \in Drivers : /\ ~Asks(p, d) /\ ~Serves(d, p)
                           /\ AtMostOne(mailbox[d], RideRequest(p))
    BY <1>1, <1>3, NewDriverFacts, ActorsApart DEF Asks, Serves
  <2>5. ~Seeks(p)  BY <2>1 DEF Seeks
  <2>6. Exclusive(p)  BY <2>1, <2>4, <2>5 DEF Exclusive
  <2> QED  BY <2>2, <2>3, <2>6 DEF PassengerInv
<1> QED  BY <1>5, <1>6, <1>7 DEF IInv

LEMMA StutterIInv ==
    ASSUME IInv, UNCHANGED vars
    PROVE  IInv'
<1> USE DEF vars, serverVars, gatewayVars, driverVars, passengerVars
<1>1. TypeOK'  BY DEF IInv, TypeOK
<1>2. ASSUME NEW d \in Drivers
      PROVE  DriverInv(d)' /\ DriverKnows(d)'
  BY DEF IInv, DriverInv, DriverKnows, DriverDown, DriverRecovers, DriverSaves, DriverWay,
         DriverSound, Sound, DriverTalks, PassengerOf, RecoveryMsg, WayMsg, AboardMsg, SocketMsg,
         Reconnect, OfType
<1>3. ASSUME NEW p \in Passengers
      PROVE  PassengerInv(p)' /\ Exclusive(p)'
  <2>1. PassengerInv(p)'
    BY DEF IInv, PassengerInv, PassengerDown, PassengerRecovers, PassengerSaves,
           PassengerTravels, Authorized, RecoverMsg, SearchMsg, TravelMsg, OfType
  <2>2. Exclusive(p)'
    <3>1. Exclusive(p)  BY DEF IInv
    <3>2. /\ AtMostOne(mailbox'[p], SearchMsg)
          /\ p \in authorizing' => NoneOf(mailbox'[p], SearchMsg)
          /\ \A d \in Drivers : AtMostOne(mailbox'[d], RideRequest(p))
      BY <3>1 DEF Exclusive
    <3>3. Seeks(p)' => Seeks(p)  BY DEF Seeks, SearchMsg, OfType
    <3>4. \A d \in Drivers : (Asks(p, d)' => Asks(p, d)) /\ (Serves(d, p)' => Serves(d, p))
      BY DEF Asks, Serves, PassengerOf, RideRequest, OfType
    <3>5. (Authorized(p) => Authorized(p)') /\ (p \in carried' => p \in carried)
      BY DEF Authorized
    <3> QED  BY <3>1, <3>2, <3>3, <3>4, <3>5, SearchStands
  <2> QED  BY <2>1, <2>2
<1> QED  BY <1>1, <1>2, <1>3 DEF IInv

LEMMA NextIInv == IInv /\ [Next]_vars => IInv'
<1> SUFFICES ASSUME IInv, [Next]_vars  PROVE IInv'
  OBVIOUS
<1>1. ASSUME NEW p \in Passengers, PassengerStep(p)
      PROVE  IInv'
  BY <1>1, LoginStep, GetDriversStep, DriversHandlerStep, RequestDriveStep, KeepLookingStep,
     PaymentAuthorizedStep, PaymentDenyStep, RideAcceptedStep, DriverArrivedStep, TravelOnStep,
     TravelEndsStep, RecoverStep, RecoverResponseStep, ReconnectDriverStep DEF PassengerStep
<1>2. ASSUME NEW p \in Passengers, StartPassenger(p) \/ CrashPassenger(p) \/ Authorize(p)
      PROVE  IInv'
  BY <1>2, StartPassengerStep, CrashPassengerStep, AuthorizeStep
<1>3. ASSUME NEW d \in Drivers, DriverStep(d)
      PROVE  IInv'
  BY <1>3, RegisterStep, RecoveryStep, RefuseRideStep, AcceptRideStep, SaveStateStep,
     StartRideStep, ApproachPassengerStep, PickUpPassengerStep, RideOnStep, EndRideStep,
     PassengerRecoverStep, ReconnectPassengerStep DEF DriverStep
<1>4. ASSUME NEW d \in Drivers, StartDriver(d) \/ CrashDriver(d)
      PROVE  IInv'
  BY <1>4, StartDriverStep, CrashDriverStep
<1>5. ASSUME NEW d \in Drivers, NEW p \in Passengers, TellPassenger(d, p)
      PROVE  IInv'
  BY <1>5, TellPassengerStep
<1>6. CASE UNCHANGED vars  BY <1>6, StutterIInv
<1> QED  BY <1>1, <1>2, <1>3, <1>4, <1>5, <1>6 DEF Next

LEMMA Invariant == Spec => []IInv
<1>1. Init => IInv  BY InitIInv
<1>2. IInv /\ [Next]_vars => IInv'  BY NextIInv
<1> QED  BY <1>1, <1>2, PTL DEF Spec

-----------------------------------------------------------------------------
(* The theorems.                                                           *)

\* Every variable of Ride has its type, in every reachable state.
THEOREM TypeCorrect == Spec => []TypeOK
<1>1. IInv => TypeOK  BY DEF IInv
<1> QED  BY <1>1, Invariant, PTL

\* A passenger is never the current one of two drivers, in memory or on disk,
\* whatever crashes between its request, the answer and the two files.
THEOREM OneDriver == Spec => []OneDriverEach
<1>1. IInv => OneDriverEach
  <2> SUFFICES ASSUME IInv, NEW d \in Drivers, NEW e \in Drivers, d # e,
                      NEW s \in {driver[d], driver_file[d]}, NEW t \in {driver[e], driver_file[e]},
                      PassengerOf(s) # None, PassengerOf(s) = PassengerOf(t)
               PROVE  FALSE
    BY DEF OneDriverEach
  <2> DEFINE p == PassengerOf(s)
  <2>1. /\ driver[d] \in DriverState \cup {None} /\ driver_file[d] \in DriverState \cup {None}
        /\ driver[d] # None
    BY NoneAssumption DEF IInv, TypeOK
  <2>2. Sound(driver[d]) /\ (driver_file[d] # None => Sound(driver_file[d]))
    BY DEF IInv, DriverInv, DriverSound
  <2>3. p \in Passengers
    <3>1. p \in Passengers \cup {None}  BY <2>1, <2>2, PassengerOfType
    <3> QED  BY <3>1
  <2>4. Serves(d, p) /\ Serves(e, p)  BY DEF Serves
  <2>5. Exclusive(p)  BY <2>3 DEF IInv
  <2> HIDE DEF p
  <2> QED  BY <2>4, <2>5 DEF Exclusive
<1> QED  BY <1>1, Invariant, PTL

\* Nobody travels, or is about to, that was not picked up, also when a
\* driver_arrived or an answer of before a crash reaches a later process.
THEOREM NobodyTravelsAlone == Spec => []TravelsCarried
<1>1. IInv => TravelsCarried
  <2> SUFFICES ASSUME IInv, NEW p \in Passengers, p \notin carried
               PROVE  /\ passenger[p].position = "origin"
                      /\ \A i \in 1..Len(mailbox[p]) :
                            mailbox[p][i].type \notin {"DriverArrived", "Traveling"}
    BY DEF TravelsCarried
  <2>1. NoneOf(mailbox[p], TravelMsg) /\ passenger[p].position = "origin"
    BY DEF IInv, PassengerInv, PassengerTravels
  <2>2. mailbox[p] \in Seq(Msg)  BY ActorsApart DEF IInv, TypeOK
  <2>3. \A i \in 1..Len(mailbox[p]) : mailbox[p][i] \in Msg  BY <2>2
  <2> QED  BY <2>1, <2>3 DEF NoneOf, TravelMsg, OfType
<1> QED  BY <1>1, Invariant, PTL

-----------------------------------------------------------------------------
(* The contract.                                                           *)

Serving == [d \in Drivers |-> PassengerOf(driver_file[d])]

\* A step that changes nobody's file but the one of d, and there not the passenger.
LEMMA FilesStand ==
    ASSUME NEW d \in Drivers, carried' = carried,
           \A e \in Drivers \ {d} : driver_file'[e] = driver_file[e],
           PassengerOf(driver_file'[d]) = PassengerOf(driver_file[d])
    PROVE  Serving' = Serving /\ carried' = carried
<1>1. \A e \in Drivers : PassengerOf(driver_file[e])' = PassengerOf(driver_file[e])
  BY DEF PassengerOf
<1> QED  BY <1>1 DEF Serving

LEMMA PassengerKeepsContract ==
    ASSUME NEW p \in Passengers,
           StartPassenger(p) \/ CrashPassenger(p) \/ Authorize(p) \/ PassengerStep(p)
    PROVE  UNCHANGED driverVars
BY DEF PassengerStep, StartPassenger, CrashPassenger, Authorize, Login, GetDrivers,
       DriversHandler, RequestDrive, KeepLooking, PaymentAuthorized, PaymentDeny, RideAccepted,
       DriverArrived, TravelOn, TravelEnds, Recover, RecoverResponse, ReconnectDriver, Becomes

\* A driver that has its passenger on disk is one that takes, picks up or sets
\* free in the contract.
LEMMA DriverKeepsContract ==
    ASSUME IInv, NEW d \in Drivers, DriverStep(d)
    PROVE  \/ UNCHANGED <<Serving, carried>>
           \/ \E p \in Passengers :
                 /\ Serving[d] = None /\ (\A e \in Drivers : Serving[e] # p) /\ p \notin carried
                 /\ Serving' = [Serving EXCEPT ![d] = p] /\ UNCHANGED carried
           \/ /\ Serving[d] # None
              /\ carried' = carried \cup {Serving[d]} /\ UNCHANGED Serving
           \/ /\ Serving[d] \in carried
              /\ Serving' = [Serving EXCEPT ![d] = None] /\ UNCHANGED carried
<1>1. /\ TypeOK /\ DriverInv(d)
      /\ driver[d] \in DriverState /\ driver[d] # None /\ Sound(driver[d])
      /\ driver_file \in [Drivers -> DriverState \cup {None}]
  BY NoneAssumption DEF IInv, TypeOK, DriverInv, DriverSound
<1>2. CASE UNCHANGED <<driver_file, carried>>
  BY <1>2 DEF Serving, PassengerOf
<1>3. CASE Register(d) \/ RideOn(d) \/ ReachDestination(d)
  <2>1. /\ driver_file' = [driver_file EXCEPT ![d] = driver[d]] /\ carried' = carried
        /\ Handles(d, "Register") \/ Handles(d, "RideToDestination")
    BY <1>3 DEF Register, RideOn, ReachDestination, RideStep
  <2>2. PassengerOf(driver[d]) = PassengerOf(driver_file[d])
    <3>1. "Register" # "Recovery" /\ "RideToDestination" # "Recovery"  OBVIOUS
    <3> QED  BY <2>1, <3>1, DriverAwake
  <2>3. /\ \A e \in Drivers \ {d} : driver_file'[e] = driver_file[e]
        /\ driver_file'[d] = driver[d]
    BY <1>1, <2>1
  <2>4. PassengerOf(driver_file'[d]) = PassengerOf(driver_file[d])  BY <2>2, <2>3
  <2> QED  BY <2>1, <2>3, <2>4, FilesStand
<1>4. CASE PickUpPassenger(d)
  <2>1. /\ Handles(d, "PickUpPassenger") /\ driver_file' = driver_file
        /\ carried' = carried \cup {driver[d].id_current_passenger}
    BY <1>4 DEF PickUpPassenger
  <2>2. /\ PassengerOf(driver[d]) = driver[d].id_current_passenger
        /\ driver[d].id_current_passenger \in Passengers
    BY <2>1, BusyOnWay
  <2>3. PassengerOf(driver[d]) = PassengerOf(driver_file[d])
    <3>1. "PickUpPassenger" # "Recovery"  OBVIOUS
    <3> QED  BY <2>1, <3>1, DriverAwake
  <2>4. Serving[d] = driver[d].id_current_passenger /\ Serving[d] # None
    BY <2>2, <2>3, ActorsApart DEF Serving
  <2>5. UNCHANGED Serving  BY <2>1 DEF Serving, PassengerOf
  <2> QED  BY <2>1, <2>4, <2>5
<1>5. CASE SaveState(d)
  <2>1. /\ saving[d] # None /\ carried' = carried
        /\ driver_file' = [driver_file EXCEPT ![d] = driver[d]]
    BY <1>5 DEF SaveState
  <2>2. saving[d] \in {"RequestRide", "EndRide"}  BY <2>1, SavingDriver
  <2>3. Serving' = [Serving EXCEPT ![d] = PassengerOf(driver[d])]
    <3>1. \A e \in Drivers : PassengerOf(driver_file[e])' =
             IF e = d THEN PassengerOf(driver[d]) ELSE PassengerOf(driver_file[e])
      BY <1>1, <2>1 DEF PassengerOf
    <3> QED  BY <3>1 DEF Serving
  <2>4. CASE saving[d] = "RequestRide"
    <3> DEFINE p == PassengerOf(driver[d])
    <3>1. /\ ~driver[d].is_available /\ PassengerOf(driver_file[d]) = None /\ p \notin carried
      BY <1>1, <2>4 DEF DriverInv, DriverSaves
    <3>2. p \in Passengers  BY <1>1, <3>1, PassengerOfType
    <3>3. Exclusive(p)  BY <3>2 DEF IInv
    <3>4. p # None  BY <3>2, ActorsApart
    <3>5. Serves(d, p)  BY DEF Serves
    <3> HIDE DEF p
    <3>6. \A e \in Drivers : PassengerOf(driver_file[e]) # p
      BY <3>1, <3>3, <3>4, <3>5 DEF Exclusive, Serves
    <3>7. Serving[d] = None /\ \A e \in Drivers : Serving[e] # p  BY <3>1, <3>6 DEF Serving
    <3>8. Serving' = [Serving EXCEPT ![d] = p]  BY <2>3 DEF p
    <3> QED  BY <2>1, <3>1, <3>2, <3>7, <3>8
  <2>5. CASE saving[d] = "EndRide"
    <3>1. driver[d].is_available /\ PassengerOf(driver_file[d]) \in carried
      BY <1>1, <2>5 DEF DriverInv, DriverSaves
    <3>2. PassengerOf(driver[d]) = None  BY <3>1 DEF PassengerOf
    <3>3. Serving[d] \in carried  BY <3>1 DEF Serving
    <3> QED  BY <2>1, <2>3, <3>2, <3>3
  <2> QED  BY <2>2, <2>4, <2>5
<1>6. CASE \/ Recovery(d) \/ RefuseRide(d) \/ AcceptRide(d) \/ StartRide(d)
           \/ ApproachPassenger(d) \/ EndRide(d) \/ PassengerRecover(d) \/ ReconnectPassenger(d)
  BY <1>2, <1>6 DEF Recovery, RefuseRide, AcceptRide, StartRide, ApproachPassenger, EndRide,
                    PassengerRecover, ReconnectPassenger, driverVars
<1> QED  BY <1>3, <1>4, <1>5, <1>6 DEF DriverStep

\* The drivers keep the contract with what they have on disk: they take one
\* passenger at a time, a passenger gets one driver once, and nobody is set free
\* that was not picked up, whatever crashes and recovers.
THEOREM ContractKept == Spec => KeepsContract
<1>1. Init => Contract!Init
  <2> SUFFICES ASSUME Init  PROVE Contract!Init
    OBVIOUS
  <2>1. \A d \in Drivers : PassengerOf(driver_file[d]) = None
    BY NewDriverFacts DEF Init
  <2>2. carried = {}  BY DEF Init
  <2> QED  BY <2>1, <2>2 DEF Contract!Init
<1>2. IInv /\ [Next]_vars => [Contract!Next]_(Contract!vars)
  <2> SUFFICES ASSUME IInv, [Next]_vars  PROVE [Contract!Next]_(Contract!vars)
    OBVIOUS
  <2>1. ASSUME UNCHANGED <<driver_file, carried>>
        PROVE  UNCHANGED Contract!vars
    BY <2>1 DEF Contract!vars, PassengerOf
  <2>2. ASSUME NEW d \in Drivers, DriverStep(d)
        PROVE  [Contract!Next]_(Contract!vars)
    <3>1. \/ UNCHANGED <<Serving, carried>>
          \/ \E p \in Passengers :
                /\ Serving[d] = None /\ (\A e \in Drivers : Serving[e] # p) /\ p \notin carried
                /\ Serving' = [Serving EXCEPT ![d] = p] /\ UNCHANGED carried
          \/ /\ Serving[d] # None
             /\ carried' = carried \cup {Serving[d]} /\ UNCHANGED Serving
          \/ /\ Serving[d] \in carried
             /\ Serving' = [Serving EXCEPT ![d] = None] /\ UNCHANGED carried
      BY <2>2, DriverKeepsContract
    <3>2. CASE UNCHANGED <<Serving, carried>>
      BY <3>2 DEF Serving, Contract!vars
    <3>3. CASE \E p \in Passengers :
                /\ Serving[d] = None /\ (\A e \in Drivers : Serving[e] # p) /\ p \notin carried
                /\ Serving' = [Serving EXCEPT ![d] = p] /\ UNCHANGED carried
      <4>1. \E p \in Passengers : Contract!Take(d, p)  BY <3>3 DEF Serving, Contract!Take
      <4> QED  BY <4>1 DEF Contract!Next
    <3>4. CASE /\ Serving[d] # None
               /\ carried' = carried \cup {Serving[d]} /\ UNCHANGED Serving
      <4>1. Contract!PickUp(d)  BY <3>4 DEF Serving, Contract!PickUp
      <4> QED  BY <4>1 DEF Contract!Next
    <3>5. CASE /\ Serving[d] \in carried
               /\ Serving' = [Serving EXCEPT ![d] = None] /\ UNCHANGED carried
      <4>1. Contract!SetFree(d)  BY <3>5 DEF Serving, Contract!SetFree
      <4> QED  BY <4>1 DEF Contract!Next
    <3> QED  BY <3>1, <3>2, <3>3, <3>4, <3>5
  <2>3. ASSUME NEW p \in Passengers,
               StartPassenger(p) \/ CrashPassenger(p) \/ Authorize(p) \/ PassengerStep(p)
        PROVE  UNCHANGED <<driver_file, carried>>
    BY <2>3, PassengerKeepsContract DEF driverVars
  <2>4. ASSUME NEW d \in Drivers, StartDriver(d) \/ CrashDriver(d)
        PROVE  UNCHANGED <<driver_file, carried>>
    BY <2>4 DEF StartDriver, CrashDriver, driverVars
  <2>5. ASSUME NEW d \in Drivers, NEW p \in Passengers, TellPassenger(d, p)
        PROVE  UNCHANGED <<driver_file, carried>>
    BY <2>5 DEF TellPassenger, driverVars
  <2>6. CASE UNCHANGED vars
    BY <2>1, <2>6 DEF vars, driverVars
  <2> QED  BY <2>1, <2>2, <2>3, <2>4, <2>5, <2>6 DEF Next
<1> QED  BY <1>1, <1>2, Invariant, PTL DEF Spec, KeepsContract, Contract!Spec

-----------------------------------------------------------------------------
(* Payments.  While nothing has crashed and nobody was started again, no   *)
(* message of a recovery is under way, so that only the end of a journey   *)
(* makes a passenger pay, and ends its only process.                       *)

AgainMsg  == OfType({"Recover", "RecoverResponse", "PassengerRecover"})
Untouched == counts.crashes = 0 /\ \A p \in Passengers : starts[p] <= 1
NoneAgain == \A a \in Actors : NoneOf(mailbox[a], AgainMsg)

FirstRides ==
    /\ NoneAgain
    /\ \A p \in Passengers :
          /\ p \in up => payments[p] = 0 /\ starts[p] # 0
          /\ starts[p] = 0 => payments[p] = 0 /\ passenger_file[p] = None
          /\ payments[p] <= (IF p \in carried THEN 1 ELSE 0)

FirstRidesInv == Untouched => FirstRides

\* Mailboxes that get nothing of a recovery.
LEMMA GrownClean ==
    ASSUME TypeOK, NoneAgain,
           \A a \in Actors : \E out \in Seq(Msg) :
              /\ NoneOf(out, AgainMsg)
              /\ \/ mailbox'[a] = mailbox[a] \o out
                 \/ mailbox[a] # <<>> /\ mailbox'[a] = Tail(mailbox[a]) \o out
                 \/ mailbox'[a] = out
    PROVE  NoneAgain'
<1> SUFFICES ASSUME NEW a \in Actors PROVE NoneOf(mailbox'[a], AgainMsg)
  BY DEF NoneAgain, AgainMsg, OfType
<1>1. mailbox[a] \in Seq(Msg) /\ NoneOf(mailbox[a], AgainMsg)  BY DEF TypeOK, NoneAgain
<1>2. PICK out \in Seq(Msg) :
         /\ NoneOf(out, AgainMsg)
         /\ \/ mailbox'[a] = mailbox[a] \o out
            \/ mailbox[a] # <<>> /\ mailbox'[a] = Tail(mailbox[a]) \o out
            \/ mailbox'[a] = out
  OBVIOUS
<1>3. CASE mailbox'[a] = mailbox[a] \o out  BY <1>1, <1>2, <1>3, AppendFacts
<1>4. CASE mailbox[a] # <<>> /\ mailbox'[a] = Tail(mailbox[a]) \o out
  <2>1. Tail(mailbox[a]) \in Seq(Msg) /\ Extends(Tail(mailbox[a]), mailbox[a], {})
    BY <1>1, <1>4, TailExtends
  <2>2. NoneOf(Tail(mailbox[a]), AgainMsg)  BY <1>1, <2>1, ExtendsUse
  <2> QED  BY <1>2, <1>4, <2>1, <2>2, AppendFacts
<1> QED  BY <1>2, <1>3, <1>4

LEMMA NothingAgain ==
    ASSUME TypeOK, NEW a \in Actors
    PROVE  /\ <<>> \in Seq(Msg) /\ NoneOf(<<>>, AgainMsg)
           /\ mailbox[a] \o <<>> = mailbox[a]
<1>1. mailbox[a] \in Seq(Msg)  BY DEF TypeOK
<1>2. <<>> \in Seq(Msg) /\ NoneOf(<<>>, AgainMsg)  BY DEF NoneOf
<1> QED  BY <1>1, <1>2, ConcatEmptySeq

LEMMA ContinueClean ==
    ASSUME TypeOK, NoneAgain, NEW a \in Actors, mailbox[a] # <<>>,
           NEW own \in Seq(Msg), NoneOf(own, AgainMsg), Continue(a, own)
    PROVE  NoneAgain'
<1>1. /\ mailbox'[a] = Tail(mailbox[a]) \o own
      /\ \A b \in Actors : b # a => mailbox'[b] = mailbox[b]
  BY ContinueFacts
<1>2. \A b \in Actors : \E out \in Seq(Msg) :
         /\ NoneOf(out, AgainMsg)
         /\ \/ mailbox'[b] = mailbox[b] \o out
            \/ mailbox[b] # <<>> /\ mailbox'[b] = Tail(mailbox[b]) \o out
            \/ mailbox'[b] = out
  BY <1>1, NothingAgain
<1> QED  BY <1>2, GrownClean

LEMMA ConcatMsgs ==
    ASSUME NEW q \in Seq(Msg), NEW o \in Seq(Msg), NEW u \in Seq(Msg)
    PROVE  (q \o o) \o u = q \o (o \o u)
BY ConcatAssociative

LEMMA MailClean ==
    ASSUME TypeOK, NoneAgain, NEW a \in Actors, mailbox[a] # <<>>,
           NEW own \in Seq(Msg), NoneOf(own, AgainMsg),
           NEW c, NEW m \in Msg, m \notin AgainMsg, Mail(a, own, c, <<m>>)
    PROVE  NoneAgain'
<1>1. <<m>> \in Seq(Msg) /\ NoneOf(<<m>>, AgainMsg)  BY ShortMailbox
<1>2. ASSUME NEW b \in Actors
      PROVE  \E out \in Seq(Msg) :
                /\ NoneOf(out, AgainMsg)
                /\ \/ mailbox'[b] = mailbox[b] \o out
                   \/ mailbox[b] # <<>> /\ mailbox'[b] = Tail(mailbox[b]) \o out
                   \/ mailbox'[b] = out
  <2> DEFINE rest == IF b = a THEN Tail(mailbox[b]) \o own ELSE mailbox[b]
  <2>1. mailbox'[b] = IF Running(c) /\ b = c.actor THEN rest \o <<m>> ELSE rest
    BY DEF Mail
  <2>2. mailbox[b] \in Seq(Msg)  BY DEF TypeOK
  <2>3. CASE b # a
    <3>1. mailbox'[b] = mailbox[b] \o <<m>> \/ mailbox'[b] = mailbox[b]  BY <2>1, <2>3
    <3> QED  BY <1>1, <3>1, NothingAgain
  <2>4. CASE b = a
    <3>1. Tail(mailbox[a]) \in Seq(Msg)  BY <2>2, <2>4, TailExtends
    <3>2. \/ mailbox'[a] = Tail(mailbox[a]) \o (own \o <<m>>)
          \/ mailbox'[a] = Tail(mailbox[a]) \o own
      <4>1. (Tail(mailbox[a]) \o own) \o <<m>> = Tail(mailbox[a]) \o (own \o <<m>>)
        BY <1>1, <3>1, ConcatMsgs
      <4> QED  BY <2>1, <2>4, <4>1
    <3>3. own \o <<m>> \in Seq(Msg) /\ NoneOf(own \o <<m>>, AgainMsg)
      BY <1>1, AppendFacts, ConcatProperties
    <3> QED  BY <2>4, <3>2, <3>3
  <2> QED  BY <2>3, <2>4
<1> QED  BY <1>2, GrownClean

LEMMA OneGets ==
    ASSUME TypeOK, NoneAgain, NEW a \in Actors, NEW out \in Seq(Msg), NoneOf(out, AgainMsg),
           \/ mailbox' = [mailbox EXCEPT ![a] = @ \o out]
           \/ mailbox' = [mailbox EXCEPT ![a] = out]
    PROVE  NoneAgain'
<1>1. \A b \in Actors : b # a => mailbox'[b] = mailbox[b]  BY DEF TypeOK
<1>2. mailbox'[a] = mailbox[a] \o out \/ mailbox'[a] = out  BY DEF TypeOK
<1>3. \A b \in Actors : \E o \in Seq(Msg) :
         /\ NoneOf(o, AgainMsg)
         /\ \/ mailbox'[b] = mailbox[b] \o o
            \/ mailbox[b] # <<>> /\ mailbox'[b] = Tail(mailbox[b]) \o o
            \/ mailbox'[b] = o
  BY <1>1, <1>2, NothingAgain
<1> QED  BY <1>3, GrownClean

\* Messages that are none of a recovery.
LEMMA PlainOnward ==
    ASSUME NEW t \in PlainType, t # "Recover", NEW u \in PlainType, u # "Recover"
    PROVE  /\ Plain(t) \in Msg /\ Plain(t) \notin AgainMsg
           /\ <<Plain(t)>> \in Seq(Msg) /\ NoneOf(<<Plain(t)>>, AgainMsg)
           /\ <<Plain(t), Plain(u)>> \in Seq(Msg) /\ NoneOf(<<Plain(t), Plain(u)>>, AgainMsg)
<1>1. Plain(t) \in Msg /\ Plain(t) \notin AgainMsg
  BY PlainMsg DEF AgainMsg, OfType, PlainType
<1>2. Plain(u) \in Msg /\ Plain(u) \notin AgainMsg
  BY PlainMsg DEF AgainMsg, OfType, PlainType
<1> QED  BY <1>1, <1>2, ShortMailbox

\* A step by which nobody starts, ends or pays.
LEMMA QuietClean ==
    ASSUME IInv, FirstRides, NoneAgain', UNCHANGED <<up, starts, payments>>,
           carried \subseteq carried',
           \A p \in Passengers : passenger_file'[p] # passenger_file[p] => p \in up
    PROVE  FirstRides'
<1> SUFFICES ASSUME NEW p \in Passengers
             PROVE  /\ p \in up' => payments'[p] = 0 /\ starts'[p] # 0
                    /\ starts'[p] = 0 => payments'[p] = 0 /\ passenger_file'[p] = None
                    /\ payments'[p] <= (IF p \in carried' THEN 1 ELSE 0)
  BY DEF FirstRides
<1>1. payments[p] \in Nat  BY DEF IInv, TypeOK
<1>2. /\ p \in up => payments[p] = 0 /\ starts[p] # 0
      /\ starts[p] = 0 => payments[p] = 0 /\ passenger_file[p] = None
      /\ payments[p] <= (IF p \in carried THEN 1 ELSE 0)
  BY DEF FirstRides
<1>3. payments'[p] <= (IF p \in carried' THEN 1 ELSE 0)  BY <1>1, <1>2
<1>4. starts'[p] = 0 => passenger_file'[p] = None  BY <1>2
<1> QED  BY <1>2, <1>3, <1>4

\* What a passenger does when nothing is being recovered.
LEMMA PassengerFirst ==
    ASSUME IInv, FirstRides, NEW p \in Passengers, PassengerStep(p) \/ Authorize(p)
    PROVE  FirstRides'
<1> USE DEF gatewayVars, driverVars, passengerVars
<1>1. /\ TypeOK /\ p \in Actors /\ mailbox[p] \in Seq(Msg) /\ NoneAgain
      /\ passenger[p] \in PassengerState
  BY PassengerTyped DEF FirstRides
<1>2. <<>> \in Seq(Msg) /\ NoneOf(<<>>, AgainMsg)  BY <1>1, NothingAgain
<1>3. ASSUME NEW t, Handles(p, t)
      PROVE  /\ p \in up /\ mailbox[p] # <<>> /\ Head(mailbox[p]) \in Msg
             /\ Head(mailbox[p]).type = t
             /\ t \notin {"Recover", "RecoverResponse", "PassengerRecover"}
  <2>1. /\ p \in up /\ mailbox[p] # <<>> /\ Head(mailbox[p]) \in Msg
        /\ Head(mailbox[p]).type = t
    BY <1>1, <1>3, HeadMsg
  <2>2. Head(mailbox[p]) \notin AgainMsg
    BY <1>1, <2>1, HeadFacts DEF NoneAgain
  <2> QED  BY <2>1, <2>2 DEF AgainMsg, OfType
<1>4. ASSUME NEW t, Handles(p, t), NEW own \in Seq(Msg), NoneOf(own, AgainMsg), Continue(p, own),
             UNCHANGED <<up, starts, payments, carried>>,
             \A q \in Passengers : passenger_file'[q] # passenger_file[q] => q = p
      PROVE  FirstRides'
  <2>1. NoneAgain'  BY <1>1, <1>3, <1>4, ContinueClean
  <2> QED  BY <1>3, <1>4, <2>1, QuietClean
<1>5. ASSUME NEW t, Handles(p, t), NEW s, NEW own \in Seq(Msg), NoneOf(own, AgainMsg),
             Becomes(p, s, own)
      PROVE  FirstRides'
  BY <1>1, <1>4, <1>5 DEF Becomes, TypeOK
<1>6. CASE Login(p) \/ GetDrivers(p) \/ KeepLooking(p) \/ DriverArrived(p)
  <2>1. \A S \in SUBSET Drivers : LET m == [type |-> "Drivers", drivers_info |-> S] IN
           m \in Msg /\ <<m>> \in Seq(Msg) /\ NoneOf(<<m>>, AgainMsg)
    <3> SUFFICES ASSUME NEW S \in SUBSET Drivers
                 PROVE  LET m == [type |-> "Drivers", drivers_info |-> S] IN
                        m \in Msg /\ <<m>> \in Seq(Msg) /\ NoneOf(<<m>>, AgainMsg)
      OBVIOUS
    <3> DEFINE m == [type |-> "Drivers", drivers_info |-> S]
    <3>1. m \in Msg  BY DEF Msg, PassengerMsg
    <3>2. m \notin AgainMsg  BY DEF AgainMsg, OfType
    <3> QED  BY <3>1, <3>2, ShortMailbox
  <2>2. Listed \in SUBSET Drivers /\ passenger[p].drivers_info \in SUBSET Drivers
    BY <1>1 DEF Listed, PassengerState
  <2>3. Plain("Traveling") \in Msg /\ <<Plain("Traveling")>> \in Seq(Msg)
        /\ NoneOf(<<Plain("Traveling")>>, AgainMsg)
    BY PlainOnward DEF PlainType
  <2>4. CASE Login(p)  BY <1>2, <1>4, <2>4 DEF Login
  <2>5. CASE GetDrivers(p)  BY <1>4, <2>1, <2>2, <2>5 DEF GetDrivers
  <2>6. CASE KeepLooking(p)  BY <1>4, <2>1, <2>2, <2>6 DEF KeepLooking
  <2>7. CASE DriverArrived(p)  BY <1>4, <2>3, <2>7 DEF DriverArrived
  <2> QED  BY <1>6, <2>4, <2>5, <2>6, <2>7
<1>7. CASE DriversHandler(p)
  <2>1. /\ Handles(p, "Drivers") /\ UNCHANGED <<up, starts, payments, carried>>
        /\ passenger_file' = [passenger_file EXCEPT ![p] = Saved(passenger[p])]
        /\ \/ Continue(p, <<>>)
           \/ \E S \in SUBSET Drivers : Continue(p, <<[type |-> "Drivers", drivers_info |-> S]>>)
    <3>1. /\ Handles(p, "Drivers") /\ UNCHANGED <<up, starts, payments, carried>>
          /\ passenger_file' = [passenger_file EXCEPT ![p] = Saved(passenger[p])]
          /\ \/ Continue(p, <<>>)
             \/ \E s \in Selected(Head(mailbox[p]).drivers_info) :
                   Continue(p, <<[type |-> "Drivers", drivers_info |-> s.rest]>>)
      BY <1>7 DEF DriversHandler
    <3>2. Head(mailbox[p]).drivers_info \in SUBSET Drivers  BY <1>3, <3>1, MsgOfType
    <3>3. \A s \in Selected(Head(mailbox[p]).drivers_info) : s.rest \in SUBSET Drivers
      BY <3>2 DEF Selected
    <3> QED  BY <3>1, <3>3
  <2>2. \A q \in Passengers : passenger_file'[q] # passenger_file[q] => q = p
    BY <1>1, <2>1 DEF TypeOK
  <2>3. CASE Continue(p, <<>>)  BY <1>2, <1>4, <2>1, <2>2, <2>3
  <2>4. ASSUME NEW S \in SUBSET Drivers,
               Continue(p, <<[type |-> "Drivers", drivers_info |-> S]>>)
        PROVE  FirstRides'
    <3> DEFINE m == [type |-> "Drivers", drivers_info |-> S]
    <3>1. m \in Msg  BY DEF Msg, PassengerMsg
    <3>2. m \notin AgainMsg  BY DEF AgainMsg, OfType
    <3>3. <<m>> \in Seq(Msg) /\ NoneOf(<<m>>, AgainMsg)  BY <3>1, <3>2, ShortMailbox
    <3> QED  BY <1>4, <2>1, <2>2, <2>4, <3>3
  <2> QED  BY <2>1, <2>3, <2>4
<1>8. CASE PaymentAuthorized(p) \/ PaymentDeny(p) \/ RideAccepted(p) \/ TravelOn(p)
  <2>1. /\ <<Plain("GetDrivers")>> \in Seq(Msg) /\ NoneOf(<<Plain("GetDrivers")>>, AgainMsg)
        /\ <<Plain("Traveling")>> \in Seq(Msg) /\ NoneOf(<<Plain("Traveling")>>, AgainMsg)
    BY PlainOnward DEF PlainType
  <2>2. CASE PaymentAuthorized(p)  BY <1>2, <1>5, <2>2 DEF PaymentAuthorized
  <2>3. CASE PaymentDeny(p)  BY <1>5, <2>1, <2>3 DEF PaymentDeny
  <2>4. CASE RideAccepted(p)  BY <1>2, <1>5, <2>4 DEF RideAccepted
  <2>5. CASE TravelOn(p)  BY <1>5, <2>1, <2>5 DEF TravelOn
  <2> QED  BY <1>8, <2>2, <2>3, <2>4, <2>5
<1>9. CASE RequestDrive(p) \/ ReconnectDriver(p)
  <2>1. ASSUME NEW t, Handles(p, t), NEW c, NEW m \in Msg, m \notin AgainMsg,
               Mail(p, <<>>, c, <<m>>),
               UNCHANGED <<up, starts, payments, carried, passenger_file>>
        PROVE  FirstRides'
    <3>1. NoneAgain'  BY <1>1, <1>2, <1>3, <2>1, MailClean
    <3> QED  BY <2>1, <3>1, QuietClean
  <2>2. /\ passenger[p].position \in Place
        /\ Self(p) \in Process(Passengers)
    BY <1>1 DEF PassengerState, TypeOK, Self, Process
  <2>3. CASE RequestDrive(p)
    <3> DEFINE m == [type |-> "RequestRide", from |-> Self(p),
                     position |-> passenger[p].position]
    <3>1. m \in Msg /\ m \notin AgainMsg  BY <2>2 DEF Msg, DriverMsg, AgainMsg, OfType
    <3>2. Handles(p, "RequestDrive") /\ Mail(p, <<>>, passenger[p].connection, <<m>>)
          /\ UNCHANGED <<up, starts, payments, carried, passenger_file>>
      BY <2>3 DEF RequestDrive
    <3> HIDE DEF m
    <3> QED  BY <2>1, <3>1, <3>2
  <2>4. CASE ReconnectDriver(p)
    <3> DEFINE m == [type |-> "ReconnectPassenger", from |-> Self(p),
                     position |-> passenger[p].position]
    <3>1. m \in Msg /\ m \notin AgainMsg  BY <2>2 DEF Msg, DriverMsg, AgainMsg, OfType
    <3>2. /\ Handles(p, "ReconnectDriver")
          /\ \/ \E c : Mail(p, <<>>, c, <<m>>)
             \/ Continue(p, <<>>)
          /\ UNCHANGED <<up, starts, payments, carried, passenger_file>>
      BY <2>4 DEF ReconnectDriver
    <3> HIDE DEF m
    <3> QED  BY <1>2, <1>4, <2>1, <3>1, <3>2
  <2> QED  BY <1>9, <2>3, <2>4
<1>10. CASE TravelEnds(p)
  <2>1. /\ Handles(p, "Traveling")
        /\ payments' = [payments EXCEPT ![p] = @ + 1]
        /\ up' = up \ {p} /\ mailbox' = [mailbox EXCEPT ![p] = <<>>]
        /\ passenger_file' = [passenger_file EXCEPT ![p] = Saved(passenger[p])]
        /\ UNCHANGED <<starts, carried>>
    BY <1>10 DEF TravelEnds, ConfirmPayment, Ends
  <2>2. p \in carried
    <3>1. Head(mailbox[p]) \in TravelMsg  BY <1>3, <2>1 DEF TravelMsg, OfType
    <3>2. ~NoneOf(mailbox[p], TravelMsg)  BY <1>1, <1>3, <2>1, <3>1, HeadFacts
    <3> QED  BY <3>2 DEF IInv, PassengerInv, PassengerTravels
  <2>3. NoneAgain'  BY <1>1, <1>2, <2>1, OneGets
  <2>4. p \in up /\ payments[p] = 0 /\ starts[p] # 0  BY <1>3, <2>1 DEF FirstRides
  <2>5. payments'[p] = 1 /\ \A q \in Passengers : q # p => /\ payments'[q] = payments[q]
                                                           /\ passenger_file'[q] = passenger_file[q]
    BY <1>1, <2>1, <2>4 DEF TypeOK
  <2> QED  BY <2>1, <2>2, <2>3, <2>4, <2>5 DEF FirstRides
<1>11. CASE Authorize(p)
  <2>1. PICK yes \in BOOLEAN : mailbox' = [mailbox EXCEPT ![p] = @ \o Decision(yes)]
    BY <1>11 DEF Authorize, authorize_payment
  <2>2. Decision(yes) \in Seq(Msg) /\ NoneOf(Decision(yes), AgainMsg)
    BY PlainOnward DEF Decision, PlainType
  <2>3. NoneAgain'  BY <1>1, <2>1, <2>2, OneGets
  <2> QED  BY <1>11, <2>3, QuietClean DEF Authorize
<1>12. ~Recover(p) /\ ~RecoverResponse(p)
  <2>1. ~Handles(p, "Recover") /\ ~Handles(p, "RecoverResponse")  BY <1>3
  <2> QED  BY <2>1 DEF Recover, RecoverResponse
<1> QED
  BY <1>6, <1>7, <1>8, <1>9, <1>10, <1>11, <1>12 DEF PassengerStep

\* And a driver.
LEMMA DriverFirst ==
    ASSUME IInv, FirstRides, NEW d \in Drivers, DriverStep(d)
    PROVE  FirstRides'
<1> USE DEF serverVars, gatewayVars, driverVars, passengerVars
<1>1. /\ TypeOK /\ d \in Actors /\ mailbox[d] \in Seq(Msg) /\ NoneAgain
  BY DriverTyped DEF FirstRides
<1>2. <<>> \in Seq(Msg) /\ NoneOf(<<>>, AgainMsg)  BY <1>1, NothingAgain
<1>3. ASSUME NEW t, Handles(d, t)
      PROVE  /\ mailbox[d] # <<>> /\ Head(mailbox[d]) \in Msg
             /\ t # "PassengerRecover"
  <2>1. /\ mailbox[d] # <<>> /\ Head(mailbox[d]) \in Msg /\ Head(mailbox[d]).type = t
    BY <1>1, <1>3, HeadMsg
  <2>2. Head(mailbox[d]) \notin AgainMsg
    BY <1>1, <2>1, HeadFacts DEF NoneAgain
  <2> QED  BY <2>1, <2>2 DEF AgainMsg, OfType
<1>4. UNCHANGED <<up, starts, payments, passenger_file>> /\ carried \subseteq carried'
  BY DEF DriverStep, Register, Recovery, RefuseRide, AcceptRide, SaveState, StartRide,
         ApproachPassenger, PickUpPassenger, RideOn, ReachDestination, RideStep, EndRide,
         PassengerRecover, ReconnectPassenger
<1>5. ASSUME NoneAgain' PROVE FirstRides'  BY <1>4, <1>5, QuietClean
<1>6. ASSUME NEW t, Handles(d, t), NEW own \in Seq(Msg), NoneOf(own, AgainMsg), Continue(d, own)
      PROVE  FirstRides'
  BY <1>1, <1>3, <1>5, <1>6, ContinueClean
<1>7. ASSUME NEW t, Handles(d, t), NEW own \in Seq(Msg), NoneOf(own, AgainMsg),
             NEW c, NEW m \in Msg, m \notin AgainMsg, Mail(d, own, c, <<m>>)
      PROVE  FirstRides'
  BY <1>1, <1>3, <1>5, <1>7, MailClean
<1>8. \A t \in {"RideToDestination", "PickUpPassenger", "KeepLooking", "DriverArrived",
                "StartRide", "EndRide"} :
         /\ Plain(t) \in Msg /\ Plain(t) \notin AgainMsg
         /\ <<Plain(t)>> \in Seq(Msg) /\ NoneOf(<<Plain(t)>>, AgainMsg)
  BY PlainOnward DEF PlainType
<1>9. CASE Register(d) \/ EndRide(d) \/ ReconnectPassenger(d)
  BY <1>2, <1>6, <1>9 DEF Register, EndRide, ReconnectPassenger
<1>10. CASE Recovery(d)
  <2>1. /\ Handles(d, "Recovery")
        /\ Continue(d, <<>>) \/ Continue(d, Resume(driver_file[d]))
    BY <1>10 DEF Recovery
  <2>2. Resume(driver_file[d]) \in Seq(Msg) /\ NoneOf(Resume(driver_file[d]), AgainMsg)
    BY <1>8 DEF Resume
  <2> QED  BY <1>2, <1>6, <2>1, <2>2
<1>11. CASE RefuseRide(d)
  <2>1. /\ Handles(d, "RequestRide")
        /\ Mail(d, <<>>, Head(mailbox[d]).from, <<Plain("KeepLooking")>>)
    BY <1>11 DEF RefuseRide
  <2> QED  BY <1>2, <1>7, <1>8, <2>1
<1>12. CASE AcceptRide(d)
  <2> DEFINE m == [type |-> "RideAccepted", socket |-> d]
  <2>1. /\ Handles(d, "RequestRide")
        /\ Mail(d, <<>>, Head(mailbox[d]).from, <<m>>)
    BY <1>12 DEF AcceptRide
  <2>2. m \in Msg /\ m \notin AgainMsg  BY DEF Msg, PassengerMsg, AgainMsg, OfType
  <2> HIDE DEF m
  <2> QED  BY <1>2, <1>7, <2>1, <2>2
<1>13. CASE SaveState(d)
  <2>1. \/ mailbox' = [mailbox EXCEPT ![d] = Append(@, Plain("StartRide"))]
        \/ UNCHANGED mailbox
    BY <1>13 DEF SaveState
  <2>2. CASE UNCHANGED mailbox  BY <1>1, <1>5, <2>2 DEF NoneAgain, NoneOf
  <2>3. CASE mailbox' = [mailbox EXCEPT ![d] = Append(@, Plain("StartRide"))]
    <3>1. Append(mailbox[d], Plain("StartRide")) = mailbox[d] \o <<Plain("StartRide")>>
      BY <1>1, <1>8
    <3>2. mailbox' = [mailbox EXCEPT ![d] = @ \o <<Plain("StartRide")>>]  BY <2>3, <3>1
    <3> QED  BY <1>1, <1>5, <1>8, <3>2, OneGets
  <2> QED  BY <2>1, <2>2, <2>3
<1>14. CASE StartRide(d) \/ ApproachPassenger(d)
  <2>1. \E t : Handles(d, t) /\ Continue(d, <<Plain("PickUpPassenger")>>)
    BY <1>14 DEF StartRide, ApproachPassenger
  <2> QED  BY <1>6, <1>8, <2>1
<1>15. CASE PickUpPassenger(d)
  <2>1. /\ Handles(d, "PickUpPassenger")
        /\ Mail(d, <<Plain("RideToDestination")>>, current_passenger_connection[d],
                <<Plain("DriverArrived")>>)
    BY <1>15 DEF PickUpPassenger
  <2> QED  BY <1>7, <1>8, <2>1
<1>16. CASE RideOn(d) \/ ReachDestination(d)
  <2>1. /\ Handles(d, "RideToDestination")
        /\ Continue(d, <<Plain("RideToDestination")>>) \/ Continue(d, <<Plain("EndRide")>>)
    BY <1>16 DEF RideOn, ReachDestination, RideStep
  <2> QED  BY <1>6, <1>8, <2>1
<1>17. ~PassengerRecover(d)  BY <1>3 DEF PassengerRecover
<1> QED
  BY <1>9, <1>10, <1>11, <1>12, <1>13, <1>14, <1>15, <1>16, <1>17 DEF DriverStep

\* Processes start once and do not crash.
LEMMA FirstRidesStep == IInv /\ FirstRidesInv /\ [Next]_vars => FirstRidesInv'
<1> SUFFICES ASSUME IInv, FirstRidesInv, [Next]_vars, Untouched' PROVE FirstRides'
  BY DEF FirstRidesInv
<1> USE DEF serverVars, gatewayVars, driverVars, passengerVars
<1>1. TypeOK /\ counts \in [starts : Nat, crashes : Nat, denials : Nat]  BY DEF IInv, TypeOK
<1>2. ASSUME NEW p \in Passengers, CrashPassenger(p) PROVE FALSE
  <2>1. counts'.crashes = counts.crashes + 1 /\ counts.crashes \in Nat
    BY <1>1, <1>2 DEF CrashPassenger, Crashes
  <2> QED  BY <2>1 DEF Untouched
<1>3. ASSUME NEW d \in Drivers, CrashDriver(d) PROVE FALSE
  <2>1. counts'.crashes = counts.crashes + 1 /\ counts.crashes \in Nat
    BY <1>1, <1>3 DEF CrashDriver, Crashes
  <2> QED  BY <2>1 DEF Untouched
<1>4. ASSUME NEW p \in Passengers, StartPassenger(p) PROVE FirstRides'
  <2>1. p \in Actors /\ starts[p] \in Nat /\ starts \in [Actors -> Nat]
    BY <1>1, ActorsApart DEF TypeOK
  <2>2. /\ p \notin up /\ up' = up \cup {p} /\ starts' = [starts EXCEPT ![p] = @ + 1]
        /\ counts'.crashes = counts.crashes
        /\ UNCHANGED <<payments, passenger_file, carried>>
    BY <1>1, <1>4 DEF StartPassenger, Starts
  <2>3. starts'[p] = starts[p] + 1 /\ \A q \in Passengers : q # p => starts'[q] = starts[q]
    BY <2>1, <2>2, ActorsApart
  <2>4. starts[p] = 0 /\ Untouched
    <3>1. starts'[p] <= 1 /\ \A q \in Passengers : q # p => starts[q] <= 1
      BY <2>3 DEF Untouched
    <3> QED  BY <2>1, <2>2, <2>3, <3>1 DEF Untouched
  <2>5. FirstRides  BY <2>4 DEF FirstRidesInv
  <2>6. passenger_file[p] = None /\ payments[p] = 0  BY <2>4, <2>5 DEF FirstRides
  <2>7. mailbox' = [mailbox EXCEPT ![p] = <<Plain("Login"), Plain("GetDrivers")>>]
    BY <1>4, <2>6 DEF StartPassenger
  <2>8. NoneAgain'
    <3>1. /\ <<Plain("Login"), Plain("GetDrivers")>> \in Seq(Msg)
          /\ NoneOf(<<Plain("Login"), Plain("GetDrivers")>>, AgainMsg)
      BY PlainOnward DEF PlainType
    <3>2. NoneAgain  BY <2>5 DEF FirstRides
    <3> QED  BY <1>1, <2>1, <2>7, <3>1, <3>2, OneGets
  <2> QED  BY <2>1, <2>2, <2>3, <2>4, <2>5, <2>6, <2>8 DEF FirstRides
<1>5. ASSUME NEW d \in Drivers, StartDriver(d) PROVE FirstRides'
  <2>1. d \in Actors /\ starts \in [Actors -> Nat] /\ \A p \in Passengers : p # d
    BY <1>1, ActorsApart DEF TypeOK
  <2>2. /\ up' = up \cup {d} /\ starts' = [starts EXCEPT ![d] = @ + 1]
        /\ counts'.crashes = counts.crashes
        /\ UNCHANGED <<payments, passenger_file, carried>>
    BY <1>1, <1>5 DEF StartDriver, Starts
  <2>3. \A p \in Passengers : starts'[p] = starts[p] /\ (p \in up' <=> p \in up)
    BY <2>1, <2>2, ActorsApart
  <2>4. FirstRides  BY <2>2, <2>3 DEF Untouched, FirstRidesInv
  <2>5. NoneAgain'
    <3>1. /\ <<Plain("Register")>> \in Seq(Msg) /\ NoneOf(<<Plain("Register")>>, AgainMsg)
          /\ <<Plain("Recovery"), Plain("Register")>> \in Seq(Msg)
          /\ NoneOf(<<Plain("Recovery"), Plain("Register")>>, AgainMsg)
      BY PlainOnward DEF PlainType
    <3>2. NoneAgain  BY <2>4 DEF FirstRides
    <3>3. \/ mailbox' = [mailbox EXCEPT ![d] = <<Plain("Register")>>]
          \/ mailbox' = [mailbox EXCEPT ![d] = <<Plain("Recovery"), Plain("Register")>>]
      BY <1>5 DEF StartDriver
    <3> QED  BY <1>1, <2>1, <3>1, <3>2, <3>3, OneGets
  <2> QED  BY <2>2, <2>3, <2>4, <2>5 DEF FirstRides
<1>6. ASSUME UNCHANGED starts, counts'.crashes = counts.crashes PROVE FirstRides
  BY <1>6 DEF Untouched, FirstRidesInv
<1>7. ASSUME NEW p \in Passengers, PassengerStep(p) \/ Authorize(p) PROVE FirstRides'
  <2>1. UNCHANGED starts /\ counts'.crashes = counts.crashes
    <3>1. PassengerStep(p) => UNCHANGED <<starts, counts>>
      BY DEF PassengerStep, Login, GetDrivers, DriversHandler, RequestDrive, KeepLooking,
             PaymentAuthorized, PaymentDeny, RideAccepted, DriverArrived, TravelOn, Becomes,
             TravelEnds, Recover, RecoverResponse, ReconnectDriver
    <3>2. Authorize(p) => UNCHANGED starts /\ counts'.crashes = counts.crashes
      BY <1>1 DEF Authorize
    <3> QED  BY <1>7, <3>1, <3>2
  <2> QED  BY <1>6, <1>7, <2>1, PassengerFirst
<1>8. ASSUME NEW d \in Drivers, DriverStep(d) PROVE FirstRides'
  <2>1. UNCHANGED <<starts, counts>>
    BY <1>8
    DEF DriverStep, Register, Recovery, RefuseRide, AcceptRide, SaveState, StartRide,
        ApproachPassenger, PickUpPassenger, RideOn, ReachDestination, RideStep, EndRide,
        PassengerRecover, ReconnectPassenger
  <2> QED  BY <1>6, <1>8, <2>1, DriverFirst
<1>9. ASSUME NEW d \in Drivers, NEW p \in Passengers, TellPassenger(d, p) PROVE FirstRides'
  <2>1. /\ UNCHANGED <<up, starts, counts, payments, passenger_file, carried>>
        /\ \/ mailbox' = [mailbox EXCEPT ![p] = Append(@, [type |-> "ReconnectDriver",
                                                             socket |-> d])]
           \/ UNCHANGED mailbox
    BY <1>9 DEF TellPassenger
  <2>2. FirstRides /\ NoneAgain  BY <1>6, <2>1 DEF FirstRides
  <2>3. CASE UNCHANGED mailbox
    BY <2>1, <2>2, <2>3, QuietClean DEF NoneAgain, NoneOf
  <2>4. CASE mailbox' = [mailbox EXCEPT ![p] = Append(@, [type |-> "ReconnectDriver",
                                                          socket |-> d])]
    <3> DEFINE m == [type |-> "ReconnectDriver", socket |-> d]
    <3>1. m \in Msg /\ m \notin AgainMsg  BY DEF Msg, PassengerMsg, AgainMsg, OfType
    <3>2. p \in Actors /\ mailbox[p] \in Seq(Msg)  BY <1>1, ActorsApart DEF TypeOK
    <3> HIDE DEF m
    <3>3. Append(mailbox[p], m) = mailbox[p] \o <<m>>  BY <3>1, <3>2
    <3>4. <<m>> \in Seq(Msg) /\ NoneOf(<<m>>, AgainMsg)  BY <3>1, ShortMailbox
    <3>5. mailbox' = [mailbox EXCEPT ![p] = @ \o <<m>>]  BY <2>4, <3>3 DEF m
    <3>6. NoneAgain'  BY <1>1, <2>2, <3>2, <3>4, <3>5, OneGets
    <3> QED  BY <2>1, <2>2, <3>6, QuietClean
  <2> QED  BY <2>1, <2>3, <2>4
<1>10. CASE UNCHANGED vars
  <2>1. UNCHANGED <<up, starts, counts, payments, passenger_file, carried, mailbox>>
    BY <1>10 DEF vars
  <2>2. FirstRides  BY <1>6, <2>1
  <2> QED  BY <2>1, <2>2, QuietClean DEF FirstRides, NoneAgain, NoneOf
<1> QED
  BY <1>2, <1>3, <1>4, <1>5, <1>7, <1>8, <1>9, <1>10 DEF Next

\* Where nothing crashed and nobody was started again, a passenger confirms one
\* payment at most, and only once it was picked up.
THEOREM RidesPaidOnce == Spec => []PaysForRide
<1>1. Init => FirstRidesInv
  <2> SUFFICES ASSUME Init PROVE FirstRides  BY DEF FirstRidesInv
  <2>1. \A a \in Actors : NoneOf(mailbox[a], AgainMsg)  BY DEF Init, NoneOf
  <2>2. \A p \in Passengers : p \in Actors  BY ActorsApart
  <2> QED  BY <2>1, <2>2 DEF Init, FirstRides, NoneAgain
<1>2. IInv /\ FirstRidesInv => PaysForRide
  BY DEF FirstRidesInv, Untouched, FirstRides, PaysForRide, PaidPerRide
<1> QED  BY <1>1, <1>2, Invariant, FirstRidesStep, PTL DEF Spec
=============================================================================
