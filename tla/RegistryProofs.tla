--------------------------- MODULE RegistryProofs ---------------------------
(***************************************************************************)
(* Registry: the registry of every server, and every copy of it on its way *)
(* to a replica, keeps each driver in one map and gives every name an id   *)
(* of its own, for any number of clients, crashes and elections.  The      *)
(* strengthening: no id is above the counter of the same registry, so that *)
(* the next id is new wherever the counter was copied to.  Until the first *)
(* leader stops, an id that a driver keeps leads to its passenger.         *)
(***************************************************************************)
EXTENDS Registry, SequenceTheorems, WellFoundedInduction, TLAPS

IdsBounded(r) ==
    /\ \A d \in Drivers : Known(r, d) => DriverId(r, d) >= 1 /\ DriverId(r, d) <= r.ids_count
    /\ \A p \in Passengers : r.passengers[p] <= r.ids_count

Good(r) == OneStateEach(r) /\ IdsDistinct(r) /\ IdsBounded(r)

RegistriesGood ==
    \A s \in Server :
        /\ Good(registry[s])
        /\ \A i \in DOMAIN pongs[s] : Good(pongs[s][i])

IInv == TypeOK /\ RegistriesGood

-----------------------------------------------------------------------------
(* Registries.                                                             *)

\* Nothing in the four fields of a registry but what RegistryState says.
LEMMA RegistryType ==
    ASSUME NEW r \in RegistryState
    PROVE  /\ r = [drivers |-> r.drivers, busy_drivers |-> r.busy_drivers,
                   passengers |-> r.passengers, ids_count |-> r.ids_count]
           /\ r.drivers \in [Drivers -> DriverInfo \cup {None}]
           /\ r.busy_drivers \in [Drivers -> DriverInfo \cup {None}]
           /\ r.passengers \in [Passengers -> Nat]
           /\ r.ids_count \in Nat
           /\ \A d \in Drivers : /\ r.drivers[d] # None => r.drivers[d].id \in Nat
                                 /\ r.busy_drivers[d] # None => r.busy_drivers[d].id \in Nat
BY DEF RegistryState, DriverInfo

\* A new server knows nobody.
LEMMA EmptyGood == Empty \in RegistryState /\ Good(Empty)
<1>1. Empty \in RegistryState  BY DEF Empty, RegistryState
<1>2. \A d \in Drivers : ~Known(Empty, d)  BY DEF Empty, Known
<1>3. \A p \in Passengers : Empty.passengers[p] = 0 /\ Empty.ids_count = 0  BY DEF Empty
<1>4. OneStateEach(Empty)  BY DEF Empty, OneStateEach
<1>5. IdsDistinct(Empty)  BY <1>2, <1>3 DEF IdsDistinct
<1>6. IdsBounded(Empty)  BY <1>2, <1>3 DEF IdsBounded
<1> QED  BY <1>1, <1>4, <1>5, <1>6 DEF Good

\* Two registries with the same passengers and counter, the second of which knows
\* the drivers of the first or fewer of them, under the same ids.
LEMMA SameIds ==
    ASSUME NEW r, NEW q, Good(r), OneStateEach(q),
           q.passengers = r.passengers, q.ids_count = r.ids_count,
           \A d \in Drivers : Known(q, d) => Known(r, d) /\ DriverId(q, d) = DriverId(r, d)
    PROVE  Good(q)
<1>1. IdsDistinct(q)  BY DEF Good, IdsDistinct
<1>2. IdsBounded(q)  BY DEF Good, IdsBounded
<1> QED  BY <1>1, <1>2 DEF Good

\* NewDriver: the new driver gets an id above all others.
LEMMA RegisteredGood ==
    ASSUME NEW r \in RegistryState, NEW m,
           m.name \in Drivers, m.socket \in Nat, m.position \in Nat,
           Good(r), ~Known(r, m.name)
    PROVE  Registered(r, m) \in RegistryState /\ Good(Registered(r, m))
<1> DEFINE q    == Registered(r, m)
           new  == r.ids_count + 1
           info == [id |-> new, socket |-> m.socket, position |-> m.position]
<1>1. /\ q.drivers = [r.drivers EXCEPT ![m.name] = info]
      /\ q.busy_drivers = r.busy_drivers
      /\ q.passengers = r.passengers
      /\ q.ids_count = new
      /\ q \in RegistryState
  <2>1. q = [r EXCEPT !.ids_count = new, !.drivers[m.name] = info]
    BY DEF Registered
  <2>2. info \in DriverInfo  BY RegistryType DEF DriverInfo
  <2>3. r.drivers \in [Drivers -> DriverInfo \cup {None}] /\ new \in Nat  BY RegistryType
  <2>4. [r.drivers EXCEPT ![m.name] = info] \in [Drivers -> DriverInfo \cup {None}]
    BY <2>2, <2>3
  <2> HIDE DEF info, new, q
  <2> QED  BY <2>1, <2>3, <2>4, RegistryType DEF RegistryState
<1> HIDE DEF q
<1>2. \A d \in Drivers : d # m.name => /\ Known(q, d) <=> Known(r, d)
                                       /\ DriverId(q, d) = DriverId(r, d)
  BY <1>1, RegistryType DEF Known, DriverId
<1>3. r.busy_drivers[m.name] = None /\ r.drivers[m.name] = None  BY DEF Known
<1>4. Known(q, m.name) => DriverId(q, m.name) = new
  BY <1>1, <1>3, RegistryType DEF Known, DriverId
<1>5. OneStateEach(q)
  BY <1>1, <1>3, RegistryType DEF Good, OneStateEach
<1>6. /\ new \in Nat /\ new >= 1 /\ r.ids_count \in Nat
      /\ \A d \in Drivers : Known(r, d) => DriverId(r, d) \in Nat /\ DriverId(r, d) < new
      /\ \A p \in Passengers : r.passengers[p] \in Nat /\ r.passengers[p] < new
  BY RegistryType DEF Good, IdsBounded, DriverId, Known
<1>7. IdsDistinct(q)
  <2>1. ASSUME NEW d \in Drivers, NEW e \in Drivers, Known(q, d), Known(q, e), d # e
        PROVE  DriverId(q, d) # DriverId(q, e)
    BY <1>2, <1>4, <1>6, <2>1 DEF Good, IdsDistinct
  <2>2. ASSUME NEW d \in Drivers, NEW p \in Passengers, Known(q, d)
        PROVE  DriverId(q, d) # q.passengers[p]
    BY <1>1, <1>2, <1>4, <1>6, <2>2 DEF Good, IdsDistinct
  <2>3. ASSUME NEW p \in Passengers, NEW o \in Passengers, p # o, q.passengers[p] # 0
        PROVE  q.passengers[p] # q.passengers[o]
    BY <1>1, <2>3 DEF Good, IdsDistinct
  <2> QED  BY <2>1, <2>2, <2>3 DEF IdsDistinct
<1>8. IdsBounded(q)
  <2>1. ASSUME NEW d \in Drivers, Known(q, d)
        PROVE  DriverId(q, d) >= 1 /\ DriverId(q, d) <= q.ids_count
    BY <1>1, <1>2, <1>4, <1>6, <2>1 DEF Good, IdsBounded
  <2>2. \A p \in Passengers : q.passengers[p] <= q.ids_count
    BY <1>1, <1>6
  <2> QED  BY <2>1, <2>2 DEF IdsBounded
<1> QED  BY <1>1, <1>5, <1>7, <1>8 DEF Good, q

\* BusyDriver: the driver keeps its id in the other map.
LEMMA MovedToBusyGood ==
    ASSUME NEW r \in RegistryState, NEW d \in Drivers, Good(r)
    PROVE  MovedToBusy(r, d) \in RegistryState /\ Good(MovedToBusy(r, d))
<1>1. CASE r.drivers[d] = None
  BY <1>1 DEF MovedToBusy
<1>2. CASE r.drivers[d] # None
  <2> DEFINE q == MovedToBusy(r, d)
  <2>1. q = [r EXCEPT !.drivers[d] = None, !.busy_drivers[d] = r.drivers[d]]
    BY <1>2 DEF MovedToBusy
  <2> HIDE DEF q
  <2>2. /\ q.drivers = [r.drivers EXCEPT ![d] = None]
        /\ q.busy_drivers = [r.busy_drivers EXCEPT ![d] = r.drivers[d]]
        /\ q.passengers = r.passengers /\ q.ids_count = r.ids_count
    BY <2>1, RegistryType
  <2>3. q.drivers \in [Drivers -> DriverInfo \cup {None}]
    BY <2>2, RegistryType
  <2>4. q.busy_drivers \in [Drivers -> DriverInfo \cup {None}]
    BY <2>2, RegistryType
  <2>5. q \in RegistryState
    BY <2>1, <2>2, <2>3, <2>4, RegistryType DEF RegistryState
  <2>6. OneStateEach(q)
    BY <2>2, RegistryType DEF Good, OneStateEach
  <2>7. ASSUME NEW e \in Drivers, Known(q, e)
        PROVE  Known(r, e) /\ DriverId(q, e) = DriverId(r, e)
    <3>1. CASE e = d  BY <1>2, <2>2, <3>1, RegistryType DEF Known, DriverId
    <3>2. CASE e # d  BY <2>2, <2>7, <3>2, RegistryType DEF Known, DriverId
    <3> QED  BY <3>1, <3>2
  <2>8. Good(q)  BY <2>2, <2>6, <2>7, SameIds
  <2> QED  BY <2>5, <2>8 DEF q
<1> QED  BY <1>1, <1>2

\* UpdateDriver: and back.
LEMMA MovedToAvailableGood ==
    ASSUME NEW r \in RegistryState, NEW d \in Drivers, NEW pos \in Nat, Good(r)
    PROVE  /\ MovedToAvailable(r, d, pos) \in RegistryState
           /\ Good(MovedToAvailable(r, d, pos))
<1>1. CASE r.busy_drivers[d] = None
  BY <1>1 DEF MovedToAvailable
<1>2. CASE r.busy_drivers[d] # None
  <2> DEFINE q    == MovedToAvailable(r, d, pos)
             info == [r.busy_drivers[d] EXCEPT !.position = pos]
  <2>1. q = [r EXCEPT !.busy_drivers[d] = None, !.drivers[d] = info]
    BY <1>2 DEF MovedToAvailable
  <2>2. info \in DriverInfo /\ info.id = r.busy_drivers[d].id
    BY <1>2, RegistryType DEF DriverInfo
  <2> HIDE DEF q, info
  <2>3. /\ q.drivers = [r.drivers EXCEPT ![d] = info]
        /\ q.busy_drivers = [r.busy_drivers EXCEPT ![d] = None]
        /\ q.passengers = r.passengers /\ q.ids_count = r.ids_count
    BY <2>1, RegistryType
  <2>4. q.drivers \in [Drivers -> DriverInfo \cup {None}]
    BY <2>2, <2>3, RegistryType
  <2>5. q.busy_drivers \in [Drivers -> DriverInfo \cup {None}]
    BY <2>3, RegistryType
  <2>6. q \in RegistryState
    BY <2>1, <2>3, <2>4, <2>5, RegistryType DEF RegistryState
  <2>7. OneStateEach(q)
    BY <2>3, RegistryType DEF Good, OneStateEach
  <2>8. r.drivers[d] = None
    BY <1>2 DEF Good, OneStateEach
  <2>9. ASSUME NEW e \in Drivers, Known(q, e)
        PROVE  Known(r, e) /\ DriverId(q, e) = DriverId(r, e)
    <3>1. CASE e = d
      BY <1>2, <2>2, <2>3, <2>8, <2>9, <3>1, RegistryType DEF Known, DriverId
    <3>2. CASE e # d  BY <2>3, <2>9, <3>2, RegistryType DEF Known, DriverId
    <3> QED  BY <3>1, <3>2
  <2>10. Good(q)  BY <2>3, <2>7, <2>9, SameIds
  <2> QED  BY <2>6, <2>10 DEF q
<1> QED  BY <1>1, <1>2
LEMMA AtSocketType ==
    ASSUME NEW info \in DriverInfo \cup {None}, NEW s \in Nat
    PROVE  /\ AtSocket(info, s) \in DriverInfo \cup {None}
           /\ info = None => AtSocket(info, s) = None
           /\ info # None => AtSocket(info, s).id = info.id
BY DEF AtSocket, DriverInfo

\* UpdateDriverSocket: ids and maps stay.
LEMMA WithSocketGood ==
    ASSUME NEW r \in RegistryState, NEW d \in Drivers, NEW s \in Nat, Good(r)
    PROVE  WithSocket(r, d, s) \in RegistryState /\ Good(WithSocket(r, d, s))
<1> DEFINE q == WithSocket(r, d, s)
           x == AtSocket(r.drivers[d], s)
           y == AtSocket(r.busy_drivers[d], s)
<1>1. q = [r EXCEPT !.drivers[d] = x, !.busy_drivers[d] = y]
  BY DEF WithSocket
<1>2. /\ x \in DriverInfo \cup {None}
      /\ r.drivers[d] = None => x = None
      /\ r.drivers[d] # None => x.id = r.drivers[d].id
  BY RegistryType, AtSocketType
<1>3. /\ y \in DriverInfo \cup {None}
      /\ r.busy_drivers[d] = None => y = None
      /\ r.busy_drivers[d] # None => y.id = r.busy_drivers[d].id
  BY RegistryType, AtSocketType
<1> HIDE DEF q, x, y
<1>4. /\ q.drivers = [r.drivers EXCEPT ![d] = x]
      /\ q.busy_drivers = [r.busy_drivers EXCEPT ![d] = y]
      /\ q.passengers = r.passengers /\ q.ids_count = r.ids_count
  BY <1>1, RegistryType
<1>5. q.drivers \in [Drivers -> DriverInfo \cup {None}]
  BY <1>2, <1>4, RegistryType
<1>6. q.busy_drivers \in [Drivers -> DriverInfo \cup {None}]
  BY <1>3, <1>4, RegistryType
<1>7. q \in RegistryState
  BY <1>1, <1>4, <1>5, <1>6, RegistryType DEF RegistryState
<1>8. OneStateEach(q)
  BY <1>2, <1>3, <1>4, RegistryType DEF Good, OneStateEach
<1>9. ASSUME NEW e \in Drivers, Known(q, e)
      PROVE  Known(r, e) /\ DriverId(q, e) = DriverId(r, e)
  <2>1. CASE e = d
    <3>1. r.drivers[d] = None \/ r.busy_drivers[d] = None  BY DEF Good, OneStateEach
    <3>2. q.drivers[d] = x /\ q.busy_drivers[d] = y  BY <1>4, RegistryType
    <3> QED  BY <1>2, <1>3, <1>9, <2>1, <3>1, <3>2 DEF Known, DriverId
  <2>2. CASE e # d  BY <1>4, <1>9, <2>2, RegistryType DEF Known, DriverId
  <2> QED  BY <2>1, <2>2
<1>10. Good(q)  BY <1>4, <1>8, <1>9, SameIds
<1> QED  BY <1>7, <1>10 DEF q

\* PassengerLogin: a known passenger keeps its id, a new one gets one above all.
LEMMA LoggedInGood ==
    ASSUME NEW r \in RegistryState, NEW p \in Passengers, Good(r)
    PROVE  /\ LoggedIn(r, p) \in RegistryState
           /\ Good(LoggedIn(r, p))
           /\ IdFor(r, p) \in Nat
<1>1. r.passengers[p] \in Nat /\ r.ids_count \in Nat  BY RegistryType
<1>2. CASE r.passengers[p] # 0
  <2>1. LoggedIn(r, p) = [r EXCEPT !.ids_count = r.ids_count, !.passengers[p] = r.passengers[p]]
    BY <1>2 DEF LoggedIn, IdFor, CountAfter
  <2>2. LoggedIn(r, p) = r
    <3>1. [r.passengers EXCEPT ![p] = r.passengers[p]] = r.passengers  BY RegistryType
    <3>2. LoggedIn(r, p) = [drivers |-> r.drivers, busy_drivers |-> r.busy_drivers,
                            passengers |-> r.passengers, ids_count |-> r.ids_count]
      BY <2>1, <3>1 DEF RegistryState
    <3> QED  BY <3>2, RegistryType
  <2> QED  BY <1>1, <1>2, <2>2 DEF IdFor
<1>3. CASE r.passengers[p] = 0
  <2> DEFINE q   == LoggedIn(r, p)
             new == r.ids_count + 1
  <2>1. q = [r EXCEPT !.ids_count = new, !.passengers[p] = new] /\ IdFor(r, p) = new
    BY <1>3 DEF LoggedIn, IdFor, CountAfter
  <2>2. /\ new \in Nat /\ new >= 1
        /\ \A d \in Drivers : Known(r, d) => DriverId(r, d) \in Nat /\ DriverId(r, d) < new
        /\ \A o \in Passengers : r.passengers[o] \in Nat /\ r.passengers[o] < new
    BY RegistryType DEF Good, IdsBounded, DriverId, Known
  <2> HIDE DEF q
  <2>3. /\ q.drivers = r.drivers /\ q.busy_drivers = r.busy_drivers
        /\ q.passengers = [r.passengers EXCEPT ![p] = new] /\ q.ids_count = new
    BY <2>1, RegistryType
  <2>4. q \in RegistryState
    <3>1. q.passengers \in [Passengers -> Nat]  BY <2>2, <2>3, RegistryType
    <3> QED  BY <2>1, <2>2, <2>3, <3>1, RegistryType DEF RegistryState
  <2>5. \A d \in Drivers : /\ Known(q, d) <=> Known(r, d)
                            /\ DriverId(q, d) = DriverId(r, d)
    BY <2>3 DEF Known, DriverId
  <2>6. \A o \in Passengers : q.passengers[o] = IF o = p THEN new ELSE r.passengers[o]
    BY <2>3, RegistryType
  <2>7. OneStateEach(q)  BY <2>3 DEF Good, OneStateEach
  <2>8. IdsDistinct(q)
    <3>1. ASSUME NEW d \in Drivers, NEW e \in Drivers, Known(q, d), Known(q, e), d # e
          PROVE  DriverId(q, d) # DriverId(q, e)
      BY <2>5, <3>1 DEF Good, IdsDistinct
    <3>2. ASSUME NEW d \in Drivers, NEW o \in Passengers, Known(q, d)
          PROVE  DriverId(q, d) # q.passengers[o]
      BY <2>2, <2>5, <2>6, <3>2 DEF Good, IdsDistinct
    <3>3. ASSUME NEW o \in Passengers, NEW u \in Passengers, o # u, q.passengers[o] # 0
          PROVE  q.passengers[o] # q.passengers[u]
      <4>1. CASE o = p  BY <2>2, <2>6, <3>3, <4>1
      <4>2. CASE u = p  BY <2>2, <2>6, <3>3, <4>2
      <4>3. CASE o # p /\ u # p  BY <2>6, <3>3, <4>3 DEF Good, IdsDistinct
      <4> QED  BY <4>1, <4>2, <4>3
    <3> QED  BY <3>1, <3>2, <3>3 DEF IdsDistinct
  <2>9. IdsBounded(q)
    <3>1. ASSUME NEW d \in Drivers, Known(q, d)
          PROVE  DriverId(q, d) >= 1 /\ DriverId(q, d) <= q.ids_count
      BY <2>2, <2>3, <2>5, <3>1 DEF Good, IdsBounded
    <3>2. \A o \in Passengers : q.passengers[o] <= q.ids_count
      BY <2>2, <2>3, <2>6
    <3> QED  BY <3>1, <3>2 DEF IdsBounded
  <2> QED  BY <2>1, <2>2, <2>4, <2>7, <2>8, <2>9 DEF Good, q
<1> QED  BY <1>2, <1>3

-----------------------------------------------------------------------------
(* Messages, sequences and the highest server.                             *)

LEMMA MsgFields ==
    ASSUME NEW m \in Msg
    PROVE  /\ m.type = "new_driver" =>
                 m.name \in Drivers /\ m.socket \in Nat /\ m.position \in Nat
           /\ m.type = "available_driver" => m.position \in Nat
           /\ m.type = "reconnect_driver" => m.name \in Drivers /\ m.socket \in Nat
           /\ m.type = "login" => m.start \in Nat
BY DEF Msg

LEMMA HeadTail ==
    ASSUME NEW S, NEW q \in Seq(S), q # <<>>
    PROVE  Head(q) \in S /\ Tail(q) \in Seq(S)
OBVIOUS

LEMMA AppendType ==
    ASSUME NEW S, NEW q \in Seq(S), NEW e \in S
    PROVE  Append(q, e) \in Seq(S)
OBVIOUS

LEMMA EmptyIsSeq == \A S : <<>> \in Seq(S)
OBVIOUS

\* Counting keeps the counters what they are.
LEMMA Counted ==
    ASSUME NEW c \in Counts
    PROVE  /\ [c EXCEPT !.leader_crashes = @ + 1] \in Counts
           /\ [c EXCEPT !.driver_crashes = @ + 1] \in Counts
           /\ [c EXCEPT !.logins = @ + 1] \in Counts
           /\ [c EXCEPT !.rides = @ + 1] \in Counts
           /\ [c EXCEPT !.pongs = @ + 1] \in Counts
           /\ [c EXCEPT !.sockets = @ + 1] \in Counts
<1>1. /\ c.leader_crashes + 1 \in Nat /\ c.driver_crashes + 1 \in Nat /\ c.logins + 1 \in Nat
      /\ c.rides + 1 \in Nat /\ c.pongs + 1 \in Nat /\ c.sockets + 1 \in Nat
  BY DEF Counts
<1>2. [c EXCEPT !.leader_crashes = @ + 1] \in Counts  BY <1>1 DEF Counts
<1>3. [c EXCEPT !.driver_crashes = @ + 1] \in Counts  BY <1>1 DEF Counts
<1>4. [c EXCEPT !.logins = @ + 1] \in Counts  BY <1>1 DEF Counts
<1>5. [c EXCEPT !.rides = @ + 1] \in Counts  BY <1>1 DEF Counts
<1>6. [c EXCEPT !.pongs = @ + 1] \in Counts  BY <1>1 DEF Counts
<1>7. [c EXCEPT !.sockets = @ + 1] \in Counts  BY <1>1 DEF Counts
<1> QED  BY <1>2, <1>3, <1>4, <1>5, <1>6, <1>7

\* What is behind the head of a sequence was there before.
LEMMA TailElement ==
    ASSUME NEW S, NEW q \in Seq(S), q # <<>>, NEW i \in DOMAIN Tail(q)
    PROVE  \E j \in DOMAIN q : Tail(q)[i] = q[j]
<1>1. Len(Tail(q)) = Len(q) - 1 /\ Tail(q) \in Seq(S) /\ Len(q) \in Nat
  BY HeadTailProperties
<1>2. i \in 1..Len(q) - 1  BY <1>1
<1>3. i + 1 \in DOMAIN q  BY <1>1, <1>2
<1>4. Tail(q)[i] = q[i + 1]  BY <1>2, HeadTailProperties
<1> QED  BY <1>3, <1>4

\* The last element stays the last until it is the head.
LEMMA TailEnd ==
    ASSUME NEW S, NEW q \in Seq(S), q # <<>>
    PROVE  /\ Tail(q) # <<>> => Tail(q)[Len(Tail(q))] = q[Len(q)]
           /\ Tail(q) = <<>> => Len(q) = 1
<1>1. /\ Len(Tail(q)) = Len(q) - 1 /\ Tail(q) \in Seq(S) /\ Len(q) \in Nat
      /\ \A i \in 1..Len(q) - 1 : Tail(q)[i] = q[i + 1]
  BY HeadTailProperties
<1>2. CASE Tail(q) # <<>>
  <2>1. Len(Tail(q)) \in Nat \ {0}  BY <1>1, <1>2, EmptySeq
  <2> QED  BY <1>1, <1>2, <2>1
<1>3. CASE Tail(q) = <<>>
  <2>1. Len(Tail(q)) = 0  BY <1>3, EmptySeq
  <2> QED  BY <1>1, <1>3, <2>1
<1> QED  BY <1>2, <1>3

\* Every set of numbers has a least one.
LEMMA LeastNumber ==
    ASSUME NEW T \in SUBSET Nat, T # {}
    PROVE  \E m \in T : \A k \in T : m <= k
<1> DEFINE R == {p \in Nat \X Nat : p[1] < p[2]}
<1>1. IsWellFoundedOn(R, Nat)
  BY NatLessThanWellFounded DEF OpToRel
<1>2. PICK m \in T : \A k \in T : <<k, m>> \notin R
  <2> HIDE DEF R
  <2> QED  BY <1>1, WFMin
<1>3. ASSUME NEW k \in T PROVE m <= k
  <2>1. k \in Nat /\ m \in Nat
    OBVIOUS
  <2>2. k < m => <<k, m>> \in R
    BY <2>1
  <2>3. QED
    BY <1>2, <2>1, <2>2
<1>4. QED
  BY <1>3

\* Elect: there is a highest server among those that run.
LEMMA HighestType ==
    ASSUME NEW S \in SUBSET Server, S # {}
    PROVE  Highest(S) \in S
<1> DEFINE below == {n \in Nat : \E s \in S : n = MAX_SERVERS - s}
<1>1. \A s \in S : s \in Nat /\ s <= MAX_SERVERS /\ MAX_SERVERS \in Nat
  BY RegistryAssumption
<1>2. below # {} /\ below \subseteq Nat
  <2>1. PICK s \in S : TRUE  OBVIOUS
  <2>2. MAX_SERVERS - s \in below  BY <1>1, <2>1
  <2> QED  BY <2>2
<1>3. PICK n \in below : \A k \in below : n <= k
  BY <1>2, LeastNumber
<1>4. PICK h \in S : n = MAX_SERVERS - h
  BY <1>3
<1>5. \A s \in S : h >= s
  <2>1. TAKE s \in S
  <2>2. MAX_SERVERS - s \in below  BY <1>1
  <2>3. MAX_SERVERS - h <= MAX_SERVERS - s  BY <1>3, <1>4, <2>2
  <2> QED  BY <1>1, <2>3
<1> QED  BY <1>4, <1>5 DEF Highest
-----------------------------------------------------------------------------
(* Handlers of the leader.                                                 *)

\* A handler that leaves the leader a good registry, and no other server a new one.
LEMMA LeaderUpdate ==
    ASSUME IInv, leader \in Server, NEW q \in RegistryState, Good(q),
           registry' = [registry EXCEPT ![leader] = q], UNCHANGED pongs
    PROVE  registry' \in [Server -> RegistryState] /\ RegistriesGood'
<1>1. registry' \in [Server -> RegistryState]  BY DEF IInv, TypeOK
<1>2. \A s \in Server : Good(registry'[s])
  BY DEF IInv, TypeOK, RegistriesGood
<1>3. \A s \in Server : \A i \in DOMAIN pongs'[s] : Good(pongs'[s][i])
  BY DEF IInv, RegistriesGood
<1> QED  BY <1>1, <1>2, <1>3 DEF RegistriesGood

LEMMA UnchangedRegistries ==
    ASSUME RegistriesGood, UNCHANGED <<registry, pongs>>
    PROVE  RegistriesGood'
BY DEF RegistriesGood

\* What Received takes and leaves.
LEMMA ReceivedType ==
    ASSUME TypeOK, NEW c \in Client, NEW type, Received(c, type)
    PROVE  /\ leader \in Server
           /\ Head(wire[c]) \in Msg /\ Head(wire[c]).type = type
           /\ wire' \in [Client -> Seq(Msg)]
           /\ UNCHANGED <<alive, leader, up, link, retries, pending, is_available, position,
                          id_current_passenger, driver_socket, file, rider, abandoned, counts>>
<1>1. wire[c] \in Seq(Msg) /\ wire[c] # <<>>  BY DEF TypeOK, Received
<1>2. Head(wire[c]) \in Msg /\ Tail(wire[c]) \in Seq(Msg)  BY <1>1, HeadTail
<1>3. wire' = [wire EXCEPT ![c] = Tail(@)]  BY DEF Received
<1>4. wire' \in [Client -> Seq(Msg)]  BY <1>2, <1>3 DEF TypeOK
<1> QED  BY <1>2, <1>4 DEF Received, TypeOK, driverVars

LEMMA HandleInv ==
    ASSUME IInv, NEW c \in Client, Handle(c)
    PROVE  IInv'
<1> USE DEF IInv
<1> DEFINE r == registry[leader]
           m == Head(wire[c])
<1>0. leader \in Server => r \in RegistryState /\ Good(r)
  BY DEF TypeOK, RegistriesGood
<1>1. ASSUME c \in Drivers, NewDriver(c) PROVE IInv'
  <2>1. Received(c, "new_driver") /\ UNCHANGED <<passengers_address, pongs, id, starts, replies>>
    BY <1>1 DEF NewDriver, passengerVars
  <2>2. m.name \in Drivers /\ m.socket \in Nat /\ m.position \in Nat
    BY <2>1, ReceivedType, MsgFields
  <2>3. CASE Known(r, m.name)
    <3>1. own' = Append(own, [name |-> m.name, socket |-> m.socket]) /\ UNCHANGED registry
      BY <1>1, <2>3 DEF NewDriver
    <3>2. [name |-> m.name, socket |-> m.socket] \in SocketUpdate  BY <2>2 DEF SocketUpdate
    <3>3. own' \in Seq(SocketUpdate)  BY <3>1, <3>2, AppendType DEF TypeOK
    <3>4. TypeOK'  BY <2>1, <3>1, <3>3, ReceivedType DEF TypeOK
    <3> QED  BY <2>1, <3>1, <3>4, UnchangedRegistries
  <2>4. CASE ~Known(r, m.name)
    <3>1. registry' = [registry EXCEPT ![leader] = Registered(r, m)] /\ UNCHANGED own
      BY <1>1, <2>4 DEF NewDriver
    <3>2. Registered(r, m) \in RegistryState /\ Good(Registered(r, m))
      BY <1>0, <2>1, <2>2, <2>4, ReceivedType, RegisteredGood
    <3>3. registry' \in [Server -> RegistryState] /\ RegistriesGood'
      BY <2>1, <3>1, <3>2, ReceivedType, LeaderUpdate
    <3>4. TypeOK'  BY <2>1, <3>1, <3>3, ReceivedType DEF TypeOK
    <3> QED  BY <3>3, <3>4
  <2> QED  BY <2>3, <2>4
<1>2. ASSUME c \in Drivers, BusyDriver(c) PROVE IInv'
  <2>1. /\ Received(c, "busy_driver")
        /\ UNCHANGED <<passengers_address, own, pongs, id, starts, replies>>
        /\ registry' = [registry EXCEPT ![leader] = MovedToBusy(r, c)]
    BY <1>2 DEF BusyDriver, passengerVars
  <2>2. MovedToBusy(r, c) \in RegistryState /\ Good(MovedToBusy(r, c))
    BY <1>0, <1>2, <2>1, ReceivedType, MovedToBusyGood
  <2>3. registry' \in [Server -> RegistryState] /\ RegistriesGood'
    BY <2>1, <2>2, ReceivedType, LeaderUpdate
  <2>4. TypeOK'  BY <2>1, <2>3, ReceivedType DEF TypeOK
  <2> QED  BY <2>3, <2>4
<1>3. ASSUME c \in Drivers, UpdateDriver(c) PROVE IInv'
  <2>1. /\ Received(c, "available_driver")
        /\ UNCHANGED <<passengers_address, own, pongs, id, starts, replies>>
        /\ registry' = [registry EXCEPT ![leader] = MovedToAvailable(r, c, m.position)]
    BY <1>3 DEF UpdateDriver, passengerVars
  <2>2. m.position \in Nat  BY <2>1, ReceivedType, MsgFields
  <2>3. /\ MovedToAvailable(r, c, m.position) \in RegistryState
        /\ Good(MovedToAvailable(r, c, m.position))
    BY <1>0, <1>3, <2>1, <2>2, ReceivedType, MovedToAvailableGood
  <2>4. registry' \in [Server -> RegistryState] /\ RegistriesGood'
    BY <2>1, <2>3, ReceivedType, LeaderUpdate
  <2>5. TypeOK'  BY <2>1, <2>4, ReceivedType DEF TypeOK
  <2> QED  BY <2>4, <2>5
<1>4. ASSUME c \in Drivers, ReconnectDriver(c) PROVE IInv'
  <2>1. /\ Received(c, "reconnect_driver")
        /\ own' = Append(own, [name |-> m.name, socket |-> m.socket])
        /\ UNCHANGED <<registry, passengers_address, pongs, id, starts, replies>>
    BY <1>4 DEF ReconnectDriver, passengerVars
  <2>2. [name |-> m.name, socket |-> m.socket] \in SocketUpdate
    BY <2>1, ReceivedType, MsgFields DEF SocketUpdate
  <2>3. own' \in Seq(SocketUpdate)  BY <2>1, <2>2, AppendType DEF TypeOK
  <2>4. TypeOK'  BY <2>1, <2>3, ReceivedType DEF TypeOK
  <2> QED  BY <2>1, <2>4, UnchangedRegistries
<1>5. ASSUME c \in Passengers, PassengerLogin(c) PROVE IInv'
  <2> DEFINE i == IdFor(r, c)
  <2>1. /\ Received(c, "login")
        /\ registry' = [registry EXCEPT ![leader] = LoggedIn(r, c)]
        /\ passengers_address' =
              [passengers_address EXCEPT ![leader] = WithAddress(@, i, c, m.start)]
        /\ replies' = [replies EXCEPT ![c] = Append(@, i)] \/ replies' = replies
        /\ UNCHANGED <<own, pongs, id, starts>>
    BY <1>5 DEF PassengerLogin
  <2>2. LoggedIn(r, c) \in RegistryState /\ Good(LoggedIn(r, c)) /\ i \in Nat
    BY <1>0, <1>5, <2>1, ReceivedType, LoggedInGood
  <2>3. registry' \in [Server -> RegistryState] /\ RegistriesGood'
    BY <2>1, <2>2, ReceivedType, LeaderUpdate
  <2> HIDE DEF i
  <2>4. passengers_address' \in [Server -> SUBSET Address]
    <3>1. m.start \in Nat  BY <2>1, ReceivedType, MsgFields
    <3> HIDE DEF m
    <3>2. Connection(i, c, m.start) \in Address  BY <1>5, <2>2, <3>1 DEF Connection, Address
    <3>3. \A a \in SUBSET Address : WithAddress(a, i, c, m.start) \in SUBSET Address
      BY <3>2 DEF WithAddress
    <3> QED  BY <2>1, <3>3 DEF TypeOK
  <2>5. replies' \in [Passengers -> Seq(Nat)]
    <3>1. Append(replies[c], i) \in Seq(Nat)  BY <1>5, <2>2, AppendType DEF TypeOK
    <3> QED  BY <2>1, <3>1 DEF TypeOK
  <2>6. TypeOK'  BY <2>1, <2>3, <2>4, <2>5, ReceivedType DEF TypeOK
  <2> QED  BY <2>3, <2>6
<1> QED  BY <1>1, <1>2, <1>3, <1>4, <1>5 DEF Handle
-----------------------------------------------------------------------------
(* Other steps of servers.                                                 *)

LEMMA UpdateDriverSocketInv == IInv /\ UpdateDriverSocket => IInv'
<1> SUFFICES ASSUME IInv, UpdateDriverSocket PROVE IInv'  OBVIOUS
<1> USE DEF IInv
<1> DEFINE m == Head(own)
           q == WithSocket(registry[leader], m.name, m.socket)
<1>1. /\ own # <<>> /\ own' = Tail(own)
      /\ registry' = [registry EXCEPT ![leader] = q]
      /\ UNCHANGED <<alive, leader, passengers_address, pongs, up, link, wire, retries,
                     pending, is_available, position, id_current_passenger,
                     driver_socket, file, rider, abandoned, id, starts, replies, counts>>
  BY DEF UpdateDriverSocket, netVars, driverVars, passengerVars
<1>2. m \in SocketUpdate /\ own' \in Seq(SocketUpdate)
  BY <1>1, HeadTail DEF TypeOK
<1>3. registry' \in [Server -> RegistryState] /\ RegistriesGood'
  <2>1. CASE leader \in Server
    <3>1. registry[leader] \in RegistryState /\ Good(registry[leader])
      BY <2>1 DEF TypeOK, RegistriesGood
    <3>2. m.name \in Drivers /\ m.socket \in Nat  BY <1>2 DEF SocketUpdate
    <3>3. q \in RegistryState /\ Good(q)  BY <3>1, <3>2, WithSocketGood
    <3> QED  BY <1>1, <2>1, <3>3, LeaderUpdate
  <2>2. CASE leader \notin Server
    <3>1. UNCHANGED registry  BY <1>1, <2>2 DEF TypeOK
    <3> QED  BY <1>1, <3>1, UnchangedRegistries DEF TypeOK
  <2> QED  BY <2>1, <2>2
<1> HIDE DEF q
<1>4. TypeOK'  BY <1>1, <1>2, <1>3 DEF TypeOK
<1> QED  BY <1>3, <1>4

LEMMA PongInv == ASSUME IInv, NEW s \in Server, Pong(s) PROVE IInv'
<1> USE DEF IInv
<1>1. /\ leader \in Server /\ s \in Server
      /\ counts' = [counts EXCEPT !.pongs = @ + 1]
      /\ pongs' = [pongs EXCEPT ![s] = Append(@, registry[leader])]
      /\ UNCHANGED <<alive, leader, registry, passengers_address, own, up, link, wire,
                     retries, pending, is_available, position, id_current_passenger,
                     driver_socket, file, rider, abandoned, id, starts, replies>>
  BY DEF Pong, TypeOK, netVars, driverVars, passengerVars
<1>2. registry[leader] \in RegistryState /\ Good(registry[leader])
  BY <1>1 DEF TypeOK, RegistriesGood
<1>3. Append(pongs[s], registry[leader]) \in Seq(RegistryState)
  BY <1>1, <1>2, AppendType DEF TypeOK
<1>4. pongs' \in [Server -> Seq(RegistryState)]
  BY <1>1, <1>3 DEF TypeOK
<1>5. counts' \in Counts  BY <1>1, Counted DEF TypeOK
<1>6. TypeOK'  BY <1>1, <1>4, <1>5 DEF TypeOK
<1>7. ASSUME NEW t \in Server, NEW i \in DOMAIN pongs'[t] PROVE Good(pongs'[t][i])
  <2>1. CASE t # s  BY <1>1, <1>7, <2>1 DEF TypeOK, RegistriesGood
  <2>2. CASE t = s
    <3>1. pongs'[s] = Append(pongs[s], registry[leader]) /\ pongs[s] \in Seq(RegistryState)
      BY <1>1 DEF TypeOK
    <3>2. \/ i \in DOMAIN pongs[s] /\ pongs'[s][i] = pongs[s][i]
          \/ pongs'[s][i] = registry[leader]
      BY <1>7, <2>2, <3>1
    <3> QED  BY <1>2, <2>2, <3>2 DEF RegistriesGood
  <2> QED  BY <2>1, <2>2
<1>8. RegistriesGood'  BY <1>1, <1>7 DEF RegistriesGood
<1> QED  BY <1>6, <1>8

LEMMA UpdateNetworkStateInv ==
    ASSUME IInv, NEW s \in Server, UpdateNetworkState(s) PROVE IInv'
<1> USE DEF IInv
<1>1. /\ pongs[s] # <<>>
      /\ pongs' = [pongs EXCEPT ![s] = Tail(@)]
      /\ registry' = [registry EXCEPT ![s] = Head(pongs[s])]
      /\ UNCHANGED <<alive, leader, passengers_address, own, up, link, wire, retries,
                     pending, is_available, position, id_current_passenger,
                     driver_socket, file, rider, abandoned, id, starts, replies, counts>>
  BY DEF UpdateNetworkState, netVars, driverVars, passengerVars
<1>2. pongs[s] \in Seq(RegistryState)  BY DEF TypeOK
<1>3. Head(pongs[s]) \in RegistryState /\ Tail(pongs[s]) \in Seq(RegistryState)
  BY <1>1, <1>2, HeadTail
<1>4. Good(Head(pongs[s]))
  <2>1. 1 \in DOMAIN pongs[s] /\ Head(pongs[s]) = pongs[s][1]  BY <1>1, <1>2
  <2> QED  BY <2>1 DEF RegistriesGood
<1>5. registry' \in [Server -> RegistryState] /\ \A t \in Server : Good(registry'[t])
  BY <1>1, <1>3, <1>4 DEF TypeOK, RegistriesGood
<1>6. ASSUME NEW t \in Server, NEW i \in DOMAIN pongs'[t] PROVE Good(pongs'[t][i])
  <2>1. CASE t # s  BY <1>1, <1>6, <2>1 DEF TypeOK, RegistriesGood
  <2>2. CASE t = s
    <3>1. pongs'[s] = Tail(pongs[s])  BY <1>1 DEF TypeOK
    <3>2. PICK j \in DOMAIN pongs[s] : pongs'[s][i] = pongs[s][j]
      BY <1>1, <1>2, <1>6, <2>2, <3>1, TailElement
    <3> QED  BY <2>2, <3>2 DEF RegistriesGood
  <2> QED  BY <2>1, <2>2
<1>7. pongs' \in [Server -> Seq(RegistryState)]  BY <1>1, <1>3 DEF TypeOK
<1>8. TypeOK'  BY <1>1, <1>5, <1>7 DEF TypeOK
<1> QED  BY <1>5, <1>6, <1>8 DEF RegistriesGood

LEMMA LeaderCrashInv == IInv /\ LeaderCrash => IInv'
<1> SUFFICES ASSUME IInv, LeaderCrash PROVE IInv'  OBVIOUS
<1> USE DEF IInv
<1>1. /\ leader \in Server
      /\ counts' = [counts EXCEPT !.leader_crashes = @ + 1]
      /\ alive' = alive \ {leader} /\ leader' = None
      /\ registry' = [registry EXCEPT ![leader] = Empty]
      /\ passengers_address' = [passengers_address EXCEPT ![leader] = {}]
      /\ own' = <<>> /\ wire' = [c \in Client |-> <<>>]
      /\ UNCHANGED <<pongs, up, link, retries, pending, is_available, position,
                     id_current_passenger, driver_socket, file, rider, abandoned, id, starts, replies>>
  BY DEF LeaderCrash, TypeOK, driverVars, passengerVars
<1>2. registry' \in [Server -> RegistryState] /\ RegistriesGood'
  BY <1>1, EmptyGood, LeaderUpdate
<1>3. counts' \in Counts  BY <1>1, Counted DEF TypeOK
<1>4. own' \in Seq(SocketUpdate) /\ wire' \in [Client -> Seq(Msg)]
  BY <1>1, EmptyIsSeq
<1>5. TypeOK'  BY <1>1, <1>2, <1>3, <1>4 DEF TypeOK
<1> QED  BY <1>2, <1>5

LEMMA ElectInv == IInv /\ Elect => IInv'
<1> SUFFICES ASSUME IInv, Elect PROVE IInv'  OBVIOUS
<1> USE DEF IInv
<1>1. /\ alive # {} /\ leader' = Highest(alive)
      /\ UNCHANGED <<alive, registry, passengers_address, own, pongs, up, link, wire,
                     retries, pending, is_available, position, id_current_passenger,
                     driver_socket, file, rider, abandoned, id, starts, replies, counts>>
  BY DEF Elect, netVars, driverVars, passengerVars
<1>2. leader' \in Server  BY <1>1, HighestType DEF TypeOK
<1>3. TypeOK'  BY <1>1, <1>2 DEF TypeOK
<1> QED  BY <1>1, <1>3, UnchangedRegistries
-----------------------------------------------------------------------------
(* Clients.  None of their steps touches a registry.                       *)

LEMMA SendType ==
    ASSUME TypeOK, NEW c \in Client, NEW m \in Msg, Send(c, m)
    PROVE  wire' \in [Client -> Seq(Msg)] /\ retries' \in [Client -> Seq(Msg)]
<1>1. Append(wire[c], m) \in Seq(Msg) /\ Append(retries[c], m) \in Seq(Msg)
  BY AppendType DEF TypeOK
<1>2. wire' \in [Client -> Seq(Msg)]  BY <1>1 DEF TypeOK, Send
<1>3. retries' \in [Client -> Seq(Msg)]  BY <1>1 DEF TypeOK, Send
<1> QED  BY <1>2, <1>3

LEMMA SavedType ==
    ASSUME TypeOK, NEW d \in Drivers
    PROVE  Saved(d) \in DriverFile
BY DEF TypeOK, Saved, DriverFile

LEMMA ClientStepType ==
    ASSUME TypeOK, NEW c \in Client, ClientStep(c)
    PROVE  TypeOK' /\ UNCHANGED <<registry, pongs>>
<1> USE DEF serverVars, netVars, driverVars, passengerVars
<1>1. ASSUME NoticeEof(c) PROVE TypeOK' /\ UNCHANGED <<registry, pongs>>
  BY <1>1 DEF NoticeEof, TypeOK
<1>2. ASSUME Reconnect(c) PROVE TypeOK' /\ UNCHANGED <<registry, pongs>>
  <2>1. /\ retries[c] # <<>> /\ retries' = [retries EXCEPT ![c] = Tail(@)]
        /\ \/ /\ leader # None
              /\ link' = [link EXCEPT ![c] = leader]
              /\ wire' = [wire EXCEPT ![c] = Append(@, Head(retries[c]))]
           \/ UNCHANGED <<link, wire>>
        /\ UNCHANGED <<serverVars, up, pending, driverVars, passengerVars, counts>>
    BY <1>2 DEF Reconnect
  <2>2. Head(retries[c]) \in Msg /\ Tail(retries[c]) \in Seq(Msg)
    BY <2>1, HeadTail DEF TypeOK
  <2>3. Append(wire[c], Head(retries[c])) \in Seq(Msg)
    BY <2>2, AppendType DEF TypeOK
  <2>4. retries' \in [Client -> Seq(Msg)]  BY <2>1, <2>2 DEF TypeOK
  <2>5. wire' \in [Client -> Seq(Msg)] /\ link' \in [Client -> Server \cup {None}]
    BY <2>1, <2>3 DEF TypeOK
  <2> QED  BY <2>1, <2>4, <2>5 DEF TypeOK
<1>3. ASSUME c \in Drivers, Register(c) PROVE TypeOK' /\ UNCHANGED <<registry, pongs>>
  <2> DEFINE m == [type |-> "new_driver", name |-> c, socket |-> driver_socket[c], position |-> 0]
  <2>1. m \in Msg  BY <1>3 DEF Msg, TypeOK
  <2>2. Send(c, m)  BY <1>3 DEF Register
  <2> HIDE DEF m
  <2>3. wire' \in [Client -> Seq(Msg)] /\ retries' \in [Client -> Seq(Msg)]
    BY <2>1, <2>2, SendType
  <2>4. file' \in [Drivers -> DriverFile \cup {None}]
    BY <1>3, SavedType DEF Register, TypeOK
  <2> QED  BY <1>3, <2>3, <2>4 DEF Register, TypeOK
<1>4. ASSUME c \in Drivers, TellBusy(c) PROVE TypeOK' /\ UNCHANGED <<registry, pongs>>
  <2>1. [type |-> "busy_driver", name |-> c] \in Msg  BY <1>4 DEF Msg
  <2>2. Send(c, [type |-> "busy_driver", name |-> c])  BY <1>4 DEF TellBusy
  <2>3. wire' \in [Client -> Seq(Msg)] /\ retries' \in [Client -> Seq(Msg)]
    BY <2>1, <2>2, SendType
  <2> QED  BY <1>4, <2>3 DEF TellBusy, TypeOK
<1>5. ASSUME c \in Drivers, SaveState(c) PROVE TypeOK' /\ UNCHANGED <<registry, pongs>>
  <2>1. file' \in [Drivers -> DriverFile \cup {None}]
    BY <1>5, SavedType DEF SaveState, TypeOK
  <2> QED  BY <1>5, <2>1 DEF SaveState, TypeOK
<1>6. ASSUME c \in Passengers, Login(c) PROVE TypeOK' /\ UNCHANGED <<registry, pongs>>
  <2>1. [type |-> "login", name |-> c, start |-> starts[c]] \in Msg
    BY <1>6 DEF Msg, TypeOK
  <2>2. Send(c, [type |-> "login", name |-> c, start |-> starts[c]])  BY <1>6 DEF Login
  <2>3. wire' \in [Client -> Seq(Msg)] /\ retries' \in [Client -> Seq(Msg)]
    BY <2>1, <2>2, SendType
  <2> QED  BY <1>6, <2>3 DEF Login, TypeOK
<1>7. ASSUME c \in Passengers, CompleteLogin(c) PROVE TypeOK' /\ UNCHANGED <<registry, pongs>>
  <2>1. Head(replies[c]) \in Nat /\ Tail(replies[c]) \in Seq(Nat)
    BY <1>7, HeadTail DEF CompleteLogin, TypeOK
  <2>2. replies' \in [Passengers -> Seq(Nat)] /\ id' \in [Passengers -> Nat]
    BY <1>7, <2>1 DEF CompleteLogin, TypeOK
  <2> QED  BY <1>7, <2>2 DEF CompleteLogin, TypeOK
<1> QED  BY <1>1, <1>2, <1>3, <1>4, <1>5, <1>6, <1>7 DEF ClientStep

LEMMA StartDriverType ==
    ASSUME TypeOK, NEW d \in Drivers, StartDriver(d)
    PROVE  TypeOK' /\ UNCHANGED <<registry, pongs>>
<1> USE DEF serverVars, passengerVars
<1>0. d \in Client  BY DEF Client
<1>1. /\ leader \in Server /\ up' = up \cup {d}
      /\ link' = [link EXCEPT ![d] = leader]
      /\ pending' = [pending EXCEPT ![d] = "register"]
      /\ abandoned' \in {abandoned, abandoned \cup {d}, abandoned \ {d}}
      /\ UNCHANGED <<serverVars, retries, file, rider, passengerVars>>
  BY DEF StartDriver, TypeOK
<1>2. /\ up' \subseteq Client /\ link' \in [Client -> Server \cup {None}]
      /\ pending' \in [Client -> {"none", "register", "login", "busy", "save"}]
      /\ abandoned' \subseteq Drivers
  BY <1>0, <1>1 DEF TypeOK
<1>3. CASE /\ file[d] # None
           /\ is_available' = [is_available EXCEPT ![d] = file[d].is_available]
           /\ position' = [position EXCEPT ![d] = file[d].position]
           /\ id_current_passenger' =
                 [id_current_passenger EXCEPT ![d] = file[d].id_current_passenger]
           /\ driver_socket' = [driver_socket EXCEPT ![d] = file[d].driver_socket]
           /\ wire' = [wire EXCEPT ![d] = @ \o Announced(d, file[d])]
           /\ UNCHANGED counts
  <2> DEFINE f == file[d]
             m == [type |-> "reconnect_driver", name |-> d,
                   id_passenger |-> f.id_current_passenger, socket |-> f.driver_socket]
  <2>1. f \in DriverFile  BY <1>3 DEF TypeOK
  <2>2. /\ f.is_available \in BOOLEAN /\ f.position \in Nat
        /\ f.id_current_passenger \in Nat /\ f.driver_socket \in Nat
    BY <2>1 DEF DriverFile
  <2>3. Announced(d, f) \in Seq(Msg)
    <3>1. m \in Msg  BY <2>2 DEF Msg
    <3> HIDE DEF m
    <3>2. <<m>> \in Seq(Msg)  BY <3>1
    <3> QED  BY <3>2, EmptyIsSeq DEF Announced, m
  <2>4. wire[d] \o Announced(d, f) \in Seq(Msg)
    BY <1>0, <2>3, ConcatProperties DEF TypeOK
  <2>5. wire' \in [Client -> Seq(Msg)]  BY <1>0, <1>3, <2>4 DEF TypeOK
  <2> HIDE DEF f
  <2>6. is_available' \in [Drivers -> BOOLEAN]
    BY <1>3, <2>2, Zenon DEF TypeOK, f
  <2>7. /\ position' \in [Drivers -> Nat] /\ id_current_passenger' \in [Drivers -> Nat]
        /\ driver_socket' \in [Drivers -> Nat]
    BY <1>3, <2>2 DEF TypeOK, f
  <2> QED  BY <1>1, <1>2, <1>3, <2>5, <2>6, <2>7 DEF TypeOK
<1>4. CASE /\ is_available' = [is_available EXCEPT ![d] = TRUE]
           /\ position' = [position EXCEPT ![d] = 0]
           /\ id_current_passenger' = [id_current_passenger EXCEPT ![d] = 0]
           /\ driver_socket' = [driver_socket EXCEPT ![d] = counts.sockets + 1]
           /\ counts' = [counts EXCEPT !.sockets = @ + 1]
           /\ UNCHANGED wire
  <2>1. counts' \in Counts  BY <1>4, Counted DEF TypeOK
  <2>2. is_available' \in [Drivers -> BOOLEAN]  BY <1>4 DEF TypeOK
  <2>3. counts.sockets + 1 \in Nat  BY DEF TypeOK, Counts
  <2>4. /\ position' \in [Drivers -> Nat] /\ id_current_passenger' \in [Drivers -> Nat]
        /\ driver_socket' \in [Drivers -> Nat]
    BY <1>4, <2>3 DEF TypeOK
  <2> QED  BY <1>1, <1>2, <1>4, <2>1, <2>2, <2>4 DEF TypeOK
<1> QED  BY <1>3, <1>4 DEF StartDriver

LEMMA RequestRideType ==
    ASSUME TypeOK, NEW d \in Drivers, NEW p \in Passengers, RequestRide(d, p)
    PROVE  TypeOK' /\ UNCHANGED <<registry, pongs>>
<1> USE DEF serverVars, netVars, passengerVars
<1>0. d \in Client /\ id[p] \in Nat  BY DEF Client, TypeOK
<1>1. counts' \in Counts  BY Counted DEF RequestRide, TypeOK
<1>2. [Saved(d) EXCEPT !.is_available = FALSE, !.id_current_passenger = id[p]] \in DriverFile
  BY <1>0, SavedType DEF DriverFile
<1>3. file' \in [Drivers -> DriverFile \cup {None}]  BY <1>2 DEF RequestRide, TypeOK
<1>4. is_available' \in [Drivers -> BOOLEAN] /\ id_current_passenger' \in [Drivers -> Nat]
  BY <1>0 DEF RequestRide, TypeOK
<1>5. /\ rider' \in [Drivers -> Passengers \cup {None}]
      /\ pending' \in [Client -> {"none", "register", "login", "busy", "save"}]
  BY <1>0 DEF RequestRide, TypeOK
<1> QED  BY <1>1, <1>3, <1>4, <1>5 DEF RequestRide, TypeOK

LEMMA EndRideType ==
    ASSUME TypeOK, NEW d \in Drivers, EndRide(d)
    PROVE  TypeOK' /\ UNCHANGED <<registry, pongs>>
<1> USE DEF serverVars, passengerVars
<1> DEFINE m == [type |-> "available_driver", name |-> d, position |-> counts.rides]
<1>0. d \in Client /\ counts.rides \in Nat  BY DEF Client, TypeOK, Counts
<1>1. m \in Msg  BY <1>0 DEF Msg
<1>2. Send(d, m)  BY DEF EndRide
<1> HIDE DEF m
<1>3. wire' \in [Client -> Seq(Msg)] /\ retries' \in [Client -> Seq(Msg)]
  BY <1>0, <1>1, <1>2, SendType
<1>4. /\ is_available' \in [Drivers -> BOOLEAN] /\ position' \in [Drivers -> Nat]
      /\ pending' \in [Client -> {"none", "register", "login", "busy", "save"}]
  BY <1>0 DEF EndRide, TypeOK
<1> QED  BY <1>3, <1>4 DEF EndRide, TypeOK

LEMMA DriverCrashType ==
    ASSUME TypeOK, NEW d \in Drivers, DriverCrash(d)
    PROVE  TypeOK' /\ UNCHANGED <<registry, pongs>>
<1> USE DEF serverVars, passengerVars
<1>0. d \in Client  BY DEF Client
<1>1. counts' \in Counts  BY Counted DEF DriverCrash, TypeOK
<1>2. /\ up' \subseteq Client /\ link' \in [Client -> Server \cup {None}]
      /\ pending' \in [Client -> {"none", "register", "login", "busy", "save"}]
  BY <1>0 DEF DriverCrash, TypeOK
<1>3. retries' \in [Client -> Seq(Msg)]  BY <1>0, EmptyIsSeq DEF DriverCrash, TypeOK
<1>4. /\ is_available' \in [Drivers -> BOOLEAN] /\ position' \in [Drivers -> Nat]
      /\ id_current_passenger' \in [Drivers -> Nat] /\ driver_socket' \in [Drivers -> Nat]
  BY DEF DriverCrash, TypeOK
<1> QED  BY <1>1, <1>2, <1>3, <1>4 DEF DriverCrash, TypeOK

LEMMA StartPassengerType ==
    ASSUME TypeOK, NEW p \in Passengers, StartPassenger(p)
    PROVE  TypeOK' /\ UNCHANGED <<registry, pongs>>
<1> USE DEF serverVars, driverVars
<1>0. p \in Client /\ leader \in Server  BY DEF Client, StartPassenger, TypeOK
<1>1. counts' \in Counts  BY Counted DEF StartPassenger, TypeOK
<1>2. /\ up' \subseteq Client /\ link' \in [Client -> Server \cup {None}]
      /\ pending' \in [Client -> {"none", "register", "login", "busy", "save"}]
  BY <1>0 DEF StartPassenger, TypeOK
<1>3. retries' \in [Client -> Seq(Msg)] /\ replies' \in [Passengers -> Seq(Nat)]
  BY <1>0, EmptyIsSeq DEF StartPassenger, TypeOK
<1>4. id' \in [Passengers -> Nat] /\ starts' \in [Passengers -> Nat]
  BY DEF StartPassenger, TypeOK
<1> QED  BY <1>1, <1>2, <1>3, <1>4 DEF StartPassenger, TypeOK

-----------------------------------------------------------------------------
(* The inductive invariant and the theorems.                               *)

LEMMA InitInv == Init => IInv
<1> SUFFICES ASSUME Init PROVE IInv  OBVIOUS
<1>1. Empty \in RegistryState /\ Good(Empty)  BY EmptyGood
<1>2. TypeOK  BY <1>1, RegistryAssumption, EmptyIsSeq DEF Init, TypeOK, Counts
<1>3. RegistriesGood  BY <1>1 DEF Init, RegistriesGood
<1> QED  BY <1>2, <1>3 DEF IInv

LEMMA StepInv == IInv /\ [Next]_vars => IInv'
<1> SUFFICES ASSUME IInv, [Next]_vars PROVE IInv'  OBVIOUS
<1>1. TypeOK /\ RegistriesGood  BY DEF IInv
<1>2. TypeOK' /\ UNCHANGED <<registry, pongs>> => IInv'
  BY <1>1, UnchangedRegistries DEF IInv
<1>3. CASE UpdateDriverSocket  BY <1>3, UpdateDriverSocketInv
<1>4. CASE LeaderCrash  BY <1>4, LeaderCrashInv
<1>5. CASE Elect  BY <1>5, ElectInv
<1>6. ASSUME NEW s \in Server, Pong(s) PROVE IInv'  BY <1>6, PongInv
<1>7. ASSUME NEW s \in Server, UpdateNetworkState(s) PROVE IInv'
  BY <1>7, UpdateNetworkStateInv
<1>8. ASSUME NEW c \in Client, Handle(c) PROVE IInv'  BY <1>8, HandleInv
<1>9. ASSUME NEW c \in Client, ClientStep(c) PROVE IInv'
  BY <1>1, <1>2, <1>9, ClientStepType
<1>10. ASSUME NEW d \in Drivers, StartDriver(d) PROVE IInv'
  BY <1>1, <1>2, <1>10, StartDriverType
<1>11. ASSUME NEW d \in Drivers, EndRide(d) PROVE IInv'
  BY <1>1, <1>2, <1>11, EndRideType
<1>12. ASSUME NEW d \in Drivers, DriverCrash(d) PROVE IInv'
  BY <1>1, <1>2, <1>12, DriverCrashType
<1>13. ASSUME NEW d \in Drivers, NEW p \in Passengers, RequestRide(d, p) PROVE IInv'
  BY <1>1, <1>2, <1>13, RequestRideType
<1>14. ASSUME NEW p \in Passengers, StartPassenger(p) PROVE IInv'
  BY <1>1, <1>2, <1>14, StartPassengerType
<1>15. CASE UNCHANGED vars
  <2>1. TypeOK' /\ UNCHANGED <<registry, pongs>>
    BY <1>1, <1>15 DEF vars, serverVars, netVars, driverVars, passengerVars, TypeOK
  <2> QED  BY <1>2, <2>1
<1> QED
  BY <1>3, <1>4, <1>5, <1>6, <1>7, <1>8, <1>9, <1>10, <1>11, <1>12, <1>13, <1>14, <1>15
  DEF Next

LEMMA Inductive == Spec => []IInv
<1>1. Init => IInv  BY InitInv
<1>2. IInv /\ [Next]_vars => IInv'  BY StepInv
<1> QED  BY <1>1, <1>2, PTL DEF Spec

\* Every variable keeps its type, for any clients, servers and bounds.
THEOREM TypeCorrect == Spec => []TypeOK
<1>1. IInv => TypeOK  BY DEF IInv
<1> QED  BY <1>1, Inductive, PTL

\* No driver is ever available and busy at once, and no two names share an id, in
\* the registry of any server and in every snapshot under way, across any number
\* of crashes of the leader and of stale snapshots (Pong, UpdateNetworkState).
THEOREM RegistriesConsistent == Spec => []RegistryConsistent
<1>1. IInv => RegistryConsistent  BY DEF IInv, RegistriesGood, Good, RegistryConsistent
<1> QED  BY <1>1, Inductive, PTL

\* Clients and snapshots have no say in who leads.
LEMMA LeaderChanges ==
    ASSUME Next
    PROVE  LeaderCrash \/ Elect \/ UNCHANGED <<alive, leader>>
<1> USE DEF serverVars, netVars, driverVars, passengerVars
<1>1. CASE UpdateDriverSocket  BY <1>1 DEF UpdateDriverSocket
<1>2. ASSUME NEW s \in Server, Pong(s) \/ UpdateNetworkState(s)
      PROVE  UNCHANGED <<alive, leader>>
  BY <1>2 DEF Pong, UpdateNetworkState
<1>3. ASSUME NEW c \in Client, Handle(c)
      PROVE  UNCHANGED <<alive, leader>>
  BY <1>3 DEF Handle, Received, NewDriver, BusyDriver, UpdateDriver, ReconnectDriver,
              PassengerLogin
<1>4. ASSUME NEW c \in Client, ClientStep(c)
      PROVE  UNCHANGED <<alive, leader>>
  BY <1>4 DEF ClientStep, NoticeEof, Reconnect, Register, TellBusy, SaveState, Login,
              CompleteLogin
<1>5. ASSUME NEW d \in Drivers, StartDriver(d) \/ EndRide(d) \/ DriverCrash(d)
      PROVE  UNCHANGED <<alive, leader>>
  BY <1>5 DEF StartDriver, EndRide, DriverCrash
<1>6. ASSUME NEW d \in Drivers, NEW p \in Passengers, RequestRide(d, p)
      PROVE  UNCHANGED <<alive, leader>>
  BY <1>6 DEF RequestRide
<1>7. ASSUME NEW p \in Passengers, StartPassenger(p)
      PROVE  UNCHANGED <<alive, leader>>
  BY <1>7 DEF StartPassenger
<1> QED  BY <1>1, <1>2, <1>3, <1>4, <1>5, <1>6, <1>7 DEF Next

\* The registry and its clients rest on nothing of the election but the contract
\* that module Election keeps, through any number of crashes of the leader.
THEOREM LeadershipKept == Spec => Leadership!Spec
<1>1. Init => Leadership!Init
  <2> SUFFICES ASSUME Init PROVE Leadership!Init  OBVIOUS
  <2>1. FirstLeader \in Server /\ FirstLeader # None  BY RegistryAssumption
  <2>2. alive = Server /\ {leader} \ {None} = {FirstLeader}  BY <2>1 DEF Init
  <2> QED  BY <2>1, <2>2 DEF Leadership!Init
<1>2. IInv /\ [Next]_vars => [Leadership!Next]_Leadership!vars
  <2> SUFFICES ASSUME IInv, [Next]_vars PROVE [Leadership!Next]_Leadership!vars
    OBVIOUS
  <2>1. leader \in Server \cup {None} /\ alive \subseteq Server
    BY DEF IInv, TypeOK
  <2>2. CASE LeaderCrash
    <3>1. leader \in Server /\ alive' = alive \ {leader} /\ leader' = None
      BY <2>1, <2>2 DEF LeaderCrash
    <3>2. {leader'} \ {None} = ({leader} \ {None}) \ {leader}  BY <3>1
    <3>3. Leadership!Stop(leader)  BY <3>1, <3>2 DEF Leadership!Stop
    <3> QED  BY <3>1, <3>3 DEF Leadership!Next
  <2>3. CASE Elect
    <3>1. /\ leader = None /\ alive # {} /\ leader' = Highest(alive) /\ alive' = alive
      BY <2>3 DEF Elect
    <3>2. leader' \in alive /\ leader' # None
      BY <2>1, <3>1, HighestType, RegistryAssumption
    <3>3. {leader} \ {None} = {} /\ {leader'} \ {None} = {leader'}  BY <3>1, <3>2
    <3>4. leader' = Leadership!Highest(alive)  BY <3>1 DEF Highest, Leadership!Highest
    <3>5. Leadership!Elect  BY <3>1, <3>3, <3>4 DEF Leadership!Elect
    <3> QED  BY <3>5 DEF Leadership!Next
  <2>4. CASE UNCHANGED <<alive, leader>>  BY <2>4 DEF Leadership!vars
  <2>5. CASE UNCHANGED vars  BY <2>4, <2>5 DEF vars, serverVars
  <2> QED  BY <2>2, <2>3, <2>4, <2>5, LeaderChanges
<1> QED  BY <1>1, <1>2, Inductive, PTL DEF Spec, Leadership!Spec

-----------------------------------------------------------------------------
(* As long as the first leader runs: an id that a passenger has, may get,  *)
(* or has told a driver is the one the leader keeps under its name, and    *)
(* under that id is one connection, of a process of this passenger: of the *)
(* last one, unless the login of that one has still to be handled.         *)

Kept(i, p) == i = 0 \/ registry[leader].passengers[p] = i

PassengerIdsKept ==
    \A p \in Passengers :
        /\ Kept(id[p], p)
        /\ \A k \in DOMAIN replies[p] : Kept(replies[p][k], p)

DriverIdsKept ==
    \A d \in Drivers : rider[d] # None =>
        /\ Kept(id_current_passenger[d], rider[d])
        /\ file[d] # None => Kept(file[d].id_current_passenger, rider[d])

\* The logins of p that the leader has still to handle are of processes of p, that
\* of the last one behind the others; while p runs, it is connected to the leader.
LoginsInOrder(p) ==
    /\ pending[p] \in {"none", "login"}
    /\ pending[p] = "login" => p \in up /\ starts[p] # 0
    /\ p \in up => link[p] = leader
    /\ retries[p] = <<>>
    /\ \A k \in DOMAIN wire[p] : wire[p][k].start \in 1..starts[p]
    /\ pending[p] = "none" /\ wire[p] # <<>> => wire[p][Len(wire[p])].start = starts[p]

Reached(p) ==
    LET i == registry[leader].passengers[p] IN
    i # 0 => \E n \in 1..starts[p] : /\ Connection(i, p, n) \in passengers_address[leader]
                                     /\ LoginHandled(p) => n = starts[p]

AddressesKept ==
    /\ \A a, b \in passengers_address[leader] : a.id = b.id => a = b
    /\ \A p \in Passengers : LoginsInOrder(p) /\ Reached(p)

FirstLeads ==
    /\ leader = FirstLeader /\ leader \in alive
    /\ pongs[FirstLeader] = <<>>
    /\ PassengerIdsKept /\ DriverIdsKept /\ AddressesKept

SteadyInv == counts.leader_crashes = 0 => FirstLeads

\* What p and its connection are waiting for stays as it is.
LineUntouched(p) ==
    /\ p \in up' <=> p \in up
    /\ pending'[p] = pending[p] /\ link'[p] = link[p]
    /\ retries'[p] = retries[p] /\ wire'[p] = wire[p]
    /\ starts'[p] = starts[p]

LEMMA LineKept ==
    ASSUME NEW p \in Passengers, LoginsInOrder(p), LineUntouched(p), UNCHANGED leader
    PROVE  LoginsInOrder(p)' /\ (LoginHandled(p)' <=> LoginHandled(p))
BY DEF LoginsInOrder, LineUntouched, LoginHandled

\* A step that leaves the leader and what it knows of passengers alone, and these
\* too, and writes no id that was not there before.
LEMMA NoNewIds ==
    ASSUME FirstLeads, UNCHANGED <<alive, leader, passengers_address>>,
           pongs'[FirstLeader] = pongs[FirstLeader],
           registry'[leader].passengers = registry[leader].passengers,
           \A p \in Passengers : LineUntouched(p),
           PassengerIdsKept => PassengerIdsKept', DriverIdsKept => DriverIdsKept'
    PROVE  FirstLeads'
<1>1. ASSUME NEW p \in Passengers PROVE LoginsInOrder(p)' /\ Reached(p)'
  <2>1. LoginsInOrder(p) /\ Reached(p)  BY DEF FirstLeads, AddressesKept
  <2>2. LoginsInOrder(p)' /\ (LoginHandled(p)' <=> LoginHandled(p))  BY <2>1, LineKept
  <2>3. starts'[p] = starts[p]  BY DEF LineUntouched
  <2> QED  BY <2>1, <2>2, <2>3 DEF Reached
<1> QED  BY <1>1 DEF FirstLeads, AddressesKept

\* Drivers are not passengers: what happens on the lines of one leaves the others.
LEMMA DriverLine ==
    ASSUME TypeOK, NEW d \in Drivers, NEW p \in Passengers, UNCHANGED starts,
           up' \in {up, up \cup {d}, up \ {d}},
           \A c \in Client : c # d => /\ pending'[c] = pending[c] /\ link'[c] = link[c]
                                     /\ retries'[c] = retries[c] /\ wire'[c] = wire[c]
    PROVE  LineUntouched(p)
<1>1. p \in Client /\ p # d  BY RegistryAssumption DEF Client
<1> QED  BY <1>1 DEF LineUntouched

LEMMA SameIdsKept ==
    ASSUME UNCHANGED leader, registry'[leader].passengers = registry[leader].passengers
    PROVE  /\ UNCHANGED <<id, replies>> => (PassengerIdsKept => PassengerIdsKept')
           /\ UNCHANGED <<rider, id_current_passenger, file>> => (DriverIdsKept => DriverIdsKept')
BY DEF PassengerIdsKept, DriverIdsKept, Kept

\* The handlers of drivers leave the passengers of a registry alone.
LEMMA PassengersUntouched ==
    ASSUME NEW r \in RegistryState
    PROVE  /\ \A m : Registered(r, m).passengers = r.passengers
           /\ \A d : MovedToBusy(r, d).passengers = r.passengers
           /\ \A d, pos : MovedToAvailable(r, d, pos).passengers = r.passengers
           /\ \A d, s : WithSocket(r, d, s).passengers = r.passengers
BY DEF RegistryState, Registered, MovedToBusy, MovedToAvailable, WithSocket

\* PassengerLogin: the id is the one of before, or the first; the connection of
\* another passenger is under another id.
LEMMA LoginSteady ==
    ASSUME IInv, FirstLeads, NEW p \in Passengers, PassengerLogin(p)
    PROVE  FirstLeads'
<1> USE DEF IInv
<1> DEFINE r == registry[leader]
           q == LoggedIn(r, p)
           i == IdFor(r, p)
           n == Head(wire[p]).start
<1>1. /\ leader \in Server /\ leader = FirstLeader
      /\ UNCHANGED <<alive, leader, pongs, id, starts, id_current_passenger, rider, file,
                     up, link, retries, pending>>
      /\ wire[p] # <<>> /\ wire' = [wire EXCEPT ![p] = Tail(@)]
      /\ registry' = [registry EXCEPT ![leader] = q]
      /\ passengers_address' = [passengers_address EXCEPT ![leader] = WithAddress(@, i, p, n)]
      /\ replies' = [replies EXCEPT ![p] = Append(@, i)] \/ replies' = replies
  BY RegistryAssumption DEF FirstLeads, PassengerLogin, Received, driverVars
<1>2. r \in RegistryState /\ Good(r)  BY <1>1 DEF TypeOK, RegistriesGood
<1>3. q \in RegistryState /\ Good(q) /\ i \in Nat  BY <1>2, LoggedInGood
<1>4. registry'[leader'] = q  BY <1>1 DEF TypeOK
<1>5. /\ q.passengers = [r.passengers EXCEPT ![p] = i]
      /\ r.passengers \in [Passengers -> Nat] /\ r.ids_count \in Nat
      /\ r.passengers[p] # 0 => i = r.passengers[p]
      /\ r.passengers[p] = 0 => i = r.ids_count + 1
  BY <1>2, RegistryType DEF LoggedIn, IdFor, RegistryState
<1>6. q.passengers[p] = i /\ i # 0  BY <1>5
<1>7. \A o \in Passengers : o # p => q.passengers[o] = r.passengers[o]  BY <1>5
<1> HIDE DEF q, i
<1>8. ASSUME NEW o \in Passengers, NEW j, Kept(j, o) PROVE Kept(j, o)'
  <2>1. CASE o # p  BY <1>1, <1>4, <1>7, <1>8, <2>1 DEF Kept
  <2>2. CASE o = p  BY <1>1, <1>4, <1>5, <1>6, <1>8, <2>2 DEF Kept
  <2> QED  BY <2>1, <2>2
<1>9. PassengerIdsKept'
  <2>1. ASSUME NEW o \in Passengers, NEW k \in DOMAIN replies'[o]
        PROVE  Kept(replies[o][k], o)'
    <3>1. CASE o # p \/ replies' = replies
      <4>1. replies'[o] = replies[o]  BY <1>1, <3>1 DEF TypeOK
      <4>2. Kept(replies[o][k], o)  BY <2>1, <4>1 DEF FirstLeads, PassengerIdsKept
      <4> QED  BY <1>8, <4>1, <4>2
    <3>2. CASE o = p /\ replies' = [replies EXCEPT ![p] = Append(@, i)]
      <4>1. replies'[p] = Append(replies[p], i) /\ replies[p] \in Seq(Nat)
        BY <3>2 DEF TypeOK
      <4>2. CASE k \in DOMAIN replies[p]
        <5>1. replies'[p][k] = replies[p][k]  BY <4>1, <4>2
        <5>2. Kept(replies[p][k], p)  BY <4>2 DEF FirstLeads, PassengerIdsKept
        <5> QED  BY <1>8, <3>2, <5>1, <5>2 DEF Kept
      <4>3. CASE k \notin DOMAIN replies[p]
        <5>1. replies'[p][k] = i  BY <2>1, <3>2, <4>1, <4>3
        <5> QED  BY <1>4, <1>6, <3>2, <5>1 DEF Kept
      <4> QED  BY <4>2, <4>3
    <3> QED  BY <1>1, <3>1, <3>2
  <2>2. ASSUME NEW o \in Passengers PROVE Kept(id[o], o)'
    <3>1. Kept(id[o], o)  BY DEF FirstLeads, PassengerIdsKept
    <3>2. id'[o] = id[o]  BY <1>1
    <3> QED  BY <1>8, <3>1, <3>2 DEF Kept
  <2> QED  BY <2>1, <2>2 DEF PassengerIdsKept
<1>10. DriverIdsKept'
  <2> SUFFICES ASSUME NEW d \in Drivers, rider[d] # None
               PROVE  /\ Kept(id_current_passenger[d], rider[d])'
                      /\ file[d] # None => Kept(file[d].id_current_passenger, rider[d])'
    BY <1>1 DEF DriverIdsKept
  <2>1. /\ Kept(id_current_passenger[d], rider[d])
        /\ file[d] # None => Kept(file[d].id_current_passenger, rider[d])
        /\ rider[d] \in Passengers
    BY DEF FirstLeads, DriverIdsKept, TypeOK
  <2> QED  BY <1>1, <1>8, <2>1 DEF Kept
<1>11. wire[p] \in Seq(Msg) /\ wire'[p] = Tail(wire[p]) /\ p \in Client
  BY <1>1 DEF Client, TypeOK
<1>12. n = wire[p][1].start /\ 1 \in DOMAIN wire[p] /\ n \in 1..starts[p]
  <2>1. n = wire[p][1].start /\ 1 \in DOMAIN wire[p]  BY <1>1, <1>11
  <2>2. LoginsInOrder(p)  BY DEF FirstLeads, AddressesKept
  <2> QED  BY <2>1, <2>2 DEF LoginsInOrder
<1>13. \A o \in Passengers : o # p => LineUntouched(o)
  BY <1>1 DEF LineUntouched, TypeOK, Client
<1>14. LoginsInOrder(p)' /\ (LoginHandled(p)' => n = starts[p])
  <2>1. LoginsInOrder(p)  BY DEF FirstLeads, AddressesKept
  <2>2. \A k \in DOMAIN wire'[p] : wire'[p][k].start \in 1..starts'[p]
    <3>1. ASSUME NEW k \in DOMAIN wire'[p] PROVE wire'[p][k].start \in 1..starts[p]
      <4>0. \A x \in DOMAIN Tail(wire[p]) : \E j \in DOMAIN wire[p] : Tail(wire[p])[x] = wire[p][j]
        BY <1>1, <1>11, TailElement
      <4>1. PICK j \in DOMAIN wire[p] : Tail(wire[p])[k] = wire[p][j]
        BY <1>11, <3>1, <4>0
      <4> QED  BY <1>11, <2>1, <4>1 DEF LoginsInOrder
    <3> QED  BY <1>1, <3>1
  <2>3. wire'[p] # <<>> => wire'[p][Len(wire'[p])] = wire[p][Len(wire[p])]
    BY <1>1, <1>11, TailEnd
  <2>4. wire'[p] = <<>> => Len(wire[p]) = 1  BY <1>1, <1>11, TailEnd
  <2>5. LoginsInOrder(p)'  BY <1>1, <2>1, <2>2, <2>3 DEF LoginsInOrder
  <2>6. LoginHandled(p)' => n = starts[p]
    BY <1>1, <1>12, <2>1, <2>4 DEF LoginsInOrder, LoginHandled
  <2> QED  BY <2>5, <2>6
<1> HIDE DEF n
<1>15. passengers_address'[leader'] = WithAddress(passengers_address[leader], i, p, n)
  BY <1>1 DEF TypeOK
<1>16. ASSUME NEW a \in passengers_address'[leader'], NEW b \in passengers_address'[leader'],
              a.id = b.id
       PROVE  a = b
  BY <1>15, <1>16 DEF FirstLeads, AddressesKept, WithAddress, Connection
<1>17. ASSUME NEW o \in Passengers PROVE LoginsInOrder(o)' /\ Reached(o)'
  <2>1. CASE o = p
    <3>1. Connection(i, p, n) \in passengers_address'[leader']
      BY <1>15 DEF WithAddress
    <3>2. starts' = starts /\ registry'[leader'].passengers[p] = i  BY <1>1, <1>4, <1>6
    <3> QED  BY <1>12, <1>14, <2>1, <3>1, <3>2 DEF Reached
  <2>2. CASE o # p
    <3>1. LoginsInOrder(o) /\ Reached(o) /\ LineUntouched(o)
      BY <1>13, <2>2 DEF FirstLeads, AddressesKept
    <3>2. LoginsInOrder(o)' /\ (LoginHandled(o)' <=> LoginHandled(o))  BY <1>1, <3>1, LineKept
    <3>3. registry'[leader'].passengers[o] = r.passengers[o]  BY <1>4, <1>7, <2>2
    <3>4. r.passengers[o] # 0 => r.passengers[o] # i
      <4>1. r.passengers[o] = q.passengers[o]  BY <1>7, <2>2
      <4> QED  BY <1>3, <1>6, <2>2, <4>1 DEF Good, IdsDistinct
    <3>5. \A j, k : Connection(j, o, k) \in passengers_address[leader] /\ j # i =>
                       Connection(j, o, k) \in passengers_address'[leader']
      BY <1>15 DEF WithAddress, Connection
    <3> QED  BY <1>1, <3>1, <3>2, <3>3, <3>4, <3>5 DEF Reached
  <2> QED  BY <2>1, <2>2
<1>18. AddressesKept'  BY <1>16, <1>17 DEF AddressesKept
<1> QED  BY <1>1, <1>9, <1>10, <1>18 DEF FirstLeads

\* What the leader does for drivers, and what it sends to replicas.
LEMMA ServerSteady ==
    ASSUME IInv, FirstLeads,
           \/ UpdateDriverSocket
           \/ \E s \in Server : Pong(s) \/ UpdateNetworkState(s)
           \/ \E d \in Drivers : \/ NewDriver(d) \/ BusyDriver(d)
                                 \/ UpdateDriver(d) \/ ReconnectDriver(d)
    PROVE  FirstLeads'
<1> USE DEF IInv, driverVars, passengerVars
<1> DEFINE r == registry[leader]
<1>1. leader = FirstLeader /\ leader \in Server /\ pongs[leader] = <<>>
  BY RegistryAssumption DEF FirstLeads
<1>2. r \in RegistryState  BY <1>1 DEF TypeOK
<1>3. ASSUME UNCHANGED <<alive, leader, passengers_address, id, replies, rider,
                         id_current_passenger, file>>,
             \A p \in Passengers : LineUntouched(p),
             pongs'[leader] = pongs[leader],
             registry'[leader].passengers = r.passengers
      PROVE  FirstLeads'
  BY <1>1, <1>3, NoNewIds, SameIdsKept
<1>12. ASSUME UNCHANGED <<netVars, pending, starts>>
       PROVE  \A p \in Passengers : LineUntouched(p)
  BY <1>12 DEF netVars, LineUntouched
<1>13. ASSUME NEW d \in Drivers, NEW type, Received(d, type), UNCHANGED starts
       PROVE  \A p \in Passengers : LineUntouched(p)
  <2>1. /\ UNCHANGED <<up, link, retries, pending>>
        /\ \A c \in Client : c # d => wire'[c] = wire[c]
    BY <1>13 DEF Received, TypeOK
  <2> QED  BY <1>13, <2>1, DriverLine
<1>4. ASSUME NEW q \in RegistryState, q.passengers = r.passengers,
             registry' = [registry EXCEPT ![leader] = q]
      PROVE  registry'[leader].passengers = r.passengers
  BY <1>1, <1>4 DEF TypeOK
<1>5. CASE UpdateDriverSocket
  <2>1. registry' = [registry EXCEPT ![leader] =
                        WithSocket(r, Head(own).name, Head(own).socket)]
    BY <1>5 DEF UpdateDriverSocket
  <2>2. registry'[leader] = WithSocket(r, Head(own).name, Head(own).socket)
    BY <1>1, <2>1 DEF TypeOK
  <2>3. registry'[leader].passengers = r.passengers  BY <1>2, <2>2, PassengersUntouched
  <2> QED  BY <1>3, <1>5, <1>12, <2>3 DEF UpdateDriverSocket
<1>6. ASSUME NEW s \in Server, Pong(s) PROVE FirstLeads'
  <2>1. s # leader /\ pongs' = [pongs EXCEPT ![s] = Append(@, r)] /\ UNCHANGED registry
    BY <1>6 DEF Pong
  <2>2. pongs'[leader] = pongs[leader]  BY <1>1, <2>1 DEF TypeOK
  <2> QED  BY <1>3, <1>6, <1>12, <2>1, <2>2 DEF Pong
<1>7. ASSUME NEW s \in Server, UpdateNetworkState(s) PROVE FirstLeads'
  <2>1. /\ s # leader /\ pongs' = [pongs EXCEPT ![s] = Tail(@)]
        /\ registry' = [registry EXCEPT ![s] = Head(pongs[s])]
    BY <1>1, <1>7 DEF UpdateNetworkState
  <2>2. pongs'[leader] = pongs[leader] /\ registry'[leader] = r
    BY <1>1, <2>1 DEF TypeOK
  <2> QED  BY <1>3, <1>7, <1>12, <2>2 DEF UpdateNetworkState
<1>8. ASSUME NEW d \in Drivers, NewDriver(d) PROVE FirstLeads'
  <2>1. \/ UNCHANGED registry
        \/ registry' = [registry EXCEPT ![leader] = Registered(r, Head(wire[d]))]
    BY <1>8 DEF NewDriver
  <2>2. \/ registry'[leader] = r
        \/ registry'[leader] = Registered(r, Head(wire[d]))
    BY <1>1, <2>1 DEF TypeOK
  <2>3. registry'[leader].passengers = r.passengers  BY <1>2, <2>2, PassengersUntouched
  <2> QED  BY <1>3, <1>8, <1>13, <2>3 DEF NewDriver, Received
<1>9. ASSUME NEW d \in Drivers, BusyDriver(d) PROVE FirstLeads'
  <2>1. registry' = [registry EXCEPT ![leader] = MovedToBusy(r, d)]
    BY <1>9 DEF BusyDriver
  <2>2. registry'[leader] = MovedToBusy(r, d)  BY <1>1, <2>1 DEF TypeOK
  <2>3. registry'[leader].passengers = r.passengers  BY <1>2, <2>2, PassengersUntouched
  <2> QED  BY <1>3, <1>9, <1>13, <2>3 DEF BusyDriver, Received
<1>10. ASSUME NEW d \in Drivers, UpdateDriver(d) PROVE FirstLeads'
  <2>1. registry' = [registry EXCEPT ![leader] =
                        MovedToAvailable(r, d, Head(wire[d]).position)]
    BY <1>10 DEF UpdateDriver
  <2>2. registry'[leader] = MovedToAvailable(r, d, Head(wire[d]).position)
    BY <1>1, <2>1 DEF TypeOK
  <2>3. registry'[leader].passengers = r.passengers  BY <1>2, <2>2, PassengersUntouched
  <2> QED  BY <1>3, <1>10, <1>13, <2>3 DEF UpdateDriver, Received
<1>11. ASSUME NEW d \in Drivers, ReconnectDriver(d) PROVE FirstLeads'
  BY <1>3, <1>11, <1>13 DEF ReconnectDriver, Received
<1> QED  BY <1>5, <1>6, <1>7, <1>8, <1>9, <1>10, <1>11

\* Drivers write the id of a passenger only where they had it, or when they accept
\* its ride.
LEMMA DriverSteady ==
    ASSUME IInv, FirstLeads, NEW d \in Drivers,
           \/ Register(d) \/ TellBusy(d) \/ SaveState(d)
           \/ StartDriver(d) \/ EndRide(d) \/ DriverCrash(d)
           \/ \E p \in Passengers : RequestRide(d, p)
    PROVE  FirstLeads'
<1> USE DEF IInv, serverVars, driverVars, passengerVars
<1>1. UNCHANGED <<alive, leader, passengers_address, registry, pongs, id, starts, replies>>
  BY DEF Register, TellBusy, SaveState, StartDriver, EndRide, DriverCrash, RequestRide
<1>2. \A p \in Passengers : LineUntouched(p)
  <2>1. up' \in {up, up \cup {d}, up \ {d}}
    BY DEF Register, TellBusy, SaveState, StartDriver, EndRide, DriverCrash, RequestRide, netVars
  <2>2. ASSUME NEW c \in Client, c # d
        PROVE  pending'[c] = pending[c] /\ link'[c] = link[c]
    BY <2>2 DEF TypeOK, Register, TellBusy, SaveState, StartDriver, EndRide, DriverCrash,
                RequestRide, netVars
  <2>3. ASSUME NEW c \in Client, c # d
        PROVE  retries'[c] = retries[c] /\ wire'[c] = wire[c]
    BY <2>3 DEF TypeOK, Register, TellBusy, SaveState, StartDriver, EndRide, DriverCrash,
                RequestRide, netVars, Send
  <2> QED  BY <1>1, <2>1, <2>2, <2>3, DriverLine
<1>3. PassengerIdsKept'  BY <1>1, SameIdsKept DEF FirstLeads
<1>4. ASSUME NEW e \in Drivers, rider'[e] # None
      PROVE  /\ Kept(id_current_passenger'[e], rider'[e])
             /\ file'[e] # None => Kept(file'[e].id_current_passenger, rider'[e])
  <2>1. rider[e] # None => /\ Kept(id_current_passenger[e], rider[e])
                           /\ file[e] # None => Kept(file[e].id_current_passenger, rider[e])
    BY DEF FirstLeads, DriverIdsKept
  <2>2. CASE e # d
    <3>1. /\ rider'[e] = rider[e] /\ file'[e] = file[e]
          /\ id_current_passenger'[e] = id_current_passenger[e]
      BY <2>2 DEF TypeOK, Register, TellBusy, SaveState, StartDriver, EndRide, DriverCrash,
                  RequestRide
    <3> QED  BY <1>4, <2>1, <3>1
  <2>3. CASE e = d /\ (Register(d) \/ SaveState(d))
    <3>1. /\ rider' = rider /\ id_current_passenger' = id_current_passenger
          /\ file'[d] = Saved(d)
      BY <2>3 DEF Register, SaveState, TypeOK
    <3> QED  BY <1>4, <2>1, <2>3, <3>1 DEF Saved
  <2>4. CASE e = d /\ (TellBusy(d) \/ EndRide(d))
    BY <1>4, <2>1, <2>4 DEF TellBusy, EndRide
  <2>5. CASE e = d /\ (StartDriver(d) \/ DriverCrash(d))
    <3>1. rider' = rider /\ file' = file  BY <2>5 DEF StartDriver, DriverCrash
    <3>2. \/ id_current_passenger'[d] = 0
          \/ file[d] # None /\ id_current_passenger'[d] = file[d].id_current_passenger
      BY <2>5 DEF StartDriver, DriverCrash, TypeOK
    <3>3. Kept(0, rider[d])  BY DEF Kept
    <3> QED  BY <1>4, <2>1, <2>5, <3>1, <3>2, <3>3
  <2>6. ASSUME e = d, NEW p \in Passengers, RequestRide(d, p)
        PROVE  /\ Kept(id_current_passenger'[e], rider'[e])
               /\ file'[e] # None => Kept(file'[e].id_current_passenger, rider'[e])
    <3>1. /\ rider'[d] = p /\ id_current_passenger'[d] = id[p]
          /\ file'[d] = [Saved(d) EXCEPT !.is_available = FALSE,
                                         !.id_current_passenger = id[p]]
      BY <2>6 DEF RequestRide, TypeOK
    <3>2. file'[d].id_current_passenger = id[p]  BY <3>1 DEF Saved
    <3>3. Kept(id[p], p)  BY DEF FirstLeads, PassengerIdsKept
    <3> QED  BY <2>6, <3>1, <3>2, <3>3
  <2> QED  BY <2>2, <2>3, <2>4, <2>5, <2>6
<1>5. DriverIdsKept'  BY <1>1, <1>4 DEF DriverIdsKept, Kept
<1> QED  BY <1>1, <1>2, <1>3, <1>5, NoNewIds

\* A passenger takes the id it is told, or the one of before, or none yet.
LEMMA PassengerSteady ==
    ASSUME IInv, FirstLeads, NEW p \in Passengers,
           StartPassenger(p) \/ Login(p) \/ CompleteLogin(p)
    PROVE  FirstLeads'
<1> USE DEF IInv, serverVars, driverVars, passengerVars
<1>1. UNCHANGED <<alive, leader, passengers_address, registry, pongs, rider,
                  id_current_passenger, file>>
  BY DEF StartPassenger, Login, CompleteLogin
<1>3. ASSUME NEW o \in Passengers
      PROVE  /\ Kept(id'[o], o)
             /\ \A k \in DOMAIN replies'[o] : Kept(replies'[o][k], o)
  <2>1. Kept(id[o], o) /\ \A k \in DOMAIN replies[o] : Kept(replies[o][k], o)
    BY DEF FirstLeads, PassengerIdsKept
  <2>2. CASE o # p \/ Login(p)
    <3>1. id'[o] = id[o] /\ replies'[o] = replies[o]
      BY <2>2 DEF StartPassenger, Login, CompleteLogin, TypeOK
    <3> QED  BY <2>1, <3>1
  <2>3. CASE o = p /\ StartPassenger(p)
    <3>1. id'[p] \in {0, id[p]} /\ replies'[p] = <<>>
      BY <2>3 DEF StartPassenger, TypeOK
    <3>2. Kept(0, p)  BY DEF Kept
    <3> QED  BY <2>1, <2>3, <3>1, <3>2
  <2>4. CASE o = p /\ CompleteLogin(p)
    <3>1. /\ id'[p] = Head(replies[p]) /\ replies'[p] = Tail(replies[p])
          /\ replies[p] # <<>> /\ replies[p] \in Seq(Nat)
      BY <2>4 DEF CompleteLogin, TypeOK
    <3>2. 1 \in DOMAIN replies[p] /\ Head(replies[p]) = replies[p][1]  BY <3>1
    <3>3. \A k \in DOMAIN Tail(replies[p]) :
             \E j \in DOMAIN replies[p] : Tail(replies[p])[k] = replies[p][j]
      BY <3>1, TailElement
    <3> QED  BY <2>1, <2>4, <3>1, <3>2, <3>3
  <2> QED  BY <2>2, <2>3, <2>4
<1>4. PassengerIdsKept'  BY <1>1, <1>3 DEF PassengerIdsKept, Kept
<1>5. DriverIdsKept'  BY <1>1, SameIdsKept DEF FirstLeads
<1>6. \A o \in Passengers : LoginsInOrder(o) /\ Reached(o)  BY DEF FirstLeads, AddressesKept
<1>7. p \in Client /\ wire[p] \in Seq(Msg) /\ starts[p] \in Nat  BY DEF Client, TypeOK
<1>8. ASSUME NEW o \in Passengers, o # p \/ CompleteLogin(p) PROVE LineUntouched(o)
  <2>1. o \in Client  BY DEF Client
  <2> QED
    BY <1>8, <2>1 DEF LineUntouched, TypeOK, StartPassenger, Login, CompleteLogin, Send, netVars
<1>9. ASSUME StartPassenger(p) PROVE LoginsInOrder(p)' /\ Reached(p)'
  <2>1. /\ p \in up' /\ link'[p] = leader /\ retries'[p] = <<>> /\ pending'[p] = "login"
        /\ wire'[p] = wire[p] /\ starts'[p] = starts[p] + 1
    BY <1>7, <1>9 DEF StartPassenger, TypeOK
  <2>2. LoginsInOrder(p)'
    <3>1. \A k \in DOMAIN wire[p] : wire[p][k].start \in 1..starts[p] + 1
      BY <1>6, <1>7 DEF LoginsInOrder
    <3> QED  BY <1>1, <1>7, <2>1, <3>1 DEF LoginsInOrder
  <2>3. ~LoginHandled(p)' /\ 1..starts[p] \subseteq 1..starts'[p]
    BY <1>7, <2>1 DEF LoginHandled
  <2>4. Reached(p)'  BY <1>1, <1>6, <2>3 DEF Reached
  <2> QED  BY <2>2, <2>4
<1>10. ASSUME Login(p) PROVE LoginsInOrder(p)' /\ Reached(p)'
  <2> DEFINE m == [type |-> "login", name |-> p, start |-> starts[p]]
  <2>1. /\ UNCHANGED <<up, link, starts>> /\ pending[p] = "login" /\ pending'[p] = "none"
        /\ Send(p, m)
    BY <1>7, <1>10 DEF Login, TypeOK
  <2>2. link[p] = leader /\ leader \in alive /\ leader # None /\ starts[p] # 0
    BY <1>6, <2>1, RegistryAssumption DEF FirstLeads, LoginsInOrder
  <2>3. retries'[p] = retries[p] /\ wire'[p] = Append(wire[p], m)
    BY <1>7, <2>1, <2>2 DEF Send, Linked, TypeOK
  <2>4. m.start = starts[p]  OBVIOUS
  <2> HIDE DEF m
  <2>5. /\ wire'[p] # <<>> /\ wire'[p][Len(wire'[p])] = m
        /\ \A k \in DOMAIN wire'[p] : \/ wire'[p][k] = m
                                      \/ k \in DOMAIN wire[p] /\ wire'[p][k] = wire[p][k]
    BY <1>7, <2>3
  <2>6. \A k \in DOMAIN wire'[p] : wire'[p][k].start \in 1..starts[p]
    BY <1>6, <1>7, <2>2, <2>4, <2>5 DEF LoginsInOrder
  <2>7. LoginsInOrder(p)'
    BY <1>1, <1>6, <2>1, <2>3, <2>4, <2>5, <2>6 DEF LoginsInOrder
  <2>8. ~LoginHandled(p)'  BY <2>5 DEF LoginHandled
  <2>9. Reached(p)'  BY <1>1, <1>6, <2>1, <2>8 DEF Reached
  <2> QED  BY <2>7, <2>9
<1>11. ASSUME NEW o \in Passengers, o # p \/ CompleteLogin(p)
       PROVE  LoginsInOrder(o)' /\ Reached(o)'
  <2>1. LineUntouched(o)  BY <1>8, <1>11
  <2>2. LoginsInOrder(o)' /\ (LoginHandled(o)' <=> LoginHandled(o))  BY <1>1, <1>6, <2>1, LineKept
  <2> QED  BY <1>1, <1>6, <2>1, <2>2 DEF LineUntouched, Reached
<1>12. AddressesKept'
  <2>1. \A o \in Passengers : LoginsInOrder(o)' /\ Reached(o)'  BY <1>9, <1>10, <1>11
  <2> QED  BY <1>1, <2>1 DEF FirstLeads, AddressesKept
<1> QED  BY <1>1, <1>4, <1>5, <1>12 DEF FirstLeads

LEMMA SteadyInit == Init => SteadyInv
<1> SUFFICES ASSUME Init PROVE FirstLeads  BY DEF SteadyInv
<1>1. /\ leader = FirstLeader /\ FirstLeader \in Server /\ leader \in alive
      /\ pongs[FirstLeader] = <<>>
  BY RegistryAssumption DEF Init
<1>2. PassengerIdsKept  BY DEF Init, PassengerIdsKept, Kept
<1>3. DriverIdsKept  BY DEF Init, DriverIdsKept
<1>4. AddressesKept
  <2>1. \A p \in Passengers : registry[leader].passengers[p] = 0
    BY <1>1 DEF Init, Empty
  <2>2. \A p \in Passengers : LoginsInOrder(p)  BY DEF Init, LoginsInOrder, Client
  <2>3. passengers_address[leader] = {}  BY <1>1 DEF Init
  <2> QED  BY <2>1, <2>2, <2>3 DEF AddressesKept, Reached
<1> QED  BY <1>1, <1>2, <1>3, <1>4 DEF FirstLeads

LEMMA SteadyStep == IInv /\ SteadyInv /\ [Next]_vars => SteadyInv'
<1> SUFFICES ASSUME IInv, SteadyInv, [Next]_vars, counts'.leader_crashes = 0 PROVE FirstLeads'
  BY DEF SteadyInv
<1> USE DEF serverVars, netVars, driverVars, passengerVars
<1>1. counts \in Counts  BY DEF IInv, TypeOK
<1>2. CASE LeaderCrash
  <2>1. counts'.leader_crashes = counts.leader_crashes + 1 /\ counts.leader_crashes \in Nat
    BY <1>1, <1>2 DEF LeaderCrash, Counts
  <2> QED  BY <2>1
<1>3. CASE ~LeaderCrash /\ counts.leader_crashes # 0
  <2>1. Next => counts'.leader_crashes = counts.leader_crashes
    <3>1. \A s \in Server : Pong(s) => counts'.leader_crashes = counts.leader_crashes
      BY <1>1 DEF Pong, Counts
    <3>2. \A d \in Drivers : StartDriver(d) \/ DriverCrash(d) =>
                                counts'.leader_crashes = counts.leader_crashes
      BY <1>1 DEF StartDriver, DriverCrash, Counts
    <3>3. \A d \in Drivers, p \in Passengers : RequestRide(d, p) =>
                                counts'.leader_crashes = counts.leader_crashes
      BY <1>1 DEF RequestRide, Counts
    <3>4. \A p \in Passengers : StartPassenger(p) =>
                                counts'.leader_crashes = counts.leader_crashes
      BY <1>1 DEF StartPassenger, Counts
    <3>5. \A c \in Client : Handle(c) \/ ClientStep(c) => UNCHANGED counts
      BY DEF Handle, Received, NewDriver, BusyDriver, UpdateDriver, ReconnectDriver,
             PassengerLogin, ClientStep, NoticeEof, Reconnect, Register, TellBusy,
             SaveState, Login, CompleteLogin
    <3>6. \A s \in Server : UpdateNetworkState(s) => UNCHANGED counts
      BY DEF UpdateNetworkState
    <3>7. UpdateDriverSocket \/ Elect => UNCHANGED counts  BY DEF UpdateDriverSocket, Elect
    <3>8. \A d \in Drivers : EndRide(d) => UNCHANGED counts  BY DEF EndRide
    <3> QED  BY <1>3, <3>1, <3>2, <3>3, <3>4, <3>5, <3>6, <3>7, <3>8 DEF Next
  <2> QED  BY <1>3, <2>1 DEF vars
<1>4. CASE ~LeaderCrash /\ counts.leader_crashes = 0
  <2>1. FirstLeads  BY <1>4 DEF SteadyInv
  <2>2. CASE Elect
    BY <2>1, <2>2, RegistryAssumption DEF Elect, FirstLeads
  <2>3. ASSUME NEW c \in Client, NoticeEof(c) \/ Reconnect(c) PROVE FirstLeads'
    <3>1. UNCHANGED <<alive, leader, passengers_address, registry, pongs, id, starts, replies,
                      rider, id_current_passenger, file, up, pending>>
      BY <2>3 DEF NoticeEof, Reconnect
    <3>2. c \in Drivers
      <4>1. c \in Passengers => LoginsInOrder(c) /\ leader \in alive
        BY <2>1 DEF FirstLeads, AddressesKept
      <4> QED  BY <2>3, <4>1 DEF Client, LoginsInOrder, NoticeEof, Reconnect, Linked
    <3>3. ASSUME NEW e \in Client, e # c
          PROVE  link'[e] = link[e] /\ retries'[e] = retries[e] /\ wire'[e] = wire[e]
      BY <2>3, <3>3 DEF NoticeEof, Reconnect, IInv, TypeOK
    <3>4. \A p \in Passengers : LineUntouched(p)
      BY <3>1, <3>2, <3>3, DriverLine DEF IInv
    <3> QED  BY <2>1, <3>1, <3>4, NoNewIds, SameIdsKept
  <2>4. CASE UNCHANGED vars
    <3>1. /\ UNCHANGED <<alive, leader, passengers_address, registry, pongs, id, replies, rider,
                         id_current_passenger, file>>
          /\ \A p \in Passengers : LineUntouched(p)
      BY <2>4 DEF vars, LineUntouched
    <3> QED  BY <2>1, <3>1, NoNewIds, SameIdsKept
  <2>5. ASSUME NEW c \in Client, Handle(c) \/ ClientStep(c) PROVE FirstLeads'
    BY <2>1, <2>3, <2>5, ServerSteady, LoginSteady, DriverSteady, PassengerSteady
    DEF Handle, ClientStep
  <2> QED
    BY <1>4, <2>1, <2>2, <2>4, <2>5, ServerSteady, DriverSteady, PassengerSteady DEF Next
<1> QED  BY <1>2, <1>3, <1>4

\* As long as the first leader runs, the id under which a driver keeps its
\* passenger leads to one connection and no other, one that a process of this
\* passenger opened, and as soon as the login of its last process has been handled
\* to that of the last process, through any number of restarts of either
\* (PassengerLogin, ReconnectDriver).
THEOREM RidersReachable == Spec => []RiderReachable
<1>1. IInv /\ SteadyInv => RiderReachable
  <2> SUFFICES ASSUME IInv, FirstLeads, NEW d \in Drivers, rider[d] # None,
                      id_current_passenger[d] # 0
               PROVE  \E n \in 1..starts[rider[d]] :
                         /\ {a \in passengers_address[leader] : a.id = id_current_passenger[d]}
                               = {Connection(id_current_passenger[d], rider[d], n)}
                         /\ LoginHandled(rider[d]) => n = starts[rider[d]]
    BY DEF SteadyInv, RiderReachable
  <2> DEFINE i == id_current_passenger[d]
             p == rider[d]
  <2>1. p \in Passengers  BY DEF IInv, TypeOK
  <2>2. registry[leader].passengers[p] = i /\ i # 0
    BY DEF FirstLeads, DriverIdsKept, Kept
  <2> HIDE DEF i, p
  <2>3. PICK n \in 1..starts[p] : /\ Connection(i, p, n) \in passengers_address[leader]
                                  /\ LoginHandled(p) => n = starts[p]
    BY <2>1, <2>2 DEF FirstLeads, AddressesKept, Reached
  <2>4. Connection(i, p, n).id = i  BY DEF Connection
  <2>5. {a \in passengers_address[leader] : a.id = i} = {Connection(i, p, n)}
    BY <2>3, <2>4 DEF FirstLeads, AddressesKept
  <2> QED  BY <2>3, <2>5 DEF i, p
<1> QED  BY <1>1, Inductive, SteadyInit, SteadyStep, PTL DEF Spec
=============================================================================
