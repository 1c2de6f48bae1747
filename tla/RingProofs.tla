---------------------------- MODULE RingProofs ----------------------------
(***************************************************************************)
(* Facts about the ring, for any number of servers: the neighbour that     *)
(* update_neighbor finds exists, is a server, and is the nearest one the   *)
(* server does not suspect.                                                *)
(***************************************************************************)
EXTENDS Ring, WellFoundedInduction, TLAPS

-----------------------------------------------------------------------------
(* Arithmetic of the ring.                                                 *)

\* get_neighbor_id stays within the ids of the servers.
LEMMA NeighborType ==
    ASSUME NEW i \in Server
    PROVE  get_neighbor_id(i) \in Server
BY MaxServersAssumption DEF get_neighbor_id, Server

\* A distance is one of 0..MAX_SERVERS-1, and two ids at the same distance are one.
LEMMA DistanceProperties ==
    ASSUME NEW a \in Server, NEW b \in Server, NEW c \in Server
    PROVE  /\ Distance(a, b) \in 0..MAX_SERVERS - 1
           /\ Distance(a, b) = Distance(a, c) => b = c
           /\ Distance(a, a) = 0
BY MaxServersAssumption DEF Distance, Server

\* One step round the ring is one more of distance, until the walk is back.
LEMMA StepDistance ==
    ASSUME NEW a \in Server, NEW b \in Server
    PROVE  /\ Distance(a, b) < MAX_SERVERS - 1 =>
                 Distance(a, get_neighbor_id(b)) = Distance(a, b) + 1
           /\ Distance(a, b) = MAX_SERVERS - 1 => get_neighbor_id(b) = a
BY MaxServersAssumption DEF Distance, Server, get_neighbor_id

-----------------------------------------------------------------------------
(* The closed form.                                                        *)

\* A set of natural numbers that is not empty has a least element.
LEMMA LeastNumber ==
    ASSUME NEW T \in SUBSET Nat, T # {}
    PROVE  \E m \in T : \A k \in T : m <= k
<1> DEFINE R == {p \in Nat \X Nat : p[1] < p[2]}
<1>1. IsWellFoundedOn(R, Nat)
  BY NatLessThanWellFounded DEF OpToRel
<1>2. PICK m \in T : \A k \in T : <<k, m>> \notin R
  <2> HIDE DEF R
  <2> QED  BY <1>1, WFMin
<1>3. ASSUME NEW k \in T PROVE m <= k
  <2>1. k \in Nat /\ m \in Nat
    OBVIOUS
  <2>2. k < m => <<k, m>> \in R
    BY <2>1
  <2>3. QED
    BY <1>2, <2>1, <2>2
<1>4. QED
  BY <1>3

\* When an eligible id exists, FirstEligible is the eligible id nearest to start.
LEMMA FirstEligibleProperties ==
    ASSUME NEW start \in Server, NEW me, NEW down,
           \E c \in Server : Eligible(c, me, down)
    PROVE  LET f == FirstEligible(start, me, down) IN
           /\ f \in Server
           /\ Eligible(f, me, down)
           /\ \A d \in Server :
                 Eligible(d, me, down) => Distance(start, f) <= Distance(start, d)
<1> DEFINE Ds == {Distance(start, c) : c \in {d \in Server : Eligible(d, me, down)}}
<1>1. Ds \in SUBSET Nat /\ Ds # {}
  BY DistanceProperties, MaxServersAssumption
<1>2. PICK m \in Ds : \A k \in Ds : m <= k
  BY <1>1, LeastNumber
<1>3. PICK c \in Server : Eligible(c, me, down) /\ Distance(start, c) = m
  BY <1>2
<1>4. \A d \in Server : Eligible(d, me, down) => Distance(start, c) <= Distance(start, d)
  BY <1>2, <1>3
<1>5. QED
  BY <1>3, <1>4 DEF FirstEligible

\* The neighbour update_neighbor leaves behind is always the id of a server.
LEMMA NextNeighborType ==
    ASSUME NEW n \in Server, NEW me, NEW down
    PROVE  NextNeighbor(n, me, down) \in Server
BY NeighborType, FirstEligibleProperties DEF NextNeighbor, HasNeighbor

\* When update_neighbor returns true, the neighbour it leaves behind is not
\* suspected (server.rs, update_neighbor).
THEOREM NeighborNotSuspected ==
    ASSUME NEW n \in Server, NEW me, NEW down, HasNeighbor(n, me, down)
    PROVE  NextNeighbor(n, me, down) \notin down
BY NeighborType, FirstEligibleProperties DEF NextNeighbor, HasNeighbor, Eligible

=============================================================================
