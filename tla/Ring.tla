-------------------------------- MODULE Ring --------------------------------
(***************************************************************************)
(* The ring of server ids and the search for the next connected neighbour. *)
(*                                                                         *)
(* update_neighbor walks the ring id by id (module RingLoop has that walk, *)
(* iteration by iteration); here it is stated by what it finds, which is   *)
(* the form the theorems reason about.  RingLoop compares the two.         *)
(***************************************************************************)
EXTENDS Naturals

CONSTANT MAX_SERVERS          \* servers have the ids 1..MAX_SERVERS

ASSUME MaxServersAssumption == MAX_SERVERS \in Nat /\ MAX_SERVERS >= 2

Server == 1..MAX_SERVERS

\* Mutant: the ring does not close.
NoWrap(id) == id + 1

get_neighbor_id(id) == IF id = MAX_SERVERS THEN 1 ELSE id + 1

\* How many steps after `from` the id `to` comes, going round the ring; 0..MAX-1.
Distance(from, to) == IF to >= from THEN to - from ELSE to + MAX_SERVERS - from

\* A server `me` may talk to c when it does not suspect c and c is another server.
Eligible(c, me, down) == c \notin down /\ c # me

(***************************************************************************)
(* update_neighbor(neighbor, me, down): the new actual_neighbor_id and the *)
(* boolean the method returns, for a server `me` that suspects `down`.     *)
(* A neighbour that is not suspected is kept, whoever it is.  Otherwise    *)
(* the first eligible id after it is taken; when there is none the walk    *)
(* goes once round and stops one past where it began.                      *)
(***************************************************************************)
HasNeighbor(neighbor, me, down) ==
    neighbor \notin down \/ \E c \in Server : Eligible(c, me, down)

FirstEligible(start, me, down) ==
    CHOOSE c \in Server :
        /\ Eligible(c, me, down)
        /\ \A d \in Server :
              Eligible(d, me, down) => Distance(start, c) <= Distance(start, d)

NextNeighbor(neighbor, me, down) ==
    IF neighbor \notin down THEN neighbor
    ELSE IF HasNeighbor(neighbor, me, down)
         THEN FirstEligible(get_neighbor_id(neighbor), me, down)
         ELSE get_neighbor_id(neighbor)
=============================================================================
