------------------------------ MODULE RingLoop ------------------------------
(***************************************************************************)
(* Server::update_neighbor as the loop it is: one state per iteration.     *)
(* A behaviour is one call of the method.  The result must be the one      *)
(* module Ring states in closed form.                                      *)
(***************************************************************************)
EXTENDS RingProofs

VARIABLES
    id,                    \* the server that makes the call
    disconnected_servers,  \* the ids it suspects
    actual_neighbor_id,
    count,
    result,                \* "running", or the boolean returned
    entry                  \* actual_neighbor_id when the call began

vars == <<id, disconnected_servers, actual_neighbor_id, count, result, entry>>

Init ==
    /\ id \in Server
    /\ disconnected_servers \in SUBSET Server
    /\ entry \in Server
    /\ actual_neighbor_id = entry
    /\ count = 0
    /\ result = "running"

\* Lines 82-85: nothing to do while the neighbour is not suspected.
KeepNeighbor ==
    /\ result = "running" /\ count = 0 /\ actual_neighbor_id = entry
    /\ entry \notin disconnected_servers
    /\ result' = "true"
    /\ UNCHANGED <<id, disconnected_servers, actual_neighbor_id, count, entry>>

\* The assignment before the loop; count = 1 stands for "in the loop, count 0".
EnterLoop ==
    /\ result = "running" /\ count = 0 /\ entry \in disconnected_servers
    /\ actual_neighbor_id' = get_neighbor_id(entry)
    /\ count' = 1
    /\ UNCHANGED <<id, disconnected_servers, result, entry>>

\* Mutant: the loop gives up one iteration early.
GivesUpEarly ==
    /\ result = "running" /\ count > 0
    /\ count >= MAX_SERVERS
    /\ result' = "false"
    /\ UNCHANGED <<id, disconnected_servers, actual_neighbor_id, count, entry>>

GiveUp ==
    /\ result = "running" /\ count > 0
    /\ count - 1 >= MAX_SERVERS
    /\ result' = "false"
    /\ UNCHANGED <<id, disconnected_servers, actual_neighbor_id, count, entry>>

Found ==
    /\ result = "running" /\ count > 0
    /\ count - 1 < MAX_SERVERS
    /\ Eligible(actual_neighbor_id, id, disconnected_servers)
    /\ result' = "true"
    /\ UNCHANGED <<id, disconnected_servers, actual_neighbor_id, count, entry>>

\* Mutant: count is not incremented.
AdvancesUncounted ==
    /\ result = "running" /\ count > 0
    /\ ~Eligible(actual_neighbor_id, id, disconnected_servers)
    /\ actual_neighbor_id' = get_neighbor_id(actual_neighbor_id)
    /\ UNCHANGED <<id, disconnected_servers, count, result, entry>>

Advance ==
    /\ result = "running" /\ count > 0
    /\ count - 1 < MAX_SERVERS
    /\ ~Eligible(actual_neighbor_id, id, disconnected_servers)
    /\ actual_neighbor_id' = get_neighbor_id(actual_neighbor_id)
    /\ count' = count + 1
    /\ UNCHANGED <<id, disconnected_servers, result, entry>>

Next == KeepNeighbor \/ EnterLoop \/ GiveUp \/ Found \/ Advance

Spec == Init /\ [][Next]_vars /\ WF_vars(Next)

-----------------------------------------------------------------------------
\* The method returns, for every neighbour and every set of suspicions, what
\* Ring states: true exactly when a neighbour was found, the neighbour being the
\* first eligible id after the old one (server.rs, update_neighbor).
LoopMatchesClosedForm ==
    result # "running" =>
        /\ (result = "true") <=> HasNeighbor(entry, id, disconnected_servers)
        /\ actual_neighbor_id = NextNeighbor(entry, id, disconnected_servers)

\* The walk round the ring always ends (server.rs, the loop in update_neighbor).
LoopEnds == <>(result # "running")
-----------------------------------------------------------------------------
(* Proof: the loop computes the closed form, for any number of servers.    *)

\* In the loop, count - 1 ids from the old neighbour's successor on were found
\* ineligible, and the walk stands on the next one.
Walked ==
    LET start == get_neighbor_id(entry) IN
    /\ entry \in disconnected_servers
    /\ count - 1 <= MAX_SERVERS
    /\ count - 1 < MAX_SERVERS => Distance(start, actual_neighbor_id) = count - 1
    /\ count - 1 = MAX_SERVERS => actual_neighbor_id = start
    /\ \A d \in Server :
          Distance(start, d) < count - 1 => ~Eligible(d, id, disconnected_servers)

LoopInv ==
    /\ id \in Server
    /\ entry \in Server
    /\ actual_neighbor_id \in Server
    /\ count \in Nat
    /\ result \in {"running", "true", "false"}
    /\ result = "running" /\ count = 0 => actual_neighbor_id = entry
    /\ result = "running" /\ count > 0 => Walked
    /\ LoopMatchesClosedForm

LEMMA LoopInvInit == Init => LoopInv
BY DEF Init, LoopInv, LoopMatchesClosedForm

LEMMA LoopInvStep == LoopInv /\ [Next]_vars => LoopInv'
<1> SUFFICES ASSUME LoopInv, [Next]_vars PROVE LoopInv'
  OBVIOUS
<1> USE MaxServersAssumption
<1> DEFINE start == get_neighbor_id(entry)
<1>0. start \in Server
  BY NeighborType DEF LoopInv
<1>1. CASE KeepNeighbor
  BY <1>1 DEF KeepNeighbor, LoopInv, LoopMatchesClosedForm, NextNeighbor, HasNeighbor
<1>2. CASE EnterLoop
  <2>1. Walked'
    BY <1>0, <1>2, DistanceProperties DEF EnterLoop, Walked, LoopInv
  <2>2. QED
    BY <1>0, <1>2, <2>1 DEF EnterLoop, LoopInv, LoopMatchesClosedForm
<1>3. CASE GiveUp
  <2>1. Walked /\ count - 1 = MAX_SERVERS /\ actual_neighbor_id = start
    BY <1>3 DEF GiveUp, LoopInv, Walked
  <2>2. \A d \in Server : ~Eligible(d, id, disconnected_servers)
    BY <1>0, <2>1, DistanceProperties DEF Walked
  <2>3. LoopMatchesClosedForm'
    BY <1>3, <2>1, <2>2 DEF GiveUp, Walked, LoopMatchesClosedForm, NextNeighbor, HasNeighbor
  <2>4. QED
    BY <1>3, <2>3 DEF GiveUp, LoopInv
<1>4. CASE Found
  <2>1. Walked /\ count - 1 < MAX_SERVERS
        /\ Eligible(actual_neighbor_id, id, disconnected_servers)
        /\ actual_neighbor_id \in Server
    BY <1>4 DEF Found, LoopInv
  <2>2. FirstEligible(start, id, disconnected_servers) = actual_neighbor_id
    <3> DEFINE f == FirstEligible(start, id, disconnected_servers)
    <3>1. /\ f \in Server
          /\ Eligible(f, id, disconnected_servers)
          /\ Distance(start, f) <= Distance(start, actual_neighbor_id)
      BY <1>0, <2>1, FirstEligibleProperties
    <3>2. ~(Distance(start, f) < Distance(start, actual_neighbor_id))
      BY <2>1, <3>1 DEF Walked
    <3>3. QED
      BY <1>0, <2>1, <3>1, <3>2, DistanceProperties
  <2>3. LoopMatchesClosedForm'
    BY <1>4, <2>1, <2>2 DEF Found, Walked, LoopMatchesClosedForm, NextNeighbor, HasNeighbor
  <2>4. QED
    BY <1>4, <2>3 DEF Found, LoopInv
<1>5. CASE Advance
  <2>1. /\ Walked /\ count - 1 < MAX_SERVERS /\ count > 0
        /\ ~Eligible(actual_neighbor_id, id, disconnected_servers)
        /\ actual_neighbor_id \in Server
        /\ count \in Nat
        /\ id' = id /\ entry' = entry /\ disconnected_servers' = disconnected_servers
        /\ count' = count + 1 /\ actual_neighbor_id' = get_neighbor_id(actual_neighbor_id)
    BY <1>5 DEF Advance, LoopInv
  <2>2. Distance(start, actual_neighbor_id) = count - 1
    BY <2>1 DEF Walked
  <2>3. \A d \in Server :
           Distance(start, d) < count => ~Eligible(d, id, disconnected_servers)
    BY <1>0, <2>1, <2>2, DistanceProperties DEF Walked
  <2>4. /\ count < MAX_SERVERS => Distance(start, actual_neighbor_id') = count
        /\ count = MAX_SERVERS => actual_neighbor_id' = start
    BY <1>0, <2>1, <2>2, StepDistance
  <2>5. Walked'
    BY <2>1, <2>3, <2>4 DEF Walked
  <2>6. QED
    BY <1>5, <2>1, <2>5, NeighborType DEF Advance, LoopInv, LoopMatchesClosedForm
<1>6. CASE UNCHANGED vars
  BY <1>6 DEF vars, LoopInv, LoopMatchesClosedForm, Walked
<1>7. QED
  BY <1>1, <1>2, <1>3, <1>4, <1>5, <1>6 DEF Next

\* For any number of servers, the loop of update_neighbor returns what the closed
\* form states: whether there is a neighbour, and the first eligible one.
THEOREM LoopCorrect == Spec => []LoopMatchesClosedForm
<1>1. LoopInv => LoopMatchesClosedForm
  BY DEF LoopInv
<1>2. QED
  BY LoopInvInit, LoopInvStep, <1>1, PTL DEF Spec
=============================================================================
