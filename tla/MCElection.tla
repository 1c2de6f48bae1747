----------------------------- MODULE MCElection -----------------------------
(***************************************************************************)
(* One course of module Election: the first leader stops and two servers,  *)
(* 3 and then 2, notice it; the leader they elect stops as soon as it has  *)
(* a replica, and 2 notices that.  All else happens in any order.          *)
(***************************************************************************)
EXTENDS Election

Stopping == alive \ alive'

\* First the first leader, before anything else; then a leader with a replica.
LeadersStop ==
    /\ FirstLeader \in alive => Stopping = {FirstLeader}
    /\ \A s \in Stopping \ {FirstLeader} : im_leader[s] /\ \E r \in Server : link[r] = s

\* The servers that notice a stopped leader by themselves, in this order.
Noticing == {s \in alive : faults'.elections > faults.elections
                               /\ leader_connection[s] # leader_connection'[s]}

TwoNotice ==
    Noticing \subseteq {IF faults.crashes = 1 /\ faults.elections = 0 THEN 3 ELSE 2}

Failovers == Init /\ [][Next /\ LeadersStop /\ TwoNotice]_vars
=============================================================================
