--------------------------- MODULE LeaderContract ---------------------------
(***************************************************************************)
(* What the servers promise each other and their clients: one leader at a  *)
(* time, which leads until it stops, and after it the highest of the       *)
(* servers that run.  Module Election implements this contract as long as  *)
(* nobody crashes or starts during an election, and it is all that module  *)
(* Registry takes of one.                                                  *)
(***************************************************************************)
EXTENDS Integers

CONSTANT Server

VARIABLES
    running,     \* the servers that run
    leaders      \* those that act as leader

vars == <<running, leaders>>

Highest(S) == CHOOSE h \in S : \A s \in S : h >= s

Init ==
    /\ running \subseteq Server
    /\ \E s \in running : leaders = {s}

Stop(s) ==
    /\ running' = running \ {s}
    /\ leaders' = leaders \ {s}

Elect ==
    /\ leaders = {} /\ running # {}
    /\ leaders' = {Highest(running)}
    /\ UNCHANGED running

Next == Elect \/ \E s \in Server : Stop(s)

Spec == Init /\ [][Next]_vars
=============================================================================
