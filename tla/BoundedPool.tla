----------------------------- MODULE BoundedPool -----------------------------
(***************************************************************************)
(* What a bounded pool of writes promises: at most Capacity of them are    *)
(* under way, each is taken up at most once, and none once it has ended.   *)
(***************************************************************************)
EXTENDS Integers, FiniteSets

CONSTANTS Jobs, Capacity

VARIABLES active, ended

Init == active = {} /\ ended = {}

Begin(j) ==
    /\ j \notin active \union ended
    /\ Cardinality(active) < Capacity
    /\ active' = active \union {j}
    /\ UNCHANGED ended

End(j) ==
    /\ j \in active
    /\ active' = active \ {j}
    /\ ended' = ended \union {j}

\* The place a job leaves is taken in the same step.
HandOver(j, k) ==
    /\ j \in active
    /\ k \notin active \union ended
    /\ active' = (active \ {j}) \union {k}
    /\ ended' = ended \union {j}

\* A place that was promised is given back unused.
Withdraw(j) ==
    /\ j \in active
    /\ active' = active \ {j}
    /\ UNCHANGED ended

Next == \E j \in Jobs :
            \/ Begin(j) \/ End(j) \/ Withdraw(j)
            \/ \E k \in Jobs : HandOver(j, k)

Spec == Init /\ [][Next]_<<active, ended>>

=============================================================================
