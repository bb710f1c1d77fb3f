---------------------------- MODULE HedgeRecovery ----------------------------
(***************************************************************************)
(* HedgeCoordinator over several lives of the process.  A crash, or        *)
(* teardown, which cancels the hedge tasks at their awaits, takes the      *)
(* groups, the exposure ledger and the operators' requests with it; the    *)
(* rows stay.  The next start does not resume anything: it logs an event   *)
(* for every row that is still active (runtime/app_bootstrap.py,           *)
(* storage/repositories/hedges.py).  What the venues go on doing with the  *)
(* dead groups' orders nobody hears of, and it is not followed here.       *)
(***************************************************************************)
EXTENDS HedgeCoordinator

CONSTANTS MaxCrashes  \* bound on the crashes

ASSUME RecoveryAssumption == MaxCrashes \in Nat

VARIABLES
    up,       \* the process runs
    crashes,  \* how often it has ended
    lost,     \* hedges that were in a process that ended
    grave,    \* what their groups knew then: position and repair attempts
    warned,   \* hedges a startup_orphan_hedge event was logged for
    missed    \* hedges whose event could not be written

recoveryVars == <<vars, up, crashes, lost, grave, warned, missed>>

RecoveryInit ==
    /\ Init
    /\ up = TRUE /\ crashes = 0
    /\ lost = {}
    /\ grave = [h \in Hedges |-> [position |-> 0, attempts |-> 0]]
    /\ warned = {} /\ missed = {}

\* While the process is up, its hedges run as HedgeCoordinator says.
Live ==
    /\ up
    /\ Next
    /\ UNCHANGED <<up, crashes, lost, grave, warned, missed>>

\* What a group had learnt of its fills: before gather returns they are with the
\* legs, after it in the executed amounts.
KnownPosition(h) ==
    IF pc[h] = "gather" THEN LegNet(h) ELSE executed[h]["buy"] - executed[h]["sell"]

Dying == {h \in Hedges \ lost : pc[h] # "idle"}

\* The hedges of the dead process are gone ("lost"); the others never began.
Crash ==
    /\ up /\ crashes < MaxCrashes
    /\ up' = FALSE
    /\ crashes' = crashes + 1
    /\ lost' = lost \union Dying
    /\ grave' = [h \in Hedges |->
                    IF h \in Dying
                    THEN [position |-> KnownPosition(h), attempts |-> attempts[h]]
                    ELSE grave[h]]
    /\ resting' = [h \in Hedges |-> BothSides(0)]
    /\ unseen' = [h \in Hedges |-> 0]
    /\ state' = [h \in Hedges |-> "UNREGISTERED"]
    /\ executed' = [h \in Hedges |-> BothSides(0)]
    /\ net' = [h \in Hedges |-> 0]
    /\ attempts' = [h \in Hedges |-> 0]
    /\ booked' = [h \in Hedges |-> BothSides(0)]
    /\ pc' = [h \in Hedges |-> IF h \in lost \union Dying THEN "lost" ELSE "idle"]
    /\ leg' = [h \in Hedges |->
                  BothSides(IF h \in lost \union Dying THEN LegRaised ELSE Pending)]
    /\ order' = [h \in Hedges |-> [c \in Callers |-> NoOrder]]
    /\ saving' = [h \in Hedges |-> {}]
    /\ heard' = [h \in Hedges |-> BothSides("nothing")]
    /\ reported' = [h \in Hedges |-> BothSides(0)]
    /\ openHedges' = {}
    /\ inFlight' = [ex \in Exchanges |-> 0]
    /\ meddled' = [h \in Hedges |-> {}]
    /\ UNCHANGED <<stored, warned, missed>>

HasRow(h) == stored[h] # "UNREGISTERED"

\* Mutant: only the states in which an order may be out count as active.
ActiveIfOrderOut(h) == stored[h] \in {"SUBMITTING", "HEDGING", "REPAIRING"}

\* HedgeRepo.active().
ActiveRow(h) == HasRow(h) /\ stored[h] \notin {"COMPLETED", "ABORTED"}

\* One event per active row; a failing write of one is only logged.
Startup ==
    /\ ~up
    /\ up' = TRUE
    /\ \E written \in SUBSET {h \in Hedges : ActiveRow(h)} :
        /\ warned' = warned \union written
        /\ missed' = missed \union ({h \in Hedges : ActiveRow(h)} \ written)
    /\ UNCHANGED <<vars, crashes, lost, grave>>

RecoveryNext == Live \/ Crash \/ Startup

RecoverySpec == RecoveryInit /\ [][RecoveryNext]_recoveryVars

-----------------------------------------------------------------------------

\* After a start, a position that a dead group knew of and that no event was
\* logged for belongs to a hedge without a row, because execute() had not returned
\* or the upsert failed, or to one that was given up after all its repairs: a row
\* that says COMPLETED, or ABORTED for any other reason, hides no position.
UnreportedPositionIsExplained ==
    up => \A h \in lost \ (warned \union missed) :
              ~Flat(grave[h].position) =>
                  \/ ~HasRow(h)
                  \/ stored[h] = "ABORTED" /\ grave[h].attempts >= MaxRepairAttempts

=============================================================================
