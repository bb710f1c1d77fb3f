---------------------------- MODULE RepairEngine ----------------------------
(***************************************************************************)
(* The decisions of RepairEngine.repair (execution/repair_engine.py) on    *)
(* the group it is handed.  The coroutine itself, with its one await on    *)
(* the corrective order, is in HedgeCoordinator.                           *)
(***************************************************************************)
EXTENDS Integers

CONSTANTS
    MaxRepairAttempts,  \* settings.max_repair_attempts
    Dust,               \* the 1e-8 tolerance, in the unit of the amounts
    LossCapBinds        \* TRUE: the max_repair_loss_quote projection may refuse

ASSUME RepairAssumption ==
    /\ MaxRepairAttempts \in Nat
    /\ Dust \in Nat
    /\ LossCapBinds \in BOOLEAN

Sides == {"buy", "sell"}

\* abs(net_position_base) <= 1e-8
Flat(n) == -Dust <= n /\ n <= Dust

\* Mutant: the trade that adds to the residual.
RepairSideSwapped(n) == IF n > 0 THEN "buy" ELSE "sell"

\* A long residual is sold, a short one bought back, on whichever venue the
\* depth comparison picks: the side and the amount do not depend on the venue.
RepairSide(n)   == IF n > 0 THEN "sell" ELSE "buy"
RepairAmount(n) == IF n > 0 THEN n ELSE -n

\* Mutants: one attempt too many; the loss projection ahead of the attempt limit.
RepairVerdictsOffByOne(n, used) ==
    IF n = 0 THEN {"COMPLETED"}
    ELSE IF used > MaxRepairAttempts THEN {"ABORTED"} ELSE {"REPAIRING"}
RepairVerdictsCapFirst(n, used) ==
    IF n = 0 THEN {"COMPLETED"}
    ELSE {IF used >= MaxRepairAttempts THEN "ABORTED" ELSE "REPAIRING", "FAILED_NEEDS_REPAIR"}

\* The state repair() moves the group to before its first await, given the net
\* position and the attempts already used: nothing to do, attempts exhausted,
\* refused by the loss projection (which depends on the books and on the PnL so
\* far, hence a choice), or a corrective order.
RepairVerdicts(n, used) ==
    IF n = 0 THEN {"COMPLETED"}
    ELSE IF used >= MaxRepairAttempts THEN {"ABORTED"}
    ELSE {"REPAIRING"} \union IF LossCapBinds THEN {"FAILED_NEEDS_REPAIR"} ELSE {}

\* Mutant: the tolerance test without abs().
RepairOutcomeNoAbs(n) == IF n <= Dust THEN "COMPLETED" ELSE "FAILED_NEEDS_REPAIR"

\* The state the answer of the corrective order leads to.
RepairOutcome(n) == IF Flat(n) THEN "COMPLETED" ELSE "FAILED_NEEDS_REPAIR"

=============================================================================
