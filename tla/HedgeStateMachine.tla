------------------------- MODULE HedgeStateMachine -------------------------
(***************************************************************************)
(* The lifecycle table of a hedge group (execution/state_machine.py).      *)
(* The table is consulted by assert_transition only: a handler that        *)
(* assigns group.state without the assertion is not bound by it.           *)
(***************************************************************************)

HedgeStates == {"NEW", "PLANNING", "SUBMITTING", "HEDGING",
                "FAILED_NEEDS_REPAIR", "REPAIRING", "COMPLETED", "ABORTED"}

\* _HEDGE_TRANSITIONS: the states each state may be followed by.
HedgeTransitions ==
    [s \in HedgeStates |->
        CASE s = "NEW"                 -> {"PLANNING", "ABORTED"}
          [] s = "PLANNING"            -> {"SUBMITTING", "ABORTED"}
          [] s = "SUBMITTING"          -> {"HEDGING", "FAILED_NEEDS_REPAIR", "ABORTED"}
          [] s = "HEDGING"             -> {"COMPLETED", "FAILED_NEEDS_REPAIR", "ABORTED"}
          [] s = "FAILED_NEEDS_REPAIR" -> {"REPAIRING", "ABORTED"}
          [] s = "REPAIRING"           -> {"COMPLETED", "FAILED_NEEDS_REPAIR", "ABORTED"}
          [] OTHER                     -> {}]

\* Mutant: a state may follow itself, as OrderStateMachine.can_transition has it.
CanTransitionOrStay(old, new) == old = new \/ new \in HedgeTransitions[old]

\* can_transition; assert_transition raises PermanentError where it is FALSE.
CanTransition(old, new) == new \in HedgeTransitions[old]

=============================================================================
