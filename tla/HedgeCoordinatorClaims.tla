----------------------- MODULE HedgeCoordinatorClaims -----------------------
(***************************************************************************)
(* Statements the repository's documents, comments and tests make about    *)
(* hedge groups which HedgeCoordinator does not satisfy.                   *)
(***************************************************************************)
EXTENDS HedgeCoordinator

\* test_hedge_failure_rollback.py: "Exposure must be released regardless of leg
\* outcome".  When the corrective order of two partial legs raises, it is not.
ExposureReleasedOnFailure ==
    \A h \in Hedges : pc[h] = "raised" => h \notin openHedges

=============================================================================
