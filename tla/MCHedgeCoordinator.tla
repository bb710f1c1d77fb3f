------------------------- MODULE MCHedgeCoordinator -------------------------
(* HedgeCoordinator on small instances: the constants TLC is given. *)
EXTENDS HedgeCoordinatorClaims, TLC

CONSTANTS h1, h2, a, b, coord, o1, o2

MCBuyExchange  == [h \in Hedges |-> IF h = h1 THEN a ELSE b]
MCSellExchange == [h \in Hedges |-> IF h = h1 THEN b ELSE a]
MCNotional     == [h \in Hedges |-> IF h = h1 THEN 2 ELSE 3]
OperatorSymmetry == Permutations(Operators)

=============================================================================
