--------------------------- MODULE MCHedgeRecovery ---------------------------
(* HedgeRecovery with two hedges over the same exchanges and one crash. *)
EXTENDS HedgeRecovery, TLC

CONSTANTS h1, h2, a, b, coord

MCBuyExchange  == [h \in Hedges |-> IF h = h1 THEN a ELSE b]
MCSellExchange == [h \in Hedges |-> IF h = h1 THEN b ELSE a]
MCNotional     == [h \in Hedges |-> IF h = h1 THEN 2 ELSE 3]

=============================================================================
