----------------------------- MODULE MCDispatch -----------------------------
(***************************************************************************)
(* Dispatch on small instances, and a statement of risk/rules.py about the *)
(* daily loss that the code does not meet.                                 *)
(***************************************************************************)
EXTENDS Dispatch, TLC

CONSTANTS p1, p2, p3, a, b, c, btc, eth

\* p1 and p2 trade the same pair in opposite directions; p3 pays for another one
\* with the quote p1 needs.
MCSymbolOf     == [o \in Opps |-> IF o = p3 THEN eth ELSE btc]
MCBuyExchange  == [o \in Opps |-> IF o = p2 THEN b ELSE a]
MCSellExchange == [o \in Opps |-> CASE o = p1 -> b [] o = p2 -> a [] OTHER -> c]
MCBalance      == [ex \in Exchanges |-> [x \in Assets |-> 5]]

\* rules.py: record_realized_pnl is called "so the live-mode daily-loss gate stays
\* accurate".  The losses of maker-taker cycles and of crashed hedges are not told.
DailyLossIsAccurate ==
    (\A o \in Opps : stage[o] # "returned") =>
        dailyLoss = MapThenSumSet(LAMBDA o : loss[o], Opps)

=============================================================================
