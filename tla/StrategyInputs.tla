---------------------------- MODULE StrategyInputs ----------------------------
(***************************************************************************)
(* What the strategy executors are given, and what venues may do to them.  *)
(***************************************************************************)
EXTENDS Integers

CONSTANTS
    Probe,         \* triangular: probe_quote, the amount of A a cycle starts with
    OrderFees,     \* triangular: the fees an order that fills may be charged
    Amount,        \* funding: amount_base
    Approved,      \* maker-taker: approved_amount
    MinFill,       \* maker-taker: the least inferred fill that meets min_fill_ratio
    LateFills,     \* TRUE: a venue may fill an order without telling
    UnpricedFills  \* TRUE: a fill may come back with avg_fill_price None

ASSUME StrategyAssumption ==
    /\ Probe \in Nat \ {0}
    /\ OrderFees \subseteq Nat /\ OrderFees # {}
    /\ Amount \in Nat \ {0}
    /\ Approved \in Nat \ {0}
    /\ MinFill \in 0 .. Approved
    /\ LateFills \in BOOLEAN
    /\ UnpricedFills \in BOOLEAN
=============================================================================
