----------------------------- MODULE SpotPricing -----------------------------
(***************************************************************************)
(* The prices and sizes of one spot opportunity, from the scan to the      *)
(* paper fills: the VWAP walk and the net edge (strategy/slippage_model,   *)
(* spread_calculator), the scanner's filters (strategy/                    *)
(* opportunity_scanner), the coordinator's second look at the books and    *)
(* its depth gate (execution/hedge_coordinator, execution_policy), the     *)
(* protected limit price and the paper fill (execution/paper_fill_engine). *)
(*                                                                         *)
(* The books are written by the feed at any await: between the scan and    *)
(* the gate, between the gate and a fill, and between the two fills.  A    *)
(* price is kept as the cost of a size, and rates are in percent where the *)
(* code has basis points, so every comparison is one of integers.          *)
(***************************************************************************)
EXTENDS Integers, Sequences, FiniteSetsExt

CONSTANTS
    AskLadders,   \* what the buying exchange's book may offer, best first
    BidLadders,   \* and what the selling exchange's may bid
    Probes,       \* sizes max_notional_per_trade comes to at a mid price
    Amounts,      \* sizes RiskEngine may approve
    BuyFee, SellFee,
    SafetyBuffer, \* scan_buffer_bps
    MinEdge,      \* min_net_edge_bps
    MinProfit,    \* min_profit_quote
    MinLiquidity, \* min_liquidity_usdt
    PriceBuffer,  \* ioc_price_buffer_bps
    DepthRatio,   \* min_in_band_depth_ratio
    PartialRatio  \* partial_fill_ratio

One == 100

Level == [price : Nat \ {0}, size : Nat \ {0}]

\* What the constants must satisfy; Guards assumes it.
PricingAssumption ==
    /\ AskLadders \union BidLadders \subseteq Seq(Level)
    /\ \A l \in AskLadders : \A i, j \in DOMAIN l : i < j => l[i].price < l[j].price
    /\ \A l \in BidLadders : \A i, j \in DOMAIN l : i < j => l[i].price > l[j].price
    /\ Probes \subseteq Nat \ {0} /\ Amounts \subseteq Nat \ {0}
    /\ {BuyFee, SellFee, PriceBuffer, DepthRatio, PartialRatio} \subseteq 0 .. One
    /\ {SafetyBuffer, MinEdge, MinProfit, MinLiquidity} \subseteq Nat

VARIABLES
    asks, bids,  \* the two books as OrderBookManager has them
    progress,    \* "idle", "approved", "sent" or "aborted"
    quoted,      \* opp.buy_price and opp.sell_price
    amount,      \* approved_amount
    policy,      \* order_type_policy when the legs were built
    fills,       \* what each leg has been filled, once it has
    moved        \* history: whether a book moved since the scan, since the gate

pricingVars == <<asks, bids, progress, quoted, amount, policy, fills, moved>>

Sides == {"buy", "sell"}
Nothing == [size |-> 0, cost |-> 0]
Ladder(side) == IF side = "buy" THEN asks ELSE bids

PricingInit ==
    /\ asks \in AskLadders /\ bids \in BidLadders
    /\ progress = "idle"
    /\ quoted = [side \in Sides |-> Nothing]
    /\ amount = 0
    /\ policy = "ioc_limit"
    /\ fills = [side \in {} |-> Nothing]
    /\ moved = {}

Least(x, y) == IF x < y THEN x ELSE y

\* vwap_buy, vwap_sell: take level after level until the size is there.
Walk(ladder, size) ==
    LET got[i \in 0 .. Len(ladder)] ==
          IF i = 0 THEN Nothing
          ELSE LET take == Least(size - got[i - 1].size, ladder[i].size)
               IN  [size |-> got[i - 1].size + take,
                    cost |-> got[i - 1].cost + take * ladder[i].price]
    IN  got[Len(ladder)]

\* What buying at one VWAP and selling at the other leaves of the bought price, after
\* the fees and the safety buffer, in percent and multiplied by this.
EdgeUnit(buy, sell) == buy.cost * sell.size

Edge(buy, sell) ==
    sell.cost * buy.size * (One - SellFee) - EdgeUnit(buy, sell) * (One + BuyFee + SafetyBuffer)

EdgeIsEnough(buy, sell) == Edge(buy, sell) >= MinEdge * EdgeUnit(buy, sell)

\* evaluate_direction: expected_profit_quote and max_tradable_base.
Tradable(buy, sell) == Least(buy.size, sell.size)

ProfitIsEnough(buy, sell) ==
    Edge(buy, sell) * Tradable(buy, sell) >= MinProfit * One * buy.size * sell.size

LiquidityIsEnough(buy, sell) ==
    Tradable(buy, sell) * buy.cost >= MinLiquidity * buy.size

\* What the feed writes when it writes one of the two books.
Move ==
    /\ \/ asks' \in AskLadders \ {asks} /\ UNCHANGED bids
       \/ bids' \in BidLadders \ {bids} /\ UNCHANGED asks
    /\ moved' = (CASE progress = "approved" -> {"scan"}
                   [] progress = "sent" -> moved \union {"scan", "gate"}
                   [] OTHER -> {})
    /\ UNCHANGED <<progress, quoted, amount, policy, fills>>

\* An opportunity of one direction passes the scanner's filters, at a size that
\* comes from the mid price, and the risk engine approves some part of it.
Signal(probe) ==
    LET buy == Walk(asks, probe)  sell == Walk(bids, probe) IN
    /\ progress \in {"idle", "aborted"} \/ DOMAIN fills = Sides
    /\ asks # <<>> /\ bids # <<>>
    /\ EdgeIsEnough(buy, sell) /\ ProfitIsEnough(buy, sell) /\ LiquidityIsEnough(buy, sell)
    /\ amount' \in {a \in Amounts : a <= Tradable(buy, sell)}
    /\ quoted' = [side \in Sides |-> IF side = "buy" THEN buy ELSE sell]
    /\ progress' = "approved"
    /\ moved' = {}
    /\ fills' = [side \in {} |-> Nothing]
    /\ UNCHANGED <<asks, bids, policy>>

-----------------------------------------------------------------------------
(* HedgeCoordinator.execute up to the legs. *)

\* price is within protected_limit_price of the reference's average.
WithinLimit(side, reference, price) ==
    IF side = "buy"
      THEN price * reference.size * One <= reference.cost * (One + PriceBuffer)
      ELSE price * reference.size * One >= reference.cost * (One - PriceBuffer)

LevelSizes(side) == [i \in DOMAIN Ladder(side) |-> Ladder(side)[i].size]

Depth(side, levels) == MapThenSumSet(LAMBDA i : LevelSizes(side)[i], levels)

LevelsWithin(side, reference) ==
    {i \in DOMAIN Ladder(side) : WithinLimit(side, reference, Ladder(side)[i].price)}

DepthWithin(side, reference) == Depth(side, LevelsWithin(side, reference))

\* Mutant: the depth of the whole book, which the scanner's walk counts.
WholeDepth(side) == Depth(side, DOMAIN Ladder(side))

\* in_band_depth, around the best price of the book as it is now.
InBandDepth(side) ==
    IF Ladder(side) = <<>> THEN 0
    ELSE DepthWithin(side, [size |-> 1, cost |-> Ladder(side)[1].price])

DeepEnough == \A side \in Sides : InBandDepth(side) * One >= amount * DepthRatio

\* Mutant: the edge of the size the scanner probed.
EdgeOfTheQuote == EdgeIsEnough(quoted["buy"], quoted["sell"])

\* The edge of the approved size in the books as they are now.
EdgeIsStillThere ==
    /\ asks # <<>> /\ bids # <<>>
    /\ EdgeIsEnough(Walk(asks, amount), Walk(bids, amount))

Send ==
    /\ progress = "approved"
    /\ EdgeIsStillThere
    /\ DepthRatio > 0 => DeepEnough
    /\ progress' = "sent"
    /\ policy' \in {"ioc_limit", "fok_limit", "market"}
    /\ UNCHANGED <<asks, bids, quoted, amount, fills, moved>>

\* The edge or the depth is gone, or the signal or a book is too old.
Abort ==
    /\ progress = "approved"
    /\ progress' = "aborted"
    /\ UNCHANGED <<asks, bids, quoted, amount, policy, fills, moved>>

-----------------------------------------------------------------------------
(* PaperFillEngine.simulate, after its latency: a live venue walks its book too. *)

\* The levels an order may take: from the best one up to the first beyond the limit.
Reachable(side) ==
    LET beyond == DOMAIN Ladder(side) \ LevelsWithin(side, quoted[side])
    IN  IF policy = "market" \/ beyond = {} THEN Ladder(side)
        ELSE SubSeq(Ladder(side), 1, Min(beyond) - 1)

\* All or nothing.
Matched(side) ==
    LET walk == Walk(Reachable(side), amount)
    IN  IF policy = "fok_limit" /\ walk.size < amount THEN Nothing ELSE walk

\* Part of what was matched, at the same average.
Part(fill) ==
    [size |-> (fill.size * PartialRatio) \div One, cost |-> (fill.cost * PartialRatio) \div One]

\* The dice may leave any matched order, a fill-or-kill one too, partly filled.
Fill(side, diced) ==
    /\ progress = "sent"
    /\ side \notin DOMAIN fills
    /\ LET fill == IF diced THEN Part(Matched(side)) ELSE Matched(side) IN
        fills' = [s \in DOMAIN fills \union {side} |->
                    IF s = side THEN [fill |-> fill, diced |-> diced] ELSE fills[s]]
    /\ UNCHANGED <<asks, bids, progress, quoted, amount, policy, moved>>

PricingNext ==
    \/ Move \/ Send \/ Abort
    \/ \E probe \in Probes : Signal(probe)
    \/ \E side \in Sides, diced \in BOOLEAN : Fill(side, diced)

PricingSpec == PricingInit /\ [][PricingNext]_pricingVars

-----------------------------------------------------------------------------

\* The gate measures depth from the best price of the moment, the order is limited
\* by the average the scanner saw: as long as neither book has moved since the
\* scan, the second is the wider of the two, so each leg of a hedge that passed the
\* gate fills at least min_in_band_depth_ratio of its amount (a fill-or-kill order
\* and the dice apart).
StillBooksFill ==
    \A side \in DOMAIN fills :
        moved = {} /\ policy # "fok_limit" /\ ~fills[side].diced =>
            fills[side].fill.size * One >= amount * DepthRatio

\* Two legs that fill completely, in the books the gate looked at, earn the net
\* edge it asked for, whatever the books were when the scanner quoted a price for
\* another size.
FullFillsEarnTheEdge ==
    DOMAIN fills = Sides /\ "gate" \notin moved =>
        LET buy == fills["buy"].fill  sell == fills["sell"].fill
        IN  buy.size = amount /\ sell.size = amount => EdgeIsEnough(buy, sell)

\* hedge_coordinator.py: "if either leg cannot consume min_in_band_depth_ratio *
\* approved_amount worth of depth at-or-better than the limit, the hedge is aborted
\* before any order goes out".  The limit is set from the scan's price and the
\* gate looks around the best price of the moment: legs go out that cannot.
GatedOrdersFill ==
    progress = "sent" /\ "gate" \notin moved /\ policy # "market" =>
        \A side \in Sides : DepthWithin(side, quoted[side]) * One >= amount * DepthRatio

=============================================================================
