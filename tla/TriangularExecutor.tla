-------------------------- MODULE TriangularExecutor --------------------------
(***************************************************************************)
(* One cycle of TriangularExecutor._run (execution/triangular_executor.py) *)
(* around three assets of one exchange: each leg trades what the previous  *)
(* one gave, and a leg that fails has the earlier ones reversed, last      *)
(* first.                                                                  *)
(*                                                                         *)
(* The only awaits are the orders, so an action runs from the answer of    *)
(* one order to the submission of the next.  Every price is 1 (the orders  *)
(* are limited to the reference price): an amount is the same number in    *)
(* the asset spent and the asset gained.  What the cycle carries from leg  *)
(* to leg is what the orders filled; the venue's account also pays a fee.  *)
(***************************************************************************)
EXTENDS StrategyInputs, Sequences

Assets == {"A", "B", "C"}

VARIABLES
    direction,  \* opp.direction
    feeIn,      \* what the venue takes its fees from
    triPhase,   \* what the cycle awaits, or the outcome it ended with
    order,      \* amount of the order in flight, 0 when there is none
    fills,      \* actual_fills
    running,    \* running_qty
    undone,     \* filled amounts of the reversals answered so far
    holdings,   \* per asset, what the cycle really holds
    fees,       \* per asset, what the venue kept of it
    resting,    \* per order, what the venue may still fill
    late        \* quantity the venue filled without telling

triVars == <<direction, feeIn, triPhase, order, fills, running, undone, holdings, fees, resting, late>>

Outcomes == {"completed", "rolled_back", "aborted", "raised"}

\* _plan: pair_ba, pair_cb and pair_ca as [side, base, quote].
Buy(b, q)  == [side |-> "buy", base |-> b, quote |-> q]
Sell(b, q) == [side |-> "sell", base |-> b, quote |-> q]

Plan ==
    [forward |-> <<Buy("B", "A"), Buy("C", "B"), Sell("C", "A")>>,
     reverse |-> <<Buy("C", "A"), Sell("C", "B"), Sell("B", "A")>>]

Leg(i)    == Plan[direction][i]
Spent(l)  == IF l.side = "buy" THEN l.quote ELSE l.base
Gained(l) == IF l.side = "buy" THEN l.base ELSE l.quote

\* Mutant: the reversal repeats the leg.
ReverseSameSide(l) == l

Reverse(l) == [l EXCEPT !.side = IF l.side = "buy" THEN "sell" ELSE "buy"]

\* The paper engine takes the fee from the quote, many venues from what is bought.
FeeAsset(l) == IF feeIn = "quote" THEN l.quote ELSE Gained(l)

\* The exchange moves q from the asset spent to the asset gained, for a fee.
Trade(l, q) ==
    \E fee \in OrderFees :
        LET charged(a) == IF q > 0 /\ a = FeeAsset(l) THEN fee ELSE 0 IN
        /\ fees' = [a \in Assets |-> fees[a] + charged(a)]
        /\ holdings' = [a \in Assets |->
                           holdings[a] + (IF a = Gained(l) THEN q ELSE 0)
                                       - (IF a = Spent(l) THEN q ELSE 0) - charged(a)]

\* Orders: the legs 1 .. 3 and their reversals.
Orders == {"leg", "undo"} \X (1 .. 3)
OrderLeg(o) == IF o[1] = "leg" THEN Leg(o[2]) ELSE Reverse(Leg(o[2]))

TriInit ==
    /\ direction = "forward"
    /\ feeIn = "quote"
    /\ triPhase = "idle"
    /\ order = 0
    /\ fills = <<>>
    /\ running = 0
    /\ undone = <<>>
    /\ holdings = [a \in Assets |-> 0]
    /\ fees = [a \in Assets |-> 0]
    /\ resting = [o \in Orders |-> 0]
    /\ late = 0

-----------------------------------------------------------------------------
\* An UnifiedOrderState is "through" (FILLED, EXPIRED: final, whatever was
\* filled), "open" (SUBMITTED, PARTIALLY_FILLED, UNKNOWN) or "dead" (CANCELLED,
\* REJECTED).
Answers(amount) ==
    {r \in [amount : {amount}, filled : 0 .. amount, kind : {"through", "open", "dead"},
            price : IF UnpricedFills THEN {"known", "none"} ELSE {"known"}] :
        r.filled = 0 => r.price = "known"}

MayRest(q) == IF LateFills THEN q ELSE 0

Bails(r) == r.filled = 0 \/ r.kind = "dead"

\* Mutant: what was ordered is carried forward, not what was filled.
CarriedOrder(i, r) == r.amount

\* Mutant: a sale carries its order's amount.
CarriedProceeds(i, r) ==
    IF Leg(i).side = "buy" THEN r.filled ELSE IF r.price = "known" THEN r.amount ELSE 0

\* What leg i's answer leaves for the next one: the base bought, or the base sold
\* times an average price that may be missing.
CarriedForward(i, r) == IF Leg(i).side = "buy" \/ r.price = "known" THEN r.filled ELSE 0

\* Leg i is ordered for qty; with nothing to order the loop breaks, and a cycle
\* that leaves the loop is completed.
OrderLegOrComplete(i, qty) ==
    IF i <= 3 /\ qty > 0
    THEN order' = qty /\ triPhase' = "legs"
    ELSE order' = 0 /\ triPhase' = "completed"

\* The leg reversed after `answered` reversals when leg `bailed` failed:
\* actual_fills[:-1] from the last to the first.
UndoIndex(bailed, answered) == bailed - 1 - answered

\* execute() starts a cycle: leg 1 spends the probe.
TriBegin ==
    /\ triPhase = "idle"
    /\ direction' \in {"forward", "reverse"}
    /\ feeIn' \in {"quote", "gained"}
    /\ running' = Probe
    /\ holdings' = [holdings EXCEPT !["A"] = Probe]
    /\ OrderLegOrComplete(1, Probe)
    /\ UNCHANGED <<fills, undone, fees, resting, late>>

\* execute() is over and its locals are gone.
TriForget ==
    /\ triPhase \in Outcomes
    /\ direction' = "forward"
    /\ feeIn' = "quote"
    /\ triPhase' = "idle"
    /\ order' = 0
    /\ fills' = <<>>
    /\ running' = 0
    /\ undone' = <<>>
    /\ holdings' = [a \in Assets |-> 0]
    /\ fees' = [a \in Assets |-> 0]
    /\ resting' = [o \in Orders |-> 0]
    /\ late' = 0

\* A leg's order comes back with a fill to go on with.
LegFills ==
    /\ triPhase = "legs"
    /\ \E r \in Answers(order) :
        LET i == Len(fills) + 1 IN
        /\ ~Bails(r)
        /\ fills' = Append(fills, r)
        /\ running' = CarriedForward(i, r)
        /\ Trade(Leg(i), r.filled)
        /\ resting' = [resting EXCEPT ![<<"leg", i>>] =
                          IF r.kind = "open" THEN MayRest(order - r.filled) ELSE 0]
        /\ OrderLegOrComplete(i + 1, CarriedForward(i, r))
    /\ UNCHANGED <<direction, feeIn, undone, late>>

\* A leg fills nothing or is cancelled or rejected: the rollback orders the
\* reversal of the leg before it, and there is none for the first leg.
LegBails ==
    /\ triPhase = "legs"
    /\ \E r \in Answers(order) :
        LET i == Len(fills) + 1 IN
        /\ Bails(r)
        /\ fills' = Append(fills, r)
        /\ Trade(Leg(i), r.filled)
        /\ resting' = [resting EXCEPT ![<<"leg", i>>] =
                          IF r.kind = "open" THEN MayRest(order - r.filled) ELSE 0]
        /\ IF i = 1
           THEN triPhase' = "aborted" /\ order' = 0
           ELSE triPhase' = "rollback" /\ order' = fills[UndoIndex(i, 0)].filled
    /\ UNCHANGED <<direction, feeIn, running, undone, late>>

\* submit raises: the exception leaves _run, nothing is reversed or reported, and
\* after a timeout the order may still reach the venue.
LegRaises ==
    /\ triPhase = "legs"
    /\ triPhase' = "raised"
    /\ order' = 0
    /\ \E q \in {0, MayRest(order)} : resting' = [resting EXCEPT ![<<"leg", Len(fills) + 1>>] = q]
    /\ UNCHANGED <<direction, feeIn, fills, running, undone, holdings, fees, late>>

\* The rollback's loop goes on to the next leg whatever this one's reversal did.
NextReversal ==
    IF Len(undone) + 1 < Len(fills) - 1
    THEN order' = fills[UndoIndex(Len(fills), Len(undone) + 1)].filled /\ triPhase' = "rollback"
    ELSE order' = 0 /\ triPhase' = "rolled_back"

ReversalAnswers ==
    /\ triPhase = "rollback"
    /\ \E r \in Answers(order) :
        LET i == UndoIndex(Len(fills), Len(undone)) IN
        /\ undone' = Append(undone, r.filled)
        /\ Trade(Reverse(Leg(i)), r.filled)
        /\ resting' = [resting EXCEPT ![<<"undo", i>>] =
                          IF r.kind = "open" THEN MayRest(order - r.filled) ELSE 0]
    /\ NextReversal
    /\ UNCHANGED <<direction, feeIn, fills, running, late>>

\* submit raises inside the rollback: recorded as a reversal that filled nothing.
ReversalRaises ==
    /\ triPhase = "rollback"
    /\ undone' = Append(undone, 0)
    /\ \E q \in {0, MayRest(order)} :
          resting' = [resting EXCEPT ![<<"undo", UndoIndex(Len(fills), Len(undone))>>] = q]
    /\ NextReversal
    /\ UNCHANGED <<direction, feeIn, fills, running, holdings, fees, late>>

\* An order that is still open, or whose submit timed out, fills further.
LateFill ==
    \E o \in Orders :
        /\ resting[o] > 0
        /\ \E q \in 1 .. resting[o] : Trade(OrderLeg(o), q) /\ late' = late + q
        /\ resting' = [resting EXCEPT ![o] = 0]
        /\ UNCHANGED <<direction, feeIn, triPhase, order, fills, running, undone>>

TriStep == LegFills \/ LegBails \/ LegRaises \/ ReversalAnswers \/ ReversalRaises

TriNext == TriBegin \/ TriStep \/ LateFill \/ TriForget

TriSpec == TriInit /\ [][TriNext]_triVars

-----------------------------------------------------------------------------
(* Properties. *)

Fill == [amount : 0 .. Probe, filled : 0 .. Probe, kind : {"through", "open", "dead"},
         price : {"known", "none"}]

TriTypeOK ==
    /\ direction \in {"forward", "reverse"}
    /\ feeIn \in {"quote", "gained"}
    /\ triPhase \in {"idle", "legs", "rollback"} \union Outcomes
    /\ order \in 0 .. Probe
    /\ fills \in Seq(Fill) /\ Len(fills) <= 3
    /\ running \in 0 .. Probe
    /\ undone \in Seq(0 .. Probe) /\ Len(undone) <= 2
    /\ holdings \in [Assets -> Int]
    /\ fees \in [Assets -> Nat]
    /\ resting \in [Orders -> 0 .. Probe]
    /\ late \in Nat

\* "so we never try to trade more base than we actually own": a leg never orders
\* more of an asset than is there.  The fees break it.
LegsSpendWhatTheyHold ==
    triPhase = "legs" => order <= holdings[Spent(Leg(Len(fills) + 1))]

\* The fees are all that breaks it: a leg orders no more than the earlier legs
\* left and their fees took, whatever they filled, at whatever price, and whatever
\* an order that was left open fills meanwhile.
LegsOverspendOnlyFees ==
    triPhase = "legs" =>
        LET s == Spent(Leg(Len(fills) + 1)) IN order <= holdings[s] + fees[s]

\* Every reversal so far filled in full.
UndoneInFull ==
    \A k \in 1 .. Len(undone) : undone[k] = fills[UndoIndex(Len(fills), k - 1)].filled

\* The leg that failed traded nothing.
FailedCleanly == late = 0 /\ fills # <<>> /\ fills[Len(fills)].filled = 0

FilledInFull(i) == fills[i].filled = fills[i].amount /\ fills[i].price = "known"

\* A cycle whose legs all filled, or whose failed leg traded nothing and whose
\* reversals all filled, ends with nothing but A, and the fees owed in B and C.
FullFillsLeaveNoPosition ==
    \/ triPhase = "completed" /\ late = 0 /\ \A i \in 1 .. Len(fills) : FilledInFull(i)
    \/ triPhase \in {"rolled_back", "aborted"} /\ FailedCleanly /\ UndoneInFull
          /\ \A i \in 1 .. Len(fills) - 1 : FilledInFull(i)
    => \A a \in Assets : holdings[a] = (IF a = "A" THEN Probe ELSE 0) - fees[a]

\* The realized_pnl_quote of a completed cycle, running - probe, "end_A -
\* probe_quote in A terms", is more than what A really gained by no more than the
\* fees taken in A, partial fills, missing prices and late fills included.
ProfitOverstatedOnlyByFees ==
    triPhase = "completed" => running <= holdings["A"] + fees["A"]

\* A cycle that was started ends, whatever its orders do.
CycleEnds == triPhase = "legs" ~> triPhase \in Outcomes
=============================================================================
