-------------------------- MODULE HedgeCoordinator --------------------------
(***************************************************************************)
(* The two-leg hedge: HedgeCoordinator.execute and _rollback_single_leg    *)
(* (execution/hedge_coordinator.py), RepairEngine.repair                   *)
(* (execution/repair_engine.py) and the operator's POST                    *)
(* /hedges/{id}/repair (api/routes/hedges.py), which calls the same        *)
(* repair() on the same group object.                                      *)
(*                                                                         *)
(* The program is one asyncio loop, so an action is the code between two   *)
(* awaits.  Every await is a place where another hedge, or an operator,    *)
(* runs: the two submits under gather, the survivor's cancel, the          *)
(* corrective order, and the row's upsert.                                 *)
(*                                                                         *)
(* Amounts are integers (multiples of a lot); only the quantity a PnL      *)
(* figure covers is kept, not its value.                                   *)
(***************************************************************************)
EXTENDS HedgeStateMachine, RepairEngine, ExposureManager, FiniteSetsExt

CONSTANTS
    Hedges,        \* hedge group ids
    Exchanges,
    BuyExchange,   \* opp.buy_exchange of each hedge
    SellExchange,  \* opp.sell_exchange of each hedge
    Notional,      \* planning_notional_quote of each hedge
    Target,        \* approved_amount
    Coordinator,   \* the task that runs execute()
    Operators,     \* concurrent POST /hedges/{id}/repair requests
    LateFills,     \* TRUE: a venue may fill an order without telling
    UnpricedFills  \* TRUE: a fill may come back with avg_fill_price None

ASSUME CoordinatorAssumption ==
    /\ BuyExchange \in [Hedges -> Exchanges]
    /\ SellExchange \in [Hedges -> Exchanges]
    /\ Notional \in [Hedges -> Nat \ {0}]
    /\ Target \in Nat \ {0}
    /\ Coordinator \notin Operators
    /\ LateFills \in BOOLEAN
    /\ UnpricedFills \in BOOLEAN

Callers == {Coordinator} \union Operators

VARIABLES
    state,       \* group.state, or "UNREGISTERED" before execute() creates it
    executed,    \* executed_buy_amount, executed_sell_amount
    net,         \* net_position_base
    attempts,    \* repair_attempts
    booked,      \* per side, the quantity realized_pnl_quote accounts for
    pc,          \* where execute() is suspended, or how it ended
    leg,         \* per side, what router.submit gave back to gather
    order,       \* per caller, the corrective order it is waiting for
    saving,      \* operators whose route is about to upsert the row
    stored,      \* the state column of the hedge's row
    heard,       \* per side, the outcome breaker.record was told
    reported,    \* per side, the quantity breaker.record_pnl was told about
    openHedges,  \* ExposureManager._open_hedges
    inFlight,    \* ExposureManager._in_flight
    resting,     \* per side, quantity a venue may still fill
    unseen,      \* signed quantity filled at venues and never recorded
    meddled      \* history: what operators' requests did to the group too soon

groupVars    == <<state, executed, net, attempts, booked>>
storeVars    == <<saving, stored>>
breakerVars  == <<heard, reported>>
exposureVars == <<openHedges, inFlight>>
venueVars    == <<resting, unseen>>
vars == <<groupVars, pc, leg, order, storeVars, breakerVars, exposureVars, venueVars, meddled>>

\* "lost": the process ended before or after execute() did (HedgeRecovery).
Stages == {"idle", "gather", "cancelling", "repairing", "rollbackRepairing",
           "returned", "saved", "raised", "lost"}

\* execute() is suspended at an await.
Executing(h) == pc[h] \in {"gather", "cancelling", "repairing", "rollbackRepairing"}

NoOrder == [side |-> "none", amount |-> 0]

\* An UnifiedOrderState: FILLED, another terminal status ("dead"), or a status
\* still open (SUBMITTED, PARTIALLY_FILLED, UNKNOWN) with the exchange's order
\* id ("live") or without one ("orphan", which nobody can cancel).
\* "closed" maps to FILLED whatever quantity the venue reports as filled.
Pending      == [kind |-> "pending", filled |-> 0, priced |-> TRUE]
LegRaised    == [kind |-> "raised", filled |-> 0, priced |-> TRUE]
PricedFlags  == IF UnpricedFills THEN BOOLEAN ELSE {TRUE}
OrderResults == [kind : {"filled", "dead", "live", "orphan"}, filled : 0 .. Target,
                 priced : PricedFlags]

\* Mutant: a partly filled order contributes nothing to the PnL.
BookedFillIfFilled(r) == IF r.priced /\ r.kind = "filled" THEN r.filled ELSE 0

Answered(r)   == r.kind \in {"filled", "dead", "live", "orphan"}
BookedFill(r) == IF r.priced THEN r.filled ELSE 0
Other(s)      == IF s = "buy" THEN "sell" ELSE "buy"
Signed(s, q)  == IF s = "buy" THEN q ELSE -q
BothSides(q)  == [s \in Sides |-> q]

Init ==
    /\ state = [h \in Hedges |-> "UNREGISTERED"]
    /\ executed = [h \in Hedges |-> BothSides(0)]
    /\ net = [h \in Hedges |-> 0]
    /\ attempts = [h \in Hedges |-> 0]
    /\ booked = [h \in Hedges |-> BothSides(0)]
    /\ pc = [h \in Hedges |-> "idle"]
    /\ leg = [h \in Hedges |-> BothSides(Pending)]
    /\ order = [h \in Hedges |-> [c \in Callers |-> NoOrder]]
    /\ saving = [h \in Hedges |-> {}]
    /\ stored = [h \in Hedges |-> "UNREGISTERED"]
    /\ heard = [h \in Hedges |-> BothSides("nothing")]
    /\ reported = [h \in Hedges |-> BothSides(0)]
    /\ openHedges = {}
    /\ inFlight = [ex \in Exchanges |-> 0]
    /\ resting = [h \in Hedges |-> BothSides(0)]
    /\ unseen = [h \in Hedges |-> 0]
    /\ meddled = [h \in Hedges |-> {}]

-----------------------------------------------------------------------------
(* Steps shared by the handlers. *)

\* Mutant: the sell exchange keeps the charge.
ReleaseBuyExchangeOnly(h) ==
    /\ openHedges' = ReleaseOpen(openHedges, h)
    /\ inFlight' = ReleaseNotional(inFlight, BuyExchange[h], Notional[h])

\* _release_exposure: the planning notional, on both exchanges.
ReleaseExposure(h) ==
    /\ openHedges' = ReleaseOpen(openHedges, h)
    /\ inFlight' = ReleaseNotional(
                      ReleaseNotional(inFlight, BuyExchange[h], Notional[h]),
                      SellExchange[h], Notional[h])

\* Mutant: a return that forgets _release_exposure.
SettleWithoutRelease(h, pnl) ==
    /\ UNCHANGED exposureVars
    /\ reported' = [reported EXCEPT ![h] = pnl]
    /\ pc' = [pc EXCEPT ![h] = "returned"]

\* The end of execute() once a leg has been accepted: the exposure is released
\* and the breaker is told the PnL, here the quantity pnl it covers.
Settle(h, pnl) ==
    /\ ReleaseExposure(h)
    /\ reported' = [reported EXCEPT ![h] = pnl]
    /\ pc' = [pc EXCEPT ![h] = "returned"]

\* execute() dies of an exception: nothing after it runs.
Raise(h) ==
    /\ pc' = [pc EXCEPT ![h] = "raised"]
    /\ UNCHANGED <<reported, exposureVars>>

\* repair() up to its await on the corrective order for net position n.
SubmitRepair(h, c, n) ==
    /\ attempts' = [attempts EXCEPT ![h] = @ + 1]
    /\ order' = [order EXCEPT ![h][c] = [side |-> RepairSide(n), amount |-> RepairAmount(n)]]

\* Mutant: the buy leg's outcome is recorded twice.
HearBuyLegTwice(h) ==
    heard' = [heard EXCEPT ![h] = BothSides(IF Answered(leg[h]["buy"]) THEN "ok" ELSE "failed")]

\* Both calls of breaker.record after gather.
HearLegs(h) ==
    heard' = [heard EXCEPT ![h] = [s \in Sides |-> IF Answered(leg[h][s]) THEN "ok" ELSE "failed"]]

\* execute() hands the group, now FAILED_NEEDS_REPAIR with net n, to repair().
HandToRepair(h, n, pnl, stage) ==
    \E v \in RepairVerdicts(n, attempts[h]) :
        /\ state' = [state EXCEPT ![h] = v]
        /\ IF v = "REPAIRING"
           THEN /\ SubmitRepair(h, Coordinator, n)
                /\ pc' = [pc EXCEPT ![h] = stage]
                /\ UNCHANGED <<reported, exposureVars>>
           ELSE /\ Settle(h, pnl)
                /\ UNCHANGED <<attempts, order>>

-----------------------------------------------------------------------------
(* execute(), up to gather. *)

\* The signal is too old (from NEW), or a book is too old, the edge is gone or
\* a book is too thin (from PLANNING): the group is returned ABORTED.
RejectBeforeOrders(h) ==
    /\ pc[h] = "idle"
    /\ state' = [state EXCEPT ![h] = "ABORTED"]
    /\ pc' = [pc EXCEPT ![h] = "returned"]
    /\ UNCHANGED <<executed, net, attempts, booked, leg, order, storeVars,
                   breakerVars, exposureVars, venueVars, meddled>>

\* Every gate passes: NEW, PLANNING and SUBMITTING follow without an await, the
\* exposure is added and both legs are submitted.
SubmitLegs(h) ==
    /\ pc[h] = "idle"
    /\ state' = [state EXCEPT ![h] = "SUBMITTING"]
    /\ pc' = [pc EXCEPT ![h] = "gather"]
    /\ openHedges' = AddOpen(openHedges, h)
    /\ inFlight' = AddNotional(AddNotional(inFlight, BuyExchange[h], Notional[h]),
                               SellExchange[h], Notional[h])
    /\ UNCHANGED <<executed, net, attempts, booked, leg, order, storeVars,
                   breakerVars, venueVars, meddled>>

\* router.submit returns an order for one leg; an open order may fill further.
LegAnswers(h, s) ==
    /\ pc[h] = "gather"
    /\ leg[h][s] = Pending
    /\ \E r \in OrderResults :
        /\ r.filled = 0 => r.priced
        /\ leg' = [leg EXCEPT ![h][s] = r]
        /\ resting' = [resting EXCEPT ![h][s] =
                          IF LateFills /\ r.kind \in {"live", "orphan"} THEN Target - r.filled ELSE 0]
    /\ UNCHANGED <<groupVars, pc, order, storeVars, breakerVars, exposureVars, unseen,
                   meddled>>

\* router.submit raises; after a timeout the order may still reach the venue.
LegFails(h, s) ==
    /\ pc[h] = "gather"
    /\ leg[h][s] = Pending
    /\ leg' = [leg EXCEPT ![h][s] = LegRaised]
    /\ \E q \in (IF LateFills THEN {0, Target} ELSE {0}) :
          resting' = [resting EXCEPT ![h][s] = q]
    /\ UNCHANGED <<groupVars, pc, order, storeVars, breakerVars, exposureVars, unseen,
                   meddled>>

-----------------------------------------------------------------------------
(* execute(), after gather. *)

\* Mutant: gather waits for an order from both legs, exceptions do not count.
GatherDoneOnOrders(h) == pc[h] = "gather" /\ \A s \in Sides : Answered(leg[h][s])

GatherDone(h) == pc[h] = "gather" /\ \A s \in Sides : leg[h][s] # Pending

BothLegsFail(h) ==
    /\ GatherDone(h)
    /\ \A s \in Sides : ~Answered(leg[h][s])
    /\ state' = [state EXCEPT ![h] = "ABORTED"]
    /\ pc' = [pc EXCEPT ![h] = "returned"]
    /\ ReleaseExposure(h)
    /\ HearLegs(h)
    /\ UNCHANGED <<executed, net, attempts, booked, leg, order, storeVars, reported, venueVars,
                   meddled>>

\* _rollback_single_leg after the cancel: book the survivor's fill, and if that
\* leaves a position hand it to repair(), whose exceptions are swallowed here.
Flatten(h, s, fills) ==
    LET n   == fills["buy"] - fills["sell"]
        pnl == [booked[h] EXCEPT ![s] = @ + BookedFill(leg[h][s])]
    IN  /\ executed' = [executed EXCEPT ![h] = fills]
        /\ net' = [net EXCEPT ![h] = n]
        /\ booked' = [booked EXCEPT ![h] = pnl]
        /\ \/ /\ Flat(n)
              /\ state' = [state EXCEPT ![h] = "ABORTED"]
              /\ Settle(h, pnl)
              /\ UNCHANGED <<attempts, order>>
           \/ /\ ~Flat(n)
              /\ ~CanTransition(state[h], "FAILED_NEEDS_REPAIR")
              /\ Raise(h)
              /\ UNCHANGED <<state, attempts, order>>
           \/ /\ ~Flat(n)
              /\ CanTransition(state[h], "FAILED_NEEDS_REPAIR")
              /\ HandToRepair(h, n, pnl, "rollbackRepairing")

\* One leg raised; the other's order is terminal, or has no id to cancel it by.
SurvivorDone(h, s) ==
    /\ GatherDone(h)
    /\ Answered(leg[h][s]) /\ ~Answered(leg[h][Other(s)])
    /\ leg[h][s].kind # "live"
    /\ HearLegs(h)
    /\ Flatten(h, s, [executed[h] EXCEPT ![s] = leg[h][s].filled])
    /\ UNCHANGED <<leg, storeVars, venueVars, meddled>>

\* One leg raised; the other's order is open and execute() awaits its cancel.
SurvivorOpen(h, s) ==
    /\ GatherDone(h)
    /\ Answered(leg[h][s]) /\ ~Answered(leg[h][Other(s)])
    /\ leg[h][s].kind = "live"
    /\ HearLegs(h)
    /\ executed' = [executed EXCEPT ![h][s] = leg[h][s].filled]
    /\ pc' = [pc EXCEPT ![h] = "cancelling"]
    /\ UNCHANGED <<state, net, attempts, booked, leg, order, storeVars, reported,
                   exposureVars, venueVars, meddled>>

\* The cancel returned, failed or timed out: its result is not looked at, the
\* fill the leg had answered with is what gets booked.
SurvivorCancelled(h, s) ==
    /\ pc[h] = "cancelling"
    /\ Answered(leg[h][s])
    /\ \E q \in {0, resting[h][s]} : resting' = [resting EXCEPT ![h][s] = q]
    /\ Flatten(h, s, executed[h])
    /\ UNCHANGED <<leg, storeVars, heard, unseen, meddled>>

\* Mutant: the buy leg is taken to have filled the approved amount.
LegNetOfTarget(h) == Target - leg[h]["sell"].filled

LegFill(h) == [s \in Sides |-> leg[h][s].filled]
LegNet(h)  == leg[h]["buy"].filled - leg[h]["sell"].filled
LegPnl(h)  == [s \in Sides |-> BookedFill(leg[h][s])]

\* Both legs answered and the group is still SUBMITTING: it takes their fills.
AdoptFills(h) ==
    /\ GatherDone(h)
    /\ \A s \in Sides : Answered(leg[h][s])
    /\ CanTransition(state[h], "HEDGING")
    /\ executed' = [executed EXCEPT ![h] = LegFill(h)]
    /\ net' = [net EXCEPT ![h] = LegNet(h)]
    /\ booked' = [booked EXCEPT ![h] = LegPnl(h)]
    /\ HearLegs(h)

NeedsRepair(h) ==
    \/ \E s \in Sides : leg[h][s].kind # "filled"
    \/ ~Flat(LegNet(h))

HedgeCompletes(h) ==
    /\ AdoptFills(h)
    /\ ~NeedsRepair(h)
    /\ state' = [state EXCEPT ![h] = "COMPLETED"]
    /\ Settle(h, LegPnl(h))
    /\ UNCHANGED <<attempts, leg, order, storeVars, venueVars, meddled>>

\* HEDGING, then FAILED_NEEDS_REPAIR, then repair(), whose exceptions are not
\* caught here.
HedgeNeedsRepair(h) ==
    /\ AdoptFills(h)
    /\ NeedsRepair(h)
    /\ HandToRepair(h, LegNet(h), LegPnl(h), "repairing")
    /\ UNCHANGED <<leg, storeVars, venueVars, meddled>>

\* Both legs answered, but an operator's repair() has moved the group on: the
\* assertion before HEDGING raises and the fills are not recorded.
HedgeOvertaken(h) ==
    /\ GatherDone(h)
    /\ \A s \in Sides : Answered(leg[h][s])
    /\ ~CanTransition(state[h], "HEDGING")
    /\ HearLegs(h)
    /\ Raise(h)
    /\ unseen' = [unseen EXCEPT ![h] = @ + LegNet(h)]
    /\ UNCHANGED <<groupVars, leg, order, storeVars, resting, meddled>>

-----------------------------------------------------------------------------
(* repair(), after its await, and whoever called it. *)

\* What the caller does when repair() returns (ok) or raises.
ResumeCaller(h, c, ok, pnl) ==
    \/ /\ c = Coordinator
       /\ ok \/ pc[h] = "rollbackRepairing"
       /\ Settle(h, pnl)
       /\ UNCHANGED saving
    \/ /\ c = Coordinator
       /\ ~ok /\ pc[h] = "repairing"
       /\ Raise(h)
       /\ UNCHANGED saving
    \/ /\ c \in Operators
       /\ saving' = [saving EXCEPT ![h] = IF ok THEN @ \union {c} ELSE @]
       /\ UNCHANGED <<pc, reported, exposureVars>>

RepairAnswers(h, c) ==
    /\ order[h][c] # NoOrder
    /\ \E f \in 0 .. order[h][c].amount, priced \in PricedFlags :
        LET s     == order[h][c].side
            fills == [executed[h] EXCEPT ![s] = @ + f]
            n     == fills["buy"] - fills["sell"]
            pnl   == [booked[h] EXCEPT ![s] = IF priced THEN @ + f ELSE @]
            legal == CanTransition(state[h], RepairOutcome(n))
        IN  /\ executed' = [executed EXCEPT ![h] = fills]
            /\ net' = [net EXCEPT ![h] = n]
            /\ booked' = [booked EXCEPT ![h] = pnl]
            /\ state' = [state EXCEPT ![h] = IF legal THEN RepairOutcome(n) ELSE @]
            /\ ResumeCaller(h, c, legal, pnl)
            /\ \E q \in (IF LateFills THEN {0, order[h][c].amount - f} ELSE {0}) :
                  resting' = [resting EXCEPT ![h][s] = @ + q]
    /\ order' = [order EXCEPT ![h][c] = NoOrder]
    /\ UNCHANGED <<attempts, leg, stored, heard, unseen, meddled>>

\* router.submit raises: the group stays as repair() left it.
RepairErrors(h, c) ==
    /\ order[h][c] # NoOrder
    /\ ResumeCaller(h, c, FALSE, booked[h])
    /\ order' = [order EXCEPT ![h][c] = NoOrder]
    /\ \E q \in (IF LateFills THEN {0, order[h][c].amount} ELSE {0}) :
          resting' = [resting EXCEPT ![h][order[h][c].side] = @ + q]
    /\ UNCHANGED <<groupVars, leg, stored, heard, unseen, meddled>>

\* What a request that moves the group to v leaves in its history: it came while
\* the legs or the survivor's cancel were out, or the loss projection refused it
\* (and so set FAILED_NEEDS_REPAIR) while a corrective order was.
Meddling(h, v) ==
         (IF pc[h] \in {"gather", "cancelling"} THEN {"early"} ELSE {})
  \union (IF v = "FAILED_NEEDS_REPAIR" /\ \E d \in Callers : order[h][d] # NoOrder
          THEN {"refused"} ELSE {})

\* POST /hedges/{id}/repair on a known hedge, whatever its state.  Where the
\* verdict is REPAIRING and the table forbids it the request raises and leaves
\* no trace.
OperatorRepairs(h, c) ==
    /\ state[h] # "UNREGISTERED"
    /\ order[h][c] = NoOrder /\ c \notin saving[h]
    /\ \E v \in RepairVerdicts(net[h], attempts[h]) :
        /\ v = "REPAIRING" => CanTransition(state[h], v)
        /\ state' = [state EXCEPT ![h] = v]
        /\ IF v = "REPAIRING"
           THEN SubmitRepair(h, c, net[h]) /\ UNCHANGED saving
           ELSE /\ saving' = [saving EXCEPT ![h] = @ \union {c}]
                /\ UNCHANGED <<attempts, order>>
        /\ meddled' = [meddled EXCEPT ![h] = @ \union Meddling(h, v)]
    /\ UNCHANGED <<executed, net, booked, pc, leg, stored, breakerVars, exposureVars, venueVars>>

-----------------------------------------------------------------------------
(* The row, and the venues. *)

\* hedge_repo.upsert after execute() returned; a failing write is only logged.
SaveHedge(h) ==
    /\ pc[h] = "returned"
    /\ pc' = [pc EXCEPT ![h] = "saved"]
    /\ \E row \in {state[h], stored[h]} : stored' = [stored EXCEPT ![h] = row]
    /\ UNCHANGED <<groupVars, leg, order, saving, breakerVars, exposureVars, venueVars,
                   meddled>>

\* The same upsert at the end of the operator's route.
SaveRepair(h, c) ==
    /\ c \in saving[h]
    /\ saving' = [saving EXCEPT ![h] = @ \ {c}]
    /\ \E row \in {state[h], stored[h]} : stored' = [stored EXCEPT ![h] = row]
    /\ UNCHANGED <<groupVars, pc, leg, order, breakerVars, exposureVars, venueVars,
                   meddled>>

\* A venue fills part of an order that the program no longer follows.
VenueFills(h, s) ==
    /\ leg[h][s] # Pending
    /\ \E q \in 1 .. resting[h][s] :
        /\ resting' = [resting EXCEPT ![h][s] = @ - q]
        /\ unseen' = [unseen EXCEPT ![h] = @ + Signed(s, q)]
    /\ UNCHANGED <<groupVars, pc, leg, order, storeVars, breakerVars, exposureVars,
                   meddled>>

-----------------------------------------------------------------------------
Await(h) ==
    \/ \E s \in Sides : LegAnswers(h, s) \/ LegFails(h, s)
    \/ \E s \in Sides : SurvivorCancelled(h, s)
    \/ SaveHedge(h)

Resume(h) ==
    \/ BothLegsFail(h)
    \/ \E s \in Sides : SurvivorDone(h, s) \/ SurvivorOpen(h, s)
    \/ HedgeCompletes(h) \/ HedgeNeedsRepair(h) \/ HedgeOvertaken(h)

RepairReturns(h, c) == RepairAnswers(h, c) \/ RepairErrors(h, c)

Next ==
    \E h \in Hedges :
        \/ RejectBeforeOrders(h) \/ SubmitLegs(h)
        \/ Await(h) \/ Resume(h)
        \/ \E c \in Callers : RepairReturns(h, c)
        \/ \E c \in Operators : OperatorRepairs(h, c) \/ SaveRepair(h, c)
        \/ \E s \in Sides : VenueFills(h, s)

Spec == Init /\ [][Next]_vars

\* Every await ends: create_order and cancel_order are bounded by wait_for,
\* the polling of an open order by its deadline, and a task that may resume is
\* resumed by the loop.  Operators and new hedges are not owed anything.
Fairness ==
    \A h \in Hedges :
        /\ WF_vars(Await(h))
        /\ WF_vars(Resume(h))
        /\ \A c \in Callers : WF_vars(RepairReturns(h, c))
        /\ \A c \in Operators : WF_vars(SaveRepair(h, c))

FairSpec == Spec /\ Fairness

-----------------------------------------------------------------------------
(* Properties. *)

TypeOK ==
    /\ state \in [Hedges -> HedgeStates \union {"UNREGISTERED"}]
    /\ executed \in [Hedges -> [Sides -> Nat]]
    /\ net \in [Hedges -> Int]
    /\ attempts \in [Hedges -> Nat]
    /\ booked \in [Hedges -> [Sides -> Nat]]
    /\ pc \in [Hedges -> Stages]
    /\ leg \in [Hedges -> [Sides -> OrderResults \union {Pending, LegRaised}]]
    /\ order \in [Hedges -> [Callers -> {NoOrder} \union [side : Sides, amount : Nat \ {0}]]]
    /\ saving \in [Hedges -> SUBSET Operators]
    /\ stored \in [Hedges -> HedgeStates \union {"UNREGISTERED"}]
    /\ heard \in [Hedges -> [Sides -> {"nothing", "ok", "failed"}]]
    /\ reported \in [Hedges -> [Sides -> Nat]]
    /\ openHedges \in SUBSET Hedges
    /\ inFlight \in [Exchanges -> Nat]
    /\ resting \in [Hedges -> [Sides -> Nat]]
    /\ unseen \in [Hedges -> Int]
    /\ meddled \in [Hedges -> SUBSET {"early", "refused"}]

\* However many operators press Repair while the coordinator repairs too, a
\* group never uses more corrective orders than max_repair_attempts: the check
\* and the increment of repair_attempts are in one stretch without an await.
RepairAttemptsBounded == \A h \in Hedges : attempts[h] <= MaxRepairAttempts

\* net_position_base, which repair() trades on and the dashboard shows, is the
\* difference of the executed amounts, in every state another task can see it
\* except while the survivor's cancel is awaited (the executed amount is set
\* before that await, the net after it).
NetIsTheImbalance ==
    \A h \in Hedges : pc[h] # "cancelling" =>
        net[h] = executed[h]["buy"] - executed[h]["sell"]

\* When fills come back priced, the recorded PnL covers exactly the executed
\* quantity of each side: no leg, survivor or corrective fill is left out or
\* counted twice on any path.
PnlCoversExecution ==
    ~UnpricedFills =>
        \A h \in Hedges : pc[h] # "cancelling" => booked[h] = executed[h]

\* A hedge counts as open exactly while execute() is running or after it died
\* of an exception: no path that returns leaves it among the open hedges, which
\* max_total_open_hedges limits, or drops another one.
OpenWhileExecuting ==
    openHedges = {h \in Hedges : Executing(h) \/ pc[h] = "raised"}

\* What an exchange is charged is the notional of the open hedges that trade on
\* it, whatever the hedges released in between.
InFlightIsOpenNotional ==
    \A ex \in Exchanges : inFlight[ex] =
          MapThenSumSet(LAMBDA h : Notional[h], {h \in openHedges : BuyExchange[h] = ex})
        + MapThenSumSet(LAMBDA h : Notional[h], {h \in openHedges : SellExchange[h] = ex})

\* However many operators press Repair, a group that ends ABORTED is flat or has
\* used up its repairs, and one that ends COMPLETED is flat.  Two things break the
\* second half, and only they do: a request while the legs or the survivor's cancel
\* are out, which completes the group before its fills are known, and one that the
\* loss projection refused while a corrective order was out.
EndsFlatOrExhausted ==
    \A h \in Hedges :
        /\ state[h] = "COMPLETED" => Flat(net[h]) \/ meddled[h] # {}
        /\ state[h] = "ABORTED" => Flat(net[h]) \/ attempts[h] >= MaxRepairAttempts

\* Once execute() has returned from a submission, the breaker has been told the
\* outcome of both legs and the PnL of everything the group executed.
BreakerHearsEverything ==
    \A h \in Hedges :
        pc[h] \in {"returned", "saved"} /\ (\A s \in Sides : leg[h][s] # Pending) =>
            /\ \A s \in Sides : heard[h][s] = IF Answered(leg[h][s]) THEN "ok" ELSE "failed"
            /\ reported[h] = booked[h]

\* No two corrective orders of one group are at the venues together: the
\* REPAIRING state keeps the second repair() out.  The one way past it is the loss
\* projection, which sets FAILED_NEEDS_REPAIR without consulting the table: a
\* request it refuses while an order is out lets the next request send another.
OneRepairInFlight ==
    \A h \in Hedges : \A c, d \in Callers :
        order[h][c] # NoOrder /\ order[h][d] # NoOrder =>
            c = d \/ "refused" \in meddled[h]

\* A corrective fill never turns a residual position over or makes it larger,
\* unless the loss projection refused a request while an order was out.
RepairsShrinkTheResidual ==
    [][\A h \in Hedges : \A c \in Callers :
          order[h][c] # NoOrder /\ order'[h][c] = NoOrder =>
              \/ "refused" \in meddled[h]
              \/ 0 <= net'[h] /\ net'[h] <= net[h]
              \/ net[h] <= net'[h] /\ net'[h] <= 0]_vars

\* A group ABORTED with a position left (its repairs are used up) is not revived
\* by any operator request, whatever the loss projection says.
ExhaustedStaysAborted ==
    [][\A h \in Hedges :
          state[h] = "ABORTED" /\ ~Flat(net[h]) => state'[h] = "ABORTED"]_vars

\* Every execute() that submitted its legs comes to an end, and unless it died
\* of an exception it has given its exposure back.
ExecutionEnds ==
    \A h \in Hedges :
        pc[h] = "gather" ~> pc[h] = "raised" \/ (pc[h] = "saved" /\ h \notin openHedges)

=============================================================================
