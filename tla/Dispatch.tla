------------------------------ MODULE Dispatch ------------------------------
(***************************************************************************)
(* How an opportunity becomes a running hedge: _scanner_loop and           *)
(* _execute_hedge_async (runtime/app_bootstrap.py), RiskEngine.evaluate    *)
(* (risk/rules.py), the exposure ledger, the balance reservations          *)
(* (accounts/balance_manager.py) and the operator's controls               *)
(* (api/routes/control.py).                                                *)
(*                                                                         *)
(* The loop awaits a persistence slot between the decision and the         *)
(* reservation, and the hedge runs as a task of its own: those are the     *)
(* gaps in which controls, other hedges and the loop itself may run.  What *)
(* a hedge does between its legs and its end is in HedgeCoordinator; here  *)
(* it returns or dies.  Amounts are in quote at the signal's price.        *)
(***************************************************************************)
EXTENDS ExposureManager, FiniteSetsExt

CONSTANTS
    Opps,          \* opportunity ids
    Symbols,
    Exchanges,
    SymbolOf,
    BuyExchange,
    SellExchange,
    Sizes,         \* max_tradable_size of an opportunity
    MaxTrade,      \* max_notional_per_trade
    MinOrder,      \* min_order_size_quote
    MaxExposure,   \* max_exposure_per_exchange
    MaxOpen,       \* max_total_open_hedges
    MaxDailyLoss,  \* max_daily_loss_quote
    Balance,       \* the free balance of each exchange and asset
    Modes,         \* the modes operators use
    Controls,      \* the controls operators use, and whether midnight comes
    None

Assets == {"quote"} \union Symbols

ASSUME DispatchAssumption ==
    /\ IsFiniteSet(Opps) /\ None \notin Opps /\ "quote" \notin Symbols
    /\ SymbolOf \in [Opps -> Symbols]
    /\ BuyExchange \in [Opps -> Exchanges]
    /\ SellExchange \in [Opps -> Exchanges]
    /\ \A o \in Opps : BuyExchange[o] # SellExchange[o]
    /\ Sizes \subseteq Nat
    /\ MaxTrade \in Nat /\ MaxExposure \in Nat /\ MaxOpen \in Nat /\ MaxDailyLoss \in Nat
    /\ MinOrder \in Nat \ {0}
    /\ Balance \in [Exchanges -> [Assets -> Nat]]
    /\ Modes \subseteq {"dry-run", "paper-trade", "live"} /\ Modes # {}
    /\ Controls \subseteq {"kill", "pause", "mode", "execution", "breaker", "midnight"}

VARIABLES
    mode,        \* settings.mode
    makerTaker,  \* settings.execution_mode = "maker_taker"
    paused,      \* settings.paused
    killed,      \* KillSwitch._on
    tripped,     \* CircuitBreaker._tripped
    batch,       \* opportunities of the current scan, not yet looked at
    saving,      \* the approved opportunity the loop awaits persistence with
    stage,       \* where each opportunity has got to
    size,        \* approved_notional_quote
    loss,        \* whether its hedge lost money
    openHedges,  \* ExposureManager._open_hedges
    inFlight,    \* ExposureManager._in_flight
    reserved,    \* BalanceManager._reserved
    cooling,     \* symbols in their cooldown
    dailyLoss    \* RiskEngine._daily_loss_quote, in losing hedges

controlVars  == <<mode, makerTaker, paused, killed>>
loopVars     == <<batch, saving, cooling>>
exposureVars == <<openHedges, inFlight>>
hedgeVars    == <<stage, size, loss>>
vars == <<controlVars, tripped, loopVars, hedgeVars, exposureVars, reserved, dailyLoss>>

\* "approved": the loop is persisting it.  "scheduled": its task exists.  Then a
\* hedge has its "legs" out, has "returned" and awaits its row, is "recorded" and
\* awaits its quality row; a maker-taker cycle is "making"; a hedge may "crash".
Stages == {"unseen", "rejected", "approved", "scheduled", "making", "legs",
           "returned", "recorded", "crashed", "finished"}

\* The ids an opportunity is counted under before and while its hedge runs.
PreId(o) == <<"pre", o>>
OwnId(o) == <<"hedge", o>>

Init ==
    /\ mode \in Modes
    /\ makerTaker \in BOOLEAN
    /\ paused = FALSE /\ killed = FALSE /\ tripped = FALSE
    /\ batch = {} /\ saving = None /\ cooling = {}
    /\ stage = [o \in Opps |-> "unseen"]
    /\ size = [o \in Opps |-> 0]
    /\ loss = [o \in Opps |-> 0]
    /\ openHedges = {}
    /\ inFlight = [ex \in Exchanges |-> 0]
    /\ reserved = [ex \in Exchanges |-> [a \in Assets |-> 0]]
    /\ dailyLoss = 0

-----------------------------------------------------------------------------
(* RiskEngine.evaluate. *)

Headroom(ex) == IF inFlight[ex] < MaxExposure THEN MaxExposure - inFlight[ex] ELSE 0

\* Mutant: what others have reserved counts as free.
FreeBeforeReserves(ex, a) == Balance[ex][a]

Free(ex, a) ==
    IF reserved[ex][a] < Balance[ex][a] THEN Balance[ex][a] - reserved[ex][a] ELSE 0

\* Mutant: only the buying exchange is looked at.
BuyExposureCap(o) == {Headroom(BuyExchange[o])}

ExposureCaps(o) == {Headroom(BuyExchange[o]), Headroom(SellExchange[o])}

BalanceCaps(o) ==
    IF mode = "dry-run" THEN {}
    ELSE {Free(BuyExchange[o], "quote"), Free(SellExchange[o], SymbolOf[o])}

Approvable(o, tradable) ==
    Min({tradable, MaxTrade} \union ExposureCaps(o) \union BalanceCaps(o))

BigEnough(a) == a >= MinOrder

\* Mutant: one hedge too many.
SlotLeftOrFull == Cardinality(openHedges) <= MaxOpen

SlotLeft == Cardinality(openHedges) < MaxOpen

\* The gates on the symbol's list, its books, health and edge are not modelled:
\* any opportunity may be rejected by one of them.
MayTrade(o) ==
    /\ ~killed /\ ~tripped
    /\ SymbolOf[o] \notin cooling
    /\ SlotLeft
    /\ mode = "live" => dailyLoss < MaxDailyLoss

-----------------------------------------------------------------------------
(* _scanner_loop. *)

\* One scan; paused is looked at before it, and not again while its batch lasts.
Scan ==
    /\ batch = {} /\ saving = None
    /\ ~paused
    /\ batch' \in (SUBSET {o \in Opps : stage[o] = "unseen"}) \ {{}}
    /\ UNCHANGED <<controlVars, tripped, saving, cooling, hedgeVars, exposureVars,
                   reserved, dailyLoss>>

Reject(o) ==
    /\ o \in batch /\ saving = None
    /\ batch' = batch \ {o}
    /\ stage' = [stage EXCEPT ![o] = "rejected"]
    /\ UNCHANGED <<controlVars, tripped, saving, cooling, size, loss, exposureVars,
                   reserved, dailyLoss>>

\* The decision, up to the await on a persistence slot.
Approve(o) ==
    /\ o \in batch /\ saving = None
    /\ MayTrade(o)
    /\ \E tradable \in Sizes :
        /\ BigEnough(Approvable(o, tradable))
        /\ size' = [size EXCEPT ![o] = Approvable(o, tradable)]
    /\ batch' = batch \ {o}
    /\ saving' = o
    /\ stage' = [stage EXCEPT ![o] = "approved"]
    /\ UNCHANGED <<controlVars, tripped, cooling, loss, exposureVars, reserved, dailyLoss>>

\* The slot is there: reserve, count the exposure, create the task, cool down.
Schedule(o) ==
    /\ saving = o
    /\ saving' = None
    /\ stage' = [stage EXCEPT ![o] = "scheduled"]
    /\ reserved' = [reserved EXCEPT ![BuyExchange[o]]["quote"] = @ + size[o],
                                    ![SellExchange[o]][SymbolOf[o]] = @ + size[o]]
    /\ openHedges' = AddOpen(openHedges, PreId(o))
    /\ inFlight' = AddNotional(AddNotional(inFlight, BuyExchange[o], size[o]),
                               SellExchange[o], size[o])
    /\ cooling' = cooling \union {SymbolOf[o]}
    /\ UNCHANGED <<controlVars, tripped, batch, size, loss, dailyLoss>>

CooldownOver(s) ==
    /\ s \in cooling
    /\ cooling' = cooling \ {s}
    /\ UNCHANGED <<controlVars, tripped, batch, saving, hedgeVars, exposureVars,
                   reserved, dailyLoss>>

-----------------------------------------------------------------------------
(* _execute_hedge_async. *)

Released(ledger, o) ==
    ReleaseNotional(ReleaseNotional(ledger, BuyExchange[o], size[o]), SellExchange[o], size[o])

\* Mutant: the reservation of the bought side only.
GiveBackQuote(o) ==
    reserved' = [reserved EXCEPT ![BuyExchange[o]] = ReleaseNotional(@, "quote", size[o])]

\* release_reserve of both sides, in the finally.
GiveBack(o) ==
    reserved' = [reserved EXCEPT
        ![BuyExchange[o]]  = ReleaseNotional(@, "quote", size[o]),
        ![SellExchange[o]] = ReleaseNotional(@, SymbolOf[o], size[o])]

UsesMaker == makerTaker /\ mode # "dry-run"

UsesCoordinator == ~UsesMaker

\* MakerTakerExecutor.execute runs under the pre-exposure.
StartMaker(o) ==
    /\ stage[o] = "scheduled" /\ UsesMaker
    /\ stage' = [stage EXCEPT ![o] = "making"]
    /\ UNCHANGED <<controlVars, tripped, loopVars, size, loss, exposureVars, reserved, dailyLoss>>

\* The pre-exposure is released and the coordinator adds its own, with no await in
\* between; or the coordinator rejects the hedge before any order.
StartHedge(o) ==
    /\ stage[o] = "scheduled" /\ UsesCoordinator
    /\ \/ /\ stage' = [stage EXCEPT ![o] = "legs"]
          /\ openHedges' = AddOpen(ReleaseOpen(openHedges, PreId(o)), OwnId(o))
          /\ inFlight' = AddNotional(AddNotional(Released(inFlight, o), BuyExchange[o], size[o]),
                                     SellExchange[o], size[o])
       \/ /\ stage' = [stage EXCEPT ![o] = "returned"]
          /\ openHedges' = ReleaseOpen(openHedges, PreId(o))
          /\ inFlight' = Released(inFlight, o)
    /\ UNCHANGED <<controlVars, tripped, loopVars, size, loss, reserved, dailyLoss>>

\* The breaker hears of the legs and of the PnL, and may trip.
MayTrip == \E t \in {tripped, TRUE} : tripped' = t

MayLose(o) == \E l \in {0, 1} : loss' = [loss EXCEPT ![o] = l]

HedgeReturns(o) ==
    /\ stage[o] = "legs"
    /\ stage' = [stage EXCEPT ![o] = "returned"]
    /\ openHedges' = ReleaseOpen(openHedges, OwnId(o))
    /\ inFlight' = Released(inFlight, o)
    /\ MayLose(o)
    /\ MayTrip
    /\ UNCHANGED <<controlVars, loopVars, size, reserved, dailyLoss>>

\* An exception leaves the coordinator's exposure behind; the finally still runs.
HedgeRaises(o) ==
    /\ stage[o] = "legs"
    /\ stage' = [stage EXCEPT ![o] = "crashed"]
    /\ GiveBack(o)
    /\ MayLose(o)
    /\ MayTrip
    /\ UNCHANGED <<controlVars, loopVars, size, exposureVars, dailyLoss>>

\* After the row's upsert: record_realized_pnl.
RecordPnl(o) ==
    /\ stage[o] = "returned"
    /\ stage' = [stage EXCEPT ![o] = "recorded"]
    /\ dailyLoss' = dailyLoss + loss[o]
    /\ UNCHANGED <<controlVars, tripped, loopVars, size, loss, exposureVars, reserved>>

\* After the quality row: the finally.
HedgeEnds(o) ==
    /\ stage[o] = "recorded"
    /\ stage' = [stage EXCEPT ![o] = "finished"]
    /\ GiveBack(o)
    /\ UNCHANGED <<controlVars, tripped, loopVars, size, loss, exposureVars, dailyLoss>>

ReleasedMaker(ledger, o) == Released(ledger, o)

\* The maker-taker cycle ended or raised: the finally, with the pre-exposure.
MakerEnds(o) ==
    /\ stage[o] = "making"
    /\ stage' = [stage EXCEPT ![o] = "finished"]
    /\ openHedges' = ReleaseOpen(openHedges, PreId(o))
    /\ inFlight' = ReleasedMaker(inFlight, o)
    /\ GiveBack(o)
    /\ MayLose(o)
    /\ UNCHANGED <<controlVars, tripped, loopVars, size, dailyLoss>>

-----------------------------------------------------------------------------
(* The operator. *)

SetKill ==
    /\ "kill" \in Controls
    /\ killed' = ~killed
    /\ UNCHANGED <<mode, makerTaker, paused, tripped>>

SetPause ==
    /\ "pause" \in Controls
    /\ paused' = ~paused
    /\ UNCHANGED <<mode, makerTaker, killed, tripped>>

SetMode ==
    /\ "mode" \in Controls
    /\ mode' \in Modes \ {mode}
    /\ UNCHANGED <<makerTaker, paused, killed, tripped>>

SetExecution ==
    /\ "execution" \in Controls
    /\ makerTaker' = ~makerTaker
    /\ UNCHANGED <<mode, paused, killed, tripped>>

ResetBreaker ==
    /\ "breaker" \in Controls /\ tripped
    /\ tripped' = FALSE
    /\ UNCHANGED controlVars

Operate ==
    /\ SetKill \/ SetPause \/ SetMode \/ SetExecution \/ ResetBreaker
    /\ UNCHANGED <<loopVars, hedgeVars, exposureVars, reserved, dailyLoss>>

\* The daily loss counts from midnight.
Midnight ==
    /\ "midnight" \in Controls /\ dailyLoss > 0
    /\ dailyLoss' = 0
    /\ UNCHANGED <<controlVars, tripped, loopVars, hedgeVars, exposureVars, reserved>>

-----------------------------------------------------------------------------
Start(o) == StartMaker(o) \/ StartHedge(o)
Leave(o) == HedgeReturns(o) \/ HedgeRaises(o) \/ RecordPnl(o) \/ HedgeEnds(o) \/ MakerEnds(o)

Next ==
    \/ Scan
    \/ \E o \in Opps : Reject(o) \/ Approve(o) \/ Schedule(o) \/ Start(o) \/ Leave(o)
    \/ \E s \in Symbols : CooldownOver(s)
    \/ Operate \/ Midnight

Spec == Init /\ [][Next]_vars

-----------------------------------------------------------------------------
(* Properties. *)

Reserving == {o \in Opps : stage[o] \in {"scheduled", "making", "legs", "returned", "recorded"}}

TypeOK ==
    /\ mode \in Modes /\ makerTaker \in BOOLEAN
    /\ paused \in BOOLEAN /\ killed \in BOOLEAN /\ tripped \in BOOLEAN
    /\ batch \in SUBSET Opps /\ saving \in Opps \union {None}
    /\ stage \in [Opps -> Stages]
    /\ size \in [Opps -> {0} \union MinOrder .. MaxTrade]
    /\ loss \in [Opps -> {0, 1}]
    /\ openHedges \in SUBSET ({"pre", "hedge"} \X Opps)
    /\ inFlight \in [Exchanges -> Nat]
    /\ reserved \in [Exchanges -> [Assets -> Nat]]
    /\ cooling \in SUBSET Symbols
    /\ dailyLoss \in Nat

\* The open hedges never outnumber max_total_open_hedges, although the count is
\* read before the loop's await and the id is added after it, the id is replaced
\* when the hedge starts, and crashed hedges keep theirs.
OpenWithinLimit == Cardinality(openHedges) <= MaxOpen

\* No exchange ever carries more than max_exposure_per_exchange: the headroom an
\* approval was sized to is still there after the await.
ExposureWithinLimit == \A ex \in Exchanges : inFlight[ex] <= MaxExposure

\* What is reserved is what the unfinished tasks reserved: nothing is kept by a
\* hedge that ended or died, nothing is given back twice.
ReservedIsOwed ==
    \A ex \in Exchanges :
        /\ reserved[ex]["quote"] =
              MapThenSumSet(LAMBDA o : size[o], {o \in Reserving : BuyExchange[o] = ex})
        /\ \A s \in Symbols : reserved[ex][s] =
              MapThenSumSet(LAMBDA o : size[o],
                            {o \in Reserving : SellExchange[o] = ex /\ SymbolOf[o] = s})

\* Outside dry-run, concurrent hedges together never reserve more of an asset than
\* the exchange holds.
ReservedWithinBalance ==
    "dry-run" \notin Modes =>
        \A ex \in Exchanges, a \in Assets : reserved[ex][a] <= Balance[ex][a]

=============================================================================
