# arb-system: a verification of its trading core

TLA+ models of the Python service under `src/app`, checked with TLC and, where a
theorem is listed, proved with TLAPS.  The service watches order books on several
exchanges, and when one venue sells cheaper than another buys it sends both legs
of a *hedge* at once and repairs whatever imbalance the fills leave.

## 1. The system

| component | state it keeps | operations | interacts with |
|---|---|---|---|
| hedge coordinator (`execution/hedge_coordinator.py`) | one `HedgeGroupState` per hedge, kept in memory for ever | `execute`, `_rollback_single_leg`, `_release_exposure` | awaits router, adapter (cancel), repair engine; calls exposure and breaker |
| repair engine (`execution/repair_engine.py`) | none of its own, mutates the group | `repair` | awaits the router; called by the coordinator and by operators |
| hedge lifecycle (`execution/state_machine.py`) | the transition tables | `can_transition`, `assert_transition`, `terminal` | asserted by coordinator and repair on some assignments only |
| exposure manager (`risk/exposure_manager.py`) | notional in flight per exchange, set of open ids | `add`, `release` | coordinator, scanner loop; read by the risk engine |
| circuit breaker (`risk/circuit_breaker.py`) | samples, two counters, the trip latch | `record`, `record_pnl`, `reset` | told by coordinator; read by the risk engine |
| kill switch (`risk/kill_switch.py`) | one flag | `turn_on`, `turn_off` | control routes; read by the risk engine |
| risk engine (`risk/rules.py`) | cooldowns, daily loss | `evaluate`, `record_realized_pnl`, `set_cooldown` | reads everything above |
| scanner loop and hedge tasks (`runtime/app_bootstrap.py`) | the running tasks | `_scanner_loop`, `_execute_hedge_async`, `teardown` | composes all the others |
| balance manager (`accounts/balance_manager.py`) | balances, reservations, refresh times | `refresh_one`, `reserve`, `release_reserve`, `adjust_virtual` | scanner loop, paper fills; read by the risk engine |
| async persistence (`runtime/persistence.py`) | a semaphore, a task set, counters | `submit`, `_run`, `_on_done`, `drain` | scanner loop, teardown |
| order router, CCXT adapter | none | `submit`, `create_order`, `cancel_order`, polling | the exchanges |
| order book manager (`marketdata/orderbook_manager.py`), health guard | books, one task per pair with its websocket cool-down | `run`, `ensure_polling`, `stop`, `_poll_one`, `is_stale` | scanners, risk and coordinator read it |
| config service, config, control, strategies and credentials routes | the settings and one snapshot row | `update`, `persist`, `load_from_db`, reload, kill, mode, enable, configure | write the settings everything reads |
| spot scanner, execution policy, paper engine (`strategy/`, `execution/execution_policy.py`, `paper_fill_engine.py`) | none, the books are read | the VWAP walk, the filters, `protected_limit_price`, `in_band_depth`, `simulate` | scanner, coordinator and router call them |
| rate limiter (`api/rate_limit.py`) | a bucket of times per client | the dependency of every route that changes state | |
| triangular executor (`execution/triangular_executor.py`) | the locals of one cycle, a ring of reports | `execute`, `_rollback_async` | awaits the router, leg by leg; awaited by its scanner |
| funding executor (`execution/funding_executor.py`) | the locals of one hedge, a ring | `execute`, `_execute_paper`, `_execute_live` | awaits a spot and a perpetual adapter together; awaited by its scanner |
| maker-taker executor (`execution/maker_taker_executor.py`) | the locals of one cycle, a ring | `execute`, `_wait_for_maker_fill`, `_panic_close` | polls the books, awaits the router; awaited by a hedge task |
| strategy scanners (`strategy/triangular_scanner.py`, `funding_rate_scanner.py`) | `_running`, a ring, counters | `run`, `start`, `stop`, `_scan_once` | started and stopped by the supervisors of the bootstrap |

The process is one asyncio loop on one thread.  Code between two awaits is atomic,
and every await is a point where any other coroutine may run.  An action of these
models is therefore the code between two awaits, with everything it calls.

What is hard, and what the properties are about:

- two legs go to two venues at once, and each may fill, partly fill, stay open,
  lose its id, raise, or raise and fill later;
- the survivor of a failed leg is cancelled while the coordinator waits, and the
  fill it books is the one it read before that wait;
- an operator's repair request works on the same group object as the coordinator,
  at any moment, and `repair()` bypasses the lifecycle table on three of its exits;
- an exception leaves a stretch half done: which of exposure, open set, PnL and
  breaker have been told;
- rows are written only at the end, by a write that may fail;
- the scanner loop awaits between its decision and the reservation that makes the
  decision true, while hedges start and end and operators turn switches;
- a three-leg cycle spends what its own earlier legs gained, when any of them may be filled
  in part, without a price, or after it was given up; and its rollback is made of orders too;
- two legs of a funding hedge may each answer, raise, or raise and fill; a taker given up
  by its timeout may fill while the panic close sells the same amount elsewhere;
- a strategy flag may be toggled faster than its supervisor polls;
- a pair's book may be written by two tasks and two sources, each with a bound, a cool-down and
  a back-off of its own, and its age is what everything else trusts;
- the belief about a balance is moved by paper fills, by two refreshers whose answers may arrive
  in any order, and by a change of mode, while trades are approved against it;
- saves of the settings overlap, fail unheard, or lie behind what the control routes set in
  memory, and the next start loads whatever was committed last;
- a crash, or teardown, takes every group and ledger with it and leaves only the rows;
- a hedge's prices come from the scan, its depth gate from a later book and its fills from a
  third one;
- the write pool's slots pass from task to waiter while either may be cancelled.

`PROJECT.json` lists every component and, under `hazards`, every such place with its
line.

## 2. Modules

| module | models | needs |
|---|---|---|
| `HedgeStateMachine` | the hedge transition table | |
| `ExposureManager` | the two mutators of the exposure ledger, as operators | |
| `RepairEngine` | the decisions of `repair()`: side, amount, verdict, outcome | |
| `HedgeCoordinator` | `execute`, `_rollback_single_leg`, `repair()` under its two callers, the operator's route, the row, the venues | the three above |
| `HedgeCoordinatorClaims`, `MCHedgeCoordinator` | statements of documents and tests that the code does not meet; values for TLC | `HedgeCoordinator` |
| `FiniteSums` | lemmas: a sum over a finite set, and what one element adds or takes | |
| `HedgeCoordinatorProofs` | theorems: types; attempts, net position, open set, the exposure ledger | `HedgeCoordinator`, `FiniteSums` |
| `HedgeRepairProofs` | theorems: PnL, exclusive and shrinking repairs, how groups end, and the properties of several lives | `HedgeRecovery`, `HedgeCoordinatorProofs` |
| `HedgeRecovery`, `MCHedgeRecovery` | the coordinator over several lives of the process: crash, the rows that stay, the next start's look at them | extends `HedgeCoordinator` |
| `Dispatch`, `MCDispatch` | the scanner loop from decision to task, the risk gates, reservations, pre-exposure, the end of a task, the controls; values and one statement the code does not meet | `ExposureManager` |
| `DispatchProofs` | theorems: the limits, the reservations and the exposure of the dispatch | `Dispatch`, `FiniteSums` |
| `ControlPlane` | the settings, the routes that change them, their snapshot, boot and restart | |
| `ControlPlaneProofs` | theorems: legal selections, the kill switch, what survives a restart | `ControlPlane` |
| `CircuitBreaker` | the breaker's counters, window and latch beside the history they summarise | |
| `RateLimit` | the buckets of the admin rate limiter beside what they let through | |
| `SpotPricing` | walk, edge, filters, depth gate, limit price and paper fill of one opportunity, while the books move | |
| `Guards`, `MCGuards` | what stands between a signal and an order, and a client and a route | extends `ControlPlane` and `Dispatch`; `INSTANCE`s of the three above |
| `GuardsProofs` | theorems: the two refinements; limiter, breaker, walk, gate and edge | `Guards`, `ControlPlaneProofs`, `DispatchProofs` |
| `BoundedPool` | what a bounded pool of writes promises | |
| `AsyncPersistence` | `submit`, `_run`, `_on_done`, `drain` and the loop that calls them | implements `BoundedPool` |
| `OrderBookFeed` | the tasks that keep one pair's book fresh | |
| `Accounts` | belief, reservations and truth of one balance, in both modes | |
| `Background`, `MCBackground` | the tasks that run beside the scanner | extends `AsyncPersistence`; `INSTANCE`s of the two above |
| `BackgroundProofs` | theorems: slots and the drain, `AsyncPersistence` implements `BoundedPool`; fresh books; the paper account | `Background` |
| `StrategyInputs` | what the strategy executors are given: amounts, and what venues may do | |
| `TriangularExecutor` | one cycle: legs, rollback, and fills that come late | `StrategyInputs` |
| `FundingExecutor` | one spot and perpetual hedge, paper and live | `StrategyInputs` |
| `MakerTakerExecutor` | one cycle: the inferred maker fill, the hedge, the panic close | `StrategyInputs` |
| `Strategies` | supervisors, scanner loops and flags, extending the triangular executor and composed with the other two by `INSTANCE` | the four above |
| `StrategiesProofs` | theorems: types; what the legs of a cycle spend, hold and report; `Strategies` implements the cycle; the funding and maker-taker hedges | `Strategies` |

How they fit: `Dispatch` decides that a hedge may start and counts it; `SpotPricing` is the
arithmetic of that decision and of the coordinator's second look; `HedgeCoordinator`
is that hedge from its legs to its end, and its `ExecutionEnds` says that a hedge `Dispatch`
started comes to one; `AsyncPersistence` is the await in the middle of the scanner loop, which
`Dispatch` shows as the gap between `Approve` and `Schedule`; `CircuitBreaker` is the latch
`Dispatch` reads and `HedgeCoordinator` feeds; `OrderBookFeed` is the freshness the gates of
`Dispatch` and the `Move` of `SpotPricing` take as it comes; `Accounts` is one of `Dispatch`'s
balances when it is not constant; `ControlPlane` is where the switches and flags the others
read are set.  `Strategies` is the other half of the program:
triangular and funding cycles are started by their scanners and pass neither the risk engine
nor the exposure manager; the maker-taker cycle is the inside of `Dispatch`'s `making` stage.

`Guards`, `Background` and `Strategies` put parts of the program that run side by side and share
no variable that changes into one specification.  Interleaving such parts would multiply their
states and show nothing new, so `guard`, `part` or the running strategy is chosen at the start
and a behaviour is about that one; the parts keep their own `Init`, `Next` and properties.

### HedgeCoordinator and the code

A hedge is a member of `Hedges`; its group, created at the start of `execute`, is
spread over `state`, `executed`, `net`, `attempts` and `booked`.  `pc` says where
`execute` is suspended: `gather` (the two submits), `cancelling` (the survivor's
cancel), `repairing` and `rollbackRepairing` (the corrective order, on the two
paths that reach it, which treat its exception differently), or how it ended.

| action | code |
|---|---|
| `RejectBeforeOrders`, `SubmitLegs` | `execute`, lines 88-226 and 228-275: no await in between, so NEW and PLANNING are never seen by another task with the legs unsent |
| `LegAnswers`, `LegFails` | one coroutine of the gather returning an order or an exception |
| `BothLegsFail`, `SurvivorDone`, `SurvivorOpen`, `SurvivorCancelled` | lines 284-315 and `_rollback_single_leg` |
| `HedgeCompletes`, `HedgeNeedsRepair`, `HedgeOvertaken` | lines 317-385; the last is the assertion of line 327 failing |
| `RepairAnswers`, `RepairErrors` | `repair()` after its await, and what its caller does next |
| `OperatorRepairs`, `SaveRepair` | `POST /hedges/{id}/repair` up to its await, and its upsert |
| `SaveHedge` | the upsert of `_execute_hedge_async` |
| `VenueFills` | an exchange filling an order the program no longer follows |

Abstractions, each named where it is made: amounts are lots, and `Dust` is the 1e-8
tolerance in that unit; prices are gone, so `booked` is the *quantity* the PnL figure
accounts for, which tells a forgotten or doubled fill from a correct one;
`LossCapBinds` says whether the loss projection may refuse (its value depends on the
books, hence a choice); the upsert is one write that succeeds or fails; the order
tracker is written for observability only and left out.  `meddled` is auxiliary: which of
two things operators' requests did to a group, coming while its legs or the survivor's cancel
were out ("early"), or being refused by the loss projection while a corrective order was
("refused"; the refusal sets FAILED_NEEDS_REPAIR and so lets the next request send a second
order).

`HedgeRecovery` extends it with `Crash`, which is a kill of the process or `teardown` (it
cancels the hedge tasks at their awaits), and `Startup`, which resumes nothing and logs one
event per row that `HedgeRepo.active()` returns; each event's write may fail (`missed`).
`grave` is auxiliary: what a group of a dead process knew of its own position.

### Dispatch and the code

An opportunity's `stage` follows it from the scan to the end of its task.

| action | code (`runtime/app_bootstrap.py` unless named) |
|---|---|
| `Scan`, `Reject`, `Approve` | `_scanner_loop` up to the await on a persistence slot, with `RiskEngine.evaluate` (`risk/rules.py`) |
| `Schedule` | the rest of the loop's body: reservations, pre-exposure, task, cooldown |
| `StartMaker`, `StartHedge` | the two branches of `_execute_hedge_async` up to their first await; `StartHedge` is the release of the pre-exposure and the coordinator's own add |
| `HedgeReturns`, `HedgeRaises` | the end of `HedgeCoordinator.execute`, which returns or raises |
| `RecordPnl`, `HedgeEnds`, `MakerEnds` | what follows each await, and the `finally` |
| `SetKill`, `SetPause`, `SetMode`, `SetExecution`, `ResetBreaker` | the operator's controls |
| `CooldownOver`, `Midnight` | the clock |

Amounts are in quote at the signal's price, so the two reserved amounts are equal.  The
gates on books, health and edge, and the consecutive-loss gate, are the freedom of
`Reject`.  Balances stay what they were: refreshes and paper fills are in `Accounts`.  A lost
hedge loses one unit.  Teardown and restart are not here.

### CircuitBreaker and AsyncPersistence and the code

`Record`, `RecordPnl` and `Reset` are the breaker's three methods, `EditThreshold` the
settings it reads through a getter.  `outcomes` and `results` are auxiliary: what it was
told since the last reset, against which latch and counters are judged.  In
`AsyncPersistence`, `Submit` is `submit()` up to the semaphore, `SubmitResumes` its rest,
`WriteEnds` and `WriteCancelled` the two ends of `_run`, `DoneCallback` is `_on_done`,
`CancelLoop` is the cancellation in `teardown`, and the three `Drain` actions are `drain()`.
The semaphore is asyncio's: a released slot goes to the waiter at once, and a waiter that
is cancelled after that puts it back.

### ControlPlane and the code

| action | code |
|---|---|
| `Build` | `Settings()` and `_build_container`, which gives the kill switch and the breaker the environment's values |
| `Load`, `BootWithoutRow` | `bootstrap` and `load_from_db`; a load that fails, or no database |
| `Crash` | the process ends; saves in flight are lost |
| `PostConfig`, `PostConfigRejected` | `POST /config` with a good batch, and with one refused midway |
| `Pause`, `Resume`, `SwitchMode`, `SetKillSwitch`, `ReloadConfig` | the control routes, which save nothing |
| `Enable`, `Disable`, `Configure`, `SelectExchanges` | the strategies' routes, which do |
| `Commit`, `SaveFails` | `ConfigSnapshotRepo.save` of one `persist()`, in any order |
| `UpdateCredentials` | the .env file and the settings, in one stretch |

Four keys stand for the forty-odd editable ones: one that other objects keep a copy of
(`kill_switch`), a plain flag, a literal and a bounded number that `_validate` may refuse.
`excused` is auxiliary and names why a restart may bring back something else; `order` is the
last order about the kill switch.  The number of strategies and exchanges, the environment and
the bounds of the number are constants.

### OrderBookFeed, Accounts, SpotPricing, RateLimit and the code

`OrderBookFeed` is `_poll_one` cut at its awaits: `Ask` picks the source, `Serve` is the exchange
sending its book, `Answer` its arrival, `Transient`, `TimeOut`, `OtherError` and
`NotImplemented` the four `except` branches, `Wake` the end of a sleep.  `Run` and `EnsurePolling`
start a task each for the same pair.  Time is kept as ages up to `Old`, past which nothing is
told apart.

`Accounts` is one asset on one exchange.  `truth` is the exchange's, `cached` the program's;
`ApproveTrade`, `ReserveTrade`, `SpendReserved`, `FinishTrade` are a hedge seen from its balance,
`SpendUnreserved` a corrective order or a cycle of the other strategies, `AskBalance`,
`ServeBalance`, `ApplyBalance` one `refresh_one` of the loop or of the reconcile route.
`forgiven`, `uncovered` and `disturbed` are auxiliary.

`SpotPricing` keeps a price as a cost for a size and rates in percent, so every comparison of
the code is one of integers.  `Signal` is `evaluate_direction` with the scanner's filters and the
risk engine's cut, `Send` and `Abort` the coordinator before its legs, `Fill` one
`simulate`, `Move` the feed writing a book at any await.

`RateLimit`'s `Ask` is one request through the dependency, with the `max_per_minute` it comes
with: FastAPI makes that parameter of the dependency one of every route's query.  Nothing is
awaited between reading the clock and appending to the bucket, so it is one step.

### The strategy executors and the code

| action | code |
|---|---|
| `Supervise`, `LoopTop`, `ScanEnds`, `Toggle` | one poll of `_triangular_supervisor` or `_funding_supervisor` (`app_bootstrap.py` 366-412); the head of `run()`'s loop; the end of `_scan_once`; an operator's edit of the flag |
| `Found`, `CycleReturns` | the scanner's callback, which reads the flag again, and its return |
| `TriangularExecutor`: `TriBegin`, `LegFills`, `LegBails`, `LegRaises` | `_run`, from the answer of one order to the submission of the next |
| `ReversalAnswers`, `ReversalRaises` | `_rollback_async`: one pass of its loop |
| `FundingExecutor`: `Refuse`, `PaperHedge`, `SendBoth` | the early `_fail`s; `_execute_paper`; `_execute_live` up to `gather` |
| `OrderAnswers`, `OrderRaises`, `BothAnswered`, `ReverseSurvivor`, `NoSurvivor`, `ReversalAnswers`, `ReversalRaises` | the two coroutines of the gather, and the branches after it |
| `MakerTakerExecutor`: `MakerExpires`, `MakerFills`, `HedgeAnswers`, `HedgeTimesOut`, `HedgeRaises`, `PanicAnswers`, `PanicFails` | `_wait_for_maker_fill`, the hedge's `wait_for` and its three ends, `_panic_close` |
| `HedgeSimulated`, `PanicSimulated` | the same two orders when the router, which reads the mode at every submit (`order_router.py:33`), is in dry-run by then: FILLED, nothing sold |
| `LateFill`, `LateAnswer`, `LateReversal`, `LateSale` | a venue filling an order that was answered as open or given up |
| `TriForget`, `Forget` (in each) | `execute()` has returned: its locals are gone, and the next cycle starts from nothing |

Abstractions: prices are 1, so an amount is the same number in both assets of a pair
(`CarriedForward` keeps the one price that changes the control flow, the missing one);
`holdings` and `position` are what the venues hold on the cycle's account, which the program
never sees.  A triangular order that fills is charged a fee of `OrderFees`, taken either from the
quote, as the paper engine does (`paper_fill_engine.py:136-159`), or from what was bought or sold
for, as many venues do (`feeIn`, chosen per cycle); `fees` adds up what was taken, and the
program carries and reports the gross amounts.  The fees of the other two executors change no
amount they order and are left out.  A switch of the mode during a cycle is modelled for the
maker-taker cycle, which waits for its fill between two reads of it; a triangular or funding
cycle keeps the mode it started in.  The maker's order is built and
never submitted, so its fill is a number read off the book, `inferred`.

## 3. What TLC checks

Hedges end, requests are bounded and operators may stop asking, so the runs disable the
deadlock check.

| run | instance | shows |
|---|---|---|
| `Coordinator` | 1 hedge of 3 lots, tolerance 1 lot, 2 repairs, 1 operator, loss projection, late fills | `NetIsTheImbalance`, `PnlCoversExecution` over every sequence of fills; `ExecutionEnds`, `ExhaustedStaysAborted` |
| `CoordinatorOperators` | 1 hedge of 3 lots, tolerance 1 lot, 3 repairs, 2 operators (symmetric), loss projection | `RepairAttemptsBounded`, `OneRepairInFlight`, `RepairsShrinkTheResidual`, `EndsFlatOrExhausted`, the last three up to what `meddled` records |
| `Recovery` | 2 hedges in opposite directions over 2 exchanges, 1 lot, 1 repair, no operators, one crash | the open set is exactly the running or crashed hedges and the ledger their notional (`OpenWhileExecuting`, `InFlightIsOpenNotional`), across a restart; `BreakerHearsEverything`; `UnreportedPositionIsExplained` |
| `Background` | 3 writes over 2 slots; both tasks of a pair, every bound 1 and 2 websocket failures; 2 trades, a fee, one change of mode | `DrainLeavesNothing`, `ImplementsPool`, `ShutdownEnds`, `SubmittedIsWritten`; `FreshMeansRecent`, `StaleBookRecovers`; `PaperIsPaidFor`, `BeliefFollowsExchange` |
| `Strategies` | a probe of 2 and a fee of 1 per order, a funding amount of 2, a maker amount of 3 of which 2 are enough; late and unpriced fills | `LegsOverspendOnlyFees`, `FullFillsLeaveNoPosition`, `ProfitOverstatedOnlyByFees`; `ReversalOnlyCloses`; `OversoldOnlyByALateHedge`, `ReportIsTrue`; `FlagOffStops`, `CyclesEnd` |
| `Guards` | two strategies, one of them planned, two exchanges, 3 requests, 2 saves in flight; 3 opportunities over 3 exchanges, two of them symmetric, limits of 2 hedges and 6 per exchange, balances of 5, opportunities of the least trade of 2 and beyond the greatest of 4; every control, the modes that reserve balances; 4 outcomes between resets, a window of 1, two thresholds; 2 clients, requests that come with a limit of 1 or 2, a table for 1; four ask and three bid books, an empty one each | `EnabledHasItsExchanges`, `RestartRestores`, `KillSwitchAsOrdered`; `OpenWithinLimit`, `ExposureWithinLimit`, `ReservedIsOwed`, `ReservedWithinBalance`; `TrippedExactlyWhenDue`; `AtMostMaxPerMinute`; `StillBooksFill`, `FullFillsEarnTheEdge` |

Bounds: two hedges are enough for the ledger because a hedge touches it only
through its own notional, and the two overlap on both exchanges with different
notionals.  Three lots with a tolerance of one give a residual above, at and below
the tolerance on each side, with one corrective order or two.  Two operators and
the coordinator are the three parties a double repair needs.  One crash finds the groups of one
life; a later one finds only what the first left, rows and new groups.  Nothing is unbounded:
`Target` and `MaxRepairAttempts` bound every counter.  In `Dispatch` the first and the third
opportunity compete for the same two balances and two exchanges, and the second sells where they
buy, so each limit binds in some state while the others have room: after one trade of 4 an
exchange has exposure for 2 and quote for none, and three trades of 2 would fit the exposure but
not the slots.  Opportunities are
taken once, which bounds the daily loss.  The breaker's histories are cut at `MaxTold`
entries and `MaxTime` seconds, past the failures, samples and window that trip it.  Three
writes over two slots give a waiter, a holder and a finished write whose callback is due.
Three requests are an edit, one that overtakes it and one that undoes it, with a crash anywhere;
the environment's failure limit is out of bounds, which is the value only a restart can bring.
A feed whose bounds are all 1 has each of them expire before and after the others; two failures
of the websocket are the least that tells a run of them from one.  Two trades and two refreshers
are what the races over a balance need: an approval against an answer, an answer against another.
The books have two levels, each of them within or beyond the band and the limit in some pair of
books, and amounts below, at and above a level.
In `Strategies` an amount of 2 can be filled not at all, in part and in full, and a part of
a part is still positive; the maker's 3 leaves a fill below `MinFill`, one at it and one above
it.

Fairness (`FairSpec`): `create_order` and `cancel_order` are wrapped in `wait_for`,
the polling of an open order has a deadline, and a runnable task is run, so each
await of an existing hedge or request ends.  Nothing is assumed of operators, of new
hedges or of venues filling late.  Nothing is assumed of `Dispatch`, and no liveness claimed:
its loop waits for a persistence slot without a bound (`persistence.py:98`), and a stuck database
never gives one back.  `AsyncPersistence` assumes the event loop runs
what is ready and that `wait_for` fires; that writes end is a hypothesis of
`SubmittedIsWritten`, not an assumption, since a database may be stuck.  `OrderBookFeed` assumes
that time passes, that a bound on a request expires (`wait_for`), that the pair's own task runs
when it is ready, and strongly that an exchange asked over REST again and again answers at some
time; of the websocket and of the second task it assumes nothing.  `Accounts` assumes that the
balance loop asks and is answered; of trades, of the reconcile route and of the mode nothing,
so `BeliefFollowsExchange` supposes a mode that stays live.  `Strategies` assumes
that the supervisors poll, that the loops' sleeps end and that the adapters' timeouts and
`hedge_timeout_ms` bound every order; flags, opportunities and late fills owe nothing, so
`FlagOffStops` supposes a flag that settles.

### Where the documents and the code part

Each run below checks one statement and TLC finds it violated.

| run | statement | what the code does |
|---|---|---|
| `ClaimExposure` | test_hedge_failure_rollback.py:193 "Exposure must be released regardless of leg outcome" | a corrective order that raises after two partial legs skips the release |
| `ClaimDailyLoss` | rules.py:65 the daily-loss gate stays accurate | losses of maker-taker cycles and of hedges that raised are not told |
| `ClaimBoot` | app_bootstrap.py:253 the last-saved selections and thresholds are in effect from the first scan cycle | the kill switch and the breaker are built from the environment before the row is loaded |
| `ClaimDepth` | hedge_coordinator.py:191 a hedge whose leg cannot consume the gate's share within its limit is aborted before any order goes out | the gate measures from the best price of the moment, the limit comes from the average of the scan |
| `ClaimOwnedBase` | triangular_executor.py:18 "so we never try to trade more base than we actually own" | the gross fill is carried to the next leg while its fee came off the account: in the reverse cycle the third leg orders more of B than is there, and the PnL is gross (line 74: "end_A - probe_quote in A terms") |
| `ClaimHalfFill` | funding_executor.py:28 "On half-fill we reverse the filled side" | a leg is reversed only when the other one raised; one that comes back unfilled leaves the first as it is |

Other places where the models show the code going its own way, without a run of their
own: a rollback whose corrective order raises leaves the group REPAIRING, from which every
later repair raises, where hedge_coordinator.py:455 says FAILED_NEEDS_REPAIR; a repair request
during the gather completes the group, and its legs' fills are then dropped (README.md:125 says
asymmetric fills are unwound); a repair request completes a flat ABORTED group; two equally partial legs complete
without passing REPAIRING; a corrective fill without an average price is not folded into
the PnL; a survivor still open with nothing filled ends ABORTED; after a refusal by the
loss projection two corrective orders may be out and overshoot (`OneRepairInFlight` and
`RepairsShrinkTheResidual` except exactly that); `in_flight` may exceed `max_inflight` by the tasks whose callback is due;
the row `submit()` waits with is lost when the loop is cancelled; a PnL of zero ends the
losing streak; a batch in hand is dispatched after a pause, and an approved hedge after
the kill switch; a triangular leg that is cancelled after a partial fill, or a reversal that
fills nothing, leaves a position although triangular_executor.py:25 says "not a stuck position";
a submit that raises leaves `_run` without a rollback or a report; the maker-taker cycle is FLAT
even when the panic close sold nothing; a funding hedge is opened on two statuses, and its
amounts are not compared; a funding leg that comes back CANCELLED or EXPIRED with part of it
filled is not reversed when the other leg raised (funding_executor.py:337, against lines 17-19); the paper engine's dice may leave a fill-or-kill order partly filled
after its all-or-nothing check (paper_fill_engine.py:116); app_bootstrap.py:355 says virtual
balances are never overwritten, and the reconcile route (control.py:88) overwrites them in any
mode; an asset that is all spent at the exchange is not in its answer and keeps its old entry.

## 4. What is proved

Every invariant and every action property a run checks is also a theorem, for every value of the
constants; what remains with TLC alone is liveness.  A theorem rests on the named `ASSUME`s of
its module and on no hypothesis but the one it states.

### The hedge (`CoordinatorAssumption`, `RepairAssumption`)

- `TypeCorrect`: `TypeOK` is inductive; the leaves about sides, orders and results are
  lemmas on the operators.
- `RepairAttemptsAreBounded`, `NetIsAlwaysTheImbalance`, `OpenExactlyWhileExecuting`:
  each inductive relative to `TypeOK`; the first because the test and the increment
  share a step, the last because every action that leaves the executing stages
  releases the id or raises.
- `InFlightIsAlwaysOpenNotional`: the ledger is one number per exchange that hedges add to and
  take from with a clamp at zero.  `Ledger` states it as the sum of the notionals of the open
  hedges trading there; the lemmas of `FiniteSums` say what one hedge entering or leaving the set
  does to the sum, so the clamp never bites.  `CoordinatorWaits` (an order of the coordinator's
  means it awaits a repair) says that a release happens once.
- `PnlAlwaysCoversExecution`: needs the strengthening `Early` (while the legs are out
  nothing is executed or booked, and no corrective order is pending), because the two
  end-of-gather actions *assign* `booked` rather than add to it.
- `OneRepairAtATime`, `RepairsOnlyShrink`, with the loss projection on and any number of
  operators: the inductive invariant `Lock` (`LockIsInvariant`) says that an outstanding
  corrective order means REPAIRING, that it is the only one, and that it is for exactly the
  current residual, in every group in which the projection has not refused a request while an
  order was out.  Without that exception TLC finds two orders out at once.
- `GroupsEndFlatOrExhausted`, with operators and the loss projection: `RepairInv` adds to `Lock`
  that an ABORTED group is exhausted or flat (`Aborted`) and that a COMPLETED group no request has
  meddled with is flat with no corrective order out (`Done`).  `EndsFlatOverLives` carries it
  over crashes.
- `ExhaustedGroupsStayAborted`, an action property, with no hypothesis: an ABORTED group has used
  up its attempts, or is flat with no corrective order out (`Aborted`).
- `OpenOverLives`, `InFlightOverLives` (`RecoverySpec`): `LiveInv` is the above in one life, and a
  crash, which empties the ledger with the groups, establishes it anew.
- `BreakerAlwaysHearsEverything`, `UnreportedPositionsAreExplained`, under `Operators = {}`: both
  are about what the coordinator does alone, and an operator's request is exactly what spoils them
  (it completes a group whose legs are out, section 3, and trades without telling the breaker), so
  that the hypothesis is the statement's and not the prover's; the `Recovery` run checks them under
  it too.  `LivesInv` adds to `LiveInv` what a row
  in the database says of the group that wrote it.

### The dispatch (`DispatchAssumption`)

- `DispatchTypeCorrect`: the helper lemmas say that `Approvable`, a minimum of four or six
  numbers, is at most each of them, and that the ledgers stay natural under the clamp.
- `OpenNeverExceeds`: inductive with `IdsFollowStages` (an opportunity is counted under its
  first id exactly while scheduled or making, under its second exactly while its legs are
  out or it crashed), `BatchIsUnseen`, and `SlotIsKept`: the slot the decision saw is still
  free while the loop awaits, because only the loop takes slots and a hedge that starts
  replaces its id.
- `ReservesAreCovered`: inductive with `FundsAreKept`, the same for balances.
- `ExposureNeverExceeds`: `ExposureInv` says that an exchange is charged the total size of what
  runs or crashed on it (`LedgerIsExact`) and that the headroom of the approval in the loop's hand
  is still there.  Without the first part the second is not inductive: a release clamped at zero
  could make room that nobody gave back.
- `ReservesAreAlwaysOwed`: `ReservesAreExact`, the same sum for what is reserved.

### The guards (`ControlAssumption`, `DispatchAssumption`, `GuardsAssumption`)

- `GuardsImplementControlPlane`, `GuardsImplementDispatch`, hence `GuardsKeepTheLimits` and
  `GuardsKeepTheSettings`: a step of the composed program is a step of the part or leaves it
  alone, so what is proved of a part is proved of the program the run checks.
- `RateIsNeverExceeded`, whatever limits the requests come with: `LimiterInv` says that a bucket
  ends with everything let through within the last window (`Knows`) and that a request lies more
  than a window after the one its own `max_per_minute` before it in the history (`Spaced`).
- `BreakerTripsWhenDue`: `BreakerInv` ties each summary to the history since the reset: the
  samples are its end and nothing before them is in the window (`TailOf`), the run of failures is
  its length (`StreakOf`), the losing streak is the number of losses since the last other result
  (`LossesOf`).  The latch was due at an entry exactly when the counters said so at that moment
  (`StreakTrips`, `TailCounts`), and a due entry stays due as the history grows (`DueStays`).
- `GatedLegsFill`, `FullFillsEarn`: `PricingInv` says what a quote is (a walk of some size through
  a book) and what passed the gate while nothing moved.  The first rests on `LimitIsWider` (the
  limit comes from an average, so it is never tighter than the gate's, which comes from the best
  price), on the levels within a limit being a prefix of the ladder (`BetterIsWithin`, `ReachableIs`),
  and on `WalkSize` (a walk takes its size or all there is).  The second rests on `WalkOfReachable`
  (a fill that is complete walks the same levels as the gate's quote).

### Background tasks and strategies

- `SlotsAlwaysConserved`, `DrainIsComplete`: held and free slots add up, by cardinality
  lemmas, with a shape invariant relating the waiter, the tasks and the drain.
- `PersistenceImplementsPool`: each step of `AsyncPersistence` is a step of `BoundedPool`
  or a stutter; the hand-over of a slot to a waiter is the pool's `HandOver`.
- `FreshIsAlwaysRecent`, from `BackgroundAssumption`: `BookInv` bounds how old the answer a task waits
  for can be by the bound of the request it made, whichever of the two tasks it is; the two may
  overwrite each other with an older book, and the bound survives it.
- `PaperIsAlwaysPaidFor`, from the same: `AccountInv` says that approvals not yet spent
  stay covered.  An approval does not count the other approvals that await their reservation; it
  holds because there is never another.

- `TriangularTypeCorrect`, `LegsAreCovered`, `ProfitIsHeldUpToFees`, from `StrategyAssumption`:
  the invariant `Covered` says, of the holdings with the fees added back (`Gross`), that until the legs are over only legs that were answered may
  still fill, that A covers what leg 1 left open plus the running amount, and that the asset of
  the next leg covers its order.  It is inductive because the three legs spend three
  different assets (`LegsApart`), so a late fill never takes from the leg under way.
- `FullFillsEndInA`: `StakeInv` says where the probe is after each whole leg and each whole
  reversal.
- `StrategiesImplementTriangular`, hence `StrategiesLegsCovered`, `StrategiesProfitHeld` and
  `StrategiesLeaveNoPosition`: a step of `Strategies` is a step of the cycle or leaves it alone.
- `ReversalsOnlyClose`: `FundInv` says that until the hedge ends a venue holds at least what its leg
  answered (`AnswersHeld`), so at least what a reversal asks for, and after it at least what a
  reversal left open may still take (`ReversalCovered`); a leg that fills late only adds to it.
- `NothingElseOversells`, `ReportsAreTrue`: `MakerInv`.  Its part `NothingSoldTwice` is stronger
  than the property: it bounds, in every phase, what was sold, is being sold and may still be sold late by the panic
  close, leaving out only the hedge order's late fill.

### The settings (`ControlAssumption`)

- `ControlTypesHold`, `EnabledAlwaysBound`, from `ControlAssumption`: `PlaneInv` says the selection
  is legal in the settings and that the row and every save in flight are members of `Legal`, the
  payloads whose selection is; a save becomes the row unchanged, so commits in any order and
  crashes anywhere keep it.
- `KillSwitchObeys`: inductive once the phase is dropped (`Ordered`), because a build forgets the
  order with the switch.
- `EditsSurviveRestart`: `Saved` says that the latest save, or else the row, or else the
  environment, is what the settings are, as long as nothing is excused.  It is inductive because
  removing any save but the newest leaves the newest the last (`RemoveAtKeepsLast`), and because
  the number `_validate` refuses can only be the environment's own (`RestoredIsSaved`).

### How, and what is left to TLC

Induction over data is done first-order: `LeastNat` and its like take a least counterexample of a
set given as a set, never as an operator, so a recursive function (`Walk`) is unfolded one index
at a time and a sum over a finite set (`FiniteSums`) by one element.  Queues are written as the
code has them, `popleft` while the front is too old and `break` at the first level beyond the limit:
a `SubSeq` from the first index that stays, which is what the proofs need to know of them.

Only model-checked, because the prover has no liveness under fairness: `ExecutionEnds`,
`ShutdownEnds`, `SubmittedIsWritten`, `StaleBookRecovers`, `BeliefFollowsExchange`,
`FlagOffStops` and `CyclesEnd`.  The six statements of documents the code does not meet are
counterexamples and have no theorem.

## 5. Not modelled, and the plan

Not modelled for good: the dashboard, row mapping, metrics, alerts, reports, the strategy
catalogue and other listings, the order tracker, which no decision reads, settings parsing,
exchange I/O, wiring.

Left out of modules that are otherwise complete, each named where it would be: the health
guard's two reads (a free rejection in `Dispatch`); the daily loss, cooldowns and breaker across a restart (they are plain
attributes, and nothing says what should become of them); the arithmetic of the triangular and
funding scanners (a choice of opportunities); the values of prices in the three strategy
executors.  The kill switch and the pause flag are read at the decision only, so a batch in hand
goes on; nothing in the code says otherwise, and no property does.

No invariant or action property is without its theorem.  Still worth proving: that a
dispatched hedge is a `HedgeCoordinator` hedge (the two agree on a stage each by name only), and the
step lemmas the liveness properties rest on (each fair action, when enabled, makes progress).
