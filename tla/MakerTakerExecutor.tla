-------------------------- MODULE MakerTakerExecutor --------------------------
(***************************************************************************)
(* One cycle of MakerTakerExecutor.execute                                 *)
(* (execution/maker_taker_executor.py): watch the cheap venue's book until *)
(* the maker buy is taken to have filled, sell that much on the other      *)
(* venue, and sell on the cheap venue what that sale left.                 *)
(*                                                                         *)
(* The maker's LIMIT order is built and never submitted, in any mode: its  *)
(* fill is a quantity the executor infers from the book.  Amounts are      *)
(* integers; prices and PnL are left out.                                  *)
(***************************************************************************)
EXTENDS StrategyInputs

VARIABLES
    mtPhase,   \* what the cycle awaits, or the report's state
    inferred,  \* filled, the maker fill read off the book
    selling,   \* amount of the sell order in flight
    sold,      \* per order, what the venue told it sold
    report,    \* hedge_filled_amount and the unhedged argument of _finalize
    pending,   \* per order, what a venue may still sell
    lateSold,  \* per order, what was sold without telling
    simulated  \* the orders that were answered in dry-run: FILLED, nothing sold

vars == <<mtPhase, inferred, selling, sold, report, pending, lateSold, simulated>>

\* The taker sell on the expensive venue and the panic close on the cheap one.
Sales == {"hedge", "panic"}
Nothing == [s \in Sales |-> 0]

Reports == {"DONE", "CANCELED", "FLAT"}
Ended   == Reports \union {"raised"}

NoReport == [hedged |-> 0, unhedged |-> 0]

Init ==
    /\ mtPhase = "idle"
    /\ inferred = 0
    /\ selling = 0
    /\ sold = Nothing
    /\ report = NoReport
    /\ pending = Nothing
    /\ lateSold = Nothing
    /\ simulated = {}

-----------------------------------------------------------------------------
Finalize(state, hedged, unhedged) ==
    /\ mtPhase' = state
    /\ selling' = 0
    /\ report' = [hedged |-> hedged, unhedged |-> unhedged]

\* Mutant: the panic close sells the whole maker fill again.
WholeMakerFill(hedged) == inferred

\* What the panic close sells after the hedge sold `hedged`.
Residual(hedged) == inferred - hedged

\* _panic_close up to its await.
PanicClose(hedged, unhedged) ==
    /\ mtPhase' = "panic"
    /\ selling' = Residual(hedged)
    /\ report' = [hedged |-> hedged, unhedged |-> unhedged]

\* execute() starts: without both books and a best bid the cycle is CANCELED,
\* otherwise it polls the cheap venue's book.
Begin ==
    /\ mtPhase = "idle"
    /\ mtPhase' \in {"waiting", "CANCELED"}
    /\ UNCHANGED <<inferred, selling, sold, report, pending, lateSold, simulated>>

\* execute() is over and its locals are gone.
Forget ==
    /\ mtPhase \in Ended
    /\ mtPhase' = "idle"
    /\ inferred' = 0
    /\ selling' = 0
    /\ sold' = Nothing
    /\ report' = NoReport
    /\ pending' = Nothing
    /\ lateSold' = Nothing
    /\ simulated' = {}

\* max_wait_ms is over or the mid price drifted: nothing filled.
MakerExpires ==
    /\ mtPhase = "waiting"
    /\ Finalize("CANCELED", 0, 0)
    /\ UNCHANGED <<inferred, sold, pending, lateSold, simulated>>

\* The asks at or below the maker price are enough for part or all of it: too
\* small a fill is CANCELED, another one is sold on the expensive venue.
MakerFills ==
    /\ mtPhase = "waiting"
    /\ \E f \in 1 .. Approved :
        /\ inferred' = f
        /\ IF f < MinFill
           THEN Finalize("CANCELED", 0, 0)
           ELSE mtPhase' = "hedging" /\ selling' = f /\ UNCHANGED report
    /\ UNCHANGED <<sold, pending, lateSold, simulated>>

\* Mutant: any fill of the hedge counts as a hedge.
HedgedIfSold(q) == q > 0

HedgedInFull(q) == q >= inferred

\* The hedge's order comes back.
HedgeAnswers ==
    /\ mtPhase = "hedging"
    /\ \E q \in 0 .. selling :
        /\ sold' = [sold EXCEPT !["hedge"] = q]
        /\ \E rest \in {0} \union (IF LateFills THEN {selling - q} ELSE {}) :
              pending' = [pending EXCEPT !["hedge"] = rest]
        /\ IF HedgedInFull(q)
           THEN Finalize("DONE", q, 0)
           ELSE PanicClose(q, Residual(q))
    /\ UNCHANGED <<inferred, lateSold, simulated>>

\* The mode is read at every submit: in dry-run by now, the router answers FILLED in
\* full and nothing is sold.
HedgeSimulated ==
    /\ mtPhase = "hedging"
    /\ simulated' = simulated \union {"hedge"}
    /\ Finalize("DONE", selling, 0)
    /\ UNCHANGED <<inferred, sold, pending, lateSold>>

\* hedge_timeout_ms is over: the await is given up, not the venue's order, and
\* the whole maker fill is closed.
HedgeTimesOut ==
    /\ mtPhase = "hedging"
    /\ \E q \in {0} \union (IF LateFills THEN {selling} ELSE {}) :
          pending' = [pending EXCEPT !["hedge"] = q]
    /\ PanicClose(0, 0)
    /\ UNCHANGED <<inferred, sold, lateSold, simulated>>

\* submit raises anything but the timeout: execute() dies of it.
HedgeRaises ==
    /\ mtPhase = "hedging"
    /\ mtPhase' = "raised"
    /\ selling' = 0
    /\ \E q \in {0} \union (IF LateFills THEN {selling} ELSE {}) :
          pending' = [pending EXCEPT !["hedge"] = q]
    /\ UNCHANGED <<inferred, sold, report, lateSold, simulated>>

\* The panic close answered: FLAT whatever it sold.
PanicAnswers ==
    /\ mtPhase = "panic"
    /\ \E q \in 0 .. selling :
        /\ sold' = [sold EXCEPT !["panic"] = q]
        /\ \E rest \in {0} \union (IF LateFills THEN {selling - q} ELSE {}) :
              pending' = [pending EXCEPT !["panic"] = rest]
    /\ Finalize("FLAT", report.hedged, report.unhedged)
    /\ UNCHANGED <<inferred, lateSold, simulated>>

PanicSimulated ==
    /\ mtPhase = "panic"
    /\ simulated' = simulated \union {"panic"}
    /\ Finalize("FLAT", report.hedged, report.unhedged)
    /\ UNCHANGED <<inferred, sold, pending, lateSold>>

\* It timed out or raised: noted in the legs, and FLAT all the same.
PanicFails ==
    /\ mtPhase = "panic"
    /\ \E q \in {0} \union (IF LateFills THEN {selling} ELSE {}) :
          pending' = [pending EXCEPT !["panic"] = q]
    /\ Finalize("FLAT", report.hedged, report.unhedged)
    /\ UNCHANGED <<inferred, sold, lateSold, simulated>>

\* A venue sells what an order it was left with still asks for.
LateSale ==
    \E s \in Sales :
        /\ pending[s] > 0
        /\ lateSold' = [lateSold EXCEPT ![s] = pending[s]]
        /\ pending' = [pending EXCEPT ![s] = 0]
        /\ UNCHANGED <<mtPhase, inferred, selling, sold, report, simulated>>

Step == MakerExpires \/ MakerFills \/ HedgeAnswers \/ HedgeSimulated \/ HedgeTimesOut
          \/ HedgeRaises \/ PanicAnswers \/ PanicSimulated \/ PanicFails

Next == Begin \/ Step \/ LateSale \/ Forget

Spec == Init /\ [][Next]_vars

\* max_wait_ms and hedge_timeout_ms bound every await.
Fairness == WF_vars(Step)

FairSpec == Spec /\ Fairness

-----------------------------------------------------------------------------
(* Properties. *)

MakerTakerTypeOK ==
    /\ mtPhase \in {"idle", "waiting", "hedging", "panic"} \union Ended
    /\ inferred \in 0 .. Approved
    /\ selling \in 0 .. Approved
    /\ sold \in [Sales -> 0 .. Approved]
    /\ report \in [hedged : 0 .. Approved, unhedged : 0 .. Approved]
    /\ pending \in [Sales -> 0 .. Approved]
    /\ lateSold \in [Sales -> 0 .. Approved]
    /\ simulated \subseteq Sales

\* The hedge and the panic close together never sell more than the maker fill,
\* unless the venue executed a hedge order whose await was given up: nothing else
\* sells the same amount twice, whatever the orders do after they were answered.
OversoldOnlyByALateHedge ==
    lateSold["hedge"] = 0 =>
        sold["hedge"] + sold["panic"] + selling + pending["panic"] + lateSold["panic"] <= inferred

\* What the report says of the hedge is so, unless the mode had become dry-run when
\* the hedge was submitted.  DONE: the maker fill was sold in full on the expensive
\* venue, nothing was sold on the cheap one, and no order is left that could sell
\* more.  FLAT: a cycle that hedged in part tells how much was hedged and how much
\* was left to the panic close, and one whose hedge timed out claims no hedge; what
\* the panic close sold, FLAT does not tell.
ReportIsTrue ==
    "hedge" \notin simulated =>
        /\ mtPhase = "DONE" => /\ sold["hedge"] = inferred /\ sold["panic"] = 0
                               /\ pending = Nothing /\ lateSold = Nothing
        /\ mtPhase \in {"DONE", "FLAT"} =>
              /\ report.hedged = sold["hedge"]
              /\ report.hedged > 0 => report.hedged + report.unhedged = inferred

\* A cycle that was started ends.
MakerTakerEnds == mtPhase = "waiting" ~> mtPhase \in Ended
=============================================================================
