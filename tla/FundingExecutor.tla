---------------------------- MODULE FundingExecutor ----------------------------
(***************************************************************************)
(* One hedge of FundingExecutor.execute (execution/funding_executor.py):   *)
(* a spot order and an opposite perpetual order of the same amount.  In    *)
(* live mode they are sent together and each may raise; in paper mode they *)
(* are simulated one after the other without an await.                     *)
(*                                                                         *)
(* A leg's position is counted in the direction it was ordered in, so the  *)
(* hedge is market neutral when both positions are equal.  Amounts are     *)
(* what the orders filled, as integers; prices and fees are left out.      *)
(***************************************************************************)
EXTENDS StrategyInputs

FundingLegs   == {"spot", "perp"}
FundingOrders == FundingLegs \union {"reversal"}

VARIABLES
    fundPhase,  \* what the hedge awaits, or its outcome
    answer,     \* per leg, what gather got for it
    reversal,   \* the leg being reversed or reversed, "none" without one
    position,   \* per leg, what the venue holds
    open,       \* per order, what it may still fill
    lateFilled  \* TRUE once a venue filled something without telling

vars == <<fundPhase, answer, reversal, position, open, lateFilled>>

HedgeOutcomes == {"opened", "failed", "repaired"}

\* A leg's UnifiedOrderState: FILLED, PARTIALLY_FILLED, "final" (CANCELLED,
\* REJECTED, EXPIRED) or "unsettled" (SUBMITTED, UNKNOWN).
NoAnswer  == [kind |-> "none", filled |-> 0]
RaisedLeg == [kind |-> "raised", filled |-> 0]
States    == {r \in [kind : {"filled", "partial", "final", "unsettled"}, filled : 0 .. Amount] :
                r.kind = "partial" => r.filled \in 1 .. Amount - 1}

BothLegs(x) == [l \in FundingLegs |-> x]
NothingOpen == [o \in FundingOrders |-> 0]
OtherLeg(l) == IF l = "spot" THEN "perp" ELSE "spot"
IsState(r)  == r.kind \in {"filled", "partial", "final", "unsettled"}

Init ==
    /\ fundPhase = "idle"
    /\ answer = BothLegs(NoAnswer)
    /\ reversal = "none"
    /\ position = BothLegs(0)
    /\ open = NothingOpen
    /\ lateFilled = FALSE

-----------------------------------------------------------------------------
\* An adapter or the spot book is missing, the amount is zero or the basis too
\* wide: _fail, without an order.
Refuse ==
    /\ fundPhase = "idle"
    /\ fundPhase' = "failed"
    /\ UNCHANGED <<answer, reversal, position, open, lateFilled>>

\* _classify.
Classify(spot, perp) ==
    IF spot.kind = "filled" /\ perp.kind = "filled" THEN "opened" ELSE "failed"

\* Paper mode: FILLED means the whole amount, nothing filled is CANCELLED or, for
\* want of a book, REJECTED.
PaperStates == {r \in States : /\ r.kind = "filled" => r.filled = Amount
                               /\ r.kind = "final" => r.filled = 0
                               /\ r.kind # "unsettled"}

PaperHedge ==
    /\ fundPhase = "idle"
    /\ answer' \in [FundingLegs -> PaperStates]
    /\ position' = [l \in FundingLegs |-> answer'[l].filled]
    /\ fundPhase' = Classify(answer'["spot"], answer'["perp"])
    /\ UNCHANGED <<reversal, open, lateFilled>>

\* Live mode: both orders leave under gather.
SendBoth ==
    /\ fundPhase = "idle"
    /\ fundPhase' = "gather"
    /\ UNCHANGED <<answer, reversal, position, open, lateFilled>>

\* execute() is over and its locals are gone.
Forget ==
    /\ fundPhase \in HedgeOutcomes
    /\ fundPhase' = "idle"
    /\ answer' = BothLegs(NoAnswer)
    /\ reversal' = "none"
    /\ position' = BothLegs(0)
    /\ open' = NothingOpen
    /\ lateFilled' = FALSE

\* create_order returns; an order left open may fill further.
OrderAnswers(l) ==
    /\ fundPhase = "gather"
    /\ answer[l] = NoAnswer
    /\ \E r \in States :
        /\ answer' = [answer EXCEPT ![l] = r]
        /\ position' = [position EXCEPT ![l] = @ + r.filled]
        /\ open' = [open EXCEPT ![l] =
                      IF LateFills /\ r.kind \in {"partial", "unsettled"} THEN Amount - r.filled ELSE 0]
    /\ UNCHANGED <<fundPhase, reversal, lateFilled>>

\* create_order raises, which _safe turns into a result; after a timeout the
\* order may still reach the venue.
OrderRaises(l) ==
    /\ fundPhase = "gather"
    /\ answer[l] = NoAnswer
    /\ answer' = [answer EXCEPT ![l] = RaisedLeg]
    /\ \E q \in {0} \union (IF LateFills THEN {Amount} ELSE {}) : open' = [open EXCEPT ![l] = q]
    /\ UNCHANGED <<fundPhase, reversal, position, lateFilled>>

\* Mutant: gather waits for an order from both legs.
GatherDoneOnStates == fundPhase = "gather" /\ \A l \in FundingLegs : IsState(answer[l])

GatherDone == fundPhase = "gather" /\ \A l \in FundingLegs : answer[l] # NoAnswer

\* Neither leg raised.
BothAnswered ==
    /\ GatherDone
    /\ \A l \in FundingLegs : IsState(answer[l])
    /\ fundPhase' = Classify(answer["spot"], answer["perp"])
    /\ UNCHANGED <<answer, reversal, position, open, lateFilled>>

\* The leg to reverse when the other one raised.  A CANCELLED, REJECTED or EXPIRED
\* leg is not reversed, even if the venue filled part of it.
Survives(l) == answer[l].kind \in {"filled", "partial"} /\ answer[l].filled > 0

OneRaised == GatherDone /\ \E l \in FundingLegs : answer[l] = RaisedLeg

\* A leg raised and the other one survives: its reversal is ordered.
ReverseSurvivor(l) ==
    /\ OneRaised
    /\ Survives(l)
    /\ reversal' = l
    /\ fundPhase' = "reversing"
    /\ UNCHANGED <<answer, position, open, lateFilled>>

\* A leg raised and there is nothing to reverse.
NoSurvivor ==
    /\ OneRaised
    /\ \A l \in FundingLegs : ~Survives(l)
    /\ fundPhase' = "failed"
    /\ UNCHANGED <<answer, reversal, position, open, lateFilled>>

\* Mutant: the leg's order is reversed, not its fill.
WholeOrder == Amount

ReversalAmount == answer[reversal].filled

\* The reversal's order returns, whatever it filled, and may be left open.
ReversalAnswers ==
    /\ fundPhase = "reversing"
    /\ \E q \in 0 .. ReversalAmount :
        /\ position' = [position EXCEPT ![reversal] = @ - q]
        /\ \E rest \in {0} \union (IF LateFills THEN {ReversalAmount - q} ELSE {}) :
              open' = [open EXCEPT !["reversal"] = rest]
    /\ fundPhase' = "repaired"
    /\ UNCHANGED <<answer, reversal, lateFilled>>

\* It raises, and after a timeout it may still reach the venue.
ReversalRaises ==
    /\ fundPhase = "reversing"
    /\ fundPhase' = "failed"
    /\ \E rest \in {0} \union (IF LateFills THEN {ReversalAmount} ELSE {}) :
          open' = [open EXCEPT !["reversal"] = rest]
    /\ UNCHANGED <<answer, reversal, position, lateFilled>>

\* A leg's order that is still open, or whose await was given up, fills.
LateAnswer(l) ==
    /\ open[l] > 0
    /\ position' = [position EXCEPT ![l] = @ + open[l]]
    /\ open' = [open EXCEPT ![l] = 0]
    /\ lateFilled' = TRUE
    /\ UNCHANGED <<fundPhase, answer, reversal>>

\* So does a reversal.
LateReversal ==
    /\ open["reversal"] > 0
    /\ position' = [position EXCEPT ![reversal] = @ - open["reversal"]]
    /\ open' = [open EXCEPT !["reversal"] = 0]
    /\ lateFilled' = TRUE
    /\ UNCHANGED <<fundPhase, answer, reversal>>

Late == (\E l \in FundingLegs : LateAnswer(l)) \/ LateReversal

Begin == Refuse \/ PaperHedge \/ SendBoth

Step ==
    \/ \E l \in FundingLegs : OrderAnswers(l) \/ OrderRaises(l) \/ ReverseSurvivor(l)
    \/ BothAnswered \/ NoSurvivor \/ ReversalAnswers \/ ReversalRaises

Next == Begin \/ Step \/ Forget \/ Late

Spec == Init /\ [][Next]_vars

\* The adapters' timeouts bound every order.
Fairness == WF_vars(Step)

FairSpec == Spec /\ Fairness

-----------------------------------------------------------------------------
(* Properties. *)

FundingTypeOK ==
    /\ fundPhase \in {"idle", "gather", "reversing"} \union HedgeOutcomes
    /\ answer \in [FundingLegs -> States \union {NoAnswer, RaisedLeg}]
    /\ reversal \in FundingLegs \union {"none"}
    /\ position \in [FundingLegs -> Int]
    /\ open \in [FundingOrders -> 0 .. Amount]
    /\ lateFilled \in BOOLEAN

\* A reversal closes a leg and never turns it over: whatever the leg's order, the
\* other leg's and the reversal filled late or after they were given up, no venue is
\* left with a position against the one ordered, nor with an order that could make it.
ReversalOnlyCloses ==
    /\ fundPhase = "reversing" => ReversalAmount <= position[reversal]
    /\ \A l \in FundingLegs : position[l] >= (IF l = reversal THEN open["reversal"] ELSE 0)

\* A hedge whose orders left ends.
FundingEnds == fundPhase = "gather" ~> fundPhase \in HedgeOutcomes

\* "On half-fill we reverse the filled side via another live create_order": live
\* orders never end as a failed hedge, without a reversal, when one leg is FILLED
\* and the other one filled nothing.
HalfFillIsReversed ==
    [][(fundPhase = "gather" /\ fundPhase' = "failed") =>
          ~\E l \in FundingLegs : /\ answer[l].kind = "filled" /\ answer[l].filled > 0
                                  /\ answer[OtherLeg(l)].filled = 0]_vars
=============================================================================
