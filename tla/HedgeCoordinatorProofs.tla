---------------------- MODULE HedgeCoordinatorProofs ----------------------
(***************************************************************************)
(* What a hedge group records and what it holds open, for any set of       *)
(* hedges and operators, any target amount and any number of repair        *)
(* attempts: the types, the bound on the corrective orders, the agreement  *)
(* of the net position with the executed amounts, the set of open hedges   *)
(* and the notional the exchanges are charged for them.                    *)
(***************************************************************************)
EXTENDS HedgeCoordinator, FiniteSums, TLAPS

-----------------------------------------------------------------------------
(* The helper operators. *)

\* Releasing exposure keeps the ledger a ledger: the clamp at zero.
LEMMA ReleaseNotionalType ==
    ASSUME NEW ledger \in [Exchanges -> Nat], NEW ex \in Exchanges, NEW notional \in Nat
    PROVE  ReleaseNotional(ledger, ex, notional) \in [Exchanges -> Nat]
<1>1. ledger[ex] \in Nat
  OBVIOUS
<1>2. (IF ledger[ex] > notional THEN ledger[ex] - notional ELSE 0) \in Nat
  BY <1>1
<1>3. QED
  BY <1>2 DEF ReleaseNotional

\* Adding exposure does.
LEMMA AddNotionalType ==
    ASSUME NEW ledger \in [Exchanges -> Nat], NEW ex \in Exchanges, NEW notional \in Nat
    PROVE  AddNotional(ledger, ex, notional) \in [Exchanges -> Nat]
  BY DEF AddNotional

\* repair() moves a group to one of four states, and orders only where there is
\* a position and an attempt left.
LEMMA VerdictFacts ==
    ASSUME NEW n \in Int, NEW used \in Nat, NEW v \in RepairVerdicts(n, used)
    PROVE  /\ v \in {"COMPLETED", "ABORTED", "REPAIRING", "FAILED_NEEDS_REPAIR"}
           /\ v = "REPAIRING" => n # 0 /\ used < MaxRepairAttempts
           /\ v = "FAILED_NEEDS_REPAIR" => LossCapBinds
           /\ v = "COMPLETED" => n = 0
           /\ v = "ABORTED" => used >= MaxRepairAttempts
  BY RepairAssumption DEF RepairVerdicts, RepairAssumption

\* The table lets only FAILED_NEEDS_REPAIR enter REPAIRING: this is the lock
\* that keeps two corrective orders apart.
LEMMA OnlyFailedEntersRepairing ==
    ASSUME NEW st \in HedgeStates, CanTransition(st, "REPAIRING")
    PROVE  st = "FAILED_NEEDS_REPAIR"
  BY DEF HedgeStates, CanTransition, HedgeTransitions

-----------------------------------------------------------------------------
(* Type correctness. *)

\* The part of TypeOK that settling or raising can disturb.
SettledTypes ==
    /\ pc' \in [Hedges -> Stages]
    /\ reported' \in [Hedges -> [Sides -> Nat]]
    /\ openHedges' \in SUBSET Hedges
    /\ inFlight' \in [Exchanges -> Nat]

\* The part that handing the group to repair() can disturb, beyond that.
RepairTypes ==
    /\ state' \in [Hedges -> HedgeStates \union {"UNREGISTERED"}]
    /\ attempts' \in [Hedges -> Nat]
    /\ order' \in [Hedges -> [Callers -> {NoOrder} \union [side : Sides, amount : Nat \ {0}]]]

LEMMA ReleaseExposureType ==
    ASSUME TypeOK, NEW h \in Hedges, ReleaseExposure(h)
    PROVE  /\ openHedges' \in SUBSET Hedges
           /\ inFlight' \in [Exchanges -> Nat]
<1>1. /\ BuyExchange[h] \in Exchanges
      /\ SellExchange[h] \in Exchanges
      /\ Notional[h] \in Nat
  BY CoordinatorAssumption DEF CoordinatorAssumption
<1>2. ReleaseNotional(inFlight, BuyExchange[h], Notional[h]) \in [Exchanges -> Nat]
  BY <1>1, ReleaseNotionalType DEF TypeOK
<1>3. inFlight' \in [Exchanges -> Nat]
  BY <1>1, <1>2, ReleaseNotionalType DEF ReleaseExposure
<1>4. openHedges' \in SUBSET Hedges
  BY DEF ReleaseExposure, ReleaseOpen, TypeOK
<1>5. QED
  BY <1>3, <1>4

LEMMA SettleType ==
    ASSUME TypeOK, NEW h \in Hedges, NEW pnl \in [Sides -> Nat], Settle(h, pnl)
    PROVE  SettledTypes
<1>1. ReleaseExposure(h)
  BY DEF Settle
<1>2. /\ reported' \in [Hedges -> [Sides -> Nat]]
      /\ pc' \in [Hedges -> Stages]
  BY DEF Settle, TypeOK, Stages
<1>3. QED
  BY <1>1, <1>2, ReleaseExposureType DEF SettledTypes

LEMMA RaiseType ==
    ASSUME TypeOK, NEW h \in Hedges, Raise(h)
    PROVE  SettledTypes
  BY DEF Raise, TypeOK, Stages, SettledTypes, exposureVars

LEMMA SubmitRepairType ==
    ASSUME TypeOK, NEW h \in Hedges, NEW c \in Callers, NEW n \in Int, n # 0,
           SubmitRepair(h, c, n)
    PROVE  /\ attempts' \in [Hedges -> Nat]
           /\ order' \in [Hedges -> [Callers -> {NoOrder} \union [side : Sides, amount : Nat \ {0}]]]
<1>1. attempts' \in [Hedges -> Nat]
  BY DEF SubmitRepair, TypeOK
<1>2. RepairAmount(n) \in Nat \ {0} /\ RepairSide(n) \in Sides
  BY DEF RepairAmount, RepairSide, Sides
<1>3. [side |-> RepairSide(n), amount |-> RepairAmount(n)] \in [side : Sides, amount : Nat \ {0}]
  BY <1>2
<1>4. order' \in [Hedges -> [Callers -> {NoOrder} \union [side : Sides, amount : Nat \ {0}]]]
  BY <1>3 DEF SubmitRepair, TypeOK
<1>5. QED
  BY <1>1, <1>4

LEMMA HandToRepairType ==
    ASSUME TypeOK, NEW h \in Hedges, NEW n \in Int, NEW pnl \in [Sides -> Nat],
           NEW stage \in Stages, HandToRepair(h, n, pnl, stage)
    PROVE  SettledTypes /\ RepairTypes
<1>1. PICK v \in RepairVerdicts(n, attempts[h]) :
        /\ state' = [state EXCEPT ![h] = v]
        /\ IF v = "REPAIRING"
           THEN /\ SubmitRepair(h, Coordinator, n)
                /\ pc' = [pc EXCEPT ![h] = stage]
                /\ UNCHANGED <<reported, exposureVars>>
           ELSE /\ Settle(h, pnl)
                /\ UNCHANGED <<attempts, order>>
  BY DEF HandToRepair
<1>2. attempts[h] \in Nat
  BY DEF TypeOK
<1>3. state' \in [Hedges -> HedgeStates \union {"UNREGISTERED"}]
  BY <1>1, <1>2, VerdictFacts DEF TypeOK, HedgeStates
<1>4. CASE v = "REPAIRING"
  <2>1. n # 0
    BY <1>2, <1>4, VerdictFacts
  <2>2. Coordinator \in Callers
    BY DEF Callers
  <2>3. RepairTypes
    BY <1>1, <1>3, <1>4, <2>1, <2>2, SubmitRepairType DEF RepairTypes
  <2>4. SettledTypes
    <3>1. pc' = [pc EXCEPT ![h] = stage] /\ UNCHANGED <<reported, exposureVars>>
      BY <1>1, <1>4
    <3>2. pc \in [Hedges -> Stages]
      BY DEF TypeOK
    <3>3. pc' \in [Hedges -> Stages]
      BY <3>1, <3>2
    <3>4. QED
      BY <3>1, <3>3 DEF SettledTypes, TypeOK, exposureVars
  <2>5. QED
    BY <2>3, <2>4
<1>5. CASE v # "REPAIRING"
  <2>1. SettledTypes
    BY <1>1, <1>5, SettleType
  <2>2. RepairTypes
    BY <1>1, <1>3, <1>5 DEF RepairTypes, TypeOK
  <2>3. QED
    BY <2>1, <2>2
<1>6. QED
  BY <1>4, <1>5

LEMMA LegType ==
    ASSUME TypeOK, NEW h \in Hedges, NEW s \in Sides
    PROVE  /\ leg[h][s].filled \in Nat
           /\ BookedFill(leg[h][s]) \in Nat
           /\ ~UnpricedFills => BookedFill(leg[h][s]) = leg[h][s].filled
<1>1. leg[h][s] \in OrderResults \union {Pending, LegRaised}
  BY DEF TypeOK
<1>2. 0 .. Target \subseteq Nat
  OBVIOUS
<1>3. leg[h][s].filled \in Nat
  BY <1>1, <1>2 DEF OrderResults, Pending, LegRaised
<1>4. ASSUME ~UnpricedFills PROVE leg[h][s].priced
  <2>1. PricedFlags = {TRUE}
    BY <1>4 DEF PricedFlags
  <2>2. CASE leg[h][s] \in OrderResults
    BY <2>1, <2>2 DEF OrderResults
  <2>3. CASE leg[h][s] \in {Pending, LegRaised}
    BY <2>3 DEF Pending, LegRaised
  <2>4. QED
    BY <1>1, <2>2, <2>3
<1>5. BookedFill(leg[h][s]) \in {leg[h][s].filled, 0}
  BY DEF BookedFill
<1>6. ~UnpricedFills => BookedFill(leg[h][s]) = leg[h][s].filled
  BY <1>4 DEF BookedFill
<1>7. QED
  BY <1>3, <1>5, <1>6

LEMMA FlattenType ==
    ASSUME TypeOK, NEW h \in Hedges, NEW s \in Sides, NEW fills \in [Sides -> Nat],
           Flatten(h, s, fills)
    PROVE  /\ SettledTypes
           /\ RepairTypes
           /\ executed' \in [Hedges -> [Sides -> Nat]]
           /\ net' \in [Hedges -> Int]
           /\ booked' \in [Hedges -> [Sides -> Nat]]
<1> DEFINE n   == fills["buy"] - fills["sell"]
           pnl == [booked[h] EXCEPT ![s] = @ + BookedFill(leg[h][s])]
<1>1. n \in Int
  BY DEF Sides
<1>2. pnl \in [Sides -> Nat]
  BY LegType DEF TypeOK
<1>3. /\ executed' \in [Hedges -> [Sides -> Nat]]
      /\ net' \in [Hedges -> Int]
      /\ booked' \in [Hedges -> [Sides -> Nat]]
  BY <1>1, <1>2 DEF Flatten, TypeOK
<1>4. SettledTypes /\ RepairTypes
  <2>1. CASE Flat(n) /\ state' = [state EXCEPT ![h] = "ABORTED"] /\ Settle(h, pnl)
             /\ UNCHANGED <<attempts, order>>
    BY <1>2, <2>1, SettleType DEF RepairTypes, TypeOK, HedgeStates
  <2>2. CASE Raise(h) /\ UNCHANGED <<state, attempts, order>>
    BY <2>2, RaiseType DEF RepairTypes, TypeOK
  <2>3. CASE HandToRepair(h, n, pnl, "rollbackRepairing")
    <3>1. "rollbackRepairing" \in Stages
      BY DEF Stages
    <3>2. QED
      BY <1>1, <1>2, <2>3, <3>1, HandToRepairType
  <2>4. QED
    BY <2>1, <2>2, <2>3 DEF Flatten
<1>5. QED
  BY <1>3, <1>4

LEMMA HearLegsType ==
    ASSUME TypeOK, NEW h \in Hedges, HearLegs(h)
    PROVE  heard' \in [Hedges -> [Sides -> {"nothing", "ok", "failed"}]]
  BY DEF HearLegs, TypeOK

\* A corrective order that is out has a side and a positive amount.
LEMMA OrderType ==
    ASSUME TypeOK, NEW h \in Hedges, NEW c \in Callers, order[h][c] # NoOrder
    PROVE  order[h][c] \in [side : Sides, amount : Nat \ {0}]
<1>1. order \in [Hedges -> [Callers -> {NoOrder} \union [side : Sides, amount : Nat \ {0}]]]
  BY DEF TypeOK
<1>2. QED
  BY <1>1

LEMMA RepairAnswersType ==
    ASSUME TypeOK, NEW h \in Hedges, NEW c \in Callers, RepairAnswers(h, c)
    PROVE  TypeOK'
<1>1. PICK f \in 0 .. order[h][c].amount, priced \in PricedFlags :
        LET s     == order[h][c].side
            fills == [executed[h] EXCEPT ![s] = @ + f]
            n     == fills["buy"] - fills["sell"]
            pnl   == [booked[h] EXCEPT ![s] = IF priced THEN @ + f ELSE @]
            legal == CanTransition(state[h], RepairOutcome(n))
        IN  /\ executed' = [executed EXCEPT ![h] = fills]
            /\ net' = [net EXCEPT ![h] = n]
            /\ booked' = [booked EXCEPT ![h] = pnl]
            /\ state' = [state EXCEPT ![h] = IF legal THEN RepairOutcome(n) ELSE @]
            /\ ResumeCaller(h, c, legal, pnl)
            /\ \E q \in (IF LateFills THEN {0, order[h][c].amount - f} ELSE {0}) :
                  resting' = [resting EXCEPT ![h][s] = @ + q]
  BY DEF RepairAnswers
<1> DEFINE s     == order[h][c].side
           fills == [executed[h] EXCEPT ![s] = @ + f]
           n     == fills["buy"] - fills["sell"]
           pnl   == [booked[h] EXCEPT ![s] = IF priced THEN @ + f ELSE @]
           legal == CanTransition(state[h], RepairOutcome(n))
<1>2. /\ order[h][c] \in [side : Sides, amount : Nat \ {0}]
      /\ s \in Sides
      /\ order[h][c].amount \in Nat
      /\ f \in Nat
      /\ order[h][c].amount - f \in Nat
  <2>1. order[h][c] \in [side : Sides, amount : Nat \ {0}]
    BY OrderType DEF RepairAnswers
  <2>2. s \in Sides /\ order[h][c].amount \in Nat
    BY <2>1
  <2>3. f \in Nat /\ order[h][c].amount - f \in Nat
    BY <2>2
  <2>4. QED
    BY <2>1, <2>2, <2>3
<1>3. fills \in [Sides -> Nat] /\ pnl \in [Sides -> Nat] /\ n \in Int
  BY <1>2 DEF TypeOK, Sides
<1>4. /\ executed' \in [Hedges -> [Sides -> Nat]]
      /\ net' \in [Hedges -> Int]
      /\ booked' \in [Hedges -> [Sides -> Nat]]
  BY <1>1, <1>3 DEF TypeOK
<1>5. state' \in [Hedges -> HedgeStates \union {"UNREGISTERED"}]
  BY <1>1 DEF TypeOK, RepairOutcome, HedgeStates
<1>6. PICK q \in (IF LateFills THEN {0, order[h][c].amount - f} ELSE {0}) :
        resting' = [resting EXCEPT ![h][s] = @ + q]
  BY <1>1
<1>7. resting' \in [Hedges -> [Sides -> Nat]]
  <2>1. q \in Nat
    BY <1>2
  <2>2. QED
    BY <1>2, <1>6, <2>1 DEF TypeOK
<1>8. SettledTypes /\ saving' \in [Hedges -> SUBSET Operators]
  <2>1. ResumeCaller(h, c, legal, pnl)
    BY <1>1
  <2>2. CASE c = Coordinator /\ Settle(h, pnl) /\ UNCHANGED saving
    BY <1>3, <2>2, SettleType DEF TypeOK
  <2>3. CASE c = Coordinator /\ Raise(h) /\ UNCHANGED saving
    BY <2>3, RaiseType DEF TypeOK
  <2>4. CASE /\ c \in Operators
             /\ saving' = [saving EXCEPT ![h] = IF legal THEN @ \union {c} ELSE @]
             /\ UNCHANGED <<pc, reported, exposureVars>>
    BY <2>4 DEF SettledTypes, TypeOK, exposureVars
  <2>5. QED
    BY <2>1, <2>2, <2>3, <2>4 DEF ResumeCaller
<1>9. order' \in [Hedges -> [Callers -> {NoOrder} \union [side : Sides, amount : Nat \ {0}]]]
  BY DEF RepairAnswers, TypeOK
<1>10. UNCHANGED <<attempts, leg, stored, heard, unseen, meddled>>
  BY DEF RepairAnswers
<1>11. QED
  BY <1>4, <1>5, <1>7, <1>8, <1>9, <1>10 DEF TypeOK, SettledTypes

LEMMA RepairErrorsType ==
    ASSUME TypeOK, NEW h \in Hedges, NEW c \in Callers, RepairErrors(h, c)
    PROVE  TypeOK'
<1>1. order[h][c] \in [side : Sides, amount : Nat \ {0}]
  BY DEF RepairErrors, TypeOK
<1>2. order[h][c].side \in Sides /\ order[h][c].amount \in Nat
  BY <1>1
<1>3. resting' \in [Hedges -> [Sides -> Nat]]
  BY <1>2 DEF RepairErrors, TypeOK
<1>4. SettledTypes /\ saving' \in [Hedges -> SUBSET Operators]
  <2>1. ResumeCaller(h, c, FALSE, booked[h])
    BY DEF RepairErrors
  <2>2. booked[h] \in [Sides -> Nat]
    BY DEF TypeOK
  <2>3. CASE c = Coordinator /\ Settle(h, booked[h]) /\ UNCHANGED saving
    BY <2>2, <2>3, SettleType DEF TypeOK
  <2>4. CASE c = Coordinator /\ Raise(h) /\ UNCHANGED saving
    BY <2>4, RaiseType DEF TypeOK
  <2>5. CASE /\ c \in Operators
             /\ saving' = [saving EXCEPT ![h] = IF FALSE THEN @ \union {c} ELSE @]
             /\ UNCHANGED <<pc, reported, exposureVars>>
    BY <2>5 DEF SettledTypes, TypeOK, exposureVars
  <2>6. QED
    BY <2>1, <2>3, <2>4, <2>5 DEF ResumeCaller
<1>5. order' \in [Hedges -> [Callers -> {NoOrder} \union [side : Sides, amount : Nat \ {0}]]]
  BY DEF RepairErrors, TypeOK
<1>6. UNCHANGED <<groupVars, leg, stored, heard, unseen, meddled>>
  BY DEF RepairErrors
<1>7. QED
  BY <1>3, <1>4, <1>5, <1>6 DEF TypeOK, SettledTypes, groupVars

LEMMA OperatorRepairsType ==
    ASSUME TypeOK, NEW h \in Hedges, NEW c \in Operators, OperatorRepairs(h, c)
    PROVE  TypeOK'
<1>1. PICK v \in RepairVerdicts(net[h], attempts[h]) :
        /\ v = "REPAIRING" => CanTransition(state[h], v)
        /\ state' = [state EXCEPT ![h] = v]
        /\ IF v = "REPAIRING"
           THEN SubmitRepair(h, c, net[h]) /\ UNCHANGED saving
           ELSE /\ saving' = [saving EXCEPT ![h] = @ \union {c}]
                /\ UNCHANGED <<attempts, order>>
  BY DEF OperatorRepairs
<1>2. net[h] \in Int /\ attempts[h] \in Nat /\ c \in Callers
  BY DEF TypeOK, Callers
<1>3. state' \in [Hedges -> HedgeStates \union {"UNREGISTERED"}]
  BY <1>1, <1>2, VerdictFacts DEF TypeOK, HedgeStates
<1>4. RepairTypes /\ saving' \in [Hedges -> SUBSET Operators]
  <2>1. CASE v = "REPAIRING"
    <3>1. net[h] # 0
      BY <1>2, <2>1, VerdictFacts
    <3>2. QED
      BY <1>1, <1>2, <1>3, <2>1, <3>1, SubmitRepairType DEF RepairTypes, TypeOK
  <2>2. CASE v # "REPAIRING"
    <3>1. saving' = [saving EXCEPT ![h] = @ \union {c}] /\ UNCHANGED <<attempts, order>>
      BY <1>1, <2>2
    <3>2. saving' \in [Hedges -> SUBSET Operators]
      BY <3>1 DEF TypeOK
    <3>3. RepairTypes
      BY <1>3, <3>1 DEF RepairTypes, TypeOK
    <3>4. QED
      BY <3>2, <3>3
  <2>3. QED
    BY <2>1, <2>2
<1>5. UNCHANGED <<executed, net, booked, pc, leg, stored, breakerVars, exposureVars, venueVars>>
  BY DEF OperatorRepairs
<1>6. meddled' \in [Hedges -> SUBSET {"early", "refused"}]
  <2>1. \A w : Meddling(h, w) \subseteq {"early", "refused"}
    BY DEF Meddling
  <2>2. PICK w : meddled' = [meddled EXCEPT ![h] = @ \union Meddling(h, w)]
    BY DEF OperatorRepairs
  <2>3. meddled \in [Hedges -> SUBSET {"early", "refused"}]
    BY DEF TypeOK
  <2>4. meddled[h] \union Meddling(h, w) \in SUBSET {"early", "refused"}
    BY <2>1, <2>3
  <2>5. QED
    BY <2>2, <2>3, <2>4
<1>7. QED
  BY <1>4, <1>5, <1>6 DEF TypeOK, RepairTypes, breakerVars, exposureVars, venueVars

LEMMA AdoptFillsType ==
    ASSUME TypeOK, NEW h \in Hedges, AdoptFills(h)
    PROVE  /\ executed' \in [Hedges -> [Sides -> Nat]]
           /\ net' \in [Hedges -> Int]
           /\ booked' \in [Hedges -> [Sides -> Nat]]
           /\ heard' \in [Hedges -> [Sides -> {"nothing", "ok", "failed"}]]
           /\ LegNet(h) \in Int
           /\ LegPnl(h) \in [Sides -> Nat]
<1>1. LegFill(h) \in [Sides -> Nat] /\ LegPnl(h) \in [Sides -> Nat]
  BY LegType DEF LegFill, LegPnl
<1>2. LegNet(h) \in Int
  BY LegType DEF LegNet, Sides
<1>3. heard' \in [Hedges -> [Sides -> {"nothing", "ok", "failed"}]]
  BY HearLegsType DEF AdoptFills
<1>4. QED
  BY <1>1, <1>2, <1>3 DEF AdoptFills, TypeOK

LEMMA TypeInit == Init => TypeOK
  BY DEF Init, TypeOK, Stages, BothSides, NoOrder, Callers

LEMMA TypeStep == TypeOK /\ [Next]_vars => TypeOK'
<1> SUFFICES ASSUME TypeOK, [Next]_vars PROVE TypeOK'
  OBVIOUS
<1>1. ASSUME NEW h \in Hedges, RejectBeforeOrders(h) PROVE TypeOK'
  BY <1>1 DEF RejectBeforeOrders, TypeOK, HedgeStates, Stages,
              storeVars, breakerVars, exposureVars, venueVars
<1>2. ASSUME NEW h \in Hedges, SubmitLegs(h) PROVE TypeOK'
  <2>1. /\ BuyExchange[h] \in Exchanges
        /\ SellExchange[h] \in Exchanges
        /\ Notional[h] \in Nat
    BY CoordinatorAssumption DEF CoordinatorAssumption
  <2>2. AddNotional(inFlight, BuyExchange[h], Notional[h]) \in [Exchanges -> Nat]
    BY <2>1, AddNotionalType DEF TypeOK
  <2>3. inFlight' \in [Exchanges -> Nat]
    BY <1>2, <2>1, <2>2, AddNotionalType DEF SubmitLegs
  <2>4. openHedges' \in SUBSET Hedges
    BY <1>2 DEF SubmitLegs, AddOpen, TypeOK
  <2>5. /\ state' \in [Hedges -> HedgeStates \union {"UNREGISTERED"}]
        /\ pc' \in [Hedges -> Stages]
    BY <1>2 DEF SubmitLegs, TypeOK, HedgeStates, Stages
  <2>6. QED
    BY <1>2, <2>3, <2>4, <2>5 DEF SubmitLegs, TypeOK, storeVars, breakerVars, venueVars
<1>3. ASSUME NEW h \in Hedges, NEW s \in Sides, LegAnswers(h, s) PROVE TypeOK'
  <2>1. PICK r \in OrderResults :
          /\ leg' = [leg EXCEPT ![h][s] = r]
          /\ resting' = [resting EXCEPT ![h][s] =
                            IF LateFills /\ r.kind \in {"live", "orphan"} THEN Target - r.filled ELSE 0]
    BY <1>3 DEF LegAnswers
  <2>2. r.filled \in 0 .. Target
    BY DEF OrderResults
  <2>3. Target - r.filled \in Nat
    BY <2>2, CoordinatorAssumption DEF CoordinatorAssumption
  <2>4. resting' \in [Hedges -> [Sides -> Nat]]
    BY <2>1, <2>3 DEF TypeOK
  <2>5. leg' \in [Hedges -> [Sides -> OrderResults \union {Pending, LegRaised}]]
    BY <2>1 DEF TypeOK
  <2>6. UNCHANGED <<groupVars, pc, order, storeVars, breakerVars, exposureVars, unseen, meddled>>
    BY <1>3 DEF LegAnswers
  <2>7. QED
    BY <2>4, <2>5, <2>6 DEF TypeOK, groupVars, storeVars, breakerVars, exposureVars
<1>4. ASSUME NEW h \in Hedges, NEW s \in Sides, LegFails(h, s) PROVE TypeOK'
  <2>1. resting' \in [Hedges -> [Sides -> Nat]]
    BY <1>4, CoordinatorAssumption DEF LegFails, TypeOK, CoordinatorAssumption
  <2>2. leg' \in [Hedges -> [Sides -> OrderResults \union {Pending, LegRaised}]]
    BY <1>4 DEF LegFails, TypeOK
  <2>3. UNCHANGED <<groupVars, pc, order, storeVars, breakerVars, exposureVars, unseen, meddled>>
    BY <1>4 DEF LegFails
  <2>4. QED
    BY <2>1, <2>2, <2>3 DEF TypeOK, groupVars, storeVars, breakerVars, exposureVars
<1>5. ASSUME NEW h \in Hedges, BothLegsFail(h) PROVE TypeOK'
  <2>1. /\ openHedges' \in SUBSET Hedges
        /\ inFlight' \in [Exchanges -> Nat]
    BY <1>5, ReleaseExposureType DEF BothLegsFail
  <2>2. heard' \in [Hedges -> [Sides -> {"nothing", "ok", "failed"}]]
    BY <1>5, HearLegsType DEF BothLegsFail
  <2>3. QED
    BY <1>5, <2>1, <2>2 DEF BothLegsFail, TypeOK, HedgeStates, Stages, storeVars, venueVars
<1>6. ASSUME NEW h \in Hedges, NEW s \in Sides, SurvivorDone(h, s) PROVE TypeOK'
  <2>1. [executed[h] EXCEPT ![s] = leg[h][s].filled] \in [Sides -> Nat]
    BY LegType DEF TypeOK
  <2>2. Flatten(h, s, [executed[h] EXCEPT ![s] = leg[h][s].filled])
    BY <1>6 DEF SurvivorDone
  <2>3. heard' \in [Hedges -> [Sides -> {"nothing", "ok", "failed"}]]
    BY <1>6, HearLegsType DEF SurvivorDone
  <2>4. UNCHANGED <<leg, storeVars, venueVars, meddled>>
    BY <1>6 DEF SurvivorDone
  <2>5. QED
    BY <2>1, <2>2, <2>3, <2>4, FlattenType
    DEF TypeOK, SettledTypes, RepairTypes, storeVars, venueVars
<1>7. ASSUME NEW h \in Hedges, NEW s \in Sides, SurvivorOpen(h, s) PROVE TypeOK'
  <2>1. executed' \in [Hedges -> [Sides -> Nat]]
    BY <1>7, LegType DEF SurvivorOpen, TypeOK
  <2>2. heard' \in [Hedges -> [Sides -> {"nothing", "ok", "failed"}]]
    BY <1>7, HearLegsType DEF SurvivorOpen
  <2>3. QED
    BY <1>7, <2>1, <2>2 DEF SurvivorOpen, TypeOK, Stages, storeVars, exposureVars, venueVars
<1>8. ASSUME NEW h \in Hedges, NEW s \in Sides, SurvivorCancelled(h, s) PROVE TypeOK'
  <2>1. executed[h] \in [Sides -> Nat]
    BY DEF TypeOK
  <2>2. Flatten(h, s, executed[h])
    BY <1>8 DEF SurvivorCancelled
  <2>3. resting' \in [Hedges -> [Sides -> Nat]]
    BY <1>8 DEF SurvivorCancelled, TypeOK
  <2>4. UNCHANGED <<leg, storeVars, heard, unseen, meddled>>
    BY <1>8 DEF SurvivorCancelled
  <2>5. QED
    BY <2>1, <2>2, <2>3, <2>4, FlattenType
    DEF TypeOK, SettledTypes, RepairTypes, storeVars
<1>9. ASSUME NEW h \in Hedges, HedgeCompletes(h) PROVE TypeOK'
  <2>1. AdoptFills(h) /\ Settle(h, LegPnl(h))
    BY <1>9 DEF HedgeCompletes
  <2>2. SettledTypes
    BY <2>1, AdoptFillsType, SettleType
  <2>3. state' \in [Hedges -> HedgeStates \union {"UNREGISTERED"}]
    BY <1>9 DEF HedgeCompletes, TypeOK, HedgeStates
  <2>4. UNCHANGED <<attempts, leg, order, storeVars, venueVars, meddled>>
    BY <1>9 DEF HedgeCompletes
  <2>5. QED
    BY <2>1, <2>2, <2>3, <2>4, AdoptFillsType DEF TypeOK, SettledTypes, storeVars, venueVars
<1>10. ASSUME NEW h \in Hedges, HedgeNeedsRepair(h) PROVE TypeOK'
  <2>1. AdoptFills(h) /\ HandToRepair(h, LegNet(h), LegPnl(h), "repairing")
    BY <1>10 DEF HedgeNeedsRepair
  <2>2. "repairing" \in Stages
    BY DEF Stages
  <2>3. SettledTypes /\ RepairTypes
    BY <2>1, <2>2, AdoptFillsType, HandToRepairType
  <2>4. UNCHANGED <<leg, storeVars, venueVars, meddled>>
    BY <1>10 DEF HedgeNeedsRepair
  <2>5. QED
    BY <2>1, <2>3, <2>4, AdoptFillsType
    DEF TypeOK, SettledTypes, RepairTypes, storeVars, venueVars
<1>11. ASSUME NEW h \in Hedges, HedgeOvertaken(h) PROVE TypeOK'
  <2>1. SettledTypes
    BY <1>11, RaiseType DEF HedgeOvertaken
  <2>2. heard' \in [Hedges -> [Sides -> {"nothing", "ok", "failed"}]]
    BY <1>11, HearLegsType DEF HedgeOvertaken
  <2>3. LegNet(h) \in Int
    BY LegType DEF LegNet, Sides
  <2>4. unseen' \in [Hedges -> Int]
    BY <1>11, <2>3 DEF HedgeOvertaken, TypeOK
  <2>5. UNCHANGED <<groupVars, leg, order, storeVars, resting, meddled>>
    BY <1>11 DEF HedgeOvertaken
  <2>6. QED
    BY <2>1, <2>2, <2>4, <2>5 DEF TypeOK, SettledTypes, groupVars, storeVars
<1>12. ASSUME NEW h \in Hedges, NEW s \in Sides, VenueFills(h, s) PROVE TypeOK'
  <2>1. PICK q \in 1 .. resting[h][s] :
          /\ resting' = [resting EXCEPT ![h][s] = @ - q]
          /\ unseen' = [unseen EXCEPT ![h] = @ + Signed(s, q)]
    BY <1>12 DEF VenueFills
  <2>2. resting[h][s] \in Nat /\ unseen[h] \in Int
    BY DEF TypeOK
  <2>3. resting[h][s] - q \in Nat /\ unseen[h] + Signed(s, q) \in Int
    BY <2>2 DEF Signed
  <2>4. /\ resting' \in [Hedges -> [Sides -> Nat]]
        /\ unseen' \in [Hedges -> Int]
    BY <2>1, <2>3 DEF TypeOK
  <2>5. UNCHANGED <<groupVars, pc, leg, order, storeVars, breakerVars, exposureVars, meddled>>
    BY <1>12 DEF VenueFills
  <2>6. QED
    BY <2>4, <2>5 DEF TypeOK, groupVars, storeVars, breakerVars, exposureVars
<1>13. ASSUME NEW h \in Hedges, SaveHedge(h) PROVE TypeOK'
  BY <1>13 DEF SaveHedge, TypeOK, Stages, groupVars, breakerVars, exposureVars, venueVars
<1>14. ASSUME NEW h \in Hedges, NEW c \in Operators, SaveRepair(h, c) PROVE TypeOK'
  BY <1>14 DEF SaveRepair, TypeOK, groupVars, breakerVars, exposureVars, venueVars
<1>15. CASE UNCHANGED vars
  BY <1>15 DEF vars, TypeOK, groupVars, storeVars, breakerVars, exposureVars, venueVars
<1>16. QED
  BY <1>1, <1>2, <1>3, <1>4, <1>5, <1>6, <1>7, <1>8, <1>9, <1>10, <1>11, <1>12, <1>13,
     <1>14, <1>15, RepairAnswersType, RepairErrorsType, OperatorRepairsType
  DEF Next, Await, Resume, RepairReturns

\* Every variable keeps its type, for every set of hedges and operators.
THEOREM TypeCorrect == Spec => []TypeOK
  BY TypeInit, TypeStep, PTL DEF Spec

-----------------------------------------------------------------------------
(* What the shared steps do, without the choice of a verdict. *)

\* Handing the group to repair() either sends a corrective order or settles.
LEMMA HandCases ==
    ASSUME TypeOK, NEW h \in Hedges, NEW n \in Int, NEW pnl, NEW stage,
           HandToRepair(h, n, pnl, stage)
    PROVE  \/ /\ n # 0 /\ attempts[h] < MaxRepairAttempts
              /\ state' = [state EXCEPT ![h] = "REPAIRING"]
              /\ SubmitRepair(h, Coordinator, n)
              /\ pc' = [pc EXCEPT ![h] = stage]
              /\ UNCHANGED <<reported, exposureVars>>
           \/ /\ \E v \in {"COMPLETED", "ABORTED", "FAILED_NEEDS_REPAIR"} :
                    /\ state' = [state EXCEPT ![h] = v]
                    /\ v = "COMPLETED" => n = 0
                    /\ v = "ABORTED" => attempts[h] >= MaxRepairAttempts
              /\ Settle(h, pnl)
              /\ UNCHANGED <<attempts, order>>
<1>1. PICK v \in RepairVerdicts(n, attempts[h]) :
        /\ state' = [state EXCEPT ![h] = v]
        /\ IF v = "REPAIRING"
           THEN /\ SubmitRepair(h, Coordinator, n)
                /\ pc' = [pc EXCEPT ![h] = stage]
                /\ UNCHANGED <<reported, exposureVars>>
           ELSE /\ Settle(h, pnl)
                /\ UNCHANGED <<attempts, order>>
  BY DEF HandToRepair
<1>2. attempts[h] \in Nat
  BY DEF TypeOK
<1>3. /\ v \in {"COMPLETED", "ABORTED", "REPAIRING", "FAILED_NEEDS_REPAIR"}
      /\ v = "REPAIRING" => n # 0 /\ attempts[h] < MaxRepairAttempts
      /\ v = "COMPLETED" => n = 0
      /\ v = "ABORTED" => attempts[h] >= MaxRepairAttempts
  BY <1>2, VerdictFacts
<1>4. CASE v = "REPAIRING"
  BY <1>1, <1>3, <1>4
<1>5. CASE v # "REPAIRING"
  BY <1>1, <1>3, <1>5
<1>6. QED
  BY <1>4, <1>5

\* The end of the rollback: the group's books, then one of four ways on.
LEMMA FlattenCases ==
    ASSUME TypeOK, NEW h \in Hedges, NEW s \in Sides, NEW fills \in [Sides -> Nat],
           Flatten(h, s, fills)
    PROVE  /\ fills["buy"] - fills["sell"] \in Int
           /\ executed' = [executed EXCEPT ![h] = fills]
           /\ net' = [net EXCEPT ![h] = fills["buy"] - fills["sell"]]
           /\ booked' = [booked EXCEPT ![h] =
                            [booked[h] EXCEPT ![s] = @ + BookedFill(leg[h][s])]]
           /\ \/ /\ Flat(fills["buy"] - fills["sell"])
                 /\ state' = [state EXCEPT ![h] = "ABORTED"]
                 /\ Settle(h, [booked[h] EXCEPT ![s] = @ + BookedFill(leg[h][s])])
                 /\ UNCHANGED <<attempts, order>>
              \/ /\ ~CanTransition(state[h], "FAILED_NEEDS_REPAIR")
                 /\ Raise(h)
                 /\ UNCHANGED <<state, attempts, order>>
              \/ HandToRepair(h, fills["buy"] - fills["sell"],
                              [booked[h] EXCEPT ![s] = @ + BookedFill(leg[h][s])],
                              "rollbackRepairing")
  BY DEF Flatten, Sides

\* The answer to a corrective order: the fill enters one side's executed amount
\* (and PnL, when priced), and the caller goes on if the outcome is a legal state.
LEMMA RepairAnswersCases ==
    ASSUME TypeOK, NEW h \in Hedges, NEW c \in Callers, RepairAnswers(h, c)
    PROVE  /\ order[h][c] # NoOrder
           /\ order[h][c] \in [side : Sides, amount : Nat \ {0}]
           /\ order' = [order EXCEPT ![h][c] = NoOrder]
           /\ UNCHANGED <<attempts, leg>>
           /\ \E f \in 0 .. order[h][c].amount, priced \in PricedFlags, ok \in BOOLEAN :
                 /\ executed' = [executed EXCEPT ![h] =
                                    [executed[h] EXCEPT ![order[h][c].side] = @ + f]]
                 /\ net' = [net EXCEPT ![h] = executed'[h]["buy"] - executed'[h]["sell"]]
                 /\ booked' = [booked EXCEPT ![h] =
                       [booked[h] EXCEPT ![order[h][c].side] = IF priced THEN @ + f ELSE @]]
                 /\ ok = CanTransition(state[h], RepairOutcome(net'[h]))
                 /\ state' = [state EXCEPT ![h] = IF ok THEN RepairOutcome(net'[h]) ELSE @]
                 /\ ResumeCaller(h, c, ok, booked'[h])
<1>1. PICK f \in 0 .. order[h][c].amount, priced \in PricedFlags :
        LET s     == order[h][c].side
            fills == [executed[h] EXCEPT ![s] = @ + f]
            n     == fills["buy"] - fills["sell"]
            pnl   == [booked[h] EXCEPT ![s] = IF priced THEN @ + f ELSE @]
            legal == CanTransition(state[h], RepairOutcome(n))
        IN  /\ executed' = [executed EXCEPT ![h] = fills]
            /\ net' = [net EXCEPT ![h] = n]
            /\ booked' = [booked EXCEPT ![h] = pnl]
            /\ state' = [state EXCEPT ![h] = IF legal THEN RepairOutcome(n) ELSE @]
            /\ ResumeCaller(h, c, legal, pnl)
            /\ \E q \in (IF LateFills THEN {0, order[h][c].amount - f} ELSE {0}) :
                  resting' = [resting EXCEPT ![h][s] = @ + q]
  BY DEF RepairAnswers
<1> DEFINE s     == order[h][c].side
           fills == [executed[h] EXCEPT ![s] = @ + f]
           n     == fills["buy"] - fills["sell"]
           pnl   == [booked[h] EXCEPT ![s] = IF priced THEN @ + f ELSE @]
           ok    == CanTransition(state[h], RepairOutcome(n))
<1>2. /\ executed' = [executed EXCEPT ![h] = fills]
      /\ net' = [net EXCEPT ![h] = n]
      /\ booked' = [booked EXCEPT ![h] = pnl]
  BY <1>1
<1>3. executed'[h] = fills /\ net'[h] = n /\ booked'[h] = pnl
  BY <1>2 DEF TypeOK
<1>4. /\ state' = [state EXCEPT ![h] = IF ok THEN RepairOutcome(n) ELSE @]
      /\ ResumeCaller(h, c, ok, pnl)
  BY <1>1
<1>5. ok \in BOOLEAN
  BY DEF CanTransition
<1>6. /\ order[h][c] # NoOrder
      /\ order[h][c] \in [side : Sides, amount : Nat \ {0}]
      /\ order' = [order EXCEPT ![h][c] = NoOrder]
      /\ UNCHANGED <<attempts, leg>>
  <2>1. /\ order[h][c] # NoOrder
        /\ order' = [order EXCEPT ![h][c] = NoOrder]
        /\ UNCHANGED <<attempts, leg>>
    BY DEF RepairAnswers
  <2>2. QED
    BY <2>1, OrderType
<1> HIDE DEF n, pnl, ok, fills
<1>7. /\ net' = [net EXCEPT ![h] = executed'[h]["buy"] - executed'[h]["sell"]]
      /\ ok = CanTransition(state[h], RepairOutcome(net'[h]))
      /\ state' = [state EXCEPT ![h] = IF ok THEN RepairOutcome(net'[h]) ELSE @]
      /\ ResumeCaller(h, c, ok, booked'[h])
  BY <1>2, <1>3, <1>4 DEF n, ok
<1>8. /\ executed' = [executed EXCEPT ![h] =
                         [executed[h] EXCEPT ![order[h][c].side] = @ + f]]
      /\ booked' = [booked EXCEPT ![h] =
            [booked[h] EXCEPT ![order[h][c].side] = IF priced THEN @ + f ELSE @]]
  BY <1>2 DEF fills, pnl
<1>9. QED
  BY <1>5, <1>6, <1>7, <1>8

-----------------------------------------------------------------------------
(* The number of corrective orders. *)

\* A step leaves the attempts of a group alone or spends one it still had.
AttemptsStep ==
    \A g \in Hedges : \/ attempts'[g] = attempts[g]
                      \/ /\ attempts[g] < MaxRepairAttempts
                         /\ attempts'[g] = attempts[g] + 1

LEMMA SubmitSpendsOne ==
    ASSUME TypeOK, NEW h \in Hedges, NEW c, NEW n, attempts[h] < MaxRepairAttempts,
           SubmitRepair(h, c, n)
    PROVE  AttemptsStep
  BY DEF SubmitRepair, AttemptsStep, TypeOK

LEMMA HandSpendsOne ==
    ASSUME TypeOK, NEW h \in Hedges, NEW n \in Int, NEW pnl, NEW stage,
           HandToRepair(h, n, pnl, stage)
    PROVE  AttemptsStep
<1>1. CASE attempts[h] < MaxRepairAttempts /\ SubmitRepair(h, Coordinator, n)
  BY <1>1, SubmitSpendsOne
<1>2. CASE UNCHANGED <<attempts, order>>
  BY <1>2 DEF AttemptsStep
<1>3. QED
  BY <1>1, <1>2, HandCases

LEMMA FlattenSpendsOne ==
    ASSUME TypeOK, NEW h \in Hedges, NEW s \in Sides, NEW fills \in [Sides -> Nat],
           Flatten(h, s, fills)
    PROVE  AttemptsStep
<1>1. CASE UNCHANGED <<attempts, order>>
  BY <1>1 DEF AttemptsStep
<1>2. CASE HandToRepair(h, fills["buy"] - fills["sell"],
                        [booked[h] EXCEPT ![s] = @ + BookedFill(leg[h][s])], "rollbackRepairing")
  <2>1. fills["buy"] - fills["sell"] \in Int
    BY DEF Sides
  <2>2. QED
    BY <1>2, <2>1, HandSpendsOne
<1>3. QED
  BY <1>1, <1>2, FlattenCases

LEMMA AttemptsStepHolds == TypeOK /\ [Next]_vars => AttemptsStep
<1> SUFFICES ASSUME TypeOK, [Next]_vars PROVE AttemptsStep
  OBVIOUS
<1>1. ASSUME NEW h \in Hedges, NEW s \in Sides, SurvivorDone(h, s) PROVE AttemptsStep
  <2>1. [executed[h] EXCEPT ![s] = leg[h][s].filled] \in [Sides -> Nat]
    BY LegType DEF TypeOK
  <2>2. QED
    BY <1>1, <2>1, FlattenSpendsOne DEF SurvivorDone
<1>2. ASSUME NEW h \in Hedges, NEW s \in Sides, SurvivorCancelled(h, s) PROVE AttemptsStep
  <2>1. executed[h] \in [Sides -> Nat]
    BY DEF TypeOK
  <2>2. QED
    BY <1>2, <2>1, FlattenSpendsOne DEF SurvivorCancelled
<1>3. ASSUME NEW h \in Hedges, HedgeNeedsRepair(h) PROVE AttemptsStep
  BY <1>3, AdoptFillsType, HandSpendsOne DEF HedgeNeedsRepair
<1>4. ASSUME NEW h \in Hedges, NEW c \in Operators, OperatorRepairs(h, c) PROVE AttemptsStep
  <2>1. PICK v \in RepairVerdicts(net[h], attempts[h]) :
          IF v = "REPAIRING"
          THEN SubmitRepair(h, c, net[h]) /\ UNCHANGED saving
          ELSE /\ saving' = [saving EXCEPT ![h] = @ \union {c}]
               /\ UNCHANGED <<attempts, order>>
    BY <1>4 DEF OperatorRepairs
  <2>2. net[h] \in Int /\ attempts[h] \in Nat
    BY DEF TypeOK
  <2>3. CASE v = "REPAIRING"
    BY <2>1, <2>2, <2>3, VerdictFacts, SubmitSpendsOne
  <2>4. CASE v # "REPAIRING"
    BY <2>1, <2>4 DEF AttemptsStep
  <2>5. QED
    BY <2>3, <2>4
<1>5. ASSUME UNCHANGED attempts PROVE AttemptsStep
  BY <1>5 DEF AttemptsStep
<1>6. ASSUME NEW h \in Hedges PROVE
        /\ RejectBeforeOrders(h) \/ SubmitLegs(h) \/ BothLegsFail(h) \/ HedgeCompletes(h)
              \/ HedgeOvertaken(h) \/ SaveHedge(h) => UNCHANGED attempts
        /\ \A s \in Sides : LegAnswers(h, s) \/ LegFails(h, s) \/ SurvivorOpen(h, s)
              \/ VenueFills(h, s) => UNCHANGED attempts
        /\ \A c \in Callers : RepairAnswers(h, c) \/ RepairErrors(h, c) => UNCHANGED attempts
        /\ \A c \in Operators : SaveRepair(h, c) => UNCHANGED attempts
  BY DEF RejectBeforeOrders, SubmitLegs, BothLegsFail, HedgeCompletes, HedgeOvertaken,
         SaveHedge, LegAnswers, LegFails, SurvivorOpen, VenueFills, RepairAnswers,
         RepairErrors, SaveRepair, groupVars
<1>7. UNCHANGED vars => UNCHANGED attempts
  BY DEF vars, groupVars
<1>8. QED
  BY <1>1, <1>2, <1>3, <1>4, <1>5, <1>6, <1>7 DEF Next, Await, Resume, RepairReturns

\* However many operators repair beside the coordinator, a group never uses more
\* corrective orders than max_repair_attempts.
THEOREM RepairAttemptsAreBounded == Spec => []RepairAttemptsBounded
<1>1. Init => RepairAttemptsBounded
  BY RepairAssumption DEF Init, RepairAttemptsBounded, RepairAssumption
<1>2. TypeOK /\ RepairAttemptsBounded /\ [Next]_vars => RepairAttemptsBounded'
  <2> SUFFICES ASSUME TypeOK, RepairAttemptsBounded, AttemptsStep, NEW g \in Hedges
               PROVE  attempts'[g] <= MaxRepairAttempts
    BY AttemptsStepHolds DEF RepairAttemptsBounded
  <2>1. attempts[g] \in Nat /\ attempts[g] <= MaxRepairAttempts
    BY DEF TypeOK, RepairAttemptsBounded
  <2>2. QED
    BY <2>1, RepairAssumption DEF AttemptsStep, RepairAssumption
<1>3. QED
  BY <1>1, <1>2, TypeCorrect, PTL DEF Spec

-----------------------------------------------------------------------------
(* The net position. *)

\* What a step may do to the books of a group without breaking the agreement of
\* the net position with the executed amounts: leave both, write both, or enter
\* the await of the survivor's cancel.
BooksStep ==
    \A g \in Hedges :
        \/ /\ executed'[g] = executed[g] /\ net'[g] = net[g]
           /\ pc[g] = "cancelling" => pc'[g] = "cancelling"
        \/ net'[g] = executed'[g]["buy"] - executed'[g]["sell"]
        \/ pc'[g] = "cancelling"

\* An action of one hedge moves the program counter of no other.
LEMMA OnlyOnePcMoves ==
    ASSUME TypeOK, NEW h \in Hedges, NEW stage, pc' = [pc EXCEPT ![h] = stage]
    PROVE  \A g \in Hedges \ {h} : pc'[g] = pc[g]
  BY DEF TypeOK

LEMMA HandMovesOnePc ==
    ASSUME TypeOK, NEW h \in Hedges, NEW n \in Int, NEW pnl, NEW stage,
           HandToRepair(h, n, pnl, stage)
    PROVE  \A g \in Hedges \ {h} : pc'[g] = pc[g]
  BY HandCases, OnlyOnePcMoves DEF Settle

LEMMA FlattenKeepsBooks ==
    ASSUME TypeOK, NEW h \in Hedges, NEW s \in Sides, NEW fills \in [Sides -> Nat],
           Flatten(h, s, fills)
    PROVE  BooksStep
<1>1. /\ executed' = [executed EXCEPT ![h] = fills]
      /\ net' = [net EXCEPT ![h] = fills["buy"] - fills["sell"]]
      /\ fills["buy"] - fills["sell"] \in Int
  BY DEF Flatten, Sides
<1>2. \A g \in Hedges \ {h} : pc'[g] = pc[g]
  BY <1>1, FlattenCases, HandMovesOnePc, OnlyOnePcMoves DEF Settle, Raise
<1>3. QED
  BY <1>1, <1>2 DEF BooksStep, TypeOK

LEMMA AdoptKeepsBooks ==
    ASSUME TypeOK, NEW h \in Hedges, AdoptFills(h),
           \A g \in Hedges \ {h} : pc'[g] = pc[g]
    PROVE  BooksStep
  BY DEF AdoptFills, LegFill, LegNet, BooksStep, TypeOK, Sides

LEMMA BooksStepHolds == TypeOK /\ [Next]_vars => BooksStep
<1> SUFFICES ASSUME TypeOK, [Next]_vars PROVE BooksStep
  OBVIOUS
<1>1. ASSUME NEW h \in Hedges,
             RejectBeforeOrders(h) \/ SubmitLegs(h) \/ BothLegsFail(h) \/ HedgeOvertaken(h)
                \/ SaveHedge(h)
      PROVE  BooksStep
  BY <1>1 DEF RejectBeforeOrders, SubmitLegs, BothLegsFail, HedgeOvertaken, SaveHedge,
              GatherDone, Raise, groupVars, BooksStep, TypeOK
<1>2. ASSUME NEW h \in Hedges, NEW s \in Sides,
             LegAnswers(h, s) \/ LegFails(h, s) \/ VenueFills(h, s)
      PROVE  BooksStep
  BY <1>2 DEF LegAnswers, LegFails, VenueFills, groupVars, BooksStep
<1>3. ASSUME NEW h \in Hedges, NEW s \in Sides, SurvivorOpen(h, s) PROVE BooksStep
  BY <1>3 DEF SurvivorOpen, BooksStep, TypeOK
<1>4. ASSUME NEW h \in Hedges, NEW s \in Sides, SurvivorDone(h, s) PROVE BooksStep
  <2>1. [executed[h] EXCEPT ![s] = leg[h][s].filled] \in [Sides -> Nat]
    BY LegType DEF TypeOK
  <2>2. QED
    BY <1>4, <2>1, FlattenKeepsBooks DEF SurvivorDone
<1>5. ASSUME NEW h \in Hedges, NEW s \in Sides, SurvivorCancelled(h, s) PROVE BooksStep
  <2>1. executed[h] \in [Sides -> Nat]
    BY DEF TypeOK
  <2>2. QED
    BY <1>5, <2>1, FlattenKeepsBooks DEF SurvivorCancelled
<1>6. ASSUME NEW h \in Hedges, HedgeCompletes(h) PROVE BooksStep
  BY <1>6, OnlyOnePcMoves, AdoptKeepsBooks DEF HedgeCompletes, Settle
<1>7. ASSUME NEW h \in Hedges, HedgeNeedsRepair(h) PROVE BooksStep
  BY <1>7, AdoptFillsType, HandMovesOnePc, AdoptKeepsBooks DEF HedgeNeedsRepair
<1>8. ASSUME NEW h \in Hedges, NEW c \in Callers, RepairAnswers(h, c) PROVE BooksStep
  <2>1. PICK ok \in BOOLEAN :
          /\ \E f : executed' = [executed EXCEPT ![h] =
                                   [executed[h] EXCEPT ![order[h][c].side] = @ + f]]
          /\ net' = [net EXCEPT ![h] = executed'[h]["buy"] - executed'[h]["sell"]]
          /\ ResumeCaller(h, c, ok, booked'[h])
    BY <1>8, RepairAnswersCases
  <2>2. \A g \in Hedges \ {h} : pc'[g] = pc[g]
    BY <2>1, OnlyOnePcMoves DEF ResumeCaller, Settle, Raise
  <2>3. \A g \in Hedges \ {h} : executed'[g] = executed[g]
    BY <2>1 DEF TypeOK
  <2>4. QED
    BY <2>1, <2>2, <2>3 DEF BooksStep, TypeOK
<1>9. ASSUME NEW h \in Hedges, NEW c \in Callers, RepairErrors(h, c) PROVE BooksStep
  <2>1. ResumeCaller(h, c, FALSE, booked[h]) /\ UNCHANGED <<executed, net>>
    BY <1>9 DEF RepairErrors, groupVars
  <2>2. \A g \in Hedges : pc[g] = "cancelling" => pc'[g] = "cancelling"
    BY <2>1 DEF ResumeCaller, Settle, Raise, TypeOK
  <2>3. QED
    BY <2>1, <2>2 DEF BooksStep
<1>10. ASSUME NEW h \in Hedges, NEW c \in Operators, OperatorRepairs(h, c) \/ SaveRepair(h, c)
       PROVE  BooksStep
  BY <1>10 DEF OperatorRepairs, SaveRepair, groupVars, BooksStep
<1>11. CASE UNCHANGED vars
  BY <1>11 DEF vars, groupVars, BooksStep
<1>12. QED
  BY <1>1, <1>2, <1>3, <1>4, <1>5, <1>6, <1>7, <1>8, <1>9, <1>10, <1>11
  DEF Next, Await, Resume, RepairReturns

LEMMA NetStep == TypeOK /\ NetIsTheImbalance /\ [Next]_vars => NetIsTheImbalance'
  BY BooksStepHolds DEF NetIsTheImbalance, BooksStep

\* net_position_base is the difference of the executed amounts in every state
\* another task can see, but for the await of the survivor's cancel.
THEOREM NetIsAlwaysTheImbalance == Spec => []NetIsTheImbalance
<1>1. Init => NetIsTheImbalance
  BY DEF Init, NetIsTheImbalance, BothSides, Sides
<1>2. QED
  BY <1>1, NetStep, TypeCorrect, PTL DEF Spec

-----------------------------------------------------------------------------
(* The open hedges. *)

LEMMA SettleCloses ==
    ASSUME TypeOK, OpenWhileExecuting, NEW h \in Hedges, NEW pnl, Settle(h, pnl)
    PROVE  OpenWhileExecuting'
  BY DEF Settle, ReleaseExposure, ReleaseOpen, OpenWhileExecuting, Executing, TypeOK

LEMMA RaiseStaysOpen ==
    ASSUME TypeOK, OpenWhileExecuting, NEW h \in Hedges, Executing(h), Raise(h)
    PROVE  OpenWhileExecuting'
  BY DEF Raise, OpenWhileExecuting, Executing, TypeOK, exposureVars

LEMMA HandKeepsOpen ==
    ASSUME TypeOK, OpenWhileExecuting, NEW h \in Hedges, Executing(h), NEW n \in Int, NEW pnl,
           NEW stage \in {"repairing", "rollbackRepairing"}, HandToRepair(h, n, pnl, stage)
    PROVE  OpenWhileExecuting'
<1>1. CASE pc' = [pc EXCEPT ![h] = stage] /\ UNCHANGED <<reported, exposureVars>>
  BY <1>1 DEF OpenWhileExecuting, Executing, TypeOK, exposureVars
<1>2. CASE Settle(h, pnl)
  BY <1>2, SettleCloses
<1>3. QED
  BY <1>1, <1>2, HandCases

LEMMA FlattenKeepsOpen ==
    ASSUME TypeOK, OpenWhileExecuting, NEW h \in Hedges, Executing(h), NEW s \in Sides,
           NEW fills \in [Sides -> Nat], Flatten(h, s, fills)
    PROVE  OpenWhileExecuting'
<1> DEFINE n   == fills["buy"] - fills["sell"]
           pnl == [booked[h] EXCEPT ![s] = @ + BookedFill(leg[h][s])]
<1>1. n \in Int
  BY DEF Sides
<1>2. CASE Settle(h, pnl)
  BY <1>2, SettleCloses
<1>3. CASE Raise(h)
  BY <1>3, RaiseStaysOpen
<1>4. CASE HandToRepair(h, n, pnl, "rollbackRepairing")
  BY <1>1, <1>4, HandKeepsOpen
<1>5. QED
  BY <1>2, <1>3, <1>4 DEF Flatten

LEMMA ResumeKeepsOpen ==
    ASSUME TypeOK, OpenWhileExecuting, NEW h \in Hedges, NEW c \in Callers, NEW ok, NEW pnl,
           ResumeCaller(h, c, ok, pnl)
    PROVE  OpenWhileExecuting'
<1>1. CASE Settle(h, pnl)
  BY <1>1, SettleCloses
<1>2. CASE pc[h] = "repairing" /\ Raise(h)
  BY <1>2, RaiseStaysOpen DEF Executing
<1>3. CASE UNCHANGED <<pc, reported, exposureVars>>
  BY <1>3 DEF OpenWhileExecuting, Executing, exposureVars
<1>4. QED
  BY <1>1, <1>2, <1>3 DEF ResumeCaller

LEMMA OpenStep == TypeOK /\ OpenWhileExecuting /\ [Next]_vars => OpenWhileExecuting'
<1> SUFFICES ASSUME TypeOK, OpenWhileExecuting, [Next]_vars PROVE OpenWhileExecuting'
  OBVIOUS
<1>1. ASSUME NEW h \in Hedges, RejectBeforeOrders(h) PROVE OpenWhileExecuting'
  BY <1>1 DEF RejectBeforeOrders, OpenWhileExecuting, Executing, TypeOK, exposureVars
<1>2. ASSUME NEW h \in Hedges, SubmitLegs(h) PROVE OpenWhileExecuting'
  BY <1>2 DEF SubmitLegs, AddOpen, OpenWhileExecuting, Executing, TypeOK
<1>3. ASSUME NEW h \in Hedges, BothLegsFail(h) PROVE OpenWhileExecuting'
  BY <1>3 DEF BothLegsFail, ReleaseExposure, ReleaseOpen, OpenWhileExecuting, Executing, TypeOK
<1>4. ASSUME NEW h \in Hedges, NEW s \in Sides, SurvivorDone(h, s) PROVE OpenWhileExecuting'
  <2>1. [executed[h] EXCEPT ![s] = leg[h][s].filled] \in [Sides -> Nat]
    BY LegType DEF TypeOK
  <2>2. QED
    BY <1>4, <2>1, FlattenKeepsOpen DEF SurvivorDone, GatherDone, Executing
<1>5. ASSUME NEW h \in Hedges, NEW s \in Sides, SurvivorOpen(h, s) PROVE OpenWhileExecuting'
  BY <1>5 DEF SurvivorOpen, GatherDone, OpenWhileExecuting, Executing, TypeOK, exposureVars
<1>6. ASSUME NEW h \in Hedges, NEW s \in Sides, SurvivorCancelled(h, s)
      PROVE  OpenWhileExecuting'
  <2>1. executed[h] \in [Sides -> Nat]
    BY DEF TypeOK
  <2>2. QED
    BY <1>6, <2>1, FlattenKeepsOpen DEF SurvivorCancelled, Executing
<1>7. ASSUME NEW h \in Hedges, HedgeCompletes(h) PROVE OpenWhileExecuting'
  BY <1>7, SettleCloses DEF HedgeCompletes
<1>8. ASSUME NEW h \in Hedges, HedgeNeedsRepair(h) PROVE OpenWhileExecuting'
  BY <1>8, AdoptFillsType, HandKeepsOpen
  DEF HedgeNeedsRepair, AdoptFills, GatherDone, Executing
<1>9. ASSUME NEW h \in Hedges, HedgeOvertaken(h) PROVE OpenWhileExecuting'
  BY <1>9, RaiseStaysOpen DEF HedgeOvertaken, GatherDone, Executing
<1>10. ASSUME NEW h \in Hedges, NEW c \in Callers, RepairAnswers(h, c)
       PROVE  OpenWhileExecuting'
  BY <1>10, RepairAnswersCases, ResumeKeepsOpen
<1>11. ASSUME NEW h \in Hedges, NEW c \in Callers, RepairErrors(h, c)
       PROVE  OpenWhileExecuting'
  BY <1>11, ResumeKeepsOpen DEF RepairErrors
<1>12. ASSUME NEW h \in Hedges, SaveHedge(h) PROVE OpenWhileExecuting'
  BY <1>12 DEF SaveHedge, OpenWhileExecuting, Executing, TypeOK, exposureVars
<1>13. ASSUME NEW h \in Hedges, NEW s \in Sides,
              LegAnswers(h, s) \/ LegFails(h, s) \/ VenueFills(h, s)
       PROVE  OpenWhileExecuting'
  BY <1>13 DEF LegAnswers, LegFails, VenueFills, OpenWhileExecuting, Executing, exposureVars
<1>14. ASSUME NEW h \in Hedges, NEW c \in Operators,
              OperatorRepairs(h, c) \/ SaveRepair(h, c)
       PROVE  OpenWhileExecuting'
  BY <1>14 DEF OperatorRepairs, SaveRepair, OpenWhileExecuting, Executing, exposureVars
<1>15. CASE UNCHANGED vars
  BY <1>15 DEF vars, OpenWhileExecuting, Executing, exposureVars
<1>16. QED
  BY <1>1, <1>2, <1>3, <1>4, <1>5, <1>6, <1>7, <1>8, <1>9, <1>10, <1>11, <1>12, <1>13,
     <1>14, <1>15
  DEF Next, Await, Resume, RepairReturns

\* A hedge is counted as open exactly while execute() runs or after it died of
\* an exception: max_total_open_hedges never counts a hedge that returned.
THEOREM OpenExactlyWhileExecuting == Spec => []OpenWhileExecuting
<1>1. Init => OpenWhileExecuting
  BY DEF Init, OpenWhileExecuting, Executing
<1>2. QED
  BY <1>1, OpenStep, TypeCorrect, PTL DEF Spec

-----------------------------------------------------------------------------
(* The notional the exchanges are charged. *)

\* The coordinator waits for a corrective order only at one of its two repairs,
\* so what resumes it there is the end of a hedge that is still open.
CoordinatorWaits ==
    \A h \in Hedges : order[h][Coordinator] # NoOrder =>
        pc[h] \in {"repairing", "rollbackRepairing"}

LEMMA HandWaits ==
    ASSUME TypeOK, NEW h \in Hedges, NEW n \in Int, NEW pnl,
           NEW stage \in {"repairing", "rollbackRepairing"},
           order[h][Coordinator] = NoOrder, HandToRepair(h, n, pnl, stage)
    PROVE  /\ \A g \in Hedges \ {h} : pc'[g] = pc[g] /\ order'[g] = order[g]
           /\ order'[h][Coordinator] # NoOrder => pc'[h] = stage
<1>1. CASE /\ SubmitRepair(h, Coordinator, n)
           /\ pc' = [pc EXCEPT ![h] = stage]
  BY <1>1 DEF SubmitRepair, TypeOK
<1>2. CASE Settle(h, pnl) /\ UNCHANGED <<attempts, order>>
  BY <1>2 DEF Settle, TypeOK
<1>3. QED
  BY <1>1, <1>2, HandCases

LEMMA WaitStep == TypeOK /\ CoordinatorWaits /\ [Next]_vars => CoordinatorWaits'
<1> SUFFICES ASSUME TypeOK, CoordinatorWaits, [Next]_vars PROVE CoordinatorWaits'
  OBVIOUS
<1>0. Coordinator \in Callers /\ Coordinator \notin Operators
  BY CoordinatorAssumption DEF Callers, CoordinatorAssumption
<1>1. ASSUME NEW h \in Hedges,
             RejectBeforeOrders(h) \/ SubmitLegs(h) \/ BothLegsFail(h) \/ HedgeCompletes(h)
                \/ HedgeOvertaken(h) \/ SaveHedge(h)
      PROVE  CoordinatorWaits'
  BY <1>1 DEF RejectBeforeOrders, SubmitLegs, BothLegsFail, HedgeCompletes, HedgeOvertaken,
              AdoptFills, SaveHedge, GatherDone, Settle, Raise, CoordinatorWaits, TypeOK
<1>2. ASSUME NEW h \in Hedges, NEW s \in Sides,
             LegAnswers(h, s) \/ LegFails(h, s) \/ SurvivorOpen(h, s) \/ VenueFills(h, s)
      PROVE  CoordinatorWaits'
  BY <1>2 DEF LegAnswers, LegFails, SurvivorOpen, GatherDone, VenueFills, CoordinatorWaits, TypeOK
<1>3. ASSUME NEW h \in Hedges, NEW n \in Int, NEW pnl,
             NEW stage \in {"repairing", "rollbackRepairing"},
             pc[h] \in {"gather", "cancelling"}, HandToRepair(h, n, pnl, stage)
      PROVE  CoordinatorWaits'
  BY <1>3, HandWaits DEF CoordinatorWaits
<1>4. ASSUME NEW h \in Hedges, NEW s \in Sides, NEW fills \in [Sides -> Nat],
             pc[h] \in {"gather", "cancelling"}, Flatten(h, s, fills)
      PROVE  CoordinatorWaits'
  <2>1. order[h][Coordinator] = NoOrder
    BY <1>4 DEF CoordinatorWaits
  <2>2. CASE HandToRepair(h, fills["buy"] - fills["sell"],
                          [booked[h] EXCEPT ![s] = @ + BookedFill(leg[h][s])], "rollbackRepairing")
    BY <1>3, <1>4, <2>2 DEF Sides
  <2>3. CASE /\ (\E stage \in {"returned", "raised"} : pc' = [pc EXCEPT ![h] = stage])
             /\ UNCHANGED order
    BY <2>1, <2>3 DEF CoordinatorWaits, TypeOK
  <2>4. QED
    BY <1>4, <2>2, <2>3, FlattenCases DEF Settle, Raise
<1>5. ASSUME NEW h \in Hedges, NEW s \in Sides, SurvivorDone(h, s) PROVE CoordinatorWaits'
  <2>1. [executed[h] EXCEPT ![s] = leg[h][s].filled] \in [Sides -> Nat]
    BY LegType DEF TypeOK
  <2>2. QED
    BY <1>4, <1>5, <2>1 DEF SurvivorDone, GatherDone
<1>6. ASSUME NEW h \in Hedges, NEW s \in Sides, SurvivorCancelled(h, s) PROVE CoordinatorWaits'
  <2>1. executed[h] \in [Sides -> Nat]
    BY DEF TypeOK
  <2>2. QED
    BY <1>4, <1>6, <2>1 DEF SurvivorCancelled
<1>7. ASSUME NEW h \in Hedges, HedgeNeedsRepair(h) PROVE CoordinatorWaits'
  BY <1>3, <1>7, AdoptFillsType DEF HedgeNeedsRepair, AdoptFills, GatherDone
<1>8. ASSUME NEW h \in Hedges, NEW c \in Callers, NEW ok, NEW pnl,
             order' = [order EXCEPT ![h][c] = NoOrder], ResumeCaller(h, c, ok, pnl)
      PROVE  CoordinatorWaits'
  <2>1. CASE c = Coordinator
    BY <1>0, <1>8, <2>1 DEF ResumeCaller, Settle, Raise, CoordinatorWaits, TypeOK
  <2>2. CASE c \in Operators
    BY <1>0, <1>8, <2>2 DEF ResumeCaller, CoordinatorWaits, TypeOK
  <2>3. QED
    BY <2>1, <2>2 DEF Callers
<1>9. ASSUME NEW h \in Hedges, NEW c \in Callers, RepairAnswers(h, c) PROVE CoordinatorWaits'
  BY <1>8, <1>9, RepairAnswersCases
<1>10. ASSUME NEW h \in Hedges, NEW c \in Callers, RepairErrors(h, c) PROVE CoordinatorWaits'
  BY <1>8, <1>10 DEF RepairErrors
<1>11. ASSUME NEW h \in Hedges, NEW c \in Operators, OperatorRepairs(h, c) \/ SaveRepair(h, c)
       PROVE  CoordinatorWaits'
  <2>1. UNCHANGED pc
    BY <1>11 DEF OperatorRepairs, SaveRepair
  <2>2. ASSUME NEW n, SubmitRepair(h, c, n)
        PROVE  \A g \in Hedges : order'[g][Coordinator] = order[g][Coordinator]
    BY <1>0, <2>2 DEF SubmitRepair, TypeOK
  <2>3. UNCHANGED order \/ SubmitRepair(h, c, net[h])
    BY <1>11 DEF OperatorRepairs, SaveRepair
  <2>4. QED
    BY <2>1, <2>2, <2>3 DEF CoordinatorWaits
<1>12. CASE UNCHANGED vars
  BY <1>12 DEF vars, CoordinatorWaits
<1>13. QED
  BY <1>1, <1>2, <1>5, <1>6, <1>7, <1>9, <1>10, <1>11, <1>12
  DEF Next, Await, Resume, RepairReturns

\* A hedge enters the ledger once, when it is not open, and leaves it once, when
\* it is.
LedgerStep ==
    \/ UNCHANGED exposureVars
    \/ \E h \in Hedges \ openHedges :
          /\ openHedges' = AddOpen(openHedges, h)
          /\ inFlight' = AddNotional(AddNotional(inFlight, BuyExchange[h], Notional[h]),
                                     SellExchange[h], Notional[h])
    \/ \E h \in openHedges : ReleaseExposure(h)

LEMMA LedgerStepHolds ==
    TypeOK /\ OpenWhileExecuting /\ CoordinatorWaits /\ [Next]_vars => LedgerStep
<1> SUFFICES ASSUME TypeOK, OpenWhileExecuting, CoordinatorWaits, [Next]_vars PROVE LedgerStep
  OBVIOUS
<1>1. ASSUME NEW h \in Hedges, Executing(h), NEW pnl, Settle(h, pnl) PROVE LedgerStep
  BY <1>1 DEF Settle, OpenWhileExecuting, LedgerStep
<1>2. ASSUME NEW h \in Hedges, Raise(h) PROVE LedgerStep
  BY <1>2 DEF Raise, LedgerStep
<1>3. ASSUME NEW h \in Hedges, Executing(h), NEW n \in Int, NEW pnl, NEW stage,
             HandToRepair(h, n, pnl, stage)
      PROVE  LedgerStep
  <2>1. CASE UNCHANGED <<reported, exposureVars>>
    BY <2>1 DEF LedgerStep
  <2>2. CASE Settle(h, pnl)
    BY <1>1, <1>3, <2>2
  <2>3. QED
    BY <1>3, <2>1, <2>2, HandCases
<1>4. ASSUME NEW h \in Hedges, Executing(h), NEW s \in Sides, NEW fills \in [Sides -> Nat],
             Flatten(h, s, fills)
      PROVE  LedgerStep
  <2>1. CASE HandToRepair(h, fills["buy"] - fills["sell"],
                          [booked[h] EXCEPT ![s] = @ + BookedFill(leg[h][s])], "rollbackRepairing")
    BY <1>3, <1>4, <2>1 DEF Sides
  <2>2. CASE Raise(h) \/ (\E pnl : Settle(h, pnl))
    BY <1>1, <1>2, <1>4, <2>2
  <2>3. QED
    BY <1>4, <2>1, <2>2, FlattenCases
<1>5. ASSUME NEW h \in Hedges, SubmitLegs(h) PROVE LedgerStep
  BY <1>5 DEF SubmitLegs, OpenWhileExecuting, Executing, LedgerStep
<1>6. ASSUME NEW h \in Hedges, BothLegsFail(h) PROVE LedgerStep
  BY <1>6 DEF BothLegsFail, GatherDone, OpenWhileExecuting, Executing, LedgerStep
<1>7. ASSUME NEW h \in Hedges, NEW s \in Sides, SurvivorDone(h, s) PROVE LedgerStep
  <2>1. [executed[h] EXCEPT ![s] = leg[h][s].filled] \in [Sides -> Nat]
    BY LegType DEF TypeOK
  <2>2. QED
    BY <1>4, <1>7, <2>1 DEF SurvivorDone, GatherDone, Executing
<1>8. ASSUME NEW h \in Hedges, NEW s \in Sides, SurvivorCancelled(h, s) PROVE LedgerStep
  <2>1. executed[h] \in [Sides -> Nat]
    BY DEF TypeOK
  <2>2. QED
    BY <1>4, <1>8, <2>1 DEF SurvivorCancelled, Executing
<1>9. ASSUME NEW h \in Hedges, HedgeCompletes(h) PROVE LedgerStep
  BY <1>1, <1>9 DEF HedgeCompletes, AdoptFills, GatherDone, Executing
<1>10. ASSUME NEW h \in Hedges, HedgeNeedsRepair(h) PROVE LedgerStep
  BY <1>3, <1>10, AdoptFillsType DEF HedgeNeedsRepair, AdoptFills, GatherDone, Executing
<1>11. ASSUME NEW h \in Hedges, HedgeOvertaken(h) PROVE LedgerStep
  BY <1>2, <1>11 DEF HedgeOvertaken
<1>12. ASSUME NEW h \in Hedges, NEW c \in Callers, NEW ok, NEW pnl,
              order[h][c] # NoOrder, ResumeCaller(h, c, ok, pnl)
       PROVE  LedgerStep
  <2>1. CASE c = Coordinator
    <3>1. Executing(h)
      BY <1>12, <2>1 DEF CoordinatorWaits, Executing
    <3>2. CASE Settle(h, pnl)
      BY <1>1, <3>1, <3>2
    <3>3. CASE Raise(h)
      BY <1>2, <3>3
    <3>4. CASE UNCHANGED <<pc, reported, exposureVars>>
      BY <3>4 DEF LedgerStep
    <3>5. QED
      BY <1>12, <3>2, <3>3, <3>4 DEF ResumeCaller
  <2>2. CASE c # Coordinator
    BY <1>12, <2>2 DEF ResumeCaller, LedgerStep
  <2>3. QED
    BY <2>1, <2>2
<1>13. ASSUME NEW h \in Hedges, NEW c \in Callers, RepairAnswers(h, c) PROVE LedgerStep
  BY <1>12, <1>13, RepairAnswersCases
<1>14. ASSUME NEW h \in Hedges, NEW c \in Callers, RepairErrors(h, c) PROVE LedgerStep
  BY <1>12, <1>14 DEF RepairErrors
<1>15. ASSUME NEW h \in Hedges PROVE
        /\ RejectBeforeOrders(h) \/ SaveHedge(h) => UNCHANGED exposureVars
        /\ \A s \in Sides : LegAnswers(h, s) \/ LegFails(h, s) \/ SurvivorOpen(h, s)
              \/ VenueFills(h, s) => UNCHANGED exposureVars
        /\ \A c \in Operators : OperatorRepairs(h, c) \/ SaveRepair(h, c)
              => UNCHANGED exposureVars
  BY DEF RejectBeforeOrders, SaveHedge, LegAnswers, LegFails, SurvivorOpen, VenueFills,
         OperatorRepairs, SaveRepair, exposureVars
<1>16. UNCHANGED vars => UNCHANGED exposureVars
  BY DEF vars, exposureVars
<1>17. UNCHANGED exposureVars => LedgerStep
  BY DEF LedgerStep
<1>18. QED
  BY <1>5, <1>6, <1>7, <1>8, <1>9, <1>10, <1>11, <1>13, <1>14, <1>15, <1>16, <1>17
  DEF Next, Await, Resume, RepairReturns

\* What an exchange owes the hedges of a set, as their buy or their sell side.
SideCharge(exchange, ex, S) == Total(Notional, {h \in S : exchange[h] = ex})

LEMMA SideChargeType ==
    ASSUME NEW S \in SUBSET Hedges, IsFiniteSet(S), NEW exchange, NEW ex
    PROVE  /\ IsFiniteSet({h \in S : exchange[h] = ex})
           /\ \A h \in S : Notional[h] \in Nat
           /\ SideCharge(exchange, ex, S) \in Nat
<1>1. IsFiniteSet({h \in S : exchange[h] = ex})
  BY FS_Subset
<1>2. \A h \in Hedges : Notional[h] \in Nat
  BY CoordinatorAssumption DEF CoordinatorAssumption
<1>3. QED
  BY <1>1, <1>2, TotalType DEF SideCharge

LEMMA SideChargeWithout ==
    ASSUME NEW S \in SUBSET Hedges, IsFiniteSet(S), NEW h \in S, NEW exchange, NEW ex
    PROVE  /\ SideCharge(exchange, ex, S) =
                 SideCharge(exchange, ex, S \ {h}) + (IF exchange[h] = ex THEN Notional[h] ELSE 0)
           /\ SideCharge(exchange, ex, S \ {h}) \in Nat
<1> DEFINE T == {g \in S : exchange[g] = ex}
           U == {g \in S \ {h} : exchange[g] = ex}
<1>1. IsFiniteSet(T) /\ \A g \in T : Notional[g] \in Nat
  BY SideChargeType
<1>2. IsFiniteSet(S \ {h}) /\ S \ {h} \in SUBSET Hedges
  BY FS_RemoveElement
<1>3. SideCharge(exchange, ex, S \ {h}) \in Nat
  BY <1>2, SideChargeType
<1>4. SideCharge(exchange, ex, S) = Total(Notional, T)
      /\ SideCharge(exchange, ex, S \ {h}) = Total(Notional, U)
  BY DEF SideCharge
<1>5. h \in T <=> exchange[h] = ex
  OBVIOUS
<1>6. U = T \ {h}
  OBVIOUS
<1> HIDE DEF T, U
<1>7. CASE exchange[h] = ex
  <2>1. Total(Notional, T) = Notional[h] + Total(Notional, T \ {h}) /\ Notional[h] \in Nat
    BY <1>1, <1>5, <1>7, TotalWithout
  <2>2. QED
    BY <1>3, <1>4, <1>6, <1>7, <2>1
<1>8. CASE exchange[h] # ex
  <2>1. U = T
    BY <1>5, <1>6, <1>8
  <2>2. QED
    BY <1>3, <1>4, <1>8, <2>1
<1>9. QED
  BY <1>7, <1>8

\* The exposure ledger holds the notional of the open hedges, each on its two
\* exchanges, which may be one and the same.
Ledger ==
    /\ IsFiniteSet(openHedges)
    /\ \A ex \in Exchanges : inFlight[ex] =
          SideCharge(BuyExchange, ex, openHedges) + SideCharge(SellExchange, ex, openHedges)

LEMMA LedgerKept == TypeOK /\ Ledger /\ LedgerStep => Ledger'
<1> SUFFICES ASSUME TypeOK, Ledger, LedgerStep PROVE Ledger'
  OBVIOUS
<1> DEFINE Charged(exchange, ex, h) == IF exchange[h] = ex THEN Notional[h] ELSE 0
<1>1. \A h \in Hedges : /\ BuyExchange[h] \in Exchanges /\ SellExchange[h] \in Exchanges
                        /\ Notional[h] \in Nat
  BY CoordinatorAssumption DEF CoordinatorAssumption
<1>2. CASE UNCHANGED exposureVars
  <2>1. openHedges' = openHedges /\ inFlight' = inFlight
    BY <1>2 DEF exposureVars
  <2>2. QED
    BY <2>1 DEF Ledger, SideCharge
<1>3. ASSUME NEW h \in Hedges \ openHedges,
             openHedges' = AddOpen(openHedges, h),
             inFlight' = AddNotional(AddNotional(inFlight, BuyExchange[h], Notional[h]),
                                     SellExchange[h], Notional[h])
      PROVE  Ledger'
  <2>1. openHedges' = openHedges \union {h} /\ openHedges' \in SUBSET Hedges
    BY <1>3 DEF AddOpen, TypeOK
  <2>2. IsFiniteSet(openHedges') /\ openHedges' \ {h} = openHedges
    BY <2>1, FS_AddElement DEF Ledger
  <2>3. ASSUME NEW ex \in Exchanges PROVE inFlight'[ex] =
            inFlight[ex] + Charged(BuyExchange, ex, h) + Charged(SellExchange, ex, h)
    BY <1>1, <1>3 DEF AddNotional, TypeOK
  <2>4. ASSUME NEW ex \in Exchanges, NEW exchange
        PROVE  /\ SideCharge(exchange, ex, openHedges') =
                     SideCharge(exchange, ex, openHedges) + Charged(exchange, ex, h)
               /\ SideCharge(exchange, ex, openHedges) \in Nat
               /\ Charged(exchange, ex, h) \in Nat
    <3>1. h \in openHedges' /\ h \in Hedges
      BY <2>1
    <3>2. /\ SideCharge(exchange, ex, openHedges') =
                SideCharge(exchange, ex, openHedges' \ {h}) + Charged(exchange, ex, h)
          /\ SideCharge(exchange, ex, openHedges' \ {h}) \in Nat
      BY <2>1, <2>2, <3>1, SideChargeWithout
    <3>3. QED
      BY <1>1, <2>2, <3>1, <3>2
  <2>5. ASSUME NEW ex \in Exchanges PROVE inFlight'[ex] =
            SideCharge(BuyExchange, ex, openHedges') + SideCharge(SellExchange, ex, openHedges')
    <3> HIDE DEF Charged
    <3>1. inFlight[ex] =
            SideCharge(BuyExchange, ex, openHedges) + SideCharge(SellExchange, ex, openHedges)
      BY DEF Ledger
    <3>2. QED
      BY <2>3, <2>4, <3>1
  <2>6. QED
    BY <2>2, <2>5 DEF Ledger, SideCharge
<1>4. ASSUME NEW h \in openHedges, ReleaseExposure(h) PROVE Ledger'
  <2>1. h \in Hedges /\ openHedges' = openHedges \ {h}
    BY <1>4 DEF ReleaseExposure, ReleaseOpen, TypeOK
  <2>2. IsFiniteSet(openHedges') /\ openHedges' \in SUBSET Hedges
    BY <2>1, FS_RemoveElement DEF Ledger, TypeOK
  <2>3. ASSUME NEW ex \in Exchanges, NEW exchange
        PROVE  /\ SideCharge(exchange, ex, openHedges) =
                     SideCharge(exchange, ex, openHedges') + Charged(exchange, ex, h)
               /\ SideCharge(exchange, ex, openHedges') \in Nat
               /\ Charged(exchange, ex, h) \in Nat
    <3>1. /\ SideCharge(exchange, ex, openHedges) =
                SideCharge(exchange, ex, openHedges \ {h}) + Charged(exchange, ex, h)
          /\ SideCharge(exchange, ex, openHedges \ {h}) \in Nat
      BY SideChargeWithout DEF Ledger, TypeOK
    <3>2. QED
      BY <1>1, <2>1, <3>1
  <2>4. ASSUME NEW ex \in Exchanges
        PROVE  inFlight[ex] >= Charged(BuyExchange, ex, h) + Charged(SellExchange, ex, h)
    <3> HIDE DEF Charged
    <3>1. inFlight[ex] =
            SideCharge(BuyExchange, ex, openHedges) + SideCharge(SellExchange, ex, openHedges)
      BY DEF Ledger
    <3>2. QED
      BY <2>3, <3>1
  <2>5. ASSUME NEW ex \in Exchanges PROVE inFlight'[ex] =
            inFlight[ex] - Charged(BuyExchange, ex, h) - Charged(SellExchange, ex, h)
    <3> DEFINE once == ReleaseNotional(inFlight, BuyExchange[h], Notional[h])
    <3>1. inFlight[ex] \in Nat /\ Notional[h] \in Nat
      BY <1>1, <2>1 DEF TypeOK
    <3>2. once \in [Exchanges -> Nat] /\ once[ex] = inFlight[ex] - Charged(BuyExchange, ex, h)
      <4>1. once \in [Exchanges -> Nat]
        BY <1>1, <2>1, ReleaseNotionalType DEF TypeOK
      <4>2. once[ex] = IF BuyExchange[h] = ex /\ ~(inFlight[ex] > Notional[h]) THEN 0
                       ELSE inFlight[ex] - Charged(BuyExchange, ex, h)
        BY <1>1, <2>1, <3>1 DEF ReleaseNotional, TypeOK
      <4>3. Charged(SellExchange, ex, h) \in Nat
        BY <3>1
      <4>4. QED
        BY <2>4, <3>1, <4>1, <4>2, <4>3
    <3>3. inFlight' = ReleaseNotional(once, SellExchange[h], Notional[h])
      BY <1>4 DEF ReleaseExposure
    <3> HIDE DEF once
    <3>4. inFlight'[ex] = once[ex] - Charged(SellExchange, ex, h)
      BY <1>1, <2>1, <2>4, <3>1, <3>2, <3>3 DEF ReleaseNotional
    <3>5. QED
      BY <3>1, <3>2, <3>4
  <2>6. ASSUME NEW ex \in Exchanges PROVE inFlight'[ex] =
            SideCharge(BuyExchange, ex, openHedges') + SideCharge(SellExchange, ex, openHedges')
    <3> HIDE DEF Charged
    <3>1. inFlight[ex] =
            SideCharge(BuyExchange, ex, openHedges) + SideCharge(SellExchange, ex, openHedges)
      BY DEF Ledger
    <3>2. QED
      BY <2>3, <2>5, <3>1
  <2>7. QED
    BY <2>2, <2>6 DEF Ledger, SideCharge
<1>5. QED
  BY <1>2, <1>3, <1>4 DEF LedgerStep

LEMMA LedgerInit == openHedges = {} /\ inFlight = [ex \in Exchanges |-> 0] => Ledger
<1> SUFFICES ASSUME openHedges = {}, inFlight = [ex \in Exchanges |-> 0] PROVE Ledger
  OBVIOUS
<1>1. ASSUME NEW exchange, NEW ex PROVE SideCharge(exchange, ex, openHedges) = 0
  <2>1. {h \in openHedges : exchange[h] = ex} = {}
    OBVIOUS
  <2>2. QED
    BY <2>1, TotalOfNothing DEF SideCharge
<1>2. QED
  BY <1>1, FS_EmptySet DEF Ledger

LEMMA LedgerIsTheNotional == Ledger => InFlightIsOpenNotional
  BY DEF Ledger, SideCharge, Total, InFlightIsOpenNotional

\* What an exchange is charged is the notional of the open hedges that trade on
\* it, whatever the hedges released in between: the clamp at zero never bites.
THEOREM InFlightIsAlwaysOpenNotional == Spec => []InFlightIsOpenNotional
<1>1. Init => Ledger /\ CoordinatorWaits
  BY LedgerInit DEF Init, CoordinatorWaits, Callers
<1>2. QED
  BY <1>1, WaitStep, LedgerStepHolds, LedgerKept, LedgerIsTheNotional, TypeCorrect,
     OpenExactlyWhileExecuting, PTL DEF Spec

=============================================================================
