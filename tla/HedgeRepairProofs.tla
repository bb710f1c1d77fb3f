------------------------- MODULE HedgeRepairProofs -------------------------
(***************************************************************************)
(* The corrective orders of a group: nothing is owed before the legs are   *)
(* answered, the PnL covers what was executed, the REPAIRING state is a    *)
(* lock until the loss projection refuses a request while an order is out, *)
(* a corrective fill until then only shrinks the residual, a group that    *)
(* was given up is not revived, and a group ends flat or exhausted unless  *)
(* a request came too soon.  Without operator requests the breaker hears   *)
(* of everything, and over any number of crashes a position nobody was     *)
(* told of has its explanation (HedgeRecovery).                            *)
(***************************************************************************)
EXTENDS HedgeRecovery, HedgeCoordinatorProofs

-----------------------------------------------------------------------------
(* A step concerns one hedge. *)

HedgeStep(h) ==
    \/ RejectBeforeOrders(h) \/ SubmitLegs(h)
    \/ Await(h) \/ Resume(h)
    \/ \E c \in Callers : RepairReturns(h, c)
    \/ \E c \in Operators : OperatorRepairs(h, c) \/ SaveRepair(h, c)
    \/ \E s \in Sides : VenueFills(h, s)

\* Nothing the invariants below speak of changes for group g.
SameGroup(g) ==
    /\ state'[g] = state[g] /\ executed'[g] = executed[g] /\ net'[g] = net[g]
    /\ attempts'[g] = attempts[g] /\ booked'[g] = booked[g]
    /\ pc'[g] = pc[g] /\ leg'[g] = leg[g] /\ order'[g] = order[g]
    /\ meddled'[g] = meddled[g]

LEMMA HandFrame ==
    ASSUME TypeOK, NEW h \in Hedges, NEW g \in Hedges \ {h}, NEW n \in Int, NEW pnl, NEW stage,
           HandToRepair(h, n, pnl, stage)
    PROVE  /\ state'[g] = state[g] /\ attempts'[g] = attempts[g]
           /\ pc'[g] = pc[g] /\ order'[g] = order[g]
<1>1. CASE /\ state' = [state EXCEPT ![h] = "REPAIRING"]
           /\ SubmitRepair(h, Coordinator, n)
           /\ pc' = [pc EXCEPT ![h] = stage]
  BY <1>1 DEF SubmitRepair, TypeOK
<1>2. CASE /\ \E v : state' = [state EXCEPT ![h] = v]
           /\ Settle(h, pnl)
           /\ UNCHANGED <<attempts, order>>
  BY <1>2 DEF Settle, TypeOK
<1>3. QED
  BY <1>1, <1>2, HandCases

LEMMA FlattenFrame ==
    ASSUME TypeOK, NEW h \in Hedges, NEW g \in Hedges \ {h}, NEW s \in Sides,
           NEW fills \in [Sides -> Nat], Flatten(h, s, fills), UNCHANGED <<leg, meddled>>
    PROVE  SameGroup(g)
<1> DEFINE n   == fills["buy"] - fills["sell"]
           pnl == [booked[h] EXCEPT ![s] = @ + BookedFill(leg[h][s])]
<1>1. executed'[g] = executed[g] /\ net'[g] = net[g] /\ booked'[g] = booked[g]
  BY DEF Flatten, TypeOK
<1>2. n \in Int
  BY DEF Sides
<1>3. CASE state' = [state EXCEPT ![h] = "ABORTED"] /\ Settle(h, pnl) /\ UNCHANGED <<attempts, order>>
  BY <1>1, <1>3 DEF Settle, SameGroup, TypeOK
<1>4. CASE Raise(h) /\ UNCHANGED <<state, attempts, order>>
  BY <1>1, <1>4 DEF Raise, SameGroup, TypeOK
<1>5. CASE HandToRepair(h, n, pnl, "rollbackRepairing")
  BY <1>1, <1>2, <1>5, HandFrame DEF SameGroup
<1>6. QED
  BY <1>3, <1>4, <1>5 DEF Flatten

LEMMA ResumeCallerFrame ==
    ASSUME TypeOK, NEW h \in Hedges, NEW g \in Hedges \ {h}, NEW c, NEW ok, NEW pnl,
           ResumeCaller(h, c, ok, pnl)
    PROVE  pc'[g] = pc[g]
  BY DEF ResumeCaller, Settle, Raise, TypeOK

LEMMA OneHedgeAtATime ==
    ASSUME TypeOK, NEW h \in Hedges, HedgeStep(h), NEW g \in Hedges \ {h}
    PROVE  SameGroup(g)
<1>1. ASSUME RejectBeforeOrders(h) \/ SubmitLegs(h) \/ BothLegsFail(h) \/ HedgeOvertaken(h)
                \/ SaveHedge(h)
      PROVE  SameGroup(g)
  BY <1>1 DEF RejectBeforeOrders, SubmitLegs, BothLegsFail, HedgeOvertaken, SaveHedge,
              Raise, groupVars, SameGroup, TypeOK
<1>2. ASSUME NEW s \in Sides, LegAnswers(h, s) \/ LegFails(h, s) \/ VenueFills(h, s)
      PROVE  SameGroup(g)
  BY <1>2 DEF LegAnswers, LegFails, VenueFills, groupVars, SameGroup, TypeOK
<1>3. ASSUME NEW s \in Sides, SurvivorOpen(h, s) PROVE SameGroup(g)
  BY <1>3 DEF SurvivorOpen, SameGroup, TypeOK
<1>4. ASSUME NEW s \in Sides, SurvivorDone(h, s) PROVE SameGroup(g)
  <2>1. [executed[h] EXCEPT ![s] = leg[h][s].filled] \in [Sides -> Nat]
    BY LegType DEF TypeOK
  <2>2. QED
    BY <1>4, <2>1, FlattenFrame DEF SurvivorDone
<1>5. ASSUME NEW s \in Sides, SurvivorCancelled(h, s) PROVE SameGroup(g)
  <2>1. executed[h] \in [Sides -> Nat]
    BY DEF TypeOK
  <2>2. QED
    BY <1>5, <2>1, FlattenFrame DEF SurvivorCancelled
<1>6. ASSUME HedgeCompletes(h) PROVE SameGroup(g)
  BY <1>6 DEF HedgeCompletes, AdoptFills, Settle, SameGroup, TypeOK
<1>7. ASSUME HedgeNeedsRepair(h) PROVE SameGroup(g)
  <2>1. /\ state'[g] = state[g] /\ attempts'[g] = attempts[g]
        /\ pc'[g] = pc[g] /\ order'[g] = order[g]
    BY <1>7, AdoptFillsType, HandFrame DEF HedgeNeedsRepair
  <2>2. QED
    BY <1>7, <2>1 DEF HedgeNeedsRepair, AdoptFills, SameGroup, TypeOK
<1>8. ASSUME NEW c \in Callers, RepairAnswers(h, c) PROVE SameGroup(g)
  <2>1. /\ executed'[g] = executed[g] /\ net'[g] = net[g]
        /\ booked'[g] = booked[g] /\ state'[g] = state[g]
    BY <1>8, RepairAnswersCases DEF TypeOK
  <2>2. pc'[g] = pc[g]
    BY <1>8, RepairAnswersCases, ResumeCallerFrame
  <2>3. order' = [order EXCEPT ![h][c] = NoOrder] /\ UNCHANGED <<attempts, leg, meddled>>
    BY <1>8 DEF RepairAnswers
  <2>4. QED
    BY <2>1, <2>2, <2>3 DEF SameGroup, TypeOK
<1>9. ASSUME NEW c \in Callers, RepairErrors(h, c) PROVE SameGroup(g)
  BY <1>9, ResumeCallerFrame DEF RepairErrors, groupVars, SameGroup, TypeOK
<1>10. ASSUME NEW c \in Operators, OperatorRepairs(h, c) PROVE SameGroup(g)
  BY <1>10 DEF OperatorRepairs, SubmitRepair, SameGroup, TypeOK
<1>11. ASSUME NEW c \in Operators, SaveRepair(h, c) PROVE SameGroup(g)
  BY <1>11 DEF SaveRepair, groupVars, SameGroup
<1>12. QED
  BY <1>1, <1>2, <1>3, <1>4, <1>5, <1>6, <1>7, <1>8, <1>9, <1>10, <1>11
  DEF HedgeStep, Await, Resume, RepairReturns

LEMMA NextIsAHedgeStep == [Next]_vars => (\E h \in Hedges : HedgeStep(h)) \/ UNCHANGED vars
  BY DEF Next, HedgeStep

LEMMA StutterFrame == UNCHANGED vars => \A g \in Hedges : SameGroup(g)
  BY DEF vars, groupVars, SameGroup

-----------------------------------------------------------------------------
(* Before the legs have answered. *)

\* Until the coordinator has dealt with both legs the group has no position, no
\* PnL, no attempts and no corrective order, whatever operators request; while
\* the survivor's cancel is awaited its executed amount is already set.
EarlyGroup(h) ==
    pc[h] \in {"idle", "gather", "cancelling"} =>
        /\ net[h] = 0 /\ attempts[h] = 0 /\ booked[h] = BothSides(0)
        /\ \A c \in Callers : order[h][c] = NoOrder
        /\ pc[h] # "cancelling" => executed[h] = BothSides(0)
        /\ pc[h] = "cancelling" => \E s \in Sides :
              /\ Answered(leg[h][s]) /\ ~Answered(leg[h][Other(s)])
              /\ executed[h] = [BothSides(0) EXCEPT ![s] = leg[h][s].filled]

Early == \A h \in Hedges : EarlyGroup(h)

LateStages == {"repairing", "rollbackRepairing", "returned", "saved", "raised", "lost"}

LEMMA HandIsLate ==
    ASSUME TypeOK, NEW h \in Hedges, NEW n \in Int, NEW pnl,
           NEW stage \in {"repairing", "rollbackRepairing"}, HandToRepair(h, n, pnl, stage)
    PROVE  pc'[h] \in LateStages
  BY HandCases DEF Settle, TypeOK, LateStages

LEMMA FlattenIsLate ==
    ASSUME TypeOK, NEW h \in Hedges, NEW s \in Sides, NEW fills \in [Sides -> Nat],
           Flatten(h, s, fills)
    PROVE  pc'[h] \in LateStages
<1>1. fills["buy"] - fills["sell"] \in Int
  BY DEF Sides
<1>2. CASE HandToRepair(h, fills["buy"] - fills["sell"],
                        [booked[h] EXCEPT ![s] = @ + BookedFill(leg[h][s])], "rollbackRepairing")
  BY <1>1, <1>2, HandIsLate
<1>3. CASE pc' = [pc EXCEPT ![h] = "returned"] \/ pc' = [pc EXCEPT ![h] = "raised"]
  BY <1>3 DEF TypeOK, LateStages
<1>4. QED
  BY <1>2, <1>3 DEF Flatten, Settle, Raise

LEMMA EarlyStep ==
    ASSUME TypeOK, NEW h \in Hedges, EarlyGroup(h), HedgeStep(h)
    PROVE  EarlyGroup(h)'
<1>1. pc'[h] \in LateStages => EarlyGroup(h)'
  BY DEF LateStages, EarlyGroup
<1>2. ASSUME RejectBeforeOrders(h) \/ BothLegsFail(h) \/ HedgeCompletes(h) \/ HedgeOvertaken(h)
                \/ SaveHedge(h)
      PROVE  pc'[h] \in LateStages
  BY <1>2 DEF RejectBeforeOrders, BothLegsFail, HedgeCompletes, HedgeOvertaken, SaveHedge,
              Settle, Raise, TypeOK, LateStages
<1>3. ASSUME HedgeNeedsRepair(h) PROVE pc'[h] \in LateStages
  BY <1>3, AdoptFillsType, HandIsLate DEF HedgeNeedsRepair
<1>4. ASSUME NEW s \in Sides, SurvivorDone(h, s) PROVE pc'[h] \in LateStages
  <2>1. [executed[h] EXCEPT ![s] = leg[h][s].filled] \in [Sides -> Nat]
    BY LegType DEF TypeOK
  <2>2. QED
    BY <1>4, <2>1, FlattenIsLate DEF SurvivorDone
<1>5. ASSUME NEW s \in Sides, SurvivorCancelled(h, s) PROVE pc'[h] \in LateStages
  <2>1. executed[h] \in [Sides -> Nat]
    BY DEF TypeOK
  <2>2. QED
    BY <1>5, <2>1, FlattenIsLate DEF SurvivorCancelled
<1>6. ASSUME NEW c \in Callers, RepairAnswers(h, c) \/ RepairErrors(h, c)
      PROVE  pc'[h] \in LateStages
  <2>1. PICK ok, pnl : ResumeCaller(h, c, ok, pnl)
    BY <1>6, RepairAnswersCases DEF RepairErrors
  <2>2. pc[h] \in LateStages
    BY <1>6 DEF RepairAnswers, RepairErrors, EarlyGroup, TypeOK, Stages, LateStages
  <2>3. QED
    BY <2>1, <2>2 DEF ResumeCaller, Settle, Raise, TypeOK, LateStages
<1>7. ASSUME SubmitLegs(h) PROVE EarlyGroup(h)'
  BY <1>7 DEF SubmitLegs, EarlyGroup, TypeOK
<1>8. ASSUME NEW s \in Sides, LegAnswers(h, s) \/ LegFails(h, s) PROVE EarlyGroup(h)'
  BY <1>8 DEF LegAnswers, LegFails, groupVars, EarlyGroup
<1>9. ASSUME NEW s \in Sides, SurvivorOpen(h, s) PROVE EarlyGroup(h)'
  <2>1. /\ pc[h] = "gather" /\ Answered(leg[h][s]) /\ ~Answered(leg[h][Other(s)])
        /\ executed' = [executed EXCEPT ![h][s] = leg[h][s].filled]
        /\ pc' = [pc EXCEPT ![h] = "cancelling"]
        /\ UNCHANGED <<net, attempts, booked, leg, order>>
    BY <1>9 DEF SurvivorOpen, GatherDone
  <2>2. pc'[h] = "cancelling"
    BY <2>1 DEF TypeOK
  <2>3. executed'[h] = [BothSides(0) EXCEPT ![s] = leg[h][s].filled]
    BY <2>1 DEF EarlyGroup, TypeOK
  <2>4. /\ net[h] = 0 /\ attempts[h] = 0 /\ booked[h] = BothSides(0)
        /\ \A c \in Callers : order[h][c] = NoOrder
    BY <2>1 DEF EarlyGroup
  <2>5. /\ net'[h] = 0 /\ attempts'[h] = 0 /\ booked'[h] = BothSides(0)
        /\ \A c \in Callers : order'[h][c] = NoOrder
        /\ Answered(leg'[h][s]) /\ ~Answered(leg'[h][Other(s)])
        /\ executed'[h] = [BothSides(0) EXCEPT ![s] = leg'[h][s].filled]
    BY <2>1, <2>3, <2>4
  <2>6. QED
    BY <2>2, <2>5 DEF EarlyGroup
<1>10. ASSUME NEW s \in Sides, VenueFills(h, s) PROVE EarlyGroup(h)'
  BY <1>10 DEF VenueFills, groupVars, EarlyGroup
<1>11. ASSUME NEW c \in Operators, OperatorRepairs(h, c) PROVE EarlyGroup(h)'
  <2>1. PICK v \in RepairVerdicts(net[h], attempts[h]) :
          IF v = "REPAIRING"
          THEN SubmitRepair(h, c, net[h]) /\ UNCHANGED saving
          ELSE UNCHANGED <<attempts, order>>
    BY <1>11 DEF OperatorRepairs
  <2>2. net[h] = 0 => v # "REPAIRING"
    BY <2>1 DEF RepairVerdicts
  <2>3. UNCHANGED <<executed, net, booked, pc, leg>>
    BY <1>11 DEF OperatorRepairs
  <2>4. QED
    BY <2>1, <2>2, <2>3 DEF EarlyGroup
<1>12. ASSUME NEW c \in Operators, SaveRepair(h, c) PROVE EarlyGroup(h)'
  BY <1>12 DEF SaveRepair, groupVars, EarlyGroup
<1>13. QED
  BY <1>1, <1>2, <1>3, <1>4, <1>5, <1>6, <1>7, <1>8, <1>9, <1>10, <1>11, <1>12
  DEF HedgeStep, Await, Resume, RepairReturns

LEMMA EarlyKept == TypeOK /\ Early /\ [Next]_vars => Early'
<1> SUFFICES ASSUME TypeOK, Early, [Next]_vars, NEW g \in Hedges PROVE EarlyGroup(g)'
  BY DEF Early
<1>1. ASSUME SameGroup(g) PROVE EarlyGroup(g)'
  BY <1>1 DEF SameGroup, Early, EarlyGroup
<1>2. QED
  BY <1>1, EarlyStep, OneHedgeAtATime, NextIsAHedgeStep, StutterFrame DEF Early

LEMMA EarlyInit == Init => Early
  BY DEF Init, Early, EarlyGroup

\* No operator request makes a group trade, spend an attempt or book a fill while
\* its legs are out or its survivor is being cancelled.
THEOREM EarlyIsInvariant == Spec => []Early
  BY EarlyInit, EarlyKept, TypeCorrect, PTL DEF Spec

-----------------------------------------------------------------------------
(* The PnL covers what was executed. *)

PnlOfGroup(h) == ~UnpricedFills => (pc[h] # "cancelling" => booked[h] = executed[h])

\* The survivor's fill is the only thing executed when the rollback books it.
LEMMA FlattenCovers ==
    ASSUME TypeOK, ~UnpricedFills, NEW h \in Hedges, NEW s \in Sides,
           booked[h] = BothSides(0),
           Flatten(h, s, [BothSides(0) EXCEPT ![s] = leg[h][s].filled])
    PROVE  booked'[h] = executed'[h]
<1> DEFINE fills == [BothSides(0) EXCEPT ![s] = leg[h][s].filled]
<1>1. BookedFill(leg[h][s]) = leg[h][s].filled /\ leg[h][s].filled \in Nat
  BY LegType
<1>2. executed'[h] = fills
  BY DEF Flatten, TypeOK
<1>3. booked'[h] = [booked[h] EXCEPT ![s] = @ + BookedFill(leg[h][s])]
  BY DEF Flatten, TypeOK
<1>4. booked[h][s] + BookedFill(leg[h][s]) = leg[h][s].filled
  BY <1>1 DEF BothSides
<1>5. booked'[h] = [BothSides(0) EXCEPT ![s] = leg[h][s].filled]
  BY <1>3, <1>4
<1>6. QED
  BY <1>2, <1>5

LEMMA AdoptCovers ==
    ASSUME TypeOK, ~UnpricedFills, NEW h \in Hedges, AdoptFills(h)
    PROVE  booked'[h] = executed'[h]
<1>1. \A s \in Sides : BookedFill(leg[h][s]) = leg[h][s].filled
  BY LegType
<1>2. executed'[h] = LegFill(h) /\ booked'[h] = LegPnl(h)
  BY DEF AdoptFills, TypeOK
<1>3. QED
  BY <1>1, <1>2 DEF LegFill, LegPnl

LEMMA PnlStep ==
    ASSUME TypeOK, NEW h \in Hedges, EarlyGroup(h), PnlOfGroup(h), HedgeStep(h)
    PROVE  PnlOfGroup(h)'
<1> SUFFICES ASSUME ~UnpricedFills, pc'[h] # "cancelling" PROVE booked'[h] = executed'[h]
  BY DEF PnlOfGroup
<1>1. ASSUME RejectBeforeOrders(h) \/ SubmitLegs(h) \/ BothLegsFail(h) \/ HedgeOvertaken(h)
                \/ SaveHedge(h)
      PROVE  booked'[h] = executed'[h]
  BY <1>1 DEF RejectBeforeOrders, SubmitLegs, BothLegsFail, HedgeOvertaken, SaveHedge,
              GatherDone, groupVars, PnlOfGroup
<1>2. ASSUME NEW s \in Sides, LegAnswers(h, s) \/ LegFails(h, s) \/ VenueFills(h, s)
      PROVE  booked'[h] = executed'[h]
  BY <1>2 DEF LegAnswers, LegFails, VenueFills, groupVars, PnlOfGroup
<1>3. ASSUME NEW s \in Sides, SurvivorOpen(h, s) PROVE FALSE
  BY <1>3 DEF SurvivorOpen, TypeOK
<1>4. ASSUME NEW s \in Sides, SurvivorDone(h, s) PROVE booked'[h] = executed'[h]
  <2>1. executed[h] = BothSides(0) /\ booked[h] = BothSides(0)
    BY <1>4 DEF SurvivorDone, GatherDone, EarlyGroup
  <2>2. QED
    BY <1>4, <2>1, FlattenCovers DEF SurvivorDone
<1>5. ASSUME NEW s \in Sides, SurvivorCancelled(h, s) PROVE booked'[h] = executed'[h]
  <2>1. PICK t \in Sides : /\ Answered(leg[h][t]) /\ ~Answered(leg[h][Other(t)])
                           /\ executed[h] = [BothSides(0) EXCEPT ![t] = leg[h][t].filled]
    BY <1>5 DEF SurvivorCancelled, EarlyGroup
  <2>2. t = s
    BY <1>5, <2>1 DEF SurvivorCancelled, Other, Sides
  <2>3. booked[h] = BothSides(0)
    BY <1>5 DEF SurvivorCancelled, EarlyGroup
  <2>4. QED
    BY <1>5, <2>1, <2>2, <2>3, FlattenCovers DEF SurvivorCancelled
<1>6. ASSUME HedgeCompletes(h) \/ HedgeNeedsRepair(h) PROVE booked'[h] = executed'[h]
  BY <1>6, AdoptCovers DEF HedgeCompletes, HedgeNeedsRepair
<1>7. ASSUME NEW c \in Callers, RepairAnswers(h, c) PROVE booked'[h] = executed'[h]
  <2>1. booked[h] = executed[h]
    BY <1>7 DEF RepairAnswers, EarlyGroup, PnlOfGroup
  <2>2. PICK f \in 0 .. order[h][c].amount, priced \in PricedFlags :
          /\ executed' = [executed EXCEPT ![h] =
                             [executed[h] EXCEPT ![order[h][c].side] = @ + f]]
          /\ booked' = [booked EXCEPT ![h] =
                [booked[h] EXCEPT ![order[h][c].side] = IF priced THEN @ + f ELSE @]]
    BY <1>7, RepairAnswersCases
  <2>3. priced
    BY <2>2 DEF PricedFlags
  <2>4. booked' = [booked EXCEPT ![h] =
                     [booked[h] EXCEPT ![order[h][c].side] = @ + f]]
    BY <2>2, <2>3
  <2>5. QED
    BY <2>1, <2>2, <2>4 DEF TypeOK
<1>8. ASSUME NEW c \in Callers, RepairErrors(h, c) PROVE booked'[h] = executed'[h]
  BY <1>8 DEF RepairErrors, EarlyGroup, PnlOfGroup, groupVars
<1>9. ASSUME NEW c \in Operators, OperatorRepairs(h, c) \/ SaveRepair(h, c)
      PROVE  booked'[h] = executed'[h]
  BY <1>9 DEF OperatorRepairs, SaveRepair, groupVars, PnlOfGroup
<1>10. QED
  BY <1>1, <1>2, <1>3, <1>4, <1>5, <1>6, <1>7, <1>8, <1>9
  DEF HedgeStep, Await, Resume, RepairReturns

\* When fills come back priced the recorded PnL covers exactly what the group
\* executed: no leg, survivor or corrective fill is left out or counted twice.
THEOREM PnlAlwaysCoversExecution == Spec => []PnlCoversExecution
<1> DEFINE Pnl == \A h \in Hedges : PnlOfGroup(h)
<1>1. Init => Pnl
  BY DEF Init, PnlOfGroup
<1>2. TypeOK /\ Early /\ Pnl /\ [Next]_vars => Pnl'
  <2> SUFFICES ASSUME TypeOK, Early, Pnl, [Next]_vars, NEW g \in Hedges PROVE PnlOfGroup(g)'
    OBVIOUS
  <2>1. ASSUME SameGroup(g) PROVE PnlOfGroup(g)'
    BY <2>1 DEF SameGroup, PnlOfGroup
  <2>2. QED
    BY <2>1, PnlStep, OneHedgeAtATime, NextIsAHedgeStep, StutterFrame DEF Early
<1>3. Pnl => PnlCoversExecution
  BY DEF PnlOfGroup, PnlCoversExecution
<1>4. QED
  BY <1>1, <1>2, <1>3, TypeCorrect, EarlyIsInvariant, PTL DEF Spec

-----------------------------------------------------------------------------
(* REPAIRING as a lock. *)

\* At most one corrective order of a group is out; it is for the whole residual
\* the group still has, and the group is REPAIRING, or ABORTED by an operator
\* who found the attempts used up.  So it is until the loss projection refuses a
\* request while an order is out.
LockHeld(h) ==
    /\ \A c, d \in Callers : order[h][c] # NoOrder /\ order[h][d] # NoOrder => c = d
    /\ \A c \in Callers : order[h][c] # NoOrder =>
          /\ net[h] # 0
          /\ state[h] \in {"REPAIRING", "ABORTED"}
          /\ order[h][c] = [side |-> RepairSide(net[h]), amount |-> RepairAmount(net[h])]

LockGroup(h) == "refused" \notin meddled[h] => LockHeld(h)

Lock == \A h \in Hedges : LockGroup(h)

LEMMA NoOrderNoLock ==
    ASSUME NEW h \in Hedges, \A c \in Callers : order'[h][c] = NoOrder
    PROVE  LockGroup(h)'
  BY DEF LockGroup, LockHeld

LEMMA SubmitLocks ==
    ASSUME TypeOK, NEW h \in Hedges, NEW c \in Callers, NEW n \in Int, n # 0,
           \A d \in Callers : order[h][d] = NoOrder,
           SubmitRepair(h, c, n), state'[h] = "REPAIRING", net'[h] = n
    PROVE  LockGroup(h)'
<1>1. order'[h][c] = [side |-> RepairSide(n), amount |-> RepairAmount(n)]
  BY DEF SubmitRepair, TypeOK
<1>2. \A d \in Callers \ {c} : order'[h][d] = NoOrder
  BY DEF SubmitRepair, TypeOK
<1>3. QED
  BY <1>1, <1>2 DEF LockGroup, LockHeld

LEMMA HandLocks ==
    ASSUME TypeOK, NEW h \in Hedges, NEW n \in Int, NEW pnl, NEW stage,
           \A d \in Callers : order[h][d] = NoOrder,
           HandToRepair(h, n, pnl, stage), net'[h] = n
    PROVE  LockGroup(h)'
<1>1. CASE /\ n # 0
           /\ state' = [state EXCEPT ![h] = "REPAIRING"]
           /\ SubmitRepair(h, Coordinator, n)
  BY <1>1, SubmitLocks DEF TypeOK, Callers
<1>2. CASE UNCHANGED <<attempts, order>>
  BY <1>2, NoOrderNoLock
<1>3. QED
  BY <1>1, <1>2, HandCases

LEMMA FlattenLocks ==
    ASSUME TypeOK, NEW h \in Hedges, NEW s \in Sides, NEW fills \in [Sides -> Nat],
           \A d \in Callers : order[h][d] = NoOrder, Flatten(h, s, fills)
    PROVE  LockGroup(h)'
<1>1. fills["buy"] - fills["sell"] \in Int
  BY DEF Sides
<1>2. net'[h] = fills["buy"] - fills["sell"]
  BY DEF Flatten, TypeOK
<1>3. CASE UNCHANGED <<attempts, order>>
  BY <1>3, NoOrderNoLock
<1>4. CASE HandToRepair(h, fills["buy"] - fills["sell"],
                        [booked[h] EXCEPT ![s] = @ + BookedFill(leg[h][s])], "rollbackRepairing")
  BY <1>1, <1>2, <1>4, HandLocks
<1>5. CASE UNCHANGED <<state, attempts, order>>
  BY <1>5, NoOrderNoLock
<1>6. QED
  BY <1>3, <1>4, <1>5 DEF Flatten

\* The operator who gets a corrective order out found no other one out, and one
\* whom the loss projection refused while an order was out is in the history.
LEMMA OperatorLocks ==
    ASSUME TypeOK, NEW h \in Hedges, LockGroup(h),
           NEW c \in Operators, OperatorRepairs(h, c)
    PROVE  LockGroup(h)'
<1> SUFFICES ASSUME "refused" \notin meddled'[h] PROVE LockGroup(h)'
  BY DEF LockGroup
<1>1. PICK v \in RepairVerdicts(net[h], attempts[h]) :
        /\ v = "REPAIRING" => CanTransition(state[h], v)
        /\ state' = [state EXCEPT ![h] = v]
        /\ IF v = "REPAIRING"
           THEN SubmitRepair(h, c, net[h]) /\ UNCHANGED saving
           ELSE UNCHANGED <<attempts, order>>
        /\ meddled' = [meddled EXCEPT ![h] = @ \union Meddling(h, v)]
  BY DEF OperatorRepairs
<1>2. net[h] \in Int /\ attempts[h] \in Nat /\ c \in Callers
  BY DEF TypeOK, Callers
<1>3. /\ v \in {"COMPLETED", "ABORTED", "REPAIRING", "FAILED_NEEDS_REPAIR"}
      /\ v = "REPAIRING" => net[h] # 0
      /\ v = "COMPLETED" => net[h] = 0
  BY <1>2, VerdictFacts
<1>4. state'[h] = v /\ net'[h] = net[h]
  BY <1>1 DEF OperatorRepairs, TypeOK
<1>5. "refused" \notin meddled[h] /\ "refused" \notin Meddling(h, v)
  BY <1>1 DEF TypeOK
<1>6. LockHeld(h)
  BY <1>5 DEF LockGroup
<1>7. CASE v = "REPAIRING"
  <2>1. state[h] = "FAILED_NEEDS_REPAIR"
    BY <1>1, <1>7, OnlyFailedEntersRepairing DEF OperatorRepairs, TypeOK
  <2>2. \A d \in Callers : order[h][d] = NoOrder
    BY <1>6, <2>1 DEF LockHeld
  <2>3. QED
    BY <1>1, <1>2, <1>3, <1>4, <1>7, <2>2, SubmitLocks
<1>8. CASE v = "FAILED_NEEDS_REPAIR"
  <2>1. \A d \in Callers : order[h][d] = NoOrder
    BY <1>5, <1>8 DEF Meddling
  <2>2. QED
    BY <1>1, <1>8, <2>1, NoOrderNoLock
<1>9. CASE v \in {"COMPLETED", "ABORTED"}
  BY <1>1, <1>3, <1>4, <1>6, <1>9 DEF LockGroup, LockHeld
<1>10. QED
  BY <1>3, <1>7, <1>8, <1>9

LEMMA LockStep ==
    ASSUME TypeOK, NEW h \in Hedges, EarlyGroup(h), LockGroup(h), HedgeStep(h)
    PROVE  LockGroup(h)'
<1>1. pc[h] \in {"idle", "gather", "cancelling"} => \A d \in Callers : order[h][d] = NoOrder
  BY DEF EarlyGroup
<1>2. ASSUME \/ RejectBeforeOrders(h) \/ SubmitLegs(h) \/ BothLegsFail(h)
             \/ HedgeCompletes(h) \/ HedgeOvertaken(h)
      PROVE  LockGroup(h)'
  BY <1>1, <1>2, NoOrderNoLock
  DEF RejectBeforeOrders, SubmitLegs, BothLegsFail, HedgeCompletes, HedgeOvertaken,
      AdoptFills, GatherDone
<1>3. ASSUME NEW s \in Sides, LegAnswers(h, s) \/ LegFails(h, s) \/ SurvivorOpen(h, s)
      PROVE  LockGroup(h)'
  BY <1>1, <1>3, NoOrderNoLock DEF LegAnswers, LegFails, SurvivorOpen, GatherDone
<1>4. ASSUME NEW s \in Sides, SurvivorDone(h, s) PROVE LockGroup(h)'
  <2>1. [executed[h] EXCEPT ![s] = leg[h][s].filled] \in [Sides -> Nat]
    BY LegType DEF TypeOK
  <2>2. QED
    BY <1>1, <1>4, <2>1, FlattenLocks DEF SurvivorDone, GatherDone
<1>5. ASSUME NEW s \in Sides, SurvivorCancelled(h, s) PROVE LockGroup(h)'
  <2>1. executed[h] \in [Sides -> Nat]
    BY DEF TypeOK
  <2>2. QED
    BY <1>1, <1>5, <2>1, FlattenLocks DEF SurvivorCancelled
<1>6. ASSUME HedgeNeedsRepair(h) PROVE LockGroup(h)'
  <2>1. LegNet(h) \in Int /\ net'[h] = LegNet(h)
    BY <1>6, AdoptFillsType DEF HedgeNeedsRepair, AdoptFills, TypeOK
  <2>2. QED
    BY <1>1, <1>6, <2>1, HandLocks DEF HedgeNeedsRepair, AdoptFills, GatherDone
<1>7. ASSUME NEW c \in Callers, RepairAnswers(h, c) \/ RepairErrors(h, c) PROVE LockGroup(h)'
  <2>1. /\ order[h][c] # NoOrder /\ order' = [order EXCEPT ![h][c] = NoOrder]
        /\ UNCHANGED meddled
    BY <1>7 DEF RepairAnswers, RepairErrors
  <2>2. CASE "refused" \in meddled[h]
    BY <2>1, <2>2 DEF LockGroup
  <2>3. CASE LockHeld(h)
    <3>1. \A d \in Callers \ {c} : order[h][d] = NoOrder
      BY <2>1, <2>3 DEF LockHeld
    <3>2. QED
      BY <2>1, <3>1, NoOrderNoLock DEF TypeOK
  <2>4. QED
    BY <2>2, <2>3 DEF LockGroup
<1>8. ASSUME NEW c \in Operators, OperatorRepairs(h, c) PROVE LockGroup(h)'
  BY <1>8, OperatorLocks
<1>9. ASSUME \/ SaveHedge(h)
             \/ \E c \in Operators : SaveRepair(h, c)
             \/ \E s \in Sides : VenueFills(h, s)
      PROVE  LockGroup(h)'
  BY <1>9 DEF SaveHedge, SaveRepair, VenueFills, groupVars, LockGroup, LockHeld
<1>10. QED
  BY <1>2, <1>3, <1>4, <1>5, <1>6, <1>7, <1>8, <1>9
  DEF HedgeStep, Await, Resume, RepairReturns

\* The state REPAIRING is a lock on the residual, whoever asks for repairs and
\* whatever the loss projection says, until it refuses a request while a corrective
\* order is out.
THEOREM LockIsInvariant == Spec => []Lock
<1>1. Init => Lock
  BY DEF Init, Lock, LockGroup, LockHeld
<1>2. TypeOK /\ Early /\ Lock /\ [Next]_vars => Lock'
  <2> SUFFICES ASSUME TypeOK, Early, Lock, [Next]_vars, NEW g \in Hedges PROVE LockGroup(g)'
    BY DEF Lock
  <2>1. ASSUME SameGroup(g) PROVE LockGroup(g)'
    BY <2>1 DEF SameGroup, Lock, LockGroup, LockHeld
  <2>2. QED
    BY <2>1, LockStep, OneHedgeAtATime, NextIsAHedgeStep, StutterFrame DEF Early, Lock
<1>3. QED
  BY <1>1, <1>2, TypeCorrect, EarlyIsInvariant, PTL DEF Spec

\* No two corrective orders of a group are out together, whoever asked for them,
\* but for a refusal of the loss projection while one was out.
THEOREM OneRepairAtATime == Spec => []OneRepairInFlight
<1>1. Lock => OneRepairInFlight
  BY DEF Lock, LockGroup, LockHeld, OneRepairInFlight
<1>2. QED
  BY <1>1, LockIsInvariant, PTL

-----------------------------------------------------------------------------
(* Corrective fills. *)

Shrinks(h) ==
    \/ 0 <= net'[h] /\ net'[h] <= net[h]
    \/ net[h] <= net'[h] /\ net'[h] <= 0

\* A fill of at most the ordered amount, on the side the order was for.
LEMMA AnswerShrinks ==
    ASSUME TypeOK, NEW h \in Hedges, EarlyGroup(h), LockHeld(h), NetIsTheImbalance,
           NEW c \in Callers, RepairAnswers(h, c)
    PROVE  Shrinks(h)
<1>1. PICK f \in 0 .. order[h][c].amount :
        /\ executed' = [executed EXCEPT ![h] =
                           [executed[h] EXCEPT ![order[h][c].side] = @ + f]]
        /\ net' = [net EXCEPT ![h] = executed'[h]["buy"] - executed'[h]["sell"]]
  BY RepairAnswersCases
<1>2. /\ order[h][c] # NoOrder
      /\ order[h][c] = [side |-> RepairSide(net[h]), amount |-> RepairAmount(net[h])]
  BY RepairAnswersCases DEF LockHeld
<1>3. net[h] = executed[h]["buy"] - executed[h]["sell"]
  BY <1>2 DEF EarlyGroup, NetIsTheImbalance
<1>4. /\ net[h] \in Int
      /\ executed[h]["buy"] \in Nat /\ executed[h]["sell"] \in Nat
      /\ executed[h] \in [Sides -> Nat]
  BY DEF TypeOK, Sides
<1>5. order[h][c].side = RepairSide(net[h]) /\ f \in 0 .. RepairAmount(net[h])
  BY <1>2
<1>6. executed'[h] = [executed[h] EXCEPT ![RepairSide(net[h])] = @ + f]
  BY <1>1, <1>5 DEF TypeOK
<1>7. net'[h] = executed'[h]["buy"] - executed'[h]["sell"]
  BY <1>1 DEF TypeOK
<1>8. CASE net[h] > 0
  <2>1. executed'[h]["sell"] = executed[h]["sell"] + f /\ executed'[h]["buy"] = executed[h]["buy"]
    BY <1>4, <1>6, <1>8 DEF RepairSide, Sides
  <2>2. f \in 0 .. net[h]
    BY <1>5, <1>8 DEF RepairAmount
  <2>3. QED
    BY <1>3, <1>4, <1>7, <1>8, <2>1, <2>2 DEF Shrinks
<1>9. CASE ~(net[h] > 0)
  <2>1. executed'[h]["buy"] = executed[h]["buy"] + f /\ executed'[h]["sell"] = executed[h]["sell"]
    BY <1>4, <1>6, <1>9 DEF RepairSide, Sides
  <2>2. f \in 0 .. -net[h]
    BY <1>5, <1>9 DEF RepairAmount
  <2>3. QED
    BY <1>3, <1>4, <1>7, <1>9, <2>1, <2>2 DEF Shrinks
<1>10. QED
  BY <1>8, <1>9

\* Only an answer, or an error that leaves the books alone, ends a corrective order.
LEMMA OrderEnds ==
    ASSUME TypeOK, NEW h \in Hedges, NEW c \in Callers, HedgeStep(h),
           EarlyGroup(h), LockHeld(h), order[h][c] # NoOrder, order'[h][c] = NoOrder
    PROVE  RepairAnswers(h, c) \/ net'[h] = net[h]
<1>1. pc[h] \notin {"idle", "gather", "cancelling"}
  BY DEF EarlyGroup
<1>2. ASSUME NEW d \in Callers, RepairReturns(h, d)
      PROVE  RepairAnswers(h, c) \/ net'[h] = net[h]
  <2>1. order[h][d] # NoOrder
    BY <1>2 DEF RepairReturns, RepairAnswers, RepairErrors
  <2>2. d = c
    BY <2>1 DEF LockHeld
  <2>3. QED
    BY <1>2, <2>2 DEF RepairReturns, RepairErrors, groupVars
<1>3. ASSUME NEW d \in Operators, OperatorRepairs(h, d) \/ SaveRepair(h, d)
      PROVE  net'[h] = net[h]
  BY <1>3 DEF OperatorRepairs, SaveRepair, groupVars
<1>4. ASSUME SaveHedge(h) \/ (\E s \in Sides : VenueFills(h, s)) PROVE net'[h] = net[h]
  BY <1>4 DEF SaveHedge, VenueFills, groupVars
<1>5. ~RejectBeforeOrders(h) /\ ~SubmitLegs(h) /\ ~Resume(h)
  BY <1>1 DEF RejectBeforeOrders, SubmitLegs, Resume, BothLegsFail, SurvivorDone,
              SurvivorOpen, HedgeCompletes, HedgeNeedsRepair, HedgeOvertaken, AdoptFills,
              GatherDone
<1>6. ASSUME NEW s \in Sides PROVE ~LegAnswers(h, s) /\ ~LegFails(h, s) /\ ~SurvivorCancelled(h, s)
  BY <1>1 DEF LegAnswers, LegFails, SurvivorCancelled
<1>7. QED
  BY <1>2, <1>3, <1>4, <1>5, <1>6 DEF HedgeStep, Await

\* A corrective fill never turns a residual over or makes it larger, unless the
\* loss projection refused a request while an order was out.
THEOREM RepairsOnlyShrink == Spec => RepairsShrinkTheResidual
<1> DEFINE ShrinkStep ==
        \A h \in Hedges : \A c \in Callers :
          order[h][c] # NoOrder /\ order'[h][c] = NoOrder =>
              \/ "refused" \in meddled[h]
              \/ 0 <= net'[h] /\ net'[h] <= net[h]
              \/ net[h] <= net'[h] /\ net'[h] <= 0
<1>1. TypeOK /\ Early /\ Lock /\ NetIsTheImbalance /\ [Next]_vars => ShrinkStep
  <2> SUFFICES ASSUME TypeOK, Early, Lock, NetIsTheImbalance, [Next]_vars,
                      NEW g \in Hedges, NEW c \in Callers,
                      order[g][c] # NoOrder, order'[g][c] = NoOrder,
                      "refused" \notin meddled[g]
               PROVE  Shrinks(g)
    BY DEF Shrinks
  <2>1. EarlyGroup(g) /\ LockHeld(g)
    BY DEF Early, Lock, LockGroup
  <2>2. ~SameGroup(g)
    BY DEF SameGroup
  <2>3. HedgeStep(g)
    BY <2>2, OneHedgeAtATime, NextIsAHedgeStep, StutterFrame
  <2>4. CASE RepairAnswers(g, c)
    BY <2>1, <2>4, AnswerShrinks
  <2>5. CASE net'[g] = net[g]
    BY <2>5 DEF Shrinks, TypeOK
  <2>6. QED
    BY <2>1, <2>3, <2>4, <2>5, OrderEnds
<1>2. RepairsShrinkTheResidual <=> [][ShrinkStep]_vars
  BY DEF RepairsShrinkTheResidual
<1>3. QED
  BY <1>1, <1>2, TypeCorrect, EarlyIsInvariant, LockIsInvariant, NetIsAlwaysTheImbalance, PTL DEF Spec

-----------------------------------------------------------------------------
(* A group that nobody but the coordinator repairs. *)

\* The state follows the coordinator's program counter; a group that ends does so
\* flat, or with its attempts used up, without exception.
AloneGroup(h) ==
    /\ pc[h] \in {"gather", "cancelling"} => state[h] = "SUBMITTING"
    /\ pc[h] \in {"repairing", "rollbackRepairing"} => state[h] = "REPAIRING"
    /\ pc[h] \notin {"repairing", "rollbackRepairing"} => order[h][Coordinator] = NoOrder
    /\ state[h] = "COMPLETED" => Flat(net[h])
    /\ state[h] = "ABORTED" => Flat(net[h]) \/ attempts[h] >= MaxRepairAttempts

Alone == \A h \in Hedges : AloneGroup(h)

LEMMA ZeroIsFlat == Flat(0)
  BY RepairAssumption DEF Flat, RepairAssumption

LEMMA HandAlone ==
    ASSUME TypeOK, NEW h \in Hedges, NEW n \in Int, NEW pnl,
           NEW stage \in {"repairing", "rollbackRepairing"},
           order[h][Coordinator] = NoOrder,
           HandToRepair(h, n, pnl, stage), net'[h] = n
    PROVE  AloneGroup(h)'
<1>1. CASE /\ state' = [state EXCEPT ![h] = "REPAIRING"]
           /\ pc' = [pc EXCEPT ![h] = stage]
  BY <1>1 DEF AloneGroup, TypeOK
<1>2. CASE /\ \E v \in {"COMPLETED", "ABORTED", "FAILED_NEEDS_REPAIR"} :
                    /\ state' = [state EXCEPT ![h] = v]
                    /\ v = "COMPLETED" => n = 0
                    /\ v = "ABORTED" => attempts[h] >= MaxRepairAttempts
           /\ Settle(h, pnl)
           /\ UNCHANGED <<attempts, order>>
  BY <1>2, ZeroIsFlat DEF Settle, AloneGroup, TypeOK
<1>3. QED
  BY <1>1, <1>2, HandCases

LEMMA FlattenAlone ==
    ASSUME TypeOK, NEW h \in Hedges, NEW s \in Sides, NEW fills \in [Sides -> Nat],
           order[h][Coordinator] = NoOrder, state[h] = "SUBMITTING", Flatten(h, s, fills)
    PROVE  AloneGroup(h)'
<1> DEFINE n   == fills["buy"] - fills["sell"]
           pnl == [booked[h] EXCEPT ![s] = @ + BookedFill(leg[h][s])]
<1>1. n \in Int /\ net'[h] = n
  BY DEF Flatten, TypeOK, Sides
<1>2. CanTransition(state[h], "FAILED_NEEDS_REPAIR")
  BY DEF CanTransition, HedgeTransitions, HedgeStates
<1>3. CASE /\ Flat(n)
           /\ state' = [state EXCEPT ![h] = "ABORTED"]
           /\ Settle(h, pnl)
           /\ UNCHANGED <<attempts, order>>
  <2>1. state'[h] = "ABORTED" /\ pc'[h] = "returned" /\ order'[h][Coordinator] = NoOrder
    BY <1>3 DEF Settle, TypeOK
  <2>2. Flat(net'[h])
    BY <1>1, <1>3
  <2>3. QED
    BY <2>1, <2>2 DEF AloneGroup, Flat
<1>4. CASE HandToRepair(h, n, pnl, "rollbackRepairing")
  BY <1>1, <1>4, HandAlone
<1>5. QED
  BY <1>2, <1>3, <1>4 DEF Flatten

LEMMA AnswerAlone ==
    ASSUME TypeOK, Operators = {}, NEW h \in Hedges, AloneGroup(h),
           NEW c \in Callers, RepairAnswers(h, c)
    PROVE  AloneGroup(h)'
<1>1. c = Coordinator
  BY DEF Callers
<1>2. pc[h] \in {"repairing", "rollbackRepairing"} /\ state[h] = "REPAIRING"
  BY <1>1 DEF RepairAnswers, AloneGroup
<1>3. PICK ok \in BOOLEAN :
        /\ ok = CanTransition(state[h], RepairOutcome(net'[h]))
        /\ state' = [state EXCEPT ![h] = IF ok THEN RepairOutcome(net'[h]) ELSE @]
        /\ ResumeCaller(h, c, ok, booked'[h])
  BY RepairAnswersCases
<1>4. ok
  BY <1>2, <1>3 DEF CanTransition, HedgeTransitions, HedgeStates, RepairOutcome
<1>5. state'[h] = RepairOutcome(net'[h])
  BY <1>3, <1>4 DEF TypeOK
<1>6. pc'[h] = "returned"
  <2>1. ResumeCaller(h, c, TRUE, booked'[h])
    BY <1>3, <1>4
  <2>2. c \notin Operators
    OBVIOUS
  <2>3. Settle(h, booked'[h])
    BY <2>1, <2>2 DEF ResumeCaller
  <2>4. QED
    BY <2>3 DEF Settle, TypeOK
<1>7. order'[h][Coordinator] = NoOrder
  <2>1. order' = [order EXCEPT ![h][c] = NoOrder]
    BY DEF RepairAnswers
  <2>2. QED
    BY <1>1, <2>1 DEF TypeOK
<1>8. state'[h] # "ABORTED" /\ (state'[h] = "COMPLETED" => Flat(net'[h]))
  BY <1>5 DEF RepairOutcome
<1>9. Flat(net'[h]) => Flat(net[h])'
  BY DEF Flat
<1>10. QED
  BY <1>6, <1>7, <1>8, <1>9 DEF AloneGroup

LEMMA AloneStep ==
    ASSUME TypeOK, Operators = {}, NEW h \in Hedges, EarlyGroup(h), AloneGroup(h), HedgeStep(h)
    PROVE  AloneGroup(h)'
<1>1. pc[h] \in {"idle", "gather", "cancelling"} => order[h][Coordinator] = NoOrder
  BY DEF EarlyGroup, Callers
<1>2. ASSUME RejectBeforeOrders(h) \/ BothLegsFail(h) PROVE AloneGroup(h)'
  <2>1. net'[h] = 0 /\ order'[h][Coordinator] = NoOrder
    BY <1>1, <1>2 DEF RejectBeforeOrders, BothLegsFail, GatherDone, EarlyGroup
  <2>2. state'[h] = "ABORTED" /\ pc'[h] = "returned"
    BY <1>2 DEF RejectBeforeOrders, BothLegsFail, TypeOK
  <2>3. QED
    BY <2>1, <2>2, ZeroIsFlat DEF AloneGroup
<1>3. ASSUME SubmitLegs(h) PROVE AloneGroup(h)'
  BY <1>1, <1>3 DEF SubmitLegs, AloneGroup, TypeOK
<1>4. ASSUME NEW s \in Sides, LegAnswers(h, s) \/ LegFails(h, s) \/ VenueFills(h, s)
      PROVE  AloneGroup(h)'
  BY <1>4 DEF LegAnswers, LegFails, VenueFills, groupVars, AloneGroup
<1>5. ASSUME NEW s \in Sides, SurvivorOpen(h, s) PROVE AloneGroup(h)'
  BY <1>1, <1>5 DEF SurvivorOpen, GatherDone, AloneGroup, TypeOK
<1>6. ASSUME NEW s \in Sides, SurvivorDone(h, s) PROVE AloneGroup(h)'
  <2>1. [executed[h] EXCEPT ![s] = leg[h][s].filled] \in [Sides -> Nat]
    BY LegType DEF TypeOK
  <2>2. QED
    BY <1>1, <1>6, <2>1, FlattenAlone DEF SurvivorDone, GatherDone, AloneGroup
<1>7. ASSUME NEW s \in Sides, SurvivorCancelled(h, s) PROVE AloneGroup(h)'
  <2>1. executed[h] \in [Sides -> Nat]
    BY DEF TypeOK
  <2>2. QED
    BY <1>1, <1>7, <2>1, FlattenAlone DEF SurvivorCancelled, AloneGroup
<1>8. ASSUME HedgeCompletes(h) PROVE AloneGroup(h)'
  <2>1. Flat(net'[h])
    BY <1>8 DEF HedgeCompletes, AdoptFills, NeedsRepair, TypeOK
  <2>2. state'[h] = "COMPLETED" /\ pc'[h] = "returned" /\ order'[h][Coordinator] = NoOrder
    BY <1>1, <1>8 DEF HedgeCompletes, AdoptFills, GatherDone, Settle, TypeOK
  <2>3. QED
    BY <2>1, <2>2 DEF AloneGroup, Flat
<1>9. ASSUME HedgeNeedsRepair(h) PROVE AloneGroup(h)'
  <2>1. LegNet(h) \in Int /\ net'[h] = LegNet(h)
    BY <1>9, AdoptFillsType DEF HedgeNeedsRepair, AdoptFills, TypeOK
  <2>2. QED
    BY <1>1, <1>9, <2>1, HandAlone DEF HedgeNeedsRepair, AdoptFills, GatherDone
<1>10. ASSUME HedgeOvertaken(h) PROVE AloneGroup(h)'
  BY <1>1, <1>10 DEF HedgeOvertaken, GatherDone, Raise, groupVars, AloneGroup, TypeOK
<1>11. ASSUME NEW c \in Callers, RepairErrors(h, c) PROVE AloneGroup(h)'
  <2>1. c = Coordinator
    BY DEF Callers
  <2>2. pc'[h] \in {"returned", "raised"} /\ order'[h][Coordinator] = NoOrder
    BY <1>11, <2>1 DEF RepairErrors, ResumeCaller, Settle, Raise, TypeOK, Callers
  <2>3. state'[h] = state[h] /\ net'[h] = net[h] /\ attempts'[h] = attempts[h]
    BY <1>11 DEF RepairErrors, groupVars
  <2>4. QED
    BY <2>2, <2>3 DEF AloneGroup
<1>12. ASSUME SaveHedge(h) PROVE AloneGroup(h)'
  BY <1>12 DEF SaveHedge, groupVars, AloneGroup, TypeOK
<1>13. QED
  BY <1>2, <1>3, <1>4, <1>5, <1>6, <1>7, <1>8, <1>9, <1>10, <1>11, <1>12, AnswerAlone
  DEF HedgeStep, Await, Resume, RepairReturns

LEMMA AloneInit == Init => Alone
  BY DEF Init, Alone, AloneGroup, Callers

LEMMA AloneKept == ASSUME Operators = {} PROVE TypeOK /\ Early /\ Alone /\ [Next]_vars => Alone'
<1> SUFFICES ASSUME TypeOK, Early, Alone, [Next]_vars, NEW g \in Hedges PROVE AloneGroup(g)'
  BY DEF Alone
<1>1. ASSUME SameGroup(g) PROVE AloneGroup(g)'
  BY <1>1 DEF SameGroup, Alone, AloneGroup
<1>2. QED
  BY <1>1, AloneStep, OneHedgeAtATime, NextIsAHedgeStep, StutterFrame DEF Early, Alone

-----------------------------------------------------------------------------
(* A group that was given up. *)

\* A group is ABORTED with its attempts used up, or flat and with no corrective
\* order out; while its legs are out an operator can at most have COMPLETED it.
AbortedGroup(h) ==
    /\ pc[h] = "idle" => state[h] = "UNREGISTERED"
    /\ pc[h] \in {"gather", "cancelling"} => state[h] \in {"SUBMITTING", "COMPLETED"}
    /\ state[h] = "ABORTED" =>
          \/ attempts[h] >= MaxRepairAttempts
          \/ Flat(net[h]) /\ \A c \in Callers : order[h][c] = NoOrder

Aborted == \A h \in Hedges : AbortedGroup(h)

LEMMA HandAborts ==
    ASSUME TypeOK, NEW h \in Hedges, NEW n \in Int, NEW pnl,
           NEW stage \in {"repairing", "rollbackRepairing"}, HandToRepair(h, n, pnl, stage)
    PROVE  AbortedGroup(h)'
<1>1. pc'[h] \in LateStages
  BY HandIsLate
<1>2. CASE state' = [state EXCEPT ![h] = "REPAIRING"]
  BY <1>1, <1>2 DEF AbortedGroup, TypeOK, LateStages
<1>3. CASE /\ \E v \in {"COMPLETED", "ABORTED", "FAILED_NEEDS_REPAIR"} :
                    /\ state' = [state EXCEPT ![h] = v]
                    /\ v = "ABORTED" => attempts[h] >= MaxRepairAttempts
           /\ UNCHANGED <<attempts, order>>
  BY <1>1, <1>3 DEF AbortedGroup, TypeOK, LateStages
<1>4. QED
  BY <1>2, <1>3, HandCases

LEMMA FlattenAborts ==
    ASSUME TypeOK, NEW h \in Hedges, NEW s \in Sides, NEW fills \in [Sides -> Nat],
           \A c \in Callers : order[h][c] = NoOrder, state[h] # "ABORTED",
           Flatten(h, s, fills)
    PROVE  AbortedGroup(h)'
<1> DEFINE n   == fills["buy"] - fills["sell"]
           pnl == [booked[h] EXCEPT ![s] = @ + BookedFill(leg[h][s])]
<1>1. n \in Int /\ net'[h] = n
  BY DEF Flatten, TypeOK, Sides
<1>2. pc'[h] \in LateStages
  BY FlattenIsLate
<1>3. CASE Flat(n) /\ UNCHANGED <<attempts, order>>
  <2>1. Flat(net'[h]) /\ UNCHANGED order
    BY <1>1, <1>3
  <2>2. QED
    BY <1>2, <2>1 DEF AbortedGroup, LateStages, Flat
<1>4. CASE UNCHANGED <<state, attempts, order>>
  BY <1>2, <1>4 DEF AbortedGroup, LateStages
<1>5. CASE HandToRepair(h, n, pnl, "rollbackRepairing")
  BY <1>1, <1>5, HandAborts
<1>6. QED
  BY <1>3, <1>4, <1>5, FlattenCases

LEMMA OperatorAborts ==
    ASSUME TypeOK, NEW h \in Hedges, EarlyGroup(h), AbortedGroup(h),
           NEW c \in Operators, OperatorRepairs(h, c)
    PROVE  /\ AbortedGroup(h)'
           /\ state[h] = "ABORTED" /\ ~Flat(net[h]) => state'[h] = "ABORTED"
<1>1. PICK v \in RepairVerdicts(net[h], attempts[h]) :
        /\ v = "REPAIRING" => CanTransition(state[h], v)
        /\ state' = [state EXCEPT ![h] = v]
        /\ IF v = "REPAIRING"
           THEN SubmitRepair(h, c, net[h]) /\ UNCHANGED saving
           ELSE UNCHANGED <<attempts, order>>
  BY DEF OperatorRepairs
<1>2. net[h] \in Int /\ attempts[h] \in Nat
  BY DEF TypeOK
<1>3. /\ v \in {"COMPLETED", "ABORTED", "REPAIRING", "FAILED_NEEDS_REPAIR"}
      /\ v = "COMPLETED" => net[h] = 0
      /\ v = "ABORTED" => attempts[h] >= MaxRepairAttempts
      /\ net[h] = 0 => v = "COMPLETED"
      /\ net[h] # 0 /\ attempts[h] >= MaxRepairAttempts => v = "ABORTED"
  <2>1. net[h] = 0 => v = "COMPLETED"
    BY <1>1 DEF RepairVerdicts
  <2>2. net[h] # 0 /\ attempts[h] >= MaxRepairAttempts => v = "ABORTED"
    BY <1>1 DEF RepairVerdicts
  <2>3. QED
    BY <1>2, <2>1, <2>2, VerdictFacts
<1>4. /\ state'[h] = v /\ UNCHANGED <<pc, net>> /\ state[h] # "UNREGISTERED"
      /\ v = "ABORTED" => UNCHANGED <<attempts, order>>
  BY <1>1 DEF OperatorRepairs, TypeOK
<1>5. AbortedGroup(h)'
  BY <1>3, <1>4 DEF AbortedGroup, EarlyGroup
<1>6. ASSUME state[h] = "ABORTED", ~Flat(net[h]) PROVE state'[h] = "ABORTED"
  <2>1. attempts[h] >= MaxRepairAttempts /\ net[h] # 0
    BY <1>6, ZeroIsFlat DEF AbortedGroup
  <2>2. QED
    BY <1>3, <1>4, <2>1
<1>7. QED
  BY <1>5, <1>6

LEMMA AnswerAborts ==
    ASSUME TypeOK, NEW h \in Hedges, EarlyGroup(h), AbortedGroup(h),
           NEW c \in Callers, RepairAnswers(h, c)
    PROVE  /\ AbortedGroup(h)'
           /\ state[h] = "ABORTED" => state'[h] = "ABORTED"
<1>1. PICK ok \in BOOLEAN :
        /\ ok = CanTransition(state[h], RepairOutcome(net'[h]))
        /\ state' = [state EXCEPT ![h] = IF ok THEN RepairOutcome(net'[h]) ELSE @]
        /\ ResumeCaller(h, c, ok, booked'[h])
  BY RepairAnswersCases
<1>2. order[h][c] # NoOrder /\ UNCHANGED attempts
  BY RepairAnswersCases
<1>3. pc[h] \notin {"idle", "gather", "cancelling"}
  BY <1>2 DEF EarlyGroup
<1>4. pc'[h] \notin {"idle", "gather", "cancelling"}
  BY <1>1, <1>3 DEF ResumeCaller, Settle, Raise, TypeOK
<1>5. ASSUME state[h] = "ABORTED" PROVE state'[h] = "ABORTED" /\ attempts[h] >= MaxRepairAttempts
  <2>1. ~ok
    BY <1>1, <1>5 DEF CanTransition, HedgeTransitions, HedgeStates
  <2>2. QED
    BY <1>1, <1>2, <1>5, <2>1 DEF AbortedGroup, TypeOK
<1>6. state[h] # "ABORTED" => state'[h] # "ABORTED"
  BY <1>1 DEF RepairOutcome, TypeOK
<1>7. QED
  BY <1>2, <1>4, <1>5, <1>6 DEF AbortedGroup

LEMMA AbortedStep ==
    ASSUME TypeOK, NEW h \in Hedges, EarlyGroup(h), AbortedGroup(h), HedgeStep(h)
    PROVE  /\ AbortedGroup(h)'
           /\ state[h] = "ABORTED" /\ ~Flat(net[h]) => state'[h] = "ABORTED"
<1>1. pc[h] \in {"idle", "gather", "cancelling"} =>
        /\ state[h] # "ABORTED"
        /\ \A c \in Callers : order[h][c] = NoOrder
        /\ net[h] = 0
  BY DEF AbortedGroup, EarlyGroup
<1>2. ASSUME RejectBeforeOrders(h) \/ BothLegsFail(h)
      PROVE  AbortedGroup(h)' /\ state[h] # "ABORTED"
  <2>1. UNCHANGED <<net, order>> /\ pc'[h] = "returned" /\ pc[h] \in {"idle", "gather"}
    BY <1>2 DEF RejectBeforeOrders, BothLegsFail, GatherDone, TypeOK
  <2>2. Flat(net'[h]) /\ \A c \in Callers : order'[h][c] = NoOrder
    BY <1>1, <2>1, ZeroIsFlat
  <2>3. QED
    BY <1>1, <2>1, <2>2 DEF AbortedGroup, Flat
<1>3. ASSUME SubmitLegs(h) PROVE AbortedGroup(h)' /\ state[h] # "ABORTED"
  BY <1>1, <1>3 DEF SubmitLegs, AbortedGroup, TypeOK
<1>4. ASSUME NEW s \in Sides,
             LegAnswers(h, s) \/ LegFails(h, s) \/ SurvivorOpen(h, s) \/ VenueFills(h, s)
      PROVE  AbortedGroup(h)' /\ UNCHANGED state
  BY <1>4 DEF LegAnswers, LegFails, SurvivorOpen, GatherDone, VenueFills, groupVars,
              AbortedGroup, TypeOK
<1>5. ASSUME NEW s \in Sides, SurvivorDone(h, s) PROVE AbortedGroup(h)' /\ state[h] # "ABORTED"
  <2>1. [executed[h] EXCEPT ![s] = leg[h][s].filled] \in [Sides -> Nat]
    BY LegType DEF TypeOK
  <2>2. QED
    BY <1>1, <1>5, <2>1, FlattenAborts DEF SurvivorDone, GatherDone
<1>6. ASSUME NEW s \in Sides, SurvivorCancelled(h, s)
      PROVE  AbortedGroup(h)' /\ state[h] # "ABORTED"
  <2>1. executed[h] \in [Sides -> Nat]
    BY DEF TypeOK
  <2>2. QED
    BY <1>1, <1>6, <2>1, FlattenAborts DEF SurvivorCancelled
<1>7. ASSUME HedgeCompletes(h) PROVE AbortedGroup(h)' /\ state[h] # "ABORTED"
  BY <1>1, <1>7 DEF HedgeCompletes, AdoptFills, GatherDone, Settle, AbortedGroup, TypeOK
<1>8. ASSUME HedgeNeedsRepair(h) PROVE AbortedGroup(h)' /\ state[h] # "ABORTED"
  <2>1. LegNet(h) \in Int
    BY <1>8, AdoptFillsType DEF HedgeNeedsRepair
  <2>2. QED
    BY <1>1, <1>8, <2>1, HandAborts DEF HedgeNeedsRepair, AdoptFills, GatherDone
<1>9. ASSUME HedgeOvertaken(h) PROVE AbortedGroup(h)' /\ UNCHANGED state
  BY <1>9 DEF HedgeOvertaken, Raise, groupVars, AbortedGroup, TypeOK
<1>10. ASSUME NEW c \in Callers, RepairErrors(h, c) PROVE AbortedGroup(h)' /\ UNCHANGED state
  <2>1. ResumeCaller(h, c, FALSE, booked[h]) /\ order[h][c] # NoOrder /\ UNCHANGED groupVars
    BY <1>10 DEF RepairErrors
  <2>2. pc[h] \notin {"idle", "gather", "cancelling"}
    BY <2>1 DEF EarlyGroup
  <2>3. pc'[h] \notin {"idle", "gather", "cancelling"}
    BY <2>1, <2>2 DEF ResumeCaller, Settle, Raise, TypeOK
  <2>4. state[h] = "ABORTED" => attempts[h] >= MaxRepairAttempts
    BY <2>1 DEF AbortedGroup
  <2>5. QED
    BY <2>1, <2>3, <2>4 DEF groupVars, AbortedGroup
<1>11. ASSUME SaveHedge(h) \/ (\E c \in Operators : SaveRepair(h, c))
       PROVE  AbortedGroup(h)' /\ UNCHANGED state
  BY <1>11 DEF SaveHedge, SaveRepair, groupVars, AbortedGroup, TypeOK
<1>12. QED
  BY <1>2, <1>3, <1>4, <1>5, <1>6, <1>7, <1>8, <1>9, <1>10, <1>11, OperatorAborts, AnswerAborts
  DEF HedgeStep, Await, Resume, RepairReturns

LEMMA AbortedInit == Init => Aborted
  BY DEF Init, Aborted, AbortedGroup

LEMMA AbortedKept ==
    TypeOK /\ Early /\ Aborted /\ [Next]_vars =>
        /\ Aborted'
        /\ \A h \in Hedges : state[h] = "ABORTED" /\ ~Flat(net[h]) => state'[h] = "ABORTED"
<1> SUFFICES ASSUME TypeOK, Early, Aborted, [Next]_vars, NEW g \in Hedges
             PROVE  /\ AbortedGroup(g)'
                    /\ state[g] = "ABORTED" /\ ~Flat(net[g]) => state'[g] = "ABORTED"
  BY DEF Aborted
<1>1. ASSUME SameGroup(g) PROVE AbortedGroup(g)' /\ state'[g] = state[g]
  BY <1>1 DEF SameGroup, Aborted, AbortedGroup
<1>2. QED
  BY <1>1, AbortedStep, OneHedgeAtATime, NextIsAHedgeStep, StutterFrame DEF Early, Aborted

\* A group ABORTED with a position left is not revived by any operator request,
\* whatever the loss projection says.
THEOREM ExhaustedGroupsStayAborted == Spec => ExhaustedStaysAborted
<1> DEFINE StayStep == \A h \in Hedges :
                          state[h] = "ABORTED" /\ ~Flat(net[h]) => state'[h] = "ABORTED"
<1>1. TypeOK /\ Early /\ Aborted /\ [Next]_vars => Aborted' /\ StayStep
  BY AbortedKept
<1>2. ExhaustedStaysAborted <=> [][StayStep]_vars
  BY DEF ExhaustedStaysAborted
<1>3. QED
  BY <1>1, <1>2, AbortedInit, TypeCorrect, EarlyIsInvariant, PTL DEF Spec

-----------------------------------------------------------------------------
(* A group that says it is COMPLETED. *)

\* While its legs or its survivor's cancel are out only a request can complete a
\* group; one that nobody meddled with is flat, and no order of it is out, which
\* could still move the position of a group that no longer changes its state.
DoneGroup(h) ==
    state[h] = "COMPLETED" =>
        /\ pc[h] \in {"gather", "cancelling"} => "early" \in meddled[h]
        /\ meddled[h] = {} => Flat(net[h]) /\ \A c \in Callers : order[h][c] = NoOrder

Done == \A h \in Hedges : DoneGroup(h)

LEMMA NotCompletedIsDone == ASSUME NEW h \in Hedges, state'[h] # "COMPLETED" PROVE DoneGroup(h)'
  BY DEF DoneGroup

LEMMA HandIsDone ==
    ASSUME TypeOK, NEW h \in Hedges, NEW n \in Int, NEW pnl,
           NEW stage \in {"repairing", "rollbackRepairing"},
           \A c \in Callers : order[h][c] = NoOrder,
           HandToRepair(h, n, pnl, stage), net'[h] = n
    PROVE  DoneGroup(h)'
<1>1. pc'[h] \notin {"gather", "cancelling"}
  BY HandIsLate DEF LateStages
<1>2. CASE state' = [state EXCEPT ![h] = "REPAIRING"]
  BY <1>2, NotCompletedIsDone DEF TypeOK
<1>3. CASE /\ \E v \in {"COMPLETED", "ABORTED", "FAILED_NEEDS_REPAIR"} :
                    /\ state' = [state EXCEPT ![h] = v]
                    /\ v = "COMPLETED" => n = 0
           /\ UNCHANGED <<attempts, order>>
  <2>1. state'[h] = "COMPLETED" => net'[h] = 0
    BY <1>3 DEF TypeOK
  <2>2. \A c \in Callers : order'[h][c] = NoOrder
    BY <1>3
  <2>3. QED
    BY <1>1, <2>1, <2>2, ZeroIsFlat DEF DoneGroup, Flat
<1>4. QED
  BY <1>2, <1>3, HandCases

\* The rollback either moves the group on, or leaves the state a request put it in.
LEMMA FlattenIsDone ==
    ASSUME TypeOK, NEW h \in Hedges, DoneGroup(h), pc[h] \in {"gather", "cancelling"},
           \A c \in Callers : order[h][c] = NoOrder,
           NEW s \in Sides, NEW fills \in [Sides -> Nat], Flatten(h, s, fills), UNCHANGED meddled
    PROVE  DoneGroup(h)'
<1> DEFINE n   == fills["buy"] - fills["sell"]
           pnl == [booked[h] EXCEPT ![s] = @ + BookedFill(leg[h][s])]
<1>1. n \in Int /\ net'[h] = n
  BY DEF Flatten, TypeOK, Sides
<1>2. pc'[h] \notin {"gather", "cancelling"}
  BY FlattenIsLate DEF LateStages
<1>3. CASE state' = [state EXCEPT ![h] = "ABORTED"]
  BY <1>3, NotCompletedIsDone DEF TypeOK
<1>4. CASE UNCHANGED <<state, attempts, order>>
  BY <1>2, <1>4 DEF DoneGroup
<1>5. CASE HandToRepair(h, n, pnl, "rollbackRepairing")
  BY <1>1, <1>5, HandIsDone
<1>6. QED
  BY <1>3, <1>4, <1>5, FlattenCases

\* The one order that is out when a group nobody meddled with is completed by an
\* answer is the one that was answered.
LEMMA AnswerIsDone ==
    ASSUME TypeOK, NEW h \in Hedges, EarlyGroup(h), LockGroup(h), DoneGroup(h),
           NEW c \in Callers, RepairAnswers(h, c)
    PROVE  DoneGroup(h)'
<1> SUFFICES ASSUME state'[h] = "COMPLETED" PROVE DoneGroup(h)'
  BY DEF DoneGroup
<1>1. PICK ok \in BOOLEAN :
        /\ state' = [state EXCEPT ![h] = IF ok THEN RepairOutcome(net'[h]) ELSE @]
        /\ ResumeCaller(h, c, ok, booked'[h])
  BY RepairAnswersCases
<1>2. /\ order[h][c] # NoOrder
      /\ order' = [order EXCEPT ![h][c] = NoOrder] /\ UNCHANGED meddled
  BY DEF RepairAnswers
<1>3. pc[h] \notin {"gather", "cancelling"}
  BY <1>2 DEF EarlyGroup
<1>4. pc'[h] \notin {"gather", "cancelling"}
  BY <1>1, <1>3 DEF ResumeCaller, Settle, Raise, TypeOK
<1>5. ASSUME meddled[h] = {}
      PROVE  Flat(net'[h]) /\ \A d \in Callers : order'[h][d] = NoOrder
  <2>1. LockHeld(h)
    BY <1>5 DEF LockGroup
  <2>2. \A d \in Callers : order'[h][d] = NoOrder
    BY <1>2, <2>1 DEF LockHeld, TypeOK
  <2>3. ok
    BY <1>1, <1>2, <2>1 DEF LockHeld, TypeOK
  <2>4. RepairOutcome(net'[h]) = "COMPLETED"
    BY <1>1, <2>3 DEF TypeOK
  <2>5. QED
    BY <2>2, <2>4 DEF RepairOutcome
<1>6. QED
  BY <1>2, <1>4, <1>5 DEF DoneGroup, Flat

\* A request completes a group that has no position: before its fills are known,
\* or when it is flat and, unless a refusal let it through, has no order out.
LEMMA OperatorIsDone ==
    ASSUME TypeOK, NEW h \in Hedges, LockGroup(h),
           NEW c \in Operators, OperatorRepairs(h, c)
    PROVE  DoneGroup(h)'
<1> SUFFICES ASSUME state'[h] = "COMPLETED" PROVE DoneGroup(h)'
  BY DEF DoneGroup
<1>1. PICK v \in RepairVerdicts(net[h], attempts[h]) :
        /\ state' = [state EXCEPT ![h] = v]
        /\ v # "REPAIRING" => UNCHANGED <<attempts, order>>
        /\ meddled' = [meddled EXCEPT ![h] = @ \union Meddling(h, v)]
  BY DEF OperatorRepairs
<1>2. v = "COMPLETED" /\ UNCHANGED <<order, net, pc>>
  BY <1>1 DEF OperatorRepairs, TypeOK
<1>3. net[h] = 0
  BY <1>2, VerdictFacts DEF TypeOK
<1>4. meddled'[h] = meddled[h] \union Meddling(h, v)
  BY <1>1 DEF TypeOK
<1>5. pc'[h] \in {"gather", "cancelling"} => "early" \in meddled'[h]
  BY <1>2, <1>4 DEF Meddling
<1>6. ASSUME meddled'[h] = {} PROVE Flat(net'[h]) /\ \A d \in Callers : order'[h][d] = NoOrder
  <2>1. LockHeld(h)
    BY <1>4, <1>6 DEF LockGroup
  <2>2. QED
    BY <1>2, <1>3, <2>1, ZeroIsFlat DEF LockHeld
<1>7. QED
  BY <1>5, <1>6 DEF DoneGroup, Flat

LEMMA DoneStep ==
    ASSUME TypeOK, NEW h \in Hedges, EarlyGroup(h), LockGroup(h), AbortedGroup(h),
           DoneGroup(h), HedgeStep(h)
    PROVE  DoneGroup(h)'
<1>1. pc[h] \in {"idle", "gather", "cancelling"} => \A c \in Callers : order[h][c] = NoOrder
  BY DEF EarlyGroup
<1>2. ASSUME RejectBeforeOrders(h) \/ SubmitLegs(h) \/ BothLegsFail(h) PROVE DoneGroup(h)'
  BY <1>2, NotCompletedIsDone DEF RejectBeforeOrders, SubmitLegs, BothLegsFail, TypeOK
<1>3. ASSUME NEW s \in Sides,
             LegAnswers(h, s) \/ LegFails(h, s) \/ SurvivorOpen(h, s) \/ VenueFills(h, s)
      PROVE  DoneGroup(h)'
  BY <1>3 DEF LegAnswers, LegFails, SurvivorOpen, GatherDone, VenueFills, groupVars, DoneGroup,
              TypeOK
<1>4. ASSUME NEW s \in Sides, SurvivorDone(h, s) PROVE DoneGroup(h)'
  <2>1. [executed[h] EXCEPT ![s] = leg[h][s].filled] \in [Sides -> Nat]
    BY LegType DEF TypeOK
  <2>2. QED
    BY <1>1, <1>4, <2>1, FlattenIsDone DEF SurvivorDone, GatherDone
<1>5. ASSUME NEW s \in Sides, SurvivorCancelled(h, s) PROVE DoneGroup(h)'
  <2>1. executed[h] \in [Sides -> Nat]
    BY DEF TypeOK
  <2>2. QED
    BY <1>1, <1>5, <2>1, FlattenIsDone DEF SurvivorCancelled
<1>6. ASSUME HedgeCompletes(h) PROVE DoneGroup(h)'
  <2>1. Flat(net'[h]) /\ UNCHANGED order
    BY <1>6 DEF HedgeCompletes, AdoptFills, NeedsRepair, TypeOK
  <2>2. pc[h] = "gather" /\ pc'[h] = "returned"
    BY <1>6 DEF HedgeCompletes, AdoptFills, GatherDone, Settle, TypeOK
  <2>3. QED
    BY <1>1, <2>1, <2>2 DEF DoneGroup, Flat
<1>7. ASSUME HedgeNeedsRepair(h) PROVE DoneGroup(h)'
  <2>1. LegNet(h) \in Int /\ net'[h] = LegNet(h)
    BY <1>7, AdoptFillsType DEF HedgeNeedsRepair, AdoptFills, TypeOK
  <2>2. QED
    BY <1>1, <1>7, <2>1, HandIsDone DEF HedgeNeedsRepair, AdoptFills, GatherDone
<1>8. ASSUME HedgeOvertaken(h) PROVE DoneGroup(h)'
  <2>1. pc'[h] = "raised" /\ UNCHANGED <<state, net, order, meddled>>
    BY <1>8 DEF HedgeOvertaken, Raise, groupVars, TypeOK
  <2>2. QED
    BY <2>1 DEF DoneGroup
<1>9. ASSUME NEW c \in Callers, RepairErrors(h, c) PROVE DoneGroup(h)'
  <2>1. /\ ResumeCaller(h, c, FALSE, booked[h]) /\ order[h][c] # NoOrder
        /\ UNCHANGED <<state, net, meddled>> /\ order' = [order EXCEPT ![h][c] = NoOrder]
    BY <1>9 DEF RepairErrors, groupVars
  <2>2. pc[h] \notin {"idle", "gather", "cancelling"}
    BY <2>1 DEF EarlyGroup
  <2>3. pc'[h] \notin {"gather", "cancelling"}
    BY <2>1, <2>2 DEF ResumeCaller, Settle, Raise, TypeOK
  <2>4. \A d \in Callers : order[h][d] = NoOrder => order'[h][d] = NoOrder
    BY <2>1 DEF TypeOK
  <2>5. QED
    BY <2>1, <2>3, <2>4 DEF DoneGroup
<1>10. ASSUME SaveHedge(h) \/ (\E c \in Operators : SaveRepair(h, c)) PROVE DoneGroup(h)'
  BY <1>10 DEF SaveHedge, SaveRepair, groupVars, DoneGroup, TypeOK
<1>11. QED
  BY <1>2, <1>3, <1>4, <1>5, <1>6, <1>7, <1>8, <1>9, <1>10, AnswerIsDone, OperatorIsDone
  DEF HedgeStep, Await, Resume, RepairReturns

\* What holds of the corrective orders of all groups and of the states they end in.
RepairInv == Lock /\ Aborted /\ Done

LEMMA RepairInit == Init => RepairInv
  BY AbortedInit DEF Init, RepairInv, Lock, LockGroup, LockHeld, Done, DoneGroup

LEMMA RepairKept == TypeOK /\ Early /\ RepairInv /\ [Next]_vars => RepairInv'
<1> SUFFICES ASSUME TypeOK, Early, RepairInv, [Next]_vars, NEW g \in Hedges
             PROVE  LockGroup(g)' /\ DoneGroup(g)'
  BY AbortedKept DEF RepairInv, Lock, Done
<1>1. ASSUME SameGroup(g) PROVE LockGroup(g)' /\ DoneGroup(g)'
  BY <1>1 DEF SameGroup, RepairInv, Lock, LockGroup, LockHeld, Done, DoneGroup
<1>2. ASSUME HedgeStep(g) PROVE LockGroup(g)' /\ DoneGroup(g)'
  BY <1>2, LockStep, DoneStep DEF Early, RepairInv, Lock, Aborted, Done
<1>3. QED
  BY <1>1, <1>2, OneHedgeAtATime, NextIsAHedgeStep, StutterFrame

LEMMA RepairInvEndsFlat == RepairInv => EndsFlatOrExhausted
  BY DEF RepairInv, Aborted, AbortedGroup, Done, DoneGroup, EndsFlatOrExhausted

\* Whoever presses Repair, a group that ends ABORTED is flat or has used up its
\* repairs, and one that ends COMPLETED is flat, but for a request before its fills
\* were known or a refusal while an order was out.
THEOREM GroupsEndFlatOrExhausted == Spec => []EndsFlatOrExhausted
  BY RepairInit, RepairKept, RepairInvEndsFlat, TypeCorrect, EarlyIsInvariant, PTL DEF Spec

-----------------------------------------------------------------------------
(* What the breaker is told when nobody but the coordinator repairs. *)

\* The breaker hears of both legs when gather ends, and of the PnL when execute()
\* returns, which until then it has not been told anything of.
HeardGroup(h) ==
    /\ pc[h] = "idle" => leg[h] = BothSides(Pending)
    /\ pc[h] \in {"idle", "gather"} => reported[h] = BothSides(0)
    /\ pc[h] \in {"cancelling", "repairing", "rollbackRepairing"} =>
          \A s \in Sides : /\ leg[h][s] # Pending
                           /\ heard[h][s] = IF Answered(leg[h][s]) THEN "ok" ELSE "failed"
    /\ pc[h] \in {"returned", "saved"} /\ (\A s \in Sides : leg[h][s] # Pending) =>
          /\ \A s \in Sides : heard[h][s] = IF Answered(leg[h][s]) THEN "ok" ELSE "failed"
          /\ reported[h] = booked[h]

Heard == \A h \in Hedges : HeardGroup(h)

\* The legs have been told of and the group is settled with the PnL it has booked.
LEMMA SettleIsHeard ==
    ASSUME TypeOK, NEW h \in Hedges, NEW pnl, Settle(h, pnl), booked'[h] = pnl,
           \A s \in Sides : heard'[h][s] = IF Answered(leg[h][s]) THEN "ok" ELSE "failed",
           UNCHANGED leg
    PROVE  HeardGroup(h)'
<1>1. pc'[h] = "returned" /\ reported'[h] = booked'[h]
  BY DEF Settle, TypeOK
<1>2. QED
  BY <1>1 DEF HeardGroup, Answered

LEMMA HandIsHeard ==
    ASSUME TypeOK, NEW h \in Hedges, NEW n \in Int, NEW pnl,
           NEW stage \in {"repairing", "rollbackRepairing"},
           HandToRepair(h, n, pnl, stage), booked'[h] = pnl,
           \A s \in Sides : /\ leg[h][s] # Pending
                            /\ heard'[h][s] = IF Answered(leg[h][s]) THEN "ok" ELSE "failed",
           UNCHANGED leg
    PROVE  HeardGroup(h)'
<1>1. CASE pc' = [pc EXCEPT ![h] = stage]
  <2>1. pc'[h] \in {"repairing", "rollbackRepairing"}
    BY <1>1 DEF TypeOK
  <2>2. QED
    BY <2>1 DEF HeardGroup, Answered
<1>2. CASE Settle(h, pnl)
  BY <1>2, SettleIsHeard
<1>3. QED
  BY <1>1, <1>2, HandCases

LEMMA FlattenIsHeard ==
    ASSUME TypeOK, NEW h \in Hedges, NEW s \in Sides, NEW fills \in [Sides -> Nat],
           Flatten(h, s, fills),
           \A t \in Sides : /\ leg[h][t] # Pending
                            /\ heard'[h][t] = IF Answered(leg[h][t]) THEN "ok" ELSE "failed",
           UNCHANGED leg
    PROVE  HeardGroup(h)'
<1> DEFINE n   == fills["buy"] - fills["sell"]
           pnl == [booked[h] EXCEPT ![s] = @ + BookedFill(leg[h][s])]
<1>1. n \in Int /\ booked'[h] = pnl
  BY DEF Flatten, TypeOK, Sides
<1>2. CASE Settle(h, pnl)
  BY <1>1, <1>2, SettleIsHeard
<1>3. CASE Raise(h)
  <2>1. pc'[h] = "raised"
    BY <1>3 DEF Raise, TypeOK
  <2>2. QED
    BY <2>1 DEF HeardGroup
<1>4. CASE HandToRepair(h, n, pnl, "rollbackRepairing")
  BY <1>1, <1>4, HandIsHeard
<1>5. QED
  BY <1>2, <1>3, <1>4, FlattenCases

\* After gather: every leg is answered or failed, and the breaker hears which.
LEMMA GatherIsHeard ==
    ASSUME TypeOK, NEW h \in Hedges, GatherDone(h), HearLegs(h)
    PROVE  \A s \in Sides : /\ leg[h][s] # Pending
                            /\ heard'[h][s] = IF Answered(leg[h][s]) THEN "ok" ELSE "failed"
  BY DEF GatherDone, HearLegs, TypeOK

LEMMA HeardStep ==
    ASSUME TypeOK, Operators = {}, NEW h \in Hedges, EarlyGroup(h), AloneGroup(h),
           HeardGroup(h), HedgeStep(h)
    PROVE  HeardGroup(h)'
<1>1. ASSUME RejectBeforeOrders(h) PROVE HeardGroup(h)'
  <2>1. pc'[h] = "returned" /\ leg'[h] = BothSides(Pending)
    BY <1>1 DEF RejectBeforeOrders, HeardGroup, TypeOK
  <2>2. \A s \in Sides : leg'[h][s] = Pending
    BY <2>1 DEF BothSides
  <2>3. QED
    BY <2>1, <2>2 DEF HeardGroup, Sides, Pending
<1>2. ASSUME SubmitLegs(h) PROVE HeardGroup(h)'
  BY <1>2 DEF SubmitLegs, breakerVars, HeardGroup, TypeOK
<1>3. ASSUME NEW s \in Sides, LegAnswers(h, s) \/ LegFails(h, s) PROVE HeardGroup(h)'
  <2>1. pc'[h] = "gather" /\ reported'[h] = reported[h] /\ pc[h] = "gather"
    BY <1>3 DEF LegAnswers, LegFails, breakerVars
  <2>2. QED
    BY <2>1 DEF HeardGroup
<1>4. ASSUME BothLegsFail(h) PROVE HeardGroup(h)'
  <2>1. /\ pc[h] = "gather" /\ pc'[h] = "returned"
        /\ UNCHANGED <<reported, booked, leg>>
    BY <1>4 DEF BothLegsFail, GatherDone, TypeOK
  <2>2. reported'[h] = booked'[h]
    BY <2>1 DEF HeardGroup, EarlyGroup
  <2>3. \A s \in Sides : heard'[h][s] = IF Answered(leg[h][s]) THEN "ok" ELSE "failed"
    BY <1>4, GatherIsHeard DEF BothLegsFail
  <2>4. QED
    BY <2>1, <2>2, <2>3 DEF HeardGroup, Answered
<1>5. ASSUME NEW s \in Sides, SurvivorDone(h, s) PROVE HeardGroup(h)'
  <2>1. [executed[h] EXCEPT ![s] = leg[h][s].filled] \in [Sides -> Nat]
    BY LegType DEF TypeOK
  <2>2. QED
    BY <1>5, <2>1, GatherIsHeard, FlattenIsHeard DEF SurvivorDone
<1>6. ASSUME NEW s \in Sides, SurvivorOpen(h, s) PROVE HeardGroup(h)'
  <2>1. pc'[h] = "cancelling" /\ UNCHANGED leg
    BY <1>6 DEF SurvivorOpen, TypeOK
  <2>2. \A t \in Sides : /\ leg[h][t] # Pending
                         /\ heard'[h][t] = IF Answered(leg[h][t]) THEN "ok" ELSE "failed"
    BY <1>6, GatherIsHeard DEF SurvivorOpen
  <2>3. QED
    BY <2>1, <2>2 DEF HeardGroup, Answered
<1>7. ASSUME NEW s \in Sides, SurvivorCancelled(h, s) PROVE HeardGroup(h)'
  <2>1. executed[h] \in [Sides -> Nat]
    BY DEF TypeOK
  <2>2. \A t \in Sides : /\ leg[h][t] # Pending
                         /\ heard'[h][t] = IF Answered(leg[h][t]) THEN "ok" ELSE "failed"
    BY <1>7 DEF SurvivorCancelled, HeardGroup
  <2>3. QED
    BY <1>7, <2>1, <2>2, FlattenIsHeard DEF SurvivorCancelled
<1>8. ASSUME AdoptFills(h)
      PROVE  /\ booked'[h] = LegPnl(h)
             /\ \A s \in Sides : /\ leg[h][s] # Pending
                                 /\ heard'[h][s] = IF Answered(leg[h][s]) THEN "ok" ELSE "failed"
  BY <1>8, GatherIsHeard DEF AdoptFills, TypeOK
<1>9. ASSUME HedgeCompletes(h) PROVE HeardGroup(h)'
  BY <1>8, <1>9, SettleIsHeard DEF HedgeCompletes
<1>10. ASSUME HedgeNeedsRepair(h) PROVE HeardGroup(h)'
  BY <1>8, <1>10, AdoptFillsType, HandIsHeard DEF HedgeNeedsRepair
<1>11. ASSUME HedgeOvertaken(h) PROVE HeardGroup(h)'
  <2>1. pc'[h] = "raised"
    BY <1>11 DEF HedgeOvertaken, Raise, TypeOK
  <2>2. QED
    BY <2>1 DEF HeardGroup
<1>12. ASSUME NEW c \in Callers, NEW ok, NEW pnl, ResumeCaller(h, c, ok, pnl),
              order[h][c] # NoOrder, booked'[h] = pnl, UNCHANGED <<leg, heard>>
       PROVE  HeardGroup(h)'
  <2>1. c = Coordinator
    BY DEF Callers
  <2>2. pc[h] \in {"repairing", "rollbackRepairing"}
    BY <1>12, <2>1 DEF AloneGroup
  <2>3. \A s \in Sides : heard'[h][s] = IF Answered(leg[h][s]) THEN "ok" ELSE "failed"
    BY <1>12, <2>2 DEF HeardGroup
  <2>4. CASE Settle(h, pnl)
    BY <1>12, <2>3, <2>4, SettleIsHeard
  <2>5. CASE Raise(h)
    <3>1. pc'[h] = "raised"
      BY <2>5 DEF Raise, TypeOK
    <3>2. QED
      BY <3>1 DEF HeardGroup
  <2>6. QED
    BY <1>12, <2>1, <2>4, <2>5 DEF ResumeCaller
<1>13. ASSUME NEW c \in Callers, RepairAnswers(h, c) PROVE HeardGroup(h)'
  <2>1. order[h][c] # NoOrder /\ UNCHANGED <<leg, heard>>
    BY <1>13 DEF RepairAnswers
  <2>2. QED
    BY <1>12, <1>13, <2>1, RepairAnswersCases
<1>14. ASSUME NEW c \in Callers, RepairErrors(h, c) PROVE HeardGroup(h)'
  BY <1>12, <1>14 DEF RepairErrors, groupVars
<1>15. ASSUME SaveHedge(h) PROVE HeardGroup(h)'
  <2>1. /\ pc[h] = "returned" /\ pc'[h] = "saved"
        /\ UNCHANGED <<leg, heard, reported, booked>>
    BY <1>15 DEF SaveHedge, groupVars, breakerVars, TypeOK
  <2>2. QED
    BY <2>1 DEF HeardGroup
<1>16. ASSUME NEW s \in Sides, VenueFills(h, s) PROVE HeardGroup(h)'
  BY <1>16 DEF VenueFills, groupVars, breakerVars, HeardGroup
<1>17. QED
  BY <1>1, <1>2, <1>3, <1>4, <1>5, <1>6, <1>7, <1>9, <1>10, <1>11, <1>13, <1>14, <1>15, <1>16
  DEF HedgeStep, Await, Resume, RepairReturns

\* What a step of one hedge does to the breaker's and the row's view of another.
LEMMA OtherIsNotHeardOf ==
    ASSUME TypeOK, NEW h \in Hedges, HedgeStep(h), NEW g \in Hedges \ {h}
    PROVE  heard'[g] = heard[g] /\ reported'[g] = reported[g] /\ stored'[g] = stored[g]
<1>1. ASSUME NEW n \in Int, NEW pnl, NEW stage, HandToRepair(h, n, pnl, stage)
      PROVE  reported'[g] = reported[g]
  <2>1. CASE UNCHANGED <<reported, exposureVars>>
    BY <2>1
  <2>2. CASE Settle(h, pnl)
    BY <2>2 DEF Settle, TypeOK
  <2>3. QED
    BY <1>1, <2>1, <2>2, HandCases
<1>2. ASSUME NEW s \in Sides, NEW fills \in [Sides -> Nat], Flatten(h, s, fills)
      PROVE  reported'[g] = reported[g]
  <2>1. CASE \E pnl : Settle(h, pnl)
    BY <2>1 DEF Settle, TypeOK
  <2>2. CASE Raise(h)
    BY <2>2 DEF Raise
  <2>3. CASE HandToRepair(h, fills["buy"] - fills["sell"],
                          [booked[h] EXCEPT ![s] = @ + BookedFill(leg[h][s])], "rollbackRepairing")
    BY <1>1, <2>3 DEF Sides
  <2>4. QED
    BY <1>2, <2>1, <2>2, <2>3, FlattenCases
<1>3. ASSUME HearLegs(h) PROVE heard'[g] = heard[g]
  BY <1>3 DEF HearLegs, TypeOK
<1>4. ASSUME RejectBeforeOrders(h) \/ SubmitLegs(h) \/ SaveHedge(h)
      PROVE  heard'[g] = heard[g] /\ reported'[g] = reported[g] /\ stored'[g] = stored[g]
  BY <1>4 DEF RejectBeforeOrders, SubmitLegs, SaveHedge, breakerVars, storeVars, TypeOK
<1>5. ASSUME NEW s \in Sides, LegAnswers(h, s) \/ LegFails(h, s) \/ VenueFills(h, s)
      PROVE  UNCHANGED <<heard, reported, stored>>
  BY <1>5 DEF LegAnswers, LegFails, VenueFills, breakerVars, storeVars
<1>6. ASSUME BothLegsFail(h) \/ HedgeCompletes(h) \/ HedgeOvertaken(h)
      PROVE  heard'[g] = heard[g] /\ reported'[g] = reported[g] /\ stored'[g] = stored[g]
  BY <1>3, <1>6 DEF BothLegsFail, HedgeCompletes, HedgeOvertaken, AdoptFills, Settle, Raise,
                    storeVars, TypeOK
<1>7. ASSUME HedgeNeedsRepair(h)
      PROVE  heard'[g] = heard[g] /\ reported'[g] = reported[g] /\ stored'[g] = stored[g]
  BY <1>1, <1>3, <1>7, AdoptFillsType DEF HedgeNeedsRepair, AdoptFills, storeVars
<1>8. ASSUME NEW s \in Sides, SurvivorDone(h, s)
      PROVE  heard'[g] = heard[g] /\ reported'[g] = reported[g] /\ stored'[g] = stored[g]
  <2>1. [executed[h] EXCEPT ![s] = leg[h][s].filled] \in [Sides -> Nat]
    BY LegType DEF TypeOK
  <2>2. QED
    BY <1>2, <1>3, <1>8, <2>1 DEF SurvivorDone, storeVars
<1>9. ASSUME NEW s \in Sides, SurvivorOpen(h, s)
      PROVE  heard'[g] = heard[g] /\ reported'[g] = reported[g] /\ stored'[g] = stored[g]
  BY <1>3, <1>9 DEF SurvivorOpen, storeVars
<1>10. ASSUME NEW s \in Sides, SurvivorCancelled(h, s)
       PROVE  heard'[g] = heard[g] /\ reported'[g] = reported[g] /\ stored'[g] = stored[g]
  <2>1. executed[h] \in [Sides -> Nat]
    BY DEF TypeOK
  <2>2. QED
    BY <1>2, <1>10, <2>1 DEF SurvivorCancelled, storeVars
<1>11. ASSUME NEW c \in Callers, RepairAnswers(h, c) \/ RepairErrors(h, c)
       PROVE  heard'[g] = heard[g] /\ reported'[g] = reported[g] /\ stored'[g] = stored[g]
  <2>1. RepairAnswers(h, c) \/ RepairErrors(h, c) => UNCHANGED <<heard, stored>>
    BY Zenon DEF RepairAnswers, RepairErrors
  <2>2. PICK ok, pnl : ResumeCaller(h, c, ok, pnl)
    BY <1>11, RepairAnswersCases DEF RepairErrors
  <2>3. reported'[g] = reported[g]
    BY <2>2 DEF ResumeCaller, Settle, Raise, TypeOK
  <2>4. QED
    BY <1>11, <2>1, <2>3
<1>12. ASSUME NEW c \in Operators, OperatorRepairs(h, c) \/ SaveRepair(h, c)
       PROVE  heard'[g] = heard[g] /\ reported'[g] = reported[g] /\ stored'[g] = stored[g]
  BY <1>12 DEF OperatorRepairs, SaveRepair, breakerVars, TypeOK
<1>13. QED
  BY <1>4, <1>5, <1>6, <1>7, <1>8, <1>9, <1>10, <1>11, <1>12
  DEF HedgeStep, Await, Resume, RepairReturns

LEMMA HeardKept ==
    ASSUME Operators = {} PROVE TypeOK /\ Early /\ Alone /\ Heard /\ [Next]_vars => Heard'
<1> SUFFICES ASSUME TypeOK, Early, Alone, Heard, [Next]_vars, NEW g \in Hedges
             PROVE  HeardGroup(g)'
  BY DEF Heard
<1>1. ASSUME NEW h \in Hedges, HedgeStep(h) PROVE HeardGroup(g)'
  <2>1. CASE g = h
    BY <1>1, <2>1, HeardStep DEF Early, Alone, Heard
  <2>2. CASE g # h
    <3>1. SameGroup(g) /\ heard'[g] = heard[g] /\ reported'[g] = reported[g]
      BY <1>1, <2>2, OneHedgeAtATime, OtherIsNotHeardOf
    <3>2. QED
      BY <3>1 DEF SameGroup, Heard, HeardGroup
  <2>3. QED
    BY <2>1, <2>2
<1>2. CASE UNCHANGED vars
  BY <1>2 DEF vars, groupVars, breakerVars, Heard, HeardGroup
<1>3. QED
  BY <1>1, <1>2, NextIsAHedgeStep

LEMMA HeardIsEverything == Heard => BreakerHearsEverything
  BY DEF Heard, HeardGroup, BreakerHearsEverything

-----------------------------------------------------------------------------
(* Over several lives of the process. *)

\* What holds of the hedges of the running process, whoever repairs them.
LiveInv ==
    /\ TypeOK /\ OpenWhileExecuting /\ CoordinatorWaits /\ Ledger
    /\ Early /\ NetIsTheImbalance

LEMMA LiveInvKept == LiveInv /\ [Next]_vars => LiveInv'
  BY TypeStep, OpenStep, WaitStep, LedgerStepHolds, LedgerKept, EarlyKept, NetStep DEF LiveInv

LEMMA LiveInvInit == Init => LiveInv
<1> SUFFICES ASSUME Init PROVE LiveInv
  OBVIOUS
<1>1. OpenWhileExecuting /\ CoordinatorWaits
  BY DEF Init, OpenWhileExecuting, Executing, CoordinatorWaits, Callers
<1>2. Ledger
  BY LedgerInit DEF Init
<1>3. NetIsTheImbalance
  BY DEF Init, NetIsTheImbalance, BothSides, Sides
<1>4. QED
  BY <1>1, <1>2, <1>3, TypeInit, EarlyInit DEF LiveInv

\* A crash leaves every hedge untouched and unborn, or lost.
LEMMA CrashResets ==
    ASSUME Crash, NEW h \in Hedges
    PROVE  /\ pc'[h] = IF h \in lost \union Dying THEN "lost" ELSE "idle"
           /\ state'[h] = "UNREGISTERED" /\ executed'[h] = BothSides(0) /\ net'[h] = 0
           /\ attempts'[h] = 0 /\ booked'[h] = BothSides(0) /\ reported'[h] = BothSides(0)
           /\ \A c \in Callers : order'[h][c] = NoOrder
           /\ pc'[h] = "idle" => leg'[h] = BothSides(Pending)
           /\ meddled'[h] = {}
  BY DEF Crash

LEMMA LiveInvAfterCrash == LiveInv /\ Crash => LiveInv'
<1> SUFFICES ASSUME LiveInv, Crash PROVE LiveInv'
  OBVIOUS
<1>1. pc' \in [Hedges -> {"idle", "lost"}]
  BY DEF Crash
<1>2. TypeOK'
  <2>1. /\ state' \in [Hedges -> HedgeStates \union {"UNREGISTERED"}]
        /\ executed' \in [Hedges -> [Sides -> Nat]]
        /\ net' \in [Hedges -> Int]
        /\ attempts' \in [Hedges -> Nat]
        /\ booked' \in [Hedges -> [Sides -> Nat]]
    BY DEF Crash, BothSides
  <2>2. /\ pc' \in [Hedges -> Stages]
        /\ leg' \in [Hedges -> [Sides -> OrderResults \union {Pending, LegRaised}]]
        /\ order' \in [Hedges -> [Callers -> {NoOrder} \union [side : Sides, amount : Nat \ {0}]]]
        /\ saving' \in [Hedges -> SUBSET Operators]
        /\ stored' \in [Hedges -> HedgeStates \union {"UNREGISTERED"}]
    BY <1>1 DEF Crash, BothSides, Stages, LiveInv, TypeOK
  <2>3. /\ heard' \in [Hedges -> [Sides -> {"nothing", "ok", "failed"}]]
        /\ reported' \in [Hedges -> [Sides -> Nat]]
        /\ openHedges' \in SUBSET Hedges
        /\ inFlight' \in [Exchanges -> Nat]
        /\ resting' \in [Hedges -> [Sides -> Nat]]
        /\ unseen' \in [Hedges -> Int]
        /\ meddled' \in [Hedges -> SUBSET {"early", "refused"}]
    BY DEF Crash, BothSides
  <2>4. QED
    BY <2>1, <2>2, <2>3 DEF TypeOK
<1>3. openHedges' = {} /\ inFlight' = [ex \in Exchanges |-> 0]
  BY DEF Crash
<1>4. OpenWhileExecuting'
  BY <1>1, <1>3 DEF OpenWhileExecuting, Executing
<1>5. Ledger'
  <2>1. (openHedges = {} /\ inFlight = [ex \in Exchanges |-> 0])' => Ledger'
    BY LedgerInit, PTL
  <2>2. QED
    BY <1>3, <2>1
<1>6. CoordinatorWaits' /\ Early' /\ NetIsTheImbalance'
  <2>1. ASSUME NEW h \in Hedges PROVE EarlyGroup(h)'
    BY <1>1, CrashResets DEF EarlyGroup
  <2>2. ASSUME NEW h \in Hedges PROVE net'[h] = executed'[h]["buy"] - executed'[h]["sell"]
    BY CrashResets DEF BothSides, Sides
  <2>3. ASSUME NEW h \in Hedges PROVE order'[h][Coordinator] = NoOrder
    BY CrashResets DEF Callers
  <2>4. QED
    BY <2>1, <2>2, <2>3 DEF CoordinatorWaits, Early, NetIsTheImbalance
<1>7. QED
  BY <1>2, <1>4, <1>5, <1>6 DEF LiveInv

LEMMA LiveInvUnchanged == LiveInv /\ UNCHANGED vars => LiveInv'
  BY LiveInvKept

LEMMA LiveInvOverLives == RecoverySpec => []LiveInv
<1>1. RecoveryInit => LiveInv
  BY LiveInvInit DEF RecoveryInit
<1>2. LiveInv /\ [RecoveryNext]_recoveryVars => LiveInv'
  BY LiveInvKept, LiveInvUnchanged, LiveInvAfterCrash
  DEF RecoveryNext, Live, Startup, recoveryVars
<1>3. QED
  BY <1>1, <1>2, PTL DEF RecoverySpec

\* Whenever the process ends, what it counts as open is what runs in its new life.
THEOREM OpenOverLives == RecoverySpec => []OpenWhileExecuting
<1>1. LiveInv => OpenWhileExecuting
  BY DEF LiveInv
<1>2. QED
  BY <1>1, LiveInvOverLives, PTL

\* And what an exchange is charged is the notional of those hedges.
THEOREM InFlightOverLives == RecoverySpec => []InFlightIsOpenNotional
<1>1. LiveInv => InFlightIsOpenNotional
  BY LedgerIsTheNotional DEF LiveInv
<1>2. QED
  BY <1>1, LiveInvOverLives, PTL

LEMMA RepairInvAfterCrash == Crash => RepairInv'
<1> SUFFICES ASSUME Crash, NEW h \in Hedges
             PROVE  LockGroup(h)' /\ AbortedGroup(h)' /\ DoneGroup(h)'
  BY DEF RepairInv, Lock, Aborted, Done
<1>1. /\ state'[h] = "UNREGISTERED" /\ pc'[h] \in {"idle", "lost"}
      /\ \A c \in Callers : order'[h][c] = NoOrder
  BY CrashResets
<1>2. QED
  BY <1>1, NoOrderNoLock DEF AbortedGroup, DoneGroup

\* In every life of the process, and whoever presses Repair, groups end flat or
\* exhausted as GroupsEndFlatOrExhausted says.
THEOREM EndsFlatOverLives == RecoverySpec => []EndsFlatOrExhausted
<1>1. RecoveryInit => RepairInv
  BY RepairInit DEF RecoveryInit
<1>2. LiveInv /\ RepairInv /\ [RecoveryNext]_recoveryVars => RepairInv'
  <2> SUFFICES ASSUME LiveInv, RepairInv, [RecoveryNext]_recoveryVars PROVE RepairInv'
    OBVIOUS
  <2>1. CASE [Next]_vars
    BY <2>1, RepairKept DEF LiveInv
  <2>2. CASE Crash
    BY <2>2, RepairInvAfterCrash
  <2>3. QED
    BY <2>1, <2>2 DEF RecoveryNext, Live, Startup, recoveryVars
<1>3. QED
  BY <1>1, <1>2, RepairInvEndsFlat, LiveInvOverLives, PTL DEF RecoverySpec

-----------------------------------------------------------------------------
(* The rows the dead processes left. *)

\* A hedge has a row only once execute() has returned, and then the row has the
\* state it returned with; the rows the dead processes left say of a position what
\* their groups knew.
RowGroup(h) ==
    /\ h \notin lost =>
          /\ pc[h] # "lost"
          /\ stored[h] \in {"UNREGISTERED"} \union (IF pc[h] = "saved" THEN {state[h]} ELSE {})
    /\ h \in lost =>
          /\ pc[h] = "lost"
          /\ stored[h] = "COMPLETED" => Flat(grave[h].position)
          /\ stored[h] = "ABORTED" =>
                Flat(grave[h].position) \/ grave[h].attempts >= MaxRepairAttempts
          /\ up /\ ActiveRow(h) => h \in warned \union missed

Rows == \A h \in Hedges : RowGroup(h)

LEMMA HandNotSaved ==
    ASSUME TypeOK, NEW h \in Hedges, NEW n \in Int, NEW pnl,
           NEW stage \in {"repairing", "rollbackRepairing"}, HandToRepair(h, n, pnl, stage)
    PROVE  pc'[h] \notin {"lost", "saved"}
<1>1. CASE pc' = [pc EXCEPT ![h] = stage]
  BY <1>1 DEF TypeOK
<1>2. CASE Settle(h, pnl)
  BY <1>2 DEF Settle, TypeOK
<1>3. QED
  BY <1>1, <1>2, HandCases

\* The row of a hedge is written when execute() has returned, and no step of the
\* process concerns a hedge that an earlier process lost.
LEMMA RowStep ==
    ASSUME TypeOK, Operators = {}, NEW h \in Hedges, AloneGroup(h), HedgeStep(h)
    PROVE  /\ pc[h] = "lost" => pc'[h] = "lost" /\ stored'[h] = stored[h]
           /\ pc[h] # "lost" => pc'[h] # "lost"
           /\ pc[h] = "saved" => /\ pc'[h] = "saved" /\ state'[h] = state[h]
                                 /\ stored'[h] = stored[h]
           /\ pc[h] # "saved" /\ pc'[h] # "saved" => stored'[h] = stored[h]
           /\ pc[h] # "saved" /\ pc'[h] = "saved" =>
                 stored'[h] \in {state'[h], stored[h]}
<1> DEFINE Kept ==
        /\ pc[h] \notin {"lost", "saved"} /\ pc'[h] \notin {"lost", "saved"}
        /\ stored'[h] = stored[h]
<1>1. ASSUME RejectBeforeOrders(h) \/ SubmitLegs(h) \/ BothLegsFail(h) \/ HedgeOvertaken(h)
      PROVE  Kept
  BY <1>1 DEF RejectBeforeOrders, SubmitLegs, BothLegsFail, HedgeOvertaken, GatherDone, Raise,
              storeVars, TypeOK
<1>2. ASSUME NEW n \in Int, NEW pnl, NEW stage \in {"repairing", "rollbackRepairing"},
             HandToRepair(h, n, pnl, stage)
      PROVE  pc'[h] \notin {"lost", "saved"}
  BY <1>2, HandNotSaved
<1>3. ASSUME NEW s \in Sides, NEW fills \in [Sides -> Nat], Flatten(h, s, fills)
      PROVE  pc'[h] \notin {"lost", "saved"}
  <2>1. CASE HandToRepair(h, fills["buy"] - fills["sell"],
                          [booked[h] EXCEPT ![s] = @ + BookedFill(leg[h][s])], "rollbackRepairing")
    BY <1>2, <2>1 DEF Sides
  <2>2. CASE pc' = [pc EXCEPT ![h] = "returned"] \/ pc' = [pc EXCEPT ![h] = "raised"]
    BY <2>2 DEF TypeOK
  <2>3. QED
    BY <1>3, <2>1, <2>2 DEF Flatten, Settle, Raise
<1>4. ASSUME NEW s \in Sides, SurvivorDone(h, s) PROVE Kept
  <2>1. [executed[h] EXCEPT ![s] = leg[h][s].filled] \in [Sides -> Nat]
    BY LegType DEF TypeOK
  <2>2. QED
    BY <1>3, <1>4, <2>1 DEF SurvivorDone, GatherDone, storeVars
<1>5. ASSUME NEW s \in Sides, SurvivorCancelled(h, s) PROVE Kept
  <2>1. executed[h] \in [Sides -> Nat]
    BY DEF TypeOK
  <2>2. QED
    BY <1>3, <1>5, <2>1 DEF SurvivorCancelled, storeVars
<1>6. ASSUME NEW s \in Sides, LegAnswers(h, s) \/ LegFails(h, s) \/ SurvivorOpen(h, s) PROVE Kept
  BY <1>6 DEF LegAnswers, LegFails, SurvivorOpen, GatherDone, storeVars, TypeOK
<1>7. ASSUME HedgeCompletes(h) PROVE Kept
  BY <1>7 DEF HedgeCompletes, AdoptFills, GatherDone, Settle, storeVars, TypeOK
<1>8. ASSUME HedgeNeedsRepair(h) PROVE Kept
  BY <1>2, <1>8, AdoptFillsType DEF HedgeNeedsRepair, AdoptFills, GatherDone, storeVars
<1>9. ASSUME NEW c \in Callers, RepairAnswers(h, c) \/ RepairErrors(h, c) PROVE Kept
  <2>1. PICK ok, pnl : ResumeCaller(h, c, ok, pnl)
    BY <1>9, RepairAnswersCases DEF RepairErrors
  <2>2. c = Coordinator
    BY DEF Callers
  <2>3. RepairAnswers(h, c) \/ RepairErrors(h, c) => order[h][c] # NoOrder
    BY Zenon DEF RepairAnswers, RepairErrors
  <2>4. pc[h] \in {"repairing", "rollbackRepairing"}
    BY <1>9, <2>2, <2>3 DEF AloneGroup
  <2>5. pc'[h] \in {"returned", "raised"}
    BY <2>1, <2>2 DEF ResumeCaller, Settle, Raise, TypeOK
  <2>6. RepairAnswers(h, c) \/ RepairErrors(h, c) => UNCHANGED stored
    BY Zenon DEF RepairAnswers, RepairErrors
  <2>7. QED
    BY <1>9, <2>4, <2>5, <2>6
<1>10. ASSUME SaveHedge(h)
       PROVE  /\ pc[h] = "returned" /\ pc'[h] = "saved" /\ state'[h] = state[h]
              /\ stored'[h] \in {state[h], stored[h]}
  BY <1>10 DEF SaveHedge, groupVars, TypeOK
<1>11. ASSUME NEW s \in Sides, VenueFills(h, s) PROVE UNCHANGED <<pc, state, stored>>
  BY <1>11 DEF VenueFills, groupVars, storeVars
<1>12. QED
  BY <1>1, <1>4, <1>5, <1>6, <1>7, <1>8, <1>9, <1>10, <1>11
  DEF HedgeStep, Await, Resume, RepairReturns

LEMMA RowsLive ==
    ASSUME Operators = {} PROVE TypeOK /\ Alone /\ Rows /\ Live => Rows'
<1> SUFFICES ASSUME TypeOK, Alone, Rows, Live, NEW g \in Hedges PROVE RowGroup(g)'
  BY DEF Rows
<1>1. UNCHANGED <<up, lost, grave, warned, missed>>
  BY DEF Live
<1>2. PICK h \in Hedges : HedgeStep(h)
  BY DEF Live, Next, HedgeStep
<1>3. CASE g # h
  <2>1. pc'[g] = pc[g] /\ state'[g] = state[g] /\ stored'[g] = stored[g]
    BY <1>2, <1>3, OneHedgeAtATime, OtherIsNotHeardOf DEF SameGroup
  <2>2. QED
    BY <1>1, <2>1 DEF Rows, RowGroup, ActiveRow, HasRow
<1>4. CASE g = h
  <2>1. RowGroup(g)
    BY DEF Rows
  <2>2. CASE g \in lost
    <3>1. pc'[g] = "lost" /\ stored'[g] = stored[g]
      BY <1>2, <1>4, <2>1, <2>2, RowStep DEF Alone, RowGroup
    <3>2. QED
      BY <1>1, <2>1, <2>2, <3>1 DEF RowGroup, ActiveRow, HasRow
  <2>3. CASE g \notin lost
    <3>1. pc[g] # "lost" /\ pc'[g] # "lost"
      BY <1>2, <1>4, <2>1, <2>3, RowStep DEF Alone, RowGroup
    <3>2. stored'[g] \in {"UNREGISTERED"} \union (IF pc'[g] = "saved" THEN {state'[g]} ELSE {})
      BY <1>2, <1>4, <2>1, <2>3, RowStep DEF Alone, RowGroup
    <3>3. QED
      BY <1>1, <2>3, <3>1, <3>2 DEF RowGroup
  <2>4. QED
    BY <2>2, <2>3
<1>5. QED
  BY <1>3, <1>4

\* The crash: a row that says COMPLETED or ABORTED was saved in the state the group
\* had, and what the group knew then is what the grave records.
LEMMA RowsCrash == LiveInv /\ Alone /\ Rows /\ Crash => Rows'
<1> SUFFICES ASSUME LiveInv, Alone, Rows, Crash, NEW h \in Hedges PROVE RowGroup(h)'
  BY DEF Rows
<1>1. /\ up' = FALSE /\ lost' = lost \union Dying /\ stored' = stored
      /\ grave'[h] = IF h \in Dying
                     THEN [position |-> KnownPosition(h), attempts |-> attempts[h]]
                     ELSE grave[h]
  BY DEF Crash
<1>2. pc'[h] = IF h \in lost \union Dying THEN "lost" ELSE "idle"
  BY CrashResets
<1>3. RowGroup(h) /\ AloneGroup(h)
  BY DEF Rows, Alone
<1>4. CASE h \in Dying
  <2>1. h \notin lost /\ h \in lost' /\ pc'[h] = "lost"
    BY <1>1, <1>2, <1>4 DEF Dying
  <2>2. grave'[h].position = KnownPosition(h) /\ grave'[h].attempts = attempts[h]
    BY <1>1, <1>4
  <2>3. ASSUME stored[h] \in {"COMPLETED", "ABORTED"}
        PROVE  pc[h] = "saved" /\ stored[h] = state[h] /\ KnownPosition(h) = net[h]
    BY <1>3, <2>1, <2>3 DEF RowGroup, KnownPosition, LiveInv, NetIsTheImbalance
  <2>4. stored[h] = "COMPLETED" => Flat(KnownPosition(h))
    BY <1>3, <2>3 DEF AloneGroup
  <2>5. stored[h] = "ABORTED" => Flat(KnownPosition(h)) \/ attempts[h] >= MaxRepairAttempts
    BY <1>3, <2>3 DEF AloneGroup
  <2>6. QED
    BY <1>1, <2>1, <2>2, <2>4, <2>5 DEF RowGroup, Flat
<1>5. CASE h \notin Dying
  <2>1. grave'[h] = grave[h] /\ stored'[h] = stored[h] /\ ~up'
    BY <1>1, <1>5
  <2>2. CASE h \in lost
    <3>1. h \in lost' /\ pc'[h] = "lost"
      BY <1>1, <1>2, <2>2
    <3>2. QED
      BY <1>3, <2>1, <2>2, <3>1 DEF RowGroup
  <2>3. CASE h \notin lost
    <3>1. h \notin lost' /\ pc'[h] = "idle" /\ pc[h] = "idle"
      BY <1>1, <1>2, <1>5, <2>3 DEF Dying
    <3>2. QED
      BY <1>3, <2>1, <2>3, <3>1 DEF RowGroup
  <2>4. QED
    BY <2>2, <2>3
<1>6. QED
  BY <1>4, <1>5

LEMMA RowsStartup == Rows /\ Startup => Rows'
<1> SUFFICES ASSUME Rows, Startup, NEW h \in Hedges PROVE RowGroup(h)'
  BY DEF Rows
<1>1. UNCHANGED <<pc, state, stored, lost, grave>>
  BY DEF Startup, vars, groupVars, storeVars
<1>2. ActiveRow(h) => h \in warned' \union missed'
  BY DEF Startup
<1>3. ActiveRow(h)' => ActiveRow(h)
  BY <1>1 DEF ActiveRow, HasRow
<1>4. QED
  BY <1>1, <1>2, <1>3 DEF Rows, RowGroup

\* The invariant of the whole, when nobody but the coordinator repairs.
LivesInv == LiveInv /\ Alone /\ Heard /\ Rows

LEMMA LivesInvHolds == ASSUME Operators = {} PROVE RecoverySpec => []LivesInv
<1>1. RecoveryInit => LivesInv
  <2> SUFFICES ASSUME RecoveryInit PROVE LivesInv
    OBVIOUS
  <2>1. Heard
    BY DEF RecoveryInit, Init, Heard, HeardGroup
  <2>2. Rows
    BY DEF RecoveryInit, Init, Rows, RowGroup
  <2>3. QED
    BY <2>1, <2>2, LiveInvInit, AloneInit DEF RecoveryInit, LivesInv
<1>2. LivesInv /\ Live => LivesInv'
  BY LiveInvKept, AloneKept, HeardKept, RowsLive DEF LivesInv, LiveInv, Live
<1>3. LivesInv /\ Crash => LivesInv'
  <2> SUFFICES ASSUME LivesInv, Crash PROVE LivesInv'
    OBVIOUS
  <2>1. ASSUME NEW h \in Hedges PROVE AloneGroup(h)' /\ HeardGroup(h)'
    <3>1. pc'[h] \in {"idle", "lost"} /\ order'[h][Coordinator] = NoOrder
      BY CrashResets DEF Callers
    <3>2. AloneGroup(h)'
      BY <3>1, CrashResets DEF AloneGroup
    <3>3. HeardGroup(h)'
      BY <3>1, CrashResets DEF HeardGroup
    <3>4. QED
      BY <3>2, <3>3
  <2>2. QED
    BY <2>1, LiveInvAfterCrash, RowsCrash DEF LivesInv, Alone, Heard
<1>4. LivesInv /\ UNCHANGED vars => LiveInv' /\ Alone' /\ Heard'
  BY LiveInvKept, AloneKept, HeardKept DEF LivesInv, LiveInv
<1>5. LivesInv /\ Startup => LivesInv'
  BY <1>4, RowsStartup DEF LivesInv, Startup
<1>6. LivesInv /\ UNCHANGED recoveryVars => LivesInv'
  <2> SUFFICES ASSUME LivesInv, UNCHANGED recoveryVars PROVE Rows'
    BY <1>4 DEF recoveryVars, LivesInv
  <2>1. UNCHANGED <<pc, state, stored, up, lost, grave, warned, missed>>
    BY DEF recoveryVars, vars, groupVars, storeVars
  <2>2. QED
    BY <2>1 DEF LivesInv, Rows, RowGroup, ActiveRow, HasRow
<1>7. QED
  BY <1>1, <1>2, <1>3, <1>5, <1>6, PTL DEF RecoverySpec, RecoveryNext

\* Once execute() has returned from a submission the breaker has been told the
\* outcome of both legs and the PnL of everything the group executed.
THEOREM BreakerAlwaysHearsEverything ==
    ASSUME Operators = {} PROVE RecoverySpec => []BreakerHearsEverything
<1>1. LivesInv => BreakerHearsEverything
  BY HeardIsEverything DEF LivesInv
<1>2. QED
  BY <1>1, LivesInvHolds, PTL

\* After a start, a position that a dead group knew of and that no event was logged
\* for belongs to a hedge without a row or to one given up after all its repairs,
\* however often the process has ended.
THEOREM UnreportedPositionsAreExplained ==
    ASSUME Operators = {} PROVE RecoverySpec => []UnreportedPositionIsExplained
<1>1. LivesInv /\ lost \subseteq Hedges => UnreportedPositionIsExplained
  BY DEF LivesInv, Rows, RowGroup, UnreportedPositionIsExplained, ActiveRow, HasRow
<1>2. RecoverySpec => [](lost \subseteq Hedges)
  <2>1. RecoveryInit => lost \subseteq Hedges
    BY DEF RecoveryInit
  <2>2. lost \subseteq Hedges /\ [RecoveryNext]_recoveryVars => (lost \subseteq Hedges)'
    BY DEF RecoveryNext, Live, Crash, Dying, Startup, recoveryVars
  <2>3. QED
    BY <2>1, <2>2, PTL DEF RecoverySpec
<1>3. QED
  BY <1>1, <1>2, LivesInvHolds, PTL

=============================================================================
