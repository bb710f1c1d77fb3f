--------------------------- MODULE StrategiesProofs ---------------------------
(***************************************************************************)
(* Proofs about the strategies: a triangular cycle on its own first, for   *)
(* every probe and whatever its orders do, then the program that starts    *)
(* and stops it.  Supervisors, flags and the other strategies leave a      *)
(* cycle what TriangularExecutor says it is, so what is proved of the      *)
(* cycle holds of the program.                                             *)
(***************************************************************************)
EXTENDS Strategies, TLAPS

-----------------------------------------------------------------------------
(* The type invariant. *)

\* Where the cycle is bounds the answers it has collected.
Progress ==
    /\ triPhase = "idle" => fills = <<>> /\ undone = <<>> /\ holdings = [a \in Assets |-> 0]
                             /\ fees = [a \in Assets |-> 0] /\ resting = [o \in Orders |-> 0]
    /\ triPhase = "legs" => Len(fills) <= 2 /\ undone = <<>>
    /\ triPhase = "rollback" => Len(undone) < Len(fills) - 1

TypeInv == TriTypeOK /\ Progress

\* Trade keeps the holdings and the fees functions into the integers.
LEMMA TradeType ==
    ASSUME TriTypeOK, NEW l, NEW q \in Int, Trade(l, q)
    PROVE  holdings' \in [Assets -> Int] /\ fees' \in [Assets -> Nat]
  <1> DEFINE charged(fee, a) == IF q > 0 /\ a = FeeAsset(l) THEN fee ELSE 0
  <1>1. PICK fee \in OrderFees :
            /\ fees' = [a \in Assets |-> fees[a] + charged(fee, a)]
            /\ holdings' = [a \in Assets |->
                               holdings[a] + (IF a = Gained(l) THEN q ELSE 0)
                                           - (IF a = Spent(l) THEN q ELSE 0) - charged(fee, a)]
    BY DEF Trade
  <1>2. fee \in Nat
    BY StrategyAssumption
  <1>3. \A a \in Assets : holdings[a] \in Int /\ fees[a] \in Nat /\ charged(fee, a) \in Nat
    BY <1>2 DEF TriTypeOK
  <1> HIDE DEF charged
  <1>4. \A a \in Assets : /\ fees[a] + charged(fee, a) \in Nat
                          /\ holdings[a] + (IF a = Gained(l) THEN q ELSE 0)
                                         - (IF a = Spent(l) THEN q ELSE 0) - charged(fee, a) \in Int
    BY <1>3
  <1> QED BY <1>1, <1>4

\* The answers to an order for `amount` are fills.
LEMMA AnswerType ==
    ASSUME NEW amount \in 0 .. Probe, NEW r \in Answers(amount)
    PROVE  /\ r \in Fill /\ r.filled \in 0 .. amount /\ r.amount = amount
           /\ r.filled \in 0 .. Probe
  <1>1. /\ r \in [amount : {amount}, filled : 0 .. amount, kind : {"through", "open", "dead"},
                  price : {"known", "none"}]
    BY DEF Answers
  <1>2. 0 .. amount \subseteq 0 .. Probe
    BY StrategyAssumption
  <1> QED BY <1>1, <1>2 DEF Fill

LEMMA RestType ==
    ASSUME NEW q \in 0 .. Probe
    PROVE  MayRest(q) \in 0 .. q
  BY StrategyAssumption DEF MayRest

\* Ordering the next leg, or completing, keeps the types.
LEMMA OrderType ==
    ASSUME NEW i \in 1 .. 4, NEW q \in 0 .. Probe, OrderLegOrComplete(i, q)
    PROVE  /\ order' \in 0 .. Probe
           /\ \/ triPhase' = "legs" /\ i <= 3 /\ order' = q
              \/ triPhase' = "completed" /\ (i = 4 \/ q = 0)
  BY StrategyAssumption DEF OrderLegOrComplete

\* Replacing one value of a function.
LEMMA UpdateType ==
    ASSUME NEW S, NEW T, NEW f \in [S -> T], NEW x, NEW v \in T
    PROVE  [f EXCEPT ![x] = v] \in [S -> T]
  OBVIOUS

LEMMA LenInt ==
    ASSUME NEW S, NEW s \in Seq(S)
    PROVE  Len(s) \in Nat
  OBVIOUS

LEMMA Between ==
    ASSUME NEW n \in Nat, NEW m \in Nat, n <= m
    PROVE  n \in 0 .. m
  OBVIOUS

LEMMA TwoMore ==
    ASSUME NEW n \in 0 .. 2
    PROVE  n + 1 \in 1 .. 3 /\ n + 1 + 1 \in 1 .. 4
  OBVIOUS

LEMMA OneAppended ==
    ASSUME NEW n \in 0 .. 2, NEW m, m = n + 1
    PROVE  m \in 0 .. 3 /\ (n + 1 + 1 <= 3 => m <= 2) /\ (n >= 1 => 0 < m - 1)
  OBVIOUS

LEMMA UpTo ==
    ASSUME NEW m \in Nat, NEW n \in 0 .. m
    PROVE  n <= m
  OBVIOUS

LEMMA SeqBound ==
    ASSUME NEW S, NEW s \in Seq(S), NEW n \in Nat, Len(s) <= n
    PROVE  Len(s) \in 0 .. n
  OBVIOUS

LEMMA TypeInit == TriInit => TypeInv
  BY StrategyAssumption DEF TriInit, TypeInv, TriTypeOK, Progress

LEMMA TypeStep == TypeInv /\ [TriNext]_triVars => TypeInv'
  <1> SUFFICES ASSUME TypeInv, [TriNext]_triVars PROVE TypeInv'
    OBVIOUS
  <1>p. Probe \in Nat \ {0}
    BY StrategyAssumption
  <1>o. order \in 0 .. Probe /\ running \in 0 .. Probe /\ late \in Nat
    BY DEF TypeInv, TriTypeOK
  <1>f. fills \in Seq(Fill) /\ Len(fills) \in 0 .. 3
    BY SeqBound DEF TypeInv, TriTypeOK
  <1>u. undone \in Seq(0 .. Probe) /\ Len(undone) \in 0 .. 2
    BY SeqBound DEF TypeInv, TriTypeOK
  <1>h. holdings \in [Assets -> Int] /\ fees \in [Assets -> Nat]
    BY DEF TypeInv, TriTypeOK
  <1>r. resting \in [Orders -> 0 .. Probe]
    BY DEF TypeInv, TriTypeOK
  <1>d. direction \in {"forward", "reverse"} /\ feeIn \in {"quote", "gained"}
          /\ triPhase \in {"idle", "legs", "rollback"} \union Outcomes
    BY DEF TypeInv, TriTypeOK
  <1>g. Progress
    BY DEF TypeInv
  <1>t. TriTypeOK
    BY DEF TypeInv
  <1> HIDE DEF TypeInv
  <1> SUFFICES /\ direction' \in {"forward", "reverse"} /\ feeIn' \in {"quote", "gained"}
               /\ triPhase' \in {"idle", "legs", "rollback"} \union Outcomes
               /\ order' \in 0 .. Probe
               /\ fills' \in Seq(Fill) /\ Len(fills') \in 0 .. 3
               /\ running' \in 0 .. Probe
               /\ undone' \in Seq(0 .. Probe) /\ Len(undone') \in 0 .. 2
               /\ holdings' \in [Assets -> Int] /\ fees' \in [Assets -> Nat]
               /\ resting' \in [Orders -> 0 .. Probe]
               /\ late' \in Nat
               /\ Progress'
    BY UpTo DEF TypeInv, TriTypeOK
  <1>1. CASE TriBegin
    <2>1. Probe \in 0 .. Probe
      BY <1>p
    <2>2. order' \in 0 .. Probe /\ triPhase' \in {"legs", "completed"}
      BY <1>1, <2>1, OrderType DEF TriBegin
    <2>3. holdings' \in [Assets -> Int] /\ fees' \in [Assets -> Nat]
      BY <1>1, <1>h, <1>p, UpdateType DEF TriBegin
    <2>4. fills = <<>> /\ undone = <<>>
      BY <1>1, <1>g DEF TriBegin, Progress
    <2>5. UNCHANGED <<fills, undone, fees, resting, late>> /\ running' = Probe
            /\ direction' \in {"forward", "reverse"} /\ feeIn' \in {"quote", "gained"}
      BY <1>1 DEF TriBegin
    <2> QED BY <1>f, <1>u, <1>r, <1>o, <2>1, <2>2, <2>3, <2>4, <2>5 DEF Progress, Outcomes
  <1>2. CASE LegFills
    <2>1. PICK r \in Answers(order) :
            /\ fills' = Append(fills, r)
            /\ running' = CarriedForward(Len(fills) + 1, r)
            /\ Trade(Leg(Len(fills) + 1), r.filled)
            /\ resting' = [resting EXCEPT ![<<"leg", Len(fills) + 1>>] =
                              IF r.kind = "open" THEN MayRest(order - r.filled) ELSE 0]
            /\ OrderLegOrComplete(Len(fills) + 1 + 1, CarriedForward(Len(fills) + 1, r))
      BY <1>2 DEF LegFills
    <2>0. Len(fills) \in 0 .. 2 /\ undone = <<>>
      BY <1>2, <1>g, <1>f DEF LegFills, Progress
    <2>2. UNCHANGED <<direction, feeIn, undone, late>>
      BY <1>2 DEF LegFills
    <2>3. r \in Fill /\ r.filled \in 0 .. order /\ r.filled \in 0 .. Probe
      BY <1>o, AnswerType
    <2>4. CarriedForward(Len(fills) + 1, r) \in 0 .. Probe
      BY <2>3, <1>p DEF CarriedForward
    <2>5. Len(fills) + 1 + 1 \in 1 .. 4
      BY <2>0, TwoMore
    <2>6. order' \in 0 .. Probe
            /\ ((triPhase' = "legs" /\ Len(fills) + 1 + 1 <= 3) \/ triPhase' = "completed")
      BY <2>1, <2>5, <2>4, OrderType
    <2>7. holdings' \in [Assets -> Int] /\ fees' \in [Assets -> Nat]
      BY <1>t, <2>1, <2>3, TradeType
    <2>8. order - r.filled \in 0 .. Probe
      BY <1>o, <1>p, <2>3
    <2>9. MayRest(order - r.filled) \in 0 .. Probe
      BY <1>p, <2>8, RestType
    <2>10. resting' \in [Orders -> 0 .. Probe]
      <3>1. (IF r.kind = "open" THEN MayRest(order - r.filled) ELSE 0) \in 0 .. Probe
        BY <1>p, <2>9
      <3> QED BY <1>r, <2>1, <3>1, UpdateType
    <2>11. fills' \in Seq(Fill) /\ Len(fills') = Len(fills) + 1
      BY <1>f, <2>1, <2>3
    <2>12. Len(fills') \in 0 .. 3 /\ Progress'
      <3>1. Len(fills') \in 0 .. 3 /\ (Len(fills) + 1 + 1 <= 3 => Len(fills') <= 2)
        BY <2>0, <2>11, OneAppended
      <3>2. undone' = <<>>
        BY <2>0, <2>2
      <3> QED BY <2>6, <3>1, <3>2 DEF Progress
    <2> QED BY <1>d, <1>o, <1>u, <2>1, <2>2, <2>4, <2>6, <2>7, <2>10, <2>11, <2>12 DEF Outcomes
  <1>3. CASE LegBails
    <2>1. PICK r \in Answers(order) :
            /\ fills' = Append(fills, r)
            /\ Trade(Leg(Len(fills) + 1), r.filled)
            /\ resting' = [resting EXCEPT ![<<"leg", Len(fills) + 1>>] =
                              IF r.kind = "open" THEN MayRest(order - r.filled) ELSE 0]
            /\ IF Len(fills) + 1 = 1
               THEN triPhase' = "aborted" /\ order' = 0
               ELSE /\ triPhase' = "rollback"
                    /\ order' = fills[UndoIndex(Len(fills) + 1, 0)].filled
      BY <1>3 DEF LegBails
    <2>0. Len(fills) \in 0 .. 2 /\ undone = <<>>
      BY <1>3, <1>g, <1>f DEF LegBails, Progress
    <2>2. UNCHANGED <<direction, feeIn, running, undone, late>>
      BY <1>3 DEF LegBails
    <2>3. r \in Fill /\ r.filled \in 0 .. order /\ r.filled \in 0 .. Probe
      BY <1>o, AnswerType
    <2>4. holdings' \in [Assets -> Int] /\ fees' \in [Assets -> Nat]
      BY <1>t, <2>1, <2>3, TradeType
    <2>5. order - r.filled \in 0 .. Probe
      BY <1>o, <1>p, <2>3
    <2>6. MayRest(order - r.filled) \in 0 .. Probe
      BY <1>p, <2>5, RestType
    <2>7. resting' \in [Orders -> 0 .. Probe]
      <3>1. (IF r.kind = "open" THEN MayRest(order - r.filled) ELSE 0) \in 0 .. Probe
        BY <1>p, <2>6
      <3> QED BY <1>r, <2>1, <3>1, UpdateType
    <2>8. fills' \in Seq(Fill) /\ Len(fills') = Len(fills) + 1
      BY <1>f, <2>1, <2>3
    <2>9. /\ order' \in 0 .. Probe
          /\ triPhase' = "aborted" \/ (triPhase' = "rollback" /\ Len(fills) >= 1)
      <3>1. CASE Len(fills) = 0
        BY <1>p, <2>1, <3>1
      <3>2. CASE Len(fills) # 0
        <4>1. fills[Len(fills)] \in Fill
          BY <1>f, <2>0, <3>2
        <4>2. UndoIndex(Len(fills) + 1, 0) = Len(fills)
          BY <2>0 DEF UndoIndex
        <4>3. order' = fills[Len(fills)].filled /\ triPhase' = "rollback"
          BY <2>1, <2>0, <3>2, <4>2
        <4> QED BY <2>0, <3>2, <4>1, <4>3 DEF Fill
      <3> QED BY <3>1, <3>2
    <2>10. Len(fills') \in 0 .. 3 /\ Progress'
      <3>1. Len(fills') \in 0 .. 3 /\ (Len(fills) >= 1 => 0 < Len(fills') - 1)
        BY <2>0, <2>8, OneAppended
      <3>2. undone' = <<>> /\ Len(undone') = 0
        BY <2>0, <2>2
      <3> QED BY <2>9, <3>1, <3>2 DEF Progress
    <2> QED BY <1>d, <1>o, <1>u, <2>2, <2>4, <2>7, <2>8, <2>9, <2>10 DEF Outcomes
  <1>4. CASE LegRaises
    <2>1. MayRest(order) \in 0 .. Probe
      BY <1>o, <1>p, RestType
    <2>2. resting' \in [Orders -> 0 .. Probe]
      <3>1. PICK q \in {0, MayRest(order)} :
              resting' = [resting EXCEPT ![<<"leg", Len(fills) + 1>>] = q]
        BY <1>4 DEF LegRaises
      <3>2. q \in 0 .. Probe
        BY <1>p, <2>1, <3>1
      <3> QED BY <1>r, <3>1, <3>2, UpdateType
    <2>3. /\ triPhase' = "raised" /\ order' = 0
          /\ UNCHANGED <<direction, feeIn, fills, running, undone, holdings, fees, late>>
      BY <1>4 DEF LegRaises
    <2> QED BY <1>p, <1>o, <1>f, <1>u, <1>h, <1>d, <2>2, <2>3 DEF Progress, Outcomes
  <1>5. ASSUME NEW q \in 0 .. Probe, triPhase = "rollback", undone' = Append(undone, q),
               NextReversal, fills' = fills
        PROVE  /\ undone' \in Seq(0 .. Probe) /\ Len(undone') \in 0 .. 2
               /\ order' \in 0 .. Probe
               /\ triPhase' \in {"rollback", "rolled_back"}
               /\ Progress'
    <2>1. Len(undone) < Len(fills) - 1
      BY <1>5, <1>g DEF Progress
    <2>2. undone' \in Seq(0 .. Probe) /\ Len(undone') = Len(undone) + 1
      BY <1>5, <1>u
    <2>3. Len(undone') \in 0 .. 2
      BY <1>f, <1>u, <2>1, <2>2
    <2>4. CASE Len(undone) + 1 < Len(fills) - 1
      <3>1. UndoIndex(Len(fills), Len(undone) + 1) \in 1 .. Len(fills)
        BY <1>f, <1>u, <2>4 DEF UndoIndex
      <3>2. fills[UndoIndex(Len(fills), Len(undone) + 1)] \in Fill
        BY <1>f, <3>1
      <3>3. /\ order' = fills[UndoIndex(Len(fills), Len(undone) + 1)].filled
            /\ triPhase' = "rollback"
        BY <1>5, <2>4 DEF NextReversal
      <3>4. order' \in 0 .. Probe
        BY <3>2, <3>3 DEF Fill
      <3> QED BY <1>5, <2>2, <2>3, <2>4, <3>3, <3>4 DEF Progress
    <2>5. CASE ~(Len(undone) + 1 < Len(fills) - 1)
      <3>1. order' = 0 /\ triPhase' = "rolled_back"
        BY <1>5, <2>5 DEF NextReversal
      <3> QED BY <1>p, <2>2, <2>3, <3>1 DEF Progress
    <2> QED BY <2>4, <2>5
  <1>6. CASE ReversalAnswers
    <2>1. PICK r \in Answers(order) :
            /\ undone' = Append(undone, r.filled)
            /\ Trade(Reverse(Leg(UndoIndex(Len(fills), Len(undone)))), r.filled)
            /\ resting' = [resting EXCEPT ![<<"undo", UndoIndex(Len(fills), Len(undone))>>] =
                              IF r.kind = "open" THEN MayRest(order - r.filled) ELSE 0]
      BY <1>6 DEF ReversalAnswers
    <2>2. r.filled \in 0 .. order /\ r.filled \in 0 .. Probe
      BY <1>o, AnswerType
    <2>3. holdings' \in [Assets -> Int] /\ fees' \in [Assets -> Nat]
      BY <1>t, <2>1, <2>2, TradeType
    <2>4. order - r.filled \in 0 .. Probe
      BY <1>o, <1>p, <2>2
    <2>5. MayRest(order - r.filled) \in 0 .. Probe
      BY <1>p, <2>4, RestType
    <2>6. resting' \in [Orders -> 0 .. Probe]
      <3>1. (IF r.kind = "open" THEN MayRest(order - r.filled) ELSE 0) \in 0 .. Probe
        BY <1>p, <2>5
      <3> QED BY <1>r, <2>1, <3>1, UpdateType
    <2>7. triPhase = "rollback" /\ NextReversal /\ UNCHANGED <<direction, feeIn, fills, running, late>>
      BY <1>6 DEF ReversalAnswers
    <2>8. /\ undone' \in Seq(0 .. Probe) /\ Len(undone') \in 0 .. 2
          /\ order' \in 0 .. Probe
          /\ triPhase' \in {"rollback", "rolled_back"}
          /\ Progress'
      BY <1>5, <2>1, <2>2, <2>7
    <2> QED BY <1>d, <1>o, <1>f, <2>3, <2>6, <2>7, <2>8 DEF Outcomes
  <1>7. CASE ReversalRaises
    <2>1. MayRest(order) \in 0 .. Probe
      BY <1>o, <1>p, RestType
    <2>2. resting' \in [Orders -> 0 .. Probe]
      <3>1. PICK q \in {0, MayRest(order)} :
              resting' = [resting EXCEPT ![<<"undo", UndoIndex(Len(fills), Len(undone))>>] = q]
        BY <1>7 DEF ReversalRaises
      <3>2. q \in 0 .. Probe
        BY <1>p, <2>1, <3>1
      <3> QED BY <1>r, <3>1, <3>2, UpdateType
    <2>3. /\ triPhase = "rollback" /\ NextReversal /\ undone' = Append(undone, 0)
          /\ UNCHANGED <<direction, feeIn, fills, running, holdings, fees, late>>
      BY <1>7 DEF ReversalRaises
    <2>4. 0 \in 0 .. Probe
      BY <1>p
    <2>5. /\ undone' \in Seq(0 .. Probe) /\ Len(undone') \in 0 .. 2
          /\ order' \in 0 .. Probe
          /\ triPhase' \in {"rollback", "rolled_back"}
          /\ Progress'
      BY <1>5, <2>3, <2>4
    <2> QED BY <1>d, <1>o, <1>f, <1>h, <2>2, <2>3, <2>5 DEF Outcomes
  <1>8. CASE LateFill
    <2>1. PICK o \in Orders : /\ resting[o] > 0
                              /\ \E q \in 1 .. resting[o] : Trade(OrderLeg(o), q) /\ late' = late + q
                              /\ resting' = [resting EXCEPT ![o] = 0]
      BY <1>8 DEF LateFill
    <2>2. PICK q \in 1 .. resting[o] : Trade(OrderLeg(o), q) /\ late' = late + q
      BY <2>1
    <2>3. resting[o] \in 0 .. Probe /\ q \in Nat
      BY <1>r, <1>p, <2>1, <2>2
    <2>4. holdings' \in [Assets -> Int] /\ fees' \in [Assets -> Nat]
      BY <1>t, <2>2, <2>3, TradeType
    <2>5. resting' \in [Orders -> 0 .. Probe]
      BY <1>p, <1>r, <2>1
    <2>6. triPhase # "idle"
      <3>1. triPhase = "idle" => resting = [x \in Orders |-> 0]
        BY <1>g DEF Progress
      <3> QED BY <3>1, <2>1
    <2>7. UNCHANGED <<direction, feeIn, triPhase, order, fills, running, undone>>
      BY <1>8 DEF LateFill
    <2>8. late' \in Nat
      BY <1>o, <2>2, <2>3
    <2> QED BY <1>d, <1>o, <1>f, <1>u, <1>g, <2>4, <2>5, <2>6, <2>7, <2>8 DEF Progress
  <1>9. CASE TriForget
    <2>1. /\ direction' = "forward" /\ feeIn' = "quote" /\ triPhase' = "idle" /\ order' = 0 /\ fills' = <<>>
          /\ running' = 0 /\ undone' = <<>> /\ holdings' = [a \in Assets |-> 0]
          /\ fees' = [a \in Assets |-> 0] /\ resting' = [o \in Orders |-> 0] /\ late' = 0
      BY <1>9 DEF TriForget
    <2> QED BY <1>p, <2>1 DEF Progress
  <1>10. CASE UNCHANGED triVars
    <2>1. UNCHANGED <<direction, feeIn, triPhase, order, fills, running, undone, holdings, fees, resting, late>>
      BY <1>10 DEF triVars
    <2> QED BY <1>d, <1>o, <1>f, <1>u, <1>h, <1>r, <1>g, <2>1 DEF Progress
  <1> QED BY <1>1, <1>2, <1>3, <1>4, <1>6, <1>7, <1>8, <1>9, <1>10 DEF TriNext, TriStep

LEMMA TypeInvariant == TriSpec => []TypeInv
  BY TypeInit, TypeStep, PTL DEF TriSpec

\* Every variable of the cycle keeps its type, for every probe.
THEOREM TriangularTypeCorrect == TriSpec => []TriTypeOK
  BY TypeInvariant, PTL DEF TypeInv

-----------------------------------------------------------------------------
(* Legs and profit are covered by what the orders brought, fees apart.     *)
(* Until the loop is left, only legs that answered can still fill.  Such a *)
(* fill spends A, within what leg 1 left unspent, or an asset an earlier   *)
(* leg spent: never the one the next leg is about to spend.                *)

\* Per asset, what the orders brought: what is held and what the fees took.
Gross == [a \in Assets |-> holdings[a] + fees[a]]

LEMMA GrossType == TypeInv => Gross \in [Assets -> Int]
  BY DEF Gross, TypeInv, TriTypeOK

OnlyAnsweredLegsRest ==
    \A o \in Orders : resting[o] # 0 => o[1] = "leg" /\ o[2] <= Len(fills)

\* What the legs still to be ordered, and the report, can count on.
ACovered ==
    Gross["A"] >= resting[<<"leg", 1>>] + (IF triPhase = "completed" THEN running ELSE 0)

NextLegsCovered ==
    \A i \in 1 .. 3 :
        /\ i = Len(fills) + 1 => Gross[Spent(Leg(i))] >= order
        /\ i > Len(fills) => Gross[Spent(Leg(i))] >= 0

Covered ==
    triPhase \in {"legs", "completed"} =>
        /\ OnlyAnsweredLegsRest
        /\ ACovered
        /\ triPhase = "legs" => NextLegsCovered

\* Each leg spends what the one before it gained, and a cycle returns to A.
LEMMA PlanChain ==
    ASSUME NEW d \in {"forward", "reverse"}
    PROVE  /\ Spent(Plan[d][1]) = "A" /\ Gained(Plan[d][3]) = "A"
           /\ Gained(Plan[d][1]) = Spent(Plan[d][2]) /\ Gained(Plan[d][2]) = Spent(Plan[d][3])
           /\ Spent(Plan[d][2]) \in {"B", "C"} /\ Spent(Plan[d][3]) \in {"B", "C"}
           /\ Spent(Plan[d][2]) # Spent(Plan[d][3])
  <1>1. CASE d = "forward"
    <2>1. /\ Plan[d][1] = Buy("B", "A") /\ Plan[d][2] = Buy("C", "B")
          /\ Plan[d][3] = Sell("C", "A")
      BY <1>1 DEF Plan
    <2> QED BY <2>1 DEF Spent, Gained, Buy, Sell
  <1>2. CASE d = "reverse"
    <2>1. /\ Plan[d][1] = Buy("C", "A") /\ Plan[d][2] = Sell("C", "B")
          /\ Plan[d][3] = Sell("B", "A")
      BY <1>2 DEF Plan
    <2> QED BY <2>1 DEF Spent, Gained, Buy, Sell
  <1> QED BY <1>1, <1>2

LEMMA Chain ==
    ASSUME direction \in {"forward", "reverse"}
    PROVE  /\ Spent(Leg(1)) = "A" /\ Gained(Leg(3)) = "A"
           /\ Gained(Leg(1)) = Spent(Leg(2)) /\ Gained(Leg(2)) = Spent(Leg(3))
           /\ Spent(Leg(2)) \in {"B", "C"} /\ Spent(Leg(3)) \in {"B", "C"}
           /\ Spent(Leg(2)) # Spent(Leg(3))
  BY PlanChain DEF Leg

\* What a trade adds to and takes from each asset: its fee changes nothing here.
LEMMA TradeAt ==
    ASSUME TypeInv, NEW l, NEW q \in Int, Trade(l, q), NEW a \in Assets
    PROVE  Gross'[a] = Gross[a] + (IF a = Gained(l) THEN q ELSE 0)
                                - (IF a = Spent(l) THEN q ELSE 0)
  <1>1. PICK c \in Nat : /\ fees'[a] = fees[a] + c
                         /\ holdings'[a] = holdings[a] + (IF a = Gained(l) THEN q ELSE 0)
                                                       - (IF a = Spent(l) THEN q ELSE 0) - c
    BY StrategyAssumption DEF Trade
  <1>2. holdings[a] \in Int /\ fees[a] \in Nat
    BY DEF TypeInv, TriTypeOK
  <1>3. Gross[a] = holdings[a] + fees[a] /\ Gross'[a] = holdings'[a] + fees'[a]
    BY DEF Gross
  <1> QED BY <1>1, <1>2, <1>3

\* A cycle starts with the probe in A.
LEMMA GrossBegin ==
    ASSUME TypeInv, TriBegin
    PROVE  Gross = [a \in Assets |-> 0] /\ Gross' = [Gross EXCEPT !["A"] = Probe]
  <1>1. holdings = [a \in Assets |-> 0] /\ fees = [a \in Assets |-> 0]
    BY DEF TypeInv, Progress, TriBegin
  <1>2. holdings' = [holdings EXCEPT !["A"] = Probe] /\ fees' = fees
    BY DEF TriBegin
  <1>3. Gross = [a \in Assets |-> 0]
    BY <1>1 DEF Gross
  <1>4. \A a \in Assets : holdings'[a] + fees'[a] = IF a = "A" THEN Probe ELSE 0
    BY <1>1, <1>2, StrategyAssumption
  <1>5. Gross' = [a \in Assets |-> IF a = "A" THEN Probe ELSE 0]
    BY <1>4 DEF Gross
  <1> QED BY <1>3, <1>5

LEMMA LegAssets ==
    ASSUME direction \in {"forward", "reverse"}, NEW i \in 1 .. 3
    PROVE  Spent(Leg(i)) \in Assets /\ Gained(Leg(i)) \in Assets
  BY Chain DEF Assets

\* A leg spends neither what a later leg spends nor, after leg 1, any A.
LEMMA LegsApart ==
    ASSUME direction \in {"forward", "reverse"}, NEW i \in 1 .. 3, NEW j \in 1 .. 3, i # j
    PROVE  Spent(Leg(i)) # Spent(Leg(j))
  BY Chain

LEMMA CoveredInit == TriInit => Covered
  BY DEF TriInit, Covered

\* A late fill in a state whose resting orders are legs that answered.
LEMMA CoveredLateFill ==
    ASSUME TypeInv, Covered, LateFill
    PROVE  Covered'
  <1>0. UNCHANGED <<direction, triPhase, order, fills, running, undone>>
    BY DEF LateFill
  <1>1. SUFFICES ASSUME triPhase \in {"legs", "completed"}
                 PROVE  OnlyAnsweredLegsRest' /\ ACovered'
                        /\ (triPhase = "legs" => NextLegsCovered')
    BY <1>0 DEF Covered
  <1>2. OnlyAnsweredLegsRest /\ ACovered /\ (triPhase = "legs" => NextLegsCovered)
    BY <1>1 DEF Covered
  <1>3. PICK o \in Orders : /\ resting[o] > 0
                            /\ \E q \in 1 .. resting[o] : Trade(OrderLeg(o), q) /\ late' = late + q
                            /\ resting' = [resting EXCEPT ![o] = 0]
    BY DEF LateFill
  <1>4. PICK q \in 1 .. resting[o] : Trade(OrderLeg(o), q)
    BY <1>3
  <1>5. o[1] = "leg" /\ o[2] \in 1 .. 3 /\ o[2] <= Len(fills) /\ o = <<"leg", o[2]>>
    <2>1. resting[o] # 0
      BY <1>3
    <2>2. o[1] = "leg" /\ o[2] <= Len(fills)
      BY <1>2, <2>1 DEF OnlyAnsweredLegsRest
    <2> QED BY <2>2 DEF Orders
  <1> DEFINE i == o[2]
  <1>6. OrderLeg(o) = Leg(i)
    BY <1>5 DEF OrderLeg
  <1>d. direction \in {"forward", "reverse"} /\ Gross \in [Assets -> Int]
          /\ resting \in [Orders -> 0 .. Probe]
    BY GrossType DEF TypeInv, TriTypeOK
  <1>7. resting[o] \in Nat /\ q \in Nat /\ q <= resting[o]
    BY <1>3, <1>4, <1>d, StrategyAssumption
  <1>8. OnlyAnsweredLegsRest'
    BY <1>0, <1>2, <1>3, <1>d DEF OnlyAnsweredLegsRest
  <1>9. ACovered'
    <2>1. Gross'["A"] = Gross["A"] + (IF "A" = Gained(Leg(i)) THEN q ELSE 0)
                                         - (IF "A" = Spent(Leg(i)) THEN q ELSE 0)
      BY <1>4, <1>6, <1>7, TradeAt DEF Assets
    <2>2. Gross["A"] \in Int /\ <<"leg", 1>> \in Orders
      BY <1>d DEF Assets, Orders
    <2>3. Gross["A"] >= resting[<<"leg", 1>>] + (IF triPhase = "completed" THEN running ELSE 0)
      BY <1>2 DEF ACovered
    <2>n. resting[<<"leg", 1>>] \in Int /\ running \in Int
      BY <1>d, <2>2, StrategyAssumption DEF TypeInv, TriTypeOK
    <2>4. CASE i = 1
      <3>1. "A" # Gained(Leg(i)) /\ "A" = Spent(Leg(i))
        BY <1>d, <2>4, Chain
      <3>2. Gross'["A"] = Gross["A"] - q
        BY <2>1, <2>2, <1>7, <3>1
      <3>3. o = <<"leg", 1>> /\ resting'[<<"leg", 1>>] = 0
        BY <1>3, <1>5, <1>d, <2>2, <2>4
      <3> QED BY <1>0, <1>7, <2>2, <2>3, <2>n, <3>2, <3>3 DEF ACovered
    <2>5. CASE i # 1
      <3>1. "A" # Spent(Leg(i))
        BY <1>d, <1>5, <2>5, Chain
      <3>2. Gross'["A"] >= Gross["A"] /\ Gross'["A"] \in Int
        BY <2>1, <2>2, <1>7, <3>1
      <3>3. o # <<"leg", 1>>
        BY <1>5, <2>5
      <3>4. resting'[<<"leg", 1>>] = resting[<<"leg", 1>>]
        BY <1>3, <1>d, <2>2, <3>3
      <3> QED BY <1>0, <2>2, <2>3, <2>n, <3>2, <3>4 DEF ACovered
    <2> QED BY <2>4, <2>5
  <1>10. ASSUME triPhase = "legs" PROVE NextLegsCovered'
    <2> SUFFICES ASSUME NEW j \in 1 .. 3, j > Len(fills)
                 PROVE  Gross'[Spent(Leg(j))] >= Gross[Spent(Leg(j))]
      <3>1. NextLegsCovered
        BY <1>2, <1>10
      <3>2. \A j \in 1 .. 3 : Leg(j)' = Leg(j)
        BY <1>0 DEF Leg
      <3>3. \A j \in 1 .. 3 : Gross[Spent(Leg(j))] \in Int /\ Gross'[Spent(Leg(j))] \in Int
        <4>1. Gross' \in [Assets -> Int]
          BY <1>4, <1>7, TradeType DEF TypeInv, Gross
        <4> QED BY <4>1, <1>d, LegAssets
      <3>4. Len(fills) \in Int /\ order \in Int
        BY StrategyAssumption DEF TypeInv, TriTypeOK
      <3> QED BY <1>0, <3>1, <3>2, <3>3, <3>4 DEF NextLegsCovered
    <2>1. i # j
      BY <1>5, LenInt DEF TypeInv, TriTypeOK
    <2>2. Spent(Leg(j)) # Spent(Leg(i)) /\ Spent(Leg(j)) \in Assets
      BY <1>5, <1>d, <2>1, LegsApart, LegAssets
    <2>3. Gross[Spent(Leg(j))] \in Int
      BY <1>d, <2>2
    <2>4. Gross'[Spent(Leg(j))] = Gross[Spent(Leg(j))]
                     + (IF Spent(Leg(j)) = Gained(Leg(i)) THEN q ELSE 0)
                     - (IF Spent(Leg(j)) = Spent(Leg(i)) THEN q ELSE 0)
      BY <1>4, <1>6, <1>7, <2>2, TradeAt
    <2> QED BY <1>7, <2>2, <2>3, <2>4
  <1> QED BY <1>8, <1>9, <1>10

\* A cycle starts with the whole probe in A and nothing resting.
LEMMA CoveredBegin ==
    ASSUME TypeInv, TriBegin
    PROVE  Covered'
  <1>1. /\ fills = <<>> /\ Gross = [a \in Assets |-> 0] /\ resting = [o \in Orders |-> 0]
    BY GrossBegin DEF TypeInv, Progress, TriBegin
  <1>2. /\ direction' \in {"forward", "reverse"} /\ running' = Probe
        /\ Gross' = [Gross EXCEPT !["A"] = Probe]
        /\ OrderLegOrComplete(1, Probe)
        /\ UNCHANGED <<fills, undone, resting, late>>
    BY GrossBegin DEF TriBegin
  <1>3. triPhase' = "legs" /\ order' = Probe
    BY <1>2, StrategyAssumption DEF OrderLegOrComplete
  <1>4. fills' = <<>> /\ resting' = [o \in Orders |-> 0] /\ Len(fills') = 0
    BY <1>1, <1>2
  <1>5. Gross'["A"] = Probe /\ \A a \in Assets : Gross'[a] >= 0
    BY <1>1, <1>2, StrategyAssumption DEF Assets
  <1>6. OnlyAnsweredLegsRest'
    BY <1>4 DEF OnlyAnsweredLegsRest
  <1>7. ACovered'
    <2>1. resting'[<<"leg", 1>>] = 0
      BY <1>4 DEF Orders
    <2> QED BY <1>3, <1>5, <2>1, StrategyAssumption DEF ACovered
  <1>8. NextLegsCovered'
    <2>1. \A j \in 1 .. 3 : Leg(j)' = Plan[direction'][j]
      BY DEF Leg
    <2>2. Spent(Plan[direction'][1]) = "A"
           /\ \A j \in 1 .. 3 : Spent(Plan[direction'][j]) \in Assets
      BY <1>2, PlanChain DEF Assets
    <2>3. \A j \in 1 .. 3 : Gross'[Spent(Leg(j)')] >= 0
      BY <1>5, <2>1, <2>2
    <2>4. Gross'[Spent(Leg(1)')] = Probe
      BY <1>5, <2>1, <2>2
    <2>5. \A j \in 1 .. 3 : j = 0 + 1 => Gross'[Spent(Leg(j)')] >= Probe
      BY <2>4, StrategyAssumption
    <2> QED BY <1>3, <1>4, <2>3, <2>5 DEF NextLegsCovered
  <1> QED BY <1>6, <1>7, <1>8 DEF Covered

\* A leg that fills: what it gained covers the next leg or the report, what it left
\* unspent covers what may still fill.
LEMMA CoveredLegFills ==
    ASSUME TypeInv, Covered, LegFills
    PROVE  Covered'
  <1> DEFINE i == Len(fills) + 1
  <1>1. PICK r \in Answers(order) :
          /\ fills' = Append(fills, r)
          /\ running' = CarriedForward(i, r)
          /\ Trade(Leg(i), r.filled)
          /\ resting' = [resting EXCEPT ![<<"leg", i>>] =
                            IF r.kind = "open" THEN MayRest(order - r.filled) ELSE 0]
          /\ OrderLegOrComplete(i + 1, CarriedForward(i, r))
    BY DEF LegFills
  <1> DEFINE f == r.filled
             c == CarriedForward(i, r)
             v == IF r.kind = "open" THEN MayRest(order - f) ELSE 0
  <1>2. triPhase = "legs" /\ UNCHANGED <<direction, undone, late>>
    BY DEF LegFills
  <1>3. OnlyAnsweredLegsRest /\ ACovered /\ NextLegsCovered
    BY <1>2 DEF Covered
  <1>d. direction \in {"forward", "reverse"} /\ Gross \in [Assets -> Int]
          /\ resting \in [Orders -> 0 .. Probe] /\ order \in 0 .. Probe /\ fills \in Seq(Fill)
    BY GrossType DEF TypeInv, TriTypeOK
  <1>n. i \in 1 .. 3 /\ Len(fills) \in 0 .. 2
    <2>1. Len(fills) \in Nat /\ Len(fills) <= 2
      BY <1>2, <1>d, LenInt DEF TypeInv, Progress
    <2>2. Len(fills) \in 0 .. 2
      BY <2>1, Between
    <2> QED BY <2>2, TwoMore
  <1>l. Len(fills') = i
    <2>1. r \in Fill
      BY <1>d, AnswerType
    <2> QED BY <1>1, <1>d, <2>1
  <1>q. f \in Nat /\ f <= order /\ order \in Nat /\ v \in Nat /\ v <= order - f
    <2>1. f \in 0 .. order /\ order \in Nat
      BY <1>d, AnswerType, StrategyAssumption
    <2>2. order - f \in 0 .. Probe
      BY <1>d, <2>1, StrategyAssumption
    <2>3. MayRest(order - f) \in 0 .. (order - f)
      BY <2>2, RestType
    <2> QED BY <2>1, <2>2, <2>3
  <1>c. c \in Nat /\ c <= f
    BY <1>q DEF CarriedForward
  <1>p. \/ triPhase' = "legs" /\ i # 3 /\ order' = c
        \/ triPhase' = "completed" /\ (i = 3 \/ c = 0)
    <2>1. OrderLegOrComplete(i + 1, c)
      BY <1>1
    <2> HIDE DEF c, i
    <2> QED BY <2>1, <1>n, <1>c DEF OrderLegOrComplete
  <1> HIDE DEF f, c, v
  <1>r. /\ <<"leg", i>> \in Orders
        /\ resting' = [resting EXCEPT ![<<"leg", i>>] = v]
        /\ resting'[<<"leg", i>>] = v
        /\ \A o \in Orders : o # <<"leg", i>> => resting'[o] = resting[o]
    BY <1>1, <1>d, <1>n DEF Orders, v, f
  <1>t. \A a \in Assets : Gross'[a] = Gross[a] + (IF a = Gained(Leg(i)) THEN f ELSE 0)
                                                     - (IF a = Spent(Leg(i)) THEN f ELSE 0)
    BY <1>1, <1>q, TradeAt DEF f
  <1>i. /\ Gross[Spent(Leg(i))] >= order
        /\ \A j \in 1 .. 3 : j >= i => Gross[Spent(Leg(j))] >= 0
    BY <1>3, <1>n DEF NextLegsCovered
  <1>4. OnlyAnsweredLegsRest'
    <2> SUFFICES ASSUME NEW o \in Orders, resting'[o] # 0
                 PROVE  o[1] = "leg" /\ o[2] <= i
      BY <1>l DEF OnlyAnsweredLegsRest
    <2>1. CASE o = <<"leg", i>>
      BY <2>1, <1>n
    <2>2. CASE o # <<"leg", i>>
      <3>1. o[1] = "leg" /\ o[2] <= Len(fills)
        BY <1>r, <1>3, <2>2 DEF OnlyAnsweredLegsRest
      <3>2. o[2] \in Int
        BY DEF Orders
      <3> QED BY <3>1, <3>2, <1>n
    <2> QED BY <2>1, <2>2
  <1>5. ACovered'
    <2>1. Gross'["A"] = Gross["A"] + (IF "A" = Gained(Leg(i)) THEN f ELSE 0)
                                         - (IF "A" = Spent(Leg(i)) THEN f ELSE 0)
      BY <1>t DEF Assets
    <2>2. Gross["A"] \in Int /\ <<"leg", 1>> \in Orders /\ resting[<<"leg", 1>>] \in Nat
      BY <1>d, StrategyAssumption DEF Assets, Orders
    <2>3. Gross["A"] >= resting[<<"leg", 1>>]
      BY <1>2, <1>3, <2>2 DEF ACovered
    <2>4. running' = c
      BY <1>1 DEF c
    <2>5. CASE i = 1
      <3>1. "A" = Spent(Leg(i)) /\ "A" # Gained(Leg(i))
        BY <1>d, <2>5, Chain
      <3>2. Gross'["A"] = Gross["A"] - f /\ Gross["A"] >= order
        BY <1>i, <1>q, <2>1, <2>2, <3>1
      <3>3. resting'[<<"leg", 1>>] = v /\ (triPhase' = "completed" => running' = 0)
        BY <1>r, <1>p, <2>4, <2>5
      <3> QED BY <1>q, <2>2, <3>2, <3>3 DEF ACovered
    <2>6. CASE i # 1
      <3>1. "A" # Spent(Leg(i)) /\ (i = 3 => "A" = Gained(Leg(i)))
        BY <1>d, <1>n, <2>6, Chain
      <3>2. resting'[<<"leg", 1>>] = resting[<<"leg", 1>>]
        BY <1>r, <2>2, <2>6
      <3>3. CASE i = 3
        BY <1>q, <1>c, <2>1, <2>2, <2>3, <2>4, <3>1, <3>2, <3>3 DEF ACovered
      <3>4. CASE i # 3
        <4>1. triPhase' = "completed" => running' = 0
          BY <1>p, <2>4, <3>4
        <4>2. Gross'["A"] >= Gross["A"] /\ Gross'["A"] \in Int
          BY <1>q, <2>1, <2>2, <3>1
        <4> QED BY <2>2, <2>3, <3>2, <4>1, <4>2 DEF ACovered
      <3> QED BY <3>3, <3>4
    <2> QED BY <2>5, <2>6
  <1>6. ASSUME triPhase' = "legs" PROVE NextLegsCovered'
    <2>1. i # 3 /\ order' = c
      BY <1>6, <1>p
    <2>2. \A j \in 1 .. 3 : Leg(j)' = Leg(j)
      BY <1>2 DEF Leg
    <2>3. ASSUME NEW j \in 1 .. 3, j > i
          PROVE  /\ Gross'[Spent(Leg(j))] >= 0
                 /\ j = i + 1 => Gross'[Spent(Leg(j))] >= c
      <3>1. Spent(Leg(j)) # Spent(Leg(i)) /\ Spent(Leg(j)) \in Assets
        BY <1>d, <1>n, <2>3, LegsApart, LegAssets
      <3>2. Gross[Spent(Leg(j))] \in Int /\ Gross[Spent(Leg(j))] >= 0
        BY <1>d, <1>i, <1>n, <2>3, <3>1
      <3>3. Gross'[Spent(Leg(j))] = Gross[Spent(Leg(j))]
                                       + (IF Spent(Leg(j)) = Gained(Leg(i)) THEN f ELSE 0)
        BY <1>t, <1>q, <3>1, <3>2
      <3>4. j = i + 1 => Spent(Leg(j)) = Gained(Leg(i))
        BY <1>d, <1>n, <2>1, <2>3, Chain
      <3> QED BY <1>q, <1>c, <3>2, <3>3, <3>4
    <2> QED BY <1>l, <1>n, <2>1, <2>2, <2>3 DEF NextLegsCovered
  <1> QED BY <1>4, <1>5, <1>6 DEF Covered

LEMMA CoveredStep == TypeInv /\ Covered /\ [TriNext]_triVars => Covered'
  <1> SUFFICES ASSUME TypeInv, Covered, [TriNext]_triVars PROVE Covered'
    OBVIOUS
  <1>1. CASE TriBegin
    BY <1>1, CoveredBegin
  <1>2. CASE LegFills
    BY <1>2, CoveredLegFills
  <1>3. CASE LateFill
    BY <1>3, CoveredLateFill
  <1>4. CASE LegBails \/ LegRaises \/ ReversalAnswers \/ ReversalRaises \/ TriForget
    <2>1. triPhase' \notin {"legs", "completed"}
      BY <1>4 DEF LegBails, LegRaises, ReversalAnswers, ReversalRaises, TriForget, NextReversal
    <2> QED BY <2>1 DEF Covered
  <1>5. CASE UNCHANGED triVars
    <2>1. UNCHANGED <<direction, triPhase, order, fills, running, undone, holdings, fees, resting, late>>
      BY <1>5 DEF triVars
    <2>2. \A i \in 1 .. 3 : Leg(i)' = Leg(i)
      BY <2>1 DEF Leg
    <2>3. Gross' = Gross
      BY <2>1 DEF Gross
    <2> QED BY <2>1, <2>2, <2>3 DEF Covered, OnlyAnsweredLegsRest, ACovered, NextLegsCovered
  <1> QED BY <1>1, <1>2, <1>3, <1>4, <1>5 DEF TriNext, TriStep

\* A leg orders no more than the cycle holds and its fees took, for every probe and
\* every fee, whatever is filled of the legs before it and however late.
THEOREM LegsAreCovered == TriSpec => []LegsOverspendOnlyFees
  <1>1. TypeInv /\ Covered => LegsOverspendOnlyFees
    <2> SUFFICES ASSUME TypeInv, Covered, triPhase = "legs"
                 PROVE  LET s == Spent(Leg(Len(fills) + 1)) IN order <= holdings[s] + fees[s]
      BY DEF LegsOverspendOnlyFees
    <2>1. direction \in {"forward", "reverse"} /\ Gross \in [Assets -> Int]
            /\ order \in 0 .. Probe /\ fills \in Seq(Fill) /\ Len(fills) <= 2
      BY GrossType DEF TypeInv, TriTypeOK, Progress
    <2>2. Len(fills) + 1 \in 1 .. 3
      BY <2>1, LenInt, Between, TwoMore
    <2>3. Gross[Spent(Leg(Len(fills) + 1))] >= order
      BY <2>2 DEF Covered, NextLegsCovered
    <2>4. Spent(Leg(Len(fills) + 1)) \in Assets /\ order \in Int
      BY <2>1, <2>2, LegAssets, StrategyAssumption
    <2>5. Gross[Spent(Leg(Len(fills) + 1))] \in Int
      BY <2>1, <2>4
    <2>6. Gross[Spent(Leg(Len(fills) + 1))]
            = holdings[Spent(Leg(Len(fills) + 1))] + fees[Spent(Leg(Len(fills) + 1))]
      BY <2>4 DEF Gross
    <2> QED BY <2>3, <2>4, <2>5, <2>6
  <1> QED BY <1>1, TypeInvariant, CoveredInit, CoveredStep, PTL DEF TriSpec

\* The profit a completed cycle reports is more than what it gained by no more than
\* the fees.
THEOREM ProfitIsHeldUpToFees == TriSpec => []ProfitOverstatedOnlyByFees
  <1>1. TypeInv /\ Covered => ProfitOverstatedOnlyByFees
    <2> SUFFICES ASSUME TypeInv, Covered, triPhase = "completed"
                 PROVE  running <= holdings["A"] + fees["A"]
      BY DEF ProfitOverstatedOnlyByFees
    <2>1. Gross["A"] \in Int /\ running \in Int /\ resting[<<"leg", 1>>] \in Nat
      <3>1. "A" \in Assets /\ <<"leg", 1>> \in Orders
        BY DEF Assets, Orders
      <3> QED BY <3>1, GrossType, StrategyAssumption DEF TypeInv, TriTypeOK
    <2>2. Gross["A"] >= resting[<<"leg", 1>>] + running
      BY DEF Covered, ACovered
    <2>3. Gross["A"] = holdings["A"] + fees["A"]
      BY DEF Gross, Assets
    <2> QED BY <2>1, <2>2, <2>3
  <1> QED BY <1>1, TypeInvariant, CoveredInit, CoveredStep, PTL DEF TriSpec

-----------------------------------------------------------------------------
(* A cycle that filled in full holds its stake, and only that.             *)
(* While no order filled late, the whole probe sits in the asset the next  *)
(* leg spends as long as every leg filled in full, and a rollback whose    *)
(* reversals filled in full takes it back one asset at a time.             *)

Stake(a) == [x \in Assets |-> IF x = a THEN Probe ELSE 0]

WholeUpTo(n)    == \A i \in 1 .. n : FilledInFull(i)
AllTheProbe(n)  == \A i \in 1 .. n : fills[i].filled = Probe

LegsHoldTheStake ==
    triPhase = "legs" /\ WholeUpTo(Len(fills)) =>
        /\ order = Probe
        /\ Gross = Stake(Spent(Leg(Len(fills) + 1)))
        /\ AllTheProbe(Len(fills))

EndsHoldA ==
    \/ triPhase = "completed" /\ WholeUpTo(Len(fills))
    \/ triPhase = "aborted" /\ FailedCleanly
    => Gross = Stake("A")

RollbackHoldsTheStake ==
    (/\ triPhase \in {"rollback", "rolled_back"}
     /\ FailedCleanly /\ UndoneInFull /\ WholeUpTo(Len(fills) - 1)) =>
        /\ Gross = Stake(Spent(Leg(Len(fills) - Len(undone))))
        /\ AllTheProbe(Len(fills) - 1)

StakeInv ==
    /\ triPhase \in {"rollback", "rolled_back"} => Len(undone) <= Len(fills) - 1
    /\ triPhase = "rolled_back" => Len(undone) = Len(fills) - 1
    /\ late = 0 => LegsHoldTheStake /\ EndsHoldA /\ RollbackHoldsTheStake

\* A leg leads from the asset it spends to the one the next leg spends, at the end A.
LEMMA LegLeads ==
    ASSUME direction \in {"forward", "reverse"}, NEW i \in 1 .. 3
    PROVE  /\ Spent(Leg(i)) # Gained(Leg(i))
           /\ i # 3 => Gained(Leg(i)) = Spent(Leg(i + 1))
           /\ i = 3 => Gained(Leg(i)) = "A"
           /\ i = 1 => Spent(Leg(i)) = "A"
  <1>1. CASE i = 1
    BY <1>1, Chain
  <1>2. CASE i = 2
    BY <1>2, Chain
  <1>3. CASE i = 3
    BY <1>3, Chain
  <1> QED BY <1>1, <1>2, <1>3

\* Its reversal leads back.
LEMMA ReverseLeads ==
    ASSUME direction \in {"forward", "reverse"}, NEW i \in 1 .. 3
    PROVE  /\ Spent(Reverse(Leg(i))) = Gained(Leg(i))
           /\ Gained(Reverse(Leg(i))) = Spent(Leg(i))
  <1>1. Leg(i) \in [side : {"buy", "sell"}, base : Assets, quote : Assets]
    <2>1. CASE direction = "forward"
      BY <2>1 DEF Leg, Plan, Buy, Sell, Assets
    <2>2. CASE direction = "reverse"
      BY <2>2 DEF Leg, Plan, Buy, Sell, Assets
    <2> QED BY <2>1, <2>2
  <1>2. ASSUME NEW l \in [side : {"buy", "sell"}, base : Assets, quote : Assets]
        PROVE  /\ Spent(Reverse(l)) = Gained(l)
               /\ Gained(Reverse(l)) = Spent(l)
    BY DEF Spent, Gained, Reverse
  <1> QED BY <1>1, <1>2

\* The stake moves with a trade of the whole probe, and stays with none.
LEMMA StakeMoves ==
    ASSUME TypeInv, NEW l, Trade(l, Probe), Gross = Stake(Spent(l)), Spent(l) # Gained(l)
    PROVE  Gross' = Stake(Gained(l))
  <1>1. \A a \in Assets : Gross'[a] = Gross[a] + (IF a = Gained(l) THEN Probe ELSE 0)
                                             - (IF a = Spent(l) THEN Probe ELSE 0)
    BY StrategyAssumption, TradeAt
  <1>2. \A a \in Assets : Gross'[a] = Stake(Gained(l))[a]
    BY <1>1, StrategyAssumption DEF Stake
  <1> QED BY <1>2 DEF Gross, Stake

LEMMA StakeStays ==
    ASSUME TypeInv, NEW l, Trade(l, 0)
    PROVE  Gross' = Gross
  <1>1. \A a \in Assets : Gross[a] \in Int
    BY GrossType
  <1>2. \A a \in Assets : Gross'[a] = Gross[a]
    BY <1>1, TradeAt
  <1> QED BY <1>2 DEF Gross

LEMMA StakeInvInit == TriInit => StakeInv
  BY DEF TriInit, StakeInv, LegsHoldTheStake, EndsHoldA, RollbackHoldsTheStake

\* A leg's answer is appended to those before it.
LEMMA LastFill ==
    ASSUME NEW S, NEW s \in Seq(S), NEW x \in S, NEW t, t = Append(s, x)
    PROVE  /\ Len(t) = Len(s) + 1 /\ t[Len(s) + 1] = x
           /\ \A i \in 1 .. Len(s) : t[i] = s[i]
           /\ t # <<>>
  OBVIOUS

LEMMA StakeBegin ==
    ASSUME TypeInv, TriBegin
    PROVE  StakeInv'
  <1>1. fills = <<>> /\ Gross = [a \in Assets |-> 0]
    BY GrossBegin DEF TypeInv, Progress, TriBegin
  <1>2. /\ direction' \in {"forward", "reverse"} /\ Gross' = [Gross EXCEPT !["A"] = Probe]
        /\ triPhase' = "legs" /\ order' = Probe /\ fills' = <<>>
    BY <1>1, GrossBegin, StrategyAssumption DEF TriBegin, OrderLegOrComplete
  <1>3. Spent(Leg(1))' = "A"
    BY <1>2, PlanChain DEF Leg
  <1>4. Gross' = Stake("A")
    BY <1>1, <1>2 DEF Stake, Assets
  <1>5. Len(fills') = 0
    BY <1>2
  <1>6. LegsHoldTheStake'
    BY <1>2, <1>3, <1>4, <1>5 DEF LegsHoldTheStake, AllTheProbe
  <1> QED BY <1>2, <1>6 DEF StakeInv, EndsHoldA, RollbackHoldsTheStake

LEMMA StakeLegFills ==
    ASSUME TypeInv, StakeInv, LegFills
    PROVE  StakeInv'
  <1> DEFINE i == Len(fills) + 1
  <1>1. PICK r \in Answers(order) :
          /\ fills' = Append(fills, r)
          /\ Trade(Leg(i), r.filled)
          /\ OrderLegOrComplete(i + 1, CarriedForward(i, r))
    BY DEF LegFills
  <1>2. triPhase = "legs" /\ UNCHANGED <<direction, undone, late>>
    BY DEF LegFills
  <1>3. triPhase' \in {"legs", "completed"}
    BY <1>1 DEF OrderLegOrComplete
  <1>d. direction \in {"forward", "reverse"} /\ Gross \in [Assets -> Int]
          /\ order \in 0 .. Probe /\ fills \in Seq(Fill)
    BY GrossType DEF TypeInv, TriTypeOK
  <1>n. i \in 1 .. 3 /\ Len(fills) \in 0 .. 2
    <2>1. Len(fills) \in Nat /\ Len(fills) <= 2
      BY <1>2, <1>d, LenInt DEF TypeInv, Progress
    <2>2. Len(fills) \in 0 .. 2
      BY <2>1, Between
    <2> QED BY <2>2, TwoMore
  <1>r. r \in Fill /\ r.amount = order
    BY <1>d, AnswerType
  <1>l. Len(fills') = i /\ fills'[i] = r /\ \A j \in 1 .. Len(fills) : fills'[j] = fills[j]
    BY <1>1, <1>d, <1>r, LastFill
  <1>4. ASSUME late' = 0, WholeUpTo(Len(fills))'
        PROVE  /\ Gross' = Stake(Gained(Leg(i)))
               /\ \/ triPhase' = "legs" /\ i # 3 /\ order' = Probe
                  \/ triPhase' = "completed" /\ i = 3
               /\ \A j \in 1 .. i : fills'[j].filled = Probe
    <2>1. \A j \in 1 .. i : fills'[j].filled = fills'[j].amount /\ fills'[j].price = "known"
      BY <1>4, <1>l DEF WholeUpTo, FilledInFull
    <2>2. WholeUpTo(Len(fills))
      BY <2>1, <1>l, <1>n DEF WholeUpTo, FilledInFull
    <2>3. order = Probe /\ Gross = Stake(Spent(Leg(i))) /\ AllTheProbe(Len(fills))
      BY <2>2, <1>2, <1>4 DEF StakeInv, LegsHoldTheStake
    <2>4. r.filled = Probe /\ r.price = "known"
      BY <2>1, <2>3, <1>l, <1>n, <1>r
    <2>5. CarriedForward(i, r) = Probe
      BY <2>4 DEF CarriedForward
    <2>6. Spent(Leg(i)) # Gained(Leg(i))
      BY <1>d, <1>n, LegLeads
    <2>7. Gross' = Stake(Gained(Leg(i)))
      BY <1>1, <2>3, <2>4, <2>6, StakeMoves
    <2>8. OrderLegOrComplete(i + 1, Probe)
      BY <1>1, <2>5
    <2>9. \/ triPhase' = "legs" /\ i # 3 /\ order' = Probe
          \/ triPhase' = "completed" /\ i = 3
      <3> HIDE DEF i
      <3>1. Probe > 0
        BY StrategyAssumption
      <3>2. CASE i = 3
        BY <2>8, <3>2 DEF OrderLegOrComplete
      <3>3. CASE i # 3
        <4>1. i + 1 <= 3
          BY <3>3, <1>n
        <4> QED BY <2>8, <3>1, <3>3, <4>1 DEF OrderLegOrComplete
      <3> QED BY <3>2, <3>3
    <2>10. \A j \in 1 .. i : fills'[j].filled = Probe
      <3> SUFFICES ASSUME NEW j \in 1 .. i PROVE fills'[j].filled = Probe
        OBVIOUS
      <3>1. CASE j = i
        BY <3>1, <1>l, <2>4
      <3>2. CASE j # i
        <4>1. j \in 1 .. Len(fills)
          BY <3>2, <1>n
        <4> QED BY <4>1, <1>l, <2>3 DEF AllTheProbe
      <3> QED BY <3>1, <3>2
    <2> QED BY <2>7, <2>9, <2>10
  <1>5. ASSUME late' = 0 PROVE LegsHoldTheStake'
    <2> SUFFICES ASSUME triPhase' = "legs", WholeUpTo(Len(fills))'
                 PROVE  /\ order' = Probe
                        /\ Gross' = Stake(Spent(Leg(Len(fills) + 1)))'
                        /\ AllTheProbe(Len(fills))'
      BY DEF LegsHoldTheStake
    <2>1. i # 3 /\ order' = Probe /\ Gross' = Stake(Gained(Leg(i)))
      BY <1>4, <1>5
    <2>2. Gained(Leg(i)) = Spent(Leg(i + 1))
      BY <2>1, <1>d, <1>n, LegLeads
    <2>3. Leg(Len(fills) + 1)' = Leg(i + 1)
      BY <1>2, <1>l DEF Leg
    <2>4. AllTheProbe(Len(fills))'
      BY <1>4, <1>5, <1>l DEF AllTheProbe
    <2>5. Stake(Spent(Leg(Len(fills) + 1)))' = Stake(Spent(Leg(i + 1)))
      BY <2>3 DEF Stake, Spent
    <2> QED BY <2>1, <2>2, <2>4, <2>5
  <1>6. ASSUME late' = 0 PROVE EndsHoldA'
    <2> SUFFICES ASSUME WholeUpTo(Len(fills))', triPhase' = "completed"
                 PROVE  Gross' = Stake("A")
      BY <1>3 DEF EndsHoldA, Stake
    <2>1. i = 3 /\ Gross' = Stake(Gained(Leg(i)))
      BY <1>4, <1>6
    <2> QED BY <2>1, <1>d, <1>n, LegLeads
  <1> QED BY <1>3, <1>5, <1>6 DEF StakeInv, RollbackHoldsTheStake

LEMMA StakeLegBails ==
    ASSUME TypeInv, StakeInv, LegBails
    PROVE  StakeInv'
  <1> DEFINE i == Len(fills) + 1
  <1>1. PICK r \in Answers(order) :
          /\ fills' = Append(fills, r)
          /\ Trade(Leg(i), r.filled)
          /\ IF i = 1 THEN triPhase' = "aborted" ELSE triPhase' = "rollback"
    BY DEF LegBails
  <1>2. triPhase = "legs" /\ UNCHANGED <<direction, undone, late>> /\ undone = <<>>
    BY DEF LegBails, TypeInv, Progress
  <1>d. direction \in {"forward", "reverse"} /\ Gross \in [Assets -> Int]
          /\ order \in 0 .. Probe /\ fills \in Seq(Fill)
    BY GrossType DEF TypeInv, TriTypeOK
  <1>n. i \in 1 .. 3 /\ Len(fills) \in 0 .. 2
    <2>1. Len(fills) \in Nat /\ Len(fills) <= 2
      BY <1>2, <1>d, LenInt DEF TypeInv, Progress
    <2>2. Len(fills) \in 0 .. 2
      BY <2>1, Between
    <2> QED BY <2>2, TwoMore
  <1>r. r \in Fill
    BY <1>d, AnswerType
  <1>l. Len(fills') = i /\ fills'[i] = r /\ \A j \in 1 .. Len(fills) : fills'[j] = fills[j]
    BY <1>1, <1>d, <1>r, LastFill
  <1>u. Len(undone') = 0
    BY <1>2
  <1>w. i - 1 = Len(fills) /\ i - 0 = i
    BY <1>n
  <1>4. ASSUME FailedCleanly', WholeUpTo(Len(fills) - 1)'
        PROVE  Gross' = Stake(Spent(Leg(i))) /\ AllTheProbe(Len(fills) - 1)'
    <2>1. late = 0 /\ r.filled = 0
      BY <1>2, <1>4, <1>l DEF FailedCleanly
    <2>2. WholeUpTo(Len(fills))
      BY <1>4, <1>l, <1>w DEF WholeUpTo, FilledInFull
    <2>3. Gross = Stake(Spent(Leg(i))) /\ AllTheProbe(Len(fills))
      BY <2>1, <2>2, <1>2 DEF StakeInv, LegsHoldTheStake
    <2>4. Gross' = Gross
      BY <1>1, <1>d, <2>1, StakeStays
    <2> QED BY <2>3, <2>4, <1>l, <1>w DEF AllTheProbe
  <1>5. EndsHoldA'
    <2> SUFFICES ASSUME triPhase' = "aborted", FailedCleanly'
                 PROVE  Gross' = Stake("A")
      BY <1>1 DEF EndsHoldA, Stake
    <2>1. i = 1
      BY <1>1
    <2>2. WholeUpTo(Len(fills) - 1)'
      BY <1>l, <2>1 DEF WholeUpTo
    <2>3. Spent(Leg(1)) = "A"
      BY <1>d, Chain
    <2> QED BY <1>4, <2>1, <2>2, <2>3
  <1>6. RollbackHoldsTheStake'
    <2> SUFFICES ASSUME FailedCleanly', WholeUpTo(Len(fills) - 1)'
                 PROVE  /\ Gross' = Stake(Spent(Leg(Len(fills) - Len(undone))))'
                        /\ AllTheProbe(Len(fills) - 1)'
      BY DEF RollbackHoldsTheStake
    <2>1. Leg(Len(fills) - Len(undone))' = Leg(i)
      BY <1>2, <1>l, <1>u, <1>w DEF Leg
    <2>2. Stake(Spent(Leg(Len(fills) - Len(undone))))' = Stake(Spent(Leg(i)))
      BY <2>1 DEF Stake, Spent
    <2> QED BY <1>4, <2>2
  <1>7. LegsHoldTheStake'
    BY <1>1 DEF LegsHoldTheStake
  <1>8. Len(undone') <= Len(fills') - 1
    BY <1>l, <1>u, <1>n
  <1>9. triPhase' # "rolled_back"
    BY <1>1
  <1> QED BY <1>5, <1>6, <1>7, <1>8, <1>9 DEF StakeInv

\* One more reversal was answered, or raised and counts for nothing.
LEMMA StakeReversal ==
    ASSUME TypeInv, StakeInv, triPhase = "rollback", NEW q \in 0 .. Probe,
           undone' = Append(undone, q), NextReversal, UNCHANGED <<direction, fills, late>>,
           Trade(Reverse(Leg(UndoIndex(Len(fills), Len(undone)))), q) \/ q = 0
    PROVE  StakeInv'
  <1> DEFINE i == UndoIndex(Len(fills), Len(undone))
  <1>p. Probe \in Nat \ {0}
    BY StrategyAssumption
  <1>d. direction \in {"forward", "reverse"} /\ fills \in Seq(Fill) /\ Len(fills) \in 0 .. 3
          /\ undone \in Seq(0 .. Probe) /\ Len(undone) \in 0 .. 2
    BY SeqBound DEF TypeInv, TriTypeOK
  <1>n. /\ Len(undone) < Len(fills) - 1
        /\ i \in 1 .. 2 /\ i \in 1 .. 3 /\ i \in 1 .. Len(fills) - 1 /\ i # 3
        /\ i = Len(fills) - (Len(undone) + 1) /\ i + 1 = Len(fills) - Len(undone)
    <2>1. Len(undone) < Len(fills) - 1
      BY DEF TypeInv, Progress
    <2>2. ASSUME NEW f \in 0 .. 3, NEW u \in 0 .. 2, u < f - 1
          PROVE  /\ f - 1 - u \in 1 .. 2 /\ f - 1 - u \in 1 .. 3 /\ f - 1 - u \in 1 .. f - 1
                 /\ f - 1 - u # 3
                 /\ f - 1 - u = f - (u + 1) /\ f - 1 - u + 1 = f - u
      BY <2>2
    <2> QED BY <2>1, <2>2, <1>d DEF UndoIndex
  <1>l. Len(undone') = Len(undone) + 1 /\ undone'[Len(undone) + 1] = q
          /\ \A k \in 1 .. Len(undone) : undone'[k] = undone[k]
    BY <1>d, LastFill
  <1>h. \/ triPhase' = "rollback" /\ Len(undone) + 1 < Len(fills) - 1
        \/ triPhase' = "rolled_back" /\ ~(Len(undone) + 1 < Len(fills) - 1)
    BY DEF NextReversal
  <1>1. Len(undone') <= Len(fills') - 1
          /\ (triPhase' = "rolled_back" => Len(undone') = Len(fills') - 1)
    <2>1. ASSUME NEW f \in 0 .. 3, NEW u \in 0 .. 2, u < f - 1
          PROVE  u + 1 <= f - 1 /\ (~(u + 1 < f - 1) => u + 1 = f - 1)
      BY <2>1
    <2> QED BY <2>1, <1>d, <1>n, <1>l, <1>h
  <1>2. ASSUME FailedCleanly', UndoneInFull', WholeUpTo(Len(fills) - 1)'
        PROVE  Gross' = Stake(Spent(Leg(i))) /\ AllTheProbe(Len(fills) - 1)'
    <2>1. late = 0 /\ FailedCleanly /\ WholeUpTo(Len(fills) - 1)
      BY <1>2 DEF FailedCleanly, WholeUpTo, FilledInFull
    <2>2. \A k \in 1 .. Len(undone) + 1 : undone'[k] = fills[UndoIndex(Len(fills), k - 1)].filled
      BY <1>2, <1>l DEF UndoneInFull, UndoIndex
    <2>3. UndoneInFull
      BY <2>2, <1>l, <1>d DEF UndoneInFull
    <2>4. Gross = Stake(Spent(Leg(i + 1))) /\ AllTheProbe(Len(fills) - 1)
      BY <2>1, <2>3, <1>n DEF StakeInv, RollbackHoldsTheStake
    <2>5. q = fills[i].filled
      <3>1. Len(undone) + 1 \in 1 .. Len(undone) + 1 /\ (Len(undone) + 1) - 1 = Len(undone)
        BY <1>d
      <3> QED BY <2>2, <3>1, <1>l
    <2>6. q = Probe /\ q # 0
      BY <2>4, <2>5, <1>n, <1>p DEF AllTheProbe
    <2>7. /\ Spent(Reverse(Leg(i))) = Spent(Leg(i + 1))
          /\ Gained(Reverse(Leg(i))) = Spent(Leg(i))
          /\ Spent(Reverse(Leg(i))) # Gained(Reverse(Leg(i)))
      <3> HIDE DEF i
      <3>1. Spent(Leg(i)) # Gained(Leg(i)) /\ Gained(Leg(i)) = Spent(Leg(i + 1))
        BY <1>d, <1>n, LegLeads
      <3>2. Spent(Reverse(Leg(i))) = Gained(Leg(i)) /\ Gained(Reverse(Leg(i))) = Spent(Leg(i))
        BY <1>d, <1>n, ReverseLeads
      <3> QED BY <3>1, <3>2
    <2>8. Trade(Reverse(Leg(i)), Probe)
      BY <2>6
    <2>9. Gross = Stake(Spent(Reverse(Leg(i))))
      BY <2>4, <2>7
    <2>10. Gross' = Stake(Gained(Reverse(Leg(i))))
      BY <2>7, <2>8, <2>9, StakeMoves
    <2> QED BY <2>4, <2>7, <2>10 DEF AllTheProbe
  <1>3. RollbackHoldsTheStake'
    <2> SUFFICES ASSUME FailedCleanly', UndoneInFull', WholeUpTo(Len(fills) - 1)'
                 PROVE  /\ Gross' = Stake(Spent(Leg(Len(fills) - Len(undone))))'
                        /\ AllTheProbe(Len(fills) - 1)'
      BY DEF RollbackHoldsTheStake
    <2>1. Leg(Len(fills) - Len(undone))' = Leg(i)
      BY <1>l, <1>n DEF Leg
    <2>2. Stake(Spent(Leg(Len(fills) - Len(undone))))' = Stake(Spent(Leg(i)))
      BY <2>1 DEF Stake, Spent
    <2> QED BY <1>2, <2>2
  <1>4. LegsHoldTheStake' /\ EndsHoldA'
    BY <1>h DEF LegsHoldTheStake, EndsHoldA
  <1> QED BY <1>1, <1>3, <1>4 DEF StakeInv

LEMMA StakeStep == TypeInv /\ StakeInv /\ [TriNext]_triVars => StakeInv'
  <1> SUFFICES ASSUME TypeInv, StakeInv, [TriNext]_triVars PROVE StakeInv'
    OBVIOUS
  <1>1. CASE TriBegin
    BY <1>1, StakeBegin
  <1>2. CASE LegFills
    BY <1>2, StakeLegFills
  <1>3. CASE LegBails
    BY <1>3, StakeLegBails
  <1>4. CASE LegRaises \/ TriForget
    <2>1. triPhase' \in {"raised", "idle"}
      BY <1>4 DEF LegRaises, TriForget
    <2> QED BY <2>1 DEF StakeInv, LegsHoldTheStake, EndsHoldA, RollbackHoldsTheStake
  <1>5. CASE ReversalAnswers
    <2>1. triPhase = "rollback" /\ NextReversal /\ UNCHANGED <<direction, fills, late>>
      BY <1>5 DEF ReversalAnswers
    <2>2. PICK r \in Answers(order) :
            /\ undone' = Append(undone, r.filled)
            /\ Trade(Reverse(Leg(UndoIndex(Len(fills), Len(undone)))), r.filled)
      BY <1>5 DEF ReversalAnswers
    <2>3. order \in 0 .. Probe
      BY DEF TypeInv, TriTypeOK
    <2>4. r.filled \in 0 .. Probe
      BY <2>3, AnswerType
    <2> QED BY <2>1, <2>2, <2>4, StakeReversal
  <1>6. CASE ReversalRaises
    <2>1. /\ triPhase = "rollback" /\ NextReversal /\ UNCHANGED <<direction, fills, late>>
          /\ undone' = Append(undone, 0)
      BY <1>6 DEF ReversalRaises
    <2>2. 0 \in 0 .. Probe
      BY StrategyAssumption
    <2> QED BY <2>1, <2>2, StakeReversal
  <1>7. CASE LateFill
    <2>1. UNCHANGED <<direction, triPhase, order, fills, running, undone>>
      BY <1>7 DEF LateFill
    <2>2. late' # 0
      <3>1. PICK o \in Orders : resting[o] > 0 /\ \E q \in 1 .. resting[o] : late' = late + q
        BY <1>7 DEF LateFill
      <3>2. late \in Nat /\ resting[o] \in Int
        BY StrategyAssumption DEF TypeInv, TriTypeOK
      <3> QED BY <3>1, <3>2
    <2> QED BY <2>1, <2>2 DEF StakeInv
  <1>8. CASE UNCHANGED triVars
    <2>1. UNCHANGED <<direction, triPhase, order, fills, running, undone, holdings, fees, resting, late>>
      BY <1>8 DEF triVars
    <2>2. Gross' = Gross
      BY <2>1 DEF Gross
    <2> QED BY <2>1, <2>2 DEF StakeInv, LegsHoldTheStake, EndsHoldA, RollbackHoldsTheStake, FailedCleanly,
                        UndoneInFull, UndoIndex, WholeUpTo, FilledInFull, AllTheProbe, Stake, Spent, Leg
  <1> QED BY <1>1, <1>2, <1>3, <1>4, <1>5, <1>6, <1>7, <1>8 DEF TriNext, TriStep

LEMMA StakeInA ==
    ASSUME TypeInv, Gross = Stake("A")
    PROVE  \A a \in Assets : holdings[a] = (IF a = "A" THEN Probe ELSE 0) - fees[a]
  <1>1. \A a \in Assets : holdings[a] \in Int /\ fees[a] \in Int
    BY DEF TypeInv, TriTypeOK
  <1>2. \A a \in Assets : holdings[a] + fees[a] = IF a = "A" THEN Probe ELSE 0
    BY DEF Gross, Stake
  <1> QED BY <1>1, <1>2, StrategyAssumption

\* A cycle whose legs all filled in full, or whose failed leg traded nothing and whose
\* reversals all filled, ends with the probe in A and nothing else, less its fees.
THEOREM FullFillsEndInA == TriSpec => []FullFillsLeaveNoPosition
  <1>1. TypeInv /\ StakeInv => FullFillsLeaveNoPosition
    <2> SUFFICES ASSUME TypeInv, StakeInv,
                        \/ triPhase = "completed" /\ late = 0 /\ WholeUpTo(Len(fills))
                        \/ triPhase \in {"rolled_back", "aborted"} /\ FailedCleanly /\ UndoneInFull
                              /\ WholeUpTo(Len(fills) - 1)
                 PROVE  Gross = Stake("A")
      BY StakeInA DEF FullFillsLeaveNoPosition, WholeUpTo
    <2>1. late = 0
      BY DEF FailedCleanly
    <2>2. CASE triPhase \in {"completed", "aborted"}
      BY <2>1, <2>2 DEF StakeInv, EndsHoldA
    <2>3. CASE triPhase = "rolled_back"
      <3>1. Len(fills) \in 0 .. 3 /\ Len(undone) \in 0 .. 2 /\ direction \in {"forward", "reverse"}
        BY SeqBound DEF TypeInv, TriTypeOK
      <3>2. Len(fills) - Len(undone) = 1
        BY <2>3, <3>1 DEF StakeInv
      <3>3. Gross = Stake(Spent(Leg(Len(fills) - Len(undone))))
        BY <2>1, <2>3 DEF StakeInv, RollbackHoldsTheStake
      <3> QED BY <3>1, <3>2, <3>3, Chain
    <2> QED BY <2>2, <2>3
  <1> QED BY <1>1, TypeInvariant, StakeInvInit, StakeStep, PTL DEF TriSpec

-----------------------------------------------------------------------------
(* The cycle in the program. *)

LEMMA InitImplements == Init => TriInit
  BY DEF Init

\* Each step is a step of the cycle or leaves all of it alone.
LEMMA StepImplements == [Next]_vars => [TriNext]_triVars
  <1> SUFFICES ASSUME [Next]_vars PROVE TriNext \/ UNCHANGED triVars
    OBVIOUS
  <1>1. CASE (Toggle \/ Loop) /\ UNCHANGED <<triVars, fundVars, makerVars>>
    BY <1>1
  <1>2. CASE TriangularStep
    <2>1. CASE Found /\ TriBegin
      BY <2>1 DEF TriNext
    <2>2. CASE CycleReturns /\ TriForget
      BY <2>2 DEF TriNext
    <2>3. CASE (TriStep \/ LateFill) /\ UNCHANGED loopVars
      BY <2>3 DEF TriNext
    <2> QED BY <1>2, <2>1, <2>2, <2>3 DEF TriangularStep
  <1>3. CASE FundingStep
    BY <1>3 DEF FundingStep
  <1>4. CASE MakerStep
    BY <1>4 DEF MakerStep
  <1>5. CASE UNCHANGED vars
    BY <1>5 DEF vars
  <1> QED BY <1>1, <1>2, <1>3, <1>4, <1>5 DEF Next

\* The composed program implements the specification of a triangular cycle.
THEOREM StrategiesImplementTriangular == Spec => TriSpec
  BY InitImplements, StepImplements, PTL DEF Spec, TriSpec

\* Under any toggling of the flags, a leg orders no more than the cycle holds and its
\* fees took.
THEOREM StrategiesLegsCovered == Spec => []LegsOverspendOnlyFees
  BY StrategiesImplementTriangular, LegsAreCovered, PTL

\* Under any toggling of the flags, a completed cycle reports at most its fees more
\* than it holds.
THEOREM StrategiesProfitHeld == Spec => []ProfitOverstatedOnlyByFees
  BY StrategiesImplementTriangular, ProfitIsHeldUpToFees, PTL

\* Under any toggling of the flags, a cycle that filled in full leaves no position.
THEOREM StrategiesLeaveNoPosition == Spec => []FullFillsLeaveNoPosition
  BY StrategiesImplementTriangular, FullFillsEndInA, PTL

-----------------------------------------------------------------------------
(* The funding hedge in the program. *)

LEMMA FundInit == Init => Fund!Init
  BY DEF Init

LEMMA FundStep == [Next]_vars => [Fund!Next]_fundVars
  <1> SUFFICES ASSUME [Next]_vars PROVE Fund!Next \/ UNCHANGED fundVars
    OBVIOUS
  <1>1. CASE (Toggle \/ Loop) /\ UNCHANGED <<triVars, fundVars, makerVars>>
    BY <1>1
  <1>2. CASE TriangularStep
    BY <1>2 DEF TriangularStep
  <1>3. CASE FundingStep
    <2>1. CASE Found /\ Fund!Begin
      BY <2>1 DEF Fund!Next
    <2>2. CASE CycleReturns /\ Fund!Forget
      BY <2>2 DEF Fund!Next
    <2>3. CASE (Fund!Step \/ Fund!Late) /\ UNCHANGED loopVars
      BY <2>3 DEF Fund!Next
    <2> QED BY <1>3, <2>1, <2>2, <2>3 DEF FundingStep
  <1>4. CASE MakerStep
    BY <1>4 DEF MakerStep
  <1>5. CASE UNCHANGED vars
    BY <1>5 DEF vars
  <1> QED BY <1>1, <1>2, <1>3, <1>4, <1>5 DEF Next

\* Until the hedge ends, what an order answered is still held and no reversal is
\* open; from then on, what is held covers the reversal that is.
AnswersHeld == \A l \in Fund!FundingLegs : position[l] >= answer[l].filled

ReversalCovered ==
    \A l \in Fund!FundingLegs : position[l] >= (IF l = reversal THEN open["reversal"] ELSE 0)

FundInv ==
    /\ Fund!FundingTypeOK
    /\ fundPhase = "idle" => \A l \in Fund!FundingLegs : answer[l] = Fund!NoAnswer
    /\ fundPhase = "reversing" => reversal \in Fund!FundingLegs
    /\ fundPhase \notin Fund!HedgeOutcomes => AnswersHeld /\ open["reversal"] = 0
    /\ fundPhase \in Fund!HedgeOutcomes => ReversalCovered

\* An answer is an order's state or an exception.
LEMMA StatesAreAnswers ==
    /\ \A r \in Fund!States : r.filled \in 0 .. Amount
    /\ Fund!NoAnswer.filled = 0 /\ Fund!RaisedLeg.filled = 0
  BY DEF Fund!States, Fund!NoAnswer, Fund!RaisedLeg

LEMMA FundInvInit == Fund!Init => FundInv
  <1> SUFFICES ASSUME Fund!Init PROVE FundInv
    OBVIOUS
  <1>1. 0 \in Int /\ 0 \in 0 .. Amount
    BY StrategyAssumption
  <1>2. /\ answer \in [Fund!FundingLegs -> Fund!States \union {Fund!NoAnswer, Fund!RaisedLeg}]
        /\ \A l \in Fund!FundingLegs : answer[l] = Fund!NoAnswer
    BY DEF Fund!Init, Fund!BothLegs
  <1>3. position \in [Fund!FundingLegs -> Int] /\ \A l \in Fund!FundingLegs : position[l] = 0
    BY <1>1 DEF Fund!Init, Fund!BothLegs
  <1>4. open \in [Fund!FundingOrders -> 0 .. Amount] /\ open["reversal"] = 0
    BY <1>1 DEF Fund!Init, Fund!NothingOpen, Fund!FundingOrders
  <1>5. AnswersHeld
    BY <1>2, <1>3, StatesAreAnswers DEF AnswersHeld
  <1> QED BY <1>2, <1>3, <1>4, <1>5 DEF Fund!Init, FundInv, Fund!FundingTypeOK, Fund!HedgeOutcomes

\* A hedge that ends with no reversal open is covered by what its orders answered.
LEMMA EndsCovered ==
    ASSUME Fund!FundingTypeOK, AnswersHeld, open["reversal"] = 0
    PROVE  ReversalCovered
  <1>1. \A l \in Fund!FundingLegs : answer[l].filled \in 0 .. Amount /\ position[l] \in Int
    BY StatesAreAnswers, StrategyAssumption DEF Fund!FundingTypeOK
  <1> QED BY <1>1, StrategyAssumption DEF AnswersHeld, ReversalCovered

\* What a late fill of either kind, or a reversal, leaves in the legs.
LEMMA OrdersApart ==
    /\ "reversal" \in Fund!FundingOrders /\ "reversal" \notin Fund!FundingLegs
    /\ Fund!FundingLegs \subseteq Fund!FundingOrders
  BY DEF Fund!FundingOrders, Fund!FundingLegs

LEMMA FundInvStep == FundInv /\ [Fund!Next]_fundVars => FundInv'
  <1> SUFFICES ASSUME FundInv, [Fund!Next]_fundVars PROVE FundInv'
    OBVIOUS
  <1>t. /\ fundPhase \in {"idle", "gather", "reversing"} \union Fund!HedgeOutcomes
        /\ answer \in [Fund!FundingLegs -> Fund!States \union {Fund!NoAnswer, Fund!RaisedLeg}]
        /\ reversal \in Fund!FundingLegs \union {"none"}
        /\ position \in [Fund!FundingLegs -> Int]
        /\ open \in [Fund!FundingOrders -> 0 .. Amount]
        /\ lateFilled \in BOOLEAN
    BY DEF FundInv, Fund!FundingTypeOK
  <1>a. Amount \in Nat \ {0}
    BY StrategyAssumption
  <1>i. \A l \in Fund!FundingLegs : answer[l].filled \in 0 .. Amount /\ position[l] \in Int
    BY <1>t, <1>a, StatesAreAnswers
  <1>r. open["reversal"] \in 0 .. Amount
    BY <1>t, OrdersApart
  \* The steps that end the hedge and move nothing.
  <1>e. ASSUME fundPhase \notin Fund!HedgeOutcomes, fundPhase' \in {"opened", "failed"},
               UNCHANGED <<answer, reversal, position, open, lateFilled>>
        PROVE  FundInv'
    <2>1. ReversalCovered
      BY <1>e, EndsCovered DEF FundInv
    <2>2. ReversalCovered'
      BY <1>e, <2>1 DEF ReversalCovered
    <2> QED BY <1>e, <1>t, <2>2 DEF FundInv, Fund!FundingTypeOK, Fund!HedgeOutcomes
  <1>1. CASE Fund!Refuse
    BY <1>1, <1>e DEF Fund!Refuse, Fund!HedgeOutcomes
  <1>2. CASE Fund!PaperHedge
    <2>1. /\ answer' \in [Fund!FundingLegs -> Fund!PaperStates]
          /\ position' = [l \in Fund!FundingLegs |-> answer'[l].filled]
          /\ fundPhase = "idle" /\ fundPhase' \in {"opened", "failed"}
          /\ UNCHANGED <<reversal, open, lateFilled>>
      BY <1>2 DEF Fund!PaperHedge, Fund!Classify
    <2>2. Fund!PaperStates \subseteq Fund!States
      BY DEF Fund!PaperStates
    <2>3. answer' \in [Fund!FundingLegs -> Fund!States]
      BY <2>1, <2>2
    <2>4. \A l \in Fund!FundingLegs : position'[l] \in 0 .. Amount
      BY <2>1, <2>3, StatesAreAnswers
    <2>5. position' \in [Fund!FundingLegs -> Int]
      BY <2>1, <2>3, <1>a, StatesAreAnswers
    <2>6. open'["reversal"] = 0
      BY <2>1 DEF FundInv, Fund!HedgeOutcomes
    <2>7. ReversalCovered'
      BY <2>4, <2>6, <1>a DEF ReversalCovered
    <2> QED BY <2>1, <2>3, <2>5, <2>7, <1>t DEF FundInv, Fund!FundingTypeOK, Fund!HedgeOutcomes
  <1>3. CASE Fund!SendBoth
    BY <1>3, <1>t DEF FundInv, AnswersHeld, Fund!FundingTypeOK, Fund!SendBoth, Fund!HedgeOutcomes
  <1>4. CASE Fund!Forget
    <2>1. /\ answer' = Fund!BothLegs(Fund!NoAnswer) /\ reversal' = "none" /\ fundPhase' = "idle"
          /\ position' = Fund!BothLegs(0) /\ open' = Fund!NothingOpen /\ lateFilled' = FALSE
      BY <1>4 DEF Fund!Forget
    <2>2. /\ answer' \in [Fund!FundingLegs -> Fund!States \union {Fund!NoAnswer, Fund!RaisedLeg}]
          /\ \A l \in Fund!FundingLegs : answer'[l] = Fund!NoAnswer
      BY <2>1 DEF Fund!BothLegs
    <2>3. position' \in [Fund!FundingLegs -> Int] /\ \A l \in Fund!FundingLegs : position'[l] = 0
      BY <2>1 DEF Fund!BothLegs
    <2>4. open' \in [Fund!FundingOrders -> 0 .. Amount] /\ open'["reversal"] = 0
      BY <2>1, <1>a, OrdersApart DEF Fund!NothingOpen
    <2>5. AnswersHeld'
      BY <2>2, <2>3, StatesAreAnswers DEF AnswersHeld
    <2> QED BY <2>1, <2>2, <2>3, <2>4, <2>5 DEF FundInv, Fund!FundingTypeOK, Fund!HedgeOutcomes
  <1>5. ASSUME NEW l \in Fund!FundingLegs, Fund!OrderAnswers(l) PROVE FundInv'
    <2>1. PICK r \in Fund!States :
              /\ answer' = [answer EXCEPT ![l] = r]
              /\ position' = [position EXCEPT ![l] = @ + r.filled]
              /\ open' = [open EXCEPT ![l] =
                            IF LateFills /\ r.kind \in {"partial", "unsettled"}
                            THEN Amount - r.filled ELSE 0]
      BY <1>5 DEF Fund!OrderAnswers
    <2>2. /\ fundPhase = "gather" /\ answer[l] = Fund!NoAnswer
          /\ UNCHANGED <<fundPhase, reversal, lateFilled>>
      BY <1>5 DEF Fund!OrderAnswers
    <2>3. r.filled \in 0 .. Amount
      BY StatesAreAnswers
    <2>4. answer' \in [Fund!FundingLegs -> Fund!States \union {Fund!NoAnswer, Fund!RaisedLeg}]
      BY <2>1, <1>t
    <2>5. position' \in [Fund!FundingLegs -> Int]
      BY <2>1, <2>3, <1>t, <1>a
    <2>6. Amount - r.filled \in 0 .. Amount /\ 0 \in 0 .. Amount
      BY <2>3, <1>a
    <2>7. open' \in [Fund!FundingOrders -> 0 .. Amount] /\ open'["reversal"] = open["reversal"]
      BY <2>1, <2>6, <1>t, OrdersApart
    <2>8. AnswersHeld /\ open["reversal"] = 0
      BY <2>2 DEF FundInv, Fund!HedgeOutcomes
    <2>9. AnswersHeld'
      <3> SUFFICES ASSUME NEW m \in Fund!FundingLegs PROVE position'[m] >= answer'[m].filled
        BY DEF AnswersHeld
      <3>1. CASE m = l
        <4>1. position[l] >= 0 /\ position[l] \in Int
          BY <2>2, <2>8, <1>i, StatesAreAnswers DEF AnswersHeld
        <4>2. position'[m] = position[l] + r.filled /\ answer'[m] = r
          BY <2>1, <1>t, <3>1
        <4> QED BY <2>3, <1>a, <4>1, <4>2
      <3>2. CASE m # l
        <4>1. position'[m] = position[m] /\ answer'[m] = answer[m]
          BY <2>1, <1>t, <3>2
        <4> QED BY <2>8, <4>1 DEF AnswersHeld
      <3> QED BY <3>1, <3>2
    <2> QED BY <2>2, <2>4, <2>5, <2>7, <2>8, <2>9, <1>t DEF FundInv, Fund!FundingTypeOK, Fund!HedgeOutcomes
  <1>6. ASSUME NEW l \in Fund!FundingLegs, Fund!OrderRaises(l) PROVE FundInv'
    <2>1. /\ answer' = [answer EXCEPT ![l] = Fund!RaisedLeg]
          /\ fundPhase = "gather" /\ answer[l] = Fund!NoAnswer
          /\ UNCHANGED <<fundPhase, reversal, position, lateFilled>>
      BY <1>6 DEF Fund!OrderRaises
    <2>2. PICK q \in 0 .. Amount : open' = [open EXCEPT ![l] = q]
      <3>1. PICK q \in {0} \union (IF LateFills THEN {Amount} ELSE {}) :
                open' = [open EXCEPT ![l] = q]
        BY <1>6 DEF Fund!OrderRaises
      <3>2. q \in 0 .. Amount
        BY <1>a
      <3> QED BY <3>1, <3>2
    <2>3. open' \in [Fund!FundingOrders -> 0 .. Amount] /\ open'["reversal"] = open["reversal"]
      BY <2>2, <1>t, OrdersApart
    <2>4. AnswersHeld /\ open["reversal"] = 0
      BY <2>1 DEF FundInv, Fund!HedgeOutcomes
    <2>5. \A m \in Fund!FundingLegs : answer'[m].filled = answer[m].filled
      BY <2>1, <1>t, StatesAreAnswers
    <2>6. AnswersHeld'
      BY <2>1, <2>4, <2>5 DEF AnswersHeld
    <2> QED BY <2>1, <2>3, <2>4, <2>6, <1>t DEF FundInv, Fund!FundingTypeOK, Fund!HedgeOutcomes
  <1>7. CASE Fund!BothAnswered
    BY <1>7, <1>e DEF Fund!BothAnswered, Fund!GatherDone, Fund!Classify, Fund!HedgeOutcomes
  <1>8. ASSUME NEW l \in Fund!FundingLegs, Fund!ReverseSurvivor(l) PROVE FundInv'
    <2>1. /\ fundPhase = "gather" /\ fundPhase' = "reversing" /\ reversal' = l
          /\ UNCHANGED <<answer, position, open, lateFilled>>
      BY <1>8 DEF Fund!ReverseSurvivor, Fund!OneRaised, Fund!GatherDone
    <2>2. AnswersHeld' /\ open'["reversal"] = 0
      BY <2>1 DEF FundInv, AnswersHeld, Fund!HedgeOutcomes
    <2> QED BY <2>1, <2>2, <1>t DEF FundInv, Fund!FundingTypeOK, Fund!HedgeOutcomes
  <1>9. CASE Fund!NoSurvivor
    BY <1>9, <1>e DEF Fund!NoSurvivor, Fund!OneRaised, Fund!GatherDone, Fund!HedgeOutcomes
  \* The steps that end the reversal: what it filled and what it left open are
  \* together no more than what is reversed.
  <1>v. ASSUME fundPhase = "reversing", fundPhase' \in Fund!HedgeOutcomes,
               NEW q \in Nat, NEW rest \in Nat, q + rest <= Fund!ReversalAmount,
               position' = [position EXCEPT ![reversal] = @ - q],
               open' = [open EXCEPT !["reversal"] = rest],
               UNCHANGED <<answer, reversal, lateFilled>>
        PROVE  FundInv'
    <2>1. reversal \in Fund!FundingLegs /\ AnswersHeld
      BY <1>v DEF FundInv, Fund!HedgeOutcomes
    <2>2. /\ position[reversal] \in Int /\ position[reversal] >= Fund!ReversalAmount
          /\ Fund!ReversalAmount \in 0 .. Amount
      BY <2>1, <1>i DEF AnswersHeld, Fund!ReversalAmount
    <2>3. rest \in 0 .. Amount
      BY <1>v, <1>a, <2>2
    <2>4. open' \in [Fund!FundingOrders -> 0 .. Amount] /\ open'["reversal"] = rest
      BY <1>v, <1>t, <2>3, OrdersApart
    <2>5. position' \in [Fund!FundingLegs -> Int]
      BY <1>v, <1>t, <2>1, <2>2
    <2>6. ReversalCovered'
      <3> SUFFICES ASSUME NEW m \in Fund!FundingLegs
                   PROVE  position'[m] >= (IF m = reversal THEN rest ELSE 0)
        BY <1>v, <2>4 DEF ReversalCovered
      <3>1. CASE m = reversal
        <4>1. position'[m] = position[reversal] - q
          BY <1>v, <1>t, <3>1
        <4> QED BY <1>v, <1>a, <2>2, <3>1, <4>1
      <3>2. CASE m # reversal
        <4>1. position'[m] = position[m]
          BY <1>v, <1>t, <3>2
        <4> QED BY <2>1, <1>i, <1>a, <3>2, <4>1 DEF AnswersHeld
      <3> QED BY <3>1, <3>2
    <2>7. fundPhase' # "idle" /\ fundPhase' # "reversing"
      BY <1>v DEF Fund!HedgeOutcomes
    <2> QED BY <1>v, <1>t, <2>4, <2>5, <2>6, <2>7 DEF FundInv, Fund!FundingTypeOK
  <1>10. CASE Fund!ReversalAnswers
    <2>1. PICK q \in 0 .. Fund!ReversalAmount :
              /\ position' = [position EXCEPT ![reversal] = @ - q]
              /\ \E rest \in {0} \union (IF LateFills THEN {Fund!ReversalAmount - q} ELSE {}) :
                    open' = [open EXCEPT !["reversal"] = rest]
      BY <1>10 DEF Fund!ReversalAnswers
    <2>2. PICK rest \in {0} \union (IF LateFills THEN {Fund!ReversalAmount - q} ELSE {}) :
              open' = [open EXCEPT !["reversal"] = rest]
      BY <2>1
    <2>3. fundPhase = "reversing" /\ fundPhase' = "repaired" /\ UNCHANGED <<answer, reversal, lateFilled>>
      BY <1>10 DEF Fund!ReversalAnswers
    <2>4. reversal \in Fund!FundingLegs
      BY <2>3 DEF FundInv
    <2>5. Fund!ReversalAmount \in Nat
      BY <2>4, <1>i, <1>a DEF Fund!ReversalAmount
    <2>6. q \in Nat /\ rest \in Nat /\ q + rest <= Fund!ReversalAmount
      <3> HIDE DEF Fund!ReversalAmount
      <3> QED BY <2>1, <2>2, <2>5
    <2>7. fundPhase' \in Fund!HedgeOutcomes
      BY <2>3 DEF Fund!HedgeOutcomes
    <2> QED BY <2>1, <2>2, <2>3, <2>6, <2>7, <1>v
  <1>11. CASE Fund!ReversalRaises
    <2>1. PICK rest \in {0} \union (IF LateFills THEN {Fund!ReversalAmount} ELSE {}) :
              open' = [open EXCEPT !["reversal"] = rest]
      BY <1>11 DEF Fund!ReversalRaises
    <2>2. /\ fundPhase = "reversing" /\ fundPhase' = "failed"
          /\ UNCHANGED <<answer, reversal, position, lateFilled>>
      BY <1>11 DEF Fund!ReversalRaises
    <2>3. reversal \in Fund!FundingLegs
      BY <2>2 DEF FundInv
    <2>4. Fund!ReversalAmount \in Nat
      BY <2>3, <1>i, <1>a DEF Fund!ReversalAmount
    <2>5. rest \in Nat /\ 0 + rest <= Fund!ReversalAmount
      <3> HIDE DEF Fund!ReversalAmount
      <3> QED BY <2>1, <2>4
    <2>6. position' = [position EXCEPT ![reversal] = @ - 0]
      BY <2>2, <2>3, <1>t, <1>i
    <2>7. fundPhase' \in Fund!HedgeOutcomes
      BY <2>2 DEF Fund!HedgeOutcomes
    <2>8. 0 \in Nat
      OBVIOUS
    <2> QED BY <2>1, <2>2, <2>5, <2>6, <2>7, <2>8, <1>v
  <1>12. ASSUME NEW l \in Fund!FundingLegs, Fund!LateAnswer(l) PROVE FundInv'
    <2>1. /\ position' = [position EXCEPT ![l] = @ + open[l]]
          /\ open' = [open EXCEPT ![l] = 0]
          /\ lateFilled' = TRUE
          /\ UNCHANGED <<fundPhase, answer, reversal>>
      BY <1>12 DEF Fund!LateAnswer
    <2>2. open[l] \in 0 .. Amount
      BY <1>t, OrdersApart
    <2>3. position' \in [Fund!FundingLegs -> Int] /\ open' \in [Fund!FundingOrders -> 0 .. Amount]
            /\ open'["reversal"] = open["reversal"]
      BY <2>1, <2>2, <1>t, <1>a, OrdersApart
    <2>4. \A m \in Fund!FundingLegs : position'[m] >= position[m] /\ position'[m] \in Int
      BY <2>1, <2>2, <1>t, <1>a
    <2>5. AnswersHeld => AnswersHeld'
      BY <2>1, <2>4, <1>i, <1>a DEF AnswersHeld
    <2>6. ReversalCovered => ReversalCovered'
      BY <2>1, <2>3, <2>4, <1>i, <1>r, <1>a DEF ReversalCovered
    <2> QED BY <2>1, <2>3, <2>5, <2>6 DEF FundInv, Fund!FundingTypeOK
  <1>13. CASE Fund!LateReversal
    <2>1. /\ open["reversal"] > 0
          /\ position' = [position EXCEPT ![reversal] = @ - open["reversal"]]
          /\ open' = [open EXCEPT !["reversal"] = 0]
          /\ lateFilled' = TRUE
          /\ UNCHANGED <<fundPhase, answer, reversal>>
      BY <1>13 DEF Fund!LateReversal
    <2>2. fundPhase \in Fund!HedgeOutcomes /\ ReversalCovered
      BY <2>1 DEF FundInv
    <2>3. position' \in [Fund!FundingLegs -> Int]
      <3>1. \A m \in Fund!FundingLegs : position[m] - open["reversal"] \in Int
        BY <1>i, <1>r, <1>a
      <3>2. CASE reversal \in Fund!FundingLegs
        BY <2>1, <1>t, <3>1, <3>2
      <3>3. CASE reversal \notin Fund!FundingLegs
        BY <2>1, <1>t, <3>3
      <3> QED BY <3>2, <3>3
    <2>4. open' \in [Fund!FundingOrders -> 0 .. Amount] /\ open'["reversal"] = 0
      BY <2>1, <1>t, <1>a, OrdersApart
    <2>5. ASSUME NEW m \in Fund!FundingLegs PROVE position'[m] >= 0
      <3>1. CASE m = reversal
        <4>1. position'[m] = position[m] - open["reversal"] /\ position[m] >= open["reversal"]
          BY <2>1, <2>2, <1>t, <3>1 DEF ReversalCovered
        <4> QED BY <4>1, <1>i, <1>r, <1>a
      <3>2. CASE m # reversal
        <4>1. position'[m] = position[m] /\ position[m] >= 0
          BY <2>1, <2>2, <1>t, <3>2 DEF ReversalCovered
        <4> QED BY <4>1
      <3> QED BY <3>1, <3>2
    <2>6. ReversalCovered'
      BY <2>4, <2>5 DEF ReversalCovered
    <2> QED BY <2>1, <2>2, <2>3, <2>4, <2>6 DEF FundInv, Fund!FundingTypeOK, Fund!HedgeOutcomes
  <1>14. CASE UNCHANGED fundVars
    BY <1>14 DEF fundVars, FundInv, Fund!FundingTypeOK, AnswersHeld, ReversalCovered
  <1> QED
    BY <1>1, <1>2, <1>3, <1>4, <1>5, <1>6, <1>7, <1>8, <1>9, <1>10, <1>11, <1>12, <1>13, <1>14
    DEF Fund!Next, Fund!Begin, Fund!Step, Fund!Late

LEMMA FundInvariant == Spec => []FundInv
  BY FundInit, FundStep, FundInvInit, FundInvStep, PTL DEF Spec

\* Whatever fills late, the reversal of a funding hedge closes its leg and never
\* turns it over, for every amount.
THEOREM ReversalsOnlyClose == Spec => []ReversalOnlyCloses
  <1>1. FundInv => ReversalOnlyCloses
    <2> SUFFICES ASSUME FundInv
                 PROVE  /\ fundPhase = "reversing" => Fund!ReversalAmount <= position[reversal]
                        /\ ReversalCovered
      BY DEF ReversalOnlyCloses, Fund!ReversalOnlyCloses, ReversalCovered
    <2>1. fundPhase = "reversing" => Fund!ReversalAmount <= position[reversal]
      <3> SUFFICES ASSUME fundPhase = "reversing" PROVE Fund!ReversalAmount <= position[reversal]
        OBVIOUS
      <3>1. reversal \in Fund!FundingLegs /\ AnswersHeld
        BY DEF FundInv, Fund!HedgeOutcomes
      <3>2. answer[reversal].filled \in 0 .. Amount /\ position[reversal] \in Int
        BY <3>1, StatesAreAnswers, StrategyAssumption DEF FundInv, Fund!FundingTypeOK
      <3> QED BY <3>1, <3>2, StrategyAssumption DEF AnswersHeld, Fund!ReversalAmount
    <2>2. ReversalCovered
      BY EndsCovered DEF FundInv
    <2> QED BY <2>1, <2>2
  <1> QED BY <1>1, FundInvariant, PTL

-----------------------------------------------------------------------------
(* The maker-taker cycle in the program. *)

LEMMA MakerInit == Init => Maker!Init
  BY DEF Init

LEMMA MakerCycleStep == [Next]_vars => [Maker!Next]_makerVars
  <1> SUFFICES ASSUME [Next]_vars PROVE Maker!Next \/ UNCHANGED makerVars
    OBVIOUS
  <1>1. CASE (Toggle \/ Loop) /\ UNCHANGED <<triVars, fundVars, makerVars>>
    BY <1>1
  <1>2. CASE TriangularStep
    BY <1>2 DEF TriangularStep
  <1>3. CASE FundingStep
    BY <1>3 DEF FundingStep
  <1>4. CASE MakerStep
    BY <1>4 DEF MakerStep, Maker!Next
  <1>5. CASE UNCHANGED vars
    BY <1>5 DEF vars
  <1> QED BY <1>1, <1>2, <1>3, <1>4, <1>5 DEF Next

\* No order of this sale exists yet.
Untouched(s) == sold[s] = 0 /\ pending[s] = 0 /\ lateSold[s] = 0

\* What the panic close sold, sells or may still sell is what the hedge is known to
\* have left: this holds whether or not the venue sold the hedge late.
NothingSoldTwice ==
    sold["hedge"] + sold["panic"] + selling + pending["panic"] + lateSold["panic"] <= inferred

\* What a cycle that went past the hedge says of it.
HedgeIsReported ==
    "hedge" \notin simulated =>
        /\ report.hedged = sold["hedge"]
        /\ report.hedged > 0 => report.hedged + report.unhedged = inferred

\* Where the cycle is tells which orders exist and what is left to sell.
MakerInv ==
    /\ Maker!MakerTakerTypeOK
    /\ NothingSoldTwice
    /\ mtPhase \in {"idle", "waiting", "hedging", "CANCELED"} => Untouched("hedge")
    /\ mtPhase \in {"idle", "waiting", "hedging", "CANCELED", "panic", "DONE"} => Untouched("panic")
    /\ mtPhase \in {"idle", "waiting"} \union Maker!Ended => selling = 0
    /\ mtPhase = "hedging" => selling = inferred
    /\ mtPhase = "panic" => selling = inferred - sold["hedge"]
    /\ mtPhase \in {"panic", "DONE", "FLAT"} => HedgeIsReported
    /\ mtPhase = "DONE" => /\ "hedge" \notin simulated => sold["hedge"] = inferred
                           /\ pending["hedge"] = 0 /\ lateSold["hedge"] = 0

LEMMA MakerInvInit == Maker!Init => MakerInv
  <1> SUFFICES ASSUME Maker!Init PROVE MakerInv
    OBVIOUS
  <1>1. 0 \in 0 .. Approved
    BY StrategyAssumption
  <1>2. Maker!MakerTakerTypeOK
    BY <1>1 DEF Maker!Init, Maker!MakerTakerTypeOK, Maker!Nothing, Maker!NoReport
  <1> QED BY <1>2 DEF Maker!Init, MakerInv, Maker!Nothing, Maker!Sales, NothingSoldTwice, Untouched,
                      Maker!Ended, Maker!Reports

LEMMA MakerInvStep == MakerInv /\ [Maker!Next]_makerVars => MakerInv'
  <1> SUFFICES ASSUME MakerInv, [Maker!Next]_makerVars PROVE MakerInv'
    OBVIOUS
  <1>a. Approved \in Nat \ {0} /\ MinFill \in 0 .. Approved
    BY StrategyAssumption
  <1>t. /\ mtPhase \in {"idle", "waiting", "hedging", "panic"} \union Maker!Ended
        /\ inferred \in 0 .. Approved
        /\ selling \in 0 .. Approved
        /\ sold \in [Maker!Sales -> 0 .. Approved]
        /\ report \in [hedged : 0 .. Approved, unhedged : 0 .. Approved]
        /\ pending \in [Maker!Sales -> 0 .. Approved]
        /\ lateSold \in [Maker!Sales -> 0 .. Approved]
        /\ simulated \subseteq Maker!Sales
    BY DEF MakerInv, Maker!MakerTakerTypeOK
  <1>s. Maker!Sales = {"hedge", "panic"}
    BY DEF Maker!Sales
  <1>n. /\ sold["hedge"] \in 0 .. Approved /\ sold["panic"] \in 0 .. Approved
        /\ pending["hedge"] \in 0 .. Approved /\ pending["panic"] \in 0 .. Approved
        /\ lateSold["hedge"] \in 0 .. Approved /\ lateSold["panic"] \in 0 .. Approved
        /\ report.hedged \in 0 .. Approved /\ report.unhedged \in 0 .. Approved
    BY <1>t, <1>s
  <1>1. CASE Maker!Begin
    BY <1>1, <1>t, <1>n DEF Maker!Begin, MakerInv, Maker!MakerTakerTypeOK, NothingSoldTwice, Untouched,
                            Maker!Ended, Maker!Reports
  <1>2. CASE Maker!Forget
    <2>1. 0 \in 0 .. Approved
      BY <1>a
    <2>2. Maker!MakerTakerTypeOK'
      BY <1>2, <2>1 DEF Maker!Forget, Maker!MakerTakerTypeOK, Maker!Nothing, Maker!NoReport
    <2> QED BY <1>2, <2>2 DEF Maker!Forget, MakerInv, Maker!Nothing, Maker!Sales, NothingSoldTwice,
                              Untouched, Maker!Ended, Maker!Reports
  <1>3. CASE Maker!MakerExpires
    <2>1. /\ mtPhase = "waiting" /\ mtPhase' = "CANCELED" /\ selling' = 0
          /\ report' = [hedged |-> 0, unhedged |-> 0]
          /\ UNCHANGED <<inferred, sold, pending, lateSold, simulated>>
      BY <1>3 DEF Maker!MakerExpires, Maker!Finalize
    <2>2. Maker!MakerTakerTypeOK'
      BY <2>1, <1>t, <1>a DEF Maker!MakerTakerTypeOK, Maker!Ended, Maker!Reports
    <2> QED BY <2>1, <2>2, <1>n DEF MakerInv, NothingSoldTwice, Untouched, Maker!Ended, Maker!Reports
  <1>4. CASE Maker!MakerFills
    <2>1. PICK f \in 1 .. Approved :
            /\ inferred' = f
            /\ \/ mtPhase' = "CANCELED" /\ selling' = 0 /\ report' = [hedged |-> 0, unhedged |-> 0]
               \/ mtPhase' = "hedging" /\ selling' = f /\ UNCHANGED report
      BY <1>4 DEF Maker!MakerFills, Maker!Finalize
    <2>2. mtPhase = "waiting" /\ UNCHANGED <<sold, pending, lateSold, simulated>>
      BY <1>4 DEF Maker!MakerFills
    <2>3. f \in 0 .. Approved /\ 0 \in 0 .. Approved
      BY <1>a
    <2>4. Maker!MakerTakerTypeOK'
      BY <2>1, <2>2, <2>3, <1>t DEF Maker!MakerTakerTypeOK, Maker!Ended, Maker!Reports
    <2>5. Untouched("hedge") /\ Untouched("panic")
      BY <2>2 DEF MakerInv
    <2>6. NothingSoldTwice'
      BY <2>1, <2>2, <2>3, <2>5, <1>a DEF NothingSoldTwice, Untouched
    <2> QED BY <2>1, <2>2, <2>4, <2>5, <2>6 DEF MakerInv, Untouched, Maker!Ended, Maker!Reports
  <1>5. CASE Maker!HedgeAnswers
    <2>1. /\ mtPhase = "hedging" /\ selling = inferred /\ Untouched("hedge") /\ Untouched("panic")
          /\ UNCHANGED <<inferred, lateSold, simulated>>
      BY <1>5 DEF Maker!HedgeAnswers, MakerInv
    <2>2. PICK q \in 0 .. selling :
            /\ sold' = [sold EXCEPT !["hedge"] = q]
            /\ \E rest \in {0} \union (IF LateFills THEN {selling - q} ELSE {}) :
                  pending' = [pending EXCEPT !["hedge"] = rest]
            /\ IF Maker!HedgedInFull(q)
               THEN Maker!Finalize("DONE", q, 0)
               ELSE Maker!PanicClose(q, Maker!Residual(q))
      BY <1>5 DEF Maker!HedgeAnswers
    <2>3. PICK rest \in {0, selling - q} : pending' = [pending EXCEPT !["hedge"] = rest]
      BY <2>2
    <2>4. /\ q \in 0 .. Approved /\ q <= inferred /\ inferred - q \in 0 .. Approved
          /\ rest \in 0 .. Approved /\ (q = inferred => rest = 0) /\ 0 \in 0 .. Approved
      BY <2>1, <2>2, <2>3, <1>t, <1>a
    <2>5. /\ sold' \in [Maker!Sales -> 0 .. Approved] /\ pending' \in [Maker!Sales -> 0 .. Approved]
          /\ sold'["hedge"] = q /\ sold'["panic"] = sold["panic"]
          /\ pending'["hedge"] = rest /\ pending'["panic"] = pending["panic"]
      BY <2>2, <2>3, <2>4, <1>t, <1>s
    <2>6. \/ q = inferred /\ mtPhase' = "DONE" /\ selling' = 0
               /\ report' = [hedged |-> q, unhedged |-> 0]
          \/ mtPhase' = "panic" /\ selling' = inferred - q
               /\ report' = [hedged |-> q, unhedged |-> inferred - q]
      BY <2>2, <2>4, <1>t, <1>a DEF Maker!HedgedInFull, Maker!Finalize, Maker!PanicClose, Maker!Residual
    <2>7. Maker!MakerTakerTypeOK'
      BY <2>1, <2>4, <2>5, <2>6, <1>t DEF Maker!MakerTakerTypeOK, Maker!Ended, Maker!Reports
    <2>8. Untouched("panic")' /\ HedgeIsReported' /\ NothingSoldTwice'
      BY <2>1, <2>4, <2>5, <2>6, <1>t, <1>a DEF Untouched, HedgeIsReported, NothingSoldTwice
    <2>9. CASE q = inferred /\ mtPhase' = "DONE" /\ selling' = 0
      BY <2>9, <2>1, <2>4, <2>5, <2>7, <2>8 DEF MakerInv, Untouched
    <2>10. CASE mtPhase' = "panic" /\ selling' = inferred - q
      BY <2>10, <2>1, <2>5, <2>7, <2>8 DEF MakerInv, Maker!Ended, Maker!Reports
    <2> QED BY <2>6, <2>9, <2>10
  <1>6. CASE Maker!HedgeTimesOut
    <2>1. /\ mtPhase = "hedging" /\ selling = inferred /\ Untouched("hedge") /\ Untouched("panic")
          /\ UNCHANGED <<inferred, sold, lateSold, simulated>>
      BY <1>6 DEF Maker!HedgeTimesOut, MakerInv
    <2>2. /\ mtPhase' = "panic" /\ selling' = inferred
          /\ report' = [hedged |-> 0, unhedged |-> 0]
      BY <1>6, <1>t, <1>a DEF Maker!HedgeTimesOut, Maker!PanicClose, Maker!Residual
    <2>3. PICK q \in {0, selling} : pending' = [pending EXCEPT !["hedge"] = q]
      BY <1>6 DEF Maker!HedgeTimesOut
    <2>4. q \in 0 .. Approved /\ 0 \in 0 .. Approved
      BY <2>3, <1>t, <1>a
    <2>5. /\ pending' \in [Maker!Sales -> 0 .. Approved] /\ pending'["panic"] = pending["panic"]
      BY <2>3, <2>4, <1>t, <1>s
    <2>6. Maker!MakerTakerTypeOK'
      BY <2>1, <2>2, <2>4, <2>5, <1>t DEF Maker!MakerTakerTypeOK
    <2>7. Untouched("panic")' /\ HedgeIsReported' /\ NothingSoldTwice' /\ inferred - sold["hedge"] = inferred
      BY <2>1, <2>2, <2>5, <1>t, <1>a DEF Untouched, HedgeIsReported, NothingSoldTwice
    <2> QED BY <2>1, <2>2, <2>6, <2>7 DEF MakerInv, Maker!Ended, Maker!Reports
  <1>7. CASE Maker!HedgeRaises
    <2>1. /\ mtPhase = "hedging" /\ mtPhase' = "raised" /\ selling' = 0
          /\ Untouched("hedge") /\ Untouched("panic")
          /\ UNCHANGED <<inferred, sold, report, lateSold, simulated>>
      BY <1>7 DEF Maker!HedgeRaises, MakerInv
    <2>2. PICK q \in {0, selling} : pending' = [pending EXCEPT !["hedge"] = q]
      BY <1>7 DEF Maker!HedgeRaises
    <2>3. q \in 0 .. Approved /\ 0 \in 0 .. Approved
      BY <2>2, <1>t, <1>a
    <2>4. /\ pending' \in [Maker!Sales -> 0 .. Approved] /\ pending'["panic"] = pending["panic"]
      BY <2>2, <2>3, <1>t, <1>s
    <2>5. Maker!MakerTakerTypeOK'
      BY <2>1, <2>3, <2>4, <1>t DEF Maker!MakerTakerTypeOK, Maker!Ended
    <2>6. NothingSoldTwice'
      BY <2>1, <2>4, <1>t, <1>a DEF Untouched, NothingSoldTwice
    <2> QED BY <2>1, <2>5, <2>6 DEF MakerInv, Maker!Ended, Maker!Reports
  <1>8. CASE Maker!PanicAnswers
    <2>1. /\ mtPhase = "panic" /\ selling = inferred - sold["hedge"] /\ Untouched("panic")
          /\ HedgeIsReported /\ UNCHANGED <<inferred, lateSold, simulated>>
      BY <1>8 DEF Maker!PanicAnswers, MakerInv
    <2>2. PICK q \in 0 .. selling :
            /\ sold' = [sold EXCEPT !["panic"] = q]
            /\ \E rest \in {0} \union (IF LateFills THEN {selling - q} ELSE {}) :
                  pending' = [pending EXCEPT !["panic"] = rest]
      BY <1>8 DEF Maker!PanicAnswers
    <2>3. PICK rest \in {0, selling - q} : pending' = [pending EXCEPT !["panic"] = rest]
      BY <2>2
    <2>4. /\ mtPhase' = "FLAT" /\ selling' = 0
          /\ report' = [hedged |-> report.hedged, unhedged |-> report.unhedged]
      BY <1>8 DEF Maker!PanicAnswers, Maker!Finalize
    <2>5. /\ q \in 0 .. Approved /\ rest \in 0 .. Approved /\ 0 \in 0 .. Approved
          /\ q + rest <= selling
      BY <2>2, <2>3, <1>t, <1>a
    <2>6. /\ sold' \in [Maker!Sales -> 0 .. Approved] /\ pending' \in [Maker!Sales -> 0 .. Approved]
          /\ sold'["panic"] = q /\ sold'["hedge"] = sold["hedge"] /\ pending'["panic"] = rest
      BY <2>2, <2>3, <2>5, <1>t, <1>s
    <2>7. Maker!MakerTakerTypeOK'
      BY <2>1, <2>4, <2>5, <2>6, <1>t, <1>n DEF Maker!MakerTakerTypeOK, Maker!Ended, Maker!Reports
    <2>8. NothingSoldTwice'
      BY <2>1, <2>4, <2>5, <2>6, <1>t, <1>n, <1>a DEF Untouched, NothingSoldTwice
    <2>9. HedgeIsReported'
      BY <2>1, <2>4, <2>6 DEF HedgeIsReported
    <2> QED BY <2>4, <2>7, <2>8, <2>9 DEF MakerInv, Maker!Ended, Maker!Reports
  <1>9. CASE Maker!PanicFails
    <2>1. /\ mtPhase = "panic" /\ selling = inferred - sold["hedge"] /\ Untouched("panic")
          /\ HedgeIsReported /\ UNCHANGED <<inferred, sold, lateSold, simulated>>
      BY <1>9 DEF Maker!PanicFails, MakerInv
    <2>2. PICK q \in {0, selling} : pending' = [pending EXCEPT !["panic"] = q]
      BY <1>9 DEF Maker!PanicFails
    <2>3. /\ mtPhase' = "FLAT" /\ selling' = 0
          /\ report' = [hedged |-> report.hedged, unhedged |-> report.unhedged]
      BY <1>9 DEF Maker!PanicFails, Maker!Finalize
    <2>4. q \in 0 .. Approved /\ 0 \in 0 .. Approved /\ q <= selling
      BY <2>2, <1>t, <1>a
    <2>5. pending' \in [Maker!Sales -> 0 .. Approved] /\ pending'["panic"] = q
      BY <2>2, <2>4, <1>t, <1>s
    <2>6. Maker!MakerTakerTypeOK'
      BY <2>1, <2>3, <2>4, <2>5, <1>t, <1>n DEF Maker!MakerTakerTypeOK, Maker!Ended, Maker!Reports
    <2>7. NothingSoldTwice'
      BY <2>1, <2>3, <2>4, <2>5, <1>t, <1>n, <1>a DEF Untouched, NothingSoldTwice
    <2>8. HedgeIsReported'
      BY <2>1, <2>3 DEF HedgeIsReported
    <2> QED BY <2>3, <2>6, <2>7, <2>8 DEF MakerInv, Maker!Ended, Maker!Reports
  <1>12. CASE Maker!HedgeSimulated
    <2>1. /\ mtPhase = "hedging" /\ selling = inferred /\ Untouched("hedge") /\ Untouched("panic")
          /\ UNCHANGED <<inferred, sold, pending, lateSold>>
      BY <1>12 DEF Maker!HedgeSimulated, MakerInv
    <2>2. /\ mtPhase' = "DONE" /\ selling' = 0 /\ report' = [hedged |-> selling, unhedged |-> 0]
          /\ simulated' = simulated \union {"hedge"}
      BY <1>12 DEF Maker!HedgeSimulated, Maker!Finalize
    <2>3. Maker!MakerTakerTypeOK'
      BY <2>1, <2>2, <1>t, <1>s, <1>a DEF Maker!MakerTakerTypeOK, Maker!Ended, Maker!Reports
    <2>4. NothingSoldTwice'
      BY <2>1, <2>2, <1>t, <1>a DEF Untouched, NothingSoldTwice
    <2> QED BY <2>1, <2>2, <2>3, <2>4 DEF MakerInv, Untouched, HedgeIsReported, Maker!Ended, Maker!Reports
  <1>13. CASE Maker!PanicSimulated
    <2>1. /\ mtPhase = "panic" /\ selling = inferred - sold["hedge"] /\ Untouched("panic")
          /\ HedgeIsReported /\ UNCHANGED <<inferred, sold, pending, lateSold>>
      BY <1>13 DEF Maker!PanicSimulated, MakerInv
    <2>2. /\ mtPhase' = "FLAT" /\ selling' = 0
          /\ report' = [hedged |-> report.hedged, unhedged |-> report.unhedged]
          /\ simulated' = simulated \union {"panic"}
      BY <1>13 DEF Maker!PanicSimulated, Maker!Finalize
    <2>3. Maker!MakerTakerTypeOK'
      BY <2>1, <2>2, <1>t, <1>s, <1>n, <1>a DEF Maker!MakerTakerTypeOK, Maker!Ended, Maker!Reports
    <2>4. NothingSoldTwice'
      BY <2>1, <2>2, <1>t, <1>n, <1>a DEF Untouched, NothingSoldTwice
    <2>5. HedgeIsReported'
      BY <2>1, <2>2 DEF HedgeIsReported
    <2> QED BY <2>2, <2>3, <2>4, <2>5 DEF MakerInv, Maker!Ended, Maker!Reports
  <1>10. CASE Maker!LateSale
    <2>1. PICK s \in Maker!Sales :
            /\ pending[s] > 0
            /\ lateSold' = [lateSold EXCEPT ![s] = pending[s]]
            /\ pending' = [pending EXCEPT ![s] = 0]
            /\ UNCHANGED <<mtPhase, inferred, selling, sold, report, simulated>>
      BY <1>10 DEF Maker!LateSale
    <2>2. pending[s] \in 0 .. Approved /\ 0 \in 0 .. Approved
      BY <1>t, <1>a
    <2>3. Maker!MakerTakerTypeOK'
      BY <2>1, <2>2, <1>t DEF Maker!MakerTakerTypeOK
    <2>4. HedgeIsReported => HedgeIsReported'
      BY <2>1 DEF HedgeIsReported
    <2>5. CASE s = "hedge"
      <3>1. lateSold'["panic"] = lateSold["panic"] /\ pending'["panic"] = pending["panic"]
        BY <2>1, <2>5, <1>t, <1>s
      <3>2. ~Untouched("hedge") /\ mtPhase # "DONE"
        BY <2>1, <2>5 DEF Untouched, MakerInv
      <3>3. NothingSoldTwice' /\ (Untouched("panic") => Untouched("panic")')
        BY <2>1, <3>1 DEF MakerInv, NothingSoldTwice, Untouched
      <3> QED BY <2>1, <2>3, <2>4, <3>2, <3>3 DEF MakerInv
    <2>6. CASE s = "panic"
      <3>1. lateSold'["panic"] = pending["panic"] /\ pending'["panic"] = 0
        BY <2>1, <2>6, <1>t, <1>s
      <3>2. ~Untouched("panic")
        BY <2>1, <2>6 DEF Untouched
      <3>3. NothingSoldTwice'
        BY <2>1, <3>1, <1>t, <1>n, <1>a DEF MakerInv, NothingSoldTwice
      <3> QED BY <2>1, <2>3, <2>4, <3>2, <3>3 DEF MakerInv
    <2> QED BY <2>5, <2>6, <1>s
  <1>11. CASE UNCHANGED makerVars
    BY <1>11 DEF makerVars, MakerInv, Maker!MakerTakerTypeOK, NothingSoldTwice, Untouched, HedgeIsReported
  <1> QED
    BY <1>1, <1>2, <1>3, <1>4, <1>5, <1>6, <1>7, <1>8, <1>9, <1>10, <1>11, <1>12, <1>13
    DEF Maker!Next, Maker!Step

LEMMA MakerInvariant == Spec => []MakerInv
  BY MakerInit, MakerCycleStep, MakerInvInit, MakerInvStep, PTL DEF Spec

\* The hedge and the panic close together never sell more than the maker fill, unless
\* the venue executed a hedge order whose await was given up.
THEOREM NothingElseOversells == Spec => []OversoldOnlyByALateHedge
  <1>1. MakerInv => OversoldOnlyByALateHedge
    BY DEF MakerInv, NothingSoldTwice, OversoldOnlyByALateHedge, Maker!OversoldOnlyByALateHedge
  <1> QED BY <1>1, MakerInvariant, PTL

\* Unless the mode became dry-run before the hedge, what a DONE or a FLAT report says
\* was hedged was sold, and nothing that could still sell is left behind a DONE one.
THEOREM ReportsAreTrue == Spec => []ReportIsTrue
  <1>1. MakerInv => ReportIsTrue
    <2> SUFFICES ASSUME MakerInv PROVE Maker!ReportIsTrue
      BY DEF ReportIsTrue
    <2>1. ASSUME mtPhase = "DONE" PROVE pending = Maker!Nothing /\ lateSold = Maker!Nothing
      <3>1. \A s \in Maker!Sales : pending[s] = 0 /\ lateSold[s] = 0
        BY <2>1 DEF MakerInv, Untouched, Maker!Sales
      <3>2. pending \in [Maker!Sales -> 0 .. Approved] /\ lateSold \in [Maker!Sales -> 0 .. Approved]
        BY DEF MakerInv, Maker!MakerTakerTypeOK
      <3> QED BY <3>1, <3>2 DEF Maker!Nothing
    <2> QED BY <2>1 DEF MakerInv, HedgeIsReported, Untouched, Maker!ReportIsTrue
  <1> QED BY <1>1, MakerInvariant, PTL

-----------------------------------------------------------------------------
(* The loop that starts the cycles. *)

\* What the scanner's task, its flags and its strategy may be.
LoopTypeOK ==
    /\ strategy \in Scanned \union {"maker_taker"}
    /\ enabled \in BOOLEAN /\ scanning \in BOOLEAN
    /\ task \in TaskStates

LEMMA LoopTypeStep == LoopTypeOK /\ [Next]_vars => LoopTypeOK'
  <1> SUFFICES ASSUME LoopTypeOK, [Next]_vars PROVE LoopTypeOK'
    OBVIOUS
  <1>1. ASSUME UNCHANGED loopVars PROVE LoopTypeOK'
    BY <1>1 DEF loopVars, LoopTypeOK
  <1>2. CASE Toggle \/ Loop
    <2>1. CASE Toggle
      BY <2>1 DEF Toggle, LoopTypeOK
    <2>2. CASE Supervise
      BY <2>2 DEF Supervise, LoopTypeOK, TaskStates
    <2>3. CASE LoopTop
      BY <2>3 DEF LoopTop, GoesOn, LoopTypeOK, TaskStates
    <2>4. CASE ScanEnds
      BY <2>4 DEF ScanEnds, LoopTypeOK, TaskStates
    <2> QED BY <1>2, <2>1, <2>2, <2>3, <2>4 DEF Loop
  <1>3. CASE Found \/ CycleReturns
    BY <1>3 DEF Found, CycleReturns, LoopTypeOK, TaskStates
  <1> QED
    BY <1>1, <1>2, <1>3 DEF Next, TriangularStep, FundingStep, MakerStep, vars

\* The variables of the loop and of the three cycles keep their types.
THEOREM StrategiesTypeCorrect == Spec => []TypeOK
  <1>1. Init => LoopTypeOK
    BY DEF Init, LoopTypeOK, TaskStates
  <1>2. LoopTypeOK /\ TriTypeOK /\ FundInv /\ MakerInv => TypeOK
    BY DEF LoopTypeOK, FundInv, MakerInv, TypeOK
  <1> QED
    BY <1>1, <1>2, LoopTypeStep, StrategiesImplementTriangular, TriangularTypeCorrect, FundInvariant,
       MakerInvariant, PTL DEF Spec
=============================================================================
