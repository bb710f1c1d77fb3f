--------------------------- MODULE DispatchProofs ---------------------------
(***************************************************************************)
(* Theorems about Dispatch, for any number of opportunities, symbols and   *)
(* exchanges and any limits.                                               *)
(***************************************************************************)
EXTENDS Dispatch, FiniteSums, TLAPS

-----------------------------------------------------------------------------
(* The helper operators. *)

LEMMA AddType ==
    ASSUME NEW K, NEW ledger \in [K -> Nat], NEW k \in K, NEW n \in Nat
    PROVE  AddNotional(ledger, k, n) \in [K -> Nat]
  BY DEF AddNotional

LEMMA ReleaseType ==
    ASSUME NEW K, NEW ledger \in [K -> Nat], NEW k \in K, NEW n \in Nat
    PROVE  ReleaseNotional(ledger, k, n) \in [K -> Nat]
<1>1. ledger[k] \in Nat
  OBVIOUS
<1>2. (IF ledger[k] > n THEN ledger[k] - n ELSE 0) \in Nat
  BY <1>1
<1>3. QED
  BY <1>2 DEF ReleaseNotional

\* A reservation that is given back leaves no entry larger than it was.
LEMMA ReleaseShrinks ==
    ASSUME NEW K, NEW ledger \in [K -> Nat], NEW k \in K, NEW n \in Nat, NEW x \in K
    PROVE  ReleaseNotional(ledger, k, n)[x] <= ledger[x]
<1>1. ledger[x] \in Nat
  OBVIOUS
<1>2. CASE x = k
  BY <1>1, <1>2 DEF ReleaseNotional
<1>3. CASE x # k
  BY <1>1, <1>3 DEF ReleaseNotional
<1>4. QED
  BY <1>2, <1>3

\* Min is a lower bound: the least of two by comparison, of more by adding one.
LEMMA AddToMin ==
    ASSUME NEW S \in SUBSET Int, NEW m \in S, \A y \in S : m <= y, NEW x \in Int
    PROVE  \E n \in S \union {x} : \A y \in S \union {x} : n <= y
<1>1. CASE m <= x
  BY <1>1
<1>2. CASE x < m
  BY <1>2
<1>3. QED
  BY <1>1, <1>2

LEMMA MinIsLeast ==
    ASSUME NEW S \in SUBSET Int, \E m \in S : \A y \in S : m <= y
    PROVE  Min(S) \in S /\ \A y \in S : Min(S) <= y
  BY DEF Min

-----------------------------------------------------------------------------
(* What an approval is cut down to. *)

LEMMA AmountTypes ==
    ASSUME TypeOK
    PROVE  /\ \A o \in Opps : /\ SymbolOf[o] \in Symbols
                              /\ SymbolOf[o] \in Assets
                              /\ "quote" \in Assets
                              /\ BuyExchange[o] \in Exchanges
                              /\ SellExchange[o] \in Exchanges
                              /\ size[o] \in Nat
           /\ \A ex \in Exchanges : Headroom(ex) \in Nat
           /\ \A ex \in Exchanges, a \in Assets :
                  Free(ex, a) \in Nat /\ reserved[ex][a] \in Nat /\ Balance[ex][a] \in Nat
<1>1. \A o \in Opps : /\ SymbolOf[o] \in Symbols
                      /\ SymbolOf[o] \in Assets
                      /\ "quote" \in Assets
                      /\ BuyExchange[o] \in Exchanges
                      /\ SellExchange[o] \in Exchanges
  BY DispatchAssumption DEF DispatchAssumption, Assets
<1>2. \A o \in Opps : size[o] \in Nat
  BY DispatchAssumption DEF DispatchAssumption, TypeOK
<1>3. \A ex \in Exchanges : inFlight[ex] \in Nat
  BY DEF TypeOK
<1>4. \A ex \in Exchanges : Headroom(ex) \in Nat
  BY <1>3, DispatchAssumption DEF DispatchAssumption, Headroom
<1>5. \A ex \in Exchanges, a \in Assets : reserved[ex][a] \in Nat /\ Balance[ex][a] \in Nat
  BY DispatchAssumption DEF DispatchAssumption, TypeOK
<1>6. \A ex \in Exchanges, a \in Assets : Free(ex, a) \in Nat
  BY <1>5 DEF Free
<1>7. QED
  BY <1>1, <1>2, <1>4, <1>5, <1>6

\* An approval is at most the limit per trade, at most the headroom of both exchanges
\* and, outside dry-run, at most what is free on both sides.
LEMMA ApprovableBounds ==
    ASSUME TypeOK, NEW o \in Opps, NEW t \in Sizes
    PROVE  /\ Approvable(o, t) \in Nat
           /\ Approvable(o, t) <= MaxTrade
           /\ Approvable(o, t) <= Headroom(BuyExchange[o])
           /\ Approvable(o, t) <= Headroom(SellExchange[o])
           /\ mode # "dry-run" => /\ Approvable(o, t) <= Free(BuyExchange[o], "quote")
                                  /\ Approvable(o, t) <= Free(SellExchange[o], SymbolOf[o])
<1> DEFINE S1 == {t, MaxTrade}
           S3 == (S1 \union {Headroom(BuyExchange[o])}) \union {Headroom(SellExchange[o])}
           S5 == (S3 \union {Free(BuyExchange[o], "quote")})
                     \union {Free(SellExchange[o], SymbolOf[o])}
           S  == S1 \union ExposureCaps(o) \union BalanceCaps(o)
<1>1. /\ t \in Nat
      /\ MaxTrade \in Nat
      /\ Headroom(BuyExchange[o]) \in Nat
      /\ Headroom(SellExchange[o]) \in Nat
      /\ Free(BuyExchange[o], "quote") \in Nat
      /\ Free(SellExchange[o], SymbolOf[o]) \in Nat
  BY AmountTypes, DispatchAssumption DEF DispatchAssumption
<1>2. \E m \in S1 : \A y \in S1 : m <= y
  BY <1>1
<1>3. \E m \in S3 : \A y \in S3 : m <= y
  <2>1. \E m \in S1 \union {Headroom(BuyExchange[o])} :
            \A y \in S1 \union {Headroom(BuyExchange[o])} : m <= y
    BY <1>1, <1>2, AddToMin
  <2>2. S1 \union {Headroom(BuyExchange[o])} \in SUBSET Int
    BY <1>1
  <2>3. QED
    BY <1>1, <2>1, <2>2, AddToMin
<1>4. \E m \in S5 : \A y \in S5 : m <= y
  <2>1. S3 \in SUBSET Int
    BY <1>1
  <2>2. \E m \in S3 \union {Free(BuyExchange[o], "quote")} :
            \A y \in S3 \union {Free(BuyExchange[o], "quote")} : m <= y
    <3> HIDE DEF S3
    <3>1. QED
      BY <1>1, <1>3, <2>1, AddToMin
  <2>3. S3 \union {Free(BuyExchange[o], "quote")} \in SUBSET Int
    BY <1>1, <2>1
  <2>4. QED
    <3> HIDE DEF S3
    <3>1. QED
      BY <1>1, <2>2, <2>3, AddToMin
<1>5. S = IF mode = "dry-run" THEN S3 ELSE S5
  BY DEF ExposureCaps, BalanceCaps
<1>6. S \in SUBSET Nat
  BY <1>1, <1>5
<1>7. Min(S) \in S /\ \A y \in S : Min(S) <= y
  <2> HIDE DEF S, S3, S5
  <2>1. \E m \in S : \A y \in S : m <= y
    BY <1>3, <1>4, <1>5
  <2>2. S \in SUBSET Int
    BY <1>6
  <2>3. QED
    BY <2>1, <2>2, MinIsLeast
<1>8. MaxTrade \in S /\ Headroom(BuyExchange[o]) \in S /\ Headroom(SellExchange[o]) \in S
  BY <1>5
<1>9. mode # "dry-run" => Free(BuyExchange[o], "quote") \in S
                          /\ Free(SellExchange[o], SymbolOf[o]) \in S
  BY <1>5
<1>10. Approvable(o, t) = Min(S)
  BY DEF Approvable
<1>11. QED
  <2> HIDE DEF S
  <2>1. QED
    BY <1>6, <1>7, <1>8, <1>9, <1>10

-----------------------------------------------------------------------------
(* Type correctness. *)

\* What the loop and the tasks write, and nothing the operators write.
LoopTypes ==
    /\ batch' \in SUBSET Opps
    /\ saving' \in Opps \union {None}
    /\ cooling' \in SUBSET Symbols

HedgeTypes ==
    /\ stage' \in [Opps -> Stages]
    /\ size' \in [Opps -> {0} \union MinOrder .. MaxTrade]
    /\ loss' \in [Opps -> {0, 1}]

LedgerTypes ==
    /\ openHedges' \in SUBSET ({"pre", "hedge"} \X Opps)
    /\ inFlight' \in [Exchanges -> Nat]
    /\ reserved' \in [Exchanges -> [Assets -> Nat]]
    /\ dailyLoss' \in Nat

ControlTypes ==
    /\ mode' \in Modes
    /\ makerTaker' \in BOOLEAN
    /\ paused' \in BOOLEAN
    /\ killed' \in BOOLEAN
    /\ tripped' \in BOOLEAN

\* The exposure ledger of one hedge added on both exchanges, or released.
LEMMA ExposureTypes ==
    ASSUME TypeOK, NEW o \in Opps
    PROVE  /\ Released(inFlight, o) \in [Exchanges -> Nat]
           /\ AddNotional(AddNotional(inFlight, BuyExchange[o], size[o]),
                          SellExchange[o], size[o]) \in [Exchanges -> Nat]
           /\ AddNotional(AddNotional(Released(inFlight, o), BuyExchange[o], size[o]),
                          SellExchange[o], size[o]) \in [Exchanges -> Nat]
<1>1. /\ inFlight \in [Exchanges -> Nat]
      /\ BuyExchange[o] \in Exchanges
      /\ SellExchange[o] \in Exchanges
      /\ size[o] \in Nat
  BY AmountTypes DEF TypeOK
<1>2. Released(inFlight, o) \in [Exchanges -> Nat]
  <2>1. ReleaseNotional(inFlight, BuyExchange[o], size[o]) \in [Exchanges -> Nat]
    BY <1>1, ReleaseType
  <2>2. QED
    BY <1>1, <2>1, ReleaseType DEF Released
<1>3. ASSUME NEW ledger \in [Exchanges -> Nat]
      PROVE  AddNotional(AddNotional(ledger, BuyExchange[o], size[o]),
                         SellExchange[o], size[o]) \in [Exchanges -> Nat]
  <2>1. AddNotional(ledger, BuyExchange[o], size[o]) \in [Exchanges -> Nat]
    BY <1>1, AddType
  <2>2. QED
    BY <1>1, <2>1, AddType
<1>4. QED
  BY <1>1, <1>2, <1>3

\* Reserving keeps the reservations well typed.
LEMMA ReserveType ==
    ASSUME TypeOK, NEW o \in Opps
    PROVE  [reserved EXCEPT ![BuyExchange[o]]["quote"] = @ + size[o],
                            ![SellExchange[o]][SymbolOf[o]] = @ + size[o]]
               \in [Exchanges -> [Assets -> Nat]]
<1>1. /\ reserved \in [Exchanges -> [Assets -> Nat]]
      /\ BuyExchange[o] \in Exchanges
      /\ SellExchange[o] \in Exchanges
      /\ "quote" \in Assets
      /\ SymbolOf[o] \in Assets
      /\ size[o] \in Nat
  BY AmountTypes DEF TypeOK
<1>2. /\ reserved[BuyExchange[o]]["quote"] + size[o] \in Nat
      /\ reserved[SellExchange[o]][SymbolOf[o]] + size[o] \in Nat
  BY <1>1
<1>3. QED
  BY <1>1, <1>2

\* So does giving back, which enlarges no entry.
LEMMA GiveBackFacts ==
    ASSUME TypeOK, NEW o \in Opps, GiveBack(o)
    PROVE  /\ reserved' \in [Exchanges -> [Assets -> Nat]]
           /\ \A ex \in Exchanges, a \in Assets : reserved'[ex][a] <= reserved[ex][a]
<1> DEFINE B == BuyExchange[o]
           V == SellExchange[o]
           once == [reserved EXCEPT ![B] = ReleaseNotional(@, "quote", size[o])]
<1>1. /\ reserved \in [Exchanges -> [Assets -> Nat]]
      /\ B \in Exchanges
      /\ V \in Exchanges
      /\ "quote" \in Assets
      /\ SymbolOf[o] \in Assets
      /\ size[o] \in Nat
      /\ B # V
  BY AmountTypes, DispatchAssumption DEF TypeOK, DispatchAssumption
<1> HIDE DEF B, V
<1>2. /\ once \in [Exchanges -> [Assets -> Nat]]
      /\ \A ex \in Exchanges, a \in Assets : once[ex][a] <= reserved[ex][a]
  <2>1. /\ ReleaseNotional(reserved[B], "quote", size[o]) \in [Assets -> Nat]
        /\ \A a \in Assets : ReleaseNotional(reserved[B], "quote", size[o])[a] <= reserved[B][a]
    <3>1. reserved[B] \in [Assets -> Nat]
      BY <1>1
    <3>2. QED
      BY <1>1, <3>1, ReleaseType, ReleaseShrinks
  <2>2. once \in [Exchanges -> [Assets -> Nat]]
    BY <1>1, <2>1
  <2>3. ASSUME NEW ex \in Exchanges, NEW a \in Assets
        PROVE  once[ex][a] <= reserved[ex][a]
    <3>1. CASE ex = B
      BY <1>1, <2>1, <3>1
    <3>2. CASE ex # B
      <4>1. once[ex] = reserved[ex] /\ reserved[ex][a] \in Nat
        BY <1>1, <3>2
      <4>2. QED
        BY <4>1
    <3>3. QED
      BY <3>1, <3>2
  <2>4. QED
    BY <2>2, <2>3
<1>3. reserved' = [once EXCEPT ![V] = ReleaseNotional(@, SymbolOf[o], size[o])]
  BY <1>1 DEF GiveBack, B, V
<1> HIDE DEF once
<1>4. /\ ReleaseNotional(once[V], SymbolOf[o], size[o]) \in [Assets -> Nat]
      /\ \A a \in Assets : ReleaseNotional(once[V], SymbolOf[o], size[o])[a] <= once[V][a]
  <2>1. once[V] \in [Assets -> Nat]
    BY <1>1, <1>2
  <2>2. QED
    BY <1>1, <2>1, ReleaseType, ReleaseShrinks
<1>5. reserved' \in [Exchanges -> [Assets -> Nat]]
  BY <1>1, <1>2, <1>3, <1>4
<1>6. ASSUME NEW ex \in Exchanges, NEW a \in Assets
      PROVE  reserved'[ex][a] <= reserved[ex][a]
  <2>1. reserved'[ex][a] <= once[ex][a]
    <3>1. CASE ex = V
      BY <1>1, <1>2, <1>3, <1>4, <3>1
    <3>2. CASE ex # V
      <4>1. reserved'[ex] = once[ex] /\ once[ex][a] \in Nat
        BY <1>1, <1>2, <1>3, <3>2
      <4>2. QED
        BY <4>1
    <3>3. QED
      BY <3>1, <3>2
  <2>2. /\ once[ex][a] <= reserved[ex][a]
        /\ once[ex][a] \in Nat /\ reserved[ex][a] \in Nat /\ reserved'[ex][a] \in Nat
    BY <1>1, <1>2, <1>5
  <2>3. QED
    BY <2>1, <2>2
<1>7. QED
  BY <1>5, <1>6

\* Every step of the loop and of the tasks leaves the types alone.
LEMMA LoopStepTypes ==
    ASSUME TypeOK, Scan \/ (\E o \in Opps : Reject(o) \/ Approve(o) \/ Schedule(o))
                        \/ (\E s \in Symbols : CooldownOver(s)) \/ Midnight
    PROVE  LoopTypes /\ HedgeTypes /\ LedgerTypes /\ ControlTypes
<1> USE DEF LoopTypes, HedgeTypes, LedgerTypes, ControlTypes
<1>1. CASE Scan
  BY <1>1 DEF Scan, TypeOK, controlVars, hedgeVars, exposureVars
<1>2. ASSUME NEW o \in Opps, Reject(o)
      PROVE  LoopTypes /\ HedgeTypes /\ LedgerTypes /\ ControlTypes
  BY <1>2 DEF Reject, TypeOK, Stages, controlVars, exposureVars
<1>3. ASSUME NEW o \in Opps, Approve(o)
      PROVE  LoopTypes /\ HedgeTypes /\ LedgerTypes /\ ControlTypes
  <2>1. PICK t \in Sizes : /\ BigEnough(Approvable(o, t))
                           /\ size' = [size EXCEPT ![o] = Approvable(o, t)]
    BY <1>3 DEF Approve
  <2>2. Approvable(o, t) \in MinOrder .. MaxTrade
    BY <2>1, ApprovableBounds, DispatchAssumption DEF BigEnough, DispatchAssumption
  <2>3. HedgeTypes
    <3>1. size' \in [Opps -> {0} \union MinOrder .. MaxTrade]
      BY <2>1, <2>2 DEF TypeOK
    <3>2. stage' \in [Opps -> Stages] /\ loss' \in [Opps -> {0, 1}]
      BY <1>3 DEF Approve, TypeOK, Stages
    <3>3. QED
      BY <3>1, <3>2
  <2>4. LoopTypes
    BY <1>3 DEF Approve, TypeOK
  <2>5. LedgerTypes /\ ControlTypes
    BY <1>3 DEF Approve, TypeOK, controlVars, exposureVars
  <2>6. QED
    BY <2>3, <2>4, <2>5
<1>4. ASSUME NEW o \in Opps, Schedule(o)
      PROVE  LoopTypes /\ HedgeTypes /\ LedgerTypes /\ ControlTypes
  <2>1. LoopTypes
    BY <1>4, AmountTypes DEF Schedule, TypeOK
  <2>2. HedgeTypes
    BY <1>4 DEF Schedule, TypeOK, Stages
  <2>3. LedgerTypes
    <3>1. reserved' \in [Exchanges -> [Assets -> Nat]]
      BY <1>4, ReserveType DEF Schedule
    <3>2. inFlight' \in [Exchanges -> Nat]
      BY <1>4, ExposureTypes DEF Schedule
    <3>3. openHedges' \in SUBSET ({"pre", "hedge"} \X Opps) /\ dailyLoss' \in Nat
      BY <1>4 DEF Schedule, TypeOK, AddOpen, PreId
    <3>4. QED
      BY <3>1, <3>2, <3>3
  <2>4. ControlTypes
    BY <1>4 DEF Schedule, TypeOK, controlVars
  <2>5. QED
    BY <2>1, <2>2, <2>3, <2>4
<1>5. ASSUME NEW s \in Symbols, CooldownOver(s)
      PROVE  LoopTypes /\ HedgeTypes /\ LedgerTypes /\ ControlTypes
  BY <1>5 DEF CooldownOver, TypeOK, controlVars, hedgeVars, exposureVars
<1>6. CASE Midnight
  BY <1>6 DEF Midnight, TypeOK, controlVars, loopVars, hedgeVars, exposureVars
<1>7. QED
  BY <1>1, <1>2, <1>3, <1>4, <1>5, <1>6

LEMMA TaskStepTypes ==
    ASSUME TypeOK, NEW o \in Opps, Start(o) \/ Leave(o)
    PROVE  LoopTypes /\ HedgeTypes /\ LedgerTypes /\ ControlTypes
<1> USE DEF LoopTypes, HedgeTypes, LedgerTypes, ControlTypes
<1>1. CASE StartMaker(o)
  BY <1>1 DEF StartMaker, TypeOK, Stages, controlVars, loopVars, exposureVars
<1>2. CASE StartHedge(o)
  <2>1. inFlight' \in [Exchanges -> Nat]
    BY <1>2, ExposureTypes DEF StartHedge
  <2>2. openHedges' \in SUBSET ({"pre", "hedge"} \X Opps)
    BY <1>2 DEF StartHedge, TypeOK, AddOpen, ReleaseOpen, OwnId
  <2>3. HedgeTypes
    BY <1>2 DEF StartHedge, TypeOK, Stages
  <2>4. /\ LoopTypes /\ ControlTypes
        /\ reserved' \in [Exchanges -> [Assets -> Nat]]
        /\ dailyLoss' \in Nat
    BY <1>2 DEF StartHedge, TypeOK, controlVars, loopVars
  <2>5. QED
    BY <2>1, <2>2, <2>3, <2>4
<1>3. CASE HedgeReturns(o)
  <2>1. inFlight' \in [Exchanges -> Nat]
    BY <1>3, ExposureTypes DEF HedgeReturns
  <2>2. openHedges' \in SUBSET ({"pre", "hedge"} \X Opps)
    BY <1>3 DEF HedgeReturns, TypeOK, ReleaseOpen
  <2>3. HedgeTypes
    BY <1>3 DEF HedgeReturns, TypeOK, Stages, MayLose
  <2>4. /\ LoopTypes /\ ControlTypes
        /\ reserved' \in [Exchanges -> [Assets -> Nat]]
        /\ dailyLoss' \in Nat
    BY <1>3 DEF HedgeReturns, TypeOK, controlVars, loopVars, MayTrip
  <2>5. QED
    BY <2>1, <2>2, <2>3, <2>4
<1>4. CASE HedgeRaises(o)
  <2>1. reserved' \in [Exchanges -> [Assets -> Nat]]
    BY <1>4, GiveBackFacts DEF HedgeRaises
  <2>2. HedgeTypes
    BY <1>4 DEF HedgeRaises, TypeOK, Stages, MayLose
  <2>3. /\ LoopTypes /\ ControlTypes
        /\ openHedges' \in SUBSET ({"pre", "hedge"} \X Opps)
        /\ inFlight' \in [Exchanges -> Nat]
        /\ dailyLoss' \in Nat
    BY <1>4 DEF HedgeRaises, TypeOK, controlVars, loopVars, exposureVars, MayTrip
  <2>4. QED
    BY <2>1, <2>2, <2>3
<1>5. CASE RecordPnl(o)
  <2>1. dailyLoss' \in Nat
    <3>1. loss[o] \in {0, 1} /\ dailyLoss \in Nat
      BY DEF TypeOK
    <3>2. QED
      BY <1>5, <3>1 DEF RecordPnl
  <2>2. /\ LoopTypes /\ HedgeTypes /\ ControlTypes
        /\ openHedges' \in SUBSET ({"pre", "hedge"} \X Opps)
        /\ inFlight' \in [Exchanges -> Nat]
        /\ reserved' \in [Exchanges -> [Assets -> Nat]]
    BY <1>5 DEF RecordPnl, TypeOK, Stages, controlVars, loopVars, exposureVars
  <2>3. QED
    BY <2>1, <2>2
<1>6. CASE HedgeEnds(o)
  <2>1. reserved' \in [Exchanges -> [Assets -> Nat]]
    BY <1>6, GiveBackFacts DEF HedgeEnds
  <2>2. /\ LoopTypes /\ HedgeTypes /\ ControlTypes
        /\ openHedges' \in SUBSET ({"pre", "hedge"} \X Opps)
        /\ inFlight' \in [Exchanges -> Nat]
        /\ dailyLoss' \in Nat
    BY <1>6 DEF HedgeEnds, TypeOK, Stages, controlVars, loopVars, exposureVars
  <2>3. QED
    BY <2>1, <2>2
<1>7. CASE MakerEnds(o)
  <2>1. reserved' \in [Exchanges -> [Assets -> Nat]]
    BY <1>7, GiveBackFacts DEF MakerEnds
  <2>2. inFlight' \in [Exchanges -> Nat]
    BY <1>7, ExposureTypes DEF MakerEnds, ReleasedMaker
  <2>3. openHedges' \in SUBSET ({"pre", "hedge"} \X Opps) /\ dailyLoss' \in Nat
    BY <1>7 DEF MakerEnds, TypeOK, ReleaseOpen
  <2>4. LoopTypes /\ HedgeTypes /\ ControlTypes
    BY <1>7 DEF MakerEnds, TypeOK, Stages, controlVars, loopVars, MayLose
  <2>5. QED
    BY <2>1, <2>2, <2>3, <2>4
<1>8. QED
  BY <1>1, <1>2, <1>3, <1>4, <1>5, <1>6, <1>7 DEF Start, Leave

LEMMA OperateTypes ==
    ASSUME TypeOK, Operate
    PROVE  LoopTypes /\ HedgeTypes /\ LedgerTypes /\ ControlTypes
<1>1. LoopTypes /\ HedgeTypes /\ LedgerTypes
  BY DEF Operate, TypeOK, LoopTypes, HedgeTypes, LedgerTypes, loopVars, hedgeVars, exposureVars
<1>2. ControlTypes
  <2> USE DEF TypeOK, ControlTypes
  <2>1. CASE SetKill
    <3>1. killed' \in BOOLEAN
      BY <2>1, Zenon DEF SetKill
    <3>2. QED
      BY <2>1, <3>1 DEF SetKill
  <2>2. CASE SetPause
    <3>1. paused' \in BOOLEAN
      BY <2>2, Zenon DEF SetPause
    <3>2. QED
      BY <2>2, <3>1 DEF SetPause
  <2>3. CASE SetMode
    BY <2>3 DEF SetMode
  <2>4. CASE SetExecution
    <3>1. makerTaker' \in BOOLEAN
      BY <2>4, Zenon DEF SetExecution
    <3>2. QED
      BY <2>4, <3>1 DEF SetExecution
  <2>5. CASE ResetBreaker
    BY <2>5 DEF ResetBreaker, controlVars
  <2>6. QED
    BY <2>1, <2>2, <2>3, <2>4, <2>5 DEF Operate
<1>3. QED
  BY <1>1, <1>2

LEMMA InitTypes ==
    ASSUME Init
    PROVE  TypeOK
<1>1. mode \in Modes /\ makerTaker \in BOOLEAN
  BY DEF Init
<1>2. paused \in BOOLEAN /\ killed \in BOOLEAN /\ tripped \in BOOLEAN
  BY DEF Init
<1>3. /\ batch \in SUBSET Opps /\ saving \in Opps \union {None}
      /\ cooling \in SUBSET Symbols
      /\ openHedges \in SUBSET ({"pre", "hedge"} \X Opps)
      /\ dailyLoss \in Nat
  BY DEF Init
<1>4. /\ stage \in [Opps -> Stages]
      /\ size \in [Opps -> {0} \union MinOrder .. MaxTrade]
      /\ loss \in [Opps -> {0, 1}]
  BY DEF Init, Stages
<1>5. /\ inFlight \in [Exchanges -> Nat]
      /\ reserved \in [Exchanges -> [Assets -> Nat]]
  BY DEF Init
<1>6. QED
  BY <1>1, <1>2, <1>3, <1>4, <1>5, Zenon DEF TypeOK

\* TypeOK holds in every reachable state: in particular an approval is never below
\* the minimum order nor above the limit per trade.
THEOREM DispatchTypeCorrect == Spec => []TypeOK
<1>1. Init => TypeOK
  BY InitTypes
<1>2. TypeOK /\ [Next]_vars => TypeOK'
  <2> SUFFICES ASSUME TypeOK, [Next]_vars PROVE TypeOK'
    OBVIOUS
  <2>1. LoopTypes /\ HedgeTypes /\ LedgerTypes /\ ControlTypes => TypeOK'
    BY DEF LoopTypes, HedgeTypes, LedgerTypes, ControlTypes, TypeOK
  <2>2. CASE UNCHANGED vars
    BY <2>2 DEF TypeOK, vars, controlVars, loopVars, hedgeVars, exposureVars
  <2>3. CASE Next
    BY <2>1, <2>3, LoopStepTypes, TaskStepTypes, OperateTypes DEF Next
  <2>4. QED
    BY <2>2, <2>3
<1>3. QED
  BY <1>1, <1>2, PTL DEF Spec

-----------------------------------------------------------------------------
(* The limit on open hedges. *)

\* Who is counted, and under which id.
IdsFollowStages ==
    \A o \in Opps :
        /\ PreId(o) \in openHedges <=> stage[o] \in {"scheduled", "making"}
        /\ OwnId(o) \in openHedges <=> stage[o] \in {"legs", "crashed"}

\* What the loop looks at has not been taken up.
BatchIsUnseen == \A o \in batch : stage[o] = "unseen"

\* The opportunity the loop awaits persistence with still has its slot.
SlotIsKept ==
    saving # None => stage[saving] = "approved" /\ Cardinality(openHedges) < MaxOpen

SlotInv == /\ TypeOK /\ IdsFollowStages /\ BatchIsUnseen /\ SlotIsKept
           /\ OpenWithinLimit

LEMMA IdsAreFinite == IsFiniteSet({"pre", "hedge"} \X Opps)
<1>1. IsFiniteSet({"pre", "hedge"})
  <2>1. {"pre", "hedge"} = {"pre"} \union {"hedge"}
    OBVIOUS
  <2>2. IsFiniteSet({"pre"})
    BY FS_Singleton
  <2>3. QED
    BY <2>1, <2>2, FS_AddElement
<1>2. QED
  BY <1>1, FS_Product, DispatchAssumption DEF DispatchAssumption

LEMMA OpenIsFinite ==
    ASSUME TypeOK
    PROVE  IsFiniteSet(openHedges) /\ Cardinality(openHedges) \in Nat
<1>2. IsFiniteSet({"pre", "hedge"} \X Opps)
  BY IdsAreFinite
<1>3. QED
  BY <1>2, FS_Subset, FS_CardinalityType DEF TypeOK

\* A step of a task keeps the count or lowers it: a hedge that starts replaces its
\* id by another.
LEMMA TasksKeepTheCount ==
    ASSUME SlotInv, NEW o \in Opps, Start(o) \/ Leave(o)
    PROVE  Cardinality(openHedges') <= Cardinality(openHedges)
<1>1. IsFiniteSet(openHedges) /\ Cardinality(openHedges) \in Nat
  BY OpenIsFinite DEF SlotInv
<1>2. ASSUME NEW id PROVE Cardinality(openHedges \ {id}) <= Cardinality(openHedges)
  BY <1>1, FS_RemoveElement
<1>3. CASE openHedges' = openHedges
  BY <1>1, <1>3
<1>4. CASE \E id : openHedges' = openHedges \ {id}
  BY <1>2, <1>4
<1>5. CASE StartHedge(o) /\ openHedges' = AddOpen(ReleaseOpen(openHedges, PreId(o)), OwnId(o))
  <2>1. PreId(o) \in openHedges /\ stage[o] = "scheduled"
    BY <1>5 DEF StartHedge, SlotInv, IdsFollowStages
  <2>2. IsFiniteSet(openHedges \ {PreId(o)})
        /\ Cardinality(openHedges \ {PreId(o)}) = Cardinality(openHedges) - 1
    BY <1>1, <2>1, FS_RemoveElement
  <2>3. Cardinality((openHedges \ {PreId(o)}) \union {OwnId(o)})
            <= Cardinality(openHedges \ {PreId(o)}) + 1
    <3> DEFINE Rest == openHedges \ {PreId(o)}
    <3>1. IsFiniteSet(Rest) /\ Cardinality(Rest) \in Nat
      BY <2>2, FS_CardinalityType
    <3>2. Cardinality(Rest \union {OwnId(o)})
              = IF OwnId(o) \in Rest THEN Cardinality(Rest) ELSE Cardinality(Rest) + 1
      <4> HIDE DEF Rest
      <4>1. QED
        BY <3>1, FS_AddElement
    <3>3. QED
      <4> HIDE DEF Rest
      <4>1. Cardinality(Rest \union {OwnId(o)}) <= Cardinality(Rest) + 1
        BY <3>1, <3>2
      <4>2. QED
        BY <4>1 DEF Rest
  <2>4. openHedges' = (openHedges \ {PreId(o)}) \union {OwnId(o)}
    BY <1>5 DEF AddOpen, ReleaseOpen
  <2>5. Cardinality(openHedges') \in Nat
    <3>1. IsFiniteSet(openHedges')
      BY <2>2, <2>4, FS_AddElement
    <3>2. QED
      BY <3>1, FS_CardinalityType
  <2>6. QED
    BY <1>1, <2>2, <2>3, <2>4, <2>5
<1>6. CASE StartMaker(o) \/ HedgeRaises(o) \/ RecordPnl(o) \/ HedgeEnds(o)
  <2>1. openHedges' = openHedges
    BY <1>6 DEF StartMaker, HedgeRaises, RecordPnl, HedgeEnds, exposureVars
  <2>2. QED
    BY <1>3, <2>1
<1>7. CASE HedgeReturns(o) \/ MakerEnds(o)
  <2>1. \E id : openHedges' = openHedges \ {id}
    BY <1>7 DEF HedgeReturns, MakerEnds, ReleaseOpen
  <2>2. QED
    BY <1>4, <2>1
<1>8. CASE StartHedge(o)
  <2>1. \/ openHedges' = AddOpen(ReleaseOpen(openHedges, PreId(o)), OwnId(o))
        \/ \E id : openHedges' = openHedges \ {id}
    BY <1>8 DEF StartHedge, ReleaseOpen
  <2>2. QED
    BY <1>4, <1>5, <1>8, <2>1
<1>9. QED
  BY <1>6, <1>7, <1>8 DEF Start, Leave

\* Every step of a task is from one of four stages, and moves only its own.
LEMMA TaskMoves ==
    ASSUME TypeOK, NEW o \in Opps, Start(o) \/ Leave(o)
    PROVE  /\ stage[o] \in {"scheduled", "making", "legs", "returned", "recorded"}
           /\ \A p \in Opps : p # o => stage'[p] = stage[p]
           /\ batch' = batch /\ saving' = saving
  BY DEF TypeOK, Start, Leave, StartMaker, StartHedge, HedgeReturns, HedgeRaises, RecordPnl,
         HedgeEnds, MakerEnds, loopVars

LEMMA TasksKeepIds ==
    ASSUME TypeOK, IdsFollowStages, NEW o \in Opps, Start(o) \/ Leave(o)
    PROVE  IdsFollowStages'
<1>1. SUFFICES ASSUME NEW p \in Opps
               PROVE  /\ PreId(p) \in openHedges' <=> stage'[p] \in {"scheduled", "making"}
                      /\ OwnId(p) \in openHedges' <=> stage'[p] \in {"legs", "crashed"}
  BY Zenon DEF IdsFollowStages, PreId, OwnId
<1> USE DEF IdsFollowStages, TypeOK, PreId, OwnId
<1>2. CASE StartMaker(o)
  BY <1>2 DEF StartMaker, exposureVars
<1>3. CASE StartHedge(o)
  BY <1>3 DEF StartHedge, AddOpen, ReleaseOpen
<1>4. CASE HedgeReturns(o)
  BY <1>4 DEF HedgeReturns, ReleaseOpen
<1>5. CASE HedgeRaises(o)
  BY <1>5 DEF HedgeRaises, exposureVars
<1>6. CASE RecordPnl(o)
  BY <1>6 DEF RecordPnl, exposureVars
<1>7. CASE HedgeEnds(o)
  BY <1>7 DEF HedgeEnds, exposureVars
<1>8. CASE MakerEnds(o)
  BY <1>8 DEF MakerEnds, ReleaseOpen
<1>9. QED
  BY <1>2, <1>3, <1>4, <1>5, <1>6, <1>7, <1>8 DEF Start, Leave

LEMMA SlotStep ==
    ASSUME SlotInv, [Next]_vars
    PROVE  (IdsFollowStages /\ BatchIsUnseen /\ SlotIsKept /\ OpenWithinLimit)'
<1>1. IsFiniteSet(openHedges) /\ Cardinality(openHedges) \in Nat /\ MaxOpen \in Nat
  BY OpenIsFinite, DispatchAssumption DEF SlotInv, DispatchAssumption
<1>2. CASE UNCHANGED vars
  BY <1>2 DEF SlotInv, IdsFollowStages, BatchIsUnseen, SlotIsKept, OpenWithinLimit, PreId, OwnId,
              vars, loopVars, hedgeVars, exposureVars
<1>3. CASE Operate \/ Midnight \/ \E s \in Symbols : CooldownOver(s)
  <2>1. UNCHANGED <<batch, saving, stage, openHedges>>
    BY <1>3 DEF Operate, Midnight, CooldownOver, loopVars, hedgeVars, exposureVars
  <2>2. QED
    BY <2>1 DEF SlotInv, IdsFollowStages, BatchIsUnseen, SlotIsKept, OpenWithinLimit, PreId, OwnId
<1>4. CASE Scan
  <2>1. UNCHANGED <<stage, openHedges, saving>> /\ BatchIsUnseen'
    BY <1>4 DEF Scan, BatchIsUnseen, hedgeVars, exposureVars
  <2>2. QED
    BY <2>1 DEF SlotInv, IdsFollowStages, SlotIsKept, OpenWithinLimit, PreId, OwnId
<1>5. ASSUME NEW o \in Opps, Reject(o)
      PROVE  (IdsFollowStages /\ BatchIsUnseen /\ SlotIsKept /\ OpenWithinLimit)'
  <2>1. /\ openHedges' = openHedges /\ saving = None /\ saving' = None
        /\ batch' = batch \ {o} /\ stage[o] = "unseen"
        /\ stage' = [stage EXCEPT ![o] = "rejected"]
    BY <1>5 DEF Reject, exposureVars, SlotInv, BatchIsUnseen
  <2>2. QED
    BY <2>1 DEF SlotInv, TypeOK, IdsFollowStages, BatchIsUnseen, SlotIsKept, OpenWithinLimit,
                PreId, OwnId
<1>6. ASSUME NEW o \in Opps, Approve(o)
      PROVE  (IdsFollowStages /\ BatchIsUnseen /\ SlotIsKept /\ OpenWithinLimit)'
  <2>1. /\ openHedges' = openHedges /\ saving' = o
        /\ batch' = batch \ {o} /\ stage[o] = "unseen"
        /\ stage' = [stage EXCEPT ![o] = "approved"]
        /\ Cardinality(openHedges) < MaxOpen
    BY <1>6 DEF Approve, MayTrade, SlotLeft, exposureVars, SlotInv, BatchIsUnseen
  <2>2. QED
    BY <2>1 DEF SlotInv, TypeOK, IdsFollowStages, BatchIsUnseen, SlotIsKept, OpenWithinLimit,
                PreId, OwnId
<1>7. ASSUME NEW o \in Opps, Schedule(o)
      PROVE  (IdsFollowStages /\ BatchIsUnseen /\ SlotIsKept /\ OpenWithinLimit)'
  <2>1. /\ saving = o /\ saving' = None /\ batch' = batch
        /\ stage' = [stage EXCEPT ![o] = "scheduled"]
        /\ openHedges' = openHedges \union {PreId(o)}
    BY <1>7 DEF Schedule, AddOpen
  <2>2. stage[o] = "approved" /\ Cardinality(openHedges) < MaxOpen
    BY <2>1, DispatchAssumption DEF SlotInv, SlotIsKept, DispatchAssumption
  <2>3. OpenWithinLimit'
    <3>1. Cardinality(openHedges \union {PreId(o)})
              = IF PreId(o) \in openHedges THEN Cardinality(openHedges)
                                           ELSE Cardinality(openHedges) + 1
      BY <1>1, FS_AddElement
    <3>2. Cardinality(openHedges \union {PreId(o)}) <= MaxOpen
      BY <1>1, <2>2, <3>1
    <3>3. QED
      BY <2>1, <3>2 DEF OpenWithinLimit
  <2>4. IdsFollowStages'
    <3>1. SUFFICES ASSUME NEW p \in Opps
                   PROVE  /\ PreId(p) \in openHedges' <=> stage'[p] \in {"scheduled", "making"}
                          /\ OwnId(p) \in openHedges' <=> stage'[p] \in {"legs", "crashed"}
      BY Zenon DEF IdsFollowStages, PreId, OwnId
    <3>2. QED
      BY <2>1, <2>2 DEF SlotInv, TypeOK, IdsFollowStages, PreId, OwnId
  <2>5. BatchIsUnseen' /\ SlotIsKept'
    BY <2>1, <2>2 DEF SlotInv, TypeOK, BatchIsUnseen, SlotIsKept
  <2>6. QED
    BY <2>3, <2>4, <2>5
<1>8. ASSUME NEW o \in Opps, Start(o) \/ Leave(o)
      PROVE  (IdsFollowStages /\ BatchIsUnseen /\ SlotIsKept /\ OpenWithinLimit)'
  <2>1. TypeOK /\ IdsFollowStages /\ BatchIsUnseen /\ SlotIsKept /\ OpenWithinLimit
    BY DEF SlotInv
  <2>2. /\ stage[o] \in {"scheduled", "making", "legs", "returned", "recorded"}
        /\ \A p \in Opps : p # o => stage'[p] = stage[p]
        /\ batch' = batch /\ saving' = saving
    BY <1>8, <2>1, TaskMoves
  <2>3. IdsFollowStages'
    BY <1>8, <2>1, TasksKeepIds
  <2>4. BatchIsUnseen'
    BY <2>1, <2>2 DEF BatchIsUnseen, TypeOK
  <2>5. /\ Cardinality(openHedges') <= Cardinality(openHedges)
        /\ Cardinality(openHedges') \in Nat
    <3>1. Cardinality(openHedges') <= Cardinality(openHedges)
      BY <1>8, TasksKeepTheCount
    <3>2. TypeOK'
      BY <1>8, <2>1, TaskStepTypes
         DEF LoopTypes, HedgeTypes, LedgerTypes, ControlTypes, TypeOK
    <3>3. Cardinality(openHedges') \in Nat
      <4>1. IsFiniteSet(openHedges')
        <5>1. openHedges' \in SUBSET ({"pre", "hedge"} \X Opps)
          BY <3>2 DEF TypeOK
        <5>2. IsFiniteSet({"pre", "hedge"} \X Opps)
          BY IdsAreFinite
        <5>3. QED
          BY <5>1, <5>2, FS_Subset
      <4>2. QED
        BY <4>1, FS_CardinalityType
    <3>4. QED
      BY <3>1, <3>3
  <2>6. SlotIsKept'
    BY <1>1, <2>1, <2>2, <2>5 DEF SlotIsKept, TypeOK
  <2>7. OpenWithinLimit'
    BY <1>1, <2>1, <2>5 DEF OpenWithinLimit
  <2>8. QED
    BY <2>3, <2>4, <2>6, <2>7
<1>9. QED
  BY <1>2, <1>3, <1>4, <1>5, <1>6, <1>7, <1>8 DEF Next

\* The inductive invariant of the two limits: ids follow stages, and the slot of the
\* opportunity that is being persisted stays free.
THEOREM SlotInvHolds == Spec => []SlotInv
<1>1. Init => SlotInv
  <2> SUFFICES ASSUME Init PROVE SlotInv
    OBVIOUS
  <2>1. IdsFollowStages /\ BatchIsUnseen /\ SlotIsKept
    BY DEF Init, IdsFollowStages, BatchIsUnseen, SlotIsKept
  <2>2. OpenWithinLimit
    BY FS_EmptySet, DispatchAssumption DEF Init, OpenWithinLimit, DispatchAssumption
  <2>3. TypeOK
    BY InitTypes
  <2>4. QED
    BY <2>1, <2>2, <2>3 DEF SlotInv
<1>2. SlotInv /\ TypeOK' /\ [Next]_vars => SlotInv'
  BY SlotStep DEF SlotInv
<1>3. QED
  BY <1>1, <1>2, DispatchTypeCorrect, PTL DEF Spec

\* For any number of opportunities and any limit, the open hedges never outnumber
\* it: the slot the decision saw is still free after the loop's await, because
\* nothing but the loop takes one.
THEOREM OpenNeverExceeds == Spec => []OpenWithinLimit
<1>1. SlotInv => OpenWithinLimit
  BY DEF SlotInv
<1>2. QED
  BY <1>1, SlotInvHolds, PTL

-----------------------------------------------------------------------------
(* The limit on reservations. *)

\* What the awaiting opportunity will reserve is still free.
FundsAreKept ==
    saving # None /\ "dry-run" \notin Modes =>
        /\ reserved[BuyExchange[saving]]["quote"] + size[saving]
               <= Balance[BuyExchange[saving]]["quote"]
        /\ reserved[SellExchange[saving]][SymbolOf[saving]] + size[saving]
               <= Balance[SellExchange[saving]][SymbolOf[saving]]

FundsInv == SlotInv /\ FundsAreKept /\ ReservedWithinBalance

LEMMA FundsStep ==
    ASSUME FundsInv, TypeOK', [Next]_vars
    PROVE  (FundsAreKept /\ ReservedWithinBalance)'
<1> USE DEF FundsInv
<1>1. SUFFICES ASSUME "dry-run" \notin Modes
               PROVE  /\ saving' # None =>
                             /\ reserved'[BuyExchange[saving']]["quote"] + size'[saving']
                                    <= Balance[BuyExchange[saving']]["quote"]
                             /\ reserved'[SellExchange[saving']][SymbolOf[saving']] + size'[saving']
                                    <= Balance[SellExchange[saving']][SymbolOf[saving']]
                      /\ \A ex \in Exchanges, a \in Assets : reserved'[ex][a] <= Balance[ex][a]
  BY DEF FundsAreKept, ReservedWithinBalance
<1> DEFINE Kept  == saving' # None =>
                             /\ reserved'[BuyExchange[saving']]["quote"] + size'[saving']
                                    <= Balance[BuyExchange[saving']]["quote"]
                             /\ reserved'[SellExchange[saving']][SymbolOf[saving']] + size'[saving']
                                    <= Balance[SellExchange[saving']][SymbolOf[saving']]
           Within == \A ex \in Exchanges, a \in Assets : reserved'[ex][a] <= Balance[ex][a]
<1>2. /\ TypeOK
      /\ \A ex \in Exchanges, a \in Assets : reserved[ex][a] <= Balance[ex][a]
      /\ saving # None =>
            /\ reserved[BuyExchange[saving]]["quote"] + size[saving]
                   <= Balance[BuyExchange[saving]]["quote"]
            /\ reserved[SellExchange[saving]][SymbolOf[saving]] + size[saving]
                   <= Balance[SellExchange[saving]][SymbolOf[saving]]
  BY <1>1 DEF SlotInv, FundsAreKept, ReservedWithinBalance
<1>3. \A o \in Opps : /\ SymbolOf[o] \in Assets /\ "quote" \in Assets
                      /\ BuyExchange[o] \in Exchanges /\ SellExchange[o] \in Exchanges
                      /\ BuyExchange[o] # SellExchange[o]
                      /\ size[o] \in Nat
  BY <1>2, AmountTypes, DispatchAssumption DEF DispatchAssumption
<1>4. \A ex \in Exchanges, a \in Assets :
          reserved[ex][a] \in Nat /\ reserved'[ex][a] \in Nat /\ Balance[ex][a] \in Nat
  <2>1. /\ reserved \in [Exchanges -> [Assets -> Nat]]
        /\ reserved' \in [Exchanges -> [Assets -> Nat]]
    BY <1>2 DEF TypeOK
  <2>2. Balance \in [Exchanges -> [Assets -> Nat]]
    BY DispatchAssumption DEF DispatchAssumption
  <2>3. QED
    BY <2>1, <2>2
<1>5. CASE /\ UNCHANGED <<saving, size>>
           /\ \A ex \in Exchanges, a \in Assets : reserved'[ex][a] <= reserved[ex][a]
  <2>1. Within
    BY <1>2, <1>4, <1>5
  <2>2. Kept
    <3> SUFFICES ASSUME saving # None
                 PROVE /\ reserved'[BuyExchange[saving]]["quote"] + size[saving]
                              <= Balance[BuyExchange[saving]]["quote"]
                       /\ reserved'[SellExchange[saving]][SymbolOf[saving]] + size[saving]
                              <= Balance[SellExchange[saving]][SymbolOf[saving]]
      BY <1>5
    <3>1. saving \in Opps
      BY <1>2 DEF TypeOK
    <3>2. QED
      BY <1>2, <1>3, <1>4, <1>5, <3>1
  <2>3. QED
    BY <2>1, <2>2
<1>6. CASE UNCHANGED <<saving, size, reserved>>
  <2>1. \A ex \in Exchanges, a \in Assets : reserved'[ex][a] <= reserved[ex][a]
    BY <1>4, <1>6
  <2>2. QED
    BY <1>5, <1>6, <2>1
<1>7. CASE UNCHANGED vars \/ Scan \/ Operate \/ Midnight \/ \E s \in Symbols : CooldownOver(s)
  <2>1. UNCHANGED <<saving, size, reserved>>
    BY <1>7 DEF vars, loopVars, hedgeVars, Scan, Operate, Midnight, CooldownOver
  <2>2. QED
    BY <1>6, <2>1
<1>8. ASSUME NEW o \in Opps, Reject(o)
      PROVE  Kept /\ Within
  <2>1. UNCHANGED <<saving, size, reserved>>
    BY <1>8 DEF Reject
  <2>2. QED
    BY <1>6, <2>1
<1>9. ASSUME NEW o \in Opps, Approve(o)
      PROVE  Kept /\ Within
  <2>1. PICK t \in Sizes : size' = [size EXCEPT ![o] = Approvable(o, t)]
    BY <1>9 DEF Approve
  <2>2. saving' = o /\ reserved' = reserved
    BY <1>9 DEF Approve
  <2>3. mode # "dry-run"
    BY <1>1, <1>2 DEF TypeOK
  <2>4. size'[o] = Approvable(o, t)
    BY <1>2, <2>1 DEF TypeOK
  <2>5. /\ size'[o] \in Nat
        /\ size'[o] <= Free(BuyExchange[o], "quote")
        /\ size'[o] <= Free(SellExchange[o], SymbolOf[o])
    BY <1>2, <2>3, <2>4, ApprovableBounds
  <2>6. ASSUME NEW ex \in Exchanges, NEW a \in Assets, size'[o] <= Free(ex, a)
        PROVE  reserved[ex][a] + size'[o] <= Balance[ex][a]
    BY <1>2, <1>4, <2>5, <2>6 DEF Free
  <2>7. Kept
    BY <1>3, <2>2, <2>5, <2>6
  <2>8. Within
    BY <1>2, <2>2
  <2>9. QED
    BY <2>7, <2>8
<1>10. ASSUME NEW o \in Opps, Schedule(o)
       PROVE  Kept /\ Within
  <2>1. /\ saving = o /\ saving' = None
        /\ reserved' = [reserved EXCEPT ![BuyExchange[o]]["quote"] = @ + size[o],
                                        ![SellExchange[o]][SymbolOf[o]] = @ + size[o]]
    BY <1>10 DEF Schedule
  <2>2. /\ reserved[BuyExchange[o]]["quote"] + size[o] <= Balance[BuyExchange[o]]["quote"]
        /\ reserved[SellExchange[o]][SymbolOf[o]] + size[o]
               <= Balance[SellExchange[o]][SymbolOf[o]]
    BY <1>2, <2>1, DispatchAssumption DEF DispatchAssumption
  <2>3. ASSUME NEW ex \in Exchanges, NEW a \in Assets
        PROVE  reserved'[ex][a] <= Balance[ex][a]
    <3>1. reserved \in [Exchanges -> [Assets -> Nat]]
      BY <1>2 DEF TypeOK
    <3>2. CASE ex = BuyExchange[o]
      BY <1>2, <1>3, <2>1, <2>2, <3>1, <3>2
    <3>3. CASE ex = SellExchange[o]
      BY <1>2, <1>3, <2>1, <2>2, <3>1, <3>3
    <3>4. CASE ex # BuyExchange[o] /\ ex # SellExchange[o]
      BY <1>2, <1>3, <2>1, <3>1, <3>4
    <3>5. QED
      BY <3>2, <3>3, <3>4
  <2>4. QED
    BY <2>1, <2>3
<1>11. ASSUME NEW o \in Opps, Start(o) \/ Leave(o)
       PROVE  Kept /\ Within
  <2>1. UNCHANGED <<saving, size>>
    BY <1>11 DEF Start, Leave, StartMaker, StartHedge, HedgeReturns, HedgeRaises, RecordPnl,
                 HedgeEnds, MakerEnds, loopVars
  <2>2. CASE reserved' = reserved
    BY <1>6, <2>1, <2>2
  <2>3. CASE GiveBack(o)
    BY <1>2, <1>5, <2>1, <2>3, GiveBackFacts
  <2>4. QED
    BY <1>11, <2>2, <2>3 DEF Start, Leave, StartMaker, StartHedge, HedgeReturns, HedgeRaises,
                             RecordPnl, HedgeEnds, MakerEnds
<1>12. QED
  BY <1>7, <1>8, <1>9, <1>10, <1>11 DEF Next

\* For any balances, approvals and number of concurrent hedges, nothing is reserved
\* twice: outside dry-run an exchange never owes more of an asset than it held.
THEOREM ReservesAreCovered == Spec => []ReservedWithinBalance
<1>1. Init => FundsAreKept /\ ReservedWithinBalance
  <2>1. Init => \A ex \in Exchanges, a \in Assets : reserved[ex][a] <= Balance[ex][a]
    <3> SUFFICES ASSUME Init, NEW ex \in Exchanges, NEW a \in Assets
                 PROVE  reserved[ex][a] <= Balance[ex][a]
      OBVIOUS
    <3>1. reserved[ex][a] = 0
      BY DEF Init
    <3>2. Balance[ex][a] \in Nat
      BY DispatchAssumption DEF DispatchAssumption
    <3>3. QED
      BY <3>1, <3>2
  <2>2. Init => FundsAreKept
    BY DEF Init, FundsAreKept
  <2>3. QED
    BY <2>1, <2>2 DEF ReservedWithinBalance
<1>2. FundsAreKept /\ ReservedWithinBalance /\ SlotInv /\ TypeOK' /\ [Next]_vars
          => (FundsAreKept /\ ReservedWithinBalance)'
  BY FundsStep DEF FundsInv
<1>3. QED
  BY <1>1, <1>2, SlotInvHolds, DispatchTypeCorrect, PTL DEF Spec

-----------------------------------------------------------------------------
(* The limit on exposure. *)

\* Whose notional the exposure ledger carries: a crashed hedge never releases it.
Exposed == {o \in Opps : stage[o] \in {"scheduled", "making", "legs", "crashed"}}

ExposedOn(ex) == {o \in Exposed : ex \in {BuyExchange[o], SellExchange[o]}}

\* An exchange is charged exactly the sizes of the exposed opportunities on it.
LedgerIsExact == \A ex \in Exchanges : inFlight[ex] = Total(size, ExposedOn(ex))

\* The exposure the awaiting opportunity will add still fits.
HeadroomIsKept ==
    saving # None =>
        /\ inFlight[BuyExchange[saving]] + size[saving] <= MaxExposure
        /\ inFlight[SellExchange[saving]] + size[saving] <= MaxExposure

LEMMA ExposedFacts ==
    ASSUME TypeOK, NEW ex \in Exchanges
    PROVE  /\ IsFiniteSet(ExposedOn(ex))
           /\ \A o \in ExposedOn(ex) : size[o] \in Nat
           /\ Total(size, ExposedOn(ex)) \in Nat
           /\ \A o \in ExposedOn(ex) : size[o] <= Total(size, ExposedOn(ex))
<1>1. IsFiniteSet(ExposedOn(ex))
  <2>1. ExposedOn(ex) \in SUBSET Opps
    BY DEF ExposedOn, Exposed
  <2>2. QED
    BY <2>1, FS_Subset, DispatchAssumption DEF DispatchAssumption
<1>2. \A o \in ExposedOn(ex) : size[o] \in Nat
  BY AmountTypes DEF ExposedOn, Exposed
<1>3. QED
  BY <1>1, <1>2, TotalType, TotalWithout

\* What an exposed opportunity was charged is there to be released in full: the
\* clamp at zero takes nothing, and charging it again restores the ledger.
LEMMA ReleaseIsExact ==
    ASSUME TypeOK, LedgerIsExact, NEW o \in Exposed
    PROVE  /\ Released(inFlight, o) =
                  [ex \in Exchanges |-> IF ex \in {BuyExchange[o], SellExchange[o]}
                                        THEN inFlight[ex] - size[o] ELSE inFlight[ex]]
           /\ AddNotional(AddNotional(Released(inFlight, o), BuyExchange[o], size[o]),
                          SellExchange[o], size[o]) = inFlight
<1> DEFINE B == BuyExchange[o]
           V == SellExchange[o]
           n == size[o]
<1>1. /\ o \in Opps /\ B \in Exchanges /\ V \in Exchanges /\ n \in Nat /\ B # V
      /\ inFlight \in [Exchanges -> Nat]
  BY AmountTypes, DispatchAssumption DEF Exposed, DispatchAssumption, TypeOK
<1>2. o \in ExposedOn(B) /\ o \in ExposedOn(V)
  BY DEF ExposedOn
<1>3. inFlight[B] >= n /\ inFlight[V] >= n /\ inFlight[B] \in Nat /\ inFlight[V] \in Nat
  BY <1>1, <1>2, ExposedFacts DEF LedgerIsExact
<1> HIDE DEF B, V, n
<1>4. ReleaseNotional(inFlight, B, n) = [inFlight EXCEPT ![B] = inFlight[B] - n]
  <2>1. (IF inFlight[B] > n THEN inFlight[B] - n ELSE 0) = inFlight[B] - n
    BY <1>1, <1>3
  <2>2. QED
    BY <2>1 DEF ReleaseNotional
<1>5. Released(inFlight, o) = [inFlight EXCEPT ![B] = inFlight[B] - n, ![V] = inFlight[V] - n]
  <2>1. Released(inFlight, o) =
            ReleaseNotional([inFlight EXCEPT ![B] = inFlight[B] - n], V, n)
    BY <1>4 DEF Released, B, V, n
  <2>2. [inFlight EXCEPT ![B] = inFlight[B] - n][V] = inFlight[V]
    BY <1>1
  <2>3. (IF inFlight[V] > n THEN inFlight[V] - n ELSE 0) = inFlight[V] - n
    BY <1>1, <1>3
  <2>4. QED
    BY <2>1, <2>2, <2>3 DEF ReleaseNotional
<1>6. Released(inFlight, o) =
          [ex \in Exchanges |-> IF ex \in {B, V} THEN inFlight[ex] - n ELSE inFlight[ex]]
  BY <1>1, <1>5
<1>7. AddNotional(AddNotional(Released(inFlight, o), B, n), V, n) = inFlight
  <2> DEFINE less == [inFlight EXCEPT ![B] = inFlight[B] - n, ![V] = inFlight[V] - n]
             half == [less EXCEPT ![B] = less[B] + n]
             back == [half EXCEPT ![V] = half[V] + n]
  <2>1. AddNotional(AddNotional(Released(inFlight, o), B, n), V, n) = back
    BY <1>5 DEF AddNotional
  <2>2. back \in [Exchanges -> Int] /\ \A ex \in Exchanges : back[ex] = inFlight[ex]
    BY <1>1, <1>3
  <2>3. QED
    BY <1>1, <2>1, <2>2
<1>8. QED
  BY <1>6, <1>7 DEF B, V, n

\* Charging an opportunity on both exchanges.
LEMMA ChargeIsExact ==
    ASSUME TypeOK, NEW o \in Opps
    PROVE  AddNotional(AddNotional(inFlight, BuyExchange[o], size[o]), SellExchange[o], size[o]) =
               [ex \in Exchanges |-> IF ex \in {BuyExchange[o], SellExchange[o]}
                                     THEN inFlight[ex] + size[o] ELSE inFlight[ex]]
<1> DEFINE B == BuyExchange[o]
           V == SellExchange[o]
<1>1. /\ B \in Exchanges /\ V \in Exchanges /\ B # V
      /\ inFlight \in [Exchanges -> Nat]
  BY AmountTypes, DispatchAssumption DEF DispatchAssumption, TypeOK
<1>2. QED
  BY <1>1 DEF AddNotional

\* How a step moves the exposed opportunities: none moves, one is charged, one is
\* charged again, or one is released; its size is what it was.
LEMMA ExposureMoves ==
    ASSUME SlotInv, [Next]_vars
    PROVE  /\ \A p \in Exposed : size'[p] = size[p]
           /\ \/ Exposed' = Exposed /\ inFlight' = inFlight
              \/ \E o \in Opps : /\ saving = o /\ saving' = None /\ size' = size
                                 /\ o \notin Exposed /\ Exposed' = Exposed \union {o}
                                 /\ inFlight' = AddNotional(AddNotional(inFlight, BuyExchange[o],
                                                            size[o]), SellExchange[o], size[o])
              \/ \E o \in Exposed : /\ Exposed' = Exposed /\ UNCHANGED <<saving, size>>
                                    /\ inFlight' = AddNotional(AddNotional(Released(inFlight, o),
                                                  BuyExchange[o], size[o]), SellExchange[o], size[o])
              \/ \E o \in Exposed : /\ Exposed' = Exposed \ {o} /\ UNCHANGED <<saving, size>>
                                    /\ inFlight' = Released(inFlight, o)
<1> USE DEF SlotInv, TypeOK, Exposed
<1>1. CASE UNCHANGED vars \/ Scan \/ Operate \/ Midnight \/ \E s \in Symbols : CooldownOver(s)
  <2>1. UNCHANGED <<stage, size, inFlight>>
    BY <1>1 DEF vars, hedgeVars, exposureVars, Scan, Operate, Midnight, CooldownOver
  <2>2. QED
    BY <2>1
<1>2. ASSUME NEW o \in Opps, Reject(o)
      PROVE  Exposed' = Exposed /\ UNCHANGED <<size, inFlight>>
  BY <1>2 DEF Reject, exposureVars, BatchIsUnseen
<1>3. ASSUME NEW o \in Opps, Approve(o)
      PROVE  /\ \A p \in Exposed : size'[p] = size[p]
             /\ Exposed' = Exposed /\ inFlight' = inFlight
  BY <1>3 DEF Approve, exposureVars, BatchIsUnseen
<1>4. ASSUME NEW o \in Opps, Schedule(o)
      PROVE  /\ saving = o /\ saving' = None /\ size' = size
             /\ o \notin Exposed /\ Exposed' = Exposed \union {o}
             /\ inFlight' = AddNotional(AddNotional(inFlight, BuyExchange[o], size[o]),
                                        SellExchange[o], size[o])
  <2>1. stage[o] = "approved"
    BY <1>4, DispatchAssumption DEF Schedule, SlotIsKept, DispatchAssumption
  <2>2. QED
    BY <1>4, <2>1 DEF Schedule
<1>5. ASSUME NEW o \in Opps, StartMaker(o) \/ HedgeRaises(o) \/ RecordPnl(o) \/ HedgeEnds(o)
      PROVE  Exposed' = Exposed /\ UNCHANGED <<size, inFlight>>
  BY <1>5 DEF StartMaker, HedgeRaises, RecordPnl, HedgeEnds, exposureVars
<1>6. ASSUME NEW o \in Opps, HedgeReturns(o) \/ MakerEnds(o)
      PROVE  /\ o \in Exposed /\ Exposed' = Exposed \ {o} /\ UNCHANGED <<saving, size>>
             /\ inFlight' = Released(inFlight, o)
  BY <1>6 DEF HedgeReturns, MakerEnds, ReleasedMaker, loopVars
<1>7. ASSUME NEW o \in Opps, StartHedge(o)
      PROVE  /\ o \in Exposed /\ UNCHANGED <<saving, size>>
             /\ \/ /\ Exposed' = Exposed
                   /\ inFlight' = AddNotional(AddNotional(Released(inFlight, o),
                                      BuyExchange[o], size[o]), SellExchange[o], size[o])
                \/ /\ Exposed' = Exposed \ {o}
                   /\ inFlight' = Released(inFlight, o)
  BY <1>7 DEF StartHedge, loopVars
<1> HIDE DEF Exposed
<1>8. QED
  BY <1>1, <1>2, <1>3, <1>4, <1>5, <1>6, <1>7 DEF Next, Start, Leave


LEMMA LedgerStaysExact ==
    ASSUME SlotInv, LedgerIsExact, TypeOK', [Next]_vars
    PROVE  LedgerIsExact'
<1> SUFFICES ASSUME NEW ex \in Exchanges PROVE inFlight'[ex] = Total(size', ExposedOn(ex)')
  BY DEF LedgerIsExact
<1>1. /\ IsFiniteSet(ExposedOn(ex))
      /\ \A o \in ExposedOn(ex) : size[o] \in Nat
      /\ inFlight[ex] = Total(size, ExposedOn(ex))
      /\ inFlight[ex] \in Nat
  BY ExposedFacts DEF SlotInv, LedgerIsExact
<1>2. /\ \A p \in Exposed : size'[p] = size[p]
      /\ \A p \in Exposed : p \in Opps
      /\ \A p \in Opps : size[p] \in Nat
  BY ExposureMoves, AmountTypes DEF SlotInv, Exposed
<1>3. Total(size', ExposedOn(ex)) = Total(size, ExposedOn(ex))
  <2>1. \A x \in ExposedOn(ex) : size[x] \in Nat /\ size'[x] = size[x]
    BY <1>1, <1>2 DEF ExposedOn
  <2>2. QED
    BY <1>1, <2>1, TotalOfSame
<1>4. CASE Exposed' = Exposed /\ inFlight' = inFlight
  BY <1>1, <1>3, <1>4 DEF ExposedOn
<1>5. ASSUME NEW o \in Opps, size' = size, o \notin Exposed, Exposed' = Exposed \union {o},
             inFlight' = AddNotional(AddNotional(inFlight, BuyExchange[o], size[o]),
                                     SellExchange[o], size[o])
      PROVE  inFlight'[ex] = Total(size', ExposedOn(ex)')
  <2>1. inFlight'[ex] = IF ex \in {BuyExchange[o], SellExchange[o]}
                        THEN inFlight[ex] + size[o] ELSE inFlight[ex]
    BY <1>5, ChargeIsExact DEF SlotInv
  <2>2. CASE ex \in {BuyExchange[o], SellExchange[o]}
    <3>1. ExposedOn(ex)' = ExposedOn(ex) \union {o} /\ o \notin ExposedOn(ex)
      BY <1>5, <2>2 DEF ExposedOn
    <3>2. \A y \in ExposedOn(ex) \union {o} : size[y] \in Nat
      BY <1>1, <1>2
    <3> DEFINE S == ExposedOn(ex)
    <3>3. Total(size, ExposedOn(ex) \union {o}) = Total(size, ExposedOn(ex)) + size[o]
      <4>1. IsFiniteSet(S) /\ o \notin S /\ \A y \in S \union {o} : size[y] \in Nat
        BY <1>1, <3>1, <3>2
      <4> HIDE DEF S
      <4>2. Total(size, S \union {o}) = Total(size, S) + size[o]
        BY <4>1, TotalWith
      <4>3. QED
        BY <4>2 DEF S
    <3>4. QED
      BY <1>1, <1>5, <2>1, <2>2, <3>1, <3>3
  <2>3. CASE ex \notin {BuyExchange[o], SellExchange[o]}
    BY <1>1, <1>5, <2>1, <2>3 DEF ExposedOn
  <2>4. QED
    BY <2>2, <2>3
<1>6. ASSUME NEW o \in Exposed, Exposed' = Exposed,
             inFlight' = AddNotional(AddNotional(Released(inFlight, o), BuyExchange[o], size[o]),
                                     SellExchange[o], size[o])
      PROVE  inFlight'[ex] = Total(size', ExposedOn(ex)')
  BY <1>4, <1>6, ReleaseIsExact DEF SlotInv
<1>7. ASSUME NEW o \in Exposed, Exposed' = Exposed \ {o}, size' = size,
             inFlight' = Released(inFlight, o)
      PROVE  inFlight'[ex] = Total(size', ExposedOn(ex)')
  <2>1. inFlight'[ex] = IF ex \in {BuyExchange[o], SellExchange[o]}
                        THEN inFlight[ex] - size[o] ELSE inFlight[ex]
    BY <1>7, ReleaseIsExact DEF SlotInv
  <2>2. CASE ex \in {BuyExchange[o], SellExchange[o]}
    <3>1. ExposedOn(ex)' = ExposedOn(ex) \ {o} /\ o \in ExposedOn(ex)
      BY <1>7, <2>2 DEF ExposedOn
    <3>2. Total(size, ExposedOn(ex) \ {o}) = Total(size, ExposedOn(ex)) - size[o]
      BY <1>1, <3>1, TotalWithout
    <3>3. QED
      BY <1>1, <1>7, <2>1, <2>2, <3>1, <3>2
  <2>3. CASE ex \notin {BuyExchange[o], SellExchange[o]}
    BY <1>1, <1>7, <2>1, <2>3 DEF ExposedOn
  <2>4. QED
    BY <2>2, <2>3
<1>8. QED
  BY <1>4, <1>5, <1>6, <1>7, ExposureMoves

\* The ledger of the exposure is exact, and what fits when an opportunity is approved
\* still fits when it is charged: only the loop charges, and it awaits this one.
ExposureInv == LedgerIsExact /\ HeadroomIsKept /\ ExposureWithinLimit

LEMMA ExposureStep ==
    ASSUME SlotInv, ExposureInv, TypeOK', [Next]_vars
    PROVE  HeadroomIsKept' /\ ExposureWithinLimit'
<1>1. /\ inFlight \in [Exchanges -> Nat] /\ inFlight' \in [Exchanges -> Nat]
      /\ MaxExposure \in Nat /\ TypeOK
      /\ \A ex \in Exchanges : inFlight[ex] <= MaxExposure
  BY DispatchAssumption DEF SlotInv, TypeOK, ExposureInv, ExposureWithinLimit, DispatchAssumption
<1>2. \A o \in Opps : /\ BuyExchange[o] \in Exchanges /\ SellExchange[o] \in Exchanges
                      /\ size[o] \in Nat
  BY <1>1, AmountTypes
<1>3. saving # None =>
          /\ saving \in Opps
          /\ inFlight[BuyExchange[saving]] + size[saving] <= MaxExposure
          /\ inFlight[SellExchange[saving]] + size[saving] <= MaxExposure
  BY <1>1 DEF ExposureInv, HeadroomIsKept, TypeOK
<1>4. CASE /\ UNCHANGED <<saving, size>>
           /\ \A ex \in Exchanges : inFlight'[ex] <= inFlight[ex]
  <2>1. ExposureWithinLimit'
    <3> SUFFICES ASSUME NEW ex \in Exchanges PROVE inFlight'[ex] <= MaxExposure
      BY DEF ExposureWithinLimit
    <3>1. QED
      BY <1>1, <1>4
  <2>2. HeadroomIsKept'
    <3> SUFFICES ASSUME saving # None
                 PROVE  /\ inFlight'[BuyExchange[saving]] + size[saving] <= MaxExposure
                        /\ inFlight'[SellExchange[saving]] + size[saving] <= MaxExposure
      BY <1>4 DEF HeadroomIsKept
    <3>1. QED
      BY <1>1, <1>2, <1>3, <1>4
  <2>3. QED
    BY <2>1, <2>2
<1>5. CASE UNCHANGED <<saving, size, inFlight>>
  <2>1. \A ex \in Exchanges : inFlight'[ex] <= inFlight[ex]
    BY <1>1, <1>5
  <2>2. QED
    BY <1>4, <1>5, <2>1
<1>6. CASE UNCHANGED vars \/ Scan \/ Operate \/ Midnight \/ \E s \in Symbols : CooldownOver(s)
  <2>1. UNCHANGED <<saving, size, inFlight>>
    BY <1>6 DEF vars, loopVars, hedgeVars, exposureVars, Scan, Operate, Midnight, CooldownOver
  <2>2. QED
    BY <1>5, <2>1
<1>7. ASSUME NEW o \in Opps, Reject(o) PROVE HeadroomIsKept' /\ ExposureWithinLimit'
  <2>1. UNCHANGED <<saving, size, inFlight>>
    BY <1>7 DEF Reject, exposureVars
  <2>2. QED
    BY <1>5, <2>1
<1>8. ASSUME NEW o \in Opps, Approve(o) PROVE HeadroomIsKept' /\ ExposureWithinLimit'
  <2>1. PICK t \in Sizes : size' = [size EXCEPT ![o] = Approvable(o, t)]
    BY <1>8 DEF Approve
  <2>2. saving' = o /\ inFlight' = inFlight
    BY <1>8 DEF Approve, exposureVars
  <2>3. size'[o] = Approvable(o, t)
    BY <1>1, <2>1 DEF TypeOK
  <2>4. /\ size'[o] \in Nat
        /\ size'[o] <= Headroom(BuyExchange[o])
        /\ size'[o] <= Headroom(SellExchange[o])
    BY <1>1, <2>3, ApprovableBounds
  <2>5. ASSUME NEW ex \in Exchanges, size'[o] <= Headroom(ex)
        PROVE  inFlight[ex] + size'[o] <= MaxExposure
    BY <1>1, <2>4, <2>5 DEF Headroom
  <2>6. HeadroomIsKept'
    BY <1>2, <2>2, <2>4, <2>5 DEF HeadroomIsKept
  <2>7. QED
    BY <1>1, <2>2, <2>6 DEF ExposureWithinLimit
<1>9. ASSUME NEW o \in Opps, Schedule(o) PROVE HeadroomIsKept' /\ ExposureWithinLimit'
  <2>1. /\ saving = o /\ saving' = None
        /\ inFlight' = AddNotional(AddNotional(inFlight, BuyExchange[o], size[o]),
                                   SellExchange[o], size[o])
    BY <1>9 DEF Schedule
  <2>2. ExposureWithinLimit'
    <3> SUFFICES ASSUME NEW ex \in Exchanges PROVE inFlight'[ex] <= MaxExposure
      BY DEF ExposureWithinLimit
    <3>1. inFlight'[ex] = IF ex \in {BuyExchange[o], SellExchange[o]}
                          THEN inFlight[ex] + size[o] ELSE inFlight[ex]
      BY <1>1, <2>1, ChargeIsExact
    <3>2. o # None
      BY DispatchAssumption DEF DispatchAssumption
    <3>3. QED
      BY <1>1, <1>3, <2>1, <3>1, <3>2
  <2>3. QED
    BY <2>1, <2>2 DEF HeadroomIsKept
<1>10. ASSUME NEW o \in Opps, Start(o) \/ Leave(o)
       PROVE  HeadroomIsKept' /\ ExposureWithinLimit'
  <2>1. UNCHANGED <<saving, size>>
    BY <1>10 DEF Start, Leave, StartMaker, StartHedge, HedgeReturns, HedgeRaises, RecordPnl,
                 HedgeEnds, MakerEnds, loopVars
  <2>2. \/ inFlight' = inFlight
        \/ \E p \in Exposed : \/ inFlight' = Released(inFlight, p)
                              \/ inFlight' = AddNotional(AddNotional(Released(inFlight, p),
                                               BuyExchange[p], size[p]), SellExchange[p], size[p])
    <3>1. StartMaker(o) \/ HedgeRaises(o) \/ RecordPnl(o) \/ HedgeEnds(o) => inFlight' = inFlight
      BY DEF StartMaker, HedgeRaises, RecordPnl, HedgeEnds, exposureVars
    <3>2. stage[o] \in {"scheduled", "making", "legs"} => o \in Exposed
      BY DEF Exposed
    <3>3. QED
      BY <1>10, <3>1, <3>2 DEF Start, Leave, StartHedge, HedgeReturns, MakerEnds, ReleasedMaker
  <2>3. \A ex \in Exchanges : inFlight'[ex] <= inFlight[ex]
    <3>1. ASSUME NEW p \in Exposed, NEW ex \in Exchanges
          PROVE  Released(inFlight, p)[ex] <= inFlight[ex]
      <4>1. Released(inFlight, p)[ex] = IF ex \in {BuyExchange[p], SellExchange[p]}
                                        THEN inFlight[ex] - size[p] ELSE inFlight[ex]
        BY <1>1, ReleaseIsExact DEF ExposureInv
      <4>2. size[p] \in Nat /\ inFlight[ex] \in Nat
        BY <1>1, <1>2 DEF Exposed
      <4>3. QED
        BY <4>1, <4>2
    <3>2. CASE \E p \in Exposed : inFlight' = Released(inFlight, p)
      BY <3>1, <3>2
    <3>3. CASE inFlight' = inFlight
      BY <1>1, <3>3
    <3>4. CASE \E p \in Exposed : inFlight' = AddNotional(AddNotional(Released(inFlight, p),
                                      BuyExchange[p], size[p]), SellExchange[p], size[p])
      BY <1>1, <3>3, <3>4, ReleaseIsExact DEF ExposureInv
    <3>5. QED
      BY <2>2, <3>2, <3>3, <3>4
  <2>4. QED
    BY <1>4, <2>1, <2>3
<1>11. QED
  BY <1>6, <1>7, <1>8, <1>9, <1>10 DEF Next

\* The inductive invariant holds: an exchange is charged the sizes of what runs or
\* crashed on it, no more and no less.
THEOREM ExposureInvHolds == Spec => []ExposureInv
<1>1. Init => ExposureInv
  <2> SUFFICES ASSUME Init PROVE ExposureInv
    OBVIOUS
  <2>1. ASSUME NEW ex \in Exchanges PROVE inFlight[ex] = 0 /\ ExposedOn(ex) = {}
    BY DEF Init, ExposedOn, Exposed
  <2>2. LedgerIsExact
    BY <2>1, TotalOfNothing DEF LedgerIsExact
  <2>3. ExposureWithinLimit
    BY <2>1, DispatchAssumption DEF ExposureWithinLimit, DispatchAssumption
  <2>4. HeadroomIsKept
    BY DEF Init, HeadroomIsKept
  <2>5. QED
    BY <2>2, <2>3, <2>4 DEF ExposureInv
<1>2. SlotInv /\ ExposureInv /\ TypeOK' /\ [Next]_vars => ExposureInv'
  BY LedgerStaysExact, ExposureStep DEF ExposureInv
<1>3. QED
  BY <1>1, <1>2, SlotInvHolds, DispatchTypeCorrect, PTL DEF Spec

\* For any limit and any number of hedges, no exchange ever carries more than
\* max_exposure_per_exchange, although the headroom is read before the loop's await,
\* released and taken again when the hedge starts, and kept by those that crash.
THEOREM ExposureNeverExceeds == Spec => []ExposureWithinLimit
<1>1. ExposureInv => ExposureWithinLimit
  BY DEF ExposureInv
<1>2. QED
  BY <1>1, ExposureInvHolds, PTL


-----------------------------------------------------------------------------
(* What is reserved. *)

\* Whether opportunity o takes asset a on exchange ex: quote where it buys, the
\* symbol where it sells.
Takes(o, ex, a) == \/ ex = BuyExchange[o] /\ a = "quote"
                   \/ ex = SellExchange[o] /\ a = SymbolOf[o]

Owing(ex, a) == {o \in Reserving : Takes(o, ex, a)}

\* ReservedIsOwed, for the quote and the symbols alike.
ReservesAreExact ==
    \A ex \in Exchanges, a \in Assets : reserved[ex][a] = Total(size, Owing(ex, a))

LEMMA OwingFacts ==
    ASSUME TypeOK, NEW ex, NEW a
    PROVE  /\ IsFiniteSet(Owing(ex, a))
           /\ \A o \in Owing(ex, a) : size[o] \in Nat
           /\ Total(size, Owing(ex, a)) \in Nat
           /\ \A o \in Owing(ex, a) :
                  /\ size[o] <= Total(size, Owing(ex, a))
                  /\ Total(size, Owing(ex, a) \ {o}) = Total(size, Owing(ex, a)) - size[o]
<1>1. IsFiniteSet(Owing(ex, a))
  <2>1. Owing(ex, a) \in SUBSET Opps
    BY DEF Owing, Reserving
  <2>2. QED
    BY <2>1, FS_Subset, DispatchAssumption DEF DispatchAssumption
<1>2. \A o \in Owing(ex, a) : size[o] \in Nat
  BY AmountTypes DEF Owing, Reserving
<1>3. QED
  BY <1>1, <1>2, TotalType, TotalWithout

\* Reserving adds the size to the two entries the opportunity takes.
LEMMA ReserveIsExact ==
    ASSUME TypeOK, NEW o \in Opps, NEW ex \in Exchanges, NEW a \in Assets,
           reserved' = [reserved EXCEPT ![BuyExchange[o]]["quote"] = @ + size[o],
                                        ![SellExchange[o]][SymbolOf[o]] = @ + size[o]]
    PROVE  reserved'[ex][a] = reserved[ex][a] + (IF Takes(o, ex, a) THEN size[o] ELSE 0)
<1>1. /\ BuyExchange[o] \in Exchanges /\ SellExchange[o] \in Exchanges
      /\ BuyExchange[o] # SellExchange[o]
      /\ "quote" \in Assets /\ SymbolOf[o] \in Assets
      /\ reserved \in [Exchanges -> [Assets -> Nat]]
      /\ reserved[ex][a] \in Nat /\ size[o] \in Nat
  BY AmountTypes, DispatchAssumption DEF DispatchAssumption, TypeOK
<1>2. CASE ex = BuyExchange[o]
  BY <1>1, <1>2 DEF Takes
<1>3. CASE ex = SellExchange[o]
  BY <1>1, <1>3 DEF Takes
<1>4. CASE ex # BuyExchange[o] /\ ex # SellExchange[o]
  BY <1>1, <1>4 DEF Takes
<1>5. QED
  BY <1>2, <1>3, <1>4

\* Giving back takes it off them: what a task reserved is still there, so the clamp
\* at zero never bites.
LEMMA GiveBackIsExact ==
    ASSUME TypeOK, ReservesAreExact, NEW o \in Reserving, GiveBack(o),
           NEW ex \in Exchanges, NEW a \in Assets
    PROVE  reserved'[ex][a] = reserved[ex][a] - (IF Takes(o, ex, a) THEN size[o] ELSE 0)
<1> DEFINE B == BuyExchange[o]
           V == SellExchange[o]
           n == size[o]
           s == SymbolOf[o]
<1>1. /\ o \in Opps
      /\ B \in Exchanges /\ V \in Exchanges /\ B # V
      /\ "quote" \in Assets /\ s \in Assets
      /\ reserved \in [Exchanges -> [Assets -> Nat]]
      /\ reserved[ex][a] \in Nat /\ n \in Nat
  BY AmountTypes, DispatchAssumption DEF DispatchAssumption, TypeOK, Reserving
<1>2. Takes(o, ex, a) => n <= reserved[ex][a]
  <2>1. Takes(o, ex, a) => o \in Owing(ex, a)
    BY DEF Owing
  <2>2. QED
    BY <2>1, OwingFacts DEF ReservesAreExact
<1>3. Takes(o, ex, a) <=> (ex = B /\ a = "quote") \/ (ex = V /\ a = s)
  BY DEF Takes
<1>4. reserved' = [reserved EXCEPT ![B] = ReleaseNotional(@, "quote", n),
                                   ![V] = ReleaseNotional(@, s, n)]
  BY DEF GiveBack
<1> HIDE DEF B, V, n, s
<1>5. ASSUME NEW k \in Assets, NEW e \in Exchanges
      PROVE  ReleaseNotional(reserved[e], k, n)[a] =
                 IF a = k THEN (IF reserved[e][a] > n THEN reserved[e][a] - n ELSE 0)
                          ELSE reserved[e][a]
  BY <1>1 DEF ReleaseNotional
<1>6. reserved'[ex] = IF ex = V THEN ReleaseNotional(reserved[V], s, n)
                      ELSE IF ex = B THEN ReleaseNotional(reserved[B], "quote", n)
                      ELSE reserved[ex]
  BY <1>1, <1>4
<1>7. CASE Takes(o, ex, a)
  <2>1. (IF reserved[ex][a] > n THEN reserved[ex][a] - n ELSE 0) = reserved[ex][a] - n
    BY <1>1, <1>2, <1>7
  <2>2. QED
    BY <1>1, <1>3, <1>5, <1>6, <1>7, <2>1 DEF n
<1>8. CASE ~Takes(o, ex, a)
  <2>1. reserved'[ex][a] = reserved[ex][a]
    BY <1>1, <1>3, <1>5, <1>6, <1>8
  <2>2. QED
    BY <1>1, <1>8, <2>1
<1>9. QED
  BY <1>7, <1>8

\* How a step moves the opportunities that hold reserves.
LEMMA ReserveMoves ==
    ASSUME SlotInv, [Next]_vars
    PROVE  /\ \A p \in Reserving : size'[p] = size[p]
           /\ \/ Reserving' = Reserving /\ reserved' = reserved
              \/ \E o \in Opps :
                    /\ o \notin Reserving /\ Reserving' = Reserving \union {o} /\ size' = size
                    /\ reserved' = [reserved EXCEPT
                           ![BuyExchange[o]]["quote"] = @ + size[o],
                           ![SellExchange[o]][SymbolOf[o]] = @ + size[o]]
              \/ \E o \in Reserving : Reserving' = Reserving \ {o} /\ size' = size /\ GiveBack(o)
<1> USE DEF SlotInv, TypeOK, Reserving
<1>1. CASE UNCHANGED vars \/ Scan \/ Operate \/ Midnight \/ \E s \in Symbols : CooldownOver(s)
  <2>1. UNCHANGED <<stage, size, reserved>>
    BY <1>1 DEF vars, hedgeVars, Scan, Operate, Midnight, CooldownOver
  <2>2. QED
    BY <2>1
<1>2. ASSUME NEW o \in Opps, Reject(o)
      PROVE  Reserving' = Reserving /\ UNCHANGED <<size, reserved>>
  BY <1>2 DEF Reject, BatchIsUnseen
<1>3. ASSUME NEW o \in Opps, Approve(o)
      PROVE  /\ \A p \in Reserving : size'[p] = size[p]
             /\ Reserving' = Reserving /\ reserved' = reserved
  BY <1>3 DEF Approve, BatchIsUnseen
<1>4. ASSUME NEW o \in Opps, Schedule(o)
      PROVE  /\ o \notin Reserving /\ Reserving' = Reserving \union {o} /\ size' = size
             /\ reserved' = [reserved EXCEPT ![BuyExchange[o]]["quote"] = @ + size[o],
                                             ![SellExchange[o]][SymbolOf[o]] = @ + size[o]]
  <2>1. stage[o] = "approved"
    BY <1>4, DispatchAssumption DEF Schedule, SlotIsKept, DispatchAssumption
  <2>2. QED
    BY <1>4, <2>1 DEF Schedule
<1>5. ASSUME NEW o \in Opps, StartMaker(o) \/ StartHedge(o) \/ HedgeReturns(o) \/ RecordPnl(o)
      PROVE  Reserving' = Reserving /\ UNCHANGED <<size, reserved>>
  BY <1>5 DEF StartMaker, StartHedge, HedgeReturns, RecordPnl
<1>6. ASSUME NEW o \in Opps, HedgeRaises(o) \/ HedgeEnds(o) \/ MakerEnds(o)
      PROVE  o \in Reserving /\ Reserving' = Reserving \ {o} /\ size' = size /\ GiveBack(o)
  BY <1>6 DEF HedgeRaises, HedgeEnds, MakerEnds
<1> HIDE DEF Reserving
<1>7. QED
  BY <1>1, <1>2, <1>3, <1>4, <1>5, <1>6 DEF Next, Start, Leave

LEMMA ReservesStayExact ==
    ASSUME SlotInv, ReservesAreExact, [Next]_vars
    PROVE  ReservesAreExact'
<1> SUFFICES ASSUME NEW ex \in Exchanges, NEW a \in Assets
             PROVE  reserved'[ex][a] = Total(size', Owing(ex, a)')
  BY DEF ReservesAreExact
<1> DEFINE S == Owing(ex, a)
<1>1. /\ IsFiniteSet(S)
      /\ \A o \in S : size[o] \in Nat /\ o \in Reserving
      /\ reserved[ex][a] = Total(size, S)
      /\ reserved[ex][a] \in Nat
      /\ \A o \in S : Total(size, S \ {o}) = Total(size, S) - size[o]
  <2>1. TypeOK /\ reserved[ex][a] = Total(size, S)
    BY DEF SlotInv, ReservesAreExact
  <2>2. /\ IsFiniteSet(S) /\ Total(size, S) \in Nat
        /\ \A o \in S : size[o] \in Nat
        /\ \A o \in S : Total(size, S \ {o}) = Total(size, S) - size[o]
    BY <2>1, OwingFacts
  <2>3. \A o \in S : o \in Reserving
    BY DEF Owing
  <2> HIDE DEF S
  <2>4. QED
    BY <2>1, <2>2, <2>3
<1>2. \A o \in Opps : size[o] \in Nat
  BY AmountTypes DEF SlotInv
<1>3. Total(size', S) = Total(size, S)
  <2>1. \A x \in S : size[x] \in Nat /\ size'[x] = size[x]
    BY <1>1, ReserveMoves
  <2>2. QED
    BY <1>1, <2>1, TotalOfSame
<1>4. CASE Reserving' = Reserving /\ reserved' = reserved
  <2>1. Owing(ex, a)' = S
    BY <1>4 DEF Owing, Takes
  <2>2. QED
    BY <1>1, <1>3, <1>4, <2>1
<1>5. ASSUME NEW o \in Opps, o \notin Reserving, Reserving' = Reserving \union {o}, size' = size,
             reserved' = [reserved EXCEPT ![BuyExchange[o]]["quote"] = @ + size[o],
                                          ![SellExchange[o]][SymbolOf[o]] = @ + size[o]]
      PROVE  reserved'[ex][a] = Total(size', Owing(ex, a)')
  <2>1. reserved'[ex][a] = reserved[ex][a] + (IF Takes(o, ex, a) THEN size[o] ELSE 0)
    BY <1>5, ReserveIsExact DEF SlotInv
  <2>2. Owing(ex, a)' = IF Takes(o, ex, a) THEN S \union {o} ELSE S
    BY <1>5 DEF Owing, Takes
  <2>3. CASE Takes(o, ex, a)
    <3>1. IsFiniteSet(S) /\ o \notin S /\ \A y \in S \union {o} : size[y] \in Nat
      BY <1>1, <1>2, <1>5
    <3> HIDE DEF S
    <3>2. Total(size, S \union {o}) = Total(size, S) + size[o]
      BY <3>1, TotalWith
    <3>3. QED
      BY <1>1, <1>5, <2>1, <2>2, <2>3, <3>2
  <2>4. CASE ~Takes(o, ex, a)
    BY <1>1, <1>5, <2>1, <2>2, <2>4
  <2>5. QED
    BY <2>3, <2>4
<1>6. ASSUME NEW o \in Reserving, Reserving' = Reserving \ {o}, size' = size, GiveBack(o)
      PROVE  reserved'[ex][a] = Total(size', Owing(ex, a)')
  <2>1. reserved'[ex][a] = reserved[ex][a] - (IF Takes(o, ex, a) THEN size[o] ELSE 0)
    BY <1>6, GiveBackIsExact DEF SlotInv
  <2>2. Owing(ex, a)' = S \ {o} /\ (o \in S <=> Takes(o, ex, a))
    BY <1>6 DEF Owing, Takes
  <2>3. CASE Takes(o, ex, a)
    <3> HIDE DEF S
    <3>1. QED
      BY <1>1, <1>6, <2>1, <2>2, <2>3
  <2>4. CASE ~Takes(o, ex, a)
    <3>1. S \ {o} = S
      BY <2>2, <2>4
    <3>2. reserved'[ex][a] = reserved[ex][a]
      BY <1>1, <2>1, <2>4
    <3> HIDE DEF S
    <3>3. QED
      BY <1>1, <1>6, <2>2, <3>1, <3>2
  <2>5. QED
    BY <2>3, <2>4
<1>7. QED
  BY <1>4, <1>5, <1>6, ReserveMoves

\* For any number of concurrent hedges and any amounts, what is reserved is exactly
\* what the unfinished tasks reserved: a hedge that ends, crashes or is switched to
\* another mode half way gives back what it took, once.
THEOREM ReservesAreAlwaysOwed == Spec => []ReservedIsOwed
<1>1. Init => ReservesAreExact
  <2> SUFFICES ASSUME Init, NEW ex \in Exchanges, NEW a \in Assets
               PROVE  reserved[ex][a] = Total(size, Owing(ex, a))
    BY DEF ReservesAreExact
  <2>1. reserved[ex][a] = 0 /\ Owing(ex, a) = {}
    BY DEF Init, Owing, Reserving
  <2>2. QED
    BY <2>1, TotalOfNothing
<1>2. SlotInv /\ ReservesAreExact /\ [Next]_vars => ReservesAreExact'
  BY ReservesStayExact
<1>3. ReservesAreExact => ReservedIsOwed
  <2> SUFFICES ASSUME ReservesAreExact, NEW ex \in Exchanges
               PROVE  /\ reserved[ex]["quote"] =
                             Total(size, {o \in Reserving : BuyExchange[o] = ex})
                      /\ \A s \in Symbols : reserved[ex][s] =
                             Total(size, {o \in Reserving : /\ SellExchange[o] = ex
                                                            /\ SymbolOf[o] = s})
    BY DEF ReservedIsOwed, Total
  <2>1. \A o \in Reserving : SymbolOf[o] \in Symbols
    BY DispatchAssumption DEF DispatchAssumption, Reserving
  <2>2. "quote" \notin Symbols /\ "quote" \in Assets /\ Symbols \subseteq Assets
    BY DispatchAssumption DEF DispatchAssumption, Assets
  <2>3. Owing(ex, "quote") = {o \in Reserving : BuyExchange[o] = ex}
    BY <2>1, <2>2 DEF Owing, Takes
  <2>4. \A s \in Symbols :
            Owing(ex, s) = {o \in Reserving : SellExchange[o] = ex /\ SymbolOf[o] = s}
    BY <2>1, <2>2 DEF Owing, Takes
  <2>5. QED
    BY <2>2, <2>3, <2>4 DEF ReservesAreExact
<1>4. QED
  BY <1>1, <1>2, <1>3, SlotInvHolds, PTL DEF Spec


=============================================================================
