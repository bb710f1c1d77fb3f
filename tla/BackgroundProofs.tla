-------------------------- MODULE BackgroundProofs --------------------------
(***************************************************************************)
(* Proofs about the background tasks.  The slots of AsyncPersistence are   *)
(* conserved, so it implements the bounded pool, for every set of jobs and *)
(* every max_inflight; a book that counts as fresh was served recently,    *)
(* for any bounds on the requests; the paper account covers what was       *)
(* reserved on it, for any trades and amounts.                             *)
(***************************************************************************)
EXTENDS Background, FiniteSums, TLAPS

Holding == Of({"running", "granted"})

\* waiting names the one write whose submit() is in the semaphore.
OneWaiter ==
    /\ \A j \in Jobs : status[j] \in {"waiting", "granted"} => waiting = j
    /\ waiting # None => status[waiting] \in {"waiting", "granted"}

Shape == /\ status \in [Jobs -> Statuses]
         /\ waiting \in Jobs \union {None}
         /\ slots \in Int
         /\ OneWaiter

IInv == Shape /\ SlotsAreConserved

-----------------------------------------------------------------------------
(* Sets of jobs are finite, and how one job joins or leaves the holders. *)

LEMMA OfIsFinite == \A S : IsFiniteSet(Of(S))
  BY PersistenceAssumption, FS_Subset DEF Of

\* A job that takes a slot adds one to the holders.
LEMMA Joins ==
    ASSUME NEW j \in Jobs, j \notin Holding, Holding' = Holding \union {j}
    PROVE  Cardinality(Holding)' = Cardinality(Holding) + 1
  BY OfIsFinite, FS_AddElement, FS_CardinalityType DEF Holding

\* A job that gives its slot back takes one off.
LEMMA Leaves ==
    ASSUME NEW j \in Jobs, j \in Holding, Holding' = Holding \ {j}
    PROVE  Cardinality(Holding)' = Cardinality(Holding) - 1
  BY OfIsFinite, FS_RemoveElement, FS_CardinalityType DEF Holding

\* Handing a slot over leaves their number alone.
LEMMA HandsOver ==
    ASSUME NEW j \in Jobs, NEW k \in Jobs, j \in Holding, k \notin Holding,
           Holding' = (Holding \ {j}) \union {k}
    PROVE  Cardinality(Holding)' = Cardinality(Holding)
  <1>1. IsFiniteSet(Holding) BY OfIsFinite DEF Holding
  <1>2. /\ IsFiniteSet(Holding \ {j})
        /\ Cardinality(Holding \ {j}) = Cardinality(Holding) - 1
    BY <1>1, FS_RemoveElement
  <1>3. Cardinality((Holding \ {j}) \union {k}) = Cardinality(Holding \ {j}) + 1
    BY <1>2, FS_AddElement
  <1> QED BY <1>1, <1>2, <1>3, FS_CardinalityType

\* The end of a write, whatever its outcome.
LEMMA ReleaseKeepsSlots ==
    ASSUME IInv, NEW j \in Jobs, status[j] = "running",
           NEW how \in Over, Release(j, how), UNCHANGED waiting
    PROVE  /\ IInv'
           /\ \/ Holding' = Holding \ {j}
              \/ \E k \in Jobs \ Holding : Holding' = (Holding \ {j}) \union {k}
           /\ Of(Over)' = Of(Over) \union {j}
  <1> USE DEF IInv, Shape
  <1>1. j \in Holding /\ j \in Jobs BY DEF Holding, Of
  <1>2. Of(Over)' = Of(Over) \union {j}
    BY PersistenceAssumption DEF Release, Of, Over, Statuses, OneWaiter
  <1>3. CASE waiting # None /\ status[waiting] = "waiting"
    <2>1. waiting \in Jobs \ Holding /\ waiting # j
      BY <1>3 DEF Holding, Of
    <2>2. Holding' = (Holding \ {j}) \union {waiting}
      BY <1>3, <2>1 DEF Release, Holding, Of, Over
    <2>3. Cardinality(Holding)' = Cardinality(Holding)
      BY <1>1, <2>1, <2>2, HandsOver
    <2>4. SlotsAreConserved'
      BY <1>3, <2>3 DEF SlotsAreConserved, Holding, Release
    <2>5. Shape'
      BY <1>3, <2>1 DEF Release, Over, Statuses, OneWaiter
    <2> QED BY <1>2, <2>1, <2>2, <2>4, <2>5
  <1>4. CASE ~(waiting # None /\ status[waiting] = "waiting")
    <2>1. Holding' = Holding \ {j}
      BY <1>4 DEF Release, Holding, Of, Over
    <2>2. Cardinality(Holding)' = Cardinality(Holding) - 1
      BY <1>1, <2>1, Leaves
    <2>3. Cardinality(Holding) \in Nat
      BY OfIsFinite, FS_CardinalityType DEF Holding
    <2>4. SlotsAreConserved'
      BY <1>4, <2>2, <2>3, PersistenceAssumption DEF SlotsAreConserved, Holding, Release
    <2>5. Shape'
      BY <1>4 DEF Release, Over, Statuses, OneWaiter
    <2> QED BY <1>2, <2>1, <2>4, <2>5
  <1> QED BY <1>3, <1>4

-----------------------------------------------------------------------------
(* Every step keeps the slots and is a step of the pool. *)

PoolStep == Pool!Next \/ UNCHANGED <<Holding, Of(Over)>>

LEMMA InitOK == Init => IInv /\ Pool!Init
  <1> SUFFICES ASSUME Init PROVE IInv /\ Pool!Init OBVIOUS
  <1>1. Holding = {} /\ Of(Over) = {}
    BY DEF Init, Holding, Of, Over
  <1>2. Cardinality(Holding) = 0 BY <1>1, FS_EmptySet
  <1>3. SlotsAreConserved
    BY <1>2, PersistenceAssumption DEF SlotsAreConserved, Holding, Init
  <1>4. Shape BY PersistenceAssumption DEF Init, Shape, OneWaiter, Statuses
  <1> QED BY <1>1, <1>3, <1>4 DEF IInv, Pool!Init, Holding

\* submit(), with a free slot or without.
LEMMA SubmitOK ==
    ASSUME IInv, NEW j \in Jobs, Submit(j)
    PROVE  IInv' /\ PoolStep
  <1> USE DEF IInv, Shape
  <1>1. j \notin Holding /\ j \notin Of(Over)
    BY DEF Submit, Holding, Of, Over
  <1>2. Cardinality(Holding) \in Nat
    BY OfIsFinite, FS_CardinalityType DEF Holding
  <1>3. CASE SlotFree /\ slots' = slots - 1 /\ Launch(j) /\ UNCHANGED waiting
    <2>1. Holding' = Holding \union {j} /\ UNCHANGED Of(Over)
      BY <1>1, <1>3 DEF Submit, Launch, Holding, Of, Over
    <2>2. Cardinality(Holding)' = Cardinality(Holding) + 1
      BY <1>1, <2>1, Joins
    <2>3. Cardinality(Holding) < MaxInflight
      BY <1>2, <1>3, PersistenceAssumption DEF SlotsAreConserved, Holding, SlotFree
    <2>4. SlotsAreConserved'
      BY <1>2, <1>3, <2>2, PersistenceAssumption DEF SlotsAreConserved, Holding
    <2>5. Shape'
      BY <1>3 DEF Submit, Launch, Statuses, OneWaiter
    <2>6. Pool!Cardinality(Holding) = Cardinality(Holding)
      BY DEF Pool!Cardinality, Cardinality
    <2>7. Pool!Begin(j)
      BY <1>1, <2>1, <2>3, <2>6 DEF Pool!Begin, Holding
    <2> QED BY <2>4, <2>5, <2>7 DEF PoolStep, Pool!Next
  <1>4. CASE /\ ~SlotFree
             /\ status' = [status EXCEPT ![j] = "waiting"]
             /\ waiting' = j
             /\ UNCHANGED <<slots, tasks, highWater>>
    <2>1. UNCHANGED <<Holding, Of(Over)>>
      BY <1>1, <1>4 DEF Submit, Holding, Of, Over
    <2>2. SlotsAreConserved'
      BY <1>4, <2>1 DEF SlotsAreConserved, Holding
    <2>3. Shape'
      BY <1>4, PersistenceAssumption DEF Submit, Statuses, OneWaiter
    <2> QED BY <2>1, <2>2, <2>3 DEF PoolStep
  <1> QED BY <1>3, <1>4 DEF Submit

\* The waiter that was given a slot starts its task.
LEMMA SubmitResumesOK ==
    ASSUME IInv, NEW j \in Jobs, SubmitResumes(j)
    PROVE  IInv' /\ PoolStep
  <1> USE DEF IInv, Shape
  <1>1. UNCHANGED <<Holding, Of(Over)>>
    BY DEF SubmitResumes, Launch, Holding, Of, Over
  <1>2. SlotsAreConserved'
    BY <1>1 DEF SlotsAreConserved, Holding, SubmitResumes
  <1>3. Shape'
    BY PersistenceAssumption DEF SubmitResumes, Launch, Statuses, OneWaiter
  <1> QED BY <1>1, <1>2, <1>3 DEF PoolStep

\* A write ends, by itself or cancelled by the drain.
LEMMA ReleaseOK ==
    ASSUME IInv, NEW j \in Jobs, status[j] = "running",
           NEW how \in Over, Release(j, how), UNCHANGED waiting
    PROVE  IInv' /\ PoolStep
  <1>1. j \in Holding /\ j \notin Of(Over) BY DEF Holding, Of, Over
  <1>2. CASE Holding' = Holding \ {j}
    <2>1. Pool!End(j) BY <1>1, <1>2, ReleaseKeepsSlots DEF Pool!End, Holding
    <2> QED BY <2>1, ReleaseKeepsSlots DEF PoolStep, Pool!Next
  <1>3. CASE \E k \in Jobs \ Holding : Holding' = (Holding \ {j}) \union {k}
    <2>1. PICK k \in Jobs \ Holding : Holding' = (Holding \ {j}) \union {k} BY <1>3
    <2>2. Of(Over)' = Of(Over) \union {j} BY ReleaseKeepsSlots
    <2>3. CASE k \in Of(Over)
      <3>1. k \in Of(Over)' /\ k \in Holding' BY <2>1, <2>2, <2>3
      <3>2. FALSE BY <3>1 DEF Of, Over, Holding
      <3> QED BY <3>2
    <2>4. CASE k \notin Of(Over)
      <3>1. Pool!HandOver(j, k) BY <1>1, <2>1, <2>2, <2>4 DEF Pool!HandOver, Holding
      <3> QED BY <3>1, ReleaseKeepsSlots DEF PoolStep, Pool!Next
    <2> QED BY <2>3, <2>4
  <1> QED BY <1>2, <1>3, ReleaseKeepsSlots

\* teardown cancels the scanner loop.
LEMMA CancelLoopOK ==
    ASSUME IInv, CancelLoop
    PROVE  IInv' /\ PoolStep
  <1> USE DEF IInv, Shape
  <1>1. Shape'
    BY PersistenceAssumption DEF CancelLoop, SlotsAfterCancel, Statuses, OneWaiter
  <1>2. UNCHANGED Of(Over)
    BY PersistenceAssumption DEF CancelLoop, Of, Over, OneWaiter
  <1>3. CASE waiting # None /\ status[waiting] = "granted"
    <2>1. waiting \in Jobs /\ waiting \in Holding BY <1>3 DEF Holding, Of
    <2>2. Holding' = Holding \ {waiting}
      BY <1>3, <2>1 DEF CancelLoop, Holding, Of
    <2>3. Cardinality(Holding)' = Cardinality(Holding) - 1
      BY <2>1, <2>2, Leaves
    <2>4. Cardinality(Holding) \in Nat
      BY OfIsFinite, FS_CardinalityType DEF Holding
    <2>5. SlotsAreConserved'
      BY <1>3, <2>3, <2>4, PersistenceAssumption
         DEF SlotsAreConserved, Holding, CancelLoop, SlotsAfterCancel
    <2>6. Pool!Withdraw(waiting)
      BY <1>2, <2>1, <2>2 DEF Pool!Withdraw, Holding
    <2> QED BY <1>1, <2>1, <2>5, <2>6 DEF PoolStep, Pool!Next
  <1>4. CASE ~(waiting # None /\ status[waiting] = "granted")
    <2>1. UNCHANGED Holding
      BY <1>4, PersistenceAssumption DEF CancelLoop, Holding, Of, OneWaiter
    <2>2. SlotsAreConserved'
      BY <1>4, <2>1 DEF SlotsAreConserved, Holding, CancelLoop, SlotsAfterCancel
    <2> QED BY <1>1, <1>2, <2>1, <2>2 DEF PoolStep
  <1> QED BY <1>3, <1>4

LEMMA NextOK ==
    ASSUME IInv, [Next]_vars
    PROVE  IInv' /\ PoolStep
  <1>1. ASSUME NEW j \in Jobs, Submit(j) PROVE IInv' /\ PoolStep
    BY <1>1, SubmitOK
  <1>2. ASSUME NEW j \in Jobs, SubmitResumes(j) PROVE IInv' /\ PoolStep
    BY <1>2, SubmitResumesOK
  <1>3. ASSUME NEW j \in Jobs, WriteEnds(j) PROVE IInv' /\ PoolStep
    <2>1. PICK how \in Over : Release(j, how) BY <1>3 DEF WriteEnds, Over
    <2> QED BY <1>3, <2>1, ReleaseOK DEF WriteEnds
  <1>4. ASSUME NEW j \in Jobs, WriteCancelled(j) PROVE IInv' /\ PoolStep
    <2>1. "cancelled" \in Over BY DEF Over
    <2> QED BY <1>4, <2>1, ReleaseOK DEF WriteCancelled
  <1>5. CASE CancelLoop BY <1>5, CancelLoopOK
  <1>6. CASE UNCHANGED <<status, slots, waiting>>
    <2>1. UNCHANGED <<Holding, Of(Over)>> BY <1>6 DEF Holding, Of
    <2>2. SlotsAreConserved' BY <1>6, <2>1 DEF IInv, SlotsAreConserved, Holding
    <2>3. Shape' BY <1>6 DEF IInv, Shape, OneWaiter
    <2> QED BY <2>1, <2>2, <2>3 DEF PoolStep, IInv
  <1>7. ASSUME NEW j \in Jobs, DoneCallback(j) PROVE UNCHANGED <<status, slots, waiting>>
    BY <1>7 DEF DoneCallback
  <1>8. CASE StartDrain \/ DrainEnds \/ DrainTimesOut
    BY <1>6, <1>8 DEF StartDrain, DrainEnds, DrainTimesOut
  <1> QED BY <1>1, <1>2, <1>3, <1>4, <1>5, <1>6, <1>7, <1>8 DEF Next, vars

-----------------------------------------------------------------------------
(* Results. *)

\* The slots held and the slots free add up to max_inflight in every reachable
\* state: no failure, cancellation or hand-over loses or makes one.
THEOREM SlotsAlwaysConserved == Spec => []SlotsAreConserved
  <1>1. Init => IInv BY InitOK
  <1>2. IInv /\ [Next]_vars => IInv' BY NextOK
  <1>3. IInv => SlotsAreConserved BY DEF IInv
  <1> QED BY <1>1, <1>2, <1>3, PTL DEF Spec

\* AsyncPersistence is a bounded pool of writes: at most max_inflight hold a slot,
\* and none is taken up twice.
THEOREM PersistenceImplementsPool == Spec => ImplementsPool
  <1>1. Init => IInv /\ Pool!Init BY InitOK
  <1>2. IInv /\ [Next]_vars => IInv' /\ [Pool!Next]_<<Of({"running", "granted"}), Of(Over)>>
    BY NextOK DEF PoolStep, Holding
  <1> QED BY <1>1, <1>2, PTL DEF Spec, ImplementsPool, Pool!Spec

-----------------------------------------------------------------------------
(* The drain. *)

\* Every running write is in _tasks; after the loop is cancelled nothing is added
\* to it, so the snapshot drain() took still holds all of it.
DrainInv ==
    /\ \A j \in Jobs : status[j] = "running" => j \in tasks
    /\ loop = "cancelled" => waiting = None
    /\ drain # "before" => loop = "cancelled" /\ tasks \subseteq snapshot
    /\ drain = "drained" => tasks = {}

LEMMA DrainInvStep ==
    ASSUME IInv, DrainInv, [Next]_vars
    PROVE  DrainInv'
  <1> USE DEF DrainInv, IInv, Shape
  <1>1. ASSUME NEW j \in Jobs, Submit(j) PROVE DrainInv'
    <2>1. j \in tasks' \/ status'[j] = "waiting"
      BY <1>1 DEF Submit, Launch
    <2>2. loop = "running" /\ drain = "before" /\ UNCHANGED <<loop, drain>>
      BY <1>1 DEF Submit
    <2>3. tasks \subseteq tasks' /\ \A k \in Jobs \ {j} : status'[k] = status[k]
      BY <1>1 DEF Submit, Launch
    <2>4. \A k \in Jobs : status'[k] = "running" => k \in tasks'
      BY <2>1, <2>3
    <2> QED BY <2>2, <2>4
  <1>2. ASSUME NEW j \in Jobs, SubmitResumes(j) PROVE DrainInv'
    <2>1. waiting = j /\ waiting # None
      BY <1>2, PersistenceAssumption DEF SubmitResumes, OneWaiter
    <2>2. loop # "cancelled" /\ drain = "before" /\ UNCHANGED <<loop, drain>>
      BY <1>2, <2>1 DEF SubmitResumes
    <2>3. \A k \in Jobs : status'[k] = "running" => k \in tasks'
      BY <1>2 DEF SubmitResumes, Launch
    <2> QED BY <2>2, <2>3
  <1>3. ASSUME NEW j \in Jobs, NEW how \in Over, Release(j, how),
               UNCHANGED <<waiting, tasks, loop, drain, snapshot>>
        PROVE  DrainInv'
    <2>1. \A k \in Jobs : status'[k] = "running" => status[k] = "running"
      BY <1>3 DEF Release, Over
    <2> QED BY <1>3, <2>1
  <1>4. ASSUME NEW j \in Jobs, WriteEnds(j) \/ WriteCancelled(j) PROVE DrainInv'
    <2>1. \E how \in Over : Release(j, how)
      BY <1>4 DEF WriteEnds, WriteCancelled, Over
    <2> QED BY <1>3, <1>4, <2>1 DEF WriteEnds, WriteCancelled
  <1>5. ASSUME NEW j \in Jobs, DoneCallback(j) PROVE DrainInv'
    BY <1>5 DEF DoneCallback, Over
  <1>6. CASE CancelLoop BY <1>6 DEF CancelLoop
  <1>7. CASE StartDrain BY <1>7 DEF StartDrain
  <1>8. CASE DrainEnds BY <1>8 DEF DrainEnds, AllGathered
  <1>9. CASE DrainTimesOut BY <1>9 DEF DrainTimesOut
  <1>10. CASE UNCHANGED vars BY <1>10 DEF vars
  <1> QED BY <1>1, <1>2, <1>4, <1>5, <1>6, <1>7, <1>8, <1>9, <1>10 DEF Next

\* A drain that ended by itself leaves no write unfinished and no task behind: the
\* database can be closed after it.
THEOREM DrainIsComplete == Spec => []DrainLeavesNothing
  <1>1. Init => IInv /\ DrainInv BY InitOK DEF Init, DrainInv
  <1>2. IInv /\ DrainInv /\ [Next]_vars => IInv' /\ DrainInv' BY NextOK, DrainInvStep
  <1>3. DrainInv => DrainLeavesNothing BY DEF DrainInv, DrainLeavesNothing, Of
  <1> QED BY <1>1, <1>2, <1>3, PTL DEF Spec

-----------------------------------------------------------------------------
(* The order books. *)

Place == [at : {"none", "top", "waiting", "asleep"}, ws : BOOLEAN, served : Nat \union {None},
          waited : Nat, left : Nat, cooldown : Nat, failures : Nat, backoff : Nat]

\* A request that waits has not outlived its bound, and what it was answered was
\* served since it was sent.
RequestIsBounded(state) ==
    state.at = "waiting" =>
        /\ state.waited <= Feed!Limit(state.ws)
        /\ state.served # None => state.served <= state.waited

\* The book holds what the exchange served at most the longest bound before it was
\* received; both ages stop growing at Old.
BookIsTimely ==
    \/ book = None
    \/ /\ book \in [received : 0 .. Feed!Old, data : 0 .. Feed!Old]
       /\ book.data <= book.received + Feed!Longest

BookInv ==
    /\ poller \in [Pollers -> Place]
    /\ \A p \in Pollers : RequestIsBounded(poller[p])
    /\ BookIsTimely

LEMMA FeedBounds ==
    /\ Feed!Longest \in Nat /\ Feed!Old \in Nat /\ MaxStale \in Nat
    /\ Feed!Longest < Feed!Old
    /\ Feed!Old = MaxStale + Feed!Longest + 1
    /\ \A ws \in BOOLEAN : Feed!Limit(ws) \in Nat \ {0} /\ Feed!Limit(ws) <= Feed!Longest
    /\ {Interval, MaxBackoff, MaxFailures, Cooldown} \subseteq Nat
    /\ "run" \in Pollers /\ None \notin Nat
<1>1. \A n \in {MaxStale, WsTimeout, RestTimeout, Interval, MaxBackoff, MaxFailures, Cooldown} :
          n \in Nat \ {0}
  BY BackgroundAssumption DEF Feed!FeedAssumption
<1>2. "run" \in Pollers /\ None \notin Nat
  BY BackgroundAssumption DEF Feed!FeedAssumption
<1>3. /\ MaxStale \in Nat \ {0} /\ WsTimeout \in Nat \ {0} /\ RestTimeout \in Nat \ {0}
      /\ {Interval, MaxBackoff, MaxFailures, Cooldown} \subseteq Nat
  BY <1>1
<1>4. QED
  BY <1>2, <1>3 DEF Feed!Longest, Feed!Old, Feed!Limit

\* A task that is started, stopped, sleeps or is back at the top waits for nothing.
LEMMA IdlePlaces == /\ Feed!Idle \in Place /\ RequestIsBounded(Feed!Idle)
                    /\ Feed!Fresh \in Place /\ RequestIsBounded(Feed!Fresh)
<1>1. Interval \in Nat
  BY FeedBounds
<1>2. QED
  BY <1>1 DEF Feed!Idle, Feed!Fresh, Place, RequestIsBounded

\* A failed request leaves its task asleep.
LEMMA FailedPlace ==
    ASSUME NEW state \in Place
    PROVE  /\ Feed!Failed(state) \in Place
           /\ Feed!BackOff(state) \in Place /\ Feed!BackOff(state).at = "asleep"
<1>1. {Interval, MaxBackoff, MaxFailures, Cooldown} \subseteq Nat
  BY FeedBounds
<1>2. Feed!Failed(state) \in Place
  <2>1. ASSUME NEW n \in Nat PROVE [state EXCEPT !.failures = n] \in Place
    BY DEF Place
  <2>2. ASSUME NEW n \in Nat PROVE [state EXCEPT !.failures = 0, !.cooldown = n] \in Place
    BY DEF Place
  <2>3. state.failures + 1 \in Nat /\ state.ws \in BOOLEAN
    BY DEF Place
  <2>4. QED
    BY <1>1, <2>1, <2>2, <2>3 DEF Feed!Failed
<1>3. Feed!BackOff(state) \in Place /\ Feed!BackOff(state).at = "asleep"
  <2>1. ASSUME NEW n \in Nat, NEW m \in Nat
        PROVE  /\ [state EXCEPT !.at = "asleep", !.left = n, !.backoff = m] \in Place
               /\ [state EXCEPT !.at = "asleep", !.left = n, !.backoff = m].at = "asleep"
    BY DEF Place
  <2>2. state.backoff \in Nat /\ MaxBackoff \in Nat
    BY <1>1 DEF Place
  <2>3. /\ Feed!LeastOf(MaxBackoff, state.backoff) \in Nat
        /\ Feed!LeastOf(MaxBackoff, 2 * state.backoff) \in Nat
    BY <2>2 DEF Feed!LeastOf
  <2>4. QED
    BY <2>1, <2>3 DEF Feed!BackOff
<1>4. QED
  BY <1>2, <1>3

\* One task moves, to a place that waits for nothing or waits within its bound.
LEMMA OneTaskMoves ==
    ASSUME BookInv, NEW p \in Pollers, NEW state \in Place, RequestIsBounded(state),
           poller' = [poller EXCEPT ![p] = state], BookIsTimely'
    PROVE  BookInv'
  BY DEF BookInv

LEMMA BookStep ==
    ASSUME BookInv, [Feed!FeedNext]_feedVars
    PROVE  BookInv'
<1> USE FeedBounds
<1>1. CASE UNCHANGED feedVars
  BY <1>1 DEF feedVars, BookInv, BookIsTimely
<1>2. CASE Feed!Run
  <2>1. BookIsTimely'
    BY <1>2 DEF Feed!Run, BookInv, BookIsTimely
  <2>2. QED
    BY <1>2, <2>1, IdlePlaces, OneTaskMoves DEF Feed!Run
<1>3. CASE Feed!EnsurePolling
  <2>1. BookIsTimely'
    BY <1>3 DEF Feed!EnsurePolling, BookInv, BookIsTimely
  <2>2. QED
    BY <1>3, <2>1, IdlePlaces, OneTaskMoves DEF Feed!EnsurePolling
<1>4. CASE Feed!Stop
  BY <1>4, IdlePlaces DEF Feed!Stop, BookInv, BookIsTimely
<1>5. CASE Feed!TickFeed
  <2>1. ASSUME NEW p \in Pollers
        PROVE  poller'[p] \in Place /\ RequestIsBounded(poller'[p])
    <3>1. /\ poller[p] \in Place /\ RequestIsBounded(poller[p])
          /\ ~Feed!TimedOut(p)
          /\ poller'[p] = CASE poller[p].at = "waiting" ->
                                  [poller[p] EXCEPT !.waited = Feed!Older(@),
                                                    !.served = Feed!Older(@)]
                            [] poller[p].at = "asleep" /\ poller[p].left > 0 ->
                                  [poller[p] EXCEPT !.left = @ - 1]
                            [] OTHER -> poller[p]
      BY <1>5 DEF Feed!TickFeed, BookInv
    <3>2. CASE poller[p].at = "waiting"
      <4> DEFINE w == poller[p].waited
                 d == poller[p].served
      <4>1. /\ poller[p].ws \in BOOLEAN /\ w \in Nat /\ d \in Nat \union {None}
            /\ w < Feed!Limit(poller[p].ws)
            /\ d # None => d <= w
        BY <3>1, <3>2 DEF Feed!TimedOut, Place, RequestIsBounded
      <4>2. Feed!Older(w) = w + 1 /\ Feed!Older(d) = IF d = None THEN None ELSE d + 1
        BY <4>1 DEF Feed!Older
      <4>3. poller'[p] = [poller[p] EXCEPT !.waited = w + 1,
                                           !.served = IF d = None THEN None ELSE d + 1]
        BY <3>1, <3>2, <4>2
      <4> HIDE DEF w, d
      <4>4. poller'[p] \in Place
        <5>1. w + 1 \in Nat /\ (IF d = None THEN None ELSE d + 1) \in Nat \union {None}
          BY <4>1
        <5>2. ASSUME NEW m \in Nat, NEW n \in Nat \union {None}
              PROVE  [poller[p] EXCEPT !.waited = m, !.served = n] \in Place
          BY <3>1 DEF Place
        <5>3. QED
          BY <4>3, <5>1, <5>2
      <4>5. /\ poller'[p].waited = w + 1 /\ poller'[p].ws = poller[p].ws
            /\ poller'[p].served = IF d = None THEN None ELSE d + 1
        BY <3>1, <4>3 DEF Place
      <4>6. QED
        BY <4>1, <4>4, <4>5 DEF RequestIsBounded
    <3>3. CASE poller[p].at # "waiting"
      BY <3>1, <3>3 DEF Place, RequestIsBounded
    <3>4. QED
      BY <3>2, <3>3
  <2>2. BookIsTimely'
    <3>1. CASE book = None
      BY <1>5, <3>1 DEF Feed!TickFeed, BookIsTimely
    <3>2. CASE book # None
      <4>1. /\ book' = [received |-> Feed!Older(book.received), data |-> Feed!Older(book.data)]
            /\ book.received \in 0 .. Feed!Old /\ book.data \in 0 .. Feed!Old
            /\ book.data <= book.received + Feed!Longest
        BY <1>5, <3>2 DEF Feed!TickFeed, BookInv, BookIsTimely
      <4>2. /\ Feed!Older(book.received) \in 0 .. Feed!Old
            /\ Feed!Older(book.data) \in 0 .. Feed!Old
            /\ Feed!Older(book.data) <= Feed!Older(book.received) + Feed!Longest
        BY <4>1 DEF Feed!Older
      <4>3. QED
        BY <4>1, <4>2 DEF BookIsTimely
    <3>3. QED
      BY <3>1, <3>2
  <2>3. poller' \in [Pollers -> Place]
    BY <1>5, <2>1 DEF Feed!TickFeed
  <2>4. QED
    BY <2>1, <2>2, <2>3 DEF BookInv
<1>6. ASSUME NEW p \in Pollers, book' = book, NEW state \in Place, RequestIsBounded(state),
             poller' = [poller EXCEPT ![p] = state]
      PROVE  BookInv'
  <2>1. BookIsTimely'
    BY <1>6 DEF BookInv, BookIsTimely
  <2>2. QED
    BY <1>6, <2>1, OneTaskMoves
<1>7. ASSUME NEW p \in Pollers PROVE poller[p] \in Place /\ poller \in [Pollers -> Place]
                                     /\ RequestIsBounded(poller[p])
  BY DEF BookInv
<1>8. ASSUME NEW p \in Pollers, Feed!Ask(p) PROVE BookInv'
  <2> DEFINE open == Socket /\ poller[p].cooldown = 0
             state == [poller[p] EXCEPT !.at = "waiting", !.ws = open,
                                        !.served = None, !.waited = 0]
  <2>1. poller' = [poller EXCEPT ![p] = state] /\ book' = book
    BY <1>7, <1>8 DEF Feed!Ask
  <2>2. open \in BOOLEAN
    BY Zenon
  <2> HIDE DEF open
  <2>3. state \in Place
    BY <1>7, <2>2 DEF Place
  <2>4. state.ws \in BOOLEAN /\ state.served = None /\ state.waited = 0
    BY <1>7, <2>2 DEF Place
  <2>5. RequestIsBounded(state)
    <3> HIDE DEF state
    <3>1. QED
      BY <2>4 DEF RequestIsBounded
  <2> HIDE DEF state
  <2>6. QED
    BY <1>6, <2>1, <2>3, <2>5
<1>9. ASSUME NEW p \in Pollers, Feed!Serve(p) PROVE BookInv'
  <2> DEFINE state == [poller[p] EXCEPT !.served = 0]
  <2>1. poller' = [poller EXCEPT ![p] = state] /\ book' = book
    BY <1>7, <1>9 DEF Feed!Serve
  <2>2. state \in Place /\ RequestIsBounded(state)
    BY <1>7 DEF Place, RequestIsBounded
  <2>3. QED
    BY <1>6, <2>1, <2>2
<1>10. ASSUME NEW p \in Pollers, Feed!Answer(p) PROVE BookInv'
  <2>1. /\ poller[p].at = "waiting" /\ poller[p].served # None
        /\ book' = [received |-> 0, data |-> poller[p].served]
    BY <1>10 DEF Feed!Answer, Feed!Update
  <2>2. BookIsTimely'
    <3>1. /\ poller[p].served \in Nat /\ poller[p].ws \in BOOLEAN /\ poller[p].waited \in Nat
          /\ poller[p].served <= poller[p].waited
          /\ poller[p].waited <= Feed!Limit(poller[p].ws)
      BY <1>7, <2>1 DEF Place, RequestIsBounded
    <3>2. poller[p].served \in 0 .. Feed!Old /\ poller[p].served <= 0 + Feed!Longest
          /\ 0 \in 0 .. Feed!Old
      BY <3>1
    <3>3. QED
      BY <2>1, <3>2 DEF BookIsTimely
  <2>3. \E state \in Place : RequestIsBounded(state) /\ poller' = [poller EXCEPT ![p] = state]
    <3>1. CASE Feed!Pushed(p)
      <4> DEFINE state == [poller[p] EXCEPT !.at = "top", !.failures = 0, !.backoff = Interval]
      <4>1. state \in Place /\ RequestIsBounded(state)
        BY <1>7 DEF Place, RequestIsBounded
      <4>2. poller' = [poller EXCEPT ![p] = state]
        BY <1>7, <3>1 DEF Feed!Pushed
      <4>3. QED
        BY <4>1, <4>2
    <3>2. CASE Feed!Polled(p)
      <4> DEFINE n == poller[p].cooldown
                 left == IF n \in {0, Feed!Never} THEN n ELSE n - 1
                 state == [poller[p] EXCEPT !.at = "asleep", !.left = Interval,
                                            !.backoff = Interval, !.cooldown = left]
      <4>1. n \in Nat
        BY <1>7 DEF Place
      <4>2. left \in Nat
        BY <4>1
      <4>3. poller' = [poller EXCEPT ![p] = state]
        BY <1>7, <3>2 DEF Feed!Polled
      <4> HIDE DEF left
      <4>4. state \in Place /\ RequestIsBounded(state)
        BY <1>7, <4>2 DEF Place, RequestIsBounded
      <4>5. QED
        BY <4>3, <4>4
    <3>3. QED
      BY <1>10, <3>1, <3>2 DEF Feed!Answer
  <2>4. QED
    BY <2>2, <2>3, OneTaskMoves
<1>11. ASSUME NEW p \in Pollers, Feed!Wake(p) PROVE BookInv'
  <2> DEFINE state == [poller[p] EXCEPT !.at = "top"]
  <2>1. poller' = [poller EXCEPT ![p] = state] /\ book' = book
    BY <1>7, <1>11 DEF Feed!Wake
  <2>2. state \in Place /\ RequestIsBounded(state)
    BY <1>7 DEF Place, RequestIsBounded
  <2>3. QED
    BY <1>6, <2>1, <2>2
<1>12. ASSUME NEW p \in Pollers, Feed!Transient(p) PROVE BookInv'
  <2> DEFINE state == Feed!BackOff(Feed!Failed(poller[p]))
  <2>1. poller' = [poller EXCEPT ![p] = state] /\ book' = book
    BY <1>7, <1>12 DEF Feed!Transient
  <2>2. state \in Place /\ RequestIsBounded(state)
    BY <1>7, FailedPlace DEF RequestIsBounded
  <2> HIDE DEF state
  <2>3. QED
    BY <1>6, <2>1, <2>2
<1>13. ASSUME NEW p \in Pollers, Feed!OtherError(p) PROVE BookInv'
  <2> DEFINE cooled == IF poller[p].ws THEN [poller[p] EXCEPT !.cooldown = Cooldown] ELSE poller[p]
             state  == Feed!BackOff(cooled)
  <2>1. poller' = [poller EXCEPT ![p] = state] /\ book' = book
    BY <1>7, <1>13 DEF Feed!OtherError
  <2>2. cooled \in Place
    BY <1>7 DEF Place
  <2> HIDE DEF cooled
  <2>3. state \in Place /\ RequestIsBounded(state)
    BY <2>2, FailedPlace DEF RequestIsBounded
  <2> HIDE DEF state
  <2>4. QED
    BY <1>6, <2>1, <2>3
<1>14. ASSUME NEW p \in Pollers, Feed!NotImplemented(p) PROVE BookInv'
  <2> DEFINE state == [poller[p] EXCEPT !.at = "top", !.cooldown = Feed!Never]
  <2>1. poller' = [poller EXCEPT ![p] = state] /\ book' = book
    BY <1>7, <1>14 DEF Feed!NotImplemented
  <2>2. Feed!Never \in Nat
    BY DEF Feed!Never
  <2>3. state \in Place /\ RequestIsBounded(state)
    BY <1>7, <2>2 DEF Place, RequestIsBounded
  <2>4. QED
    BY <1>6, <2>1, <2>3
<1>15. QED
  BY <1>1, <1>2, <1>3, <1>4, <1>5, <1>8, <1>9, <1>10, <1>11, <1>12, <1>13, <1>14
     DEF Feed!FeedNext, Feed!TimeOut

\* For any bounds on the requests and any staleness limit, a book that is not stale
\* was served at most that limit and the longest bound ago, whichever of the two
\* tasks and the two sources wrote it last.
THEOREM FreshIsAlwaysRecent == BackgroundSpec => []FreshMeansRecent
<1>1. BackgroundInit => BookInv
  BY IdlePlaces DEF BackgroundInit, Feed!FeedInit, BookInv, BookIsTimely
<1>2. BookInv /\ [Writes \/ Books \/ Balances]_backgroundVars => BookInv'
  <2>1. [Writes \/ Books \/ Balances]_backgroundVars => [Feed!FeedNext]_feedVars
    BY DEF Writes, Books, Balances, backgroundVars
  <2>2. QED
    BY <2>1, BookStep
<1>3. BookInv => FreshMeansRecent
  <2> SUFFICES ASSUME BookInv, book # None, ~(book.received > MaxStale)
               PROVE  book.data <= MaxStale + Feed!Longest
    BY DEF FreshMeansRecent, Feed!FreshMeansRecent, Feed!Stale
  <2>1. /\ book.received \in Nat /\ book.data \in Nat
        /\ book.data <= book.received + Feed!Longest
    BY FeedBounds DEF BookInv, BookIsTimely
  <2>2. QED
    BY <2>1, FeedBounds
<1>4. QED
  BY <1>1, <1>2, <1>3, PTL DEF BackgroundSpec


-----------------------------------------------------------------------------
(* The balances. *)

TradeStages == {"new", "approved", "reserved", "spent", "finished"}

TradeBook == [Trades -> [stage : TradeStages, size : Nat]]

\* The trades in one of the given stages, and what was approved for them.
In(t, stages)    == {x \in Trades : t[x].stage \in stages}
SizeOf(t)        == [x \in Trades |-> t[x].size]
Tally(t, stages) == Total(SizeOf(t), In(t, stages))

\* What a trade of size n counts for in the tally of the given stages.
Counted(n, stage, stages) == IF stage \in stages THEN n ELSE 0

\* The loop decides one opportunity at a time.
OneApproved == \A t, u \in In(trade, {"approved"}) : t = u

\* What was approved for the trades that have not given it back, and for those that
\* have not spent it.
Held    == Tally(trade, {"reserved", "spent"})
Unspent == Tally(trade, {"approved", "reserved"})

\* What has been approved and not spent is covered, up to what trades spent without
\* a reservation and not yet at the account's expense.
Covered ==
    /\ cached \in Nat /\ forgiven \in Nat /\ uncovered \in Nat
    /\ forgiven <= uncovered
    /\ Unspent <= cached + uncovered - forgiven

AccountInv ==
    /\ trade \in TradeBook
    /\ OneApproved
    /\ reserved = Held
    /\ ~disturbed => Covered

LEMMA InFacts ==
    ASSUME NEW tr \in TradeBook, NEW stages
    PROVE  /\ IsFiniteSet(In(tr, stages))
           /\ \A t \in Trades : SizeOf(tr)[t] \in Nat /\ SizeOf(tr)[t] = tr[t].size
           /\ \A t \in In(tr, stages) : t \in Trades /\ SizeOf(tr)[t] \in Nat
           /\ Tally(tr, stages) \in Nat
           /\ \A t \in In(tr, stages) : tr[t].size <= Tally(tr, stages)
<1>1. IsFiniteSet(In(tr, stages))
  <2>1. In(tr, stages) \in SUBSET Trades
    BY DEF In
  <2>2. Account!IsFiniteSet(Trades)
    BY BackgroundAssumption DEF Account!AccountsAssumption
  <2>3. IsFiniteSet(Trades)
    BY <2>2 DEF Account!IsFiniteSet, IsFiniteSet
  <2>4. QED
    BY <2>1, <2>3, FS_Subset
<1>2. \A t \in Trades : SizeOf(tr)[t] \in Nat /\ SizeOf(tr)[t] = tr[t].size
  BY DEF SizeOf, TradeBook
<1>3. \A t \in In(tr, stages) : t \in Trades /\ SizeOf(tr)[t] \in Nat
  BY <1>2 DEF In
<1>4. /\ Tally(tr, stages) \in Nat
      /\ \A t \in In(tr, stages) : SizeOf(tr)[t] <= Tally(tr, stages)
  BY <1>1, <1>3, TotalType, TotalWithout DEF Tally
<1>5. QED
  BY <1>1, <1>2, <1>3, <1>4

\* A trade that moves on with its size joins the sum, leaves it, or neither.
LEMMA TallyMoves ==
    ASSUME NEW tr \in TradeBook, NEW t \in Trades, NEW stage \in TradeStages, NEW n \in Nat,
           NEW stages, tr[t].stage \in stages => n = tr[t].size
    PROVE  Tally([tr EXCEPT ![t] = [stage |-> stage, size |-> n]], stages) =
               Tally(tr, stages) + Counted(n, stage, stages) - Counted(n, tr[t].stage, stages)
<1> DEFINE next == [tr EXCEPT ![t] = [stage |-> stage, size |-> n]]
           S == In(tr, stages)
           T == In(next, stages)
           w == SizeOf(tr)
           v == SizeOf(next)
<1> SUFFICES Tally(next, stages) = Tally(tr, stages) + (IF stage \in stages THEN n ELSE 0)
                                                     - (IF tr[t].stage \in stages THEN n ELSE 0)
  BY DEF Counted
<1>1. /\ next \in TradeBook
      /\ \A u \in Trades : u # t => next[u] = tr[u]
      /\ next[t].stage = stage /\ next[t].size = n
  BY DEF TradeBook
<1>2. /\ IsFiniteSet(S)
      /\ \A u \in S : w[u] \in Nat /\ v[u] \in Nat
      /\ v[t] = n
      /\ Total(w, S) \in Nat
  BY <1>1, InFacts DEF Tally
<1>3. /\ t \in S <=> tr[t].stage \in stages
      /\ T = IF stage \in stages THEN S \union {t} ELSE S \ {t}
  BY <1>1 DEF In
<1>4. \A u \in S : v[u] = w[u]
  <2>1. \A u \in S : u \in Trades /\ next[u].size = tr[u].size
    BY <1>1, <1>3, InFacts
  <2>2. QED
    BY <1>1, <2>1, InFacts
<1>5. Tally(tr, stages) = Total(w, S) /\ Tally(next, stages) = Total(v, T)
  BY DEF Tally
<1> HIDE DEF S, T, w, v, next
<1>6. Total(v, S) = Total(w, S)
  BY <1>2, <1>4, TotalOfSame
<1>7. CASE t \in S
  <2>1. \A u \in S : v[u] \in Nat
    BY <1>2
  <2>2. Total(v, S \ {t}) = Total(v, S) - n
    BY <1>2, <1>7, <2>1, TotalWithout
  <2>3. stage \in stages => T = S
    BY <1>3, <1>7
  <2>4. stage \notin stages => T = S \ {t}
    BY <1>3
  <2>5. CASE stage \in stages
    <3>1. Tally(next, stages) = Tally(tr, stages)
      BY <1>5, <1>6, <2>3, <2>5
    <3>2. QED
      BY <1>2, <1>3, <1>5, <1>7, <2>5, <3>1
  <2>6. CASE stage \notin stages
    <3>1. Tally(next, stages) = Tally(tr, stages) - n
      BY <1>5, <1>6, <2>2, <2>4, <2>6
    <3>2. QED
      BY <1>2, <1>3, <1>5, <1>7, <2>6, <3>1
  <2>7. QED
    BY <2>5, <2>6
<1>8. CASE t \notin S
  <2>1. IsFiniteSet(S) /\ \A u \in S \union {t} : v[u] \in Nat
    BY <1>2
  <2>2. Total(v, S \union {t}) = Total(v, S) + v[t]
    BY <1>8, <2>1, TotalWith
  <2>3. stage \in stages => T = S \union {t}
    BY <1>3
  <2>4. stage \notin stages => T = S
    BY <1>3, <1>8
  <2>5. CASE stage \in stages
    <3>1. Tally(next, stages) = Tally(tr, stages) + n
      BY <1>2, <1>5, <1>6, <2>2, <2>3, <2>5
    <3>2. QED
      BY <1>2, <1>3, <1>5, <1>8, <2>5, <3>1
  <2>6. CASE stage \notin stages
    <3>1. Tally(next, stages) = Tally(tr, stages)
      BY <1>5, <1>6, <2>4, <2>6
    <3>2. QED
      BY <1>2, <1>3, <1>5, <1>8, <2>6, <3>1
  <2>7. QED
    BY <2>5, <2>6
<1>9. QED
  BY <1>7, <1>8

\* What the invariant keeps of a step in which one trade moves on.
LEMMA TradeMoves ==
    ASSUME trade \in TradeBook, OneApproved,
           NEW t \in Trades, NEW stage \in TradeStages, NEW n \in Nat,
           trade' = [trade EXCEPT ![t] = [stage |-> stage, size |-> n]],
           trade[t].stage = "new" \/ n = trade[t].size
    PROVE  /\ trade' \in TradeBook
           /\ stage # "approved" => OneApproved'
           /\ Held' = Held + (IF stage \in {"reserved", "spent"} THEN n ELSE 0)
                           - (IF trade[t].stage \in {"reserved", "spent"} THEN n ELSE 0)
           /\ Unspent' = Unspent + (IF stage \in {"approved", "reserved"} THEN n ELSE 0)
                                 - (IF trade[t].stage \in {"approved", "reserved"} THEN n ELSE 0)
<1>1. trade' \in TradeBook /\ (stage # "approved" => OneApproved')
  BY DEF TradeBook, OneApproved, In
<1> DEFINE A == {"reserved", "spent"}
           B == {"approved", "reserved"}
<1>2. /\ trade[t].stage \in A => n = trade[t].size
      /\ trade[t].stage \in B => n = trade[t].size
  OBVIOUS
<1>3. /\ Held' = Tally(trade', A) /\ Held = Tally(trade, A)
      /\ Unspent' = Tally(trade', B) /\ Unspent = Tally(trade, B)
  BY DEF Held, Unspent
<1> HIDE DEF A, B
<1>4. \A stages : (trade[t].stage \in stages => n = trade[t].size) =>
          Tally([trade EXCEPT ![t] = [stage |-> stage, size |-> n]], stages) =
              Tally(trade, stages) + Counted(n, stage, stages) - Counted(n, trade[t].stage, stages)
  BY TallyMoves
<1>5. Tally(trade', A) = Tally(trade, A) + Counted(n, stage, A) - Counted(n, trade[t].stage, A)
  BY <1>2, <1>4
<1>6. Tally(trade', B) = Tally(trade, B) + Counted(n, stage, B) - Counted(n, trade[t].stage, B)
  BY <1>2, <1>4
<1>7. QED
  BY <1>1, <1>3, <1>5, <1>6 DEF A, B, Counted

LEMMA StageChange ==
    ASSUME trade \in TradeBook, NEW t \in Trades, NEW stage
    PROVE  [trade EXCEPT ![t].stage = stage] =
               [trade EXCEPT ![t] = [stage |-> stage, size |-> trade[t].size]]
<1>1. [trade[t] EXCEPT !.stage = stage] = [stage |-> stage, size |-> trade[t].size]
  BY DEF TradeBook
<1>2. QED
  BY <1>1 DEF TradeBook

\* A fill that costs s, of which r had been reserved and counts as unspent no more,
\* leaves the rest of the unspent covered.
LEMMA PayKeepsCover ==
    ASSUME cached \in Nat, forgiven \in Nat, uncovered \in Nat, forgiven <= uncovered,
           NEW s \in Nat, NEW r \in Nat, NEW u \in Nat,
           u <= cached + uncovered - forgiven, r <= u, Account!Pay(s, r)
    PROVE  /\ cached' \in Nat /\ forgiven' \in Nat /\ uncovered' \in Nat
           /\ forgiven' <= uncovered'
           /\ u - r <= cached' + uncovered' - forgiven'
<1>1. uncovered' = IF s - r > 0 THEN uncovered + (s - r) ELSE uncovered
  BY DEF Account!Pay, Account!OrZero
<1>2. CASE UNCHANGED <<cached, forgiven>>
  BY <1>1, <1>2
<1>3. CASE /\ cached' = Account!OrZero(cached - s)
           /\ forgiven' = forgiven + Account!OrZero(s - cached)
  <2>1. CASE s > cached
    <3>1. cached' = 0 /\ forgiven' = forgiven + (s - cached)
      BY <1>3, <2>1 DEF Account!OrZero
    <3>2. QED
      BY <1>1, <2>1, <3>1
  <2>2. CASE s <= cached
    <3>1. cached' = cached - s /\ forgiven' = forgiven
      BY <1>3, <2>2 DEF Account!OrZero
    <3>2. QED
      BY <1>1, <2>2, <3>1
  <2>3. QED
    BY <2>1, <2>2
<1>4. QED
  BY <1>2, <1>3 DEF Account!Pay

LEMMA AccountStep ==
    ASSUME AccountInv, [Account!AccountsNext]_accountVars
    PROVE  AccountInv'
<1>1. /\ trade \in TradeBook
      /\ OneApproved
      /\ reserved = Held
      /\ Held \in Nat /\ Unspent \in Nat
      /\ ~disturbed => /\ cached \in Nat /\ forgiven \in Nat /\ uncovered \in Nat
                       /\ forgiven <= uncovered
                       /\ Unspent <= cached + uncovered - forgiven
  BY InFacts DEF AccountInv, Covered, Held, Unspent
<1>2. /\ Sizes \subseteq Nat /\ \A n \in Sizes : n > 0
      /\ Fee \in Nat /\ Opening \in Nat /\ MaxHeld \in Nat
  BY BackgroundAssumption DEF Account!AccountsAssumption
<1>3. CASE trade' = trade /\ reserved' = reserved /\ (~disturbed' => ~disturbed /\ Covered')
  BY <1>3 DEF AccountInv, OneApproved, Held
<1>4. CASE trade' = trade /\ UNCHANGED <<reserved, cached, forgiven, uncovered, disturbed>>
  <2>1. ~disturbed' => ~disturbed /\ Covered'
    BY <1>4 DEF AccountInv, Covered, Unspent
  <2>2. QED
    BY <1>3, <1>4, <2>1
\* A step that moves one trade on keeps the invariant if the sums fit.
<1>5. ASSUME trade' \in TradeBook, OneApproved', reserved' = Held',
             disturbed' = disturbed, ~disturbed => Covered'
      PROVE  AccountInv'
  BY <1>5 DEF AccountInv
<1>6. ASSUME NEW t \in Trades, Account!ApproveTrade(t) PROVE AccountInv'
  <2>1. PICK a \in Sizes : /\ a <= Account!FreeNow
                           /\ trade' = [trade EXCEPT ![t] = [stage |-> "approved", size |-> a]]
    BY <1>6 DEF Account!ApproveTrade
  <2>2. /\ trade[t].stage = "new" /\ \A u \in Trades : trade[u].stage # "approved"
        /\ UNCHANGED <<cached, reserved, forgiven, uncovered, disturbed>>
    BY <1>6 DEF Account!ApproveTrade
  <2>3. trade' \in TradeBook /\ Held' = Held + 0 - 0 /\ Unspent' = Unspent + a - 0
    BY <1>1, <1>2, <2>1, <2>2, TradeMoves DEF TradeStages
  <2>4. OneApproved'
    BY <1>1, <2>1, <2>2 DEF OneApproved, In, TradeBook
  <2>5. Unspent <= Held
    <3> DEFINE S == In(trade, {"reserved", "spent"})
               T == In(trade, {"approved", "reserved"})
               w == SizeOf(trade)
    <3>1. T \in SUBSET S
      BY <2>2 DEF In
    <3>2. IsFiniteSet(S) /\ \A x \in S : w[x] \in Nat
      BY <1>1, InFacts
    <3>3. Unspent = Total(w, T) /\ Held = Total(w, S)
      BY DEF Held, Unspent, Tally
    <3> HIDE DEF S, T, w
    <3>4. QED
      BY <3>1, <3>2, <3>3, TotalOfPart
  <2>6. Held' = Held /\ Unspent' = Unspent + a /\ a \in Nat /\ a > 0
    BY <1>1, <1>2, <2>3
  <2>7. a <= cached - reserved \/ a <= 0
    BY <2>1 DEF Account!FreeNow, Account!OrZero
  <2>8. ~disturbed => Covered'
    <3> SUFFICES ASSUME ~disturbed PROVE Unspent' <= cached + uncovered - forgiven
      BY <1>1, <2>2 DEF Covered
    <3>1. /\ cached \in Nat /\ forgiven \in Nat /\ uncovered \in Nat /\ forgiven <= uncovered
          /\ reserved = Held /\ Held \in Nat /\ Unspent \in Nat
      BY <1>1
    <3>2. QED
      BY <2>5, <2>6, <2>7, <3>1
  <2>9. QED
    BY <1>1, <1>5, <2>2, <2>3, <2>4, <2>6, <2>8
<1>7. ASSUME NEW t \in Trades, Account!ReserveTrade(t) PROVE AccountInv'
  <2> DEFINE n == trade[t].size
  <2>1. /\ trade[t].stage = "approved" /\ n \in Nat
        /\ trade' = [trade EXCEPT ![t] = [stage |-> "reserved", size |-> n]]
        /\ reserved' = reserved + n
        /\ UNCHANGED <<cached, forgiven, uncovered, disturbed>>
    BY <1>1, <1>7, StageChange DEF Account!ReserveTrade, TradeBook
  <2>2. /\ trade' \in TradeBook /\ OneApproved'
        /\ Held' = Held + n - 0 /\ Unspent' = Unspent + n - n
    BY <1>1, <2>1, TradeMoves DEF TradeStages
  <2> HIDE DEF n
  <2>3. reserved' = Held' /\ Unspent' = Unspent
    BY <1>1, <2>1, <2>2
  <2>4. ~disturbed => Covered'
    BY <1>1, <2>1, <2>3 DEF Covered
  <2>5. QED
    BY <1>5, <2>1, <2>2, <2>3, <2>4
<1>8. ASSUME NEW t \in Trades, NEW s \in Nat, NEW r \in Nat, Account!Pay(s, r), r <= Unspent,
             trade' \in TradeBook, OneApproved', Held' = Held, Unspent' = Unspent - r,
             UNCHANGED <<reserved, disturbed>>
      PROVE  AccountInv'
  <2>1. ~disturbed => Covered'
    <3> SUFFICES ASSUME ~disturbed PROVE Covered'
      OBVIOUS
    <3>1. /\ cached \in Nat /\ forgiven \in Nat /\ uncovered \in Nat /\ forgiven <= uncovered
          /\ Unspent \in Nat /\ Unspent <= cached + uncovered - forgiven
      BY <1>1
    <3>2. /\ cached' \in Nat /\ forgiven' \in Nat /\ uncovered' \in Nat
          /\ forgiven' <= uncovered'
          /\ Unspent - r <= cached' + uncovered' - forgiven'
      BY <1>8, <3>1, PayKeepsCover
    <3>3. QED
      BY <1>8, <3>2 DEF Covered
  <2>2. QED
    BY <1>1, <1>5, <1>8, <2>1
<1>9. ASSUME NEW t \in Trades, Account!SpendReserved(t) \/ Account!SpendUnreserved(t)
      PROVE  AccountInv'
  <2> DEFINE n == trade[t].size
  <2>1. n \in Nat
    BY <1>1 DEF TradeBook
  <2>2. CASE Account!SpendReserved(t)
    <3>1. /\ trade[t].stage = "reserved" /\ UNCHANGED <<reserved, disturbed>>
          /\ trade' = [trade EXCEPT ![t] = [stage |-> "spent", size |-> n]]
      BY <1>1, <2>2, StageChange DEF Account!SpendReserved
    <3>2. PICK s \in 0 .. n + Fee : Account!Pay(s, n)
      BY <2>2 DEF Account!SpendReserved
    <3>3. /\ trade' \in TradeBook /\ OneApproved'
          /\ Held' = Held + n - n /\ Unspent' = Unspent + 0 - n
      BY <1>1, <2>1, <3>1, TradeMoves DEF TradeStages
    <3>4. n <= Unspent
      <4>1. t \in In(trade, {"approved", "reserved"})
        BY <3>1 DEF In
      <4>2. QED
        BY <1>1, <4>1, InFacts DEF Unspent
    <3> HIDE DEF n
    <3>5. Held' = Held /\ Unspent' = Unspent - n /\ s \in Nat
      BY <1>1, <1>2, <2>1, <3>2, <3>3
    <3>6. QED
      BY <1>8, <2>1, <3>1, <3>2, <3>3, <3>4, <3>5
  <2>3. CASE Account!SpendUnreserved(t)
    <3>1. /\ trade[t].stage = "new" /\ UNCHANGED <<reserved, disturbed>>
          /\ trade' = [trade EXCEPT ![t] = [stage |-> "finished", size |-> n]]
      BY <1>1, <2>3, StageChange DEF Account!SpendUnreserved
    <3>2. PICK s \in Sizes : Account!Pay(s, 0)
      BY <2>3 DEF Account!SpendUnreserved
    <3>3. /\ trade' \in TradeBook /\ OneApproved'
          /\ Held' = Held + 0 - 0 /\ Unspent' = Unspent + 0 - 0
      BY <1>1, <2>1, <3>1, TradeMoves DEF TradeStages
    <3>4. /\ Held' = Held /\ Unspent' = Unspent - 0 /\ 0 <= Unspent
          /\ s \in Nat /\ 0 \in Nat
      BY <1>1, <1>2, <3>3
    <3>5. QED
      BY <1>8, <3>1, <3>2, <3>3, <3>4
  <2>4. QED
    BY <1>9, <2>2, <2>3
<1>10. ASSUME NEW t \in Trades, Account!FinishTrade(t) PROVE AccountInv'
  <2> DEFINE n == trade[t].size
  <2>1. /\ trade[t].stage = "spent" /\ n \in Nat
        /\ trade' = [trade EXCEPT ![t] = [stage |-> "finished", size |-> n]]
        /\ reserved' = Account!OrZero(reserved - n)
        /\ UNCHANGED <<cached, forgiven, uncovered, disturbed>>
    BY <1>1, <1>10, StageChange DEF Account!FinishTrade, Account!ReleaseReserve, TradeBook
  <2>2. /\ trade' \in TradeBook /\ OneApproved'
        /\ Held' = Held + 0 - n /\ Unspent' = Unspent + 0 - 0
    BY <1>1, <2>1, TradeMoves DEF TradeStages
  <2>3. n <= Held
    <3>1. t \in In(trade, {"reserved", "spent"})
      BY <2>1 DEF In
    <3>2. QED
      BY <1>1, <3>1, InFacts DEF Held
  <2> HIDE DEF n
  <2>4. reserved' = Held' /\ Unspent' = Unspent
    BY <1>1, <2>1, <2>2, <2>3 DEF Account!OrZero
  <2>5. ~disturbed => Covered'
    BY <1>1, <2>1, <2>4 DEF Covered
  <2>6. QED
    BY <1>5, <2>1, <2>2, <2>4, <2>5
<1>11. CASE Account!Earn
  <2>1. /\ trade' = trade /\ UNCHANGED <<reserved, forgiven, uncovered, disturbed>>
        /\ cached' = cached \/ cached' = cached + 1
    BY <1>11 DEF Account!Earn
  <2>2. Unspent' = Unspent
    BY <2>1 DEF Unspent
  <2>3. ~disturbed' => ~disturbed /\ Covered'
    BY <1>1, <2>1, <2>2 DEF Covered
  <2>4. QED
    BY <1>3, <2>1, <2>3
<1>12. CASE \/ \E r \in Account!Refreshers : Account!AskBalance(r) \/ Account!ServeBalance(r)
            \/ Account!RefreshFails \/ UNCHANGED accountVars
  BY <1>4, <1>12 DEF Account!AskBalance, Account!ServeBalance, Account!RefreshFails, accountVars
<1>13. CASE Account!SwitchMode \/ \E r \in Account!Refreshers : Account!ApplyBalance(r)
  <2>1. trade' = trade /\ reserved' = reserved /\ disturbed' = TRUE
    BY <1>13 DEF Account!SwitchMode, Account!ApplyBalance
  <2>2. QED
    BY <1>3, <2>1
<1>14. QED
  BY <1>6, <1>7, <1>9, <1>10, <1>11, <1>12, <1>13 DEF Account!AccountsNext

\* For any trades, amounts and fees: while the virtual balance is the account's only
\* one, its clamp at zero forgives no more than what was spent beyond a reservation.
\* The invariant it rests on is that approvals not yet spent stay covered, although an
\* approval counts no other that awaits its reservation: there is never another.
THEOREM PaperIsAlwaysPaidFor == BackgroundSpec => []PaperIsPaidFor
<1>1. BackgroundInit => AccountInv
  <2> SUFFICES ASSUME BackgroundInit PROVE AccountInv
    OBVIOUS
  <2>1. /\ trade = [t \in Trades |-> [stage |-> "new", size |-> 0]]
        /\ cached = Opening /\ reserved = 0 /\ forgiven = 0 /\ uncovered = 0
    BY DEF BackgroundInit, Account!AccountsInit
  <2>2. trade \in TradeBook
    BY <2>1 DEF TradeStages, TradeBook
  <2>3. /\ In(trade, {"approved"}) = {}
        /\ In(trade, {"reserved", "spent"}) = {}
        /\ In(trade, {"approved", "reserved"}) = {}
    BY <2>1 DEF In
  <2>4. Held = 0 /\ Unspent = 0 /\ Opening \in Nat
    BY <2>3, TotalOfNothing, BackgroundAssumption
       DEF Account!AccountsAssumption, Held, Unspent, Tally
  <2>5. OneApproved /\ reserved = Held /\ Covered
    BY <2>1, <2>3, <2>4 DEF OneApproved, Covered
  <2>6. QED
    BY <2>2, <2>5 DEF AccountInv
<1>2. AccountInv /\ [Writes \/ Books \/ Balances]_backgroundVars => AccountInv'
  <2>1. [Writes \/ Books \/ Balances]_backgroundVars => [Account!AccountsNext]_accountVars
    BY DEF Writes, Books, Balances, backgroundVars
  <2>2. QED
    BY <2>1, AccountStep
<1>3. AccountInv => PaperIsPaidFor
  BY DEF AccountInv, Covered, PaperIsPaidFor, Account!PaperIsPaidFor
<1>4. QED
  BY <1>1, <1>2, <1>3, PTL DEF BackgroundSpec


=============================================================================
