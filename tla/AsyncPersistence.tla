-------------------------- MODULE AsyncPersistence --------------------------
(***************************************************************************)
(* runtime/persistence.py with its one caller, the scanner loop: a         *)
(* semaphore of MaxInflight slots, a task per write, and the drain that    *)
(* teardown (runtime/app_bootstrap.py) awaits after it cancelled the loop. *)
(*                                                                         *)
(* asyncio.Semaphore hands the slot of a finished write to the waiter, if  *)
(* there is one, at once; the waiter resumes later.  A task's done         *)
(* callback runs after the task has ended, as a step of its own.           *)
(***************************************************************************)
EXTENDS Integers, FiniteSets

CONSTANTS
    Jobs,         \* the rows the scanner loop submits
    MaxInflight,
    None

ASSUME PersistenceAssumption ==
    /\ IsFiniteSet(Jobs)
    /\ MaxInflight \in Nat \ {0}
    /\ None \notin Jobs

VARIABLES
    status,    \* what became of each write
    slots,     \* the semaphore's counter
    waiting,   \* the write whose submit() awaits the semaphore, or None
    tasks,     \* _tasks, whose size in_flight and the gauge report
    highWater, \* _high_water
    loop,      \* the scanner loop: "running" or "cancelled"
    drain,     \* "before", "waiting", "cancelling", "drained" or "timedout"
    snapshot   \* the tasks drain() gathers

vars == <<status, slots, waiting, tasks, highWater, loop, drain, snapshot>>

\* "granted": the slot is given but submit() has not resumed.  "lost": submit()
\* was cancelled before it could start the task.
Statuses == {"new", "waiting", "granted", "running", "written", "failed", "cancelled", "lost"}
Over     == {"written", "failed", "cancelled"}

Of(S) == {j \in Jobs : status[j] \in S}

Init ==
    /\ status = [j \in Jobs |-> "new"]
    /\ slots = MaxInflight
    /\ waiting = None
    /\ tasks = {}
    /\ highWater = 0
    /\ loop = "running"
    /\ drain = "before"
    /\ snapshot = {}

\* submit() once it has its slot.
Launch(j) ==
    /\ status' = [status EXCEPT ![j] = "running"]
    /\ tasks' = tasks \union {j}
    /\ highWater' = IF Cardinality(tasks \union {j}) > highWater
                    THEN Cardinality(tasks \union {j}) ELSE highWater

\* Mutant: submit() checks the counter without taking the slot.
SlotUnchecked == slots >= 0

SlotFree == slots > 0

Submit(j) ==
    /\ loop = "running" /\ waiting = None
    /\ status[j] = "new"
    /\ \/ /\ SlotFree
          /\ slots' = slots - 1
          /\ Launch(j)
          /\ UNCHANGED waiting
       \/ /\ ~SlotFree
          /\ status' = [status EXCEPT ![j] = "waiting"]
          /\ waiting' = j
          /\ UNCHANGED <<slots, tasks, highWater>>
    /\ UNCHANGED <<loop, drain, snapshot>>

SubmitResumes(j) ==
    /\ status[j] = "granted"
    /\ Launch(j)
    /\ waiting' = None
    /\ UNCHANGED <<slots, loop, drain, snapshot>>

\* Mutant: a write that fails keeps its slot (no finally).
ReleaseIfWritten(j, how) ==
    IF how = "written" /\ waiting # None /\ status[waiting] = "waiting"
    THEN /\ status' = [status EXCEPT ![j] = how, ![waiting] = "granted"]
         /\ UNCHANGED slots
    ELSE /\ status' = [status EXCEPT ![j] = how]
         /\ slots' = IF how = "written" THEN slots + 1 ELSE slots

\* The finally of _run: the slot goes to the waiter or back to the counter.
Release(j, how) ==
    IF waiting # None /\ status[waiting] = "waiting"
    THEN /\ status' = [status EXCEPT ![j] = how, ![waiting] = "granted"]
         /\ UNCHANGED slots
    ELSE /\ status' = [status EXCEPT ![j] = how]
         /\ slots' = slots + 1

WriteEnds(j) ==
    /\ status[j] = "running"
    /\ \E how \in {"written", "failed"} : Release(j, how)
    /\ UNCHANGED <<waiting, tasks, highWater, loop, drain, snapshot>>

\* _on_done.
DoneCallback(j) ==
    /\ status[j] \in Over
    /\ j \in tasks
    /\ tasks' = tasks \ {j}
    /\ UNCHANGED <<status, slots, waiting, highWater, loop, drain, snapshot>>

SlotsAfterCancel ==
    IF waiting # None /\ status[waiting] = "granted" THEN slots + 1 ELSE slots

\* teardown cancels the loop, wherever it is.  A submit() that waits leaves the
\* queue, one that was given a slot puts it back; either way its row is lost.
CancelLoop ==
    /\ loop = "running"
    /\ loop' = "cancelled"
    /\ status' = [j \in Jobs |-> IF j = waiting THEN "lost" ELSE status[j]]
    /\ slots' = SlotsAfterCancel
    /\ waiting' = None
    /\ UNCHANGED <<tasks, highWater, drain, snapshot>>

StartDrain ==
    /\ loop = "cancelled" /\ drain = "before"
    /\ snapshot' = tasks
    /\ drain' = IF tasks = {} THEN "drained" ELSE "waiting"
    /\ UNCHANGED <<status, slots, waiting, tasks, highWater, loop>>

\* Mutants: the drain ends with the first task; it waits for writes that succeed.
SomeGathered    == snapshot \ tasks # {}
AllEndedUncut   == snapshot \cap tasks = {} /\ \A j \in snapshot : status[j] # "cancelled"

\* gather's own callback comes after the callbacks of the tasks it gathers.
AllGathered == snapshot \cap tasks = {}

DrainEnds ==
    /\ drain \in {"waiting", "cancelling"}
    /\ AllGathered
    /\ drain' = IF drain = "waiting" THEN "drained" ELSE "timedout"
    /\ UNCHANGED <<status, slots, waiting, tasks, highWater, loop, snapshot>>

\* wait_for gives up and cancels the gathered tasks.
DrainTimesOut ==
    /\ drain = "waiting"
    /\ drain' = "cancelling"
    /\ UNCHANGED <<status, slots, waiting, tasks, highWater, loop, snapshot>>

WriteCancelled(j) ==
    /\ drain = "cancelling"
    /\ j \in snapshot /\ status[j] = "running"
    /\ Release(j, "cancelled")
    /\ UNCHANGED <<waiting, tasks, highWater, loop, drain, snapshot>>

Next ==
    \/ \E j \in Jobs :
        \/ Submit(j) \/ SubmitResumes(j)
        \/ WriteEnds(j) \/ WriteCancelled(j) \/ DoneCallback(j)
    \/ CancelLoop \/ StartDrain \/ DrainEnds \/ DrainTimesOut

Spec == Init /\ [][Next]_vars

\* The event loop runs what is ready, wait_for's timer fires, and a cancelled task
\* ends.  A write may be stuck, and nobody owes a submit or a shutdown.
Fairness ==
    /\ \A j \in Jobs : WF_vars(SubmitResumes(j)) /\ WF_vars(WriteCancelled(j)) /\ WF_vars(DoneCallback(j))
    /\ WF_vars(StartDrain) /\ WF_vars(DrainTimesOut) /\ WF_vars(DrainEnds)

FairSpec == Spec /\ Fairness

-----------------------------------------------------------------------------
TypeOK ==
    /\ status \in [Jobs -> Statuses]
    /\ slots \in 0 .. MaxInflight
    /\ waiting \in Jobs \union {None}
    /\ tasks \in SUBSET Jobs
    /\ highWater \in Nat
    /\ loop \in {"running", "cancelled"}
    /\ drain \in {"before", "waiting", "cancelling", "drained", "timedout"}
    /\ snapshot \in SUBSET Jobs

\* No slot is ever lost or made: the writes that hold one, running or about to
\* start, and the free ones add up to max_inflight, through failures, the
\* cancelled loop and the cancelled drain.  One lost slot per failure would in
\* the end block the scanner loop for ever.
SlotsAreConserved == slots + Cardinality(Of({"running", "granted"})) = MaxInflight

\* A drain that did not time out leaves no write unfinished behind it, so the
\* database may be closed.
DrainLeavesNothing == drain = "drained" => tasks = {} /\ Of({"running"}) = {}

\* Shutdown ends even when the database is stuck: the drain is over, by itself or
\* by its timeout.
ShutdownEnds == loop = "cancelled" ~> drain \in {"drained", "timedout"}

\* If writes go on ending, every row submit() was called with is taken up and ends, unless
\* the loop was cancelled out of that submit().
SubmittedIsWritten ==
    WF_vars(\E j \in Jobs : WriteEnds(j)) =>
        \A j \in Jobs : status[j] \in {"waiting", "granted", "running"} ~>
                            status[j] \in Over \union {"lost"} /\ j \notin tasks

\* The bounded pool the module's docstring describes.
Pool == INSTANCE BoundedPool WITH
            Capacity <- MaxInflight,
            active   <- Of({"running", "granted"}),
            ended    <- Of(Over)

ImplementsPool == Pool!Spec

=============================================================================
