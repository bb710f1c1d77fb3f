------------------------------ MODULE Strategies ------------------------------
(***************************************************************************)
(* Who starts the cycles of the three strategy executors.                  *)
(*                                                                         *)
(* Triangular and funding cycles are awaited by a scanner's run() loop     *)
(* (strategy/triangular_scanner.py, strategy/funding_rate_scanner.py) that *)
(* a supervisor of runtime/app_bootstrap.py starts and stops by the        *)
(* strategy's flag.  A maker-taker cycle is awaited by a hedge task (see   *)
(* Dispatch) that found execution_mode to be "maker_taker".                *)
(*                                                                         *)
(* The strategies share no state, so a behaviour is about one of them,     *)
(* chosen at the start.                                                    *)
(***************************************************************************)
EXTENDS TriangularExecutor

VARIABLES
    strategy,  \* the strategy this behaviour is about
    enabled,   \* its flag, or execution_mode = "maker_taker"
    task,      \* the scanner's task: where it is in run()
    scanning   \* the scanner's _running

loopVars == <<strategy, enabled, task, scanning>>

VARIABLES fundPhase, answer, reversal, position, open, lateFilled
fundVars == <<fundPhase, answer, reversal, position, open, lateFilled>>
Fund == INSTANCE FundingExecutor

VARIABLES mtPhase, inferred, selling, sold, report, pending, lateSold, simulated
makerVars == <<mtPhase, inferred, selling, sold, report, pending, lateSold, simulated>>
Maker == INSTANCE MakerTakerExecutor

vars == <<loopVars, triVars, fundVars, makerVars>>

Scanned == {"triangular", "funding"}

\* The task's states: not created, finished, created and not yet run, inside
\* _scan_once, awaiting a cycle, and asleep between two scans.
TaskStates == {"none", "done", "created", "scan", "cycle", "asleep"}

Init ==
    /\ strategy \in Scanned \union {"maker_taker"}
    /\ enabled \in BOOLEAN
    /\ task = "none"
    /\ scanning = FALSE
    /\ TriInit /\ Fund!Init /\ Maker!Init

-----------------------------------------------------------------------------
(* The flag, the supervisor and the scanner's loop. *)

Toggle ==
    /\ enabled' = ~enabled
    /\ UNCHANGED <<strategy, task, scanning>>

NoTask == task \in {"none", "done"}

\* One poll of the supervisor.
Supervise ==
    /\ strategy \in Scanned
    /\ \/ /\ enabled /\ NoTask
          /\ scanning' = TRUE
          /\ task' = "created"
       \/ /\ ~enabled /\ ~NoTask
          /\ scanning' = FALSE
          /\ UNCHANGED task
    /\ UNCHANGED <<strategy, enabled>>

\* Mutant: the loop runs for ever.
AlwaysOn(isRunning) == TRUE

\* run() looks at _running and at the flag before every scan.
GoesOn(isRunning) == isRunning /\ enabled

\* run() starts, and sets _running itself, or wakes up.
LoopTop ==
    /\ task \in {"created", "asleep"}
    /\ LET on == GoesOn(task = "created" \/ scanning) IN
        /\ task' = IF on THEN "scan" ELSE "done"
        /\ scanning' = on
    /\ UNCHANGED <<strategy, enabled>>

\* _scan_once returns.
ScanEnds ==
    /\ task = "scan"
    /\ task' = "asleep"
    /\ UNCHANGED <<strategy, enabled, scanning>>

Loop == Supervise \/ LoopTop \/ ScanEnds

-----------------------------------------------------------------------------
(* The cycles. *)

\* The scan found an opportunity; the flag is read again before it is executed.
Found ==
    /\ task = "scan" /\ enabled
    /\ task' = "cycle"
    /\ UNCHANGED <<strategy, enabled, scanning>>

\* The executor returns, or its exception is logged, and the scan goes on.
CycleReturns ==
    /\ task = "cycle"
    /\ task' = "scan"
    /\ UNCHANGED <<strategy, enabled, scanning>>

TriangularStep ==
    /\ strategy = "triangular"
    /\ \/ Found /\ TriBegin
       \/ CycleReturns /\ TriForget
       \/ (TriStep \/ LateFill) /\ UNCHANGED loopVars
    /\ UNCHANGED <<fundVars, makerVars>>

FundingStep ==
    /\ strategy = "funding"
    /\ \/ Found /\ Fund!Begin
       \/ CycleReturns /\ Fund!Forget
       \/ /\ Fund!Step \/ Fund!Late
          /\ UNCHANGED loopVars
    /\ UNCHANGED <<triVars, makerVars>>

MakerStep ==
    /\ strategy = "maker_taker"
    /\ \/ enabled /\ Maker!Begin
       \/ Maker!Step \/ Maker!LateSale \/ Maker!Forget
    /\ UNCHANGED <<loopVars, triVars, fundVars>>

Next ==
    \/ (Toggle \/ Loop) /\ UNCHANGED <<triVars, fundVars, makerVars>>
    \/ TriangularStep \/ FundingStep \/ MakerStep

Spec == Init /\ [][Next]_vars

\* The supervisor polls, the loop's sleeps end, and the adapters' timeouts bound
\* every order.  Operators, opportunities and late fills owe nothing.
Fairness ==
    /\ WF_vars(Loop /\ UNCHANGED <<triVars, fundVars, makerVars>>)
    /\ WF_vars(/\ strategy = "triangular"
               /\ \/ CycleReturns /\ TriForget
                  \/ TriStep /\ UNCHANGED loopVars
               /\ UNCHANGED <<fundVars, makerVars>>)
    /\ WF_vars(/\ strategy = "funding"
               /\ \/ CycleReturns /\ Fund!Forget
                  \/ Fund!Step /\ UNCHANGED loopVars
               /\ UNCHANGED <<triVars, makerVars>>)
    /\ WF_vars(/\ strategy = "maker_taker" /\ Maker!Step
               /\ UNCHANGED <<loopVars, triVars, fundVars>>)

FairSpec == Spec /\ Fairness

-----------------------------------------------------------------------------
(* Properties. *)

TypeOK ==
    /\ strategy \in Scanned \union {"maker_taker"}
    /\ enabled \in BOOLEAN /\ scanning \in BOOLEAN
    /\ task \in TaskStates
    /\ TriTypeOK /\ Fund!FundingTypeOK /\ Maker!MakerTakerTypeOK

\* A flag that stays off ends the scanner's task.
FlagOffStops == <>[]~enabled => <>[]NoTask

\* The properties of the two instances, stated in their modules.
ReversalOnlyCloses         == Fund!ReversalOnlyCloses
HalfFillIsReversed         == Fund!HalfFillIsReversed
OversoldOnlyByALateHedge   == Maker!OversoldOnlyByALateHedge
ReportIsTrue               == Maker!ReportIsTrue

\* A cycle that was started ends, whatever its orders do and whatever the flag
\* becomes meanwhile.
CyclesEnd == CycleEnds /\ Fund!FundingEnds /\ Maker!MakerTakerEnds
=============================================================================
