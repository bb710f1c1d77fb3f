--------------------------- MODULE CircuitBreaker ---------------------------
(***************************************************************************)
(* risk/circuit_breaker.py: order outcomes and trade results in, a latch   *)
(* that stops trading out.  The two histories outcomes and results are     *)
(* auxiliary: what the breaker was told since the last reset, which its    *)
(* counters summarise.                                                     *)
(***************************************************************************)
EXTENDS Integers, Sequences, FiniteSetsExt

CONSTANTS
    MaxFailures,   \* max_consecutive_failures
    Window,        \* window_sec
    MinSamples,    \* window_min_samples
    Ratio,         \* window_failure_ratio, in percent
    Thresholds,    \* values an operator gives max_consecutive_losing_trades
    MaxTime,       \* bound on the clock
    MaxTold        \* bound on what is recorded between two resets

\* What the constants must satisfy; Guards assumes it.
BreakerAssumption ==
    /\ MaxFailures \in Nat \ {0}
    /\ Window \in Nat
    /\ MinSamples \in Nat \ {0}
    /\ Ratio \in 0 .. 100
    /\ Thresholds \subseteq Nat \ {0} /\ Thresholds # {}
    /\ MaxTime \in Nat /\ MaxTold \in Nat

VARIABLES
    now,        \* time.time(), in seconds
    samples,    \* _samples, the deque of recent outcomes
    failures,   \* _consecutive_failures
    losses,     \* _consecutive_losses
    tripped,    \* _tripped
    threshold,  \* what the getter reads from the settings
    outcomes,   \* every outcome since the reset, with its time
    results     \* every trade result since the reset, with the threshold then

breakerVars == <<now, samples, failures, losses, tripped, threshold, outcomes, results>>

\* Only the sign of a PnL matters; None is what a hedge without fills reports.
Pnls == {"none", "loss", "zero", "gain"}

BreakerInit ==
    /\ now = 0
    /\ samples = <<>>
    /\ failures = 0
    /\ losses = 0
    /\ tripped = FALSE
    /\ threshold \in Thresholds
    /\ outcomes = <<>>
    /\ results = <<>>

Failed(seq) == Cardinality({i \in DOMAIN seq : ~seq[i].ok})

\* Mutant: the deque forgets nothing.
FreshAll(seq) == seq

\* popleft while the oldest sample is out of the window.
Fresh(seq) ==
    LET oldest == Min({k \in 1 .. Len(seq) + 1 : k <= Len(seq) => now - seq[k].ts <= Window})
    IN  SubSeq(seq, oldest, Len(seq))

Streak(ok) == IF ok THEN 0 ELSE failures + 1

\* A run of failures trips at once; otherwise the ratio in the window may.
Trips(n, window) ==
    \/ n >= MaxFailures
    \/ Len(window) >= MinSamples /\ 100 * Failed(window) >= Ratio * Len(window)

Record(ok) ==
    LET sample == [ts |-> now, ok |-> ok]
        window == Fresh(Append(samples, sample))
    IN  /\ Len(outcomes) + Len(results) < MaxTold
        /\ samples' = window
        /\ failures' = Streak(ok)
        /\ tripped' = (tripped \/ Trips(Streak(ok), window))
        /\ outcomes' = Append(outcomes, sample)
        /\ UNCHANGED <<now, losses, threshold, results>>

\* None is ignored, anything that is not a loss ends the streak.
LossStreak(pnl) ==
    CASE pnl = "loss" -> losses + 1 [] pnl = "none" -> losses [] OTHER -> 0

RecordPnl(pnl) ==
    /\ Len(outcomes) + Len(results) < MaxTold
    /\ results' = Append(results, [pnl |-> pnl, threshold |-> threshold])
    /\ losses' = LossStreak(pnl)
    /\ tripped' = (tripped \/ (pnl = "loss" /\ LossStreak(pnl) >= threshold))
    /\ UNCHANGED <<now, samples, failures, threshold, outcomes>>

\* POST /control/circuit-breaker/reset.
Reset ==
    /\ samples' = <<>>
    /\ failures' = 0
    /\ losses' = 0
    /\ tripped' = FALSE
    /\ outcomes' = <<>>
    /\ results' = <<>>
    /\ UNCHANGED <<now, threshold>>

\* The operator edits max_consecutive_losing_trades; the next record_pnl reads it.
EditThreshold ==
    /\ threshold' \in Thresholds \ {threshold}
    /\ UNCHANGED <<now, samples, failures, losses, tripped, outcomes, results>>

Tick ==
    /\ now < MaxTime
    /\ now' = now + 1
    /\ UNCHANGED <<samples, failures, losses, tripped, threshold, outcomes, results>>

BreakerNext ==
    \/ \E ok \in BOOLEAN : Record(ok)
    \/ \E pnl \in Pnls : RecordPnl(pnl)
    \/ Reset \/ EditThreshold \/ Tick

BreakerSpec == BreakerInit /\ [][BreakerNext]_breakerVars

-----------------------------------------------------------------------------
(* What the counters and the latch promise, said of the histories. *)

Failure(i) == ~outcomes[i].ok

WindowAt(k) == {i \in 1 .. k : outcomes[k].ts - outcomes[i].ts <= Window}

TooManyFailures ==
    \E k \in DOMAIN outcomes :
        \/ k >= MaxFailures /\ \A i \in k - MaxFailures + 1 .. k : Failure(i)
        \/ LET w == WindowAt(k) IN
            /\ Cardinality(w) >= MinSamples
            /\ 100 * Cardinality({i \in w : Failure(i)}) >= Ratio * Cardinality(w)

\* The losses since the last result up to k that was neither a loss nor None, which
\* neither extends nor breaks a streak.
LossRun(k) ==
    {i \in 1 .. k : results[i].pnl = "loss" /\ \A j \in i .. k : results[j].pnl \in {"loss", "none"}}

TooManyLosses ==
    \E k \in DOMAIN results :
        results[k].pnl = "loss" /\ Cardinality(LossRun(k)) >= results[k].threshold

\* The latch is set exactly when, at some moment since the last reset, the last
\* max_consecutive_failures outcomes failed, or the failure ratio of the window
\* was reached, or the losing streak met the threshold in force then: neither a
\* later success, the passing of the window nor an edited threshold clears it.
TrippedExactlyWhenDue == tripped <=> TooManyFailures \/ TooManyLosses

=============================================================================
