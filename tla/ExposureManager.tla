-------------------------- MODULE ExposureManager --------------------------
(***************************************************************************)
(* The in-flight exposure ledger (risk/exposure_manager.py): a notional    *)
(* per exchange and the set of hedge ids that count as open.  Its two      *)
(* mutators are given as operators on the ledger's value, so that a        *)
(* handler that calls them several times in a row stays one step.          *)
(***************************************************************************)
EXTENDS Integers

\* in_flight[ex] += notional
AddNotional(ledger, ex, notional) ==
    [ledger EXCEPT ![ex] = @ + notional]

\* in_flight[ex] = max(0, in_flight[ex] - notional)
ReleaseNotional(ledger, ex, notional) ==
    [ledger EXCEPT ![ex] = IF @ > notional THEN @ - notional ELSE 0]

\* add() and release() also register and drop the id; the ids are a set, so
\* the first release of a two-exchange hedge already drops it.
AddOpen(open, id)     == open \union {id}
ReleaseOpen(open, id) == open \ {id}

=============================================================================
