------------------------------ MODULE RateLimit ------------------------------
(***************************************************************************)
(* api/rate_limit.py: the dependency in front of every route that changes  *)
(* state.  A bucket per client holds the times of the requests it let      *)
(* through; nothing is awaited between reading the time and appending it,  *)
(* so the bucket's lock is always free and a request is one step.          *)
(***************************************************************************)
EXTENDS Integers, Sequences, FiniteSetsExt

CONSTANTS
    Clients,
    RequestLimits,  \* the max_per_minute a request may come with: 60, or its own
    MaxClients,     \* _MAX_CLIENTS
    Minute,         \* window_s
    MaxSeconds      \* bound on the clock

\* What the constants must satisfy; Guards assumes it.
RateAssumption ==
    /\ RequestLimits \subseteq Int
    /\ MaxClients \in Nat /\ Minute \in Nat /\ MaxSeconds \in Nat

VARIABLES
    second,   \* time.time()
    limited,  \* admin_rate_limit_enabled
    buckets,  \* _buckets: the clients in the table and their events
    passed    \* history: per client, when and under which limit requests were let
              \* through since the table was last emptied or the limiter was last off

rateVars == <<second, limited, buckets, passed>>

RateInit ==
    /\ second = 0
    /\ limited = TRUE
    /\ buckets = [c \in {} |-> <<>>]
    /\ passed = [c \in Clients |-> <<>>]

\* The events from the first one that meets the condition on.
From(events, First(_)) ==
    SubSeq(events, Min({k \in 1 .. Len(events) + 1 : k <= Len(events) => First(events[k])}), Len(events))

\* Mutant: an event exactly window_s old no longer counts.
RecentOpen(events) == From(events, LAMBDA e : second - e < Minute)

\* popleft while the oldest event is out of the window.
Recent(events) == From(events, LAMBDA e : second - e <= Minute)

\* A table over its cap is emptied first, whoever asks.
Overfull == Cardinality(DOMAIN buckets) > MaxClients

Events(c) == IF ~Overfull /\ c \in DOMAIN buckets THEN buckets[c] ELSE <<>>

Before(c) == IF Overfull THEN <<>> ELSE passed[c]

\* max_per_minute is a parameter of the dependency, so of every route's query.
Ask(c, max_per_minute) ==
    LET recent == Recent(Events(c))
        admitted == Len(recent) < max_per_minute
        kept == IF admitted THEN Append(recent, second) ELSE recent
        others == IF Overfull THEN {} ELSE DOMAIN buckets
    IN  /\ limited
        /\ buckets' = [d \in others \union {c} |-> IF d = c THEN kept ELSE buckets[d]]
        /\ passed' = [d \in Clients |->
                        IF d = c /\ admitted
                        THEN Append(Before(c), [at |-> second, limit |-> max_per_minute])
                        ELSE Before(d)]
        /\ UNCHANGED <<second, limited>>

\* With the limiter off nothing is counted; the buckets stay.
Switch ==
    /\ limited' = ~limited
    /\ passed' = [c \in Clients |-> <<>>]
    /\ UNCHANGED <<second, buckets>>

Tick ==
    /\ second < MaxSeconds
    /\ second' = second + 1
    /\ UNCHANGED <<limited, buckets, passed>>

RateNext == (\E c \in Clients, m \in RequestLimits : Ask(c, m)) \/ Switch \/ Tick

RateSpec == RateInit /\ [][RateNext]_rateVars

-----------------------------------------------------------------------------

\* What was let through in the window that ends with request j, j included.
Within(c, j) ==
    {i \in DOMAIN passed[c] : i <= j /\ passed[c][j].at - passed[c][i].at <= Minute}

\* A request that was let through found fewer than its own max_per_minute let through
\* before it in its window of window_s seconds, both ends included: what others were
\* let through under does not matter, nor what popleft and refusals did meanwhile.
\* Emptying the table and switching the limiter off start the count again.
AtMostMaxPerMinute ==
    \A c \in Clients : \A j \in DOMAIN passed[c] :
        Cardinality(Within(c, j)) <= passed[c][j].limit

=============================================================================
