---------------------------- MODULE OrderBookFeed ----------------------------
(***************************************************************************)
(* marketdata/orderbook_manager.py for one (exchange, symbol): the tasks   *)
(* that keep its book fresh, over a websocket while that works and over    *)
(* REST while it does not, and the staleness the scanner, the risk engine  *)
(* and the coordinator go by.                                              *)
(*                                                                         *)
(* run() starts an unnamed task per pair; ensure_polling, which looks for  *)
(* a task by name, may add a second one for the same pair.  Time is kept   *)
(* as ages, which stop growing at Old.                                     *)
(***************************************************************************)
EXTENDS Integers, FiniteSets

CONSTANTS
    Pollers,      \* "run" and, where a strategy ensures the pair, "ensured"
    Socket,       \* supports_websocket() and marketdata_mode # "rest"
    MaxStale,     \* max_stale_ms
    WsTimeout,    \* the bound on watch_order_book
    RestTimeout,  \* the bound on fetch_order_book
    Interval,     \* poll_interval_ms
    MaxBackoff,   \* the 5 seconds
    MaxFailures,  \* websocket failures in a row before REST takes over: 3
    Cooldown,     \* REST polls before the websocket is tried again: 30
    None          \* no book, or no answer from the exchange yet

\* What the constants must satisfy; Background assumes it.
FeedAssumption ==
    /\ Pollers \subseteq {"run", "ensured"} /\ "run" \in Pollers
    /\ Socket \in BOOLEAN /\ None \notin Nat
    /\ \A n \in {MaxStale, WsTimeout, RestTimeout, Interval, MaxBackoff, MaxFailures, Cooldown} :
          n \in Nat \ {0}

VARIABLES
    running,  \* "no", "yes", "stopped"
    poller,   \* per task: its place in _poll_one and its local variables
    book      \* the entry of _books: how long ago it was received, and how long
              \* ago the exchange served what it holds

feedVars == <<running, poller, book>>

Idle == [at |-> "none", ws |-> FALSE, served |-> None, waited |-> 0, left |-> 0,
         cooldown |-> 0, failures |-> 0, backoff |-> Interval]

Fresh == [Idle EXCEPT !.at = "top"]

FeedInit ==
    /\ running = "no"
    /\ poller = [p \in Pollers |-> Idle]
    /\ book = None

Limit(ws) == IF ws THEN WsTimeout ELSE RestTimeout

Longest == IF WsTimeout > RestTimeout THEN WsTimeout ELSE RestTimeout

Old == MaxStale + Longest + 1

Older(age) == IF age = None \/ age = Old THEN age ELSE age + 1

\* is_stale: never received, or received too long ago.
Stale == book = None \/ book.received > MaxStale

-----------------------------------------------------------------------------
(* Starting and stopping the tasks. *)

Run ==
    /\ running = "no"
    /\ running' = "yes"
    /\ poller' = [poller EXCEPT !["run"] = Fresh]
    /\ UNCHANGED book

\* ensure_polling does nothing before run() and after stop(), nor when a task of
\* that name is there.
EnsurePolling ==
    /\ "ensured" \in Pollers
    /\ running = "yes"
    /\ poller["ensured"].at = "none"
    /\ poller' = [poller EXCEPT !["ensured"] = Fresh]
    /\ UNCHANGED <<running, book>>

Stop ==
    /\ running = "yes"
    /\ running' = "stopped"
    /\ poller' = [p \in Pollers |-> Idle]
    /\ UNCHANGED book

-----------------------------------------------------------------------------
(* One turn of _poll_one. *)

\* After a NotImplementedError the count is 10**9: it does not run out.
Never == Cooldown + 1

\* The websocket while it is supported and not cooling down, else REST.
Ask(p) ==
    /\ poller[p].at = "top"
    /\ poller' = [poller EXCEPT ![p].at = "waiting",
                                ![p].ws = Socket /\ poller[p].cooldown = 0,
                                ![p].served = None,
                                ![p].waited = 0]
    /\ UNCHANGED <<running, book>>

\* The exchange sends its book; it is on the way.
Serve(p) ==
    /\ poller[p].at = "waiting"
    /\ poller[p].served = None
    /\ poller' = [poller EXCEPT ![p].served = 0]
    /\ UNCHANGED <<running, book>>

Update(p) == book' = [received |-> 0, data |-> poller[p].served]

\* A push is followed by the next watch at once.
Pushed(p) ==
    /\ poller[p].ws
    /\ poller' = [poller EXCEPT ![p].at = "top", ![p].failures = 0, ![p].backoff = Interval]

\* A poll counts the cool-down of the websocket down, and sleeps.
Polled(p) ==
    /\ ~poller[p].ws
    /\ poller' = [poller EXCEPT
                    ![p].at = "asleep", ![p].left = Interval, ![p].backoff = Interval,
                    ![p].cooldown = IF @ \in {0, Never} THEN @ ELSE @ - 1]

Answer(p) ==
    /\ poller[p].at = "waiting"
    /\ poller[p].served # None
    /\ Update(p)
    /\ Pushed(p) \/ Polled(p)
    /\ UNCHANGED running

LeastOf(m, n) == IF m < n THEN m ELSE n

\* The sleep after an error, which doubles up to a bound.
BackOff(state) ==
    [state EXCEPT !.at = "asleep",
                  !.left = LeastOf(MaxBackoff, state.backoff),
                  !.backoff = LeastOf(MaxBackoff, 2 * state.backoff)]

\* Mutant: only failures in a row within one session of the socket count.
NeverFailed(state) == [state EXCEPT !.failures = 0]

\* A transient error of the websocket: after MaxFailures of them REST takes over.
Failed(state) ==
    CASE ~state.ws -> state
      [] state.ws /\ state.failures + 1 < MaxFailures -> [state EXCEPT !.failures = @ + 1]
      [] OTHER -> [state EXCEPT !.failures = 0, !.cooldown = Cooldown]

\* TransientError: a disconnect, a rate limit.
Transient(p) ==
    /\ poller[p].at = "waiting"
    /\ poller' = [poller EXCEPT ![p] = BackOff(Failed(@))]
    /\ UNCHANGED <<running, book>>

\* Mutant: nothing bounds the wait for the exchange.
NoBound(p) == FALSE

\* wait_for gives up: a TransientError as well.
TimedOut(p) == poller[p].at = "waiting" /\ poller[p].waited >= Limit(poller[p].ws)

TimeOut(p) == TimedOut(p) /\ Transient(p)

\* Any other exception: the websocket cools down at once.
OtherError(p) ==
    /\ poller[p].at = "waiting"
    /\ poller' = [poller EXCEPT ![p] =
                    BackOff(IF @.ws THEN [@ EXCEPT !.cooldown = Cooldown] ELSE @)]
    /\ UNCHANGED <<running, book>>

\* NotImplementedError: no websocket ever again, and no sleep.
NotImplemented(p) ==
    /\ poller[p].at = "waiting" /\ poller[p].ws
    /\ poller' = [poller EXCEPT ![p].at = "top", ![p].cooldown = Never]
    /\ UNCHANGED <<running, book>>

Wake(p) ==
    /\ poller[p].at = "asleep"
    /\ poller[p].left = 0
    /\ poller' = [poller EXCEPT ![p].at = "top"]
    /\ UNCHANGED <<running, book>>

\* No request outlives its bound.
TickFeed ==
    /\ \A p \in Pollers : ~TimedOut(p)
    /\ poller' = [p \in Pollers |->
                    CASE poller[p].at = "waiting" ->
                            [poller[p] EXCEPT !.waited = Older(@), !.served = Older(@)]
                      [] poller[p].at = "asleep" /\ poller[p].left > 0 ->
                            [poller[p] EXCEPT !.left = @ - 1]
                      [] OTHER -> poller[p]]
    /\ book' = IF book = None THEN None
               ELSE [received |-> Older(book.received), data |-> Older(book.data)]
    /\ UNCHANGED running

FeedNext ==
    \/ Run \/ EnsurePolling \/ Stop \/ TickFeed
    \/ \E p \in Pollers :
        \/ Ask(p) \/ Serve(p) \/ Answer(p) \/ Wake(p)
        \/ Transient(p) \/ TimeOut(p) \/ OtherError(p) \/ NotImplemented(p)

ServeRest(p) == Serve(p) /\ ~poller[p].ws
AnswerRest(p) == Answer(p) /\ ~poller[p].ws

\* The event loop runs the pair's own task when it is ready, a bound on a request
\* expires, and time passes.  Of the exchange: whatever its websocket does, it does
\* not leave every REST request unanswered.  Nothing is asked of a second task.
FeedFairness ==
    /\ WF_feedVars(TickFeed)
    /\ \A p \in Pollers : WF_feedVars(TimeOut(p))
    /\ WF_feedVars(Ask("run") \/ Wake("run"))
    /\ SF_feedVars(ServeRest("run")) /\ SF_feedVars(AnswerRest("run"))

FeedSpec == FeedInit /\ [][FeedNext]_feedVars /\ FeedFairness

-----------------------------------------------------------------------------
(* Properties. *)

\* A book that is not stale was served by the exchange recently: max_stale_ms and
\* the longest bound on a request ago at most, however the two tasks of a pair and
\* the two sources take turns in writing it.
FreshMeansRecent == Stale \/ book.data <= MaxStale + Longest

\* While the polling runs a stale book is replaced in the end: a websocket that
\* hangs, fails, raises or is not implemented, in any alternation, cannot keep the
\* pair from being polled over REST.
StaleBookRecovers == Stale /\ running = "yes" ~> ~Stale \/ running = "stopped"

=============================================================================
