------------------------------ MODULE Background ------------------------------
(***************************************************************************)
(* The tasks runtime/app_bootstrap.py keeps running beside the scanner:    *)
(* the writes of AsyncPersistence, the polling of the order books and the  *)
(* refreshing of the balances.  They share no state, so a behaviour is     *)
(* about one of the three, chosen at the start.                            *)
(***************************************************************************)
EXTENDS AsyncPersistence

VARIABLES part

CONSTANTS Pollers, Socket, MaxStale, WsTimeout, RestTimeout, Interval, MaxBackoff,
          MaxFailures, Cooldown
VARIABLES running, poller, book
feedVars == <<running, poller, book>>
Feed == INSTANCE OrderBookFeed

CONSTANTS Trades, Sizes, Fee, Opening, MaxHeld, MaxSwitches
VARIABLES tradingMode, switches, truth, cached, reserved, trade, refresh,
          forgiven, uncovered, disturbed
accountVars == <<tradingMode, switches, truth, cached, reserved, trade, refresh,
                 forgiven, uncovered, disturbed>>
Account == INSTANCE Accounts

ASSUME BackgroundAssumption == Feed!FeedAssumption /\ Account!AccountsAssumption

backgroundVars == <<part, vars, feedVars, accountVars>>

BackgroundInit ==
    /\ part \in {"writes", "books", "balances"}
    /\ Init /\ Feed!FeedInit /\ Account!AccountsInit
    \* A part the behaviour is not about rests where it owes nothing.
    /\ part # "balances" => tradingMode = "paper-trade"

Writes == part = "writes" /\ Next /\ UNCHANGED <<part, feedVars, accountVars>>

Books == part = "books" /\ Feed!FeedNext /\ UNCHANGED <<part, vars, accountVars>>

Balances == part = "balances" /\ Account!AccountsNext /\ UNCHANGED <<part, vars, feedVars>>

BackgroundSpec ==
    /\ BackgroundInit
    /\ [][Writes \/ Books \/ Balances]_backgroundVars
    /\ Fairness /\ Feed!FeedFairness /\ Account!AccountsFairness

-----------------------------------------------------------------------------

\* See OrderBookFeed: a book that is not stale was served recently.
FreshMeansRecent == Feed!FreshMeansRecent

\* See OrderBookFeed: a stale book is replaced in the end.
StaleBookRecovers == Feed!StaleBookRecovers

\* See Accounts: a paper trade within its reservation is paid in full.
PaperIsPaidFor == Account!PaperIsPaidFor

\* See Accounts: the live belief ends up at the exchange's balance.
BeliefFollowsExchange == Account!BeliefFollowsExchange

=============================================================================
