------------------------------- MODULE Accounts -------------------------------
(***************************************************************************)
(* accounts/balance_manager.py for one asset on one exchange: what the     *)
(* program believes it holds, what it has reserved of it, and what the     *)
(* exchange says.  In paper-trade mode the fills of the paper engine move  *)
(* the belief itself; in live mode they move the exchange's balance, and   *)
(* the belief follows by refreshes, which the balance loop and the         *)
(* operator's reconcile route run independently of each other.             *)
(***************************************************************************)
EXTENDS Integers, FiniteSets

CONSTANTS
    Trades,      \* what may spend: hedges, and cycles that reserve nothing
    Sizes,       \* amounts a trade may be approved for
    Fee,         \* what a fill may cost beyond the amount reserved for it
    Opening,     \* the balance at the start
    MaxHeld,     \* bound on the balances
    MaxSwitches  \* bound on the operator's changes of mode

\* What the constants must satisfy; Background assumes it.
AccountsAssumption ==
    /\ IsFiniteSet(Trades)
    /\ Sizes \subseteq Nat \ {0}
    /\ Fee \in Nat /\ Opening \in Nat /\ MaxHeld \in Nat /\ MaxSwitches \in Nat

Refreshers == {"loop", "reconcile"}

VARIABLES
    tradingMode,  \* settings.mode, "paper-trade" or "live"
    switches,     \* how often it was changed
    truth,        \* the exchange's balance
    cached,       \* _balances: free
    reserved,     \* _reserved
    trade,        \* per trade: its stage and what was approved
    refresh,      \* per refresher: no request, or its request and the answer on the way
    forgiven,     \* what adjust_virtual's clamp at zero let trades spend for nothing
    uncovered,    \* what was spent without having been reserved
    disturbed     \* the virtual balance was not the account's only one

accountVars == <<tradingMode, switches, truth, cached, reserved, trade, refresh,
                 forgiven, uncovered, disturbed>>

NoRequest == [asked |-> FALSE, seen |-> -1]

AccountsInit ==
    /\ tradingMode \in {"paper-trade", "live"}
    /\ switches = 0
    /\ truth = Opening /\ cached = Opening /\ reserved = 0
    /\ trade = [t \in Trades |-> [stage |-> "new", size |-> 0]]
    /\ refresh = [r \in Refreshers |-> NoRequest]
    /\ forgiven = 0 /\ uncovered = 0 /\ disturbed = FALSE

OrZero(n) == IF n > 0 THEN n ELSE 0

-----------------------------------------------------------------------------
(* The trades. *)

\* Mutant: what others have reserved counts as free.
FreeOfAll == cached

FreeNow == OrZero(cached - reserved)

\* RiskEngine.evaluate: no trade is approved for more than is free.  (A live one is
\* not approved either when the exchange's stamp is too old, which restricts it further
\* and says nothing of the amount.)  The loop decides one opportunity at a time.
ApproveTrade(t) ==
    /\ trade[t].stage = "new"
    /\ \A u \in Trades : trade[u].stage # "approved"
    /\ \E a \in Sizes :
        /\ a <= FreeNow
        /\ trade' = [trade EXCEPT ![t] = [stage |-> "approved", size |-> a]]
    /\ UNCHANGED <<tradingMode, switches, truth, cached, reserved, refresh,
                   forgiven, uncovered, disturbed>>

\* After the await on a persistence slot.
ReserveTrade(t) ==
    /\ trade[t].stage = "approved"
    /\ trade' = [trade EXCEPT ![t].stage = "reserved"]
    /\ reserved' = reserved + trade[t].size
    /\ UNCHANGED <<tradingMode, switches, truth, cached, refresh,
                   forgiven, uncovered, disturbed>>

\* A fill that costs s, r of it reserved: a live one at the exchange, which sells
\* nothing it is not paid for, a paper one in adjust_virtual, which does not go
\* below zero.
Pay(s, r) ==
    /\ \/ /\ tradingMode = "live"
          /\ s <= truth
          /\ truth' = truth - s
          /\ UNCHANGED <<cached, forgiven>>
       \/ /\ tradingMode = "paper-trade"
          /\ cached' = OrZero(cached - s)
          /\ forgiven' = forgiven + OrZero(s - cached)
          /\ UNCHANGED truth
    /\ uncovered' = uncovered + OrZero(s - r)

\* The order of an approved trade is answered: it cost nothing, or up to its fees
\* more than was reserved.
SpendReserved(t) ==
    /\ trade[t].stage = "reserved"
    /\ trade' = [trade EXCEPT ![t].stage = "spent"]
    /\ \E s \in 0 .. trade[t].size + Fee : Pay(s, trade[t].size)
    /\ UNCHANGED <<tradingMode, switches, reserved, refresh, disturbed>>

\* Corrective orders, triangular and funding cycles spend without a reservation.
SpendUnreserved(t) ==
    /\ trade[t].stage = "new"
    /\ trade' = [trade EXCEPT ![t].stage = "finished"]
    /\ \E s \in Sizes : Pay(s, 0)
    /\ UNCHANGED <<tradingMode, switches, reserved, refresh, disturbed>>

ReleaseReserve(t) == reserved' = OrZero(reserved - trade[t].size)

\* The finally of _execute_hedge_async.
FinishTrade(t) ==
    /\ trade[t].stage = "spent"
    /\ trade' = [trade EXCEPT ![t].stage = "finished"]
    /\ ReleaseReserve(t)
    /\ UNCHANGED <<tradingMode, switches, truth, cached, refresh,
                   forgiven, uncovered, disturbed>>

\* A sale, or a deposit.
Earn ==
    /\ \/ /\ tradingMode = "live" /\ truth < MaxHeld
          /\ truth' = truth + 1
          /\ UNCHANGED cached
       \/ /\ tradingMode = "paper-trade" /\ cached < MaxHeld
          /\ cached' = cached + 1
          /\ UNCHANGED truth
    /\ UNCHANGED <<tradingMode, switches, reserved, trade, refresh,
                   forgiven, uncovered, disturbed>>

-----------------------------------------------------------------------------
(* The refreshes, the clock and the operator. *)

\* The balance loop looks at the mode, the reconcile route does not.
Asks(r) == r = "loop" => tradingMode = "live"

AskBalance(r) ==
    /\ ~refresh[r].asked
    /\ Asks(r)
    /\ refresh' = [refresh EXCEPT ![r].asked = TRUE]
    /\ UNCHANGED <<tradingMode, switches, truth, cached, reserved, trade,
                   forgiven, uncovered, disturbed>>

\* The exchange computes its answer; trades go on before it arrives.
ServeBalance(r) ==
    /\ refresh[r].asked /\ refresh[r].seen = -1
    /\ refresh' = [refresh EXCEPT ![r].seen = truth]
    /\ UNCHANGED <<tradingMode, switches, truth, cached, reserved, trade,
                   forgiven, uncovered, disturbed>>

\* Mutant: a refresh fills in the assets it has never seen only.
Overwritten(seen) == IF cached > 0 THEN cached ELSE seen

\* An asset with a total of zero is not in the answer, and its entry stays.
Refreshed(seen) == IF seen = 0 THEN cached ELSE seen

ApplyBalance(r) ==
    /\ refresh[r].seen # -1
    /\ cached' = Refreshed(refresh[r].seen)
    /\ refresh' = [refresh EXCEPT ![r] = NoRequest]
    /\ disturbed' = TRUE
    /\ UNCHANGED <<tradingMode, switches, truth, reserved, trade, forgiven, uncovered>>

\* An exception or a timeout is logged, and nothing else.  For the loop, which asks
\* again, that is an answer that takes longer.
RefreshFails ==
    /\ refresh["reconcile"].asked
    /\ refresh' = [refresh EXCEPT !["reconcile"] = NoRequest]
    /\ UNCHANGED <<tradingMode, switches, truth, cached, reserved, trade,
                   forgiven, uncovered, disturbed>>

\* The mode changes and the balances stay: virtual ones become the live belief.
SwitchMode ==
    /\ switches < MaxSwitches
    /\ switches' = switches + 1
    /\ tradingMode' \in {"paper-trade", "live"} \ {tradingMode}
    /\ disturbed' = TRUE
    /\ UNCHANGED <<truth, cached, reserved, trade, refresh, forgiven, uncovered>>

-----------------------------------------------------------------------------
AccountsNext ==
    \/ \E t \in Trades :
        \/ ApproveTrade(t) \/ ReserveTrade(t) \/ SpendReserved(t) \/ FinishTrade(t)
        \/ SpendUnreserved(t)
    \/ \E r \in Refreshers :
        AskBalance(r) \/ ServeBalance(r) \/ ApplyBalance(r)
    \/ RefreshFails \/ Earn \/ SwitchMode

\* The loop asks every refresh_interval_sec, and the exchange answers in the
\* end.  Nobody owes a trade, a reconcile or a mode.
AccountsFairness ==
    /\ WF_accountVars(AskBalance("loop"))
    /\ WF_accountVars(ServeBalance("loop")) /\ WF_accountVars(ApplyBalance("loop"))

AccountsSpec == AccountsInit /\ [][AccountsNext]_accountVars /\ AccountsFairness

-----------------------------------------------------------------------------
(* Properties. *)

\* The paper account, which cannot go below zero, never hands out more than what
\* was spent without a reservation: trades that stay within what was reserved for
\* them are paid in full, however many overlap, although each is approved before
\* an await and reserves after it.
PaperIsPaidFor == ~disturbed => forgiven <= uncovered

\* In live mode the belief ends up at the exchange's balance once the trading is
\* over, although answers of the two refreshers may be applied in any order and
\* after later fills; only of an asset that is all spent does it never hear.
BeliefFollowsExchange == <>[](tradingMode = "live") => <>[](cached = truth \/ truth = 0)

=============================================================================
