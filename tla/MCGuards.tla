------------------------------ MODULE MCGuards ------------------------------
(* The guards on a small instance: one strategy that needs two exchanges    *)
(* and an environment whose failure limit is out of bounds; three           *)
(* opportunities that compete for two slots, for exposure and for balances; *)
(* and order books of at most two levels.                                   *)
EXTENDS Guards, TLC

CONSTANTS x, y, spot, market, c1, c2, p1, p2, p3, a, b, c, btc

MCLength == [s \in Strategies |-> 2]
MCTweaks ==
    [kill_switch |-> FALSE, paused |-> FALSE, mode |-> "live", max_consecutive_failures |-> 0]
MCEnabled == [s \in Strategies |-> s = spot]
MCSelected == [s \in Strategies |-> IF s = spot THEN Adapters ELSE {}]
Names == Permutations(Adapters) \union Permutations({p1, p3})

\* p1 and p3 want the same two balances; p2 sells where they buy.
MCSymbolOf     == [o \in Opps |-> btc]
MCBuyExchange  == [o \in Opps |-> IF o = p2 THEN c ELSE a]
MCSellExchange == [o \in Opps |-> IF o = p2 THEN a ELSE b]
MCBalance      == [ex \in Exchanges |-> [z \in Assets |-> 5]]

At(p, s) == [price |-> p, size |-> s]
MCAsks == {<<>>, <<At(100, 5), At(103, 10)>>, <<At(102, 5), At(104, 10)>>,
           <<At(98, 5), At(100, 5)>>}
MCBids == {<<>>, <<At(106, 5), At(103, 10)>>, <<At(108, 10), At(107, 5)>>}
=============================================================================
