------------------------------- MODULE Guards -------------------------------
(***************************************************************************)
(* What stands between a signal and an order, and between a client and the *)
(* admin routes: the settings and the kill switch, the dispatch of an      *)
(* opportunity under its limits, the circuit breaker, the rate limiter,    *)
(* and the price and depth gates of a spot hedge.  Apart from the flags    *)
(* Dispatch lets operators set, they share no variable that changes while  *)
(* the program runs (the breaker took its failure limit when it was built, *)
(* which ControlPlane says), so a behaviour is about one of them, chosen   *)
(* at the start.                                                           *)
(***************************************************************************)
EXTENDS ControlPlane, Dispatch

CONSTANT Parts  \* which of them this instance looks at

VARIABLE guard  \* the one this behaviour is about

CONSTANTS MaxFailures, Window, MinSamples, Ratio, Thresholds, MaxTime, MaxTold
VARIABLES now, samples, failures, losses, latch, threshold, outcomes, results
breakerVars == <<now, samples, failures, losses, latch, threshold, outcomes, results>>
Breaker == INSTANCE CircuitBreaker WITH tripped <- latch

CONSTANTS Clients, RequestLimits, MaxClients, Minute, MaxSeconds
VARIABLES second, limited, buckets, passed
rateVars == <<second, limited, buckets, passed>>
Limiter == INSTANCE RateLimit

CONSTANTS AskLadders, BidLadders, Probes, Amounts, BuyFee, SellFee, SafetyBuffer,
          MinEdge, MinProfit, MinLiquidity, PriceBuffer, DepthRatio, PartialRatio
VARIABLES asks, bids, progress, quoted, amount, policy, fills, moved
pricingVars == <<asks, bids, progress, quoted, amount, policy, fills, moved>>
Pricing == INSTANCE SpotPricing

ASSUME GuardsAssumption ==
    Breaker!BreakerAssumption /\ Limiter!RateAssumption /\ Pricing!PricingAssumption

guardsVars == <<guard, planeVars, vars, breakerVars, rateVars, pricingVars>>

\* Where the parts a behaviour is not about start makes no difference to it.
Only(part) ==
    /\ part # "settings" => envKeys = {}
    /\ part # "dispatch" => mode = (CHOOSE m \in Modes : TRUE) /\ ~makerTaker
    /\ part # "breaker" => threshold = Min(Thresholds)
    /\ part # "pricing" => asks = (CHOOSE l \in AskLadders : TRUE)
                           /\ bids = (CHOOSE l \in BidLadders : TRUE)

GuardsInit ==
    /\ guard \in Parts
    /\ ControlInit /\ Init /\ Breaker!BreakerInit /\ Limiter!RateInit /\ Pricing!PricingInit
    /\ Only(guard)

TheSettings ==
    /\ guard = "settings"
    /\ ControlNext
    /\ UNCHANGED <<guard, vars, breakerVars, rateVars, pricingVars>>

TheDispatch ==
    /\ guard = "dispatch"
    /\ Next
    /\ UNCHANGED <<guard, planeVars, breakerVars, rateVars, pricingVars>>

TheBreaker ==
    /\ guard = "breaker"
    /\ Breaker!BreakerNext
    /\ UNCHANGED <<guard, planeVars, vars, rateVars, pricingVars>>

TheLimiter ==
    /\ guard = "limiter"
    /\ Limiter!RateNext
    /\ UNCHANGED <<guard, planeVars, vars, breakerVars, pricingVars>>

ThePricing ==
    /\ guard = "pricing"
    /\ Pricing!PricingNext
    /\ UNCHANGED <<guard, planeVars, vars, breakerVars, rateVars>>

GuardsNext == TheSettings \/ TheDispatch \/ TheBreaker \/ TheLimiter \/ ThePricing

GuardsSpec == GuardsInit /\ [][GuardsNext]_guardsVars

-----------------------------------------------------------------------------

\* See CircuitBreaker: the latch is set exactly when it was due.
TrippedExactlyWhenDue == Breaker!TrippedExactlyWhenDue

\* See RateLimit: no window sees more requests of a client than its last one allows.
AtMostMaxPerMinute == Limiter!AtMostMaxPerMinute

\* See SpotPricing: while the books stand still, a gated leg fills the gate's ratio.
StillBooksFill == Pricing!StillBooksFill

\* See SpotPricing: two full fills earn the edge the coordinator checked.
FullFillsEarnTheEdge == Pricing!FullFillsEarnTheEdge

\* See SpotPricing: the claim about the legs the depth gate lets out.
GatedOrdersFill == Pricing!GatedOrdersFill

=============================================================================
