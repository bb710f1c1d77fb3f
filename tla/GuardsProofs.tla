---------------------------- MODULE GuardsProofs ----------------------------
(***************************************************************************)
(* Proofs about the guards.  A behaviour is about one of them, and each    *)
(* step is a step of that one or leaves it alone: so Guards implements the *)
(* specification of every part, and what DispatchProofs and                *)
(* ControlPlaneProofs establish holds of it.  The rate limiter and the     *)
(* circuit breaker are proved about here.                                  *)
(***************************************************************************)
EXTENDS Guards, DispatchProofs, ControlPlaneProofs

-----------------------------------------------------------------------------
(* The parts in the program. *)

LEMMA SettingsStep == [GuardsNext]_guardsVars => [ControlNext]_planeVars
<1>1. TheSettings => ControlNext
  BY DEF TheSettings
<1>2. TheDispatch \/ TheBreaker \/ TheLimiter \/ ThePricing => UNCHANGED planeVars
  BY DEF TheDispatch, TheBreaker, TheLimiter, ThePricing
<1>3. UNCHANGED guardsVars => UNCHANGED planeVars
  BY DEF guardsVars
<1> QED BY <1>1, <1>2, <1>3 DEF GuardsNext

LEMMA DispatchStep == [GuardsNext]_guardsVars => [Next]_vars
<1>1. TheDispatch => Next
  BY DEF TheDispatch
<1>2. TheSettings \/ TheBreaker \/ TheLimiter \/ ThePricing => UNCHANGED vars
  BY DEF TheSettings, TheBreaker, TheLimiter, ThePricing
<1>3. UNCHANGED guardsVars => UNCHANGED vars
  BY DEF guardsVars
<1> QED BY <1>1, <1>2, <1>3 DEF GuardsNext

LEMMA BreakerStep == [GuardsNext]_guardsVars => [Breaker!BreakerNext]_breakerVars
<1>1. TheBreaker => Breaker!BreakerNext
  BY DEF TheBreaker
<1>2. TheSettings \/ TheDispatch \/ TheLimiter \/ ThePricing => UNCHANGED breakerVars
  BY DEF TheSettings, TheDispatch, TheLimiter, ThePricing
<1>3. UNCHANGED guardsVars => UNCHANGED breakerVars
  BY DEF guardsVars
<1> QED BY <1>1, <1>2, <1>3 DEF GuardsNext

LEMMA LimiterStep == [GuardsNext]_guardsVars => [Limiter!RateNext]_rateVars
<1>1. TheLimiter => Limiter!RateNext
  BY DEF TheLimiter
<1>2. TheSettings \/ TheDispatch \/ TheBreaker \/ ThePricing => UNCHANGED rateVars
  BY DEF TheSettings, TheDispatch, TheBreaker, ThePricing
<1>3. UNCHANGED guardsVars => UNCHANGED rateVars
  BY DEF guardsVars
<1> QED BY <1>1, <1>2, <1>3 DEF GuardsNext

\* The composed program implements the specification of the settings.
THEOREM GuardsImplementControlPlane == GuardsSpec => ControlSpec
<1>1. GuardsInit => ControlInit
  BY DEF GuardsInit
<1> QED BY <1>1, SettingsStep, PTL DEF GuardsSpec, ControlSpec

\* The composed program implements the specification of the dispatch.
THEOREM GuardsImplementDispatch == GuardsSpec => Spec
<1>1. GuardsInit => Init
  BY DEF GuardsInit
<1> QED BY <1>1, DispatchStep, PTL DEF GuardsSpec, Spec

\* The limits of the dispatch hold in the composed program: exposure, open hedges,
\* reservations and what they are owed to.
THEOREM GuardsKeepTheLimits ==
    GuardsSpec => [](OpenWithinLimit /\ ExposureWithinLimit /\ ReservedIsOwed /\ ReservedWithinBalance)
BY GuardsImplementDispatch, OpenNeverExceeds, ExposureNeverExceeds, ReservesAreAlwaysOwed,
   ReservesAreCovered, PTL

\* What operators set holds in the composed program: strategies have their exchanges,
\* the kill switch obeys, a restart restores.
THEOREM GuardsKeepTheSettings ==
    GuardsSpec => [](EnabledHasItsExchanges /\ KillSwitchAsOrdered /\ RestartRestores)
BY GuardsImplementControlPlane, EnabledAlwaysBound, KillSwitchObeys, EditsSurviveRestart, PTL

-----------------------------------------------------------------------------
(* Queues that forget from the front. *)

LEMMA LeastNat ==
    ASSUME NEW S, S \subseteq Nat, S # {}
    PROVE  \E n \in S : \A m \in S : n <= m
<1>1. PICK n \in S : \A m \in S : ~(<<m, n>> \in OpToRel(<, Nat))
  BY WFMin, NatLessThanWellFounded
<1>2. \A m \in S : ~(m < n)
  BY <1>1 DEF OpToRel
<1>3. \A m \in S : n <= m
  BY <1>2
<1> QED BY <1>3

\* A suffix that starts at k, and what it holds.
LEMMA SuffixOf ==
    ASSUME NEW T, NEW b \in Seq(T), NEW k \in 1 .. Len(b) + 1
    PROVE  /\ SubSeq(b, k, Len(b)) \in Seq(T)
           /\ Len(SubSeq(b, k, Len(b))) = Len(b) - k + 1
           /\ \A i \in 1 .. Len(b) - k + 1 : SubSeq(b, k, Len(b))[i] = b[k + i - 1]
<1>1. Len(b) \in Nat
  OBVIOUS
<1>2. CASE k = Len(b) + 1
  <2>1. SubSeq(b, k, Len(b)) = <<>>
    BY <1>1, <1>2
  <2> QED BY <1>1, <1>2, <2>1
<1>3. CASE k # Len(b) + 1
  BY <1>1, <1>3
<1> QED BY <1>2, <1>3

-----------------------------------------------------------------------------
(* The rate limiter. *)

\* A request of the history: when it was let through, and under which limit.
Entry == [at : Nat, limit : Nat \ {0}]

\* Counted from its end, the bucket b holds every request of the history q that is
\* recent at time t.
Knows(b, q, t) ==
    \A i \in 1 .. Len(q) :
        t - q[i].at <= Minute => /\ Len(b) - (Len(q) - i) >= 1
                                 /\ b[Len(b) - (Len(q) - i)] = q[i].at

\* A request its own max_per_minute before another is a window before it in time.
Spaced(q) ==
    \A i, j \in 1 .. Len(q) : j - i >= q[j].limit => q[j].at - q[i].at > Minute

Bucket(c) == IF c \in DOMAIN buckets THEN buckets[c] ELSE <<>>

LimiterInv ==
    /\ second \in Nat
    /\ passed \in [Clients -> Seq(Entry)]
    /\ \A c \in DOMAIN buckets : buckets[c] \in Seq(Nat)
    /\ \A c \in Clients : Knows(Bucket(c), passed[c], second) /\ Spaced(passed[c])

LEMMA RateConstants == RequestLimits \subseteq Int /\ Minute \in Nat
BY GuardsAssumption DEF Limiter!RateAssumption

LEMMA EntryAt ==
    ASSUME NEW q \in Seq(Entry), NEW i \in 1 .. Len(q)
    PROVE  q[i] \in Entry /\ q[i].at \in Nat /\ q[i].limit \in Nat \ {0}
<1>1. q[i] \in Entry
  OBVIOUS
<1> QED BY <1>1 DEF Entry

LEMMA NothingKnown ==
    ASSUME NEW b, NEW t
    PROVE  Knows(b, <<>>, t) /\ Spaced(<<>>)
BY DEF Knows, Spaced

LEMMA KnowsLater ==
    ASSUME NEW b \in Seq(Nat), NEW q \in Seq(Entry), NEW t \in Nat, Knows(b, q, t)
    PROVE  Knows(b, q, t + 1)
<1> SUFFICES ASSUME NEW i \in 1 .. Len(q), (t + 1) - q[i].at <= Minute
             PROVE  /\ Len(b) - (Len(q) - i) >= 1
                    /\ b[Len(b) - (Len(q) - i)] = q[i].at
  BY DEF Knows
<1>1. q[i].at \in Nat
  BY EntryAt
<1>2. t - q[i].at <= Minute
  BY <1>1, RateConstants
<1> QED BY <1>2 DEF Knows

\* What popleft leaves: the suffix from the first recent event on.
LEMMA RecentIs ==
    ASSUME NEW b \in Seq(Nat), second \in Nat
    PROVE  \E k \in 1 .. Len(b) + 1 :
              /\ Limiter!Recent(b) = SubSeq(b, k, Len(b))
              /\ \A m \in 1 .. Len(b) : m < k => second - b[m] > Minute
<1> DEFINE S == {k \in 1 .. Len(b) + 1 : k <= Len(b) => second - b[k] <= Minute}
           k == Limiter!Min(S)
<1>0. Len(b) \in Nat
  OBVIOUS
<1>1. S \subseteq Nat /\ Len(b) + 1 \in S
  BY <1>0
<1>2. k \in S /\ \A m \in S : k <= m
  <2> HIDE DEF S
  <2>1. \E n \in S : \A m \in S : n <= m
    BY <1>1, LeastNat
  <2> QED BY <2>1 DEF Limiter!Min
<1>3. Limiter!Recent(b) = SubSeq(b, k, Len(b))
  BY DEF Limiter!Recent, Limiter!From
<1>4. ASSUME NEW m \in 1 .. Len(b), m < k PROVE second - b[m] > Minute
  <2>1. m \notin S /\ m \in 1 .. Len(b) + 1
    BY <1>0, <1>1, <1>2, <1>4
  <2>2. ~(second - b[m] <= Minute)
    BY <2>1
  <2> QED BY <2>2, RateConstants
<1> HIDE DEF k
<1> QED BY <1>2, <1>3, <1>4

LEMMA KnowsRecent ==
    ASSUME NEW b \in Seq(Nat), NEW q \in Seq(Entry), second \in Nat, Knows(b, q, second)
    PROVE  Limiter!Recent(b) \in Seq(Nat) /\ Knows(Limiter!Recent(b), q, second)
<1>1. PICK k \in 1 .. Len(b) + 1 :
          /\ Limiter!Recent(b) = SubSeq(b, k, Len(b))
          /\ \A m \in 1 .. Len(b) : m < k => second - b[m] > Minute
  BY RecentIs
<1> DEFINE r == SubSeq(b, k, Len(b))
<1>0. Len(b) \in Nat /\ Len(q) \in Nat
  OBVIOUS
<1>2. /\ r \in Seq(Nat) /\ Len(r) = Len(b) - k + 1
      /\ \A i \in 1 .. Len(b) - k + 1 : r[i] = b[k + i - 1]
  BY SuffixOf
<1>3. ASSUME NEW i \in 1 .. Len(q), second - q[i].at <= Minute
      PROVE  Len(r) - (Len(q) - i) >= 1 /\ r[Len(r) - (Len(q) - i)] = q[i].at
  <2> DEFINE p == Len(b) - (Len(q) - i)
  <2>1. p >= 1 /\ b[p] = q[i].at /\ p \in 1 .. Len(b)
    BY <1>0, <1>3 DEF Knows
  <2>2. p >= k
    <3>1. ~(second - b[p] > Minute)
      <4>1. q[i].at \in Nat
        BY EntryAt
      <4> HIDE DEF p
      <4>2. b[p] = q[i].at /\ second - q[i].at <= Minute
        BY <1>3, <2>1
      <4>3. second - b[p] \in Int /\ second - b[p] <= Minute
        BY <4>1, <4>2
      <4> QED BY <4>3, RateConstants
    <3> HIDE DEF p
    <3>2. ~(p < k)
      BY <1>1, <2>1, <3>1
    <3> QED BY <1>0, <2>1, <3>2
  <2>3. /\ Len(r) - (Len(q) - i) = p - k + 1
        /\ p - k + 1 \in 1 .. Len(b) - k + 1 /\ k + (p - k + 1) - 1 = p
    <3>1. Len(r) - (Len(q) - i) = p - k + 1
      BY <1>0, <1>2
    <3>2. p \in Nat /\ k \in Nat /\ Len(b) \in Nat /\ k <= p /\ p <= Len(b)
      BY <1>0, <2>1, <2>2
    <3> HIDE DEF p
    <3> QED BY <3>1, <3>2
  <2> HIDE DEF p, r
  <2>4. r[p - k + 1] = b[k + (p - k + 1) - 1]
    BY <1>2, <2>3
  <2>5. r[p - k + 1] = q[i].at
    BY <2>1, <2>3, <2>4
  <2>6. p - k + 1 >= 1
    BY <2>1, <2>2, <1>0
  <2> QED BY <2>3, <2>5, <2>6
<1> HIDE DEF r
<1> QED BY <1>1, <1>2, <1>3 DEF Knows, r

LEMMA KnowsAppended ==
    ASSUME NEW b \in Seq(Nat), NEW q \in Seq(Entry), NEW e \in Entry, Knows(b, q, e.at)
    PROVE  Knows(Append(b, e.at), Append(q, e), e.at)
<1> DEFINE t == e.at
           c == Append(b, t)
           r == Append(q, e)
<1>0. Len(b) \in Nat /\ Len(q) \in Nat /\ t \in Nat
  BY DEF Entry
<1>1. /\ Len(c) = Len(b) + 1 /\ Len(r) = Len(q) + 1
      /\ c[Len(b) + 1] = t /\ r[Len(q) + 1] = e
      /\ \A i \in 1 .. Len(b) : c[i] = b[i]
      /\ \A i \in 1 .. Len(q) : r[i] = q[i]
  BY <1>0
<1> HIDE DEF c, r
<1>2. ASSUME NEW i \in 1 .. Len(r), t - r[i].at <= Minute
      PROVE  Len(c) - (Len(r) - i) >= 1 /\ c[Len(c) - (Len(r) - i)] = r[i].at
  <2>1. CASE i = Len(q) + 1
    <3>1. Len(c) - (Len(r) - i) = Len(b) + 1
      BY <1>0, <1>1, <2>1
    <3> QED BY <1>0, <1>1, <2>1, <3>1
  <2>2. CASE i # Len(q) + 1
    <3>1. i \in 1 .. Len(q)
      BY <1>0, <1>1, <2>2
    <3>2. Len(b) - (Len(q) - i) >= 1 /\ b[Len(b) - (Len(q) - i)] = q[i].at
      BY <1>1, <1>2, <3>1 DEF Knows
    <3>3. Len(c) - (Len(r) - i) = Len(b) - (Len(q) - i) /\ Len(b) - (Len(q) - i) \in 1 .. Len(b)
      BY <1>0, <1>1, <3>1, <3>2
    <3> QED BY <1>1, <3>1, <3>2, <3>3
  <2> QED BY <2>1, <2>2
<1>3. Knows(c, r, t)
  BY <1>2 DEF Knows
<1> QED BY <1>3 DEF c, r

\* A request is let through only when the one its max_per_minute before it is old.
LEMMA SpacedAppended ==
    ASSUME NEW b \in Seq(Nat), NEW q \in Seq(Entry), NEW e \in Entry,
           Knows(b, q, e.at), Spaced(q), Len(b) < e.limit
    PROVE  Spaced(Append(q, e))
<1> DEFINE r == Append(q, e)
<1>0. Len(b) \in Nat /\ Len(q) \in Nat /\ e.at \in Nat /\ e.limit \in Nat \ {0}
  BY DEF Entry
<1>1. /\ Len(r) = Len(q) + 1 /\ r[Len(q) + 1] = e
      /\ \A i \in 1 .. Len(q) : r[i] = q[i]
  OBVIOUS
<1> HIDE DEF r
<1>2. ASSUME NEW i \in 1 .. Len(r), NEW j \in 1 .. Len(r), j - i >= r[j].limit
      PROVE  r[j].at - r[i].at > Minute
  <2>0. r[j].limit \in Nat \ {0}
    <3>1. r[j] \in Entry
      BY <1>0, <1>1
    <3> QED BY <3>1 DEF Entry
  <2>1. i \in 1 .. Len(q)
    BY <1>0, <1>1, <1>2, <2>0
  <2>2. CASE j = Len(q) + 1
    <3>1. ~(Len(b) - (Len(q) - i) >= 1)
      BY <1>0, <1>1, <1>2, <2>1, <2>2
    <3>2. ~(e.at - q[i].at <= Minute)
      BY <2>1, <3>1 DEF Knows
    <3>3. q[i].at \in Nat
      BY <2>1, EntryAt
    <3> QED BY <1>0, <1>1, <2>1, <2>2, <3>2, <3>3, RateConstants
  <2>3. CASE j # Len(q) + 1
    <3>1. j \in 1 .. Len(q)
      BY <1>0, <1>1, <2>3
    <3> QED BY <1>1, <1>2, <2>1, <3>1 DEF Spaced
  <2> QED BY <2>2, <2>3
<1>3. Spaced(r)
  BY <1>2 DEF Spaced
<1> QED BY <1>3 DEF r

\* In a spaced history the window that ends with a request holds at most as many
\* requests as it was let through under.
LEMMA SpacedIsSparse ==
    ASSUME NEW q \in Seq(Entry), Spaced(q), NEW j \in DOMAIN q
    PROVE  Cardinality({i \in DOMAIN q : i <= j /\ q[j].at - q[i].at <= Minute}) <= q[j].limit
<1> DEFINE W == {i \in DOMAIN q : i <= j /\ q[j].at - q[i].at <= Minute}
           m == q[j].limit
           I == j - m + 1 .. j
<1>1. DOMAIN q = 1 .. Len(q) /\ Len(q) \in Nat /\ j \in Nat
  OBVIOUS
<1>2. \A i \in DOMAIN q : q[i].at \in Nat /\ q[i].limit \in Nat \ {0}
  BY <1>1, EntryAt
<1>3. m \in Nat
  BY <1>2
<1>4. W \subseteq I
  <2> SUFFICES ASSUME NEW i \in W PROVE i \in I
    OBVIOUS
  <2>1. i \in 1 .. Len(q) /\ j \in 1 .. Len(q) /\ i <= j /\ q[j].at - q[i].at <= Minute
    BY <1>1
  <2>2. q[j].at \in Nat /\ q[i].at \in Nat
    BY <1>1, <1>2, <2>1
  <2>3. ~(q[j].at - q[i].at > Minute)
    BY <2>1, <2>2, RateConstants
  <2>4. ~(j - i >= m)
    BY <2>1, <2>3 DEF Spaced
  <2> HIDE DEF m
  <2> QED BY <1>3, <2>1, <2>4
<1>5. IsFiniteSet(I) /\ Cardinality(I) = m
  <2> HIDE DEF m
  <2>1. j - m + 1 \in Int /\ j \in Int /\ j - (j - m + 1) + 1 = m
        /\ (j - m + 1 > j => m = 0)
    BY <1>1, <1>3
  <2> QED BY <2>1, FS_Interval
<1> HIDE DEF W, I, m
<1>6. Cardinality(W) <= Cardinality(I)
  BY <1>4, <1>5, FS_Subset
<1> QED BY <1>5, <1>6 DEF W, m

LEMMA LimiterInvInit == Limiter!RateInit => LimiterInv
<1> SUFFICES ASSUME Limiter!RateInit PROVE LimiterInv
  OBVIOUS
<1>1. passed \in [Clients -> Seq(Entry)] /\ \A c \in Clients : passed[c] = <<>>
  BY DEF Limiter!RateInit
<1>2. DOMAIN buckets = {}
  BY DEF Limiter!RateInit
<1>3. second \in Nat
  BY DEF Limiter!RateInit
<1> QED BY <1>1, <1>2, <1>3, NothingKnown DEF LimiterInv

LEMMA LimiterInvStep == LimiterInv /\ [Limiter!RateNext]_rateVars => LimiterInv'
<1> SUFFICES ASSUME LimiterInv, [Limiter!RateNext]_rateVars PROVE LimiterInv'
  OBVIOUS
<1>t. /\ second \in Nat
      /\ passed \in [Clients -> Seq(Entry)]
      /\ \A c \in DOMAIN buckets : buckets[c] \in Seq(Nat)
  BY DEF LimiterInv
<1>k. \A c \in Clients : Knows(Bucket(c), passed[c], second) /\ Spaced(passed[c])
  BY DEF LimiterInv
<1>b. \A c : Bucket(c) \in Seq(Nat)
  BY <1>t DEF Bucket
<1>1. ASSUME NEW c \in Clients, NEW m \in RequestLimits, Limiter!Ask(c, m) PROVE LimiterInv'
  <2> DEFINE events == Limiter!Events(c)
             before(d) == Limiter!Before(d)
             recent == Limiter!Recent(events)
             admitted == Len(recent) < m
             e == [at |-> second, limit |-> m]
             kept == IF admitted THEN Append(recent, second) ELSE recent
             others == IF Limiter!Overfull THEN {} ELSE DOMAIN buckets
  <2>1. /\ buckets' = [d \in others \union {c} |-> IF d = c THEN kept ELSE buckets[d]]
        /\ passed' = [d \in Clients |->
                        IF d = c /\ admitted THEN Append(before(c), e) ELSE before(d)]
        /\ second' = second
    BY <1>1 DEF Limiter!Ask
  <2>2. events \in Seq(Nat) /\ before(c) \in Seq(Entry)
        /\ Knows(events, before(c), second) /\ Spaced(before(c))
    <3>1. CASE Limiter!Overfull
      BY <3>1, NothingKnown DEF Limiter!Events, Limiter!Before
    <3>2. CASE ~Limiter!Overfull
      <4>1. events = Bucket(c) /\ before(c) = passed[c]
        BY <3>2 DEF Limiter!Events, Limiter!Before, Bucket
      <4> QED BY <4>1, <1>t, <1>k, <1>b
    <3> QED BY <3>1, <3>2
  <2>3. \A d \in Clients : before(d) \in Seq(Entry) /\ Spaced(before(d))
    <3>1. Spaced(<<>>) /\ <<>> \in Seq(Entry)
      BY NothingKnown
    <3> QED BY <3>1, <1>t, <1>k DEF Limiter!Before
  <2> HIDE DEF events, before
  <2>4. recent \in Seq(Nat) /\ Knows(recent, before(c), second)
    BY <2>2, <1>t, KnowsRecent
  <2> HIDE DEF recent
  <2>5. kept \in Seq(Nat)
    BY <2>4, <1>t
  <2>a. admitted => e \in Entry
    <3>1. Len(recent) \in Nat /\ m \in Int
      BY <2>4, RateConstants
    <3> QED BY <3>1, <1>t DEF Entry
  <2>b. e.at = second /\ e.limit = m
    OBVIOUS
  <2> HIDE DEF e
  <2>6. passed' \in [Clients -> Seq(Entry)]
    <3>1. \A d \in Clients : passed'[d] \in Seq(Entry)
      BY <2>1, <2>2, <2>3, <2>a
    <3> QED BY <2>1, <3>1
  <2>7. \A d \in DOMAIN buckets' : buckets'[d] \in Seq(Nat)
    BY <2>1, <2>5, <1>t
  <2>8. Bucket(c)' = kept
    BY <2>1 DEF Bucket
  <2>9. Knows(kept, passed'[c], second) /\ Spaced(passed'[c])
    <3>1. CASE admitted
      <4>1. kept = Append(recent, second) /\ passed'[c] = Append(before(c), e)
        BY <2>1, <3>1
      <4>2. Spaced(Append(before(c), e))
        BY <2>2, <2>4, <2>a, <2>b, <3>1, SpacedAppended
      <4>3. Knows(Append(recent, second), Append(before(c), e), second)
        BY <2>2, <2>4, <2>a, <2>b, <3>1, KnowsAppended
      <4> QED BY <4>1, <4>2, <4>3
    <3>2. CASE ~admitted
      <4>1. kept = recent /\ passed'[c] = before(c)
        BY <2>1, <3>2
      <4> QED BY <4>1, <2>2, <2>4
    <3> QED BY <3>1, <3>2
  <2>10. ASSUME NEW d \in Clients, d # c
         PROVE  Knows(Bucket(d)', passed'[d], second) /\ Spaced(passed'[d])
    <3>1. passed'[d] = before(d)
      BY <2>1, <2>10
    <3>2. CASE Limiter!Overfull
      <4>1. before(d) = <<>>
        BY <3>2 DEF before, Limiter!Before
      <4> QED BY <3>1, <4>1, NothingKnown
    <3>3. CASE ~Limiter!Overfull
      <4>1. before(d) = passed[d]
        BY <3>3 DEF before, Limiter!Before
      <4>2. Bucket(d)' = Bucket(d)
        BY <2>1, <2>10, <3>3 DEF Bucket
      <4> QED BY <3>1, <4>1, <4>2, <1>k
    <3> QED BY <3>2, <3>3
  <2> QED BY <2>1, <2>6, <2>7, <2>8, <2>9, <2>10, <1>t DEF LimiterInv
<1>2. CASE Limiter!Switch
  <2>1. passed' \in [Clients -> Seq(Entry)] /\ \A c \in Clients : passed'[c] = <<>>
    BY <1>2 DEF Limiter!Switch
  <2>2. second' = second /\ buckets' = buckets
    BY <1>2 DEF Limiter!Switch
  <2> QED BY <2>1, <2>2, <1>t, NothingKnown DEF LimiterInv
<1>3. CASE Limiter!Tick
  <2>1. second' = second + 1 /\ buckets' = buckets /\ passed' = passed
    BY <1>3 DEF Limiter!Tick
  <2>2. \A c : Bucket(c)' = Bucket(c)
    BY <2>1 DEF Bucket
  <2>3. \A c \in Clients : Knows(Bucket(c), passed[c], second + 1)
    BY <1>t, <1>k, <1>b, KnowsLater
  <2>4. second + 1 \in Nat
    BY <1>t
  <2> QED BY <2>1, <2>2, <2>3, <2>4, <1>t, <1>k DEF LimiterInv
<1>4. CASE UNCHANGED rateVars
  <2>1. UNCHANGED <<second, buckets, passed>>
    BY <1>4 DEF rateVars
  <2>2. \A c : Bucket(c)' = Bucket(c)
    BY <2>1 DEF Bucket
  <2> QED BY <2>1, <2>2, <1>t, <1>k DEF LimiterInv
<1> QED BY <1>1, <1>2, <1>3, <1>4 DEF Limiter!RateNext

\* Whatever max_per_minute each request comes with, one that is let through found
\* fewer than that many let through before it in its window, for every window and
\* every size of the table, except across a moment at which the table was emptied or
\* the limiter was off.
THEOREM RateIsNeverExceeded == GuardsSpec => []AtMostMaxPerMinute
<1>1. GuardsInit => Limiter!RateInit
  BY DEF GuardsInit
<1>2. LimiterInv => AtMostMaxPerMinute
  <2> SUFFICES ASSUME LimiterInv, NEW c \in Clients, NEW j \in DOMAIN passed[c]
               PROVE  Limiter!Cardinality(Limiter!Within(c, j)) <= passed[c][j].limit
    BY DEF AtMostMaxPerMinute, Limiter!AtMostMaxPerMinute
  <2>1. passed[c] \in Seq(Entry) /\ Spaced(passed[c])
    BY DEF LimiterInv
  <2>2. Limiter!Within(c, j) =
            {i \in DOMAIN passed[c] : i <= j /\ passed[c][j].at - passed[c][i].at <= Minute}
    BY DEF Limiter!Within
  <2>3. Limiter!Cardinality(Limiter!Within(c, j)) = Cardinality(Limiter!Within(c, j))
    BY DEF Limiter!Cardinality, Cardinality
  <2> QED BY <2>1, <2>2, <2>3, SpacedIsSparse
<1> QED BY <1>1, <1>2, LimiterStep, LimiterInvInit, LimiterInvStep, PTL DEF GuardsSpec

-----------------------------------------------------------------------------
(* The circuit breaker.                                                    *)
(* What the breaker keeps of the past is described by operators on the     *)
(* histories: the samples are the end of the outcomes, the two counters    *)
(* the length of the runs they end with.                                   *)

Sample == [ts : Nat, ok : BOOLEAN]
Result == [pnl : Breaker!Pnls, threshold : Nat]

\* The history h was written in time order, up to t.
Chronicle(h, t) ==
    \A i \in 1 .. Len(h) : h[i].ts <= t /\ \A j \in i .. Len(h) : h[i].ts <= h[j].ts

\* The queue s is the end of h, and what it lacks is out of the window at t.
TailOf(s, h, t) ==
    /\ Len(s) <= Len(h)
    /\ \A i \in 1 .. Len(s) : s[i] = h[Len(h) - Len(s) + i]
    /\ \A i \in 1 .. Len(h) - Len(s) : t - h[i].ts > Window

\* h ends with exactly f failures.
StreakOf(h, f) ==
    /\ f \in 0 .. Len(h)
    /\ \A i \in Len(h) - f + 1 .. Len(h) : ~h[i].ok
    /\ f < Len(h) => h[Len(h) - f].ok

WindowOf(h, k)  == {i \in 1 .. k : h[k].ts - h[i].ts <= Window}
FailuresOf(h, k) == {i \in WindowOf(h, k) : ~h[i].ok}

RunTrips(h, k) == k >= MaxFailures /\ \A i \in k - MaxFailures + 1 .. k : ~h[i].ok

RatioTrips(n, f) == n >= MinSamples /\ 100 * f >= Ratio * n

WindowTrips(h, k) == RatioTrips(Cardinality(WindowOf(h, k)), Cardinality(FailuresOf(h, k)))

LossesOf(r, k) ==
    {i \in 1 .. k : r[i].pnl = "loss" /\ \A j \in i .. k : r[j].pnl \in {"loss", "none"}}

LossTrips(r, k) == r[k].pnl = "loss" /\ Cardinality(LossesOf(r, k)) >= r[k].threshold

BreakerInv ==
    /\ now \in Nat /\ losses \in Nat /\ threshold \in Nat /\ latch \in BOOLEAN
    /\ outcomes \in Seq(Sample) /\ samples \in Seq(Sample) /\ results \in Seq(Result)
    /\ Chronicle(outcomes, now)
    /\ TailOf(samples, outcomes, now)
    /\ StreakOf(outcomes, failures)
    /\ losses = Cardinality(LossesOf(results, Len(results)))
    /\ latch <=> \/ \E k \in 1 .. Len(outcomes) : RunTrips(outcomes, k) \/ WindowTrips(outcomes, k)
                 \/ \E k \in 1 .. Len(results) : LossTrips(results, k)

LEMMA BreakerConstants ==
    /\ MaxFailures \in Nat \ {0} /\ Window \in Nat /\ MinSamples \in Nat \ {0}
    /\ Ratio \in 0 .. 100 /\ Thresholds \subseteq Nat \ {0}
BY GuardsAssumption DEF Breaker!BreakerAssumption

\* The invariant says what the property says.
LEMMA InvIsDue == BreakerInv => TrippedExactlyWhenDue
<1> SUFFICES ASSUME BreakerInv PROVE Breaker!TrippedExactlyWhenDue
  BY DEF TrippedExactlyWhenDue
<1>1. DOMAIN outcomes = 1 .. Len(outcomes) /\ DOMAIN results = 1 .. Len(results)
  BY DEF BreakerInv
<1>2. \A S : Breaker!Cardinality(S) = Cardinality(S)
  BY DEF Breaker!Cardinality, Cardinality
<1>3. ASSUME NEW k
      PROVE  /\ Breaker!WindowAt(k) = WindowOf(outcomes, k)
             /\ {i \in WindowOf(outcomes, k) : Breaker!Failure(i)} = FailuresOf(outcomes, k)
             /\ Breaker!LossRun(k) = LossesOf(results, k)
  BY DEF Breaker!WindowAt, WindowOf, FailuresOf, Breaker!Failure, Breaker!LossRun, LossesOf
<1>4. Breaker!TooManyFailures
        <=> \E k \in 1 .. Len(outcomes) : RunTrips(outcomes, k) \/ WindowTrips(outcomes, k)
  <2>1. ASSUME NEW k
        PROVE  (LET w == Breaker!WindowAt(k) IN
                  /\ Breaker!Cardinality(w) >= MinSamples
                  /\ 100 * Breaker!Cardinality({i \in w : Breaker!Failure(i)})
                       >= Ratio * Breaker!Cardinality(w))
               <=> WindowTrips(outcomes, k)
    BY <1>2, <1>3 DEF WindowTrips, RatioTrips
  <2>2. ASSUME NEW k
        PROVE  (k >= MaxFailures /\ \A i \in k - MaxFailures + 1 .. k : Breaker!Failure(i))
               <=> RunTrips(outcomes, k)
    BY DEF RunTrips, Breaker!Failure
  <2> QED BY <1>1, <2>1, <2>2 DEF Breaker!TooManyFailures
<1>5. Breaker!TooManyLosses <=> \E k \in 1 .. Len(results) : LossTrips(results, k)
  BY <1>1, <1>2, <1>3 DEF Breaker!TooManyLosses, LossTrips
<1> QED BY <1>4, <1>5 DEF BreakerInv, Breaker!TrippedExactlyWhenDue

LEMMA AppendIs ==
    ASSUME NEW T, NEW h \in Seq(T), NEW x \in T
    PROVE  /\ Append(h, x) \in Seq(T) /\ Len(Append(h, x)) = Len(h) + 1 /\ Len(h) \in Nat
           /\ Append(h, x)[Len(h) + 1] = x
           /\ \A i \in 1 .. Len(h) : Append(h, x)[i] = h[i]
OBVIOUS

LEMMA ChronicleGrows ==
    ASSUME NEW h \in Seq(Sample), NEW t \in Nat, Chronicle(h, t), NEW x \in Sample, x.ts = t
    PROVE  Chronicle(Append(h, x), t)
<1> DEFINE g == Append(h, x)
<1>1. /\ Len(g) = Len(h) + 1 /\ Len(h) \in Nat
      /\ g[Len(h) + 1] = x /\ \A i \in 1 .. Len(h) : g[i] = h[i]
  BY AppendIs
<1> HIDE DEF g
<1>2. ASSUME NEW i \in 1 .. Len(g), NEW j \in i .. Len(g)
      PROVE  g[i].ts <= t /\ g[i].ts <= g[j].ts
  <2>1. CASE i = Len(h) + 1
    <3>1. j = i
      BY <1>1, <2>1
    <3> QED BY <1>1, <2>1, <3>1
  <2>2. CASE i # Len(h) + 1 /\ j = Len(h) + 1
    <3>1. i \in 1 .. Len(h)
      BY <1>1, <2>2
    <3> QED BY <1>1, <2>2, <3>1 DEF Chronicle
  <2>3. CASE i # Len(h) + 1 /\ j # Len(h) + 1
    <3>1. i \in 1 .. Len(h) /\ j \in 1 .. Len(h) /\ j \in i .. Len(h)
      BY <1>1, <2>3
    <3> QED BY <1>1, <3>1 DEF Chronicle
  <2> QED BY <2>1, <2>2, <2>3
<1>3. Chronicle(g, t)
  <2>1. \A i \in 1 .. Len(g) : i \in i .. Len(g)
    BY <1>1
  <2> QED BY <1>2, <2>1 DEF Chronicle
<1> QED BY <1>3 DEF g

LEMMA TailGrows ==
    ASSUME NEW h \in Seq(Sample), NEW s \in Seq(Sample), NEW t, NEW x \in Sample, TailOf(s, h, t)
    PROVE  TailOf(Append(s, x), Append(h, x), t)
<1> DEFINE g == Append(h, x)
           u == Append(s, x)
<1>1. /\ Len(g) = Len(h) + 1 /\ Len(h) \in Nat
      /\ g[Len(h) + 1] = x /\ \A i \in 1 .. Len(h) : g[i] = h[i]
  BY AppendIs
<1>2. /\ Len(u) = Len(s) + 1 /\ Len(s) \in Nat
      /\ u[Len(s) + 1] = x /\ \A i \in 1 .. Len(s) : u[i] = s[i]
  BY AppendIs
<1> HIDE DEF g, u
<1>3. /\ Len(s) <= Len(h)
      /\ \A i \in 1 .. Len(s) : s[i] = h[Len(h) - Len(s) + i]
      /\ \A i \in 1 .. Len(h) - Len(s) : t - h[i].ts > Window
  BY DEF TailOf
<1>4. Len(u) <= Len(g) /\ Len(g) - Len(u) = Len(h) - Len(s)
  BY <1>1, <1>2, <1>3
<1>5. ASSUME NEW i \in 1 .. Len(u) PROVE u[i] = g[Len(g) - Len(u) + i]
  <2>1. CASE i = Len(s) + 1
    <3>1. Len(g) - Len(u) + i = Len(h) + 1
      BY <1>1, <1>2, <2>1
    <3> QED BY <1>1, <1>2, <2>1, <3>1
  <2>2. CASE i # Len(s) + 1
    <3>1. /\ i \in 1 .. Len(s) /\ Len(h) - Len(s) + i \in 1 .. Len(h)
          /\ Len(g) - Len(u) + i = Len(h) - Len(s) + i
      BY <1>1, <1>2, <1>3, <2>2
    <3> QED BY <1>1, <1>2, <1>3, <3>1
  <2> QED BY <2>1, <2>2
<1>6. ASSUME NEW i \in 1 .. Len(g) - Len(u) PROVE t - g[i].ts > Window
  <2>1. i \in 1 .. Len(h) /\ i \in 1 .. Len(h) - Len(s)
    BY <1>1, <1>2, <1>3, <1>4
  <2> QED BY <1>1, <1>3, <2>1
<1>7. TailOf(u, g, t)
  BY <1>4, <1>5, <1>6 DEF TailOf
<1> QED BY <1>7 DEF g, u

\* popleft leaves the end of the history that is in the window, and nothing else.
LEMMA FreshIs ==
    ASSUME NEW h \in Seq(Sample), NEW s \in Seq(Sample), now \in Nat,
           Chronicle(h, now), TailOf(s, h, now)
    PROVE  /\ Breaker!Fresh(s) \in Seq(Sample)
           /\ TailOf(Breaker!Fresh(s), h, now)
           /\ \A i \in 1 .. Len(h) :
                 now - h[i].ts <= Window <=> i > Len(h) - Len(Breaker!Fresh(s))
<1> DEFINE S == {k \in 1 .. Len(s) + 1 : k <= Len(s) => now - s[k].ts <= Window}
           k == Breaker!Min(S)
           w == SubSeq(s, k, Len(s))
           m == Len(h) - Len(s)
<1>0. Len(s) \in Nat /\ Len(h) \in Nat
  OBVIOUS
<1>1. S \subseteq Nat /\ Len(s) + 1 \in S
  BY <1>0
<1>2. k \in S /\ \A n \in S : k <= n
  <2> HIDE DEF S
  <2>1. \E x \in S : \A y \in S : x <= y
    BY <1>1, LeastNat
  <2> QED BY <2>1 DEF Breaker!Min
<1>3. Breaker!Fresh(s) = w
  BY DEF Breaker!Fresh
<1>4. k \in 1 .. Len(s) + 1 /\ (k <= Len(s) => now - s[k].ts <= Window)
  BY <1>2
<1>5. \A i \in 1 .. Len(s) : i < k => ~(now - s[i].ts <= Window)
  <2> SUFFICES ASSUME NEW i \in 1 .. Len(s), i < k, now - s[i].ts <= Window PROVE FALSE
    OBVIOUS
  <2>1. i \in S
    BY <1>0
  <2> QED BY <1>1, <1>2, <2>1
<1> HIDE DEF k
<1>6. /\ w \in Seq(Sample) /\ Len(w) = Len(s) - k + 1
      /\ \A i \in 1 .. Len(s) - k + 1 : w[i] = s[k + i - 1]
  BY <1>4, SuffixOf
<1>7. /\ Len(s) <= Len(h)
      /\ \A i \in 1 .. Len(s) : s[i] = h[m + i]
      /\ \A i \in 1 .. m : now - h[i].ts > Window
  BY DEF TailOf
<1>8. m \in Nat /\ k \in Nat /\ Len(h) - Len(w) = m + k - 1 /\ m + Len(s) = Len(h)
  BY <1>0, <1>4, <1>6, <1>7
<1> HIDE DEF w, m, S
<1>9. \A i \in 1 .. Len(h) : h[i].ts \in Nat /\ now - h[i].ts \in Int /\ h[i] \in Sample
  <2> SUFFICES ASSUME NEW i \in 1 .. Len(h)
               PROVE  h[i].ts \in Nat /\ now - h[i].ts \in Int /\ h[i] \in Sample
    OBVIOUS
  <2>1. h[i] \in Sample
    OBVIOUS
  <2>2. h[i].ts \in Nat
    BY <2>1 DEF Sample
  <2> QED BY <2>1, <2>2
<1>10. ASSUME NEW i \in 1 .. Len(h), i > m + k - 1 PROVE now - h[i].ts <= Window
  <2>1. k <= Len(s) /\ k \in 1 .. Len(s) /\ m + k \in 1 .. Len(h) /\ i \in m + k .. Len(h)
    BY <1>0, <1>4, <1>8, <1>10
  <2>2. h[m + k].ts <= h[i].ts
    BY <2>1 DEF Chronicle
  <2>3. now - h[m + k].ts <= Window
    BY <1>4, <1>7, <2>1
  <2>4. h[i].ts \in Nat /\ h[m + k].ts \in Nat
    BY <1>9, <2>1
  <2> QED BY <2>2, <2>3, <2>4, BreakerConstants
<1>11. ASSUME NEW i \in 1 .. Len(h), i <= m + k - 1 PROVE now - h[i].ts > Window
  <2>1. CASE i <= m
    BY <1>7, <1>8, <2>1
  <2>2. CASE ~(i <= m)
    <3>1. i - m \in 1 .. Len(s) /\ i - m < k /\ m + (i - m) = i
      BY <1>0, <1>4, <1>8, <1>11, <2>2
    <3>2. s[i - m] = h[i]
      BY <1>7, <3>1
    <3>3. ~(now - h[i].ts <= Window)
      BY <1>5, <3>1, <3>2
    <3> QED BY <1>9, <3>3, BreakerConstants
  <2> QED BY <2>1, <2>2
<1>12. \A i \in 1 .. Len(h) : now - h[i].ts <= Window <=> i > Len(h) - Len(w)
  <2> SUFFICES ASSUME NEW i \in 1 .. Len(h)
               PROVE  now - h[i].ts <= Window <=> i > m + k - 1
    BY <1>8
  <2>1. CASE i > m + k - 1
    BY <1>10, <2>1
  <2>2. CASE ~(i > m + k - 1)
    <3>1. i <= m + k - 1
      BY <1>8, <2>2
    <3>2. now - h[i].ts > Window
      BY <1>11, <3>1
    <3> QED BY <1>9, <2>2, <3>2, BreakerConstants
  <2> QED BY <2>1, <2>2
<1>13. TailOf(w, h, now)
  <2>1. Len(w) <= Len(h)
    BY <1>0, <1>4, <1>6, <1>7
  <2>2. ASSUME NEW i \in 1 .. Len(w) PROVE w[i] = h[Len(h) - Len(w) + i]
    <3>1. i \in 1 .. Len(s) - k + 1 /\ k + i - 1 \in 1 .. Len(s)
            /\ m + (k + i - 1) = Len(h) - Len(w) + i
      <4>1. Len(w) \in Nat /\ Len(w) = Len(s) - k + 1
        BY <1>6
      <4>2. i \in Nat /\ i >= 1 /\ i <= Len(s) - k + 1
        BY <4>1
      <4> QED BY <4>2, <1>0, <1>4, <1>8
    <3>2. w[i] = s[k + i - 1] /\ s[k + i - 1] = h[m + (k + i - 1)]
      BY <1>6, <1>7, <3>1
    <3> QED BY <3>1, <3>2
  <2>3. ASSUME NEW i \in 1 .. Len(h) - Len(w) PROVE now - h[i].ts > Window
    <3>1. i \in 1 .. Len(h) /\ i <= m + k - 1
      BY <1>0, <1>4, <1>8
    <3> QED BY <1>11, <3>1
  <2> QED BY <2>1, <2>2, <2>3 DEF TailOf
<1> QED BY <1>3, <1>6, <1>12, <1>13

\* A queue that is the end of the history in the window counts what the window holds.
LEMMA TailCounts ==
    ASSUME NEW h \in Seq(Sample), h # <<>>, NEW w \in Seq(Sample), TailOf(w, h, h[Len(h)].ts),
           \A i \in 1 .. Len(h) :
              h[Len(h)].ts - h[i].ts <= Window <=> i > Len(h) - Len(w)
    PROVE  /\ Cardinality(WindowOf(h, Len(h))) = Len(w)
           /\ Cardinality(FailuresOf(h, Len(h))) = Cardinality({i \in DOMAIN w : ~w[i].ok})
<1> DEFINE n == Len(h)
           m == Len(h) - Len(w)
           F == {i \in DOMAIN w : ~w[i].ok}
<1>1. /\ n \in Nat /\ Len(w) \in Nat /\ Len(w) <= n /\ m \in Nat /\ m + Len(w) = n
      /\ DOMAIN w = 1 .. Len(w)
  BY DEF TailOf
<1>2. WindowOf(h, n) = m + 1 .. n
  <2>1. WindowOf(h, n) = {i \in 1 .. n : i > m}
    BY DEF WindowOf
  <2>2. {i \in 1 .. n : i > m} = m + 1 .. n
    BY <1>1
  <2> QED BY <2>1, <2>2
<1>3. IsFiniteSet(m + 1 .. n) /\ Cardinality(m + 1 .. n) = Len(w)
  <2>0. m + 1 \in Int /\ n \in Int
    BY <1>1
  <2> HIDE DEF m, n
  <2>1. /\ IsFiniteSet(m + 1 .. n)
        /\ Cardinality(m + 1 .. n) = IF m + 1 > n THEN 0 ELSE n - (m + 1) + 1
    BY <2>0, FS_Interval
  <2>2. (IF m + 1 > n THEN 0 ELSE n - (m + 1) + 1) = Len(w)
    BY <1>1
  <2> QED BY <2>1, <2>2
<1>4. \A i \in 1 .. Len(w) : w[i] = h[m + i]
  BY DEF TailOf
<1>5. FailuresOf(h, n) = {i \in m + 1 .. n : ~h[i].ok}
  BY <1>2 DEF FailuresOf
<1>6. IsFiniteSet(F)
  <2>1. IsFiniteSet(1 .. Len(w))
    <3>1. 1 \in Int /\ Len(w) \in Int
      BY <1>1
    <3> QED BY <3>1, FS_Interval
  <2>2. F \subseteq 1 .. Len(w)
    BY <1>1
  <2> QED BY <2>1, <2>2, FS_Subset
<1> HIDE DEF n, m
<1>7. ExistsBijection(F, FailuresOf(h, n))
  <2> DEFINE shift == [i \in F |-> m + i]
  <2>1. \A i \in F : i \in 1 .. Len(w) /\ ~w[i].ok
    BY <1>1
  <2>2. \A i \in F : m + i \in FailuresOf(h, n)
    <3> SUFFICES ASSUME NEW i \in F PROVE m + i \in m + 1 .. n /\ ~h[m + i].ok
      BY <1>5
    <3> QED BY <1>1, <1>4, <2>1
  <2>3. \A i, j \in F : m + i = m + j => i = j
    BY <1>1, <2>1
  <2>4. ASSUME NEW j \in FailuresOf(h, n) PROVE \E i \in F : m + i = j
    <3>1. j \in m + 1 .. n /\ ~h[j].ok
      BY <1>5
    <3>2. j - m \in 1 .. Len(w) /\ m + (j - m) = j
      BY <1>1, <3>1
    <3>3. j - m \in F
      BY <1>1, <1>4, <3>1, <3>2
    <3> QED BY <3>2, <3>3
  <2> HIDE DEF F
  <2>5. shift \in Bijection(F, FailuresOf(h, n))
    <3>1. shift \in [F -> FailuresOf(h, n)]
      BY <2>2
    <3>2. shift \in Injection(F, FailuresOf(h, n))
      <4>1. \A i \in F : shift[i] = m + i
        OBVIOUS
      <4> HIDE DEF shift
      <4>2. ASSUME NEW i \in F, NEW j \in F, shift[i] = shift[j] PROVE i = j
        BY <2>3, <4>1, <4>2
      <4> QED BY <3>1, <4>2 DEF Injection, IsInjective
    <3>3. shift \in Surjection(F, FailuresOf(h, n))
      BY <2>4, <3>1 DEF Surjection
    <3> QED BY <3>2, <3>3 DEF Bijection
  <2> QED BY <2>5 DEF ExistsBijection
<1> HIDE DEF F
<1>8. Cardinality(FailuresOf(h, n)) = Cardinality(F)
  BY <1>6, <1>7, FS_Bijection
<1> QED BY <1>2, <1>3, <1>8 DEF n, F

\* What was due at an earlier moment stays so when the history grows.
LEMMA DueStays ==
    ASSUME NEW h \in Seq(Sample), NEW x \in Sample, NEW k \in 1 .. Len(h)
    PROVE  /\ RunTrips(Append(h, x), k) <=> RunTrips(h, k)
           /\ WindowTrips(Append(h, x), k) <=> WindowTrips(h, k)
<1> DEFINE g == Append(h, x)
<1>1. Len(h) \in Nat /\ \A i \in 1 .. Len(h) : g[i] = h[i]
  BY AppendIs
<1>2. \A i \in 1 .. k : i \in 1 .. Len(h) /\ g[i] = h[i]
  BY <1>1
<1> HIDE DEF g
<1>3. RunTrips(g, k) <=> RunTrips(h, k)
  <2>1. ASSUME k >= MaxFailures, NEW i \in k - MaxFailures + 1 .. k PROVE g[i] = h[i]
    BY <1>1, <1>2, <2>1, BreakerConstants
  <2> QED BY <2>1 DEF RunTrips
<1>4. WindowOf(g, k) = WindowOf(h, k)
  <2>1. g[k] = h[k]
    BY <1>1
  <2> QED BY <1>2, <2>1 DEF WindowOf
<1>5. FailuresOf(g, k) = FailuresOf(h, k)
  <2>1. \A i \in WindowOf(h, k) : i \in 1 .. k
    BY DEF WindowOf
  <2> QED BY <1>2, <1>4, <2>1 DEF FailuresOf
<1> QED BY <1>3, <1>4, <1>5 DEF WindowTrips, g

LEMMA LossStays ==
    ASSUME NEW r \in Seq(Result), NEW x \in Result, NEW k \in 1 .. Len(r)
    PROVE  /\ LossesOf(Append(r, x), k) = LossesOf(r, k)
           /\ LossTrips(Append(r, x), k) <=> LossTrips(r, k)
<1> DEFINE g == Append(r, x)
<1>1. Len(r) \in Nat /\ \A i \in 1 .. Len(r) : g[i] = r[i]
  BY AppendIs
<1>2. \A i \in 1 .. k : i \in 1 .. Len(r) /\ g[i] = r[i]
  BY <1>1
<1> HIDE DEF g
<1>3. \A i \in 1 .. k : \A j \in i .. k : j \in 1 .. k
  BY <1>1
<1>4. LossesOf(g, k) = LossesOf(r, k)
  BY <1>2, <1>3 DEF LossesOf
<1>5. g[k] = r[k]
  BY <1>1
<1> QED BY <1>4, <1>5 DEF LossTrips, g

\* The counter of failures after one more outcome.
LEMMA StreakGrows ==
    ASSUME NEW h \in Seq(Sample), NEW x \in Sample, NEW f, StreakOf(h, f)
    PROVE  StreakOf(Append(h, x), IF x.ok THEN 0 ELSE f + 1)
<1> DEFINE g == Append(h, x)
<1>1. /\ Len(g) = Len(h) + 1 /\ Len(h) \in Nat
      /\ g[Len(h) + 1] = x /\ \A i \in 1 .. Len(h) : g[i] = h[i]
  BY AppendIs
<1> HIDE DEF g
<1>2. CASE x.ok
  <2>1. 0 \in 0 .. Len(g) /\ Len(g) - 0 = Len(h) + 1 /\ Len(g) - 0 + 1 .. Len(g) = {}
    BY <1>1
  <2>2. StreakOf(g, 0)
    BY <1>1, <1>2, <2>1 DEF StreakOf
  <2> QED BY <1>2, <2>2 DEF g
<1>3. CASE ~x.ok
  <2>1. f \in 0 .. Len(h) /\ f + 1 \in 0 .. Len(g)
    BY <1>1 DEF StreakOf
  <2>2. ASSUME NEW i \in Len(g) - (f + 1) + 1 .. Len(g) PROVE ~g[i].ok
    <3>1. CASE i = Len(h) + 1
      BY <1>1, <1>3, <3>1
    <3>2. CASE i # Len(h) + 1
      <4>1. i \in 1 .. Len(h) /\ i \in Len(h) - f + 1 .. Len(h)
        BY <1>1, <2>1, <3>2
      <4> QED BY <1>1, <4>1 DEF StreakOf
    <3> QED BY <3>1, <3>2
  <2>3. ASSUME f + 1 < Len(g) PROVE g[Len(g) - (f + 1)].ok
    <3>1. f < Len(h) /\ Len(g) - (f + 1) = Len(h) - f /\ Len(h) - f \in 1 .. Len(h)
      BY <1>1, <2>1, <2>3
    <3>2. g[Len(h) - f] = h[Len(h) - f] /\ h[Len(h) - f].ok
      BY <1>1, <3>1 DEF StreakOf
    <3> QED BY <3>1, <3>2
  <2>4. StreakOf(g, f + 1)
    BY <2>1, <2>2, <2>3 DEF StreakOf
  <2> QED BY <1>3, <2>4 DEF g
<1>4. x.ok \in BOOLEAN
  BY DEF Sample
<1> QED BY <1>2, <1>3, <1>4

LEMMA StreakTrips ==
    ASSUME NEW h \in Seq(Sample), NEW f, StreakOf(h, f)
    PROVE  f >= MaxFailures <=> RunTrips(h, Len(h))
<1>1. Len(h) \in Nat /\ f \in 0 .. Len(h)
  BY DEF StreakOf
<1>2. ASSUME f >= MaxFailures PROVE RunTrips(h, Len(h))
  <2>1. Len(h) >= MaxFailures
    BY <1>1, <1>2, BreakerConstants
  <2>2. \A i \in Len(h) - MaxFailures + 1 .. Len(h) : i \in Len(h) - f + 1 .. Len(h)
    BY <1>1, <1>2, BreakerConstants
  <2> QED BY <2>1, <2>2 DEF RunTrips, StreakOf
<1>3. ASSUME RunTrips(h, Len(h)), ~(f >= MaxFailures) PROVE FALSE
  <2>1. Len(h) >= MaxFailures
    BY <1>3 DEF RunTrips
  <2>2. f < Len(h) /\ Len(h) - f \in Len(h) - MaxFailures + 1 .. Len(h)
    BY <1>1, <1>3, <2>1, BreakerConstants
  <2> QED BY <1>3, <2>2 DEF RunTrips, StreakOf
<1> QED BY <1>2, <1>3

\* The counter of losses after one more result.
LEMMA LossesGrow ==
    ASSUME NEW r \in Seq(Result), NEW x \in Result
    PROVE  LET n == Len(r)
               g == Append(r, x)
           IN  /\ IsFiniteSet(LossesOf(r, n)) /\ n + 1 \notin LossesOf(r, n)
               /\ x.pnl = "loss" => LossesOf(g, n + 1) = LossesOf(r, n) \union {n + 1}
               /\ x.pnl = "none" => LossesOf(g, n + 1) = LossesOf(r, n)
               /\ x.pnl \notin {"loss", "none"} => LossesOf(g, n + 1) = {}
<1> DEFINE n == Len(r)
           g == Append(r, x)
<1>1. n \in Nat /\ g[n + 1] = x /\ \A i \in 1 .. n : g[i] = r[i]
  BY AppendIs
<1> HIDE DEF n, g
<1>2. IsFiniteSet(LossesOf(r, n)) /\ n + 1 \notin LossesOf(r, n)
  <2>1. 1 \in Int /\ n \in Int
    BY <1>1
  <2>2. IsFiniteSet(1 .. n)
    BY <2>1, FS_Interval
  <2>3. LossesOf(r, n) \subseteq 1 .. n
    BY DEF LossesOf
  <2>4. n + 1 \notin 1 .. n
    BY <1>1
  <2> QED BY <2>2, <2>3, <2>4, FS_Subset
<1>3. ASSUME NEW i \in 1 .. n, x.pnl \in {"loss", "none"}
      PROVE  (\A j \in i .. n + 1 : g[j].pnl \in {"loss", "none"})
               <=> (\A j \in i .. n : r[j].pnl \in {"loss", "none"})
  <2>1. ASSUME NEW j \in i .. n + 1
        PROVE  \/ j = n + 1
               \/ j \in i .. n /\ g[j] = r[j]
    <3>1. j = n + 1 \/ (j \in i .. n /\ j \in 1 .. n)
      BY <1>1
    <3> QED BY <1>1, <3>1
  <2>2. \A j \in i .. n : j \in i .. n + 1 /\ j # n + 1
    BY <1>1
  <2> QED BY <1>1, <1>3, <2>1, <2>2
<1>4. ASSUME NEW i PROVE i \in 1 .. n + 1 <=> i = n + 1 \/ i \in 1 .. n
  BY <1>1
<1>5. \A j \in n + 1 .. n + 1 : j = n + 1
  BY <1>1
<1>6. ASSUME NEW i
      PROVE  i \in LossesOf(g, n + 1)
               <=> /\ i = n + 1 \/ i \in 1 .. n
                   /\ g[i].pnl = "loss"
                   /\ \A j \in i .. n + 1 : g[j].pnl \in {"loss", "none"}
  BY <1>4 DEF LossesOf
<1>7. ASSUME NEW i
      PROVE  i \in LossesOf(r, n)
               <=> /\ i \in 1 .. n
                   /\ r[i].pnl = "loss"
                   /\ \A j \in i .. n : r[j].pnl \in {"loss", "none"}
  BY DEF LossesOf
<1>8. ASSUME NEW i \in 1 .. n, x.pnl \in {"loss", "none"}
      PROVE  i \in LossesOf(g, n + 1) <=> i \in LossesOf(r, n)
  <2>1. g[i] = r[i]
    BY <1>1
  <2> QED BY Zenon, <1>3, <1>6, <1>7, <1>8, <2>1
<1>9. n + 1 \in LossesOf(g, n + 1) <=> x.pnl = "loss"
  <2>1. g[n + 1] = x
    BY <1>1
  <2> QED BY Zenon, <1>5, <1>6, <2>1
<1>10. ASSUME x.pnl = "loss" PROVE LossesOf(g, n + 1) = LossesOf(r, n) \union {n + 1}
  <2>1. ASSUME NEW i PROVE i \in LossesOf(g, n + 1) <=> i \in LossesOf(r, n) \/ i = n + 1
    BY <1>6, <1>7, <1>8, <1>9, <1>10
  <2> QED BY <2>1
<1>11. ASSUME x.pnl = "none" PROVE LossesOf(g, n + 1) = LossesOf(r, n)
  <2>1. ASSUME NEW i PROVE i \in LossesOf(g, n + 1) <=> i \in LossesOf(r, n)
    BY <1>2, <1>6, <1>7, <1>8, <1>9, <1>11
  <2> QED BY <2>1
<1>12. ASSUME x.pnl \notin {"loss", "none"} PROVE LossesOf(g, n + 1) = {}
  <2>1. ASSUME NEW i \in LossesOf(g, n + 1) PROVE FALSE
    <3>1. (i = n + 1 \/ i \in 1 .. n) /\ \A j \in i .. n + 1 : g[j].pnl \in {"loss", "none"}
      BY <1>6
    <3>2. n + 1 \in i .. n + 1
      BY <1>1, <3>1
    <3> QED BY <1>1, <1>12, <3>1, <3>2
  <2> QED BY <2>1
<1> QED BY <1>2, <1>10, <1>11, <1>12 DEF n, g

LEMMA BreakerInvInit == Breaker!BreakerInit => BreakerInv
<1> SUFFICES ASSUME Breaker!BreakerInit PROVE BreakerInv
  OBVIOUS
<1>1. /\ now = 0 /\ samples = <<>> /\ failures = 0 /\ losses = 0 /\ latch = FALSE
      /\ threshold \in Thresholds /\ outcomes = <<>> /\ results = <<>>
  BY DEF Breaker!BreakerInit
<1>2. \A T : <<>> \in Seq(T) /\ Len(<<>>) = 0 /\ 1 .. 0 = {}
  OBVIOUS
<1>3. Chronicle(outcomes, now) /\ TailOf(samples, outcomes, now)
  BY <1>1 DEF Chronicle, TailOf
<1>4. StreakOf(outcomes, failures)
  BY <1>1 DEF StreakOf
<1>5. losses = Cardinality(LossesOf(results, Len(results)))
  <2>1. LossesOf(results, Len(results)) = {}
    BY <1>1 DEF LossesOf
  <2> QED BY <1>1, <2>1, FS_EmptySet
<1>6. \A k : k \notin 1 .. Len(outcomes) /\ k \notin 1 .. Len(results)
  BY <1>1
<1>7. /\ now \in Nat /\ losses \in Nat /\ threshold \in Nat /\ latch \in BOOLEAN
      /\ outcomes \in Seq(Sample) /\ samples \in Seq(Sample) /\ results \in Seq(Result)
  BY <1>1, <1>2, BreakerConstants
<1>8. latch <=> \/ \E k \in 1 .. Len(outcomes) : RunTrips(outcomes, k) \/ WindowTrips(outcomes, k)
                \/ \E k \in 1 .. Len(results) : LossTrips(results, k)
  BY <1>1, <1>6
<1> QED BY <1>3, <1>4, <1>5, <1>7, <1>8 DEF BreakerInv

\* An outcome is recorded: what the latch is told is what the histories say.
LEMMA RecordKeepsInv ==
    ASSUME BreakerInv, NEW ok \in BOOLEAN, Breaker!Record(ok)
    PROVE  BreakerInv'
<1> DEFINE x == [ts |-> now, ok |-> ok]
           g == Append(outcomes, x)
           w == Breaker!Fresh(Append(samples, x))
           f == IF x.ok THEN 0 ELSE failures + 1
           n == Len(outcomes)
           Due(h, k) == RunTrips(h, k) \/ WindowTrips(h, k)
<1>1. /\ now \in Nat /\ losses \in Nat /\ threshold \in Nat /\ latch \in BOOLEAN
      /\ outcomes \in Seq(Sample) /\ samples \in Seq(Sample) /\ results \in Seq(Result)
      /\ Chronicle(outcomes, now) /\ TailOf(samples, outcomes, now)
      /\ StreakOf(outcomes, failures)
      /\ losses = Cardinality(LossesOf(results, Len(results)))
  BY DEF BreakerInv
<1>2. /\ samples' = w /\ failures' = f /\ outcomes' = g
      /\ latch' = (latch \/ Breaker!Trips(f, w))
      /\ UNCHANGED <<now, losses, threshold, results>>
  <2>1. x.ok = ok
    OBVIOUS
  <2> QED BY <2>1 DEF Breaker!Record, Breaker!Streak
<1>3. x \in Sample /\ x.ts = now
  BY <1>1 DEF Sample
<1>4. g \in Seq(Sample) /\ Append(samples, x) \in Seq(Sample) /\ n \in Nat /\ Len(g) = n + 1
      /\ g[n + 1] = x /\ \A i \in 1 .. n : g[i] = outcomes[i]
  BY <1>1, <1>3, AppendIs
<1>5. Chronicle(g, now)
  BY <1>1, <1>3, ChronicleGrows
<1>6. TailOf(Append(samples, x), g, now)
  BY <1>1, <1>3, TailGrows
<1>7. StreakOf(g, f)
  BY <1>1, <1>3, StreakGrows
<1> HIDE DEF g, f, x
<1>8. /\ w \in Seq(Sample) /\ TailOf(w, g, now)
      /\ \A i \in 1 .. Len(g) : now - g[i].ts <= Window <=> i > Len(g) - Len(w)
  BY <1>1, <1>4, <1>5, <1>6, FreshIs
<1> HIDE DEF w
<1>9. g[Len(g)].ts = now /\ g # <<>>
  BY <1>3, <1>4
<1>10. /\ Cardinality(WindowOf(g, Len(g))) = Len(w)
       /\ Cardinality(FailuresOf(g, Len(g))) = Cardinality({i \in DOMAIN w : ~w[i].ok})
  BY <1>4, <1>8, <1>9, TailCounts
<1>11. Breaker!Failed(w) = Cardinality(FailuresOf(g, Len(g)))
  <2>1. \A S : Breaker!Cardinality(S) = Cardinality(S)
    BY DEF Breaker!Cardinality, Cardinality
  <2> QED BY <1>10, <2>1 DEF Breaker!Failed
<1>12. f >= MaxFailures <=> RunTrips(g, Len(g))
  BY <1>4, <1>7, StreakTrips
<1>13. Breaker!Trips(f, w) <=> Due(g, n + 1)
  BY <1>4, <1>10, <1>11, <1>12 DEF Breaker!Trips, WindowTrips, RatioTrips
<1>14. \A k \in 1 .. n : Due(g, k) <=> Due(outcomes, k)
  BY <1>1, <1>3, DueStays DEF g
<1> HIDE DEF Due
<1>15. (\E k \in 1 .. Len(g) : Due(g, k))
        <=> (\E k \in 1 .. n : Due(outcomes, k)) \/ Due(g, n + 1)
  <2>1. \A k : k \in 1 .. Len(g) <=> k = n + 1 \/ k \in 1 .. n
    BY <1>4
  <2> QED BY <1>14, <2>1
<1>16. latch <=> (\E k \in 1 .. n : Due(outcomes, k))
                 \/ \E k \in 1 .. Len(results) : LossTrips(results, k)
  BY DEF BreakerInv, Due
<1>17. latch' \in BOOLEAN
       /\ (latch' <=> (\E k \in 1 .. Len(g) : Due(g, k))
                     \/ \E k \in 1 .. Len(results) : LossTrips(results, k))
  BY <1>2, <1>13, <1>15, <1>16
<1>18. /\ (\E k \in 1 .. Len(outcomes) : Due(outcomes, k))'
            <=> \E k \in 1 .. Len(g) : Due(g, k)
       /\ (\E k \in 1 .. Len(results) : LossTrips(results, k))'
            <=> \E k \in 1 .. Len(results) : LossTrips(results, k)
       /\ Chronicle(outcomes, now)' <=> Chronicle(g, now)
       /\ TailOf(samples, outcomes, now)' <=> TailOf(w, g, now)
       /\ StreakOf(outcomes, failures)' <=> StreakOf(g, f)
       /\ Cardinality(LossesOf(results, Len(results)))'
            = Cardinality(LossesOf(results, Len(results)))
  BY <1>2 DEF Due, RunTrips, WindowTrips, RatioTrips, WindowOf, FailuresOf, LossTrips, LossesOf,
              Chronicle, TailOf, StreakOf
<1> QED BY <1>1, <1>2, <1>4, <1>5, <1>7, <1>8, <1>17, <1>18 DEF BreakerInv, Due

\* A result is recorded: only a loss counts, and it is compared with the threshold of then.
LEMMA RecordPnlKeepsInv ==
    ASSUME BreakerInv, NEW pnl \in Breaker!Pnls, Breaker!RecordPnl(pnl)
    PROVE  BreakerInv'
<1> DEFINE x == [pnl |-> pnl, threshold |-> threshold]
           g == Append(results, x)
           f == Breaker!LossStreak(pnl)
           n == Len(results)
           Due(h, k) == RunTrips(h, k) \/ WindowTrips(h, k)
<1>1. /\ now \in Nat /\ losses \in Nat /\ threshold \in Nat /\ latch \in BOOLEAN
      /\ outcomes \in Seq(Sample) /\ samples \in Seq(Sample) /\ results \in Seq(Result)
      /\ Chronicle(outcomes, now) /\ TailOf(samples, outcomes, now)
      /\ StreakOf(outcomes, failures)
      /\ losses = Cardinality(LossesOf(results, n))
  BY DEF BreakerInv
<1>2. /\ results' = g /\ losses' = f
      /\ latch' = (latch \/ (pnl = "loss" /\ f >= threshold))
      /\ UNCHANGED <<now, samples, failures, threshold, outcomes>>
  BY DEF Breaker!RecordPnl
<1>3. x \in Result /\ x.pnl = pnl /\ x.threshold = threshold
  BY <1>1 DEF Result
<1>4. g \in Seq(Result) /\ n \in Nat /\ Len(g) = n + 1 /\ g[n + 1] = x
  BY <1>1, <1>3, AppendIs
<1>5. /\ IsFiniteSet(LossesOf(results, n)) /\ n + 1 \notin LossesOf(results, n)
      /\ x.pnl = "loss" => LossesOf(g, n + 1) = LossesOf(results, n) \union {n + 1}
      /\ x.pnl = "none" => LossesOf(g, n + 1) = LossesOf(results, n)
      /\ x.pnl \notin {"loss", "none"} => LossesOf(g, n + 1) = {}
  BY <1>1, <1>3, LossesGrow
<1>6. \A k \in 1 .. n : LossTrips(g, k) <=> LossTrips(results, k)
  BY <1>1, <1>3, LossStays
<1> HIDE DEF g, x, n
<1>7. f = Cardinality(LossesOf(g, n + 1)) /\ f \in Nat
  <2>1. CASE pnl = "loss"
    <3>1. f = losses + 1
      BY <2>1 DEF Breaker!LossStreak
    <3>2. Cardinality(LossesOf(results, n) \union {n + 1}) = Cardinality(LossesOf(results, n)) + 1
      BY <1>5, FS_AddElement
    <3> HIDE DEF f
    <3>3. LossesOf(g, n + 1) = LossesOf(results, n) \union {n + 1}
      BY <1>3, <1>5, <2>1
    <3>4. f = Cardinality(LossesOf(g, n + 1))
      BY <1>1, <3>1, <3>2, <3>3
    <3> QED BY <1>1, <3>1, <3>4
  <2>2. CASE pnl = "none"
    <3>1. f = losses
      BY <2>2 DEF Breaker!LossStreak
    <3> QED BY <1>1, <1>3, <1>5, <2>2, <3>1
  <2>3. CASE pnl \notin {"loss", "none"}
    <3>1. f = 0
      BY <2>3 DEF Breaker!LossStreak
    <3> QED BY <1>3, <1>5, <2>3, <3>1, FS_EmptySet
  <2> QED BY <2>1, <2>2, <2>3
<1> HIDE DEF f
<1>8. LossTrips(g, n + 1) <=> pnl = "loss" /\ f >= threshold
  BY <1>3, <1>4, <1>7 DEF LossTrips
<1>9. (\E k \in 1 .. Len(g) : LossTrips(g, k))
        <=> (\E k \in 1 .. n : LossTrips(results, k)) \/ LossTrips(g, n + 1)
  <2>1. \A k : k \in 1 .. Len(g) <=> k = n + 1 \/ k \in 1 .. n
    BY <1>4
  <2> QED BY <1>6, <2>1
<1> HIDE DEF Due
<1>10. latch <=> (\E k \in 1 .. Len(outcomes) : Due(outcomes, k))
                 \/ \E k \in 1 .. n : LossTrips(results, k)
  BY DEF BreakerInv, Due, n
<1>11. latch' \in BOOLEAN
       /\ (latch' <=> (\E k \in 1 .. Len(outcomes) : Due(outcomes, k))
                     \/ \E k \in 1 .. Len(g) : LossTrips(g, k))
  BY <1>2, <1>8, <1>9, <1>10
<1>12. /\ (\E k \in 1 .. Len(outcomes) : Due(outcomes, k))'
            <=> \E k \in 1 .. Len(outcomes) : Due(outcomes, k)
       /\ (\E k \in 1 .. Len(results) : LossTrips(results, k))'
            <=> \E k \in 1 .. Len(g) : LossTrips(g, k)
       /\ Chronicle(outcomes, now)' <=> Chronicle(outcomes, now)
       /\ TailOf(samples, outcomes, now)' <=> TailOf(samples, outcomes, now)
       /\ StreakOf(outcomes, failures)' <=> StreakOf(outcomes, failures)
       /\ Cardinality(LossesOf(results, Len(results)))' = Cardinality(LossesOf(g, n + 1))
  BY <1>2, <1>4 DEF Due, RunTrips, WindowTrips, RatioTrips, WindowOf, FailuresOf, LossTrips,
                    LossesOf, Chronicle, TailOf, StreakOf
<1> QED BY <1>1, <1>2, <1>4, <1>7, <1>11, <1>12 DEF BreakerInv, Due

\* Time passes: what was out of the window stays out.
LEMMA TickKeepsInv == ASSUME BreakerInv, Breaker!Tick PROVE BreakerInv'
<1>1. now \in Nat /\ outcomes \in Seq(Sample) /\ samples \in Seq(Sample)
      /\ Chronicle(outcomes, now) /\ TailOf(samples, outcomes, now)
  BY DEF BreakerInv
<1>2. /\ now' = now + 1
      /\ UNCHANGED <<samples, failures, losses, latch, threshold, outcomes, results>>
  BY DEF Breaker!Tick
<1>3. \A i \in 1 .. Len(outcomes) : outcomes[i].ts \in Nat
  <2>1. \A i \in 1 .. Len(outcomes) : outcomes[i] \in Sample
    BY <1>1
  <2> QED BY <2>1 DEF Sample
<1>4. Chronicle(outcomes, now + 1)
  BY <1>1, <1>3 DEF Chronicle
<1>5. TailOf(samples, outcomes, now + 1)
  <2>1. \A i \in 1 .. Len(outcomes) - Len(samples) : i \in 1 .. Len(outcomes)
    BY <1>1
  <2>2. \A i \in 1 .. Len(outcomes) - Len(samples) : (now + 1) - outcomes[i].ts > Window
    BY <1>1, <1>3, <2>1, BreakerConstants DEF TailOf
  <2>3. Len(samples) <= Len(outcomes)
        /\ \A i \in 1 .. Len(samples) : samples[i] = outcomes[Len(outcomes) - Len(samples) + i]
    BY <1>1 DEF TailOf
  <2> QED BY <2>2, <2>3 DEF TailOf
<1>6. now' \in Nat /\ Chronicle(outcomes, now)' /\ TailOf(samples, outcomes, now)'
  BY <1>1, <1>2, <1>4, <1>5
<1> QED BY <1>2, <1>6
        DEF BreakerInv, StreakOf, LossesOf, LossTrips, RunTrips, WindowTrips, RatioTrips, WindowOf,
            FailuresOf

LEMMA BreakerInvStep == BreakerInv /\ [Breaker!BreakerNext]_breakerVars => BreakerInv'
<1> SUFFICES ASSUME BreakerInv, [Breaker!BreakerNext]_breakerVars PROVE BreakerInv'
  OBVIOUS
<1>1. CASE \E ok \in BOOLEAN : Breaker!Record(ok)
  BY <1>1, RecordKeepsInv
<1>2. CASE \E pnl \in Breaker!Pnls : Breaker!RecordPnl(pnl)
  BY <1>2, RecordPnlKeepsInv
<1>3. CASE Breaker!Reset
  <2>1. /\ samples' = <<>> /\ failures' = 0 /\ losses' = 0 /\ latch' = FALSE
        /\ outcomes' = <<>> /\ results' = <<>> /\ UNCHANGED <<now, threshold>>
    BY <1>3 DEF Breaker!Reset
  <2>2. now \in Nat /\ threshold \in Nat
    BY DEF BreakerInv
  <2>3. Len(<<>>) = 0 /\ <<>> \in Seq(Sample) /\ <<>> \in Seq(Result)
    OBVIOUS
  <2>4. Chronicle(<<>>, now) /\ TailOf(<<>>, <<>>, now) /\ StreakOf(<<>>, 0)
    BY <2>3 DEF Chronicle, TailOf, StreakOf
  <2>5. Cardinality(LossesOf(<<>>, 0)) = 0
    <3>1. LossesOf(<<>>, 0) = {}
      BY DEF LossesOf
    <3> QED BY <3>1, FS_EmptySet
  <2>6. \A k : k \notin 1 .. Len(<<>>)
    BY <2>3
  <2>7. Chronicle(outcomes, now)' /\ TailOf(samples, outcomes, now)' /\ StreakOf(outcomes, failures)'
        /\ losses' = Cardinality(LossesOf(results, Len(results)))'
    BY <2>1, <2>3, <2>4, <2>5
  <2>8. (latch <=> \/ \E k \in 1 .. Len(outcomes) : RunTrips(outcomes, k) \/ WindowTrips(outcomes, k)
                   \/ \E k \in 1 .. Len(results) : LossTrips(results, k))'
    BY <2>1, <2>6
  <2>9. /\ now' \in Nat /\ losses' \in Nat /\ threshold' \in Nat /\ latch' \in BOOLEAN
        /\ outcomes' \in Seq(Sample) /\ samples' \in Seq(Sample) /\ results' \in Seq(Result)
    BY <2>1, <2>2, <2>3 DEF Sample, Result
  <2>10. (now \in Nat /\ losses \in Nat /\ threshold \in Nat /\ latch \in BOOLEAN
         /\ outcomes \in Seq(Sample) /\ samples \in Seq(Sample) /\ results \in Seq(Result))'
    BY <2>9 DEF Sample, Result, Breaker!Pnls
  <2> QED BY <2>7, <2>8, <2>10 DEF BreakerInv
<1>4. CASE Breaker!EditThreshold
  <2>1. threshold' \in Nat /\ UNCHANGED <<now, samples, failures, losses, latch, outcomes, results>>
    BY <1>4, BreakerConstants DEF Breaker!EditThreshold
  <2> QED BY <2>1
        DEF BreakerInv, Chronicle, TailOf, StreakOf, LossesOf, LossTrips, RunTrips, WindowTrips,
            RatioTrips, WindowOf, FailuresOf
<1>5. CASE Breaker!Tick
  BY <1>5, TickKeepsInv
<1>6. CASE UNCHANGED breakerVars
  BY <1>6 DEF BreakerInv, breakerVars, Chronicle, TailOf, StreakOf, LossesOf, LossTrips, RunTrips,
              WindowTrips, RatioTrips, WindowOf, FailuresOf
<1> QED BY <1>1, <1>2, <1>3, <1>4, <1>5, <1>6 DEF Breaker!BreakerNext

\* The latch of the circuit breaker is set exactly when a run of failures, the failure
\* ratio of the window or a losing streak called for it at some moment since the last
\* reset: the deque and the two counters lose nothing that matters.
THEOREM BreakerTripsWhenDue == GuardsSpec => []TrippedExactlyWhenDue
<1>1. GuardsInit => BreakerInv
  BY BreakerInvInit DEF GuardsInit
<1>2. BreakerInv /\ [GuardsNext]_guardsVars => BreakerInv'
  BY BreakerStep, BreakerInvStep
<1> QED BY <1>1, <1>2, InvIsDue, PTL DEF GuardsSpec

-----------------------------------------------------------------------------
(* The prices and sizes of a spot hedge.                                   *)

LEMMA PricingConstants ==
    /\ AskLadders \union BidLadders \subseteq Seq(Pricing!Level)
    /\ \A l \in AskLadders : \A i, j \in DOMAIN l : i < j => l[i].price < l[j].price
    /\ \A l \in BidLadders : \A i, j \in DOMAIN l : i < j => l[i].price > l[j].price
    /\ Probes \subseteq Nat \ {0} /\ Amounts \subseteq Nat \ {0}
    /\ PriceBuffer \in 0 .. 100 /\ DepthRatio \in 0 .. 100 /\ PartialRatio \in 0 .. 100
    /\ Pricing!One = 100
BY GuardsAssumption DEF Pricing!PricingAssumption, Pricing!One

LEMMA BufferIs == PriceBuffer \in Nat /\ 100 + PriceBuffer \in Nat /\ 100 - PriceBuffer \in Nat
<1>1. PriceBuffer \in 0 .. 100
  BY PricingConstants
<1> QED BY <1>1

LEMMA UpTo ==
    ASSUME NEW n \in Nat, NEW Good, 0 \in Good,
           \A i \in 1 .. n : i - 1 \in Good => i \in Good
    PROVE  \A i \in 0 .. n : i \in Good
<1> DEFINE Bad == {i \in 0 .. n : i \notin Good}
<1> SUFFICES ASSUME Bad # {} PROVE FALSE
  OBVIOUS
<1>1. Bad \subseteq Nat
  OBVIOUS
<1>2. PICK i \in Bad : \A j \in Bad : i <= j
  <2> HIDE DEF Bad
  <2> QED BY <1>1, LeastNat
<1>3. i \in 1 .. n /\ i - 1 \in 0 .. n /\ ~(i <= i - 1)
  OBVIOUS
<1> QED BY <1>2, <1>3

\* got is the recursion of vwap_buy and vwap_sell: what was taken after each level.
Taken(got, l, want, i) == Pricing!Least(want - got[i - 1].size, l[i].size)

IsWalk(got, l, want) ==
    /\ got[0] = Pricing!Nothing
    /\ \A i \in 1 .. Len(l) :
          got[i] = [size |-> got[i - 1].size + Taken(got, l, want, i),
                    cost |-> got[i - 1].cost + Taken(got, l, want, i) * l[i].price]

LEMMA WalkIs ==
    ASSUME NEW l \in Seq(Pricing!Level), NEW want
    PROVE  \E got : IsWalk(got, l, want) /\ Pricing!Walk(l, want) = got[Len(l)]
<1> DEFINE n == Len(l)
           level(f, i) == [size |-> f[i - 1].size + Taken(f, l, want, i),
                           cost |-> f[i - 1].cost + Taken(f, l, want, i) * l[i].price]
           step(f, i) == IF i = 0 THEN Pricing!Nothing ELSE level(f, i)
           iter == CHOOSE f : f = [i \in 0 .. n |-> step(f, i)]
           Good == {m \in 0 .. n : \E f : f = [i \in 0 .. m |-> step(f, i)]}
<1>1. Pricing!Walk(l, want) = iter[n]
  BY Zenon DEF Pricing!Walk, Taken
<1>2. n \in Nat
  OBVIOUS
<1> HIDE DEF n
<1>3. 0 \in Good
  <2> DEFINE g == [i \in 0 .. 0 |-> Pricing!Nothing]
  <2>1. g = [i \in 0 .. 0 |-> step(g, i)]
    <3>1. \A i \in 0 .. 0 : step(g, i) = Pricing!Nothing
      OBVIOUS
    <3> HIDE DEF step
    <3> QED BY <3>1
  <2> HIDE DEF step
  <2> QED BY <1>2, <2>1
<1>4. ASSUME NEW m \in 1 .. n, m - 1 \in Good PROVE m \in Good
  <2>1. PICK f : f = [i \in 0 .. m - 1 |-> step(f, i)]
    BY <1>4
  <2> DEFINE g == [i \in 0 .. m |-> IF i = m THEN step(f, m) ELSE f[i]]
  <2>2. \A i \in 0 .. m - 1 : g[i] = f[i] /\ f[i] = step(f, i)
    <3> HIDE DEF step
    <3>1. \A i \in 0 .. m - 1 : i \in 0 .. m /\ i # m
      BY <1>2
    <3> QED BY <2>1, <3>1
  <2>3. g[m] = step(f, m)
    <3> HIDE DEF step
    <3> QED BY <1>2
  <2> HIDE DEF g
  <2>4. \A i \in 0 .. m : step(g, i) = step(f, i)
    <3> SUFFICES ASSUME NEW i \in 0 .. m, i # 0 PROVE level(g, i) = level(f, i)
      OBVIOUS
    <3>1. g[i - 1] = f[i - 1]
      <4>1. i - 1 \in 0 .. m - 1
        BY <1>2
      <4> QED BY <2>2, <4>1
    <3> QED BY <3>1 DEF Taken
  <2>5. \A i \in 0 .. m : g[i] = step(g, i)
    <3> HIDE DEF step
    <3>1. \A i \in 0 .. m : i = m \/ i \in 0 .. m - 1
      BY <1>2
    <3> QED BY <2>2, <2>3, <2>4, <3>1
  <2>6. g = [i \in 0 .. m |-> step(g, i)]
    <3> HIDE DEF step
    <3> QED BY <2>5 DEF g
  <2> HIDE DEF step
  <2> QED BY <1>2, <2>6
<1>5. n \in Good
  <2>1. \A i \in 0 .. n : i \in Good
    <3> HIDE DEF Good
    <3> QED BY <1>2, <1>3, <1>4, UpTo
  <2> HIDE DEF Good
  <2> QED BY <1>2, <2>1
<1>6. iter = [i \in 0 .. n |-> step(iter, i)]
  <2> HIDE DEF step
  <2> QED BY <1>5
<1>7. IsWalk(iter, l, want)
  <2>1. \A i \in 0 .. n : iter[i] = step(iter, i)
    <3> HIDE DEF step, iter
    <3> QED BY <1>6
  <2> HIDE DEF iter
  <2>2. \A i \in 1 .. n : i \in 0 .. n /\ i # 0
    BY <1>2
  <2>3. iter[0] = Pricing!Nothing
    <3>1. 0 \in 0 .. n
      BY <1>2
    <3> HIDE DEF level
    <3> QED BY <2>1, <3>1
  <2>4. \A i \in 1 .. n : iter[i] = level(iter, i)
    <3> HIDE DEF level
    <3> QED BY <2>1, <2>2
  <2> QED BY <2>3, <2>4 DEF IsWalk, n
<1> HIDE DEF iter
<1> QED BY <1>1, <1>7 DEF n

LevelSizes(l) == [i \in DOMAIN l |-> l[i].size]

LEMMA LevelIs ==
    ASSUME NEW l \in Seq(Pricing!Level)
    PROVE  /\ Len(l) \in Nat /\ DOMAIN l = 1 .. Len(l)
           /\ \A i \in 1 .. Len(l) : /\ l[i].size \in Nat \ {0} /\ l[i].price \in Nat \ {0}
                                    /\ LevelSizes(l)[i] = l[i].size
<1>1. Len(l) \in Nat /\ DOMAIN l = 1 .. Len(l)
  OBVIOUS
<1>2. \A i \in 1 .. Len(l) : l[i] \in Pricing!Level
  OBVIOUS
<1>3. \A i \in 1 .. Len(l) : l[i].size \in Nat \ {0} /\ l[i].price \in Nat \ {0}
  BY <1>2 DEF Pricing!Level
<1> QED BY <1>1, <1>3 DEF LevelSizes

\* The sizes of the first levels.
LEMMA SizesUpTo ==
    ASSUME NEW l \in Seq(Pricing!Level), NEW i \in 0 .. Len(l)
    PROVE  /\ IsFiniteSet(1 .. i) /\ Total(LevelSizes(l), 1 .. i) \in Nat
           /\ i # 0 => Total(LevelSizes(l), 1 .. i)
                         = Total(LevelSizes(l), 1 .. i - 1) + l[i].size
<1>1. /\ Len(l) \in Nat
      /\ \A j \in 1 .. Len(l) : l[j].size \in Nat /\ LevelSizes(l)[j] = l[j].size
  BY LevelIs
<1>2. i \in Nat /\ \A j \in 1 .. i : j \in 1 .. Len(l)
  BY <1>1
<1>3. IsFiniteSet(1 .. i)
  <2>1. 1 \in Int /\ i \in Int
    BY <1>2
  <2> QED BY <2>1, FS_Interval
<1>4. \A j \in 1 .. i : LevelSizes(l)[j] \in Nat
  BY <1>1, <1>2
<1>5. Total(LevelSizes(l), 1 .. i) \in Nat
  BY <1>3, <1>4, TotalType
<1>6. ASSUME i # 0
      PROVE  Total(LevelSizes(l), 1 .. i) = Total(LevelSizes(l), 1 .. i - 1) + l[i].size
  <2>1. i \in 1 .. i /\ (1 .. i) \ {i} = 1 .. i - 1 /\ i \in 1 .. Len(l)
    BY <1>2, <1>6
  <2>2. /\ Total(LevelSizes(l), 1 .. i)
             = LevelSizes(l)[i] + Total(LevelSizes(l), (1 .. i) \ {i})
        /\ Total(LevelSizes(l), (1 .. i) \ {i})
             = Total(LevelSizes(l), 1 .. i) - LevelSizes(l)[i]
    BY <1>3, <1>4, <2>1, TotalWithout
  <2>3. LevelSizes(l)[i] = l[i].size /\ l[i].size \in Nat
    BY <1>1, <2>1
  <2>4. Total(LevelSizes(l), (1 .. i) \ {i}) = Total(LevelSizes(l), 1 .. i - 1)
    BY <2>1
  <2> QED BY <1>5, <2>2, <2>3, <2>4
<1> QED BY <1>3, <1>5, <1>6

LEMMA LeastAdds ==
    ASSUME NEW want \in Nat, NEW sum \in Nat, NEW more \in Nat
    PROVE  LET had == Pricing!Least(want, sum)
               take == Pricing!Least(want - had, more)
           IN  take \in Nat /\ had + take <= want /\ had + take = Pricing!Least(want, sum + more)
<1>1. CASE want < sum
  <2>1. Pricing!Least(want, sum) = want /\ Pricing!Least(want - want, more) = 0
    BY <1>1 DEF Pricing!Least
  <2>2. Pricing!Least(want, sum + more) = want
    BY <1>1 DEF Pricing!Least
  <2> QED BY <2>1, <2>2
<1>2. CASE ~(want < sum)
  <2>1. Pricing!Least(want, sum) = sum
    BY <1>2 DEF Pricing!Least
  <2>2. /\ Pricing!Least(want - sum, more) \in Nat
        /\ sum + Pricing!Least(want - sum, more) <= want
        /\ sum + Pricing!Least(want - sum, more) = Pricing!Least(want, sum + more)
    BY <1>2 DEF Pricing!Least
  <2> QED BY <2>1, <2>2
<1> QED BY <1>1, <1>2

\* A walk takes what is there, and no more than it was asked for.
LEMMA WalkSize ==
    ASSUME NEW l \in Seq(Pricing!Level), NEW want \in Nat, NEW got, IsWalk(got, l, want)
    PROVE  \A i \in 0 .. Len(l) :
              /\ got[i].size \in Nat /\ got[i].cost \in Nat /\ got[i].size <= want
              /\ got[i].size = Pricing!Least(want, Total(LevelSizes(l), 1 .. i))
<1> DEFINE sum(i) == Total(LevelSizes(l), 1 .. i)
           Good == {i \in 0 .. Len(l) : /\ got[i].size \in Nat /\ got[i].cost \in Nat
                                        /\ got[i].size <= want
                                        /\ got[i].size = Pricing!Least(want, sum(i))}
<1>1. Len(l) \in Nat
  BY LevelIs
<1>2. 0 \in Good
  <2>1. got[0].size = 0 /\ got[0].cost = 0
    BY DEF IsWalk, Pricing!Nothing
  <2>2. sum(0) = 0
    <3>1. 1 .. 0 = {}
      OBVIOUS
    <3> QED BY <3>1, TotalOfNothing
  <2> QED BY <1>1, <2>1, <2>2 DEF Pricing!Least
<1>3. ASSUME NEW i \in 1 .. Len(l), i - 1 \in Good PROVE i \in Good
  <2> DEFINE p == got[i - 1]
             t == Taken(got, l, want, i)
  <2>1. p.size \in Nat /\ p.cost \in Nat /\ p.size <= want
        /\ p.size = Pricing!Least(want, sum(i - 1))
    BY <1>3
  <2>2. got[i] = [size |-> p.size + t, cost |-> p.cost + t * l[i].price]
    BY DEF IsWalk
  <2>3. l[i].size \in Nat /\ l[i].price \in Nat
    BY LevelIs
  <2>4. i \in 0 .. Len(l) /\ i - 1 \in 0 .. Len(l) /\ i # 0
    BY <1>1
  <2>5. sum(i - 1) \in Nat /\ sum(i) \in Nat /\ sum(i) = sum(i - 1) + l[i].size
    BY <2>4, SizesUpTo
  <2> HIDE DEF p, sum
  <2>6. t = Pricing!Least(want - p.size, l[i].size)
    BY DEF Taken, p
  <2> HIDE DEF t
  <2>7. t \in Nat /\ p.size + t <= want /\ p.size + t = Pricing!Least(want, sum(i))
    <3>1. /\ t \in Nat /\ p.size + t <= want
          /\ p.size + t = Pricing!Least(want, sum(i - 1) + l[i].size)
      <4> DEFINE had == p.size
                 before == sum(i - 1)
                 more == l[i].size
      <4>1. before \in Nat /\ more \in Nat /\ had = Pricing!Least(want, before)
            /\ t = Pricing!Least(want - had, more)
        BY <2>1, <2>3, <2>5, <2>6
      <4> HIDE DEF had, before, more
      <4>2. t \in Nat /\ had + t <= want /\ had + t = Pricing!Least(want, before + more)
        <5>1. LET h == Pricing!Least(want, before)
                  take == Pricing!Least(want - h, more)
              IN  take \in Nat /\ h + take <= want
                  /\ h + take = Pricing!Least(want, before + more)
          BY <4>1, LeastAdds
        <5> QED BY <4>1, <5>1
      <4> QED BY <4>2 DEF had, before, more
    <3> QED BY <2>5, <3>1
  <2>8. t * l[i].price \in Nat
    BY <2>3, <2>7
  <2>9. /\ got[i].size \in Nat /\ got[i].cost \in Nat /\ got[i].size <= want
        /\ got[i].size = Pricing!Least(want, sum(i))
    BY <2>1, <2>2, <2>7, <2>8
  <2> QED BY <2>4, <2>9
<1>4. \A i \in 0 .. Len(l) : i \in Good
  <2> HIDE DEF Good
  <2> QED BY <1>1, <1>2, <1>3, UpTo
<1> QED BY <1>4

\* A walk that has what it was asked for takes nothing more.
LEMMA WalkStops ==
    ASSUME NEW l \in Seq(Pricing!Level), NEW want \in Nat, NEW k \in 0 .. Len(l),
           NEW r \in Seq(Pricing!Level), Len(r) = k, \A i \in 1 .. k : r[i] = l[i],
           NEW part, IsWalk(part, r, want), part[k].size = want,
           NEW got, IsWalk(got, l, want)
    PROVE  got[Len(l)] = part[k]
<1>1. Len(l) \in Nat /\ k \in Nat /\ k <= Len(l)
  BY LevelIs
<1>2. \A i \in 0 .. k : part[i] = got[i]
  <2> DEFINE Good == {i \in 0 .. k : part[i] = got[i]}
  <2>1. 0 \in Good
    BY <1>1 DEF IsWalk
  <2>2. ASSUME NEW i \in 1 .. k, i - 1 \in Good PROVE i \in Good
    <3>1. part[i - 1] = got[i - 1] /\ r[i] = l[i] /\ i \in 1 .. Len(l) /\ i \in 0 .. k
      BY <1>1, <2>2
    <3>2. Taken(part, r, want, i) = Taken(got, l, want, i)
      BY <3>1 DEF Taken
    <3>3. part[i] = got[i]
      BY <3>1, <3>2 DEF IsWalk
    <3> QED BY <3>1, <3>3
  <2>3. \A i \in 0 .. k : i \in Good
    <3> HIDE DEF Good
    <3> QED BY <1>1, <2>1, <2>2, UpTo
  <2> QED BY <2>3
<1>3. got[k].size = want /\ got[k].cost \in Nat /\ got[k] = part[k]
  <2>1. k \in 0 .. k
    BY <1>1
  <2> QED BY <1>2, <2>1, WalkSize
<1>4. part[k] = [size |-> part[k].size, cost |-> part[k].cost]
  <2>1. CASE k = 0
    BY <2>1 DEF IsWalk, Pricing!Nothing
  <2>2. CASE k # 0
    <3>1. k \in 1 .. Len(r)
      BY <1>1, <2>2
    <3> DEFINE got_size == part[k - 1].size + Taken(part, r, want, k)
               got_cost == part[k - 1].cost + Taken(part, r, want, k) * r[k].price
    <3>2. part[k] = [size |-> got_size, cost |-> got_cost]
      BY <3>1 DEF IsWalk
    <3> HIDE DEF got_size, got_cost
    <3> QED BY <3>2
  <2> QED BY <2>1, <2>2
<1>5. \A i \in 0 .. Len(l) : i >= k => got[i] = got[k]
  <2> DEFINE Good == {i \in 0 .. Len(l) : i >= k => got[i] = got[k]}
  <2>1. 0 \in Good
    BY <1>1
  <2>2. ASSUME NEW i \in 1 .. Len(l), i - 1 \in Good PROVE i \in Good
    <3>1. CASE i <= k
      BY <1>1, <3>1
    <3>2. CASE ~(i <= k)
      <4>1. got[i - 1] = got[k]
        BY <1>1, <2>2, <3>2
      <4>2. l[i].size \in Nat /\ l[i].price \in Nat
        BY LevelIs
      <4>3. Taken(got, l, want, i) = 0
        BY <1>3, <4>1, <4>2 DEF Taken, Pricing!Least
      <4>4. 0 * l[i].price = 0
        BY <4>2
      <4>5. got[i] = [size |-> want + 0, cost |-> got[k].cost + 0]
        BY <1>3, <4>1, <4>3, <4>4 DEF IsWalk
      <4>6. got[i] = got[k]
        BY <1>3, <1>4, <4>5
      <4> QED BY <4>6
    <3> QED BY <3>1, <3>2
  <2>3. \A i \in 0 .. Len(l) : i \in Good
    <3> HIDE DEF Good
    <3> QED BY <1>1, <2>1, <2>2, UpTo
  <2> QED BY <2>3
<1> QED BY <1>1, <1>3, <1>5

\* What was bought cost at least the best price each, what was sold brought at most that.
LEMMA WalkCost ==
    ASSUME NEW l \in Seq(Pricing!Level), NEW want \in Nat, NEW got, IsWalk(got, l, want),
           NEW best \in Nat
    PROVE  /\ (\A i \in 1 .. Len(l) : l[i].price >= best)
                => \A i \in 0 .. Len(l) : got[i].cost >= best * got[i].size
           /\ (\A i \in 1 .. Len(l) : l[i].price <= best)
                => \A i \in 0 .. Len(l) : got[i].cost <= best * got[i].size
<1>1. Len(l) \in Nat
  BY LevelIs
<1>2. got[0].cost = 0 /\ got[0].size = 0 /\ best * 0 = 0
  BY DEF IsWalk, Pricing!Nothing
<1>3. ASSUME NEW i \in 1 .. Len(l)
      PROVE  \E t \in Nat : /\ got[i].size = got[i - 1].size + t
                            /\ got[i].cost = got[i - 1].cost + t * l[i].price
                            /\ got[i - 1].size \in Nat /\ got[i - 1].cost \in Nat
                            /\ l[i].price \in Nat
  <2> DEFINE t == Taken(got, l, want, i)
  <2>1. i - 1 \in 0 .. Len(l)
    BY <1>1
  <2>2. got[i - 1].size \in Nat /\ got[i - 1].cost \in Nat /\ got[i - 1].size <= want
    BY <2>1, WalkSize
  <2>3. l[i].size \in Nat /\ l[i].price \in Nat
    BY LevelIs
  <2>4. t \in Nat
    BY <2>2, <2>3 DEF Taken, Pricing!Least
  <2>5. got[i] = [size |-> got[i - 1].size + t, cost |-> got[i - 1].cost + t * l[i].price]
    BY DEF IsWalk
  <2> HIDE DEF t
  <2> QED BY <2>2, <2>3, <2>4, <2>5
<1>4. ASSUME NEW a \in Nat, NEW b \in Nat, NEW c \in Nat, NEW d \in Nat
      PROVE  /\ c >= best /\ b >= best * a => b + d * c >= best * (a + d)
             /\ c <= best /\ b <= best * a => b + d * c <= best * (a + d)
  <2>1. best * (a + d) = best * a + best * d
    OBVIOUS
  <2>2. c >= best => d * c >= best * d
    OBVIOUS
  <2>3. c <= best => d * c <= best * d
    OBVIOUS
  <2>4. best * a \in Nat /\ best * d \in Nat /\ d * c \in Nat
    OBVIOUS
  <2> QED BY <2>1, <2>2, <2>3, <2>4
<1>5. ASSUME \A i \in 1 .. Len(l) : l[i].price >= best
      PROVE  \A i \in 0 .. Len(l) : got[i].cost >= best * got[i].size
  <2> DEFINE Good == {i \in 0 .. Len(l) : got[i].cost >= best * got[i].size}
  <2>1. 0 \in Good
    BY <1>1, <1>2
  <2>2. ASSUME NEW i \in 1 .. Len(l), i - 1 \in Good PROVE i \in Good
    <3>1. PICK t \in Nat : /\ got[i].size = got[i - 1].size + t
                           /\ got[i].cost = got[i - 1].cost + t * l[i].price
                           /\ got[i - 1].size \in Nat /\ got[i - 1].cost \in Nat
                           /\ l[i].price \in Nat
      BY <1>3
    <3>2. got[i - 1].cost + t * l[i].price >= best * (got[i - 1].size + t)
      BY <1>4, <1>5, <2>2, <3>1
    <3> QED BY <1>1, <3>1, <3>2
  <2>3. \A i \in 0 .. Len(l) : i \in Good
    <3> HIDE DEF Good
    <3> QED BY <1>1, <2>1, <2>2, UpTo
  <2> QED BY <2>3
<1>6. ASSUME \A i \in 1 .. Len(l) : l[i].price <= best
      PROVE  \A i \in 0 .. Len(l) : got[i].cost <= best * got[i].size
  <2> DEFINE Good == {i \in 0 .. Len(l) : got[i].cost <= best * got[i].size}
  <2>1. 0 \in Good
    BY <1>1, <1>2
  <2>2. ASSUME NEW i \in 1 .. Len(l), i - 1 \in Good PROVE i \in Good
    <3>1. PICK t \in Nat : /\ got[i].size = got[i - 1].size + t
                           /\ got[i].cost = got[i - 1].cost + t * l[i].price
                           /\ got[i - 1].size \in Nat /\ got[i - 1].cost \in Nat
                           /\ l[i].price \in Nat
      BY <1>3
    <3>2. got[i - 1].cost + t * l[i].price <= best * (got[i - 1].size + t)
      BY <1>4, <1>6, <2>2, <3>1
    <3> QED BY <1>1, <3>1, <3>2
  <2>3. \A i \in 0 .. Len(l) : i \in Good
    <3> HIDE DEF Good
    <3> QED BY <1>1, <2>1, <2>2, UpTo
  <2> QED BY <2>3
<1> QED BY <1>5, <1>6

\* The limit around an average that is worse than the best price is the wider one, and a
\* better price than one within it is within it too.
LEMMA LimitIsWider ==
    ASSUME NEW side \in Pricing!Sides, NEW best \in Nat, NEW price \in Nat,
           NEW reference, reference.size \in Nat, reference.cost \in Nat,
           IF side = "buy" THEN reference.cost >= best * reference.size
                           ELSE reference.cost <= best * reference.size,
           Pricing!WithinLimit(side, [size |-> 1, cost |-> best], price)
    PROVE  Pricing!WithinLimit(side, reference, price)
<1> DEFINE s == reference.size
           c == reference.cost
           up == 100 + PriceBuffer
           down == 100 - PriceBuffer
<1>1. s \in Nat /\ c \in Nat /\ up \in Nat /\ down \in Nat
  BY BufferIs
<1> HIDE DEF s, c, up, down
<1>2. CASE side = "buy"
  <2>1. price * 1 * 100 <= best * up /\ c >= best * s
    BY <1>2, PricingConstants DEF Pricing!WithinLimit, up, s, c
  <2>2. (price * 100) * s <= (best * up) * s
    <3>1. price * 1 * 100 = price * 100 /\ price * 100 \in Nat /\ best * up \in Nat
      BY <1>1
    <3>2. \A x, z \in Nat : x <= z => x * s <= z * s
      BY <1>1
    <3> QED BY <2>1, <3>1, <3>2
  <2>3. (best * s) * up <= c * up
    <3>1. best * s \in Nat
      BY <1>1
    <3>2. \A x, z \in Nat : x <= z => x * up <= z * up
      BY <1>1
    <3> QED BY <1>1, <2>1, <3>1, <3>2
  <2>4. (price * 100) * s = price * s * 100 /\ (best * up) * s = (best * s) * up
    BY <1>1
  <2>5. price * s * 100 \in Nat /\ (best * s) * up \in Nat /\ c * up \in Nat
    BY <1>1
  <2>6. price * s * 100 <= c * up
    BY <2>2, <2>3, <2>4, <2>5
  <2> QED BY <1>2, <2>6, PricingConstants DEF Pricing!WithinLimit, up, s, c
<1>3. CASE side # "buy"
  <2>1. price * 1 * 100 >= best * down /\ c <= best * s
    BY <1>3, PricingConstants DEF Pricing!WithinLimit, down, s, c
  <2>2. (price * 100) * s >= (best * down) * s
    <3>1. price * 1 * 100 = price * 100 /\ price * 100 \in Nat /\ best * down \in Nat
      BY <1>1
    <3>2. \A x, z \in Nat : x <= z => x * s <= z * s
      BY <1>1
    <3> QED BY <2>1, <3>1, <3>2
  <2>3. (best * s) * down >= c * down
    <3>1. best * s \in Nat
      BY <1>1
    <3>2. \A x, z \in Nat : x <= z => x * down <= z * down
      BY <1>1
    <3> QED BY <1>1, <2>1, <3>1, <3>2
  <2>4. (price * 100) * s = price * s * 100 /\ (best * down) * s = (best * s) * down
    BY <1>1
  <2>5. price * s * 100 \in Nat /\ (best * s) * down \in Nat /\ c * down \in Nat
    BY <1>1
  <2>6. price * s * 100 >= c * down
    BY <2>2, <2>3, <2>4, <2>5
  <2> QED BY <1>3, <2>6, PricingConstants DEF Pricing!WithinLimit, down, s, c
<1> QED BY <1>2, <1>3

LEMMA BetterIsWithin ==
    ASSUME NEW side \in Pricing!Sides, NEW better \in Nat, NEW price \in Nat,
           NEW reference, reference.size \in Nat, reference.cost \in Nat,
           IF side = "buy" THEN better <= price ELSE better >= price,
           Pricing!WithinLimit(side, reference, price)
    PROVE  Pricing!WithinLimit(side, reference, better)
<1> DEFINE s == reference.size
           up == reference.cost * (100 + PriceBuffer)
           down == reference.cost * (100 - PriceBuffer)
<1>1. s \in Nat /\ up \in Nat /\ down \in Nat
  <2>1. 100 + PriceBuffer \in Nat /\ 100 - PriceBuffer \in Nat
    BY BufferIs
  <2>2. \A x, z \in Nat : x * z \in Nat
    OBVIOUS
  <2> QED BY <2>1, <2>2
<1> HIDE DEF s, up, down
<1>2. \A x, z \in Nat : x <= z => x * s * 100 <= z * s * 100
  BY <1>1
<1>3. price * s * 100 \in Nat /\ better * s * 100 \in Nat
  BY <1>1
<1>4. CASE side = "buy"
  <2>1. price * s * 100 <= up /\ better * s * 100 <= price * s * 100
    BY <1>2, <1>4, PricingConstants DEF Pricing!WithinLimit, s, up
  <2>2. better * s * 100 <= up
    BY <1>1, <1>3, <2>1
  <2> QED BY <1>4, <2>2, PricingConstants DEF Pricing!WithinLimit, s, up
<1>5. CASE side # "buy"
  <2>1. price * s * 100 >= down /\ price * s * 100 <= better * s * 100
    BY <1>2, <1>5, PricingConstants DEF Pricing!WithinLimit, s, down
  <2>2. better * s * 100 >= down
    BY <1>1, <1>3, <2>1
  <2> QED BY <1>5, <2>2, PricingConstants DEF Pricing!WithinLimit, s, down
<1> QED BY <1>4, <1>5

LEMMA LadderIs ==
    ASSUME asks \in AskLadders, bids \in BidLadders, NEW side \in Pricing!Sides
    PROVE  /\ Pricing!Ladder(side) \in Seq(Pricing!Level)
           /\ \A i, j \in 1 .. Len(Pricing!Ladder(side)) : i < j =>
                 IF side = "buy" THEN Pricing!Ladder(side)[i].price < Pricing!Ladder(side)[j].price
                                 ELSE Pricing!Ladder(side)[i].price > Pricing!Ladder(side)[j].price
<1>1. asks \in Seq(Pricing!Level) /\ bids \in Seq(Pricing!Level)
  BY PricingConstants
<1>2. DOMAIN asks = 1 .. Len(asks) /\ DOMAIN bids = 1 .. Len(bids)
  BY <1>1
<1>3. \A i, j \in DOMAIN asks : i < j => asks[i].price < asks[j].price
  BY PricingConstants
<1>4. \A i, j \in DOMAIN bids : i < j => bids[i].price > bids[j].price
  BY PricingConstants
<1>5. CASE side = "buy"
  BY <1>1, <1>2, <1>3, <1>5 DEF Pricing!Ladder
<1>6. CASE side # "buy"
  BY <1>1, <1>2, <1>4, <1>6 DEF Pricing!Ladder
<1> QED BY <1>5, <1>6

LEMMA DepthIsTotal ==
    ASSUME NEW side, NEW S
    PROVE  Pricing!Depth(side, S) = Total(LevelSizes(Pricing!Ladder(side)), S)
BY Zenon DEF Pricing!Depth, Pricing!LevelSizes, LevelSizes, Total, Pricing!MapThenSumSet, MapThenSumSet,
             Pricing!MapThenFoldSet, MapThenFoldSet

\* Depth is natural, and there is no less of it when more levels count.
LEMMA DepthGrows ==
    ASSUME NEW l \in Seq(Pricing!Level), NEW T \in SUBSET (1 .. Len(l)), NEW S \in SUBSET T
    PROVE  /\ Total(LevelSizes(l), S) \in Nat /\ Total(LevelSizes(l), T) \in Nat
           /\ Total(LevelSizes(l), S) <= Total(LevelSizes(l), T)
<1>1. /\ Len(l) \in Nat
      /\ \A j \in 1 .. Len(l) : l[j].size \in Nat /\ LevelSizes(l)[j] = l[j].size
  BY LevelIs
<1>2. Len(l) \in 0 .. Len(l)
  BY <1>1
<1>3. IsFiniteSet(1 .. Len(l))
  BY <1>2, SizesUpTo
<1>4. IsFiniteSet(T) /\ IsFiniteSet(S)
  BY <1>3, FS_Subset
<1>5. \A j \in T : LevelSizes(l)[j] \in Nat
  BY <1>1
<1>6. \A j \in S : LevelSizes(l)[j] \in Nat
  BY <1>5
<1>7. Total(LevelSizes(l), S) \in Nat /\ Total(LevelSizes(l), T) \in Nat
  BY <1>4, <1>5, <1>6, TotalType
<1>8. Total(LevelSizes(l), S) <= Total(LevelSizes(l), T)
  BY <1>4, <1>5, TotalOfPart
<1> QED BY <1>7, <1>8

LEMMA PrefixOf ==
    ASSUME NEW T, NEW b \in Seq(T), NEW k \in 0 .. Len(b)
    PROVE  /\ SubSeq(b, 1, k) \in Seq(T) /\ Len(SubSeq(b, 1, k)) = k
           /\ \A i \in 1 .. k : SubSeq(b, 1, k)[i] = b[i]
OBVIOUS

\* What an order may take is the beginning of the book, up to the last level within its limit.
LEMMA ReachableIs ==
    ASSUME asks \in AskLadders, bids \in BidLadders, NEW side \in Pricing!Sides,
           quoted[side].size \in Nat, quoted[side].cost \in Nat
    PROVE  \E k \in 0 .. Len(Pricing!Ladder(side)) :
              /\ Pricing!Reachable(side) \in Seq(Pricing!Level)
              /\ Len(Pricing!Reachable(side)) = k
              /\ \A i \in 1 .. k : Pricing!Reachable(side)[i] = Pricing!Ladder(side)[i]
              /\ Pricing!LevelsWithin(side, quoted[side]) \subseteq 1 .. k
<1> DEFINE l == Pricing!Ladder(side)
           within == Pricing!LevelsWithin(side, quoted[side])
           beyond == DOMAIN l \ within
           m == Pricing!Min(beyond)
<1>1. /\ l \in Seq(Pricing!Level)
      /\ \A i, j \in 1 .. Len(l) : i < j =>
            IF side = "buy" THEN l[i].price < l[j].price ELSE l[i].price > l[j].price
  BY LadderIs
<1>2. /\ Len(l) \in Nat /\ DOMAIN l = 1 .. Len(l)
      /\ \A i \in 1 .. Len(l) : l[i].price \in Nat
  BY <1>1, LevelIs
<1>3. within = {i \in 1 .. Len(l) : Pricing!WithinLimit(side, quoted[side], l[i].price)}
  BY <1>2 DEF Pricing!LevelsWithin
<1>4. Pricing!Reachable(side) = IF policy = "market" \/ beyond = {} THEN l
                                 ELSE SubSeq(l, 1, m - 1)
  BY DEF Pricing!Reachable
<1> HIDE DEF l, within
<1>5. CASE policy = "market" \/ beyond = {}
  <2>1. Pricing!Reachable(side) = l /\ Len(l) \in 0 .. Len(l) /\ within \subseteq 1 .. Len(l)
    BY <1>2, <1>3, <1>4, <1>5
  <2> QED BY <1>1, <2>1 DEF l, within
<1>6. CASE ~(policy = "market" \/ beyond = {})
  <2>1. beyond \subseteq Nat /\ beyond # {}
    BY <1>2, <1>6
  <2>2. m \in beyond /\ \A i \in beyond : m <= i
    <3> HIDE DEF beyond
    <3>1. \E x \in beyond : \A y \in beyond : x <= y
      BY <2>1, LeastNat
    <3> QED BY <3>1 DEF Pricing!Min
  <2> HIDE DEF m
  <2>3. m \in 1 .. Len(l) /\ m \notin within
    BY <1>2, <2>2
  <2>4. m - 1 \in 0 .. Len(l)
    BY <1>2, <2>3
  <2>5. Pricing!Reachable(side) = SubSeq(l, 1, m - 1)
    BY <1>4, <1>6
  <2>6. /\ SubSeq(l, 1, m - 1) \in Seq(Pricing!Level) /\ Len(SubSeq(l, 1, m - 1)) = m - 1
        /\ \A i \in 1 .. m - 1 : SubSeq(l, 1, m - 1)[i] = l[i]
    BY <1>1, <2>4, PrefixOf
  <2>7. ASSUME NEW i \in within PROVE i \in 1 .. m - 1
    <3>1. i \in 1 .. Len(l) /\ Pricing!WithinLimit(side, quoted[side], l[i].price)
      BY <1>3
    <3>2. i # m
      BY <2>3
    <3>3. CASE i > m
      <4>1. IF side = "buy" THEN l[m].price <= l[i].price ELSE l[m].price >= l[i].price
        BY <1>1, <1>2, <2>3, <3>1, <3>3
      <4>2. Pricing!WithinLimit(side, quoted[side], l[m].price)
        BY <1>2, <2>3, <3>1, <4>1, BetterIsWithin
      <4> QED BY <1>3, <2>3, <4>2
    <3> QED BY <1>2, <2>3, <3>1, <3>2, <3>3
  <2> QED BY <2>4, <2>5, <2>6, <2>7 DEF l, within
<1> QED BY <1>5, <1>6

\* What an order is matched with before the dice: a fill of the whole amount is the walk of
\* the whole book, and a book that is deep enough within the limit fills enough.
LEMMA WalkOfReachable ==
    ASSUME asks \in AskLadders, bids \in BidLadders, amount \in Nat, NEW side \in Pricing!Sides,
           quoted[side].size \in Nat, quoted[side].cost \in Nat
    PROVE  LET w == Pricing!Walk(Pricing!Reachable(side), amount) IN
           /\ w.size \in Nat /\ w.cost \in Nat /\ w.size <= amount
           /\ w = [size |-> w.size, cost |-> w.cost]
           /\ w.size = amount => w = Pricing!Walk(Pricing!Ladder(side), amount)
           /\ Pricing!DepthWithin(side, quoted[side]) * 100 >= amount * DepthRatio
                => w.size * 100 >= amount * DepthRatio
<1> DEFINE l == Pricing!Ladder(side)
           r == Pricing!Reachable(side)
           within == Pricing!LevelsWithin(side, quoted[side])
           w == Pricing!Walk(r, amount)
<1>1. PICK k \in 0 .. Len(l) : /\ r \in Seq(Pricing!Level) /\ Len(r) = k
                               /\ \A i \in 1 .. k : r[i] = l[i]
                               /\ within \subseteq 1 .. k
  BY ReachableIs
<1>2. l \in Seq(Pricing!Level)
  BY LadderIs
<1>3. Pricing!DepthWithin(side, quoted[side]) = Total(LevelSizes(l), within)
  BY DepthIsTotal DEF Pricing!DepthWithin
<1> HIDE DEF l, r, within
<1>4. Len(l) \in Nat /\ k \in 0 .. k /\ k \in Nat
  BY <1>2, LevelIs
<1>5. PICK part : IsWalk(part, r, amount) /\ w = part[k]
  BY <1>1, WalkIs
<1>6. PICK got : IsWalk(got, l, amount) /\ Pricing!Walk(l, amount) = got[Len(l)]
  BY <1>2, WalkIs
<1> HIDE DEF w
<1>7. /\ w.size \in Nat /\ w.cost \in Nat /\ w.size <= amount
      /\ w.size = Pricing!Least(amount, Total(LevelSizes(r), 1 .. k))
  BY <1>1, <1>4, <1>5, WalkSize
<1>8. w = [size |-> w.size, cost |-> w.cost]
  <2>1. CASE k = 0
    BY <1>5, <2>1 DEF IsWalk, Pricing!Nothing
  <2>2. CASE k # 0
    <3>1. k \in 1 .. Len(r)
      BY <1>1, <1>4, <2>2
    <3> DEFINE got_size == part[k - 1].size + Taken(part, r, amount, k)
               got_cost == part[k - 1].cost + Taken(part, r, amount, k) * r[k].price
    <3>2. part[k] = [size |-> got_size, cost |-> got_cost]
      BY <1>5, <3>1 DEF IsWalk
    <3> HIDE DEF got_size, got_cost
    <3> QED BY <1>5, <3>2
  <2> QED BY <2>1, <2>2
<1>9. ASSUME w.size = amount PROVE w = Pricing!Walk(l, amount)
  BY <1>1, <1>2, <1>5, <1>6, <1>9, WalkStops
<1>10. ASSUME Pricing!DepthWithin(side, quoted[side]) * 100 >= amount * DepthRatio
       PROVE  w.size * 100 >= amount * DepthRatio
  <2>1. 1 .. k \in SUBSET (1 .. Len(l))
    BY <1>4
  <2>2. /\ Total(LevelSizes(l), within) \in Nat /\ Total(LevelSizes(l), 1 .. k) \in Nat
        /\ Total(LevelSizes(l), within) <= Total(LevelSizes(l), 1 .. k)
    BY <1>1, <1>2, <2>1, DepthGrows
  <2>3. Total(LevelSizes(r), 1 .. k) = Total(LevelSizes(l), 1 .. k)
    <3>1. \A i \in 1 .. k : LevelSizes(l)[i] \in Nat /\ LevelSizes(r)[i] = LevelSizes(l)[i]
      <4>1. \A i \in 1 .. Len(l) : l[i].size \in Nat /\ LevelSizes(l)[i] = l[i].size
        BY <1>2, LevelIs
      <4>2. \A i \in 1 .. k : LevelSizes(r)[i] = r[i].size
        BY <1>1, LevelIs
      <4> QED BY <1>1, <2>1, <4>1, <4>2
    <3>2. IsFiniteSet(1 .. k)
      BY <1>2, SizesUpTo
    <3> QED BY <3>1, <3>2, TotalOfSame
  <2>4. DepthRatio \in Nat /\ DepthRatio <= 100
    <3>1. DepthRatio \in 0 .. 100
      BY PricingConstants
    <3> QED BY <3>1
  <2> DEFINE sum == Total(LevelSizes(l), 1 .. k)
             deep == Total(LevelSizes(l), within)
  <2>5. w.size = Pricing!Least(amount, sum) /\ deep \in Nat /\ sum \in Nat /\ deep <= sum
        /\ deep * 100 >= amount * DepthRatio
    BY <1>3, <1>7, <1>10, <2>2, <2>3
  <2> HIDE DEF sum, deep
  <2>6. amount * DepthRatio \in Nat /\ amount * DepthRatio <= amount * 100
    BY <2>4
  <2>7. CASE amount < sum
    BY <2>5, <2>6, <2>7 DEF Pricing!Least
  <2>8. CASE ~(amount < sum)
    <3>1. w.size = sum
      BY <2>5, <2>8 DEF Pricing!Least
    <3> QED BY <2>5, <2>6, <3>1
  <2> QED BY <2>7, <2>8
<1> QED BY <1>7, <1>8, <1>9, <1>10 DEF l, r, w

\* Dice that take nothing away leave the fill as it was.
LEMMA WholePart ==
    ASSUME NEW filled \in Nat, NEW cost \in Nat, NEW all \in Nat \ {0}, filled <= all,
           Pricing!Part([size |-> filled, cost |-> cost]).size = all
    PROVE  filled = all /\ Pricing!Part([size |-> filled, cost |-> cost]) = [size |-> filled, cost |-> cost]
<1>1. PartialRatio \in Nat /\ PartialRatio <= 100 /\ Pricing!One = 100
  <2>1. PartialRatio \in 0 .. 100 /\ Pricing!One = 100
    BY PricingConstants
  <2> QED BY <2>1
<1>2. Pricing!Part([size |-> filled, cost |-> cost])
        = [size |-> (filled * PartialRatio) \div 100, cost |-> (cost * PartialRatio) \div 100]
  BY <1>1 DEF Pricing!Part
<1>3. (filled * PartialRatio) \div 100 = all
  BY <1>2
<1>4. filled * PartialRatio >= all * 100
  <2>1. filled * PartialRatio \in Nat
    BY <1>1
  <2>2. \A x \in Nat : x >= (x \div 100) * 100
    OBVIOUS
  <2> QED BY <1>3, <2>1, <2>2
<1>5. PartialRatio = 100 /\ filled = all
  <2>1. filled * PartialRatio <= all * PartialRatio
    BY <1>1
  <2>2. filled * PartialRatio <= filled * 100
    BY <1>1
  <2>3. all * PartialRatio >= all * 100
    BY <1>1, <1>4, <2>1
  <2>4. PartialRatio >= 100
    <3>1. CASE PartialRatio <= 99
      <4>1. all * PartialRatio <= all * 99
        BY <1>1, <3>1
      <4> QED BY <1>1, <2>3, <4>1
    <3> QED BY <1>1, <3>1
  <2>5. filled * 100 >= all * 100
    BY <1>1, <1>4, <2>2
  <2> QED BY <1>1, <2>4, <2>5
<1>6. (filled * 100) \div 100 = filled /\ (cost * 100) \div 100 = cost
  OBVIOUS
<1> QED BY <1>2, <1>5, <1>6

\* What is true of a hedge as it goes from the scan to its fills.  As long as no book has
\* moved since the scan, the quote is a walk of the book (which makes its limit the wider
\* one) and, once past the gate, there is depth within the limit; as long as none has moved
\* since the gate, the edge is there and a full fill is a walk of the book.
PricingInv ==
    /\ asks \in AskLadders /\ bids \in BidLadders /\ amount \in Nat
    /\ progress \in {"approved", "sent"} => amount # 0
    /\ \A side \in Pricing!Sides : quoted[side].size \in Nat /\ quoted[side].cost \in Nat
    /\ DOMAIN fills \subseteq Pricing!Sides /\ (DOMAIN fills # {} => progress = "sent")
    /\ progress = "approved" /\ moved = {} =>
          \A side \in Pricing!Sides :
             /\ Pricing!Ladder(side) # <<>>
             /\ \E probe \in Probes : quoted[side] = Pricing!Walk(Pricing!Ladder(side), probe)
    /\ progress = "sent" /\ moved = {} =>
          \A side \in Pricing!Sides :
             Pricing!DepthWithin(side, quoted[side]) * 100 >= amount * DepthRatio
    /\ progress = "sent" /\ "gate" \notin moved =>
          Pricing!EdgeIsEnough(Pricing!Walk(asks, amount), Pricing!Walk(bids, amount))
    /\ \A side \in DOMAIN fills :
          /\ moved = {} /\ policy # "fok_limit" /\ ~fills[side].diced =>
                fills[side].fill.size * 100 >= amount * DepthRatio
          /\ "gate" \notin moved /\ fills[side].fill.size = amount =>
                fills[side].fill = Pricing!Walk(Pricing!Ladder(side), amount)

LEMMA PricingInvIsEnough == PricingInv => StillBooksFill /\ FullFillsEarnTheEdge
<1> SUFFICES ASSUME PricingInv PROVE Pricing!StillBooksFill /\ Pricing!FullFillsEarnTheEdge
  BY DEF StillBooksFill, FullFillsEarnTheEdge
<1>1. Pricing!StillBooksFill
  BY PricingConstants DEF PricingInv, Pricing!StillBooksFill
<1>2. ASSUME DOMAIN fills = Pricing!Sides, "gate" \notin moved,
             fills["buy"].fill.size = amount, fills["sell"].fill.size = amount
      PROVE  Pricing!EdgeIsEnough(fills["buy"].fill, fills["sell"].fill)
  <2>1. "buy" \in DOMAIN fills /\ "sell" \in DOMAIN fills
    BY <1>2 DEF Pricing!Sides
  <2>2. progress = "sent"
    BY <2>1 DEF PricingInv
  <2>3. fills["buy"].fill = Pricing!Walk(asks, amount) /\ fills["sell"].fill = Pricing!Walk(bids, amount)
    BY <1>2, <2>1 DEF PricingInv, Pricing!Ladder
  <2>4. Pricing!EdgeIsEnough(Pricing!Walk(asks, amount), Pricing!Walk(bids, amount))
    BY <1>2, <2>2 DEF PricingInv
  <2> QED BY <2>3, <2>4
<1>3. Pricing!FullFillsEarnTheEdge
  BY <1>2 DEF Pricing!FullFillsEarnTheEdge
<1> QED BY <1>1, <1>3

LEMMA PricingInvInit == Pricing!PricingInit => PricingInv
<1> SUFFICES ASSUME Pricing!PricingInit PROVE PricingInv
  OBVIOUS
<1>1. /\ asks \in AskLadders /\ bids \in BidLadders /\ amount = 0 /\ progress = "idle"
      /\ quoted = [side \in Pricing!Sides |-> Pricing!Nothing] /\ DOMAIN fills = {}
  BY DEF Pricing!PricingInit
<1>2. \A side \in Pricing!Sides : quoted[side].size \in Nat /\ quoted[side].cost \in Nat
  BY <1>1 DEF Pricing!Nothing
<1> QED BY <1>1, <1>2 DEF PricingInv

\* The gate looked around the best price; the limit of the order is the wider one.
LEMMA GateLooksCloser ==
    ASSUME asks \in AskLadders, bids \in BidLadders, amount \in Nat, NEW side \in Pricing!Sides,
           Pricing!Ladder(side) # <<>>, NEW probe \in Nat,
           quoted[side] = Pricing!Walk(Pricing!Ladder(side), probe)
    PROVE  /\ Pricing!InBandDepth(side) \in Nat /\ Pricing!DepthWithin(side, quoted[side]) \in Nat
           /\ Pricing!InBandDepth(side) <= Pricing!DepthWithin(side, quoted[side])
<1> DEFINE l == Pricing!Ladder(side)
           best == l[1].price
           near == Pricing!LevelsWithin(side, [size |-> 1, cost |-> best])
           within == Pricing!LevelsWithin(side, quoted[side])
<1>1. /\ l \in Seq(Pricing!Level)
      /\ \A i, j \in 1 .. Len(l) : i < j =>
            IF side = "buy" THEN l[i].price < l[j].price ELSE l[i].price > l[j].price
  BY LadderIs
<1>2. /\ Len(l) \in Nat /\ DOMAIN l = 1 .. Len(l)
      /\ \A i \in 1 .. Len(l) : l[i].price \in Nat
  BY <1>1, LevelIs
<1>3. Pricing!InBandDepth(side) = Total(LevelSizes(l), near)
  BY DepthIsTotal DEF Pricing!InBandDepth, Pricing!DepthWithin
<1>4. Pricing!DepthWithin(side, quoted[side]) = Total(LevelSizes(l), within)
  BY DepthIsTotal DEF Pricing!DepthWithin
<1>5. near = {i \in 1 .. Len(l) : Pricing!WithinLimit(side, [size |-> 1, cost |-> best], l[i].price)}
  BY <1>2 DEF Pricing!LevelsWithin
<1>6. within = {i \in 1 .. Len(l) : Pricing!WithinLimit(side, quoted[side], l[i].price)}
  BY <1>2 DEF Pricing!LevelsWithin
<1>7. l # <<>> /\ quoted[side] = Pricing!Walk(l, probe)
  OBVIOUS
<1> HIDE DEF l, near, within
<1>8. 1 \in 1 .. Len(l) /\ best \in Nat
  BY <1>1, <1>2, <1>7
<1>9. PICK got : IsWalk(got, l, probe) /\ quoted[side] = got[Len(l)]
  BY <1>1, <1>7, WalkIs
<1>10. quoted[side].size \in Nat /\ quoted[side].cost \in Nat
  BY <1>1, <1>2, <1>9, WalkSize
<1>11. IF side = "buy" THEN quoted[side].cost >= best * quoted[side].size
                       ELSE quoted[side].cost <= best * quoted[side].size
  <2>1. Len(l) \in 0 .. Len(l)
    BY <1>2
  <2>2. CASE side = "buy"
    <3>1. \A i \in 1 .. Len(l) : l[i].price >= best
      <4> SUFFICES ASSUME NEW i \in 1 .. Len(l) PROVE l[i].price >= best
        OBVIOUS
      <4>1. i = 1 \/ 1 < i
        OBVIOUS
      <4> QED BY <1>1, <1>2, <1>8, <2>2, <4>1
    <3> HIDE DEF best
    <3>2. \A i \in 0 .. Len(l) : got[i].cost >= best * got[i].size
      BY <1>1, <1>8, <1>9, <3>1, WalkCost
    <3> QED BY <1>9, <2>1, <2>2, <3>2
  <2>3. CASE side # "buy"
    <3>1. \A i \in 1 .. Len(l) : l[i].price <= best
      <4> SUFFICES ASSUME NEW i \in 1 .. Len(l) PROVE l[i].price <= best
        OBVIOUS
      <4>1. i = 1 \/ 1 < i
        OBVIOUS
      <4> QED BY <1>1, <1>2, <1>8, <2>3, <4>1
    <3> HIDE DEF best
    <3>2. \A i \in 0 .. Len(l) : got[i].cost <= best * got[i].size
      BY <1>1, <1>8, <1>9, <3>1, WalkCost
    <3> QED BY <1>9, <2>1, <2>3, <3>2
  <2> QED BY <2>2, <2>3
<1>12. near \in SUBSET within
  <2> SUFFICES ASSUME NEW i \in near PROVE i \in within
    OBVIOUS
  <2>1. i \in 1 .. Len(l) /\ l[i].price \in Nat
        /\ Pricing!WithinLimit(side, [size |-> 1, cost |-> best], l[i].price)
    BY <1>2, <1>5
  <2> HIDE DEF best
  <2>2. Pricing!WithinLimit(side, quoted[side], l[i].price)
    BY <1>8, <1>10, <1>11, <2>1, LimitIsWider
  <2> QED BY <1>6, <2>1, <2>2
<1>13. within \in SUBSET (1 .. Len(l))
  BY <1>6
<1>14. /\ Total(LevelSizes(l), near) \in Nat /\ Total(LevelSizes(l), within) \in Nat
       /\ Total(LevelSizes(l), near) <= Total(LevelSizes(l), within)
  BY <1>1, <1>12, <1>13, DepthGrows
<1> QED BY <1>3, <1>4, <1>14

\* The depth within the limit of the quote changes with the book and the quote only.
DepthIn(l, side, reference) ==
    Total(LevelSizes(l), {i \in DOMAIN l : Pricing!WithinLimit(side, reference, l[i].price)})

LEMMA DepthIs ==
    \A side : Pricing!DepthWithin(side, quoted[side])
                = DepthIn(Pricing!Ladder(side), side, quoted[side])
BY DepthIsTotal DEF Pricing!DepthWithin, Pricing!LevelsWithin, DepthIn

LEMMA DepthStays ==
    ASSUME asks' = asks, bids' = bids, quoted' = quoted
    PROVE  \A side : /\ Pricing!Ladder(side)' = Pricing!Ladder(side)
                     /\ Pricing!DepthWithin(side, quoted[side])'
                          = Pricing!DepthWithin(side, quoted[side])
<1>1. (\A side : Pricing!DepthWithin(side, quoted[side])
                   = DepthIn(Pricing!Ladder(side), side, quoted[side]))'
  BY DepthIs, PTL
<1> SUFFICES ASSUME NEW side
             PROVE  /\ Pricing!Ladder(side)' = Pricing!Ladder(side)
                    /\ Pricing!DepthWithin(side, quoted[side])'
                         = Pricing!DepthWithin(side, quoted[side])
  OBVIOUS
<1>2. Pricing!Ladder(side)' = Pricing!Ladder(side)
  BY DEF Pricing!Ladder
<1>3. DepthIn(Pricing!Ladder(side), side, quoted[side])'
        = DepthIn(Pricing!Ladder(side)', side, quoted'[side])
  BY Zenon DEF DepthIn, LevelSizes, Total, MapThenSumSet, MapThenFoldSet, Pricing!WithinLimit,
               Pricing!One
<1>4. Pricing!DepthWithin(side, quoted[side])'
        = DepthIn(Pricing!Ladder(side), side, quoted[side])'
  BY <1>1
<1> QED BY <1>2, <1>3, <1>4, DepthIs

LEMMA SendKeepsInv == ASSUME PricingInv, Pricing!Send PROVE PricingInv'
<1>1. /\ progress = "approved" /\ progress' = "sent"
      /\ Pricing!EdgeIsStillThere /\ (DepthRatio > 0 => Pricing!DeepEnough)
      /\ UNCHANGED <<asks, bids, quoted, amount, fills, moved>>
  BY DEF Pricing!Send
<1>2. /\ asks \in AskLadders /\ bids \in BidLadders /\ amount \in Nat /\ amount # 0
      /\ \A side \in Pricing!Sides : quoted[side].size \in Nat /\ quoted[side].cost \in Nat
      /\ DOMAIN fills = {}
  BY <1>1 DEF PricingInv
<1>3. ASSUME moved = {}, NEW side \in Pricing!Sides
      PROVE  Pricing!DepthWithin(side, quoted[side]) * 100 >= amount * DepthRatio
  <2>1. Pricing!Ladder(side) # <<>>
        /\ \E probe \in Probes : quoted[side] = Pricing!Walk(Pricing!Ladder(side), probe)
    BY <1>1, <1>3 DEF PricingInv
  <2>2. PICK probe \in Probes : quoted[side] = Pricing!Walk(Pricing!Ladder(side), probe)
    BY <2>1
  <2>3. probe \in Nat
    BY PricingConstants
  <2>4. /\ Pricing!InBandDepth(side) \in Nat /\ Pricing!DepthWithin(side, quoted[side]) \in Nat
        /\ Pricing!InBandDepth(side) <= Pricing!DepthWithin(side, quoted[side])
    BY <1>2, <2>1, <2>2, <2>3, GateLooksCloser
  <2>5. DepthRatio \in Nat
    <3>1. DepthRatio \in 0 .. 100
      BY PricingConstants
    <3> QED BY <3>1
  <2>6. CASE DepthRatio = 0
    <3>1. amount * 0 = 0
      BY <1>2
    <3> QED BY <2>4, <2>6, <3>1
  <2>7. CASE DepthRatio # 0
    <3>1. DepthRatio > 0
      BY <2>5, <2>7
    <3>2. Pricing!InBandDepth(side) * 100 >= amount * DepthRatio
      BY <1>1, <3>1, PricingConstants DEF Pricing!DeepEnough
    <3>3. amount * DepthRatio \in Nat
      BY <1>2, <2>5
    <3> QED BY <2>4, <3>2, <3>3
  <2> QED BY <2>6, <2>7
<1>4. Pricing!EdgeIsEnough(Pricing!Walk(asks, amount), Pricing!Walk(bids, amount))
  BY <1>1 DEF Pricing!EdgeIsStillThere
<1>5. \A side : /\ Pricing!Ladder(side)' = Pricing!Ladder(side)
                 /\ Pricing!DepthWithin(side, quoted[side])' = Pricing!DepthWithin(side, quoted[side])
  BY <1>1, DepthStays
<1>6. (progress = "sent" /\ moved = {} =>
          \A side \in Pricing!Sides :
             Pricing!DepthWithin(side, quoted[side]) * 100 >= amount * DepthRatio)'
  BY <1>1, <1>3, <1>5
<1>7. (progress = "sent" /\ "gate" \notin moved =>
          Pricing!EdgeIsEnough(Pricing!Walk(asks, amount), Pricing!Walk(bids, amount)))'
  BY <1>1, <1>4
<1>8. progress' # "approved" /\ DOMAIN fills' = {}
  BY <1>1, <1>2
<1>9. (asks \in AskLadders /\ bids \in BidLadders /\ amount \in Nat /\ amount # 0)'
      /\ \A side \in Pricing!Sides : (quoted[side].size \in Nat /\ quoted[side].cost \in Nat)'
  BY <1>1, <1>2
<1> QED BY <1>6, <1>7, <1>8, <1>9 DEF PricingInv

LEMMA SignalKeepsInv ==
    ASSUME PricingInv, NEW probe \in Probes, Pricing!Signal(probe) PROVE PricingInv'
<1> DEFINE buy == Pricing!Walk(asks, probe)
           sell == Pricing!Walk(bids, probe)
<1>1. /\ asks # <<>> /\ bids # <<>> /\ amount' \in Amounts
      /\ quoted' = [side \in Pricing!Sides |-> IF side = "buy" THEN buy ELSE sell]
      /\ progress' = "approved" /\ DOMAIN fills' = {}
      /\ UNCHANGED <<asks, bids, policy>>
  BY DEF Pricing!Signal
<1>2. asks \in AskLadders /\ bids \in BidLadders
  BY DEF PricingInv
<1>3. ASSUME NEW side \in Pricing!Sides
      PROVE  /\ Pricing!Ladder(side) # <<>>
             /\ quoted'[side] = Pricing!Walk(Pricing!Ladder(side), probe)
             /\ quoted'[side].size \in Nat /\ quoted'[side].cost \in Nat
  <2>1. Pricing!Ladder(side) # <<>>
        /\ quoted'[side] = Pricing!Walk(Pricing!Ladder(side), probe)
    BY <1>1 DEF Pricing!Ladder
  <2>2. Pricing!Ladder(side) \in Seq(Pricing!Level)
    BY <1>2, LadderIs
  <2> DEFINE l == Pricing!Ladder(side)
  <2> HIDE DEF l
  <2>3. l \in Seq(Pricing!Level) /\ quoted'[side] = Pricing!Walk(l, probe)
    BY <2>1, <2>2 DEF l
  <2>4. PICK got : IsWalk(got, l, probe) /\ Pricing!Walk(l, probe) = got[Len(l)]
    BY <2>3, WalkIs
  <2>5. Len(l) \in 0 .. Len(l) /\ probe \in Nat
    BY <2>3, LevelIs, PricingConstants
  <2>6. got[Len(l)].size \in Nat /\ got[Len(l)].cost \in Nat
    BY <2>3, <2>4, <2>5, WalkSize
  <2> QED BY <2>1, <2>3, <2>4, <2>6
<1>4. \A side : Pricing!Ladder(side)' = Pricing!Ladder(side)
  BY <1>1 DEF Pricing!Ladder
<1>5. (\A side \in Pricing!Sides :
          /\ Pricing!Ladder(side) # <<>>
          /\ \E p \in Probes : quoted[side] = Pricing!Walk(Pricing!Ladder(side), p))'
  BY <1>3, <1>4
<1>6. amount' \in Nat /\ amount' # 0
  BY <1>1, PricingConstants
<1> QED BY <1>1, <1>2, <1>3, <1>5, <1>6 DEF PricingInv

LEMMA FillKeepsInv ==
    ASSUME PricingInv, NEW side \in Pricing!Sides, NEW diced \in BOOLEAN, Pricing!Fill(side, diced)
    PROVE  PricingInv'
<1> DEFINE w == Pricing!Walk(Pricing!Reachable(side), amount)
           matched == Pricing!Matched(side)
           fill == IF diced THEN Pricing!Part(matched) ELSE matched
<1>1. /\ progress = "sent" /\ side \notin DOMAIN fills
      /\ fills' = [s \in DOMAIN fills \union {side} |->
                      IF s = side THEN [fill |-> fill, diced |-> diced] ELSE fills[s]]
      /\ UNCHANGED <<asks, bids, progress, quoted, amount, policy, moved>>
  BY DEF Pricing!Fill
<1>2. /\ asks \in AskLadders /\ bids \in BidLadders /\ amount \in Nat /\ amount # 0
      /\ quoted[side].size \in Nat /\ quoted[side].cost \in Nat
      /\ DOMAIN fills \subseteq Pricing!Sides
  BY <1>1 DEF PricingInv
<1>3. /\ w.size \in Nat /\ w.cost \in Nat /\ w.size <= amount
      /\ w = [size |-> w.size, cost |-> w.cost]
      /\ w.size = amount => w = Pricing!Walk(Pricing!Ladder(side), amount)
      /\ Pricing!DepthWithin(side, quoted[side]) * 100 >= amount * DepthRatio
           => w.size * 100 >= amount * DepthRatio
  BY <1>2, WalkOfReachable
<1>4. matched = IF policy = "fok_limit" /\ w.size < amount THEN Pricing!Nothing ELSE w
  BY DEF Pricing!Matched
<1> HIDE DEF w, matched
<1>5. /\ matched.size \in Nat /\ matched.cost \in Nat /\ matched.size <= amount
      /\ matched = [size |-> matched.size, cost |-> matched.cost]
      /\ matched.size = amount => matched = w
  <2>1. CASE policy = "fok_limit" /\ w.size < amount
    <3>1. matched = [size |-> 0, cost |-> 0]
      BY <1>4, <2>1 DEF Pricing!Nothing
    <3> QED BY <1>2, <3>1
  <2>2. CASE ~(policy = "fok_limit" /\ w.size < amount)
    <3>1. matched = w
      BY <1>4, <2>2
    <3> QED BY <1>3, <3>1
  <2> QED BY <2>1, <2>2
<1>6. ASSUME fill.size = amount PROVE fill = Pricing!Walk(Pricing!Ladder(side), amount)
  <2>1. CASE ~diced
    BY <1>3, <1>5, <1>6, <2>1
  <2>2. CASE diced
    <3> DEFINE filled == matched.size
               cost == matched.cost
    <3>1. filled \in Nat /\ cost \in Nat /\ filled <= amount /\ amount \in Nat \ {0}
          /\ matched = [size |-> filled, cost |-> cost]
      BY <1>2, <1>5
    <3>2. Pricing!Part(matched).size = amount
      BY <1>6, <2>2
    <3> HIDE DEF filled, cost
    <3>3. Pricing!Part([size |-> filled, cost |-> cost]).size = amount
      BY <3>1, <3>2
    <3>4. filled = amount
          /\ Pricing!Part([size |-> filled, cost |-> cost]) = [size |-> filled, cost |-> cost]
      BY <3>1, <3>3, WholePart
    <3>5. Pricing!Part(matched) = matched /\ matched.size = amount
      BY <3>1, <3>4 DEF filled
    <3> QED BY <1>3, <1>5, <2>2, <3>5
  <2> QED BY <2>1, <2>2
<1>7. ASSUME moved = {}, policy # "fok_limit", ~diced
      PROVE  fill.size * 100 >= amount * DepthRatio
  <2>1. Pricing!DepthWithin(side, quoted[side]) * 100 >= amount * DepthRatio
    BY <1>1, <1>7 DEF PricingInv
  <2>2. fill = w
    BY <1>4, <1>7
  <2> QED BY <1>3, <2>1, <2>2
<1> HIDE DEF fill
<1>8. /\ DOMAIN fills' = DOMAIN fills \union {side}
      /\ fills'[side] = [fill |-> fill, diced |-> diced]
      /\ \A s \in DOMAIN fills : fills'[s] = fills[s]
  BY <1>1
<1>9. ASSUME NEW s \in DOMAIN fills'
      PROVE  /\ moved = {} /\ policy # "fok_limit" /\ ~fills'[s].diced =>
                    fills'[s].fill.size * 100 >= amount * DepthRatio
             /\ "gate" \notin moved /\ fills'[s].fill.size = amount =>
                    fills'[s].fill = Pricing!Walk(Pricing!Ladder(s), amount)
  <2>1. CASE s = side
    BY <1>6, <1>7, <1>8, <2>1
  <2>2. CASE s # side
    <3>1. s \in DOMAIN fills /\ fills'[s] = fills[s]
      BY <1>8, <2>2
    <3> QED BY <3>1 DEF PricingInv
  <2> QED BY <2>1, <2>2
<1>10. \A s : /\ Pricing!Ladder(s)' = Pricing!Ladder(s)
              /\ Pricing!DepthWithin(s, quoted[s])' = Pricing!DepthWithin(s, quoted[s])
  BY <1>1, DepthStays
<1>11. (\A s \in DOMAIN fills :
          /\ moved = {} /\ policy # "fok_limit" /\ ~fills[s].diced =>
                fills[s].fill.size * 100 >= amount * DepthRatio
          /\ "gate" \notin moved /\ fills[s].fill.size = amount =>
                fills[s].fill = Pricing!Walk(Pricing!Ladder(s), amount))'
  BY <1>1, <1>9, <1>10
<1>12. DOMAIN fills' \subseteq Pricing!Sides
  BY <1>2, <1>8
<1>13. (progress = "sent" /\ moved = {} =>
          \A s \in Pricing!Sides :
             Pricing!DepthWithin(s, quoted[s]) * 100 >= amount * DepthRatio)'
  BY <1>1, <1>10 DEF PricingInv
<1>14. (progress = "sent" /\ "gate" \notin moved =>
          Pricing!EdgeIsEnough(Pricing!Walk(asks, amount), Pricing!Walk(bids, amount)))'
  BY <1>1 DEF PricingInv
<1>15. (/\ asks \in AskLadders /\ bids \in BidLadders /\ amount \in Nat
        /\ progress \in {"approved", "sent"} => amount # 0
        /\ \A s \in Pricing!Sides : quoted[s].size \in Nat /\ quoted[s].cost \in Nat)'
  BY <1>1 DEF PricingInv
<1> QED BY <1>1, <1>11, <1>12, <1>13, <1>14, <1>15 DEF PricingInv

LEMMA PricingStep == [GuardsNext]_guardsVars => [Pricing!PricingNext]_pricingVars
<1>1. ThePricing => Pricing!PricingNext
  BY DEF ThePricing
<1>2. TheSettings \/ TheDispatch \/ TheBreaker \/ TheLimiter => UNCHANGED pricingVars
  BY DEF TheSettings, TheDispatch, TheBreaker, TheLimiter
<1>3. UNCHANGED guardsVars => UNCHANGED pricingVars
  BY DEF guardsVars
<1> QED BY <1>1, <1>2, <1>3 DEF GuardsNext

LEMMA PricingInvStep == PricingInv /\ [Pricing!PricingNext]_pricingVars => PricingInv'
<1> SUFFICES ASSUME PricingInv, [Pricing!PricingNext]_pricingVars PROVE PricingInv'
  OBVIOUS
<1>1. CASE Pricing!Move
  <2>1. /\ asks' \in AskLadders /\ bids' \in BidLadders
        /\ moved' = (CASE progress = "approved" -> {"scan"}
                       [] progress = "sent" -> moved \union {"scan", "gate"}
                       [] OTHER -> {})
        /\ UNCHANGED <<progress, quoted, amount, policy, fills>>
    BY <1>1 DEF PricingInv, Pricing!Move
  <2>2. /\ progress' = "approved" => moved' # {}
        /\ progress' = "sent" => moved' # {} /\ "gate" \in moved'
        /\ DOMAIN fills' # {} => progress' = "sent"
    BY <2>1 DEF PricingInv
  <2>3. (/\ asks \in AskLadders /\ bids \in BidLadders /\ amount \in Nat
         /\ progress \in {"approved", "sent"} => amount # 0
         /\ \A side \in Pricing!Sides : quoted[side].size \in Nat /\ quoted[side].cost \in Nat
         /\ DOMAIN fills \subseteq Pricing!Sides)'
    BY <2>1 DEF PricingInv
  <2> QED BY <2>2, <2>3 DEF PricingInv
<1>2. CASE Pricing!Send
  BY <1>2, SendKeepsInv
<1>3. CASE Pricing!Abort
  <2>1. /\ progress = "approved" /\ progress' = "aborted"
        /\ UNCHANGED <<asks, bids, quoted, amount, policy, fills, moved>>
    BY <1>3 DEF Pricing!Abort
  <2>2. DOMAIN fills' = {} /\ progress' # "approved" /\ progress' # "sent"
    BY <2>1 DEF PricingInv
  <2>3. (/\ asks \in AskLadders /\ bids \in BidLadders /\ amount \in Nat
         /\ \A side \in Pricing!Sides : quoted[side].size \in Nat /\ quoted[side].cost \in Nat)'
    BY <2>1 DEF PricingInv
  <2> QED BY <2>2, <2>3 DEF PricingInv
<1>4. CASE \E probe \in Probes : Pricing!Signal(probe)
  BY <1>4, SignalKeepsInv
<1>5. CASE \E side \in Pricing!Sides, diced \in BOOLEAN : Pricing!Fill(side, diced)
  BY <1>5, FillKeepsInv
<1>6. CASE UNCHANGED pricingVars
  <2>1. UNCHANGED <<asks, bids, progress, quoted, amount, policy, fills, moved>>
    BY <1>6 DEF pricingVars
  <2>2. \A s : /\ Pricing!Ladder(s)' = Pricing!Ladder(s)
               /\ Pricing!DepthWithin(s, quoted[s])' = Pricing!DepthWithin(s, quoted[s])
    BY <2>1, DepthStays
  <2> QED BY <2>1, <2>2 DEF PricingInv
<1> QED BY <1>1, <1>2, <1>3, <1>4, <1>5, <1>6 DEF Pricing!PricingNext

LEMMA PricingIsInvariant == GuardsSpec => []PricingInv
<1>1. GuardsInit => PricingInv
  BY PricingInvInit DEF GuardsInit
<1>2. PricingInv /\ [GuardsNext]_guardsVars => PricingInv'
  BY PricingStep, PricingInvStep
<1> QED BY <1>1, <1>2, PTL DEF GuardsSpec

\* As long as neither book has moved since the scan, each leg of a hedge that passed the
\* depth gate fills at least min_in_band_depth_ratio of its amount, a fill-or-kill order and
\* the dice apart, whatever the books hold.
THEOREM GatedLegsFill == GuardsSpec => []StillBooksFill
BY PricingIsInvariant, PricingInvIsEnough, PTL

\* Two legs that fill completely, in the books the gate looked at, earn the net edge it
\* asked for, whatever the scanner quoted and for whichever size.
THEOREM FullFillsEarn == GuardsSpec => []FullFillsEarnTheEdge
BY PricingIsInvariant, PricingInvIsEnough, PTL

=============================================================================
