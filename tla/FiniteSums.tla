----------------------------- MODULE FiniteSums -----------------------------
(***************************************************************************)
(* Sums of natural numbers over a finite set: what MapThenSumSet does when *)
(* an element enters the set or leaves it.  MapThenSumSet is defined by    *)
(* recursion on the set, so its value is found by induction: a sum of      *)
(* naturals counts the units of its summands, whatever the order in which  *)
(* the recursion picks the elements.                                       *)
(***************************************************************************)
EXTENDS Integers, FiniteSetsExt, FiniteSetTheorems, WellFoundedInduction, TLAPS

Total(w, S) == MapThenSumSet(LAMBDA x : w[x], S)

\* One pair for each unit of each summand.
Units(w, S) == {u \in S \X Nat : u[2] \in 1 .. w[u[1]]}

-----------------------------------------------------------------------------

\* A finite set for which something fails has a subset for which it fails and all of
\* whose smaller subsets are fine.
LEMMA LeastCounterexample ==
    ASSUME NEW S, IsFiniteSet(S), NEW Bad, Bad \subseteq SUBSET S, Bad # {}
    PROVE  \E T \in Bad : \A U \in SUBSET T : U # T => U \notin Bad
<1>1. Bad \subseteq FiniteSubsetsOf(S)
  BY FS_Subset DEF FiniteSubsetsOf
<1>2. \E T \in Bad : \A U \in Bad : ~(<<U, T>> \in StrictSubsetOrdering(S))
  BY <1>1, WFMin, FS_StrictSubsetOrderingWellFounded
<1>3. PICK T \in Bad : \A U \in Bad : ~(<<U, T>> \in StrictSubsetOrdering(S))
  BY <1>2
<1>4. ASSUME NEW U \in SUBSET T, U # T, U \in Bad PROVE FALSE
  <2>1. U \in SUBSET S /\ T \in SUBSET S
    BY <1>4
  <2>2. <<U, T>> \in StrictSubsetOrdering(S)
    BY <1>4, <2>1 DEF StrictSubsetOrdering
  <2>3. QED
    BY <1>3, <1>4, <2>2
<1>5. QED
  BY <1>3, <1>4

\* The units of one summand.
LEMMA UnitsOfOne ==
    ASSUME NEW x, NEW n \in Nat
    PROVE  IsFiniteSet({x} \X (1 .. n)) /\ Cardinality({x} \X (1 .. n)) = n
<1>1. IsFiniteSet(1 .. n) /\ Cardinality(1 .. n) = n
  BY FS_Interval
<1>2. IsFiniteSet({x}) /\ Cardinality({x}) = 1
  BY FS_Singleton
<1>3. /\ IsFiniteSet({x} \X (1 .. n))
      /\ Cardinality({x} \X (1 .. n)) = Cardinality({x}) * Cardinality(1 .. n)
  BY <1>1, <1>2, FS_Product
<1>4. 1 * n = n
  OBVIOUS
<1>5. QED
  BY <1>1, <1>2, <1>3, <1>4

LEMMA UnitsSplit ==
    ASSUME NEW S, NEW w, NEW x \in S
    PROVE  /\ Units(w, S) = ({x} \X (1 .. w[x])) \union Units(w, S \ {x})
           /\ ({x} \X (1 .. w[x])) \intersect Units(w, S \ {x}) = {}
<1>1. ASSUME NEW u PROVE u \in Units(w, S) <=> u \in {x} \X (1 .. w[x]) \/ u \in Units(w, S \ {x})
  BY DEF Units
<1>2. ASSUME NEW u, u \in {x} \X (1 .. w[x]) PROVE u \notin Units(w, S \ {x})
  BY <1>2 DEF Units
<1>3. QED
  BY <1>1, <1>2

LEMMA UnitsFinite ==
    ASSUME NEW S, IsFiniteSet(S), NEW w, \A x \in S : w[x] \in Nat
    PROVE  \A T \in SUBSET S : IsFiniteSet(Units(w, T))
<1> DEFINE Bad == {T \in SUBSET S : ~IsFiniteSet(Units(w, T))}
<1> SUFFICES ASSUME Bad # {} PROVE FALSE
  OBVIOUS
<1>1. Bad \subseteq SUBSET S
  OBVIOUS
<1>2. PICK T \in Bad : \A U \in SUBSET T : U # T => U \notin Bad
  <2> HIDE DEF Bad
  <2>1. QED
    BY <1>1, LeastCounterexample
<1>3. CASE T = {}
  <2>1. Units(w, T) = {}
    BY <1>3 DEF Units
  <2>2. QED
    BY <2>1, FS_EmptySet
<1>4. CASE T # {}
  <2>1. PICK x : x \in T
    BY <1>4
  <2>2. IsFiniteSet(Units(w, T \ {x}))
    BY <1>2, <2>1
  <2>3. IsFiniteSet({x} \X (1 .. w[x]))
    BY <2>1, UnitsOfOne
  <2>4. IsFiniteSet(({x} \X (1 .. w[x])) \union Units(w, T \ {x}))
    BY <2>2, <2>3, FS_Union
  <2>5. Units(w, T) = ({x} \X (1 .. w[x])) \union Units(w, T \ {x})
    BY <2>1, UnitsSplit
  <2>6. QED
    BY <2>4, <2>5
<1>5. QED
  BY <1>3, <1>4

LEMMA UnitsCount ==
    ASSUME NEW S, IsFiniteSet(S), NEW w, \A x \in S : w[x] \in Nat, NEW x \in S
    PROVE  Cardinality(Units(w, S)) = w[x] + Cardinality(Units(w, S \ {x}))
<1> DEFINE A == {x} \X (1 .. w[x])
           B == Units(w, S \ {x})
<1>1. IsFiniteSet(A) /\ Cardinality(A) = w[x]
  BY UnitsOfOne
<1>2. IsFiniteSet(B)
  BY UnitsFinite
<1>3. Units(w, S) = A \union B /\ A \intersect B = {}
  BY UnitsSplit
<1>4. Cardinality(A \intersect B) = 0
  BY <1>3, FS_EmptySet
<1>5. Cardinality(A \union B) = Cardinality(A) + Cardinality(B) - Cardinality(A \intersect B)
  BY <1>1, <1>2, FS_Union
<1>6. Cardinality(A) \in Nat /\ Cardinality(B) \in Nat
  BY <1>1, <1>2, FS_CardinalityType
<1> HIDE DEF A, B
<1>7. Cardinality(A \union B) = Cardinality(A) + Cardinality(B)
  BY <1>4, <1>5, <1>6
<1>8. QED
  BY <1>1, <1>3, <1>7 DEF B

-----------------------------------------------------------------------------

\* What the recursion of MapThenSumSet computes, whichever elements it picks.
LEMMA TotalIsCount ==
    ASSUME NEW S, IsFiniteSet(S), NEW w, \A x \in S : w[x] \in Nat
    PROVE  Total(w, S) = Cardinality(Units(w, S))
<1> DEFINE pick(s) == CHOOSE x \in s : TRUE
           step(f, s) == IF s = {} THEN 0 ELSE w[pick(s)] + f[s \ {pick(s)}]
           iter == CHOOSE f : f = [s \in SUBSET S |-> step(f, s)]
           count == [s \in SUBSET S |-> Cardinality(Units(w, s))]
<1>1. Total(w, S) = iter[S]
  BY Zenon DEF Total, MapThenSumSet, MapThenFoldSet
<1>2. ASSUME NEW s \in SUBSET S PROVE count[s] = step(count, s)
  <2>1. IsFiniteSet(s) /\ \A x \in s : w[x] \in Nat
    BY FS_Subset
  <2>2. CASE s = {}
    <3>1. Units(w, s) = {}
      BY <2>2 DEF Units
    <3>2. QED
      BY <2>2, <3>1, FS_EmptySet
  <2>3. CASE s # {}
    <3>1. pick(s) \in s
      BY <2>3
    <3>2. s \ {pick(s)} \in SUBSET S
      OBVIOUS
    <3> HIDE DEF pick
    <3>3. Cardinality(Units(w, s)) = w[pick(s)] + Cardinality(Units(w, s \ {pick(s)}))
      BY <2>1, <3>1, UnitsCount
    <3>4. QED
      BY <2>3, <3>2, <3>3
  <2>4. QED
    BY <2>2, <2>3
<1>3. count = [s \in SUBSET S |-> step(count, s)]
  <2> HIDE DEF step
  <2>1. QED
    BY <1>2
<1>4. iter = [s \in SUBSET S |-> step(iter, s)]
  <2> HIDE DEF step, count
  <2>1. QED
    BY <1>3
<1>5. \A s \in SUBSET S : iter[s] = count[s]
  <2> DEFINE Bad == {s \in SUBSET S : iter[s] # count[s]}
  <2> SUFFICES ASSUME Bad # {} PROVE FALSE
    OBVIOUS
  <2> HIDE DEF iter, count, step
  <2>1. Bad \subseteq SUBSET S
    OBVIOUS
  <2>2. PICK s \in Bad : \A u \in SUBSET s : u # s => u \notin Bad
    <3> HIDE DEF Bad
    <3>1. QED
      BY <2>1, LeastCounterexample
  <2>3. iter[s] = step(iter, s) /\ count[s] = step(count, s)
    BY <1>2, <1>4
  <2>4. CASE s = {}
    BY <2>3, <2>4 DEF step
  <2>5. CASE s # {}
    <3>1. pick(s) \in s
      BY <2>5
    <3> HIDE DEF pick
    <3>2. iter[s \ {pick(s)}] = count[s \ {pick(s)}]
      BY <2>2, <3>1
    <3>3. QED
      BY <2>3, <2>5, <3>2 DEF step
  <2>6. QED
    BY <2>4, <2>5
<1>6. QED
  BY <1>1, <1>5

\* The sum over nothing.
LEMMA TotalOfNothing ==
    ASSUME NEW w
    PROVE  Total(w, {}) = 0
<1>1. IsFiniteSet({}) /\ Cardinality({}) = 0
  BY FS_EmptySet
<1>2. Units(w, {}) = {}
  BY DEF Units
<1>3. QED
  BY <1>1, <1>2, TotalIsCount

\* A sum is a natural number.
LEMMA TotalType ==
    ASSUME NEW S, IsFiniteSet(S), NEW w, \A x \in S : w[x] \in Nat
    PROVE  Total(w, S) \in Nat
  BY TotalIsCount, UnitsFinite, FS_CardinalityType

\* An element that leaves the set takes its summand with it.
LEMMA TotalWithout ==
    ASSUME NEW S, IsFiniteSet(S), NEW w, \A x \in S : w[x] \in Nat, NEW x \in S
    PROVE  /\ Total(w, S) = w[x] + Total(w, S \ {x})
           /\ Total(w, S \ {x}) = Total(w, S) - w[x]
           /\ w[x] <= Total(w, S)
<1>1. IsFiniteSet(S \ {x}) /\ \A y \in S \ {x} : w[y] \in Nat
  BY FS_RemoveElement
<1>2. Total(w, S) = w[x] + Total(w, S \ {x})
  BY <1>1, TotalIsCount, UnitsCount
<1>3. Total(w, S \ {x}) \in Nat /\ w[x] \in Nat
  BY <1>1, TotalType
<1>4. QED
  BY <1>2, <1>3

\* An element that enters it brings one.
LEMMA TotalWith ==
    ASSUME NEW S, IsFiniteSet(S), NEW w, NEW x, \A y \in S \union {x} : w[y] \in Nat, x \notin S
    PROVE  Total(w, S \union {x}) = Total(w, S) + w[x]
<1>1. IsFiniteSet(S \union {x})
  BY FS_AddElement
<1>2. (S \union {x}) \ {x} = S
  OBVIOUS
<1>3. Total(w, S) \in Nat /\ w[x] \in Nat
  BY TotalType
<1>4. Total(w, S \union {x}) = w[x] + Total(w, (S \union {x}) \ {x})
  BY <1>1, TotalWithout
<1>5. QED
  BY <1>2, <1>3, <1>4

\* Only the summands count.
LEMMA TotalOfSame ==
    ASSUME NEW S, IsFiniteSet(S), NEW w, NEW v, \A x \in S : w[x] \in Nat /\ v[x] = w[x]
    PROVE  Total(v, S) = Total(w, S)
<1>1. Units(v, S) = Units(w, S)
  BY DEF Units
<1>2. QED
  BY <1>1, TotalIsCount

\* One summand that changes changes the sum by as much.
LEMMA TotalWhenOneChanges ==
    ASSUME NEW S, IsFiniteSet(S), NEW w, NEW v, NEW x \in S,
           \A y \in S : w[y] \in Nat /\ v[y] \in Nat,
           \A y \in S \ {x} : v[y] = w[y]
    PROVE  Total(v, S) = Total(w, S) - w[x] + v[x]
<1>1. IsFiniteSet(S \ {x})
  BY FS_RemoveElement
<1>2. Total(v, S \ {x}) = Total(w, S \ {x})
  BY <1>1, TotalOfSame
<1>3. Total(w, S \ {x}) \in Nat /\ w[x] \in Nat /\ v[x] \in Nat
  BY <1>1, TotalType
<1>4. Total(v, S) = v[x] + Total(v, S \ {x}) /\ Total(w, S) = w[x] + Total(w, S \ {x})
  BY TotalWithout
<1>5. QED
  BY <1>2, <1>3, <1>4

\* The sum over a part is at most the sum.
LEMMA TotalOfPart ==
    ASSUME NEW S, IsFiniteSet(S), NEW w, \A x \in S : w[x] \in Nat, NEW T \in SUBSET S
    PROVE  Total(w, T) <= Total(w, S)
<1>1. IsFiniteSet(T) /\ \A x \in T : w[x] \in Nat
  BY FS_Subset
<1>2. Units(w, T) \in SUBSET Units(w, S)
  BY DEF Units
<1>3. IsFiniteSet(Units(w, S))
  BY UnitsFinite
<1>4. Cardinality(Units(w, T)) <= Cardinality(Units(w, S))
  BY <1>2, <1>3, FS_Subset
<1>5. QED
  BY <1>1, <1>4, TotalIsCount

=============================================================================
