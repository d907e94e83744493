----------------------------- MODULE SumProofs ------------------------------
(***************************************************************************)
(* What SumFunction and SumFunctionOnSet of the module Functions compute,  *)
(* for every finite set: the facts behind every argument about bytes.      *)
(*                                                                         *)
(* Induction is by least counterexample: a set of naturals, or of subsets  *)
(* of a finite set, that is not empty has a minimal element.  The two      *)
(* library theorems this takes (WFMin and the well-foundedness of < and of *)
(* strict inclusion) have no operator parameter.                           *)
(***************************************************************************)
EXTENDS Functions, FiniteSetTheorems, WellFoundedInduction, TLAPS

\* A set of naturals that is not empty has a least element.
LEMMA NatMinimum ==
    ASSUME NEW T \in SUBSET Nat, T # {}
    PROVE  \E n \in T : \A m \in T : n <= m
<1> DEFINE R == OpToRel(<, Nat)
<1>1. \E n \in T : \A m \in T : ~(<<m, n>> \in R)
  BY NatLessThanWellFounded, WFMin
<1>2. PICK n \in T : \A m \in T : ~(<<m, n>> \in R)
  BY <1>1
<1>3. \A m \in T : ~(m < n)
  BY <1>2 DEF OpToRel
<1> QED
  BY <1>3

\* A set of subsets of a finite set that is not empty has a minimal element.
LEMMA SubsetMinimum ==
    ASSUME NEW S, IsFiniteSet(S), NEW T \in SUBSET SUBSET S, T # {}
    PROVE  \E s \in T : \A t \in T : t \subseteq s => t = s
<1>1. IsWellFoundedOn(StrictSubsetOrdering(S), SUBSET S)
  BY FS_StrictSubsetOrderingWellFounded, FS_FiniteSubsetsOfFinite
<1>2. PICK s \in T : \A t \in T : ~(<<t, s>> \in StrictSubsetOrdering(S))
  BY <1>1, WFMin
<1> QED
  BY <1>2 DEF StrictSubsetOrdering

-----------------------------------------------------------------------------
(* The equation of the recursive function behind a sum *)

\* The element a sum takes first, and what it makes of the sums g of smaller sets
First(s) == CHOOSE x \in s : TRUE
Body(f, g, s) == IF s = {} THEN 0 ELSE f[First(s)] + g[s \ {First(s)}]
Partial(f, S) == CHOOSE g : g = [s \in SUBSET S |-> Body(f, g, s)]

\* A sum is the value of a function defined by recursion over subsets.
LEMMA SumIsPartial ==
    ASSUME NEW f, NEW S
    PROVE  SumFunctionOnSet(f, S) = Partial(f, S)[S]
  BY DEF SumFunctionOnSet, FoldFunctionOnSet, MapThenFoldSet, Partial, Body, First

\* The first element is one.
LEMMA FirstIn ==
    ASSUME NEW s, s # {}
    PROVE  First(s) \in s
  BY DEF First

\* A function that sums the subsets of S with at most n elements
Small(S, n) == {s \in SUBSET S : Cardinality(s) <= n}
Summable(f, S, n) == \E g : g = [s \in Small(S, n) |-> Body(f, g, s)]

\* There is one for every n: from the sums of sets of at most m - 1 elements come
\* those of m.
LEMMA AllSummable ==
    ASSUME NEW f, NEW S, IsFiniteSet(S), NEW n \in Nat
    PROVE  Summable(f, S, n)
<1> DEFINE T == {m \in Nat : ~Summable(f, S, m)}
<1> SUFFICES ASSUME T # {} PROVE FALSE
  OBVIOUS
<1>0. \A s \in SUBSET S : IsFiniteSet(s) /\ Cardinality(s) \in Nat
  BY FS_Subset, FS_CardinalityType
<1>1. PICK m \in T : \A k \in T : m <= k
  <2>1. T \in SUBSET Nat
    OBVIOUS
  <2> HIDE DEF T
  <2> QED
    BY <2>1, NatMinimum
<1>2. CASE m = 0
  <2>1. Small(S, 0) = {{}}
    BY <1>0, FS_EmptySet DEF Small
  <2>2. [s \in {{}} |-> 0] = [s \in Small(S, 0) |-> Body(f, [t \in {{}} |-> 0], s)]
    BY <2>1 DEF Body
  <2> QED
    BY <1>1, <1>2, <2>2 DEF Summable
<1>3. CASE m # 0
  <2>1. Summable(f, S, m - 1)
    BY <1>1, <1>3
  <2>2. PICK g : g = [s \in Small(S, m - 1) |-> Body(f, g, s)]
    BY <2>1 DEF Summable
  <2> DEFINE h == [s \in Small(S, m) |-> Body(f, g, s)]
  <2>3. \A s \in Small(S, m - 1) : s \in Small(S, m) /\ h[s] = g[s]
    <3>1. \A s \in Small(S, m - 1) : s \in Small(S, m)
      BY <1>0, <1>1 DEF Small
    <3> QED
      BY <2>2, <3>1
  <2>4. ASSUME NEW s \in Small(S, m), s # {}
        PROVE  s \ {First(s)} \in Small(S, m - 1)
    <3>1. First(s) \in s /\ IsFiniteSet(s)
      BY <1>0, <2>4, FirstIn DEF Small
    <3>2. Cardinality(s \ {First(s)}) = Cardinality(s) - 1
      BY <3>1, FS_RemoveElement
    <3> QED
      BY <1>0, <1>1, <3>2 DEF Small
  <2>5. \A s \in Small(S, m) : Body(f, g, s) = Body(f, h, s)
    BY <2>3, <2>4 DEF Body
  <2>6. h = [s \in Small(S, m) |-> Body(f, h, s)]
    BY <2>5
  <2> HIDE DEF h
  <2>7. Summable(f, S, m)
    BY <2>6 DEF Summable
  <2> QED
    BY <1>1, <2>7
<1> QED
  BY <1>2, <1>3

\* So the recursive definition defines a function that satisfies it.
LEMMA PartialEquation ==
    ASSUME NEW f, NEW S, IsFiniteSet(S)
    PROVE  \A s \in SUBSET S : Partial(f, S)[s] = Body(f, Partial(f, S), s)
<1>1. Small(S, Cardinality(S)) = SUBSET S
  BY FS_Subset DEF Small
<1>2. Summable(f, S, Cardinality(S))
  BY AllSummable, FS_CardinalityType
<1>3. \E g : g = [s \in SUBSET S |-> Body(f, g, s)]
  BY <1>1, <1>2 DEF Summable
<1>4. Partial(f, S) = [s \in SUBSET S |-> Body(f, Partial(f, S), s)]
  BY <1>3 DEF Partial
<1> DEFINE p == Partial(f, S)
<1>5. p = [s \in SUBSET S |-> Body(f, p, s)]
  BY <1>4
<1> HIDE DEF p
<1>6. \A s \in SUBSET S : p[s] = Body(f, p, s)
  BY <1>5
<1> QED
  BY <1>6 DEF p

\* The sum over a part of S does not depend on S.
LEMMA PartialAgrees ==
    ASSUME NEW f, NEW S, IsFiniteSet(S), NEW U \in SUBSET S
    PROVE  Partial(f, S)[U] = SumFunctionOnSet(f, U)
<1>0. IsFiniteSet(U)
  BY FS_Subset
<1> DEFINE T == {s \in SUBSET U : Partial(f, S)[s] # Partial(f, U)[s]}
<1>1. SUFFICES ASSUME T # {} PROVE FALSE
  BY SumIsPartial
<1>2. PICK s \in T : \A t \in T : t \subseteq s => t = s
  <2>1. T \in SUBSET SUBSET U
    OBVIOUS
  <2> HIDE DEF T
  <2> QED
    BY <1>0, <1>1, <2>1, SubsetMinimum
<1>3. /\ Partial(f, S)[s] = Body(f, Partial(f, S), s)
      /\ Partial(f, U)[s] = Body(f, Partial(f, U), s)
  <2>1. U \in SUBSET U /\ s \in SUBSET U /\ s \in SUBSET S
    OBVIOUS
  <2> HIDE DEF T
  <2> QED
    BY <1>0, <2>1, PartialEquation
<1>4. s # {}
  BY <1>3 DEF Body
<1>5. First(s) \in s
  BY <1>4, FirstIn
<1>6. Partial(f, S)[s \ {First(s)}] = Partial(f, U)[s \ {First(s)}]
  <2>1. s \ {First(s)} \notin T
    BY <1>2, <1>5
  <2> QED
    BY <1>2, <2>1
<1>7. Body(f, Partial(f, S), s) = Body(f, Partial(f, U), s)
  BY <1>6 DEF Body
<1> QED
  BY <1>2, <1>3, <1>7

\* A sum is its first term and the sum of the others.
LEMMA SumEquation ==
    ASSUME NEW f, NEW S, IsFiniteSet(S)
    PROVE  SumFunctionOnSet(f, S) =
             IF S = {} THEN 0 ELSE f[First(S)] + SumFunctionOnSet(f, S \ {First(S)})
<1>1. SumFunctionOnSet(f, S) = Body(f, Partial(f, S), S)
  BY SumIsPartial, PartialEquation
<1>2. Partial(f, S)[S \ {First(S)}] = SumFunctionOnSet(f, S \ {First(S)})
  BY PartialAgrees
<1>3. Body(f, Partial(f, S), S) =
         IF S = {} THEN 0 ELSE f[First(S)] + SumFunctionOnSet(f, S \ {First(S)})
  BY <1>2 DEF Body
<1> QED
  BY <1>1, <1>3

-----------------------------------------------------------------------------
(* Sums over part of a function *)

\* What holds of nothing and survives each term holds of the sum.
LEMMA SumIn ==
    ASSUME NEW f, NEW S, IsFiniteSet(S), NEW C, 0 \in C,
           \A x \in S, c \in C : f[x] + c \in C
    PROVE  SumFunctionOnSet(f, S) \in C
<1> DEFINE T == {s \in SUBSET S : SumFunctionOnSet(f, s) \notin C}
<1> SUFFICES ASSUME T # {} PROVE FALSE
  OBVIOUS
<1>1. PICK s \in T : \A t \in T : t \subseteq s => t = s
  <2>1. T \in SUBSET SUBSET S
    OBVIOUS
  <2> HIDE DEF T
  <2> QED
    BY <2>1, SubsetMinimum
<1>2. IsFiniteSet(s)
  BY FS_Subset
<1>3. SumFunctionOnSet(f, s) = IF s = {} THEN 0 ELSE f[First(s)] + SumFunctionOnSet(f, s \ {First(s)})
  BY <1>2, SumEquation
<1>4. s # {} /\ First(s) \in s
  BY <1>3, FirstIn
<1>5. SumFunctionOnSet(f, s \ {First(s)}) \in C
  BY <1>1, <1>4
<1> QED
  BY <1>3, <1>4, <1>5

\* Integers add up to an integer.
LEMMA SumType ==
    ASSUME NEW f, NEW S, IsFiniteSet(S), \A x \in S : f[x] \in Int
    PROVE  SumFunctionOnSet(f, S) \in Int
<1>1. 0 \in Int /\ \A x \in S, c \in Int : f[x] + c \in Int
  OBVIOUS
<1> QED
  BY <1>1, SumIn

\* Naturals add up to a natural.
LEMMA SumNat ==
    ASSUME NEW f, NEW S, IsFiniteSet(S), \A x \in S : f[x] \in Nat
    PROVE  SumFunctionOnSet(f, S) \in Nat
<1>1. 0 \in Nat /\ \A x \in S, c \in Nat : f[x] + c \in Nat
  OBVIOUS
<1> QED
  BY <1>1, SumIn

\* Zeros add up to zero.
LEMMA SumZero ==
    ASSUME NEW f, NEW S, IsFiniteSet(S), \A x \in S : f[x] = 0
    PROVE  SumFunctionOnSet(f, S) = 0
<1>1. 0 \in {0} /\ \A x \in S, c \in {0} : f[x] + c \in {0}
  OBVIOUS
<1>2. SumFunctionOnSet(f, S) \in {0}
  BY <1>1, SumIn
<1> QED
  BY <1>2

\* Any element may be taken out first.
LEMMA SumRemove ==
    ASSUME NEW f, NEW S, IsFiniteSet(S), \A x \in S : f[x] \in Int, NEW x \in S
    PROVE  SumFunctionOnSet(f, S) = f[x] + SumFunctionOnSet(f, S \ {x})
<1> DEFINE Sum(s) == SumFunctionOnSet(f, s)
           T == {s \in SUBSET S : \E y \in s : Sum(s) # f[y] + Sum(s \ {y})}
<1> SUFFICES ASSUME T # {} PROVE FALSE
  OBVIOUS
<1>1. PICK s \in T : \A t \in T : t \subseteq s => t = s
  <2>1. T \in SUBSET SUBSET S
    OBVIOUS
  <2> HIDE DEF T
  <2> QED
    BY <2>1, SubsetMinimum
<1>2. PICK y \in s : Sum(s) # f[y] + Sum(s \ {y})
  OBVIOUS
<1> DEFINE p == First(s)
<1>3. p \in s
  BY <1>2, FirstIn
<1>4. \A t \in SUBSET S : IsFiniteSet(t) /\ Sum(t) \in Int
  BY FS_Subset, SumType
<1>5. Sum(s) = f[p] + Sum(s \ {p})
  BY <1>2, <1>4, SumEquation
<1>6. p # y
  BY <1>2, <1>5
<1>7. Sum(s \ {p}) = f[y] + Sum((s \ {p}) \ {y})
  <2>1. s \ {p} \notin T /\ s \ {p} \in SUBSET S /\ y \in s \ {p}
    BY <1>1, <1>2, <1>3, <1>6
  <2> HIDE DEF Sum, p
  <2> QED
    BY <2>1
<1>8. Sum(s \ {y}) = f[p] + Sum((s \ {y}) \ {p})
  <2>1. s \ {y} \notin T /\ s \ {y} \in SUBSET S /\ p \in s \ {y}
    BY <1>1, <1>2, <1>3, <1>6
  <2> HIDE DEF Sum, p
  <2> QED
    BY <2>1
<1>9. (s \ {p}) \ {y} = (s \ {y}) \ {p}
  OBVIOUS
<1>10. f[p] \in Int /\ f[y] \in Int /\ Sum((s \ {p}) \ {y}) \in Int
  BY <1>2, <1>3, <1>4
<1>11. ASSUME NEW a \in Int, NEW b \in Int, NEW r \in Int
       PROVE  a + (b + r) = b + (a + r)
  OBVIOUS
<1>12. f[p] + (f[y] + Sum((s \ {p}) \ {y})) = f[y] + (f[p] + Sum((s \ {p}) \ {y}))
  BY <1>10, <1>11
<1>13. Sum(s) = f[y] + Sum(s \ {y})
  <2> HIDE DEF Sum, p
  <2> QED
    BY <1>5, <1>7, <1>8, <1>9, <1>12
<1> QED
  BY <1>2, <1>13

\* A sum depends on its terms only.
LEMMA SumSame ==
    ASSUME NEW f, NEW g, NEW S, IsFiniteSet(S), \A x \in S : f[x] = g[x]
    PROVE  SumFunctionOnSet(f, S) = SumFunctionOnSet(g, S)
<1> DEFINE T == {s \in SUBSET S : SumFunctionOnSet(f, s) # SumFunctionOnSet(g, s)}
<1> SUFFICES ASSUME T # {} PROVE FALSE
  OBVIOUS
<1>1. PICK s \in T : \A t \in T : t \subseteq s => t = s
  <2>1. T \in SUBSET SUBSET S
    OBVIOUS
  <2> HIDE DEF T
  <2> QED
    BY <2>1, SubsetMinimum
<1>2. IsFiniteSet(s)
  BY FS_Subset
<1>3. /\ SumFunctionOnSet(f, s) = IF s = {} THEN 0 ELSE f[First(s)] + SumFunctionOnSet(f, s \ {First(s)})
      /\ SumFunctionOnSet(g, s) = IF s = {} THEN 0 ELSE g[First(s)] + SumFunctionOnSet(g, s \ {First(s)})
  BY <1>2, SumEquation
<1>4. s # {} /\ First(s) \in s
  BY <1>3, FirstIn
<1>5. SumFunctionOnSet(f, s \ {First(s)}) = SumFunctionOnSet(g, s \ {First(s)})
  BY <1>1, <1>4
<1>6. f[First(s)] = g[First(s)]
  BY <1>4
<1> QED
  BY <1>3, <1>4, <1>5, <1>6

-----------------------------------------------------------------------------
(* Sums over the whole of a function *)

\* Integers add up to an integer.
LEMMA TotalType ==
    ASSUME NEW S, IsFiniteSet(S), NEW f \in [S -> Int]
    PROVE  SumFunction(f) \in Int
  BY SumType DEF SumFunction

\* Naturals add up to a natural.
LEMMA TotalNat ==
    ASSUME NEW S, IsFiniteSet(S), NEW f \in [S -> Nat]
    PROVE  SumFunction(f) \in Nat
  BY SumNat DEF SumFunction

\* Zeros add up to zero.
LEMMA TotalZero ==
    ASSUME NEW S, IsFiniteSet(S)
    PROVE  SumFunction([x \in S |-> 0]) = 0
<1> DEFINE f == [x \in S |-> 0]
<1>1. DOMAIN f = S /\ \A x \in S : f[x] = 0
  OBVIOUS
<1> HIDE DEF f
<1> QED
  BY <1>1, SumZero DEF SumFunction

\* A sum falls into the sums of two parts.
LEMMA SumParts ==
    ASSUME NEW f, NEW S, IsFiniteSet(S), \A x \in S : f[x] \in Int, NEW A \in SUBSET S
    PROVE  SumFunctionOnSet(f, S) = SumFunctionOnSet(f, A) + SumFunctionOnSet(f, S \ A)
<1> DEFINE Sum(s) == SumFunctionOnSet(f, s)
           T == {s \in SUBSET S : Sum(S) # Sum(s) + Sum(S \ s)}
<1> SUFFICES ASSUME T # {} PROVE FALSE
  OBVIOUS
<1>1. PICK s \in T : \A t \in T : t \subseteq s => t = s
  <2>1. T \in SUBSET SUBSET S
    OBVIOUS
  <2> HIDE DEF T
  <2> QED
    BY <2>1, SubsetMinimum
<1>2. s \in SUBSET S /\ Sum(S) # Sum(s) + Sum(S \ s)
  OBVIOUS
<1>3. \A t \in SUBSET S : IsFiniteSet(t) /\ Sum(t) \in Int
  BY FS_Subset, SumType
<1>4. s # {}
  <2>1. Sum({}) = 0 /\ S \ {} = S
    BY FS_EmptySet, SumZero
  <2>2. Sum(S) = 0 + Sum(S)
    BY <1>3
  <2> HIDE DEF Sum
  <2> QED BY <1>2, <2>1, <2>2
<1>5. PICK x \in s : TRUE
  BY <1>4
<1>6. Sum(S) = Sum(s \ {x}) + Sum(S \ (s \ {x}))
  <2>1. s \ {x} \notin T /\ s \ {x} \in SUBSET S
    BY <1>1, <1>5
  <2> HIDE DEF Sum
  <2> QED BY <2>1
<1>7. Sum(s) = f[x] + Sum(s \ {x})
  BY <1>2, <1>3, <1>5, SumRemove
<1>8. Sum(S \ (s \ {x})) = f[x] + Sum(S \ s)
  <2>1. x \in S \ (s \ {x}) /\ S \ (s \ {x}) \in SUBSET S
    BY <1>2, <1>5
  <2>2. (S \ (s \ {x})) \ {x} = S \ s
    BY <1>5
  <2>3. IsFiniteSet(S \ (s \ {x})) /\ \A y \in S \ (s \ {x}) : f[y] \in Int
    BY <1>3, <2>1
  <2> HIDE DEF T
  <2> QED BY <2>1, <2>2, <2>3, SumRemove
<1>9. f[x] \in Int /\ Sum(s \ {x}) \in Int /\ Sum(S \ s) \in Int
  BY <1>2, <1>3, <1>5
<1> HIDE DEF Sum, T
<1> QED BY <1>2, <1>6, <1>7, <1>8, <1>9

\* Two functions that differ at one place
LEMMA TotalUpdate ==
    ASSUME NEW S, IsFiniteSet(S), NEW f \in [S -> Int], NEW g \in [S -> Int],
           NEW x \in S, \A y \in S \ {x} : g[y] = f[y]
    PROVE  SumFunction(g) = SumFunction(f) - f[x] + g[x]
<1>1. /\ SumFunctionOnSet(f, S) = f[x] + SumFunctionOnSet(f, S \ {x})
      /\ SumFunctionOnSet(g, S) = g[x] + SumFunctionOnSet(g, S \ {x})
  BY SumRemove
<1>2. IsFiniteSet(S \ {x})
  BY FS_Subset
<1>3. SumFunctionOnSet(g, S \ {x}) = SumFunctionOnSet(f, S \ {x})
  BY <1>2, SumSame
<1>4. SumFunctionOnSet(f, S \ {x}) \in Int
  BY <1>2, SumType
<1> QED
  BY <1>1, <1>3, <1>4 DEF SumFunction

\* A term is no more than the sum.
LEMMA TotalCovers ==
    ASSUME NEW S, IsFiniteSet(S), NEW f \in [S -> Nat], NEW x \in S
    PROVE  f[x] <= SumFunction(f)
<1>1. SumFunctionOnSet(f, S) = f[x] + SumFunctionOnSet(f, S \ {x})
  BY SumRemove
<1>2. SumFunctionOnSet(f, S \ {x}) \in Nat
  BY FS_Subset, SumNat
<1> QED
  BY <1>1, <1>2 DEF SumFunction
=============================================================================
