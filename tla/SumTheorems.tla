---------------------------- MODULE SumTheorems ----------------------------
(***************************************************************************)
(* Lemmas about the sum of a function over a finite set, as the community  *)
(* module Functions defines it (SumFunctionOnSet, SumFunction).            *)
(*                                                                         *)
(* The definition is recursive, so each lemma needs an induction over the  *)
(* subsets of the set.  It needs no operator as a parameter: inclusion     *)
(* is well founded on the subsets of a finite set, so a set of subsets     *)
(* that are counterexamples has a minimal element (MinimalSet), the form   *)
(* in which the proofs about Commerce use it too.                          *)
(***************************************************************************)
EXTENDS Integers, FiniteSets, Functions, FiniteSetTheorems, WellFoundedInduction, TLAPS

\* A set of subsets of a finite set has one that contains no other.
LEMMA MinimalSet ==
  ASSUME NEW S, IsFiniteSet(S), NEW D \in SUBSET SUBSET S, D # {}
  PROVE  \E m \in D : \A k \in D : k \subseteq m => k = m
<1> DEFINE R == StrictSubsetOrdering(S)
<1>1. IsWellFoundedOn(R, SUBSET S)
  BY FS_StrictSubsetOrderingWellFounded, FS_FiniteSubsetsOfFinite
<1>2. \A x, y \in SUBSET S : x \subseteq y /\ x # y => <<x, y>> \in R  BY DEF StrictSubsetOrdering
<1> HIDE DEF R
<1>3. PICK m \in D : \A k \in D : ~ (<<k, m>> \in R)  BY <1>1, WFMin
<1> QED  BY <1>2, <1>3

\* The element a sum takes first, and g as the partial sums of f over D.
First(s) == CHOOSE x \in s : TRUE
Adds(g, f, D) == g = [s \in D |-> IF s = {} THEN 0 ELSE f[First(s)] + g[s \ {First(s)}]]

\* The first element is an element.
LEMMA FirstIn == \A s : s # {} => First(s) \in s
  BY DEF First

\* A set of naturals has a least element.
LEMMA LeastNat ==
  ASSUME NEW B \in SUBSET Nat, B # {}
  PROVE  \E m \in B : \A k \in B : m <= k
<1>1. PICK n \in B : TRUE  OBVIOUS
<1> DEFINE I == 1 .. n
           D == {1 .. k : k \in {j \in B : j <= n}}
<1>2. D # {} /\ D \in SUBSET SUBSET I  BY <1>1
<1>3. IsFiniteSet(I)  BY <1>1, FS_Interval
<1>4. PICK d \in D : \A k \in D : k \subseteq d => k = d
  <2> HIDE DEF D, I
  <2> QED  BY <1>2, <1>3, MinimalSet
<1>5. PICK m \in B : m <= n /\ d = 1 .. m  BY <1>4
<1>6. ASSUME NEW k \in B, k < m PROVE FALSE
  <2>1. 1 .. k \in D /\ 1 .. k \subseteq d  BY <1>1, <1>5, <1>6
  <2>2. 1 .. k = 1 .. m  BY <1>4, <1>5, <2>1
  <2>3. m \in 1 .. m  BY <1>5, <1>6
  <2> QED  BY <1>6, <2>2, <2>3
<1> QED  BY <1>5, <1>6

\* The partial sums of a function exist: those over sets of one more element
\* are had from those over fewer.
LEMMA AddsExists ==
  ASSUME NEW f, NEW S, IsFiniteSet(S)
  PROVE  \E g : Adds(g, f, SUBSET S)
<1> DEFINE Level(n) == {s \in SUBSET S : Cardinality(s) <= n}
           B == {n \in Nat : ~ \E g : Adds(g, f, Level(n))}
<1>1. \A s \in SUBSET S : IsFiniteSet(s) /\ Cardinality(s) \in Nat
  BY FS_Subset, FS_CardinalityType
<1>2. ASSUME NEW s \in SUBSET S, s # {}
      PROVE  /\ s \ {First(s)} \in SUBSET S
             /\ Cardinality(s \ {First(s)}) = Cardinality(s) - 1
  BY <1>1, <1>2, FirstIn, FS_RemoveElement
<1>3. B = {}
  <2>1. SUFFICES ASSUME B # {} PROVE FALSE
    OBVIOUS
  <2>2. PICK n \in B : \A k \in B : n <= k
    <3>1. B \in SUBSET Nat  OBVIOUS
    <3> HIDE DEF B
    <3> QED  BY <2>1, <3>1, LeastNat
  <2>3. n \in Nat /\ ~ \E g : Adds(g, f, Level(n))  BY <2>2
  <2>4. CASE n = 0
    <3>1. \A s \in Level(0) : s = {}  BY <1>1, FS_EmptySet
    <3> DEFINE g == [s \in Level(0) |-> 0]
    <3>2. Adds(g, f, Level(0))  BY <3>1 DEF Adds
    <3> QED  BY <2>3, <2>4, <3>2
  <2>5. CASE n # 0
    <3>1. n - 1 \in Nat /\ n - 1 \notin B
      <4> HIDE DEF B
      <4> QED  BY <2>2, <2>3, <2>5
    <3>2. PICK h : Adds(h, f, Level(n - 1))  BY <3>1
    <3> DEFINE g == [s \in Level(n) |-> IF s = {} THEN 0 ELSE f[First(s)] + h[s \ {First(s)}]]
    <3>3. \A s \in Level(n - 1) : s \in Level(n) /\ g[s] = h[s]
      <4> TAKE s \in Level(n - 1)
      <4>1. s \in Level(n)  BY <1>1, <2>3
      <4>2. h[s] = IF s = {} THEN 0 ELSE f[First(s)] + h[s \ {First(s)}]
        BY <3>2 DEF Adds
      <4> QED  BY <4>1, <4>2
    <3>4. \A s \in Level(n) : s # {} => s \ {First(s)} \in Level(n - 1)
      BY <1>1, <1>2, <2>3
    <3>5. \A s \in Level(n) : g[s] = IF s = {} THEN 0 ELSE f[First(s)] + g[s \ {First(s)}]
      BY <3>3, <3>4
    <3>6. Adds(g, f, Level(n))
      <4>1. g = [s \in Level(n) |-> g[s]]  OBVIOUS
      <4> HIDE DEF g, Level
      <4> QED  BY <3>5, <4>1 DEF Adds
    <3> QED  BY <2>3, <3>6
  <2> QED  BY <2>4, <2>5
<1>4. Level(Cardinality(S)) = SUBSET S
  BY <1>1, FS_Subset
<1>5. Cardinality(S) \in Nat  BY FS_CardinalityType
<1>6. \E g : Adds(g, f, Level(Cardinality(S)))  BY <1>3, <1>5
<1> QED  BY <1>4, <1>6

\* Partial sums over a set and over a subset of it agree where both are defined.
LEMMA AddsAgree ==
  ASSUME NEW f, NEW S, IsFiniteSet(S), NEW T \in SUBSET S, NEW g, NEW h,
         Adds(g, f, SUBSET S), Adds(h, f, SUBSET T)
  PROVE  g[T] = h[T]
<1> DEFINE D == {s \in SUBSET T : g[s] # h[s]}
<1>1. SUFFICES ASSUME D # {} PROVE FALSE
  OBVIOUS
<1>2. IsFiniteSet(T)  BY FS_Subset
<1>3. PICK m \in D : \A k \in D : k \subseteq m => k = m
  <2>1. D \in SUBSET SUBSET T  OBVIOUS
  <2> HIDE DEF D
  <2> QED  BY <1>1, <1>2, <2>1, MinimalSet
<1>4. m \in SUBSET S /\ m \in SUBSET T  OBVIOUS
<1>5. /\ g[m] = IF m = {} THEN 0 ELSE f[First(m)] + g[m \ {First(m)}]
      /\ h[m] = IF m = {} THEN 0 ELSE f[First(m)] + h[m \ {First(m)}]
  BY <1>4 DEF Adds
<1>6. m # {} => g[m \ {First(m)}] = h[m \ {First(m)}]
  <2>1. m # {} => m \ {First(m)} # m /\ m \ {First(m)} \in SUBSET T  BY <1>4, FirstIn
  <2> QED  BY <1>3, <2>1
<1> QED  BY <1>3, <1>5, <1>6

\* The sum is the last of its partial sums.
LEMMA SumAdds ==
  ASSUME NEW f, NEW S, IsFiniteSet(S)
  PROVE  \E g : Adds(g, f, SUBSET S) /\ SumFunctionOnSet(f, S) = g[S]
<1> DEFINE it == CHOOSE g : Adds(g, f, SUBSET S)
<1>1. SumFunctionOnSet(f, S) = it[S]
  BY DEF SumFunctionOnSet, FoldFunctionOnSet, MapThenFoldSet, Adds, First
<1>2. Adds(it, f, SUBSET S)  BY AddsExists
<1> QED  BY <1>1, <1>2

\* The sum over no element.
LEMMA SumEmpty == ASSUME NEW f PROVE SumFunctionOnSet(f, {}) = 0
<1>1. IsFiniteSet({})  BY FS_EmptySet
<1>2. PICK g : Adds(g, f, SUBSET {}) /\ SumFunctionOnSet(f, {}) = g[{}]  BY <1>1, SumAdds
<1> QED  BY <1>2 DEF Adds

\* The sum over some elements: the first one and the others.
LEMMA SumFirst ==
  ASSUME NEW f, NEW S, IsFiniteSet(S), S # {}
  PROVE  SumFunctionOnSet(f, S) = f[First(S)] + SumFunctionOnSet(f, S \ {First(S)})
<1> DEFINE T == S \ {First(S)}
<1>1. IsFiniteSet(T) /\ T \in SUBSET S  BY FS_Subset
<1>2. PICK g : Adds(g, f, SUBSET S) /\ SumFunctionOnSet(f, S) = g[S]  BY SumAdds
<1>3. PICK h : Adds(h, f, SUBSET T) /\ SumFunctionOnSet(f, T) = h[T]  BY <1>1, SumAdds
<1>4. g[T] = h[T]
  <2> HIDE DEF T
  <2> QED  BY <1>1, <1>2, <1>3, AddsAgree
<1>5. g[S] = f[First(S)] + g[T]  BY <1>2 DEF Adds
<1> QED  BY <1>2, <1>3, <1>4, <1>5

\* Induction over the subsets of a finite set, with the good ones as a set.
LEMMA SetInduction ==
  ASSUME NEW S, IsFiniteSet(S), NEW G \in SUBSET SUBSET S, {} \in G,
         \A T \in SUBSET S : T # {} /\ T \ {First(T)} \in G => T \in G
  PROVE  S \in G
<1>1. SUFFICES ASSUME S \notin G PROVE FALSE
  OBVIOUS
<1> DEFINE D == (SUBSET S) \ G
<1>2. PICK m \in D : \A k \in D : k \subseteq m => k = m
  <2>1. D # {} /\ D \in SUBSET SUBSET S  BY <1>1
  <2> HIDE DEF D
  <2> QED  BY <2>1, MinimalSet
<1>3. m # {}  BY <1>2
<1>4. m \ {First(m)} # m /\ m \ {First(m)} \in SUBSET S  BY <1>3, FirstIn
<1>5. m \ {First(m)} \in G  BY <1>2, <1>4
<1> QED  BY <1>2, <1>3, <1>5

\* A sum of integers is one.
LEMMA SumType ==
  ASSUME NEW S, IsFiniteSet(S), NEW f, \A x \in S : f[x] \in Int
  PROVE  SumFunctionOnSet(f, S) \in Int
<1> DEFINE G == {T \in SUBSET S : SumFunctionOnSet(f, T) \in Int}
<1>1. {} \in G  BY SumEmpty
<1>2. ASSUME NEW T \in SUBSET S, T # {}, T \ {First(T)} \in G PROVE T \in G
  <2>1. SumFunctionOnSet(f, T) = f[First(T)] + SumFunctionOnSet(f, T \ {First(T)})
    BY <1>2, FS_Subset, SumFirst
  <2>2. First(T) \in S  BY <1>2, FirstIn
  <2> QED  BY <1>2, <2>1, <2>2
<1>3. S \in G
  <2>1. G \in SUBSET SUBSET S  OBVIOUS
  <2> HIDE DEF G
  <2> QED  BY <1>1, <1>2, <2>1, SetInduction
<1> QED  BY <1>3

\* Summands that add up, add up in the sums.
LEMMA SumPlus ==
  ASSUME NEW S, IsFiniteSet(S), NEW f, NEW g, NEW h,
         \A x \in S : f[x] \in Int /\ g[x] \in Int /\ h[x] = f[x] + g[x]
  PROVE  SumFunctionOnSet(h, S) = SumFunctionOnSet(f, S) + SumFunctionOnSet(g, S)
<1> DEFINE G == {T \in SUBSET S : SumFunctionOnSet(h, T) = SumFunctionOnSet(f, T) + SumFunctionOnSet(g, T)}
<1>1. {} \in G  BY SumEmpty
<1>2. ASSUME NEW T \in SUBSET S, T # {}, T \ {First(T)} \in G PROVE T \in G
  <2> DEFINE x == First(T)
             U == T \ {x}
  <2>1. IsFiniteSet(T) /\ IsFiniteSet(U)  BY FS_Subset
  <2>2. x \in S  BY <1>2, FirstIn
  <2>3. SumFunctionOnSet(f, U) \in Int /\ SumFunctionOnSet(g, U) \in Int
    <3> HIDE DEF U
    <3>1. U \in SUBSET S  BY DEF U
    <3> QED  BY <2>1, <3>1, SumType
  <2>4. /\ SumFunctionOnSet(f, T) = f[x] + SumFunctionOnSet(f, U)
        /\ SumFunctionOnSet(g, T) = g[x] + SumFunctionOnSet(g, U)
        /\ SumFunctionOnSet(h, T) = h[x] + SumFunctionOnSet(h, U)
    BY <1>2, <2>1, SumFirst
  <2>5. SumFunctionOnSet(h, U) = SumFunctionOnSet(f, U) + SumFunctionOnSet(g, U)  BY <1>2
  <2>6. f[x] \in Int /\ g[x] \in Int /\ h[x] = f[x] + g[x]  BY <2>2
  <2>7. SumFunctionOnSet(h, T) = SumFunctionOnSet(f, T) + SumFunctionOnSet(g, T)
    <3> HIDE DEF x, U
    <3> QED  BY <2>3, <2>4, <2>5, <2>6
  <2> QED  BY <2>7
<1>3. S \in G
  <2>1. G \in SUBSET SUBSET S  OBVIOUS
  <2> HIDE DEF G
  <2> QED  BY <1>1, <1>2, <2>1, SetInduction
<1> QED  BY <1>3

\* A sum of summands that are not negative is not negative.
LEMMA SumPositive ==
  ASSUME NEW S, IsFiniteSet(S), NEW f, \A x \in S : f[x] \in Nat
  PROVE  SumFunctionOnSet(f, S) \in Nat
<1> DEFINE G == {T \in SUBSET S : SumFunctionOnSet(f, T) \in Nat}
<1>1. {} \in G  BY SumEmpty
<1>2. ASSUME NEW T \in SUBSET S, T # {}, T \ {First(T)} \in G PROVE T \in G
  <2>1. SumFunctionOnSet(f, T) = f[First(T)] + SumFunctionOnSet(f, T \ {First(T)})
    BY <1>2, FS_Subset, SumFirst
  <2>2. First(T) \in S  BY <1>2, FirstIn
  <2> QED  BY <1>2, <2>1, <2>2
<1>3. S \in G
  <2>1. G \in SUBSET SUBSET S  OBVIOUS
  <2> HIDE DEF G
  <2> QED  BY <1>1, <1>2, <2>1, SetInduction
<1> QED  BY <1>3

\* A sum with one summand that is not zero.
LEMMA SumSingle ==
  ASSUME NEW S, IsFiniteSet(S), NEW f, NEW x \in S, f[x] \in Int,
         \A y \in S \ {x} : f[y] = 0
  PROVE  SumFunctionOnSet(f, S) = f[x]
<1> DEFINE G == {T \in SUBSET S : SumFunctionOnSet(f, T) = IF x \in T THEN f[x] ELSE 0}
<1>1. {} \in G  BY SumEmpty
<1>2. ASSUME NEW T \in SUBSET S, T # {}, T \ {First(T)} \in G PROVE T \in G
  <2>1. SumFunctionOnSet(f, T) = f[First(T)] + SumFunctionOnSet(f, T \ {First(T)})
    BY <1>2, FS_Subset, SumFirst
  <2>2. First(T) \in T  BY <1>2, FirstIn
  <2>3. CASE First(T) = x  BY <1>2, <2>1, <2>2, <2>3
  <2>4. CASE First(T) # x  BY <1>2, <2>1, <2>2, <2>4
  <2> QED  BY <2>3, <2>4
<1>3. S \in G
  <2>1. G \in SUBSET SUBSET S  OBVIOUS
  <2> HIDE DEF G
  <2> QED  BY <1>1, <1>2, <2>1, SetInduction
<1> QED  BY <1>3

\* Functions that agree on S have one sum over S.
LEMMA SumSame ==
  ASSUME NEW S, IsFiniteSet(S), NEW f, NEW g, \A x \in S : f[x] \in Int /\ g[x] = f[x]
  PROVE  SumFunctionOnSet(g, S) = SumFunctionOnSet(f, S)
<1> DEFINE z == [x \in S |-> 0]
<1>1. SumFunctionOnSet(g, S) = SumFunctionOnSet(f, S) + SumFunctionOnSet(z, S)
  <2>1. \A x \in S : f[x] \in Int /\ z[x] \in Int /\ g[x] = f[x] + z[x]  OBVIOUS
  <2> HIDE DEF z
  <2> QED  BY <2>1, SumPlus
<1>2. SumFunctionOnSet(f, S) \in Int  BY SumType
<1>3. SumFunctionOnSet(z, S) = 0
  <2>1. CASE S = {}  BY <2>1, SumEmpty
  <2>2. CASE S # {}
    <3>1. PICK x \in S : TRUE  BY <2>2
    <3>2. z[x] = 0 /\ \A y \in S \ {x} : z[y] = 0  BY <3>1
    <3> HIDE DEF z
    <3> QED  BY <3>2, SumSingle
  <2> QED  BY <2>1, <2>2
<1> QED  BY <1>1, <1>2, <1>3

\* One summand changes.
LEMMA SumChange ==
  ASSUME NEW S, IsFiniteSet(S), NEW f, NEW g, NEW x \in S,
         \A y \in S : f[y] \in Int /\ g[y] \in Int,
         \A y \in S \ {x} : g[y] = f[y]
  PROVE  SumFunctionOnSet(g, S) = SumFunctionOnSet(f, S) + g[x] - f[x]
<1> DEFINE d == [y \in S |-> g[y] - f[y]]
<1>1. \A y \in S : d[y] \in Int /\ g[y] = f[y] + d[y]  OBVIOUS
<1>2. SumFunctionOnSet(d, S) = d[x]
  <2>1. \A y \in S \ {x} : d[y] = 0  OBVIOUS
  <2> HIDE DEF d
  <2> QED  BY <1>1, <2>1, SumSingle
<1>3. SumFunctionOnSet(g, S) = SumFunctionOnSet(f, S) + SumFunctionOnSet(d, S)
  <2> HIDE DEF d
  <2> QED  BY <1>1, SumPlus
<1>4. SumFunctionOnSet(f, S) \in Int  BY SumType
<1>5. d[x] = g[x] - f[x] /\ g[x] \in Int /\ f[x] \in Int  OBVIOUS
<1> HIDE DEF d
<1> QED  BY <1>2, <1>3, <1>4, <1>5

\* The sum of a function is the sum over its domain.
LEMMA SumWhole ==
  ASSUME NEW S, NEW f, DOMAIN f = S
  PROVE  SumFunction(f) = SumFunctionOnSet(f, S)
BY DEF SumFunction, SumFunctionOnSet, FoldFunction

-----------------------------------------------------------------------------
\* The same of the total of a function on S.

\* A total of naturals is one.
LEMMA TotalNat ==
  ASSUME NEW S, IsFiniteSet(S), NEW f \in [S -> Nat]
  PROVE  SumFunction(f) \in Nat
BY SumWhole, SumPositive

\* A total of integers is one.
LEMMA TotalInt ==
  ASSUME NEW S, IsFiniteSet(S), NEW f \in [S -> Int]
  PROVE  SumFunction(f) \in Int
BY SumWhole, SumType

\* A total with one value that is not zero.
LEMMA TotalSingle ==
  ASSUME NEW S, IsFiniteSet(S), NEW f \in [S -> Int], NEW x \in S,
         \A y \in S \ {x} : f[y] = 0
  PROVE  SumFunction(f) = f[x]
BY SumWhole, SumSingle

\* Values that add up, add up in the totals.
LEMMA TotalPlus ==
  ASSUME NEW S, IsFiniteSet(S), NEW f \in [S -> Int], NEW g \in [S -> Int],
         NEW h \in [S -> Int], \A x \in S : h[x] = f[x] + g[x]
  PROVE  SumFunction(h) = SumFunction(f) + SumFunction(g)
<1>1. \A x \in S : f[x] \in Int /\ g[x] \in Int /\ h[x] = f[x] + g[x]  OBVIOUS
<1>2. SumFunctionOnSet(h, S) = SumFunctionOnSet(f, S) + SumFunctionOnSet(g, S)
  BY <1>1, SumPlus
<1> QED  BY <1>2, SumWhole

\* One value changes.
LEMMA TotalChange ==
  ASSUME NEW S, IsFiniteSet(S), NEW f \in [S -> Int], NEW g \in [S -> Int], NEW x \in S,
         \A y \in S \ {x} : g[y] = f[y]
  PROVE  SumFunction(g) = SumFunction(f) + g[x] - f[x]
<1>1. \A y \in S : f[y] \in Int /\ g[y] \in Int  OBVIOUS
<1>2. SumFunctionOnSet(g, S) = SumFunctionOnSet(f, S) + g[x] - f[x]
  BY <1>1, SumChange
<1> QED  BY <1>2, SumWhole

\* A function that is 0 everywhere.
LEMMA TotalZero ==
  ASSUME NEW S, IsFiniteSet(S), NEW f \in [S -> Int], \A x \in S : f[x] = 0
  PROVE  SumFunction(f) = 0
<1>1. CASE S = {}
  BY <1>1, SumWhole, SumEmpty
<1>2. CASE S # {}
  <2>1. PICK x \in S : TRUE  BY <1>2
  <2> QED  BY <2>1, TotalSingle
<1> QED  BY <1>1, <1>2

\* Greater values have a greater total.
LEMMA TotalLess ==
  ASSUME NEW S, IsFiniteSet(S), NEW f \in [S -> Int], NEW g \in [S -> Int],
         \A x \in S : f[x] <= g[x]
  PROVE  SumFunction(f) <= SumFunction(g)
<1> DEFINE d == [x \in S |-> g[x] - f[x]]
<1>1. d \in [S -> Nat] /\ d \in [S -> Int] /\ \A x \in S : g[x] = f[x] + d[x]
  OBVIOUS
<1> HIDE DEF d
<1>2. SumFunction(g) = SumFunction(f) + SumFunction(d)
  BY <1>1, TotalPlus
<1>3. SumFunction(d) \in Nat /\ SumFunction(f) \in Int
  BY <1>1, TotalNat, TotalInt
<1> QED
  BY <1>2, <1>3

\* No value is greater than the total, if none is negative.
LEMMA TotalBound ==
  ASSUME NEW S, IsFiniteSet(S), NEW f \in [S -> Nat], NEW x \in S
  PROVE  f[x] <= SumFunction(f)
<1> DEFINE g == [y \in S |-> IF y = x THEN f[x] ELSE 0]
<1>1. g \in [S -> Int] /\ f \in [S -> Int] /\ g[x] = f[x]
  OBVIOUS
<1>2. (\A y \in S \ {x} : g[y] = 0) /\ \A y \in S : g[y] <= f[y]
  OBVIOUS
<1> HIDE DEF g
<1>3. SumFunction(g) = g[x]
  BY <1>1, <1>2, TotalSingle
<1>4. SumFunction(g) <= SumFunction(f)
  BY <1>1, <1>2, TotalLess
<1> QED
  BY <1>1, <1>3, <1>4

=============================================================================
