----------------------------- MODULE DataLemmas -----------------------------
(***************************************************************************)
(* Facts about data that the other proofs use: least and greatest elements *)
(* of sets of naturals, which the code takes with min, max and             *)
(* SELECT max(...); sizes of finite sets; sorted lists; and loops.  A loop *)
(* is FoldLeft of the community modules, a recursive function: the lemmas  *)
(* show that its recursion has a solution and what every solution is.      *)
(***************************************************************************)
EXTENDS Collections, Naturals, FiniteSetsExt, FiniteSetTheorems, WellFoundedInduction, TLAPS

\* A set of naturals that is not empty has a least element.
LEMMA LeastNat ==
    ASSUME NEW T, T \subseteq Nat, T # {}
    PROVE  \E m \in T : \A t \in T : m <= t
<1> DEFINE R == OpToRel(<, Nat)
<1>1. \E m \in T : \A t \in T : <<t, m>> \notin R
  <2>1. IsWellFoundedOn(R, Nat)
    BY NatLessThanWellFounded
  <2> HIDE DEF R
  <2>2. QED
    BY <2>1, WFMin
<1>2. \A t, m \in Nat : t < m => <<t, m>> \in R
  BY DEF OpToRel
<1> HIDE DEF R
<1>3. PICK m \in T : \A t \in T : <<t, m>> \notin R
  BY <1>1
<1>4. ASSUME NEW t \in T PROVE m <= t
  <2>1. t \in Nat /\ m \in Nat /\ ~(t < m)
    BY <1>2, <1>3
  <2>2. QED
    BY <2>1
<1>5. QED
  BY <1>4

\* A set of naturals with a bound has a greatest element.
LEMMA GreatestBounded ==
    ASSUME NEW b \in Nat, NEW T, T \subseteq 0..b, T # {}
    PROVE  \E m \in T : \A t \in T : t <= m
<1> DEFINE U == {b - t : t \in T}
<1>1. U \subseteq Nat /\ U # {}
  <2>1. \A t \in T : b - t \in Nat
    OBVIOUS
  <2>2. QED
    BY <2>1
<1>2. PICK u \in U : \A v \in U : u <= v
  <2> HIDE DEF U
  <2>1. QED
    BY <1>1, LeastNat
<1>3. PICK m \in T : u = b - m
  BY <1>2
<1>4. ASSUME NEW t \in T PROVE t <= m
  <2>1. b - m <= b - t
    BY <1>2, <1>3
  <2>2. QED
    BY <2>1
<1>5. QED
  BY <1>4

\* A finite set of naturals has a greatest element: of the subsets that have none, a
\* smallest one would have a smaller one.
LEMMA GreatestFinite ==
    ASSUME NEW T, T \subseteq Nat, IsFiniteSet(T), T # {}
    PROVE  \E m \in T : \A t \in T : t <= m
<1> DEFINE Bad == {U \in SUBSET T : U # {} /\ ~ \E m \in U : \A t \in U : t <= m}
           Sizes == {Cardinality(U) : U \in Bad}
<1>1. \A U \in SUBSET T : IsFiniteSet(U) /\ Cardinality(U) \in Nat
  BY FS_Subset, FS_CardinalityType
<1>2. Sizes \subseteq Nat
  BY <1>1
<1>3. SUFFICES ASSUME T \in Bad PROVE FALSE
  OBVIOUS
<1>4. PICK n \in Sizes : \A i \in Sizes : n <= i
  <2>1. Sizes # {}
    BY <1>3
  <2> HIDE DEF Sizes
  <2>2. QED
    BY <1>2, <2>1, LeastNat
<1>5. PICK U \in Bad : n = Cardinality(U)
  BY <1>4
<1>6. PICK x \in U : TRUE
  BY <1>5
<1>7. U \ {x} # {}
  <2>1. ASSUME U \ {x} = {} PROVE FALSE
    <3>1. \A t \in U : t = x
      BY <2>1
    <3>2. x \in Nat
      BY <1>5, <1>6
    <3>3. \A t \in U : t <= x
      BY <3>1, <3>2
    <3>4. QED
      BY <1>5, <1>6, <3>3
  <2>2. QED
    BY <2>1
<1>8. U \ {x} \notin Bad
  <2>1. Cardinality(U \ {x}) = n - 1
    BY <1>1, <1>5, <1>6, FS_RemoveElement
  <2>2. ASSUME U \ {x} \in Bad PROVE FALSE
    <3>1. n - 1 \in Sizes
      BY <2>1, <2>2
    <3>2. n \in Nat /\ n <= n - 1
      BY <1>2, <1>4, <3>1
    <3>3. QED
      BY <3>2
  <2>3. QED
    BY <2>2
<1>9. PICK m \in U \ {x} : \A t \in U \ {x} : t <= m
  BY <1>5, <1>7, <1>8
<1>10. m \in Nat /\ x \in Nat
  BY <1>5, <1>6, <1>9
<1>11. CASE x <= m
  <2>1. \A t \in U : t <= m
    BY <1>9, <1>11
  <2>2. QED
    BY <1>5, <1>9, <2>1
<1>12. CASE m <= x
  <2>1. ASSUME NEW t \in U PROVE t <= x
    <3>1. t \in Nat /\ (t = x \/ t <= m)
      BY <1>5, <1>9
    <3>2. QED
      BY <1>10, <1>12, <3>1
  <2>2. QED
    BY <1>5, <1>6, <2>1
<1>13. QED
  BY <1>10, <1>11, <1>12

\* Max of a set is an element of it and an upper bound.
LEMMA MaxIsGreatest ==
    ASSUME NEW T, T \subseteq Nat, NEW m \in T, \A t \in T : t <= m
    PROVE  /\ Max(T) \in T
           /\ \A t \in T : t <= Max(T)
<1>1. \E x \in T : \A y \in T : x >= y
  <2>1. \A y \in T : m >= y
    <3>1. ASSUME NEW y \in T PROVE m >= y
      <4>1. m \in Nat /\ y \in Nat /\ y <= m
        OBVIOUS
      <4>2. QED
        BY <4>1
    <3>2. QED
      BY <3>1
  <2>2. QED
    BY <2>1
<1>2. Max(T) \in T /\ \A y \in T : Max(T) >= y
  BY <1>1 DEF Max
<1>3. ASSUME NEW y \in T PROVE y <= Max(T)
  <2>1. Max(T) \in Nat /\ y \in Nat /\ Max(T) >= y
    BY <1>2
  <2>2. QED
    BY <2>1
<1>4. QED
  BY <1>2, <1>3

LEMMA MaxOfBounded ==
    ASSUME NEW b \in Nat, NEW T, T \subseteq 0..b, T # {}
    PROVE  /\ Max(T) \in T
           /\ \A t \in T : t <= Max(T)
<1>1. PICK m \in T : \A t \in T : t <= m
  BY GreatestBounded
<1>2. T \subseteq Nat
  OBVIOUS
<1>3. QED
  BY <1>1, <1>2, MaxIsGreatest

LEMMA MaxOfFinite ==
    ASSUME NEW T, T \subseteq Nat, IsFiniteSet(T), T # {}
    PROVE  /\ Max(T) \in T
           /\ \A t \in T : t <= Max(T)
<1>1. PICK m \in T : \A t \in T : t <= m
  BY GreatestFinite
<1>2. QED
  BY <1>1, MaxIsGreatest

-----------------------------------------------------------------------------
(* Sizes of finite sets.                                                   *)

LEMMA OneMore ==
    ASSUME NEW S, IsFiniteSet(S), NEW x
    PROVE  /\ IsFiniteSet(S \cup {x})
           /\ Cardinality(S) \in Nat
           /\ Cardinality(S \cup {x}) \in Nat
           /\ Cardinality(S \cup {x}) <= Cardinality(S) + 1
           /\ x \notin S => Cardinality(S \cup {x}) = Cardinality(S) + 1
<1>1. /\ IsFiniteSet(S \cup {x})
      /\ Cardinality(S \cup {x}) = IF x \in S THEN Cardinality(S) ELSE Cardinality(S) + 1
  BY FS_AddElement
<1>2. Cardinality(S) \in Nat
  BY FS_CardinalityType
<1>3. QED
  BY <1>1, <1>2

LEMMA SubsetIsSmaller ==
    ASSUME NEW S, IsFiniteSet(S), NEW T, T \subseteq S
    PROVE  /\ IsFiniteSet(T)
           /\ Cardinality(T) \in Nat /\ Cardinality(S) \in Nat
           /\ Cardinality(T) <= Cardinality(S)
BY FS_Subset, FS_CardinalityType

\* A set of numbers from 1 on that has no gap below any of its members.
LEMMA NoGap ==
    ASSUME NEW b \in Nat, NEW T, T \subseteq 1..b,
           \A n \in T, m \in 1..b : m < n => m \in T
    PROVE  \E n \in Nat : T = 1..n
<1>1. CASE T = {}
  <2>1. T = 1..0
    BY <1>1
  <2>2. QED
    BY <2>1
<1>2. CASE T # {}
  <2>1. T \subseteq 0..b
    OBVIOUS
  <2>2. PICK n \in T : \A m \in T : m <= n
    BY <1>2, <2>1, GreatestBounded
  <2>3. n \in 1..b /\ n \in Nat
    OBVIOUS
  <2>4. \A m \in 1..n : m \in T
    <3>1. \A m \in 1..n : m \in 1..b /\ (m < n \/ m = n)
      BY <2>3
    <3>2. QED
      BY <3>1
  <2>5. \A m \in T : m \in 1..n
    BY <2>2, <2>3
  <2>6. T = 1..n
    BY <2>4, <2>5
  <2>7. QED
    BY <2>3, <2>6
<1>3. QED
  BY <1>1, <1>2

\* A set of at most one element.
LEMMA AtMostOne ==
    ASSUME NEW S, IsFiniteSet(S), \A x, y \in S : x = y
    PROVE  Cardinality(S) <= 1
<1>1. CASE S = {}
  BY <1>1, FS_EmptySet
<1>2. ASSUME NEW x \in S PROVE Cardinality(S) = 1
  <2>1. S = {x}
    OBVIOUS
  <2>2. QED
    BY <2>1, FS_Singleton
<1>3. QED
  BY <1>1, <1>2

-----------------------------------------------------------------------------
(* Recursion over the subsets of a finite set.                             *)

\* What holds of 0 and is passed on from each number to the next holds of every natural
\* number: the least one without it would have a predecessor with it.
LEMMA NatSet ==
    ASSUME NEW T, 0 \in T, \A n \in Nat : n \in T => n + 1 \in T
    PROVE  Nat \subseteq T
<1>1. SUFFICES ASSUME Nat \ T # {} PROVE FALSE
  OBVIOUS
<1>2. PICK m \in Nat \ T : \A n \in Nat \ T : m <= n
  BY <1>1, LeastNat
<1>3. m # 0 /\ m - 1 \in Nat
  BY <1>2
<1>4. m - 1 \in T
  <2>1. ~(m <= m - 1)
    BY <1>2
  <2>2. QED
    BY <1>2, <1>3, <2>1
<1>5. m \in T
  <2>1. (m - 1) + 1 \in T
    BY <1>3, <1>4
  <2>2. (m - 1) + 1 = m
    BY <1>2
  <2>3. QED
    BY <2>1, <2>2
<1>6. QED
  BY <1>2, <1>5

\* What MapThenFoldSet iterates: h folds every subset of D, taking the element pick[S] of S
\* last.
IsFold(h, D, V, base, pick, step) ==
    /\ h \in [SUBSET D -> V]
    /\ h[{}] = base
    /\ \A S \in SUBSET D : S # {} => h[S] = step[<<pick[S], h[S \ {pick[S]}]>>]

LEMMA FoldExists ==
    ASSUME NEW D, IsFiniteSet(D), NEW V, NEW base \in V,
           NEW pick, \A S \in SUBSET D : S # {} => pick[S] \in S,
           NEW step \in [D \X V -> V]
    PROVE  \E h : IsFold(h, D, V, base, pick, step)
<1> DEFINE Small(n) == {S \in SUBSET D : Cardinality(S) <= n}
           Loop(n, h) == /\ h[{}] = base
                         /\ \A S \in Small(n) :
                               S # {} => h[S] = step[<<pick[S], h[S \ {pick[S]}]>>]
           T == {n \in Nat : \E h \in [Small(n) -> V] : Loop(n, h)}
<1>1. \A S \in SUBSET D : IsFiniteSet(S) /\ Cardinality(S) \in Nat
  BY FS_Subset, FS_CardinalityType
<1>2. {} \in SUBSET D /\ Cardinality({}) = 0
  BY FS_EmptySet
<1>3. \A S \in SUBSET D : Cardinality(S) = 0 <=> S = {}
  BY <1>1, FS_EmptySet
<1>4. \A S \in SUBSET D : S # {} =>
         /\ S \ {pick[S]} \in SUBSET D
         /\ Cardinality(S \ {pick[S]}) = Cardinality(S) - 1
  BY <1>1, FS_RemoveElement
<1>5. 0 \in T
  <2> DEFINE h == [S \in Small(0) |-> base]
  <2>1. h \in [Small(0) -> V]
    OBVIOUS
  <2>2. \A S \in Small(0) : S = {}
    BY <1>1, <1>3
  <2>3. {} \in Small(0)
    BY <1>2
  <2>4. Loop(0, h)
    BY <2>2, <2>3
  <2>5. QED
    BY <2>1, <2>4
<1>6. ASSUME NEW n \in Nat, n \in T PROVE n + 1 \in T
  <2>1. PICK g \in [Small(n) -> V] : Loop(n, g)
    BY <1>6
  <2> DEFINE h == [S \in Small(n + 1) |->
                     IF Cardinality(S) <= n THEN g[S] ELSE step[<<pick[S], g[S \ {pick[S]}]>>]]
  <2>2. \A S \in Small(n) : S \in Small(n + 1) /\ h[S] = g[S]
    BY <1>1
  <2>3. \A S \in Small(n + 1) : S # {} => pick[S] \in D /\ S \ {pick[S]} \in Small(n)
    BY <1>1, <1>4
  <2>4. \A S \in Small(n + 1) : ~(Cardinality(S) <= n) => S # {}
    BY <1>3
  <2>5. h \in [Small(n + 1) -> V]
    <3>1. ASSUME NEW S \in Small(n + 1)
          PROVE  (IF Cardinality(S) <= n THEN g[S] ELSE step[<<pick[S], g[S \ {pick[S]}]>>]) \in V
      <4>1. CASE Cardinality(S) <= n
        BY <4>1
      <4>2. CASE ~(Cardinality(S) <= n)
        <5>1. pick[S] \in D /\ g[S \ {pick[S]}] \in V
          BY <2>3, <2>4, <4>2
        <5>2. <<pick[S], g[S \ {pick[S]}]>> \in D \X V
          BY <5>1
        <5>3. QED
          BY <4>2, <5>2
      <4>3. QED
        BY <4>1, <4>2
    <3>2. QED
      BY <3>1
  <2>6. Loop(n + 1, h)
    <3>1. h[{}] = base
      BY <1>2, <2>1, <2>2
    <3>2. ASSUME NEW S \in Small(n + 1), S # {}
          PROVE  h[S] = step[<<pick[S], h[S \ {pick[S]}]>>]
      <4>1. h[S \ {pick[S]}] = g[S \ {pick[S]}]
        BY <2>2, <2>3, <3>2
      <4>2. CASE Cardinality(S) <= n
        BY <2>1, <2>2, <3>2, <4>1, <4>2
      <4>3. CASE ~(Cardinality(S) <= n)
        BY <4>1, <4>3
      <4>4. QED
        BY <4>2, <4>3
    <3>3. QED
      BY <3>1, <3>2
  <2> HIDE DEF h, Loop, Small
  <2>7. QED
    BY <2>5, <2>6
<1>7. Nat \subseteq T
  <2> HIDE DEF T
  <2>1. QED
    BY <1>5, <1>6, NatSet
<1>8. Cardinality(D) \in T
  BY <1>1, <1>7
<1>9. Small(Cardinality(D)) = SUBSET D
  BY <1>1, SubsetIsSmaller
<1>10. QED
  BY <1>8, <1>9 DEF IsFold

-----------------------------------------------------------------------------
(* Sorted lists.                                                           *)

\* f numbers the n elements of its domain, and s lists them in the order of their numbers.
IsNumbering(f, n) ==
    /\ IsFiniteSet(DOMAIN f) /\ n = Cardinality(DOMAIN f)
    /\ \A x \in DOMAIN f : f[x] \in Nat
    /\ \A x, y \in DOMAIN f : f[x] = f[y] => x = y

IsListing(s, f, n) ==
    /\ n \in Nat
    /\ s \in [1..n -> DOMAIN f]
    /\ \A x \in DOMAIN f : \E i \in 1..n : s[i] = x
    /\ \A i, j \in 1..n : i < j => f[s[i]] < f[s[j]]

LEMMA SortedIs ==
    ASSUME NEW f, NEW n, IsNumbering(f, n)
    PROVE  IsListing(Sorted(f), f, n)
<1> USE DEF IsNumbering
<1> DEFINE D == DOMAIN f
           below(x) == {y \in D : f[y] < f[x]}
           rank == [x \in D |-> Cardinality(below(x))]
           s == Sorted(f)
<1>1. n \in Nat
  BY FS_CardinalityType
<1>2. \A x \in D : IsFiniteSet(below(x)) /\ Cardinality(below(x)) \in Nat
  BY SubsetIsSmaller
<1>3. ASSUME NEW x \in D, NEW y \in D, f[x] < f[y] PROVE rank[x] < rank[y]
  <2>1. below(x) \cup {x} \subseteq below(y)
    BY <1>3
  <2>2. x \notin below(x)
    OBVIOUS
  <2> HIDE DEF below
  <2>3. /\ Cardinality(below(x) \cup {x}) = Cardinality(below(x)) + 1
        /\ Cardinality(below(x)) \in Nat /\ Cardinality(below(x) \cup {x}) \in Nat
    BY <1>2, <2>2, OneMore
  <2>4. Cardinality(below(x) \cup {x}) <= Cardinality(below(y)) /\ Cardinality(below(y)) \in Nat
    BY <1>2, <2>1, SubsetIsSmaller
  <2>5. QED
    BY <2>3, <2>4
<1>4. \A x, y \in D : rank[x] = rank[y] => x = y
  <2>1. SUFFICES ASSUME NEW x \in D, NEW y \in D, rank[x] = rank[y], x # y PROVE FALSE
    OBVIOUS
  <2>2. f[x] < f[y] \/ f[y] < f[x]
    BY <2>1
  <2>3. rank[x] \in Nat /\ rank[y] \in Nat
    BY <1>2
  <2> HIDE DEF rank
  <2>4. QED
    BY <1>3, <2>1, <2>2, <2>3
<1>5. \A x \in D : rank[x] \in 0..(n - 1)
  <2>1. SUFFICES ASSUME NEW x \in D PROVE Cardinality(below(x)) \in 0..(n - 1)
    OBVIOUS
  <2>2. below(x) \subseteq D \ {x}
    OBVIOUS
  <2>3. IsFiniteSet(D \ {x}) /\ Cardinality(D \ {x}) = n - 1
    BY FS_RemoveElement
  <2> HIDE DEF below
  <2>4. Cardinality(below(x)) <= n - 1 /\ Cardinality(below(x)) \in Nat
    BY <2>2, <2>3, SubsetIsSmaller
  <2>5. QED
    BY <1>1, <2>4
<1>6. \A k \in 0..(n - 1) : \E x \in D : rank[x] = k
  <2>1. rank \in Injection(D, 0..(n - 1))
    <3>1. rank \in [D -> 0..(n - 1)]
      BY <1>5
    <3> HIDE DEF rank
    <3>2. QED
      BY <1>4, <3>1 DEF Injection, IsInjective
  <2>2. IsFiniteSet(0..(n - 1)) /\ Cardinality(0..(n - 1)) = n
    <3>1. 0 \in Int /\ n - 1 \in Int
      BY <1>1
    <3>2. IsFiniteSet(0..(n - 1)) /\ Cardinality(0..(n - 1)) = IF 0 > n - 1 THEN 0 ELSE (n - 1) - 0 + 1
      BY <3>1, FS_Interval
    <3>3. QED
      BY <1>1, <3>2
  <2> HIDE DEF rank
  <2>3. rank \in Surjection(D, 0..(n - 1))
    BY <2>1, <2>2, FS_Injection
  <2>4. QED
    BY <2>3 DEF Surjection
<1>7. /\ s = [i \in 1..n |-> s[i]]
      /\ \A i \in 1..n : s[i] = CHOOSE x \in D : Cardinality(below(x)) = i - 1
  <2> DEFINE e(i) == CHOOSE x \in D : Cardinality(below(x)) = i - 1
  <2>1. s = [i \in 1..n |-> e(i)]
    BY DEF Sorted
  <2> HIDE DEF e, s
  <2>2. s = [i \in 1..n |-> s[i]] /\ \A i \in 1..n : s[i] = e(i)
    BY <2>1
  <2>3. QED
    BY <2>2 DEF e
<1>8. \A i \in 1..n : s[i] \in D /\ rank[s[i]] = i - 1
  <2>1. SUFFICES ASSUME NEW i \in 1..n PROVE s[i] \in D /\ rank[s[i]] = i - 1
    OBVIOUS
  <2>2. \E x \in D : Cardinality(below(x)) = i - 1
    <3>1. i - 1 \in 0..(n - 1)
      BY <1>1
    <3>2. PICK x \in D : rank[x] = i - 1
      BY <1>6, <3>1
    <3>3. QED
      BY <3>2
  <2> HIDE DEF below, s
  <2>3. s[i] \in D /\ Cardinality(below(s[i])) = i - 1
    BY <1>7, <2>2
  <2>4. QED
    BY <2>3
<1> HIDE DEF rank, s
<1>9. s \in [1..n -> D]
  BY <1>7, <1>8
<1>10. \A x \in D : \E i \in 1..n : s[i] = x
  <2>1. SUFFICES ASSUME NEW x \in D PROVE \E i \in 1..n : s[i] = x
    OBVIOUS
  <2>2. rank[x] + 1 \in 1..n /\ rank[x] = (rank[x] + 1) - 1
    BY <1>1, <1>5
  <2>3. QED
    BY <1>4, <1>8, <2>2
<1>11. ASSUME NEW i \in 1..n, NEW j \in 1..n, i < j PROVE f[s[i]] < f[s[j]]
  <2>1. rank[s[i]] < rank[s[j]] /\ rank[s[i]] \in Nat /\ rank[s[j]] \in Nat
    BY <1>1, <1>8, <1>11
  <2>2. f[s[i]] \in Nat /\ f[s[j]] \in Nat
    BY <1>8
  <2>3. f[s[i]] = f[s[j]] => s[i] = s[j]
    BY <1>8
  <2>4. ~(f[s[j]] < f[s[i]])
    <3>1. ASSUME f[s[j]] < f[s[i]] PROVE FALSE
      <4>1. rank[s[j]] < rank[s[i]]
        BY <1>3, <1>8, <3>1
      <4>2. QED
        BY <2>1, <4>1
    <3>2. QED
      BY <3>1
  <2>5. QED
    BY <2>1, <2>2, <2>3, <2>4
<1>12. QED
  BY <1>1, <1>9, <1>10, <1>11 DEF s, IsListing

\* What the loop over a sorted list has seen after its first i elements.
Upto(s, i) == {s[j] : j \in 1..i}

LEMMA UptoGrows ==
    ASSUME NEW n \in Nat, NEW s, NEW i \in 1..n
    PROVE  Upto(s, i) = Upto(s, i - 1) \cup {s[i]}
<1>1. \A j : j \in 1..i <=> j \in 1..(i - 1) \/ j = i
  OBVIOUS
<1>2. QED
  BY <1>1 DEF Upto

LEMMA UptoNone == ASSUME NEW s PROVE Upto(s, 0) = {}
BY DEF Upto

-----------------------------------------------------------------------------
(* FoldLeft over a sequence of n elements: the recursion has a solution,   *)
(* and every solution takes the elements one after the other.              *)

LEMMA MaxOfIndices ==
    ASSUME NEW n \in Nat, NEW S \in SUBSET (1..n), S # {}
    PROVE  Max(S) \in S
<1>1. S \subseteq 0..n
  OBVIOUS
<1>2. QED
  BY <1>1, MaxOfBounded

IsLoop(g, n, V, base, s, op) ==
    /\ g \in [SUBSET (1..n) -> V]
    /\ g[{}] = base
    /\ \A S \in SUBSET (1..n) : S # {} => g[S] = op[<<g[S \ {Max(S)}], s[Max(S)]>>]

\* p[i] is the value of h after the first i elements of s.
IsRun(p, h, n, V, base, s, op) ==
    /\ p \in [0..n -> V]
    /\ p[n] = h[1..n]
    /\ p[0] = base
    /\ \A i \in 1..n : p[i] = op[<<p[i - 1], s[i]>>]

LEMMA LoopExists ==
    ASSUME NEW n \in Nat, NEW V, NEW base \in V, NEW E, NEW s \in [1..n -> E],
           NEW op \in [V \X E -> V]
    PROVE  \E g : IsLoop(g, n, V, base, s, op)
<1> DEFINE D == 1..n
           pick == [S \in SUBSET D |-> Max(S)]
           step == [q \in D \X V |-> op[<<q[2], s[q[1]]>>]]
<1>1. IsFiniteSet(D)
  BY FS_Interval
<1>2. \A S \in SUBSET D : S # {} => pick[S] \in S
  BY MaxOfIndices
<1>3. step \in [D \X V -> V]
  <2>1. ASSUME NEW q \in D \X V PROVE op[<<q[2], s[q[1]]>>] \in V
    <3>1. <<q[2], s[q[1]]>> \in V \X E
      OBVIOUS
    <3>2. QED
      BY <3>1
  <2>2. QED
    BY <2>1
<1>4. \A i \in D, v \in V : step[<<i, v>>] = op[<<v, s[i]>>]
  OBVIOUS
<1>5. \A S \in SUBSET D : pick[S] = Max(S)
  OBVIOUS
<1> HIDE DEF pick, step
<1>6. PICK g : IsFold(g, D, V, base, pick, step)
  <2> HIDE DEF D
  <2>1. QED
    BY <1>1, <1>2, <1>3, FoldExists
<1>7. ASSUME NEW S \in SUBSET D, S # {} PROVE g[S] = op[<<g[S \ {Max(S)}], s[Max(S)]>>]
  <2>1. Max(S) \in D /\ g[S \ {Max(S)}] \in V
    BY <1>6, <1>7, MaxOfIndices DEF IsFold
  <2>2. g[S] = step[<<Max(S), g[S \ {Max(S)}]>>]
    BY <1>5, <1>6, <1>7 DEF IsFold
  <2>3. QED
    BY <1>4, <2>1, <2>2
<1>8. QED
  BY <1>6, <1>7 DEF IsFold, IsLoop

\* A function that is defined by the recursion of FoldLeft.
RunsTo(h, n, V, base, s, op) ==
    /\ h[{}] = base
    /\ \A S \in SUBSET (1..n) : S # {} /\ h[S \ {Max(S)}] \in V
          => h[S] = op[<<h[S \ {Max(S)}], s[Max(S)]>>]

LEMMA LoopValue ==
    ASSUME NEW n \in Nat, NEW V, NEW base \in V, NEW E, NEW s \in [1..n -> E],
           NEW op \in [V \X E -> V],
           NEW h, RunsTo(h, n, V, base, s, op)
    PROVE  \E p : IsRun(p, h, n, V, base, s, op)
<1> DEFINE p == [i \in 0..n |-> h[1..i]]
           T == {i \in Nat : i <= n => h[1..i] \in V}
<1>1. ASSUME NEW i \in Nat, i + 1 <= n, h[1..i] \in V
      PROVE  h[1..(i + 1)] = op[<<h[1..i], s[i + 1]>>] /\ h[1..(i + 1)] \in V
  <2> DEFINE S == 1..(i + 1)
  <2>1. S \in SUBSET (1..n) /\ S # {} /\ i + 1 \in S
    <3>1. i + 1 \in 1..(i + 1) /\ \A j \in 1..(i + 1) : j \in 1..n
      BY <1>1
    <3>2. QED
      BY <3>1
  <2>2. Max(S) = i + 1
    <3>1. \E x \in S : \A y \in S : x >= y
      <4>1. \A y \in S : i + 1 >= y
        OBVIOUS
      <4> HIDE DEF S
      <4>2. QED
        BY <2>1, <4>1
    <3>2. Max(S) \in S /\ \A y \in S : Max(S) >= y
      <4> HIDE DEF S
      <4>1. QED
        BY <3>1 DEF Max
    <3>3. QED
      BY <2>1, <3>2
  <2>3. S \ {i + 1} = 1..i
    OBVIOUS
  <2> HIDE DEF S
  <2>4. h[S] = op[<<h[1..i], s[i + 1]>>]
    BY <1>1, <2>1, <2>2, <2>3 DEF RunsTo
  <2>5. s[i + 1] \in E
    BY <1>1
  <2>6. <<h[1..i], s[i + 1]>> \in V \X E
    BY <1>1, <2>5
  <2>7. QED
    BY <2>4, <2>6 DEF S
<1>2. h[1..0] = base
  <2>1. 1..0 = {}
    OBVIOUS
  <2>2. QED
    BY <2>1 DEF RunsTo
<1>3. Nat \subseteq T
  <2>1. 0 \in T
    BY <1>2
  <2>2. ASSUME NEW i \in Nat, i \in T PROVE i + 1 \in T
    <3>1. i + 1 \in Nat /\ (i + 1 <= n => i <= n)
      OBVIOUS
    <3>2. i + 1 <= n => h[1..(i + 1)] \in V
      BY <1>1, <2>2, <3>1
    <3>3. QED
      BY <3>1, <3>2
  <2> HIDE DEF T
  <2>3. QED
    BY <2>1, <2>2, NatSet
<1>4. \A i \in 0..n : h[1..i] \in V
  BY <1>3
<1>5. p \in [0..n -> V]
  BY <1>4
<1>6. ASSUME NEW i \in 1..n PROVE p[i] = op[<<p[i - 1], s[i]>>]
  <2>1. i - 1 \in Nat /\ (i - 1) + 1 = i /\ i - 1 \in 0..n /\ i \in 0..n
    OBVIOUS
  <2>2. h[1..((i - 1) + 1)] = op[<<h[1..(i - 1)], s[(i - 1) + 1]>>]
    BY <1>1, <1>4, <2>1
  <2>3. h[1..i] = op[<<h[1..(i - 1)], s[i]>>]
    BY <2>1, <2>2
  <2>4. QED
    BY <2>1, <2>3
<1>7. p[0] = base /\ h[1..n] = p[n]
  BY <1>2
<1> HIDE DEF p
<1>8. QED
  BY <1>5, <1>6, <1>7 DEF IsRun

-----------------------------------------------------------------------------
(* Sums over a sequence.                                                   *)

\* p adds up the weights w of n elements.
IsTally(p, n, w) ==
    /\ \A i \in 1..n : w[i] \in Nat
    /\ p \in [0..n -> Nat]
    /\ p[0] = 0
    /\ \A i \in 1..n : p[i] = p[i - 1] + w[i]

LEMMA TallyIsUnique ==
    ASSUME NEW n \in Nat, NEW w, NEW p, IsTally(p, n, w), NEW q, IsTally(q, n, w)
    PROVE  p[n] = q[n]
<1> DEFINE I == {i \in Nat : i <= n => p[i] = q[i]}
<1>1. 0 \in I
  BY DEF IsTally
<1>2. ASSUME NEW i \in Nat, i \in I PROVE i + 1 \in I
  <2>1. SUFFICES ASSUME i + 1 <= n PROVE p[i + 1] = q[i + 1]
    OBVIOUS
  <2>2. i + 1 \in 1..n /\ (i + 1) - 1 = i /\ i <= n
    BY <2>1
  <2>3. p[i] = q[i]
    BY <1>2, <2>2
  <2>4. p[i + 1] = p[(i + 1) - 1] + w[i + 1] /\ q[i + 1] = q[(i + 1) - 1] + w[i + 1]
    BY <2>2 DEF IsTally
  <2>5. QED
    BY <2>2, <2>3, <2>4
<1> HIDE DEF I
<1>3. n \in I
  BY <1>1, <1>2, NatSet
<1>4. QED
  BY <1>3 DEF I

\* w has the m weights of u, and then the n weights of v.
IsBoth(w, m, u, n, v) ==
    /\ \A i \in 1..m : w[i] = u[i]
    /\ \A i \in 1..n : w[m + i] = v[i]

LEMMA TallyOfBoth ==
    ASSUME NEW m \in Nat, NEW n \in Nat, NEW u, NEW v, NEW w, IsBoth(w, m, u, n, v),
           NEW p, IsTally(p, m, u), NEW q, IsTally(q, n, v),
           NEW r, IsTally(r, m + n, w)
    PROVE  r[m + n] = p[m] + q[n]
<1> USE DEF IsBoth
<1> DEFINE t == [i \in 0..(m + n) |-> IF i <= m THEN p[i] ELSE p[m] + q[i - m]]
<1>1. p[m] \in Nat /\ q[0] = 0
  BY DEF IsTally
<1>2. t \in [0..(m + n) -> Nat]
  <2>1. ASSUME NEW i \in 0..(m + n)
        PROVE  (IF i <= m THEN p[i] ELSE p[m] + q[i - m]) \in Nat
    <3>1. CASE i <= m
      BY <3>1 DEF IsTally
    <3>2. CASE ~(i <= m)
      <4>1. i - m \in 0..n
        BY <3>2
      <4>2. q[i - m] \in Nat
        BY <4>1 DEF IsTally
      <4>3. QED
        BY <1>1, <3>2, <4>2
    <3>3. QED
      BY <3>1, <3>2
  <2>2. QED
    BY <2>1
<1>3. t[0] = 0
  BY DEF IsTally
<1>4. \A i \in 0..n : t[m + i] = p[m] + q[i]
  <2>1. SUFFICES ASSUME NEW i \in 0..n PROVE t[m + i] = p[m] + q[i]
    OBVIOUS
  <2>2. m + i \in 0..(m + n) /\ (m + i) - m = i /\ (m + i <= m => i = 0 /\ m + i = m)
    OBVIOUS
  <2>3. QED
    BY <1>1, <2>2
<1>5. \A i \in 0..m : t[i] = p[i]
  OBVIOUS
<1>6. ASSUME NEW i \in 1..(m + n) PROVE t[i] = t[i - 1] + w[i]
  <2>1. CASE i <= m
    <3>1. i \in 1..m /\ i - 1 \in 0..m /\ i \in 0..m
      BY <2>1
    <3>2. p[i] = p[i - 1] + u[i]
      BY <3>1 DEF IsTally
    <3> HIDE DEF t
    <3>3. QED
      BY <1>5, <3>1, <3>2
  <2>2. CASE ~(i <= m)
    <3>1. PICK j : j = i - m
      OBVIOUS
    <3>2. j \in 1..n /\ j - 1 \in 0..n /\ j \in 0..n /\ i = m + j /\ i - 1 = m + (j - 1)
      BY <2>2, <3>1
    <3>3. q[j] = q[j - 1] + v[j] /\ q[j - 1] \in Nat /\ v[j] \in Nat
      BY <3>2 DEF IsTally
    <3>4. v[j] = w[i]
      BY <3>2
    <3>5. t[i] = p[m] + q[j] /\ t[i - 1] = p[m] + q[j - 1]
      <4> HIDE DEF t
      <4>1. t[m + j] = p[m] + q[j] /\ t[m + (j - 1)] = p[m] + q[j - 1]
        BY <1>4, <3>2
      <4>2. QED
        BY <3>2, <4>1
    <3> HIDE DEF t
    <3>6. QED
      BY <1>1, <3>3, <3>4, <3>5
  <2>3. QED
    BY <2>1, <2>2
<1>7. t[m + n] = p[m] + q[n]
  BY <1>4
<1> HIDE DEF t
<1>8. IsTally(t, m + n, w)
  <2>1. \A i \in 1..(m + n) : w[i] \in Nat
    BY DEF IsTally
  <2>2. QED
    BY <2>1, <1>2, <1>3, <1>6 DEF IsTally
<1>9. t[m + n] = r[m + n]
  <2>1. m + n \in Nat
    OBVIOUS
  <2>2. QED
    BY <1>8, <2>1, TallyIsUnique
<1>10. QED
  BY <1>7, <1>9

\* The recursion of FoldLeft, where it adds up weights.
IsAdding(h, n, w) ==
    h = [S \in SUBSET (1..n) |-> IF S = {} THEN 0 ELSE h[S \ {Max(S)}] + w[Max(S)]]

LEMMA AddingIs ==
    ASSUME NEW n \in Nat, NEW w \in [1..n -> Nat]
    PROVE  /\ \E h : IsAdding(h, n, w)
           /\ \A h : IsAdding(h, n, w) => \E p : IsTally(p, n, w) /\ h[1..n] = p[n]
<1> DEFINE op == [q \in Nat \X Nat |-> q[1] + q[2]]
<1>1. op \in [Nat \X Nat -> Nat] /\ 0 \in Nat
  OBVIOUS
<1>2. \A a, b \in Nat : op[<<a, b>>] = a + b
  OBVIOUS
<1> HIDE DEF op
<1>3. \E h : IsAdding(h, n, w)
  <2>1. PICK g : IsLoop(g, n, Nat, 0, w, op)
    BY <1>1, LoopExists
  <2>2. ASSUME NEW S \in SUBSET (1..n), S # {} PROVE g[S] = g[S \ {Max(S)}] + w[Max(S)]
    <3>1. Max(S) \in 1..n /\ w[Max(S)] \in Nat /\ g[S \ {Max(S)}] \in Nat
      BY <2>1, <2>2, MaxOfIndices DEF IsLoop
    <3>2. QED
      BY <1>2, <2>1, <2>2, <3>1 DEF IsLoop
  <2>3. QED
    BY <2>1, <2>2 DEF IsLoop, IsAdding
<1>4. ASSUME NEW h, IsAdding(h, n, w) PROVE \E p : IsTally(p, n, w) /\ h[1..n] = p[n]
  <2>1. /\ h[{}] = 0
        /\ \A S \in SUBSET (1..n) : S # {} => h[S] = h[S \ {Max(S)}] + w[Max(S)]
    BY <1>4 DEF IsAdding
  <2>2. ASSUME NEW S \in SUBSET (1..n), S # {}, h[S \ {Max(S)}] \in Nat
        PROVE  h[S] = op[<<h[S \ {Max(S)}], w[Max(S)]>>]
    <3>1. Max(S) \in 1..n /\ w[Max(S)] \in Nat
      BY <2>2, MaxOfIndices
    <3>2. QED
      BY <1>2, <2>1, <2>2, <3>1
  <2>3. RunsTo(h, n, Nat, 0, w, op)
    BY <2>1, <2>2 DEF RunsTo
  <2>4. PICK p : IsRun(p, h, n, Nat, 0, w, op)
    BY <1>1, <2>3, LoopValue
  <2>5. ASSUME NEW i \in 1..n PROVE p[i] = p[i - 1] + w[i]
    <3>1. i - 1 \in 0..n
      OBVIOUS
    <3>2. p[i - 1] \in Nat /\ p[i] = op[<<p[i - 1], w[i]>>]
      BY <2>4, <3>1 DEF IsRun
    <3>3. QED
      BY <1>2, <3>2
  <2>6. IsTally(p, n, w)
    BY <2>4, <2>5 DEF IsRun, IsTally
  <2>7. QED
    BY <2>4, <2>6 DEF IsRun
<1>5. QED
  BY <1>3, <1>4

-----------------------------------------------------------------------------
(* Functions on the naturals that are defined by recursion to a smaller    *)
(* number.                                                                 *)

\* f is defined by recursion to a smaller number, rest[n] for n.
IsDescent(f, N, base, rest, step) ==
    /\ f[0] = base
    /\ \A n \in N : n # 0 => f[n] = step[<<n, f[rest[n]]>>]

Descends(rest) == \A n \in Nat : n # 0 => rest[n] \in Nat /\ rest[n] < n

LEMMA DescentIsUnique ==
    ASSUME NEW base, NEW rest, Descends(rest), NEW step,
           NEW a \in Nat, NEW b \in Nat,
           NEW f, IsDescent(f, 0..a, base, rest, step),
           NEW g, IsDescent(g, 0..b, base, rest, step),
           NEW n \in Nat, n <= a, n <= b
    PROVE  f[n] = g[n]
<1> DEFINE D == {m \in Nat : m <= a /\ m <= b /\ f[m] # g[m]}
<1>1. SUFFICES ASSUME D # {} PROVE FALSE
  OBVIOUS
<1>2. PICK m \in D : \A k \in D : m <= k
  <2>1. D \subseteq Nat
    OBVIOUS
  <2> HIDE DEF D
  <2>2. QED
    BY <1>1, <2>1, LeastNat
<1>3. m \in Nat /\ m <= a /\ m <= b /\ f[m] # g[m]
  BY <1>2
<1>4. m # 0
  BY <1>3 DEF IsDescent
<1>5. PICK k : k = rest[m]
  OBVIOUS
<1>6. k \in Nat /\ k < m /\ k <= a /\ k <= b
  BY <1>3, <1>4, <1>5 DEF Descends
<1>7. f[k] = g[k]
  <2>1. k \notin D
    BY <1>2, <1>3, <1>6
  <2>2. QED
    BY <1>6, <2>1
<1>8. m \in 0..a /\ m \in 0..b
  BY <1>3
<1>9. f[m] = step[<<m, f[k]>>] /\ g[m] = step[<<m, g[k]>>]
  BY <1>4, <1>5, <1>8 DEF IsDescent
<1>10. QED
  BY <1>3, <1>7, <1>9

LEMMA DescentExists ==
    ASSUME NEW V, NEW base \in V, NEW rest, Descends(rest), NEW step \in [Nat \X V -> V]
    PROVE  \E f \in [Nat -> V] : IsDescent(f, Nat, base, rest, step)
<1> DEFINE Part(g, n) == g \in [0..n -> V] /\ IsDescent(g, 0..n, base, rest, step)
           T == {n \in Nat : \E g : Part(g, n)}
<1>1. 0 \in T
  <2>1. PICK g : g = [i \in 0..0 |-> base]
    OBVIOUS
  <2>2. Part(g, 0)
    BY <2>1 DEF IsDescent
  <2>3. QED
    BY <2>2
<1>2. ASSUME NEW n \in Nat, n \in T PROVE n + 1 \in T
  <2>1. PICK g : Part(g, n)
    BY <1>2
  <2>2. PICK v : v = step[<<n + 1, g[rest[n + 1]]>>]
    OBVIOUS
  <2>3. rest[n + 1] \in 0..n
    <3>1. n + 1 \in Nat /\ n + 1 # 0
      OBVIOUS
    <3>2. PICK r : r = rest[n + 1]
      OBVIOUS
    <3>3. r \in Nat /\ r < n + 1
      BY <3>1, <3>2 DEF Descends
    <3>4. QED
      BY <3>2, <3>3
  <2>4. v \in V
    BY <2>1, <2>2, <2>3
  <2>5. PICK h : h = [i \in 0..(n + 1) |-> IF i = n + 1 THEN v ELSE g[i]]
    OBVIOUS
  <2>6. /\ h \in [0..(n + 1) -> V]
        /\ h[n + 1] = v
        /\ \A i \in 0..n : h[i] = g[i]
    BY <2>1, <2>4, <2>5
  <2>7. ASSUME NEW m \in 0..(n + 1), m # 0 PROVE h[m] = step[<<m, h[rest[m]]>>]
    <3>1. CASE m = n + 1
      BY <2>2, <2>3, <2>6, <3>1
    <3>2. CASE m # n + 1
      <4>1. m \in 0..n
        BY <3>2
      <4>2. PICK k : k = rest[m]
        OBVIOUS
      <4>3. k \in Nat /\ k < m
        BY <2>7, <4>1, <4>2 DEF Descends
      <4>4. k \in 0..n
        BY <4>1, <4>3
      <4>5. g[m] = step[<<m, g[k]>>]
        BY <2>1, <2>7, <4>1, <4>2 DEF IsDescent
      <4>6. QED
        BY <2>6, <4>1, <4>2, <4>4, <4>5
    <3>3. QED
      BY <3>1, <3>2
  <2>8. h[0] = base
    BY <2>1, <2>6 DEF IsDescent
  <2>9. Part(h, n + 1)
    BY <2>6, <2>7, <2>8 DEF IsDescent
  <2>10. QED
    BY <2>9
<1>3. \A n \in Nat : \E g : Part(g, n)
  <2> HIDE DEF Part
  <2>1. \A n \in Nat : n \in T => n + 1 \in T
    BY <1>2
  <2> HIDE DEF T
  <2>2. Nat \subseteq T
    BY <1>1, <2>1, NatSet
  <2>3. QED
    BY <2>2 DEF T
<1> DEFINE Some(n) == CHOOSE g : Part(g, n)
<1>4. \A n \in Nat : Part(Some(n), n)
  BY <1>3
<1> HIDE DEF Some
<1>5. PICK f : f = [n \in Nat |-> Some(n)[n]]
  OBVIOUS
<1>6. f \in [Nat -> V]
  <2>1. \A n \in Nat : Some(n)[n] \in V
    BY <1>4
  <2>2. QED
    BY <1>5, <2>1
<1>7. f[0] = base
  BY <1>4, <1>5 DEF IsDescent
<1>8. ASSUME NEW n \in Nat, n # 0 PROVE f[n] = step[<<n, f[rest[n]]>>]
  <2>1. PICK k : k = rest[n]
    OBVIOUS
  <2>2. k \in Nat /\ k < n /\ k <= n /\ k <= k /\ n \in 0..n
    BY <1>8, <2>1 DEF Descends
  <2>3. PICK g, h : g = Some(n) /\ h = Some(k)
    OBVIOUS
  <2>4. IsDescent(g, 0..n, base, rest, step) /\ IsDescent(h, 0..k, base, rest, step)
    BY <1>4, <2>2, <2>3
  <2>5. g[k] = h[k]
    BY <2>2, <2>4, DescentIsUnique
  <2>6. g[n] = step[<<n, g[k]>>]
    BY <1>8, <2>1, <2>2, <2>4 DEF IsDescent
  <2>7. f[n] = g[n] /\ f[k] = h[k]
    BY <1>5, <2>2, <2>3
  <2>8. QED
    BY <2>1, <2>5, <2>6, <2>7
<1>9. QED
  BY <1>6, <1>7, <1>8 DEF IsDescent
=============================================================================
