------------------------------ MODULE OrderingProofs ------------------------------
(***************************************************************************)
(* What holds of a sorted sequence of any finite set, and of the first     *)
(* elements of it.                                                         *)
(***************************************************************************)
EXTENDS Ordering, FiniteSetTheorems, WellFoundedInduction, TLAPS

\* A set of numbers that is not empty has a least one.
LEMMA LeastNumber ==
  ASSUME NEW N, N \subseteq Nat, N # {}
  PROVE  \E m \in N : \A k \in N : m <= k
<1>1. PICK m \in N : \A k \in N : ~ (<<k, m>> \in OpToRel(<, Nat))
  BY NatLessThanWellFounded, WFMin
<1>2. ASSUME NEW k \in N PROVE m <= k
  <2>1. m \in Nat /\ k \in Nat
    OBVIOUS
  <2>2. ~ (<<k, m>> \in OpToRel(<, Nat))
    BY <1>1
  <2>3. ~ (k < m)
    BY <2>1, <2>2 DEF OpToRel
  <2>4. QED
    BY <2>1, <2>3
<1>3. QED
  BY <1>2

\* The first n of an order.
Best(E, R, n) == {x \in E : Cardinality(Ahead(E, R, x)) < n}

\* Whoever is ahead of another has fewer ahead.
LEMMA AheadShrinks ==
  ASSUME NEW E, IsFiniteSet(E), NEW R, IsOrder(E, R), NEW x \in E, NEW y \in E, <<x, y>> \in R
  PROVE  /\ Ahead(E, R, x) \cup {x} \subseteq Ahead(E, R, y)
         /\ Cardinality(Ahead(E, R, x)) \in Nat /\ Cardinality(Ahead(E, R, y)) \in Nat
         /\ Cardinality(Ahead(E, R, x)) < Cardinality(Ahead(E, R, y))
<1> DEFINE before == Ahead(E, R, x)  then == Ahead(E, R, y)
<1>1. before \cup {x} \subseteq then /\ x \notin before
  BY DEF Ahead, IsOrder
<1>2. then \in SUBSET E /\ before \in SUBSET E
  BY DEF Ahead
<1>3. IsFiniteSet(then) /\ IsFiniteSet(before)
  BY <1>2, FS_Subset
<1> HIDE DEF before, then
<1>4. Cardinality(before \cup {x}) = Cardinality(before) + 1
  BY <1>1, <1>3, FS_AddElement
<1>5. Cardinality(before \cup {x}) <= Cardinality(then)
  BY <1>1, <1>3, FS_Subset
<1>6. Cardinality(before) \in Nat /\ Cardinality(then) \in Nat
  BY <1>3, FS_CardinalityType
<1>7. Cardinality(before) < Cardinality(then)
  BY <1>4, <1>5, <1>6
<1>8. QED
  BY <1>1, <1>6, <1>7 DEF before, then

\* The best of a ranking: nobody ahead of a selected one is left out, no more than n are selected,
\* and fewer only if nobody is left out.
LEMMA BestOfRanking ==
  ASSUME NEW E, IsFiniteSet(E), NEW R, IsOrder(E, R), NEW n \in Nat
  PROVE  /\ \A x \in Best(E, R, n), e \in E : <<e, x>> \in R => e \in Best(E, R, n)
         /\ Cardinality(Best(E, R, n)) <= n
         /\ E \ Best(E, R, n) # {} => Cardinality(Best(E, R, n)) = n
<1> DEFINE place(x) == Cardinality(Ahead(E, R, x))  best == Best(E, R, n)
<1>1. \A x \in E : place(x) \in Nat /\ IsFiniteSet(Ahead(E, R, x))
  <2> TAKE x \in E
  <2>1. Ahead(E, R, x) \in SUBSET E
    BY DEF Ahead
  <2>2. QED
    BY <2>1, FS_Subset, FS_CardinalityType
<1>2. \A x, y \in E : <<x, y>> \in R => place(x) < place(y)
  BY AheadShrinks
<1>3. best \in SUBSET E /\ \A x \in E : x \in best <=> place(x) < n
  BY DEF Best
<1>4. IsFiniteSet(best) /\ Cardinality(best) \in Nat
  BY <1>3, FS_Subset, FS_CardinalityType
<1> HIDE DEF best, place
<1>5. \A x \in best, e \in E : <<e, x>> \in R => e \in best
  BY <1>1, <1>2, <1>3
<1>6. Cardinality(best) <= n
  <2>1. CASE best = {}
    BY <2>1, FS_EmptySet
  <2>2. CASE best # {}
    <3> DEFINE room == {n - place(x) : x \in best}
    <3>1. room \subseteq Nat /\ room # {}
      BY <1>1, <1>3, <2>2
    <3>2. PICK least \in room : \A k \in room : least <= k
      BY <3>1, LeastNumber
    <3>3. PICK last \in best : least = n - place(last)
      BY <3>2
    <3>4. \A x \in best : place(x) <= place(last)
      <4> TAKE x \in best
      <4>1. n - place(last) <= n - place(x)
        BY <3>2, <3>3
      <4>2. QED
        BY <1>1, <1>3, <4>1
    <3>5. best \subseteq Ahead(E, R, last) \cup {last}
      <4> SUFFICES ASSUME NEW x \in best, x # last PROVE <<x, last>> \in R
        BY <1>3 DEF Ahead
      <4>1. ~ (<<last, x>> \in R)
        BY <1>1, <1>2, <1>3, <3>4
      <4>2. QED
        BY <1>3, <4>1 DEF IsOrder
    <3>6. last \notin Ahead(E, R, last)
      BY <1>3 DEF Ahead, IsOrder
    <3>7. /\ IsFiniteSet(Ahead(E, R, last) \cup {last})
          /\ Cardinality(Ahead(E, R, last) \cup {last}) = place(last) + 1
      BY <1>1, <1>3, <3>6, FS_AddElement DEF place
    <3>8. Cardinality(best) <= place(last) + 1
      BY <3>5, <3>7, FS_Subset
    <3>9. place(last) \in Nat /\ place(last) < n
      BY <1>1, <1>3
    <3>10. QED
      BY <1>4, <3>8, <3>9
  <2>3. QED
    BY <2>1, <2>2
<1>7. ASSUME E \ best # {} PROVE Cardinality(best) = n
  <2> DEFINE places == {place(x) : x \in E \ best}
  <2>1. places \subseteq Nat /\ places # {}
    BY <1>1, <1>7
  <2>2. PICK least \in places : \A k \in places : least <= k
    BY <2>1, LeastNumber
  <2>3. PICK first \in E \ best : least = place(first)
    BY <2>2
  <2>4. Ahead(E, R, first) \subseteq best
    <3> SUFFICES ASSUME NEW x \in E, <<x, first>> \in R, x \notin best PROVE FALSE
      BY DEF Ahead
    <3>1. place(x) < place(first)
      BY <1>2, <2>3
    <3>2. place(first) <= place(x)
      BY <2>2, <2>3
    <3>3. QED
      BY <1>1, <2>3, <3>1, <3>2
  <2>5. place(first) <= Cardinality(best)
    BY <1>4, <2>4, FS_Subset DEF place
  <2>6. place(first) \in Nat /\ n <= place(first)
    BY <1>1, <1>3, <2>3
  <2>7. QED
    BY <1>4, <1>6, <2>5, <2>6
<1>8. QED
  BY <1>5, <1>6, <1>7 DEF best
-----------------------------------------------------------------------------
(* Sorted sequences *)

\* Every element has a place of its own, and every place is taken.
LEMMA PlacesAreTaken ==
  ASSUME NEW S, IsFiniteSet(S), NEW before, IsOrder(S, before)
  PROVE  /\ Cardinality(S) \in Nat
         /\ \A x \in S : Cardinality(Ahead(S, before, x)) \in 0..Cardinality(S) - 1
         /\ \A x, y \in S :
              Cardinality(Ahead(S, before, x)) = Cardinality(Ahead(S, before, y)) => x = y
         /\ \A n \in 1..Cardinality(S) :
              \E x \in S : Cardinality(Ahead(S, before, x)) = n - 1
<1> DEFINE N == Cardinality(S)
           place == [x \in S |-> Cardinality(Ahead(S, before, x)) + 1]
<1>1. N \in Nat
  BY FS_CardinalityType
<1>2. ASSUME NEW x \in S PROVE Cardinality(Ahead(S, before, x)) \in 0..N - 1
  <2>1. Ahead(S, before, x) \in SUBSET (S \ {x})
    BY DEF Ahead, IsOrder
  <2>2. IsFiniteSet(S \ {x}) /\ Cardinality(S \ {x}) = N - 1
    BY FS_RemoveElement
  <2>3. IsFiniteSet(Ahead(S, before, x)) /\ Cardinality(Ahead(S, before, x)) <= N - 1
    BY <2>1, <2>2, FS_Subset
  <2>4. Cardinality(Ahead(S, before, x)) \in Nat
    BY <2>3, FS_CardinalityType
  <2>5. QED
    BY <1>1, <2>3, <2>4
<1>3. ASSUME NEW x \in S, NEW y \in S,
             Cardinality(Ahead(S, before, x)) = Cardinality(Ahead(S, before, y))
      PROVE  x = y
  <2> SUFFICES ASSUME x # y PROVE FALSE
    OBVIOUS
  <2>1. <<x, y>> \in before \/ <<y, x>> \in before
    BY DEF IsOrder
  <2>2. \/ Cardinality(Ahead(S, before, x)) < Cardinality(Ahead(S, before, y))
        \/ Cardinality(Ahead(S, before, y)) < Cardinality(Ahead(S, before, x))
    BY <2>1, AheadShrinks
  <2>3. Cardinality(Ahead(S, before, x)) \in Int /\ Cardinality(Ahead(S, before, y)) \in Int
    BY <1>1, <1>2
  <2>4. QED
    BY <1>3, <2>2, <2>3
<1>4. place \in Injection(S, 1..N)
  <2>1. \A x \in S : place[x] \in 1..N
    BY <1>1, <1>2
  <2>2. ASSUME NEW x \in S, NEW y \in S, place[x] = place[y] PROVE x = y
    <3>1. Cardinality(Ahead(S, before, x)) \in Int /\ Cardinality(Ahead(S, before, y)) \in Int
      BY <1>1, <1>2
    <3>2. QED
      BY <1>3, <2>2, <3>1
  <2>3. QED
    BY <2>1, <2>2 DEF Injection, IsInjective
<1>5. place \in Surjection(S, 1..N)
  <2>1. IsFiniteSet(1..N) /\ Cardinality(1..N) = N
    BY <1>1, FS_Interval
  <2> HIDE DEF place
  <2>2. QED
    BY <1>4, <2>1, FS_Injection
<1>6. ASSUME NEW n \in 1..N PROVE \E x \in S : Cardinality(Ahead(S, before, x)) = n - 1
  <2>1. PICK x \in S : place[x] = n
    BY <1>5 DEF Surjection
  <2>2. Cardinality(Ahead(S, before, x)) \in Int
    BY <1>1, <1>2
  <2>3. Cardinality(Ahead(S, before, x)) = n - 1
    BY <1>1, <2>1, <2>2
  <2>4. QED
    BY <2>3
<1>7. QED
  BY <1>1, <1>2, <1>3, <1>6

\* A sorted sequence has every element once, and each before those that come after it.
LEMMA InOrderSorts ==
  ASSUME NEW S, IsFiniteSet(S), NEW before, IsOrder(S, before)
  PROVE  /\ Cardinality(S) \in Nat
         /\ InOrder(S, before) \in [1..Cardinality(S) -> S]
         /\ \A x \in S : \E n \in 1..Cardinality(S) : InOrder(S, before)[n] = x
         /\ \A m, n \in 1..Cardinality(S) :
              m < n <=> <<InOrder(S, before)[m], InOrder(S, before)[n]>> \in before
         /\ \A m, n \in 1..Cardinality(S) :
              InOrder(S, before)[m] = InOrder(S, before)[n] => m = n
<1> DEFINE N == Cardinality(S)
           f == InOrder(S, before)
           place(x) == Cardinality(Ahead(S, before, x))
<1>1. /\ N \in Nat
      /\ \A x \in S : place(x) \in 0..N - 1
      /\ \A x, y \in S : place(x) = place(y) => x = y
      /\ \A n \in 1..N : \E x \in S : place(x) = n - 1
  BY PlacesAreTaken
<1>2. \A n \in 1..N : f[n] = CHOOSE x \in S : place(x) = n - 1
  BY DEF InOrder
<1>3. \A n \in 1..N : f[n] \in S /\ place(f[n]) = n - 1
  BY <1>1, <1>2
<1>4. f \in [1..N -> S]
  <2>1. f = [n \in 1..N |-> f[n]]
    BY DEF InOrder
  <2> HIDE DEF f
  <2>2. QED
    BY <1>3, <2>1
<1>5. \A x, y \in S : <<x, y>> \in before => place(x) < place(y)
  BY AheadShrinks
<1>6. \A x, y \in S : x # y => <<x, y>> \in before \/ <<y, x>> \in before
  BY DEF IsOrder
<1> HIDE DEF N, f, place
<1>7. ASSUME NEW x \in S PROVE \E n \in 1..N : f[n] = x
  <2>1. place(x) + 1 \in 1..N /\ place(f[place(x) + 1]) = place(x)
    BY <1>1, <1>3
  <2>2. f[place(x) + 1] = x
    BY <1>1, <1>3, <2>1
  <2>3. QED
    BY <2>1, <2>2
<1>8. ASSUME NEW m \in 1..N, NEW n \in 1..N PROVE m < n <=> <<f[m], f[n]>> \in before
  <2>1. m \in Int /\ n \in Int /\ place(f[m]) = m - 1 /\ place(f[n]) = n - 1
    BY <1>1, <1>3
  <2>2. ASSUME m < n PROVE <<f[m], f[n]>> \in before
    <3>1. f[m] # f[n]
      BY <2>1, <2>2
    <3>2. ~ (<<f[n], f[m]>> \in before)
      <4> SUFFICES ASSUME <<f[n], f[m]>> \in before PROVE FALSE
        OBVIOUS
      <4>1. place(f[n]) < place(f[m])
        BY <1>3, <1>5
      <4>2. QED
        BY <2>1, <2>2, <4>1
    <3>3. QED
      BY <1>3, <1>6, <3>1, <3>2
  <2>3. ASSUME <<f[m], f[n]>> \in before PROVE m < n
    <3>1. place(f[m]) < place(f[n])
      BY <1>3, <1>5, <2>3
    <3>2. QED
      BY <2>1, <3>1
  <2>4. QED
    BY <2>2, <2>3
<1>9. ASSUME NEW m \in 1..N, NEW n \in 1..N, f[m] = f[n] PROVE m = n
  <2>1. m \in Int /\ n \in Int /\ m - 1 = n - 1
    BY <1>1, <1>3, <1>9
  <2>2. QED
    BY <2>1
<1>10. QED
  BY <1>1, <1>4, <1>7, <1>8, <1>9 DEF N, f

\* There is one sorted sequence of a set: whatever lists the set in order is that sequence.
LEMMA InOrderIsUnique ==
  ASSUME NEW S, IsFiniteSet(S), NEW before, IsOrder(S, before),
         NEW s \in [1..Cardinality(S) -> S],
         \A x \in S : \E n \in 1..Cardinality(S) : s[n] = x,
         \A m, n \in 1..Cardinality(S) : m < n => <<s[m], s[n]>> \in before
  PROVE  s = InOrder(S, before)
<1> DEFINE N == Cardinality(S)
           t == InOrder(S, before)
           Apart == {n \in 1..N : s[n] # t[n]}
<1>1. /\ N \in Nat /\ t \in [1..N -> S]
      /\ \A x \in S : \E n \in 1..N : t[n] = x
      /\ \A m, n \in 1..N : m < n => <<t[m], t[n]>> \in before
  BY InOrderSorts
<1>2. /\ s \in [1..N -> S]
      /\ \A x \in S : \E n \in 1..N : s[n] = x
      /\ \A m, n \in 1..N : m < n => <<s[m], s[n]>> \in before
  OBVIOUS
<1>3. \A x, y \in S : ~ (<<x, y>> \in before /\ <<y, x>> \in before)
  BY DEF IsOrder
<1> HIDE DEF N, t
<1>4. Apart = {}
  <2> SUFFICES ASSUME Apart # {} PROVE FALSE
    OBVIOUS
  <2>1. PICK n \in Apart : \A k \in Apart : n <= k
    <3>1. Apart \subseteq Nat
      BY <1>1
    <3>2. QED
      BY <3>1, LeastNumber
  <2>2. \A k \in 1..N : k < n => s[k] = t[k]
    BY <1>1, <2>1
  <2>3. \A k, m \in 1..N : k < m => s[k] # s[m] /\ t[k] # t[m]
    BY <1>1, <1>2, <1>3
  <2>4. PICK m \in 1..N : s[m] = t[n]
    BY <1>1, <1>2
  <2>5. PICK k \in 1..N : t[k] = s[n]
    BY <1>1, <1>2
  <2>6. n < m
    <3>1. m # n
      BY <2>1, <2>4
    <3>2. ~ (m < n)
      BY <2>1, <2>2, <2>3, <2>4
    <3>3. QED
      BY <1>1, <3>1, <3>2
  <2>7. n < k
    <3>1. k # n
      BY <2>1, <2>5
    <3>2. ~ (k < n)
      BY <2>1, <2>2, <2>3, <2>5
    <3>3. QED
      BY <1>1, <3>1, <3>2
  <2>8. <<s[n], t[n]>> \in before /\ <<t[n], s[n]>> \in before
    BY <1>1, <1>2, <2>4, <2>5, <2>6, <2>7
  <2>9. QED
    BY <1>1, <1>2, <1>3, <2>8
<1>5. QED
  BY <1>1, <1>2, <1>4 DEF N, t

\* Numbers are in order of size.
LEMMA AscendingIsOrder ==
  ASSUME NEW S \in SUBSET Nat PROVE IsOrder(S, AscendingOrder(S))
BY DEF IsOrder, AscendingOrder

\* The numbers up to n are in order as they are.
LEMMA NumbersInOrder ==
  ASSUME NEW n \in Nat, NEW before,
         \A i, j \in 1..n : <<i, j>> \in before <=> i < j
  PROVE  InOrder(1..n, before) = [i \in 1..n |-> i]
<1>1. Cardinality(1..n) = n
  BY FS_Interval
<1>2. ASSUME NEW i \in 1..n PROVE Cardinality(Ahead(1..n, before, i)) = i - 1
  <2>1. Ahead(1..n, before, i) = 1..i - 1
    BY DEF Ahead
  <2>2. Cardinality(1..i - 1) = i - 1
    BY FS_Interval
  <2>3. QED
    BY <2>1, <2>2
<1>3. ASSUME NEW i \in 1..n
      PROVE  (CHOOSE x \in 1..n : Cardinality(Ahead(1..n, before, x)) = i - 1) = i
  <2>1. \A x \in 1..n : Cardinality(Ahead(1..n, before, x)) = i - 1 <=> x = i
    BY <1>2
  <2>2. QED
    BY <2>1
<1>4. QED
  BY <1>1, <1>3 DEF InOrder

\* A larger number comes last.
LEMMA LargestComesLast ==
  ASSUME NEW S \in SUBSET Nat, IsFiniteSet(S), NEW x \in Nat, \A y \in S : y < x
  PROVE  /\ Cardinality(S) \in Nat
         /\ Cardinality(S \cup {x}) = Cardinality(S) + 1
         /\ InOrder(S \cup {x}, AscendingOrder(S \cup {x}))
              = [n \in 1..Cardinality(S) + 1 |->
                   IF n = Cardinality(S) + 1 THEN x ELSE InOrder(S, AscendingOrder(S))[n]]
<1> DEFINE N == Cardinality(S)
           T == S \cup {x}
           f == InOrder(S, AscendingOrder(S))
           g == [n \in 1..N + 1 |-> IF n = N + 1 THEN x ELSE f[n]]
<1>1. /\ N \in Nat /\ f \in [1..N -> S]
      /\ \A y \in S : \E n \in 1..N : f[n] = y
      /\ \A m, n \in 1..N : m < n => <<f[m], f[n]>> \in AscendingOrder(S)
  BY InOrderSorts, AscendingIsOrder
<1>2. x \notin S
  OBVIOUS
<1>3. IsFiniteSet(T) /\ Cardinality(T) = N + 1
  BY <1>2, FS_AddElement
<1>4. T \in SUBSET Nat /\ IsOrder(T, AscendingOrder(T))
  BY AscendingIsOrder
<1> HIDE DEF N, f
<1>5. g \in [1..N + 1 -> T]
  BY <1>1
<1>6. ASSUME NEW y \in T PROVE \E n \in 1..N + 1 : g[n] = y
  <2>1. CASE y = x
    BY <1>1, <2>1
  <2>2. CASE y \in S
    <3>1. PICK n \in 1..N : f[n] = y
      BY <1>1, <2>2
    <3>2. n \in 1..N + 1 /\ n # N + 1
      BY <1>1
    <3>3. QED
      BY <3>1, <3>2
  <2>3. QED
    BY <2>1, <2>2
<1>7. ASSUME NEW m \in 1..N + 1, NEW n \in 1..N + 1, m < n
      PROVE  <<g[m], g[n]>> \in AscendingOrder(T)
  <2>1. m \in 1..N /\ g[m] = f[m] /\ f[m] \in S
    BY <1>1, <1>7
  <2>2. CASE n = N + 1
    <3>1. g[n] = x
      BY <2>2
    <3>2. QED
      BY <2>1, <3>1 DEF AscendingOrder
  <2>3. CASE n # N + 1
    <3>1. n \in 1..N /\ g[n] = f[n] /\ f[n] \in S
      BY <1>1, <2>3
    <3>2. QED
      BY <1>1, <1>7, <2>1, <3>1 DEF AscendingOrder
  <2>4. QED
    BY <2>2, <2>3
<1> HIDE DEF g
<1>8. g = InOrder(T, AscendingOrder(T))
  <2> HIDE DEF T
  <2>1. g \in [1..Cardinality(T) -> T]
    BY <1>3, <1>5
  <2>2. /\ \A y \in T : \E n \in 1..Cardinality(T) : g[n] = y
        /\ \A m, n \in 1..Cardinality(T) : m < n => <<g[m], g[n]>> \in AscendingOrder(T)
    BY <1>3, <1>6, <1>7
  <2>3. QED
    BY <1>3, <1>4, <2>1, <2>2, InOrderIsUnique
<1>9. QED
  BY <1>1, <1>3, <1>8 DEF N, f, g
=============================================================================
