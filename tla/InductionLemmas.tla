--------------------------- MODULE InductionLemmas ---------------------------
(***************************************************************************)
(* Induction over numbers and finite sets, stated with sets in the place   *)
(* of predicates: a proof names the set of what the claim holds for and    *)
(* shows it closed.  From it follow the largest and smallest element of a  *)
(* set of numbers, what a fold over a sequence computes step by step, and  *)
(* that a finite set can be sorted; and of SumFunction, the sum of the     *)
(* values of a function, that it is a natural number, how it changes with  *)
(* one value, a bound for it, and what shifting the values does.  All of   *)
(* it rests on the least element that WFMin gives a set of naturals.       *)
(***************************************************************************)
EXTENDS Integers, FiniteSetsExt, FiniteSetTheorems, WellFoundedInduction, TLAPS

\* Every non-empty set of naturals has a least element.
LEMMA SmallestExists ==
    ASSUME NEW S \in SUBSET Nat, S # {}
    PROVE  \E m \in S : \A n \in S : m <= n
  <1>1. PICK m \in S : \A n \in S : ~ (<<n, m>> \in OpToRel(<, Nat))
    BY WFMin, NatLessThanWellFounded
  <1>2. \A i, j \in Nat : i < j => <<i, j>> \in OpToRel(<, Nat)
    BY DEF OpToRel
  <1>3. ASSUME NEW n \in S PROVE m <= n
    <2>1. m \in Nat /\ n \in Nat
      OBVIOUS
    <2>2. ~ (n < m)
      BY <1>1, <1>2, <2>1, Zenon
    <2> QED
      BY <2>1, <2>2
  <1> QED
    BY <1>3

\* A set that holds 0 and with n also n + 1 holds every natural.
LEMMA NatInductive ==
    ASSUME NEW S, 0 \in S, \A n \in Nat : n \in S => n + 1 \in S
    PROVE  \A n \in Nat : n \in S
  <1> SUFFICES ASSUME NEW k \in Nat, k \notin S PROVE FALSE
    OBVIOUS
  <1> DEFINE Out == {n \in Nat : n \notin S}
  <1>1. PICK m \in Out : \A n \in Out : m <= n
    BY SmallestExists
  <1>2. m # 0 /\ m - 1 \in Nat
    BY <1>1
  <1>3. m - 1 \notin Out
    BY <1>1, <1>2
  <1>4. m - 1 + 1 = m
    BY <1>1
  <1>5. m \in S
    BY <1>2, <1>3, <1>4
  <1> QED
    BY <1>1, <1>5

\* The same up to a bound.
LEMMA RangeInductive ==
    ASSUME NEW S, NEW N \in Nat, 0 \in S, \A n \in 0 .. N - 1 : n \in S => n + 1 \in S
    PROVE  \A n \in 0 .. N : n \in S
  <1> DEFINE Good == {n \in Nat : n <= N => n \in S}
  <1>1. 0 \in Good
    OBVIOUS
  <1>2. ASSUME NEW n \in Nat, n \in Good PROVE n + 1 \in Good
    BY <1>2
  <1>3. \A n \in Nat : n \in Good
    <2> HIDE DEF Good
    <2> QED
      BY <1>1, <1>2, NatInductive
  <1> QED
    BY <1>3

\* What holds of the empty set, and with a set also of one with an element
\* more, holds of a finite set.
LEMMA FiniteInductive ==
    ASSUME NEW S, IsFiniteSet(S), NEW G, {} \in G,
           \A T \in SUBSET S : \A x \in S : T \in G => T \cup {x} \in G
    PROVE  S \in G
  <1> DEFINE Good == {n \in Nat : \A T \in SUBSET S : Cardinality(T) = n => T \in G}
  <1>1. \A T \in SUBSET S : IsFiniteSet(T) /\ Cardinality(T) \in Nat
    BY FS_Subset, FS_CardinalityType
  <1>2. 0 \in Good
    BY <1>1, FS_EmptySet
  <1>3. ASSUME NEW n \in Nat, n \in Good PROVE n + 1 \in Good
    <2> SUFFICES ASSUME NEW T \in SUBSET S, Cardinality(T) = n + 1 PROVE T \in G
      OBVIOUS
    <2>1. PICK x \in T : TRUE
      BY FS_EmptySet
    <2>2. Cardinality(T \ {x}) = n
      BY <1>1, <2>1, FS_RemoveElement, SMTT(30)
    <2>3. T \ {x} \in G
      BY <1>3, <2>2
    <2>4. (T \ {x}) \cup {x} = T
      BY <2>1
    <2> QED
      BY <2>1, <2>3, <2>4
  <1>4. \A n \in Nat : n \in Good
    <2> HIDE DEF Good
    <2> QED
      BY <1>2, <1>3, NatInductive
  <1> QED
    BY <1>1, <1>4

\* A finite, non-empty set of integers has a largest element.
LEMMA LargestExists ==
    ASSUME NEW S \in SUBSET Int, IsFiniteSet(S), S # {}
    PROVE  \E m \in S : \A n \in S : m >= n
  <1> DEFINE Topped == {T \in SUBSET S : T # {} => \E m \in T : \A n \in T : m >= n}
  <1>1. {} \in Topped
    OBVIOUS
  <1>2. ASSUME NEW T \in SUBSET S, NEW x \in S, T \in Topped PROVE T \cup {x} \in Topped
    <2>1. CASE T = {}
      BY <2>1
    <2>2. CASE T # {}
      <3>1. PICK m \in T : \A n \in T : m >= n
        BY <1>2, <2>2
      <3>2. m \in Int /\ x \in Int
        OBVIOUS
      <3>3. CASE m >= x
        BY <3>1, <3>3
      <3>4. CASE x >= m
        <4>1. \A n \in T : n \in Int
          OBVIOUS
        <4>2. \A n \in T \cup {x} : x >= n
          BY <3>1, <3>2, <3>4, <4>1
        <4> QED
          BY <4>2
      <3> QED
        BY <3>2, <3>3, <3>4
    <2> QED
      BY <2>1, <2>2
  <1>3. S \in Topped
    <2> HIDE DEF Topped
    <2> QED
      BY <1>1, <1>2, FiniteInductive
  <1> QED
    BY <1>3

\* The largest of a set of numbers up to n is one of them.
LEMMA MaxIsLargest ==
    ASSUME NEW n \in Nat, NEW T \in SUBSET (0 .. n), T # {}
    PROVE  Max(T) \in T /\ \A x \in T : Max(T) >= x
  <1>1. IsFiniteSet(0 .. n)
    BY FS_Interval
  <1>2. IsFiniteSet(T)
    BY <1>1, FS_Subset
  <1>3. \E m \in T : \A x \in T : m >= x
    BY <1>2, LargestExists
  <1> QED
    BY <1>3 DEF Max

\* The smallest of a set of naturals is one of them.
LEMMA MinIsSmallest ==
    ASSUME NEW T \in SUBSET Nat, T # {}
    PROVE  Min(T) \in T /\ \A x \in T : Min(T) <= x
  <1>1. \E m \in T : \A x \in T : m <= x
    BY SmallestExists
  <1> QED
    BY <1>1 DEF Min

\* g[T] is the outcome of going through the places T in order, from base and
\* with the step st[m] from X to X at place m.
Folding(g, n, X, base, st) ==
    /\ g \in [SUBSET (1 .. n) -> X]
    /\ g[{}] = base
    /\ \A T \in SUBSET (1 .. n) : T # {} => g[T] = st[Max(T)][g[T \ {Max(T)}]]

\* Whatever the set, the base and the steps, there is such an outcome.
LEMMA FoldExists ==
    ASSUME NEW n \in Nat, NEW X, NEW base \in X, NEW st \in [1 .. n -> [X -> X]]
    PROVE  \E g : Folding(g, n, X, base, st)
  <1> DEFINE Folds(g, k) == Folding(g, k, X, base, st)
             Good == {k \in 0 .. n : \E g : Folds(g, k)}
  <1>1. 0 \in Good
    <2> DEFINE g == [T \in SUBSET (1 .. 0) |-> base]
    <2>1. SUBSET (1 .. 0) = {{}}
      OBVIOUS
    <2>2. g \in [SUBSET (1 .. 0) -> X] /\ g[{}] = base
      OBVIOUS
    <2> HIDE DEF g
    <2>3. Folds(g, 0)
      BY <2>1, <2>2 DEF Folding
    <2> HIDE DEF Folds
    <2> QED
      BY <2>3
  <1>2. ASSUME NEW k \in 0 .. n - 1, k \in Good PROVE k + 1 \in Good
    <2>1. PICK g : Folds(g, k)
      BY <1>2
    <2>0. /\ g \in [SUBSET (1 .. k) -> X] /\ g[{}] = base
          /\ \A T \in SUBSET (1 .. k) : T # {} => g[T] = st[Max(T)][g[T \ {Max(T)}]]
      BY <2>1 DEF Folding
    <2> DEFINE m == k + 1
               h == [T \in SUBSET (1 .. m) |-> IF m \in T THEN st[m][g[T \ {m}]] ELSE g[T]]
    <2>2. \A T \in SUBSET (1 .. m) : T \ {m} \in SUBSET (1 .. k) /\ (m \notin T => T \in SUBSET (1 .. k))
      OBVIOUS
    <2>3. m \in 1 .. n
      OBVIOUS
    <2>4. h \in [SUBSET (1 .. m) -> X]
      <3>1. ASSUME NEW T \in SUBSET (1 .. m)
            PROVE  (IF m \in T THEN st[m][g[T \ {m}]] ELSE g[T]) \in X
        <4>1. st[m] \in [X -> X]
          BY <2>3
        <4>2. g[T \ {m}] \in X
          BY <2>0, <2>2
        <4>3. m \notin T => g[T] \in X
          BY <2>0, <2>2
        <4> HIDE DEF m
        <4> QED
          BY <4>1, <4>2, <4>3
      <3> QED
        BY <3>1
    <2>5. h[{}] = base
      BY <2>0
    <2>6. ASSUME NEW T \in SUBSET (1 .. m), T # {} PROVE h[T] = st[Max(T)][h[T \ {Max(T)}]]
      <3>1. T \in SUBSET (0 .. m) /\ m \in Nat
        OBVIOUS
      <3>2. Max(T) \in T /\ \A x \in T : Max(T) >= x
        BY <2>6, <3>1, MaxIsLargest
      <3>3. T \ {Max(T)} \in SUBSET (1 .. m)
        OBVIOUS
      <3>4. CASE m \in T
        <4>1. Max(T) = m
          <5>1. Max(T) \in 1 .. m /\ Max(T) >= m
            BY <3>2, <3>4
          <5> QED
            BY <5>1
        <4>2. h[T \ {m}] = g[T \ {m}] /\ h[T] = st[m][g[T \ {m}]]
          BY <3>3, <3>4
        <4> QED
          BY <4>1, <4>2
      <3>5. CASE m \notin T
        <4>1. T \in SUBSET (1 .. k)
          BY <2>2, <3>5
        <4>2. h[T] = g[T] /\ h[T \ {Max(T)}] = g[T \ {Max(T)}]
          BY <3>3, <3>5
        <4>3. g[T] = st[Max(T)][g[T \ {Max(T)}]]
          BY <2>0, <2>6, <4>1
        <4> QED
          BY <4>2, <4>3
      <3> QED
        BY <3>4, <3>5
    <2>7. Folds(h, m)
      <3> HIDE DEF h
      <3> QED
        BY <2>4, <2>5, <2>6 DEF Folding
    <2> HIDE DEF Folds, h
    <2> QED
      BY <2>3, <2>7
  <1>3. n \in Good
    <2>1. n \in 0 .. n
      OBVIOUS
    <2> HIDE DEF Good
    <2> QED
      BY <1>1, <1>2, <2>1, RangeInductive
  <1> QED
    BY <1>3

\* A finite set under a transitive relation that relates any two of its
\* elements has one that comes last.
LEMMA LastExists ==
    ASSUME NEW S, IsFiniteSet(S), S # {}, NEW R,
           \A a, b \in S : a # b => <<a, b>> \in R \/ <<b, a>> \in R,
           \A a, b, c \in S : <<a, b>> \in R /\ <<b, c>> \in R => <<a, c>> \in R
    PROVE  \E m \in S : \A a \in S \ {m} : <<a, m>> \in R
  <1> DEFINE Ends == {T \in SUBSET S : T # {} => \E m \in T : \A a \in T \ {m} : <<a, m>> \in R}
  <1>1. {} \in Ends
    OBVIOUS
  <1>2. ASSUME NEW T \in SUBSET S, NEW x \in S, T \in Ends PROVE T \cup {x} \in Ends
    <2>1. CASE T = {}
      BY <2>1
    <2>2. CASE x \in T
      <3>1. T \cup {x} = T
        BY <2>2
      <3> QED
        BY <1>2, <3>1
    <2>3. CASE T # {} /\ x \notin T
      <3>1. PICK m \in T : \A a \in T \ {m} : <<a, m>> \in R
        BY <1>2, <2>3
      <3>2. m # x /\ m \in S
        BY <2>3
      <3>3. CASE <<x, m>> \in R
        BY <3>1, <3>3
      <3>4. CASE <<m, x>> \in R
        <4>1. \A a \in (T \cup {x}) \ {x} : <<a, x>> \in R
          BY <3>1, <3>4
        <4> QED
          BY <4>1
      <3> QED
        BY <3>2, <3>3, <3>4
    <2> QED
      BY <2>1, <2>2, <2>3
  <1>3. S \in Ends
    <2> HIDE DEF Ends
    <2> QED
      BY <1>1, <1>2, FiniteInductive
  <1> QED
    BY <1>3

\* Such a set can be put in order.
LEMMA SortedExists ==
    ASSUME NEW S, IsFiniteSet(S), NEW R,
           \A a, b \in S : a # b => <<a, b>> \in R \/ <<b, a>> \in R,
           \A a, b, c \in S : <<a, b>> \in R /\ <<b, c>> \in R => <<a, c>> \in R
    PROVE  \E f \in [1 .. Cardinality(S) -> S] :
             \A i, j \in 1 .. Cardinality(S) : /\ i # j => f[i] # f[j]
                                               /\ i < j => <<f[i], f[j]>> \in R
  <1> DEFINE Sorts(f, T, n) == /\ f \in [1 .. n -> T]
                               /\ \A i, j \in 1 .. n : /\ i # j => f[i] # f[j]
                                                       /\ i < j => <<f[i], f[j]>> \in R
             Good == {n \in Nat : \A T \in SUBSET S : Cardinality(T) = n => \E f : Sorts(f, T, n)}
  <1>1. \A T \in SUBSET S : IsFiniteSet(T) /\ Cardinality(T) \in Nat
    BY FS_Subset, FS_CardinalityType
  <1>2. 0 \in Good
    <2> SUFFICES ASSUME NEW T \in SUBSET S, Cardinality(T) = 0 PROVE \E f : Sorts(f, T, 0)
      OBVIOUS
    <2>1. Sorts([i \in 1 .. 0 |-> i], T, 0)
      OBVIOUS
    <2> QED
      BY <2>1
  <1>3. ASSUME NEW n \in Nat, n \in Good PROVE n + 1 \in Good
    <2> SUFFICES ASSUME NEW T \in SUBSET S, Cardinality(T) = n + 1 PROVE \E f : Sorts(f, T, n + 1)
      OBVIOUS
    <2>1. T # {}
      BY FS_EmptySet
    <2>2. PICK m \in T : \A a \in T \ {m} : <<a, m>> \in R
      <3>1. /\ \A a, b \in T : a # b => <<a, b>> \in R \/ <<b, a>> \in R
            /\ \A a, b, c \in T : <<a, b>> \in R /\ <<b, c>> \in R => <<a, c>> \in R
        OBVIOUS
      <3> QED
        BY <1>1, <2>1, <3>1, LastExists
    <2>3. Cardinality(T \ {m}) = n
      <3>1. Cardinality(T \ {m}) = Cardinality(T) - 1
        BY <1>1, FS_RemoveElement
      <3> QED
        BY <3>1
    <2>4. PICK f : Sorts(f, T \ {m}, n)
      BY <1>3, <2>3
    <2> DEFINE h == [i \in 1 .. n + 1 |-> IF i = n + 1 THEN m ELSE f[i]]
    <2>5. \A i \in 1 .. n + 1 : i # n + 1 => i \in 1 .. n
      OBVIOUS
    <2>6. h \in [1 .. n + 1 -> T]
      BY <2>4, <2>5
    <2>7. ASSUME NEW i \in 1 .. n + 1, NEW j \in 1 .. n + 1
          PROVE  /\ i # j => h[i] # h[j]
                 /\ i < j => <<h[i], h[j]>> \in R
      <3>1. CASE i = n + 1 /\ j = n + 1
        BY <3>1
      <3>2. CASE i = n + 1 /\ j # n + 1
        BY <2>4, <2>5, <3>2
      <3>3. CASE i # n + 1 /\ j = n + 1
        BY <2>2, <2>4, <2>5, <3>3
      <3>4. CASE i # n + 1 /\ j # n + 1
        BY <2>4, <2>5, <3>4
      <3> QED
        BY <3>1, <3>2, <3>3, <3>4
    <2>8. Sorts(h, T, n + 1)
      <3> HIDE DEF h
      <3> QED
        BY <2>6, <2>7
    <2> QED
      BY <2>8
  <1>4. \A n \in Nat : n \in Good
    <2> HIDE DEF Good
    <2> QED
      BY <1>2, <1>3, NatInductive
  <1>5. \E f : Sorts(f, S, Cardinality(S))
    BY <1>1, <1>4
  <1> QED
    BY <1>5

-----------------------------------------------------------------------------
\* SumFunction adds the values of a function with a finite domain, in an
\* unspecified order; Partial(g, f, S) says that g[T] is the sum of f over T,
\* in whatever order T is gone through.
Partial(g, f, S) ==
    /\ g \in [SUBSET S -> Nat]
    /\ g[{}] = 0
    /\ \A T \in SUBSET S : \A x \in T : g[T] = f[x] + g[T \ {x}]

\* A function of naturals over a finite set has partial sums.
LEMMA PartialExists ==
    ASSUME NEW S, IsFiniteSet(S), NEW f \in [S -> Nat]
    PROVE  \E g : Partial(g, f, S)
  <1> DEFINE Summable == {T \in SUBSET S : \E g : Partial(g, f, T)}
  <1>1. {} \in Summable
    <2>1. Partial([T \in SUBSET {} |-> 0], f, {})
      BY DEF Partial
    <2> QED
      BY <2>1
  <1>2. ASSUME NEW T \in SUBSET S, NEW a \in S, T \in Summable PROVE T \cup {a} \in Summable
    <2>1. CASE a \in T
      <3>1. T \cup {a} = T
        BY <2>1
      <3> QED
        BY <1>2, <3>1
    <2>2. CASE a \notin T
      <3>1. PICK g : Partial(g, f, T)
        BY <1>2
      <3> DEFINE h == [U \in SUBSET (T \cup {a}) |-> IF a \in U THEN f[a] + g[U \ {a}] ELSE g[U]]
      <3>2. \A U \in SUBSET (T \cup {a}) : U \ {a} \in SUBSET T
        OBVIOUS
      <3>3. g \in [SUBSET T -> Nat] /\ g[{}] = 0
        BY <3>1 DEF Partial
      <3>4. h \in [SUBSET (T \cup {a}) -> Nat]
        <4>1. ASSUME NEW U \in SUBSET (T \cup {a})
              PROVE  (IF a \in U THEN f[a] + g[U \ {a}] ELSE g[U]) \in Nat
          <5>1. f[a] \in Nat /\ g[U \ {a}] \in Nat
            BY <3>2, <3>3
          <5>2. a \notin U => U \in SUBSET T
            OBVIOUS
          <5> QED
            BY <3>3, <5>1, <5>2
        <4> QED
          BY <4>1
      <3>5. h[{}] = 0
        BY <3>3
      <3>6. ASSUME NEW U \in SUBSET (T \cup {a}), NEW x \in U PROVE h[U] = f[x] + h[U \ {x}]
        <4>1. U \ {x} \in SUBSET (T \cup {a})
          OBVIOUS
        <4>2. CASE x = a
          BY <4>1, <4>2
        <4>3. CASE x # a /\ a \notin U
          <5>1. U \in SUBSET T /\ h[U] = g[U] /\ h[U \ {x}] = g[U \ {x}]
            BY <4>1, <4>3
          <5> QED
            BY <3>1, <5>1 DEF Partial
        <4>4. CASE x # a /\ a \in U
          <5>1. h[U] = f[a] + g[U \ {a}] /\ h[U \ {x}] = f[a] + g[(U \ {x}) \ {a}]
            BY <4>1, <4>4
          <5>2. (U \ {x}) \ {a} = (U \ {a}) \ {x} /\ x \in U \ {a} /\ U \ {a} \in SUBSET T
            BY <4>4
          <5>3. g[U \ {a}] = f[x] + g[(U \ {x}) \ {a}]
            <6>1. \A V \in SUBSET T : \A y \in V : g[V] = f[y] + g[V \ {y}]
              BY <3>1 DEF Partial
            <6>2. g[U \ {a}] = f[x] + g[(U \ {a}) \ {x}]
              BY <5>2, <6>1
            <6> QED
              BY <5>2, <6>2
          <5>4. f[a] \in Nat /\ f[x] \in Nat /\ g[(U \ {x}) \ {a}] \in Nat
            BY <3>2, <3>3, <5>2
          <5> QED
            BY <5>1, <5>3, <5>4
        <4> QED
          BY <4>2, <4>3, <4>4
      <3>7. Partial(h, f, T \cup {a})
        <4> HIDE DEF h
        <4> QED
          BY <3>4, <3>5, <3>6 DEF Partial
      <3> QED
        BY <3>7
    <2> QED
      BY <2>1, <2>2
  <1>3. S \in Summable
    <2> HIDE DEF Summable
    <2> QED
      BY <1>1, <1>2, FiniteInductive
  <1> QED
    BY <1>3

\* Sums of functions that agree on a set are the same, in whatever order.
LEMMA PartialsAgree ==
    ASSUME NEW S, NEW R, NEW f, NEW h, NEW g, NEW k, Partial(g, f, S), Partial(k, h, R),
           NEW T, IsFiniteSet(T), T \subseteq S, T \subseteq R, \A x \in T : f[x] = h[x]
    PROVE  g[T] = k[T]
  <1> DEFINE Same == {U \in SUBSET T : g[U] = k[U]}
  <1>1. {} \in Same
    BY DEF Partial
  <1>2. ASSUME NEW U \in SUBSET T, NEW x \in T, U \in Same PROVE U \cup {x} \in Same
    <2>1. CASE x \in U
      <3>1. U \cup {x} = U
        BY <2>1
      <3> QED
        BY <1>2, <3>1
    <2>2. CASE x \notin U
      <3>1. (U \cup {x}) \ {x} = U /\ U \cup {x} \in SUBSET S /\ U \cup {x} \in SUBSET R
        BY <2>2
      <3>2. g[U \cup {x}] = f[x] + g[U] /\ k[U \cup {x}] = h[x] + k[U]
        BY <3>1 DEF Partial
      <3> QED
        BY <1>2, <3>2
    <2> QED
      BY <2>1, <2>2
  <1>3. T \in Same
    <2> HIDE DEF Same
    <2> QED
      BY <1>1, <1>2, FiniteInductive
  <1> QED
    BY <1>3

\* SumFunction is the partial sum over the whole domain.
LEMMA SumIsPartial ==
    ASSUME NEW S, IsFiniteSet(S), NEW f \in [S -> Nat], NEW g, Partial(g, f, S)
    PROVE  SumFunction(f) = g[S]
  <1> DEFINE Step(k) == [T \in SUBSET S |->
                            IF T = {} THEN 0 ELSE LET x == CHOOSE x \in T : TRUE IN f[x] + k[T \ {x}]]
             iter == CHOOSE k : k = Step(k)
  <1>1. g = Step(g)
    <2>1. ASSUME NEW T \in SUBSET S PROVE g[T] = Step(g)[T]
      <3>1. T # {} => (CHOOSE x \in T : TRUE) \in T
        OBVIOUS
      <3> QED
        BY <3>1 DEF Partial
    <2>2. g = [T \in SUBSET S |-> g[T]]
      BY DEF Partial
    <2>3. Step(g) = [T \in SUBSET S |-> Step(g)[T]]
      OBVIOUS
    <2> HIDE DEF Step
    <2> QED
      BY <2>1, <2>2, <2>3
  <1>2. iter = Step(iter)
    <2> HIDE DEF Step
    <2> QED
      BY <1>1, Zenon
  <1>3. SumFunction(f) = iter[S]
    BY DEF SumFunction, SumFunctionOnSet, FoldFunctionOnSet, MapThenFoldSet
  <1> DEFINE Same == {T \in SUBSET S : iter[T] = g[T]}
             Counted == {n \in Nat : \A T \in SUBSET S : Cardinality(T) = n => iter[T] = g[T]}
  <1> HIDE DEF iter
  <1>4. \A T \in SUBSET S : IsFiniteSet(T) /\ Cardinality(T) \in Nat
    BY FS_Subset, FS_CardinalityType
  <1>5. 0 \in Counted
    <2>1. iter[{}] = 0
      BY <1>2
    <2> QED
      BY <1>4, <2>1, FS_EmptySet DEF Partial
  <1>6. ASSUME NEW n \in Nat, n \in Counted PROVE n + 1 \in Counted
    <2> SUFFICES ASSUME NEW T \in SUBSET S, Cardinality(T) = n + 1 PROVE iter[T] = g[T]
      OBVIOUS
    <2> DEFINE x == CHOOSE x \in T : TRUE
    <2>1. T # {}
      BY FS_EmptySet
    <2>2. x \in T
      BY <2>1
    <2>3. iter[T] = f[x] + iter[T \ {x}]
      BY <1>2, <2>1
    <2> HIDE DEF x
    <2>4. Cardinality(T \ {x}) = n
      BY <1>4, <2>2, FS_RemoveElement
    <2>5. iter[T \ {x}] = g[T \ {x}]
      BY <1>6, <2>4
    <2> QED
      BY <2>2, <2>3, <2>5 DEF Partial
  <1>7. \A n \in Nat : n \in Counted
    <2> HIDE DEF Counted
    <2> QED
      BY <1>5, <1>6, NatInductive
  <1>8. iter[S] = g[S]
    BY <1>4, <1>7
  <1> QED
    BY <1>3, <1>8

\* A sum of naturals is a natural.
LEMMA SumIsNat ==
    ASSUME NEW S, IsFiniteSet(S), NEW f \in [S -> Nat]
    PROVE  SumFunction(f) \in Nat
  <1>1. PICK g : Partial(g, f, S)
    BY PartialExists
  <1>2. g[S] \in Nat
    BY <1>1 DEF Partial
  <1> QED
    BY <1>1, <1>2, SumIsPartial

\* Changing one value changes the sum by as much.
LEMMA SumChanges ==
    ASSUME NEW S, IsFiniteSet(S), NEW f \in [S -> Nat], NEW h \in [S -> Nat],
           NEW x \in S, \A y \in S \ {x} : h[y] = f[y]
    PROVE  SumFunction(h) + f[x] = SumFunction(f) + h[x]
  <1>1. PICK g : Partial(g, f, S)
    BY PartialExists
  <1>2. PICK k : Partial(k, h, S)
    BY PartialExists
  <1>3. SumFunction(f) = g[S] /\ SumFunction(h) = k[S]
    BY <1>1, <1>2, SumIsPartial
  <1>4. g[S] = f[x] + g[S \ {x}] /\ k[S] = h[x] + k[S \ {x}]
    BY <1>1, <1>2 DEF Partial
  <1>5. k[S \ {x}] = g[S \ {x}]
    <2>1. IsFiniteSet(S \ {x})
      BY FS_RemoveElement
    <2> QED
      BY <1>1, <1>2, <2>1, PartialsAgree
  <1>6. f[x] \in Nat /\ h[x] \in Nat /\ g[S \ {x}] \in Nat
    BY <1>1 DEF Partial
  <1> QED
    BY <1>3, <1>4, <1>5, <1>6

\* As many times the largest value bounds a sum.
LEMMA SumIsBounded ==
    ASSUME NEW S, IsFiniteSet(S), NEW f \in [S -> Nat], NEW b \in Nat, \A x \in S : f[x] <= b
    PROVE  SumFunction(f) <= Cardinality(S) * b
  <1>1. PICK g : Partial(g, f, S)
    BY PartialExists
  <1> DEFINE Bounded == {T \in SUBSET S : g[T] <= Cardinality(T) * b}
  <1>2. {} \in Bounded
    BY <1>1, FS_EmptySet DEF Partial
  <1>3. ASSUME NEW T \in SUBSET S, NEW x \in S, T \in Bounded PROVE T \cup {x} \in Bounded
    <2>1. CASE x \in T
      <3>1. T \cup {x} = T
        BY <2>1
      <3> QED
        BY <1>3, <3>1
    <2>2. CASE x \notin T
      <3>1. IsFiniteSet(T) /\ Cardinality(T) \in Nat
        BY FS_Subset, FS_CardinalityType
      <3>2. Cardinality(T \cup {x}) = Cardinality(T) + 1
        BY <2>2, <3>1, FS_AddElement
      <3>3. (T \cup {x}) \ {x} = T /\ T \cup {x} \in SUBSET S
        BY <2>2
      <3>4. g[T \cup {x}] = f[x] + g[T]
        BY <1>1, <3>3 DEF Partial
      <3>5. g[T] \in Nat /\ f[x] \in Nat /\ f[x] <= b /\ g[T] <= Cardinality(T) * b
        BY <1>1, <1>3 DEF Partial
      <3>6. (Cardinality(T) + 1) * b = Cardinality(T) * b + b
        BY <3>1
      <3>7. Cardinality(T) * b \in Nat
        BY <3>1
      <3>8. f[x] + g[T] <= Cardinality(T) * b + b
        BY <3>5, <3>7
      <3> QED
        BY <3>2, <3>3, <3>4, <3>6, <3>8
    <2> QED
      BY <2>1, <2>2
  <1>4. S \in Bounded
    <2> HIDE DEF Bounded
    <2> QED
      BY <1>2, <1>3, FiniteInductive
  <1> QED
    BY <1>1, <1>4, SumIsPartial

\* Moving every value one place up, and the last one out, adds nothing.
LEMMA SumShifts ==
    ASSUME NEW N \in Nat \ {0}, NEW f \in [0 .. N - 1 -> Nat], NEW h \in [0 .. N - 1 -> Nat],
           h[0] = 0, \A a \in 1 .. N - 1 : h[a] = f[a - 1]
    PROVE  SumFunction(h) <= SumFunction(f)
  <1> DEFINE S == 0 .. N - 1
  <1>0. IsFiniteSet(S)
    BY FS_Interval
  <1>1. PICK g : Partial(g, f, S)
    BY <1>0, PartialExists
  <1>2. PICK k : Partial(k, h, S)
    BY <1>0, PartialExists
  <1> DEFINE Shifted == {n \in 0 .. N - 1 : k[0 .. n] = g[0 .. n - 1]}
  <1>3. 0 \in Shifted
    <2>1. 0 .. 0 = {0} /\ {0} \ {0} = {} /\ {0} \in SUBSET S /\ 0 .. 0 - 1 = {}
      OBVIOUS
    <2>2. k[{0}] = h[0] + k[{}] /\ k[{}] = 0 /\ g[{}] = 0
      BY <1>1, <1>2, <2>1 DEF Partial
    <2> QED
      BY <2>1, <2>2
  <1>4. ASSUME NEW n \in 0 .. (N - 1) - 1, n \in Shifted PROVE n + 1 \in Shifted
    <2> DEFINE T == 0 .. n + 1
               U == 0 .. n
    <2>1. T \in SUBSET S /\ n + 1 \in T /\ T \ {n + 1} = U
      OBVIOUS
    <2>2. U \in SUBSET S /\ n \in U /\ U \ {n} = 0 .. n - 1
      OBVIOUS
    <2>3. n \in Nat /\ n + 1 \in 1 .. N - 1 /\ n + 1 \in 0 .. N - 1 /\ (n + 1) - 1 = n
      OBVIOUS
    <2>4. k[0 .. n] = g[0 .. n - 1]
      BY <1>4
    <2>5. h[n + 1] = f[n]
      BY <2>3
    <2>6. k[T] = h[n + 1] + k[T \ {n + 1}]
      <3> HIDE DEF S, T
      <3> QED
        BY <1>2, <2>1 DEF Partial
    <2>7. g[U] = f[n] + g[U \ {n}]
      <3> HIDE DEF S, U
      <3> QED
        BY <1>1, <2>2 DEF Partial
    <2>8. k[T] = g[U]
      <3> HIDE DEF T
      <3> QED
        BY <2>1, <2>2, <2>4, <2>5, <2>6, <2>7
    <2> QED
      BY <2>3, <2>8
  <1>5. k[0 .. (N - 1)] = g[0 .. (N - 1) - 1]
    <2>1. N - 1 \in Nat /\ N - 1 \in 0 .. N - 1
      OBVIOUS
    <2>2. \A n \in 0 .. N - 1 : n \in Shifted
      <3> HIDE DEF Shifted
      <3> DEFINE M == N - 1
      <3>1. \A n \in 0 .. M - 1 : n \in Shifted => n + 1 \in Shifted
        BY <1>4
      <3>2. M \in Nat
        BY <2>1
      <3> HIDE DEF M
      <3>3. \A n \in 0 .. M : n \in Shifted
        BY <1>3, <3>1, <3>2, RangeInductive
      <3> QED
        BY <3>3 DEF M
    <2> QED
      BY <2>1, <2>2
  <1>6. N - 1 \in S /\ S \ {N - 1} = 0 .. (N - 1) - 1 /\ S = 0 .. (N - 1)
    OBVIOUS
  <1> HIDE DEF S
  <1>7. k[S] = g[S \ {N - 1}]
    BY <1>5, <1>6
  <1>8. f[N - 1] \in Nat
    BY <1>6 DEF S
  <1>9. g[S] = f[N - 1] + g[S \ {N - 1}] /\ g[S \ {N - 1}] \in Nat
    <2> DEFINE x == N - 1
    <2>1. x \in S
      BY <1>6
    <2> HIDE DEF x
    <2>2. g[S] = f[x] + g[S \ {x}] /\ g[S \ {x}] \in Nat
      <3>1. S \in SUBSET S /\ S \ {x} \in SUBSET S
        OBVIOUS
      <3> QED
        BY <1>1, <2>1, <3>1 DEF Partial
    <2> QED
      BY <2>2 DEF x
  <1>10. SumFunction(f) = g[S] /\ SumFunction(h) = k[S]
    BY <1>0, <1>1, <1>2, SumIsPartial DEF S
  <1>11. ASSUME NEW p \in Nat, NEW q \in Nat PROVE q <= p + q
    OBVIOUS
  <1> QED
    BY <1>7, <1>8, <1>9, <1>10, <1>11
=============================================================================
