--------------------------- MODULE ForecastsProofs --------------------------
(***************************************************************************)
(* What Forecasts does for any windows, reports, bounds and numbers of     *)
(* samples: the samples are those of the cycle, the line through them      *)
(* rises, and a forecast does not contradict itself.                       *)
(***************************************************************************)
EXTENDS Forecasts, FiniteSetTheorems, WellFoundedInduction, TLAPS

-----------------------------------------------------------------------------
(* Numbers.                                                                *)

\* A set of natural numbers has a least element, a bounded one a greatest.
LEMMA LeastNumber ==
    ASSUME NEW S, S \subseteq Nat, S # {}
    PROVE  \E n \in S : \A m \in S : n <= m
<1>1. PICK n \in S : \A m \in S : <<m, n>> \notin OpToRel(<, Nat)
  BY WFMin, NatLessThanWellFounded, Zenon
<1>2. \A m \in S : ~(m < n)
  BY <1>1 DEF OpToRel
<1> QED
  BY <1>2

LEMMA GreatestNumber ==
    ASSUME NEW S, NEW b \in Nat, S \subseteq 0..b, S # {}
    PROVE  \E n \in S : \A m \in S : m <= n
<1> DEFINE T == {b - n : n \in S}
<1>1. T \subseteq Nat /\ T # {}
  <2>1. \A n \in S : n \in 0..b /\ b - n \in Nat
    OBVIOUS
  <2> QED
    BY <2>1
<1> HIDE DEF T
<1>2. PICK t \in T : \A u \in T : t <= u
  BY <1>1, LeastNumber
<1>3. PICK n \in S : t = b - n
  BY DEF T
<1>4. \A m \in S : b - m \in T
  BY DEF T
<1>5. \A m \in S : b - n <= b - m
  BY <1>2, <1>3, <1>4
<1> QED
  BY <1>5

\* The sum in which a product has been added to each factor.
LEMMA CrossStep ==
    ASSUME NEW n \in Int, NEW X \in Int, NEW Y \in Int, NEW Q \in Int, NEW x \in Int, NEW y \in Int
    PROVE  (n + 1) * (x * y + Q) - (x + X) * (y + Y)
               = (n * Q - X * Y) + (n * (x * y) - x * Y - y * X + Q)
OBVIOUS

LEMMA AwayStep ==
    ASSUME NEW n \in Int, NEW X \in Int, NEW Y \in Int, NEW Q \in Int, NEW x \in Int, NEW y \in Int,
           NEW a \in Int, NEW b \in Int
    PROVE  (n + 1) * (a * b) - a * (y + Y) - b * (x + X) + (x * y + Q)
               = (n * (a * b) - a * Y - b * X + Q) + (a - x) * (b - y)
OBVIOUS

\* Numbers of one sign have a product that is not negative.
LEMMA SameSign ==
    ASSUME NEW a \in Int, NEW b \in Int, (a >= 0 /\ b >= 0) \/ (a <= 0 /\ b <= 0)
    PROVE  a * b >= 0 /\ (a # 0 /\ b # 0 => a * b > 0)
OBVIOUS

-----------------------------------------------------------------------------
(* Sums.                                                                   *)

Pick(T) == CHOOSE x \in T : TRUE

\* g[T] is the sum of f over T, for all T with at most n elements.
IsSum(g, f, S, n) ==
    /\ g = [T \in {T \in SUBSET S : Cardinality(T) <= n} |-> g[T]]
    /\ \A T \in SUBSET S : Cardinality(T) <= n =>
          g[T] = IF T = {} THEN 0 ELSE f[Pick(T)] + g[T \ {Pick(T)}]

\* One element less.
LEMMA Picked ==
    ASSUME NEW T, IsFiniteSet(T), T # {}
    PROVE  /\ Pick(T) \in T
           /\ IsFiniteSet(T \ {Pick(T)})
           /\ Cardinality(T) \in Nat \ {0}
           /\ Cardinality(T \ {Pick(T)}) = Cardinality(T) - 1
<1>1. Pick(T) \in T
  BY DEF Pick
<1> QED
  BY <1>1, FS_RemoveElement, FS_CardinalityType, FS_EmptySet

LEMMA SumExists ==
    ASSUME NEW S, IsFiniteSet(S), NEW f, NEW rounds \in Nat
    PROVE  \E g : IsSum(g, f, S, rounds)
<1> DEFINE Bad == {n \in Nat : ~\E g : IsSum(g, f, S, n)}
<1> SUFFICES ASSUME Bad # {}
             PROVE  FALSE
  OBVIOUS
<1>1. PICK n \in Bad : \A m \in Bad : n <= m
  BY LeastNumber
<1>2. \A T \in SUBSET S : IsFiniteSet(T) /\ Cardinality(T) \in Nat /\ (Cardinality(T) = 0 <=> T = {})
  BY FS_Subset, FS_CardinalityType, FS_EmptySet
<1>3. CASE n = 0
  <2> DEFINE g == [T \in {T \in SUBSET S : Cardinality(T) <= 0} |-> 0]
  <2>1. \A T \in SUBSET S : Cardinality(T) <= 0 => T = {} /\ g[T] = 0
    BY <1>2
  <2>2. g = [T \in {T \in SUBSET S : Cardinality(T) <= 0} |-> g[T]]
    OBVIOUS
  <2> HIDE DEF g
  <2>3. IsSum(g, f, S, 0)
    BY <2>1, <2>2 DEF IsSum
  <2> QED
    BY <1>1, <1>3, <2>3
<1>4. CASE n # 0
  <2>1. n \in Nat \ {0} /\ n - 1 \in Nat
    BY <1>1, <1>4
  <2>2. PICK g : IsSum(g, f, S, n - 1)
    BY <1>1, <2>1
  <2> DEFINE Rest(T) == T \ {Pick(T)}
             next == [T \in {T \in SUBSET S : Cardinality(T) <= n} |->
                         IF T = {} THEN 0 ELSE f[Pick(T)] + g[Rest(T)]]
  <2>3. \A T \in SUBSET S : Cardinality(T) <= n =>
            next[T] = IF T = {} THEN 0 ELSE f[Pick(T)] + g[Rest(T)]
    OBVIOUS
  <2>4. next = [T \in {T \in SUBSET S : Cardinality(T) <= n} |-> next[T]]
    OBVIOUS
  <2> HIDE DEF next
  <2>5. \A T \in SUBSET S : Cardinality(T) <= n - 1 => next[T] = g[T]
    <3> TAKE T \in SUBSET S
    <3> HAVE Cardinality(T) <= n - 1
    <3>1. Cardinality(T) <= n
      BY <1>2, <2>1
    <3> QED
      BY <2>2, <2>3, <3>1 DEF IsSum
  <2>6. ASSUME NEW T \in SUBSET S, Cardinality(T) <= n, T # {}
        PROVE  g[Rest(T)] = next[Rest(T)]
    <3>1. Cardinality(Rest(T)) = Cardinality(T) - 1 /\ Cardinality(T) \in Nat
      BY <1>2, <2>6, Picked
    <3>2. Rest(T) \in SUBSET S
      OBVIOUS
    <3>3. Cardinality(Rest(T)) <= n - 1
      BY <2>1, <2>6, <3>1
    <3> QED
      BY <2>5, <3>2, <3>3
  <2>7. \A T \in SUBSET S : Cardinality(T) <= n =>
            next[T] = IF T = {} THEN 0 ELSE f[Pick(T)] + next[Rest(T)]
    BY <2>3, <2>6
  <2>8. IsSum(next, f, S, n)
    BY <2>4, <2>7 DEF IsSum
  <2> QED
    BY <1>1, <2>8
<1> QED
  BY <1>3, <1>4

\* What is true of the empty set, and of a set when it is true of the set with
\* one element less, is true of every finite set.
LEMMA NoneBad ==
    ASSUME NEW S, IsFiniteSet(S), NEW Bad, Bad \subseteq SUBSET S, {} \notin Bad,
           \A T \in (SUBSET S) \ {{}} : T \ {Pick(T)} \notin Bad => T \notin Bad
    PROVE  Bad = {}
<1> SUFFICES ASSUME Bad # {}
             PROVE  FALSE
  OBVIOUS
<1> DEFINE sizes == {Cardinality(T) : T \in Bad}
<1>1. \A T \in Bad : IsFiniteSet(T) /\ Cardinality(T) \in Nat
  BY FS_Subset, FS_CardinalityType
<1>2. sizes \subseteq Nat /\ sizes # {}
  BY <1>1
<1> HIDE DEF sizes
<1>3. PICK n \in sizes : \A m \in sizes : n <= m
  BY <1>2, LeastNumber
<1>4. PICK T \in Bad : n = Cardinality(T)
  BY DEF sizes
<1>5. T # {} /\ T \in SUBSET S
  BY <1>4
<1>6. T \ {Pick(T)} \in Bad
  BY <1>5
<1>7. Cardinality(T \ {Pick(T)}) = Cardinality(T) - 1 /\ Cardinality(T) \in Nat
  BY <1>1, <1>5, Picked
<1>8. Cardinality(T \ {Pick(T)}) \in sizes
  BY <1>6 DEF sizes
<1> QED
  BY <1>3, <1>4, <1>7, <1>8

\* SumFunction adds up the values of a function on a finite set.
AddsUp(g, f, S) ==
    /\ g[S] = SumFunction(f)
    /\ g[{}] = 0
    /\ \A T \in SUBSET S : g[T] \in Int
    /\ \A T \in (SUBSET S) \ {{}} : g[T] = f[Pick(T)] + g[T \ {Pick(T)}]

LEMMA SumOK ==
    ASSUME NEW S, IsFiniteSet(S), NEW f \in [S -> Int]
    PROVE  \E g : AddsUp(g, f, S)
<1> DEFINE n == Cardinality(S)
           g == CHOOSE g : g = [T \in SUBSET S |-> IF T = {} THEN 0 ELSE f[Pick(T)] + g[T \ {Pick(T)}]]
<1>1. n \in Nat /\ \A T \in SUBSET S : Cardinality(T) <= n
  BY FS_CardinalityType, FS_Subset
<1>2. PICK h : IsSum(h, f, S, n)
  BY <1>1, SumExists
<1> HIDE DEF n
<1>3. {T \in SUBSET S : Cardinality(T) <= n} = SUBSET S
  BY <1>1
<1>4. /\ h = [T \in SUBSET S |-> h[T]]
      /\ \A T \in SUBSET S : h[T] = IF T = {} THEN 0 ELSE f[Pick(T)] + h[T \ {Pick(T)}]
  BY <1>1, <1>2, <1>3 DEF IsSum
<1>5. h = [T \in SUBSET S |-> IF T = {} THEN 0 ELSE f[Pick(T)] + h[T \ {Pick(T)}]]
  BY <1>4
<1>6. g = [T \in SUBSET S |-> IF T = {} THEN 0 ELSE f[Pick(T)] + g[T \ {Pick(T)}]]
  BY <1>5
<1>7. SumFunction(f) = g[S]
  BY DEF SumFunction, SumFunctionOnSet, FoldFunctionOnSet, MapThenFoldSet, Pick
<1> HIDE DEF g
<1>8. \A T \in SUBSET S : g[T] = IF T = {} THEN 0 ELSE f[Pick(T)] + g[T \ {Pick(T)}]
  BY <1>6
<1>9. g[{}] = 0
  <2>1. {} \in SUBSET S
    OBVIOUS
  <2> QED
    BY <1>8, <2>1
<1>10. \A T \in (SUBSET S) \ {{}} : g[T] = f[Pick(T)] + g[T \ {Pick(T)}]
  BY <1>8
<1> DEFINE Bad == {T \in SUBSET S : g[T] \notin Int}
<1>11. {} \notin Bad
  BY <1>9
<1>12. ASSUME NEW T \in (SUBSET S) \ {{}}, T \ {Pick(T)} \notin Bad
       PROVE  T \notin Bad
  <2>1. Pick(T) \in S /\ T \ {Pick(T)} \in SUBSET S
    BY DEF Pick
  <2>2. f[Pick(T)] \in Int /\ g[T \ {Pick(T)}] \in Int
    BY <1>12, <2>1
  <2>3. g[T] = f[Pick(T)] + g[T \ {Pick(T)}]
    BY <1>10
  <2>4. g[T] \in Int
    BY <2>2, <2>3
  <2> QED
    BY <2>4
<1>13. Bad = {}
  <2> HIDE DEF Bad
  <2>1. Bad \subseteq SUBSET S
    BY DEF Bad
  <2> QED
    BY <1>11, <1>12, <2>1, NoneBad
<1> QED
  BY <1>7, <1>9, <1>10, <1>13 DEF AddsUp

\* The numerator of a slope is positive when x and y rise together: it is the sum
\* of the products of all differences.
LEMMA CrossPositive ==
    ASSUME NEW S, IsFiniteSet(S), NEW x \in [S -> Int], NEW y \in [S -> Int],
           \A c, d \in S : (x[c] - x[d]) * (y[c] - y[d]) >= 0,
           NEW a \in S, NEW b \in S, (x[a] - x[b]) * (y[a] - y[b]) > 0
    PROVE  Cross(x, y) \in Int /\ Cross(x, y) > 0
<1> DEFINE xy == [e \in S |-> x[e] * y[e]]
           n(T) == Cardinality(T)
<1>1. xy \in [S -> Int] /\ \A e \in S : xy[e] = x[e] * y[e]
  OBVIOUS
<1> HIDE DEF xy
<1>2. PICK X : AddsUp(X, x, S)
  BY SumOK
<1>3. PICK Y : AddsUp(Y, y, S)
  BY SumOK
<1>4. PICK Q : AddsUp(Q, xy, S)
  BY <1>1, SumOK
<1> DEFINE Away(T, c) == n(T) * (x[c] * y[c]) - x[c] * Y[T] - y[c] * X[T] + Q[T]
           Whole(T) == n(T) * Q[T] - X[T] * Y[T]
           Far(c, d) == (x[c] - x[d]) * (y[c] - y[d])
<1>5. \A c, d \in S : Far(c, d) \in Int /\ Far(c, d) >= 0
  OBVIOUS
<1>6. \A T \in SUBSET S : n(T) \in Nat
  BY FS_Subset, FS_CardinalityType
<1>7. \A T \in SUBSET S : Whole(T) \in Int /\ \A c \in S : Away(T, c) \in Int
  BY <1>2, <1>3, <1>4, <1>6 DEF AddsUp
<1>8. Cross(x, y) = Whole(S)
  BY <1>2, <1>3, <1>4 DEF Cross, xy, AddsUp
<1>9. Whole({}) = 0 /\ \A c \in S : Away({}, c) = 0
  <2>1. n({}) = 0
    BY FS_EmptySet
  <2> QED
    BY <1>2, <1>3, <1>4, <2>1 DEF AddsUp
<1>10. ASSUME NEW T \in (SUBSET S) \ {{}}
       PROVE  LET p == Pick(T)
                  R == T \ {Pick(T)}
              IN  /\ p \in T /\ p \in S /\ R \in SUBSET S
                  /\ Whole(T) = Whole(R) + Away(R, p)
                  /\ \A c \in S : Away(T, c) = Away(R, c) + Far(c, p)
  <2> DEFINE p == Pick(T)
             R == T \ {Pick(T)}
  <2>1. p \in T /\ p \in S /\ R \in SUBSET S /\ n(R) \in Nat /\ n(T) = n(R) + 1
    <3>1. IsFiniteSet(T) /\ T # {}
      BY FS_Subset
    <3>2. p \in T /\ n(T) \in Nat \ {0} /\ n(R) = n(T) - 1
      BY <3>1, Picked
    <3>3. p \in S /\ R \in SUBSET S
      BY <3>2
    <3>4. n(R) \in Nat /\ n(T) = n(R) + 1
      <4>1. \A i, j : i \in Nat \ {0} /\ j = i - 1 => j \in Nat /\ i = j + 1
        OBVIOUS
      <4> QED
        BY <3>2, <4>1, Zenon
    <3> QED
      BY <3>2, <3>3, <3>4
  <2>2. /\ X[T] = x[p] + X[R] /\ Y[T] = y[p] + Y[R] /\ Q[T] = x[p] * y[p] + Q[R]
        /\ X[R] \in Int /\ Y[R] \in Int /\ Q[R] \in Int /\ x[p] \in Int /\ y[p] \in Int
    BY <1>1, <1>2, <1>3, <1>4, <2>1 DEF AddsUp
  <2> HIDE DEF n, p, R
  <2>3. Whole(T) = Whole(R) + Away(R, p)
    <3>1. (n(R) + 1) * (x[p] * y[p] + Q[R]) - (x[p] + X[R]) * (y[p] + Y[R])
              = (n(R) * Q[R] - X[R] * Y[R]) + (n(R) * (x[p] * y[p]) - x[p] * Y[R] - y[p] * X[R] + Q[R])
      <4> DEFINE m == n(R)
                 u == x[p]
                 v == y[p]
                 I == X[R]
                 J == Y[R]
                 K == Q[R]
      <4>1. m \in Int /\ u \in Int /\ v \in Int /\ I \in Int /\ J \in Int /\ K \in Int
        BY <2>1, <2>2
      <4> HIDE DEF m, u, v, I, J, K
      <4>2. (m + 1) * (u * v + K) - (u + I) * (v + J)
                = (m * K - I * J) + (m * (u * v) - u * J - v * I + K)
        BY <4>1, CrossStep
      <4> QED
        BY <4>2 DEF m, u, v, I, J, K
    <3> QED
      BY <2>1, <2>2, <3>1
  <2>4. ASSUME NEW c \in S
        PROVE  Away(T, c) = Away(R, c) + Far(c, p)
    <3>1. x[c] \in Int /\ y[c] \in Int
      OBVIOUS
    <3>2. (n(R) + 1) * (x[c] * y[c]) - x[c] * (y[p] + Y[R]) - y[c] * (x[p] + X[R]) + (x[p] * y[p] + Q[R])
              = (n(R) * (x[c] * y[c]) - x[c] * Y[R] - y[c] * X[R] + Q[R]) + (x[c] - x[p]) * (y[c] - y[p])
      BY <2>1, <2>2, <3>1, AwayStep
    <3> QED
      BY <2>1, <2>2, <3>2
  <2> QED
    BY <2>1, <2>3, <2>4 DEF p, R
<1> HIDE DEF Away, Whole, n
<1> DEFINE Near(T) == \A c \in S : Away(T, c) >= 0 /\ \A d \in T : Away(T, c) >= Far(c, d)
<1>11. \A T \in SUBSET S : Near(T)
  <2> DEFINE Bad == {T \in SUBSET S : ~Near(T)}
  <2>1. {} \notin Bad
    BY <1>9
  <2>2. ASSUME NEW T \in (SUBSET S) \ {{}}, T \ {Pick(T)} \notin Bad
        PROVE  T \notin Bad
    <3> DEFINE p == Pick(T)
               R == T \ {Pick(T)}
    <3>1. p \in T /\ p \in S /\ R \in SUBSET S /\ \A c \in S : Away(T, c) = Away(R, c) + Far(c, p)
      BY <1>10
    <3>2. Near(R)
      BY <2>2, <3>1
    <3> SUFFICES ASSUME NEW c \in S
                 PROVE  Away(T, c) >= 0 /\ \A d \in T : Away(T, c) >= Far(c, d)
      OBVIOUS
    <3>3. /\ Away(R, c) \in Int /\ Away(R, c) >= 0 /\ \A d \in R : Away(R, c) >= Far(c, d)
          /\ Away(T, c) = Away(R, c) + Far(c, p) /\ \A d \in S : Far(c, d) \in Int /\ Far(c, d) >= 0
      BY <1>5, <1>7, <3>1, <3>2
    <3> HIDE DEF Far, p, R
    <3>4. Away(T, c) >= 0
      BY <3>1, <3>3
    <3>5. ASSUME NEW d \in T
          PROVE  Away(T, c) >= Far(c, d)
      <4>1. CASE d = p
        BY <3>1, <3>3, <4>1
      <4>2. CASE d # p
        <5>1. d \in R
          BY <4>2 DEF p, R
        <5>2. Away(R, c) >= Far(c, d) /\ Far(c, p) \in Int /\ Far(c, p) >= 0 /\ Far(c, d) \in Int
          BY <3>1, <3>3, <5>1
        <5> QED
          BY <3>1, <3>3, <5>2
      <4> QED
        BY <4>1, <4>2
    <3> QED
      BY <3>4, <3>5
  <2>3. Bad = {}
    <3> HIDE DEF Bad
    <3>1. Bad \subseteq SUBSET S
      BY DEF Bad
    <3> QED
      BY <2>1, <2>2, <3>1, NoneBad
  <2> QED
    BY <2>3
<1> DEFINE Rises(T) == Whole(T) >= 0 /\ (a \in T /\ b \in T => Whole(T) > 0)
<1>12. \A T \in SUBSET S : Rises(T)
  <2> DEFINE Bad == {T \in SUBSET S : ~Rises(T)}
  <2>1. {} \notin Bad
    BY <1>9
  <2>2. ASSUME NEW T \in (SUBSET S) \ {{}}, T \ {Pick(T)} \notin Bad
        PROVE  T \notin Bad
    <3> DEFINE p == Pick(T)
               R == T \ {Pick(T)}
    <3>1. p \in T /\ p \in S /\ R \in SUBSET S /\ Whole(T) = Whole(R) + Away(R, p)
      BY <1>10
    <3>2. Rises(R)
      BY <2>2, <3>1
    <3>3. /\ Whole(R) \in Int /\ Away(R, p) \in Int /\ Away(R, p) >= 0
          /\ \A d \in R : Away(R, p) >= Far(p, d)
      BY <1>7, <1>11, <3>1
    <3>4. Whole(T) >= 0
      BY <3>1, <3>2, <3>3
    <3>5. ASSUME a \in T, b \in T
          PROVE  Whole(T) > 0
      <4>1. Far(a, b) > 0 /\ Far(b, a) = Far(a, b) /\ a # b /\ Far(a, b) \in Int
        OBVIOUS
      <4> HIDE DEF Far
      <4>2. CASE p # a /\ p # b
        BY <3>1, <3>2, <3>3, <3>5, <4>2
      <4>3. CASE p = a
        <5>1. Away(R, p) >= Far(a, b)
          BY <3>3, <3>5, <4>1, <4>3
        <5> QED
          BY <3>1, <3>2, <3>3, <4>1, <5>1
      <4>4. CASE p = b
        <5>1. Away(R, p) >= Far(b, a)
          BY <3>3, <3>5, <4>1, <4>4
        <5> QED
          BY <3>1, <3>2, <3>3, <4>1, <5>1
      <4> QED
        BY <4>2, <4>3, <4>4
    <3> QED
      BY <3>4, <3>5
  <2>3. Bad = {}
    <3> HIDE DEF Bad
    <3>1. Bad \subseteq SUBSET S
      BY DEF Bad
    <3> QED
      BY <2>1, <2>2, <3>1, NoneBad
  <2> QED
    BY <2>3
<1> QED
  BY <1>7, <1>8, <1>12
-----------------------------------------------------------------------------
(* Rows in the order of their times.                                       *)

\* Rows of one window up to a time: no two have the same.
Timed(R, t) ==
    /\ IsFiniteSet(R) /\ R \subseteq Row /\ t \in Nat
    /\ \A e \in R : e.at <= t
    /\ \A d, e \in R : d.at = e.at => d = e

LEMMA RowFields ==
    \A e \in Row : e.window \in Window /\ e.epoch \in Nat /\ e.at \in Nat /\ e.used \in 0..100
BY DEF Row

LEMMA TimedSubset ==
    ASSUME NEW R, NEW t, Timed(R, t), NEW S \in SUBSET R
    PROVE  Timed(S, t)
BY FS_Subset DEF Timed

\* Rows have one that is first and one that is last.
LEMMA Ends ==
    ASSUME NEW R, NEW t, Timed(R, t), R # {}
    PROVE  /\ Oldest(R) \in R /\ \A d \in R : Oldest(R).at <= d.at
           /\ Newest(R) \in R /\ \A d \in R : d.at <= Newest(R).at
<1> DEFINE times == {e.at : e \in R}
<1>1. times \subseteq 0..t /\ times # {} /\ times \subseteq Nat /\ t \in Nat
  BY RowFields DEF Timed
<1>2. \E e \in R : \A d \in R : e.at <= d.at
  <2> HIDE DEF times
  <2>1. PICK n \in times : \A m \in times : n <= m
    BY <1>1, LeastNumber
  <2>2. PICK e \in R : n = e.at
    BY DEF times
  <2>3. \A d \in R : d.at \in times
    BY DEF times
  <2> QED
    BY <2>1, <2>2, <2>3
<1>3. \E e \in R : \A d \in R : d.at <= e.at
  <2> HIDE DEF times
  <2>1. PICK n \in times : \A m \in times : m <= n
    BY <1>1, GreatestNumber
  <2>2. PICK e \in R : n = e.at
    BY DEF times
  <2>3. \A d \in R : d.at \in times
    BY DEF times
  <2> QED
    BY <2>1, <2>2, <2>3
<1> QED
  BY <1>2, <1>3 DEF Oldest, Newest

\* What is later than any other is the newest.
LEMMA NewestIs ==
    ASSUME NEW R, NEW t, Timed(R, t), NEW e \in R, \A d \in R : d.at <= e.at
    PROVE  Newest(R) = e
<1>1. Newest(R) \in R /\ \A d \in R : d.at <= Newest(R).at
  BY Ends
<1> QED
  BY <1>1, RowFields DEF Timed

\* Whoever is among the latest is so with all that are later.
LEMMA LatestUpper ==
    ASSUME NEW R, NEW t, Timed(R, t), NEW n \in Nat,
           NEW e \in Latest(R, n), NEW d \in R, d.at >= e.at
    PROVE  d \in Latest(R, n)
<1> DEFINE After(c) == {x \in R : x.at > c.at}
<1>1. After(d) \subseteq After(e)
  BY RowFields DEF Latest, Timed
<1>2. IsFiniteSet(After(e))
  BY FS_Subset DEF Timed
<1>3. Cardinality(After(d)) <= Cardinality(After(e)) /\ Cardinality(After(d)) \in Nat /\ Cardinality(After(e)) \in Nat
  BY <1>1, <1>2, FS_Subset, FS_CardinalityType
<1>4. Cardinality(After(e)) < n
  BY DEF Latest
<1> HIDE DEF After
<1>5. Cardinality(After(d)) < n
  BY <1>3, <1>4
<1> QED
  BY <1>5 DEF Latest, After

\* A set of rows that holds the later ones with each has its latest ones from all.
LEMMA LatestOfUpper ==
    ASSUME NEW R, NEW U \in SUBSET R, NEW n, \A e \in U, d \in R : d.at > e.at => d \in U
    PROVE  Latest(U, n) = U \cap Latest(R, n)
<1>1. ASSUME NEW e \in U
      PROVE  {d \in U : d.at > e.at} = {d \in R : d.at > e.at}
  OBVIOUS
<1> QED
  BY <1>1 DEF Latest

LEMMA LatestMore ==
    ASSUME NEW R, NEW t, Timed(R, t), NEW n \in Nat
    PROVE  Latest(R, n) \subseteq Latest(R, n + 1)
<1> SUFFICES ASSUME NEW e \in R, Cardinality({d \in R : d.at > e.at}) < n
             PROVE  Cardinality({d \in R : d.at > e.at}) < n + 1
  BY DEF Latest
<1>1. Cardinality({d \in R : d.at > e.at}) \in Nat
  BY FS_Subset, FS_CardinalityType DEF Timed
<1> QED
  BY <1>1

\* A later row moves the others back by one.
LEMMA LatestAdd ==
    ASSUME NEW R, NEW t, Timed(R, t), NEW n \in Nat, NEW e, e.at \in Nat, t < e.at
    PROVE  Latest(R \cup {e}, n + 1) = Latest(R, n) \cup {e}
<1> DEFINE After(S, c) == {x \in S : x.at > c.at}
           All == R \cup {e}
<1>1. e \notin R /\ \A c \in R : c.at \in Nat /\ e.at > c.at
  BY RowFields DEF Timed
<1>2. Cardinality(After(All, e)) = 0
  <2>1. After(All, e) = {}
    BY <1>1
  <2> QED
    BY <2>1, FS_EmptySet
<1>3. ASSUME NEW c \in R
      PROVE  Cardinality(After(All, c)) < n + 1 <=> Cardinality(After(R, c)) < n
  <2>1. After(All, c) = After(R, c) \cup {e} /\ e \notin After(R, c)
    BY <1>1
  <2>2. IsFiniteSet(After(R, c))
    BY FS_Subset DEF Timed
  <2>3. Cardinality(After(All, c)) = Cardinality(After(R, c)) + 1 /\ Cardinality(After(R, c)) \in Nat
    <3> HIDE DEF After
    <3> QED
      BY <2>1, <2>2, FS_AddElement, FS_CardinalityType
  <2> QED
    BY <2>3
<1>4. 0 < n + 1
  OBVIOUS
<1> QED
  BY <1>1, <1>2, <1>3, <1>4 DEF Latest

\* There are no more than asked for.
LEMMA LatestSize ==
    ASSUME NEW R, NEW t, Timed(R, t), NEW n \in Nat
    PROVE  Cardinality(Latest(R, n)) <= n
<1> DEFINE L == Latest(R, n)
<1>1. L \in SUBSET R /\ Timed(L, t)
  BY TimedSubset DEF Latest
<1>2. CASE L = {}
  BY <1>2, FS_EmptySet
<1>3. CASE L # {}
  <2> DEFINE e == Oldest(L)
             A == {d \in R : d.at > e.at}
  <2>1. e \in L /\ \A d \in L : e.at <= d.at
    BY <1>1, <1>3, Ends
  <2>2. Cardinality(A) < n
    BY <2>1 DEF Latest
  <2>3. IsFiniteSet(A) /\ e \notin A
    BY <1>1, <2>1, FS_Subset, RowFields DEF Timed
  <2>4. L \subseteq A \cup {e}
    BY <1>1, <2>1, RowFields DEF Timed
  <2>5. IsFiniteSet(A \cup {e}) /\ Cardinality(A \cup {e}) = Cardinality(A) + 1 /\ Cardinality(A) \in Nat
    <3> HIDE DEF A, e
    <3> QED
      BY <2>3, FS_AddElement, FS_CardinalityType
  <2>6. Cardinality(L) <= Cardinality(A \cup {e}) /\ Cardinality(L) \in Nat
    BY <2>4, <2>5, FS_Subset, FS_CardinalityType
  <2> HIDE DEF A, L
  <2>7. Cardinality(L) <= n
    BY <2>2, <2>5, <2>6
  <2> QED
    BY <2>7 DEF L
<1> QED
  BY <1>2, <1>3

-----------------------------------------------------------------------------
(* The rows of the cycle, and those since usage last fell.                 *)

Rises(S) == \A c, d \in S : c.at < d.at => c.used <= d.used

\* The segment is the longest run up to the newest row in which usage does not fall.
LEMMA Segment ==
    ASSUME NEW C, NEW t, Timed(C, t), NEW new \in C, \A d \in C : d.at <= new.at
    PROVE  LET S == CurrentSegment(C)
           IN  /\ S \in SUBSET C /\ new \in S /\ Timed(S, t)
               /\ Rises(S)
               /\ \E e \in C : S = Since(C, e)
               /\ \A e \in C : Rises(Since(C, e)) => Since(C, e) \subseteq S
<1> DEFINE S == CurrentSegment(C)
<1>1. \A d \in C : d.at \in Nat
  BY RowFields DEF Timed
<1>2. S \in SUBSET C /\ new \in S
  BY <1>1 DEF CurrentSegment
<1>3. Timed(S, t)
  BY <1>2, TimedSubset
<1>4. Rises(S)
  BY <1>1 DEF CurrentSegment, Rises
<1>5. S = Since(C, Oldest(S))
  <2>1. Oldest(S) \in S /\ \A d \in S : Oldest(S).at <= d.at
    BY <1>2, <1>3, Ends
  <2>2. ASSUME NEW e \in C, e.at >= Oldest(S).at
        PROVE  e \in S
    <3> DEFINE o == Oldest(S)
    <3>1. o \in C /\ \A c, d \in C : o.at <= c.at /\ c.at < d.at => c.used <= d.used
      BY <2>1 DEF CurrentSegment
    <3> HIDE DEF o
    <3>2. o.at <= e.at
      BY <1>1, <2>1, <2>2 DEF o
    <3>3. \A c, d \in C : e.at <= c.at /\ c.at < d.at => c.used <= d.used
      BY <1>1, <3>1, <3>2
    <3> QED
      BY <3>3 DEF CurrentSegment
  <2>3. \A e \in S : e.at >= Oldest(S).at
    BY <1>1, <1>2, <2>1
  <2> QED
    BY <1>2, <2>2, <2>3 DEF Since
<1>6. ASSUME NEW e \in C, Rises(Since(C, e)), NEW x \in Since(C, e)
      PROVE  x \in S
  <2>1. x \in C /\ x.at >= e.at
    BY DEF Since
  <2>2. ASSUME NEW c \in C, NEW d \in C, x.at <= c.at, c.at < d.at
        PROVE  c.used <= d.used
    <3>1. c.at >= e.at /\ d.at >= e.at
      BY <1>1, <2>1, <2>2
    <3> QED
      BY <1>6, <2>2, <3>1 DEF Since, Rises
  <2> QED
    BY <2>1, <2>2 DEF CurrentSegment
<1> HIDE DEF S
<1>7. Oldest(S) \in C
  BY <1>2, <1>3, Ends
<1> QED
  BY <1>2, <1>3, <1>4, <1>5, <1>6, <1>7 DEF S

\* The line of least squares through a segment that gains usage rises.
LEMMA LineRises ==
    ASSUME NEW S, NEW t, Timed(S, t), S # {}, Rises(S),
           Newest(S).used - Oldest(S).used >= 1
    PROVE  RunOf(S) \in Int /\ RunOf(S) > 0 /\ Rise(S) \in Int /\ Rise(S) > 0
<1> DEFINE x == Elapsed(S)
           y == Usage(S)
           a == Newest(S)
           b == Oldest(S)
<1>1. a \in S /\ b \in S /\ \A d \in S : b.at <= d.at /\ d.at <= a.at
  BY Ends
<1>2. \A d \in S : d.at \in Nat /\ d.used \in Nat
  BY RowFields DEF Timed
<1>3. /\ \A d \in S : x[d] = d.at - b.at /\ y[d] = d.used
      /\ x \in [S -> Int] /\ y \in [S -> Int] /\ IsFiniteSet(S)
  BY <1>1, <1>2 DEF Elapsed, Usage, Timed
<1>4. a.at - b.at > 0 /\ a.used - b.used > 0
  BY <1>1, <1>2 DEF Timed
<1> HIDE DEF x, y, a, b
<1>5. ASSUME NEW c \in S, NEW d \in S
      PROVE  /\ x[c] - x[d] = c.at - d.at /\ c.at - d.at \in Int
             /\ y[c] - y[d] = c.used - d.used /\ c.used - d.used \in Int
             /\ (c.at - d.at >= 0 /\ c.used - d.used >= 0) \/ (c.at - d.at <= 0 /\ c.used - d.used <= 0)
  <2>1. c.at \in Nat /\ d.at \in Nat /\ c.used \in Nat /\ d.used \in Nat /\ b.at \in Nat
    BY <1>1, <1>2
  <2>2. c.at < d.at => c.used <= d.used
    BY DEF Rises
  <2>3. d.at < c.at => d.used <= c.used
    BY DEF Rises
  <2>4. c.at = d.at => c.used = d.used
    BY DEF Timed
  <2>5. x[c] - x[d] = c.at - d.at /\ y[c] - y[d] = c.used - d.used
    BY <1>3, <2>1
  <2> QED
    BY <2>1, <2>2, <2>3, <2>4, <2>5
<1>6. Rise(S) \in Int /\ Rise(S) > 0
  <2>1. \A c, d \in S : (x[c] - x[d]) * (y[c] - y[d]) >= 0
    BY <1>5, SameSign
  <2>2. (x[a] - x[b]) * (y[a] - y[b]) > 0
    <3>1. a \in S /\ b \in S
      BY <1>1
    <3>2. /\ x[a] - x[b] \in Int /\ y[a] - y[b] \in Int /\ x[a] - x[b] > 0 /\ y[a] - y[b] > 0
      BY <1>4, <1>5, <3>1
    <3> QED
      BY <3>2, SameSign
  <2>3. Cross(x, y) \in Int /\ Cross(x, y) > 0
    BY <1>1, <1>3, <2>1, <2>2, CrossPositive
  <2> QED
    BY <2>3 DEF Rise, x, y
<1>7. RunOf(S) \in Int /\ RunOf(S) > 0
  <2>1. \A c, d \in S : (x[c] - x[d]) * (x[c] - x[d]) >= 0
    <3> TAKE c, d \in S
    <3>1. x[c] - x[d] \in Int
      BY <1>5
    <3> QED
      BY <3>1, SameSign
  <2>2. (x[a] - x[b]) * (x[a] - x[b]) > 0
    <3>1. x[a] - x[b] \in Int /\ x[a] - x[b] > 0
      BY <1>1, <1>4, <1>5
    <3> QED
      BY <3>1, SameSign
  <2>3. Cross(x, x) \in Int /\ Cross(x, x) > 0
    BY <1>1, <1>3, <2>1, <2>2, CrossPositive
  <2> QED
    BY <2>3 DEF RunOf, x
<1> QED
  BY <1>6, <1>7

\* What the rows of a cycle support goes up to its newest row, and no further back
\* than the segment; if they support anything, they support the segment.
LEMMA RunsInSegment ==
    ASSUME NEW C, NEW t, Timed(C, t), NEW new \in C, \A d \in C : d.at <= new.at,
           NEW e \in C, Supports(Since(C, e))
    PROVE  LET S == CurrentSegment(C)
           IN  Since(C, e) \subseteq S /\ Supports(S)
<1> DEFINE S == CurrentSegment(C)
           T == Since(C, e)
<1>1. /\ S \in SUBSET C /\ new \in S /\ Timed(S, t) /\ Rises(S)
      /\ \A x \in C : Rises(Since(C, x)) => Since(C, x) \subseteq S
  BY Segment
<1>2. T \subseteq S
  BY <1>1 DEF Supports, Rises
<1>3. Timed(T, t) /\ new \in T
  <2>1. T \in SUBSET C /\ new \in T
    BY DEF Since
  <2> QED
    BY <2>1, TimedSubset
<1>4. Newest(S) = new /\ Newest(T) = new
  BY <1>1, <1>2, <1>3, NewestIs
<1>5. Oldest(S) \in S /\ Oldest(T) \in T /\ \A d \in S : Oldest(S).at <= d.at
  BY <1>1, <1>3, Ends
<1>6. \A d \in S : d.at \in Nat /\ d.used \in Nat
  BY <1>1, RowFields DEF Timed
<1>7. Cardinality(S) >= 3
  <2>1. Cardinality(T) <= Cardinality(S) /\ Cardinality(S) \in Nat /\ Cardinality(T) \in Nat
    BY <1>1, <1>2, FS_Subset, FS_CardinalityType DEF Timed
  <2>2. Cardinality(T) >= 3
    BY DEF Supports
  <2> HIDE DEF S, T
  <2> QED
    BY <2>1, <2>2
<1>8. /\ new.at - Oldest(T).at >= MinSpan /\ new.used - Oldest(T).used >= 1 /\ new.used < 100
  BY <1>4 DEF Supports
<1> HIDE DEF S, T
<1>9. Oldest(S).at <= Oldest(T).at /\ Oldest(S).used <= Oldest(T).used
  <2>1. Oldest(T) \in S
    BY <1>2, <1>5
  <2>2. Oldest(S).at <= Oldest(T).at
    BY <1>5, <2>1
  <2>3. CASE Oldest(S).at = Oldest(T).at
    BY <1>1, <1>5, <1>6, <2>1, <2>2, <2>3 DEF Timed
  <2>4. CASE Oldest(S).at < Oldest(T).at
    BY <1>1, <1>5, <2>1, <2>2, <2>4 DEF Rises
  <2> QED
    BY <1>5, <1>6, <2>1, <2>2, <2>3, <2>4
<1>10. new.at - Oldest(S).at >= MinSpan /\ new.used - Oldest(S).used >= 1
  <2>1. Oldest(T) \in S /\ MinSpan \in Nat
    BY <1>2, <1>5, ForecastAssumption
  <2> QED
    BY <1>1, <1>5, <1>6, <1>8, <1>9, <2>1
<1> QED
  BY <1>1, <1>2, <1>4, <1>7, <1>8, <1>10 DEF Supports, Rises, S, T

-----------------------------------------------------------------------------
(* The forecasts.                                                          *)

IsForecast(f, source) == f # None => f \in Forecast /\ f.source = source

LEMMA NoneApart ==
    None \notin Nat /\ None \notin Forecast
BY ForecastAssumption

Pace(exhausts, projected, says) ==
    [source |-> "pace", samples |-> 0, exhausts |-> exhausts, projected |-> projected, says |-> says]

\* The three forecasts there are of the pace.
LEMMA PaceShape ==
    ASSUME NEW r \in Shown, NEW time \in Nat, PaceProjection(r, time) # None
    PROVE  LET p == PaceProjection(r, time)
           IN  \/ p = Pace(FALSE, None, "nothing")
               \/ \E n \in 0..99 : p = Pace(FALSE, n, "by reset")
               \/ \E b \in BOOLEAN : p = Pace(b, None, "full") /\ (r.clock > time => b)
<1> DEFINE p == PaceProjection(r, time)
           resetIn == r.clock - time
           elapsed == r.length - resetIn
           known   == 0 < r.used /\ r.used < 100 /\ elapsed > 0
           fills   == (100 - r.used) * elapsed <= resetIn * r.used
           whole   == 2 * r.used * r.length + elapsed
           atReset == whole \div (2 * elapsed)
           n       == IF atReset >= 100 THEN 99 ELSE atReset
<1>1. r.clock # None /\ r.length # None
  BY DEF PaceProjection
<1>2. /\ r.clock \in Nat /\ r.length \in Nat /\ r.used \in 0..100
      /\ resetIn \in Int /\ elapsed \in Int
  BY <1>1 DEF Shown
<1>3. r.clock > time => resetIn > 0
  BY <1>2
<1>4. known => n \in 0..99
  <2> SUFFICES ASSUME known
               PROVE  n \in 0..99
    OBVIOUS
  <2>1. r.used * r.length \in Nat
    BY <1>2
  <2>2. whole \in Nat /\ 2 * elapsed \in Nat /\ 2 * elapsed > 0
    BY <1>2, <2>1
  <2>3. \A a, b \in Nat : b > 0 => a \div b \in Nat
    OBVIOUS
  <2>4. atReset \in Nat
    <3> HIDE DEF whole, elapsed
    <3> QED
      BY <2>2, <2>3
  <2> HIDE DEF atReset
  <2> QED
    BY <2>4
<1>5. p = Pace(known /\ resetIn > 0 /\ fills, IF known /\ resetIn > 0 /\ ~fills THEN n ELSE None,
               CASE ~known -> "nothing"
                 [] known /\ resetIn > 0 /\ ~fills -> "by reset"
                 [] OTHER -> "full")
  BY DEF PaceProjection, Pace
<1> DEFINE ahead == resetIn > 0
<1> HIDE DEF p, resetIn, elapsed, known, fills, atReset, n
<1>6. p = Pace(known /\ ahead /\ fills, IF known /\ ahead /\ ~fills THEN n ELSE None,
               CASE ~known -> "nothing"
                 [] known /\ ahead /\ ~fills -> "by reset"
                 [] OTHER -> "full")
  BY <1>5
<1>7. r.clock > time => ahead
  BY <1>3
<1> HIDE DEF ahead
<1>8. CASE ~known
  <2>1. p = Pace(FALSE, None, "nothing")
    BY <1>6, <1>8 DEF Pace
  <2> QED
    BY <2>1 DEF p
<1>9. CASE known /\ ahead /\ ~fills
  <2>1. p = Pace(FALSE, n, "by reset")
    BY <1>6, <1>9 DEF Pace
  <2> QED
    BY <1>4, <1>9, <2>1 DEF p
<1>10. CASE known /\ ~(ahead /\ ~fills)
  <2>1. p = Pace(ahead /\ fills, None, "full")
    BY <1>6, <1>10 DEF Pace
  <2>2. (ahead /\ fills) \in BOOLEAN /\ (r.clock > time => ahead /\ fills)
    BY <1>7, <1>10
  <2>3. p = PaceProjection(r, time)
    BY DEF p
  <2> QED
    BY <2>1, <2>2, <2>3
<1> QED
  BY <1>8, <1>9, <1>10

LEMMA PaceOK ==
    ASSUME NEW r \in Shown, NEW time \in Nat
    PROVE  IsForecast(PaceProjection(r, time), "pace")
<1> DEFINE p == PaceProjection(r, time)
<1> SUFFICES ASSUME p # None
             PROVE  p \in Forecast /\ p.source = "pace"
  BY DEF IsForecast
<1>1. \A b \in BOOLEAN, n \in Nat \cup {None}, s \in {"nothing", "by reset", "full", "on track"} :
          Pace(b, n, s) \in Forecast /\ Pace(b, n, s).source = "pace"
  BY DEF Pace, Forecast
<1>2. \E b \in BOOLEAN, n \in Nat \cup {None}, s \in {"nothing", "by reset", "full", "on track"} : p = Pace(b, n, s)
  <2>1. 0..99 \subseteq Nat
    OBVIOUS
  <2> QED
    BY <2>1, PaceShape, Zenon
<1> HIDE DEF p
<1>3. PICK b \in BOOLEAN, n \in Nat \cup {None}, s \in {"nothing", "by reset", "full", "on track"} : p = Pace(b, n, s)
  BY <1>2, Zenon
<1>4. Pace(b, n, s) \in Forecast /\ Pace(b, n, s).source = "pace"
  BY <1>1, Zenon
<1> QED
  BY <1>3, <1>4

LEMMA HistoryOK ==
    ASSUME NEW rows, NEW w, NEW r, NEW time,
           NEW t, Timed(Recent(rows, w, r, time), t)
    PROVE  /\ IsForecast(ForecastWindow(rows, w, r, time), "history")
           /\ ForecastWindow(rows, w, r, time) # None =>
                 /\ ForecastWindow(rows, w, r, time).says = "nothing"
                 /\ ForecastWindow(rows, w, r, time).projected = None
                 /\ ForecastWindow(rows, w, r, time).samples
                          = Cardinality(CurrentSegment(Recent(rows, w, r, time)))
<1> DEFINE h == ForecastWindow(rows, w, r, time)
           s == CurrentSegment(Recent(rows, w, r, time))
<1>1. Cardinality(s) \in Nat
  BY FS_Subset, FS_CardinalityType DEF CurrentSegment, Timed
<1> SUFFICES ASSUME h # None
             PROVE  /\ h \in Forecast /\ h.source = "history" /\ h.says = "nothing" /\ h.projected = None
                    /\ h.samples = Cardinality(s)
  BY DEF IsForecast
<1>2. h = [source |-> "history", samples |-> Cardinality(s), projected |-> None, says |-> "nothing",
           exhausts |-> (100 - r.used) * RunOf(s) < (r.clock - time) * Rise(s)]
  BY DEF ForecastWindow
<1> QED
  BY <1>1, <1>2 DEF Forecast

LEMMA PreferOK ==
    ASSUME NEW pace, IsForecast(pace, "pace"), NEW history, IsForecast(history, "history")
    PROVE  LET f == PreferForecast(pace, history)
           IN  /\ f \in Forecast \cup {None}
               /\ history = None => f = pace
               /\ history # None => f # None /\ f.source = "history" /\ f.samples = history.samples
<1> DEFINE f == PreferForecast(pace, history)
<1>1. CASE history = None
  BY <1>1 DEF PreferForecast, IsForecast
<1>2. CASE history # None /\ pace = None
  BY <1>2 DEF PreferForecast, IsForecast
<1>3. CASE history # None /\ pace # None
  <2>1. history \in Forecast /\ pace \in Forecast /\ history.source = "history"
    BY <1>3 DEF IsForecast
  <2>2. f \in Forecast /\ f.source = "history" /\ f.samples = history.samples
    BY <1>3, <2>1 DEF PreferForecast, Forecast
  <2> QED
    BY <1>3, <2>2, NoneApart
<1> QED
  BY <1>1, <1>2, <1>3

\* Either forecast is consistent, and so is what is made of both.
LEMMA PreferConsistent ==
    ASSUME NEW r \in Shown, NEW time \in Nat, NEW history, IsForecast(history, "history"),
           history # None => history.says = "nothing" /\ history.projected = None,
           NEW q, q.clock = r.clock, q.forecast = PreferForecast(PaceProjection(r, time), history)
    PROVE  Consistent(q, time)
<1> DEFINE pace == PaceProjection(r, time)
           Fits(f) == f # None =>
              /\ f.says = "full" => f.exhausts
              /\ f.exhausts => f.says \in {"full", "nothing"}
              /\ f.projected # None => ~f.exhausts /\ f.projected < 100
<1> SUFFICES ASSUME r.clock > time
             PROVE  Fits(PreferForecast(pace, history))
  BY DEF Consistent
<1>1. Fits(pace)
  <2> SUFFICES ASSUME pace # None
               PROVE  Fits(pace)
    OBVIOUS
  <2>1. CASE pace = Pace(FALSE, None, "nothing")
    BY <2>1 DEF Pace
  <2>2. ASSUME NEW n \in 0..99, pace = Pace(FALSE, n, "by reset")
        PROVE  Fits(pace)
    <3> HIDE DEF pace
    <3>1. pace.says = "by reset" /\ pace.exhausts = FALSE /\ pace.projected = n
      BY <2>2 DEF Pace
    <3>2. n < 100
      OBVIOUS
    <3> QED
      BY <3>1, <3>2
  <2>3. CASE pace = Pace(TRUE, None, "full")
    BY <2>3 DEF Pace
  <2>4. \/ pace = Pace(FALSE, None, "nothing")
        \/ \E n \in 0..99 : pace = Pace(FALSE, n, "by reset")
        \/ pace = Pace(TRUE, None, "full")
    BY PaceShape
  <2> QED
    BY <2>1, <2>2, <2>3, <2>4
<1>2. CASE history = None \/ pace = None
  BY <1>1, <1>2 DEF PreferForecast
<1>3. CASE history # None /\ pace # None
  <2>1. /\ pace \in Forecast /\ history \in Forecast
        /\ history.says = "nothing" /\ history.projected = None
    BY <1>3, PaceOK DEF IsForecast
  <2> HIDE DEF pace
  <2> DEFINE f == PreferForecast(pace, history)
  <2>2. CASE history.exhausts = pace.exhausts
    <3>1. f.says = pace.says /\ f.projected = pace.projected /\ f.exhausts = pace.exhausts
      BY <1>3, <2>1, <2>2 DEF PreferForecast, Forecast
    <3> QED
      BY <1>1, <1>3, <3>1
  <2>3. CASE history.exhausts # pace.exhausts
    <3>1. /\ f.says = IF history.exhausts THEN "full" ELSE "on track"
          /\ f.projected = None /\ f.exhausts = history.exhausts
      BY <1>3, <2>1, <2>3 DEF PreferForecast, Forecast
    <3> QED
      BY <3>1
  <2> QED
    BY <2>2, <2>3
<1> QED
  BY <1>2, <1>3

\* What is made of the pace and of the line through the cycle's rows rests on them.
LEMMA RestsOK ==
    ASSUME NEW rows, NEW w, NEW r, NEW time, NEW C, C = Recent(rows, w, r, time),
           NEW t, Timed(C, t), NEW new \in C, \A d \in C : d.at <= new.at, new.used = r.used,
           NEW pace, IsForecast(pace, "pace"),
           NEW q, q.forecast = PreferForecast(pace, ForecastWindow(rows, w, r, time))
    PROVE  RestsOnCycle(q, C)
<1> DEFINE h == ForecastWindow(rows, w, r, time)
           S == CurrentSegment(C)
           runs == {T \in {Since(C, e) : e \in C} : Supports(T)}
<1>1. /\ S \in SUBSET C /\ new \in S /\ Timed(S, t) /\ Rises(S)
      /\ \E e \in C : S = Since(C, e)
  BY Segment
<1>2. IsForecast(h, "history") /\ (h # None => h.samples = Cardinality(S))
  BY HistoryOK
<1>3. Newest(S) = new /\ Oldest(S) \in S
  BY <1>1, NewestIs, Ends
<1>4. \A T \in runs : T \subseteq S /\ Supports(S)
  BY RunsInSegment
<1>5. h = None <=> \/ Cardinality(S) < 3
                   \/ Newest(S).at - Oldest(S).at < MinSpan \/ Newest(S).used - Oldest(S).used < 1
                   \/ RunOf(S) = 0 \/ Rise(S) <= 0 \/ r.used >= 100
  <2> DEFINE g == [source |-> "history", samples |-> Cardinality(S), projected |-> None, says |-> "nothing",
                   exhausts |-> (100 - r.used) * RunOf(S) < (r.clock - time) * Rise(S)]
  <2>1. Cardinality(S) \in Nat
    BY <1>1, FS_CardinalityType DEF Timed
  <2>2. g \in Forecast
    BY <2>1 DEF Forecast
  <2> HIDE DEF g
  <2>3. g # None
    BY <2>2, NoneApart
  <2> QED
    BY <2>3 DEF ForecastWindow, g
<1>6. Cardinality(S) \in Nat /\ MinSpan \in Nat
      /\ new.at \in Nat /\ new.used \in Nat /\ Oldest(S).at \in Nat /\ Oldest(S).used \in Nat
  <2>1. Cardinality(S) \in Nat /\ MinSpan \in Nat
    BY <1>1, FS_CardinalityType, ForecastAssumption DEF Timed
  <2>2. \A e \in S : e.at \in Nat /\ e.used \in Nat
    BY <1>1, RowFields DEF Timed
  <2> HIDE DEF S
  <2> QED
    BY <1>1, <1>3, <2>1, <2>2
<1>7. /\ h = None => q.forecast = pace
      /\ h # None => q.forecast # None /\ q.forecast.source = "history" /\ q.forecast.samples = Cardinality(S)
  BY <1>2, PreferOK
<1> HIDE DEF h, S
<1>8. CASE h # None
  <2>1. Supports(S)
    BY <1>1, <1>3, <1>5, <1>6, <1>8 DEF Supports, Rises
  <2>2. S \in runs
    BY <1>1, <2>1
  <2> HIDE DEF runs
  <2> QED
    BY <1>4, <1>7, <1>8, <2>2 DEF RestsOnCycle, runs
<1>9. CASE h = None
  <2>1. runs = {}
    <3> SUFFICES ASSUME Supports(S)
                 PROVE  FALSE
      BY <1>4
    <3>1. /\ Cardinality(S) >= 3 /\ new.at - Oldest(S).at >= MinSpan /\ new.used - Oldest(S).used >= 1
          /\ new.used < 100
      BY <1>3 DEF Supports
    <3>2. RunOf(S) \in Int /\ RunOf(S) > 0 /\ Rise(S) \in Int /\ Rise(S) > 0
      BY <1>1, <1>3, <3>1, LineRises
    <3> QED
      BY <1>3, <1>5, <1>6, <1>9, <3>1, <3>2
  <2>2. q.forecast # None => q.forecast.source = "pace"
    BY <1>7, <1>9 DEF IsForecast
  <2> QED
    BY <2>1, <2>2 DEF RestsOnCycle
<1> QED
  BY <1>8, <1>9

-----------------------------------------------------------------------------
(* A new row beside the rows kept.                                         *)

KeptFrom(O, since) == {d \in Latest(O, Cap) : d.at >= since}

LEMMA TimedAdd ==
    ASSUME NEW O, NEW t, Timed(O, t), NEW new \in Row, t < new.at
    PROVE  Timed(O \cup {new}, new.at)
<1>1. IsFiniteSet(O \cup {new})
  BY FS_AddElement DEF Timed
<1>2. \A d \in O : d.at \in Nat /\ d.at < new.at
  BY RowFields DEF Timed
<1> QED
  BY <1>1, <1>2, RowFields DEF Timed

\* The new row, and the rows kept of its cycle that are within the horizon, are
\* the cycle as all that was ever observed shows it.
LEMMA CycleOK ==
    ASSUME NEW O, NEW t, Timed(O, t), NEW new \in Row, t < new.at,
           NEW since \in Int, since <= new.at - Horizon
    PROVE  InCycle(O \cup {new})
               = {e \in KeptFrom(O, since) \cup {new} : e.epoch = new.epoch /\ e.at >= new.at - Horizon}
<1> DEFINE All == O \cup {new}
           kept == Latest(All, Cap + 1)
<1>1. kept = Latest(O, Cap) \cup {new}
  BY LatestAdd, RowFields, ForecastAssumption
<1>2. Newest(kept) = new
  <2>1. kept \in SUBSET All /\ new \in kept
    BY <1>1 DEF Latest
  <2>2. Timed(All, new.at)
    BY TimedAdd
  <2> HIDE DEF kept, All
  <2>3. Timed(kept, new.at)
    BY <2>1, <2>2, TimedSubset
  <2>4. \A d \in kept : d.at <= new.at
    BY <2>3 DEF Timed
  <2>5. Newest(kept) = new
    BY <2>1, <2>3, <2>4, NewestIs
  <2> QED
    BY <2>5 DEF kept, All
<1>3. ASSUME NEW e \in Latest(O, Cap), e.at >= new.at - Horizon
      PROVE  e.at >= since
  BY <1>3, RowFields, ForecastAssumption DEF Latest, Timed
<1> QED
  BY <1>1, <1>2, <1>3 DEF InCycle, KeptFrom

\* The latest of the new row and the rows kept are the latest of all.
LEMMA CapOK ==
    ASSUME NEW O, NEW t, Timed(O, t), NEW new \in Row, t < new.at,
           NEW since \in Int, since <= new.at
    PROVE  Latest(KeptFrom(O, since) \cup {new}, Cap) = KeptFrom(O \cup {new}, since)
<1> DEFINE All == O \cup {new}
           U == KeptFrom(O, since) \cup {new}
<1>1. Timed(All, new.at) /\ Cap \in Nat /\ U \in SUBSET All
  BY TimedAdd, ForecastAssumption DEF KeptFrom, Latest
<1>2. ASSUME NEW e \in U, NEW d \in All, d.at > e.at
      PROVE  d \in U
  <2>1. \A c \in All : c.at \in Nat /\ c.at <= new.at
    BY <1>1, RowFields DEF Timed
  <2>2. CASE e = new
    BY <1>2, <2>1, <2>2
  <2>3. CASE e \in KeptFrom(O, since) /\ d \in O
    <3>1. e \in Latest(O, Cap) /\ e.at >= since
      BY <2>3 DEF KeptFrom
    <3>2. d \in Latest(O, Cap)
      BY <1>1, <1>2, <2>1, <2>3, <3>1, LatestUpper
    <3>3. d.at >= since
      BY <1>1, <1>2, <2>1, <3>1
    <3> QED
      BY <3>2, <3>3 DEF KeptFrom
  <2> QED
    BY <2>2, <2>3
<1>3. Latest(U, Cap) = U \cap Latest(All, Cap)
  BY <1>1, <1>2, LatestOfUpper
<1>4. Latest(All, Cap) \subseteq Latest(O, Cap) \cup {new}
  <2>1. Latest(All, Cap) \subseteq Latest(All, Cap + 1)
    BY <1>1, LatestMore
  <2>2. Latest(All, Cap + 1) = Latest(O, Cap) \cup {new}
    BY <1>1, LatestAdd, RowFields
  <2> QED
    BY <2>1, <2>2
<1>5. new.at >= since
  BY RowFields
<1> QED
  BY <1>3, <1>4, <1>5 DEF KeptFrom

-----------------------------------------------------------------------------
(* The inductive invariant.                                                *)

LEMMA Times ==
    ASSUME TypeOK
    PROVE  now \in Nat /\ LastCommit \in Nat /\ LastCommit <= now
BY ForecastAssumption DEF TypeOK, LastCommit

LEMMA ObservedTimed ==
    ASSUME TypeOK, SamplesKept, NEW w \in Window
    PROVE  Timed(Of(w, observed), LastCommit)
<1>1. IsFiniteSet(Of(w, observed)) /\ Of(w, observed) \subseteq Row
  BY DEF TypeOK, Of
<1> QED
  BY <1>1, Times DEF SamplesKept, Timed, Of

LEMMA ForecastInit == Init => ForecastInv
<1> SUFFICES ASSUME Init
             PROVE  ForecastInv
  OBVIOUS
<1>1. \A w : Of(w, {}) = {}
  BY DEF Of
<1>2. Latest({}, Cap) = {}
  BY DEF Latest
<1>3. TypeOK
  <2>1. IsFiniteSet({}) /\ Cardinality({}) = 0 /\ Cap \in Nat /\ 0 \in 0..MaxTime
    BY FS_EmptySet, ForecastAssumption
  <2>2. \A w \in Window : IsFiniteSet(Of(w, observed)) /\ Cardinality(Of(w, samples)) <= Cap
    BY <1>1, <2>1 DEF Init
  <2> QED
    BY <2>1, <2>2 DEF Init, TypeOK
<1>4. SamplesKept
  BY <1>1, <1>2 DEF Init, SamplesKept, Retained
<1>5. InTransaction /\ HistoryIsThisCycle /\ ForecastsAgree
  BY DEF Init, InTransaction, HistoryIsThisCycle, ForecastsAgree
<1> QED
  BY <1>3, <1>4, <1>5 DEF ForecastInv

LEMMA BeginStep ==
    ASSUME ForecastInv, Begin
    PROVE  ForecastInv'
<1>1. TypeOK /\ SamplesKept /\ HistoryIsThisCycle /\ ForecastsAgree
  BY DEF ForecastInv
<1>2. PICK step \in Steps, report \in Reports :
         /\ now + step <= MaxTime
         /\ now' = now + step
         /\ tx' = [rows |-> samples, left |-> Window, windows |-> [w \in Window |-> Merged(w, report[w])]]
  BY DEF Begin
<1>3. samples' = samples /\ snapshot' = snapshot /\ observed' = observed
  BY DEF Begin
<1>4. /\ now \in Nat /\ step \in Nat /\ step > 0 /\ now' \in 0..MaxTime /\ now < now'
      /\ LastCommit <= now /\ LastCommit \in Nat
  BY <1>1, <1>2, Times, ForecastAssumption
<1>5. LastCommit' = LastCommit
  BY <1>3 DEF LastCommit
<1>6. \A w \in Window : Merged(w, report[w]) \in Shown
  <2> TAKE w \in Window
  <2> DEFINE r == report[w]
  <2>1. r \in Reading
    BY ForecastAssumption
  <2> HIDE DEF r
  <2>2. CASE r.stale /\ snapshot # None
    <3>1. snapshot.windows[w] \in Shown
      BY <1>1, <2>2 DEF TypeOK
    <3>2. [snapshot.windows[w] EXCEPT !.stale = TRUE] \in Shown
      BY <3>1 DEF Shown
    <3> QED
      BY <2>2, <3>2 DEF Merged, r
  <2>3. CASE ~(r.stale /\ snapshot # None)
    <3>1. [stale |-> r.stale, used |-> r.used, clock |-> r.clock, length |-> r.length, forecast |-> None] \in Shown
      BY <2>1 DEF Reading, Shown
    <3> QED
      BY <2>3, <3>1 DEF Merged, r
  <2> QED
    BY <2>2, <2>3
<1>7. tx' \in [rows : SUBSET Row, left : SUBSET Window, windows : [Window -> Shown]]
  BY <1>1, <1>2, <1>6 DEF TypeOK
<1>8. snapshot' # None => snapshot' \in [at : 0..now', stale : BOOLEAN, windows : [Window -> Shown]]
  <2> SUFFICES ASSUME snapshot # None
               PROVE  snapshot \in [at : 0..now', stale : BOOLEAN, windows : [Window -> Shown]]
    BY <1>3
  <2>1. snapshot \in [at : 0..now, stale : BOOLEAN, windows : [Window -> Shown]]
    BY <1>1 DEF TypeOK
  <2>2. 0..now \subseteq 0..now'
    BY <1>4
  <2> QED
    BY <2>1, <2>2
<1>9. TypeOK'
  BY <1>1, <1>3, <1>4, <1>7, <1>8 DEF TypeOK
<1>10. SamplesKept'
  BY <1>1, <1>3, <1>5 DEF SamplesKept, Retained
<1>11. InTransaction'
  BY <1>2, <1>3, <1>4, <1>5 DEF InTransaction
<1>12. HistoryIsThisCycle' /\ ForecastsAgree'
  BY <1>1, <1>3 DEF HistoryIsThisCycle, ForecastsAgree
<1> QED
  BY <1>9, <1>10, <1>11, <1>12 DEF ForecastInv

LEMMA RollbackStep ==
    ASSUME ForecastInv, Rollback
    PROVE  ForecastInv'
<1>1. /\ tx' = None /\ samples' = samples /\ snapshot' = snapshot /\ now' = now /\ observed' = observed
      /\ LastCommit' = LastCommit
  BY DEF Rollback, LastCommit
<1> QED
  BY <1>1 DEF ForecastInv, TypeOK, SamplesKept, Retained, InTransaction, HistoryIsThisCycle, ForecastsAgree

LEMMA MarkStaleStep ==
    ASSUME ForecastInv, MarkStale
    PROVE  ForecastInv'
<1>1. TypeOK /\ SamplesKept /\ snapshot \in [at : 0..now, stale : BOOLEAN, windows : [Window -> Shown]]
      /\ snapshot # None
  BY DEF ForecastInv, TypeOK, MarkStale
<1>2. /\ snapshot' = [snapshot EXCEPT !.stale = TRUE,
                       !.windows = [w \in Window |-> [snapshot.windows[w] EXCEPT !.forecast = None]]]
      /\ tx' = None /\ samples' = samples /\ now' = now /\ observed' = observed
  BY DEF MarkStale
<1>3. \A w \in Window : /\ [snapshot.windows[w] EXCEPT !.forecast = None] \in Shown
                        /\ [snapshot.windows[w] EXCEPT !.forecast = None].forecast = None
  BY <1>1 DEF Shown
<1>4. /\ snapshot' \in [at : 0..now, stale : BOOLEAN, windows : [Window -> Shown]]
      /\ snapshot'.stale = TRUE /\ snapshot'.at = snapshot.at
      /\ \A w \in Window : snapshot'.windows[w].forecast = None
  BY <1>1, <1>2, <1>3
<1>5. snapshot' # None
  <2>1. snapshot' \in [at : Nat, stale : BOOLEAN, windows : [Window -> Shown]]
    BY <1>4
  <2> QED
    BY <2>1, ForecastAssumption
<1>6. LastCommit' = LastCommit
  BY <1>1, <1>4, <1>5 DEF LastCommit
<1>7. TypeOK'
  BY <1>1, <1>2, <1>4 DEF TypeOK
<1>8. SamplesKept'
  BY <1>1, <1>2, <1>6 DEF SamplesKept, Retained
<1>9. InTransaction' /\ HistoryIsThisCycle' /\ ForecastsAgree'
  BY <1>2, <1>4 DEF InTransaction, HistoryIsThisCycle, ForecastsAgree, Consistent
<1> QED
  BY <1>7, <1>8, <1>9 DEF ForecastInv

\* With the new row, what the forecast of a window looks at is the cycle as all that
\* was ever observed shows it, and what is kept is again the latest of all.
LEMMA RowsSaved ==
    ASSUME ForecastInv, tx # None, NEW w \in tx.left, tx.windows[w].clock # None
    PROVE  LET r    == tx.windows[w]
               new  == Sample(w, r, now)
               rows == tx.rows \cup {new}
               C    == Recent(rows, w, r, now)
           IN  /\ new \in Row
               /\ C = InCycle(Of(w, observed) \cup {new})
               /\ Timed(C, now) /\ new \in C /\ \A d \in C : d.at <= new.at
               /\ Of(w, Capped(rows, w)) = Retained(Of(w, observed) \cup {new})
               /\ \A v \in Window \ {w} : Of(v, Capped(rows, w)) = Of(v, tx.rows)
<1> DEFINE r == tx.windows[w]
           new == Sample(w, r, now)
           rows == tx.rows \cup {new}
           O == Of(w, observed)
           since == LastCommit - Retention
           C == Recent(rows, w, r, now)
<1>1. TypeOK /\ SamplesKept /\ InTransaction
  BY DEF ForecastInv
<1>2. tx \in [rows : SUBSET Row, left : SUBSET Window, windows : [Window -> Shown]]
  BY <1>1 DEF TypeOK
<1>3. w \in Window /\ r \in Shown /\ r.clock # None
  BY <1>2
<1>4. now \in Nat /\ LastCommit \in Nat /\ LastCommit < now
  BY <1>1, Times DEF InTransaction
<1> HIDE DEF r
<1>5. new \in Row /\ new.window = w /\ new.at = now /\ new.epoch = r.clock /\ new.used = r.used
  BY <1>3, <1>4 DEF Sample, Row, Shown
<1>6. Timed(O, LastCommit)
  BY <1>1, <1>3, ObservedTimed
<1>7. since \in Int /\ since <= now - Horizon /\ since <= now
  BY <1>4, ForecastAssumption
<1>8. Of(w, tx.rows) = KeptFrom(O, since)
  <2>1. Of(w, tx.rows) = Of(w, samples)
    BY <1>1, <1>3 DEF InTransaction
  <2>2. Of(w, samples) = Retained(O)
    BY <1>1, <1>3 DEF SamplesKept
  <2> QED
    BY <2>1, <2>2 DEF Retained, KeptFrom
<1>9. Of(w, rows) = KeptFrom(O, since) \cup {new}
  BY <1>5, <1>8 DEF Of
<1> HIDE DEF since, O, new, rows
<1>10. C = InCycle(O \cup {new})
  <2>1. InCycle(O \cup {new})
            = {e \in KeptFrom(O, since) \cup {new} : e.epoch = new.epoch /\ e.at >= new.at - Horizon}
    <3>1. LastCommit < new.at /\ since <= new.at - Horizon
      BY <1>4, <1>5, <1>7
    <3> QED
      BY <1>5, <1>6, <1>7, <3>1, CycleOK
  <2> QED
    BY <1>5, <1>9, <2>1 DEF Recent
<1>11. Timed(C, now) /\ \A d \in C : d.at <= new.at
  <2>1. Timed(O \cup {new}, now)
    BY <1>4, <1>5, <1>6, TimedAdd
  <2>2. C \in SUBSET (O \cup {new})
    BY <1>9 DEF KeptFrom, Latest, Recent
  <2> HIDE DEF C
  <2>3. Timed(C, now)
    BY <2>1, <2>2, TimedSubset
  <2> QED
    BY <1>5, <2>3 DEF Timed
<1>12. new \in C
  <2>1. now >= now - Horizon
    BY <1>4, ForecastAssumption
  <2>2. new \in Of(w, rows)
    BY <1>9
  <2> QED
    BY <1>5, <2>1, <2>2 DEF Recent
<1>13. Of(w, Capped(rows, w)) = Retained(O \cup {new})
  <2>1. Of(w, Capped(rows, w)) = Latest(Of(w, rows), Cap)
    BY DEF Of, Capped, Latest
  <2>2. Latest(Of(w, rows), Cap) = KeptFrom(O \cup {new}, since)
    <3>1. LastCommit < new.at /\ since <= new.at
      BY <1>4, <1>5, <1>7
    <3> QED
      BY <1>5, <1>6, <1>7, <1>9, <3>1, CapOK
  <2> QED
    BY <2>1, <2>2 DEF Retained, KeptFrom, since
<1>14. \A v \in Window \ {w} : Of(v, Capped(rows, w)) = Of(v, tx.rows)
  BY <1>5 DEF Of, Capped, rows
<1> QED
  BY <1>5, <1>10, <1>11, <1>12, <1>13, <1>14 DEF O, r, new, rows

LEMMA SaveWindowStep ==
    ASSUME ForecastInv, SaveWindow
    PROVE  ForecastInv'
<1>1. TypeOK /\ SamplesKept /\ InTransaction /\ HistoryIsThisCycle /\ ForecastsAgree
  BY DEF ForecastInv
<1>2. /\ tx # None /\ samples' = samples /\ snapshot' = snapshot /\ now' = now /\ observed' = observed
      /\ LastCommit' = LastCommit
  BY DEF SaveWindow, LastCommit
<1> DEFINE r(w)    == tx.windows[w]
           pace(w) == PaceProjection(r(w), now)
           rows(w) == tx.rows \cup {Sample(w, r(w), now)}
           history(w) == ForecastWindow(rows(w), w, r(w), now)
           With(w, f) == [tx.windows EXCEPT ![w].forecast = f]
<1>3. PICK w \in tx.left :
          \/ /\ r(w).stale
             /\ tx' = [tx EXCEPT !.left = @ \ {w}, !.windows = With(w, None)]
          \/ /\ ~r(w).stale /\ r(w).clock = None
             /\ tx' = [tx EXCEPT !.left = @ \ {w}, !.windows = With(w, pace(w))]
          \/ /\ ~r(w).stale /\ r(w).clock # None
             /\ tx' = [rows |-> Capped(rows(w), w), left |-> tx.left \ {w},
                       windows |-> With(w, PreferForecast(pace(w), history(w)))]
  BY Zenon DEF SaveWindow
<1>4. tx \in [rows : SUBSET Row, left : SUBSET Window, windows : [Window -> Shown]]
  BY <1>1, <1>2 DEF TypeOK
<1>5. w \in Window /\ r(w) \in Shown /\ now \in Nat
  BY <1>1, <1>4, Times
<1>6. IsForecast(pace(w), "pace")
  BY <1>5, PaceOK
<1> HIDE DEF pace, history
\* What each of the three ways makes of the window.
<1> DEFINE Done(f, rest) ==
              /\ f \in Forecast \cup {None}
              /\ tx' = [rows |-> rest, left |-> tx.left \ {w}, windows |-> With(w, f)]
              /\ rest \subseteq Row /\ \A v \in Window \ {w} : Of(v, rest) = Of(v, tx.rows)
           new == Sample(w, r(w), now)
           after(f) == [r(w) EXCEPT !.forecast = f]
           all == Of(w, observed) \cup {new}
<1>7. \E f, rest : /\ Done(f, rest)
                   /\ Of(w, rest) = IF ~r(w).stale /\ r(w).clock # None THEN Retained(all) ELSE Of(w, samples)
                   /\ Founded(after(f), all) /\ Consistent(after(f), now)
  <2>1. Of(w, tx.rows) = Of(w, samples)
    BY <1>1, <1>2, <1>5 DEF InTransaction
  <2>2. \A f : /\ after(f).forecast = f /\ after(f).stale = r(w).stale /\ after(f).clock = r(w).clock
               /\ after(f).used = r(w).used
    BY <1>5 DEF Shown
  <2> HIDE DEF r, after, With
  <2>3. CASE r(w).stale /\ tx' = [tx EXCEPT !.left = @ \ {w}, !.windows = With(w, None)]
    <3>1. tx' = [rows |-> tx.rows, left |-> tx.left \ {w}, windows |-> With(w, None)]
      BY <1>4, <2>3
    <3>2. Done(None, tx.rows)
      BY <1>4, <3>1
    <3>3. Founded(after(None), all) /\ Consistent(after(None), now)
      BY <2>2, <2>3 DEF Founded, Consistent
    <3> QED
      BY <2>1, <2>3, <3>2, <3>3
  <2>4. CASE ~r(w).stale /\ r(w).clock = None /\ tx' = [tx EXCEPT !.left = @ \ {w}, !.windows = With(w, pace(w))]
    <3>1. pace(w) = None
      BY <2>4 DEF pace, PaceProjection
    <3>2. tx' = [rows |-> tx.rows, left |-> tx.left \ {w}, windows |-> With(w, pace(w))]
      BY <1>4, <2>4
    <3>3. Done(pace(w), tx.rows)
      BY <1>4, <3>1, <3>2
    <3>4. Founded(after(pace(w)), all) /\ Consistent(after(pace(w)), now)
      BY <2>2, <2>4, <3>1 DEF Founded, Consistent
    <3> QED
      BY <2>1, <2>4, <3>3, <3>4
  <2>5. CASE /\ ~r(w).stale /\ r(w).clock # None
             /\ tx' = [rows |-> Capped(rows(w), w), left |-> tx.left \ {w},
                       windows |-> With(w, PreferForecast(pace(w), history(w)))]
    <3> DEFINE C == Recent(rows(w), w, r(w), now)
               f == PreferForecast(pace(w), history(w))
               rest == Capped(rows(w), w)
    <3>1. /\ new \in Row
          /\ C = InCycle(all) /\ Timed(C, now) /\ new \in C /\ \A d \in C : d.at <= new.at
          /\ Of(w, rest) = Retained(all)
          /\ \A v \in Window \ {w} : Of(v, rest) = Of(v, tx.rows)
      <4>1. tx.windows[w].clock # None
        BY <2>5 DEF r
      <4> QED
        BY <1>2, <4>1, RowsSaved, Zenon DEF r
    <3>2. new.used = r(w).used
      BY DEF Sample
    <3> HIDE DEF C, rest
    <3>3. /\ IsForecast(history(w), "history")
          /\ history(w) # None => history(w).says = "nothing" /\ history(w).projected = None
      BY <3>1, HistoryOK DEF history, C
    <3>4. f \in Forecast \cup {None}
      BY <1>6, <3>3, PreferOK
    <3>5. rest \subseteq Row
      BY <1>4, <3>1 DEF rest, Capped
    <3>6. Done(f, rest)
      BY <2>5, <3>1, <3>4, <3>5 DEF rest
    <3>7. RestsOnCycle(after(f), InCycle(all))
      <4>1. after(f).forecast = PreferForecast(pace(w), ForecastWindow(rows(w), w, r(w), now))
        BY <2>2 DEF history
      <4>2. RestsOnCycle(after(f), C)
        <5> HIDE DEF new, rows
        <5> QED
          BY <1>6, <3>1, <3>2, <4>1, RestsOK DEF C
      <4> QED
        BY <3>1, <4>2
    <3>8. Founded(after(f), all)
      BY <2>2, <2>5, <3>7 DEF Founded
    <3>9. Consistent(after(f), now)
      <4>1. after(f).forecast = PreferForecast(PaceProjection(r(w), now), history(w)) /\ after(f).clock = r(w).clock
        BY <2>2 DEF pace
      <4> QED
        BY <1>5, <3>3, <4>1, PreferConsistent
    <3> QED
      BY <2>5, <3>1, <3>6, <3>8, <3>9
  <2> QED
    BY <1>3, <2>3, <2>4, <2>5
<1>8. PICK f, rest : /\ Done(f, rest)
                     /\ Of(w, rest) = IF ~r(w).stale /\ r(w).clock # None THEN Retained(all) ELSE Of(w, samples)
                     /\ Founded(after(f), all) /\ Consistent(after(f), now)
  BY <1>7
<1>9. /\ tx'.rows = rest /\ tx'.left = tx.left \ {w} /\ tx'.windows \in [Window -> Shown]
      /\ tx'.windows[w] = after(f) /\ \A v \in Window \ {w} : tx'.windows[v] = tx.windows[v]
  <2>1. after(f) \in Shown
    BY <1>5, <1>8 DEF Shown
  <2> QED
    BY <1>4, <1>5, <1>8, <2>1
<1>10. tx' \in [rows : SUBSET Row, left : SUBSET Window, windows : [Window -> Shown]]
  BY <1>4, <1>8, <1>9
<1>11. TypeOK'
  BY <1>1, <1>2, <1>10 DEF TypeOK
<1>12. SamplesKept'
  BY <1>1, <1>2 DEF SamplesKept, Retained
<1>13. ASSUME NEW v \in Window
       PROVE  LET q   == tx'.windows[v]
                  seen == Of(v, observed) \cup {Sample(v, q, now)}
              IN  /\ Of(v, tx'.rows) = IF v \notin tx'.left /\ ~q.stale /\ q.clock # None
                                       THEN Retained(seen) ELSE Of(v, samples)
                  /\ v \notin tx'.left => Founded(q, seen) /\ Consistent(q, now)
  <2>1. CASE v = w
    <3>1. after(f).stale = r(w).stale /\ after(f).clock = r(w).clock /\ after(f).used = r(w).used
      BY <1>5 DEF Shown
    <3>2. Sample(w, after(f), now) = new
      BY <3>1 DEF Sample
    <3> HIDE DEF after, r, new
    <3> QED
      BY <1>8, <1>9, <2>1, <3>1, <3>2
  <2>2. CASE v # w
    <3>1. /\ Of(v, tx'.rows) = Of(v, tx.rows) /\ tx'.windows[v] = tx.windows[v]
          /\ v \in tx'.left <=> v \in tx.left
      BY <1>8, <1>9, <2>2
    <3> QED
      BY <1>1, <1>2, <3>1 DEF InTransaction
  <2> QED
    BY <2>1, <2>2
<1>14. InTransaction'
  <2>1. LastCommit < now
    BY <1>1, <1>2 DEF InTransaction
  <2> QED
    BY <1>2, <1>13, <2>1 DEF InTransaction, Retained
<1>15. HistoryIsThisCycle' /\ ForecastsAgree'
  BY <1>1, <1>2 DEF HistoryIsThisCycle, ForecastsAgree
<1> QED
  BY <1>11, <1>12, <1>14, <1>15 DEF ForecastInv

LEMMA CommitStep ==
    ASSUME ForecastInv, Commit
    PROVE  ForecastInv'
<1>1. TypeOK /\ SamplesKept /\ InTransaction
  BY DEF ForecastInv
<1>2. /\ tx # None /\ tx.left = {} /\ tx' = None /\ now' = now
      /\ samples' = {e \in tx.rows : e.at >= now - Retention}
      /\ snapshot' = [at |-> now, stale |-> FALSE, windows |-> tx.windows]
  BY DEF Commit
<1> DEFINE fresh(w) == ~tx.windows[w].stale /\ tx.windows[w].clock # None
           new(w) == Sample(w, tx.windows[w], now)
<1>3. observed' = observed \cup {new(w) : w \in {w \in Window : fresh(w)}}
  BY DEF Commit
<1>4. tx \in [rows : SUBSET Row, left : SUBSET Window, windows : [Window -> Shown]]
  BY <1>1, <1>2 DEF TypeOK
<1>5. now \in 0..MaxTime /\ now \in Nat /\ LastCommit \in Nat /\ LastCommit < now
  BY <1>1, <1>2, Times DEF InTransaction, TypeOK
<1>6. /\ snapshot' # None /\ snapshot'.at = now /\ snapshot'.stale = FALSE /\ snapshot'.windows = tx.windows
      /\ snapshot' \in [at : 0..now, stale : BOOLEAN, windows : [Window -> Shown]]
  <2>1. snapshot' \in [at : Nat, stale : BOOLEAN, windows : [Window -> Shown]]
    BY <1>2, <1>4, <1>5
  <2>2. now \in 0..now
    BY <1>5
  <2> QED
    BY <1>2, <1>4, <2>1, <2>2, ForecastAssumption
<1>7. LastCommit' = now
  BY <1>6 DEF LastCommit
<1>8. ASSUME NEW w \in Window
      PROVE  /\ new(w).window = w /\ new(w).at = now
             /\ fresh(w) => new(w) \in Row
  <2>1. tx.windows[w] \in Shown
    BY <1>4
  <2> QED
    BY <1>5, <2>1 DEF Sample, Row, Shown
<1> HIDE DEF new, fresh
<1>9. ASSUME NEW w \in Window
      PROVE  Of(w, observed') = IF fresh(w) THEN Of(w, observed) \cup {new(w)} ELSE Of(w, observed)
  BY <1>3, <1>8 DEF Of
<1>10. ASSUME NEW w \in Window
       PROVE  /\ Of(w, tx.rows) = IF fresh(w) THEN Retained(Of(w, observed')) ELSE Of(w, samples)
              /\ IF fresh(w) THEN Founded(tx.windows[w], Of(w, observed'))
                 ELSE Founded(tx.windows[w], Of(w, observed) \cup {new(w)})
              /\ Consistent(tx.windows[w], now)
  <2>1. w \notin tx.left
    BY <1>2
  <2> QED
    BY <1>1, <1>2, <1>9, <2>1 DEF InTransaction, new, fresh
<1>11. ASSUME NEW w \in Window
       PROVE  Timed(Of(w, observed'), now)
  <2>1. Timed(Of(w, observed), LastCommit)
    BY <1>1, ObservedTimed
  <2>2. CASE fresh(w)
    BY <1>5, <1>8, <1>9, <2>1, <2>2, TimedAdd
  <2>3. CASE ~fresh(w)
    <3>1. \A e \in Of(w, observed) : e.at <= now
      BY <1>5, <2>1, RowFields DEF Timed
    <3> QED
      BY <1>5, <1>9, <2>1, <2>3, <3>1 DEF Timed
  <2> QED
    BY <2>2, <2>3
<1>12. \A w \in Window : Of(w, samples') = {e \in Latest(Of(w, observed'), Cap) : e.at >= now - Retention}
  <2> TAKE w \in Window
  <2>1. Of(w, samples') = {e \in Of(w, tx.rows) : e.at >= now - Retention}
    BY <1>2 DEF Of
  <2>2. \A e \in Of(w, observed') : e.at >= now - Retention => e.at >= LastCommit - Retention
    BY <1>5, <1>11, RowFields, ForecastAssumption DEF Timed
  <2>3. Of(w, tx.rows) = Retained(Of(w, observed'))
    <3>1. CASE fresh(w)
      BY <1>10, <3>1
    <3>2. CASE ~fresh(w)
      BY <1>1, <1>9, <1>10, <3>2 DEF SamplesKept
    <3> QED
      BY <3>1, <3>2
  <2> QED
    BY <2>1, <2>2, <2>3 DEF Retained, Latest
<1>13. SamplesKept'
  <2>1. \A e \in observed' : e \in Row /\ e.window \in Window /\ e \in Of(e.window, observed')
    <3>1. observed' \subseteq Row
      BY <1>1, <1>3, <1>8 DEF TypeOK
    <3> QED
      BY <3>1, RowFields DEF Of
  <2>2. \A e \in observed' : e.at <= now
    BY <1>11, <2>1 DEF Timed
  <2>3. \A d, e \in observed' : d.window = e.window /\ d.at = e.at => d = e
    BY <1>11, <2>1 DEF Timed
  <2> QED
    BY <1>7, <1>12, <2>2, <2>3 DEF SamplesKept, Retained
<1>14. TypeOK'
  <2>1. samples' \subseteq Row /\ observed' \subseteq Row
    BY <1>1, <1>2, <1>3, <1>4, <1>8 DEF TypeOK
  <2>2. ASSUME NEW w \in Window
        PROVE  IsFiniteSet(Of(w, observed')) /\ Cardinality(Of(w, samples')) <= Cap
    <3> DEFINE L == Latest(Of(w, observed'), Cap)
    <3>1. Timed(Of(w, observed'), now) /\ Cap \in Nat
      BY <1>11, ForecastAssumption
    <3>2. Cardinality(L) <= Cap
      BY <3>1, LatestSize
    <3>3. IsFiniteSet(L) /\ Of(w, samples') \subseteq L
      BY <1>12, <3>1, FS_Subset DEF Latest, Timed
    <3> HIDE DEF L
    <3>4. /\ Cardinality(Of(w, samples')) <= Cardinality(L)
          /\ Cardinality(Of(w, samples')) \in Nat /\ Cardinality(L) \in Nat
      BY <3>3, FS_Subset, FS_CardinalityType
    <3> QED
      BY <3>1, <3>2, <3>4 DEF Timed
  <2> QED
    BY <1>2, <1>5, <1>6, <2>1, <2>2 DEF TypeOK
<1>15. HistoryIsThisCycle'
  <2> SUFFICES ASSUME NEW w \in Window
               PROVE  Founded(tx.windows[w], Of(w, observed'))
    BY <1>6 DEF HistoryIsThisCycle
  <2>1. CASE fresh(w)
    BY <1>10, <2>1
  <2>2. CASE ~fresh(w)
    BY <1>10, <2>2 DEF Founded, fresh
  <2> QED
    BY <2>1, <2>2
<1>16. ForecastsAgree'
  BY <1>6, <1>10 DEF ForecastsAgree
<1>17. InTransaction'
  BY <1>2 DEF InTransaction
<1> QED
  BY <1>13, <1>14, <1>15, <1>16, <1>17 DEF ForecastInv

-----------------------------------------------------------------------------
(* The theorems.                                                           *)

\* The inductive invariant: the samples kept are the latest of all that were observed,
\* and a transaction has done its work for the windows it is through with.
THEOREM ForecastCorrect == Spec => []ForecastInv
<1>1. Init => ForecastInv
  BY ForecastInit
<1>2. ForecastInv /\ [Next]_vars => ForecastInv'
  <2> SUFFICES ASSUME ForecastInv, [Next]_vars
               PROVE  ForecastInv'
    OBVIOUS
  <2>1. CASE Begin
    BY <2>1, BeginStep
  <2>2. CASE SaveWindow
    BY <2>2, SaveWindowStep
  <2>3. CASE Commit
    BY <2>3, CommitStep
  <2>4. CASE Rollback
    BY <2>4, RollbackStep
  <2>5. CASE MarkStale
    BY <2>5, MarkStaleStep
  <2>6. CASE UNCHANGED vars
    BY <2>6 DEF vars, ForecastInv, TypeOK, SamplesKept, Retained, LastCommit, InTransaction,
       HistoryIsThisCycle, ForecastsAgree
  <2> QED
    BY <2>1, <2>2, <2>3, <2>4, <2>5, <2>6 DEF Next
<1> QED
  BY <1>1, <1>2, PTL DEF Spec

\* Types, and never more samples of a window than the cap.
THEOREM ForecastTypeCorrect == Spec => []TypeOK
<1>1. ForecastInv => TypeOK
  BY DEF ForecastInv
<1> QED
  BY <1>1, ForecastCorrect, PTL

\* A forecast from history stands on exactly the samples of this cycle.
THEOREM HistoryCorrect == Spec => []HistoryIsThisCycle
<1>1. ForecastInv => HistoryIsThisCycle
  BY DEF ForecastInv
<1> QED
  BY <1>1, ForecastCorrect, PTL

\* A stored forecast does not contradict itself.
THEOREM AgreeCorrect == Spec => []ForecastsAgree
<1>1. ForecastInv => ForecastsAgree
  BY DEF ForecastInv
<1> QED
  BY <1>1, ForecastCorrect, PTL

\* Every sample is one of a snapshot that was stored.
THEOREM SamplesCorrect == Spec => []SamplesFromSnapshots
<1>1. ForecastInv => SamplesFromSnapshots
  <2> SUFFICES ASSUME ForecastInv, NEW e \in samples
               PROVE  e \in observed
    BY DEF SamplesFromSnapshots
  <2>1. e.window \in Window /\ e \in Of(e.window, samples)
    BY RowFields DEF ForecastInv, TypeOK, Of
  <2>2. e \in Retained(Of(e.window, observed))
    BY <2>1 DEF ForecastInv, SamplesKept
  <2> QED
    BY <2>2 DEF Retained, Latest, Of
<1> QED
  BY <1>1, ForecastCorrect, PTL
=============================================================================
