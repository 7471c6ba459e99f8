---------------------------- MODULE PortfolioProofs ----------------------------
(***************************************************************************)
(* Theorems about Portfolio, for all brokers, symbols and histories, of    *)
(* any length, under the one assumption of Ledger's integers: what a split *)
(* divides, it divides exactly.                                            *)
(***************************************************************************)
EXTENDS Portfolio, FiniteSetTheorems, TLAPS

-----------------------------------------------------------------------------
(* Induction over the numbers, from the well-foundedness of strict          *)
(* inclusion: the library's theorems with a predicate as a parameter cannot *)
(* be used here.                                                            *)

LEMMA LeastNat ==
  ASSUME NEW T \in SUBSET Nat, T # {}
  PROVE  \E n \in T : \A m \in T : n <= m
<1> DEFINE Below == {0..(n - 1) : n \in T}
           R == StrictSubsetOrdering(Nat)
<1>1. Below \subseteq FiniteSubsetsOf(Nat) /\ Below # {}
  <2>1. \A n \in T : IsFiniteSet(0..(n - 1)) /\ 0..(n - 1) \subseteq Nat
    BY FS_Interval
  <2> QED BY <2>1 DEF FiniteSubsetsOf
<1>2. \E c \in Below : \A d \in Below : ~(<<d, c>> \in R)
  <2> HIDE DEF Below, R
  <2>1. IsWellFoundedOn(R, FiniteSubsetsOf(Nat))
    BY FS_StrictSubsetOrderingWellFounded DEF R
  <2> QED BY <1>1, <2>1, WFMin
<1>3. PICK n \in T : \A m \in T : ~(<<0..(m - 1), 0..(n - 1)>> \in R)
  BY <1>2
<1>4. ASSUME NEW m \in T, m < n PROVE FALSE
  <2>1. 0..(m - 1) \subseteq 0..(n - 1)
    BY <1>4
  <2>2. m \in 0..(n - 1) /\ m \notin 0..(m - 1)
    BY <1>4
  <2>3. <<0..(m - 1), 0..(n - 1)>> \in R
    BY <2>1, <2>2 DEF StrictSubsetOrdering
  <2> QED BY <2>3, <1>3
<1> QED BY <1>4

LEMMA UpTo ==
  ASSUME NEW n \in Nat, NEW T, 0 \in T, \A k \in 1..n : k - 1 \in T => k \in T
  PROVE  \A k \in 0..n : k \in T
<1> SUFFICES ASSUME NEW k \in 0..n, k \notin T PROVE FALSE
  OBVIOUS
<1> DEFINE Missing == {j \in 0..n : j \notin T}
<1>1. PICK j \in Missing : \A i \in Missing : j <= i
  <2>1. Missing \in SUBSET Nat /\ Missing # {}
    OBVIOUS
  <2> HIDE DEF Missing
  <2> QED BY <2>1, LeastNat
<1>2. j \in 1..n /\ j - 1 \in 0..n /\ j - 1 < j
  BY <1>1
<1>3. j - 1 \in T
  BY <1>1, <1>2
<1> QED BY <1>1, <1>2, <1>3

-----------------------------------------------------------------------------
(* Sums.                                                                    *)

\* total is the running total of f.
Sums(total, f, n) ==
  /\ total \in [0..n -> Int]
  /\ total[0] = 0
  /\ \A k \in 1..n : total[k] = total[k - 1] + f[k]

LEMMA SumsOnce ==
  ASSUME NEW n \in Nat, NEW f, NEW g, NEW h, Sums(g, f, n), Sums(h, f, n)
  PROVE  g = h
<1> DEFINE T == {k \in 0..n : g[k] = h[k]}
<1>1. \A k \in 0..n : k \in T
  <2>1. 0 \in T
    BY DEF Sums
  <2>2. \A k \in 1..n : k - 1 \in T => k \in T
    BY DEF Sums
  <2> HIDE DEF T
  <2> QED BY <2>1, <2>2, UpTo
<1> QED BY <1>1 DEF Sums

LEMMA SumsExist ==
  ASSUME NEW n \in Nat, NEW f \in [1..n -> Int]
  PROVE  \E g : Sums(g, f, n)
<1> DEFINE T == {m \in 0..n : \E g : Sums(g, f, m)}
<1>1. 0 \in T
  <2>1. Sums([k \in 0..0 |-> 0], f, 0)
    BY DEF Sums
  <2> QED BY <2>1
<1>2. ASSUME NEW m \in 1..n, m - 1 \in T PROVE m \in T
  <2>1. PICK g : Sums(g, f, m - 1)
    BY <1>2
  <2> /\ m \in Nat /\ m - 1 \in 0..n /\ f[m] \in Int
    OBVIOUS
  <2> DEFINE h == [k \in 0..m |-> IF k = m THEN g[m - 1] + f[m] ELSE g[k]]
  <2>2. Sums(h, f, m)
    <3>1. h \in [0..m -> Int] /\ h[0] = 0
      BY <2>1 DEF Sums
    <3>2. ASSUME NEW k \in 1..m PROVE h[k] = h[k - 1] + f[k]
      <4>1. CASE k = m
        BY <4>1
      <4>2. CASE k # m
        BY <2>1, <4>2 DEF Sums
      <4> QED BY <4>1, <4>2
    <3> QED BY <3>1, <3>2 DEF Sums
  <2> QED BY <2>2
<1>3. n \in T
  <2> HIDE DEF T
  <2>1. \A k \in 1..n : k - 1 \in T => k \in T
    BY <1>2
  <2>2. n \in 0..n
    OBVIOUS
  <2> QED BY <1>1, <2>1, <2>2, UpTo
<1> QED BY <1>3

LEMMA RunningSums ==
  ASSUME NEW n \in Nat, NEW f \in [1..n -> Int]
  PROVE  Sums(Running(f), f, n) /\ Total(f) = Running(f)[n]
<1>1. Len(f) = n
  OBVIOUS
<1> DEFINE Step(total) == [k \in 0..Len(f) |-> IF k = 0 THEN 0 ELSE total[k - 1] + f[k]]
<1>2. PICK g : Sums(g, f, n)
  BY SumsExist
<1>3. g = Step(g)
  BY <1>1, <1>2 DEF Sums
<1>4. Running(f) = CHOOSE total : total = Step(total)
  BY DEF Running
<1>5. Running(f) = Step(Running(f))
  BY <1>3, <1>4
<1>6. Running(f)[0] = 0 /\ \A k \in 1..n : Running(f)[k] = Running(f)[k - 1] + f[k]
  BY <1>1, <1>5
<1> DEFINE T == {k \in 0..n : Running(f)[k] \in Int}
<1>7. \A k \in 0..n : k \in T
  <2>1. 0 \in T /\ \A k \in 1..n : k - 1 \in T => k \in T
    BY <1>6
  <2> HIDE DEF T
  <2> QED BY <2>1, UpTo
<1>8. Running(f) \in [0..n -> Int]
  BY <1>1, <1>5, <1>7
<1> QED BY <1>1, <1>6, <1>8 DEF Sums, Total

\* h is the sum of f and g, number by number.
Adds(h, f, g, n) ==
  /\ n \in Nat /\ f \in [1..n -> Int] /\ g \in [1..n -> Int] /\ h \in [1..n -> Int]
  /\ \A i \in 1..n : h[i] = f[i] + g[i]

LEMMA SumPlus ==
  ASSUME NEW n, NEW f, NEW g, NEW h, Adds(h, f, g, n)
  PROVE  Running(h)[n] = Running(f)[n] + Running(g)[n]
<1> DEFINE both == [k \in 0..n |-> Running(f)[k] + Running(g)[k]]
<1>1. n \in Nat /\ f \in [1..n -> Int] /\ g \in [1..n -> Int] /\ h \in [1..n -> Int]
  BY DEF Adds
<1>2. Sums(Running(f), f, n) /\ Sums(Running(g), g, n) /\ Sums(Running(h), h, n)
  BY <1>1, RunningSums
<1>3. Sums(both, h, n)
  BY <1>1, <1>2 DEF Sums, Adds
<1>4. Running(h) = both
  BY <1>1, <1>2, <1>3, SumsOnce
<1>5. n \in 0..n
  BY <1>1
<1> QED BY <1>4, <1>5

LEMMA Distributes ==
  ASSUME NEW a \in Int, NEW b \in Int, NEW c \in Int
  PROVE  (a + b) * c = a * c + b * c
OBVIOUS

\* b times g is a times f.
Scaled(g, f, n, a, b) ==
  /\ n \in Nat /\ a \in Int /\ b \in Int
  /\ f \in [1..n -> Int] /\ g \in [1..n -> Int]
  /\ \A i \in 1..n : g[i] * b = f[i] * a

LEMMA SumScaled ==
  ASSUME NEW n, NEW f, NEW g, NEW a, NEW b, Scaled(g, f, n, a, b)
  PROVE  Running(g)[n] * b = Running(f)[n] * a
<1> DEFINE T == {k \in 0..n : Running(g)[k] * b = Running(f)[k] * a}
<1>1. /\ n \in Nat /\ a \in Int /\ b \in Int
      /\ f \in [1..n -> Int] /\ g \in [1..n -> Int]
  BY DEF Scaled
<1>2. Sums(Running(f), f, n) /\ Sums(Running(g), g, n)
  BY <1>1, RunningSums
<1>3. 0 \in T
  BY <1>1, <1>2 DEF Sums
<1>4. ASSUME NEW k \in 1..n, k - 1 \in T PROVE k \in T
  <2> DEFINE F == Running(f)[k - 1]
             G == Running(g)[k - 1]
  <2>1. /\ F \in Int /\ G \in Int /\ f[k] \in Int /\ g[k] \in Int
        /\ Running(f)[k] = F + f[k] /\ Running(g)[k] = G + g[k]
    BY <1>1, <1>2 DEF Sums
  <2>2. G * b = F * a /\ g[k] * b = f[k] * a
    BY <1>4 DEF Scaled
  <2>3. Running(g)[k] * b = Running(f)[k] * a
    <3> HIDE DEF F, G
    <3>1. (G + g[k]) * b = G * b + g[k] * b /\ (F + f[k]) * a = F * a + f[k] * a
      BY <1>1, <2>1, Distributes
    <3> QED BY <2>1, <2>2, <3>1
  <2> QED BY <2>3
<1>5. \A k \in 1..n : k - 1 \in T => k \in T
  BY <1>4
<1>6. \A k \in 0..n : k \in T
  <2> HIDE DEF T
  <2> QED BY <1>1, <1>3, <1>5, UpTo
<1> QED BY <1>1, <1>6

LEMMA SumShift ==
  ASSUME NEW n \in Nat, NEW m \in Nat, NEW d \in 0..n, m + d <= n,
         NEW f \in [1..n -> Int], NEW g \in [1..m -> Int], \A i \in 1..m : g[i] = f[i + d]
  PROVE  \A k \in 0..m : Running(g)[k] = Running(f)[k + d] - Running(f)[d]
<1> DEFINE rest == [k \in 0..m |-> Running(f)[k + d] - Running(f)[d]]
<1>1. Sums(Running(f), f, n) /\ Sums(Running(g), g, m)
  BY RunningSums
<1>2. Sums(rest, g, m)
  <2>1. rest \in [0..m -> Int] /\ rest[0] = 0
    BY <1>1 DEF Sums
  <2>2. ASSUME NEW k \in 1..m PROVE rest[k] = rest[k - 1] + g[k]
    <3>1. /\ k + d \in 1..n /\ d \in 0..n 
          /\ (k + d) - 1 = (k - 1) + d /\ (k - 1) + d \in 0..n
          /\ k - 1 \in 0..m /\ k \in 0..m
      OBVIOUS
    <3>2. Running(f)[k + d] = Running(f)[(k - 1) + d] + g[k]
      <4>1. \A j \in 1..n : Running(f)[j] = Running(f)[j - 1] + f[j]
        BY <1>1 DEF Sums
      <4>2. Running(f)[k + d] = Running(f)[(k + d) - 1] + f[k + d]
        BY <3>1, <4>1
      <4> QED BY <3>1, <4>2
    <3>3. Running(f)[(k - 1) + d] \in Int /\ Running(f)[d] \in Int /\ g[k] \in Int
      BY <1>1, <3>1 DEF Sums
    <3> QED BY <3>1, <3>2, <3>3
  <2> QED BY <2>1, <2>2 DEF Sums
<1>3. Running(g) = rest
  BY <1>1, <1>2, SumsOnce
<1> QED BY <1>3

LEMMA SumZero ==
  ASSUME NEW n \in Nat, NEW f \in [1..n -> Int], NEW d \in 0..n, \A i \in 1..d : f[i] = 0
  PROVE  Running(f)[d] = 0
<1> DEFINE T == {k \in 0..d : Running(f)[k] = 0}
<1>1. Sums(Running(f), f, n)
  BY RunningSums
<1>2. 0 \in T /\ \A k \in 1..d : k - 1 \in T => k \in T
  BY <1>1 DEF Sums
<1>3. d \in T
  <2>1. d \in Nat /\ d \in 0..d
    OBVIOUS
  <2> HIDE DEF T
  <2> QED BY <1>2, <2>1, UpTo
<1> QED BY <1>3

LEMMA SumGrows ==
  ASSUME NEW n \in Nat, NEW f \in [1..n -> Nat]
  PROVE  /\ Running(f) \in [0..n -> Nat]
         /\ \A j, k \in 0..n : j <= k => Running(f)[j] <= Running(f)[k]
<1>1. Sums(Running(f), f, n)
  BY RunningSums
<1>2. ASSUME NEW j \in 0..n PROVE \A k \in 0..n : j <= k => Running(f)[j] <= Running(f)[k]
  <2> DEFINE T == {k \in 0..n : j <= k => Running(f)[j] <= Running(f)[k]}
  <2>1. 0 \in T
    BY <1>1 DEF Sums
  <2>2. ASSUME NEW k \in 1..n, k - 1 \in T PROVE k \in T
    <3>1. Running(f)[k] = Running(f)[k - 1] + f[k] /\ f[k] \in Nat
      BY <1>1 DEF Sums
    <3>2. Running(f)[j] \in Int /\ Running(f)[k - 1] \in Int
      BY <1>1 DEF Sums
    <3>3. CASE j = k
      BY <3>2, <3>3
    <3>4. CASE j # k
      BY <2>2, <3>1, <3>2, <3>4
    <3> QED BY <3>3, <3>4
  <2>3. \A k \in 1..n : k - 1 \in T => k \in T
    BY <2>2
  <2>4. \A k \in 0..n : k \in T
    <3> HIDE DEF T
    <3> QED BY <2>1, <2>3, UpTo
  <2> QED BY <2>4
<1>3. \A k \in 0..n : Running(f)[k] \in Nat
  <2>1. Running(f)[0] = 0 /\ \A k \in 0..n : Running(f)[k] \in Int
    BY <1>1 DEF Sums
  <2>2. \A k \in 0..n : Running(f)[0] <= Running(f)[k]
    BY <1>2
  <2> QED BY <2>1, <2>2
<1> QED BY <1>1, <1>2, <1>3 DEF Sums

\* h is what g leaves of f, of which the first d numbers are taken whole.
LeftOf(h, f, g, n, m, d) ==
  /\ n \in Nat /\ m \in Nat /\ d \in 0..n /\ m + d = n
  /\ f \in [1..n -> Nat] /\ g \in [1..n -> Nat] /\ h \in [1..m -> Int]
  /\ \A i \in 1..n : g[i] <= f[i]
  /\ \A i \in 1..d : g[i] = f[i]
  /\ \A k \in 1..m : h[k] = f[k + d] - g[k + d]

LEMMA SumLeft ==
  ASSUME NEW n, NEW m, NEW d, NEW f, NEW g, NEW h, LeftOf(h, f, g, n, m, d)
  PROVE  /\ Running(h)[m] = Running(f)[n] - Running(g)[n]
         /\ Running(g)[n] \in Nat /\ Running(g)[n] <= Running(f)[n]
<1>1. /\ n \in Nat /\ m \in Nat /\ d \in 0..n /\ m + d = n
      /\ n \in 0..n /\ m \in 0..m
  BY DEF LeftOf
<1>2. /\ f \in [1..n -> Nat] /\ g \in [1..n -> Nat]
      /\ f \in [1..n -> Int] /\ g \in [1..n -> Int] /\ h \in [1..m -> Int]
  BY DEF LeftOf
<1>3. PICK left \in [1..n -> Nat] : \A i \in 1..n : left[i] = f[i] - g[i]
  <2>1. \A i \in 1..n : f[i] - g[i] \in Nat
    BY DEF LeftOf
  <2>2. [i \in 1..n |-> f[i] - g[i]] \in [1..n -> Nat]
    BY <2>1
  <2> QED BY <2>2
<1>4. left \in [1..n -> Int]
  OBVIOUS
<1>5. Running(f)[n] = Running(left)[n] + Running(g)[n]
  <2>1. \A i \in 1..n : f[i] = left[i] + g[i]
    BY <1>2, <1>3, <1>4
  <2>2. n \in Nat
    BY <1>1
  <2>3. Adds(f, left, g, n)
    BY <1>2, <1>4, <2>1, <2>2 DEF Adds
  <2> QED BY <2>3, SumPlus
<1>6. Running(left)[d] = 0
  <2>1. \A i \in 1..d : left[i] = 0
    <3> TAKE i \in 1..d
    <3>1. i \in 1..n /\ g[i] = f[i] /\ f[i] \in Nat
      BY <1>1, <1>2 DEF LeftOf
    <3> QED BY <1>3, <3>1
  <2>2. n \in Nat /\ d \in 0..n
    BY <1>1
  <2> QED BY <1>4, <2>1, <2>2, SumZero
<1>7. Running(h)[m] = Running(left)[m + d] - Running(left)[d]
  <2>1. \A k \in 1..m : h[k] = left[k + d]
    <3> TAKE k \in 1..m
    <3>1. k + d \in 1..n /\ h[k] = f[k + d] - g[k + d]
      BY <1>1 DEF LeftOf
    <3> QED BY <1>3, <3>1
  <2>2. m + d <= n
    BY <1>1
  <2>3. \A k \in 0..m : Running(h)[k] = Running(left)[k + d] - Running(left)[d]
    <3>1. n \in Nat /\ m \in Nat /\ d \in 0..n /\ h \in [1..m -> Int]
      BY <1>2, <1>1
    <3> QED BY <1>4, <2>1, <2>2, <3>1, SumShift
  <2> QED BY <1>1, <2>3
<1>8. Running(f)[n] \in Nat /\ Running(left)[n] \in Nat /\ Running(g)[n] \in Nat
  <2>1. /\ Running(f) \in [0..n -> Nat] /\ Running(left) \in [0..n -> Nat]
        /\ Running(g) \in [0..n -> Nat]
    BY <1>2, <1>1, SumGrows
  <2> QED BY <1>1, <2>1
<1>9. Running(h)[m] = Running(left)[n]
  <2>1. Running(h)[m] = Running(left)[n] - Running(left)[d]
    BY <1>1, <1>7
  <2> QED BY <1>6, <1>8, <2>1
<1>10. Running(h)[m] = Running(f)[n] - Running(g)[n]
  BY <1>5, <1>8, <1>9
<1>11. Running(g)[n] <= Running(f)[n]
  BY <1>5, <1>8
<1> QED BY <1>8, <1>10, <1>11

LEMMA SumAppend ==
  ASSUME NEW n \in Nat, NEW f \in [1..n -> Int], NEW g \in [1..n + 1 -> Int],
         \A i \in 1..n : g[i] = f[i]
  PROVE  Running(g)[n + 1] = Running(f)[n] + g[n + 1]
<1>1. Sums(Running(f), f, n) /\ Sums(Running(g), g, n + 1)
  BY RunningSums
<1> DEFINE start == [k \in 0..n |-> Running(g)[k]]
<1>2. Sums(start, f, n)
  <2>1. start \in [0..n -> Int] /\ start[0] = 0
    BY <1>1 DEF Sums
  <2>2. \A k \in 1..n : start[k] = start[k - 1] + f[k]
    BY <1>1 DEF Sums
  <2> QED BY <2>1, <2>2 DEF Sums
<1>3. start = Running(f)
  BY <1>1, <1>2, SumsOnce
<1>4. Running(g)[n] = Running(f)[n]
  BY <1>3
<1>5. n + 1 \in 1..n + 1 /\ (n + 1) - 1 = n
  OBVIOUS
<1> QED BY <1>1, <1>4, <1>5 DEF Sums

-----------------------------------------------------------------------------
(* First in, first out.                                                     *)

LEMMA Prefix ==
  ASSUME NEW n \in Nat, NEW E \in SUBSET (1..n), \A i \in E : \A j \in 1..i : j \in E
  PROVE  E = 1..Cardinality(E) /\ Cardinality(E) \in 0..n
<1> DEFINE Ends == {k \in Nat : k + 1 \notin E}
<1>1. PICK d \in Ends : \A k \in Ends : d <= k
  <2>1. Ends \in SUBSET Nat /\ n \in Ends
    OBVIOUS
  <2> HIDE DEF Ends
  <2> QED BY <2>1, LeastNat
<1>2. ASSUME NEW i \in 1..d PROVE i \in E
  <2>1. i - 1 \in Nat /\ ~(d <= i - 1) /\ (i - 1) + 1 = i
    BY <1>1
  <2> QED BY <1>1, <2>1
<1>3. ASSUME NEW i \in E PROVE i \in 1..d
  <2>1. CASE i <= d
    BY <2>1
  <2>2. CASE i > d
    <3>1. d + 1 \in 1..i
      BY <1>1, <2>2
    <3> QED BY <1>1, <3>1
  <2> QED BY <1>1, <2>1, <2>2
<1>4. E = 1..d
  BY <1>2, <1>3
<1>5. d <= n
  <2>1. CASE d = 0
    BY <2>1
  <2>2. CASE d # 0
    BY <1>1, <1>4, <2>2
  <2> QED BY <2>1, <2>2
<1>6. Cardinality(E) = d
  <2>1. Cardinality(1..d) = d
    BY <1>1, FS_Interval
  <2> QED BY <1>4, <2>1
<1> QED BY <1>1, <1>4, <1>5, <1>6

LEMMA LeastStep ==
  ASSUME NEW n \in Nat, NEW a \in Nat, NEW b \in Nat
  PROVE  Least(n, a + b) = Least(n, a) + Least(b, Most(0, n - a))
BY DEF Least, Most

LEMMA LeastLeft ==
  ASSUME NEW n \in Nat, NEW a \in Nat, NEW b \in Nat \ {0}
  PROVE  /\ Least(b, Most(0, n - a)) \in Nat /\ Least(b, Most(0, n - a)) <= b
         /\ b - Least(b, Most(0, n - a)) = 0 <=> a + b <= n
         /\ n < a => Least(b, Most(0, n - a)) = 0
BY DEF Least, Most

\* What is taken of quantities q, oldest first, to make n.
Fifo(took, q, n, len) ==
  /\ took \in [1..len -> Int]
  /\ \A i \in 1..len : took[i] = Least(q[i], Most(0, n - Running(q)[i - 1]))

\* The first d are taken whole, of those after the next one nothing.
Whole(took, q, d, len) ==
  /\ {i \in 1..len : q[i] - took[i] = 0} = 1..d
  /\ Cardinality({i \in 1..len : q[i] - took[i] = 0}) = d
  /\ \A i \in 1..len : i > d + 1 => took[i] = 0

LEMMA OldestFirst ==
  ASSUME NEW len \in Nat, NEW q \in [1..len -> Nat \ {0}], NEW n \in Nat,
         NEW took, Fifo(took, q, n, len)
  PROVE  /\ took \in [1..len -> Nat]
         /\ \A i \in 1..len : took[i] <= q[i]
         /\ Total(took) = Least(n, Total(q))
         /\ \E d \in 0..len : Whole(took, q, d, len)
<1>1. /\ Sums(Running(q), q, len)
      /\ Total(q) = Running(q)[len]
      /\ Running(q) \in [0..len -> Nat]
      /\ \A j, k \in 0..len : j <= k => Running(q)[j] <= Running(q)[k]
  <2>1. q \in [1..len -> Nat] /\ q \in [1..len -> Int]
    OBVIOUS
  <2> QED BY <2>1, RunningSums, SumGrows
<1>2. \A i \in 1..len :
        /\ q[i] \in Nat /\ q[i] > 0
        /\ i - 1 \in 0..len /\ Running(q)[i - 1] \in Nat
        /\ Running(q)[i] = Running(q)[i - 1] + q[i]
  BY <1>1 DEF Sums
<1>3. \A i \in 1..len :
        /\ took[i] \in Nat /\ took[i] <= q[i]
        /\ q[i] - took[i] = 0 <=> Running(q)[i] <= n
        /\ n < Running(q)[i - 1] => took[i] = 0
  <2> TAKE i \in 1..len
  <2> PICK a \in Nat : a = Running(q)[i - 1]
    BY <1>2
  <2> PICK b \in Nat \ {0} : b = q[i]
    BY <1>2
  <2>1. Running(q)[i] = a + b /\ took[i] = Least(b, Most(0, n - a))
    BY <1>2 DEF Fifo
  <2>2. /\ Least(b, Most(0, n - a)) \in Nat /\ Least(b, Most(0, n - a)) <= b
        /\ b - Least(b, Most(0, n - a)) = 0 <=> a + b <= n
        /\ n < a => Least(b, Most(0, n - a)) = 0
    BY LeastLeft
  <2> QED BY <2>1, <2>2
<1>4. took \in [1..len -> Nat]
  BY <1>3 DEF Fifo
<1>5. Total(took) = Least(n, Total(q))
  <2> DEFINE part == [k \in 0..len |-> Least(n, Running(q)[k])]
  <2>1. Sums(part, took, len)
    <3>1. part \in [0..len -> Int] /\ part[0] = 0
      BY <1>1 DEF Sums, Least
    <3>2. ASSUME NEW k \in 1..len PROVE part[k] = part[k - 1] + took[k]
      <4>1. /\ part[k] = Least(n, Running(q)[k - 1] + q[k])
            /\ part[k - 1] = Least(n, Running(q)[k - 1])
            /\ took[k] = Least(q[k], Most(0, n - Running(q)[k - 1]))
        BY <1>2 DEF Fifo
      <4>2. q[k] \in Nat /\ Running(q)[k - 1] \in Nat
        BY <1>2
      <4>3. Least(n, Running(q)[k - 1] + q[k])
              = Least(n, Running(q)[k - 1]) + Least(q[k], Most(0, n - Running(q)[k - 1]))
        BY <4>2, LeastStep
      <4> HIDE DEF part
      <4> QED BY <4>1, <4>3
    <3> QED BY <3>1, <3>2 DEF Sums
  <2>2. Sums(Running(took), took, len) /\ Total(took) = Running(took)[len]
    <3>1. took \in [1..len -> Int]
      BY <1>4
    <3> QED BY <3>1, RunningSums
  <2>3. Running(took) = part
    BY <2>1, <2>2, SumsOnce
  <2> QED BY <1>1, <2>2, <2>3
<1> DEFINE E == {i \in 1..len : q[i] - took[i] = 0}
<1>6. \A i \in 1..len : i \in E <=> Running(q)[i] <= n
  BY <1>3
<1>7. \A i \in E : \A j \in 1..i : j \in E
  <2> TAKE i \in E
  <2> TAKE j \in 1..i
  <2>1. /\ i \in 1..len /\ j \in 1..len /\ j <= i /\ Running(q)[i] <= n
        /\ i \in 0..len /\ j \in 0..len
    BY <1>6
  <2> HIDE DEF E
  <2>2. Running(q)[j] \in Nat /\ Running(q)[i] \in Nat
    BY <1>1, <2>1
  <2>3. Running(q)[j] <= Running(q)[i]
    BY <1>1, <2>1
  <2> QED BY <1>6, <2>1, <2>2, <2>3
<1> DEFINE d == Cardinality(E)
<1>8. E = 1..d /\ d \in 0..len
  <2>1. E \in SUBSET (1..len)
    OBVIOUS
  <2> HIDE DEF E
  <2> QED BY <1>7, <2>1, Prefix
<1>9. ASSUME NEW i \in 1..len, i > d + 1 PROVE took[i] = 0
  <2>1. i - 1 \in 1..len /\ i - 1 \notin E
    <3> HIDE DEF d, E
    <3> QED BY <1>8, <1>9
  <2>2. ~(Running(q)[i - 1] <= n)
    BY <1>6, <2>1
  <2> QED BY <1>2, <1>3, <2>2
<1>10. Whole(took, q, d, len)
  BY <1>8, <1>9 DEF Whole
<1> HIDE DEF d
<1> QED BY <1>3, <1>4, <1>5, <1>8, <1>10

-----------------------------------------------------------------------------
(* A position after one transaction.                                        *)

FirstIn(lots) ==
  \A i \in DOMAIN lots :
    i > 1 => lots[i].quantity = lots[i].full /\ lots[i - 1].date <= lots[i].date

PositionOK(p) ==
  /\ p \in Positions
  /\ p.quantity = QuantityOf(p.lots) /\ p.totalCost = CostOf(p.lots)
  /\ FirstIn(p.lots)

\* No lot is younger than d.
Until(lots, d) == \A i \in DOMAIN lots : lots[i].date <= d

Costs(lots) == [i \in DOMAIN lots |-> lots[i].quantity * lots[i].unit]

LEMMA LotSums ==
  ASSUME NEW lots \in Seq(Lots)
  PROVE  /\ Len(lots) \in Nat /\ DOMAIN lots = 1..Len(lots)
         /\ Quantities(lots) \in [1..Len(lots) -> Nat \ {0}]
         /\ Costs(lots) \in [1..Len(lots) -> Nat]
         /\ QuantityOf(lots) \in Nat /\ CostOf(lots) \in Nat
         /\ QuantityOf(lots) = Running(Quantities(lots))[Len(lots)]
         /\ CostOf(lots) = Running(Costs(lots))[Len(lots)]
<1>1. Len(lots) \in Nat /\ DOMAIN lots = 1..Len(lots)
  OBVIOUS
<1>2. \A i \in 1..Len(lots) : lots[i].quantity \in Nat \ {0} /\ lots[i].unit \in Nat
  <2>1. \A i \in 1..Len(lots) : lots[i] \in Lots
    BY <1>1
  <2> QED BY <2>1 DEF Lots
<1>3. /\ Quantities(lots) \in [1..Len(lots) -> Nat \ {0}]
      /\ Costs(lots) \in [1..Len(lots) -> Nat]
  BY <1>1, <1>2 DEF Quantities, Costs
<1>4. /\ Quantities(lots) \in [1..Len(lots) -> Nat] /\ Quantities(lots) \in [1..Len(lots) -> Int]
      /\ Costs(lots) \in [1..Len(lots) -> Int]
  BY <1>3
<1>5. /\ Total(Quantities(lots)) = Running(Quantities(lots))[Len(lots)]
      /\ Total(Costs(lots)) = Running(Costs(lots))[Len(lots)]
  BY <1>1, <1>4, RunningSums
<1>6. /\ Running(Quantities(lots)) \in [0..Len(lots) -> Nat]
      /\ Running(Costs(lots)) \in [0..Len(lots) -> Nat]
  BY <1>1, <1>3, <1>4, SumGrows
<1>7. QuantityOf(lots) = Total(Quantities(lots)) /\ CostOf(lots) = Total(Costs(lots))
  BY DEF QuantityOf, CostOf, Costs
<1> QED BY <1>1, <1>3, <1>5, <1>6, <1>7

LEMMA NothingHeld ==
  /\ PositionOK(NoPosition)
  /\ \A d : Until(NoPosition.lots, d)
  /\ NoPosition.quantity = 0 /\ CostOfAll(NoPosition) = 0
<1>1. NoPosition \in Positions /\ NoPosition.lots = <<>>
  BY DEF NoPosition, Positions
<1>2. <<>> \in Seq(Lots) /\ Len(<<>>) = 0
  OBVIOUS
<1>3. QuantityOf(<<>>) = Running(Quantities(<<>>))[0] /\ CostOf(<<>>) = Running(Costs(<<>>))[0]
  BY <1>2, LotSums
<1>4. Running(Quantities(<<>>))[0] = 0 /\ Running(Costs(<<>>))[0] = 0
  <2>1. Quantities(<<>>) \in [1..0 -> Int] /\ Costs(<<>>) \in [1..0 -> Int]
    BY DEF Quantities, Costs
  <2> QED BY <2>1, RunningSums DEF Sums
<1> QED BY <1>1, <1>3, <1>4 DEF PositionOK, FirstIn, Until, NoPosition, CostOfAll

LEMMA SomethingHeld ==
  ASSUME NEW p, PositionOK(p), p.quantity > 0
  PROVE  p.lots # <<>> /\ 1 \in DOMAIN p.lots /\ p.lots[1] \in Lots
<1>1. p.lots # <<>>
  <2> SUFFICES ASSUME p.lots = <<>> PROVE FALSE
    OBVIOUS
  <2>1. p.quantity = QuantityOf(<<>>)
    BY DEF PositionOK
  <2>2. NoPosition.quantity = QuantityOf(NoPosition.lots) /\ NoPosition.quantity = 0
    BY NothingHeld DEF PositionOK
  <2> QED BY <2>1, <2>2 DEF NoPosition
<1> QED BY <1>1 DEF PositionOK, Positions

LEMMA ArriveOK ==
  ASSUME NEW p, PositionOK(p), NEW tx \in Transactions, tx.quantity # 0, Until(p.lots, tx.date)
  PROVE  /\ PositionOK(Arrive(p, tx))
         /\ Until(Arrive(p, tx).lots, tx.date)
         /\ CostOfAll(Arrive(p, tx)) = CostOfAll(p) + tx.quantity * tx.unit
<1> DEFINE n == Len(p.lots)
           lot == [broker |-> tx.broker, date |-> tx.date, quantity |-> tx.quantity,
                   unit |-> tx.unit, full |-> tx.quantity]
<1>1. /\ p \in Positions /\ p.lots \in Seq(Lots) /\ n \in Nat /\ DOMAIN p.lots = 1..n
      /\ {p.quantity, p.totalCost, p.realized, p.moved} \subseteq Nat
  BY DEF PositionOK, Positions
<1>2. /\ lot \in Lots /\ lot.date = tx.date /\ lot.quantity = tx.quantity
      /\ lot.unit = tx.unit /\ lot.full = tx.quantity
      /\ tx.quantity \in Nat /\ tx.unit \in Nat /\ tx.quantity * tx.unit \in Nat
  BY DEF Transactions, Lots
<1> PICK x \in Lots : x = lot
  BY <1>2
<1> HIDE DEF lot
<1> DEFINE all == Append(p.lots, x)
<1>3. /\ all \in Seq(Lots) /\ Len(all) = n + 1 /\ all[n + 1] = x /\ DOMAIN all = 1..n + 1
      /\ \A i \in 1..n : all[i] = p.lots[i]
  BY <1>1
<1>4. Arrive(p, tx) = [p EXCEPT !.lots = all, !.quantity = p.quantity + tx.quantity,
                                !.totalCost = p.totalCost + tx.quantity * tx.unit]
  BY DEF Arrive, lot
<1> HIDE DEF all
<1>5. /\ Arrive(p, tx) \in Positions
      /\ Arrive(p, tx).lots = all
      /\ Arrive(p, tx).quantity = p.quantity + tx.quantity
      /\ Arrive(p, tx).totalCost = p.totalCost + tx.quantity * tx.unit
      /\ Arrive(p, tx).realized = p.realized /\ Arrive(p, tx).moved = p.moved
  <2>1. /\ all \in Seq(Lots) /\ p.quantity + tx.quantity \in Nat
        /\ p.totalCost + tx.quantity * tx.unit \in Nat
    <3>1. p.quantity \in Nat /\ p.totalCost \in Nat
      BY <1>1
    <3>2. tx.quantity \in Nat /\ tx.quantity * tx.unit \in Nat
      BY <1>2
    <3> QED BY <1>3, <3>1, <3>2
  <2>2. Arrive(p, tx) \in Positions
    BY <1>1, <1>4, <2>1 DEF Positions
  <2>3. /\ Arrive(p, tx).lots = all
        /\ Arrive(p, tx).quantity = p.quantity + tx.quantity
        /\ Arrive(p, tx).totalCost = p.totalCost + tx.quantity * tx.unit
        /\ Arrive(p, tx).realized = p.realized /\ Arrive(p, tx).moved = p.moved
    BY <1>1, <1>4 DEF Positions
  <2> QED BY <2>2, <2>3
<1>6. QuantityOf(all) = QuantityOf(p.lots) + tx.quantity
  <2>1. \A i \in 1..n : Quantities(all)[i] = Quantities(p.lots)[i]
    BY <1>1, <1>3 DEF Quantities
  <2>2. /\ Quantities(p.lots) \in [1..n -> Int] /\ Quantities(all) \in [1..n + 1 -> Int]
        /\ QuantityOf(all) = Running(Quantities(all))[n + 1]
        /\ QuantityOf(p.lots) = Running(Quantities(p.lots))[n]
    BY <1>1, <1>3, LotSums
  <2>3. Running(Quantities(all))[n + 1] = Running(Quantities(p.lots))[n] + Quantities(all)[n + 1]
    BY <1>1, <2>1, <2>2, SumAppend
  <2>4. Quantities(all)[n + 1] = tx.quantity
    BY <1>1, <1>2, <1>3 DEF Quantities
  <2> QED BY <2>2, <2>3, <2>4
<1>7. CostOf(all) = CostOf(p.lots) + tx.quantity * tx.unit
  <2>1. \A i \in 1..n : Costs(all)[i] = Costs(p.lots)[i]
    BY <1>1, <1>3 DEF Costs
  <2>2. /\ Costs(p.lots) \in [1..n -> Int] /\ Costs(all) \in [1..n + 1 -> Int]
        /\ CostOf(all) = Running(Costs(all))[n + 1]
        /\ CostOf(p.lots) = Running(Costs(p.lots))[n]
    BY <1>1, <1>3, LotSums
  <2>3. Running(Costs(all))[n + 1] = Running(Costs(p.lots))[n] + Costs(all)[n + 1]
    BY <1>1, <2>1, <2>2, SumAppend
  <2>4. Costs(all)[n + 1] = tx.quantity * tx.unit
    BY <1>1, <1>2, <1>3 DEF Costs
  <2> QED BY <2>2, <2>3, <2>4
<1>8. FirstIn(all)
  <2> SUFFICES ASSUME NEW i \in 1..n + 1, i > 1
               PROVE  all[i].quantity = all[i].full /\ all[i - 1].date <= all[i].date
    BY <1>3 DEF FirstIn
  <2>1. CASE i = n + 1
    <3>1. all[i] = x /\ i - 1 \in DOMAIN p.lots /\ all[i - 1] = p.lots[i - 1]
      BY <1>1, <1>3, <2>1
    <3> QED BY <1>2, <3>1 DEF Until
  <2>2. CASE i # n + 1
    <3>1. i \in DOMAIN p.lots /\ all[i] = p.lots[i] /\ all[i - 1] = p.lots[i - 1]
      BY <1>1, <1>3, <2>2
    <3> QED BY <3>1 DEF FirstIn, PositionOK
  <2> QED BY <2>1, <2>2
<1>9. Until(all, tx.date)
  <2> SUFFICES ASSUME NEW i \in 1..n + 1 PROVE all[i].date <= tx.date
    BY <1>3 DEF Until
  <2>1. CASE i = n + 1
    BY <1>2, <1>3, <2>1 DEF Transactions
  <2>2. CASE i # n + 1
    <3>1. i \in DOMAIN p.lots /\ all[i] = p.lots[i]
      BY <1>1, <1>3, <2>2
    <3> QED BY <3>1 DEF Until
  <2> QED BY <2>1, <2>2
<1>10. CostOfAll(Arrive(p, tx)) = CostOfAll(p) + tx.quantity * tx.unit
  BY <1>1, <1>2, <1>5 DEF CostOfAll
<1> QED BY <1>5, <1>6, <1>7, <1>8, <1>9, <1>10 DEF PositionOK

\* Taking b of a shares of u each.
TakenOf(b, a, u) == b * u <= a * u /\ a * u - b * u = (a - b) * u

LEMMA TakenPart ==
  ASSUME NEW a \in Nat, NEW b \in Nat, NEW u \in Nat, b <= a
  PROVE  TakenOf(b, a, u)
<1>1. PICK c \in Nat : a = b + c
  <2>1. a - b \in Nat /\ a = b + (a - b)
    OBVIOUS
  <2> QED BY <2>1
<1>2. (b + c) * u = b * u + c * u
  BY Distributes
<1>3. b * u \in Nat /\ c * u \in Nat /\ a - b = c
  BY <1>1
<1> QED BY <1>1, <1>2, <1>3 DEF TakenOf

\* The numbers from d + 1 to len, one by one.
LEMMA FromTo ==
  ASSUME NEW len \in Nat, NEW d \in 0..len, NEW m, m = len - d
  PROVE  /\ Cardinality(d + 1..len) = m
         /\ \A k \in 1..m : Nth(d + 1..len, k) = k + d
<1>1. ASSUME NEW i \in d..len PROVE Cardinality(d + 1..i) = i - d
  <2>1. d + 1 \in Int /\ i \in Int
    OBVIOUS
  <2>2. Cardinality(d + 1..i) = IF d + 1 > i THEN 0 ELSE i - (d + 1) + 1
    BY <2>1, FS_Interval
  <2> QED BY <2>2
<1>2. Cardinality(d + 1..len) = m
  <2>1. len \in d..len
    OBVIOUS
  <2> QED BY <1>1, <2>1
<1>3. ASSUME NEW i \in d + 1..len
      PROVE  Cardinality({j \in d + 1..len : j <= i}) = i - d
  <2>1. {j \in d + 1..len : j <= i} = d + 1..i /\ i \in d..len
    OBVIOUS
  <2> QED BY <1>1, <2>1
<1>4. ASSUME NEW k \in 1..m
      PROVE  Nth(d + 1..len, k) = k + d
  <2>1. ASSUME NEW i \in d + 1..len
        PROVE  Cardinality({j \in d + 1..len : j <= i}) = k <=> i = k + d
    BY <1>3
  <2>2. k + d \in d + 1..len
    OBVIOUS
  <2> QED BY <2>1, <2>2 DEF Nth
<1> QED BY <1>2, <1>4

\* What Take takes, and what it leaves: the first d lots are gone, and of the others
\* only the first has less than before.
LEMMA RemainingOK ==
  ASSUME NEW lots \in Seq(Lots), NEW n \in Nat, NEW took, took = Take(lots, n)
  PROVE  /\ Total(took) = Least(n, QuantityOf(lots))
         /\ TakenCost(lots, took) \in Nat /\ TakenCost(lots, took) <= CostOf(lots)
         /\ Remaining(lots, took) \in Seq(Lots)
         /\ QuantityOf(Remaining(lots, took)) = QuantityOf(lots) - Total(took)
         /\ CostOf(Remaining(lots, took)) = CostOf(lots) - TakenCost(lots, took)
         /\ FirstIn(lots) => FirstIn(Remaining(lots, took))
         /\ \A e : Until(lots, e) => Until(Remaining(lots, took), e)
<1> PICK len \in Nat : len = Len(lots)
  OBVIOUS
<1> PICK q \in [1..len -> Nat \ {0}] : q = Quantities(lots)
  BY LotSums
<1> DEFINE rest == [i \in DOMAIN lots |-> [lots[i] EXCEPT !.quantity = @ - took[i]]]
           left == [i \in 1..len |-> q[i] - took[i]]
<1>1. /\ DOMAIN lots = 1..len /\ q \in [1..len -> Int]
      /\ Costs(lots) \in [1..len -> Nat] /\ Costs(lots) \in [1..len -> Int]
      /\ QuantityOf(lots) \in Nat /\ CostOf(lots) \in Nat
      /\ QuantityOf(lots) = Running(q)[len] /\ CostOf(lots) = Running(Costs(lots))[len]
      /\ QuantityOf(lots) = Total(q)
  BY LotSums DEF QuantityOf
<1>2. \A i \in 1..len :
        /\ lots[i] \in Lots /\ q[i] = lots[i].quantity /\ Costs(lots)[i] = q[i] * lots[i].unit
        /\ q[i] \in Nat /\ lots[i].unit \in Nat
  <2>1. \A i \in 1..len : lots[i] \in Lots
    BY <1>1
  <2> QED BY <1>1, <2>1 DEF Lots, Quantities, Costs
<1>3. Fifo(took, q, n, len)
  <2>1. took = [i \in 1..len |-> Least(q[i], Most(0, n - Running(q)[i - 1]))]
    BY <1>1, <1>2 DEF Take
  <2>2. \A i \in 1..len : Running(q)[i - 1] \in Int
    <3>1. Running(q) \in [0..len -> Int]
      BY <1>1, RunningSums DEF Sums
    <3> QED BY <1>1, <3>1
  <2> QED BY <1>1, <1>2, <2>1, <2>2 DEF Fifo, Least, Most
<1>4. /\ took \in [1..len -> Nat] /\ took \in [1..len -> Int]
      /\ \A i \in 1..len : took[i] <= q[i]
      /\ Total(took) = Least(n, QuantityOf(lots))
  <2>1. /\ took \in [1..len -> Nat]
        /\ \A i \in 1..len : took[i] <= q[i]
        /\ Total(took) = Least(n, Total(q))
    BY <1>1, <1>3, OldestFirst
  <2> QED BY <1>1, <2>1
<1> PICK d \in 0..len : Whole(took, q, d, len)
  BY <1>1, <1>3, OldestFirst
<1>5. /\ {i \in 1..len : q[i] - took[i] = 0} = 1..d
      /\ Cardinality({i \in 1..len : q[i] - took[i] = 0}) = d
      /\ \A i \in 1..len : i > d + 1 => took[i] = 0
  BY DEF Whole
<1>6. \A i \in 1..len :
        /\ rest[i].quantity = left[i] /\ rest[i].unit = lots[i].unit /\ rest[i].date = lots[i].date
        /\ rest[i].full = lots[i].full
        /\ left[i] = q[i] - took[i] /\ left[i] \in Nat
        /\ left[i] # 0 => rest[i] \in Lots
  <2> TAKE i \in 1..len
  <2>1. left[i] = q[i] - took[i] /\ left[i] \in Nat /\ lots[i] \in Lots /\ q[i] = lots[i].quantity
    BY <1>2, <1>4
  <2> PICK x \in Lots : x = lots[i]
    BY <2>1
  <2>2. rest[i] = [x EXCEPT !.quantity = left[i]]
    BY <1>1, <2>1
  <2> PICK y \in Nat : y = left[i]
    BY <2>1
  <2> HIDE DEF rest, left
  <2>3. /\ rest[i].quantity = y /\ rest[i].unit = x.unit /\ rest[i].date = x.date
        /\ rest[i].full = x.full
    BY <2>2 DEF Lots
  <2>4. y # 0 => rest[i] \in Lots
    BY <2>2 DEF Lots
  <2> QED BY <2>1, <2>3, <2>4
<1> PICK m \in Nat : m = len - d
  <2> HIDE DEF rest, left
  <2>1. len - d \in Nat
    OBVIOUS
  <2> QED BY <2>1
<1> DEFINE r == Remaining(lots, took)
<1>7. r = [k \in 1..m |-> rest[k + d]]
  <2> DEFINE kept == {i \in DOMAIN lots : lots[i].quantity > took[i]}
  <2>1. kept = d + 1..len
    <3>1. \A i \in 1..len : lots[i].quantity > took[i] <=> i \notin 1..d
      <4> TAKE i \in 1..len
      <4>1. q[i] \in Nat /\ took[i] \in Nat /\ took[i] <= q[i] /\ q[i] = lots[i].quantity
        BY <1>2, <1>4
      <4>2. i \in 1..d <=> q[i] - took[i] = 0
        BY <1>5
      <4> QED BY <4>1, <4>2
    <3> QED BY <1>1, <3>1
  <2>2. r = [k \in 1..Cardinality(kept) |-> [lots[Nth(kept, k)] EXCEPT !.quantity = @ - took[Nth(kept, k)]]]
    BY DEF Remaining
  <2> HIDE DEF kept
  <2>3. Cardinality(kept) = m /\ \A k \in 1..m : Nth(kept, k) = k + d
    BY <2>1, FromTo
  <2>4. \A k \in 1..m : [lots[Nth(kept, k)] EXCEPT !.quantity = @ - took[Nth(kept, k)]] = rest[k + d]
    <3> TAKE k \in 1..m
    <3>1. k + d \in DOMAIN lots /\ Nth(kept, k) = k + d
      <4>1. k + d \in 1..len
        OBVIOUS
      <4> HIDE DEF rest, left, r
      <4> QED BY <1>1, <2>3, <4>1
    <3> QED BY <3>1
  <2> HIDE DEF rest, r
  <2> QED BY <2>2, <2>3, <2>4
<1>8. r \in [1..m -> Lots]
  <2>1. \A k \in 1..m : rest[k + d] \in Lots
    <3> TAKE k \in 1..m
    <3>1. k + d \in 1..len /\ k + d \notin 1..d
      OBVIOUS
    <3>2. q[k + d] - took[k + d] # 0
      BY <1>5, <3>1
    <3> HIDE DEF rest
    <3> QED BY <1>6, <3>1, <3>2
  <2> HIDE DEF rest, r
  <2> QED BY <1>7, <2>1
<1>9. /\ took \in [1..len -> Nat] /\ took \in [1..len -> Int]
      /\ m + d = len /\ m + d <= len /\ len \in 0..len /\ d \in 0..len /\ m \in 0..m
  BY <1>4
<1>10. DOMAIN r = 1..m /\ r \in Seq(Lots) /\ Len(r) = m
  <2> HIDE DEF r
  <2> QED BY <1>8
<1>11. \A k \in 1..m :
         /\ k + d \in 1..len
         /\ r[k].quantity = left[k + d] /\ r[k].unit = lots[k + d].unit
         /\ r[k].date = lots[k + d].date /\ r[k].full = lots[k + d].full
         /\ left[k + d] = q[k + d] - took[k + d]
  <2> HIDE DEF rest, left
  <2> TAKE k \in 1..m
  <2>1. k + d \in 1..len /\ r[k] = rest[k + d]
    BY <1>7
  <2> QED BY <1>6, <2>1
<1> HIDE DEF rest, r
<1>12. \A i \in 1..d : i \in 1..len /\ took[i] = q[i]
  <2> TAKE i \in 1..d
  <2>1. i \in 1..len /\ q[i] - took[i] = 0
    BY <1>5
  <2>2. q[i] \in Nat /\ took[i] \in Nat
    BY <1>4, <2>1
  <2> QED BY <2>1, <2>2
<1>13. QuantityOf(r) = QuantityOf(lots) - Total(took)
  <2>1. PICK h \in [1..m -> Int] : h = Quantities(r)
    <3>1. Quantities(r) \in [1..Len(r) -> Nat \ {0}]
      BY <1>10, LotSums
    <3> QED BY <1>10, <3>1
  <2>2. QuantityOf(r) = Running(h)[m]
    <3>1. QuantityOf(r) = Running(Quantities(r))[Len(r)]
      BY <1>10, LotSums
    <3> QED BY <1>10, <2>1, <3>1
  <2>3. \A k \in 1..m : h[k] = q[k + d] - took[k + d]
    BY <1>10, <1>11, <2>1 DEF Quantities
  <2>4. Running(h)[m] = Running(q)[len] - Running(took)[len]
    <3>1. q \in [1..len -> Nat]
      OBVIOUS
    <3>2. \A i \in 1..d : took[i] = q[i]
      BY <1>12
    <3>3. LeftOf(h, q, took, len, m, d)
      BY <1>4, <1>9, <2>3, <3>1, <3>2 DEF LeftOf
    <3> QED BY <3>3, SumLeft
  <2>5. Total(took) = Running(took)[len]
    BY <1>9, RunningSums
  <2> QED BY <1>1, <2>2, <2>4, <2>5
<1>14. /\ CostOf(r) = CostOf(lots) - TakenCost(lots, took)
       /\ TakenCost(lots, took) \in Nat /\ TakenCost(lots, took) <= CostOf(lots)
  <2>1. \A i \in 1..len : took[i] * lots[i].unit \in Nat
    <3> TAKE i \in 1..len
    <3> PICK b \in Nat : b = took[i]
      BY <1>4
    <3> PICK u \in Nat : u = lots[i].unit
      BY <1>2
    <3>1. b * u \in Nat
      OBVIOUS
    <3> QED BY <3>1
  <2>2. PICK g \in [1..len -> Nat] : \A i \in 1..len : g[i] = took[i] * lots[i].unit
    <3>1. [i \in 1..len |-> took[i] * lots[i].unit] \in [1..len -> Nat]
      BY <2>1
    <3> QED BY <3>1
  <2>3. TakenCost(lots, took) = Total(g)
    <3>1. g = [i \in DOMAIN lots |-> took[i] * lots[i].unit]
      BY <1>1, <2>2
    <3> QED BY <3>1 DEF TakenCost
  <2>4. PICK f \in [1..len -> Nat] : f = Costs(lots)
    BY <1>1
  <2>5. \A i \in 1..len :
          /\ g[i] <= f[i]
          /\ f[i] - g[i] = (q[i] - took[i]) * lots[i].unit
    <3> TAKE i \in 1..len
    <3>1. f[i] = q[i] * lots[i].unit /\ g[i] = took[i] * lots[i].unit
      <4>1. Costs(lots)[i] = q[i] * lots[i].unit
        BY <1>2
      <4>2. g[i] = took[i] * lots[i].unit
        BY <2>2
      <4> QED BY <2>4, <4>1, <4>2
    <3>2. q[i] \in Nat /\ took[i] \in Nat /\ lots[i].unit \in Nat /\ took[i] <= q[i]
      BY <1>2, <1>4
    <3>3. /\ took[i] * lots[i].unit <= q[i] * lots[i].unit
          /\ q[i] * lots[i].unit - took[i] * lots[i].unit = (q[i] - took[i]) * lots[i].unit
      <4>1. TakenOf(took[i], q[i], lots[i].unit)
        BY <3>2, TakenPart
      <4> QED BY <4>1 DEF TakenOf
    <3> QED BY <3>1, <3>3
  <2>6. PICK h \in [1..m -> Int] : h = Costs(r)
    <3>1. Costs(r) \in [1..Len(r) -> Nat]
      BY <1>10, LotSums
    <3> QED BY <1>10, <3>1
  <2>7. CostOf(r) = Running(h)[m]
    <3>1. CostOf(r) = Running(Costs(r))[Len(r)]
      BY <1>10, LotSums
    <3> QED BY <1>10, <2>6, <3>1
  <2>8. \A k \in 1..m : h[k] = f[k + d] - g[k + d]
    <3> TAKE k \in 1..m
    <3>1. h[k] = (q[k + d] - took[k + d]) * lots[k + d].unit
      BY <1>10, <1>11, <2>6 DEF Costs
    <3>2. k + d \in 1..len
      BY <1>11
    <3> QED BY <2>5, <3>1, <3>2
  <2>9. \A i \in 1..d : g[i] = f[i]
    <3> TAKE i \in 1..d
    <3>1. i \in 1..len /\ took[i] = q[i]
      BY <1>12
    <3> QED BY <1>2, <2>2, <2>4, <3>1
  <2>10. \A i \in 1..len : g[i] <= f[i]
    BY <2>5
  <2>11. /\ Running(h)[m] = Running(f)[len] - Running(g)[len]
         /\ Running(g)[len] \in Nat /\ Running(g)[len] <= Running(f)[len]
    <3>1. LeftOf(h, f, g, len, m, d)
      BY <1>9, <2>8, <2>9, <2>10 DEF LeftOf
    <3> QED BY <3>1, SumLeft
  <2>12. Total(g) = Running(g)[len]
    <3>1. g \in [1..len -> Int]
      OBVIOUS
    <3> QED BY <3>1, RunningSums
  <2> QED BY <1>1, <2>3, <2>4, <2>7, <2>11, <2>12
<1>15. FirstIn(lots) => FirstIn(r)
  <2> SUFFICES ASSUME FirstIn(lots), NEW k \in 1..m, k > 1
               PROVE  r[k].quantity = r[k].full /\ r[k - 1].date <= r[k].date
    BY <1>10 DEF FirstIn
  <2>1. /\ k - 1 \in 1..m /\ (k - 1) + d = (k + d) - 1
        /\ k + d \in 1..len /\ k + d > d + 1 /\ k + d > 1
    BY <1>9
  <2>2. /\ r[k].date = lots[k + d].date /\ r[k].full = lots[k + d].full
        /\ r[k].quantity = q[k + d] - took[k + d] /\ q[k + d] = lots[k + d].quantity
    BY <1>2, <1>11, <2>1
  <2>3. r[k - 1].date = lots[(k + d) - 1].date
    BY <1>11, <2>1
  <2>4. took[k + d] = 0 /\ q[k + d] \in Nat
    BY <1>2, <1>5, <2>1
  <2>5. lots[k + d].quantity = lots[k + d].full /\ lots[(k + d) - 1].date <= lots[k + d].date
    BY <1>1, <2>1 DEF FirstIn
  <2> QED BY <2>2, <2>3, <2>4, <2>5
<1>16. ASSUME NEW e, Until(lots, e) PROVE Until(r, e)
  BY <1>1, <1>16, <1>10, <1>11 DEF Until
<1> QED BY <1>4, <1>10, <1>13, <1>14, <1>15, <1>16 DEF r

LEMMA LeftOK ==
  ASSUME NEW p, PositionOK(p), NEW n \in Nat, NEW took, took = Take(p.lots, n)
  PROVE  /\ PositionOK(Left(p, took))
         /\ TakenCost(p.lots, took) \in Nat
         /\ Left(p, took).totalCost = p.totalCost - TakenCost(p.lots, took)
         /\ Left(p, took).realized = p.realized /\ Left(p, took).moved = p.moved
         /\ Left(p, took).oversold = p.oversold
         /\ Left(p, took).quantity = p.quantity - Least(n, p.quantity)
         /\ \A e : Until(p.lots, e) => Until(Left(p, took).lots, e)
<1>1. /\ p \in Positions /\ p.lots \in Seq(Lots)
      /\ p.quantity \in Nat /\ p.totalCost \in Nat
      /\ p.quantity = QuantityOf(p.lots) /\ p.totalCost = CostOf(p.lots) /\ FirstIn(p.lots)
  BY DEF PositionOK, Positions
<1> DEFINE rest == Remaining(p.lots, took)
           cost == TakenCost(p.lots, took)
<1>2. /\ Total(took) = Least(n, p.quantity)
      /\ cost \in Nat /\ cost <= p.totalCost
      /\ rest \in Seq(Lots)
      /\ QuantityOf(rest) = p.quantity - Total(took)
      /\ CostOf(rest) = p.totalCost - cost
      /\ FirstIn(rest)
      /\ \A e : Until(p.lots, e) => Until(rest, e)
  BY <1>1, RemainingOK
<1> DEFINE q == p.quantity - Total(took)
           c == p.totalCost - cost
<1>3. q \in Nat /\ c \in Nat
  BY <1>1, <1>2 DEF Least
<1>4. Left(p, took) = [p EXCEPT !.lots = rest, !.quantity = q, !.totalCost = c]
  BY DEF Left
<1> HIDE DEF rest, cost, q, c
<1>5. Left(p, took) \in Positions
  BY <1>1, <1>2, <1>3, <1>4 DEF Positions
<1>6. /\ Left(p, took).lots = rest /\ Left(p, took).quantity = q /\ Left(p, took).totalCost = c
      /\ Left(p, took).realized = p.realized /\ Left(p, took).moved = p.moved
      /\ Left(p, took).oversold = p.oversold
  BY <1>1, <1>4 DEF Positions
<1>7. PositionOK(Left(p, took))
  BY <1>2, <1>5, <1>6 DEF PositionOK, q, c
<1> QED BY <1>2, <1>6, <1>7 DEF q, c, cost

LEMMA SamePosition ==
  ASSUME NEW p, PositionOK(p), NEW q \in Positions,
         q.lots = p.lots, q.quantity = p.quantity, q.totalCost = p.totalCost
  PROVE  PositionOK(q)
BY DEF PositionOK

\* How many shares a sale or a transfer takes.
Sold(p, tx) == IF tx.liquidate THEN p.quantity ELSE tx.quantity

LEMMA SellOK ==
  ASSUME NEW p, PositionOK(p), NEW tx \in Transactions
  PROVE  /\ PositionOK(Sell(p, tx))
         /\ CostOfAll(Sell(p, tx)) = CostOfAll(p)
         /\ Sell(p, tx).quantity = p.quantity - Least(Sold(p, tx), p.quantity)
         /\ ~Sell(p, tx).oversold => ~p.oversold /\ Sold(p, tx) <= p.quantity
         /\ \A e : Until(p.lots, e) => Until(Sell(p, tx).lots, e)
<1>1. /\ p \in Positions /\ p.quantity \in Nat /\ p.totalCost \in Nat
      /\ p.realized \in Nat /\ p.moved \in Nat /\ p.oversold \in BOOLEAN
      /\ tx.quantity \in Nat /\ Sold(p, tx) \in Nat
  BY DEF PositionOK, Positions, Transactions, Sold
<1> PICK took : took = Take(p.lots, Sold(p, tx))
  OBVIOUS
<1> PICK left : left = Left(p, took)
  OBVIOUS
<1> PICK cost : cost = TakenCost(p.lots, took)
  OBVIOUS
<1>2. /\ PositionOK(left) /\ cost \in Nat /\ left.totalCost = p.totalCost - cost
      /\ left.realized = p.realized /\ left.moved = p.moved /\ left.oversold = p.oversold
      /\ left.quantity = p.quantity - Least(Sold(p, tx), p.quantity)
      /\ \A e : Until(p.lots, e) => Until(left.lots, e)
  <2>1. Sold(p, tx) \in Nat
    BY <1>1
  <2>2. /\ PositionOK(Left(p, took))
        /\ TakenCost(p.lots, took) \in Nat
        /\ Left(p, took).totalCost = p.totalCost - TakenCost(p.lots, took)
        /\ Left(p, took).realized = p.realized /\ Left(p, took).moved = p.moved
        /\ Left(p, took).oversold = p.oversold
        /\ Left(p, took).quantity = p.quantity - Least(Sold(p, tx), p.quantity)
        /\ \A e : Until(p.lots, e) => Until(Left(p, took).lots, e)
    BY <2>1, LeftOK
  <2> QED BY <2>2
<1>3. left \in Positions /\ left.totalCost \in Nat
  BY <1>2 DEF PositionOK, Positions
<1> PICK over \in BOOLEAN : over = (left.oversold \/ Sold(p, tx) > p.quantity)
  OBVIOUS
<1>4. Sell(p, tx) = [left EXCEPT !.realized = left.realized + cost, !.oversold = over]
  BY DEF Sell, Sold
<1> PICK a \in Nat : a = left.realized + cost
  BY <1>1, <1>2
<1>5. Sell(p, tx) \in Positions
  BY <1>3, <1>4 DEF Positions
<1>6. /\ Sell(p, tx).lots = left.lots /\ Sell(p, tx).quantity = left.quantity
      /\ Sell(p, tx).totalCost = left.totalCost /\ Sell(p, tx).moved = left.moved
      /\ Sell(p, tx).realized = a
  BY <1>3, <1>4 DEF Positions
<1>7. CostOfAll(Sell(p, tx)) = CostOfAll(p)
  BY <1>1, <1>2, <1>6 DEF CostOfAll
<1>8. ~Sell(p, tx).oversold => ~p.oversold /\ Sold(p, tx) <= p.quantity
  <2>1. Sell(p, tx).oversold = over
    BY <1>3, <1>4 DEF Positions
  <2>2. ~over => ~p.oversold /\ ~(Sold(p, tx) > p.quantity)
    BY <1>2
  <2>3. ~(Sold(p, tx) > p.quantity) => Sold(p, tx) <= p.quantity
    BY <1>1
  <2> QED BY <2>1, <2>2, <2>3
<1> QED BY <1>2, <1>5, <1>6, <1>7, <1>8, SamePosition

LEMMA TransferOutOK ==
  ASSUME NEW p, PositionOK(p), NEW tx \in Transactions
  PROVE  /\ PositionOK(TransferOut(p, tx))
         /\ CostOfAll(TransferOut(p, tx)) = CostOfAll(p)
         /\ TransferOut(p, tx).quantity = p.quantity - Least(tx.quantity, p.quantity)
         /\ ~TransferOut(p, tx).oversold => ~p.oversold /\ tx.quantity <= p.quantity
         /\ \A e : Until(p.lots, e) => Until(TransferOut(p, tx).lots, e)
<1>1. /\ p \in Positions /\ p.quantity \in Nat /\ p.totalCost \in Nat
      /\ p.realized \in Nat /\ p.moved \in Nat /\ p.oversold \in BOOLEAN
      /\ tx.quantity \in Nat
  BY DEF PositionOK, Positions, Transactions
<1> PICK took : took = Take(p.lots, tx.quantity)
  OBVIOUS
<1> PICK left : left = Left(p, took)
  OBVIOUS
<1> PICK cost : cost = TakenCost(p.lots, took)
  OBVIOUS
<1>2. /\ PositionOK(left) /\ cost \in Nat /\ left.totalCost = p.totalCost - cost
      /\ left.realized = p.realized /\ left.moved = p.moved /\ left.oversold = p.oversold
      /\ left.quantity = p.quantity - Least(tx.quantity, p.quantity)
      /\ \A e : Until(p.lots, e) => Until(left.lots, e)
  <2>1. tx.quantity \in Nat
    BY <1>1
  <2>2. /\ PositionOK(Left(p, took))
        /\ TakenCost(p.lots, took) \in Nat
        /\ Left(p, took).totalCost = p.totalCost - TakenCost(p.lots, took)
        /\ Left(p, took).realized = p.realized /\ Left(p, took).moved = p.moved
        /\ Left(p, took).oversold = p.oversold
        /\ Left(p, took).quantity = p.quantity - Least(tx.quantity, p.quantity)
        /\ \A e : Until(p.lots, e) => Until(Left(p, took).lots, e)
    BY <2>1, LeftOK
  <2> QED BY <2>2
<1>3. left \in Positions /\ left.totalCost \in Nat
  BY <1>2 DEF PositionOK, Positions
<1> PICK over \in BOOLEAN : over = (left.oversold \/ tx.quantity > p.quantity)
  OBVIOUS
<1>4. TransferOut(p, tx) = [left EXCEPT !.moved = left.moved + cost, !.oversold = over]
  BY DEF TransferOut
<1> PICK a \in Nat : a = left.moved + cost
  BY <1>1, <1>2
<1>5. TransferOut(p, tx) \in Positions
  BY <1>3, <1>4 DEF Positions
<1>6. /\ TransferOut(p, tx).lots = left.lots /\ TransferOut(p, tx).quantity = left.quantity
      /\ TransferOut(p, tx).totalCost = left.totalCost /\ TransferOut(p, tx).moved = a
      /\ TransferOut(p, tx).realized = left.realized
  BY <1>3, <1>4 DEF Positions
<1>7. CostOfAll(TransferOut(p, tx)) = CostOfAll(p)
  BY <1>1, <1>2, <1>6 DEF CostOfAll
<1>8. ~TransferOut(p, tx).oversold => ~p.oversold /\ tx.quantity <= p.quantity
  <2>1. TransferOut(p, tx).oversold = over
    BY <1>3, <1>4 DEF Positions
  <2>2. ~over => ~p.oversold /\ ~(tx.quantity > p.quantity)
    BY <1>2
  <2>3. ~(tx.quantity > p.quantity) => tx.quantity <= p.quantity
    BY <1>1
  <2> QED BY <2>1, <2>2, <2>3
<1> QED BY <1>2, <1>5, <1>6, <1>7, <1>8, SamePosition

\* What the code divides in floating point, the model's integers divide exactly.
Exact(a, b) == \E q \in 0..a : q * b = a

ExactLot(lot, before, after) ==
  /\ Exact(lot.quantity * after, before)
  /\ Exact(lot.full * after, before)
  /\ Exact(lot.unit * before, after)

ExactSplit(p, tx) ==
  \A i \in DOMAIN p.lots : ExactLot(p.lots[i], p.quantity, p.quantity + tx.quantity)

LEMMA QuotientOK ==
  ASSUME NEW a \in Nat, NEW b \in Nat, b > 0, Exact(a, b)
  PROVE  Quotient(a, b) \in Nat /\ Quotient(a, b) * b = a
<1>1. Quotient(a, b) \in 0..a /\ Quotient(a, b) * b = a
  BY DEF Exact, Quotient
<1> QED BY <1>1

LEMMA Positive ==
  ASSUME NEW q \in Nat, NEW a \in Nat, NEW b \in Nat, NEW c \in Nat,
         a > 0, c > 0, q * b = a * c
  PROVE  q > 0
OBVIOUS

\* Twice the shares at half the price.
SplitInto(q, u, b, a, v, w) ==
  /\ {q, u, a, b, v, w} \subseteq Nat /\ v > 0 /\ w > 0
  /\ u * w = a * v /\ q * v = b * w

LEMMA SameCost ==
  ASSUME NEW q, NEW u, NEW a, NEW b, NEW v, NEW w, SplitInto(q, u, b, a, v, w)
  PROVE  q * u = b * a
<1>1. \A Q, U, A, B, V, W \in Nat :
        V > 0 /\ W > 0 /\ U * W = A * V /\ Q * V = B * W => Q * U = B * A
  OBVIOUS
<1>2. q \in Nat /\ u \in Nat /\ a \in Nat /\ b \in Nat /\ v \in Nat /\ w \in Nat
  BY DEF SplitInto
<1>3. v > 0 /\ w > 0 /\ u * w = a * v /\ q * v = b * w
  BY DEF SplitInto
<1> QED BY <1>1, <1>2, <1>3

LEMMA Cancel ==
  ASSUME NEW a \in Nat, NEW b \in Nat, NEW c \in Nat, c > 0, a * c = c * b
  PROVE  a = b
OBVIOUS

\* As many times the shares, the cost as before; what was whole is whole.
Resized(lot, old, before, after) ==
  /\ lot \in Lots /\ lot.date = old.date
  /\ lot.quantity * before = old.quantity * after
  /\ lot.quantity * lot.unit = old.quantity * old.unit
  /\ old.quantity = old.full => lot.quantity = lot.full

LEMMA RescaledLot ==
  ASSUME NEW lots \in Seq(Lots), NEW b \in Nat, NEW after \in Nat, b > 0, after > 0,
         NEW i \in DOMAIN lots,
         ExactLot(lots[i], b, after), NEW lot, lot = Rescaled(lots, b, after)[i]
  PROVE  Resized(lot, lots[i], b, after)
<1> PICK x \in Lots : x = lots[i]
  OBVIOUS
<1>1. /\ x.quantity \in Nat /\ x.quantity > 0
      /\ x.full \in Nat /\ x.unit \in Nat
  BY DEF Lots
<1>2. /\ x.quantity * after \in Nat /\ x.full * after \in Nat /\ x.unit * b \in Nat
  BY <1>1
<1>3. PICK q \in Nat : q = Quotient(x.quantity * after, b) /\ q * b = x.quantity * after
  BY <1>2, QuotientOK DEF ExactLot
<1>4. PICK f \in Nat : f = Quotient(x.full * after, b)
  BY <1>2, QuotientOK DEF ExactLot
<1>5. PICK u \in Nat : u = Quotient(x.unit * b, after) /\ u * after = x.unit * b
  BY <1>2, QuotientOK DEF ExactLot
<1>6. lot = [x EXCEPT !.quantity = q, !.full = f, !.unit = u]
  BY <1>3, <1>4, <1>5 DEF Rescaled
<1>7. q \in Nat \ {0}
  <2>1. q > 0
    BY <1>1, <1>3, Positive
  <2> QED BY <2>1
<1>8. q * u = x.quantity * x.unit
  <2> PICK a \in Nat : a = x.unit
    BY <1>1
  <2> PICK c \in Nat : c = x.quantity
    BY <1>1
  <2>1. u * after = a * b
    BY <1>5
  <2>2. q * b = c * after
    BY <1>3
  <2>3. SplitInto(q, u, c, a, b, after)
    BY <2>1, <2>2 DEF SplitInto
  <2>4. q * u = c * a
    BY <2>3, SameCost
  <2> QED BY <2>4
<1>9. lot \in Lots
  BY <1>6, <1>7 DEF Lots
<1>10. lot.quantity = q /\ lot.unit = u /\ lot.full = f /\ lot.date = x.date
  BY <1>6 DEF Lots
<1>11. x.quantity = x.full => q = f
  BY <1>3, <1>4
<1>12. lot.quantity * b = x.quantity * after
  BY <1>3, <1>10
<1>13. lot.quantity * lot.unit = x.quantity * x.unit
  BY <1>8, <1>10
<1> QED BY <1>9, <1>10, <1>11, <1>12, <1>13 DEF Resized

LEMMA RescaledOK ==
  ASSUME NEW lots \in Seq(Lots), NEW b \in Nat, NEW after \in Nat, b > 0, after > 0,
         \A i \in DOMAIN lots : ExactLot(lots[i], b, after),
         QuantityOf(lots) = b
  PROVE  /\ Rescaled(lots, b, after) \in Seq(Lots)
         /\ QuantityOf(Rescaled(lots, b, after)) = after
         /\ CostOf(Rescaled(lots, b, after)) = CostOf(lots)
         /\ FirstIn(lots) => FirstIn(Rescaled(lots, b, after))
         /\ \A e : Until(lots, e) => Until(Rescaled(lots, b, after), e)
<1> PICK n \in Nat : n = Len(lots)
  OBVIOUS
<1> PICK all : all = Rescaled(lots, b, after)
  OBVIOUS
<1>1. DOMAIN lots = 1..n /\ DOMAIN all = 1..n /\ all = [i \in 1..n |-> all[i]]
  <2> DEFINE Lot(i) == [lots[i] EXCEPT !.quantity = Quotient(@ * after, b),
                                       !.full = Quotient(@ * after, b),
                                       !.unit = Quotient(@ * b, after)]
  <2>1. Rescaled(lots, b, after) = [i \in DOMAIN lots |-> Lot(i)]
    BY DEF Rescaled
  <2> HIDE DEF Lot
  <2>2. DOMAIN lots = 1..n
    OBVIOUS
  <2> QED BY <2>1, <2>2
<1>2. \A i \in 1..n :
        /\ all[i] \in Lots /\ all[i].date = lots[i].date
        /\ all[i].quantity * b = lots[i].quantity * after
        /\ all[i].quantity * all[i].unit = lots[i].quantity * lots[i].unit
        /\ lots[i].quantity = lots[i].full => all[i].quantity = all[i].full
  <2> TAKE i \in 1..n
  <2> PICK lot : lot = Rescaled(lots, b, after)[i]
    OBVIOUS
  <2>1. i \in DOMAIN lots
    BY <1>1
  <2>2. ExactLot(lots[i], b, after)
    BY <2>1
  <2>3. Resized(lot, lots[i], b, after)
    BY <2>1, <2>2, RescaledLot
  <2>4. all[i] = lot
    OBVIOUS
  <2> QED BY <2>3, <2>4 DEF Resized
<1>3. all \in Seq(Lots) /\ Len(all) = n
  <2>1. \A i \in 1..n : all[i] \in Lots
    BY <1>2
  <2> QED BY <1>1, <2>1
<1>4. QuantityOf(all) = after
  <2> PICK f \in [1..n -> Int] : f = Quantities(lots)
    BY LotSums
  <2> PICK g \in [1..n -> Int] : g = Quantities(all)
    BY <1>3, LotSums
  <2>1. \A i \in 1..n : g[i] * b = f[i] * after
    BY <1>1, <1>2 DEF Quantities
  <2>2. Running(g)[n] * b = Running(f)[n] * after
    <3>1. Scaled(g, f, n, after, b)
      BY <2>1 DEF Scaled
    <3> QED BY <3>1, SumScaled
  <2>3. QuantityOf(lots) = Running(f)[n] /\ QuantityOf(all) = Running(g)[n]
    BY <1>3, LotSums
  <2>4. QuantityOf(all) \in Nat
    BY <1>3, LotSums
  <2>5. QuantityOf(all) * b = b * after
    BY <2>2, <2>3
  <2> QED BY <2>4, <2>5, Cancel
<1>5. CostOf(all) = CostOf(lots)
  <2>1. [i \in DOMAIN all |-> all[i].quantity * all[i].unit]
          = [i \in DOMAIN lots |-> lots[i].quantity * lots[i].unit]
    BY <1>1, <1>2
  <2> QED BY <2>1 DEF CostOf
<1>6. ASSUME FirstIn(lots) PROVE FirstIn(all)
  <2> SUFFICES ASSUME NEW i \in 1..n, i > 1
               PROVE  all[i].quantity = all[i].full /\ all[i - 1].date <= all[i].date
    BY <1>1 DEF FirstIn
  <2>1. lots[i].quantity = lots[i].full /\ lots[i - 1].date <= lots[i].date
    BY <1>1, <1>6 DEF FirstIn
  <2>2. i - 1 \in 1..n
    OBVIOUS
  <2>3. /\ all[i].date = lots[i].date /\ all[i - 1].date = lots[i - 1].date
        /\ all[i].quantity = all[i].full
    BY <1>2, <2>1, <2>2
  <2> QED BY <2>1, <2>3
<1>7. ASSUME NEW e, Until(lots, e) PROVE Until(all, e)
  BY <1>1, <1>2, <1>7 DEF Until
<1> QED BY <1>3, <1>4, <1>5, <1>6, <1>7

LEMMA SplitOK ==
  ASSUME NEW p, PositionOK(p), NEW tx \in Transactions, ExactSplit(p, tx)
  PROVE  /\ PositionOK(Split(p, tx))
         /\ CostOfAll(Split(p, tx)) = CostOfAll(p)
         /\ p.quantity = 0 => Split(p, tx).quantity = 0
         /\ \A e : Until(p.lots, e) => Until(Split(p, tx).lots, e)
<1>1. /\ p \in Positions /\ p.lots \in Seq(Lots) /\ FirstIn(p.lots)
      /\ p.quantity = QuantityOf(p.lots) /\ p.totalCost = CostOf(p.lots)
      /\ p.quantity \in Nat /\ tx.quantity \in Nat
  BY DEF PositionOK, Positions, Transactions
<1>2. CASE p.quantity = 0
  BY <1>2 DEF Split
<1>3. CASE p.quantity # 0
  <2> DEFINE after == p.quantity + tx.quantity
             all == Rescaled(p.lots, p.quantity, after)
  <2>1. Split(p, tx) = [p EXCEPT !.lots = all, !.quantity = after]
    BY <1>3 DEF Split
  <2>2. \A i \in DOMAIN p.lots : ExactLot(p.lots[i], p.quantity, after)
    BY DEF ExactSplit
  <2>3. after \in Nat /\ after > 0 /\ p.quantity > 0
    BY <1>1, <1>3
  <2> HIDE DEF after
  <2>4. /\ all \in Seq(Lots) /\ QuantityOf(all) = after /\ CostOf(all) = CostOf(p.lots)
        /\ FirstIn(all) /\ \A e : Until(p.lots, e) => Until(all, e)
    BY <1>1, <2>2, <2>3, RescaledOK
  <2> HIDE DEF all
  <2>5. Split(p, tx) \in Positions
    BY <1>1, <2>1, <2>3, <2>4 DEF Positions
  <2>6. /\ Split(p, tx).lots = all /\ Split(p, tx).quantity = after
        /\ Split(p, tx).totalCost = p.totalCost
        /\ Split(p, tx).realized = p.realized /\ Split(p, tx).moved = p.moved
    BY <1>1, <2>1 DEF Positions
  <2>7. PositionOK(Split(p, tx))
    BY <1>1, <2>4, <2>5, <2>6 DEF PositionOK
  <2>8. CostOfAll(Split(p, tx)) = CostOfAll(p)
    BY <2>6 DEF CostOfAll
  <2> QED BY <1>3, <2>4, <2>6, <2>7, <2>8
<1> QED BY <1>2, <1>3

\* What a transaction adds to the cost of a symbol.
Arrival(tx, s) ==
  IF s = tx.symbol /\ tx.type \in {"BUY", "TRANSFER_IN"} THEN tx.quantity * tx.unit ELSE 0

LEMMA ArrivalType ==
  ASSUME NEW tx \in Transactions, NEW s
  PROVE  Arrival(tx, s) \in Nat
<1>1. tx.quantity \in Nat /\ tx.unit \in Nat
  BY DEF Transactions
<1>2. tx.quantity * tx.unit \in Nat
  BY <1>1
<1> QED BY <1>2 DEF Arrival

\* A sale of all that is held.
Closes(tx) == tx.type = "SELL" /\ tx.liquidate /\ tx.quantity # 0

LEMMA BookedOK ==
  ASSUME NEW p, PositionOK(p), NEW tx \in Transactions, Until(p.lots, tx.date),
         tx.type = "STOCK_SPLIT" => ExactSplit(p, tx)
  PROVE  /\ PositionOK(Booked(p, tx))
         /\ CostOfAll(Booked(p, tx)) = CostOfAll(p) + Arrival(tx, tx.symbol)
         /\ \A e \in Nat : tx.date <= e => Until(Booked(p, tx).lots, e)
         /\ Closes(tx) => Booked(p, tx).quantity = 0
<1>1. /\ tx.quantity \in Nat /\ tx.unit \in Nat /\ tx.date \in Nat /\ tx.type \in Types
      /\ p.quantity \in Nat /\ CostOfAll(p) \in Nat
  BY DEF PositionOK, Positions, Transactions, CostOfAll
<1>2. ASSUME NEW q, PositionOK(q), Until(q.lots, tx.date), NEW e \in Nat, tx.date <= e
      PROVE  Until(q.lots, e)
  <2> SUFFICES ASSUME NEW i \in DOMAIN q.lots PROVE q.lots[i].date <= e
    BY DEF Until
  <2>1. q.lots[i].date <= tx.date
    BY <1>2 DEF Until
  <2>2. q.lots[i].date \in Nat
    <3>1. q.lots \in Seq(Lots)
      BY <1>2 DEF PositionOK, Positions
    <3>2. q.lots[i] \in Lots
      BY <3>1
    <3> QED BY <3>2 DEF Lots
  <2> QED BY <1>1, <1>2, <2>1, <2>2
<1>3. CASE tx.quantity = 0
  <2>1. Booked(p, tx) = p
    BY <1>3 DEF Booked
  <2>2. Arrival(tx, tx.symbol) = 0
    BY <1>1, <1>3 DEF Arrival
  <2> QED BY <1>1, <1>2, <1>3, <2>1, <2>2 DEF Closes
<1>4. CASE tx.quantity # 0 /\ tx.type \in {"BUY", "TRANSFER_IN"}
  <2>1. Booked(p, tx) = Arrive(p, tx)
    BY <1>1, <1>4 DEF Booked
  <2>2. Arrival(tx, tx.symbol) = tx.quantity * tx.unit /\ ~Closes(tx)
    BY <1>4 DEF Arrival, Closes
  <2>3. /\ PositionOK(Arrive(p, tx)) /\ Until(Arrive(p, tx).lots, tx.date)
        /\ CostOfAll(Arrive(p, tx)) = CostOfAll(p) + tx.quantity * tx.unit
    BY <1>4, ArriveOK
  <2> QED BY <1>2, <2>1, <2>2, <2>3
<1>5. CASE tx.quantity # 0 /\ tx.type = "SELL"
  <2>1. Booked(p, tx) = Sell(p, tx)
    BY <1>1, <1>5 DEF Booked
  <2>2. Arrival(tx, tx.symbol) = 0
    BY <1>5 DEF Arrival
  <2>3. /\ PositionOK(Sell(p, tx)) /\ CostOfAll(Sell(p, tx)) = CostOfAll(p)
        /\ Sell(p, tx).quantity = p.quantity - Least(Sold(p, tx), p.quantity)
        /\ Until(Sell(p, tx).lots, tx.date)
    BY SellOK
  <2>4. Closes(tx) => Sell(p, tx).quantity = 0
    BY <1>1, <2>3 DEF Closes, Sold, Least
  <2> QED BY <1>1, <1>2, <2>1, <2>2, <2>3, <2>4
<1>6. CASE tx.quantity # 0 /\ tx.type = "TRANSFER_OUT"
  <2>1. Booked(p, tx) = TransferOut(p, tx)
    BY <1>1, <1>6 DEF Booked
  <2>2. Arrival(tx, tx.symbol) = 0 /\ ~Closes(tx)
    BY <1>6 DEF Arrival, Closes
  <2>3. /\ PositionOK(TransferOut(p, tx)) /\ CostOfAll(TransferOut(p, tx)) = CostOfAll(p)
        /\ Until(TransferOut(p, tx).lots, tx.date)
    BY TransferOutOK
  <2> QED BY <1>1, <1>2, <2>1, <2>2, <2>3
<1>7. CASE tx.quantity # 0 /\ tx.type = "STOCK_SPLIT"
  <2>1. Booked(p, tx) = Split(p, tx)
    BY <1>1, <1>7 DEF Booked
  <2>2. Arrival(tx, tx.symbol) = 0 /\ ~Closes(tx)
    BY <1>7 DEF Arrival, Closes
  <2>3. /\ PositionOK(Split(p, tx)) /\ CostOfAll(Split(p, tx)) = CostOfAll(p)
        /\ Until(Split(p, tx).lots, tx.date)
    BY <1>7, SplitOK
  <2> QED BY <1>1, <1>2, <2>1, <2>2, <2>3
<1> QED BY <1>1, <1>3, <1>4, <1>5, <1>6, <1>7 DEF Types

\* A ledger oversold once stays so.
LEMMA OversoldStays ==
  ASSUME NEW p, PositionOK(p), NEW tx \in Transactions, ~Booked(p, tx).oversold
  PROVE  ~p.oversold
<1>1. tx.quantity \in Nat /\ tx.type \in Types /\ p \in Positions
  BY DEF PositionOK, Transactions
<1>2. CASE tx.quantity = 0
  BY <1>2 DEF Booked
<1>3. CASE tx.quantity # 0 /\ tx.type \in {"BUY", "TRANSFER_IN"}
  <2>1. Booked(p, tx) = Arrive(p, tx)
    BY <1>1, <1>3 DEF Booked
  <2>2. Arrive(p, tx).oversold = p.oversold
    BY <1>1 DEF Arrive, Positions
  <2> QED BY <2>1, <2>2
<1>4. CASE tx.quantity # 0 /\ tx.type = "SELL"
  <2>1. Booked(p, tx) = Sell(p, tx)
    BY <1>1, <1>4 DEF Booked
  <2> QED BY <2>1, SellOK
<1>5. CASE tx.quantity # 0 /\ tx.type = "TRANSFER_OUT"
  <2>1. Booked(p, tx) = TransferOut(p, tx)
    BY <1>1, <1>5 DEF Booked
  <2> QED BY <2>1, TransferOutOK
<1>6. CASE tx.quantity # 0 /\ tx.type = "STOCK_SPLIT"
  <2>1. Booked(p, tx) = Split(p, tx)
    BY <1>1, <1>6 DEF Booked
  <2>2. Split(p, tx).oversold = p.oversold
    BY <1>1 DEF Split, Positions
  <2> QED BY <2>1, <2>2
<1> QED BY <1>1, <1>2, <1>3, <1>4, <1>5, <1>6 DEF Types

\* What a transaction changes the quantity by, when nothing is short or skipped.
LEMMA BookedQuantity ==
  ASSUME NEW p, PositionOK(p), NEW tx \in Transactions, ~tx.liquidate, ~Booked(p, tx).oversold,
         tx.type = "STOCK_SPLIT" /\ tx.quantity > 0 => p.quantity > 0
  PROVE  Booked(p, tx).quantity = p.quantity + Change(tx)
<1>1. tx.quantity \in Nat /\ tx.type \in Types /\ p \in Positions /\ p.quantity \in Nat
  BY DEF PositionOK, Positions, Transactions
<1>2. CASE tx.quantity = 0
  <2>1. Booked(p, tx) = p
    BY <1>2 DEF Booked
  <2> QED BY <1>1, <1>2, <2>1 DEF Change
<1>3. CASE tx.quantity # 0 /\ tx.type \in {"BUY", "TRANSFER_IN"}
  <2>1. Booked(p, tx) = Arrive(p, tx)
    BY <1>1, <1>3 DEF Booked
  <2>2. Arrive(p, tx).quantity = p.quantity + tx.quantity
    BY <1>1 DEF Arrive, Positions
  <2>3. Change(tx) = tx.quantity
    BY <1>3 DEF Change
  <2> QED BY <2>1, <2>2, <2>3
<1>4. CASE tx.quantity # 0 /\ tx.type = "SELL"
  <2>1. Booked(p, tx) = Sell(p, tx)
    BY <1>1, <1>4 DEF Booked
  <2>2. Sold(p, tx) = tx.quantity /\ Change(tx) = -tx.quantity
    BY <1>4 DEF Sold, Change
  <2>3. /\ Sell(p, tx).quantity = p.quantity - Least(Sold(p, tx), p.quantity)
        /\ Sold(p, tx) <= p.quantity
    BY <2>1, SellOK
  <2> QED BY <1>1, <2>1, <2>2, <2>3 DEF Least
<1>5. CASE tx.quantity # 0 /\ tx.type = "TRANSFER_OUT"
  <2>1. Booked(p, tx) = TransferOut(p, tx)
    BY <1>1, <1>5 DEF Booked
  <2>2. Change(tx) = -tx.quantity
    BY <1>5 DEF Change
  <2>3. /\ TransferOut(p, tx).quantity = p.quantity - Least(tx.quantity, p.quantity)
        /\ tx.quantity <= p.quantity
    BY <2>1, TransferOutOK
  <2> QED BY <1>1, <2>1, <2>2, <2>3 DEF Least
<1>6. CASE tx.quantity # 0 /\ tx.type = "STOCK_SPLIT"
  <2>1. Booked(p, tx) = Split(p, tx) /\ p.quantity # 0
    BY <1>1, <1>6 DEF Booked
  <2>2. Split(p, tx).quantity = p.quantity + tx.quantity
    BY <1>1, <2>1 DEF Split, Positions
  <2>3. Change(tx) = tx.quantity
    BY <1>6 DEF Change
  <2> QED BY <2>1, <2>2, <2>3
<1> QED BY <1>1, <1>2, <1>3, <1>4, <1>5, <1>6 DEF Types

-----------------------------------------------------------------------------
(* Sums over the transactions of a ledger and of all brokers, and what they *)
(* add to the costs.                                                        *)

\* The numbers of f at D, and their sum.
At(f, D) == [i \in DOMAIN f |-> IF i \in D THEN f[i] ELSE 0]

SumAt(f, D) == Total(At(f, D))

LEMMA SumAtType ==
  ASSUME NEW n \in Nat, NEW f \in [1..n -> Int], NEW D
  PROVE  /\ At(f, D) \in [1..n -> Int]
         /\ SumAt(f, D) = Running(At(f, D))[n]
         /\ SumAt(f, D) \in Int
<1>1. At(f, D) \in [1..n -> Int]
  BY DEF At
<1>2. /\ SumAt(f, D) = Running(At(f, D))[n]
      /\ Running(At(f, D)) \in [0..n -> Int]
  BY <1>1, RunningSums DEF SumAt, Sums
<1>3. n \in 0..n
  OBVIOUS
<1>4. SumAt(f, D) \in Int
  BY <1>2, <1>3
<1> QED BY <1>1, <1>2, <1>4

LEMMA SumAtNone ==
  ASSUME NEW n \in Nat, NEW f \in [1..n -> Int]
  PROVE  SumAt(f, {}) = 0
<1>1. At(f, {}) \in [1..n -> Int] /\ SumAt(f, {}) = Running(At(f, {}))[n]
  BY SumAtType
<1>2. \A i \in 1..n : At(f, {})[i] = 0
  BY DEF At
<1>3. n \in 0..n
  OBVIOUS
<1>4. Running(At(f, {}))[n] = 0
  BY <1>1, <1>2, <1>3, SumZero
<1> QED BY <1>1, <1>4

LEMMA SumAtUnion ==
  ASSUME NEW n \in Nat, NEW f \in [1..n -> Int], NEW D, NEW E, D \cap E = {}
  PROVE  SumAt(f, D \cup E) = SumAt(f, D) + SumAt(f, E)
<1> DEFINE d == At(f, D)
           e == At(f, E)
           h == At(f, D \cup E)
<1>1. /\ d \in [1..n -> Int] /\ e \in [1..n -> Int] /\ h \in [1..n -> Int]
      /\ SumAt(f, D) = Running(d)[n] /\ SumAt(f, E) = Running(e)[n]
      /\ SumAt(f, D \cup E) = Running(h)[n]
  BY SumAtType
<1>2. \A i \in 1..n : h[i] = d[i] + e[i]
  <2> TAKE i \in 1..n
  <2>1. f[i] \in Int
    OBVIOUS
  <2>2. CASE i \in D
    BY <2>1, <2>2 DEF At
  <2>3. CASE i \notin D
    BY <2>1, <2>3 DEF At
  <2> QED BY <2>2, <2>3
<1> HIDE DEF d, e, h
<1>3. Adds(h, d, e, n)
  BY <1>1, <1>2 DEF Adds
<1>4. Running(h)[n] = Running(d)[n] + Running(e)[n]
  BY <1>3, SumPlus
<1> QED BY <1>1, <1>4 DEF d, e, h

LEMMA SumAtOne ==
  ASSUME NEW n \in Nat, NEW f \in [1..n -> Int], NEW j \in 1..n
  PROVE  SumAt(f, {j}) = f[j]
<1> DEFINE g == At(f, {j})
           step == [k \in 0..n |-> IF k >= j THEN f[j] ELSE 0]
<1>1. g \in [1..n -> Int] /\ SumAt(f, {j}) = Running(g)[n]
  BY SumAtType
<1>2. f[j] \in Int /\ \A k \in 1..n : g[k] = IF k = j THEN f[j] ELSE 0
  BY DEF At
<1> HIDE DEF g
<1>3. Sums(step, g, n)
  <2>1. step \in [0..n -> Int] /\ step[0] = 0
    BY <1>2
  <2>2. ASSUME NEW k \in 1..n PROVE step[k] = step[k - 1] + g[k]
    <3>1. CASE k < j
      BY <1>2, <3>1
    <3>2. CASE k = j
      BY <1>2, <3>2
    <3>3. CASE k > j
      BY <1>2, <3>3
    <3> QED BY <3>1, <3>2, <3>3
  <2> QED BY <2>1, <2>2 DEF Sums
<1>4. Running(g) = step
  BY <1>1, <1>3, RunningSums, SumsOnce
<1>5. step[n] = f[j]
  OBVIOUS
<1> QED BY <1>1, <1>4, <1>5

LEMMA SumAtNat ==
  ASSUME NEW n \in Nat, NEW f \in [1..n -> Int], NEW D, \A i \in D \cap 1..n : f[i] \in Nat
  PROVE  SumAt(f, D) \in Nat
<1>1. At(f, D) \in [1..n -> Nat]
  BY DEF At
<1>2. Running(At(f, D)) \in [0..n -> Nat] /\ SumAt(f, D) = Running(At(f, D))[n]
  BY <1>1, SumGrows, SumAtType
<1>3. n \in 0..n
  OBVIOUS
<1> QED BY <1>2, <1>3

LEMMA SetToSeqOK ==
  ASSUME NEW S, IsFiniteSet(S)
  PROVE  /\ Cardinality(S) \in Nat
         /\ SetToSeq(S) \in [1..Cardinality(S) -> S]
         /\ \A i, j \in 1..Cardinality(S) : SetToSeq(S)[i] = SetToSeq(S)[j] => i = j
         /\ \A e \in S : \E i \in 1..Cardinality(S) : SetToSeq(S)[i] = e
<1> PICK n : n = Cardinality(S)
  OBVIOUS
<1>1. n \in Nat /\ ExistsBijection(1..n, S)
  BY FS_CardinalityType
<1>2. \E f \in [1..n -> S] : IsInjective(f)
  BY <1>1 DEF ExistsBijection, Bijection, Injection
<1>3. SetToSeq(S) \in [1..n -> S] /\ IsInjective(SetToSeq(S))
  BY <1>2 DEF SetToSeq
<1>4. SetToSeq(S) \in Injection(1..n, S)
  BY <1>3 DEF Injection
<1>5. IsFiniteSet(1..n) /\ Cardinality(1..n) = n
  BY <1>1, FS_Interval
<1>6. SetToSeq(S) \in Surjection(1..n, S)
  BY <1>4, <1>5, FS_Injection
<1>7. \A i, j \in 1..n : SetToSeq(S)[i] = SetToSeq(S)[j] => i = j
  BY <1>3 DEF IsInjective
<1> QED BY <1>1, <1>3, <1>6, <1>7 DEF Surjection

\* The transactions of a broker.
OfBroker(list, b) == {i \in DOMAIN list : list[i].broker = b}

\* f[b] is the part of b in the sum over the transactions D.
Parts(f, v, D, list) == f = [b \in Brokers |-> SumAt(v, D \cap OfBroker(list, b))]

\* The brokers share the transactions out among them, and any part D of them.
LEMMA SharedOut ==
  ASSUME NEW list \in Seq(Transactions), NEW n \in Nat, DOMAIN list = 1..n,
         NEW v \in [1..n -> Int], NEW D \in SUBSET (1..n), NEW f, Parts(f, v, D, list)
  PROVE  OverBrokers(f) = SumAt(v, D)
<1> DEFINE all == SetToSeq(Brokers)
<1> PICK m \in Nat : m = Cardinality(Brokers)
  BY SetToSeqOK, PortfolioConstants DEF PortfolioConstants
<1>1. OverBrokers(f) = Total([i \in DOMAIN all |-> f[all[i]]])
  BY DEF OverBrokers
<1>2. /\ all \in [1..m -> Brokers]
      /\ \A i, j \in 1..m : all[i] = all[j] => i = j
      /\ \A b \in Brokers : \E i \in 1..m : all[i] = b
  BY SetToSeqOK, PortfolioConstants DEF PortfolioConstants
<1> HIDE DEF all
<1> DEFINE First(k) == {i \in D : \E j \in 1..k : list[i].broker = all[j]}
           each == [j \in 1..m |-> SumAt(v, D \cap OfBroker(list, all[j]))]
           upTo == [k \in 0..m |-> SumAt(v, First(k))]
<1>3. OverBrokers(f) = Total(each)
  <2>1. [i \in DOMAIN all |-> f[all[i]]] = each
    BY <1>2 DEF Parts
  <2> HIDE DEF each
  <2> QED BY <1>1, <2>1
<1>4. each \in [1..m -> Int] /\ upTo \in [0..m -> Int]
  <2>1. \A E : SumAt(v, E) \in Int
    BY SumAtType
  <2> HIDE DEF First
  <2> QED BY <2>1
<1>5. Sums(upTo, each, m)
  <2>1. upTo[0] = 0
    <3>1. First(0) = {}
      OBVIOUS
    <3> HIDE DEF First
    <3>2. upTo[0] = SumAt(v, First(0))
      OBVIOUS
    <3> HIDE DEF upTo
    <3> QED BY <3>1, <3>2, SumAtNone
  <2>2. ASSUME NEW k \in 1..m PROVE upTo[k] = upTo[k - 1] + each[k]
    <3> DEFINE kth == D \cap OfBroker(list, all[k])
    <3>1. First(k) = First(k - 1) \cup kth
      <4>1. 1..k = 1..(k - 1) \cup {k} /\ D \subseteq DOMAIN list
        OBVIOUS
      <4>2. \A i \in D : i \in First(k) <=> i \in First(k - 1) \/ list[i].broker = all[k]
        BY <4>1
      <4>3. First(k) \subseteq D /\ First(k - 1) \subseteq D
        OBVIOUS
      <4>4. kth = {i \in D : list[i].broker = all[k]}
        BY <4>1 DEF OfBroker
      <4> HIDE DEF First, kth
      <4> QED BY <4>2, <4>3, <4>4
    <3>2. First(k - 1) \cap kth = {}
      BY <1>2 DEF OfBroker
    <3>3. k - 1 \in 0..m /\ k \in 0..m
      OBVIOUS
    <3> HIDE DEF First, kth
    <3>4. SumAt(v, First(k)) = SumAt(v, First(k - 1)) + SumAt(v, kth)
      BY <3>1, <3>2, SumAtUnion
    <3> QED BY <3>3, <3>4 DEF kth
  <2> HIDE DEF upTo, each
  <2> QED BY <1>4, <2>1, <2>2 DEF Sums
<1>6. First(m) = D
  <2>1. \A i \in D : list[i].broker \in Brokers
    <3> TAKE i \in D
    <3>1. list[i] \in Transactions
      OBVIOUS
    <3> QED BY <3>1 DEF Transactions
  <2>2. \A i \in D : \E j \in 1..m : list[i].broker = all[j]
    BY <1>2, <2>1
  <2> QED BY <2>2
<1>7. upTo[m] = SumAt(v, D)
  <2>1. m \in 0..m
    OBVIOUS
  <2> HIDE DEF First
  <2> QED BY <1>6, <2>1
<1>8. Total(each) = upTo[m]
  <2> HIDE DEF each, upTo
  <2>1. Sums(Running(each), each, m) /\ Total(each) = Running(each)[m]
    BY <1>4, RunningSums
  <2>2. Running(each) = upTo
    BY <1>5, <2>1, SumsOnce
  <2> QED BY <2>1, <2>2
<1> QED BY <1>3, <1>7, <1>8

\* What each transaction of list brings to the cost of s, and what D bring together.
Arrivals(list, s) == [i \in DOMAIN list |-> Arrival(list[i], s)]

CostIn(list, D, s) == SumAt(Arrivals(list, s), D)

LEMMA ArrivalsType ==
  ASSUME NEW list \in Seq(Transactions), NEW s
  PROVE  \E n \in Nat :
           /\ n = Len(list) /\ DOMAIN list = 1..n
           /\ Arrivals(list, s) \in [1..n -> Int]
           /\ \A i \in 1..n : Arrivals(list, s)[i] = Arrival(list[i], s)
<1> PICK n \in Nat : n = Len(list) /\ DOMAIN list = 1..n
  OBVIOUS
<1>1. \A i \in 1..n : Arrival(list[i], s) \in Int
  <2> TAKE i \in 1..n
  <2>1. list[i] \in Transactions
    OBVIOUS
  <2>2. Arrival(list[i], s) \in Nat
    BY <2>1, ArrivalType
  <2> QED BY <2>2
<1> QED BY <1>1 DEF Arrivals

LEMMA CostInNone ==
  ASSUME NEW list \in Seq(Transactions), NEW s
  PROVE  CostIn(list, {}, s) = 0
BY ArrivalsType, SumAtNone DEF CostIn

LEMMA CostInUnion ==
  ASSUME NEW list \in Seq(Transactions), NEW s, NEW D, NEW E, D \cap E = {}
  PROVE  CostIn(list, D \cup E, s) = CostIn(list, D, s) + CostIn(list, E, s)
BY ArrivalsType, SumAtUnion DEF CostIn

LEMMA CostInOne ==
  ASSUME NEW list \in Seq(Transactions), NEW s, NEW j \in 1..Len(list)
  PROVE  CostIn(list, {j}, s) = Arrival(list[j], s)
<1> PICK n \in Nat :
      /\ n = Len(list) /\ Arrivals(list, s) \in [1..n -> Int]
      /\ \A i \in 1..n : Arrivals(list, s)[i] = Arrival(list[i], s)
  BY ArrivalsType
<1>1. j \in 1..n
  OBVIOUS
<1>2. SumAt(Arrivals(list, s), {j}) = Arrivals(list, s)[j]
  BY <1>1, SumAtOne
<1> QED BY <1>1, <1>2 DEF CostIn

LEMMA CostsShared ==
  ASSUME NEW list \in Seq(Transactions), NEW s, NEW f,
         f = [b \in Brokers |-> CostIn(list, OfBroker(list, b), s)]
  PROVE  OverBrokers(f) = CostIn(list, DOMAIN list, s)
<1> PICK n \in Nat : DOMAIN list = 1..n /\ Arrivals(list, s) \in [1..n -> Int]
  BY ArrivalsType
<1> PICK v \in [1..n -> Int] : v = Arrivals(list, s)
  OBVIOUS
<1>1. \A b : 1..n \cap OfBroker(list, b) = OfBroker(list, b)
  BY DEF OfBroker
<1>2. f = [b \in Brokers |-> SumAt(v, 1..n \cap OfBroker(list, b))]
  BY <1>1 DEF CostIn
<1>3. OverBrokers(f) = SumAt(v, 1..n)
  <2> PICK D \in SUBSET (1..n) : D = 1..n
    OBVIOUS
  <2>1. Parts(f, v, D, list)
    BY <1>2 DEF Parts
  <2>2. OverBrokers(f) = SumAt(v, D)
    BY <2>1, SharedOut
  <2> QED BY <2>2
<1> QED BY <1>3 DEF CostIn

-----------------------------------------------------------------------------
(* The inductive invariant.                                                 *)

\* What the next transaction of the loop divides, it divides exactly: the assumption of
\* the theorems.
SplitsExact ==
  \A i \in todo :
    (\A j \in todo : txs[i].date <= txs[j].date) /\ txs[i].type = "STOCK_SPLIT"
    => ExactSplit(ledgers[making][txs[i].symbol], txs[i])

\* The transactions a ledger is made of, and those it has had.
Share(l) == IF l = Combined THEN DOMAIN txs ELSE FilterByBroker(l)

Had(l) ==
  IF l = making THEN Share(l) \ todo
  ELSE IF l = Combined \/ l \in reported THEN Share(l) ELSE {}

\* Where handleUpload is.
Phases ==
  /\ todo \subseteq Share(making)
  /\ making \in reported \cup {Combined}
  /\ phase \in {"combine", "combineAgain"} => making = Combined /\ reported = {}
  /\ phase = "combine" => writtenOff = {} /\ \A i \in DOMAIN txs : txs[i].date <= MaxDate
  /\ phase = "done" => todo = {} /\ \A b \in Brokers : b \in reported \/ FilterByBroker(b) = {}
  /\ \A b \in Brokers : b \notin reported => ledgers[b] = NewLedger

PositionsOK == \A l \in Ledgers, s \in Symbols : PositionOK(ledgers[l][s])

\* No lot, and no transaction a ledger has had, is younger than one it has yet to get.
LotsBefore == \A i \in todo, s \in Symbols : Until(ledgers[making][s].lots, txs[i].date)

HadBefore == \A i \in Had(making), j \in todo : txs[i].date <= txs[j].date

\* Nothing a ledger has been told to pay for is lost or counted twice.
CostsKept ==
  \A l \in Ledgers, s \in Symbols : CostOfAll(ledgers[l][s]) = CostIn(txs, Had(l), s)

\* What is held, a transaction brought.
Brought ==
  \A l \in Ledgers, s \in Symbols :
    ledgers[l][s].quantity > 0 => \E i \in Had(l) : txs[i].symbol = s

\* What is dated after the upload is a write-off, and what it closed stays closed.
WriteOffs ==
  /\ \A i \in DOMAIN txs : txs[i].date > MaxDate => Closes(txs[i])
  /\ \A s \in writtenOff : \E i \in DOMAIN txs : txs[i].symbol = s /\ txs[i].date > MaxDate
  /\ \A l \in Ledgers : \A i \in Had(l) :
       txs[i].date > MaxDate => ledgers[l][txs[i].symbol].quantity = 0

PortfolioInv ==
  /\ PortfolioTypeOK /\ Phases /\ PositionsOK
  /\ LotsBefore /\ HadBefore /\ CostsKept /\ Brought /\ WriteOffs

LEMMA NewLedgerOK ==
  ASSUME NEW s \in Symbols
  PROVE  /\ NewLedger \in [Symbols -> Positions]
         /\ PositionOK(NewLedger[s]) /\ NewLedger[s].quantity = 0
         /\ CostOfAll(NewLedger[s]) = 0 /\ \A d : Until(NewLedger[s].lots, d)
<1>1. NewLedger = [t \in Symbols |-> NoPosition]
  BY DEF NewLedger
<1>2. NoPosition \in Positions
  BY NothingHeld DEF PositionOK
<1> QED BY <1>1, <1>2, NothingHeld

LEMMA TxsType ==
  ASSUME PortfolioTypeOK
  PROVE  \A i \in DOMAIN txs : txs[i] \in Transactions
BY DEF PortfolioTypeOK

LEMMA AtTheStart ==
  ASSUME PortfolioInit
  PROVE  PortfolioInv
<1>1. /\ txs \in Histories /\ phase = "combine" /\ making = Combined /\ todo = DOMAIN txs
      /\ ledgers = [l \in Ledgers |-> NewLedger] /\ reported = {} /\ writtenOff = {}
  BY DEF PortfolioInit
<1>2. \A l \in Ledgers : ledgers[l] = NewLedger
  BY <1>1
<1>3. NewLedger \in [Symbols -> Positions]
  BY NothingHeld DEF NewLedger, PositionOK
<1>4. PortfolioTypeOK
  <2>1. txs \in Seq(Transactions)
    BY <1>1, PortfolioConstants DEF PortfolioConstants
  <2>2. ledgers \in [Ledgers -> [Symbols -> Positions]]
    BY <1>1, <1>3
  <2>3. making \in Ledgers
    BY <1>1 DEF Ledgers
  <2> QED BY <1>1, <2>1, <2>2, <2>3 DEF PortfolioTypeOK
<1>5. \A l : Had(l) = {}
  BY <1>1 DEF Had, Share
<1>6. \A i \in DOMAIN txs : txs[i].date <= MaxDate /\ ~(txs[i].date > MaxDate)
  <2>1. \A i \in DOMAIN txs : txs[i].date <= MaxDate
    BY <1>1, PortfolioConstants DEF PortfolioConstants
  <2>2. \A i \in DOMAIN txs : txs[i].date \in Nat
    BY <1>4, TxsType DEF Transactions
  <2>3. MaxDate \in Nat
    BY PortfolioConstants DEF PortfolioConstants
  <2> QED BY <2>1, <2>2, <2>3
<1>7. Phases
  BY <1>1, <1>2, <1>6 DEF Phases, Share, Ledgers
<1>8. PositionsOK
  BY <1>2, NewLedgerOK DEF PositionsOK
<1>9. LotsBefore
  <2>1. making \in Ledgers
    BY <1>1 DEF Ledgers
  <2> QED BY <1>2, <2>1, NewLedgerOK DEF LotsBefore
<1>10. HadBefore
  BY <1>5 DEF HadBefore
<1>11. CostsKept
  <2>1. \A s : CostIn(txs, {}, s) = 0
    BY <1>4, CostInNone DEF PortfolioTypeOK
  <2> QED BY <1>2, <1>5, <2>1, NewLedgerOK DEF CostsKept
<1>12. Brought
  BY <1>2, NewLedgerOK DEF Brought
<1>13. WriteOffs
  BY <1>1, <1>5, <1>6 DEF WriteOffs
<1> QED BY <1>4, <1>7, <1>8, <1>9, <1>10, <1>11, <1>12, <1>13 DEF PortfolioInv

\* The loop of Process applies transaction i.
ProcessOne(i) ==
  /\ i \in todo
  /\ \A j \in todo : txs[i].date <= txs[j].date
  /\ ledgers' = [ledgers EXCEPT ![making] = Applied(@, txs[i])]
  /\ todo' = todo \ {i}
  /\ UNCHANGED <<txs, phase, making, reported, writtenOff>>

LEMMA OneApplied ==
  ASSUME PortfolioInv, NEW i \in DOMAIN txs, ProcessOne(i)
  PROVE  /\ txs[i] \in Transactions
         /\ txs[i].symbol \in Symbols /\ making \in Ledgers
         /\ \A l \in Ledgers : l # making => ledgers'[l] = ledgers[l]
         /\ \A s \in Symbols : s # txs[i].symbol => ledgers'[making][s] = ledgers[making][s]
         /\ ledgers'[making][txs[i].symbol] = Booked(ledgers[making][txs[i].symbol], txs[i])
         /\ \A l \in Ledgers : l # making => Had(l)' = Had(l)
         /\ Had(making)' = Had(making) \cup {i} /\ i \notin Had(making)
<1>1. PICK tx \in Transactions : tx = txs[i]
  BY TxsType DEF PortfolioInv
<1>2. tx.symbol \in Symbols
  BY DEF Transactions
<1>3. making \in Ledgers /\ ledgers \in [Ledgers -> [Symbols -> Positions]]
  BY DEF PortfolioInv, PortfolioTypeOK
<1>4. ledgers' = [ledgers EXCEPT ![making] = Applied(ledgers[making], tx)]
  BY <1>1 DEF ProcessOne
<1>5. Applied(ledgers[making], tx)
        = [ledgers[making] EXCEPT ![tx.symbol] = Booked(ledgers[making][tx.symbol], tx)]
  BY DEF Applied
<1>6. \A l \in Ledgers : l # making => ledgers'[l] = ledgers[l]
  BY <1>3, <1>4
<1>7. ledgers'[making] = Applied(ledgers[making], tx)
  BY <1>3, <1>4
<1>8. ledgers[making] \in [Symbols -> Positions]
  BY <1>3
<1>9. /\ \A s \in Symbols : s # tx.symbol => ledgers'[making][s] = ledgers[making][s]
      /\ ledgers'[making][tx.symbol] = Booked(ledgers[making][tx.symbol], tx)
  BY <1>2, <1>5, <1>7, <1>8
<1>10. /\ \A l : Share(l)' = Share(l)
       /\ making' = making /\ reported' = reported /\ todo' = todo \ {i} /\ i \in todo
  BY DEF Share, FilterByBroker, ProcessOne
<1>11. todo \subseteq Share(making)
  BY DEF PortfolioInv, Phases
<1>12. \A l \in Ledgers : l # making => Had(l)' = Had(l)
  BY <1>10 DEF Had
<1>13. Had(making)' = Had(making) \cup {i} /\ i \notin Had(making)
  BY <1>10, <1>11 DEF Had
<1> QED BY <1>1, <1>2, <1>3, <1>6, <1>9, <1>12, <1>13

LEMMA ProcessKeepsInv ==
  ASSUME PortfolioInv, NEW i \in DOMAIN txs, ProcessOne(i), SplitsExact
  PROVE  PortfolioInv'
<1>1. PICK tx \in Transactions : tx = txs[i]
  BY OneApplied
<1>2. PICK l0 \in Ledgers : l0 = making
  BY OneApplied
<1>3. PICK t \in Symbols : t = tx.symbol
  BY <1>1, OneApplied
<1>4. PICK p : p = ledgers[l0][t]
  OBVIOUS
<1>5. PICK q : q = Booked(p, tx)
  OBVIOUS
<1>6. /\ \A l \in Ledgers : l # l0 => ledgers'[l] = ledgers[l]
      /\ \A s \in Symbols : s # t => ledgers'[l0][s] = ledgers[l0][s]
      /\ ledgers'[l0][t] = q
      /\ \A l \in Ledgers : l # l0 => Had(l)' = Had(l)
      /\ Had(l0)' = Had(l0) \cup {i} /\ i \notin Had(l0)
  <2>1. /\ \A l \in Ledgers : l # making => ledgers'[l] = ledgers[l]
        /\ \A s \in Symbols : s # txs[i].symbol => ledgers'[making][s] = ledgers[making][s]
        /\ ledgers'[making][txs[i].symbol] = Booked(ledgers[making][txs[i].symbol], txs[i])
        /\ \A l \in Ledgers : l # making => Had(l)' = Had(l)
        /\ Had(making)' = Had(making) \cup {i} /\ i \notin Had(making)
    BY OneApplied
  <2>2. Had(making)' = Had(l0)'
    BY <1>2 DEF Had, Share, FilterByBroker, ProcessOne
  <2>3. Had(making) = Had(l0)
    BY <1>2
  <2>4. ledgers'[l0][t] = q
    BY <1>1, <1>2, <1>3, <1>4, <1>5, <2>1
  <2> QED BY <1>1, <1>2, <1>3, <2>1, <2>2, <2>3, <2>4
<1>7. /\ txs' = txs /\ phase' = phase /\ making' = making /\ reported' = reported
      /\ writtenOff' = writtenOff /\ todo' = todo \ {i} /\ i \in todo
      /\ \A j \in todo : txs[i].date <= txs[j].date
      /\ ledgers' = [ledgers EXCEPT ![making] = Applied(@, txs[i])]
  BY DEF ProcessOne
<1>8. /\ PositionOK(p) /\ Until(p.lots, tx.date)
      /\ tx.type = "STOCK_SPLIT" => ExactSplit(p, tx)
  <2>1. PositionOK(p)
    BY <1>4 DEF PortfolioInv, PositionsOK
  <2>2. Until(p.lots, tx.date)
    BY <1>1, <1>2, <1>4, <1>7 DEF PortfolioInv, LotsBefore
  <2>3. tx.type = "STOCK_SPLIT" => ExactSplit(p, tx)
    BY <1>1, <1>2, <1>3, <1>4, <1>7 DEF SplitsExact
  <2> QED BY <2>1, <2>2, <2>3
<1>9. /\ PositionOK(q)
      /\ CostOfAll(q) = CostOfAll(p) + Arrival(tx, t)
      /\ \A e \in Nat : tx.date <= e => Until(q.lots, e)
      /\ Closes(tx) => q.quantity = 0
  BY <1>3, <1>5, <1>8, BookedOK
<1>10. PositionsOK'
  <2> SUFFICES ASSUME NEW l \in Ledgers, NEW s \in Symbols PROVE PositionOK(ledgers'[l][s])
    BY DEF PositionsOK, Ledgers
  <2>1. PositionOK(ledgers[l][s])
    BY DEF PortfolioInv, PositionsOK
  <2>2. CASE l = l0 /\ s = t
    BY <1>6, <1>9, <2>2
  <2>3. CASE ~(l = l0 /\ s = t)
    BY <1>6, <2>1, <2>3
  <2> QED BY <2>2, <2>3
<1>11. PortfolioTypeOK'
  <2>1. ledgers' \in [Ledgers -> [Symbols -> Positions]]
    <3>1. ledgers \in [Ledgers -> [Symbols -> Positions]]
      BY DEF PortfolioInv, PortfolioTypeOK
    <3>2. Applied(ledgers[l0], tx) \in [Symbols -> Positions]
      <4>1. q \in Positions
        BY <1>9 DEF PositionOK
      <4>2. Applied(ledgers[l0], tx) = [ledgers[l0] EXCEPT ![t] = q]
        BY <1>3, <1>4, <1>5 DEF Applied
      <4>3. ledgers[l0] \in [Symbols -> Positions]
        BY <3>1
      <4> QED BY <4>1, <4>2, <4>3
    <3>3. ledgers' = [ledgers EXCEPT ![l0] = Applied(ledgers[l0], tx)]
      BY <1>1, <1>2, <1>7
    <3> QED BY <3>1, <3>2, <3>3
  <2> QED BY <1>7, <2>1 DEF PortfolioInv, PortfolioTypeOK, Ledgers
<1>12. Phases'
  <2>1. /\ todo' \subseteq Share(making)'
        /\ making' \in reported' \cup {Combined}
        /\ phase' \in {"combine", "combineAgain"} => making' = Combined /\ reported' = {}
        /\ phase' = "combine" => writtenOff' = {} /\ \A k \in DOMAIN txs' : txs'[k].date <= MaxDate
        /\ phase' = "done" => todo' = {} /\ \A b \in Brokers : b \in reported' \/ FilterByBroker(b)' = {}
    BY <1>7 DEF PortfolioInv, Phases, Share, FilterByBroker
  <2>2. \A b \in Brokers : b \notin reported' => ledgers'[b] = NewLedger
    <3> TAKE b \in Brokers
    <3> HAVE b \notin reported'
    <3>1. b # l0 /\ b \in Ledgers /\ ledgers[b] = NewLedger
      BY <1>2, <1>7, PortfolioConstants DEF PortfolioInv, Phases, Ledgers, PortfolioConstants
    <3> QED BY <1>6, <3>1
  <2> QED BY <2>1, <2>2 DEF Phases
<1>13. \A j \in DOMAIN txs : txs[j].date \in Nat
  BY TxsType DEF PortfolioInv, Transactions
<1>14. todo \subseteq DOMAIN txs
  BY DEF PortfolioInv, PortfolioTypeOK
<1>15. LotsBefore'
  <2> SUFFICES ASSUME NEW j \in todo', NEW s \in Symbols
               PROVE  Until(ledgers'[l0][s].lots, txs[j].date)
    BY <1>2, <1>7 DEF LotsBefore
  <2>1. /\ j \in todo /\ txs[j].date \in Nat /\ tx.date <= txs[j].date
        /\ Until(ledgers[l0][s].lots, txs[j].date)
    BY <1>1, <1>2, <1>7, <1>13, <1>14 DEF PortfolioInv, LotsBefore
  <2>2. CASE s = t
    BY <1>6, <1>9, <2>1, <2>2
  <2>3. CASE s # t
    BY <1>6, <2>1, <2>3
  <2> QED BY <2>2, <2>3
<1>16. HadBefore'
  <2> SUFFICES ASSUME NEW k \in Had(l0)', NEW j \in todo' PROVE txs[k].date <= txs[j].date
    BY <1>2, <1>7 DEF HadBefore
  <2>1. CASE k = i
    BY <1>7, <2>1
  <2>2. CASE k # i
    BY <1>2, <1>6, <1>7, <2>2 DEF PortfolioInv, HadBefore
  <2> QED BY <2>1, <2>2
<1>17. CostsKept'
  <2> SUFFICES ASSUME NEW l \in Ledgers, NEW s \in Symbols
               PROVE  CostOfAll(ledgers'[l][s]) = CostIn(txs, Had(l)', s)
    BY <1>7 DEF CostsKept, Ledgers
  <2>1. CostOfAll(ledgers[l][s]) = CostIn(txs, Had(l), s)
    BY DEF PortfolioInv, CostsKept
  <2>2. CASE l # l0
    BY <1>6, <2>1, <2>2
  <2>3. CASE l = l0
    <3>1. txs \in Seq(Transactions)
      BY DEF PortfolioInv, PortfolioTypeOK
    <3>2. Had(l) \cap {i} = {} /\ Had(l)' = Had(l) \cup {i} /\ i \in 1..Len(txs)
      BY <1>6, <2>3, <3>1
    <3>3. CostIn(txs, Had(l) \cup {i}, s) = CostIn(txs, Had(l), s) + CostIn(txs, {i}, s)
      BY <3>1, <3>2, CostInUnion
    <3>4. CostIn(txs, {i}, s) = Arrival(tx, s)
      BY <1>1, <3>1, <3>2, CostInOne
    <3>5. CASE s = t
      BY <1>4, <1>6, <1>9, <2>1, <2>3, <3>2, <3>3, <3>4, <3>5
    <3>6. CASE s # t
      <4>1. Arrival(tx, s) = 0
        BY <1>3, <3>6 DEF Arrival
      <4>2. CostIn(txs, Had(l), s) \in Int
        BY <3>1, ArrivalsType, SumAtType DEF CostIn
      <4>3. ledgers'[l][s] = ledgers[l][s]
        BY <1>6, <2>3, <3>6
      <4>4. CostIn(txs, Had(l) \cup {i}, s) = CostIn(txs, Had(l), s)
        BY <3>3, <3>4, <4>1, <4>2
      <4>5. CostIn(txs, Had(l)', s) = CostIn(txs, Had(l), s)
        BY <3>2, <4>4
      <4> QED BY <2>1, <4>3, <4>5
    <3> QED BY <3>5, <3>6
  <2> QED BY <2>2, <2>3
<1>18. Brought'
  <2> SUFFICES ASSUME NEW l \in Ledgers, NEW s \in Symbols, ledgers'[l][s].quantity > 0
               PROVE  \E k \in Had(l)' : txs[k].symbol = s
    BY <1>7 DEF Brought, Ledgers
  <2>1. CASE l = l0 /\ s = t
    BY <1>1, <1>3, <1>6, <2>1
  <2>2. CASE ~(l = l0 /\ s = t)
    <3>1. ledgers'[l][s] = ledgers[l][s] /\ Had(l) \subseteq Had(l)'
      BY <1>6, <2>2
    <3> QED BY <3>1 DEF PortfolioInv, Brought
  <2> QED BY <2>1, <2>2
<1>19. WriteOffs'
  <2>1. /\ \A k \in DOMAIN txs : txs[k].date > MaxDate => Closes(txs[k])
        /\ \A s \in writtenOff : \E k \in DOMAIN txs : txs[k].symbol = s /\ txs[k].date > MaxDate
    BY DEF PortfolioInv, WriteOffs
  <2>2. ASSUME NEW l \in Ledgers, NEW k \in Had(l)', txs[k].date > MaxDate
        PROVE  ledgers'[l][txs[k].symbol].quantity = 0
    <3>1. k \in DOMAIN txs /\ txs[k].symbol \in Symbols
      <4>1. k \in DOMAIN txs
        BY <1>7 DEF Had, Share, FilterByBroker
      <4> QED BY <4>1, TxsType DEF PortfolioInv, Transactions
    <3>2. CASE l # l0
      BY <1>6, <2>2, <3>2 DEF PortfolioInv, WriteOffs
    <3>3. CASE l = l0 /\ k = i
      BY <1>1, <1>3, <1>6, <1>9, <2>1, <2>2, <3>3
    <3>4. CASE l = l0 /\ k # i
      <4>1. k \in Had(l0) /\ ledgers[l0][txs[k].symbol].quantity = 0
        BY <1>6, <2>2, <3>4 DEF PortfolioInv, WriteOffs
      <4>2. tx.date > MaxDate
        <5>1. txs[k].date <= tx.date
          BY <1>1, <1>2, <1>7, <4>1 DEF PortfolioInv, HadBefore
        <5>2. txs[k].date \in Nat /\ tx.date \in Nat /\ MaxDate \in Nat
          BY <1>1, <1>13, <3>1, PortfolioConstants DEF PortfolioConstants
        <5> QED BY <2>2, <5>1, <5>2
      <4>3. q.quantity = 0
        BY <1>1, <1>9, <2>1, <4>2
      <4> QED BY <1>6, <3>1, <3>4, <4>1, <4>3
    <3> QED BY <3>2, <3>3, <3>4
  <2> QED BY <1>7, <2>1, <2>2 DEF WriteOffs, Ledgers
<1> QED BY <1>10, <1>11, <1>12, <1>15, <1>16, <1>17, <1>18, <1>19 DEF PortfolioInv

\* A step that applies nothing and makes nothing anew.
LEMMA KeepsInv ==
  ASSUME PortfolioInv, UNCHANGED <<txs, making, todo, ledgers, reported, writtenOff>>, Phases',
         phase' \in {"combine", "combineAgain", "report", "done"}
  PROVE  PortfolioInv'
<1>1. PortfolioTypeOK' /\ PositionsOK' /\ LotsBefore'
  BY DEF PortfolioInv, PortfolioTypeOK, PositionsOK, LotsBefore, Ledgers
<1>2. \A l : Had(l)' = Had(l)
  BY DEF Had, Share, FilterByBroker
<1>3. HadBefore'
  <2>1. Had(making)' = Had(making)
    BY <1>2
  <2> QED BY <2>1 DEF PortfolioInv, HadBefore
<1>4. CostsKept' /\ Brought' /\ WriteOffs'
  BY <1>2 DEF PortfolioInv, CostsKept, Brought, WriteOffs, Ledgers
<1> QED BY <1>1, <1>3, <1>4 DEF PortfolioInv

\* A write-off closes what is open; the write-offs come after the upload.
LEMMA WriteOffOK ==
  ASSUME PortfolioTypeOK, PositionsOK, NEW s \in Open
  PROVE  /\ WriteOff(s) \in Transactions /\ Closes(WriteOff(s))
         /\ WriteOff(s).symbol = s /\ WriteOff(s).date > MaxDate
<1> PICK p : p = ledgers[Combined][s]
  OBVIOUS
<1>1. s \in Symbols /\ p.quantity > 0 /\ PositionOK(p)
  BY DEF Open, PositionsOK, Ledgers
<1>2. p.quantity \in Nat \ {0}
  BY <1>1 DEF PositionOK, Positions
<1>3. p.lots[1].broker \in Brokers
  <2>1. p.lots[1] \in Lots
    BY <1>1, SomethingHeld
  <2> QED BY <2>1 DEF Lots
<1>4. MaxDate + 1 \in Nat /\ MaxDate + 1 > MaxDate
  BY PortfolioConstants DEF PortfolioConstants
<1>5. WriteOff(s) = [type |-> "SELL", broker |-> p.lots[1].broker, symbol |-> s,
                     date |-> MaxDate + 1, quantity |-> p.quantity, unit |-> 0,
                     liquidate |-> TRUE]
  BY DEF WriteOff
<1> QED BY <1>1, <1>2, <1>3, <1>4, <1>5 DEF Transactions, Types, Closes

LEMMA WriteOffsAppended ==
  ASSUME PortfolioInv, phase = "combine", NEW gone, gone \subseteq Open, NEW all,
         all = txs \o SetToSeq({WriteOff(s) : s \in gone})
  PROVE  /\ all \in Seq(Transactions)
         /\ \A i \in DOMAIN all : all[i].date > MaxDate => Closes(all[i])
         /\ \A s \in gone : \E i \in DOMAIN all : all[i].symbol = s /\ all[i].date > MaxDate
         /\ \A i \in DOMAIN all : Closes(all[i]) \/ \E j \in DOMAIN txs : all[i] = txs[j]
<1> PICK W : W = {WriteOff(s) : s \in gone}
  OBVIOUS
<1>1. \A s \in gone : /\ WriteOff(s) \in Transactions /\ Closes(WriteOff(s))
                      /\ WriteOff(s).symbol = s /\ WriteOff(s).date > MaxDate
  BY WriteOffOK DEF PortfolioInv
<1>2. IsFiniteSet(W)
  <2>1. gone \subseteq Symbols /\ IsFiniteSet(Symbols)
    BY PortfolioConstants DEF PortfolioConstants, Open
  <2>2. IsFiniteSet(gone)
    BY <2>1, FS_Subset
  <2>3. [s \in gone |-> WriteOff(s)] \in Surjection(gone, W)
    BY DEF Surjection
  <2> QED BY <2>2, <2>3, FS_Surjection
<1> PICK m \in Nat : m = Cardinality(W)
  BY <1>2, SetToSeqOK
<1> PICK new : new = SetToSeq(W)
  OBVIOUS
<1>3. new \in [1..m -> W] /\ \A e \in W : \E i \in 1..m : new[i] = e
  BY <1>2, SetToSeqOK
<1>4. W \subseteq Transactions /\ \A e \in W : Closes(e)
  BY <1>1
<1>5. txs \in Seq(Transactions) /\ \A i \in DOMAIN txs : txs[i].date <= MaxDate
  BY DEF PortfolioInv, PortfolioTypeOK, Phases
<1>6. new \in [1..m -> Transactions]
  BY <1>3, <1>4
<1>11. new \in Seq(Transactions) /\ Len(new) = m /\ DOMAIN new = 1..m
  BY <1>6
<1> PICK n \in Nat : n = Len(txs)
  BY <1>5
<1>7. /\ all \in Seq(Transactions) /\ DOMAIN all = 1..(n + m)
      /\ \A i \in 1..n : all[i] = txs[i]
      /\ \A i \in 1..m : all[n + i] = new[i]
  <2>1. txs \in Seq(Transactions) /\ all = txs \o new /\ DOMAIN txs = 1..n
    BY <1>5
  <2>2. all \in Seq(Transactions) /\ Len(all) = n + m
    BY <1>11, <2>1
  <2>3. DOMAIN all = 1..(n + m)
    BY <2>2
  <2>4. \A i \in 1..n : all[i] = txs[i]
    BY <1>11, <2>1
  <2>5. \A i \in 1..m : all[n + i] = new[i]
    BY <1>11, <2>1
  <2> QED BY <2>2, <2>3, <2>4, <2>5
<1>8. ASSUME NEW i \in DOMAIN all
      PROVE  Closes(all[i]) \/ \E j \in DOMAIN txs : all[i] = txs[j]
  <2>1. CASE i \in 1..n
    BY <1>5, <1>7, <2>1
  <2>2. CASE i \notin 1..n
    <3>1. i - n \in 1..m /\ n + (i - n) = i
      BY <1>7, <2>2
    <3>2. all[i] = new[i - n] /\ new[i - n] \in W
      BY <1>3, <1>7, <3>1
    <3> QED BY <1>4, <3>2
  <2> QED BY <2>1, <2>2
<1>10. ASSUME NEW i \in DOMAIN all, all[i].date > MaxDate PROVE Closes(all[i])
  <2> SUFFICES ASSUME NEW j \in DOMAIN txs, all[i] = txs[j] PROVE FALSE
    BY <1>8
  <2>1. txs[j].date <= MaxDate /\ txs[j] \in Transactions
    BY <1>5
  <2>2. MaxDate \in Nat /\ txs[j].date \in Nat
    BY <2>1, PortfolioConstants DEF PortfolioConstants, Transactions
  <2> QED BY <1>10, <2>1, <2>2
<1>9. ASSUME NEW s \in gone PROVE \E i \in DOMAIN all : all[i].symbol = s /\ all[i].date > MaxDate
  <2>1. PICK i \in 1..m : new[i] = WriteOff(s)
    BY <1>3
  <2>2. n + i \in DOMAIN all /\ all[n + i] = WriteOff(s)
    BY <1>7, <2>1
  <2> QED BY <1>1, <2>2
<1> QED BY <1>7, <1>8, <1>9, <1>10

LEMMA AutoWriteOffsKeepsInv ==
  ASSUME PortfolioInv, AutoWriteOffs
  PROVE  PortfolioInv'
<1>1. /\ phase = "combine" /\ todo = {} /\ making = Combined /\ reported = {} /\ writtenOff = {}
      /\ making' = making /\ reported' = reported
  BY DEF AutoWriteOffs, PortfolioInv, Phases
<1>2. PICK gone :
        /\ gone \subseteq Open \cap plainUSD /\ writtenOff' = gone
        /\ IF gone = {}
             THEN phase' = "report" /\ UNCHANGED <<txs, todo, ledgers>>
             ELSE /\ txs' = txs \o SetToSeq({WriteOff(s) : s \in gone})
                  /\ phase' = "combineAgain"
                  /\ todo' = DOMAIN txs'
                  /\ ledgers' = [ledgers EXCEPT ![Combined] = NewLedger]
  BY DEF AutoWriteOffs, Presumed
<1>3. CASE gone = {}
  <2>1. UNCHANGED <<txs, making, todo, ledgers, reported, writtenOff>> /\ phase' = "report"
    BY <1>1, <1>2, <1>3
  <2>2. Phases'
    BY <1>1, <2>1 DEF PortfolioInv, Phases, Share, FilterByBroker
  <2> QED BY <2>1, <2>2, KeepsInv
<1>4. CASE gone # {}
  <2>1. /\ txs' = txs \o SetToSeq({WriteOff(s) : s \in gone}) /\ phase' = "combineAgain"
        /\ todo' = DOMAIN txs' /\ ledgers' = [ledgers EXCEPT ![Combined] = NewLedger]
    BY <1>2, <1>4
  <2>2. /\ txs' \in Seq(Transactions)
        /\ \A i \in DOMAIN txs' : txs'[i].date > MaxDate => Closes(txs'[i])
        /\ \A s \in gone : \E i \in DOMAIN txs' : txs'[i].symbol = s /\ txs'[i].date > MaxDate
    <3> PICK all : all = txs'
      OBVIOUS
    <3>1. gone \subseteq Open /\ all = txs \o SetToSeq({WriteOff(s) : s \in gone})
      BY <1>2, <2>1
    <3>2. phase = "combine"
      BY <1>1
    <3>3. /\ all \in Seq(Transactions)
          /\ \A i \in DOMAIN all : all[i].date > MaxDate => Closes(all[i])
          /\ \A s \in gone : \E i \in DOMAIN all : all[i].symbol = s /\ all[i].date > MaxDate
      BY <3>1, <3>2, WriteOffsAppended, Zenon
    <3> QED BY <3>3
  <2>3. ledgers \in [Ledgers -> [Symbols -> Positions]] /\ Combined \in Ledgers
    BY DEF PortfolioInv, PortfolioTypeOK, Ledgers
  <2>4. \A l \in Ledgers : ledgers'[l] = NewLedger
    <3> TAKE l \in Ledgers
    <3>1. CASE l = Combined
      BY <2>1, <2>3, <3>1
    <3>2. CASE l # Combined
      BY <1>1, <2>1, <2>3, <3>2 DEF PortfolioInv, Phases, Ledgers
    <3> QED BY <3>1, <3>2
  <2>5. \A l : Had(l)' = {}
    BY <1>1, <2>1 DEF Had, Share
  <2>6. PortfolioTypeOK'
    <3>1. NewLedger \in [Symbols -> Positions]
      BY NothingHeld DEF NewLedger, PositionOK
    <3>2. ledgers' \in [Ledgers -> [Symbols -> Positions]]
      BY <2>1, <2>3, <3>1
    <3> QED BY <1>1, <1>2, <2>1, <2>2, <2>3, <3>2 DEF PortfolioTypeOK, Ledgers
  <2>7. Phases'
    BY <1>1, <2>1, <2>4 DEF Phases, Share, Ledgers
  <2>8. PositionsOK'
    BY <2>4, NewLedgerOK DEF PositionsOK, Ledgers
  <2>9. LotsBefore'
    BY <1>1, <2>3, <2>4, NewLedgerOK DEF LotsBefore
  <2>10. HadBefore'
    <3>1. Had(making)' = {}
      BY <2>5
    <3> QED BY <3>1 DEF HadBefore
  <2>11. CostsKept'
    <3>1. \A s : CostIn(txs', {}, s) = 0
      BY <2>2, CostInNone
    <3> QED BY <2>4, <2>5, <3>1, NewLedgerOK DEF CostsKept, Ledgers
  <2>12. Brought'
    BY <2>4, NewLedgerOK DEF Brought, Ledgers
  <2>13. WriteOffs'
    BY <1>2, <2>2, <2>5 DEF WriteOffs
  <2> QED BY <2>6, <2>7, <2>8, <2>9, <2>10, <2>11, <2>12, <2>13 DEF PortfolioInv
<1> QED BY <1>3, <1>4

LEMMA ReportKeepsInv ==
  ASSUME PortfolioInv, NEW b \in Brokers, ReportBroker(b)
  PROVE  PortfolioInv'
<1>1. /\ phase = "report" /\ todo = {} /\ b \notin reported /\ making' = b
      /\ reported' = reported \cup {b} /\ todo' = FilterByBroker(b)
      /\ UNCHANGED <<txs, phase, ledgers, writtenOff>>
  BY DEF ReportBroker, Waiting
<1>2. b # Combined /\ b # making /\ b \in Ledgers /\ making \in reported \cup {Combined}
  BY <1>1, PortfolioConstants DEF PortfolioInv, Phases, Ledgers, PortfolioConstants
<1>3. \A l : Share(l)' = Share(l)
  BY <1>1 DEF Share, FilterByBroker
<1>4. Share(b) = FilterByBroker(b)
  BY <1>2 DEF Share
<1>5. \A l : Had(l)' = Had(l)
  BY <1>1, <1>2, <1>3, <1>4 DEF Had
<1>6. Had(b)' = {}
  BY <1>1, <1>2, <1>3, <1>4 DEF Had
<1>7. ledgers[b] = NewLedger
  BY <1>1 DEF PortfolioInv, Phases
<1>8. PortfolioTypeOK' /\ PositionsOK'
  BY <1>1, <1>2 DEF PortfolioInv, PortfolioTypeOK, PositionsOK, Ledgers, FilterByBroker
<1>9. Phases'
  BY <1>1, <1>2, <1>3, <1>4 DEF PortfolioInv, Phases, Ledgers
<1>10. LotsBefore'
  BY <1>1, <1>7, NewLedgerOK DEF LotsBefore
<1>11. HadBefore'
  <2>1. Had(making)' = {}
    BY <1>1, <1>3, <1>4, <1>6 DEF Had
  <2> QED BY <2>1 DEF HadBefore
<1>12. CostsKept' /\ Brought' /\ WriteOffs'
  BY <1>1, <1>5 DEF PortfolioInv, CostsKept, Brought, WriteOffs, Ledgers
<1> QED BY <1>8, <1>9, <1>10, <1>11, <1>12 DEF PortfolioInv

LEMMA StepKeepsInv ==
  ASSUME PortfolioInv, [PortfolioNext]_vars, SplitsExact
  PROVE  PortfolioInv'
<1>1. CASE Process
  <2>1. PICK i \in todo : ProcessOne(i)
    BY <1>1 DEF Process, ProcessOne
  <2>2. i \in DOMAIN txs
    BY DEF PortfolioInv, PortfolioTypeOK
  <2> QED BY <2>1, <2>2, ProcessKeepsInv
<1>2. CASE AutoWriteOffs
  BY <1>2, AutoWriteOffsKeepsInv
<1>3. CASE CombinedAgain
  <2>1. UNCHANGED <<txs, making, todo, ledgers, reported, writtenOff>> /\ phase' = "report"
    BY <1>3 DEF CombinedAgain
  <2>2. Phases'
    BY <2>1 DEF PortfolioInv, Phases, Share, FilterByBroker
  <2> QED BY <2>1, <2>2, KeepsInv
<1>4. CASE Answer
  <2>1. /\ UNCHANGED <<txs, making, todo, ledgers, reported, writtenOff>> /\ phase' = "done"
        /\ todo = {} /\ Waiting = {}
    BY <1>4 DEF Answer
  <2>2. Phases'
    BY <2>1 DEF PortfolioInv, Phases, Share, FilterByBroker, Waiting
  <2> QED BY <2>1, <2>2, KeepsInv
<1>5. ASSUME NEW b \in Brokers, ReportBroker(b) PROVE PortfolioInv'
  BY <1>5, ReportKeepsInv
<1>6. CASE UNCHANGED vars
  <2>1. UNCHANGED <<txs, making, todo, ledgers, reported, writtenOff>> /\ phase' = phase
    BY <1>6 DEF vars
  <2>2. Phases' /\ phase' \in {"combine", "combineAgain", "report", "done"}
    BY <2>1 DEF PortfolioInv, PortfolioTypeOK, Phases, Share, FilterByBroker
  <2> QED BY <2>1, <2>2, KeepsInv
<1> QED BY <1>1, <1>2, <1>3, <1>4, <1>5, <1>6 DEF PortfolioNext

-----------------------------------------------------------------------------
(* What the invariant implies.                                              *)

LEMMA AllHad ==
  ASSUME PortfolioInv, phase = "done", NEW l \in Ledgers
  PROVE  Had(l) = Share(l)
<1>1. todo = {} /\ \A b \in Brokers : b \in reported \/ FilterByBroker(b) = {}
  BY DEF PortfolioInv, Phases
<1>2. CASE l = making \/ l = Combined \/ l \in reported
  BY <1>1, <1>2 DEF Had
<1>3. CASE ~(l = making \/ l = Combined \/ l \in reported)
  BY <1>1, <1>3 DEF Had, Share, Ledgers
<1> QED BY <1>2, <1>3

LEMMA TotalsMatch ==
  ASSUME PortfolioInv
  PROVE  TotalsMatchLots /\ OnlyOldestPartial
<1>1. \A p \in Held : PositionOK(p)
  BY DEF Held, PortfolioInv, PositionsOK
<1> QED BY <1>1 DEF TotalsMatchLots, OnlyOldestPartial, PositionOK, FirstIn

LEMMA CostsInTotal ==
  ASSUME PortfolioInv
  PROVE  CostsAddUp
<1> SUFFICES ASSUME phase = "done", NEW s \in Symbols
             PROVE  CostOfAll(ledgers[Combined][s])
                      = OverBrokers([b \in Brokers |-> CostOfAll(ledgers[b][s])])
  BY DEF CostsAddUp
<1>1. \A l \in Ledgers : CostOfAll(ledgers[l][s]) = CostIn(txs, Share(l), s)
  BY AllHad DEF PortfolioInv, CostsKept
<1>2. CostOfAll(ledgers[Combined][s]) = CostIn(txs, DOMAIN txs, s)
  BY <1>1 DEF Share, Ledgers
<1>3. \A b \in Brokers : CostOfAll(ledgers[b][s]) = CostIn(txs, OfBroker(txs, b), s)
  <2> TAKE b \in Brokers
  <2>1. b \in Ledgers /\ Share(b) = OfBroker(txs, b)
    BY PortfolioConstants DEF PortfolioConstants, Ledgers, Share, FilterByBroker, OfBroker
  <2> QED BY <1>1, <2>1
<1> PICK f : f = [b \in Brokers |-> CostIn(txs, OfBroker(txs, b), s)]
  OBVIOUS
<1>4. [b \in Brokers |-> CostOfAll(ledgers[b][s])] = f
  BY <1>3
<1>5. txs \in Seq(Transactions)
  BY DEF PortfolioInv, PortfolioTypeOK
<1>6. OverBrokers(f) = CostIn(txs, DOMAIN txs, s)
  BY <1>5, CostsShared
<1> QED BY <1>2, <1>4, <1>6

LEMMA TwoOf ==
  ASSUME NEW S, IsFiniteSet(S), NEW a \in S, NEW b \in S, a # b
  PROVE  Cardinality(S) > 1
<1>1. IsFiniteSet({a}) /\ Cardinality({a}) = 1
  BY FS_Singleton
<1>2. IsFiniteSet({a} \cup {b}) /\ Cardinality({a} \cup {b}) = 2
  <2>1. b \notin {a}
    OBVIOUS
  <2> PICK one : one = {a}
    OBVIOUS
  <2>2. Cardinality(one \cup {b}) = Cardinality(one) + 1
    BY <1>1, <2>1, FS_AddElement
  <2>3. IsFiniteSet(one \cup {b})
    BY <1>1, FS_AddElement
  <2> QED BY <1>1, <2>2, <2>3
<1>3. {a} \cup {b} \subseteq S
  OBVIOUS
<1>4. Cardinality({a} \cup {b}) <= Cardinality(S)
  BY <1>3, FS_Subset
<1>5. Cardinality(S) \in Nat
  BY FS_CardinalityType
<1> QED BY <1>2, <1>4, <1>5

LEMMA GoneEverywhere ==
  ASSUME PortfolioInv
  PROVE  WrittenOffEverywhere
<1> SUFFICES ASSUME phase = "done", NEW s \in writtenOff,
                    ~(Cardinality({txs[i].broker : i \in {j \in DOMAIN txs : txs[j].symbol = s}}) > 1),
                    NEW l \in Ledgers, ledgers[l][s].quantity # 0
             PROVE  FALSE
  BY DEF WrittenOffEverywhere
<1> DEFINE having == {txs[i].broker : i \in {j \in DOMAIN txs : txs[j].symbol = s}}
<1>1. s \in Symbols
  BY PortfolioConstants DEF PortfolioConstants, PortfolioInv, PortfolioTypeOK
<1>2. ledgers[l][s].quantity > 0
  <2>1. ledgers[l][s].quantity \in Nat
    BY <1>1 DEF PortfolioInv, PositionsOK, PositionOK, Positions
  <2> QED BY <2>1
<1>3. PICK k \in DOMAIN txs : txs[k].symbol = s /\ txs[k].date > MaxDate
  BY DEF PortfolioInv, WriteOffs
<1>4. PICK i \in Had(l) : txs[i].symbol = s
  BY <1>1, <1>2 DEF PortfolioInv, Brought
<1>5. Had(l) = Share(l)
  BY AllHad
<1>6. i \in DOMAIN txs
  BY <1>4, <1>5 DEF Share, FilterByBroker
<1>7. txs[i].broker = txs[k].broker
  <2>1. txs[i].broker \in having /\ txs[k].broker \in having
    BY <1>3, <1>4, <1>6
  <2>2. having \subseteq Brokers
    BY TxsType DEF PortfolioInv, Transactions
  <2>3. IsFiniteSet(having)
    BY <2>2, PortfolioConstants, FS_Subset DEF PortfolioConstants
  <2>4. ~(Cardinality(having) > 1)
    OBVIOUS
  <2> HIDE DEF having
  <2> QED BY <2>1, <2>3, <2>4, TwoOf
<1>8. k \in Had(l)
  BY <1>3, <1>4, <1>5, <1>6, <1>7 DEF Share, FilterByBroker
<1>9. ledgers[l][s].quantity = 0
  BY <1>3, <1>8 DEF PortfolioInv, WriteOffs
<1> QED BY <1>2, <1>9

-----------------------------------------------------------------------------
(* The quantities of the brokers and of all of them.                        *)

LEMMA OverBrokersPositive ==
  ASSUME NEW g \in [Brokers -> Nat], NEW b \in Brokers, g[b] > 0
  PROVE  OverBrokers(g) > 0
<1> DEFINE all == SetToSeq(Brokers)
<1> PICK m \in Nat : m = Cardinality(Brokers)
  BY SetToSeqOK, PortfolioConstants DEF PortfolioConstants
<1>1. OverBrokers(g) = Total([i \in DOMAIN all |-> g[all[i]]])
  BY DEF OverBrokers
<1>2. all \in [1..m -> Brokers] /\ \E k \in 1..m : all[k] = b
  BY SetToSeqOK, PortfolioConstants DEF PortfolioConstants
<1> HIDE DEF all
<1> PICK k \in 1..m : all[k] = b
  BY <1>2
<1> PICK h \in [1..m -> Nat] : h = [i \in DOMAIN all |-> g[all[i]]]
  BY <1>2
<1>3. h[k] \in Nat /\ h[k] > 0
  <2>1. k \in DOMAIN all
    BY <1>2
  <2>2. h[k] = g[all[k]]
    BY <2>1
  <2> QED BY <2>2
<1>4. Sums(Running(h), h, m) /\ Total(h) = Running(h)[m]
  <2>1. \A f \in [1..m -> Int] : Sums(Running(f), f, m) /\ Total(f) = Running(f)[m]
    BY RunningSums
  <2> QED BY <2>1
<1>5. /\ Running(h) \in [0..m -> Nat]
      /\ \A i, j \in 0..m : i <= j => Running(h)[i] <= Running(h)[j]
  BY SumGrows
<1>6. k - 1 \in 0..m /\ k \in 0..m /\ m \in 0..m /\ k <= m
  OBVIOUS
<1>7. Running(h)[k] = Running(h)[k - 1] + h[k] /\ Running(h)[k - 1] \in Nat
  BY <1>4, <1>5, <1>6 DEF Sums
<1>8. Running(h)[k] <= Running(h)[m] /\ Running(h)[m] \in Nat
  BY <1>5, <1>6
<1>9. Running(h)[m] > 0
  BY <1>3, <1>7, <1>8
<1> QED BY <1>1, <1>4, <1>9

LEMMA BalanceIsSum ==
  ASSUME PortfolioTypeOK, NEW s
  PROVE  \E n \in Nat :
           /\ n = Len(txs) /\ DOMAIN txs = 1..n
           /\ Changes(s) \in [1..n -> Int]
           /\ \A i \in 1..n : Changes(s)[i] = IF txs[i].symbol = s THEN Change(txs[i]) ELSE 0
           /\ \A D : Balance(D, s) = SumAt(Changes(s), D)
<1> PICK n \in Nat : n = Len(txs) /\ DOMAIN txs = 1..n
  BY DEF PortfolioTypeOK
<1>1. \A i \in 1..n : (IF txs[i].symbol = s THEN Change(txs[i]) ELSE 0) \in Int
  <2> TAKE i \in 1..n
  <2>1. txs[i].quantity \in Nat
    BY TxsType DEF Transactions
  <2>2. Change(txs[i]) \in Int
    BY <2>1 DEF Change
  <2> QED BY <2>2
<1>2. /\ Changes(s) \in [1..n -> Int]
      /\ \A i \in 1..n : Changes(s)[i] = IF txs[i].symbol = s THEN Change(txs[i]) ELSE 0
  BY <1>1 DEF Changes
<1>3. ASSUME NEW D PROVE Balance(D, s) = SumAt(Changes(s), D)
  <2>1. DOMAIN Changes(s) = DOMAIN txs
    BY <1>2
  <2> QED BY <2>1 DEF Balance, SumAt, At
<1> QED BY <1>2, <1>3

LEMMA BalanceType ==
  ASSUME PortfolioTypeOK, NEW s, NEW D
  PROVE  Balance(D, s) \in Int
<1> PICK n \in Nat :
      /\ Changes(s) \in [1..n -> Int]
      /\ \A G : Balance(G, s) = SumAt(Changes(s), G)
  BY BalanceIsSum
<1>1. SumAt(Changes(s), D) \in Int
  BY SumAtType
<1> QED BY <1>1

LEMMA BalanceNone ==
  ASSUME PortfolioTypeOK, NEW s
  PROVE  Balance({}, s) = 0
<1> PICK n \in Nat :
      /\ Changes(s) \in [1..n -> Int]
      /\ \A G : Balance(G, s) = SumAt(Changes(s), G)
  BY BalanceIsSum
<1>1. SumAt(Changes(s), {}) = 0
  BY SumAtNone
<1> QED BY <1>1

LEMMA BalanceUnion ==
  ASSUME PortfolioTypeOK, NEW s, NEW D, NEW E, D \cap E = {}
  PROVE  Balance(D \cup E, s) = Balance(D, s) + Balance(E, s)
<1> PICK n \in Nat :
      /\ Changes(s) \in [1..n -> Int]
      /\ \A G : Balance(G, s) = SumAt(Changes(s), G)
  BY BalanceIsSum
<1>1. SumAt(Changes(s), D \cup E) = SumAt(Changes(s), D) + SumAt(Changes(s), E)
  BY SumAtUnion
<1> QED BY <1>1

LEMMA BalanceOne ==
  ASSUME PortfolioTypeOK, NEW s, NEW i \in DOMAIN txs
  PROVE  Balance({i}, s) = IF txs[i].symbol = s THEN Change(txs[i]) ELSE 0
<1> PICK n \in Nat :
      /\ DOMAIN txs = 1..n /\ Changes(s) \in [1..n -> Int]
      /\ \A k \in 1..n : Changes(s)[k] = IF txs[k].symbol = s THEN Change(txs[k]) ELSE 0
      /\ \A D : Balance(D, s) = SumAt(Changes(s), D)
  BY BalanceIsSum
<1>1. SumAt(Changes(s), {i}) = Changes(s)[i]
  BY SumAtOne
<1> QED BY <1>1

LEMMA BalanceNat ==
  ASSUME PortfolioTypeOK, NEW s, NEW D,
         \A i \in D \cap DOMAIN txs : txs[i].symbol = s => Change(txs[i]) \in Nat
  PROVE  Balance(D, s) \in Nat
<1> PICK n \in Nat :
      /\ DOMAIN txs = 1..n /\ Changes(s) \in [1..n -> Int]
      /\ \A k \in 1..n : Changes(s)[k] = IF txs[k].symbol = s THEN Change(txs[k]) ELSE 0
      /\ \A E : Balance(E, s) = SumAt(Changes(s), E)
  BY BalanceIsSum
<1>1. \A i \in D \cap 1..n : Changes(s)[i] \in Nat
  OBVIOUS
<1>2. SumAt(Changes(s), D) \in Nat
  BY <1>1, SumAtNat
<1> QED BY <1>2

LEMMA BalanceShared ==
  ASSUME PortfolioTypeOK, NEW s, NEW D, D \subseteq DOMAIN txs
  PROVE  OverBrokers([b \in Brokers |-> Balance(D \cap FilterByBroker(b), s)]) = Balance(D, s)
<1> PICK n \in Nat :
      /\ DOMAIN txs = 1..n /\ Changes(s) \in [1..n -> Int]
      /\ \A E : Balance(E, s) = SumAt(Changes(s), E)
  BY BalanceIsSum
<1> PICK f : f = [b \in Brokers |-> Balance(D \cap FilterByBroker(b), s)]
  OBVIOUS
<1>1. Parts(f, Changes(s), D, txs)
  BY DEF Parts, OfBroker, FilterByBroker
<1>2. txs \in Seq(Transactions) /\ D \in SUBSET (1..n)
  BY DEF PortfolioTypeOK
<1>3. OverBrokers(f) = SumAt(Changes(s), D)
  BY <1>1, <1>2, SharedOut
<1> QED BY <1>3

\* What a ledger is made of and dated before e.
Before(l, e) == {j \in Share(l) : txs[j].date < e}

\* No sale closes s whole, and its splits come alone and on what is held.
Plain(s) ==
  /\ SplitsAlone(s) /\ SplitsHeld(s)
  /\ \A i \in DOMAIN txs : txs[i].symbol = s => ~txs[i].liquidate

\* All brokers together hold something when one reports a split.
HeldByAll(s) ==
  \A i \in DOMAIN txs :
    txs[i].symbol = s /\ txs[i].type = "STOCK_SPLIT" /\ txs[i].quantity > 0
    => Balance(Before(Combined, txs[i].date), s) > 0

Regular(l, s) == Plain(s) /\ ~ledgers[l][s].oversold /\ (l = Combined => HeldByAll(s))

\* The quantity of a ledger is the balance of the transactions it has had, and at no
\* date was the balance below zero.
QuantitiesKept ==
  \A l \in Ledgers, s \in Symbols : Regular(l, s) => ledgers[l][s].quantity = Balance(Had(l), s)

NoDebt ==
  \A l \in Ledgers, s \in Symbols, e \in Nat :
    Regular(l, s) /\ Before(l, e) \subseteq Had(l) => Balance(Before(l, e), s) >= 0

QuantityInv == QuantitiesKept /\ NoDebt

\* No ledger has had any transaction.
Fresh == \A l \in Ledgers : Had(l) = {} /\ ledgers[l] = NewLedger

LEMMA NothingHad == PortfolioTypeOK /\ Fresh => QuantityInv
<1> SUFFICES ASSUME PortfolioTypeOK, Fresh PROVE QuantityInv
  OBVIOUS
<1>1. QuantitiesKept
  BY NewLedgerOK, BalanceNone DEF QuantitiesKept, Fresh
<1>2. NoDebt
  <2> SUFFICES ASSUME NEW l \in Ledgers, NEW s \in Symbols, NEW e \in Nat,
                      Before(l, e) \subseteq Had(l)
               PROVE  Balance(Before(l, e), s) >= 0
    BY DEF NoDebt
  <2>1. Before(l, e) = {}
    BY DEF Fresh
  <2>2. Balance({}, s) = 0
    BY BalanceNone
  <2> QED BY <2>1, <2>2
<1> QED BY <1>1, <1>2 DEF QuantityInv

\* The same transactions, had by the same ledgers.
LEMMA SameHad ==
  ASSUME QuantityInv, txs' = txs, ledgers' = ledgers, \A l : Had(l)' = Had(l)
  PROVE  QuantityInv'
<1>1. \A l, e : Before(l, e)' = Before(l, e)
  BY DEF Before, Share, FilterByBroker
<1>2. \A D, s : Balance(D, s)' = Balance(D, s)
  BY DEF Balance, Changes
<1>3. \A s : Plain(s)' <=> Plain(s)
  BY DEF Plain, SplitsAlone, SplitsHeld, FilterByBroker, Balance, Changes
<1>4. \A s : HeldByAll(s)' <=> HeldByAll(s)
  BY DEF HeldByAll, Before, Share, FilterByBroker, Balance, Changes
<1>5. \A l, s : Regular(l, s)' <=> Regular(l, s)
  BY <1>3, <1>4 DEF Regular
<1>6. QuantitiesKept'
  BY <1>2, <1>5 DEF QuantityInv, QuantitiesKept, Ledgers
<1>7. NoDebt'
  BY <1>1, <1>2, <1>5 DEF QuantityInv, NoDebt, Ledgers
<1> QED BY <1>6, <1>7 DEF QuantityInv

\* A split meets a holding: all before its date is had, and of its own date only
\* other splits are.
LEMMA SplitMeets ==
  ASSUME PortfolioInv, QuantityInv, NEW i \in DOMAIN txs, ProcessOne(i),
         Regular(making, txs[i].symbol), txs[i].type = "STOCK_SPLIT", txs[i].quantity > 0
  PROVE  ledgers[making][txs[i].symbol].quantity > 0
<1> DEFINE s == txs[i].symbol
           B == Before(making, txs[i].date)
           X == Had(making) \ B
<1>1. /\ PortfolioTypeOK /\ s \in Symbols /\ making \in Ledgers /\ Plain(s)
      /\ \A j \in DOMAIN txs : txs[j].date \in Nat /\ txs[j].quantity \in Nat
  BY TxsType, OneApplied DEF PortfolioInv, Transactions, Regular
<1>2. Had(making) = Share(making) \ todo /\ Share(making) \subseteq DOMAIN txs /\ i \in Share(making)
  BY DEF Had, Share, FilterByBroker, PortfolioInv, Phases, ProcessOne
<1>3. B \subseteq Had(making)
  BY <1>1, <1>2 DEF Before, ProcessOne
<1>4. Balance(B, s) > 0
  <2>1. CASE making = Combined
    BY <1>1, <2>1 DEF Regular, HeldByAll
  <2>2. CASE making # Combined
    <3>1. txs[i].broker = making /\ B = {j \in FilterByBroker(txs[i].broker) : txs[j].date < txs[i].date}
      BY <1>2, <2>2 DEF Share, FilterByBroker, Before
    <3> QED BY <1>1, <3>1 DEF Plain, SplitsHeld
  <2> QED BY <2>1, <2>2
<1>5. Balance(X, s) \in Nat
  <2>1. ASSUME NEW j \in X \cap DOMAIN txs, txs[j].symbol = s
        PROVE  Change(txs[j]) \in Nat
    <3>1. j \in Had(making) /\ j \notin B
      BY <2>1
    <3>2. txs[j].date <= txs[i].date
      BY <3>1 DEF PortfolioInv, HadBefore, ProcessOne
    <3>3. ~(txs[j].date < txs[i].date)
      BY <1>2, <3>1 DEF Before
    <3>4. txs[j].date = txs[i].date
      BY <1>1, <3>2, <3>3
    <3>5. txs[j].type = "STOCK_SPLIT"
      BY <1>1, <2>1, <3>4 DEF Plain, SplitsAlone
    <3> QED BY <1>1, <3>5 DEF Change
  <2> HIDE DEF X, s
  <2> QED BY <1>1, <2>1, BalanceNat
<1>6. Balance(Had(making), s) = Balance(B, s) + Balance(X, s)
  <2>1. B \cap X = {} /\ B \cup X = Had(making)
    BY <1>3
  <2> HIDE DEF B, X, s
  <2> QED BY <1>1, <2>1, BalanceUnion
<1>7. ledgers[making][s].quantity = Balance(Had(making), s)
  BY <1>1 DEF QuantityInv, QuantitiesKept
<1>8. Balance(B, s) \in Int
  <2> HIDE DEF B, s
  <2> QED BY <1>1, BalanceType
<1> HIDE DEF B, X
<1> QED BY <1>4, <1>5, <1>6, <1>7, <1>8

LEMMA ProcessKeepsQuantities ==
  ASSUME PortfolioInv, PortfolioInv', QuantityInv, NEW i \in DOMAIN txs, ProcessOne(i)
  PROVE  QuantityInv'
<1> DEFINE tx == txs[i]
<1>1. /\ PortfolioTypeOK /\ tx \in Transactions /\ tx.symbol \in Symbols /\ making \in Ledgers
      /\ txs' = txs /\ making' = making
  BY OneApplied DEF PortfolioInv, ProcessOne
<1>2. /\ \A l, e : Before(l, e)' = Before(l, e)
      /\ \A D, s : Balance(D, s)' = Balance(D, s)
      /\ \A s : Plain(s)' <=> Plain(s)
      /\ \A s : HeldByAll(s)' <=> HeldByAll(s)
  BY <1>1 DEF Before, Share, FilterByBroker, Balance, Changes, Plain, SplitsAlone, SplitsHeld,
              HeldByAll
<1>3. ASSUME NEW l \in Ledgers, NEW s \in Symbols, ~(l = making /\ s = tx.symbol)
      PROVE  ledgers'[l][s] = ledgers[l][s]
  <2>1. CASE l = making
    BY <1>3, <2>1, OneApplied
  <2>2. CASE l # making
    BY <2>2, OneApplied
  <2> QED BY <2>1, <2>2
<1>4. ASSUME NEW l \in Ledgers, NEW s \in Symbols, Regular(l, s)'
      PROVE  Regular(l, s)
  <2>1. CASE l = making /\ s = tx.symbol
    <3>1. PositionOK(ledgers[making][tx.symbol])
      BY <1>1 DEF PortfolioInv, PositionsOK
    <3>2. ~Booked(ledgers[making][tx.symbol], tx).oversold
      BY <1>4, <2>1, OneApplied DEF Regular
    <3>3. ~ledgers[making][tx.symbol].oversold
      BY <1>1, <3>1, <3>2, OversoldStays
    <3> QED BY <1>2, <1>4, <2>1, <3>3 DEF Regular
  <2>2. CASE ~(l = making /\ s = tx.symbol)
    BY <1>2, <1>3, <1>4, <2>2 DEF Regular
  <2> QED BY <2>1, <2>2
<1>5. ASSUME NEW l \in Ledgers, NEW s \in Symbols, Regular(l, s)'
      PROVE  ledgers'[l][s].quantity = Balance(Had(l)', s)
  <2>1. Regular(l, s) /\ ledgers[l][s].quantity = Balance(Had(l), s)
    BY <1>4, <1>5 DEF QuantityInv, QuantitiesKept
  <2>2. CASE l # making
    BY <1>3, <2>1, <2>2, OneApplied
  <2>3. CASE l = making
    <3>1. Had(l)' = Had(l) \cup {i} /\ Had(l) \cap {i} = {}
      BY <1>1, <2>3, OneApplied
    <3>2. Balance(Had(l)', s) = ledgers[l][s].quantity + Balance({i}, s)
      <4> PICK H : H = Had(l)
        OBVIOUS
      <4>1. Balance(H \cup {i}, s) = Balance(H, s) + Balance({i}, s)
        BY <1>1, <3>1, BalanceUnion
      <4> QED BY <2>1, <3>1, <4>1
    <3>3. Balance({i}, s) = IF tx.symbol = s THEN Change(tx) ELSE 0
      BY <1>1, BalanceOne
    <3>4. CASE s # tx.symbol
      <4>1. ledgers'[l][s] = ledgers[l][s] /\ ledgers[l][s].quantity \in Nat
        BY <1>3, <3>4 DEF PortfolioInv, PositionsOK, PositionOK, Positions
      <4> QED BY <3>2, <3>3, <3>4, <4>1
    <3>5. CASE s = tx.symbol
      <4>1. PositionOK(ledgers[l][s])
        BY DEF PortfolioInv, PositionsOK
      <4>2. ledgers'[l][s] = Booked(ledgers[l][s], tx)
        BY <2>3, <3>5, OneApplied
      <4>3. ~Booked(ledgers[l][s], tx).oversold /\ ~tx.liquidate
        BY <1>5, <2>1, <3>5, <4>2 DEF Regular, Plain
      <4>4. tx.type = "STOCK_SPLIT" /\ tx.quantity > 0 => ledgers[l][s].quantity > 0
        BY <2>1, <2>3, <3>5, SplitMeets
      <4>5. Booked(ledgers[l][s], tx).quantity = ledgers[l][s].quantity + Change(tx)
        BY <1>1, <4>1, <4>3, <4>4, BookedQuantity
      <4> QED BY <3>2, <3>3, <3>5, <4>2, <4>5
    <3> QED BY <3>4, <3>5
  <2> QED BY <2>2, <2>3
<1>6. ASSUME NEW l \in Ledgers, NEW s \in Symbols, NEW e \in Nat,
             Regular(l, s)', Before(l, e) \subseteq Had(l)'
      PROVE  Balance(Before(l, e), s) >= 0
  <2>1. Regular(l, s)
    BY <1>4, <1>6
  <2>2. CASE Before(l, e) \subseteq Had(l)
    BY <2>1, <2>2 DEF QuantityInv, NoDebt
  <2>3. CASE ~(Before(l, e) \subseteq Had(l))
    <3>1. l = making /\ i \in Before(l, e) /\ Had(l)' = Had(l) \cup {i}
      <4>1. l = making
        BY <1>6, <2>3, OneApplied
      <4>2. Had(l)' = Had(l) \cup {i}
        BY <1>1, <4>1, OneApplied
      <4> QED BY <1>6, <2>3, <4>1, <4>2
    <3>2. Had(l)' \subseteq Before(l, e)
      <4>1. \A j \in DOMAIN txs : txs[j].date \in Nat
        BY TxsType DEF PortfolioInv, Transactions
      <4>2. \A j \in Had(l) : txs[j].date <= txs[i].date /\ j \in Share(l) /\ j \in DOMAIN txs
        BY <3>1 DEF PortfolioInv, HadBefore, ProcessOne, Had, Share, FilterByBroker
      <4>3. txs[i].date < e
        BY <3>1 DEF Before
      <4> QED BY <3>1, <4>1, <4>2, <4>3 DEF Before
    <3>3. Before(l, e) = Had(l)'
      BY <1>6, <3>2
    <3>4. ledgers'[l][s].quantity \in Nat
      BY DEF PortfolioInv, PositionsOK, PositionOK, Positions
    <3> QED BY <1>5, <1>6, <3>3, <3>4
  <2> QED BY <2>2, <2>3
<1>7. QuantitiesKept'
  BY <1>2, <1>5 DEF QuantitiesKept, Ledgers
<1>8. NoDebt'
  BY <1>2, <1>6 DEF NoDebt, Ledgers
<1> QED BY <1>7, <1>8 DEF QuantityInv

LEMMA StepKeepsQuantities ==
  ASSUME PortfolioInv, PortfolioInv', QuantityInv, [PortfolioNext]_vars
  PROVE  QuantityInv'
<1>1. CASE Process
  <2>1. PICK i \in todo : ProcessOne(i)
    BY <1>1 DEF Process, ProcessOne
  <2>2. i \in DOMAIN txs
    BY DEF PortfolioInv, PortfolioTypeOK
  <2> QED BY <2>1, <2>2, ProcessKeepsQuantities
<1>2. CASE AutoWriteOffs
  <2>1. /\ phase = "combine" /\ todo = {} /\ making = Combined /\ reported = {}
        /\ making' = making /\ reported' = reported
    BY <1>2 DEF AutoWriteOffs, PortfolioInv, Phases
  <2>2. CASE UNCHANGED <<txs, todo, ledgers>>
    <3>1. \A l : Had(l)' = Had(l)
      BY <2>1, <2>2 DEF Had, Share, FilterByBroker
    <3> QED BY <2>2, <3>1, SameHad
  <2>3. CASE todo' = DOMAIN txs' /\ ledgers' = [ledgers EXCEPT ![Combined] = NewLedger]
    <3>1. ledgers \in [Ledgers -> [Symbols -> Positions]] /\ Combined \in Ledgers
      BY DEF PortfolioInv, PortfolioTypeOK, Ledgers
    <3>2. \A l \in Ledgers : ledgers'[l] = NewLedger
      <4> TAKE l \in Ledgers
      <4>1. CASE l = Combined
        BY <2>3, <3>1, <4>1
      <4>2. CASE l # Combined
        BY <2>1, <2>3, <3>1, <4>2 DEF PortfolioInv, Phases, Ledgers
      <4> QED BY <4>1, <4>2
    <3>3. \A l : Had(l)' = {}
      BY <2>1, <2>3 DEF Had, Share
    <3>4. PortfolioTypeOK' /\ Fresh'
      BY <3>2, <3>3 DEF PortfolioInv, Fresh, Ledgers
    <3> QED BY <3>4, NothingHad, PTL
  <2> QED BY <1>2, <2>2, <2>3 DEF AutoWriteOffs
<1>3. CASE CombinedAgain \/ Answer \/ UNCHANGED vars
  <2>1. UNCHANGED <<txs, making, todo, ledgers, reported>>
    BY <1>3 DEF CombinedAgain, Answer, vars
  <2>2. \A l : Had(l)' = Had(l)
    BY <2>1 DEF Had, Share, FilterByBroker
  <2> QED BY <2>1, <2>2, SameHad
<1>4. ASSUME NEW b \in Brokers, ReportBroker(b) PROVE QuantityInv'
  <2>1. /\ todo = {} /\ b \notin reported /\ making' = b /\ reported' = reported \cup {b}
        /\ todo' = FilterByBroker(b) /\ UNCHANGED <<txs, ledgers>>
    BY <1>4 DEF ReportBroker, Waiting
  <2>2. b # Combined /\ b # making /\ making \in reported \cup {Combined}
    BY <2>1, PortfolioConstants DEF PortfolioInv, Phases, PortfolioConstants
  <2>3. \A l : Share(l)' = Share(l)
    BY <2>1 DEF Share, FilterByBroker
  <2>4. Share(b) = FilterByBroker(b)
    BY <2>2 DEF Share
  <2>5. \A l : Had(l)' = Had(l)
    BY <2>1, <2>2, <2>3, <2>4 DEF Had
  <2> QED BY <2>1, <2>5, SameHad
<1> QED BY <1>1, <1>2, <1>3, <1>4 DEF PortfolioNext

LEMMA QuantitiesInTotal ==
  ASSUME PortfolioInv, QuantityInv
  PROVE  QuantitiesAddUp
<1> SUFFICES ASSUME phase = "done", NEW s \in Symbols, Plain(s),
                    \A l \in Ledgers : ~ledgers[l][s].oversold
             PROVE  ledgers[Combined][s].quantity
                      = OverBrokers([b \in Brokers |-> ledgers[b][s].quantity])
  BY DEF QuantitiesAddUp, Plain
<1>1. PortfolioTypeOK /\ \A l \in Ledgers : Had(l) = Share(l)
  BY AllHad DEF PortfolioInv
<1>2. Combined \in Ledgers /\ Share(Combined) = DOMAIN txs
  BY DEF Ledgers, Share
<1>3. \A b \in Brokers : b \in Ledgers /\ b # Combined /\ Share(b) = FilterByBroker(b)
  BY PortfolioConstants DEF PortfolioConstants, Ledgers, Share
<1>4. \A b \in Brokers : Regular(b, s)
  BY <1>3 DEF Regular
<1>5. ASSUME NEW b \in Brokers, NEW e \in Nat
      PROVE  Balance(Before(b, e), s) \in Nat
  <2>1. Before(b, e) \subseteq Had(b)
    BY <1>1, <1>3 DEF Before
  <2>2. Balance(Before(b, e), s) >= 0
    BY <1>3, <1>4, <2>1 DEF QuantityInv, NoDebt
  <2>3. Balance(Before(b, e), s) \in Int
    BY <1>1, BalanceType
  <2> QED BY <2>2, <2>3
<1>6. HeldByAll(s)
  <2> SUFFICES ASSUME NEW i \in DOMAIN txs, txs[i].symbol = s, txs[i].type = "STOCK_SPLIT",
                      txs[i].quantity > 0
               PROVE  Balance(Before(Combined, txs[i].date), s) > 0
    BY DEF HeldByAll
  <2> PICK e : e = txs[i].date
    OBVIOUS
  <2> PICK b : b = txs[i].broker
    OBVIOUS
  <2>1. e \in Nat /\ b \in Brokers
    BY <1>1, TxsType DEF Transactions
  <2>2. \A c \in Brokers : Before(c, e) = Before(Combined, e) \cap FilterByBroker(c)
    BY <1>2, <1>3 DEF Before, FilterByBroker
  <2>3. Balance(Before(b, e), s) > 0
    <3>1. Before(b, e) = {j \in FilterByBroker(txs[i].broker) : txs[j].date < txs[i].date}
      BY <1>3, <2>1 DEF Before
    <3> QED BY <3>1 DEF Plain, SplitsHeld
  <2> PICK g : g = [c \in Brokers |-> Balance(Before(Combined, e) \cap FilterByBroker(c), s)]
    OBVIOUS
  <2>4. g \in [Brokers -> Nat] /\ g[b] > 0
    BY <1>5, <2>1, <2>2, <2>3
  <2>5. OverBrokers(g) > 0
    BY <2>1, <2>4, OverBrokersPositive
  <2>6. OverBrokers(g) = Balance(Before(Combined, e), s)
    <3>1. Before(Combined, e) \subseteq DOMAIN txs
      BY <1>2 DEF Before
    <3> QED BY <1>1, <3>1, BalanceShared
  <2> QED BY <2>5, <2>6
<1>7. \A l \in Ledgers : ledgers[l][s].quantity = Balance(Share(l), s)
  BY <1>1, <1>6 DEF Regular, QuantityInv, QuantitiesKept
<1>8. [b \in Brokers |-> ledgers[b][s].quantity]
        = [b \in Brokers |-> Balance(DOMAIN txs \cap FilterByBroker(b), s)]
  <2>1. \A b \in Brokers : ledgers[b][s].quantity = Balance(DOMAIN txs \cap FilterByBroker(b), s)
    <3> TAKE b \in Brokers
    <3>1. DOMAIN txs \cap FilterByBroker(b) = Share(b)
      BY <1>3 DEF FilterByBroker
    <3> QED BY <1>3, <1>7, <3>1
  <2> QED BY <2>1
<1>9. OverBrokers([b \in Brokers |-> Balance(DOMAIN txs \cap FilterByBroker(b), s)])
        = Balance(DOMAIN txs, s)
  BY <1>1, BalanceShared
<1> QED BY <1>2, <1>7, <1>8, <1>9

-----------------------------------------------------------------------------
(* The theorems: as long as splits divide exactly.                          *)

LEMMA AlwaysInv == PortfolioSpec /\ []SplitsExact => []PortfolioInv
<1>1. PortfolioInit => PortfolioInv
  BY AtTheStart
<1>2. PortfolioInv /\ [PortfolioNext]_vars /\ SplitsExact => PortfolioInv'
  BY StepKeepsInv
<1> QED BY <1>1, <1>2, PTL DEF PortfolioSpec

\* Every ledger, every lot and every transaction still to apply is of its type: no
\* quantity and no cost of Process (ledger.go) goes below zero, whatever the upload.
THEOREM PortfolioTypeCorrect == PortfolioSpec /\ []SplitsExact => []PortfolioTypeOK
<1>1. PortfolioInv => PortfolioTypeOK
  BY DEF PortfolioInv
<1> QED BY <1>1, AlwaysInv, PTL

\* The quantity and the cost a position keeps beside its lots are those of its
\* lots after any transactions, though buy, sell, split and the transfers update
\* the two apart.
THEOREM TotalsAlwaysMatchLots == PortfolioSpec /\ []SplitsExact => []TotalsMatchLots
<1>1. PortfolioInv => TotalsMatchLots
  BY TotalsMatch
<1> QED BY <1>1, AlwaysInv, PTL

\* Lots are taken oldest first: only the oldest can have shares missing, and lots
\* stay in the order of their dates.
THEOREM OnlyOldestEverPartial == PortfolioSpec /\ []SplitsExact => []OnlyOldestPartial
<1>1. PortfolioInv => OnlyOldestPartial
  BY TotalsMatch
<1> QED BY <1>1, AlwaysInv, PTL

\* The shares of the brokers' reports are those of the combined one: a ledger nothing
\* is short in holds the balance of its transactions, whatever order equal dates take
\* and whichever broker's lots a sale takes.
THEOREM QuantitiesAlwaysAddUp == PortfolioSpec /\ []SplitsExact => []QuantitiesAddUp
<1>1. PortfolioInit => PortfolioInv /\ QuantityInv
  <2> SUFFICES ASSUME PortfolioInit PROVE PortfolioInv /\ QuantityInv
    OBVIOUS
  <2>1. Fresh
    BY DEF Fresh, PortfolioInit, Had, Share
  <2> QED BY <2>1, AtTheStart, NothingHad DEF PortfolioInv
<1>2. PortfolioInv /\ QuantityInv /\ [PortfolioNext]_vars /\ SplitsExact
        => PortfolioInv' /\ QuantityInv'
  BY StepKeepsInv, StepKeepsQuantities
<1>3. PortfolioInv /\ QuantityInv => QuantitiesAddUp
  BY QuantitiesInTotal
<1> QED BY <1>1, <1>2, <1>3, PTL DEF PortfolioSpec

\* What was paid is in the combined report and in those of the brokers once: the
\* costs held, realized and moved away add up, whatever order equal dates take and
\* with the write-offs appended between the two.
THEOREM CostsAlwaysAddUp == PortfolioSpec /\ []SplitsExact => []CostsAddUp
<1>1. PortfolioInv => CostsAddUp
  BY CostsInTotal
<1> QED BY <1>1, AlwaysInv, PTL

\* The write-offs are in the reports of the brokers as in the combined one: what one
\* broker alone had is gone from all of them.
THEOREM WrittenOffIsGone == PortfolioSpec /\ []SplitsExact => []WrittenOffEverywhere
<1>1. PortfolioInv => WrittenOffEverywhere
  BY GoneEverywhere
<1> QED BY <1>1, AlwaysInv, PTL

-----------------------------------------------------------------------------
(* Without splits nothing has to be assumed.                                *)

Unsplit(list) == \A i \in DOMAIN list : list[i].type # "STOCK_SPLIT"

LEMMA UnsplitStep ==
  ASSUME PortfolioInv, Unsplit(txs), [PortfolioNext]_vars
  PROVE  Unsplit(txs')
<1>1. CASE AutoWriteOffs
  <2>1. CASE UNCHANGED txs
    BY <2>1 DEF Unsplit
  <2>2. CASE ~UNCHANGED txs
    <3>1. phase = "combine"
      BY <1>1 DEF AutoWriteOffs
    <3>2. PICK gone \in SUBSET Open : txs' = txs \o SetToSeq({WriteOff(s) : s \in gone})
      BY <1>1, <2>2 DEF AutoWriteOffs, Presumed
    <3> PICK all : all = txs'
      OBVIOUS
    <3>3. gone \subseteq Open /\ all = txs \o SetToSeq({WriteOff(s) : s \in gone})
      BY <3>2
    <3>4. \A i \in DOMAIN all : Closes(all[i]) \/ \E j \in DOMAIN txs : all[i] = txs[j]
      BY <3>1, <3>3, WriteOffsAppended, Zenon
    <3>5. Unsplit(all)
      BY <3>4 DEF Unsplit, Closes
    <3> QED BY <3>5
  <2> QED BY <2>1, <2>2
<1>2. CASE ~AutoWriteOffs
  <2>1. UNCHANGED txs
    BY <1>2 DEF PortfolioNext, Process, CombinedAgain, Answer, ReportBroker, vars
  <2> QED BY <2>1 DEF Unsplit
<1> QED BY <1>1, <1>2

\* The assumption of the theorems is about splits only: it holds of every upload
\* that has none.
THEOREM UnsplitExact ==
  (\A h \in Histories : Unsplit(h)) => (PortfolioSpec => []SplitsExact)
<1> SUFFICES ASSUME \A h \in Histories : Unsplit(h) PROVE PortfolioSpec => []SplitsExact
  OBVIOUS
<1>1. PortfolioInit => PortfolioInv /\ Unsplit(txs)
  BY AtTheStart DEF PortfolioInit
<1>2. PortfolioInv /\ Unsplit(txs) => SplitsExact
  BY DEF PortfolioInv, PortfolioTypeOK, Unsplit, SplitsExact
<1>3. PortfolioInv /\ Unsplit(txs) /\ [PortfolioNext]_vars => PortfolioInv' /\ Unsplit(txs)'
  BY <1>2, StepKeepsInv, UnsplitStep
<1> QED BY <1>1, <1>2, <1>3, PTL DEF PortfolioSpec
=============================================================================
