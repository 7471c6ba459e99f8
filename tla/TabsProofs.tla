------------------------------- MODULE TabsProofs -------------------------------
(***************************************************************************)
(* Proofs about the two tabs that show rows of indicators, PositionsTab    *)
(* and WatchlistTab, and about the band of summaries that they share.      *)
(* They are in one module because they rest on the same lemmas: what       *)
(* filtering and sorting rows gives, whatever the rows and the keys.       *)
(***************************************************************************)
EXTENDS PositionsTab, WatchlistTab, FiniteSetTheorems, SequenceTheorems, TLAPS

-----------------------------------------------------------------------------
(* Sequences that are given as functions.                                   *)

\* A function over 1..n is a sequence of length n.
LEMMA FunctionSeq ==
  ASSUME NEW n \in Nat, NEW s, s = [k \in 1..n |-> s[k]]
  PROVE  /\ s \in Seq({s[k] : k \in 1..n}) /\ Len(s) = n /\ DOMAIN s = 1..n
<1> DEFINE S == {s[k] : k \in 1..n}
<1>1. s \in [1..n -> S]
  OBVIOUS
<1>2. s \in Seq(S)
  BY <1>1, SeqDef
<1>3. Len(s) \in Nat /\ DOMAIN s = 1..Len(s)
  BY <1>2, LenProperties
<1>4. DOMAIN s = 1..n
  BY <1>1
<1>5. Len(s) = n
  <2> HIDE DEF S
  <2>1. 1..n = 1..Len(s)
    BY <1>3, <1>4
  <2>2. \A i \in Int : (1 <= i /\ i <= n) <=> (1 <= i /\ i <= Len(s))
    BY <2>1, <1>3
  <2> QED
    BY <2>2, <1>3
<1> QED
  BY <1>2, <1>4, <1>5

-----------------------------------------------------------------------------
(* Places and arrangements.                                                 *)

\* Rows that precede others are fewer: places differ, and grow along the order.
LEMMA Places ==
  ASSUME NEW S \in SUBSET Int, IsFiniteSet(S), NEW keys, \A i \in S : keys[i] \in Int
  PROVE  /\ Cardinality(S) \in Nat
         /\ \A i \in S : Place(S, keys, i) \in 1..Cardinality(S)
         /\ \A i, j \in S : Precedes(keys, i, j) => Place(S, keys, i) < Place(S, keys, j)
         /\ \A i, j \in S : Place(S, keys, i) = Place(S, keys, j) => i = j
<1> DEFINE Before(i) == {j \in S : Precedes(keys, j, i)}
<1>1. \A i \in S : /\ IsFiniteSet(Before(i)) /\ Cardinality(Before(i)) \in Nat
                   /\ Place(S, keys, i) = 1 + Cardinality(Before(i))
  <2> TAKE i \in S
  <2>1. Before(i) \in SUBSET S
    OBVIOUS
  <2> HIDE DEF Before
  <2>2. IsFiniteSet(Before(i))
    BY <2>1, FS_Subset
  <2>3. Place(S, keys, i) = 1 + Cardinality(Before(i))
    BY DEF Place, Before
  <2> QED
    BY <2>2, <2>3, FS_CardinalityType
<1>2. Cardinality(S) \in Nat
  BY FS_CardinalityType
<1>3. ASSUME NEW i \in S PROVE Place(S, keys, i) \in 1..Cardinality(S)
  <2>1. Before(i) \in SUBSET (S \ {i})
    BY <1>3 DEF Precedes
  <2>2. IsFiniteSet(S \ {i}) /\ Cardinality(S \ {i}) = Cardinality(S) - 1
    BY <1>3, FS_RemoveElement
  <2> HIDE DEF Before
  <2>3. Cardinality(Before(i)) <= Cardinality(S) - 1
    BY <2>1, <2>2, FS_Subset
  <2> QED
    BY <1>1, <1>2, <2>3
<1>4. ASSUME NEW i \in S, NEW j \in S, Precedes(keys, i, j)
      PROVE  Place(S, keys, i) < Place(S, keys, j)
  <2>1. i \in Before(j)
    BY <1>4
  <2>2. Before(i) \in SUBSET (Before(j) \ {i})
    <3> SUFFICES ASSUME NEW k \in S, Precedes(keys, k, i)
                 PROVE  k # i /\ Precedes(keys, k, j)
      OBVIOUS
    <3>1. keys[i] \in Int /\ keys[j] \in Int /\ keys[k] \in Int /\ i \in Int /\ j \in Int /\ k \in Int
      OBVIOUS
    <3> QED
      BY <1>4, <3>1 DEF Precedes
  <2>3. /\ IsFiniteSet(Before(i)) /\ Cardinality(Before(i)) \in Nat
        /\ IsFiniteSet(Before(j)) /\ Cardinality(Before(j)) \in Nat
        /\ Place(S, keys, i) = 1 + Cardinality(Before(i)) /\ Place(S, keys, j) = 1 + Cardinality(Before(j))
    BY <1>1, <1>4
  <2> HIDE DEF Before
  <2>4. IsFiniteSet(Before(j) \ {i}) /\ Cardinality(Before(j) \ {i}) = Cardinality(Before(j)) - 1
    BY <2>1, <2>3, FS_RemoveElement
  <2>5. Cardinality(Before(i)) <= Cardinality(Before(j)) - 1
    BY <2>2, <2>4, FS_Subset
  <2> QED
    BY <2>3, <2>5
<1>5. ASSUME NEW i \in S, NEW j \in S, Place(S, keys, i) = Place(S, keys, j)
      PROVE  i = j
  <2>1. keys[i] \in Int /\ keys[j] \in Int /\ i \in Int /\ j \in Int
    BY <1>5
  <2>2. i = j \/ Precedes(keys, i, j) \/ Precedes(keys, j, i)
    BY <2>1 DEF Precedes
  <2>3. Place(S, keys, i) \in Int
    BY <1>2, <1>3, <1>5
  <2> QED
    BY <1>4, <1>5, <2>2, <2>3
<1> QED
  BY <1>2, <1>3, <1>4, <1>5

\* An arrangement lists each member of the set once, in the order of the keys.
LEMMA Arrangement ==
  ASSUME NEW S \in SUBSET Int, IsFiniteSet(S), NEW keys, \A i \in S : keys[i] \in Int
  PROVE  LET n == Cardinality(S)
             order == Arranged(S, keys)
         IN /\ n \in Nat /\ order \in [1..n -> S]
            /\ \A k \in 1..n : Place(S, keys, order[k]) = k
            /\ \A i \in S : Place(S, keys, i) \in 1..n /\ order[Place(S, keys, i)] = i
            /\ \A k, l \in 1..n : k < l => Precedes(keys, order[k], order[l])
<1> DEFINE n == Cardinality(S)
           order == Arranged(S, keys)
           place == [i \in S |-> Place(S, keys, i)]
<1>1. /\ n \in Nat
      /\ \A i \in S : Place(S, keys, i) \in 1..n
      /\ \A i, j \in S : Precedes(keys, i, j) => Place(S, keys, i) < Place(S, keys, j)
      /\ \A i, j \in S : Place(S, keys, i) = Place(S, keys, j) => i = j
  BY Places
<1>2. place \in Injection(S, 1..n)
  BY <1>1 DEF Injection, IsInjective
<1>3. IsFiniteSet(1..n) /\ Cardinality(1..n) = n
  BY <1>1, FS_Interval
<1>4. place \in Surjection(S, 1..n)
  <2> HIDE DEF place, n
  <2>1. Cardinality(S) = Cardinality(1..n)
    BY <1>3 DEF n
  <2> QED
    BY <1>2, <1>3, <2>1, FS_Injection
<1>5. \A k \in 1..n : \E i \in S : Place(S, keys, i) = k
  BY <1>4 DEF Surjection
<1>6. \A k \in 1..n : order[k] \in S /\ Place(S, keys, order[k]) = k
  <2> TAKE k \in 1..n
  <2>1. order[k] = CHOOSE i \in S : Place(S, keys, i) = k
    BY DEF Arranged
  <2> QED
    BY <1>5, <2>1
<1>7. order \in [1..n -> S]
  BY <1>6 DEF Arranged
<1>8. \A i \in S : order[Place(S, keys, i)] = i
  BY <1>1, <1>6
<1>9. ASSUME NEW k \in 1..n, NEW l \in 1..n, k < l PROVE Precedes(keys, order[k], order[l])
  <2> DEFINE i == order[k]
             j == order[l]
  <2>1. i \in S /\ j \in S /\ Place(S, keys, i) = k /\ Place(S, keys, j) = l
    BY <1>6, <1>9
  <2> HIDE DEF i, j, n
  <2>2. ~(Place(S, keys, j) < Place(S, keys, i)) /\ i # j
    BY <2>1, <1>9, <1>1
  <2>3. keys[i] \in Int /\ keys[j] \in Int /\ i \in Int /\ j \in Int
    BY <2>1
  <2>4. Precedes(keys, i, j) \/ Precedes(keys, j, i)
    BY <2>2, <2>3 DEF Precedes
  <2>5. Precedes(keys, i, j)
    BY <2>1, <2>2, <2>4, <1>1
  <2> QED
    BY <2>5 DEF i, j
<1> QED
  BY <1>1, <1>6, <1>7, <1>8, <1>9

\* A set that leads another in the order is arranged as the start of it.
LEMMA ArrangedStart ==
  ASSUME NEW S \in SUBSET Int, IsFiniteSet(S), NEW U \in SUBSET S, NEW keys, NEW keysOfU,
         \A i \in S : keys[i] \in Int,
         \A i \in U : keysOfU[i] = keys[i],
         \A i \in U, j \in S \ U : Precedes(keys, i, j)
  PROVE  /\ Cardinality(U) <= Cardinality(S)
         /\ \A k \in 1..Cardinality(U) : Arranged(U, keysOfU)[k] = Arranged(S, keys)[k]
<1> DEFINE m == Cardinality(U)
           n == Cardinality(S)
           start == Arranged(U, keysOfU)
           order == Arranged(S, keys)
<1>1. U \in SUBSET Int /\ IsFiniteSet(U) /\ m <= n
  BY FS_Subset
<1>2. \A i \in U : keysOfU[i] \in Int
  OBVIOUS
<1>3. /\ m \in Nat /\ start \in [1..m -> U]
      /\ \A k \in 1..m : Place(U, keysOfU, start[k]) = k
  <2> HIDE DEF m, start
  <2> QED
    BY <1>1, <1>2, Arrangement DEF m, start
<1>4. \A i \in S : order[Place(S, keys, i)] = i
  <2> HIDE DEF order
  <2> QED
    BY Arrangement DEF order
<1>5. ASSUME NEW i \in U PROVE Place(U, keysOfU, i) = Place(S, keys, i)
  <2>1. ASSUME NEW j \in S PROVE (j \in U /\ Precedes(keysOfU, j, i)) <=> Precedes(keys, j, i)
    <3>1. keys[i] \in Int /\ keys[j] \in Int /\ i \in Int /\ j \in Int /\ keysOfU[i] = keys[i]
      BY <1>5, <2>1
    <3>2. CASE j \in U
      <4>1. keysOfU[j] = keys[j]
        BY <3>2
      <4> QED
        BY <3>1, <3>2, <4>1 DEF Precedes
    <3>3. CASE j \notin U
      <4>1. Precedes(keys, i, j)
        BY <1>5, <2>1, <3>3
      <4> QED
        BY <3>1, <3>3, <4>1 DEF Precedes
    <3> QED
      BY <3>2, <3>3
  <2>2. {j \in U : Precedes(keysOfU, j, i)} = {j \in S : Precedes(keys, j, i)}
    BY <2>1
  <2> QED
    BY <2>2 DEF Place
<1>6. ASSUME NEW k \in 1..m PROVE start[k] = order[k]
  <2>1. start[k] \in U /\ Place(U, keysOfU, start[k]) = k
    BY <1>3, <1>6
  <2>2. Place(S, keys, start[k]) = k
    BY <2>1, <1>5
  <2> QED
    BY <2>1, <2>2, <1>4
<1> QED
  BY <1>1, <1>6

\* Sorting by the same keys gives the same order.
LEMMA ArrangedSame ==
  ASSUME NEW S \in SUBSET Int, IsFiniteSet(S), NEW keys, NEW others,
         \A i \in S : keys[i] \in Int,
         \A i \in S : others[i] = keys[i]
  PROVE  Arranged(S, others) = Arranged(S, keys)
<1>1. S \in SUBSET S /\ \A i \in S, j \in S \ S : Precedes(keys, i, j)
  OBVIOUS
<1>2. \A k \in 1..Cardinality(S) : Arranged(S, others)[k] = Arranged(S, keys)[k]
  BY <1>1, ArrangedStart
<1> QED
  BY <1>2 DEF Arranged

-----------------------------------------------------------------------------
(* Rows that are sorted and filtered.                                       *)

\* The order of two rows, of which i comes first.
Above(keys, dir, i, j) ==
  \/ IF dir = "asc" THEN keys[i] < keys[j] ELSE keys[i] > keys[j]
  \/ keys[i] = keys[j] /\ i < j

\* A result has the rows kept, each once, in the direction asked for, and stable.
IsSorting(result, rows, kept, keys, dir) ==
  LET n == Cardinality(kept)
  IN /\ n \in Nat /\ result = [k \in 1..n |-> result[k]] /\ DOMAIN result = 1..n
     /\ \E order \in [1..n -> kept] :
          /\ \A k \in 1..n : result[k] = rows[order[k]]
          /\ \A i \in kept : \E k \in 1..n : order[k] = i
          /\ \A k, l \in 1..n : k < l => Above(keys, dir, order[k], order[l])

\* That is what sorting gives.
LEMMA SortedRows ==
  ASSUME NEW rows, NEW kept \in SUBSET Int, IsFiniteSet(kept), NEW keys,
         \A i \in kept : keys[i] \in Int, NEW dir
  PROVE  IsSorting(Sorted(rows, kept, keys, dir), rows, kept, keys, dir)
<1> DEFINE n == Cardinality(kept)
           result == Sorted(rows, kept, keys, dir)
           signed == IF dir = "asc" THEN keys ELSE [i \in kept |-> -keys[i]]
           order == Arranged(kept, signed)
<1>1. \A i \in kept : signed[i] \in Int
  OBVIOUS
<1>2. /\ n \in Nat /\ order \in [1..n -> kept]
      /\ \A i \in kept : Place(kept, signed, i) \in 1..n /\ order[Place(kept, signed, i)] = i
      /\ \A k, l \in 1..n : k < l => Precedes(signed, order[k], order[l])
  <2> HIDE DEF signed, order, n
  <2> QED
    BY <1>1, Arrangement DEF order, n
<1>3. result = [k \in 1..n |-> rows[order[k]]]
  BY DEF Sorted
<1> HIDE DEF result
<1>4. result = [k \in 1..n |-> result[k]] /\ DOMAIN result = 1..n
  BY <1>3
<1>5. \A k \in 1..n : result[k] = rows[order[k]]
  BY <1>3
<1>6. ASSUME NEW k \in 1..n, NEW l \in 1..n, k < l PROVE Above(keys, dir, order[k], order[l])
  <2>1. order[k] \in kept /\ order[l] \in kept /\ Precedes(signed, order[k], order[l])
    BY <1>2, <1>6
  <2> HIDE DEF order, n
  <2>2. keys[order[k]] \in Int /\ keys[order[l]] \in Int
    BY <2>1
  <2>3. CASE dir = "asc"
    BY <2>1, <2>3 DEF Precedes, Above
  <2>4. CASE dir # "asc"
    <3>1. signed[order[k]] = -keys[order[k]] /\ signed[order[l]] = -keys[order[l]]
      BY <2>1, <2>4
    <3> QED
      BY <2>1, <2>2, <2>4, <3>1 DEF Precedes, Above
  <2> QED
    BY <2>3, <2>4
<1> HIDE DEF order
<1> QED
  BY <1>2, <1>4, <1>5, <1>6 DEF result, IsSorting

\* A result has the rows kept, each once, in the order they had.
IsFiltering(result, rows, kept) ==
  LET n == Cardinality(kept)
  IN /\ n \in Nat /\ result = [k \in 1..n |-> result[k]] /\ DOMAIN result = 1..n
     /\ \E order \in [1..n -> kept] :
          /\ \A k \in 1..n : result[k] = rows[order[k]]
          /\ \A i \in kept : \E k \in 1..n : order[k] = i
          /\ \A k, l \in 1..n : k < l => order[k] < order[l]

\* That is what filtering gives.
LEMMA FilteredInOrder ==
  ASSUME NEW rows, NEW kept \in SUBSET Int, IsFiniteSet(kept)
  PROVE  IsFiltering(Filter(rows, kept), rows, kept)
<1> DEFINE n == Cardinality(kept)
           result == Filter(rows, kept)
<1>1. PICK keys : keys = [i \in kept |-> i]
  OBVIOUS
<1>2. \A i \in kept : keys[i] = i /\ keys[i] \in Int
  BY <1>1
<1>3. result = Sorted(rows, kept, keys, "asc")
  BY <1>1 DEF Filter
<1>4. IsSorting(result, rows, kept, keys, "asc")
  BY <1>2, <1>3, SortedRows
<1> HIDE DEF result, n
<1>5. n \in Nat /\ result = [k \in 1..n |-> result[k]] /\ DOMAIN result = 1..n
  BY <1>4 DEF IsSorting, n
<1>6. PICK order \in [1..n -> kept] :
        /\ \A k \in 1..n : result[k] = rows[order[k]]
        /\ \A i \in kept : \E k \in 1..n : order[k] = i
        /\ \A k, l \in 1..n : k < l => Above(keys, "asc", order[k], order[l])
  BY <1>4 DEF IsSorting, n
<1>7. \A k, l \in 1..n : k < l => order[k] < order[l]
  BY <1>2, <1>5, <1>6 DEF Above
<1> QED
  BY <1>5, <1>6, <1>7 DEF result, n, IsFiltering

-----------------------------------------------------------------------------
(* Figures and texts.                                                       *)

\* A text has a rank, the empty one the first.
LEMMA Ranks ==
  /\ \A text \in Texts : Rank(text) \in Nat /\ Rank(text) >= 1
  /\ Rank(NoText) = 1 /\ \A text \in Texts : text # NoText => Rank(text) > 1
  /\ NoText \in Texts /\ "-Infinity" \in Texts
<1>1. DOMAIN Alphabet = 1..Len(Alphabet) /\ Len(Alphabet) \in Nat
  BY IndicatorConstants, LenProperties
<1>2. ASSUME NEW text \in Texts PROVE Rank(text) \in 1..Len(Alphabet) /\ Alphabet[Rank(text)] = text
  <2>1. \E i \in DOMAIN Alphabet : Alphabet[i] = text
    BY <1>2 DEF Texts, ToSet
  <2> QED
    BY <1>1, <2>1 DEF Rank
<1>3. NoText \in Texts /\ "-Infinity" \in Texts
  BY IndicatorConstants
<1>4. Rank(NoText) = 1
  <2>1. 1 \in DOMAIN Alphabet /\ Rank(NoText) \in DOMAIN Alphabet
    BY <1>1, <1>2, <1>3
  <2> QED
    BY <1>2, <1>3, <2>1, IndicatorConstants
<1>5. ASSUME NEW text \in Texts, text # NoText PROVE Rank(text) > 1
  <2>1. Rank(text) # 1
    BY <1>2, <1>5, IndicatorConstants
  <2> QED
    BY <1>1, <1>2, <1>5, <2>1
<1> QED
  BY <1>1, <1>2, <1>3, <1>4, <1>5

\* The figures that are numbers.
NumberFigures ==
  {"currentPrice", "weekLow52", "weekHigh52", "pe", "forwardPE", "todayReturn", "oneWeekReturn",
   "oneMonthReturn", "ytdReturn", "threeYrReturn", "fiveYrReturn", "tenYrReturn", "fcf",
   "evToEbitda", "debtToEquity", "cashFlowQuality", "sectorPe", "evToEbitdaVsSector", "peVsSector",
   "marketCap", "dividendYield", "payoutRatio", "ter", "spreadPct", "analystScore"}

\* A figure that is a number is missing, or nearer than Infinity.
Figure(x) == x = None \/ (x \in Int /\ -Infinity < x /\ x < Infinity)

LEMMA Numbers == \A x \in Number : Figure(x)
BY IndicatorConstants DEF Number, Figure

LEMMA FiguresTyped ==
  ASSUME NEW p, IsFigures(p)
  PROVE  /\ \A field \in NumberFigures : Figure(p[field])
         /\ \A field \in TextFigures : p[field] \in Texts
<1>1. DOMAIN p = NumberFigures \cup TextFigures
  BY DEF IsFigures, NoFigures, NumberFigures, TextFigures
<1>2. \A field \in NumberFigures : field \notin TextFigures
  BY DEF NumberFigures, TextFigures
<1>3. \A field \in DOMAIN p : p[field] \in IF field \in TextFigures THEN Texts ELSE Number
  BY DEF IsFigures
<1> QED
  BY <1>1, <1>2, <1>3, Numbers

\* The place in the range is a number.
LEMMA RangeTyped ==
  ASSUME NEW p, IsFigures(p)
  PROVE  rangePct(p) \in Int /\ rangePct(p) >= -Infinity
<1>1. Figure(p["weekLow52"]) /\ Figure(p["weekHigh52"]) /\ Figure(p["currentPrice"])
  BY FiguresTyped DEF NumberFigures
<1>2. Figure(p.weekLow52) /\ Figure(p.weekHigh52) /\ Figure(p.currentPrice)
  BY <1>1
<1>3. rangePct(p) >= -Infinity
  BY DEF IsFigures
<1>4. CASE None \in {p.weekLow52, p.weekHigh52, p.currentPrice}
  BY <1>4, IndicatorConstants DEF rangePct
<1>5. CASE None \notin {p.weekLow52, p.weekHigh52, p.currentPrice}
  <2>1. p.weekLow52 \in Int /\ p.weekHigh52 \in Int /\ p.currentPrice \in Int
    BY <1>2, <1>5 DEF Figure
  <2>2. CASE p.weekHigh52 <= p.weekLow52
    BY <1>5, <2>2, IndicatorConstants DEF rangePct
  <2>3. CASE ~(p.weekHigh52 <= p.weekLow52)
    <3>1. rangePct(p) = (100 * (p.currentPrice - p.weekLow52)) \div (p.weekHigh52 - p.weekLow52)
      BY <1>5, <2>3 DEF rangePct
    <3>2. p.weekHigh52 - p.weekLow52 \in Nat \ {0} /\ 100 * (p.currentPrice - p.weekLow52) \in Int
      BY <2>1, <2>3
    <3> QED
      BY <1>3, <3>1, <3>2
  <2> QED
    BY <2>2, <2>3
<1> QED
  BY <1>3, <1>4, <1>5

\* A rating or a score gives a rank, or there is none.
LEMMA AnalystTyped ==
  ASSUME NEW p, IsFigures(p)
  PROVE  analystRank(p) = None \/ analystRank(p) \in Int
<1> DEFINE Labelled(i) == p.analystRating \in ANALYST_RANK[i]
<1>1. Figure(p["analystScore"])
  BY FiguresTyped DEF NumberFigures
<1>2. CASE \E i \in 1..5 : Labelled(i)
  <2> HIDE DEF Labelled
  <2>2. PICK label : label = CHOOSE i \in 1..5 : Labelled(i)
    OBVIOUS
  <2>3. analystRank(p) = 10 * label
    BY <1>2, <2>2 DEF analystRank, Labelled
  <2>4. label \in 1..5
    BY <1>2, <2>2, Zenon
  <2> QED
    BY <2>3, <2>4
<1>3. CASE ~\E i \in 1..5 : Labelled(i)
  BY <1>1, <1>3 DEF analystRank, Figure
<1> QED
  BY <1>2, <1>3

\* The keys of the plain numbers, and the figures they read.
LEMMA NumberKeys ==
  /\ \A key \in DOMAIN NumberField : NumberField[key] \in NumberFigures
  /\ TIMEFRAMES \subseteq DOMAIN NumberField /\ TIMEFRAMES \subseteq INDICATOR_COLUMNS
  /\ \A key \in DOMAIN TextField : TextField[key] \in TextFigures /\ key \notin DOMAIN NumberField
  /\ INDICATOR_COLUMNS = DOMAIN NumberField \cup DOMAIN TextField \cup {"range", "analyst"}
  /\ {"range", "analyst"} \cap (DOMAIN NumberField \cup DOMAIN TextField) = {}
<1>1. /\ DOMAIN NumberField =
           {"pe", "forwardPe", "today", "oneWeek", "oneMonth", "ytd", "threeYr", "fiveYr", "tenYr",
            "fcf", "evToEbitda", "sectorPe", "peVsSector", "evVsSector", "debtToEquity",
            "cashFlowQuality"}
      /\ DOMAIN TextField = {"sector", "health", "valuation"}
  BY DEF NumberField, TextField
<1>2. \A key \in DOMAIN NumberField : NumberField[key] \in NumberFigures
  BY <1>1 DEF NumberField, NumberFigures
<1>3. \A key \in DOMAIN TextField : TextField[key] \in TextFigures
  BY <1>1 DEF TextField, TextFigures
<1> QED
  BY <1>1, <1>2, <1>3 DEF TIMEFRAMES, INDICATOR_COLUMNS, LEAD_INDICATORS

\* A column of figures is sorted by numbers.
LEMMA IndicatorValueTyped ==
  ASSUME NEW p, p = None \/ IsFigures(p), NEW key \in INDICATOR_COLUMNS
  PROVE  indicatorSortValue(p, key) \in Int
<1>1. -Infinity \in Int /\ Infinity \in Int
  BY IndicatorConstants
<1>2. CASE p = None
  BY <1>1, <1>2, Ranks DEF indicatorSortValue
<1>3. CASE p # None /\ key \in DOMAIN NumberField
  <2>1. Figure(p[NumberField[key]])
    BY <1>3, NumberKeys, FiguresTyped
  <2>2. indicatorSortValue(p, key) = Or(p[NumberField[key]], -Infinity)
    BY <1>3, NumberKeys DEF indicatorSortValue
  <2> QED
    BY <1>1, <2>1, <2>2 DEF Figure, Or
<1>4. CASE p # None /\ key \in DOMAIN TextField
  <2>1. p[TextField[key]] \in Texts
    BY <1>4, NumberKeys, FiguresTyped
  <2>2. indicatorSortValue(p, key) = Rank(p[TextField[key]])
    BY <1>4, NumberKeys DEF indicatorSortValue
  <2> QED
    BY <2>1, <2>2, Ranks
<1>5. CASE p # None /\ key = "range"
  <2>1. indicatorSortValue(p, key) = rangePct(p)
    BY <1>5, NumberKeys DEF indicatorSortValue
  <2> QED
    BY <1>5, <2>1, RangeTyped
<1>6. CASE p # None /\ key = "analyst"
  <2>1. indicatorSortValue(p, key) = Or(analystRank(p), Infinity)
    BY <1>6, NumberKeys DEF indicatorSortValue
  <2> QED
    BY <1>1, <1>6, <2>1, AnalystTyped DEF Or
<1> QED
  BY <1>2, <1>3, <1>4, <1>5, <1>6, NumberKeys

\* The move of a row is its return in the timeframe, and missing without figures.
LEMMA MoveTyped ==
  ASSUME NEW row, row.indicators = None \/ IsFigures(row.indicators), NEW t \in TIMEFRAMES
  PROVE  /\ cellValue(row, t) = None \/ cellValue(row, t) \in Int
         /\ row.indicators = None => cellValue(row, t) = None
         /\ row.indicators # None =>
              /\ cellValue(row, t) = row.indicators[NumberField[t]]
              /\ indicatorSortValue(row.indicators, t) = Or(cellValue(row, t), -Infinity)
<1> DEFINE p == row.indicators
<1>1. t \notin {"targetGap", "marketCap", "pe", "forwardPe", "peVsSector"}
  BY DEF TIMEFRAMES
<1>2. row.indicators = None => cellValue(row, t) = None
  BY <1>1 DEF cellValue
<1>3. row.indicators # None => cellValue(row, t) = row.indicators[NumberField[t]]
  BY <1>1 DEF cellValue
<1>4. row.indicators # None => Figure(row.indicators[NumberField[t]])
  BY NumberKeys, FiguresTyped
<1>5. row.indicators # None =>
        indicatorSortValue(row.indicators, t) = Or(row.indicators[NumberField[t]], -Infinity)
  BY NumberKeys DEF indicatorSortValue
<1> QED
  BY <1>2, <1>3, <1>4, <1>5 DEF Figure

-----------------------------------------------------------------------------
(* The band.                                                                *)

\* The rows that a band reads.
AreRows(rows, n) ==
  /\ n \in Nat /\ DOMAIN rows = 1..n
  /\ \A k \in 1..n : rows[k].indicators = None \/ IsFigures(rows[k].indicators)

\* A row moves up or down by a number.
LEMMA MovingRows ==
  ASSUME NEW rows, NEW n, AreRows(rows, n), tf \in TIMEFRAMES
  PROVE  /\ Moving(rows) \in SUBSET (1..n) /\ Ups(rows) \subseteq Moving(rows)
         /\ Downs(rows) \subseteq Moving(rows)
         /\ \A kept \in SUBSET (1..n) : kept \in SUBSET Int /\ IsFiniteSet(kept)
         /\ \A k \in 1..n : Moves(rows)[k] = cellValue(rows[k], tf)
         /\ \A k \in 1..n : Moves(rows)[k] = None \/ Moves(rows)[k] \in Int
         /\ \A k \in Moving(rows) : Moves(rows)[k] \in Int
         /\ \A kept \in SUBSET Moving(rows) :
              IsSorting(ByMove(rows, kept), rows, kept, Moves(rows), "desc")
<1>1. n \in Nat /\ DOMAIN rows = 1..n
  BY DEF AreRows
<1>2. \A k \in 1..n : Moves(rows)[k] = cellValue(rows[k], tf)
  BY <1>1 DEF Moves
<1>3. \A k \in 1..n : Moves(rows)[k] = None \/ Moves(rows)[k] \in Int
  BY <1>2, MoveTyped DEF AreRows
<1>4. /\ Moving(rows) \in SUBSET (1..n) /\ Ups(rows) \subseteq Moving(rows)
      /\ Downs(rows) \subseteq Moving(rows)
  BY <1>1 DEF Moving, Ups, Downs
<1>5. \A kept \in SUBSET (1..n) : kept \in SUBSET Int /\ IsFiniteSet(kept)
  <2> TAKE kept \in SUBSET (1..n)
  <2>1. IsFiniteSet(1..n)
    BY <1>1, FS_Interval
  <2>2. IsFiniteSet(kept)
    BY <2>1, FS_Subset
  <2> QED
    BY <1>1, <2>2
<1>6. \A k \in Moving(rows) : Moves(rows)[k] \in Int
  BY <1>1, <1>3 DEF Moving
<1>7. ASSUME NEW kept \in SUBSET Moving(rows)
      PROVE  IsSorting(ByMove(rows, kept), rows, kept, Moves(rows), "desc")
  <2>1. kept \in SUBSET Int /\ IsFiniteSet(kept) /\ \A k \in kept : Moves(rows)[k] \in Int
    BY <1>4, <1>5, <1>6
  <2> QED
    BY <2>1, SortedRows DEF ByMove
<1> QED
  BY <1>2, <1>3, <1>4, <1>5, <1>6, <1>7

\* The start of a sequence that is given as a function.
LEMMA FirstRows ==
  ASSUME NEW n \in Nat, NEW s, DOMAIN s = 1..n, NEW size \in Nat
  PROVE  \E m \in 0..n : /\ m <= size /\ (m < n => m = size)
                         /\ First(size, s) = [k \in 1..m |-> s[k]]
<1> DEFINE m == IF n <= size THEN n ELSE size
<1>1. m \in 0..n /\ m <= size /\ (m < n => m = size)
  OBVIOUS
<1>2. {j \in DOMAIN s : j <= size} = 1..m
  OBVIOUS
<1>3. First(size, s) = [k \in 1..m |-> s[k]]
  BY <1>2 DEF First
<1> QED
  BY <1>1, <1>3

\* A rail has a size, and a timeframe a column of its own.
LEMMA BandTyped ==
  ASSUME BandTypeOK
  PROVE  tf \in TIMEFRAMES /\ RailSize \in Nat /\ RailSize >= 1
BY BandConstants DEF BandTypeOK, RailSize

-----------------------------------------------------------------------------
(* The positions tab.                                                       *)

\* The report on the page has positions, which the band reads as its rows.
LEMMA ReportFacts ==
  ASSUME data \in Reports
  PROVE  LET positions == data.openPositions
             n == Len(positions)
         IN /\ n \in Nat /\ DOMAIN positions = 1..n
            /\ \A k \in 1..n : IsPosition(positions[k])
            /\ AreRows(Items, n)
            /\ \A k \in 1..n : /\ Items[k] = PositionRow(positions[k])
                               /\ Items[k].symbol = positions[k].symbol
                               /\ Items[k].indicators = positions[k].figures
<1> DEFINE positions == data.openPositions
           n == Len(positions)
<1>1. positions \in Seq(ToSet(positions)) /\ \A p \in ToSet(positions) : IsPosition(p)
  BY PositionsConstants
<1>2. n \in Nat /\ DOMAIN positions = 1..n
  <2> HIDE DEF positions
  <2> QED
    BY <1>1, LenProperties
<1>3. \A k \in 1..n : IsPosition(positions[k])
  <2> HIDE DEF positions, n
  <2> QED
    BY <1>1, <1>2 DEF ToSet
<1>4. DOMAIN Items = 1..n /\ \A k \in 1..n : Items[k] = PositionRow(positions[k])
  BY <1>2 DEF Items, PositionRows
<1> HIDE DEF positions, n
<1>5. \A k \in 1..n : /\ Items[k].symbol = positions[k].symbol
                      /\ Items[k].indicators = positions[k].figures
  BY <1>4 DEF PositionRow
<1>6. AreRows(Items, n)
  BY <1>2, <1>3, <1>4, <1>5 DEF AreRows, IsPosition
<1> QED
  BY <1>2, <1>3, <1>4, <1>5, <1>6 DEF positions, n

\* A position has a number to be sorted by in every column.
LEMMA PositionValueTyped ==
  ASSUME NEW p, IsPosition(p), NEW key \in POSITION_COLUMNS
  PROVE  positionValue(p, key) \in Int
<1>1. -Infinity \in Int
  BY IndicatorConstants
<1>2. /\ p.symbol \in Texts /\ p.cost \in Int /\ Figure(p.mv)
      /\ Figure(p["quantity"]) /\ Figure(p["pnl"]) /\ Figure(p["pct"])
  BY Numbers DEF IsPosition
<1>3. \A x : Figure(x) => Or(x, -Infinity) \in Int
  BY <1>1 DEF Figure, Or
<1>4. INDICATOR_COLUMNS \cap {"symbol", "cost", "mv", "alloc", "quantity", "pnl", "pct"} = {}
  BY DEF INDICATOR_COLUMNS, LEAD_INDICATORS
<1>9. CASE key \in INDICATOR_COLUMNS
  <2>1. key \notin {"symbol", "cost", "mv", "alloc", "quantity", "pnl", "pct"}
    BY <1>4, <1>9
  <2>2. positionValue(p, key) = indicatorSortValue(p.figures, key)
    BY <1>9, <2>1 DEF positionValue
  <2> QED
    BY <1>9, <2>2, IndicatorValueTyped DEF IsPosition
<1>5. CASE key = "symbol"
  BY <1>2, <1>4, <1>5, Ranks DEF positionValue
<1>6. CASE key = "cost"
  BY <1>2, <1>4, <1>6 DEF positionValue
<1>7. CASE key \in {"mv", "alloc"}
  BY <1>2, <1>3, <1>4, <1>7 DEF positionValue
<1>8. CASE key \in {"quantity", "pnl", "pct"}
  <2>1. positionValue(p, key) = Or(p[key], -Infinity)
    BY <1>4, <1>8 DEF positionValue
  <2>2. Figure(p[key])
    BY <1>2, <1>8
  <2> QED
    BY <1>3, <2>1, <2>2
<1> QED
  BY <1>5, <1>6, <1>7, <1>8, <1>9 DEF POSITION_COLUMNS

-----------------------------------------------------------------------------
(* The positions tab keeps its state in order.                              *)

LEMMA PositionsTypeInvariance ==
  /\ PositionsInit => PositionsTypeOK
  /\ PositionsTypeOK /\ [PositionsNext]_positionsVars => PositionsTypeOK'
<1>1. ASSUME PositionsInit PROVE PositionsTypeOK
  BY <1>1, BandConstants, PositionsConstants
     DEF PositionsInit, PositionsTypeOK, BandInit, BandTypeOK, PositionFilters, filtersFor
<1>2. ASSUME PositionsTypeOK, [PositionsNext]_positionsVars PROVE PositionsTypeOK'
  <2> USE PositionsTypeOK DEF PositionsTypeOK, BandTypeOK, bandVars, tableVars, InBand
  <2>1. ASSUME NEW key \in PositionKeys, handlePositionSort(key) PROVE PositionsTypeOK'
    BY <2>1 DEF handlePositionSort
  <2>2. ASSUME NEW t \in Timeframes, PickTimeframe(t) /\ InBand PROVE PositionsTypeOK'
    BY <2>2 DEF PickTimeframe
  <2>3. ASSUME NEW f \in PositionFilters, PickFilter(f) /\ InBand PROVE PositionsTypeOK'
    BY <2>3 DEF PickFilter, PositionFilters
  <2>4. ASSUME NEW title \in Expandable, SignalCard(title, Items) /\ InBand PROVE PositionsTypeOK'
    BY <2>4 DEF SignalCard
  <2>5. ASSUME SignalRow /\ InBand PROVE PositionsTypeOK'
    BY <2>5 DEF SignalRow
  <2>6. ASSUME ReportReplaced PROVE PositionsTypeOK'
    BY <2>6 DEF ReportReplaced
  <2>7. ASSUME UNCHANGED positionsVars PROVE PositionsTypeOK'
    BY <2>7 DEF positionsVars
  <2> QED
    BY <1>2, <2>1, <2>2, <2>3, <2>4, <2>5, <2>6, <2>7 DEF PositionsNext
<1> QED
  BY <1>1, <1>2

\* The tab holds a report, and a timeframe, a filter, a column and a direction that it
\* offers (PositionsTab.tsx:143-205, InsightsBand.tsx:449-471).
THEOREM PositionsTyped == PositionsSpec => []PositionsTypeOK
BY PositionsTypeInvariance, PTL DEF PositionsSpec

-----------------------------------------------------------------------------
(* Sorted highest first, the table has its dashes at the foot.              *)

\* Analysts that give no rating have no score either, and no rank.
LEMMA NoRating ==
  ASSUME NEW p, IsFigures(p)
  PROVE  /\ p.analystRating = NoText => analystRank(p) = None
         /\ analystRank(p) # None => analystRank(p) \in Int /\ analystRank(p) < Infinity
<1> DEFINE Labelled(i) == p.analystRating \in ANALYST_RANK[i]
<1>1. Figure(p["analystScore"])
  BY FiguresTyped DEF NumberFigures
<1>2. \A i \in 1..5 : NoText \notin ANALYST_RANK[i]
  <2> TAKE i \in 1..5
  <2>1. i = 1 \/ i = 2 \/ i = 3 \/ i = 4 \/ i = 5
    BY SMT
  <2>2. NoText \notin ANALYST_RANK[1]
    BY Zenon DEF ANALYST_RANK, NoText
  <2>3. NoText \notin ANALYST_RANK[2]
    BY Zenon DEF ANALYST_RANK, NoText
  <2>4. NoText \notin ANALYST_RANK[3]
    BY Zenon DEF ANALYST_RANK, NoText
  <2>5. NoText \notin ANALYST_RANK[4]
    BY Zenon DEF ANALYST_RANK, NoText
  <2>6. NoText \notin ANALYST_RANK[5]
    BY Zenon DEF ANALYST_RANK, NoText
  <2> QED
    BY <2>1, <2>2, <2>3, <2>4, <2>5, <2>6, Zenon
<1>3. ASSUME p.analystRating = NoText PROVE analystRank(p) = None
  <2>1. p.analystScore = None
    BY <1>3 DEF IsFigures
  <2>2. ~\E i \in 1..5 : Labelled(i)
    BY <1>2, <1>3
  <2> QED
    BY <2>1, <2>2 DEF analystRank
<1>4. ASSUME analystRank(p) # None PROVE analystRank(p) \in Int /\ analystRank(p) < Infinity
  <2>1. CASE \E i \in 1..5 : Labelled(i)
    <3> HIDE DEF Labelled
    <3>1. PICK label : label = CHOOSE i \in 1..5 : Labelled(i)
      OBVIOUS
    <3>2. analystRank(p) = 10 * label
      BY <2>1, <3>1 DEF analystRank, Labelled
    <3>3. label \in 1..5
      BY <2>1, <3>1, Zenon
    <3> QED
      BY <3>2, <3>3, IndicatorConstants
  <2>2. CASE ~\E i \in 1..5 : Labelled(i)
    BY <1>1, <1>4, <2>2 DEF analystRank, Figure
  <2> QED
    BY <2>1, <2>2
<1> QED
  BY <1>3, <1>4

\* Of a dash and a figure of one column, the figure is sorted the higher.
LEMMA DashesBelow ==
  ASSUME NEW p, IsFigures(p), NEW q, IsFigures(q), NEW key \in INDICATOR_COLUMNS,
         ~INDICATOR_CELLS(p, key), INDICATOR_CELLS(q, key)
  PROVE  LET above == indicatorSortValue(p, key)
             below == indicatorSortValue(q, key)
         IN IF key = "analyst" THEN above <= below => analystRank(q) = None
            ELSE \/ above < below
                 \/ key \in {"evToEbitda", "cashFlowQuality"} /\ above = 0 /\ below < 0
                 \/ key = "range" /\ (above >= below => below = -Infinity)
<1> DEFINE above == indicatorSortValue(p, key)
           below == indicatorSortValue(q, key)
<1>1. p # None /\ q # None /\ -Infinity \in Int /\ Infinity \in Int /\ Infinity > 0
  BY IndicatorConstants DEF IsFigures
<1>2. CASE key \in DOMAIN NumberField
  <2>1. /\ Figure(p[NumberField[key]]) /\ Figure(q[NumberField[key]])
        /\ key \notin {"range", "analyst"}
    BY <1>2, NumberKeys, FiguresTyped
  <2>2. PICK v, w : v = p[NumberField[key]] /\ w = q[NumberField[key]]
    OBVIOUS
  <2>3. above = Or(v, -Infinity) /\ below = Or(w, -Infinity)
    BY <1>1, <1>2, <2>1, <2>2, NumberKeys DEF indicatorSortValue
  <2>4. ~ShowsNumber(p, key) /\ ShowsNumber(q, key)
    BY <1>2, <2>1, NumberKeys DEF INDICATOR_CELLS
  <2>5. CASE key \in {"pe", "forwardPe", "sectorPe"}
    <3>1. ~(v # None /\ v > 0) /\ w # None /\ w > 0
      BY <2>2, <2>4, <2>5 DEF ShowsNumber
    <3> QED
      BY <1>1, <2>1, <2>2, <2>3, <3>1 DEF Figure, Or
  <2>6. CASE key \in {"evToEbitda", "cashFlowQuality"}
    <3>1. ~(v # None /\ v # 0) /\ w # None /\ w # 0
      BY <2>2, <2>4, <2>6 DEF ShowsNumber
    <3> QED
      BY <1>1, <2>1, <2>2, <2>3, <2>6, <3>1 DEF Figure, Or
  <2>7. CASE key \notin {"pe", "forwardPe", "sectorPe", "evToEbitda", "cashFlowQuality"}
    <3>1. v = None /\ w # None
      BY <2>2, <2>4, <2>7 DEF ShowsNumber
    <3> QED
      BY <1>1, <2>1, <2>2, <2>3, <3>1 DEF Figure, Or
  <2> QED
    BY <2>5, <2>6, <2>7
<1>3. CASE key \in DOMAIN TextField
  <2>1. key \notin {"range", "analyst"} /\ key \notin DOMAIN NumberField
    BY <1>3, NumberKeys
  <2>2. p[TextField[key]] = NoText /\ q[TextField[key]] # NoText /\ q[TextField[key]] \in Texts
    BY <1>3, <2>1, NumberKeys, FiguresTyped DEF INDICATOR_CELLS
  <2>3. above = Rank(p[TextField[key]]) /\ below = Rank(q[TextField[key]])
    BY <1>1, <1>3, <2>1 DEF indicatorSortValue
  <2> QED
    BY <2>1, <2>2, <2>3, Ranks
<1>4. CASE key = "range"
  <2>1. None \in {p.weekLow52, p.weekHigh52, p.currentPrice}
    BY <1>4, NumberKeys DEF INDICATOR_CELLS
  <2>2. above = rangePct(p) /\ below = rangePct(q)
    BY <1>1, <1>4, NumberKeys DEF indicatorSortValue
  <2>3. rangePct(p) = -Infinity
    BY <2>1 DEF rangePct
  <2>4. rangePct(q) \in Int /\ rangePct(q) >= -Infinity
    BY RangeTyped
  <2> QED
    BY <1>1, <1>4, <2>2, <2>3, <2>4
<1>5. CASE key = "analyst"
  <2>1. p.analystRating = NoText
    BY <1>5, NumberKeys DEF INDICATOR_CELLS
  <2>2. above = Or(analystRank(p), Infinity) /\ below = Or(analystRank(q), Infinity)
    BY <1>1, <1>5, NumberKeys DEF indicatorSortValue
  <2>3. above = Infinity
    BY <2>1, <2>2, NoRating DEF Or
  <2>4. analystRank(q) # None => below \in Int /\ below < Infinity
    BY <2>2, NoRating DEF Or
  <2> QED
    BY <1>1, <1>5, <2>3, <2>4
<1> QED
  BY <1>2, <1>3, <1>4, <1>5, NumberKeys

TableKeys == [k \in DOMAIN data.openPositions |-> positionValue(data.openPositions[k], sortKey)]

\* The table has the positions that the filter passes, sorted by the column.
LEMMA TableFacts ==
  ASSUME PositionsTypeOK
  PROVE  LET positions == data.openPositions
             n == Len(positions)
         IN /\ n \in Nat /\ DOMAIN positions = 1..n /\ Visible \in SUBSET (1..n)
            /\ \A k \in 1..n : IsPosition(positions[k])
            /\ \A k \in 1..n : TableKeys[k] = positionValue(positions[k], sortKey)
            /\ \A k \in 1..n : TableKeys[k] \in Int
            /\ Visible \in SUBSET Int /\ IsFiniteSet(Visible)
            /\ IsSorting(Rows, positions, Visible, TableKeys, sortDir)
<1> DEFINE positions == data.openPositions
           n == Len(positions)
<1>1. /\ n \in Nat /\ DOMAIN positions = 1..n /\ \A k \in 1..n : IsPosition(positions[k])
  BY ReportFacts DEF PositionsTypeOK
<1>2. Visible \in SUBSET (1..n)
  BY <1>1 DEF Visible
<1>3. \A k \in 1..n : TableKeys[k] = positionValue(positions[k], sortKey)
  BY <1>1 DEF TableKeys
<1>4. sortKey \in POSITION_COLUMNS
  BY PositionsConstants DEF PositionsTypeOK
<1>5. \A k \in 1..n : TableKeys[k] \in Int
  BY <1>1, <1>3, <1>4, PositionValueTyped
<1>6. Visible \in SUBSET Int /\ IsFiniteSet(Visible)
  <2> HIDE DEF n
  <2>1. IsFiniteSet(1..n)
    BY <1>1, FS_Interval
  <2>2. IsFiniteSet(Visible)
    BY <1>2, <2>1, FS_Subset
  <2> QED
    BY <1>1, <1>2, <2>2
<1>7. Rows = Sorted(positions, Visible, TableKeys, sortDir)
  BY DEF Rows, sortPositions, TableKeys
<1>8. \A k \in Visible : TableKeys[k] \in Int
  BY <1>2, <1>5
<1> HIDE DEF positions, n
<1>9. IsSorting(Rows, positions, Visible, TableKeys, sortDir)
  BY <1>6, <1>7, <1>8, SortedRows
<1> QED
  BY <1>1, <1>2, <1>3, <1>5, <1>6, <1>9 DEF positions, n

\* Of a dash and a figure of one column, which the table may have in this order.
LEMMA DashAbove ==
  ASSUME NEW p, IsPosition(p), NEW q, IsPosition(q), NEW key \in POSITION_COLUMNS,
         ~PositionCell(p, key), PositionCell(q, key),
         NEW dir \in {"asc", "desc"},
         IF dir = "asc" THEN positionValue(p, key) <= positionValue(q, key)
         ELSE positionValue(p, key) >= positionValue(q, key)
  PROVE  IF key = "analyst" THEN dir = "desc" \/ analystRank(q.figures) = None
         ELSE \/ dir = "asc"
              \/ /\ key \in {"evToEbitda", "cashFlowQuality"}
                 /\ positionValue(p, key) = 0 /\ positionValue(q, key) < 0
              \/ key = "range" /\ positionValue(q, key) = -Infinity
<1>1. INDICATOR_COLUMNS \cap {"symbol", "cost", "mv", "alloc", "quantity", "pnl", "pct"} = {}
  BY DEF INDICATOR_COLUMNS, LEAD_INDICATORS
<1>2. positionValue(p, key) \in Int /\ positionValue(q, key) \in Int
  BY PositionValueTyped
<1>3. CASE key \in INDICATOR_COLUMNS
  <2>1. key \notin {"symbol", "cost", "mv", "alloc", "quantity", "pnl", "pct"}
    BY <1>1, <1>3
  <2>2. /\ positionValue(p, key) = indicatorSortValue(p.figures, key)
        /\ positionValue(q, key) = indicatorSortValue(q.figures, key)
    BY <1>3, <2>1 DEF positionValue
  <2>3. ~INDICATOR_CELLS(p.figures, key) /\ INDICATOR_CELLS(q.figures, key)
    BY <1>3, <2>1 DEF PositionCell
  <2>4. IsFigures(p.figures) /\ IsFigures(q.figures)
    BY DEF IsPosition
  <2>5. PICK a, b : a = indicatorSortValue(p.figures, key) /\ b = indicatorSortValue(q.figures, key)
    OBVIOUS
  <2>6. IF key = "analyst" THEN a <= b => analystRank(q.figures) = None
        ELSE \/ a < b
             \/ key \in {"evToEbitda", "cashFlowQuality"} /\ a = 0 /\ b < 0
             \/ key = "range" /\ (a >= b => b = -Infinity)
    BY <1>3, <2>3, <2>4, <2>5, DashesBelow
  <2> QED
    BY <1>2, <2>2, <2>5, <2>6
<1>4. CASE key \in {"symbol", "cost", "alloc"}
  <2>1. key \notin INDICATOR_COLUMNS /\ key \notin {"quantity", "mv", "pnl", "pct"}
    BY <1>1, <1>4
  <2>2. PositionCell(p, key)
    BY <1>4, <2>1 DEF PositionCell
  <2> QED
    BY <2>2
<1>5. CASE key \in {"quantity", "mv", "pnl", "pct"}
  <2>1. key \notin INDICATOR_COLUMNS /\ key \notin {"symbol", "cost", "alloc", "analyst"}
    BY <1>1, <1>5 DEF INDICATOR_COLUMNS
  <2>2. Figure(p["quantity"]) /\ Figure(p["mv"]) /\ Figure(p["pnl"]) /\ Figure(p["pct"])
    BY Numbers DEF IsPosition
  <2>3. Figure(q["quantity"]) /\ Figure(q["mv"]) /\ Figure(q["pnl"]) /\ Figure(q["pct"])
    BY Numbers DEF IsPosition
  <2>4. Figure(p[key]) /\ Figure(q[key])
    BY <1>5, <2>2, <2>3
  <2>5. p[key] = None /\ q[key] # None
    BY <1>5, <2>1 DEF PositionCell
  <2>6. positionValue(p, key) = Or(p[key], -Infinity) /\ positionValue(q, key) = Or(q[key], -Infinity)
    BY <1>5, <2>1 DEF positionValue
  <2> QED
    BY <1>2, <2>1, <2>4, <2>5, <2>6, IndicatorConstants DEF Figure, Or
<1> QED
  BY <1>3, <1>4, <1>5 DEF POSITION_COLUMNS

LEMMA DashesAtTheFoot ==
  ASSUME PositionsTypeOK
  PROVE  DashesLast
<1> DEFINE positions == data.openPositions
           m == Cardinality(Visible)
<1>1. /\ Visible \in SUBSET (1..Len(positions)) /\ \A k \in Visible : IsPosition(positions[k])
      /\ \A k \in Visible : TableKeys[k] = positionValue(positions[k], sortKey) /\ TableKeys[k] \in Int
      /\ IsSorting(Rows, positions, Visible, TableKeys, sortDir)
  BY TableFacts
<1> HIDE DEF positions
<1>2. m \in Nat /\ DOMAIN Rows = 1..m
  BY <1>1 DEF IsSorting
<1>3. PICK order \in [1..m -> Visible] :
        /\ \A k \in 1..m : Rows[k] = positions[order[k]]
        /\ \A k, l \in 1..m : k < l => Above(TableKeys, sortDir, order[k], order[l])
  BY <1>1 DEF IsSorting
<1> HIDE DEF m
<1>4. sortKey \in POSITION_COLUMNS /\ sortDir \in {"asc", "desc"}
  BY PositionsConstants DEF PositionsTypeOK
<1>5. ASSUME NEW i \in DOMAIN Rows, NEW j \in DOMAIN Rows, i < j,
             ~PositionCell(Rows[i], sortKey), PositionCell(Rows[j], sortKey)
      PROVE  IF sortKey = "analyst" THEN sortDir = "desc" \/ analystRank(Rows[j].figures) = None
             ELSE \/ sortDir = "asc"
                  \/ /\ sortKey \in {"evToEbitda", "cashFlowQuality"}
                     /\ positionValue(Rows[i], sortKey) = 0 /\ positionValue(Rows[j], sortKey) < 0
                  \/ sortKey = "range" /\ positionValue(Rows[j], sortKey) = -Infinity
  <2>1. /\ order[i] \in Visible /\ order[j] \in Visible
        /\ Rows[i] = positions[order[i]] /\ Rows[j] = positions[order[j]]
        /\ Above(TableKeys, sortDir, order[i], order[j])
    BY <1>2, <1>3, <1>5
  <2>2. /\ TableKeys[order[i]] = positionValue(Rows[i], sortKey) /\ TableKeys[order[i]] \in Int
        /\ TableKeys[order[j]] = positionValue(Rows[j], sortKey) /\ TableKeys[order[j]] \in Int
    BY <1>1, <2>1
  <2>3. IF sortDir = "asc" THEN positionValue(Rows[i], sortKey) <= positionValue(Rows[j], sortKey)
        ELSE positionValue(Rows[i], sortKey) >= positionValue(Rows[j], sortKey)
    BY <2>1, <2>2 DEF Above
  <2>4. IsPosition(Rows[i]) /\ IsPosition(Rows[j])
    BY <1>1, <2>1
  <2> QED
    BY <1>4, <1>5, <2>3, <2>4, DashAbove
<1> QED
  BY <1>5 DEF DashesLast

\* With the table sorted highest first by any column, whatever the report, no figure
\* stands below a dash, save where the code has its exceptions: a multiple of zero, a
\* range without a width, and analysts, who are bullish when low
\* (IndicatorColumns.tsx:92-149 against 196-428, PositionsTab.tsx:75-126).
THEOREM DashesSortLast == PositionsSpec => []DashesLast
BY PositionsTyped, DashesAtTheFoot, PTL

-----------------------------------------------------------------------------
(* The rails rank the movers as the table does.                             *)

\* In the column of the timeframe a position is sorted by its move, or by -Infinity.
LEMMA MoveKeys ==
  ASSUME PositionsTypeOK, sortKey = tf
  PROVE  \A k \in 1..Len(data.openPositions) :
           /\ TableKeys[k] = Or(Moves(Items)[k], -Infinity) /\ TableKeys[k] \in Int
           /\ Moves(Items)[k] = cellValue(Items[k], tf) /\ Figure(Moves(Items)[k])
<1> DEFINE positions == data.openPositions
           n == Len(positions)
<1> TAKE k \in 1..n
<1>1. tf \in TIMEFRAMES /\ AreRows(Items, n)
  BY BandTyped, ReportFacts DEF PositionsTypeOK
<1>2. /\ IsFigures(positions[k].figures) /\ Items[k].indicators = positions[k].figures
      /\ TableKeys[k] = positionValue(positions[k], tf) /\ TableKeys[k] \in Int
  BY ReportFacts, TableFacts DEF PositionsTypeOK, IsPosition
<1>3. Moves(Items)[k] = cellValue(Items[k], tf)
  BY <1>1, MovingRows
<1> HIDE DEF positions, n
<1>4. Items[k].indicators # None
  BY <1>2 DEF IsFigures
<1>5. /\ cellValue(Items[k], tf) = Items[k].indicators[NumberField[tf]]
      /\ indicatorSortValue(Items[k].indicators, tf) = Or(cellValue(Items[k], tf), -Infinity)
  BY <1>1, <1>2, <1>4, MoveTyped
<1>6. positionValue(positions[k], tf) = indicatorSortValue(positions[k].figures, tf)
  <2>1. tf \in INDICATOR_COLUMNS
    BY <1>1, NumberKeys
  <2>2. tf \notin {"symbol", "cost", "mv", "alloc", "quantity", "pnl", "pct"}
    BY <1>1 DEF TIMEFRAMES
  <2> QED
    BY <2>1, <2>2 DEF positionValue
<1>7. Figure(Items[k].indicators[NumberField[tf]])
  BY <1>1, <1>2, NumberKeys, FiguresTyped
<1> QED
  BY <1>2, <1>3, <1>5, <1>6, <1>7 DEF positions, n

\* Movers that outdo what else the table shows are on top of it, in their order.
LEMMA RankedAlike ==
  ASSUME PositionsTypeOK, sortKey = tf, sortDir = "desc",
         NEW U \in SUBSET Moving(Items), U \subseteq Visible,
         \A i \in U, j \in Visible \ U : TableKeys[i] > TableKeys[j]
  PROVE  LET u == Cardinality(U)
             v == Cardinality(Visible)
             top == ByMove(Items, U)
         IN /\ u \in Nat /\ v \in Nat /\ u <= v
            /\ DOMAIN top = 1..u /\ DOMAIN Rows = 1..v
            /\ \A k \in 1..u : top[k].symbol = Rows[k].symbol
<1> DEFINE positions == data.openPositions
           n == Len(positions)
           u == Cardinality(U)
           v == Cardinality(Visible)
           top == ByMove(Items, U)
<1>1. /\ Visible \in SUBSET (1..n) /\ Visible \in SUBSET Int /\ IsFiniteSet(Visible)
      /\ \A k \in Visible : TableKeys[k] \in Int
      /\ \A k \in Visible : Items[k].symbol = positions[k].symbol
  BY TableFacts, ReportFacts DEF PositionsTypeOK
<1>2. \A k \in U : Moves(Items)[k] = TableKeys[k]
  <2> TAKE k \in U
  <2>1. k \in 1..n /\ Moves(Items)[k] # None
    BY <1>1 DEF Moving
  <2> QED
    BY <2>1, MoveKeys DEF Or
<1>3. PICK signed : signed = [i \in U |-> -Moves(Items)[i]]
  OBVIOUS
<1>4. PICK keys : keys = [i \in Visible |-> -TableKeys[i]]
  OBVIOUS
<1>5. top = [k \in 1..u |-> Items[Arranged(U, signed)[k]]]
  BY <1>3 DEF ByMove, Sorted
<1>6. Rows = [k \in 1..v |-> positions[Arranged(Visible, keys)[k]]]
  BY <1>4 DEF Rows, sortPositions, Sorted, TableKeys
<1> HIDE DEF positions, n, top
<1>7. /\ \A i \in Visible : keys[i] = -TableKeys[i] /\ keys[i] \in Int
      /\ \A i \in U : signed[i] = keys[i]
  BY <1>1, <1>2, <1>3, <1>4
<1>8. \A i \in U, j \in Visible \ U : Precedes(keys, i, j)
  <2> TAKE i \in U, j \in Visible \ U
  <2>1. TableKeys[i] \in Int /\ TableKeys[j] \in Int /\ TableKeys[i] > TableKeys[j]
    BY <1>1
  <2>2. keys[i] = -TableKeys[i] /\ keys[j] = -TableKeys[j]
    BY <1>7
  <2> QED
    BY <2>1, <2>2 DEF Precedes
<1>9. u <= v /\ \A k \in 1..u : Arranged(U, signed)[k] = Arranged(Visible, keys)[k]
  BY <1>1, <1>7, <1>8, ArrangedStart
<1>10. v \in Nat /\ Arranged(Visible, keys) \in [1..v -> Visible]
  BY <1>1, <1>7, Arrangement
<1>11. u \in Nat
  <2>1. IsFiniteSet(U)
    BY <1>1, FS_Subset
  <2> QED
    BY <2>1, FS_CardinalityType
<1>12. ASSUME NEW k \in 1..u PROVE top[k].symbol = Rows[k].symbol
  <2>1. k \in 1..v
    BY <1>9, <1>10, <1>11
  <2>2. PICK i \in Visible : i = Arranged(Visible, keys)[k]
    BY <1>10, <2>1
  <2>3. top[k] = Items[i] /\ Rows[k] = positions[i]
    BY <1>5, <1>6, <1>9, <2>1, <2>2
  <2> QED
    BY <1>1, <2>2, <2>3
<1> QED
  BY <1>5, <1>6, <1>9, <1>10, <1>11, <1>12 DEF top

\* The start of a sequence.
LEMMA Starts ==
  ASSUME NEW g \in Nat, NEW S, NEW s, \A i \in 1..g : s[i] \in S
  PROVE  /\ SubSeq(s, 1, g) \in Seq(S) /\ Len(SubSeq(s, 1, g)) = g
         /\ \A i \in 1..g : SubSeq(s, 1, g)[i] = s[i]
<1>1. /\ SubSeq(s, 1, g) \in Seq(S) /\ Len(SubSeq(s, 1, g)) = (IF 1 <= g THEN g - 1 + 1 ELSE 0)
      /\ \A i \in 1..(g - 1 + 1) : SubSeq(s, 1, g)[i] = s[1 + i - 1]
  BY SubSeqProperties
<1>2. PICK start : start = SubSeq(s, 1, g)
  OBVIOUS
<1>3. \A i \in 1..g : start[i] = s[i]
  <2> TAKE i \in 1..g
  <2>1. i \in 1..(g - 1 + 1) /\ 1 + i - 1 = i
    OBVIOUS
  <2> QED
    BY <1>1, <1>2, <2>1
<1>4. Len(start) = g
  BY <1>1, <1>2
<1> QED
  BY <1>1, <1>2, <1>3, <1>4

\* A sequence is a prefix of one that goes on from it.
LEMMA IsStart ==
  ASSUME NEW g \in Nat, NEW v \in Nat, g <= v, NEW s, Len(s) = g, NEW t, Len(t) = v,
         \A k \in 1..g : s[k] = t[k]
  PROVE  IsPrefix(s, t)
<1>1. Len(s) = g /\ Len(t) = v
  OBVIOUS
<1>2. PICK S : S = {t[k] : k \in 1..v}
  OBVIOUS
<1>3. PICK a : a = s
  OBVIOUS
<1>4. PICK b : b = t
  OBVIOUS
<1>5. (\A k \in 1..g : a[k] \in S) /\ (\A k \in 1..g : b[k] \in S)
  <2>1. \A k \in 1..g : k \in 1..v
    OBVIOUS
  <2> QED
    BY <1>2, <1>3, <1>4, <2>1
<1>6. /\ SubSeq(a, 1, g) \in Seq(S) /\ Len(SubSeq(a, 1, g)) = g
      /\ \A i \in 1..g : SubSeq(a, 1, g)[i] = a[i]
  BY <1>5, Starts
<1>7. /\ SubSeq(b, 1, g) \in Seq(S) /\ Len(SubSeq(b, 1, g)) = g
      /\ \A i \in 1..g : SubSeq(b, 1, g)[i] = b[i]
  BY <1>5, Starts
<1>8. \A i \in 1..g : a[i] = b[i]
  BY <1>3, <1>4
<1>9. SubSeq(a, 1, g) = SubSeq(b, 1, g)
  BY <1>6, <1>7, <1>8, SeqEqual
<1> QED
  BY <1>1, <1>3, <1>4, <1>9 DEF IsPrefix

\* What each filter leaves on the table.
LEMMA Filtered ==
  ASSUME PositionsTypeOK
  PROVE  /\ Moving(Items) \in SUBSET (1..Len(data.openPositions))
         /\ filter = "All" => Visible = 1..Len(data.openPositions)
         /\ filter = "Gainers" => Visible = Ups(Items)
         /\ filter = "Losers" => Visible = Downs(Items)
<1> DEFINE n == Len(data.openPositions)
<1>1. /\ DOMAIN data.openPositions = 1..n /\ AreRows(Items, n)
      /\ \A k \in 1..n : Items[k] = PositionRow(data.openPositions[k])
  BY ReportFacts DEF PositionsTypeOK
<1>2. tf \in TIMEFRAMES
  BY BandTyped DEF PositionsTypeOK
<1>3. DOMAIN Items = 1..n /\ \A k \in 1..n : Moves(Items)[k] = cellValue(Items[k], tf)
  BY <1>1, <1>2, MovingRows DEF AreRows
<1> HIDE DEF n
<1>4. Moving(Items) \in SUBSET (1..n)
  BY <1>3 DEF Moving
<1>5. Visible = {k \in 1..n : matchesFilter(Items[k], filter, tf)}
  BY <1>1 DEF Visible
<1>6. ASSUME filter = "All" PROVE Visible = 1..n
  BY <1>5, <1>6 DEF matchesFilter
<1>7. ASSUME filter = "Gainers" PROVE Visible = Ups(Items)
  BY <1>3, <1>5, <1>7 DEF matchesFilter, Ups, Moving
<1>8. ASSUME filter = "Losers" PROVE Visible = Downs(Items)
  BY <1>3, <1>5, <1>8 DEF matchesFilter, Downs, Moving
<1> QED
  BY <1>4, <1>6, <1>7, <1>8 DEF n

LEMMA RailsFollowTable ==
  ASSUME PositionsTypeOK
  PROVE  RailsAgreeWithTable
<1> SUFFICES ASSUME sortKey = tf, sortDir = "desc"
             PROVE  /\ filter \in {"All", "Gainers"} => IsPrefix(Symbols(Gainers(Items)), Symbols(Rows))
                    /\ filter = "Losers" =>
                         Symbols(Losers(Items)) = First(RailSize, Reverse(Symbols(Rows)))
  BY DEF RailsAgreeWithTable
<1> DEFINE n == Len(data.openPositions)
           ups == Ups(Items)
           downs == Downs(Items)
           v == Cardinality(Visible)
<1>1. \A k \in 1..n : /\ TableKeys[k] = Or(Moves(Items)[k], -Infinity)
                      /\ Figure(Moves(Items)[k]) /\ TableKeys[k] \in Int
  BY MoveKeys
<1>2. Visible \in SUBSET (1..n) /\ Moving(Items) \in SUBSET (1..n)
  BY TableFacts, Filtered
<1>3. RailSize \in Nat
  BY BandTyped DEF PositionsTypeOK
<1>4. v \in Nat /\ DOMAIN Rows = 1..v
  BY TableFacts DEF IsSorting
<1>5. Symbols(Rows) = [k \in 1..v |-> Rows[k].symbol]
  BY <1>4 DEF Symbols
<1>6. PICK symbols : symbols = Symbols(Rows)
  OBVIOUS
<1>7. symbols = [k \in 1..v |-> symbols[k]] /\ \A k \in 1..v : symbols[k] = Rows[k].symbol
  BY <1>5, <1>6
<1>8. ASSUME filter \in {"All", "Gainers"} PROVE IsPrefix(Symbols(Gainers(Items)), symbols)
  <2> DEFINE u == Cardinality(ups)
             top == ByMove(Items, ups)
  <2>1. ups \in SUBSET Moving(Items) /\ ups \subseteq Visible
    BY <1>2, <1>8, Filtered DEF Ups
  <2>2. \A i \in ups, j \in Visible \ ups : TableKeys[i] > TableKeys[j]
    <3> TAKE i \in ups, j \in Visible \ ups
    <3>1. i \in 1..n /\ Moves(Items)[i] # None /\ Moves(Items)[i] > 0
      BY <1>2 DEF Ups, Moving
    <3>2. j \in 1..n /\ DOMAIN Items = 1..n
      BY <1>2, ReportFacts DEF PositionsTypeOK, AreRows
    <3>3. Moves(Items)[j] = None \/ ~(Moves(Items)[j] > 0)
      BY <3>2 DEF Ups, Moving
    <3> HIDE DEF n, ups
    <3> QED
      BY <1>1, <3>1, <3>2, <3>3, IndicatorConstants DEF Figure, Or
  <2>3. /\ u \in Nat /\ u <= v /\ DOMAIN top = 1..u
        /\ \A k \in 1..u : top[k].symbol = Rows[k].symbol
    <3> HIDE DEF ups
    <3> QED
      BY <2>1, <2>2, RankedAlike
  <2>4. PICK m \in 0..u : First(RailSize, top) = [k \in 1..m |-> top[k]]
    <3> HIDE DEF top, u
    <3>1. \E m \in 0..u : /\ m <= RailSize /\ (m < u => m = RailSize)
                          /\ First(RailSize, top) = [k \in 1..m |-> top[k]]
      BY <1>3, <2>3, FirstRows, Zenon
    <3> QED
      BY <3>1
  <2> HIDE DEF top, u
  <2>5. Symbols(Gainers(Items)) = [k \in 1..m |-> top[k].symbol]
    BY <2>4 DEF Symbols, Gainers, top, ups
  <2>6. PICK gainers : gainers = Symbols(Gainers(Items))
    OBVIOUS
  <2>7. m \in Nat /\ m <= v /\ gainers = [k \in 1..m |-> gainers[k]]
    BY <1>4, <2>3, <2>4, <2>5, <2>6
  <2>8. \A k \in 1..m : gainers[k] = symbols[k]
    <3> TAKE k \in 1..m
    <3>1. k \in 1..u /\ k \in 1..v
      BY <1>4, <2>3
    <3> QED
      BY <1>7, <2>3, <2>5, <2>6, <3>1
  <2>9. IsPrefix(gainers, symbols)
    <3>1. m \in Nat /\ v \in Nat /\ m <= v
      BY <1>4, <2>7
    <3> HIDE DEF v
    <3>2. Len(gainers) = m
      BY <2>7, <3>1, FunctionSeq
    <3>3. Len(symbols) = v
      BY <1>7, <3>1, FunctionSeq
    <3> QED
      BY <2>8, <3>1, <3>2, <3>3, IsStart
  <2> QED
    BY <2>6, <2>9
<1>9. ASSUME filter = "Losers"
      PROVE  Symbols(Losers(Items)) = First(RailSize, Reverse(symbols))
  <2> DEFINE top == ByMove(Items, downs)
             back == Reverse(top)
  <2>1. Visible = downs /\ downs \in SUBSET Moving(Items)
    BY <1>9, Filtered DEF Downs
  <2>2. \A i \in downs, j \in Visible \ downs : TableKeys[i] > TableKeys[j]
    BY <2>1
  <2>3. DOMAIN top = 1..v /\ \A k \in 1..v : top[k].symbol = Rows[k].symbol
    <3> HIDE DEF downs
    <3> QED
      BY <2>1, <2>2, RankedAlike
  <2>4. Len(top) = v
    <3>1. top = [k \in 1..v |-> top[k]]
      <4>1. IsSorting(top, Items, downs, Moves(Items), "desc")
        BY <2>1, MovingRows, ReportFacts, BandTyped DEF PositionsTypeOK
      <4> HIDE DEF top
      <4> QED
        BY <2>1, <4>1 DEF IsSorting
    <3> HIDE DEF top
    <3> QED
      BY <1>4, <3>1, FunctionSeq
  <2>5. Len(symbols) = v
    BY <1>4, <1>7, FunctionSeq
  <2>6. back = [k \in 1..v |-> top[v - k + 1]]
    BY <2>4 DEF Reverse
  <2>7. Reverse(symbols) = [k \in 1..v |-> symbols[v - k + 1]]
    BY <2>5 DEF Reverse
  <2> HIDE DEF top, back, v
  <2>8. ASSUME NEW k \in 1..v PROVE back[k].symbol = Reverse(symbols)[k]
    <3>1. v - k + 1 \in 1..v
      BY <1>4
    <3> QED
      BY <1>7, <2>3, <2>6, <2>7, <3>1
  <2>9. /\ DOMAIN back = 1..v /\ DOMAIN Reverse(symbols) = 1..v
    BY <2>6, <2>7
  <2>10. Symbols(First(RailSize, back)) = First(RailSize, Reverse(symbols))
    BY <2>8, <2>9 DEF Symbols, First
  <2>11. Losers(Items) = First(RailSize, back)
    BY DEF Losers, back, top, downs
  <2> QED
    BY <2>10, <2>11
<1> QED
  BY <1>6, <1>8, <1>9

\* Whatever the report: with the table sorted by the timeframe, highest first, the
\* gainers of the band are the rows on top of it, and the losers the rows at the foot
\* of what the filter leaves of it, though the band sorts other rows, apart, and has a
\* missing return in another place (InsightsBand.tsx:474-486, PositionsTab.tsx:116-126).
THEOREM RailsAgree == PositionsSpec => []RailsAgreeWithTable
BY PositionsTyped, RailsFollowTable, PTL

-----------------------------------------------------------------------------
(* The tiles have the extremes of the rails.                                *)

LEMMA EmptyRows ==
  ASSUME NEW n \in Nat, NEW s, s = [k \in 1..n |-> s[k]]
  PROVE  s = <<>> <=> n = 0
<1>1. PICK S : S = {s[k] : k \in 1..n}
  OBVIOUS
<1>2. s \in Seq(S) /\ Len(s) = n
  BY <1>1, FunctionSeq
<1> QED
  BY <1>2, EmptySeq

\* The first of what is highest: a rail is empty, or begins as its rows do.
LEMMA RailStart ==
  ASSUME NEW n \in Nat, NEW s, DOMAIN s = 1..n, NEW size \in Nat, size >= 1
  PROVE  /\ First(size, Rail(s)) = <<>> <=> n = 0
         /\ Rail(First(size, s)) = <<>> <=> n = 0
         /\ n >= 1 => /\ First(size, Rail(s))[1].move = cellValue(s[1], tf)
                      /\ Rail(First(size, s))[1].move = cellValue(s[1], tf)
<1>1. DOMAIN Rail(s) = 1..n /\ \A k \in 1..n : Rail(s)[k].move = cellValue(s[k], tf)
  BY DEF Rail
<1>2. PICK m \in 0..n : m <= size /\ (m < n => m = size) /\ First(size, s) = [k \in 1..m |-> s[k]]
  BY FirstRows
<1>3. PICK l \in 0..n : /\ l <= size /\ (l < n => l = size)
                        /\ First(size, Rail(s)) = [k \in 1..l |-> Rail(s)[k]]
  <2>1. PICK rail : rail = Rail(s)
    OBVIOUS
  <2>2. DOMAIN rail = 1..n
    BY <1>1, <2>1
  <2>3. \E l \in 0..n : /\ l <= size /\ (l < n => l = size)
                        /\ First(size, rail) = [k \in 1..l |-> rail[k]]
    BY <2>2, FirstRows
  <2> QED
    BY <2>1, <2>3
<1>4. (l = 0 <=> n = 0) /\ (m = 0 <=> n = 0) /\ (n >= 1 => 1 \in 1..n /\ 1 \in 1..m /\ 1 \in 1..l)
  BY <1>2, <1>3
<1>5. PICK a, b : a = First(size, Rail(s)) /\ b = Rail(First(size, s))
  OBVIOUS
<1>6. a = [k \in 1..l |-> Rail(s)[k]]
  BY <1>3, <1>5
<1>7. b = [k \in 1..m |-> [symbol |-> First(size, s)[k].symbol, move |-> cellValue(First(size, s)[k], tf)]]
  BY <1>2, <1>5 DEF Rail
<1>8. a = <<>> <=> l = 0
  <2>1. a = [k \in 1..l |-> a[k]] /\ l \in Nat
    BY <1>3, <1>6
  <2> QED
    BY <2>1, EmptyRows
<1>9. b = <<>> <=> m = 0
  <2>1. b = [k \in 1..m |-> b[k]] /\ m \in Nat
    BY <1>2, <1>7
  <2> QED
    BY <2>1, EmptyRows
<1>10. ASSUME n >= 1 PROVE a[1].move = cellValue(s[1], tf) /\ b[1].move = cellValue(s[1], tf)
  <2>1. a[1] = Rail(s)[1]
    BY <1>4, <1>6, <1>10
  <2>2. First(size, s)[1] = s[1]
    BY <1>2, <1>4, <1>10
  <2>3. b[1].move = cellValue(First(size, s)[1], tf)
    BY <1>4, <1>7, <1>10
  <2> QED
    BY <1>1, <1>4, <1>10, <2>1, <2>2, <2>3
<1> QED
  BY <1>4, <1>5, <1>8, <1>9, <1>10

\* Rows that are sorted highest first begin with a highest and end with a lowest.
LEMMA Extremes ==
  ASSUME NEW rows, NEW kept, NEW keys, \A i \in kept : keys[i] \in Int, NEW result,
         IsSorting(result, rows, kept, keys, "desc"), NEW n, n = Cardinality(kept), n >= 1
  PROVE  /\ \E i \in kept : result[1] = rows[i] /\ \A j \in kept : keys[j] <= keys[i]
         /\ \E i \in kept : result[n] = rows[i] /\ \A j \in kept : keys[j] >= keys[i]
<1>1. n \in Nat
  BY DEF IsSorting
<1>2. PICK order \in [1..n -> kept] :
        /\ \A k \in 1..n : result[k] = rows[order[k]]
        /\ \A i \in kept : \E k \in 1..n : order[k] = i
        /\ \A k, l \in 1..n : k < l => Above(keys, "desc", order[k], order[l])
  BY DEF IsSorting
<1>3. 1 \in 1..n /\ n \in 1..n
  BY <1>1
<1>4. \A k, l \in 1..n : k < l => keys[order[k]] >= keys[order[l]]
  <2> TAKE k \in 1..n, l \in 1..n
  <2>1. keys[order[k]] \in Int /\ keys[order[l]] \in Int
    OBVIOUS
  <2>2. k < l => Above(keys, "desc", order[k], order[l])
    BY <1>2
  <2> QED
    BY <2>1, <2>2 DEF Above
<1>5. ASSUME NEW j \in kept PROVE keys[j] <= keys[order[1]] /\ keys[j] >= keys[order[n]]
  <2>1. PICK k \in 1..n : order[k] = j
    BY <1>2
  <2>2. keys[order[k]] \in Int /\ keys[order[1]] \in Int /\ keys[order[n]] \in Int
    BY <1>3
  <2>3. k = 1 \/ keys[order[1]] >= keys[order[k]]
    BY <1>1, <1>3, <1>4
  <2>4. k = n \/ keys[order[k]] >= keys[order[n]]
    BY <1>1, <1>3, <1>4
  <2> QED
    BY <2>1, <2>2, <2>3, <2>4
<1>6. order[1] \in kept /\ order[n] \in kept /\ result[1] = rows[order[1]] /\ result[n] = rows[order[n]]
  BY <1>2, <1>3
<1> QED
  BY <1>5, <1>6

\* Movers, the highest first: their first move is a highest, their last a lowest.
LEMMA Movers ==
  ASSUME NEW rows, NEW n, AreRows(rows, n), tf \in TIMEFRAMES, NEW kept \in SUBSET Moving(rows)
  PROVE  LET x == Cardinality(kept)
             movers == ByMove(rows, kept)
         IN /\ x \in Nat /\ DOMAIN movers = 1..x /\ Len(movers) = x /\ (x = 0 <=> kept = {})
            /\ x >= 1 =>
                 /\ \E i \in kept : /\ cellValue(movers[1], tf) = Moves(rows)[i]
                                    /\ \A j \in kept : Moves(rows)[j] <= Moves(rows)[i]
                 /\ \E i \in kept : /\ cellValue(movers[x], tf) = Moves(rows)[i]
                                    /\ \A j \in kept : Moves(rows)[j] >= Moves(rows)[i]
<1> DEFINE x == Cardinality(kept)
           movers == ByMove(rows, kept)
           moves == Moves(rows)
<1>1. /\ IsFiniteSet(kept) /\ kept \in SUBSET (1..n)
      /\ \A i \in kept : moves[i] \in Int /\ moves[i] = cellValue(rows[i], tf)
      /\ IsSorting(movers, rows, kept, moves, "desc")
  <2>1. /\ Moving(rows) \in SUBSET (1..n)
        /\ \A set \in SUBSET (1..n) : set \in SUBSET Int /\ IsFiniteSet(set)
        /\ \A k \in 1..n : moves[k] = cellValue(rows[k], tf)
        /\ \A k \in Moving(rows) : moves[k] \in Int
        /\ \A set \in SUBSET Moving(rows) :
             IsSorting(ByMove(rows, set), rows, set, moves, "desc")
    BY MovingRows
  <2> HIDE DEF moves
  <2> QED
    BY <2>1
<1> HIDE DEF movers, moves, x
<1>2. x \in Nat /\ movers = [k \in 1..x |-> movers[k]] /\ DOMAIN movers = 1..x
  BY <1>1 DEF IsSorting, x
<1>3. Len(movers) = x
  BY <1>2, FunctionSeq
<1>4. x = 0 <=> kept = {}
  BY <1>1, FS_EmptySet DEF x
<1>5. ASSUME x >= 1
      PROVE  /\ \E i \in kept : movers[1] = rows[i] /\ \A j \in kept : moves[j] <= moves[i]
             /\ \E i \in kept : movers[x] = rows[i] /\ \A j \in kept : moves[j] >= moves[i]
  BY <1>1, <1>5, Extremes DEF x
<1>6. ASSUME x >= 1
      PROVE  /\ \E i \in kept : /\ cellValue(movers[1], tf) = moves[i]
                                /\ \A j \in kept : moves[j] <= moves[i]
             /\ \E i \in kept : /\ cellValue(movers[x], tf) = moves[i]
                                /\ \A j \in kept : moves[j] >= moves[i]
  BY <1>1, <1>5, <1>6
<1> QED
  BY <1>2, <1>3, <1>4, <1>6 DEF movers, moves, x

\* A rail from the other end.
LEMMA Reversed ==
  ASSUME NEW n \in Nat, NEW s, DOMAIN s = 1..n, Len(s) = n
  PROVE  /\ DOMAIN Reverse(s) = 1..n /\ (n >= 1 => Reverse(s)[1] = s[n])
         /\ Reverse(Rail(s)) = Rail(Reverse(s))
<1>1. Reverse(s) = [i \in 1..n |-> s[n - i + 1]]
  BY DEF Reverse
<1>2. Rail(s) = [k \in 1..n |-> [symbol |-> s[k].symbol, move |-> cellValue(s[k], tf)]]
  BY DEF Rail
<1>3. Len(Rail(s)) = n
  <2>1. PICK rail : rail = Rail(s)
    OBVIOUS
  <2>2. rail = [k \in 1..n |-> rail[k]]
    BY <1>2, <2>1
  <2>3. Len(rail) = n
    BY <2>2, FunctionSeq
  <2> QED
    BY <2>1, <2>3
<1>4. Reverse(Rail(s)) = [i \in 1..n |-> Rail(s)[n - i + 1]]
  BY <1>3 DEF Reverse
<1>5. Rail(Reverse(s)) =
        [i \in 1..n |-> [symbol |-> s[n - i + 1].symbol, move |-> cellValue(s[n - i + 1], tf)]]
  BY <1>1 DEF Rail
<1>6. \A i \in 1..n : n - i + 1 \in 1..n
  OBVIOUS
<1>7. \A i \in 1..n :
        Rail(s)[n - i + 1] = [symbol |-> s[n - i + 1].symbol, move |-> cellValue(s[n - i + 1], tf)]
  BY <1>2, <1>6
<1>8. n >= 1 => Reverse(s)[1] = s[n]
  BY <1>1
<1>9. Reverse(Rail(s)) = Rail(Reverse(s))
  BY <1>4, <1>5, <1>7
<1>10. DOMAIN Reverse(s) = 1..n
  BY <1>1
<1> QED
  BY <1>8, <1>9, <1>10

\* The tiles have a highest and a lowest move of the rows, if there is one.
AreTiles(tiles, rows) ==
  /\ tiles.best = <<>> <=> Moving(rows) = {}
  /\ Moving(rows) # {} =>
       /\ \E i \in Moving(rows) : /\ tiles.best[1].move = Moves(rows)[i]
                                  /\ \A j \in Moving(rows) : Moves(rows)[j] <= Moves(rows)[i]
       /\ \E i \in Moving(rows) : /\ tiles.worst[1].move = Moves(rows)[i]
                                  /\ \A j \in Moving(rows) : Moves(rows)[j] >= Moves(rows)[i]

LEMMA TileExtremes ==
  ASSUME NEW rows, NEW n, AreRows(rows, n), tf \in TIMEFRAMES, NEW total
  PROVE  AreTiles(StatTiles(total, rows), rows)
<1>1. PICK x, movers : x = Cardinality(Moving(rows)) /\ movers = ByMove(rows, Moving(rows))
  OBVIOUS
<1>2. /\ x \in Nat /\ DOMAIN movers = 1..x /\ Len(movers) = x /\ (x = 0 <=> Moving(rows) = {})
      /\ x >= 1 =>
           /\ \E i \in Moving(rows) :
                /\ cellValue(movers[1], tf) = Moves(rows)[i]
                /\ \A j \in Moving(rows) : Moves(rows)[j] <= Moves(rows)[i]
           /\ \E i \in Moving(rows) :
                /\ cellValue(movers[x], tf) = Moves(rows)[i]
                /\ \A j \in Moving(rows) : Moves(rows)[j] >= Moves(rows)[i]
  BY <1>1, Movers
<1>3. PICK back : back = Reverse(movers)
  OBVIOUS
<1>4. /\ DOMAIN back = 1..x /\ (x >= 1 => back[1] = movers[x])
      /\ Reverse(Rail(movers)) = Rail(back)
  BY <1>2, <1>3, Reversed
<1>5. /\ StatTiles(total, rows).best = First(1, Rail(movers))
      /\ StatTiles(total, rows).worst = First(1, Rail(back))
  BY <1>1, <1>4 DEF StatTiles
<1>6. /\ First(1, Rail(movers)) = <<>> <=> x = 0
      /\ x >= 1 => First(1, Rail(movers))[1].move = cellValue(movers[1], tf)
  BY <1>2, RailStart
<1>7. x >= 1 => First(1, Rail(back))[1].move = cellValue(movers[x], tf)
  BY <1>2, <1>4, RailStart
<1> QED
  BY <1>2, <1>5, <1>6, <1>7 DEF AreTiles

\* A rail that is not empty begins with a highest, or a lowest, of its movers.
LEMMA RailExtremes ==
  ASSUME NEW rows, NEW n, AreRows(rows, n), BandTypeOK
  PROVE  /\ Rail(Gainers(rows)) # <<>> =>
              \E i \in Ups(rows) : /\ Rail(Gainers(rows))[1].move = Moves(rows)[i]
                                   /\ \A j \in Ups(rows) : Moves(rows)[j] <= Moves(rows)[i]
         /\ Rail(Losers(rows)) # <<>> =>
              \E i \in Downs(rows) : /\ Rail(Losers(rows))[1].move = Moves(rows)[i]
                                     /\ \A j \in Downs(rows) : Moves(rows)[j] >= Moves(rows)[i]
<1>1. tf \in TIMEFRAMES
  BY BandTyped
<1>2. PICK size : size = RailSize
  OBVIOUS
<1>3. size \in Nat /\ size >= 1
  BY <1>2, BandTyped
<1>4. ASSUME Rail(Gainers(rows)) # <<>>
      PROVE  \E i \in Ups(rows) : /\ Rail(Gainers(rows))[1].move = Moves(rows)[i]
                                  /\ \A j \in Ups(rows) : Moves(rows)[j] <= Moves(rows)[i]
  <2>1. PICK x, movers : x = Cardinality(Ups(rows)) /\ movers = ByMove(rows, Ups(rows))
    OBVIOUS
  <2>2. Ups(rows) \in SUBSET Moving(rows)
    BY DEF Ups
  <2>3. /\ x \in Nat /\ DOMAIN movers = 1..x
        /\ x >= 1 => \E i \in Ups(rows) : /\ cellValue(movers[1], tf) = Moves(rows)[i]
                                          /\ \A j \in Ups(rows) : Moves(rows)[j] <= Moves(rows)[i]
    BY <1>1, <2>1, <2>2, Movers
  <2>4. Gainers(rows) = First(size, movers)
    BY <1>2, <2>1 DEF Gainers
  <2>5. /\ Rail(First(size, movers)) = <<>> <=> x = 0
        /\ x >= 1 => Rail(First(size, movers))[1].move = cellValue(movers[1], tf)
    BY <1>3, <2>3, RailStart
  <2> QED
    BY <1>4, <2>3, <2>4, <2>5
<1>5. ASSUME Rail(Losers(rows)) # <<>>
      PROVE  \E i \in Downs(rows) : /\ Rail(Losers(rows))[1].move = Moves(rows)[i]
                                    /\ \A j \in Downs(rows) : Moves(rows)[j] >= Moves(rows)[i]
  <2>1. PICK x, movers : x = Cardinality(Downs(rows)) /\ movers = ByMove(rows, Downs(rows))
    OBVIOUS
  <2>2. Downs(rows) \in SUBSET Moving(rows)
    BY DEF Downs
  <2>3. /\ x \in Nat /\ DOMAIN movers = 1..x /\ Len(movers) = x
        /\ x >= 1 => \E i \in Downs(rows) : /\ cellValue(movers[x], tf) = Moves(rows)[i]
                                            /\ \A j \in Downs(rows) : Moves(rows)[j] >= Moves(rows)[i]
    BY <1>1, <2>1, <2>2, Movers
  <2>4. PICK back : back = Reverse(movers)
    OBVIOUS
  <2>5. DOMAIN back = 1..x /\ (x >= 1 => back[1] = movers[x])
    BY <2>3, <2>4, Reversed
  <2>6. Losers(rows) = First(size, back)
    BY <1>2, <2>1, <2>4 DEF Losers
  <2>7. /\ Rail(First(size, back)) = <<>> <=> x = 0
        /\ x >= 1 => Rail(First(size, back))[1].move = cellValue(back[1], tf)
    BY <1>3, <2>3, <2>5, RailStart
  <2> QED
    BY <1>5, <2>3, <2>5, <2>6, <2>7
<1> QED
  BY <1>4, <1>5

\* The rows that the tiles read are those of the positions that the filter passes.
LEMMA ShownRows ==
  ASSUME PositionsTypeOK
  PROVE  LET rows == PositionRows(Rows)
         IN /\ AreRows(rows, Cardinality(Visible)) /\ DOMAIN Items = 1..Len(data.openPositions)
            /\ \A k \in Moving(rows) : \E i \in Moving(Items) \cap Visible :
                 Moves(rows)[k] = Moves(Items)[i]
            /\ \A i \in Moving(Items) \cap Visible : \E k \in Moving(rows) :
                 Moves(rows)[k] = Moves(Items)[i]
            /\ \A i \in Moving(Items) : Moves(Items)[i] \in Int
            /\ \A k \in Moving(rows) : Moves(rows)[k] \in Int
            /\ Visible \in SUBSET DOMAIN Items
<1> DEFINE positions == data.openPositions
           n == Len(positions)
           v == Cardinality(Visible)
           rows == PositionRows(Rows)
<1>1. /\ DOMAIN Items = 1..n /\ AreRows(Items, n) /\ tf \in TIMEFRAMES
      /\ \A k \in 1..n : Items[k] = PositionRow(positions[k]) /\ Items[k].indicators = positions[k].figures
      /\ \A k \in 1..n : IsPosition(positions[k])
  BY ReportFacts, BandTyped DEF PositionsTypeOK, AreRows
<1>2. Visible \in SUBSET (1..n) /\ IsSorting(Rows, positions, Visible, TableKeys, sortDir)
  BY TableFacts
<1> HIDE DEF positions, n
<1>3. v \in Nat /\ DOMAIN Rows = 1..v
  BY <1>2 DEF IsSorting
<1>4. PICK order \in [1..v -> Visible] :
        /\ \A k \in 1..v : Rows[k] = positions[order[k]]
        /\ \A i \in Visible : \E k \in 1..v : order[k] = i
  BY <1>2 DEF IsSorting
<1>5. DOMAIN rows = 1..v /\ \A k \in 1..v : rows[k] = PositionRow(Rows[k])
  BY <1>3 DEF PositionRows
<1> HIDE DEF rows, v
<1>6. \A k \in 1..v : order[k] \in Visible /\ rows[k] = Items[order[k]]
  <2> TAKE k \in 1..v
  <2>1. PICK i \in Visible : i = order[k]
    OBVIOUS
  <2>2. i \in 1..n /\ Rows[k] = positions[i] /\ Items[i] = PositionRow(positions[i])
    BY <1>1, <1>2, <1>4, <2>1
  <2>3. rows[k] = PositionRow(Rows[k])
    BY <1>5
  <2> QED
    BY <2>1, <2>2, <2>3
<1>7. AreRows(rows, v)
  <2>1. \A k \in 1..n : Items[k].indicators = None \/ IsFigures(Items[k].indicators)
    BY <1>1 DEF AreRows
  <2>2. ASSUME NEW k \in 1..v PROVE rows[k].indicators = None \/ IsFigures(rows[k].indicators)
    <3>1. PICK i \in 1..n : rows[k] = Items[i]
      BY <1>2, <1>6
    <3> QED
      BY <2>1, <3>1
  <2> QED
    BY <1>3, <1>5, <2>2 DEF AreRows
<1>8. /\ \A k \in 1..v : Moves(rows)[k] = cellValue(rows[k], tf)
      /\ \A k \in Moving(rows) : k \in 1..v /\ Moves(rows)[k] \in Int
  BY <1>1, <1>7, MovingRows
<1>9. /\ \A k \in 1..n : Moves(Items)[k] = cellValue(Items[k], tf)
      /\ \A k \in Moving(Items) : k \in 1..n /\ Moves(Items)[k] \in Int
  BY <1>1, MovingRows
<1>10. \A k \in 1..v : Moves(rows)[k] = Moves(Items)[order[k]]
  BY <1>2, <1>6, <1>8, <1>9
<1>11. ASSUME NEW k \in Moving(rows)
       PROVE  \E i \in Moving(Items) \cap Visible : Moves(rows)[k] = Moves(Items)[i]
  <2>1. k \in 1..v /\ Moves(rows)[k] # None /\ order[k] \in Visible /\ order[k] \in 1..n
    BY <1>2, <1>6, <1>8, <1>11 DEF Moving
  <2>2. order[k] \in Moving(Items)
    BY <1>1, <1>10, <2>1 DEF Moving
  <2> QED
    BY <1>10, <2>1, <2>2
<1>12. ASSUME NEW i \in Moving(Items) \cap Visible
       PROVE  \E k \in Moving(rows) : Moves(rows)[k] = Moves(Items)[i]
  <2>1. PICK k \in 1..v : order[k] = i
    BY <1>4
  <2>2. k \in Moving(rows)
    BY <1>5, <1>10, <2>1 DEF Moving
  <2> QED
    BY <1>10, <2>1, <2>2
<1> QED
  BY <1>1, <1>2, <1>7, <1>8, <1>9, <1>11, <1>12 DEF rows, v, n, positions

LEMMA TilesFollowRails ==
  ASSUME PositionsTypeOK
  PROVE  TilesAgreeWithRails
<1>1. PICK rows, v, total, tiles :
        /\ rows = PositionRows(Rows) /\ v = Cardinality(Visible)
        /\ total = Len(Items) /\ tiles = StatTiles(total, rows)
  OBVIOUS
<1>2. /\ AreRows(rows, v) /\ DOMAIN Items = 1..Len(data.openPositions)
      /\ \A k \in Moving(rows) : \E i \in Moving(Items) \cap Visible : Moves(rows)[k] = Moves(Items)[i]
      /\ \A i \in Moving(Items) \cap Visible : \E k \in Moving(rows) : Moves(rows)[k] = Moves(Items)[i]
      /\ \A i \in Moving(Items) : Moves(Items)[i] \in Int
      /\ \A k \in Moving(rows) : Moves(rows)[k] \in Int
      /\ Visible \in SUBSET DOMAIN Items
  BY <1>1, ShownRows
<1>3. tf \in TIMEFRAMES /\ BandTypeOK /\ AreRows(Items, Len(data.openPositions))
  BY BandTyped, ReportFacts DEF PositionsTypeOK
<1>4. AreTiles(tiles, rows)
  BY <1>1, <1>2, <1>3, TileExtremes
<1>5. ASSUME filter \in {"All", "Gainers"}, Rail(Gainers(Items)) # <<>>
      PROVE  tiles.best[1].move = Rail(Gainers(Items))[1].move
  <2>1. PICK i \in Ups(Items) : /\ Rail(Gainers(Items))[1].move = Moves(Items)[i]
                                /\ \A j \in Ups(Items) : Moves(Items)[j] <= Moves(Items)[i]
    BY <1>3, <1>5, RailExtremes
  <2>2. i \in Moving(Items) \cap Visible /\ Moves(Items)[i] > 0
    BY <1>2, <1>5, <2>1, Filtered DEF Ups
  <2>3. PICK k \in Moving(rows) : Moves(rows)[k] = Moves(Items)[i]
    BY <1>2, <2>2
  <2>4. PICK l \in Moving(rows) : /\ tiles.best[1].move = Moves(rows)[l]
                                  /\ \A j \in Moving(rows) : Moves(rows)[j] <= Moves(rows)[l]
    BY <1>4, <2>3 DEF AreTiles
  <2>5. PICK j \in Moving(Items) \cap Visible : Moves(rows)[l] = Moves(Items)[j]
    BY <1>2
  <2>6. Moves(rows)[k] <= Moves(rows)[l] /\ Moves(rows)[k] \in Int /\ Moves(rows)[l] \in Int
    BY <1>2, <2>4
  <2>7. Moves(Items)[j] > 0
    BY <2>2, <2>3, <2>5, <2>6
  <2>8. Moves(Items)[j] <= Moves(Items)[i]
    BY <2>1, <2>5, <2>7 DEF Ups
  <2> QED
    BY <2>1, <2>3, <2>4, <2>5, <2>6, <2>8
<1>6. ASSUME filter \in {"All", "Losers"}, Rail(Losers(Items)) # <<>>
      PROVE  tiles.worst[1].move = Rail(Losers(Items))[1].move
  <2>1. PICK i \in Downs(Items) : /\ Rail(Losers(Items))[1].move = Moves(Items)[i]
                                  /\ \A j \in Downs(Items) : Moves(Items)[j] >= Moves(Items)[i]
    BY <1>3, <1>6, RailExtremes
  <2>2. i \in Moving(Items) \cap Visible /\ Moves(Items)[i] < 0
    BY <1>2, <1>6, <2>1, Filtered DEF Downs
  <2>3. PICK k \in Moving(rows) : Moves(rows)[k] = Moves(Items)[i]
    BY <1>2, <2>2
  <2>4. PICK l \in Moving(rows) : /\ tiles.worst[1].move = Moves(rows)[l]
                                  /\ \A j \in Moving(rows) : Moves(rows)[j] >= Moves(rows)[l]
    BY <1>4, <2>3 DEF AreTiles
  <2>5. PICK j \in Moving(Items) \cap Visible : Moves(rows)[l] = Moves(Items)[j]
    BY <1>2
  <2>6. Moves(rows)[k] >= Moves(rows)[l] /\ Moves(rows)[k] \in Int /\ Moves(rows)[l] \in Int
    BY <1>2, <2>4
  <2>7. Moves(Items)[j] < 0
    BY <2>2, <2>3, <2>5, <2>6
  <2>8. Moves(Items)[j] >= Moves(Items)[i]
    BY <2>1, <2>5, <2>7 DEF Downs
  <2> QED
    BY <2>1, <2>3, <2>4, <2>5, <2>6, <2>8
<1>7. ASSUME filter = "All"
      PROVE  tiles.best = <<>> <=> /\ BreadthBar(rows).up = 0
                                   /\ \A i \in DOMAIN Items : cellValue(Items[i], tf) = None
  <2>1. Visible = DOMAIN Items /\ Moving(Items) \subseteq DOMAIN Items
    BY <1>2, <1>7, Filtered DEF Moving
  <2>2. Moving(rows) = {} <=> Moving(Items) = {}
    BY <1>2, <2>1
  <2>3. Moving(Items) = {} <=> \A i \in DOMAIN Items : cellValue(Items[i], tf) = None
    BY DEF Moving, Moves
  <2>4. Moving(rows) = {} => BreadthBar(rows).up = 0
    <3> SUFFICES ASSUME Moving(rows) = {} PROVE BreadthBar(rows).up = 0
      OBVIOUS
    <3>1. Ups(rows) = {}
      BY DEF Ups
    <3>2. Cardinality(Ups(rows)) = 0
      BY <3>1, FS_EmptySet
    <3> QED
      BY <3>2 DEF BreadthBar
  <2> QED
    BY <1>4, <2>2, <2>3, <2>4 DEF AreTiles
<1> QED
  BY <1>1, <1>5, <1>6, <1>7 DEF TilesAgreeWithRails

\* Whatever the report, the tiles and the rails of the band agree on the best and the
\* worst move where the filter parts neither from the table, though the tiles read
\* the rows of the table and the rails all of the positions; and there is no best
\* only when no position has moved (InsightsBand.tsx:242-256, 474-486).
THEOREM TilesAgree == PositionsSpec => []TilesAgreeWithRails
BY PositionsTyped, TilesFollowRails, PTL

-----------------------------------------------------------------------------
(* What the table does redefines nothing above it.                          *)

\* The summaries of one report, timeframe and width are the same.
LEMMA SummariesKept ==
  ASSUME UNCHANGED <<data, tf, mobile>>
  PROVE  /\ StatCards' = StatCards /\ BrokerCards' = BrokerCards
         /\ Gainers(Items)' = Gainers(Items) /\ Losers(Items)' = Losers(Items)
         /\ \A k \in DOMAIN data.openPositions :
              Alloc(data.openPositions[k])' = Alloc(data.openPositions[k])
<1>1. data' = data /\ tf' = tf /\ mobile' = mobile
  OBVIOUS
<1>2. TotalMV' = TotalMV
  BY <1>1 DEF TotalMV
<1>3. BestPerformer' = BestPerformer
  BY <1>1 DEF BestPerformer
<1>4. StatCards' = StatCards
  BY <1>1, <1>2, <1>3 DEF StatCards
<1>5. BrokerCards' = BrokerCards
  BY <1>1 DEF BrokerCards
<1>6. Items' = Items /\ RailSize' = RailSize
  BY <1>1 DEF Items, RailSize
<1>7. Gainers(Items)' = Gainers(Items)
  BY <1>1 DEF Gainers, Items, RailSize, ByMove, Ups, Moving, Moves
<1>8. Losers(Items)' = Losers(Items)
  BY <1>1 DEF Losers, Items, RailSize, ByMove, Downs, Moving, Moves
<1>9. \A k \in DOMAIN data.openPositions :
        Alloc(data.openPositions[k])' = Alloc(data.openPositions[k])
  BY <1>1, <1>2 DEF Alloc
<1> QED
  BY <1>4, <1>5, <1>7, <1>8, <1>9

\* Neither a filter nor a sort, nor anything else that leaves the report, the timeframe
\* and the width as they are, changes a card, a rail or a position's share of the
\* portfolio (InsightsBand.tsx:457-458, PositionsTab.tsx:192-205, 477).
THEOREM SummariesKeptByFilters == PositionsSpec => FilterKeepsSummaries
<1>1. [PositionsNext]_positionsVars =>
        [UNCHANGED <<data, tf, mobile>> =>
           /\ StatCards' = StatCards /\ BrokerCards' = BrokerCards
           /\ Gainers(Items)' = Gainers(Items) /\ Losers(Items)' = Losers(Items)
           /\ \A k \in DOMAIN data.openPositions :
                Alloc(data.openPositions[k])' = Alloc(data.openPositions[k])]_positionsVars
  BY SummariesKept
<1> QED
  BY <1>1, PTL DEF PositionsSpec, FilterKeepsSummaries

-----------------------------------------------------------------------------
(* The watchlist keeps its state in order.                                  *)

\* What is clicked is a symbol that is listed.
LEMMA ShownListed ==
  ASSUME items \in Lists
  PROVE  Shown \subseteq Listed
<1>1. Shown \subseteq Members(items)
  BY DEF Shown, Members
<1> QED
  BY <1>1 DEF Listed

\* An edit in place makes a list.
LEMMA Edits ==
  ASSUME items \in Lists, NEW k \in DOMAIN items, Edit(Flipped(items, k)) \/ Edit(RemoveAt(items, k))
  PROVE  items' \in Lists
<1>1. Flipped(items, k) \in Lists /\ RemoveAt(items, k) \in Lists
  BY WatchlistConstants
<1> QED
  BY <1>1 DEF Edit

\* What is mounted anew is of the right kind.
LEMMA RemountedTyped ==
  ASSUME WatchlistTypeOK, Remounted
  PROVE  expanded' \subseteq Expandable /\ press' \in {None} \cup [row : Listed, fired : BOOLEAN]
<1>1. expanded' \in {expanded, {}}
  BY DEF Remounted
<1>2. press' \in {press, None}
  <2>1. press' = press \/ press' = None
    BY DEF Remounted
  <2> QED
    BY <2>1
<1> QED
  BY <1>1, <1>2 DEF WatchlistTypeOK, BandTypeOK

LEMMA WatchlistTypeInvariance ==
  /\ WatchlistInit => WatchlistTypeOK
  /\ WatchlistTypeOK /\ [WatchlistNext]_tabVars => WatchlistTypeOK'
<1>1. ASSUME WatchlistInit PROVE WatchlistTypeOK
  BY <1>1, BandConstants, WatchlistConstants
     DEF WatchlistInit, WatchlistTypeOK, BandInit, BandTypeOK, Mounted
<1>2. ASSUME WatchlistTypeOK, [WatchlistNext]_tabVars PROVE WatchlistTypeOK'
  <2> DEFINE presses == {None} \cup [row : Listed, fired : BOOLEAN]
  <2>1. /\ BandTypeOK /\ items \in Lists /\ tf \in Timeframes /\ filter \in Filters
        /\ mobile \in BOOLEAN /\ expanded \subseteq Expandable
        /\ sortKey \in SortKeys \cup {None} /\ sortDir \in {"asc", "desc"}
        /\ {demo, compare, picking, allColumns, menuOpen} \subseteq BOOLEAN
        /\ selected \subseteq Listed /\ {sheetFor, lookup} \subseteq Listed \cup {None}
        /\ press \in presses
    BY <1>2 DEF WatchlistTypeOK, BandTypeOK
  <2> HIDE DEF presses
  <2> DEFINE Goal ==
        /\ items' \in Lists /\ tf' \in Timeframes /\ filter' \in Filters
        /\ mobile' \in BOOLEAN /\ expanded' \subseteq Expandable
        /\ sortKey' \in SortKeys \cup {None} /\ sortDir' \in {"asc", "desc"}
        /\ {demo', compare', picking', allColumns', menuOpen'} \subseteq BOOLEAN
        /\ selected' \subseteq Listed /\ {sheetFor', lookup'} \subseteq Listed \cup {None}
        /\ press' \in presses
  <2>2. SUFFICES Goal
    BY DEF WatchlistTypeOK, BandTypeOK, presses
  <2>3. Remounted => expanded' \subseteq Expandable /\ press' \in presses
    BY <1>2, RemountedTyped DEF presses
  <2>4. \A k \in DOMAIN items : Edit(Flipped(items, k)) \/ Edit(RemoveAt(items, k)) => items' \in Lists
    BY <2>1, Edits
  <2>5. Shown \subseteq Listed /\ DemoList \in Lists /\ <<>> \in Lists
        /\ \A s \in Listed : [row |-> s, fired |-> FALSE] \in presses
    BY <2>1, ShownListed, WatchlistConstants DEF presses
  <2>6. press # None => press.row \in Listed /\ [press EXCEPT !.fired = TRUE] \in presses
    BY <2>1 DEF presses
  <2>7. None \in presses
    BY DEF presses
  <2>8. ASSUME NEW list \in Lists, NEW d \in BOOLEAN, Becomes(list, d) PROVE Goal
    BY <2>1, <2>3, <2>8 DEF Becomes, sortVars, compareVars
  <2>9. ListArrives => Goal
    BY <2>8 DEF ListArrives
  <2>10. DemoChanges => Goal
    BY <2>8 DEF DemoChanges
  <2>11. UseCode => Goal
    BY <2>1 DEF UseCode, sortVars, compareVars, overlayVars, bandVars
  <2>12. HandleForget => Goal
    BY <2>5, <2>8 DEF HandleForget
  <2>13. CodeRefused => Goal
    BY <2>5, <2>8 DEF CodeRefused
  <2>14. RowButtons => Goal
    BY <2>1, <2>3, <2>4 DEF RowButtons, sortVars, compareVars
  <2>15. ActionSheet => Goal
    BY <2>1, <2>3, <2>4 DEF ActionSheet, sortVars, compareVars
  <2>16. ASSUME NEW key \in SortKeys, handleSort(key) PROVE Goal
    BY <2>1, <2>16 DEF handleSort, FirstDir, listVars, compareVars, overlayVars, bandVars
  <2>17. ASSUME NEW key \in SortKeys, MatrixHead(key) PROVE Goal
    BY <2>1, <2>17 DEF MatrixHead, FirstDir, listVars, compareVars, overlayVars, bandVars
  <2>18. OverflowMenu => Goal
    BY <2>1 DEF OverflowMenu, ToggleCompare, ExitCompare, listVars, sortVars, compareVars, bandVars
  <2>19. CompareBar => Goal
    BY <2>1, <2>3 DEF CompareBar, ExitCompare, listVars, sortVars
  <2>20. RowClick => Goal
    BY <2>1, <2>5 DEF RowClick, Click, Toggled, listVars, sortVars, bandVars
  <2>21. CloseLookup => Goal
    BY <2>1 DEF CloseLookup, listVars, sortVars, compareVars, bandVars
  <2>22. Start => Goal
    BY <2>1, <2>5 DEF Start, listVars, sortVars, compareVars, bandVars
  <2>23. LongPress => Goal
    BY <2>1, <2>6 DEF LongPress, listVars, sortVars, compareVars, bandVars
  <2>24. Lift => Goal
    BY <2>1, <2>6, <2>7 DEF Lift, Click, Toggled, listVars, sortVars, bandVars
  <2>25. Cancel => Goal
    BY <2>1, <2>7 DEF Cancel, listVars, sortVars, compareVars, bandVars
  <2>26. ColumnModeToggle => Goal
    BY <2>1, <2>3 DEF ColumnModeToggle, listVars, sortVars, compareVars
  <2>27. Rotate => Goal
    BY <2>1, <2>3 DEF Rotate, listVars, sortVars, compareVars
  <2>28. Band => Goal
    BY <2>1 DEF Band, PickTimeframe, PickFilter, SignalCard, listVars, sortVars, compareVars, overlayVars
  <2>29. Reload => Goal
    BY <2>1, <2>5, <2>7, BandConstants, WatchlistConstants DEF Reload
  <2>30. UNCHANGED tabVars => Goal
    BY <2>1 DEF tabVars, listVars, sortVars, compareVars, overlayVars, bandVars
  <2> HIDE DEF Goal
  <2> QED
    BY <1>2, <2>9, <2>10, <2>11, <2>12, <2>13, <2>14, <2>15, <2>16, <2>17, <2>18, <2>19, <2>20,
       <2>21, <2>22, <2>23, <2>24, <2>25, <2>26, <2>27, <2>28, <2>29, <2>30 DEF WatchlistNext
<1> QED
  BY <1>1, <1>2

\* The tab holds a list that the server or an edit of it may make, a sort and a filter
\* that it offers, and symbols that were listed once (WatchlistTab.tsx:168-520).
THEOREM WatchlistTyped == WatchlistSpec => []WatchlistTypeOK
BY WatchlistTypeInvariance, PTL DEF WatchlistSpec

-----------------------------------------------------------------------------
(* The list behind an action sheet is out of reach.                         *)

\* A finger that is down when a sheet is up is the one that called it.
PressHeld == (sheetFor # None /\ press # None) => press.fired

LEMMA PressHeldInvariance ==
  /\ WatchlistInit => PressHeld
  /\ WatchlistTypeOK /\ PressHeld /\ [WatchlistNext]_tabVars => PressHeld'
<1>1. WatchlistInit => PressHeld
  BY DEF WatchlistInit, Mounted, PressHeld
<1>2. ASSUME WatchlistTypeOK, PressHeld, [WatchlistNext]_tabVars PROVE PressHeld'
  <2>1. \/ sheetFor' = None
        \/ press' = None
        \/ sheetFor' = sheetFor /\ press' = press
        \/ press # None /\ press' = [press EXCEPT !.fired = TRUE]
    <3>1. Remounted => press' = press \/ press' = None
      BY DEF Remounted
    <3>2. ASSUME NEW list, NEW d, Becomes(list, d)
          PROVE  sheetFor' = sheetFor /\ (press' = press \/ press' = None)
      BY <3>1, <3>2 DEF Becomes
    <3>3. CASE ListArrives \/ DemoChanges \/ HandleForget \/ CodeRefused
      BY <3>2, <3>3 DEF ListArrives, DemoChanges, HandleForget, CodeRefused
    <3>4. CASE RowButtons \/ CompareBar \/ ColumnModeToggle \/ Rotate
      BY <3>1, <3>4 DEF RowButtons, CompareBar, ColumnModeToggle, Rotate
    <3>5. CASE ActionSheet \/ Reload
      BY <3>5 DEF ActionSheet, Reload
    <3>6. CASE UseCode \/ (\E key \in SortKeys : handleSort(key) \/ MatrixHead(key)) \/ Band
      BY <3>6 DEF UseCode, handleSort, MatrixHead, Band, overlayVars
    <3>7. CASE OverflowMenu \/ RowClick \/ CloseLookup
      BY <3>7 DEF OverflowMenu, RowClick, CloseLookup
    <3>8. CASE Start
      <4>1. SheetIsUp <=> sheetFor # None
        BY <3>8 DEF Start, SheetIsUp
      <4>2. sheetFor' = None
        BY <3>8, <4>1 DEF Start, Free
      <4> QED
        BY <4>2
    <3>9. CASE LongPress \/ Lift \/ Cancel
      BY <3>9 DEF LongPress, Lift, Cancel
    <3>10. CASE UNCHANGED tabVars
      BY <3>10 DEF tabVars, overlayVars
    <3> QED
      BY <1>2, <3>3, <3>4, <3>5, <3>6, <3>7, <3>8, <3>9, <3>10 DEF WatchlistNext
  <2>2. press # None => [press EXCEPT !.fired = TRUE].fired = TRUE
    BY <1>2 DEF WatchlistTypeOK
  <2> QED
    BY <1>2, <2>1, <2>2 DEF PressHeld
<1> QED
  BY <1>1, <1>2

\* Whatever the list: while a sheet is up nothing behind it is looked up or selected,
\* by the click that ends the long press that opened it least of all
\* (WatchlistTab.tsx:1656-1690).
THEOREM NothingClickedBehindSheet == WatchlistSpec => NoClickBehindSheet
<1>1. WatchlistTypeOK /\ PressHeld /\ [WatchlistNext]_tabVars =>
        [(SheetIsUp /\ ~Crashed) => (lookup' \in {lookup, None} /\ selected' = selected)]_tabVars
  <2> SUFFICES ASSUME PressHeld, WatchlistNext, SheetIsUp, ~Crashed
               PROVE  lookup' \in {lookup, None} /\ selected' = selected
    OBVIOUS
  <2>1. CASE ListArrives \/ DemoChanges \/ HandleForget \/ CodeRefused
    BY <2>1 DEF ListArrives, DemoChanges, HandleForget, CodeRefused, Becomes, compareVars
  <2>2. CASE ActionSheet \/ ColumnModeToggle \/ Rotate
    BY <2>2 DEF ActionSheet, ColumnModeToggle, Rotate, compareVars
  <2>3. CASE \/ UseCode \/ RowButtons \/ CompareBar \/ RowClick \/ Start \/ Band
             \/ \E key \in SortKeys : handleSort(key) \/ MatrixHead(key)
    BY <2>3 DEF UseCode, RowButtons, CompareBar, RowClick, Start, Band, handleSort, MatrixHead,
                Free, ColumnModeToggle
  <2>4. CASE OverflowMenu
    BY <2>4 DEF OverflowMenu
  <2>5. CASE CloseLookup \/ LongPress \/ Cancel
    BY <2>5 DEF CloseLookup, LongPress, Cancel, compareVars
  <2>6. CASE Lift
    BY <2>6 DEF Lift, PressHeld, SheetIsUp
  <2> QED
    BY <2>1, <2>2, <2>3, <2>4, <2>5, <2>6 DEF WatchlistNext
<1> QED
  BY <1>1, PressHeldInvariance, WatchlistTypeInvariance, PTL DEF WatchlistSpec, NoClickBehindSheet

-----------------------------------------------------------------------------
(* The table and the stacked list have their dashes in the same places.     *)

\* A list has items, each of a symbol of its own.
LEMMA ListFacts ==
  ASSUME NEW list \in Lists
  PROVE  /\ Len(list) \in Nat /\ DOMAIN list = 1..Len(list)
         /\ \A k \in 1..Len(list) : IsItem(list[k])
         /\ \A i, j \in 1..Len(list) : list[i].symbol = list[j].symbol => i = j
<1>1. /\ list \in Seq(ToSet(list)) /\ \A item \in ToSet(list) : IsItem(item)
      /\ \A i, j \in DOMAIN list : list[i].symbol = list[j].symbol => i = j
  BY WatchlistConstants
<1>2. Len(list) \in Nat /\ DOMAIN list = 1..Len(list)
  BY <1>1, LenProperties
<1>3. \A k \in 1..Len(list) : IsItem(list[k])
  BY <1>1, <1>2 DEF ToSet
<1> QED
  BY <1>1, <1>2, <1>3

LEMMA CellsAgree ==
  ASSUME NEW item, IsItem(item), NEW key \in COLUMNS \cap MOBILE_COLS
  PROVE  Cell(item, key) <=> MatrixCell(item, key)
<1> DEFINE p == item.indicators
           row == BandRow(item)
<1>1. row.indicators = p /\ row.targetGap = targetGap(item)
  BY DEF BandRow
<1>2. key = "targetGap" \/ key \in TIMEFRAMES \cup {"pe", "forwardPe", "peVsSector"}
  <2>1. "marketCap" \notin COLUMNS
    BY DEF COLUMNS, INDICATOR_COLUMNS, LEAD_INDICATORS
  <2> QED
    BY <2>1 DEF MOBILE_COLS
<1> HIDE DEF row
<1>3. CASE key = "targetGap"
  <2>1. key \notin {"symbol", "note", "target", "price", "currency", "ter", "spread"} \cup INDICATOR_COLUMNS
    BY <1>3 DEF INDICATOR_COLUMNS, LEAD_INDICATORS
  <2>2. Cell(item, key) <=> targetGap(item) # None
    BY <1>3, <2>1 DEF Cell
  <2>3. key \notin TIMEFRAMES \cup {"marketCap", "pe", "forwardPe", "peVsSector"}
    BY <1>3 DEF TIMEFRAMES
  <2>4. cellValue(row, key) = row.targetGap
    BY <1>3, <2>3 DEF cellValue
  <2> QED
    BY <1>1, <2>2, <2>4 DEF MatrixCell, row
<1>4. CASE key \in TIMEFRAMES \cup {"pe", "forwardPe", "peVsSector"}
  <2>1. /\ key \in INDICATOR_COLUMNS /\ key \in DOMAIN NumberField
        /\ key \notin {"symbol", "note", "target", "targetGap", "price", "currency", "ter", "spread",
                       "marketCap"}
    BY <1>4, NumberKeys DEF TIMEFRAMES, NumberField
  <2>2. Cell(item, key) <=> IndicatorGroup(p, key)
    BY <2>1 DEF Cell
  <2>3. CASE p = None
    <3>1. cellValue(row, key) = None
      BY <1>1, <2>1, <2>3 DEF cellValue
    <3> QED
      BY <2>2, <2>3, <3>1 DEF MatrixCell, IndicatorGroup, row
  <2>4. CASE p # None
    <3>1. Figure(p[NumberField[key]])
      BY <2>1, <2>4, NumberKeys, FiguresTyped DEF IsItem
    <3>2. PICK figure : figure = p[NumberField[key]]
      OBVIOUS
    <3>3. Cell(item, key) <=> ShowsNumber(p, key)
      BY <2>1, <2>2, <2>4, NumberKeys DEF IndicatorGroup, INDICATOR_CELLS
    <3>4. CASE key \in {"pe", "forwardPe"}
      <4>1. ShowsNumber(p, key) <=> figure # None /\ figure > 0
        BY <3>2, <3>4 DEF ShowsNumber
      <4>2. key \notin TIMEFRAMES \cup {"peVsSector"}
        BY <3>4 DEF TIMEFRAMES
      <4>3. cellValue(row, key) = IF Or(figure, 0) > 0 THEN figure ELSE None
        BY <1>1, <2>1, <2>4, <3>2, <3>4, <4>2 DEF cellValue
      <4> QED
        BY <3>1, <3>2, <3>3, <4>1, <4>3, IndicatorConstants DEF MatrixCell, row, Or, Figure
    <3>5. CASE key \in TIMEFRAMES \cup {"peVsSector"}
      <4>1. key \notin {"pe", "forwardPe", "sectorPe", "evToEbitda", "cashFlowQuality"}
        BY <3>5 DEF TIMEFRAMES
      <4>2. ShowsNumber(p, key) <=> figure # None
        BY <3>2, <4>1 DEF ShowsNumber
      <4>3. cellValue(row, key) = figure
        BY <1>1, <2>1, <2>4, <3>2, <3>5, <4>1 DEF cellValue
      <4> QED
        BY <3>3, <4>2, <4>3 DEF MatrixCell, row
    <3> QED
      BY <1>4, <3>4, <3>5
  <2> QED
    BY <2>3, <2>4
<1> QED
  BY <1>2, <1>3, <1>4

\* Whatever the list and its figures, the table and the stacked list show a figure, or
\* a dash, in the same places (IndicatorColumns.tsx:196-428, InsightsBand.tsx:65-93,
\* WatchlistTab.tsx:1489-1500).
THEOREM ViewsShowTheSame == WatchlistSpec => []ViewsAgree
<1>1. WatchlistTypeOK => ViewsAgree
  <2> SUFFICES ASSUME items \in Lists, NEW k \in DOMAIN items, NEW key \in COLUMNS \cap MOBILE_COLS
               PROVE  Cell(items[k], key) <=> MatrixCell(items[k], key)
    BY DEF WatchlistTypeOK, ViewsAgree
  <2>1. IsItem(items[k])
    BY ListFacts
  <2> QED
    BY <2>1, CellsAgree
<1> QED
  BY <1>1, WatchlistTyped, PTL

-----------------------------------------------------------------------------
(* Rows in two parts, each filtered from one list.                          *)

\* A result has the rows of both parts, each once, the first part first and each
\* part in the order it had.
IsParted(result, list, first, second) ==
  \E n \in Nat : \E order \in [1..n -> first \cup second] :
    /\ result = [k \in 1..n |-> result[k]] /\ DOMAIN result = 1..n
    /\ \A k \in 1..n : result[k] = list[order[k]]
    /\ \A i \in first \cup second : \E k \in 1..n : order[k] = i
    /\ \A k, l \in 1..n : k < l => /\ order[l] \in first => order[k] \in first
                                   /\ (order[k] \in first <=> order[l] \in first) => order[k] < order[l]

\* Two sequences, one after the other.
LEMMA Joined ==
  ASSUME NEW p \in Nat, NEW a, a = [k \in 1..p |-> a[k]],
         NEW q \in Nat, NEW b, b = [k \in 1..q |-> b[k]]
  PROVE  LET r == a \o b
         IN /\ r = [k \in 1..(p + q) |-> r[k]] /\ DOMAIN r = 1..(p + q)
            /\ \A k \in 1..(p + q) : r[k] = IF k <= p THEN a[k] ELSE b[k - p]
<1>1. Len(a) = p
  BY FunctionSeq
<1>2. Len(b) = q
  BY FunctionSeq
<1>3. PICK S : S = {a[k] : k \in 1..p} \cup {b[k] : k \in 1..q}
  OBVIOUS
<1>4. a \in [1..p -> S] /\ b \in [1..q -> S]
  BY <1>3
<1>5. a \in Seq(S) /\ b \in Seq(S)
  BY <1>4, SeqDef
<1>6. PICK r : r = a \o b
  OBVIOUS
<1>7. r \in Seq(S) /\ Len(r) = p + q /\ \A k \in 1..(p + q) : r[k] = IF k <= p THEN a[k] ELSE b[k - p]
  BY <1>1, <1>2, <1>5, <1>6, ConcatProperties
<1>8. r \in [1..(p + q) -> S]
  BY <1>7, LenProperties
<1> QED
  BY <1>6, <1>7, <1>8

LEMMA Parted ==
  ASSUME NEW list, NEW first \in SUBSET Int, IsFiniteSet(first),
         NEW second \in SUBSET Int, IsFiniteSet(second), first \cap second = {}
  PROVE  IsParted(Filter(list, first) \o Filter(list, second), list, first, second)
<1>1. PICK a, b : a = Filter(list, first) /\ b = Filter(list, second)
  OBVIOUS
<1>2. PICK p, q : p = Cardinality(first) /\ q = Cardinality(second)
  OBVIOUS
<1>3. IsFiltering(a, list, first) /\ IsFiltering(b, list, second)
  BY <1>1, FilteredInOrder
<1>4. p \in Nat /\ a = [k \in 1..p |-> a[k]]
  BY <1>2, <1>3 DEF IsFiltering
<1>5. PICK f \in [1..p -> first] : /\ \A k \in 1..p : a[k] = list[f[k]]
                                   /\ \A i \in first : \E k \in 1..p : f[k] = i
                                   /\ \A k, l \in 1..p : k < l => f[k] < f[l]
  BY <1>2, <1>3 DEF IsFiltering
<1>6. q \in Nat /\ b = [k \in 1..q |-> b[k]]
  BY <1>2, <1>3 DEF IsFiltering
<1>7. PICK g \in [1..q -> second] : /\ \A k \in 1..q : b[k] = list[g[k]]
                                    /\ \A i \in second : \E k \in 1..q : g[k] = i
                                    /\ \A k, l \in 1..q : k < l => g[k] < g[l]
  BY <1>2, <1>3 DEF IsFiltering
<1>8. PICK r : r = a \o b
  OBVIOUS
<1>9. /\ r = [k \in 1..(p + q) |-> r[k]] /\ DOMAIN r = 1..(p + q)
      /\ \A k \in 1..(p + q) : r[k] = IF k <= p THEN a[k] ELSE b[k - p]
  BY <1>4, <1>6, <1>8, Joined
<1>10. PICK order : order = [k \in 1..(p + q) |-> IF k <= p THEN f[k] ELSE g[k - p]]
  OBVIOUS
<1>11. ASSUME NEW k \in 1..(p + q)
       PROVE  /\ k <= p => k \in 1..p /\ order[k] = f[k] /\ order[k] \in first
              /\ ~(k <= p) => k - p \in 1..q /\ order[k] = g[k - p] /\ order[k] \in second
              /\ r[k] = list[order[k]]
  <2>1. CASE k <= p
    <3>1. k \in 1..p
      BY <1>4, <2>1
    <3> QED
      BY <1>5, <1>9, <1>10, <2>1, <3>1
  <2>2. CASE ~(k <= p)
    <3>1. k - p \in 1..q
      BY <1>4, <1>6, <2>2
    <3> QED
      BY <1>7, <1>9, <1>10, <2>2, <3>1
  <2> QED
    BY <2>1, <2>2
<1>12. order \in [1..(p + q) -> first \cup second]
  BY <1>10, <1>11
<1>13. ASSUME NEW i \in first \cup second PROVE \E k \in 1..(p + q) : order[k] = i
  <2>1. CASE i \in first
    <3>1. PICK k \in 1..p : f[k] = i
      BY <1>5, <2>1
    <3>2. k \in 1..(p + q) /\ k <= p
      BY <1>4, <1>6
    <3> QED
      BY <1>11, <3>1, <3>2
  <2>2. CASE i \in second
    <3>1. PICK k \in 1..q : g[k] = i
      BY <1>7, <2>2
    <3>2. k + p \in 1..(p + q) /\ ~(k + p <= p) /\ (k + p) - p = k
      BY <1>4, <1>6
    <3> QED
      BY <1>11, <3>1, <3>2
  <2> QED
    BY <2>1, <2>2
<1>14. ASSUME NEW k \in 1..(p + q), NEW l \in 1..(p + q), k < l
       PROVE  /\ order[l] \in first => order[k] \in first
              /\ (order[k] \in first <=> order[l] \in first) => order[k] < order[l]
  <2>1. (order[k] \in first <=> k <= p) /\ (order[l] \in first <=> l <= p)
    BY <1>11
  <2>2. l <= p => k <= p
    BY <1>4, <1>6, <1>14
  <2>3. CASE l <= p
    BY <1>5, <1>11, <1>14, <2>2, <2>3
  <2>4. CASE ~(k <= p)
    <3>1. ~(l <= p)
      BY <2>2, <2>4
    <3>2. k - p \in 1..q /\ order[k] = g[k - p] /\ l - p \in 1..q /\ order[l] = g[l - p]
      BY <1>11, <2>4, <3>1
    <3>3. k - p < l - p
      BY <1>4, <1>6, <1>14
    <3>4. g[k - p] < g[l - p]
      BY <1>7, <3>2, <3>3
    <3> QED
      BY <2>1, <2>4, <3>1, <3>2, <3>4
  <2>5. CASE k <= p /\ ~(l <= p)
    BY <2>1, <2>5
  <2> QED
    BY <2>3, <2>4, <2>5
<1>15. p + q \in Nat
  BY <1>4, <1>6
<1>16. IsParted(r, list, first, second)
  BY <1>9, <1>11, <1>12, <1>13, <1>14, <1>15 DEF IsParted
<1> QED
  BY <1>1, <1>8, <1>16

\* A part alone.
LEMMA PartedAlone ==
  ASSUME NEW list, NEW first \in SUBSET Int, IsFiniteSet(first)
  PROVE  IsParted(Filter(list, first), list, first, {})
<1>1. PICK a, p : a = Filter(list, first) /\ p = Cardinality(first)
  OBVIOUS
<1>2. IsFiltering(a, list, first)
  BY <1>1, FilteredInOrder
<1>3. p \in Nat /\ a = [k \in 1..p |-> a[k]] /\ DOMAIN a = 1..p
  BY <1>1, <1>2 DEF IsFiltering
<1>4. PICK f \in [1..p -> first] : /\ \A k \in 1..p : a[k] = list[f[k]]
                                   /\ \A i \in first : \E k \in 1..p : f[k] = i
                                   /\ \A k, l \in 1..p : k < l => f[k] < f[l]
  BY <1>1, <1>2 DEF IsFiltering
<1>5. f \in [1..p -> first \cup {}]
  OBVIOUS
<1>6. IsParted(a, list, first, {})
  BY <1>3, <1>4, <1>5 DEF IsParted
<1> QED
  BY <1>1, <1>6

-----------------------------------------------------------------------------
(* The rows of the watchlist are in the order its parts promise.            *)

\* The gap of a target is a number, above nothing when the price is below it.
LEMMA Gaps ==
  ASSUME NEW item, IsItem(item)
  PROVE  /\ targetGap(item) = None \/ targetGap(item) \in Int
         /\ Or(targetGap(item), 0) > 0 <=>
              /\ item.targetPrice > 0 /\ item.indicators # None /\ item.indicators.currentPrice # None
              /\ item.indicators.currentPrice > 0 /\ item.indicators.currentPrice < item.targetPrice
<1> DEFINE price == IF item.indicators = None THEN None ELSE item.indicators.currentPrice
           target == item.targetPrice
           gap == targetGap(item)
<1>1. target \in Int /\ None \notin Int
  BY IndicatorConstants DEF IsItem
<1>2. price = None \/ price \in Int
  <2>1. item.indicators # None => Figure(item.indicators["currentPrice"])
    BY FiguresTyped DEF IsItem, NumberFigures
  <2> QED
    BY <2>1 DEF Figure
<1>3. gap = IF ~(target > 0) \/ price = None THEN None
            ELSE IF price <= 0 THEN None ELSE Percent(target - price, price)
  BY DEF targetGap
<1> HIDE DEF gap
<1>4. CASE target > 0 /\ price # None /\ ~(price <= 0)
  <2>1. price \in Int /\ price > 0 /\ gap = Percent(target - price, price)
    BY <1>2, <1>3, <1>4
  <2> HIDE DEF price, target
  <2>2. PICK x, q : x = -100 * (target - price) /\ q = x \div price
    OBVIOUS
  <2>3. x \in Int
    BY <1>1, <2>1, <2>2
  <2>4. q \in Int /\ price * q <= x /\ x < price * q + price
    BY <2>1, <2>2, <2>3
  <2>5. q < 0 <=> x < 0
    <3>1. q < 0 => price * q <= -price
      <4> SUFFICES ASSUME q < 0 PROVE price * q <= -price
        OBVIOUS
      <4>1. q + 1 <= 0
        BY <2>4
      <4>2. price * (q + 1) <= 0
        BY <2>1, <2>4, <4>1
      <4> QED
        BY <2>1, <2>4, <4>2
    <3>2. q >= 0 => price * q >= 0
      BY <2>1, <2>4
    <3> QED
      BY <2>1, <2>3, <2>4, <3>1, <3>2
  <2>6. gap = -q
    BY <2>1, <2>2 DEF Percent
  <2>7. gap \in Int /\ (gap > 0 <=> target - price > 0)
    BY <1>1, <2>1, <2>2, <2>4, <2>5, <2>6
  <2>8. gap # None /\ Or(gap, 0) = gap
    BY <1>1, <2>7 DEF Or
  <2>9. Or(gap, 0) > 0 <=> price < target
    BY <1>1, <2>1, <2>7, <2>8
  <2>10. item.indicators # None /\ price = item.indicators.currentPrice
    BY <1>4 DEF price
  <2> QED
    BY <1>1, <1>4, <2>1, <2>7, <2>9, <2>10 DEF gap, target
<1>5. CASE ~(target > 0 /\ price # None /\ ~(price <= 0))
  <2>1. gap = None
    BY <1>3, <1>5
  <2>2. ~(Or(gap, 0) > 0)
    BY <2>1 DEF Or
  <2> QED
    BY <1>2, <1>5, <2>1, <2>2 DEF gap
<1> QED
  BY <1>4, <1>5

\* An item has a number to be sorted by in every column.
LEMMA SortValueTyped ==
  ASSUME NEW item, IsItem(item), NEW key \in COLUMNS
  PROVE  sortValue(item, key) \in Int
<1> DEFINE p == item.indicators
           Read(field, otherwise) == IF p = None THEN otherwise ELSE Or(p[field], otherwise)
<1>1. -Infinity \in Int
  BY IndicatorConstants
<1>2. /\ item.symbol \in Texts /\ item.note \in Texts /\ item.targetPrice \in Int
      /\ p = None \/ IsFigures(p)
  BY DEF IsItem
<1>3. \A field \in NumberFigures : Read(field, -Infinity) \in Int
  <2> TAKE field \in NumberFigures
  <2>1. p # None => Figure(p[field])
    BY <1>2, FiguresTyped
  <2> QED
    BY <1>1, <2>1 DEF Figure, Or
<1>4. {"currentPrice", "ter", "spreadPct"} \subseteq NumberFigures
  BY DEF NumberFigures
<1>5. INDICATOR_COLUMNS \cap {"symbol", "note", "target", "targetGap", "price", "currency", "ter",
                              "spread"} = {}
  BY DEF INDICATOR_COLUMNS, LEAD_INDICATORS
<1>6. CASE key \in {"symbol", "note", "target"}
  BY <1>2, <1>5, <1>6, Ranks DEF sortValue
<1>7. CASE key = "targetGap"
  <2>1. sortValue(item, key) = Or(targetGap(item), -Infinity)
    BY <1>5, <1>7 DEF sortValue
  <2> QED
    BY <1>1, <2>1, Gaps DEF Or
<1>8. CASE key \in {"price", "ter", "spread"}
  <2>1. sortValue(item, key) = Read(IF key = "price" THEN "currentPrice"
                                    ELSE IF key = "ter" THEN "ter" ELSE "spreadPct", -Infinity)
    BY <1>5, <1>8 DEF sortValue
  <2> HIDE DEF Read
  <2> QED
    BY <1>3, <1>4, <1>8, <2>1
<1>9. CASE key = "currency"
  <2>1. sortValue(item, key) = Rank(Read("currency", NoText))
    BY <1>5, <1>9 DEF sortValue
  <2>2. p # None => p["currency"] \in Texts
    BY <1>2, FiguresTyped DEF TextFigures
  <2>3. Read("currency", NoText) \in Texts
    BY <2>2, Ranks DEF Or
  <2> HIDE DEF Read
  <2> QED
    BY <2>1, <2>3, Ranks
<1>10. CASE key \in INDICATOR_COLUMNS
  <2>1. sortValue(item, key) = indicatorSortValue(p, key)
    BY <1>5, <1>10 DEF sortValue
  <2> QED
    BY <1>2, <1>10, <2>1, IndicatorValueTyped
<1> QED
  BY <1>6, <1>7, <1>8, <1>9, <1>10 DEF COLUMNS

\* What may stand above what, by pin and by column.
InOrder(above, below) ==
  LET Leads(item) == sortKey = None /\ item.pinned
      Value(item) == IF sortKey = None THEN Rank(item.symbol) ELSE sortValue(item, sortKey)
  IN /\ Leads(below) => Leads(above)
     /\ (Leads(above) <=> Leads(below)) =>
          IF sortKey = None \/ sortDir = "asc" THEN Value(above) <= Value(below)
          ELSE Value(above) >= Value(below)

\* The same, with the rows of a comparison before either.
InView(above, below) ==
  LET Picked(item) == compare /\ item.symbol \in selected
  IN /\ Picked(below) => Picked(above)
     /\ (Picked(above) <=> Picked(below)) => InOrder(above, below)

\* A list has the items of a set, and no others.
IsListOf(list, n, set) ==
  /\ n \in Nat /\ list = [k \in 1..n |-> list[k]] /\ DOMAIN list = 1..n
  /\ \A k \in 1..n : list[k] \in set
  /\ \A item \in set : \E k \in 1..n : list[k] = item

\* Sorting a list neither loses nor adds an item.
LEMMA SortedItems ==
  ASSUME NEW list \in Lists, NEW key \in COLUMNS, NEW dir
  PROVE  LET n == Len(list)
             result == sortItems(list, key, dir)
             keys == [k \in DOMAIN list |-> sortValue(list[k], key)]
         IN /\ IsSorting(result, list, 1..n, keys, dir) /\ Cardinality(1..n) = n
            /\ \A k \in 1..n : keys[k] = sortValue(list[k], key) /\ keys[k] \in Int
<1> DEFINE n == Len(list)
<1>1. n \in Nat /\ DOMAIN list = 1..n /\ \A k \in 1..n : IsItem(list[k])
  BY ListFacts
<1>2. PICK keys : keys = [k \in DOMAIN list |-> sortValue(list[k], key)]
  OBVIOUS
<1>3. \A k \in 1..n : keys[k] = sortValue(list[k], key) /\ keys[k] \in Int
  BY <1>1, <1>2, SortValueTyped
<1>4. sortItems(list, key, dir) = Sorted(list, 1..n, keys, dir)
  BY <1>1, <1>2 DEF sortItems
<1>5. IsFiniteSet(1..n) /\ Cardinality(1..n) = n /\ 1..n \in SUBSET Int
  BY <1>1, FS_Interval
<1>6. IsSorting(Sorted(list, 1..n, keys, dir), list, 1..n, keys, dir)
  <2> HIDE DEF n
  <2> QED
    BY <1>3, <1>5, SortedRows
<1> QED
  BY <1>2, <1>3, <1>4, <1>5, <1>6

\* Sorted, the rows are each once in the list, in the order of their values.
LEMMA SortedInOrder ==
  ASSUME items \in Lists, NEW key \in COLUMNS, NEW dir
  PROVE  LET n == Len(items)
             result == sortItems(items, key, dir)
         IN /\ IsListOf(result, n, ToSet(items))
            /\ \A i, j \in 1..n : i < j =>
                 IF dir = "asc" THEN sortValue(result[i], key) <= sortValue(result[j], key)
                 ELSE sortValue(result[i], key) >= sortValue(result[j], key)
<1> DEFINE n == Len(items)
<1>1. n \in Nat /\ DOMAIN items = 1..n
  BY ListFacts
<1>2. PICK result, keys : /\ result = sortItems(items, key, dir)
                          /\ keys = [k \in DOMAIN items |-> sortValue(items[k], key)]
  OBVIOUS
<1>3. /\ IsSorting(result, items, 1..n, keys, dir) /\ Cardinality(1..n) = n
      /\ \A k \in 1..n : keys[k] = sortValue(items[k], key) /\ keys[k] \in Int
  BY <1>2, SortedItems
<1> HIDE DEF n
<1>4. result = [k \in 1..n |-> result[k]] /\ DOMAIN result = 1..n
  BY <1>3 DEF IsSorting
<1>5. PICK order \in [1..n -> 1..n] :
        /\ \A k \in 1..n : result[k] = items[order[k]]
        /\ \A i \in 1..n : \E k \in 1..n : order[k] = i
        /\ \A k, l \in 1..n : k < l => Above(keys, dir, order[k], order[l])
  BY <1>3 DEF IsSorting
<1>6. IsListOf(result, n, ToSet(items))
  <2>1. \A k \in 1..n : result[k] \in ToSet(items)
    BY <1>1, <1>5 DEF ToSet
  <2>2. ASSUME NEW item \in ToSet(items) PROVE \E k \in 1..n : result[k] = item
    <3>1. PICK i \in 1..n : items[i] = item
      BY <1>1, <2>2 DEF ToSet
    <3> QED
      BY <1>5, <3>1
  <2> QED
    BY <1>1, <1>4, <2>1, <2>2 DEF IsListOf
<1>7. ASSUME NEW i \in 1..n, NEW j \in 1..n, i < j
      PROVE  IF dir = "asc" THEN sortValue(result[i], key) <= sortValue(result[j], key)
             ELSE sortValue(result[i], key) >= sortValue(result[j], key)
  <2>1. Above(keys, dir, order[i], order[j]) /\ order[i] \in 1..n /\ order[j] \in 1..n
    BY <1>5, <1>7
  <2>2. /\ keys[order[i]] = sortValue(result[i], key) /\ keys[order[i]] \in Int
        /\ keys[order[j]] = sortValue(result[j], key) /\ keys[order[j]] \in Int
    BY <1>3, <1>5, <2>1
  <2> QED
    BY <2>1, <2>2 DEF Above
<1> QED
  BY <1>2, <1>6, <1>7 DEF n

\* Of two rows of a result, which two of the list they are.
KeepsParts(result, n, list, first, second) ==
  \A i, j \in 1..n : i < j =>
    \E k, l \in first \cup second :
      /\ result[i] = list[k] /\ result[j] = list[l]
      /\ l \in first => k \in first
      /\ (k \in first <=> l \in first) => k < l

\* Rows in two parts are those of both parts.
LEMMA PartedList ==
  ASSUME NEW list, NEW first, NEW second, NEW result, IsParted(result, list, first, second),
         NEW set, set = {list[k] : k \in first \cup second}
  PROVE  \E n \in Nat : IsListOf(result, n, set) /\ KeepsParts(result, n, list, first, second)
<1>1. PICK n, order :
        /\ n \in Nat /\ order \in [1..n -> first \cup second]
        /\ result = [k \in 1..n |-> result[k]] /\ DOMAIN result = 1..n
        /\ \A k \in 1..n : result[k] = list[order[k]]
        /\ \A i \in first \cup second : \E k \in 1..n : order[k] = i
        /\ \A k, l \in 1..n : k < l => /\ order[l] \in first => order[k] \in first
                                       /\ (order[k] \in first <=> order[l] \in first) => order[k] < order[l]
  BY DEF IsParted
<1>2. IsListOf(result, n, set)
  BY <1>1 DEF IsListOf
<1>3. ASSUME NEW i \in 1..n, NEW j \in 1..n, i < j
      PROVE  \E k, l \in first \cup second :
               /\ result[i] = list[k] /\ result[j] = list[l]
               /\ l \in first => k \in first
               /\ (k \in first <=> l \in first) => k < l
  <2>1. order[i] \in first \cup second /\ order[j] \in first \cup second
    BY <1>1
  <2> QED
    BY <1>1, <1>3, <2>1
<1> QED
  BY <1>1, <1>2, <1>3 DEF KeepsParts

\* What the list is put in order by: a column, or the pins and the symbols.
LEMMA ListOrdered ==
  ASSUME WatchlistTypeOK
  PROVE  \E n \in Nat : /\ IsListOf(Ordered, n, ToSet(items))
                        /\ \A i, j \in 1..n : i < j => InOrder(Ordered[i], Ordered[j])
<1>1. /\ items \in Lists /\ sortKey \in COLUMNS \cup {None} /\ "symbol" \in COLUMNS
      /\ Len(items) \in Nat
  BY WatchlistConstants, ListFacts DEF WatchlistTypeOK
<1>2. CASE sortKey # None
  <2>1. PICK list : list = sortItems(items, sortKey, sortDir)
    OBVIOUS
  <2>2. Ordered = list
    BY <1>2, <2>1 DEF Ordered
  <2>3. PICK n : n = Len(items)
    OBVIOUS
  <2>4. /\ IsListOf(list, n, ToSet(items))
        /\ \A i, j \in 1..n : i < j =>
             IF sortDir = "asc" THEN sortValue(list[i], sortKey) <= sortValue(list[j], sortKey)
             ELSE sortValue(list[i], sortKey) >= sortValue(list[j], sortKey)
    BY <1>1, <1>2, <2>1, <2>3, SortedInOrder
  <2>5. \A i, j \in 1..n : i < j => InOrder(list[i], list[j])
    BY <1>2, <2>4 DEF InOrder
  <2> QED
    BY <1>1, <2>2, <2>3, <2>4, <2>5
<1>3. CASE sortKey = None
  <2>1. PICK list : list = sortItems(items, "symbol", "asc")
    OBVIOUS
  <2>2. PICK m : m = Len(items)
    OBVIOUS
  <2>3. /\ IsListOf(list, m, ToSet(items))
        /\ \A i, j \in 1..m : i < j => sortValue(list[i], "symbol") <= sortValue(list[j], "symbol")
    BY <1>1, <2>1, <2>2, SortedInOrder
  <2>4. \A i, j \in 1..m : i < j => Rank(list[i].symbol) <= Rank(list[j].symbol)
    <3>1. "symbol" \notin INDICATOR_COLUMNS
      BY DEF INDICATOR_COLUMNS, LEAD_INDICATORS
    <3>2. \A item : sortValue(item, "symbol") = Rank(item.symbol)
      BY <3>1 DEF sortValue
    <3> QED
      BY <2>3, <3>2
  <2>5. m \in Nat /\ DOMAIN list = 1..m /\ \A k \in 1..m : list[k] \in ToSet(items)
    BY <2>3 DEF IsListOf
  <2>6. PICK first, second : /\ first = {k \in DOMAIN list : list[k].pinned}
                             /\ second = {k \in DOMAIN list : ~list[k].pinned}
    OBVIOUS
  <2>7. first \in SUBSET Int /\ second \in SUBSET Int /\ first \cap second = {} /\ first \cup second = 1..m
    BY <2>5, <2>6
  <2>8. IsFiniteSet(first) /\ IsFiniteSet(second)
    <3>1. IsFiniteSet(1..m)
      BY <2>5, FS_Interval
    <3>2. first \in SUBSET (1..m) /\ second \in SUBSET (1..m)
      BY <2>7
    <3>3. IsFiniteSet(first)
      BY <3>1, <3>2, FS_Subset
    <3>4. IsFiniteSet(second)
      BY <3>1, <3>2, FS_Subset
    <3> QED
      BY <3>3, <3>4
  <2>9. PICK result : result = Filter(list, first) \o Filter(list, second)
    OBVIOUS
  <2>10. Ordered = result
    BY <1>3, <2>1, <2>6, <2>9 DEF Ordered, PinnedFirst
  <2>11. IsParted(result, list, first, second)
    BY <2>7, <2>8, <2>9, Parted
  <2>12. ToSet(items) = {list[k] : k \in first \cup second}
    BY <2>3, <2>7 DEF IsListOf
  <2>13. PICK n \in Nat : /\ IsListOf(result, n, ToSet(items))
                          /\ KeepsParts(result, n, list, first, second)
    BY <2>11, <2>12, PartedList
  <2>14. ASSUME NEW i \in 1..n, NEW j \in 1..n, i < j PROVE InOrder(result[i], result[j])
    <3>1. PICK k \in 1..m, l \in 1..m : /\ result[i] = list[k] /\ result[j] = list[l]
                                        /\ l \in first => k \in first
                                        /\ (k \in first <=> l \in first) => k < l
      BY <2>7, <2>13, <2>14 DEF KeepsParts
    <3>2. (k \in first <=> list[k].pinned) /\ (l \in first <=> list[l].pinned)
      BY <2>5, <2>6
    <3>3. (k \in first <=> l \in first) => Rank(list[k].symbol) <= Rank(list[l].symbol)
      BY <2>4, <3>1
    <3> QED
      BY <1>3, <3>1, <3>2, <3>3 DEF InOrder
  <2> QED
    BY <2>10, <2>13, <2>14
<1> QED
  BY <1>2, <1>3

\* A comparison shows the rows selected, and the others when it picks among them.
InComparison(item) == ~compare \/ picking \/ item.symbol \in selected

LEMMA ViewOrdered ==
  ASSUME WatchlistTypeOK
  PROVE  \E n \in Nat :
           /\ IsListOf(VisibleRows, n, {item \in ToSet(items) : InComparison(item)})
           /\ \A i, j \in 1..n : i < j => InView(VisibleRows[i], VisibleRows[j])
<1>1. PICK list, m : /\ list = Ordered /\ m \in Nat /\ IsListOf(list, m, ToSet(items))
                     /\ \A i, j \in 1..m : i < j => InOrder(list[i], list[j])
  BY ListOrdered
<1>2. DOMAIN list = 1..m
  BY <1>1 DEF IsListOf
<1>3. CASE ~compare
  <2>1. VisibleRows = list
    BY <1>1, <1>3 DEF VisibleRows
  <2>2. {item \in ToSet(items) : InComparison(item)} = ToSet(items)
    BY <1>3 DEF InComparison
  <2>3. \A i, j \in 1..m : i < j => InView(list[i], list[j])
    BY <1>1, <1>3 DEF InView
  <2> QED
    BY <1>1, <2>1, <2>2, <2>3
<1>4. CASE compare
  <2>1. PICK first, others :
          /\ first = {k \in DOMAIN list : (list[k].symbol \in selected) = TRUE}
          /\ others = {k \in DOMAIN list : (list[k].symbol \in selected) = FALSE}
    OBVIOUS
  <2>2. first \in SUBSET (1..m) /\ others \in SUBSET (1..m) /\ first \cap others = {}
        /\ first \cup others = 1..m
        /\ \A k \in 1..m : k \in first <=> list[k].symbol \in selected
    BY <1>2, <2>1
  <2>3. IsFiniteSet(first) /\ IsFiniteSet(others) /\ 1..m \in SUBSET Int
    <3>1. IsFiniteSet(1..m) /\ 1..m \in SUBSET Int
      BY <1>1, FS_Interval
    <3>2. IsFiniteSet(first)
      BY <2>2, <3>1, FS_Subset
    <3>3. IsFiniteSet(others)
      BY <2>2, <3>1, FS_Subset
    <3> QED
      BY <3>1, <3>2, <3>3
  <2>4. PICK second : second = IF picking THEN others ELSE {}
    OBVIOUS
  <2>5. PICK result : result = VisibleRows
    OBVIOUS
  <2>6. IsParted(result, list, first, second)
    <3>1. CASE picking
      <4>1. result = Filter(list, first) \o Filter(list, others)
        BY <1>1, <1>4, <2>1, <2>5, <3>1 DEF VisibleRows
      <4>2. IsParted(Filter(list, first) \o Filter(list, others), list, first, others)
        BY <2>2, <2>3, Parted
      <4> QED
        BY <2>4, <3>1, <4>1, <4>2
    <3>2. CASE ~picking
      <4>1. result = Filter(list, first) \o <<>>
        BY <1>1, <1>4, <2>1, <2>5, <3>2 DEF VisibleRows
      <4>2. PICK part : part = Filter(list, first)
        OBVIOUS
      <4>3. IsFiltering(part, list, first)
        BY <2>2, <2>3, <4>2, FilteredInOrder
      <4>4. PICK S : part \in Seq(S)
        BY <4>3, FunctionSeq DEF IsFiltering
      <4>5. part \o <<>> = part
        BY <4>4, ConcatEmptySeq
      <4>6. IsParted(part, list, first, {})
        BY <2>2, <2>3, <4>2, PartedAlone
      <4> QED
        BY <2>4, <3>2, <4>1, <4>2, <4>5, <4>6
    <3> QED
      BY <3>1, <3>2
  <2>7. first \cup second \in SUBSET (1..m)
    BY <2>2, <2>4
  <2>8. PICK set : set = {item \in ToSet(items) : InComparison(item)}
    OBVIOUS
  <2>9. set = {list[k] : k \in first \cup second}
    <3>1. \A k \in 1..m : k \in first \cup second <=> InComparison(list[k])
      BY <1>4, <2>2, <2>4 DEF InComparison
    <3>2. (\A k \in 1..m : list[k] \in ToSet(items)) /\ \A item \in ToSet(items) : \E k \in 1..m : list[k] = item
      BY <1>1 DEF IsListOf
    <3> QED
      BY <2>7, <2>8, <3>1, <3>2
  <2>10. PICK n \in Nat : IsListOf(result, n, set) /\ KeepsParts(result, n, list, first, second)
    BY <2>6, <2>9, PartedList
  <2>11. ASSUME NEW i \in 1..n, NEW j \in 1..n, i < j PROVE InView(result[i], result[j])
    <3>1. PICK k \in 1..m, l \in 1..m : /\ result[i] = list[k] /\ result[j] = list[l]
                                        /\ l \in first => k \in first
                                        /\ (k \in first <=> l \in first) => k < l
      BY <2>7, <2>10, <2>11 DEF KeepsParts
    <3>2. /\ k \in first <=> list[k].symbol \in selected
          /\ l \in first <=> list[l].symbol \in selected
      BY <2>2
    <3>3. (k \in first <=> l \in first) => InOrder(list[k], list[l])
      BY <1>1, <3>1
    <3> QED
      BY <1>4, <3>1, <3>2, <3>3 DEF InView
  <2> QED
    BY <2>5, <2>8, <2>10, <2>11
<1> QED
  BY <1>3, <1>4

\* What is shown of a list: the rows of the view that pass the filter.
InSight(item) == InComparison(item) /\ matchesFilter(BandRow(item), filter, tf)

LEMMA FilterOrdered ==
  ASSUME WatchlistTypeOK
  PROVE  \E n \in Nat :
           /\ IsListOf(FilteredRows, n, {item \in ToSet(items) : InSight(item)})
           /\ \A i, j \in 1..n : i < j => InView(FilteredRows[i], FilteredRows[j])
<1>1. PICK list, m : /\ list = VisibleRows /\ m \in Nat
                     /\ IsListOf(list, m, {item \in ToSet(items) : InComparison(item)})
                     /\ \A i, j \in 1..m : i < j => InView(list[i], list[j])
  BY ViewOrdered
<1>2. DOMAIN list = 1..m
  BY <1>1 DEF IsListOf
<1>3. PICK kept : kept = {k \in DOMAIN list : matchesFilter(BandRow(list[k]), filter, tf)}
  OBVIOUS
<1>4. PICK result : result = Filter(list, kept)
  OBVIOUS
<1>5. FilteredRows = result
  BY <1>1, <1>3, <1>4 DEF FilteredRows
<1>6. IsFiltering(result, list, kept)
  <2>1. IsFiniteSet(1..m) /\ 1..m \in SUBSET Int
    BY <1>1, FS_Interval
  <2>2. kept \in SUBSET (1..m)
    BY <1>2, <1>3
  <2>3. IsFiniteSet(kept) /\ kept \in SUBSET Int
    BY <2>1, <2>2, FS_Subset
  <2> QED
    BY <1>4, <2>3, FilteredInOrder
<1>7. PICK n : n = Cardinality(kept)
  OBVIOUS
<1>8. n \in Nat /\ result = [k \in 1..n |-> result[k]] /\ DOMAIN result = 1..n
  BY <1>6, <1>7 DEF IsFiltering
<1>9. PICK order \in [1..n -> kept] : /\ \A k \in 1..n : result[k] = list[order[k]]
                                      /\ \A i \in kept : \E k \in 1..n : order[k] = i
                                      /\ \A k, l \in 1..n : k < l => order[k] < order[l]
  BY <1>6, <1>7 DEF IsFiltering
<1>10. PICK set : set = {item \in ToSet(items) : InSight(item)}
  OBVIOUS
<1>11. IsListOf(result, n, set)
  <2>1. \A k \in kept : k \in 1..m /\ list[k] \in set
    BY <1>1, <1>2, <1>3, <1>10 DEF IsListOf, InSight
  <2>2. ASSUME NEW item \in set PROVE \E k \in kept : list[k] = item
    <3>1. PICK k \in 1..m : list[k] = item
      BY <1>1, <1>10, <2>2 DEF IsListOf, InSight
    <3>2. k \in kept
      BY <1>2, <1>3, <1>10, <2>2, <3>1 DEF InSight
    <3> QED
      BY <3>1, <3>2
  <2>3. \A k \in 1..n : result[k] \in set
    BY <1>9, <2>1
  <2>4. ASSUME NEW item \in set PROVE \E k \in 1..n : result[k] = item
    BY <1>9, <2>2, <2>4
  <2> QED
    BY <1>8, <2>3, <2>4 DEF IsListOf
<1>12. ASSUME NEW i \in 1..n, NEW j \in 1..n, i < j PROVE InView(result[i], result[j])
  <2>1. order[i] \in 1..m /\ order[j] \in 1..m /\ order[i] < order[j]
    BY <1>2, <1>3, <1>9, <1>12
  <2> QED
    BY <1>1, <1>9, <1>12, <2>1
<1> QED
  BY <1>5, <1>8, <1>10, <1>11, <1>12

\* Whatever the list: pinned rows float to the top while no column is sorted, by symbol
\* within each part; a sorted column owns the whole list; and the rows of a comparison
\* come before either, though pins, comparison and filter are applied one after the
\* other to what the one before has made (WatchlistTab.tsx:197-200, 453-492).
THEOREM RowsAreInOrder == WatchlistSpec => []RowsInOrder
<1>1. ASSUME WatchlistTypeOK PROVE RowsInOrder
  <2>1. PICK rows, n : /\ rows = FilteredRows /\ n \in Nat /\ DOMAIN rows = 1..n
                       /\ \A i, j \in 1..n : i < j => InView(rows[i], rows[j])
    BY <1>1, FilterOrdered DEF IsListOf
  <2> QED
    BY <2>1 DEF RowsInOrder, InView, InOrder
<1> QED
  BY <1>1, WatchlistTyped, PTL

\* What can be clicked is what is drawn: the symbols of the rows in order.
LEMMA ShownIsDrawn ==
  ASSUME WatchlistTypeOK
  PROVE  /\ Shown = Members(FilteredRows)
         /\ Members(FilteredRows) = {item.symbol : item \in {i \in ToSet(items) : InSight(i)}}
<1>1. PICK rows, n : /\ rows = FilteredRows /\ n \in Nat
                     /\ IsListOf(rows, n, {item \in ToSet(items) : InSight(item)})
  BY FilterOrdered
<1>2. Members(rows) = {item.symbol : item \in {i \in ToSet(items) : InSight(i)}}
  BY <1>1 DEF IsListOf, Members
<1>3. Shown = {item.symbol : item \in {i \in ToSet(items) : InSight(i)}}
  BY DEF Shown, ToSet, InSight, InComparison
<1> QED
  BY <1>1, <1>2, <1>3

\* The finger and the mouse reach the rows that are drawn and no others: the handlers
\* are on FilteredRows, whose order and parts are nothing to them
\* (WatchlistTab.tsx:477, 956-965, 1004, 1108-1119).
THEOREM ShownAreDrawn == WatchlistSpec => [](Shown = Members(FilteredRows))
BY WatchlistTyped, ShownIsDrawn, PTL

-----------------------------------------------------------------------------
(* Three readings of a buy target agree.                                    *)

LEMMA TargetsMeet ==
  ASSUME WatchlistTypeOK
  PROVE  TargetsAgree
<1> DEFINE Green(item) == TargetHit(item) /\ item.indicators.currentPrice > 0
           Above0(item) == Or(targetGap(item), 0) > 0
           n == Len(items)
<1>1. n \in Nat /\ DOMAIN items = 1..n /\ \A k \in 1..n : IsItem(items[k])
  BY ListFacts DEF WatchlistTypeOK
<1>2. ASSUME NEW item, IsItem(item) PROVE Green(item) <=> Above0(item)
  <2>1. item.targetPrice \in Int /\ item.targetPrice < Infinity /\ Infinity \in Int
    BY <1>2, IndicatorConstants DEF IsItem
  <2>2. item.indicators # None => Figure(item.indicators["currentPrice"])
    BY <1>2, FiguresTyped DEF IsItem, NumberFigures
  <2>3. Above0(item) <=>
          /\ item.targetPrice > 0 /\ item.indicators # None /\ item.indicators.currentPrice # None
          /\ item.indicators.currentPrice > 0 /\ item.indicators.currentPrice < item.targetPrice
    BY <1>2, Gaps
  <2> HIDE DEF Above0
  <2>4. CASE item.indicators = None \/ item.indicators.currentPrice = None
    BY <2>1, <2>3, <2>4 DEF TargetHit, Or
  <2>5. CASE item.indicators # None /\ item.indicators.currentPrice # None
    BY <2>1, <2>2, <2>3, <2>5 DEF TargetHit, Or, Figure
  <2> QED
    BY <2>4, <2>5
<1> HIDE DEF Green, Above0, n
<1>3. PICK rows : rows = BandRows(items)
  OBVIOUS
<1>4. /\ DOMAIN rows = 1..n
      /\ \A k \in 1..n : rows[k].symbol = items[k].symbol /\ rows[k].targetGap = targetGap(items[k])
  BY <1>1, <1>3 DEF BandRows, BandRow
<1>5. PICK kept, keys : /\ kept = {k \in DOMAIN rows : Or(rows[k].targetGap, 0) > 0}
                        /\ keys = [k \in DOMAIN rows |-> rows[k].targetGap]
  OBVIOUS
<1>6. kept = {k \in 1..n : Above0(items[k])}
  BY <1>4, <1>5 DEF Above0
<1>7. kept \in SUBSET Int /\ IsFiniteSet(kept) /\ \A k \in kept : keys[k] \in Int
  <2>1. IsFiniteSet(1..n) /\ kept \in SUBSET (1..n) /\ 1..n \in SUBSET Int
    BY <1>1, <1>6, FS_Interval
  <2>2. IsFiniteSet(kept)
    BY <2>1, FS_Subset
  <2>3. ASSUME NEW k \in kept PROVE keys[k] \in Int
    <3>1. k \in 1..n /\ Or(targetGap(items[k]), 0) > 0 /\ keys[k] = targetGap(items[k])
      BY <1>4, <1>5, <1>6, <2>3 DEF Above0
    <3>2. targetGap(items[k]) = None \/ targetGap(items[k]) \in Int
      BY <1>1, <3>1, Gaps
    <3>3. targetGap(items[k]) # None
      BY <3>1 DEF Or
    <3> QED
      BY <3>1, <3>2, <3>3
  <2> QED
    BY <2>1, <2>2, <2>3
<1>8. PICK hits : hits = TargetHits(rows)
  OBVIOUS
<1>9. IsSorting(hits, rows, kept, keys, "desc")
  BY <1>5, <1>7, <1>8, SortedRows DEF TargetHits
<1>10. Members(hits) = {rows[k].symbol : k \in kept}
  BY <1>9 DEF IsSorting, Members
<1>11. Members(hits) = {items[k].symbol : k \in {i \in DOMAIN items : Green(items[i])}}
  <2>1. \A k \in 1..n : Green(items[k]) <=> Above0(items[k])
    BY <1>1, <1>2
  <2> QED
    BY <1>1, <1>4, <1>6, <1>10, <2>1
<1>12. ASSUME filter = "Undervalued", ~compare PROVE Members(FilteredRows) = Members(hits)
  <2>1. Members(FilteredRows) = {item.symbol : item \in {i \in ToSet(items) : InSight(i)}}
    BY ShownIsDrawn
  <2>2. \A item : InSight(item) <=> Above0(item)
    BY <1>12 DEF InSight, InComparison, matchesFilter, BandRow, Above0
  <2> QED
    BY <1>1, <1>4, <1>6, <1>10, <2>1, <2>2 DEF ToSet
<1> QED
  BY <1>3, <1>8, <1>11, <1>12 DEF TargetsAgree, Green

\* Whatever the prices and the targets: the "Undervalued" chip, the "Target hit" card
\* and the green of the target in a row go by one condition, though one divides for a gap,
\* one sorts by it and one compares two prices (InsightsBand.tsx:59, 490-492,
\* WatchlistTab.tsx:104-108, 1195).
THEOREM TargetsReadAlike == WatchlistSpec => []TargetsAgree
BY WatchlistTyped, TargetsMeet, PTL

=============================================================================
