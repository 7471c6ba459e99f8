---------------------------- MODULE IndicatorColumns ----------------------------
(***************************************************************************)
(* The indicator columns that the positions table and the watchlist share: *)
(* what a cell shows, and the value its column is sorted by.  The two are  *)
(* written apart in the code, and do not treat a missing figure alike.     *)
(*                                                                         *)
(* The figures of a symbol are a record; None stands for them when there   *)
(* are none at all, and for a figure that is missing; a rating or a sector *)
(* that is missing is NoText.  Returns and gaps are in percent, the        *)
(* quality of the cash flow and the place in the 52-week range in          *)
(* hundredths, an analysts' score in tenths.                               *)
(***************************************************************************)
EXTENDS Integers, Sequences, SequencesExt, FiniteSets

CONSTANTS
  Alphabet,      \* the texts that occur, in the order localeCompare puts them
  Infinity,      \* further out than any figure, or any rank of one
  None

NoText == ""     \* of a rating, a sector or a note that is missing

Texts == ToSet(Alphabet)

\* Nothing is put before the empty text.
ASSUME IndicatorConstants ==
  /\ Alphabet \in Seq(STRING) /\ {NoText, "-Infinity"} \subseteq Texts
  /\ \A i, j \in DOMAIN Alphabet : Alphabet[i] = Alphabet[j] => i = j
  /\ Alphabet[1] = NoText
  /\ Infinity \in Nat /\ Infinity > 50 /\ None \notin Int

\* The figures read here, of a symbol of which only the price is known.
NoFigures(price) ==
  [currentPrice |-> price, weekLow52 |-> None, weekHigh52 |-> None, pe |-> None, forwardPE |-> None,
   todayReturn |-> None, oneWeekReturn |-> None, oneMonthReturn |-> None, ytdReturn |-> None,
   threeYrReturn |-> None, fiveYrReturn |-> None, tenYrReturn |-> None, fcf |-> None,
   evToEbitda |-> None, debtToEquity |-> None, cashFlowQuality |-> None, sectorPe |-> None,
   evToEbitdaVsSector |-> None, peVsSector |-> None, marketCap |-> None, dividendYield |-> None,
   payoutRatio |-> None, ter |-> None, spreadPct |-> None, analystRating |-> NoText,
   analystScore |-> None, sector |-> NoText, currency |-> NoText, healthRating |-> NoText,
   valuationRating |-> NoText]

\* The keys of the columns, and the figure behind each that is a plain number.
NumberField ==
  [pe |-> "pe", forwardPe |-> "forwardPE", today |-> "todayReturn", oneWeek |-> "oneWeekReturn",
   oneMonth |-> "oneMonthReturn", ytd |-> "ytdReturn", threeYr |-> "threeYrReturn",
   fiveYr |-> "fiveYrReturn", tenYr |-> "tenYrReturn", fcf |-> "fcf", evToEbitda |-> "evToEbitda",
   sectorPe |-> "sectorPe", peVsSector |-> "peVsSector", evVsSector |-> "evToEbitdaVsSector",
   debtToEquity |-> "debtToEquity", cashFlowQuality |-> "cashFlowQuality"]

TextField == [sector |-> "sector", health |-> "healthRating", valuation |-> "valuationRating"]

LEAD_INDICATORS == {"today", "oneWeek", "oneMonth", "ytd", "threeYr", "fiveYr", "tenYr", "range"}

INDICATOR_COLUMNS ==
  LEAD_INDICATORS \cup
  {"pe", "forwardPe", "analyst", "sector", "sectorPe", "peVsSector", "fcf", "evToEbitda",
   "evVsSector", "debtToEquity", "cashFlowQuality", "health", "valuation"}

-----------------------------------------------------------------------------
(* What a column is sorted by: a number, or the rank of a text.             *)

Or(x, otherwise) == IF x = None THEN otherwise ELSE x

Rank(text) == CHOOSE i \in DOMAIN Alphabet : Alphabet[i] = text

\* How far up its 52-week range the price is.
rangePct(p) ==
  IF None \in {p.weekLow52, p.weekHigh52, p.currentPrice} THEN -Infinity
  ELSE IF p.weekHigh52 <= p.weekLow52 THEN -Infinity
  ELSE (100 * (p.currentPrice - p.weekLow52)) \div (p.weekHigh52 - p.weekLow52)

\* Labels of one rank, from bullish to bearish.
ANALYST_RANK ==
  <<{"strong buy"}, {"buy", "outperform", "overweight", "accumulate"},
    {"hold", "neutral", "market perform"}, {"underperform", "underweight", "reduce"},
    {"sell", "strong sell"}>>

analystRank(p) ==
  IF \E i \in 1..5 : p.analystRating \in ANALYST_RANK[i]
    THEN 10 * CHOOSE i \in 1..5 : p.analystRating \in ANALYST_RANK[i]
  ELSE IF p.analystScore # None /\ p.analystScore > 0 THEN p.analystScore
  ELSE None

indicatorSortValue_ZeroMissing(p, key) ==
  IF p = None THEN IF key \in DOMAIN TextField THEN Rank(NoText) ELSE -Infinity
  ELSE CASE key \in DOMAIN NumberField -> Or(p[NumberField[key]], 0)
         [] key \in DOMAIN TextField -> Rank(p[TextField[key]])
         [] key = "range" -> rangePct(p)
         [] key = "analyst" -> Or(analystRank(p), Infinity)

\* In a column of texts a number is compared as the text of it.
indicatorSortValue(p, key) ==
  IF p = None
    THEN CASE key \in {"health", "valuation"} -> Rank(NoText)
           [] key = "sector" -> Rank("-Infinity")
           [] OTHER -> -Infinity
  ELSE CASE key \in DOMAIN NumberField -> Or(p[NumberField[key]], -Infinity)
         [] key \in DOMAIN TextField -> Rank(p[TextField[key]])
         [] key = "range" -> rangePct(p)
         [] key = "analyst" -> Or(analystRank(p), Infinity)

-----------------------------------------------------------------------------
(* Rows in order.  Array.prototype.sort is stable: rows that tie keep the   *)
(* order they had.                                                          *)

Precedes(keys, i, j) == keys[i] < keys[j] \/ (keys[i] = keys[j] /\ i < j)

Place(S, keys, i) == 1 + Cardinality({j \in S : Precedes(keys, j, i)})

\* The indices in S, lowest key first.
Arranged(S, keys) == [k \in 1..Cardinality(S) |-> CHOOSE i \in S : Place(S, keys, i) = k]

\* The rows at the indices kept, sorted by a key of each.
Sorted(rows, kept, keys, dir) ==
  LET order == Arranged(kept, IF dir = "asc" THEN keys ELSE [i \in kept |-> -keys[i]])
  IN [k \in 1..Cardinality(kept) |-> rows[order[k]]]

\* Array.prototype.filter
Filter(rows, kept) == Sorted(rows, kept, [i \in kept |-> i], "asc")

-----------------------------------------------------------------------------
(* The figures the server sends.                                            *)

Number == {None} \cup (1 - Infinity)..(Infinity - 1)

TextFigures == {"analystRating", "sector", "currency", "healthRating", "valuationRating"}

\* Yahoo's score comes with its rating or not at all.
IsFigures(p) ==
  /\ p # None /\ DOMAIN p = DOMAIN NoFigures(0)
  /\ \A field \in DOMAIN p : p[field] \in IF field \in TextFigures THEN Texts ELSE Number
  /\ rangePct(p) >= -Infinity
  /\ p.analystRating = NoText => p.analystScore = None

-----------------------------------------------------------------------------
(* What a cell shows.                                                       *)

\* Return and gap columns, and the two that are shown whatever their sign.
ShowsNumber(p, key) ==
  LET v == p[NumberField[key]]
  IN CASE key \in {"pe", "forwardPe", "sectorPe"} -> v # None /\ v > 0
       [] key \in {"evToEbitda", "cashFlowQuality"} -> v # None /\ v # 0
       [] OTHER -> v # None

\* A dash stands in a cell that does not show its figure.
INDICATOR_CELLS(p, key) ==
  CASE key \in DOMAIN NumberField -> ShowsNumber(p, key)
    [] key = "range" -> None \notin {p.weekLow52, p.weekHigh52, p.currentPrice}
    [] key = "analyst" -> p.analystRating # NoText
    [] key \in DOMAIN TextField -> p[TextField[key]] # NoText

\* A symbol without figures has a dash in every column.
IndicatorGroup(p, key) == p # None /\ INDICATOR_CELLS(p, key)
=============================================================================
