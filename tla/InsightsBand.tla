------------------------------ MODULE InsightsBand ------------------------------
(***************************************************************************)
(* The band of summaries above the positions table and the watchlist: the  *)
(* rails of movers, the tiles, the breadth bar, the signal cards and the   *)
(* filter chips, with the state that the user sets there.                  *)
(*                                                                         *)
(* Some parts read every row a tab holds (items), others only the rows its *)
(* table shows (rows); both are sequences of                               *)
(*   [symbol, indicators, pinned, targetGap].                              *)
(***************************************************************************)
EXTENDS IndicatorColumns

CONSTANTS
  Timeframes,    \* the timeframes picked among
  Expandable,    \* the cards opened and closed
  Filters        \* the filters picked among

VARIABLES
  tf, filter,
  mobile,        \* a narrow screen
  expanded,      \* the signal cards that are open
  sortKey,       \* the column that the tab has its table sorted by, below the band
  sortDir

bandVars == <<tf, filter, mobile, expanded>>

TIMEFRAMES == {"today", "oneWeek", "oneMonth", "ytd", "fiveYr", "tenYr"}

CardTitles == {"Target hit", "Near 52w high", "Near 52w low", "Health x Valuation",
               "Red flags", "Income"}

\* A tab without buy targets or pins does not offer their chips.
filtersFor(features) ==
  {"All", "Gainers", "Losers"} \cup (IF "pinned" \in features THEN {"Pinned"} ELSE {})
                               \cup (IF "targets" \in features THEN {"Undervalued"} ELSE {})

ASSUME BandConstants ==
  /\ "today" \in Timeframes /\ Timeframes \subseteq TIMEFRAMES
  /\ Expandable \subseteq CardTitles
  /\ "All" \in Filters /\ Filters \subseteq filtersFor({"pinned", "targets"})

BandInit ==
  /\ tf = "today" /\ filter = "All" /\ mobile \in BOOLEAN /\ expanded = {}

BandTypeOK ==
  /\ tf \in Timeframes /\ filter \in Filters /\ mobile \in BOOLEAN
  /\ expanded \subseteq Expandable

-----------------------------------------------------------------------------

cellValue_Loss(row, key) ==
  LET p == row.indicators
  IN CASE key = "targetGap" -> row.targetGap
       [] key # "targetGap" /\ p = None -> None
       [] key = "marketCap" /\ p # None -> p.marketCap
       [] key # "marketCap" /\ p # None -> p[NumberField[key]]

\* The figure of a row that a timeframe, or a column of the phone's list, reads.
cellValue(row, key) ==
  LET p == row.indicators
  IN CASE key = "targetGap" -> row.targetGap
       [] key # "targetGap" /\ p = None -> None
       [] key = "marketCap" /\ p # None -> p.marketCap
       [] key \in {"pe", "forwardPe"} /\ p # None ->
            IF Or(p[NumberField[key]], 0) > 0 THEN p[NumberField[key]] ELSE None
       [] key \in TIMEFRAMES \cup {"peVsSector"} /\ p # None -> p[NumberField[key]]

matchesFilter(row, f, t) ==
  CASE f = "All" -> TRUE
    [] f = "Pinned" -> row.pinned
    [] f = "Undervalued" -> Or(row.targetGap, 0) > 0
    [] f = "Gainers" -> cellValue(row, t) # None /\ cellValue(row, t) > 0
    [] f = "Losers" -> cellValue(row, t) # None /\ cellValue(row, t) < 0

Moves(rows) == [k \in DOMAIN rows |-> cellValue(rows[k], tf)]

\* The rows that have a figure, those that are up and those that are down.
Moving(rows) == {k \in DOMAIN rows : Moves(rows)[k] # None}
Ups(rows) == {k \in Moving(rows) : Moves(rows)[k] > 0}
Downs(rows) == {k \in Moving(rows) : Moves(rows)[k] < 0}

\* Some of the rows that have a figure, the highest first.
ByMove(rows, kept) == Sorted(rows, kept, Moves(rows), "desc")

First(n, s) == [k \in {j \in DOMAIN s : j <= n} |-> s[k]]

RailSize == IF mobile THEN 3 ELSE 5

Gainers_FromBottom(items) ==
  First(RailSize, Reverse(Sorted(items, Ups(items), Moves(items), "asc")))

Gainers(items) == First(RailSize, ByMove(items, Ups(items)))

\* The deepest losses, the deepest first.
Losers(items) == First(RailSize, Reverse(ByMove(items, Downs(items))))

Rail(movers) == [k \in DOMAIN movers |-> [symbol |-> movers[k].symbol, move |-> cellValue(movers[k], tf)]]

StatTiles_LastIsBest(total, rows) ==
  LET scored == Reverse(Rail(ByMove(rows, Moving(rows))))
  IN [tracked |-> total, best |-> First(1, scored), worst |-> First(1, Reverse(scored))]

\* The extremes of the rows shown, if one has a figure.
StatTiles(total, rows) ==
  LET scored == Rail(ByMove(rows, Moving(rows)))
  IN [tracked |-> total, best |-> First(1, scored), worst |-> First(1, Reverse(scored))]

\* How many of the rows shown are up, and how many are down.
BreadthBar(rows) == [up |-> Cardinality(Ups(rows)), down |-> Cardinality(Downs(rows))]

-----------------------------------------------------------------------------
(* The signal cards.  Each lists items; a card of nothing is disabled.      *)

SAFE_PAYOUT == 80

TargetHits(items) ==
  Sorted(items, {k \in DOMAIN items : Or(items[k].targetGap, 0) > 0},
         [k \in DOMAIN items |-> items[k].targetGap], "desc")

NearRange(items, lowest, highest) ==
  Filter(items, {k \in DOMAIN items : /\ items[k].indicators # None
                                      /\ rangePct(items[k].indicators) \in lowest..highest})

\* The first trouble found in a balance sheet.
redFlag(p) ==
  IF p = None THEN None
  ELSE IF Or(p.fcf, 0) < 0 THEN "FCF"
  ELSE IF Or(p.cashFlowQuality, 80) < 80 THEN "CFQ"
  ELSE IF Or(p.debtToEquity, 0) >= 200 THEN "D/E"
  ELSE IF Or(p.payoutRatio, 0) > 100 THEN "Payout"
  ELSE None

\* A yield that the earnings can bear.
Income(items) ==
  Sorted(items, {k \in DOMAIN items : /\ items[k].indicators # None
                                      /\ Or(items[k].indicators.dividendYield, 0) > 0
                                      /\ Or(items[k].indicators.payoutRatio, 0) <= SAFE_PAYOUT},
         [k \in DOMAIN items |-> items[k].indicators.dividendYield], "desc")

GRID == {"healthy", "fair", "weak", "unhealthy"} \X {"undervalued", "fair", "overvalued"}

\* The symbols in each cell of the grid, and the count on its header.
QualityValueGrid(items) ==
  [cells |-> [c \in GRID |-> {i \in DOMAIN items :
                /\ items[i].indicators # None
                /\ c = <<items[i].indicators.healthRating, items[i].indicators.valuationRating>>}],
   rated |-> Cardinality({i \in DOMAIN items : items[i].indicators # None
                /\ NoText \notin {items[i].indicators.healthRating, items[i].indicators.valuationRating}})]

\* What stands on the header of a card.
CardCount(title, items) ==
  CASE title = "Target hit" -> Len(TargetHits(items))
    [] title = "Near 52w high" -> Len(NearRange(items, 90, 150))
    [] title = "Near 52w low" -> Len(NearRange(items, 0, 10))
    [] title = "Health x Valuation" -> QualityValueGrid(items).rated
    [] title = "Red flags" -> Cardinality({k \in DOMAIN items : redFlag(items[k].indicators) # None})
    [] title = "Income" -> Len(Income(items))

-----------------------------------------------------------------------------
(* What the user does in the band.                                          *)

PickTimeframe(t) ==
  /\ t # tf
  /\ tf' = t
  /\ UNCHANGED <<filter, mobile, expanded>>

PickFilter(f) ==
  /\ f # filter
  /\ filter' = f
  /\ UNCHANGED <<tf, mobile, expanded>>

\* A card opens and closes by its header, which is disabled while it counts nothing.
SignalCard(title, items) ==
  /\ CardCount(title, items) # 0
  /\ expanded' = IF title \in expanded THEN expanded \ {title} ELSE expanded \cup {title}
  /\ UNCHANGED <<tf, filter, mobile>>

\* The cards are laid out in other elements on a narrow screen, and mounted anew.
SignalRow ==
  /\ mobile' = ~mobile /\ expanded' = {}
  /\ UNCHANGED <<tf, filter>>
=============================================================================
