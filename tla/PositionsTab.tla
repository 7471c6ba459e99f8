------------------------------ MODULE PositionsTab ------------------------------
(***************************************************************************)
(* The positions tab of the broker reports: the open positions of a report *)
(* as a table that the user sorts and filters, under the band of summaries *)
(* (InsightsBand), with a card of holdings for each broker.  The page      *)
(* replaces the report while the tab is up.                                *)
(*                                                                         *)
(* A position is [symbol, quantity, mv, cost, pnl, pct, figures].          *)
(***************************************************************************)
EXTENDS InsightsBand

CONSTANTS
  Reports,       \* the reports: each a set of positions in some order, by broker too
  PositionKeys   \* the columns clicked

VARIABLE
  data           \* the report on the page

tableVars == <<sortKey, sortDir>>
positionsVars == <<data, tableVars, bandVars>>

POSITION_COLUMNS ==
  {"symbol", "quantity", "mv", "cost", "pnl", "pct", "alloc"} \cup INDICATOR_COLUMNS

IsPosition(p) ==
  /\ p.symbol \in Texts /\ p.cost \in Int
  /\ {p.quantity, p.mv, p.pnl, p.pct} \subseteq Number
  /\ IsFigures(p.figures)

ASSUME PositionsConstants ==
  /\ {"mv", "today"} \subseteq PositionKeys /\ PositionKeys \subseteq POSITION_COLUMNS
  /\ \A d \in Reports :
       /\ d.openPositions \in Seq(ToSet(d.openPositions))
       /\ \A p \in ToSet(d.openPositions) : IsPosition(p)
       /\ \A i, j \in DOMAIN d.openPositions :
            d.openPositions[i].symbol = d.openPositions[j].symbol => i = j

\* The chips of a tab without pins and buy targets.
PositionFilters == Filters \cap filtersFor({})

PositionsTypeOK ==
  /\ BandTypeOK /\ filter \in PositionFilters
  /\ data \in Reports
  /\ sortKey \in PositionKeys /\ sortDir \in {"asc", "desc"}

PositionsInit ==
  /\ BandInit
  /\ data \in Reports
  /\ sortKey = "mv" /\ sortDir = "desc"

-----------------------------------------------------------------------------
(* What the tab shows.                                                      *)

positionValue(p, key) ==
  CASE key = "symbol" -> Rank(p.symbol)
    [] key = "cost" -> p.cost
    [] key \in {"mv", "alloc"} -> Or(p.mv, -Infinity)
    [] key \in {"quantity", "pnl", "pct"} -> Or(p[key], -Infinity)
    [] key \in INDICATOR_COLUMNS -> indicatorSortValue(p.figures, key)

sortPositions(rows, kept, key, dir) ==
  Sorted(rows, kept, [k \in DOMAIN rows |-> positionValue(rows[k], key)], dir)

\* A position as the band reads it: it has neither a pin nor a buy target.
PositionRow(p) == [symbol |-> p.symbol, indicators |-> p.figures, pinned |-> FALSE, targetGap |-> None]

PositionRows(positions) == [k \in DOMAIN positions |-> PositionRow(positions[k])]

Items == PositionRows(data.openPositions)

Visible ==
  {k \in DOMAIN data.openPositions : matchesFilter(PositionRow(data.openPositions[k]), filter, tf)}

\* The table: filtered, then sorted.
Rows == sortPositions(data.openPositions, Visible, sortKey, sortDir)

\* Whether a cell of the table shows a figure rather than a dash.
PositionCell(p, key) ==
  CASE key \in {"symbol", "cost", "alloc"} -> TRUE     \* allocated nothing is 0%
    [] key \in {"quantity", "mv", "pnl", "pct"} -> p[key] # None
    [] key \in INDICATOR_COLUMNS -> INDICATOR_CELLS(p.figures, key)

Values(positions) == [k \in DOMAIN positions |-> Or(positions[k].mv, 0)]

TotalMV_Shown == SumFunction(Values(Rows))

TotalMV == SumFunction(Values(data.openPositions))

\* The share of a position in the portfolio, in percent.
Alloc(p) == IF TotalMV > 0 THEN (100 * Or(p.mv, 0)) \div TotalMV ELSE 0

\* The first of the positions with the highest return, if there is one.
BestPerformer ==
  LET positions == data.openPositions
  IN First(1, Sorted(positions, DOMAIN positions,
                     [k \in DOMAIN positions |-> Or(positions[k].pct, -Infinity)], "desc"))

StatCards ==
  [value |-> TotalMV, positions |-> Len(data.openPositions),
   unrealized |-> SumFunction([k \in DOMAIN data.openPositions |-> Or(data.openPositions[k].pnl, 0)]),
   best |-> [k \in DOMAIN BestPerformer |-> BestPerformer[k].symbol]]

\* A broker has a card when one of its positions is valued, and lists those.
BrokerCards ==
  {[name |-> b.name, symbols |-> {p.symbol : p \in {q \in b.positions : q.mv # None}}] :
     b \in {c \in data.brokers : \E p \in c.positions : p.mv # None}}

-----------------------------------------------------------------------------

handlePositionSort(key) ==
  /\ IF key = sortKey
       THEN sortDir' = (IF sortDir = "asc" THEN "desc" ELSE "asc") /\ UNCHANGED sortKey
     ELSE sortKey' = key /\ sortDir' = IF key = "symbol" THEN "asc" ELSE "desc"
  /\ UNCHANGED <<data, bandVars>>

InBand == UNCHANGED <<data, tableVars>>

\* A refresh or an upload answered while the tab is up.
ReportReplaced ==
  /\ data' \in Reports \ {data}
  /\ UNCHANGED <<tableVars, bandVars>>

PositionsNext ==
  \/ \E key \in PositionKeys : handlePositionSort(key)
  \/ \E t \in Timeframes : PickTimeframe(t) /\ InBand
  \/ \E f \in PositionFilters : PickFilter(f) /\ InBand
  \/ \E title \in Expandable : SignalCard(title, Items) /\ InBand
  \/ SignalRow /\ InBand
  \/ ReportReplaced

PositionsSpec == PositionsInit /\ [][PositionsNext]_positionsVars

-----------------------------------------------------------------------------
(* Properties.                                                              *)

Symbols(rows) == [k \in DOMAIN rows |-> rows[k].symbol]

\* The rails and the table rank the same movers: with the table sorted by the
\* timeframe, highest first, the gainers are the rows on top of it and, when only
\* losers are left, the losers are the rows at its foot.  The two are sorted
\* apart, from different rows and with a missing return in different places
\* (InsightsBand.tsx:474-486, PositionsTab.tsx:116-126).
RailsAgreeWithTable ==
  (sortKey = tf /\ sortDir = "desc") =>
    /\ filter \in {"All", "Gainers"} => IsPrefix(Symbols(Gainers(Items)), Symbols(Rows))
    /\ filter = "Losers" => Symbols(Losers(Items)) = First(RailSize, Reverse(Symbols(Rows)))

\* The tiles read the rows of the table and the rails all of the positions; where a
\* filter does not part them, the best and the worst are as good and as bad as the
\* first of the gainers and of the losers (InsightsBand.tsx:242-256, 474-486).
TilesAgreeWithRails ==
  LET tiles == StatTiles(Len(Items), PositionRows(Rows))
      gainers == Rail(Gainers(Items))
      losers == Rail(Losers(Items))
  IN /\ (filter \in {"All", "Gainers"} /\ gainers # <<>>) => tiles.best[1].move = gainers[1].move
     /\ (filter \in {"All", "Losers"} /\ losers # <<>>) => tiles.worst[1].move = losers[1].move
     /\ filter = "All" => (tiles.best = <<>> <=> BreadthBar(PositionRows(Rows)).up = 0
                             /\ \A i \in DOMAIN Items : cellValue(Items[i], tf) = None)

\* Sorted highest first, a column has its dashes at the foot.  The exceptions are of
\* the code: a multiple of zero is a dash but a number to sort by, and a range without
\* a width is drawn but sorts as if it were missing.  Analysts are bullish when low,
\* so that column has its dashes at the foot when it is sorted lowest first
\* (IndicatorColumns.tsx:92-149 against 196-428).
DashesLast ==
  LET rows == Rows
  IN \A i, j \in DOMAIN rows :
    (i < j /\ ~PositionCell(rows[i], sortKey) /\ PositionCell(rows[j], sortKey)) =>
      LET above == positionValue(rows[i], sortKey)
          below == positionValue(rows[j], sortKey)
      IN IF sortKey = "analyst"
           THEN sortDir = "desc" \/ analystRank(rows[j].figures) = None
         ELSE \/ sortDir = "asc"
              \/ sortKey \in {"evToEbitda", "cashFlowQuality"} /\ above = 0 /\ below < 0
              \/ sortKey = "range" /\ below = -Infinity

\* A filter or a sort of the table redefines nothing above or beside it: not the
\* movers, not the cards, not a position's share of the portfolio
\* (InsightsBand.tsx:457-458, PositionsTab.tsx:192-205, 477).
FilterKeepsSummaries ==
  [][UNCHANGED <<data, tf, mobile>> =>
       /\ StatCards' = StatCards /\ BrokerCards' = BrokerCards
       /\ Gainers(Items)' = Gainers(Items) /\ Losers(Items)' = Losers(Items)
       /\ \A k \in DOMAIN data.openPositions :
            Alloc(data.openPositions[k])' = Alloc(data.openPositions[k])]_positionsVars
=============================================================================
