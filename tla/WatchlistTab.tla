------------------------------ MODULE WatchlistTab ------------------------------
(***************************************************************************)
(* The watchlist as it is shown: a table on a wide screen, a list of key   *)
(* stats on a narrow one (which may pan the table instead), under the band *)
(* of summaries.  The user sorts, filters, compares, and on a narrow       *)
(* screen presses a row long for its action sheet.                         *)
(*                                                                         *)
(* The list changes under all of this: WatchlistClient has the requests    *)
(* that change it, here they only arrive.  An item is                      *)
(*   [symbol, indicators, targetPrice, pinned, note].                      *)
(***************************************************************************)
EXTENDS InsightsBand

CONSTANTS
  Lists,         \* what the server may answer, and what edits may make of the list
  DemoList,      \* the sample shown without a code
  SortKeys       \* the columns clicked

VARIABLES
  items,
  demo,                             \* no code is stored
  compare, selected, picking,
  allColumns, menuOpen,
  sheetFor,                         \* whose action sheet is open
  press,                            \* the row under the finger, and whether it was held
  lookup                            \* the symbol looked up from a row

listVars == <<items, demo>>
sortVars == <<sortKey, sortDir>>      \* no column is sorted when sortKey is None
compareVars == <<compare, selected, picking>>
overlayVars == <<menuOpen, sheetFor, press, lookup>>
tabVars == <<listVars, sortVars, compareVars, allColumns, overlayVars, bandVars>>

Members(list) == {list[k].symbol : k \in DOMAIN list}

COLUMNS ==
  {"symbol", "target", "targetGap", "price", "currency", "ter", "spread", "note"}
    \cup INDICATOR_COLUMNS

MOBILE_COLS == TIMEFRAMES \cup {"pe", "peVsSector", "forwardPe", "targetGap", "marketCap"}

IsItem(item) ==
  /\ {item.symbol, item.note} \subseteq Texts /\ item.pinned \in BOOLEAN
  /\ item.targetPrice \in Int /\ item.targetPrice < Infinity
  /\ item.indicators = None \/ IsFigures(item.indicators)

Flipped(list, k) == [list EXCEPT ![k].pinned = ~@]

\* The server has a symbol once; an edit in place makes a list like any other.
ASSUME WatchlistConstants ==
  /\ DemoList \in Lists /\ <<>> \in Lists
  /\ \A list \in Lists :
       /\ list \in Seq(ToSet(list))
       /\ \A item \in ToSet(list) : IsItem(item)
       /\ \A i, j \in DOMAIN list : list[i].symbol = list[j].symbol => i = j
       /\ \A k \in DOMAIN list : {Flipped(list, k), RemoveAt(list, k)} \subseteq Lists
  /\ SortKeys \subseteq COLUMNS /\ {"today", "symbol"} \subseteq SortKeys

\* The symbols there are.
Listed == UNION {Members(list) : list \in Lists}

WatchlistTypeOK ==
  /\ BandTypeOK
  /\ items \in Lists
  /\ sortKey \in SortKeys \cup {None} /\ sortDir \in {"asc", "desc"}
  /\ {demo, compare, picking, allColumns, menuOpen} \subseteq BOOLEAN
  /\ selected \subseteq Listed /\ {sheetFor, lookup} \subseteq Listed \cup {None}
  /\ press \in {None} \cup [row : Listed, fired : BOOLEAN]

\* The view as it is mounted; it opens on the day's movers.
Mounted ==
  /\ sortKey = "today" /\ sortDir = "desc"
  /\ compare = FALSE /\ selected = {} /\ picking = TRUE
  /\ allColumns = FALSE /\ menuOpen = FALSE /\ sheetFor = None /\ press = None /\ lookup = None

WatchlistInit ==
  /\ BandInit /\ Mounted
  /\ demo \in BOOLEAN /\ items = IF demo THEN DemoList ELSE <<>>

-----------------------------------------------------------------------------
(* What the tab shows.                                                      *)

\* Rounded up, so that a gap above nothing stays one: the code keeps the fraction.
Percent(part, whole) == -((-100 * part) \div whole)

targetGap_Swapped(item) ==
  LET price == IF item.indicators = None THEN None ELSE item.indicators.currentPrice
  IN IF ~(item.targetPrice > 0) \/ price = None THEN None
     ELSE IF price <= 0 THEN None
     ELSE Percent(price - item.targetPrice, price)

\* What the price has still to move to the target, in percent.
targetGap(item) ==
  LET price == IF item.indicators = None THEN None ELSE item.indicators.currentPrice
  IN IF ~(item.targetPrice > 0) \/ price = None THEN None
     ELSE IF price <= 0 THEN None
     ELSE Percent(item.targetPrice - price, price)

sortValue(item, key) ==
  LET Figure(field, otherwise) ==
        IF item.indicators = None THEN otherwise ELSE Or(item.indicators[field], otherwise)
  IN CASE key = "symbol" -> Rank(item.symbol)
       [] key = "note" -> Rank(item.note)
       [] key = "target" -> item.targetPrice
       [] key = "targetGap" -> Or(targetGap(item), -Infinity)
       [] key = "price" -> Figure("currentPrice", -Infinity)
       [] key = "currency" -> Rank(Figure("currency", NoText))
       [] key = "ter" -> Figure("ter", -Infinity)
       [] key = "spread" -> Figure("spreadPct", -Infinity)
       [] key \in INDICATOR_COLUMNS -> indicatorSortValue(item.indicators, key)

sortItems(list, key, dir) ==
  Sorted(list, DOMAIN list, [k \in DOMAIN list |-> sortValue(list[k], key)], dir)

BandRow(item) ==
  [symbol |-> item.symbol, indicators |-> item.indicators, pinned |-> item.pinned,
   targetGap |-> targetGap(item)]

BandRows(list) == [k \in DOMAIN list |-> BandRow(list[k])]

PinnedFirst(list) ==
  Filter(list, {k \in DOMAIN list : list[k].pinned}) \o
  Filter(list, {k \in DOMAIN list : ~list[k].pinned})

Ordered_PinnedFirst ==
  PinnedFirst(IF sortKey = None THEN sortItems(items, "symbol", "asc")
              ELSE sortItems(items, sortKey, sortDir))

\* A sorted column orders the whole list; without one the pinned rows lead.
Ordered ==
  IF sortKey # None THEN sortItems(items, sortKey, sortDir)
  ELSE PinnedFirst(sortItems(items, "symbol", "asc"))

\* In a comparison the rows selected lead, and the others are there to pick from.
VisibleRows ==
  LET list == Ordered
      Of(chosen) == Filter(list, {k \in DOMAIN list : (list[k].symbol \in selected) = chosen})
  IN IF ~compare THEN list ELSE Of(TRUE) \o (IF picking THEN Of(FALSE) ELSE <<>>)

FilteredRows ==
  LET list == VisibleRows
  IN Filter(list, {k \in DOMAIN list : matchesFilter(BandRow(list[k]), filter, tf)})

\* The body of the tab; only the first two have the band.
Layout(narrow, all, list) ==
  CASE list = <<>> -> "empty"
    [] list # <<>> /\ ~narrow -> "table"
    [] list # <<>> /\ narrow /\ ~all -> "stacked"
    [] list # <<>> /\ narrow /\ all -> "columns"

Body == Layout(mobile, allColumns, items)

\* The green of a target: the price has come down to it.
TargetHit(item) ==
  /\ item.targetPrice > 0 /\ item.indicators # None
  /\ Or(item.indicators.currentPrice, Infinity) < item.targetPrice

\* Whether a cell of the table, or of the stacked list, shows a figure.
Cell(item, key) ==
  LET Has(field, missing) == item.indicators # None /\ item.indicators[field] # missing
  IN CASE key = "symbol" -> TRUE
       [] key = "note" -> item.note # NoText
       [] key = "target" -> item.targetPrice # 0
       [] key = "targetGap" -> targetGap(item) # None
       [] key = "price" -> Has("currentPrice", None)
       [] key = "currency" -> Has("currency", NoText)
       [] key = "ter" -> Has("ter", None)
       [] key = "spread" -> Has("spreadPct", None)
       [] key \in INDICATOR_COLUMNS -> IndicatorGroup(item.indicators, key)

MatrixCell(item, key) == cellValue(BandRow(item), key) # None

\* The sheet is drawn with the stacked list, over everything.
SheetIsUp == Body = "stacked" /\ sheetFor # None

\* items.find(...)! has found nothing: drawing the sheet throws, and the page is gone.
Crashed == SheetIsUp /\ sheetFor \notin Members(items)

MenuIsUp == menuOpen /\ items # <<>>

\* The page can be clicked: nothing lies over it, and no finger is on it.
Free == ~SheetIsUp /\ ~MenuIsUp /\ lookup = None /\ press = None

-----------------------------------------------------------------------------
(* The list changes.  Rows that are no longer shown are unmounted, and the  *)
(* cards are where the band is.                                             *)

\* The symbols in FilteredRows, for which their order is nothing.
Shown ==
  {items[k].symbol : k \in {n \in DOMAIN items :
                              /\ ~compare \/ picking \/ items[n].symbol \in selected
                              /\ matchesFilter(BandRow(items[n]), filter, tf)}}

\* Last in an action: what the rest of it leaves mounted.
Remounted ==
  /\ expanded' = IF Body' = Body THEN expanded ELSE {}
  /\ press' = IF press # None /\ Body' = "stacked" /\ press.row \in Shown' THEN press ELSE None

Becomes(list, isDemo) ==
  /\ items' = list /\ demo' = isDemo
  /\ UNCHANGED <<sortVars, compareVars, allColumns, menuOpen, sheetFor, lookup, tf, filter, mobile>>
  /\ Remounted

\* An answer to a list request of this or of another action.
ListArrives == ~demo /\ \E list \in Lists : Becomes(list, FALSE)

\* Without a code an edit, or an add whose figures have come, is made in place.
DemoChanges ==
  /\ demo
  /\ \/ \E list \in Lists, k \in DOMAIN items : list = RemoveAt(items, k) /\ Becomes(list, TRUE)
     \/ \E list \in Lists : /\ list # <<>> /\ Front(list) = items
                            /\ ~Last(list).pinned /\ Last(list).symbol \notin Members(items)
                            /\ Becomes(list, TRUE)

\* A click on "Use code" or "Start my own list": the sample stays up until a list arrives.
UseCode ==
  /\ Free /\ demo
  /\ demo' = FALSE
  /\ UNCHANGED <<items, sortVars, compareVars, allColumns, overlayVars, bandVars>>

HandleForget == Free /\ ~demo /\ Becomes(DemoList, TRUE)

\* A list request is refused for its code.
CodeRefused == ~demo /\ Becomes(DemoList, TRUE)

-----------------------------------------------------------------------------
(* The pin and the remove button of a row, or of the action sheet.  Of a    *)
(* stored list they only send a request.                                    *)

Edit(list) == items' = IF demo THEN list ELSE items

RowButtons ==
  /\ Free /\ Body \in {"table", "columns"}
  /\ \E k \in DOMAIN items :
       /\ items[k].symbol \in Shown
       /\ Edit(Flipped(items, k)) \/ Edit(RemoveAt(items, k))
  /\ UNCHANGED <<demo, sortVars, compareVars, allColumns, menuOpen, sheetFor, lookup, tf, filter, mobile>>
  /\ Remounted

ActionSheet ==
  /\ SheetIsUp /\ sheetFor \in Members(items) /\ press = None
  /\ \/ \E k \in DOMAIN items : /\ items[k].symbol = sheetFor
                                /\ Edit(Flipped(items, k)) \/ Edit(RemoveAt(items, k))
     \/ UNCHANGED items
  /\ sheetFor' = None
  /\ UNCHANGED <<demo, sortVars, compareVars, allColumns, menuOpen, lookup, tf, filter, mobile>>
  /\ Remounted

-----------------------------------------------------------------------------
(* Sorting.                                                                 *)

FirstDir(key) == IF key \in {"symbol", "note"} THEN "asc" ELSE "desc"

\* A column of the table goes through its two directions and then lets go.
handleSort(key) ==
  /\ Free /\ Body \in {"table", "columns"}
  /\ IF key # sortKey THEN sortKey' = key /\ sortDir' = FirstDir(key)
     ELSE IF sortDir = FirstDir(key)
       THEN sortDir' = (IF sortDir = "asc" THEN "desc" ELSE "asc") /\ UNCHANGED sortKey
     ELSE sortKey' = None /\ UNCHANGED sortDir
  /\ UNCHANGED <<listVars, compareVars, allColumns, overlayVars, bandVars>>

\* A header of the stacked list picks its column, or flips it.
MatrixHead(key) ==
  /\ Free /\ Body = "stacked" /\ key \in MOBILE_COLS \ {"marketCap"}
  /\ IF key # sortKey THEN sortKey' = key /\ sortDir' = FirstDir(key)
     ELSE sortDir' = (IF sortDir = "asc" THEN "desc" ELSE "asc") /\ UNCHANGED sortKey
  /\ UNCHANGED <<listVars, compareVars, allColumns, overlayVars, bandVars>>

-----------------------------------------------------------------------------
(* Comparing.                                                               *)

ExitCompare == selected' = {} /\ compare' = FALSE /\ UNCHANGED picking

ToggleCompare ==
  IF compare THEN ExitCompare
  ELSE picking' = (selected = {}) /\ compare' = TRUE /\ UNCHANGED selected

OverflowMenu ==
  /\ items # <<>> /\ ~SheetIsUp /\ lookup = None /\ press = None
  /\ \/ menuOpen' = ~menuOpen /\ UNCHANGED compareVars
     \/ menuOpen /\ menuOpen' = FALSE /\ ToggleCompare
  /\ UNCHANGED <<listVars, sortVars, allColumns, sheetFor, press, lookup, bandVars>>

\* The buttons of the comparison, which are there while there are rows to compare.
CompareBar ==
  /\ Free /\ compare /\ items # <<>>
  /\ \/ ExitCompare
     \/ picking' = ~picking /\ UNCHANGED <<compare, selected>>
  /\ UNCHANGED <<listVars, sortVars, allColumns, menuOpen, sheetFor, lookup, tf, filter, mobile>>
  /\ Remounted

Toggled(s) == IF s \in selected THEN selected \ {s} ELSE selected \cup {s}

\* A click on a row selects it in a comparison, and else looks its symbol up.
Click(s) ==
  IF compare THEN selected' = Toggled(s) /\ UNCHANGED lookup
  ELSE lookup' = s /\ UNCHANGED selected

RowClick ==
  /\ Free /\ Body \in {"table", "columns"}
  /\ \E s \in Shown : Click(s)
  /\ UNCHANGED <<listVars, sortVars, compare, picking, allColumns, menuOpen, sheetFor, press, bandVars>>

CloseLookup ==
  /\ lookup # None /\ lookup' = None
  /\ UNCHANGED <<listVars, sortVars, compareVars, allColumns, menuOpen, sheetFor, press, bandVars>>

-----------------------------------------------------------------------------
(* A finger on a row of the stacked list.                                   *)

Start ==
  /\ Free /\ Body = "stacked"
  /\ \E s \in Shown : press' = [row |-> s, fired |-> FALSE]
  /\ UNCHANGED <<listVars, sortVars, compareVars, allColumns, menuOpen, sheetFor, lookup, bandVars>>

\* The finger has stayed for half a second.
LongPress ==
  /\ press # None /\ ~press.fired
  /\ press' = [press EXCEPT !.fired = TRUE] /\ sheetFor' = press.row
  /\ UNCHANGED <<listVars, sortVars, compareVars, allColumns, menuOpen, lookup, bandVars>>

Lift_AlwaysClicks ==
  /\ press # None /\ press' = None
  /\ Click(press.row)
  /\ UNCHANGED <<listVars, sortVars, compare, picking, allColumns, menuOpen, sheetFor, bandVars>>

\* The finger lifts, which clicks the row unless the press was a long one.
Lift ==
  /\ press # None /\ press' = None
  /\ IF press.fired THEN UNCHANGED <<selected, lookup>> ELSE Click(press.row)
  /\ UNCHANGED <<listVars, sortVars, compare, picking, allColumns, menuOpen, sheetFor, bandVars>>

\* It slides off the row, or scrolls.
Cancel ==
  /\ press # None /\ press' = None
  /\ UNCHANGED <<listVars, sortVars, compareVars, allColumns, menuOpen, sheetFor, lookup, bandVars>>

-----------------------------------------------------------------------------

ColumnModeToggle ==
  /\ Free /\ Body \in {"stacked", "columns"}
  /\ allColumns' = ~allColumns
  /\ UNCHANGED <<listVars, sortVars, compareVars, menuOpen, sheetFor, lookup, tf, filter, mobile>>
  /\ Remounted

\* The window becomes narrow or wide.
Rotate ==
  /\ mobile' = ~mobile
  /\ UNCHANGED <<listVars, sortVars, compareVars, allColumns, menuOpen, sheetFor, lookup, tf, filter>>
  /\ Remounted

Band ==
  /\ Free /\ Body \in {"table", "stacked"}
  /\ \/ \E t \in Timeframes : PickTimeframe(t)
     \/ \E f \in Filters : PickFilter(f)
     \/ \E title \in Expandable : SignalCard(title, BandRows(items))
  /\ UNCHANGED <<listVars, sortVars, compareVars, allColumns, overlayVars>>

\* The page is reloaded once it is gone.
Reload ==
  /\ sortKey' = "today" /\ sortDir' = "desc"
  /\ compare' = FALSE /\ selected' = {} /\ picking' = TRUE
  /\ allColumns' = FALSE /\ menuOpen' = FALSE /\ sheetFor' = None /\ press' = None /\ lookup' = None
  /\ tf' = "today" /\ filter' = "All" /\ expanded' = {} /\ UNCHANGED <<mobile, demo>>
  /\ items' = IF demo THEN DemoList ELSE <<>>

WatchlistNext ==
  \/ Crashed /\ Reload
  \/ /\ ~Crashed
     /\ \/ ListArrives \/ DemoChanges \/ UseCode \/ HandleForget \/ CodeRefused
        \/ RowButtons \/ ActionSheet
        \/ \E key \in SortKeys : handleSort(key) \/ MatrixHead(key)
        \/ OverflowMenu \/ CompareBar \/ RowClick \/ CloseLookup
        \/ Start \/ LongPress \/ Lift \/ Cancel
        \/ ColumnModeToggle \/ Rotate \/ Band

WatchlistSpec == WatchlistInit /\ [][WatchlistNext]_tabVars

-----------------------------------------------------------------------------
(* Properties.                                                              *)

\* Pinned rows float to the top while no column is sorted, by symbol within each
\* part, and in no other state: a sorted column owns the whole list, and only a
\* comparison is put before either (WatchlistTab.tsx:197-200, 453-477).
RowsInOrder ==
  LET rows == FilteredRows
  IN \A i, j \in DOMAIN rows :
    LET above == rows[i]
        below == rows[j]
        Picked(item) == compare /\ item.symbol \in selected
        Leads(item) == sortKey = None /\ item.pinned
        Value(item) == IF sortKey = None THEN Rank(item.symbol) ELSE sortValue(item, sortKey)
    IN i < j =>
         /\ Picked(below) => Picked(above)
         /\ (Picked(above) <=> Picked(below)) =>
              /\ Leads(below) => Leads(above)
              /\ (Leads(above) <=> Leads(below)) =>
                   IF sortKey = None \/ sortDir = "asc" THEN Value(above) <= Value(below)
                   ELSE Value(above) >= Value(below)

\* The table and the stacked list show a figure, or a dash, in the same places: one
\* goes by INDICATOR_CELLS, the other by cellValue (IndicatorColumns.tsx:196-428,
\* InsightsBand.tsx:65-93, WatchlistTab.tsx:1489-1500).
ViewsAgree ==
  \A k \in DOMAIN items, key \in COLUMNS \cap MOBILE_COLS :
    Cell(items[k], key) <=> MatrixCell(items[k], key)

\* Three readings of a buy target agree: the "Undervalued" chip, the "Target hit"
\* card, and the green of the target in a row.  The exception is of the code: a gap
\* in percent can be had of a price above nothing only, the green compares any
\* (InsightsBand.tsx:59, 490-492, WatchlistTab.tsx:104-108, 1195).
TargetsAgree ==
  LET hits == Members(TargetHits(BandRows(items)))
      Green(item) == TargetHit(item) /\ item.indicators.currentPrice > 0
  IN /\ hits = {items[k].symbol : k \in {n \in DOMAIN items : Green(items[n])}}
     /\ (filter = "Undervalued" /\ ~compare) => Members(FilteredRows) = hits

\* The list behind an action sheet is out of reach: the click that ends the long
\* press that opened it neither looks the symbol up on top of the sheet nor picks it
\* for a comparison (WatchlistTab.tsx:1656-1690).
NoClickBehindSheet ==
  [][(SheetIsUp /\ ~Crashed) => (lookup' \in {lookup, None} /\ selected' = selected)]_tabVars

\* items.find((i) => i.symbol === sheetFor)! (WatchlistTab.tsx:984): the symbol of the
\* sheet is on the list.
SheetItemExists == ~Crashed
=============================================================================
