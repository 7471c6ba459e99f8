----------------------------- MODULE MCWatchlistTab -----------------------------
(***************************************************************************)
(* Small lists for the watchlist tab: up to two of two symbols, pinned or  *)
(* not.  "A" has come down to its target and has figures of every kind; of *)
(* "B" the figures could not be had, or are no more than a price of zero.  *)
(***************************************************************************)
EXTENDS WatchlistTab

MCAlphabet == <<"", "-Infinity", "A", "B", "hold", "Tech", "USD">>

Item(symbol, pinned, indicators) ==
  [symbol |-> symbol, pinned |-> pinned, targetPrice |-> 12, note |-> "", indicators |-> indicators]

OfA == [NoFigures(10) EXCEPT !.todayReturn = -2, !.pe = -4, !.forwardPE = 9, !.peVsSector = -20,
          !.analystRating = "hold", !.sector = "Tech", !.currency = "USD", !.evToEbitda = 0]

Items == {Item("A", p, OfA) : p \in BOOLEAN}
         \cup {Item("B", p, f) : p \in BOOLEAN, f \in {None, NoFigures(0)}}

MCLists ==
  {<<>>} \cup {<<i>> : i \in Items} \cup {l \in Items \X Items : l[1].symbol # l[2].symbol}

MCDemoList == <<Item("B", FALSE, None)>>
=============================================================================
