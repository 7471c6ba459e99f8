------------------------------ MODULE StockLookup ------------------------------
(***************************************************************************)
(* The lookup modal: the search layer (Ctrl+Space, debounced suggestions,  *)
(* arrow keys) and the detail layer (figures, chart, news, the button that *)
(* adds the symbol to the watchlist), with the requests of both.           *)
(*                                                                         *)
(* A search, a chart or a news request is aborted when what it was for     *)
(* changes: it is then gone.  A lookup of figures and an add are never     *)
(* aborted, and are answered whatever the modal shows by then.             *)
(*                                                                         *)
(* What WatchlistClient says of the modal is its traffic with the server's *)
(* list; this module has the modal itself.  A code is stored throughout.   *)
(***************************************************************************)
EXTENDS Integers, Sequences

CONSTANTS
  Symbols,       \* also what a user may type, upper-cased
  Funds,         \* the symbols whose figures list holdings
  Ranges,        \* of the chart
  MaxLookups,    \* bound: lookups of figures under way
  Failed,        \* a chart or a news request that came to nothing
  None

Empty == ""   \* text

ASSUME LookupConstants ==
  /\ Funds \subseteq Symbols
  /\ "1Y" \in Ranges
  /\ MaxLookups \in Nat \ {0}
  /\ None \notin Symbols /\ Failed \notin Symbols \cup {None} /\ Empty \notin Symbols

VARIABLES
  open, detailSymbol,               \* which layer is up
  overflow, savedOverflow,          \* the page's scrolling, and what the lock saved
  query, results, highlight, search,
  detail, loading, error, lookups,  \* the figures, their failure, whose are on the way
  mobile, group,                    \* a narrow screen, and the group of figures on it
  chartRange, chart, chartReq,
  news, newsReq,
  tracked, addReq, addError,
  cache,         \* localStorage bs.trackedSymbols
  overlapped,    \* history: the symbol was picked while a lookup was under way
  dropped        \* history: the search for the query as it stands has failed

layerVars == <<open, detailSymbol, overflow, savedOverflow>>
searchVars == <<query, results, highlight, search, dropped>>
figureVars == <<detail, loading, error, lookups, overlapped>>
bodyVars == <<mobile, group>>
chartVars == <<chartRange, chart, chartReq>>
newsVars == <<news, newsReq>>
addVars == <<tracked, addReq, addError, cache>>
lookupVars == <<layerVars, searchVars, figureVars, bodyVars, chartVars, newsVars, addVars>>

Texts == Symbols \cup {Empty}
Suggestible == {<<>>} \cup {<<s>> : s \in Symbols} \cup {l \in Symbols \X Symbols : l[1] # l[2]}
Suggestions == [of : Texts, list : Suggestible]
NoSuggestions == [of |-> Empty, list |-> <<>>]

\* None is no record.
ASSUME LookupNoRecord ==
  None \notin [of : Symbols, sent : BOOLEAN] \cup [of : Symbols, range : Ranges]

Total(f) == LET sum[S \in SUBSET Symbols] ==
                  IF S = {} THEN 0
                  ELSE LET s == CHOOSE s \in S : TRUE IN f[s] + sum[S \ {s}]
            IN sum[Symbols]

-----------------------------------------------------------------------------
(* What the detail layer shows.                                             *)

NonZero == {"Price/Sales", "EV/EBITDA", "Price/Book", "CF Quality"}
Positive == {"P/E", "Forward P/E"}
Never == {"SBC Adj. FCF Yield", "SBC Impact"}

\* A group of figures: which are dashes below or at zero, and which always.
Group(title, figures) ==
  [title |-> title, figures |-> figures, nonZero |-> figures \cap NonZero,
   positive |-> figures \cap Positive, never |-> figures \cap Never]

Valuation == Group("Valuation", Positive \cup {"Market Cap", "Price/Sales", "EV/EBITDA",
                                               "Price/Book", "Valuation"})
CashFlow == Group("Cash Flow", Never \cup {"FCF", "Free Cash Flow Yield", "CF Quality"})
Margins == Group("Margins & Growth", {"Profit Margin", "Operating Margin",
                   "Quarterly Earnings (YoY)", "Quarterly Revenue (YoY)"})
Balance == Group("Balance", {"Cash", "Debt", "Net", "Debt/Equity", "Health"})
Dividend == Group("Dividend", {"Dividend Yield", "Payout Ratio", "Payout Date"})
Holdings == Group("Top Holdings", {"Share of the fund", "Holdings"})

\* On a narrow screen, one at a time; and all at once on a wide one.
MobileGroups(s) ==
  <<Valuation, CashFlow, Margins, Balance, Dividend>> \o (IF s \in Funds THEN <<Holdings>> ELSE <<>>)

DetailBody(s) ==
  {Valuation, CashFlow, Margins, Balance, Dividend} \cup (IF s \in Funds THEN {Holdings} ELSE {})

ActiveGroup_Selected(s) == group

\* The group picked for a fund can point past the end for a stock.
ActiveGroup(s) == IF group <= Len(MobileGroups(s)) THEN group ELSE 1

Body ==
  CASE detailSymbol = None -> "none"
    [] detailSymbol # None /\ loading -> "loading"
    [] detailSymbol # None /\ ~loading /\ error # None -> "error"
    [] detailSymbol # None /\ ~loading /\ error = None /\ detail # None -> "detail"
    [] OTHER -> "blank"

\* The narrow body forgets its group when it is not there for a moment.
KeepsGroup(g) == group' = IF Body' = "detail" /\ mobile' THEN g ELSE 1

LookupTypeOK ==
  /\ {open, loading, mobile, tracked, addError, overlapped, dropped} \subseteq BOOLEAN
  /\ detailSymbol \in Symbols \cup {None}
  /\ {overflow, savedOverflow} \subseteq {Empty, "hidden"}
  /\ query \in Texts /\ results \in Suggestions
  /\ highlight \in -1..1     \* -1 when an arrow key is pressed over no suggestion
  /\ search \in [of : Symbols, sent : BOOLEAN] \cup {None}
  /\ {detail, error} \subseteq Symbols \cup {None}
  /\ lookups \in [Symbols -> Nat]
  /\ group \in 1..6 /\ chartRange \in Ranges
  /\ chart \in [of : Symbols, range : Ranges] \cup {Failed, None}
  /\ chartReq \in [of : Symbols, range : Ranges] \cup {None}
  /\ news \in Symbols \cup {Failed, None} /\ newsReq \in Symbols \cup {None}
  /\ addReq \in Symbols \cup {None} /\ cache \subseteq Symbols

LookupInit ==
  /\ open = FALSE /\ detailSymbol = None /\ overflow = Empty /\ savedOverflow = Empty
  /\ query = Empty /\ results = NoSuggestions /\ highlight = 0 /\ search = None /\ dropped = FALSE
  /\ detail = None /\ loading = FALSE /\ error = None /\ overlapped = FALSE
  /\ lookups = [s \in Symbols |-> 0]
  /\ mobile \in BOOLEAN /\ group = 1
  /\ chartRange = "1Y" /\ chart = None /\ chartReq = None
  /\ news = None /\ newsReq = None
  /\ tracked = FALSE /\ addReq = None /\ addError = FALSE /\ cache \in SUBSET Symbols

-----------------------------------------------------------------------------
(* Effects: each runs when one of the values it depends on has changed,     *)
(* after its cleanup.                                                       *)

IsUp(o, s) == o \/ s # None

\* Page scroll is locked while a layer is up.
Layers(o, s) ==
  LET before == IF IsUp(open, detailSymbol) THEN savedOverflow ELSE overflow IN
  /\ open' = o /\ detailSymbol' = s
  /\ IF IsUp(o, s) THEN savedOverflow' = before /\ overflow' = "hidden"
                   ELSE overflow' = before /\ UNCHANGED savedOverflow

Suggest_KeepsSearch(q, o, r) ==
  /\ query' = q
  /\ IF o /\ q # Empty
       THEN /\ results' = r
            /\ search' = IF search = None THEN [of |-> q, sent |-> FALSE] ELSE search
       ELSE results' = NoSuggestions /\ search' = None
  /\ dropped' = FALSE

\* The debounced search; r is what the handler has made of the suggestions.
Suggest(q, o, r) ==
  /\ query' = q
  /\ IF q = query /\ o = open
       THEN results' = r /\ UNCHANGED <<search, dropped>>
     ELSE IF o /\ q # Empty
       THEN results' = r /\ search' = [of |-> q, sent |-> FALSE] /\ dropped' = FALSE
     ELSE results' = NoSuggestions /\ search' = None /\ dropped' = FALSE

Chart_Shared(s, range, c) ==
  /\ chartRange' = range
  /\ IF s = detailSymbol /\ range = chartRange THEN chart' = c /\ UNCHANGED chartReq
     ELSE IF s = None THEN chart' = c /\ UNCHANGED chartReq
     ELSE /\ chart' = None
          /\ chartReq' = IF chartReq # None THEN chartReq ELSE [of |-> s, range |-> range]

Chart(s, range, c) ==
  /\ chartRange' = range
  /\ IF s = detailSymbol /\ range = chartRange THEN chart' = c /\ UNCHANGED chartReq
     ELSE IF s = None THEN chart' = c /\ chartReq' = None
     ELSE chart' = None /\ chartReq' = [of |-> s, range |-> range]

News(s, n) ==
  IF s = detailSymbol THEN news' = n /\ UNCHANGED newsReq
  ELSE IF s = None THEN news' = n /\ newsReq' = None
  ELSE news' = None /\ newsReq' = s

-----------------------------------------------------------------------------
(* The user.                                                                *)

CtrlSpace ==
  /\ Layers(TRUE, None)
  /\ Suggest(query, TRUE, results) /\ UNCHANGED highlight
  /\ Chart(None, chartRange, chart) /\ News(None, news)
  /\ detail' = None
  /\ UNCHANGED <<loading, error, lookups, overlapped, mobile, addVars>>
  /\ KeepsGroup(1)

Type ==
  /\ open
  /\ \E q \in Texts \ {query} : Suggest(q, open, results)
  /\ UNCHANGED <<layerVars, highlight, figureVars, bodyVars, chartVars, newsVars, addVars>>

\* ArrowDown, ArrowUp, and the mouse over a suggestion.
Arrow ==
  /\ open
  /\ LET last == Len(results.list) - 1 IN
     highlight' \in {IF highlight + 1 < last THEN highlight + 1 ELSE last,
                     IF highlight > 0 THEN highlight - 1 ELSE 0} \cup 0..last
  /\ UNCHANGED <<layerVars, query, results, search, dropped, figureVars, bodyVars, chartVars,
                 newsVars, addVars>>

Cleared_KeepsError == detail' = None /\ UNCHANGED error

Cleared == detail' = None /\ error' = None

Pick(s) ==
  /\ Total(lookups) < MaxLookups
  /\ Layers(FALSE, s)
  /\ Suggest(query, FALSE, NoSuggestions) /\ UNCHANGED highlight
  /\ Chart(s, "1Y", chart) /\ News(s, news)
  /\ Cleared /\ loading' = TRUE
  /\ addError' = FALSE /\ tracked' = (s \in cache)
  /\ lookups' = [lookups EXCEPT ![s] = @ + 1]
  /\ overlapped' = (\E t \in Symbols : lookups[t] > 0)
  /\ UNCHANGED <<mobile, addReq, cache>>
  /\ KeepsGroup(1)

\* Enter opens the suggestion highlighted, or what was typed; a click any of them.
PickSuggestion ==
  /\ open
  /\ \E i \in DOMAIN results.list : Pick(results.list[i])

Enter ==
  /\ open
  /\ IF highlight + 1 \in DOMAIN results.list
       THEN Pick(results.list[highlight + 1])
       ELSE query # Empty /\ Pick(query)

\* LOOKUP_EVENT: a row of the page behind, when no layer covers it.
OpenStockLookup ==
  /\ ~open /\ detailSymbol = None
  /\ \E s \in Symbols : Pick(s)

Escape ==
  /\ IsUp(open, detailSymbol)
  /\ IF detailSymbol # None
       THEN /\ Layers(open, None)
            /\ Chart(None, chartRange, chart) /\ News(None, news)
            /\ Cleared
            /\ UNCHANGED searchVars
       ELSE /\ Layers(FALSE, detailSymbol)
            /\ Suggest(query, FALSE, results)
            /\ UNCHANGED <<highlight, detail, error, chartVars, newsVars>>
  /\ UNCHANGED <<loading, lookups, overlapped, mobile, addVars>>
  /\ KeepsGroup(1)

\* A click beside the search layer.
ClickAway ==
  /\ open /\ detailSymbol = None
  /\ Layers(FALSE, None) /\ Suggest(query, FALSE, results)
  /\ UNCHANGED <<highlight, figureVars, bodyVars, chartVars, newsVars, addVars>>

CloseAll ==
  /\ detailSymbol # None
  /\ Layers(FALSE, None)
  /\ Suggest(Empty, FALSE, NoSuggestions) /\ UNCHANGED highlight
  /\ Chart(None, chartRange, None) /\ News(None, None)
  /\ Cleared /\ loading' = FALSE /\ addError' = FALSE
  /\ UNCHANGED <<lookups, overlapped, mobile, tracked, addReq, cache>>
  /\ KeepsGroup(1)

SelectRange ==
  /\ Body = "detail"
  /\ \E r \in Ranges : Chart(detailSymbol, r, chart)
  /\ UNCHANGED <<layerVars, searchVars, figureVars, bodyVars, newsVars, addVars>>

SelectGroup ==
  /\ Body = "detail" /\ mobile
  /\ group' \in DOMAIN MobileGroups(detail)
  /\ UNCHANGED <<layerVars, searchVars, figureVars, mobile, chartVars, newsVars, addVars>>

\* useIsMobile: the window is turned or resized.
Rotate ==
  /\ mobile' = ~mobile
  /\ UNCHANGED <<layerVars, searchVars, figureVars, chartVars, newsVars, addVars>>
  /\ KeepsGroup(group)

AddToWatchlist ==
  /\ detailSymbol # None /\ ~tracked /\ addReq = None
  /\ addReq' = detailSymbol /\ addError' = FALSE
  /\ UNCHANGED <<layerVars, searchVars, figureVars, bodyVars, chartVars, newsVars, tracked, cache>>

User ==
  \/ CtrlSpace \/ Type \/ Arrow \/ PickSuggestion \/ Enter \/ OpenStockLookup \/ Escape
  \/ ClickAway \/ CloseAll \/ SelectRange \/ SelectGroup \/ Rotate \/ AddToWatchlist

-----------------------------------------------------------------------------
(* Timers and answers.                                                      *)

SearchSent ==
  /\ search # None /\ ~search.sent
  /\ search' = [search EXCEPT !.sent = TRUE]
  /\ UNCHANGED <<layerVars, query, results, highlight, dropped, figureVars, bodyVars, chartVars,
                 newsVars, addVars>>

\* A failed search leaves the suggestions as they are.
SearchAnswered ==
  /\ search # None /\ search.sent
  /\ search' = None
  /\ \/ /\ \E list \in Suggestible :
             results' = [of |-> search.of, list |-> list]
        /\ highlight' = 0 /\ UNCHANGED dropped
     \/ dropped' = TRUE /\ UNCHANGED <<results, highlight>>
  /\ UNCHANGED <<layerVars, query, figureVars, bodyVars, chartVars, newsVars, addVars>>

TickerAnswered_Silent(s) ==
  /\ lookups[s] > 0
  /\ lookups' = [lookups EXCEPT ![s] = @ - 1]
  /\ loading' = FALSE
  /\ detail' \in {s, detail} /\ UNCHANGED error
  /\ UNCHANGED <<layerVars, searchVars, overlapped, mobile, chartVars, newsVars, addVars>>
  /\ KeepsGroup(group)

TickerAnswered(s) ==
  /\ lookups[s] > 0
  /\ lookups' = [lookups EXCEPT ![s] = @ - 1]
  /\ loading' = FALSE
  /\ \/ detail' = s /\ UNCHANGED error
     \/ error' = s /\ UNCHANGED detail
  /\ UNCHANGED <<layerVars, searchVars, overlapped, mobile, chartVars, newsVars, addVars>>
  /\ KeepsGroup(group)

ChartAnswered ==
  /\ chartReq # None
  /\ chart' \in {chartReq, Failed} /\ chartReq' = None
  /\ UNCHANGED <<layerVars, searchVars, figureVars, bodyVars, chartRange, newsVars, addVars>>

NewsAnswered ==
  /\ newsReq # None
  /\ news' \in {newsReq, Failed} /\ newsReq' = None
  /\ UNCHANGED <<layerVars, searchVars, figureVars, bodyVars, chartVars, addVars>>

\* The answer of an add sets the flag, or the error, of the symbol shown by then.
AddAnswered ==
  /\ addReq # None /\ addReq' = None
  /\ \/ tracked' = TRUE /\ cache' = cache \cup {addReq} /\ UNCHANGED addError
     \/ addError' = TRUE /\ UNCHANGED <<tracked, cache>>
  /\ UNCHANGED <<layerVars, searchVars, figureVars, bodyVars, chartVars, newsVars>>

LookupNext ==
  \/ User
  \/ SearchSent \/ SearchAnswered \/ ChartAnswered \/ NewsAnswered \/ AddAnswered
  \/ \E s \in Symbols : TickerAnswered(s)

LookupSpec == LookupInit /\ [][LookupNext]_lookupVars

-----------------------------------------------------------------------------
(* Properties.                                                              *)

\* The figures or the error under the header are those of the symbol in the header
\* (StockLookup.tsx 939-957), unless it was picked while another lookup was under
\* way: nothing a closed modal left behind shows up in the next.
ShownIsItsSymbol ==
  detailSymbol # None /\ ~overlapped => {detail, error} \subseteq {detailSymbol, None}

\* The candles and the headlines are those of the symbol, and of the range selected
\* (StockLookup.tsx 874-901), however fast the symbol and the range change.
ChartIsItsSymbols ==
  detailSymbol # None
  => /\ chart \in {[of |-> detailSymbol, range |-> chartRange], Failed, None}
     /\ news \in {detailSymbol, Failed, None}

\* The detail layer always has something to show: a lookup under way, what it
\* found, or why it failed (StockLookup.tsx 1155-1222), whatever is answered late.
NeverBlank == Body # "blank"

\* The narrow body shows a group that the wide one shows for the stock whose figures
\* they are (StockLookup.tsx 499-502), also when a late answer puts a stock in the
\* place of the fund whose holdings were open.
GroupExists ==
  Body = "detail" /\ mobile
  => /\ ActiveGroup(detail) \in DOMAIN MobileGroups(detail)
     /\ MobileGroups(detail)[ActiveGroup(detail)] \in DetailBody(detail)

\* When no search is pending the suggestions Enter would open are those of the
\* query (StockLookup.tsx 839-860), unless its search failed.
SuggestionsFit == search = None /\ ~dropped => results.of \in {query, Empty}
=============================================================================
