--------------------------- MODULE StockLookupProofs ---------------------------
(***************************************************************************)
(* Theorems about StockLookup, for all symbols, funds and ranges and any   *)
(* number of lookups under way.                                            *)
(***************************************************************************)
EXTENDS StockLookup, TLAPS

\* The request in flight is for what is selected, and for nothing when nothing is.
RequestsFit ==
  /\ chartReq # None => detailSymbol # None /\ chartReq = [of |-> detailSymbol, range |-> chartRange]
  /\ newsReq # None => detailSymbol # None /\ newsReq = detailSymbol

ChartInv == RequestsFit /\ ChartIsItsSymbols

\* Unless symbols overlapped, only the figures of the one shown are on the way.
FigureInv ==
  /\ ShownIsItsSymbol
  /\ detailSymbol # None /\ ~overlapped => \A s \in Symbols : lookups[s] > 0 => s = detailSymbol

\* A search under way is for the query as it stands.
SearchInv ==
  /\ search # None => search.of = query
  /\ SuggestionsFit

-----------------------------------------------------------------------------
(* Types.                                                                   *)

LEMMA SuggestibleSymbols ==
  ASSUME NEW list \in Suggestible
  PROVE  /\ Len(list) \in 0..2 /\ DOMAIN list = 1..Len(list)
         /\ \A i \in DOMAIN list : list[i] \in Symbols
<1>1. CASE list = <<>>
  BY <1>1
<1>2. CASE \E s \in Symbols : list = <<s>>
  BY <1>2
<1>3. CASE list \in Symbols \X Symbols
  <2>1. PICK s \in Symbols, t \in Symbols : list = <<s, t>>
    BY <1>3
  <2> QED BY <2>1
<1> QED BY <1>1, <1>2, <1>3 DEF Suggestible

LEMMA NoSuggestionsType == NoSuggestions \in Suggestions
BY DEF NoSuggestions, Suggestions, Suggestible, Texts

LEMMA GroupsCounted ==
  ASSUME NEW s
  PROVE  Len(MobileGroups(s)) = IF s \in Funds THEN 6 ELSE 5
BY DEF MobileGroups

LEMMA LayersType ==
  ASSUME LookupTypeOK, NEW o \in BOOLEAN, NEW s \in Symbols \cup {None}, Layers(o, s)
  PROVE  /\ open' \in BOOLEAN /\ detailSymbol' \in Symbols \cup {None}
         /\ {overflow', savedOverflow'} \subseteq {Empty, "hidden"}
BY DEF Layers, LookupTypeOK

LEMMA SuggestType ==
  ASSUME LookupTypeOK, NEW q \in Texts, NEW o \in BOOLEAN, NEW r \in Suggestions, Suggest(q, o, r)
  PROVE  /\ query' \in Texts /\ results' \in Suggestions /\ dropped' \in BOOLEAN
         /\ search' \in [of : Symbols, sent : BOOLEAN] \cup {None}
<1>1. CASE q = query /\ o = open
  BY <1>1 DEF Suggest, LookupTypeOK
<1>2. CASE ~(q = query /\ o = open) /\ o /\ q # Empty
  <2>1. q \in Symbols
    BY <1>2 DEF Texts
  <2>2. query' = q /\ results' = r /\ search' = [of |-> q, sent |-> FALSE] /\ dropped' = FALSE
    BY <1>2 DEF Suggest
  <2> QED BY <2>1, <2>2
<1>3. CASE ~(q = query /\ o = open) /\ ~(o /\ q # Empty)
  BY <1>3, NoSuggestionsType DEF Suggest
<1> QED BY <1>1, <1>2, <1>3

ChartTypes == [of : Symbols, range : Ranges] \cup {Failed, None}

LEMMA ChartType ==
  ASSUME LookupTypeOK, NEW s \in Symbols \cup {None}, NEW range \in Ranges, NEW c \in ChartTypes,
         Chart(s, range, c)
  PROVE  /\ chartRange' \in Ranges /\ chart' \in ChartTypes
         /\ chartReq' \in [of : Symbols, range : Ranges] \cup {None}
BY DEF Chart, LookupTypeOK, ChartTypes

LEMMA NewsType ==
  ASSUME LookupTypeOK, NEW s \in Symbols \cup {None}, NEW n \in Symbols \cup {Failed, None}, News(s, n)
  PROVE  news' \in Symbols \cup {Failed, None} /\ newsReq' \in Symbols \cup {None}
BY DEF News, LookupTypeOK

LEMMA PickType ==
  ASSUME LookupTypeOK, NEW s \in Symbols, Pick(s)
  PROVE  LookupTypeOK'
<1>1. /\ open' \in BOOLEAN /\ detailSymbol' \in Symbols \cup {None}
      /\ {overflow', savedOverflow'} \subseteq {Empty, "hidden"}
  BY LayersType DEF Pick
<1>2. query \in Texts /\ "1Y" \in Ranges /\ chart \in ChartTypes /\ news \in Symbols \cup {Failed, None}
  BY LookupConstants DEF LookupTypeOK, ChartTypes, LookupConstants
<1>3. /\ query' \in Texts /\ results' \in Suggestions /\ dropped' \in BOOLEAN
      /\ search' \in [of : Symbols, sent : BOOLEAN] \cup {None}
  BY <1>2, SuggestType, NoSuggestionsType DEF Pick
<1>4. /\ chartRange' \in Ranges /\ chart' \in ChartTypes
      /\ chartReq' \in [of : Symbols, range : Ranges] \cup {None}
  BY <1>2, ChartType DEF Pick
<1>5. news' \in Symbols \cup {Failed, None} /\ newsReq' \in Symbols \cup {None}
  BY <1>2, NewsType DEF Pick
<1>6. lookups' \in [Symbols -> Nat]
  BY DEF Pick, LookupTypeOK
<1>7. overlapped' \in BOOLEAN /\ tracked' \in BOOLEAN
  BY DEF Pick
<1>8. group' \in 1..6
  BY DEF Pick, KeepsGroup
<1> QED BY <1>1, <1>3, <1>4, <1>5, <1>6, <1>7, <1>8
       DEF Pick, Cleared, LookupTypeOK, ChartTypes

LEMMA TypeStep == LookupTypeOK /\ [LookupNext]_lookupVars => LookupTypeOK'
<1> SUFFICES ASSUME LookupTypeOK, [LookupNext]_lookupVars
             PROVE  LookupTypeOK'
  OBVIOUS
<1>0. /\ query \in Texts /\ results \in Suggestions /\ chartRange \in Ranges /\ chart \in ChartTypes
      /\ news \in Symbols \cup {Failed, None} /\ NoSuggestions \in Suggestions /\ group \in 1..6
      /\ None \in ChartTypes
  BY NoSuggestionsType DEF LookupTypeOK, ChartTypes
<1> USE DEF layerVars, searchVars, figureVars, bodyVars, chartVars, newsVars, addVars, lookupVars
<1>1. CASE CtrlSpace
  <2>1. /\ open' \in BOOLEAN /\ detailSymbol' \in Symbols \cup {None}
        /\ {overflow', savedOverflow'} \subseteq {Empty, "hidden"}
    BY <1>1, LayersType DEF CtrlSpace
  <2>2. /\ query' \in Texts /\ results' \in Suggestions /\ dropped' \in BOOLEAN
        /\ search' \in [of : Symbols, sent : BOOLEAN] \cup {None}
    BY <1>0, <1>1, SuggestType DEF CtrlSpace
  <2>3. /\ chartRange' \in Ranges /\ chart' \in ChartTypes
        /\ chartReq' \in [of : Symbols, range : Ranges] \cup {None}
    BY <1>0, <1>1, ChartType DEF CtrlSpace
  <2>4. news' \in Symbols \cup {Failed, None} /\ newsReq' \in Symbols \cup {None}
    BY <1>0, <1>1, NewsType DEF CtrlSpace
  <2>5. group' \in 1..6
    BY <1>1 DEF CtrlSpace, KeepsGroup
  <2> QED BY <1>1, <2>1, <2>2, <2>3, <2>4, <2>5 DEF CtrlSpace, LookupTypeOK, ChartTypes
<1>2. CASE Type
  <2>1. /\ query' \in Texts /\ results' \in Suggestions /\ dropped' \in BOOLEAN
        /\ search' \in [of : Symbols, sent : BOOLEAN] \cup {None}
    BY <1>0, <1>2, SuggestType DEF Type, LookupTypeOK
  <2> QED BY <1>2, <2>1 DEF Type, LookupTypeOK
<1>3. CASE Arrow
  <2>1. Len(results.list) \in 0..2
    BY <1>0, SuggestibleSymbols DEF Suggestions
  <2>2. highlight \in Int /\ highlight \in -1..1
    BY DEF LookupTypeOK
  <2>3. highlight' \in -1..1
    <3> DEFINE last == Len(results.list) - 1
    <3>1. last \in -1..1
      BY <2>1
    <3>2. \/ highlight' = IF highlight + 1 < last THEN highlight + 1 ELSE last
          \/ highlight' = IF highlight > 0 THEN highlight - 1 ELSE 0
          \/ highlight' \in 0..last
      BY <1>3 DEF Arrow
    <3> HIDE DEF last
    <3> QED BY <2>2, <3>1, <3>2
  <2> QED BY <1>3, <2>3 DEF Arrow, LookupTypeOK
<1>4. CASE PickSuggestion
  <2>1. \A i \in DOMAIN results.list : results.list[i] \in Symbols
    BY <1>0, SuggestibleSymbols DEF Suggestions
  <2> QED BY <1>4, <2>1, PickType DEF PickSuggestion
<1>5. CASE Enter
  <2>1. \A i \in DOMAIN results.list : results.list[i] \in Symbols
    BY <1>0, SuggestibleSymbols DEF Suggestions
  <2>2. query # Empty => query \in Symbols
    BY <1>0 DEF Texts
  <2> QED BY <1>5, <2>1, <2>2, PickType DEF Enter
<1>6. CASE OpenStockLookup
  BY <1>6, PickType DEF OpenStockLookup
<1>7. CASE Escape
  <2>1. group' \in 1..6
    BY <1>7 DEF Escape, KeepsGroup
  <2>2. CASE detailSymbol # None
    <3>1. /\ open' \in BOOLEAN /\ detailSymbol' \in Symbols \cup {None}
          /\ {overflow', savedOverflow'} \subseteq {Empty, "hidden"}
      BY <1>7, <2>2, LayersType DEF Escape, LookupTypeOK
    <3>2. /\ chartRange' \in Ranges /\ chart' \in ChartTypes
          /\ chartReq' \in [of : Symbols, range : Ranges] \cup {None}
      BY <1>0, <1>7, <2>2, ChartType DEF Escape
    <3>3. news' \in Symbols \cup {Failed, None} /\ newsReq' \in Symbols \cup {None}
      BY <1>0, <1>7, <2>2, NewsType DEF Escape
    <3> QED BY <1>7, <2>1, <2>2, <3>1, <3>2, <3>3 DEF Escape, Cleared, LookupTypeOK, ChartTypes
  <2>3. CASE detailSymbol = None
    <3>1. /\ open' \in BOOLEAN /\ detailSymbol' \in Symbols \cup {None}
          /\ {overflow', savedOverflow'} \subseteq {Empty, "hidden"}
      BY <1>7, <2>3, LayersType DEF Escape, LookupTypeOK
    <3>2. /\ query' \in Texts /\ results' \in Suggestions /\ dropped' \in BOOLEAN
          /\ search' \in [of : Symbols, sent : BOOLEAN] \cup {None}
      BY <1>0, <1>7, <2>3, SuggestType DEF Escape
    <3> QED BY <1>7, <2>1, <2>3, <3>1, <3>2 DEF Escape, LookupTypeOK
  <2> QED BY <2>2, <2>3
<1>8. CASE ClickAway
  <2>1. /\ open' \in BOOLEAN /\ detailSymbol' \in Symbols \cup {None}
        /\ {overflow', savedOverflow'} \subseteq {Empty, "hidden"}
    BY <1>8, LayersType DEF ClickAway
  <2>2. /\ query' \in Texts /\ results' \in Suggestions /\ dropped' \in BOOLEAN
        /\ search' \in [of : Symbols, sent : BOOLEAN] \cup {None}
    BY <1>0, <1>8, SuggestType DEF ClickAway
  <2> QED BY <1>8, <2>1, <2>2 DEF ClickAway, LookupTypeOK
<1>9. CASE CloseAll
  <2>1. /\ open' \in BOOLEAN /\ detailSymbol' \in Symbols \cup {None}
        /\ {overflow', savedOverflow'} \subseteq {Empty, "hidden"}
    BY <1>9, LayersType DEF CloseAll
  <2>2. /\ query' \in Texts /\ results' \in Suggestions /\ dropped' \in BOOLEAN
        /\ search' \in [of : Symbols, sent : BOOLEAN] \cup {None}
    BY <1>0, <1>9, SuggestType DEF CloseAll, Texts
  <2>3. /\ chartRange' \in Ranges /\ chart' \in ChartTypes
        /\ chartReq' \in [of : Symbols, range : Ranges] \cup {None}
    BY <1>0, <1>9, ChartType DEF CloseAll
  <2>4. news' \in Symbols \cup {Failed, None} /\ newsReq' \in Symbols \cup {None}
    BY <1>9, NewsType DEF CloseAll
  <2>5. group' \in 1..6
    BY <1>9 DEF CloseAll, KeepsGroup
  <2> QED BY <1>9, <2>1, <2>2, <2>3, <2>4, <2>5 DEF CloseAll, Cleared, LookupTypeOK, ChartTypes
<1>10. CASE SelectRange
  <2>1. /\ chartRange' \in Ranges /\ chart' \in ChartTypes
        /\ chartReq' \in [of : Symbols, range : Ranges] \cup {None}
    BY <1>0, <1>10, ChartType DEF SelectRange, LookupTypeOK
  <2> QED BY <1>10, <2>1 DEF SelectRange, LookupTypeOK, ChartTypes
<1>11. CASE SelectGroup
  <2>1. group' \in 1..6
    BY <1>11, GroupsCounted DEF SelectGroup, MobileGroups
  <2> QED BY <1>11, <2>1 DEF SelectGroup, LookupTypeOK
<1>12. CASE Rotate
  <2>1. group' \in 1..6
    BY <1>0, <1>12 DEF Rotate, KeepsGroup
  <2> QED BY <1>12, <2>1 DEF Rotate, LookupTypeOK
<1>13. CASE AddToWatchlist
  BY <1>13 DEF AddToWatchlist, LookupTypeOK
<1>14. CASE SearchSent
  <2>1. search' \in [of : Symbols, sent : BOOLEAN]
    BY <1>14 DEF SearchSent, LookupTypeOK
  <2> QED BY <1>14, <2>1 DEF SearchSent, LookupTypeOK
<1>15. CASE SearchAnswered
  <2>1. search.of \in Texts
    BY <1>15 DEF SearchAnswered, LookupTypeOK, Texts
  <2>2. results' \in Suggestions
    BY <1>0, <1>15, <2>1 DEF SearchAnswered, Suggestions
  <2>3. highlight' \in -1..1 /\ search' = None
    BY <1>15 DEF SearchAnswered, LookupTypeOK
  <2>4. dropped' = dropped \/ dropped' = TRUE
    BY <1>15 DEF SearchAnswered
  <2>5. dropped' \in BOOLEAN
    BY <2>4 DEF LookupTypeOK
  <2> QED BY <1>15, <2>2, <2>3, <2>5 DEF SearchAnswered, LookupTypeOK
<1>16. CASE ChartAnswered
  BY <1>16 DEF ChartAnswered, LookupTypeOK
<1>17. CASE NewsAnswered
  BY <1>17 DEF NewsAnswered, LookupTypeOK
<1>18. CASE AddAnswered
  BY <1>18 DEF AddAnswered, LookupTypeOK
<1>19. ASSUME NEW s \in Symbols, TickerAnswered(s)
       PROVE  LookupTypeOK'
  <2>1. lookups' \in [Symbols -> Nat]
    BY <1>19 DEF TickerAnswered, LookupTypeOK
  <2>2. group' \in 1..6
    BY <1>0, <1>19 DEF TickerAnswered, KeepsGroup
  <2> QED BY <1>19, <2>1, <2>2 DEF TickerAnswered, LookupTypeOK
<1>20. CASE UNCHANGED lookupVars
  BY <1>20 DEF LookupTypeOK
<1> QED BY <1>1, <1>2, <1>3, <1>4, <1>5, <1>6, <1>7, <1>8, <1>9, <1>10, <1>11, <1>12, <1>13, <1>14,
           <1>15, <1>16, <1>17, <1>18, <1>19, <1>20 DEF LookupNext, User

(* The type invariant of the modal, for any number of lookups under way.    *)
THEOREM LookupTypeCorrect == LookupSpec => []LookupTypeOK
<1>1. LookupInit => LookupTypeOK
  <2> SUFFICES ASSUME LookupInit
               PROVE  LookupTypeOK
    OBVIOUS
  <2>1. results \in Suggestions /\ query \in Texts /\ chartRange \in Ranges
    BY NoSuggestionsType, LookupConstants DEF LookupInit, LookupConstants, Texts
  <2>2. lookups \in [Symbols -> Nat] /\ cache \subseteq Symbols
    BY DEF LookupInit
  <2>3. /\ {open, loading, tracked, addError, overlapped, dropped} \subseteq BOOLEAN
        /\ mobile \in BOOLEAN
    BY DEF LookupInit
  <2> QED BY <2>1, <2>2, <2>3 DEF LookupInit, LookupTypeOK
<1> QED BY <1>1, TypeStep, PTL DEF LookupSpec

-----------------------------------------------------------------------------
(* The chart and the news.                                                  *)

LEMMA ChartKept ==
  ASSUME ChartInv, NEW s, NEW range, NEW c \in {chart, None}, Chart(s, range, c), detailSymbol' = s
  PROVE  /\ (chartReq # None
             => detailSymbol # None /\ chartReq = [of |-> detailSymbol, range |-> chartRange])'
         /\ (detailSymbol # None
             => chart \in {[of |-> detailSymbol, range |-> chartRange], Failed, None})'
BY DEF ChartInv, RequestsFit, ChartIsItsSymbols, Chart

LEMMA NewsKept ==
  ASSUME ChartInv, NEW s, NEW n \in {news, None}, News(s, n), detailSymbol' = s
  PROVE  /\ (newsReq # None => detailSymbol # None /\ newsReq = detailSymbol)'
         /\ (detailSymbol # None => news \in {detailSymbol, Failed, None})'
BY DEF ChartInv, RequestsFit, ChartIsItsSymbols, News

LEMMA ChartStep == ChartInv /\ [LookupNext]_lookupVars => ChartInv'
<1> SUFFICES ASSUME ChartInv, [LookupNext]_lookupVars
             PROVE  ChartInv'
  OBVIOUS
<1> USE DEF layerVars, searchVars, figureVars, bodyVars, chartVars, newsVars, addVars, lookupVars
<1>1. ASSUME UNCHANGED <<detailSymbol, chartVars, newsVars>>
      PROVE  ChartInv'
  BY <1>1 DEF ChartInv, RequestsFit, ChartIsItsSymbols
<1>2. ASSUME NEW s, NEW range, NEW c \in {chart, None}, NEW n \in {news, None},
             Chart(s, range, c), News(s, n), detailSymbol' = s
      PROVE  ChartInv'
  BY <1>2, ChartKept, NewsKept DEF ChartInv, RequestsFit, ChartIsItsSymbols
<1>3. ASSUME NEW s, Pick(s)
      PROVE  ChartInv'
  BY <1>2, <1>3 DEF Pick, Layers
<1>4. CASE CtrlSpace
  BY <1>2, <1>4 DEF CtrlSpace, Layers
<1>5. CASE Escape
  <2>1. CASE detailSymbol # None
    BY <1>2, <1>5, <2>1 DEF Escape, Layers
  <2>2. CASE detailSymbol = None
    BY <1>1, <1>5, <2>2 DEF Escape, Layers
  <2> QED BY <2>1, <2>2
<1>6. CASE CloseAll
  BY <1>2, <1>6 DEF CloseAll, Layers
<1>7. CASE SelectRange
  <2>1. PICK r \in Ranges : Chart(detailSymbol, r, chart)
    BY <1>7 DEF SelectRange
  <2>2. UNCHANGED <<detailSymbol, newsVars>>
    BY <1>7 DEF SelectRange
  <2> QED BY <2>1, <2>2, ChartKept DEF ChartInv, RequestsFit, ChartIsItsSymbols
<1>8. CASE ChartAnswered
  BY <1>8 DEF ChartAnswered, ChartInv, RequestsFit, ChartIsItsSymbols
<1>9. CASE NewsAnswered
  BY <1>9 DEF NewsAnswered, ChartInv, RequestsFit, ChartIsItsSymbols
<1>10. CASE Type \/ Arrow \/ SelectGroup \/ Rotate \/ AddToWatchlist
  BY <1>1, <1>10 DEF Type, Arrow, SelectGroup, Rotate, AddToWatchlist
<1>11. CASE ClickAway
  BY <1>1, <1>11 DEF ClickAway, Layers
<1>12. CASE SearchSent \/ SearchAnswered \/ AddAnswered \/ UNCHANGED lookupVars
  BY <1>1, <1>12 DEF SearchSent, SearchAnswered, AddAnswered
<1>13. ASSUME NEW s \in Symbols, TickerAnswered(s)
       PROVE  ChartInv'
  BY <1>1, <1>13 DEF TickerAnswered
<1>14. CASE PickSuggestion \/ Enter \/ OpenStockLookup
  BY <1>3, <1>14 DEF PickSuggestion, Enter, OpenStockLookup
<1> QED BY <1>4, <1>5, <1>6, <1>7, <1>8, <1>9, <1>10, <1>11, <1>12, <1>13, <1>14
        DEF LookupNext, User

(* However fast the symbol and the range change, the candles and the        *)
(* headlines are those of what is selected: a request that is not for it    *)
(* has been aborted.                                                        *)
THEOREM ChartAlwaysItsSymbols == LookupSpec => []ChartIsItsSymbols
<1>1. LookupInit => ChartInv
  BY DEF LookupInit, ChartInv, RequestsFit, ChartIsItsSymbols
<1>2. ChartInv => ChartIsItsSymbols
  BY DEF ChartInv
<1> QED BY <1>1, <1>2, ChartStep, PTL DEF LookupSpec

-----------------------------------------------------------------------------
(* The figures.                                                             *)

\* What the body shows, without the words: something, or no modal.
LEMMA BlankMeans ==
  NeverBlank <=> (detailSymbol # None /\ ~loading /\ error = None => detail # None)
BY DEF NeverBlank, Body

FiguresShown == detailSymbol # None /\ ~loading /\ error = None => detail # None

LEMMA FigureStep ==
  LookupTypeOK /\ FigureInv /\ FiguresShown /\ [LookupNext]_lookupVars
    => FigureInv' /\ FiguresShown'
<1> SUFFICES ASSUME LookupTypeOK, FigureInv, FiguresShown, [LookupNext]_lookupVars
             PROVE  FigureInv' /\ FiguresShown'
  OBVIOUS
<1> USE DEF layerVars, searchVars, figureVars, bodyVars, chartVars, newsVars, addVars, lookupVars,
            FigureInv, FiguresShown, ShownIsItsSymbol
<1>1. ASSUME UNCHANGED <<detailSymbol, figureVars>>
      PROVE  FigureInv' /\ FiguresShown'
  BY <1>1
<1>2. ASSUME detailSymbol' = None
      PROVE  FigureInv' /\ FiguresShown'
  BY <1>2
<1>3. ASSUME NEW s \in Symbols, Pick(s)
      PROVE  FigureInv' /\ FiguresShown'
  <2>1. /\ detailSymbol' = s /\ detail' = None /\ error' = None /\ loading'
        /\ lookups' = [lookups EXCEPT ![s] = @ + 1]
        /\ overlapped' = (\E t \in Symbols : lookups[t] > 0)
    BY <1>3 DEF Pick, Layers, Cleared
  <2>2. ASSUME ~overlapped', NEW t \in Symbols, lookups'[t] > 0
        PROVE  t = s
    BY <2>1, <2>2 DEF LookupTypeOK
  <2> QED BY <2>1, <2>2
<1>4. CASE CtrlSpace \/ CloseAll
  BY <1>2, <1>4 DEF CtrlSpace, CloseAll, Layers
<1>5. CASE Escape
  <2>1. CASE detailSymbol # None
    BY <1>2, <1>5, <2>1 DEF Escape, Layers
  <2>2. CASE detailSymbol = None
    BY <1>2, <1>5, <2>2 DEF Escape, Layers
  <2> QED BY <2>1, <2>2
<1>6. ASSUME NEW s \in Symbols, TickerAnswered(s)
      PROVE  FigureInv' /\ FiguresShown'
  <2>1. /\ lookups[s] > 0 /\ lookups' = [lookups EXCEPT ![s] = @ - 1]
        /\ UNCHANGED <<detailSymbol, overlapped>>
    BY <1>6 DEF TickerAnswered
  <2>2. \/ detail' = s /\ error' = error
        \/ error' = s /\ detail' = detail
    BY <1>6 DEF TickerAnswered
  <2>3. \A t \in Symbols : lookups'[t] > 0 => lookups[t] > 0
    BY <2>1 DEF LookupTypeOK
  <2>4. s # None
    BY LookupConstants DEF LookupConstants
  <2> QED BY <2>1, <2>2, <2>3, <2>4
<1>7. CASE Type \/ Arrow \/ SelectRange \/ SelectGroup \/ Rotate \/ AddToWatchlist
  BY <1>1, <1>7 DEF Type, Arrow, SelectRange, SelectGroup, Rotate, AddToWatchlist
<1>8. CASE ClickAway
  BY <1>1, <1>8 DEF ClickAway, Layers
<1>9. CASE SearchSent \/ SearchAnswered \/ ChartAnswered \/ NewsAnswered \/ AddAnswered
           \/ UNCHANGED lookupVars
  BY <1>1, <1>9 DEF SearchSent, SearchAnswered, ChartAnswered, NewsAnswered, AddAnswered
<1>10. CASE PickSuggestion \/ Enter \/ OpenStockLookup
  <2>1. \A i \in DOMAIN results.list : results.list[i] \in Symbols
    BY SuggestibleSymbols DEF Suggestions, LookupTypeOK
  <2>2. query # Empty => query \in Symbols
    BY DEF Texts, LookupTypeOK
  <2> QED BY <1>3, <1>10, <2>1, <2>2 DEF PickSuggestion, Enter, OpenStockLookup
<1> QED BY <1>4, <1>5, <1>6, <1>7, <1>8, <1>9, <1>10 DEF LookupNext, User

LEMMA FiguresAlways == LookupSpec => [](FigureInv /\ FiguresShown)
<1>1. LookupInit => FigureInv /\ FiguresShown
  BY DEF LookupInit, FigureInv, FiguresShown, ShownIsItsSymbol
<1> QED BY <1>1, FigureStep, LookupTypeCorrect, PTL DEF LookupSpec

(* No late answer puts the figures of one symbol under the header of        *)
(* another, unless the user picked it over a lookup under way.              *)
THEOREM ShownAlwaysItsSymbol == LookupSpec => []ShownIsItsSymbol
<1>1. FigureInv => ShownIsItsSymbol
  BY DEF FigureInv
<1> QED BY <1>1, FiguresAlways, PTL

(* The detail layer is never blank, whatever is answered late or fails.     *)
THEOREM LayerNeverBlank == LookupSpec => []NeverBlank
<1>1. FiguresShown => NeverBlank
  BY BlankMeans DEF FiguresShown
<1> QED BY <1>1, FiguresAlways, PTL

(* Whatever group was open, the narrow body shows one the wide body has.    *)
THEOREM GroupAlwaysExists == LookupSpec => []GroupExists
<1>1. ASSUME NEW s
      PROVE  \A i \in 1..Len(MobileGroups(s)) : MobileGroups(s)[i] \in DetailBody(s)
  BY DEF MobileGroups, DetailBody
<1>2. LookupTypeOK => GroupExists
  <2> SUFFICES ASSUME LookupTypeOK
               PROVE  GroupExists
    OBVIOUS
  <2>1. group \in Nat \ {0}
    BY DEF LookupTypeOK
  <2>2. /\ DOMAIN MobileGroups(detail) = 1..Len(MobileGroups(detail))
        /\ Len(MobileGroups(detail)) \in {5, 6}
    BY GroupsCounted DEF MobileGroups
  <2>3. ActiveGroup(detail) \in 1..Len(MobileGroups(detail))
    BY <2>1, <2>2 DEF ActiveGroup
  <2> QED BY <1>1, <2>2, <2>3 DEF GroupExists
<1> QED BY <1>2, LookupTypeCorrect, PTL

-----------------------------------------------------------------------------
(* The suggestions.                                                         *)

LEMMA SuggestKept ==
  ASSUME SearchInv, NEW q \in Texts, NEW r \in {results, NoSuggestions}, Suggest(q, open', r),
         search' \in [of : Symbols, sent : BOOLEAN] \cup {None}
  PROVE  SearchInv'
<1>1. CASE q = query /\ open' = open
  BY <1>1 DEF SearchInv, SuggestionsFit, Suggest, NoSuggestions
<1>2. CASE ~(q = query /\ open' = open) /\ open' /\ q # Empty
  <2>1. query' = q /\ search' = [of |-> q, sent |-> FALSE]
    BY <1>2 DEF Suggest
  <2>2. search'.of = query'
    BY <2>1
  <2>3. q \in Symbols
    BY <1>2 DEF Texts
  <2>4. search' \in [of : Symbols, sent : BOOLEAN]
    BY <2>1, <2>3
  <2>5. search' # None
    BY <2>4, LookupNoRecord DEF LookupNoRecord
  <2> QED BY <2>2, <2>5 DEF SearchInv, SuggestionsFit
<1>3. CASE ~(q = query /\ open' = open) /\ ~(open' /\ q # Empty)
  BY <1>3 DEF SearchInv, SuggestionsFit, Suggest, NoSuggestions
<1> QED BY <1>1, <1>2, <1>3

LEMMA SearchStep ==
  LookupTypeOK /\ LookupTypeOK' /\ SearchInv /\ [LookupNext]_lookupVars => SearchInv'
<1> SUFFICES ASSUME LookupTypeOK, LookupTypeOK', SearchInv, [LookupNext]_lookupVars
             PROVE  SearchInv'
  OBVIOUS
<1>0. /\ search' \in [of : Symbols, sent : BOOLEAN] \cup {None}
      /\ query \in Texts /\ query' \in Texts /\ Empty \in Texts
  BY DEF LookupTypeOK, Texts
<1> USE DEF layerVars, searchVars, figureVars, bodyVars, chartVars, newsVars, addVars, lookupVars
<1>1. ASSUME UNCHANGED <<query, results, search, dropped>>
      PROVE  SearchInv'
  BY <1>1 DEF SearchInv, SuggestionsFit
<1>2. ASSUME NEW s, Pick(s)
      PROVE  SearchInv'
  BY <1>2, <1>0, SuggestKept DEF Pick, Layers
<1>3. CASE CtrlSpace \/ CloseAll \/ ClickAway
  BY <1>3, <1>0, SuggestKept DEF CtrlSpace, CloseAll, ClickAway, Layers
<1>4. CASE Escape
  <2>1. CASE detailSymbol # None
    BY <1>1, <1>4, <2>1 DEF Escape
  <2>2. CASE detailSymbol = None
    BY <1>4, <2>2, <1>0, SuggestKept DEF Escape, Layers
  <2> QED BY <2>1, <2>2
<1>5. CASE Type
  BY <1>5, <1>0, SuggestKept DEF Type
<1>6. CASE SearchSent
  BY <1>6, LookupNoRecord DEF SearchSent, SearchInv, SuggestionsFit, LookupTypeOK
<1>7. CASE SearchAnswered
  BY <1>7 DEF SearchAnswered, SearchInv, SuggestionsFit
<1>8. CASE Arrow \/ SelectRange \/ SelectGroup \/ Rotate \/ AddToWatchlist
           \/ ChartAnswered \/ NewsAnswered \/ AddAnswered \/ UNCHANGED lookupVars
  BY <1>1, <1>8 DEF Arrow, SelectRange, SelectGroup, Rotate, AddToWatchlist,
                    ChartAnswered, NewsAnswered, AddAnswered
<1>9. ASSUME NEW s \in Symbols, TickerAnswered(s)
      PROVE  SearchInv'
  BY <1>1, <1>9 DEF TickerAnswered
<1>10. CASE PickSuggestion \/ Enter \/ OpenStockLookup
  BY <1>2, <1>10 DEF PickSuggestion, Enter, OpenStockLookup
<1> QED BY <1>3, <1>4, <1>5, <1>6, <1>7, <1>8, <1>9, <1>10 DEF LookupNext, User

(* Enter never opens a suggestion of an earlier query, unless the search    *)
(* for the query as it stands has failed.                                   *)
THEOREM SuggestionsAlwaysFit == LookupSpec => []SuggestionsFit
<1>1. LookupInit => SearchInv
  BY DEF LookupInit, SearchInv, SuggestionsFit, NoSuggestions
<1>2. SearchInv => SuggestionsFit
  BY DEF SearchInv
<1> QED BY <1>1, <1>2, SearchStep, LookupTypeCorrect, PTL DEF LookupSpec
=============================================================================
