SPECIFICATION WatchlistSpec
CONSTANTS
  None = None
  Alphabet <- MCAlphabet
  Infinity = 100000
  Timeframes = {"today"}
  Expandable = {"Target hit"}
  Filters = {"All", "Pinned", "Undervalued"}
  Lists <- MCLists
  DemoList <- MCDemoList
  SortKeys = {"symbol", "today", "analyst"}
INVARIANTS SheetItemExists
