SPECIFICATION PositionsSpec
CONSTANTS
  None = None
  Alphabet <- MCAlphabet
  Infinity = 100000
  Timeframes = {"today", "ytd"}
  Expandable = {"Red flags"}
  Filters = {"All", "Gainers", "Losers"}
  Reports <- MCReports
  PositionKeys = {"symbol", "mv", "today", "range", "evToEbitda", "analyst"}
INVARIANTS RailsAgreeWithTable TilesAgreeWithRails DashesLast
 
