SPECIFICATION LookupSpec
CONSTANTS
  Symbols = {stock, fund}
  Funds = {fund}
  Ranges = {"1Y", "Max"}
  MaxLookups = 2
  Failed = Failed
  None = None
INVARIANTS ShownIsItsSymbol ChartIsItsSymbols NeverBlank  SuggestionsFit
