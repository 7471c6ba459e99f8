SPECIFICATION PortfolioSpec
CONSTANTS
  ibkr = ibkr
  revolut = revolut
  x = x
  y = y
  Brokers = {ibkr, revolut}
  Symbols = {x, y}
  plainUSD = {x, y}
  Combined = Combined
  MaxDate = 4
  MaxTxs = 5
  Histories <- MCHistories
CHECK_DEADLOCK FALSE
INVARIANTS TotalsMatchLots OnlyOldestPartial QuantitiesAddUp CostsAddUp WrittenOffEverywhere
