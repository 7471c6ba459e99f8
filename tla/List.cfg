CONSTANTS
  msft = msft
  nvda = nvda
  xom = xom
  tech = tech
  energy = energy
  Requests = {r1}
  Symbols = {msft, nvda, xom}
  Sectors = {tech}
  Callers <- MCCallers
  classification <- MCClassification
  concurrency = 2
  sectorTTL = 1
  indicatorTTL = 0
  MaxTime = 2
  None = None
SPECIFICATION ListFairSpec
INVARIANTS
  RaceNeedsFailedPrime
PROPERTIES
  ResultComplete
  
CHECK_DEADLOCK FALSE
