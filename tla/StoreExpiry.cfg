CONSTANTS
  Workers = {w1, w2}
  Codes = {c1}
  Symbols = {s1}
  Ops = {"new", "get", "put", "delete"}
  MaxSymbols = 1
  MaxCodes = 2
  ttlWindow = 2
  accessWindow = 1
  MaxLag = 1
  MaxTime = 4
  None = None
SPECIFICATION Spec
SYMMETRY Symmetry
INVARIANTS
  TypeOK
  AcknowledgedEditKeepsPortfolio
PROPERTIES
  CreationTimeKept
  ReadNeverRecreates
