CONSTANTS
  Workers = {w1, w2, w3}
  Codes = {c1, c2}
  Symbols = {s1, s2, s3, s4, s5}
  Ops = {"new", "put"}
  MaxSymbols = 1
  MaxCodes = 1
  ttlWindow = 2
  accessWindow = 1
  MaxLag = 1
  MaxTime = 1
  None = None
SPECIFICATION Spec
SYMMETRY Symmetry
INVARIANTS
  CodesWithinCap
  OvershootBounded
PROPERTIES
  ImplementsQuota
