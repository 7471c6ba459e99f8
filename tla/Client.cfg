CONSTANTS
  Codes = {c1, c2}
  Symbols = {s1}
  DemoSymbols = {s1}
  InOrder = TRUE
  MaxInFlight = 2
  None = None
SPECIFICATION ClientSpec
INVARIANTS
  ShownIsServed
  NoDoubleSubmit
PROPERTIES
  EditsKeepTheRest
