----------------------------- MODULE MCPositionsTab -----------------------------
(***************************************************************************)
(* Small reports for the positions tab: up to two of five positions in any *)
(* order, or three of some, that between them have every kind of figure a  *)
(* cell or a sort treats in its own way: missing, zero, negative, tied.    *)
(***************************************************************************)
EXTENDS PositionsTab

MCAlphabet == <<"", "-Infinity", "A", "B", "C", "D", "E", "fair", "healthy", "hold", "none",
  "strong buy", "Tech">>

Position(symbol, mv, pct, figures) ==
  [symbol |-> symbol, quantity |-> 1, mv |-> mv, cost |-> 10,
   pnl |-> IF mv = None THEN None ELSE mv - 10, pct |-> pct, figures |-> figures]

Positions == {
  Position("A", 10, 0, [NoFigures(10) EXCEPT !.todayReturn = 2, !.ytdReturn = -3, !.evToEbitda = 0,
    !.pe = -4, !.weekLow52 = 10, !.weekHigh52 = 10, !.analystRating = "hold",
    !.healthRating = "healthy", !.valuationRating = "fair", !.sector = "Tech"]),
  Position("B", 30, 20, [NoFigures(10) EXCEPT !.todayReturn = -2, !.ytdReturn = 5, !.evToEbitda = -7,
    !.pe = 12, !.weekLow52 = 5, !.weekHigh52 = 10, !.analystRating = "strong buy", !.analystScore = 13,
    !.fcf = -1, !.healthRating = "fair", !.valuationRating = "fair"]),
  Position("C", 30, -10, [NoFigures(10) EXCEPT !.todayReturn = 2, !.ytdReturn = -3, !.evToEbitda = 9,
    !.pe = 0, !.weekLow52 = 10, !.weekHigh52 = 20, !.analystRating = "none",
    !.dividendYield = 3, !.payoutRatio = 60, !.cashFlowQuality = 50]),
  Position("D", None, None, NoFigures(10)),
  Position("E", 20, 20, [NoFigures(10) EXCEPT !.todayReturn = -5, !.evToEbitda = 3, !.pe = 12,
    !.sector = "Tech", !.dividendYield = 3, !.payoutRatio = 101])}

MCReports ==
  {[openPositions |-> l, brokers |-> {[name |-> "broker", positions |-> ToSet(l)]}] :
     l \in {<<>>} \cup {<<p>> : p \in Positions}
           \cup {l \in Positions \X Positions : l[1] # l[2]}
           \cup {l \in Positions \X Positions \X Positions :
                    {p.symbol : p \in ToSet(l)} = {"A", "C", "E"}}}
=============================================================================
