----------------------------- MODULE MCPortfolio -----------------------------
EXTENDS Portfolio

CONSTANTS ibkr, revolut, x, y, MaxTxs

Tx(type, broker, symbol, date, quantity, unit) ==
  [type |-> type, broker |-> broker, symbol |-> symbol, date |-> date,
   quantity |-> quantity, unit |-> unit, liquidate |-> FALSE]

\* Buys before and after the split of day 2, at two prices; on day 3 anything may
\* happen on the same day; day 4 closes.  In units that split exactly.
Trades ==
  {Tx("BUY", b, x, d, 6, 60) : b \in Brokers, d \in {1, 3}}
  \cup {Tx("BUY", ibkr, x, 1, 6, 120), Tx("BUY", revolut, x, 1, 6, 0)}
  \cup {Tx("STOCK_SPLIT", b, x, 2, q, 0) : b \in Brokers, q \in {6, 12}}
  \cup {Tx("SELL", ibkr, x, 3, 3, 0), Tx("SELL", revolut, x, 3, 6, 0),
        Tx("SELL", ibkr, x, 4, 9, 0),
        [Tx("SELL", ibkr, x, 4, 1, 0) EXCEPT !.liquidate = TRUE]}
  \cup {Tx("TRANSFER_OUT", ibkr, x, 3, 6, 0), Tx("TRANSFER_IN", revolut, x, 3, 6, 120)}

\* A broker books a split for what it holds: here every split is two for one.
Bought(S, b) ==
  MapThenSumSet(LAMBDA t : t.quantity,
                {t \in S : t.type = "BUY" /\ t.broker = b /\ t.date = 1})

SplitsDouble(S) ==
  \A t \in S : t.type = "STOCK_SPLIT" => t.quantity = Bought(S, t.broker)

\* Another holding, so that prices for most but not for x can be had.
MCHistories ==
  {Append(SetToSeq(S), Tx("BUY", ibkr, y, 1, 6, 60)) :
     S \in {T \in UNION {kSubset(k, Trades) : k \in 1..MaxTxs} : SplitsDouble(T)}}
=============================================================================
