-------------------------------- MODULE Ledger --------------------------------
(***************************************************************************)
(* The ledger (internal/ledger): what applying one transaction does to the *)
(* lots and totals of its symbol.                                          *)
(*                                                                         *)
(* Quantities and costs are integers in units small enough for every       *)
(* division to be exact, which Quotient checks.  A lot keeps the cost of   *)
(* one share (unit) where the code keeps the cost of the lot: cost =       *)
(* quantity * unit, and taking shares pro rata leaves the unit alone.      *)
(***************************************************************************)
EXTENDS Integers, SequencesExt, FiniteSetsExt

CONSTANTS Brokers, Symbols

Types == {"BUY", "SELL", "STOCK_SPLIT", "TRANSFER_OUT", "TRANSFER_IN"}

\* unit is |Net| / Quantity of a BUY or a TRANSFER_IN, 0 for the others.
Transactions ==
  [type : Types, broker : Brokers, symbol : Symbols, date : Nat,
   quantity : Nat, unit : Nat, liquidate : BOOLEAN]

\* full is a history field: what is left of the lot if nothing is taken.
Lots ==
  [broker : Brokers, date : Nat, quantity : Nat \ {0}, unit : Nat, full : Nat]

\* realized is the CostBasis of the Realized entries of the symbol, moved the
\* removedCost of its transfers, both added up; oversold is history: more was taken
\* than was there.
Positions ==
  [lots : Seq(Lots), quantity : Nat, totalCost : Nat,
   realized : Nat, moved : Nat, oversold : BOOLEAN]

NoPosition ==
  [lots |-> <<>>, quantity |-> 0, totalCost |-> 0,
   realized |-> 0, moved |-> 0, oversold |-> FALSE]

NewLedger == [s \in Symbols |-> NoPosition]

Least(a, b) == IF a < b THEN a ELSE b
Most(a, b) == IF a > b THEN a ELSE b
Quotient(a, b) == CHOOSE q \in 0..a : q * b = a

-----------------------------------------------------------------------------

\* Running(f)[n] is the sum of the first n numbers of f.
Running(f) ==
  LET total[n \in 0..Len(f)] == IF n = 0 THEN 0 ELSE total[n - 1] + f[n]
  IN  total

Total(f) == Running(f)[Len(f)]

Quantities(lots) == [i \in DOMAIN lots |-> lots[i].quantity]
QuantityOf(lots) == Total(Quantities(lots))
CostOf(lots) == Total([i \in DOMAIN lots |-> lots[i].quantity * lots[i].unit])

Arrive(p, tx) ==
  [p EXCEPT !.lots = Append(@, [broker |-> tx.broker, date |-> tx.date,
                                quantity |-> tx.quantity, unit |-> tx.unit,
                                full |-> tx.quantity]),
            !.quantity = @ + tx.quantity,
            !.totalCost = @ + tx.quantity * tx.unit]

Take_NewestFirst(lots, n) ==
  LET upTo == Running(Quantities(lots)) IN
  [i \in DOMAIN lots |->
     Least(lots[i].quantity, Most(0, n - (upTo[Len(lots)] - upTo[i])))]

\* FIFO: what is taken of each lot to make n.
Take(lots, n) ==
  LET upTo == Running(Quantities(lots)) IN
  [i \in DOMAIN lots |-> Least(lots[i].quantity, Most(0, n - upTo[i - 1]))]

\* The cost of what was taken.
TakenCost(lots, took) == Total([i \in DOMAIN lots |-> took[i] * lots[i].unit])

\* The k-th of the numbers in S.
Nth(S, k) == CHOOSE i \in S : Cardinality({j \in S : j <= i}) = k

\* The lots without what was taken, in their order; exhausted ones are removed.
Remaining(lots, took) ==
  LET kept == {i \in DOMAIN lots : lots[i].quantity > took[i]} IN
  [k \in 1..Cardinality(kept) |->
     [lots[Nth(kept, k)] EXCEPT !.quantity = @ - took[Nth(kept, k)]]]

Left_CostKept(p, took) ==
  [p EXCEPT !.lots = Remaining(@, took),
            !.quantity = @ - Total(took)]

\* Lots and totals without what was taken.
Left(p, took) ==
  [p EXCEPT !.lots = Remaining(@, took),
            !.quantity = @ - Total(took),
            !.totalCost = @ - TakenCost(p.lots, took)]

Sell_AtOldest(p, tx) ==
  LET n == IF tx.liquidate THEN p.quantity ELSE tx.quantity
      took == Take(p.lots, n) IN
  [Left(p, took) EXCEPT
     !.realized = @ + IF p.lots = <<>> THEN 0 ELSE Total(took) * p.lots[1].unit,
     !.oversold = @ \/ n > p.quantity]

\* A delisting closes the whole position, whatever quantity the broker states.
Sell(p, tx) ==
  LET n == IF tx.liquidate THEN p.quantity ELSE tx.quantity
      took == Take(p.lots, n) IN
  [Left(p, took) EXCEPT !.realized = @ + TakenCost(p.lots, took),
                        !.oversold = @ \/ n > p.quantity]

TransferOut(p, tx) ==
  LET took == Take(p.lots, tx.quantity) IN
  [Left(p, took) EXCEPT !.moved = @ + TakenCost(p.lots, took),
                        !.oversold = @ \/ tx.quantity > p.quantity]

\* The lots when before shares become after.
Rescaled(lots, before, after) ==
  [i \in DOMAIN lots |-> [lots[i] EXCEPT !.quantity = Quotient(@ * after, before),
                                         !.full = Quotient(@ * after, before),
                                         !.unit = Quotient(@ * before, after)]]

\* quantity is the number of shares the split adds; nothing held, nothing done.
Split(p, tx) ==
  LET after == p.quantity + tx.quantity IN
  IF p.quantity = 0 THEN p ELSE
  [p EXCEPT !.lots = Rescaled(@, p.quantity, after), !.quantity = after]

\* The position after a transaction; without a quantity, it is skipped.
Booked(p, tx) ==
  CASE tx.quantity = 0 -> p
    [] tx.quantity > 0 /\ tx.type \in {"BUY", "TRANSFER_IN"} -> Arrive(p, tx)
    [] tx.quantity > 0 /\ tx.type = "SELL" -> Sell(p, tx)
    [] tx.quantity > 0 /\ tx.type = "TRANSFER_OUT" -> TransferOut(p, tx)
    [] tx.quantity > 0 /\ tx.type = "STOCK_SPLIT" -> Split(p, tx)

Applied(ledger, tx) == [ledger EXCEPT ![tx.symbol] = Booked(@, tx)]
=============================================================================
