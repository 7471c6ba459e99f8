------------------------------ MODULE Portfolio ------------------------------
(***************************************************************************)
(* One upload (handleUpload; the CLI does the same): the transactions of   *)
(* all brokers make the combined ledger, positions without a price are     *)
(* written off and the combined ledger is made again, and the transactions *)
(* of each broker make that broker's ledger.                               *)
(*                                                                         *)
(* Process sorts by date with sort.Slice, which leaves the order of equal  *)
(* dates open: whenever it makes a ledger, any order may come out.         *)
(***************************************************************************)
EXTENDS Ledger

CONSTANTS
  Histories,   \* the inputs: sequences of transactions
  plainUSD,    \* the symbols AutoWriteOffs may touch: USD, no exchange suffix
  MaxDate,     \* bound of the dates; a write-off is dated after it
  Combined     \* the name of the combined ledger

ASSUME PortfolioConstants ==
  /\ IsFiniteSet(Brokers) /\ IsFiniteSet(Symbols)
  /\ Histories \subseteq Seq(Transactions)
  /\ \A h \in Histories : \A i \in DOMAIN h : h[i].date <= MaxDate
  /\ plainUSD \subseteq Symbols
  /\ MaxDate \in Nat
  /\ Combined \notin Brokers

VARIABLES
  txs,         \* what is kept of the upload, then the write-offs
  phase,       \* where handleUpload is
  making,      \* the ledger Process is making
  todo,        \* the transactions (indices of txs) it has not applied
  ledgers,     \* the ledgers made so far
  reported,    \* the brokers whose ledger is made or being made
  writtenOff   \* the symbols AutoWriteOffs chose

vars == <<txs, phase, making, todo, ledgers, reported, writtenOff>>

Ledgers == Brokers \cup {Combined}

PortfolioTypeOK ==
  /\ txs \in Seq(Transactions)
  /\ phase \in {"combine", "combineAgain", "report", "done"}
  /\ making \in Ledgers
  /\ todo \subseteq DOMAIN txs
  /\ ledgers \in [Ledgers -> [Symbols -> Positions]]
  /\ reported \subseteq Brokers
  /\ writtenOff \subseteq plainUSD

PortfolioInit ==
  /\ txs \in Histories
  /\ phase = "combine" /\ making = Combined
  /\ todo = DOMAIN txs
  /\ ledgers = [l \in Ledgers |-> NewLedger]
  /\ reported = {}
  /\ writtenOff = {}

-----------------------------------------------------------------------------

\* One transaction of the loop of Process: none of an earlier date is left.
Process ==
  /\ phase # "done"
  /\ \E i \in todo :
       /\ \A j \in todo : txs[i].date <= txs[j].date
       /\ ledgers' = [ledgers EXCEPT ![making] = Applied(@, txs[i])]
       /\ todo' = todo \ {i}
  /\ UNCHANGED <<txs, phase, making, reported, writtenOff>>

Open == {s \in Symbols : ledgers[Combined][s].quantity > 0}

\* Unless the price fetch failed for most, an open position without a price is
\* presumed worthless: a sale of the whole position, in the name of the broker
\* of its oldest lot.
WriteOff(s) ==
  [type |-> "SELL", broker |-> ledgers[Combined][s].lots[1].broker, symbol |-> s,
   date |-> MaxDate + 1, quantity |-> ledgers[Combined][s].quantity, unit |-> 0,
   liquidate |-> TRUE]

Presumed(priced) ==
  IF priced = {} \/ 2 * Cardinality(priced) < Cardinality(Open) THEN {}
  ELSE (Open \ priced) \cap plainUSD

\* The prices are there, or not.
AutoWriteOffs ==
  /\ phase = "combine" /\ todo = {}
  /\ \E priced \in SUBSET Open :
       LET gone == Presumed(priced) IN
       /\ writtenOff' = gone
       /\ IF gone = {}
            THEN phase' = "report" /\ UNCHANGED <<txs, todo, ledgers>>
            ELSE /\ txs' = txs \o SetToSeq({WriteOff(s) : s \in gone})
                 /\ phase' = "combineAgain"
                 /\ todo' = DOMAIN txs'
                 /\ ledgers' = [ledgers EXCEPT ![Combined] = NewLedger]
  /\ UNCHANGED <<making, reported>>

CombinedAgain ==
  /\ phase = "combineAgain" /\ todo = {}
  /\ phase' = "report"
  /\ UNCHANGED <<txs, making, todo, ledgers, reported, writtenOff>>

FilterByBroker_Unfiltered(b) == DOMAIN txs

FilterByBroker_BeforeWriteOffs(b) == {i \in DOMAIN txs : txs[i].broker = b /\ txs[i].date <= MaxDate}

FilterByBroker(b) == {i \in DOMAIN txs : txs[i].broker = b}

\* brokersInOrder lists the brokers that have transactions.  Which one comes first is
\* presentation: the reports do not share state.
Waiting == {b \in Brokers : FilterByBroker(b) # {}} \ reported

ReportBroker(b) ==
  /\ phase = "report" /\ todo = {}
  /\ b \in Waiting
  /\ making' = b /\ reported' = reported \cup {b}
  /\ todo' = FilterByBroker(b)
  /\ UNCHANGED <<txs, phase, ledgers, writtenOff>>

Answer ==
  /\ phase = "report" /\ todo = {} /\ Waiting = {}
  /\ phase' = "done"
  /\ UNCHANGED <<txs, making, todo, ledgers, reported, writtenOff>>

PortfolioNext ==
  \/ Process \/ AutoWriteOffs \/ CombinedAgain \/ Answer
  \/ \E b \in Brokers : ReportBroker(b)

PortfolioSpec == PortfolioInit /\ [][PortfolioNext]_vars

-----------------------------------------------------------------------------
(* Properties.                                                              *)

Held == {ledgers[l][s] : l \in Ledgers, s \in Symbols}

\* The running totals of a position and its lots are kept by different
\* statements; they agree after any sequence of transactions.
TotalsMatchLots ==
  \A p \in Held : p.quantity = QuantityOf(p.lots) /\ p.totalCost = CostOf(p.lots)

\* "FIFO lots" (ledger.go): lots are in the order they came, and only the oldest
\* one has shares missing.
OnlyOldestPartial ==
  \A p \in Held : \A i \in DOMAIN p.lots :
    i > 1 => p.lots[i].quantity = p.lots[i].full /\ p.lots[i - 1].date <= p.lots[i].date

\* A split shares its date with nothing else but splits of its symbol: the order of
\* equal dates cannot move it.
SplitsAlone(s) ==
  \A i, j \in DOMAIN txs :
    /\ txs[i].symbol = s /\ txs[j].symbol = s
    /\ txs[i].type = "STOCK_SPLIT" /\ txs[j].type # "STOCK_SPLIT"
    => txs[i].date # txs[j].date

\* What a transaction changes the quantity by, when nothing is short.
Change(tx) ==
  IF tx.type \in {"SELL", "TRANSFER_OUT"} THEN -tx.quantity ELSE tx.quantity

Changes(s) ==
  [i \in DOMAIN txs |-> IF txs[i].symbol = s THEN Change(txs[i]) ELSE 0]

\* The shares of s the transactions D leave.
Balance(D, s) ==
  Total([i \in DOMAIN txs |-> IF i \in D THEN Changes(s)[i] ELSE 0])

\* A broker reports a split of what it holds since an earlier day: a ledger that
\* holds nothing skips the split.
SplitsHeld(s) ==
  \A i \in DOMAIN txs :
    txs[i].symbol = s /\ txs[i].type = "STOCK_SPLIT" /\ txs[i].quantity > 0
    => Balance({j \in FilterByBroker(txs[i].broker) : txs[j].date < txs[i].date}, s) > 0

OverBrokers(f) ==
  LET all == SetToSeq(Brokers) IN Total([i \in DOMAIN all |-> f[all[i]]])

\* The brokers' ledgers are made from the same transactions as the combined one:
\* their quantities add up, for a symbol no ledger oversold and no sale closed
\* whole, whatever the order of equal dates and although the combined ledger
\* takes its lots from whichever broker has the oldest.
QuantitiesAddUp ==
  phase = "done" =>
    \A s \in Symbols :
      \/ \E l \in Ledgers : ledgers[l][s].oversold
      \/ \E i \in DOMAIN txs : txs[i].symbol = s /\ txs[i].liquidate
      \/ ~SplitsAlone(s) \/ ~SplitsHeld(s)
      \/ ledgers[Combined][s].quantity = OverBrokers([b \in Brokers |-> ledgers[b][s].quantity])

CostOfAll(p) == p.totalCost + p.realized + p.moved

\* A sale of more than is held and a write-off included, the cost held, realized
\* by sales and gone with transfers is the same in total by broker and combined:
\* nothing paid is reported twice, or by no report.
CostsAddUp ==
  phase = "done" =>
    \A s \in Symbols :
      CostOfAll(ledgers[Combined][s]) = OverBrokers([b \in Brokers |-> CostOfAll(ledgers[b][s])])

\* "book zero-proceeds write-offs and recompute so the loss is realized and the
\* per-broker reports below (which filter txs) stay consistent" (main.go): what
\* is written off is held by no ledger, the combined one nor a broker's, as long as
\* one broker alone had it; the write-off is booked to one.
WrittenOffEverywhere ==
  phase = "done" =>
    \A s \in writtenOff :
      \/ Cardinality({txs[i].broker : i \in {j \in DOMAIN txs : txs[j].symbol = s}}) > 1
      \/ \A l \in Ledgers : ledgers[l][s].quantity = 0
=============================================================================
