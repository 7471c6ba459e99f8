---------------------------- MODULE WatchlistStore ----------------------------
(***************************************************************************)
(* The watchlist backend: the HTTP handlers of                             *)
(* cmd/server/watchlist_handlers.go running over internal/watchlist's      *)
(* Store, on one DynamoDB table.                                           *)
(*                                                                         *)
(* A worker is one Lambda instance; it serves one request at a time.  Each *)
(* DynamoDB call of a handler is an action, so requests interleave between *)
(* any two calls.  A call is applied and answered, or applied with its     *)
(* answer lost (the SDK then repeats it), or never applied; the worker may *)
(* give up at any call (throttling, SDK attempts used up, the 29 s Lambda  *)
(* limit).  A Query is eventually consistent: it reads the table or a      *)
(* replica that lags behind by at most MaxLag writes of the partition.     *)
(***************************************************************************)
EXTENDS Naturals, FiniteSets

CONSTANTS
  Codes,         \* partition keys of well-formed portfolio codes (HashKey)
  Symbols,       \* well-formed ticker symbols
  Workers,       \* Lambda instances, of both apps: they share the table
  Ops,           \* the kinds of request clients send in this instance
  MaxSymbols,    \* store.go MaxSymbols
  MaxCodes,      \* MAX_CODES
  ttlWindow,     \* store.go ttlWindow, in ticks
  accessWindow,  \* store.go accessWindow, in ticks
  MaxLag,        \* how many writes of a partition a Query may miss
  MaxTime,       \* bound of the clock
  None           \* no record, no argument

Meta == [createdAt : Nat, ttl : Nat, lastAccess : Nat]

ASSUME StoreConstants ==
  /\ IsFiniteSet(Codes) /\ IsFiniteSet(Symbols) /\ IsFiniteSet(Workers)
  /\ Ops \subseteq {"new", "get", "put", "delete"}
  /\ MaxSymbols \in Nat \ {0}
  /\ MaxCodes \in Nat \ {0}
  /\ ttlWindow \in Nat \ {0}
  /\ accessWindow \in Nat
  /\ MaxLag \in Nat
  /\ MaxTime \in Nat
  /\ None \notin Codes \cup Symbols \cup Meta

VARIABLES
  clock,     \* time.Now(), in ticks; 0 is the zero value of a timestamp
  created,   \* the COUNTER item's #created attribute (0 when absent)
  table,     \* table[c]: the META record and the W# items of portfolio c
  view,      \* view[c]: partition c as a lagging replica shows it
  lag,       \* lag[c]: writes of c the replica has not applied
  pc,        \* pc[w]: the call worker w makes next, or its last answer
  pk,        \* pk[w]: the portfolio its request is about
  sym,       \* sym[w]: the symbol its request is about
  now,       \* now[w]: the time.Now() its handler took (0: not taken)
  minted,    \* history: the codes NewCode has returned
  lastEdit   \* lastEdit[c]: history: time of the last acknowledged edit of c

tableVars == <<created, table, view, lag>>
localVars == <<pc, pk, sym, now>>
historyVars == <<minted, lastEdit>>
vars == <<clock, tableVars, localVars, historyVars>>

NoTime == 0

Partition == [meta : Meta \cup {None}, items : SUBSET Symbols]

\* Handler steps: the next call to DynamoDB (or to Turnstile, or to crypto/rand).
Steps == {"verify", "reserve", "newCode", "ensureMeta", "list", "recordAccess",
          "upsertList", "putItem", "deleteItem", "touch"}

\* What a client sees.  A worker whose pc is an answer is free.
Answers == {"idle", "ok200", "noContent204", "bad400", "forbidden403",
            "notFound404", "method405", "error500", "unavailable502", "closed503"}

Idle(w) == pc[w] \in Answers

\* The steps that use the request's portfolio, and its symbol.
OnPortfolio == {"ensureMeta", "list", "recordAccess", "upsertList", "putItem",
                "deleteItem", "touch"}

OnSymbol == {"upsertList", "putItem", "deleteItem"}

TypeOK ==
  /\ clock \in Nat
  /\ created \in Nat
  /\ table \in [Codes -> Partition]
  /\ view \in [Codes -> Partition]
  /\ lag \in [Codes -> 0..MaxLag]
  /\ pc \in [Workers -> Steps \cup Answers]
  /\ pk \in [Workers -> Codes \cup {None}]
  /\ sym \in [Workers -> Symbols \cup {None}]
  /\ now \in [Workers -> Nat]
  /\ \A w \in Workers : /\ pc[w] \in OnPortfolio => pk[w] \in Codes
                        /\ pc[w] \in OnSymbol => sym[w] \in Symbols
  /\ minted \subseteq Codes
  /\ lastEdit \in [Codes -> Nat]

Init ==
  /\ clock = 1
  /\ created = 0
  /\ table = [c \in Codes |-> [meta |-> None, items |-> {}]]
  /\ view = table
  /\ lag = [c \in Codes |-> 0]
  /\ pc = [w \in Workers |-> "idle"]
  /\ pk = [w \in Workers |-> None]
  /\ sym = [w \in Workers |-> None]
  /\ now = [w \in Workers |-> NoTime]
  /\ minted = {}
  /\ lastEdit = [c \in Codes |-> NoTime]

-----------------------------------------------------------------------------
(* Helpers of the actions.                                                  *)

\* A write of partition c.  The replica applies it at once or falls behind.
Write(c, p) ==
  /\ table' = [table EXCEPT ![c] = p]
  /\ \/ /\ view' = [view EXCEPT ![c] = p]
        /\ lag' = [lag EXCEPT ![c] = 0]
     \/ /\ lag[c] < MaxLag
        /\ lag' = [lag EXCEPT ![c] = @ + 1]
        /\ view' = view

WriteMeta(c, m) == Write(c, [table[c] EXCEPT !.meta = m])

WriteItems(c, its) == Write(c, [table[c] EXCEPT !.items = its])

\* What a Query of partition c may return.
Reads(c) == {table[c], view[c]}

\* The record UpdateItem starts from: DynamoDB creates one that is missing,
\* with no attribute but those the call sets.
Upserted(m) ==
  IF m = None THEN [createdAt |-> NoTime, ttl |-> NoTime, lastAccess |-> NoTime] ELSE m

\* Worker w answers its client and is free again.
Answer(w, a) ==
  /\ pc' = [pc EXCEPT ![w] = a]
  /\ pk' = [pk EXCEPT ![w] = None]
  /\ sym' = [sym EXCEPT ![w] = None]
  /\ now' = [now EXCEPT ![w] = NoTime]

Goto(w, step) ==
  /\ pc' = [pc EXCEPT ![w] = step]
  /\ UNCHANGED <<pk, sym, now>>

\* The next step starts by taking the time.
GotoAt(w, step) ==
  /\ pc' = [pc EXCEPT ![w] = step]
  /\ now' = [now EXCEPT ![w] = clock]
  /\ UNCHANGED <<pk, sym>>

\* The write was applied and its answer lost: the SDK sends it again.
Resend == UNCHANGED localVars

-----------------------------------------------------------------------------
(* POST /api/watchlist/new                                                  *)

HandleNew(w) ==
  /\ Idle(w) /\ "new" \in Ops
  /\ Goto(w, "verify")
  /\ UNCHANGED <<clock, tableVars, historyVars>>

\* No token or not human: 403.  Turnstile unreachable: 502, failing closed.
Verify(w) ==
  /\ pc[w] = "verify"
  /\ \/ Goto(w, "reserve")
     \/ Answer(w, "forbidden403")
     \/ Answer(w, "unavailable502")
  /\ UNCHANGED <<clock, tableVars, historyVars>>

SlotFree_OffByOne == created <= MaxCodes

\* The condition of Reserve's UpdateItem: attribute_not_exists(#n) OR #n < :max.
SlotFree == created < MaxCodes

Reserve(w) ==
  /\ pc[w] = "reserve"
  /\ \/ /\ SlotFree
        /\ created' = created + 1
        /\ Goto(w, "newCode") \/ Resend
     \/ /\ ~SlotFree
        /\ created' = created
        /\ Answer(w, "closed503")
  /\ UNCHANGED <<clock, table, view, lag, historyVars>>

\* NewCode is random: nothing stops it from returning a code already in use.
NewCode(w) ==
  /\ pc[w] = "newCode"
  /\ \/ \E c \in Codes :
          /\ minted' = minted \cup {c}
          /\ pk' = [pk EXCEPT ![w] = c]
          /\ pc' = [pc EXCEPT ![w] = "ensureMeta"]
          /\ now' = [now EXCEPT ![w] = clock]
          /\ UNCHANGED sym
     \/ Answer(w, "error500") /\ UNCHANGED minted
  /\ UNCHANGED <<clock, tableVars, lastEdit>>

MetaAbsent_Ignored(c) == TRUE

\* EnsureMeta's condition: attribute_not_exists(PK), on the META item.
MetaAbsent(c) == table[c].meta = None

EnsureMeta(w) ==
  /\ pc[w] = "ensureMeta"
  /\ LET c == pk[w] IN
     \/ /\ MetaAbsent(c)
        /\ WriteMeta(c, [createdAt |-> now[w], ttl |-> now[w] + ttlWindow,
                         lastAccess |-> NoTime])
        /\ lastEdit' = [lastEdit EXCEPT ![c] = now[w]]
        /\ Answer(w, "ok200") \/ Resend
     \/ /\ ~MetaAbsent(c)
        /\ Answer(w, "ok200")
        /\ UNCHANGED <<table, view, lag, lastEdit>>
  /\ UNCHANGED <<clock, created, minted>>

-----------------------------------------------------------------------------
(* /api/watchlist                                                           *)

\* Requests refused before any call: missing or malformed code, unknown
\* method, unreadable body, empty symbol, invalid item.
Reject(w) ==
  /\ Idle(w)
  /\ \E a \in {"notFound404", "method405", "bad400"} : Answer(w, a)
  /\ UNCHANGED <<clock, tableVars, historyVars>>

\* GET: the time is taken before the Query.
HandleGet(w) ==
  /\ Idle(w) /\ "get" \in Ops
  /\ \E c \in Codes : pk' = [pk EXCEPT ![w] = c]
  /\ pc' = [pc EXCEPT ![w] = "list"]
  /\ now' = [now EXCEPT ![w] = clock]
  /\ UNCHANGED <<clock, tableVars, sym, historyVars>>

ListAndRecordAccess(w) ==
  /\ pc[w] = "list"
  /\ \E p \in Reads(pk[w]) :
       \/ p.meta = None /\ Answer(w, "notFound404")
       \/ /\ p.meta # None
          /\ now[w] >= p.meta.lastAccess + accessWindow
          /\ Goto(w, "recordAccess")
       \/ /\ p.meta # None
          /\ now[w] < p.meta.lastAccess + accessWindow
          /\ Answer(w, "ok200")
  /\ UNCHANGED <<clock, tableVars, historyVars>>

MetaExists_Ignored(c) == TRUE

\* recordAccess's condition: attribute_exists(PK), on the META item.
MetaExists(c) == table[c].meta # None

\* A failed stamp never fails the read.
RecordAccess(w) ==
  /\ pc[w] = "recordAccess"
  /\ LET c == pk[w] IN
     \/ /\ MetaExists(c)
        /\ WriteMeta(c, [Upserted(table[c].meta) EXCEPT !.lastAccess = now[w]])
        /\ Answer(w, "ok200") \/ Resend
     \/ /\ ~MetaExists(c)
        /\ Answer(w, "ok200")
        /\ UNCHANGED <<table, view, lag>>
  /\ UNCHANGED <<clock, created, historyVars>>

HandlePut(w) ==
  /\ Idle(w) /\ "put" \in Ops
  /\ \E c \in Codes, s \in Symbols :
       /\ pk' = [pk EXCEPT ![w] = c]
       /\ sym' = [sym EXCEPT ![w] = s]
  /\ pc' = [pc EXCEPT ![w] = "upsertList"]
  /\ UNCHANGED <<clock, tableVars, now, historyVars>>

HasRoom_OffByOne(p, s) == Cardinality(p.items) <= MaxSymbols \/ s \in p.items

HasRoom(p, s) == Cardinality(p.items) < MaxSymbols \/ s \in p.items

\* Upsert reads the list before it writes: a check of the cap, then an act.
UpsertList(w) ==
  /\ pc[w] = "upsertList"
  /\ \E p \in Reads(pk[w]) :
       \/ p.meta = None /\ Answer(w, "notFound404")
       \/ p.meta # None /\ ~HasRoom(p, sym[w]) /\ Answer(w, "bad400")
       \/ p.meta # None /\ HasRoom(p, sym[w]) /\ Goto(w, "putItem")
  /\ UNCHANGED <<clock, tableVars, historyVars>>

PutItem(w) ==
  /\ pc[w] = "putItem"
  /\ WriteItems(pk[w], table[pk[w]].items \cup {sym[w]})
  /\ GotoAt(w, "touch") \/ Resend
  /\ UNCHANGED <<clock, created, historyVars>>

HandleDelete(w) ==
  /\ Idle(w) /\ "delete" \in Ops
  /\ \E c \in Codes, s \in Symbols :
       /\ pk' = [pk EXCEPT ![w] = c]
       /\ sym' = [sym EXCEPT ![w] = s]
  /\ pc' = [pc EXCEPT ![w] = "deleteItem"]
  /\ UNCHANGED <<clock, tableVars, now, historyVars>>

DeleteItem(w) ==
  /\ pc[w] = "deleteItem"
  /\ WriteItems(pk[w], table[pk[w]].items \ {sym[w]})
  /\ GotoAt(w, "touch") \/ Resend
  /\ UNCHANGED <<clock, created, historyVars>>

Touched_OnlyWhenNew(m, t) ==
  IF m = None THEN [Upserted(m) EXCEPT !.ttl = t + ttlWindow] ELSE m

Touched_Replaces(m, t) == [ttl |-> t + ttlWindow, lastAccess |-> NoTime]

\* touch has no condition: it creates the record when there is none.
Touched(m, t) == [Upserted(m) EXCEPT !.ttl = t + ttlWindow]

Later(a, b) == IF a > b THEN a ELSE b

Touch(w) ==
  /\ pc[w] = "touch"
  /\ LET c == pk[w] IN
     /\ WriteMeta(c, Touched(table[c].meta, now[w]))
     /\ \/ /\ Answer(w, "noContent204")
           /\ lastEdit' = [lastEdit EXCEPT ![c] = Later(@, now[w])]
        \/ Resend /\ UNCHANGED lastEdit
  /\ UNCHANGED <<clock, created, minted>>

\* A call failed for good, or the request ran into a limit.  Everything done
\* before it stays done.
GiveUp(w) ==
  /\ \/ /\ pc[w] \in {"reserve", "ensureMeta", "list", "upsertList",
                      "putItem", "deleteItem", "touch"}
        /\ Answer(w, "unavailable502")
     \/ pc[w] = "recordAccess" /\ Answer(w, "ok200")
  /\ UNCHANGED <<clock, tableVars, historyVars>>

-----------------------------------------------------------------------------
(* DynamoDB and time.                                                       *)

\* The TTL reaper deletes a record whose ttl attribute has passed, some time
\* after.  Only META carries one.
Expire(c) ==
  /\ table[c].meta # None
  /\ table[c].meta.ttl < clock
  /\ WriteMeta(c, None)
  /\ UNCHANGED <<clock, created, localVars, historyVars>>

CatchUp(c) ==
  /\ lag[c] > 0
  /\ view' = [view EXCEPT ![c] = table[c]]
  /\ lag' = [lag EXCEPT ![c] = 0]
  /\ UNCHANGED <<clock, created, table, localVars, historyVars>>

\* A request outlives the time it took by at most one tick.
Tick ==
  /\ clock < MaxTime
  /\ \A w \in Workers : now[w] \in {NoTime, clock}
  /\ clock' = clock + 1
  /\ UNCHANGED <<tableVars, localVars, historyVars>>

Create(w) == HandleNew(w) \/ Verify(w) \/ Reserve(w) \/ NewCode(w) \/ EnsureMeta(w)

Get(w) == HandleGet(w) \/ ListAndRecordAccess(w) \/ RecordAccess(w)

Upsert(w) == HandlePut(w) \/ UpsertList(w) \/ PutItem(w)

Delete(w) == HandleDelete(w) \/ DeleteItem(w)

Handle(w) == Reject(w) \/ Get(w) \/ Upsert(w) \/ Delete(w) \/ Touch(w)

Next ==
  \/ \E w \in Workers : Create(w) \/ Handle(w) \/ GiveUp(w)
  \/ \E c \in Codes : Expire(c) \/ CatchUp(c)
  \/ Tick

Spec == Init /\ [][Next]_vars

-----------------------------------------------------------------------------
(* Properties.                                                              *)

\* Every code NewCode returns was paid for by a slot Reserve claimed, and the
\* slots never exceed MAX_CODES, whatever creates race, fail half-way or have
\* their ADD repeated by the SDK (store.go, Reserve).
CodesWithinCap ==
  /\ Cardinality(minted) <= created
  /\ created <= MaxCodes

\* Why it is inductive: a worker between Reserve and NewCode holds a slot that
\* no code has used yet.
Claiming == {w \in Workers : pc[w] = "newCode"}

SlotsCovered ==
  /\ Cardinality(minted) + Cardinality(Claiming) <= created
  /\ created <= MaxCodes

\* A portfolio is not taken by the reaper within ttlWindow of the last edit (or
\* creation) a client was told of.  Two racing touches may move the expiry back
\* by the age of the older one's clock reading, one tick (store.go, touch).
AcknowledgedEditKeepsPortfolio ==
  \A c \in Codes :
    lastEdit[c] # NoTime /\ table[c].meta = None => clock >= lastEdit[c] + ttlWindow

\* Why it is inductive: a call that writes an expiry took its time at most one
\* tick ago, so it moves the expiry of an acknowledged edit back by no more.
ExpiryInv ==
  /\ clock # NoTime
  /\ \A w \in Workers :
       /\ now[w] <= clock
       /\ pc[w] \in {"ensureMeta", "touch"} => now[w] # NoTime /\ clock <= now[w] + 1
  /\ \A c \in Codes :
       /\ lastEdit[c] <= clock
       /\ table[c].meta # None => lastEdit[c] + ttlWindow <= table[c].meta.ttl + 1
       /\ lastEdit[c] # NoTime /\ table[c].meta = None => clock >= lastEdit[c] + ttlWindow

\* The puts on portfolio c that have passed the cap check and are not applied.
Pending(c) == {s \in Symbols : \E w \in Workers :
                  pc[w] = "putItem" /\ pk[w] = c /\ sym[w] = s}

\* Upsert's check-then-put lets a list exceed MaxSymbols, but only by what can
\* be in flight or unseen at once: the other workers and the read lag
\* (store.go, Upsert).
OvershootBounded ==
  \A c \in Codes :
    Cardinality(table[c].items) < MaxSymbols + Cardinality(Workers) + MaxLag

\* Why it is inductive: what the table, its replica and the pending puts hold
\* between them stays below the bound, and the replica differs from the table
\* by at most one symbol for each write it has missed.
Unseen(c) == (table[c].items \ view[c].items) \cup (view[c].items \ table[c].items)

Reach(c) == table[c].items \cup view[c].items \cup Pending(c)

OvershootInv ==
  \A c \in Codes :
    /\ Cardinality(Unseen(c)) <= lag[c]
    /\ Cardinality(Reach(c)) < MaxSymbols + Cardinality(Workers) + MaxLag

\* "50 symbols per watchlist", as README.md states it.
SymbolCap == \A c \in Codes : Cardinality(table[c].items) <= MaxSymbols

\* "an existing portfolio is never reset by a repeated call" (store.go,
\* EnsureMeta): while a record stays, its creation time stays.
CreationTimeKept ==
  [][\A c \in Codes :
       table[c].meta # None /\ table'[c].meta # None
         => table'[c].meta.createdAt = table[c].meta.createdAt]_vars

\* A read never recreates a portfolio that expired between its Query and its
\* stamp (store.go, recordAccess): a record appears only under the EnsureMeta
\* or the touch of a request for that very code.
ReadNeverRecreates ==
  [][\A c \in Codes :
       table[c].meta = None /\ table'[c].meta # None
         => \E w \in Workers : pk[w] = c /\ pc[w] \in {"ensureMeta", "touch"}]_vars

\* The abstract cap: codes are granted against claimed slots.
Quota == INSTANCE CodeQuota WITH claimed <- created, granted <- minted

\* The store implements the abstract cap (refinement).
ImplementsQuota == Quota!Spec
=============================================================================
