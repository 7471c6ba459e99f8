---------------------------- MODULE WatchlistClient ----------------------------
(***************************************************************************)
(* The watchlist page of the browser: the tab (WatchlistTab), the lookup   *)
(* modal over it (StockLookup) and the requests both have in flight        *)
(* (watchlistService).  The server is a map from codes to lists.           *)
(*                                                                         *)
(* A callback of the page runs to its next await in one step.  Between the *)
(* request and its answer anything else may happen: another click, another *)
(* answer, a reload of the page.                                           *)
(***************************************************************************)
EXTENDS SequencesExt, FiniteSets, Naturals

CONSTANTS
  Codes,
  Symbols,
  DemoSymbols,   \* watchlistDemo.ts: the sample shown without a code
  InOrder,       \* requests are served and answered in the order they were sent
  MaxInFlight,   \* bound: no new request is started above it
  None

ASSUME ClientConstants ==
  /\ DemoSymbols \subseteq Symbols
  /\ InOrder \in BOOLEAN
  /\ MaxInFlight \in Nat \ {0}
  /\ None \notin Codes \cup Symbols

VARIABLES
  lists,      \* server: lists[c], None for a code it does not know
  stored,     \* localStorage bs.portfolioCode
  cached,     \* localStorage bs.trackedSymbols
  code,       \* the tab's code; None is demo mode
  items,      \* the tab's rows
  creating,   \* handleCreate is waiting
  shown,      \* the modal's detailSymbol
  detail,     \* whose figures the modal has (detail.symbol)
  tracked,    \* the modal's tracked flag
  adding,     \* addToWatchlist is waiting
  requests,   \* what is in flight, oldest first
  owner,      \* history: whose list the rows are, None for sample rows
  doubt       \* history: since the last list loaded a request has failed, or a
              \* write the rows do not show was answered

tabVars == <<code, items, creating, owner>>
modalVars == <<shown, detail, tracked, adding>>
clientVars == <<lists, stored, cached, tabVars, modalVars, requests, doubt>>

\* An entry: has the user set a note or a pin, and whose price its target was
\* taken from.  A target the user typed counts as the symbol's own.
Entry == [note : BOOLEAN, target : Symbols \cup {None}]
Blank == [note |-> FALSE, target |-> None]
Rows == [Symbols -> Entry \cup {None}]
NoRows == [s \in Symbols |-> None]
Names(rows) == {s \in Symbols : rows[s] # None}

demoItems == [s \in Symbols |-> IF s \in DemoSymbols THEN Blank ELSE None]

Kinds == {"list", "save", "add", "lookupAdd", "delete", "create", "demoAdd", "detail"}
Writes == {"save", "add", "lookupAdd", "delete"}

\* base is the row an edit starts from; blind says that the page had a reason to
\* doubt it (see EditsKeepTheRest).
Request(kind, s) ==
  [kind |-> kind, code |-> stored, sym |-> s, entry |-> None, base |-> None,
   got |-> None, stage |-> "sent", blind |-> FALSE]

\* got is the answer of a list or of a create.
Requests ==
  {r \in [kind : Kinds, code : Codes \cup {None}, sym : Symbols \cup {None},
          entry : Entry \cup {None}, base : Entry \cup {None},
          got : Rows \cup Codes \cup {None},
          stage : {"sent", "served", "refused"}, blind : BOOLEAN] :
     /\ r.kind \in Writes \cup {"list"} => r.code # None
     /\ r.kind \in Writes \cup {"demoAdd", "detail"} => r.sym # None
     /\ r.kind \in {"save", "add", "lookupAdd"} => r.entry # None
     /\ r.kind = "save" => r.base # None
     /\ r.kind = "list" /\ r.stage = "served" => r.got \in Rows
     /\ r.kind = "create" => r.stage = "sent" \/ (r.stage = "served" /\ r.got \in Codes)}

\* None is no row and no list.
ASSUME ClientNoRecord == None \notin Entry \cup Rows

ClientTypeOK ==
  /\ lists \in [Codes -> Rows \cup {None}]
  /\ stored \in Codes \cup {None} /\ code \in Codes \cup {None}
  /\ owner \in Codes \cup {None}
  /\ cached \subseteq Symbols
  /\ items \in Rows
  /\ shown \in Symbols \cup {None} /\ detail \in Symbols \cup {None}
  /\ {creating, tracked, adding, doubt} \subseteq BOOLEAN
  /\ requests \in Seq(Requests)

\* The page is opened; the lists may have been filled from other devices.
ClientInit ==
  /\ lists \in [Codes -> {NoRows, None} \cup
                  {[NoRows EXCEPT ![s] = [note |-> TRUE, target |-> s]] : s \in Symbols}]
  /\ stored = None /\ cached = {} /\ code = None
  /\ items = demoItems /\ owner = None
  /\ creating = FALSE
  /\ shown = None /\ detail = None /\ tracked = FALSE /\ adding = FALSE
  /\ requests = <<>>
  /\ doubt = FALSE

-----------------------------------------------------------------------------
(* Sending.                                                                 *)

InFlight(kinds) == {i \in DOMAIN requests : requests[i].kind \in kinds}

Room == Len(requests) < MaxInFlight

\* listWatchlist; seed is the symbol handleAdd looks for in the answer.
Load(seed) == Request("list", seed)

\* upsertWatchlist of a whole entry.
Upsert(kind, s, e) == [Request(kind, s) EXCEPT !.entry = e]

\* handleSave: the captured row with one field changed.  unsure says that the
\* rows may not be those of the stored list.
Save(s, row, e, unsure) ==
  [Upsert("save", s, e) EXCEPT
     !.base = row,
     !.blind = unsure \/ \E i \in InFlight(Writes) : requests[i].sym = s]

Edits(s, row) == {[row EXCEPT !.note = ~@], [row EXCEPT !.target = s]} \ {row}

\* Setting the tab's code starts a load of its list (the effect on code).
Opened(c, reqs) ==
  /\ stored' = c /\ code' = c
  /\ IF c # code THEN requests' = Append(reqs, [Load(None) EXCEPT !.code = c])
                 ELSE requests' = reqs
  /\ UNCHANGED items

\* clearCode, setCode(null), setItems([]), and the effect on code.
Closed ==
  /\ stored' = None /\ cached' = {} /\ code' = None
  /\ items' = IF code # None THEN demoItems ELSE NoRows
  /\ owner' = None

Announced_Never(reqs) == reqs

\* announceChange: the tab reloads its list; without a code watchlistFetch throws
\* InvalidCodeError before any request.
Announced(reqs) == IF stored = None THEN reqs ELSE Append(reqs, Load(None))

-----------------------------------------------------------------------------
(* The tab.                                                                 *)

HandleCreate ==
  /\ code = None /\ ~creating /\ Room
  /\ creating' = TRUE
  /\ requests' = Append(requests, Request("create", None))
  /\ UNCHANGED <<lists, stored, cached, code, items, owner, modalVars, doubt>>

HandleUseExisting(c) ==
  /\ code = None /\ Room
  /\ Opened(c, requests)
  /\ UNCHANGED <<lists, cached, creating, owner, modalVars, doubt>>

HandleForget ==
  /\ code # None
  /\ Closed
  /\ UNCHANGED <<lists, creating, modalVars, requests, doubt>>

\* In demo mode the row is added when its figures are there.
HandleAdd(s) ==
  /\ items[s] = None /\ Room
  /\ requests' = Append(requests, IF code = None THEN Request("demoAdd", s)
                                                 ELSE Upsert("add", s, Blank))
  /\ UNCHANGED <<lists, stored, cached, tabVars, modalVars, doubt>>

HandleSave(s) ==
  /\ items[s] # None
  /\ \E e \in Edits(s, items[s]) :
       IF code = None
         THEN /\ items' = [items EXCEPT ![s] = e]
              /\ owner' = None
              /\ UNCHANGED requests
         ELSE /\ Room
              /\ requests' = Append(requests, Save(s, items[s], e, doubt \/ owner # stored))
              /\ UNCHANGED <<items, owner>>
  /\ UNCHANGED <<lists, stored, cached, code, creating, modalVars, doubt>>

HandleRemove(s) ==
  /\ items[s] # None
  /\ IF code = None
       THEN /\ items' = [items EXCEPT ![s] = None]
            /\ owner' = None
            /\ UNCHANGED requests
       ELSE /\ Room
            /\ requests' = Append(requests, Request("delete", s))
            /\ UNCHANGED <<items, owner>>
  /\ UNCHANGED <<lists, stored, cached, code, creating, modalVars, doubt>>

-----------------------------------------------------------------------------
(* The modal.                                                               *)

Pick(s) ==
  /\ Room
  /\ shown' = s /\ detail' = None
  /\ tracked' = (s \in cached)
  /\ requests' = Append(requests, Request("detail", s))
  /\ UNCHANGED <<lists, stored, cached, tabVars, adding, doubt>>

CloseAll ==
  /\ shown # None
  /\ shown' = None /\ detail' = None
  /\ UNCHANGED <<lists, stored, cached, tabVars, tracked, adding, requests, doubt>>

MayAdd_WhileAdding == shown # None /\ ~tracked

\* The button is there with a code; the target comes from the figures shown.
MayAdd == shown # None /\ ~tracked /\ ~adding

AddToWatchlist ==
  /\ stored # None /\ MayAdd /\ Room
  /\ adding' = TRUE
  /\ requests' = Append(requests, Upsert("lookupAdd", shown, [Blank EXCEPT !.target = detail]))
  /\ UNCHANGED <<lists, stored, cached, tabVars, shown, detail, tracked, doubt>>

\* The page is reloaded: its state and its requests are gone.
Reload ==
  /\ code' = stored
  /\ requests' = IF stored = None THEN <<>> ELSE <<Load(None)>>
  /\ items' = IF stored = None THEN demoItems ELSE NoRows
  /\ owner' = stored
  /\ creating' = FALSE
  /\ shown' = None /\ detail' = None /\ tracked' = FALSE /\ adding' = FALSE
  /\ doubt' = FALSE
  /\ UNCHANGED <<lists, stored, cached>>

-----------------------------------------------------------------------------
(* The server.                                                              *)

Serve(i) ==
  LET r == requests[i]
      c == r.code
      known == c # None /\ lists[c] # None IN
  /\ r.stage = "sent"
  /\ InOrder => \A j \in 1..(i - 1) : requests[j].stage # "sent"
  /\ \/ /\ r.kind = "list"
        /\ requests' = [requests EXCEPT ![i].stage = IF known THEN "served" ELSE "refused",
                                        ![i].got = IF known THEN lists[c] ELSE None]
        /\ UNCHANGED lists
     \/ /\ r.kind \in {"save", "add", "lookupAdd"}
        /\ lists' = IF known THEN [lists EXCEPT ![c][r.sym] = r.entry] ELSE lists
        /\ requests' = [requests EXCEPT ![i].stage = IF known THEN "served" ELSE "refused"]
     \/ /\ r.kind = "delete"
        /\ lists' = [lists EXCEPT ![c] = [(IF known THEN @ ELSE NoRows) EXCEPT ![r.sym] = None]]
        /\ requests' = [requests EXCEPT ![i].stage = "served"]
     \/ /\ r.kind = "create"
        /\ \E n \in {n \in Codes : lists[n] = None} :
             /\ lists' = [lists EXCEPT ![n] = NoRows]
             /\ requests' = [requests EXCEPT ![i].stage = "served", ![i].got = n]
     \/ /\ r.kind \in {"demoAdd", "detail"}
        /\ requests' = [requests EXCEPT ![i].stage = "served"]
        /\ UNCHANGED lists
  /\ UNCHANGED <<stored, cached, tabVars, modalVars, doubt>>

-----------------------------------------------------------------------------
(* Answers.  Rest is what stays in flight.                                  *)

Rest(i) == RemoveAt(requests, i)

Answered(i, kind) ==
  /\ requests[i].kind = kind /\ requests[i].stage # "sent"
  /\ InOrder => i = 1

CreateAnswered(i) ==
  /\ Answered(i, "create")
  /\ Opened(requests[i].got, Rest(i))
  /\ creating' = FALSE
  /\ UNCHANGED <<lists, cached, owner, modalVars, doubt>>

\* refresh has its list, which dispels doubt if it was not asked for earlier;
\* handleAdd goes on to seed a target when it has a price.
ListAnswered(i) ==
  LET r == requests[i] IN
  /\ Answered(i, "list") /\ r.stage = "served"
  /\ items' = r.got /\ owner' = r.code
  /\ cached' = Names(r.got)
  /\ doubt' = (doubt /\ ~InOrder)
  /\ \/ requests' = Rest(i)
     \/ /\ r.sym # None /\ stored # None
        /\ r.got[r.sym] # None /\ r.got[r.sym].target = None
        /\ requests' = Append(Rest(i), Save(r.sym, r.got[r.sym],
                            [r.got[r.sym] EXCEPT !.target = r.sym], r.code # stored))
  /\ UNCHANGED <<lists, stored, code, creating, modalVars>>

\* refresh has an InvalidCodeError.
ListRefused(i) ==
  /\ Answered(i, "list") /\ requests[i].stage = "refused"
  /\ Closed
  /\ requests' = Rest(i)
  /\ UNCHANGED <<lists, creating, modalVars, doubt>>

Patched_Skipped(r) == items

\* The row of the symbol, if it is still there, gets the field the edit changed.
Patched(r) ==
  IF items[r.sym] = None THEN items
  ELSE [items EXCEPT ![r.sym] =
         [note |-> IF r.entry.note # r.base.note THEN r.entry.note ELSE @.note,
          target |-> IF r.entry.target # r.base.target THEN r.entry.target ELSE @.target]]

SaveAnswered(i) ==
  LET r == requests[i] IN
  /\ Answered(i, "save")
  /\ IF r.stage = "served"
       THEN /\ requests' = Announced(Rest(i))
            /\ items' = Patched(r)
            /\ doubt' = (doubt \/ r.blind)
       ELSE requests' = Rest(i) /\ doubt' = TRUE /\ UNCHANGED items
  /\ UNCHANGED <<lists, stored, cached, code, creating, owner, modalVars>>

\* handleAdd and handleRemove: the event reloads the list, and they reload it
\* once more themselves; without a code that second refresh ends at once.
Reloaded(i, seed) ==
  IF stored # None
    THEN /\ requests' = Append(Announced(Rest(i)), Load(seed))
         /\ UNCHANGED <<stored, cached, code, items, owner>>
    ELSE Closed /\ requests' = Rest(i)

AddAnswered(i) ==
  LET r == requests[i] IN
  /\ \/ Answered(i, "add") \/ Answered(i, "delete")
  /\ IF r.stage = "served"
       THEN /\ Reloaded(i, IF r.kind = "add" THEN r.sym ELSE None)
            /\ doubt' = (doubt \/ items[r.sym] # None)
       ELSE /\ requests' = Rest(i) /\ doubt' = TRUE
            /\ UNCHANGED <<stored, cached, code, items, owner>>
  /\ UNCHANGED <<lists, creating, modalVars>>

LookupAddAnswered(i) ==
  LET r == requests[i] IN
  /\ Answered(i, "lookupAdd")
  /\ adding' = FALSE
  /\ IF r.stage = "served"
       THEN /\ requests' = Announced(Rest(i))
            /\ cached' = cached \cup {r.sym}
            /\ tracked' = TRUE
            /\ doubt' = (doubt \/ items[r.sym] # None)
       ELSE requests' = Rest(i) /\ doubt' = TRUE /\ UNCHANGED <<cached, tracked>>
  /\ UNCHANGED <<lists, stored, tabVars, shown, detail>>

DetailAnswered(i) ==
  /\ Answered(i, "detail")
  /\ detail' = requests[i].sym
  /\ requests' = Rest(i)
  /\ UNCHANGED <<lists, stored, cached, tabVars, shown, tracked, adding, doubt>>

\* A failed lookup adds the row too, without a target; whatever the mode is by
\* then.  A second row of a symbol is not told from its first.
DemoAddAnswered(i) ==
  LET s == requests[i].sym IN
  /\ Answered(i, "demoAdd")
  /\ \E t \in {s, None} : items' = [items EXCEPT
                             ![s] = IF @ = None THEN [Blank EXCEPT !.target = t] ELSE @]
  /\ owner' = None
  /\ requests' = Rest(i)
  /\ UNCHANGED <<lists, stored, cached, code, creating, modalVars, doubt>>

\* The request or its answer is lost, or the server has an error: a message is
\* shown and nothing else changes.
Fail(i) ==
  LET r == requests[i] IN
  /\ r.kind # "demoAdd"
  /\ requests' = Rest(i)
  /\ InOrder => i = 1
  /\ doubt' = TRUE
  /\ creating' = (creating /\ r.kind # "create")
  /\ adding' = (adding /\ r.kind # "lookupAdd")
  /\ UNCHANGED <<lists, stored, cached, code, items, owner, shown, detail, tracked>>

User ==
  \/ HandleCreate \/ HandleForget \/ CloseAll \/ AddToWatchlist \/ Reload
  \/ \E c \in Codes : HandleUseExisting(c)
  \/ \E s \in Symbols : HandleAdd(s) \/ HandleSave(s) \/ HandleRemove(s) \/ Pick(s)

Answer(i) ==
  \/ CreateAnswered(i) \/ ListAnswered(i) \/ ListRefused(i) \/ SaveAnswered(i)
  \/ AddAnswered(i) \/ LookupAddAnswered(i) \/ DetailAnswered(i) \/ DemoAddAnswered(i)

ClientNext == User \/ \E i \in DOMAIN requests : Serve(i) \/ Answer(i) \/ Fail(i)

ClientSpec == ClientInit /\ [][ClientNext]_clientVars

-----------------------------------------------------------------------------
(* Properties.                                                              *)

\* Once all requests are answered, in their order, the rows and the cache of
\* tracked symbols are what the server has for the code, unless a message told
\* of a failure: every acknowledged write is followed by a reload.
ShownIsServed ==
  requests = <<>> /\ ~doubt /\ code # None
  => /\ stored = code /\ items = lists[code] /\ cached = Names(items)

\* A write replaces the whole entry (StockLookup.tsx), so an edit must start from
\* the entry the server has, or it undoes another one.  handleSave sees to that,
\* except when the page had a reason to doubt its row: another write of the
\* symbol unanswered, a request that failed, rows of another list, or answers
\* that overtook each other.
EditsKeepTheRest ==
  [][\A i \in DOMAIN requests :
       LET r == requests[i] IN
       /\ r.kind = "save" /\ ~r.blind /\ r.stage = "sent"
       /\ i \in DOMAIN requests' /\ requests'[i] = [r EXCEPT !.stage = "served"]
       => lists[r.code][r.sym] \in {None, r.base}]_clientVars

\* One click, one write: the flags creating and adding outlive the modal and the
\* demo page that set them, so no second request of the kind starts before the
\* first is answered.
NoDoubleSubmit ==
  /\ Cardinality(InFlight({"create"})) <= 1
  /\ Cardinality(InFlight({"lookupAdd"})) <= 1
=============================================================================
