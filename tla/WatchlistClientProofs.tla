------------------------- MODULE WatchlistClientProofs -------------------------
(***************************************************************************)
(* Theorems about WatchlistClient, for all codes and symbols and any       *)
(* number of requests in flight.                                           *)
(***************************************************************************)
EXTENDS WatchlistClient, FiniteSetTheorems, TLAPS

Writing(i) == requests[i].kind \in Writes
ListOf(i, c) == requests[i].kind = "list" /\ requests[i].code = c
Careful(i) == requests[i].kind = "save" /\ ~requests[i].blind

\* A write of the symbol is in flight behind the i-th request.
Behind(i, s) ==
  \E j \in DOMAIN requests : j > i /\ Writing(j) /\ requests[j].sym = s

\* Requests are served from the front of the queue.
ServedFirst ==
  \A i, j \in DOMAIN requests : i < j /\ requests[i].stage = "sent" => requests[j].stage = "sent"

\* A list on its way to the page is the one the server has, but for what writes behind
\* it have changed since.
ListsFit ==
  \A i \in DOMAIN requests :
    requests[i].kind = "list" /\ requests[i].stage = "served" =>
      /\ lists[requests[i].code] # None
      /\ \A s \in Symbols :
           requests[i].got[s] = lists[requests[i].code][s] \/ Behind(i, s)

\* Whatever may still replace the rows by others is followed by a load of the list.
LoadsFollow ==
  code # None =>
    \A i \in DOMAIN requests :
      requests[i].kind = "demoAdd" \/ (requests[i].kind = "list" /\ requests[i].code # code)
      => \E k \in DOMAIN requests : k > i /\ ListOf(k, code)

\* Rows and cache are the server's, unless a write or a load is in flight.
ShownFits ==
  code # None /\ ~doubt =>
    \/ \E i \in DOMAIN requests : Writing(i) \/ ListOf(i, code)
    \/ items = lists[code] /\ cached = Names(items)

\* So is each row by itself, of the list the rows are from, unless a write of its symbol is
\* in flight.
RowsFit ==
  ~doubt /\ owner # None =>
    \A s \in Symbols :
      items[s] # None => Behind(0, s) \/ (lists[owner] # None /\ lists[owner][s] = items[s])

\* What an edit of a row the page did not doubt can count on.
SaveFits(i) ==
  LET r == requests[i] IN
  /\ \A j \in 1..(i - 1) : ~(Writing(j) /\ requests[j].sym = r.sym)
  /\ r.stage = "sent" => lists[r.code] # None /\ lists[r.code][r.sym] = r.base
  /\ r.stage = "served" =>
       lists[r.code] # None /\ (lists[r.code][r.sym] = r.entry \/ Behind(i, r.sym))
  /\ \A j \in 1..(i - 1) :
       /\ ListOf(j, r.code) /\ requests[j].stage = "served" => requests[j].got[r.sym] = r.base
       /\ requests[j].kind = "list" /\ requests[j].code # r.code
            => \E k \in (j + 1)..(i - 1) : ListOf(k, r.code)

\* With no load of its list before it, the row it started from is still the tab's.
RowIsBase(i) ==
  LET r == requests[i] IN
  (\A j \in 1..(i - 1) : ~ListOf(j, r.code)) =>
     doubt \/ owner = None \/ (owner = r.code /\ items[r.sym] = r.base)

SavesFit == \A i \in DOMAIN requests : Careful(i) => SaveFits(i) /\ RowIsBase(i)

OrderInv == ServedFirst /\ ListsFit /\ LoadsFollow /\ ShownFits /\ RowsFit /\ SavesFit

\* The page and its storage have one code.
OneCode == stored = code

\* The flag of the button is up while its request is in flight, and there is one.
OnlyOne(kind, flag) ==
  /\ \A i \in DOMAIN requests : requests[i].kind = kind => flag
  /\ \A i, j \in DOMAIN requests : requests[i].kind = kind /\ requests[j].kind = kind => i = j

SubmitInv == OnlyOne("create", creating) /\ OnlyOne("lookupAdd", adding)

TypeInv == ClientTypeOK /\ OneCode

-----------------------------------------------------------------------------
(* The queue.                                                               *)

\* Rest(i) is the queue without its i-th request.
LEMMA RestFacts ==
  ASSUME ClientTypeOK, NEW i \in DOMAIN requests
  PROVE  /\ Rest(i) \in Seq(Requests)
         /\ Len(Rest(i)) = Len(requests) - 1
         /\ \A j \in 1..(Len(requests) - 1) :
              Rest(i)[j] = IF j < i THEN requests[j] ELSE requests[j + 1]
<1>1. requests \in Seq(Requests) /\ i \in 1..Len(requests)
  BY DEF ClientTypeOK
<1> DEFINE front == SubSeq(requests, 1, i - 1)
           back == SubSeq(requests, i + 1, Len(requests))
<1>2. /\ front \in Seq(Requests) /\ Len(front) = i - 1
      /\ \A j \in 1..(i - 1) : front[j] = requests[j]
  BY <1>1
<1>3. /\ back \in Seq(Requests) /\ Len(back) = Len(requests) - i
      /\ \A j \in 1..(Len(requests) - i) : back[j] = requests[j + i]
  BY <1>1
<1>4. Rest(i) = front \o back
  BY DEF Rest, RemoveAt
<1> HIDE DEF front, back
<1> PICK n \in Nat : n = Len(requests)
  BY <1>1
<1>5. Rest(i) \in Seq(Requests)
  BY <1>2, <1>3, <1>4
<1>6. /\ Len(Rest(i)) = (i - 1) + (n - i)
      /\ \A j \in 1..((i - 1) + (n - i)) :
           Rest(i)[j] = IF j <= i - 1 THEN front[j] ELSE back[j - (i - 1)]
  BY <1>2, <1>3, <1>4
<1>7. ASSUME NEW j \in 1..(n - 1)
      PROVE  Rest(i)[j] = IF j < i THEN requests[j] ELSE requests[j + 1]
  <2>1. CASE j < i
    BY <1>1, <1>2, <1>6, <2>1
  <2>2. CASE ~(j < i)
    <3>1. j - (i - 1) \in 1..(n - i) /\ (j - (i - 1)) + i = j + 1
      BY <1>1, <2>2
    <3>2. back[j - (i - 1)] = requests[j + 1]
      BY <1>3, <3>1
    <3> QED BY <1>1, <1>6, <2>2, <3>2
  <2> QED BY <2>1, <2>2
<1> QED BY <1>1, <1>5, <1>6, <1>7

LEMMA RequestType ==
  ASSUME ClientTypeOK, NEW i \in DOMAIN requests
  PROVE  requests[i] \in Requests
BY DEF ClientTypeOK

LEMMA SaveFields ==
  ASSUME NEW s, NEW row, NEW e, NEW unsure
  PROVE  LET r == Save(s, row, e, unsure) IN
         /\ r.kind = "save" /\ r.code = stored /\ r.sym = s /\ r.entry = e /\ r.base = row
         /\ r.got = None /\ r.stage = "sent"
         /\ r.blind = (unsure \/ \E i \in InFlight(Writes) : requests[i].sym = s)
<1> DEFINE b == unsure \/ \E i \in InFlight(Writes) : requests[i].sym = s
           r == Save(s, row, e, unsure)
<1>1. r = [Upsert("save", s, e) EXCEPT !.base = row, !.blind = b]
  BY Zenon DEF Save
<1> HIDE DEF b
<1>2. /\ r.kind = "save" /\ r.code = stored /\ r.sym = s /\ r.entry = e /\ r.base = row
      /\ r.got = None /\ r.stage = "sent" /\ r.blind = b
  BY <1>1 DEF Upsert, Request
<1> QED BY <1>2 DEF b

LEMMA SentTypes ==
  ASSUME TypeInv
  PROVE  /\ \A s \in Symbols \cup {None} : stored # None => Load(s) \in Requests
         /\ \A c \in Codes : [Load(None) EXCEPT !.code = c] \in Requests
         /\ \A s \in Symbols, e \in Entry, k \in {"add", "lookupAdd"} :
              stored # None => Upsert(k, s, e) \in Requests
         /\ \A s \in Symbols, row, e \in Entry, u \in BOOLEAN :
              stored # None => Save(s, row, e, u) \in Requests
         /\ \A s \in Symbols : stored # None => Request("delete", s) \in Requests
         /\ \A s \in Symbols, k \in {"demoAdd", "detail"} : Request(k, s) \in Requests
         /\ Request("create", None) \in Requests
<1> USE ClientConstants, ClientNoRecord DEF ClientConstants, ClientNoRecord, Request, Requests, Kinds, Writes,
      TypeInv, ClientTypeOK
<1>1. \A s \in Symbols \cup {None} : stored # None => Load(s) \in Requests
  BY DEF Load
<1>2. \A c \in Codes : [Load(None) EXCEPT !.code = c] \in Requests
  BY DEF Load
<1>3. \A s \in Symbols, e \in Entry, k \in {"add", "lookupAdd"} :
        stored # None => Upsert(k, s, e) \in Requests
  BY DEF Upsert
<1>4. \A s \in Symbols, row, e \in Entry, u \in BOOLEAN :
        stored # None => Save(s, row, e, u) \in Requests
  <2>1. SUFFICES ASSUME NEW s \in Symbols, NEW row \in Entry, NEW e \in Entry, NEW u \in BOOLEAN,
                        stored # None
                 PROVE  Save(s, row, e, u) \in Requests
    OBVIOUS
  <2> DEFINE b == u \/ \E i \in InFlight(Writes) : requests[i].sym = s
  <2>2. Save(s, row, e, u) = [Upsert("save", s, e) EXCEPT !.base = row, !.blind = b]
    BY Zenon DEF Save
  <2>3. b \in BOOLEAN /\ stored \in Codes /\ row # None
    BY <2>1
  <2> HIDE ClientConstants, ClientNoRecord
             DEF b, TypeInv, ClientTypeOK, ClientConstants, ClientNoRecord, Requests
  <2> DEFINE Fields ==
        [kind : Kinds, code : Codes \cup {None}, sym : Symbols \cup {None},
         entry : Entry \cup {None}, base : Entry \cup {None},
         got : Rows \cup Codes \cup {None},
         stage : {"sent", "served", "refused"}, blind : BOOLEAN]
  <2>4. Upsert("save", s, e) \in Fields
    BY <2>3 DEF Upsert
  <2> PICK q \in Fields : q = Upsert("save", s, e)
    BY <2>4
  <2> PICK c \in BOOLEAN : c = b
    BY <2>3
  <2>5. Save(s, row, e, u) = [q EXCEPT !.base = row, !.blind = c]
    BY <2>2
  <2>6. Save(s, row, e, u) \in Fields
    BY <2>5
  <2>7. /\ Save(s, row, e, u).kind = "save" /\ Save(s, row, e, u).code = stored
        /\ Save(s, row, e, u).sym = s /\ Save(s, row, e, u).entry = e
        /\ Save(s, row, e, u).base = row
    BY SaveFields
  <2>8. stored # None /\ s # None /\ e # None /\ row # None
    BY <2>1, <2>3, ClientConstants, ClientNoRecord DEF ClientConstants, ClientNoRecord
  <2> PICK r \in Fields : r = Save(s, row, e, u)
    BY <2>6
  <2>9. r.kind = "save" /\ r.code # None /\ r.sym # None /\ r.entry # None /\ r.base # None
    BY <2>7, <2>8
  <2> QED BY <2>9 DEF Requests
<1>5. \A s \in Symbols : stored # None => Request("delete", s) \in Requests
  OBVIOUS
<1>6. \A s \in Symbols, k \in {"demoAdd", "detail"} : Request(k, s) \in Requests
  OBVIOUS
<1>7. Request("create", None) \in Requests
  OBVIOUS
<1> QED BY <1>1, <1>2, <1>3, <1>4, <1>5, <1>6, <1>7

-----------------------------------------------------------------------------
(* Types, and the one code of page and storage.                             *)

LEMMA OpenedType ==
  ASSUME TypeInv, NEW c \in Codes, NEW q \in Seq(Requests), Opened(c, q),
         UNCHANGED <<lists, cached, owner, modalVars, doubt>>, creating' \in BOOLEAN
  PROVE  TypeInv'
<1>1. requests' \in Seq(Requests)
  BY SentTypes DEF Opened
<1> QED BY <1>1 DEF Opened, TypeInv, OneCode, ClientTypeOK, modalVars

LEMMA RowsTypes == demoItems \in Rows /\ NoRows \in Rows
BY DEF demoItems, NoRows, Rows, Entry, Blank

LEMMA ClosedType ==
  ASSUME TypeInv, Closed
  PROVE  /\ stored' \in Codes \cup {None} /\ code' \in Codes \cup {None} /\ stored' = code'
         /\ owner' \in Codes \cup {None} /\ cached' \subseteq Symbols /\ items' \in Rows
BY RowsTypes DEF Closed

LEMMA AnnouncedType ==
  ASSUME TypeInv, NEW q \in Seq(Requests)
  PROVE  Announced(q) \in Seq(Requests)
BY SentTypes DEF Announced

LEMMA EditsType ==
  ASSUME NEW s \in Symbols, NEW row \in Entry, NEW e \in Edits(s, row)
  PROVE  e \in Entry
BY DEF Edits, Entry

LEMMA TabType ==
  ASSUME TypeInv,
         \/ HandleCreate \/ HandleForget
         \/ \E c \in Codes : HandleUseExisting(c)
         \/ \E s \in Symbols : HandleAdd(s) \/ HandleSave(s) \/ HandleRemove(s)
  PROVE  TypeInv'
<1> USE DEF modalVars, tabVars
<1>0. requests \in Seq(Requests)
  BY DEF TypeInv, ClientTypeOK
<1>1. CASE HandleCreate
  <2>1. requests' \in Seq(Requests)
    BY <1>0, <1>1, SentTypes DEF HandleCreate
  <2> QED BY <1>1, <2>1 DEF HandleCreate, TypeInv, OneCode, ClientTypeOK
<1>2. CASE HandleForget
  <2>1. UNCHANGED <<lists, creating, modalVars, requests, doubt>>
    BY <1>2 DEF HandleForget
  <2> QED BY <1>2, <2>1, ClosedType DEF HandleForget, TypeInv, OneCode, ClientTypeOK
<1>3. ASSUME NEW c \in Codes, HandleUseExisting(c)
      PROVE  TypeInv'
  <2>1. Opened(c, requests) /\ UNCHANGED <<lists, cached, creating, owner, modalVars, doubt>>
    BY <1>3 DEF HandleUseExisting
  <2>2. creating' \in BOOLEAN
    BY <2>1 DEF TypeInv, ClientTypeOK
  <2> QED BY <1>0, <2>1, <2>2, OpenedType
<1>4. ASSUME NEW s \in Symbols, HandleAdd(s)
      PROVE  TypeInv'
  <2>1. Blank \in Entry
    BY DEF Blank, Entry
  <2>2. requests' \in Seq(Requests)
    <3>1. CASE code = None
      BY <1>0, <1>4, <3>1, SentTypes DEF HandleAdd
    <3>2. CASE code # None
      <4>1. stored # None
        BY <3>2 DEF TypeInv, OneCode
      <4>2. Upsert("add", s, Blank) \in Requests
        BY <2>1, <4>1, SentTypes
      <4> QED BY <1>0, <1>4, <3>2, <4>2 DEF HandleAdd
    <3> QED BY <3>1, <3>2
  <2> QED BY <1>4, <2>2 DEF HandleAdd, TypeInv, OneCode, ClientTypeOK
<1>5. ASSUME NEW s \in Symbols, HandleSave(s)
      PROVE  TypeInv'
  <2>1. PICK e \in Edits(s, items[s]) :
           IF code = None
             THEN items' = [items EXCEPT ![s] = e] /\ owner' = None /\ UNCHANGED requests
             ELSE /\ requests' = Append(requests, Save(s, items[s], e, doubt \/ owner # stored))
                  /\ UNCHANGED <<items, owner>>
    BY <1>5 DEF HandleSave
  <2>2. UNCHANGED <<lists, stored, cached, code, creating, modalVars, doubt>>
    BY <1>5 DEF HandleSave
  <2>3. items[s] \in Entry
    BY <1>5 DEF HandleSave, TypeInv, ClientTypeOK, Rows
  <2>4. e \in Entry
    BY <2>1, <2>3, EditsType
  <2>5. CASE code = None
    <3>1. items' \in Rows
      BY <2>1, <2>4, <2>5 DEF TypeInv, ClientTypeOK, Rows
    <3> QED BY <2>1, <2>2, <2>5, <3>1 DEF TypeInv, OneCode, ClientTypeOK
  <2>6. CASE code # None
    <3>1. stored # None /\ (doubt \/ owner # stored) \in BOOLEAN
      BY <2>6 DEF TypeInv, OneCode
    <3>2. Save(s, items[s], e, doubt \/ owner # stored) \in Requests
      BY <2>3, <2>4, <3>1, SentTypes
    <3>3. requests' \in Seq(Requests)
      BY <1>0, <2>1, <2>6, <3>2
    <3> QED BY <2>1, <2>2, <2>6, <3>3 DEF TypeInv, OneCode, ClientTypeOK
  <2> QED BY <2>5, <2>6
<1>6. ASSUME NEW s \in Symbols, HandleRemove(s)
      PROVE  TypeInv'
  <2>1. UNCHANGED <<lists, stored, cached, code, creating, modalVars, doubt>>
    BY <1>6 DEF HandleRemove
  <2>2. CASE code = None
    <3>1. items' \in Rows
      BY <1>6, <2>2 DEF HandleRemove, TypeInv, ClientTypeOK, Rows
    <3> QED BY <1>6, <2>1, <2>2, <3>1 DEF HandleRemove, TypeInv, OneCode, ClientTypeOK
  <2>3. CASE code # None
    <3>1. requests' \in Seq(Requests)
      BY <1>0, <1>6, <2>3, SentTypes DEF HandleRemove, TypeInv, OneCode
    <3> QED BY <1>6, <2>1, <2>3, <3>1 DEF HandleRemove, TypeInv, OneCode, ClientTypeOK
  <2> QED BY <2>2, <2>3
<1> QED BY <1>1, <1>2, <1>3, <1>4, <1>5, <1>6

LEMMA ModalType ==
  ASSUME TypeInv,
         CloseAll \/ AddToWatchlist \/ Reload \/ \E s \in Symbols : Pick(s)
  PROVE  TypeInv'
<1> USE DEF modalVars, tabVars
<1>0. requests \in Seq(Requests)
  BY DEF TypeInv, ClientTypeOK
<1>1. CASE CloseAll
  BY <1>1 DEF CloseAll, TypeInv, OneCode, ClientTypeOK
<1>2. CASE AddToWatchlist
  <2>1. shown \in Symbols /\ [Blank EXCEPT !.target = detail] \in Entry
    BY <1>2 DEF AddToWatchlist, MayAdd, TypeInv, ClientTypeOK, Blank, Entry
  <2>2. Upsert("lookupAdd", shown, [Blank EXCEPT !.target = detail]) \in Requests
    BY <1>2, <2>1, SentTypes DEF AddToWatchlist
  <2>3. requests' \in Seq(Requests)
    BY <1>0, <1>2, <2>2 DEF AddToWatchlist
  <2> QED BY <1>2, <2>3 DEF AddToWatchlist, TypeInv, OneCode, ClientTypeOK
<1>3. CASE Reload
  <2>1. requests' \in Seq(Requests)
    BY <1>3, SentTypes DEF Reload
  <2> QED BY <1>3, <2>1, RowsTypes DEF Reload, TypeInv, OneCode, ClientTypeOK
<1>4. ASSUME NEW s \in Symbols, Pick(s)
      PROVE  TypeInv'
  <2>1. requests' \in Seq(Requests)
    BY <1>0, <1>4, SentTypes DEF Pick
  <2> QED BY <1>4, <2>1 DEF Pick, TypeInv, OneCode, ClientTypeOK
<1> QED BY <1>1, <1>2, <1>3, <1>4

LEMMA ServeType ==
  ASSUME TypeInv, NEW i \in DOMAIN requests, Serve(i)
  PROVE  TypeInv'
<1> DEFINE r == requests[i]
           c == r.code
           known == c # None /\ lists[c] # None
<1>0. requests \in Seq(Requests) /\ r \in Requests
  BY RequestType DEF TypeInv, ClientTypeOK
<1>1. UNCHANGED <<stored, cached, tabVars, modalVars, doubt>>
  BY DEF Serve
<1>2. lists' \in [Codes -> Rows \cup {None}] /\ requests' \in Seq(Requests)
  <2>0. \A q \in Requests : requests' = [requests EXCEPT ![i] = q] => requests' \in Seq(Requests)
    BY <1>0
  <2>1. CASE r.kind = "list" /\ requests' = [requests EXCEPT ![i].stage = IF known THEN "served" ELSE "refused",
                                       ![i].got = IF known THEN lists[c] ELSE None]
             /\ UNCHANGED lists
    <3> DEFINE q == [r EXCEPT !.stage = IF known THEN "served" ELSE "refused",
                              !.got = IF known THEN lists[c] ELSE None]
    <3>1. known => lists[c] \in Rows
      BY <1>0, <2>1 DEF TypeInv, ClientTypeOK, Requests
    <3>2. q \in Requests
      <4>1. CASE known
        BY <1>0, <2>1, <3>1, <4>1 DEF Requests, Kinds, Writes
      <4>2. CASE ~known
        <5>1. q = [r EXCEPT !.stage = "refused", !.got = None]
          BY <4>2
        <5> QED BY <1>0, <2>1, <5>1 DEF Requests, Kinds, Writes
      <4> QED BY <4>1, <4>2
    <3>3. requests' = [requests EXCEPT ![i] = q]
      BY <1>0, <2>1
    <3> QED BY <2>0, <2>1, <3>2, <3>3 DEF TypeInv, ClientTypeOK
  <2>2. CASE /\ r.kind \in {"save", "add", "lookupAdd"}
             /\ lists' = IF known THEN [lists EXCEPT ![c][r.sym] = r.entry] ELSE lists
             /\ requests' = [requests EXCEPT ![i].stage = IF known THEN "served" ELSE "refused"]
    <3> DEFINE q == [r EXCEPT !.stage = IF known THEN "served" ELSE "refused"]
    <3>1. q \in Requests
      BY <1>0, <2>2 DEF Requests, Kinds, Writes
    <3>2. requests' = [requests EXCEPT ![i] = q]
      BY <1>0, <2>2
    <3>3. r.entry \in Entry
      BY <1>0, <2>2, ClientNoRecord DEF Requests
    <3>4. lists' \in [Codes -> Rows \cup {None}]
      BY <1>0, <2>2, <3>3 DEF TypeInv, ClientTypeOK, Rows
    <3> QED BY <2>0, <3>1, <3>2, <3>4
  <2>3. CASE /\ r.kind = "delete"
             /\ lists' = [lists EXCEPT ![c] = [(IF known THEN @ ELSE NoRows) EXCEPT ![r.sym] = None]]
             /\ requests' = [requests EXCEPT ![i].stage = "served"]
    <3> DEFINE q == [r EXCEPT !.stage = "served"]
    <3>1. q \in Requests
      BY <1>0, <2>3 DEF Requests, Kinds, Writes
    <3>2. requests' = [requests EXCEPT ![i] = q]
      BY <1>0, <2>3
    <3>3. c \in Codes
      BY <1>0, <2>3 DEF Requests, Writes
    <3>4. (IF known THEN lists[c] ELSE NoRows) \in Rows
      BY <3>3, RowsTypes DEF TypeInv, ClientTypeOK
    <3>5. lists' \in [Codes -> Rows \cup {None}]
      BY <2>3, <3>3, <3>4 DEF TypeInv, ClientTypeOK, Rows
    <3> QED BY <2>0, <3>1, <3>2, <3>5
  <2>4. ASSUME r.kind = "create", NEW n \in Codes, lists' = [lists EXCEPT ![n] = NoRows],
               requests' = [requests EXCEPT ![i].stage = "served", ![i].got = n]
        PROVE  lists' \in [Codes -> Rows \cup {None}] /\ requests' \in Seq(Requests)
    <3> DEFINE q == [r EXCEPT !.stage = "served", !.got = n]
    <3>1. q \in Requests
      BY <1>0, <2>4 DEF Requests, Kinds, Writes
    <3>2. requests' = [requests EXCEPT ![i] = q]
      BY <1>0, <2>4
    <3> QED BY <2>0, <2>4, <3>1, <3>2, RowsTypes DEF TypeInv, ClientTypeOK
  <2>5. CASE r.kind \in {"demoAdd", "detail"} /\ requests' = [requests EXCEPT ![i].stage = "served"]
             /\ UNCHANGED lists
    <3> DEFINE q == [r EXCEPT !.stage = "served"]
    <3>1. q \in Requests
      BY <1>0, <2>5 DEF Requests, Kinds, Writes
    <3>2. requests' = [requests EXCEPT ![i] = q]
      BY <1>0, <2>5
    <3> QED BY <2>0, <2>5, <3>1, <3>2 DEF TypeInv, ClientTypeOK
  <2> QED BY <2>1, <2>2, <2>3, <2>4, <2>5 DEF Serve
<1> QED BY <1>1, <1>2 DEF TypeInv, OneCode, ClientTypeOK, tabVars, modalVars

LEMMA AnswerType ==
  ASSUME TypeInv, NEW i \in DOMAIN requests, Answer(i) \/ Fail(i)
  PROVE  TypeInv'
<1> DEFINE r == requests[i]
<1> USE DEF modalVars, tabVars
<1>0. Rest(i) \in Seq(Requests) /\ r \in Requests
  BY RestFacts, RequestType DEF TypeInv
<1>a. stored # None => \A q \in Seq(Requests), s \in Symbols \cup {None} :
        Announced(q) \in Seq(Requests) /\ Append(q, Load(s)) \in Seq(Requests)
             /\ Append(Announced(q), Load(s)) \in Seq(Requests)
  BY AnnouncedType, SentTypes
<1>b. Announced(Rest(i)) \in Seq(Requests)
  BY <1>0, AnnouncedType
<1>1. CASE CreateAnswered(i)
  <2>1. r.got \in Codes
    BY <1>0, <1>1 DEF CreateAnswered, Answered, Requests
  <2>2. Opened(r.got, Rest(i)) /\ UNCHANGED <<lists, cached, owner, modalVars, doubt>>
        /\ creating' \in BOOLEAN
    BY <1>1 DEF CreateAnswered
  <2> QED BY <1>0, <2>1, <2>2, OpenedType
<1>2. CASE ListAnswered(i)
  <2>1. r.kind = "list" /\ r.stage = "served" /\ r.code \in Codes
    BY <1>0, <1>2 DEF ListAnswered, Answered, Requests
  <2>2. r.got \in Rows
    BY <1>0, <2>1 DEF Requests
  <2>3. requests' \in Seq(Requests)
    <3>1. CASE requests' = Rest(i)
      BY <1>0, <3>1
    <3>2. CASE /\ r.sym # None /\ stored # None
               /\ r.got[r.sym] # None /\ r.got[r.sym].target = None
               /\ requests' = Append(Rest(i), Save(r.sym, r.got[r.sym],
                            [r.got[r.sym] EXCEPT !.target = r.sym], r.code # stored))
      <4>1. r.sym \in Symbols
        BY <1>0, <3>2 DEF Requests
      <4>2. r.got[r.sym] \in Entry
        BY <2>2, <3>2, <4>1 DEF Rows
      <4>3. [r.got[r.sym] EXCEPT !.target = r.sym] \in Entry
        BY <4>1, <4>2 DEF Entry
      <4>4. Save(r.sym, r.got[r.sym], [r.got[r.sym] EXCEPT !.target = r.sym], r.code # stored)
               \in Requests
        BY <3>2, <4>1, <4>2, <4>3, SentTypes
      <4> QED BY <1>0, <3>2, <4>4
    <3> QED BY <1>2, <3>1, <3>2 DEF ListAnswered
  <2>4. Names(r.got) \subseteq Symbols
    BY DEF Names
  <2>5. items' = r.got /\ owner' = r.code /\ cached' = Names(r.got) /\ doubt' \in BOOLEAN
        /\ UNCHANGED <<lists, stored, code, creating, modalVars>>
    BY <1>2 DEF ListAnswered
  <2> QED BY <2>1, <2>2, <2>3, <2>4, <2>5 DEF TypeInv, OneCode, ClientTypeOK
<1>3. CASE ListRefused(i)
  <2>1. Closed /\ requests' = Rest(i) /\ UNCHANGED <<lists, creating, modalVars, doubt>>
    BY <1>3 DEF ListRefused
  <2> QED BY <1>0, <2>1, ClosedType DEF TypeInv, OneCode, ClientTypeOK
<1>4. CASE SaveAnswered(i)
  <2>1. r.sym \in Symbols /\ r.entry \in Entry /\ r.base \in Entry /\ r.blind \in BOOLEAN
    BY <1>0, <1>4, ClientNoRecord DEF SaveAnswered, Answered, Requests, Writes
  <2>2. Patched(r) \in Rows
    BY <2>1 DEF Patched, TypeInv, ClientTypeOK, Rows, Entry
  <2>3. requests' \in Seq(Requests) /\ items' \in Rows /\ doubt' \in BOOLEAN
    BY <1>0, <1>b, <1>4, <2>1, <2>2 DEF SaveAnswered, TypeInv, ClientTypeOK
  <2>4. UNCHANGED <<lists, stored, cached, code, creating, owner, modalVars>>
    BY <1>4 DEF SaveAnswered
  <2> QED BY <2>3, <2>4 DEF TypeInv, OneCode, ClientTypeOK
<1>5. CASE AddAnswered(i)
  <2>1. UNCHANGED <<lists, creating, modalVars>> /\ doubt' \in BOOLEAN
    BY <1>5 DEF AddAnswered, TypeInv, ClientTypeOK
  <2>2. CASE UNCHANGED <<stored, cached, code, items, owner>> /\ requests' = Rest(i)
    BY <1>0, <2>1, <2>2 DEF TypeInv, OneCode, ClientTypeOK
  <2>3. CASE Reloaded(i, IF r.kind = "add" THEN r.sym ELSE None)
    <3>1. CASE stored = None
      BY <1>0, <2>1, <2>3, <3>1, ClosedType DEF Reloaded, TypeInv, OneCode, ClientTypeOK
    <3>2. CASE stored # None
      <4>1. (IF r.kind = "add" THEN r.sym ELSE None) \in Symbols \cup {None}
        BY <1>0 DEF Requests
      <4>2. requests' \in Seq(Requests) /\ UNCHANGED <<stored, cached, code, items, owner>>
        BY <1>0, <1>a, <2>3, <3>2, <4>1 DEF Reloaded
      <4> QED BY <2>1, <4>2 DEF TypeInv, OneCode, ClientTypeOK
    <3> QED BY <3>1, <3>2
  <2> QED BY <1>5, <2>2, <2>3 DEF AddAnswered
<1>6. CASE LookupAddAnswered(i)
  <2>1. r.sym \in Symbols
    BY <1>0, <1>6 DEF LookupAddAnswered, Answered, Requests, Writes
  <2> QED BY <1>0, <1>b, <1>6, <2>1 DEF LookupAddAnswered, TypeInv, OneCode, ClientTypeOK
<1>7. CASE DetailAnswered(i)
  <2>1. r.sym \in Symbols
    BY <1>0, <1>7 DEF DetailAnswered, Answered, Requests, Writes
  <2> QED BY <1>0, <1>7, <2>1 DEF DetailAnswered, TypeInv, OneCode, ClientTypeOK
<1>8. CASE DemoAddAnswered(i)
  <2>1. r.sym \in Symbols
    BY <1>0, <1>8 DEF DemoAddAnswered, Answered, Requests, Writes
  <2>2. items' \in Rows
    <3>1. PICK t \in {r.sym, None} :
            items' = [items EXCEPT ![r.sym] = IF @ = None THEN [Blank EXCEPT !.target = t] ELSE @]
      BY <1>8 DEF DemoAddAnswered
    <3>2. [Blank EXCEPT !.target = t] \in Entry
      BY <2>1, <3>1 DEF Blank, Entry
    <3>3. items \in Rows
      BY DEF TypeInv, ClientTypeOK
    <3> QED BY <2>1, <3>1, <3>2, <3>3 DEF Rows
  <2> QED BY <1>0, <1>8, <2>2 DEF DemoAddAnswered, TypeInv, OneCode, ClientTypeOK
<1>9. CASE Fail(i)
  BY <1>0, <1>9 DEF Fail, TypeInv, OneCode, ClientTypeOK
<1> QED BY <1>1, <1>2, <1>3, <1>4, <1>5, <1>6, <1>7, <1>8, <1>9 DEF Answer

LEMMA TypeStep ==
  ASSUME TypeInv, [ClientNext]_clientVars
  PROVE  TypeInv'
<1>1. CASE UNCHANGED clientVars
  BY <1>1 DEF clientVars, tabVars, modalVars, TypeInv, OneCode, ClientTypeOK
<1>2. CASE User
  BY <1>2, TabType, ModalType DEF User
<1>3. CASE \E i \in DOMAIN requests : Serve(i) \/ Answer(i) \/ Fail(i)
  BY <1>3, ServeType, AnswerType
<1> QED BY <1>1, <1>2, <1>3 DEF ClientNext

LEMMA TypeInit ==
  ASSUME ClientInit
  PROVE  TypeInv
<1>1. lists \in [Codes -> Rows \cup {None}]
  <2>1. \A s \in Symbols : [NoRows EXCEPT ![s] = [note |-> TRUE, target |-> s]] \in Rows
    BY RowsTypes DEF Rows, Entry
  <2> QED BY <2>1, RowsTypes DEF ClientInit
<1>2. requests \in Seq(Requests) /\ items \in Rows
  BY RowsTypes DEF ClientInit
<1> QED BY <1>1, <1>2 DEF ClientInit, TypeInv, OneCode, ClientTypeOK

\* Every request is well-formed: it has the code, symbol and entry its handler reads.
THEOREM ClientTypeCorrect == ClientSpec => []ClientTypeOK
<1>1. TypeInv => ClientTypeOK
  BY DEF TypeInv
<1> QED BY <1>1, TypeInit, TypeStep, PTL DEF ClientSpec

\* The tab and localStorage never disagree about the portfolio code: what makes
\* reading the one for the other in the modal sound.
THEOREM TabAndStorageAgree == ClientSpec => []OneCode
<1>1. TypeInv => OneCode
  BY DEF TypeInv
<1> QED BY <1>1, TypeInit, TypeStep, PTL DEF ClientSpec

-----------------------------------------------------------------------------
(* What the steps do to the queue.                                          *)

\* The i-th request leaves, none if i is past the end.
Stay(i) == IF i \in DOMAIN requests THEN Len(requests) - 1 ELSE Len(requests)
Slot(i, j) == IF j < i THEN j ELSE j + 1

\* Requests of these kinds come last; a load is for the tab's code.
Sends(i, kinds) ==
  /\ i \in 1..(Len(requests) + 1) /\ Stay(i) <= Len(requests')
  /\ \A j \in 1..Stay(i) : requests'[j] = requests[Slot(i, j)]
  /\ \A j \in (Stay(i) + 1)..Len(requests') :
       /\ requests'[j].stage = "sent" /\ requests'[j].kind \in kinds
       /\ requests'[j].kind = "list" => requests'[j].code = code'

Nothing == Len(requests) + 1

LEMMA QueueType ==
  ASSUME TypeInv
  PROVE  /\ requests \in Seq(Requests) /\ Len(requests) \in Nat
         /\ DOMAIN requests = 1..Len(requests)
         /\ Stay(Nothing) = Len(requests)
         /\ \A j \in 1..Len(requests) : Slot(Nothing, j) = j
         /\ \A i \in DOMAIN requests : Stay(i) = Len(requests) - 1
BY DEF TypeInv, ClientTypeOK, Stay, Slot, Nothing

LEMMA OneSent ==
  ASSUME TypeInv, NEW r \in Requests, requests' = Append(requests, r), r.stage = "sent",
         r.kind = "list" => r.code = code'
  PROVE  Sends(Nothing, {r.kind})
<1>1. /\ requests' \in Seq(Requests) /\ Len(requests') = Len(requests) + 1
      /\ requests'[Len(requests) + 1] = r
      /\ \A j \in 1..Len(requests) : requests'[j] = requests[j]
  BY QueueType
<1> QED BY <1>1, QueueType DEF Sends, Nothing

LEMMA NoneSent ==
  ASSUME TypeInv, UNCHANGED requests, NEW kinds
  PROVE  Sends(Nothing, kinds)
BY QueueType DEF Sends, Nothing

LEMMA SendsMore ==
  ASSUME NEW i, NEW kinds, NEW more, Sends(i, kinds), kinds \subseteq more
  PROVE  Sends(i, more)
BY DEF Sends

LEMMA TabSends ==
  ASSUME TypeInv
  PROVE  /\ HandleCreate => Sends(Nothing, {"create"})
         /\ \A c \in Codes : HandleUseExisting(c) => Sends(Nothing, {"list"})
         /\ HandleForget => Sends(Nothing, {})
         /\ \A s \in Symbols :
              /\ HandleAdd(s) => Sends(Nothing, IF code = None THEN {"demoAdd"} ELSE {"add"})
              /\ HandleSave(s) => Sends(Nothing, IF code = None THEN {} ELSE {"save"})
              /\ HandleRemove(s) => Sends(Nothing, IF code = None THEN {} ELSE {"delete"})
<1>1. ASSUME HandleCreate PROVE Sends(Nothing, {"create"})
  <2> DEFINE r == Request("create", None)
  <2>1. r \in Requests /\ r.kind = "create" /\ r.stage = "sent"
    BY SentTypes DEF Request
  <2>2. requests' = Append(requests, r)
    BY <1>1 DEF HandleCreate
  <2> HIDE DEF r
  <2> QED BY <2>1, <2>2, OneSent
<1>2. ASSUME NEW c \in Codes, HandleUseExisting(c) PROVE Sends(Nothing, {"list"})
  <2> DEFINE r == [Load(None) EXCEPT !.code = c]
  <2>1. r \in Requests /\ r.kind = "list" /\ r.stage = "sent" /\ r.code = c
    BY SentTypes DEF Load, Request
  <2>2. code' = c /\ (requests' = Append(requests, r) \/ UNCHANGED requests)
    BY <1>2 DEF HandleUseExisting, Opened
  <2> HIDE DEF r
  <2> QED BY <2>1, <2>2, OneSent, NoneSent
<1>3. ASSUME HandleForget PROVE Sends(Nothing, {})
  BY <1>3, NoneSent DEF HandleForget
<1>4. ASSUME NEW s \in Symbols, HandleAdd(s)
      PROVE  Sends(Nothing, IF code = None THEN {"demoAdd"} ELSE {"add"})
  <2>1. CASE code = None
    <3> DEFINE r == Request("demoAdd", s)
    <3>1. r \in Requests /\ r.kind = "demoAdd" /\ r.stage = "sent"
      BY SentTypes DEF Request
    <3>2. requests' = Append(requests, r)
      BY <1>4, <2>1 DEF HandleAdd
    <3> HIDE DEF r
    <3> QED BY <2>1, <3>1, <3>2, OneSent
  <2>2. CASE code # None
    <3> DEFINE r == Upsert("add", s, Blank)
    <3>1. r \in Requests /\ r.kind = "add" /\ r.stage = "sent"
      BY <2>2, SentTypes DEF Upsert, Request, TypeInv, OneCode, Blank, Entry
    <3>2. requests' = Append(requests, r)
      BY <1>4, <2>2 DEF HandleAdd
    <3> HIDE DEF r
    <3> QED BY <2>2, <3>1, <3>2, OneSent
  <2> QED BY <2>1, <2>2
<1>5. ASSUME NEW s \in Symbols, HandleSave(s)
      PROVE  Sends(Nothing, IF code = None THEN {} ELSE {"save"})
  <2>1. CASE code = None
    BY <1>5, <2>1, NoneSent DEF HandleSave
  <2>2. CASE code # None
    <3>1. PICK e \in Edits(s, items[s]) :
             requests' = Append(requests, Save(s, items[s], e, doubt \/ owner # stored))
      BY <1>5, <2>2 DEF HandleSave
    <3> DEFINE r == Save(s, items[s], e, doubt \/ owner # stored)
    <3>2. items[s] \in Entry
      BY <1>5 DEF HandleSave, TypeInv, ClientTypeOK, Rows
    <3>3. e \in Entry /\ stored # None /\ (doubt \/ owner # stored) \in BOOLEAN
      BY <2>2, <3>1, <3>2, EditsType DEF TypeInv, OneCode
    <3>4. r \in Requests
      BY <3>2, <3>3, SentTypes
    <3>5. r.kind = "save" /\ r.stage = "sent"
      BY SaveFields
    <3> HIDE DEF r
    <3> QED BY <2>2, <3>1, <3>4, <3>5, OneSent DEF r
  <2> QED BY <2>1, <2>2
<1>6. ASSUME NEW s \in Symbols, HandleRemove(s)
      PROVE  Sends(Nothing, IF code = None THEN {} ELSE {"delete"})
  <2>1. CASE code = None
    BY <1>6, <2>1, NoneSent DEF HandleRemove
  <2>2. CASE code # None
    <3> DEFINE r == Request("delete", s)
    <3>1. r \in Requests /\ r.kind = "delete" /\ r.stage = "sent"
      BY <2>2, SentTypes DEF Request, TypeInv, OneCode
    <3>2. requests' = Append(requests, r)
      BY <1>6, <2>2 DEF HandleRemove
    <3> HIDE DEF r
    <3> QED BY <2>2, <3>1, <3>2, OneSent
  <2> QED BY <2>1, <2>2
<1> QED BY <1>1, <1>2, <1>3, <1>4, <1>5, <1>6

LEMMA ModalSends ==
  ASSUME TypeInv
  PROVE  /\ CloseAll => Sends(Nothing, {})
         /\ AddToWatchlist => Sends(Nothing, {"lookupAdd"})
         /\ \A s \in Symbols : Pick(s) => Sends(Nothing, {"detail"})
<1>1. ASSUME CloseAll PROVE Sends(Nothing, {})
  BY <1>1, NoneSent DEF CloseAll
<1>2. ASSUME AddToWatchlist PROVE Sends(Nothing, {"lookupAdd"})
  <2> DEFINE r == Upsert("lookupAdd", shown, [Blank EXCEPT !.target = detail])
  <2>1. shown \in Symbols /\ [Blank EXCEPT !.target = detail] \in Entry
    BY <1>2 DEF AddToWatchlist, MayAdd, TypeInv, ClientTypeOK, Blank, Entry
  <2>2. r \in Requests
    BY <1>2, <2>1, SentTypes DEF AddToWatchlist
  <2>3. r.kind = "lookupAdd" /\ r.stage = "sent"
    BY DEF Upsert, Request
  <2>4. requests' = Append(requests, r)
    BY <1>2 DEF AddToWatchlist
  <2> HIDE DEF r
  <2> QED BY <2>2, <2>3, <2>4, OneSent
<1>3. ASSUME NEW s \in Symbols, Pick(s) PROVE Sends(Nothing, {"detail"})
  <2> DEFINE r == Request("detail", s)
  <2>1. r \in Requests /\ r.kind = "detail" /\ r.stage = "sent"
    BY SentTypes DEF Request
  <2>2. requests' = Append(requests, r)
    BY <1>3 DEF Pick
  <2> HIDE DEF r
  <2> QED BY <2>1, <2>2, OneSent
<1> QED BY <1>1, <1>2, <1>3

LEMMA RestSlots ==
  ASSUME TypeInv, NEW i \in DOMAIN requests
  PROVE  /\ i \in 1..(Len(requests) + 1) /\ Stay(i) \in Nat /\ Stay(i) = Len(requests) - 1
         /\ Rest(i) \in Seq(Requests) /\ Len(Rest(i)) = Stay(i)
         /\ \A j \in 1..Stay(i) : Rest(i)[j] = requests[Slot(i, j)]
<1>1. Stay(i) = Len(requests) - 1 /\ i \in 1..Len(requests) /\ Len(requests) \in Nat
  BY QueueType
<1>2. ClientTypeOK
  BY DEF TypeInv
<1> QED BY <1>1, <1>2, RestFacts DEF Slot

LEMMA RestOnly ==
  ASSUME TypeInv, NEW i \in DOMAIN requests, requests' = Rest(i), NEW kinds
  PROVE  Sends(i, kinds)
BY RestSlots DEF Sends

LEMMA RestAndOne ==
  ASSUME TypeInv, NEW i \in DOMAIN requests, NEW r \in Requests,
         requests' = Append(Rest(i), r), r.stage = "sent", r.kind = "list" => r.code = code'
  PROVE  Sends(i, {r.kind})
<1>1. /\ Len(requests') = Stay(i) + 1 /\ requests'[Stay(i) + 1] = r
      /\ \A j \in 1..Stay(i) : requests'[j] = Rest(i)[j]
  BY RestSlots
<1> QED BY <1>1, RestSlots DEF Sends

LEMMA RestAndTwo ==
  ASSUME TypeInv, NEW i \in DOMAIN requests, NEW r \in Requests, NEW q \in Requests,
         requests' = Append(Append(Rest(i), r), q),
         r.kind = "list", q.kind = "list", r.stage = "sent", q.stage = "sent",
         r.code = code', q.code = code'
  PROVE  Sends(i, {"list"})
<1>1. /\ Len(requests') = Stay(i) + 2
      /\ requests'[Stay(i) + 1] = r /\ requests'[Stay(i) + 2] = q
      /\ \A j \in 1..Stay(i) : requests'[j] = Rest(i)[j]
  <2>1. Append(Rest(i), r) \in Seq(Requests) /\ Len(Append(Rest(i), r)) = Stay(i) + 1
        /\ Append(Rest(i), r)[Stay(i) + 1] = r
        /\ \A j \in 1..Stay(i) : Append(Rest(i), r)[j] = Rest(i)[j]
    BY RestSlots
  <2> DEFINE p == Append(Rest(i), r)
  <2>2. p \in Seq(Requests) /\ Len(p) = Stay(i) + 1 /\ Stay(i) \in Nat
        /\ requests' = Append(p, q)
    BY <2>1, RestSlots
  <2> HIDE DEF p
  <2>3. Len(requests') = Stay(i) + 2 /\ requests'[Stay(i) + 2] = q
        /\ \A j \in 1..(Stay(i) + 1) : requests'[j] = p[j]
    BY <2>2
  <2> QED BY <2>1, <2>3, RestSlots DEF p
<1> QED BY <1>1, RestSlots DEF Sends

LEMMA LoadFields ==
  ASSUME NEW s
  PROVE  /\ Load(s).kind = "list" /\ Load(s).stage = "sent" /\ Load(s).code = stored
         /\ [Load(None) EXCEPT !.code = s].kind = "list"
         /\ [Load(None) EXCEPT !.code = s].stage = "sent" /\ [Load(None) EXCEPT !.code = s].code = s
BY DEF Load, Request

\* The load that the event starts.
LEMMA AnnouncedSends ==
  ASSUME TypeInv, NEW i \in DOMAIN requests, requests' = Announced(Rest(i)), UNCHANGED code
  PROVE  Sends(i, {"list"})
<1>1. CASE stored = None
  BY <1>1, RestOnly DEF Announced
<1>2. CASE stored # None
  <2>1. Load(None) \in Requests
    BY <1>2, SentTypes
  <2>2. requests' = Append(Rest(i), Load(None)) /\ code' = stored
    BY <1>2 DEF Announced, TypeInv, OneCode
  <2> QED BY <2>1, <2>2, LoadFields, RestAndOne
<1> QED BY <1>1, <1>2

LEMMA ReloadedSends ==
  ASSUME TypeInv, NEW i \in DOMAIN requests, NEW s \in Symbols \cup {None}, Reloaded(i, s)
  PROVE  Sends(i, {"list"})
<1>1. CASE stored = None
  BY <1>1, RestOnly DEF Reloaded
<1>2. CASE stored # None
  <2>1. Load(None) \in Requests /\ Load(s) \in Requests
    BY <1>2, SentTypes
  <2>2. requests' = Append(Append(Rest(i), Load(None)), Load(s)) /\ code' = stored
    BY <1>2 DEF Announced, Reloaded, TypeInv, OneCode
  <2> QED BY <2>1, <2>2, LoadFields, RestAndTwo
<1> QED BY <1>1, <1>2

LEMMA AnswerSends ==
  ASSUME TypeInv, NEW i \in DOMAIN requests
  PROVE  /\ CreateAnswered(i) \/ SaveAnswered(i) \/ AddAnswered(i) \/ LookupAddAnswered(i)
              => Sends(i, {"list"})
         /\ ListAnswered(i) => Sends(i, {"save"})
         /\ ListRefused(i) \/ DetailAnswered(i) \/ DemoAddAnswered(i) \/ Fail(i) => Sends(i, {})
<1> DEFINE r == requests[i]
<1>0. r \in Requests
  BY RequestType DEF TypeInv
<1>1. ASSUME CreateAnswered(i) PROVE Sends(i, {"list"})
  <2>1. r.got \in Codes
    BY <1>0, <1>1 DEF CreateAnswered, Answered, Requests
  <2> DEFINE q == [Load(None) EXCEPT !.code = r.got]
  <2>2. q \in Requests /\ q.kind = "list" /\ q.stage = "sent" /\ q.code = r.got
    BY <2>1, SentTypes, LoadFields
  <2>3. code' = r.got /\ (requests' = Append(Rest(i), q) \/ requests' = Rest(i))
    BY <1>1 DEF CreateAnswered, Opened
  <2> HIDE DEF q
  <2> QED BY <2>2, <2>3, RestOnly, RestAndOne
<1>2. ASSUME SaveAnswered(i) PROVE Sends(i, {"list"})
  BY <1>2, RestOnly, AnnouncedSends DEF SaveAnswered
<1>3. ASSUME AddAnswered(i) PROVE Sends(i, {"list"})
  <2>1. (IF r.kind = "add" THEN r.sym ELSE None) \in Symbols \cup {None}
    BY <1>0 DEF Requests
  <2>2. requests' = Rest(i) \/ Reloaded(i, IF r.kind = "add" THEN r.sym ELSE None)
    BY <1>3 DEF AddAnswered
  <2> QED BY <2>1, <2>2, RestOnly, ReloadedSends
<1>4. ASSUME LookupAddAnswered(i) PROVE Sends(i, {"list"})
  BY <1>4, RestOnly, AnnouncedSends DEF LookupAddAnswered, tabVars
<1>5. ASSUME ListAnswered(i) PROVE Sends(i, {"save"})
  <2> DEFINE q == Save(r.sym, r.got[r.sym], [r.got[r.sym] EXCEPT !.target = r.sym], r.code # stored)
  <2>1. CASE requests' = Rest(i)
    BY <2>1, RestOnly
  <2>2. CASE /\ r.sym # None /\ stored # None /\ r.got[r.sym] # None
             /\ requests' = Append(Rest(i), q)
    <3>1. r.sym \in Symbols /\ r.got \in Rows
      BY <1>0, <1>5, <2>2 DEF ListAnswered, Answered, Requests
    <3>2. r.got[r.sym] \in Entry /\ [r.got[r.sym] EXCEPT !.target = r.sym] \in Entry
      BY <2>2, <3>1 DEF Rows, Entry
    <3>3. q \in Requests
      BY <2>2, <3>1, <3>2, SentTypes
    <3>4. q.kind = "save" /\ q.stage = "sent"
      BY SaveFields
    <3> HIDE DEF q
    <3> QED BY <2>2, <3>3, <3>4, RestAndOne
  <2> QED BY <1>5, <2>1, <2>2 DEF ListAnswered
<1>6. ASSUME ListRefused(i) \/ DetailAnswered(i) \/ DemoAddAnswered(i) \/ Fail(i)
      PROVE  Sends(i, {})
  BY <1>6, RestOnly DEF ListRefused, DetailAnswered, DemoAddAnswered, Fail
<1> QED BY <1>1, <1>2, <1>3, <1>4, <1>5, <1>6

\* What serving a request leaves alone.
LEMMA ServeKeeps ==
  ASSUME TypeInv, NEW i \in DOMAIN requests, Serve(i)
  PROVE  /\ DOMAIN requests' = DOMAIN requests /\ Len(requests') = Len(requests)
         /\ requests[i].stage = "sent" /\ requests'[i].stage # "sent"
         /\ \A j \in DOMAIN requests : j # i => requests'[j] = requests[j]
         /\ \A j \in DOMAIN requests :
              /\ requests'[j].kind = requests[j].kind /\ requests'[j].code = requests[j].code
              /\ requests'[j].sym = requests[j].sym /\ requests'[j].entry = requests[j].entry
              /\ requests'[j].base = requests[j].base /\ requests'[j].blind = requests[j].blind
         /\ UNCHANGED <<stored, cached, code, items, creating, owner, shown, detail, tracked,
                        adding, doubt>>
<1>a. PICK s \in {"served", "refused"} :
         \/ requests' = [requests EXCEPT ![i].stage = s]
         \/ \E g : requests' = [requests EXCEPT ![i].stage = s, ![i].got = g]
  <2>1. CASE requests[i].kind = "list"
    BY <2>1 DEF Serve
  <2>2. CASE requests[i].kind = "create"
    BY <2>2 DEF Serve
  <2>3. CASE requests[i].kind \notin {"list", "create"}
    BY <2>3 DEF Serve
  <2> QED BY <2>1, <2>2, <2>3
<1>1. PICK g : \/ requests' = [requests EXCEPT ![i].stage = s]
               \/ requests' = [requests EXCEPT ![i].stage = s, ![i].got = g]
  BY <1>a
<1>2. requests[i] \in Requests /\ requests \in Seq(Requests)
  BY RequestType, QueueType DEF TypeInv
<1>3. /\ DOMAIN requests' = DOMAIN requests /\ Len(requests') = Len(requests)
      /\ \A j \in DOMAIN requests : j # i => requests'[j] = requests[j]
  BY <1>1, <1>2, QueueType
<1>4. /\ requests'[i].stage = s /\ requests'[i].kind = requests[i].kind
      /\ requests'[i].code = requests[i].code
      /\ requests'[i].sym = requests[i].sym /\ requests'[i].entry = requests[i].entry
      /\ requests'[i].base = requests[i].base /\ requests'[i].blind = requests[i].blind
  BY <1>1, <1>2 DEF Requests
<1> QED BY <1>1, <1>3, <1>4 DEF Serve, tabVars, modalVars

-----------------------------------------------------------------------------
(* One create, one lookupAdd.                                               *)

SubmitOK == TypeInv /\ SubmitInv

\* A request that leaves takes its flag along, and no other of its kind comes.
LEMMA SubmitMoves ==
  ASSUME SubmitOK, NEW i, Sends(i, Kinds \ {"create", "lookupAdd"}),
         creating => creating' \/ (i \in DOMAIN requests /\ requests[i].kind = "create"),
         adding => adding' \/ (i \in DOMAIN requests /\ requests[i].kind = "lookupAdd"),
         TypeInv'
  PROVE  SubmitInv'
<1> DEFINE Kept(j) == j \in 1..Stay(i) /\ Slot(i, j) \in DOMAIN requests
                         /\ requests'[j] = requests[Slot(i, j)]
<1>0. /\ requests' \in Seq(Requests) /\ DOMAIN requests' = 1..Len(requests') /\ Len(requests') \in Nat
      /\ i \in 1..(Len(requests) + 1) /\ Stay(i) \in Nat /\ Len(requests) \in Nat
      /\ DOMAIN requests = 1..Len(requests)
      /\ Stay(i) = IF i \in DOMAIN requests THEN Len(requests) - 1 ELSE Len(requests)
  BY QueueType DEF SubmitOK, Sends, Stay, TypeInv, ClientTypeOK
<1>1. ASSUME NEW j \in DOMAIN requests', requests'[j].kind \in {"create", "lookupAdd"}
      PROVE  Kept(j)
  BY <1>0, <1>1 DEF Sends, Slot
<1>2. \A j, k \in 1..Stay(i) : Slot(i, j) = Slot(i, k) => j = k
  BY <1>0 DEF Slot
<1>3. \A j \in 1..Stay(i) : Slot(i, j) # i
  BY <1>0 DEF Slot
<1>4. \A kind \in {"create", "lookupAdd"} :
        (\A j, k \in DOMAIN requests : requests[j].kind = kind /\ requests[k].kind = kind => j = k)
        => \A j, k \in DOMAIN requests' :
             requests'[j].kind = kind /\ requests'[k].kind = kind => j = k
  BY <1>1, <1>2
<1>5. ASSUME NEW j \in DOMAIN requests', requests'[j].kind = "create" PROVE creating'
  <2>1. Kept(j)
    BY <1>1, <1>5
  <2>2. creating /\ (i \in DOMAIN requests => requests[i].kind # "create")
    BY <1>3, <1>5, <2>1 DEF SubmitOK, SubmitInv, OnlyOne
  <2> QED BY <2>2
<1>6. ASSUME NEW j \in DOMAIN requests', requests'[j].kind = "lookupAdd" PROVE adding'
  <2>1. Kept(j)
    BY <1>1, <1>6
  <2>2. adding /\ (i \in DOMAIN requests => requests[i].kind # "lookupAdd")
    BY <1>3, <1>6, <2>1 DEF SubmitOK, SubmitInv, OnlyOne
  <2> QED BY <2>2
<1> QED BY <1>4, <1>5, <1>6 DEF SubmitOK, SubmitInv, OnlyOne

LEMMA SubmitUser ==
  ASSUME SubmitOK, User, TypeInv'
  PROVE  SubmitInv'
<1> USE DEF modalVars, tabVars
<1> DEFINE plain == Kinds \ {"create", "lookupAdd"}
<1>0. TypeInv
  BY DEF SubmitOK
<1>1. ASSUME Sends(Nothing, plain), UNCHANGED <<creating, adding>>
      PROVE  SubmitInv'
  <2> HIDE DEF plain
  <2> QED BY <1>1, SubmitMoves DEF plain
<1>2. CASE HandleCreate
  <2>1. ~creating /\ creating' /\ UNCHANGED adding
    BY <1>2 DEF HandleCreate
  <2>2. requests' = Append(requests, Request("create", None))
    BY <1>2 DEF HandleCreate
  <2>3. /\ DOMAIN requests' = 1..(Len(requests) + 1) /\ Len(requests) \in Nat
        /\ DOMAIN requests = 1..Len(requests)
        /\ requests'[Len(requests) + 1].kind = "create"
        /\ \A j \in 1..Len(requests) : requests'[j] = requests[j]
    BY <1>0, <2>2, QueueType, SentTypes DEF Request
  <2>4. \A j \in DOMAIN requests : requests[j].kind # "create"
    BY <2>1 DEF SubmitOK, SubmitInv, OnlyOne
  <2> QED BY <2>1, <2>3, <2>4 DEF SubmitOK, SubmitInv, OnlyOne
<1>3. CASE AddToWatchlist
  <2>1. ~adding /\ adding' /\ UNCHANGED creating
    BY <1>3 DEF AddToWatchlist, MayAdd
  <2> DEFINE r == Upsert("lookupAdd", shown, [Blank EXCEPT !.target = detail])
  <2>2. requests' = Append(requests, r) /\ r.kind = "lookupAdd"
    BY <1>3 DEF AddToWatchlist, Upsert, Request
  <2>3. /\ DOMAIN requests' = 1..(Len(requests) + 1) /\ Len(requests) \in Nat
        /\ DOMAIN requests = 1..Len(requests)
        /\ requests'[Len(requests) + 1].kind = "lookupAdd"
        /\ \A j \in 1..Len(requests) : requests'[j] = requests[j]
    BY <1>0, <2>2, QueueType
  <2>4. \A j \in DOMAIN requests : requests[j].kind # "lookupAdd"
    BY <2>1 DEF SubmitOK, SubmitInv, OnlyOne
  <2> QED BY <2>1, <2>3, <2>4 DEF SubmitOK, SubmitInv, OnlyOne
<1>4. CASE Reload
  <2>1. Load(None) \in Requests \/ stored = None
    BY <1>0, SentTypes
  <2>2. \A j \in DOMAIN requests' : requests'[j].kind = "list"
    BY <1>4, <2>1, LoadFields DEF Reload
  <2> QED BY <2>2 DEF SubmitInv, OnlyOne
<1>5. CASE CloseAll
  BY <1>0, <1>1, <1>5, ModalSends, SendsMore DEF CloseAll
<1>6. CASE HandleForget
  BY <1>0, <1>1, <1>6, TabSends, SendsMore DEF HandleForget
<1>7. ASSUME NEW c \in Codes, HandleUseExisting(c) PROVE SubmitInv'
  <2>1. {"list"} \subseteq plain
    BY DEF Kinds
  <2> QED BY <1>0, <1>1, <1>7, <2>1, TabSends, SendsMore DEF HandleUseExisting
<1>8. ASSUME NEW s \in Symbols, HandleAdd(s) \/ HandleSave(s) \/ HandleRemove(s) \/ Pick(s)
      PROVE  SubmitInv'
  <2>1. /\ {} \subseteq plain /\ {"demoAdd"} \subseteq plain /\ {"add"} \subseteq plain
        /\ {"save"} \subseteq plain /\ {"delete"} \subseteq plain /\ {"detail"} \subseteq plain
    BY DEF Kinds
  <2>2. \E kinds : kinds \subseteq plain /\ Sends(Nothing, kinds)
    BY <1>0, <1>8, <2>1, TabSends, ModalSends
  <2>3. UNCHANGED <<creating, adding>>
    BY <1>8 DEF HandleAdd, HandleSave, HandleRemove, Pick
  <2> HIDE DEF plain
  <2> QED BY <1>1, <2>2, <2>3, SendsMore
<1> QED BY <1>2, <1>3, <1>4, <1>5, <1>6, <1>7, <1>8 DEF User

LEMMA SubmitServe ==
  ASSUME SubmitOK, NEW i \in DOMAIN requests, Serve(i)
  PROVE  SubmitInv'
BY ServeKeeps DEF SubmitOK, SubmitInv, OnlyOne

LEMMA SubmitAnswer ==
  ASSUME SubmitOK, NEW i \in DOMAIN requests, Answer(i) \/ Fail(i), TypeInv'
  PROVE  SubmitInv'
<1> USE DEF modalVars, tabVars
<1> DEFINE plain == Kinds \ {"create", "lookupAdd"}
<1>0. TypeInv
  BY DEF SubmitOK
<1>1. Sends(i, plain)
  <2>1. {} \subseteq plain /\ {"list"} \subseteq plain /\ {"save"} \subseteq plain
    BY DEF Kinds
  <2> HIDE DEF plain
  <2> QED BY <1>0, <2>1, AnswerSends, SendsMore DEF Answer
<1>2. creating => creating' \/ requests[i].kind = "create"
  BY DEF Answer, Fail, CreateAnswered, ListAnswered, ListRefused, SaveAnswered, AddAnswered,
         LookupAddAnswered, DetailAnswered, DemoAddAnswered, Answered
<1>3. adding => adding' \/ requests[i].kind = "lookupAdd"
  BY DEF Answer, Fail, CreateAnswered, ListAnswered, ListRefused, SaveAnswered, AddAnswered,
         LookupAddAnswered, DetailAnswered, DemoAddAnswered, Answered
<1> HIDE DEF plain
<1> QED BY <1>1, <1>2, <1>3, SubmitMoves DEF plain

LEMMA SubmitStep ==
  ASSUME SubmitOK, [ClientNext]_clientVars
  PROVE  SubmitOK'
<1>0. TypeInv'
  BY TypeStep DEF SubmitOK
<1>1. CASE UNCHANGED clientVars
  BY <1>0, <1>1 DEF SubmitOK, clientVars, tabVars, modalVars, SubmitInv, OnlyOne
<1>2. CASE User
  BY <1>0, <1>2, SubmitUser DEF SubmitOK
<1>3. CASE \E i \in DOMAIN requests : Serve(i) \/ Answer(i) \/ Fail(i)
  BY <1>0, <1>3, SubmitServe, SubmitAnswer DEF SubmitOK
<1> QED BY <1>1, <1>2, <1>3 DEF ClientNext

\* One click, one write: whatever order requests are served and answered in, and
\* whatever fails, no second create or lookupAdd is in flight.
THEOREM NeverSubmittedTwice == ClientSpec => []NoDoubleSubmit
<1>1. ClientInit => SubmitOK
  <2>1. ClientInit => requests = <<>>
    BY DEF ClientInit
  <2>2. requests = <<>> => DOMAIN requests = {}
    OBVIOUS
  <2> QED BY <2>1, <2>2, TypeInit DEF SubmitOK, SubmitInv, OnlyOne
<1>2. SubmitOK => NoDoubleSubmit
  <2> SUFFICES ASSUME SubmitOK PROVE NoDoubleSubmit
    OBVIOUS
  <2>1. ASSUME NEW S, \A x, y \in S : x = y
        PROVE  Cardinality(S) <= 1
    <3>1. CASE S = {}
      BY <3>1, FS_EmptySet
    <3>2. CASE S # {}
      <4>1. PICK x \in S : S = {x}
        BY <2>1, <3>2
      <4> QED BY <4>1, FS_Singleton
    <3> QED BY <3>1, <3>2
  <2>2. \A kind \in {"create", "lookupAdd"} : \A x, y \in InFlight({kind}) : x = y
    BY DEF SubmitOK, SubmitInv, OnlyOne, InFlight
  <2> QED BY <2>1, <2>2 DEF NoDoubleSubmit
<1> QED BY <1>1, <1>2, SubmitStep, PTL DEF ClientSpec

-----------------------------------------------------------------------------
(* Requests served and answered in their order: serving.                    *)

OrderOK == TypeInv /\ OrderInv

LEMMA ServeLists ==
  ASSUME TypeInv, NEW i \in DOMAIN requests, Serve(i)
  PROVE  LET r == requests[i] IN
         /\ \A c \in Codes : lists[c] # None => lists'[c] # None
         /\ \A c \in Codes : lists[c] # None /\ lists'[c] # lists[c] => Writing(i)
         /\ \A c \in Codes, s \in Symbols :
              lists[c] # None /\ lists'[c][s] # lists[c][s] => Writing(i) /\ r.sym = s
         /\ r.kind = "list" /\ requests'[i].stage = "served" =>
              lists'[r.code] # None /\ requests'[i].got = lists'[r.code]
         /\ r.kind = "save" /\ lists[r.code] # None =>
              lists'[r.code] # None /\ lists'[r.code][r.sym] = r.entry
<1> DEFINE r == requests[i]
           c == r.code
           known == c # None /\ lists[c] # None
<1>0. /\ requests \in Seq(Requests) /\ r \in Requests
      /\ lists \in [Codes -> Rows \cup {None}] /\ None \notin Rows
      /\ r.kind \in Writes => c \in Codes /\ r.sym \in Symbols
  BY RequestType, ClientNoRecord DEF TypeInv, ClientTypeOK, Requests
<1>1. CASE r.kind = "list"
  <2>1. UNCHANGED lists
        /\ requests' = [requests EXCEPT ![i].stage = IF known THEN "served" ELSE "refused",
                                        ![i].got = IF known THEN lists[c] ELSE None]
    BY <1>1 DEF Serve
  <2>2. requests'[i].stage = (IF known THEN "served" ELSE "refused")
        /\ requests'[i].got = (IF known THEN lists[c] ELSE None)
    BY <1>0, <2>1 DEF Requests
  <2> QED BY <1>1, <2>1, <2>2
<1>2. CASE r.kind \in {"save", "add", "lookupAdd"}
  <2>1. lists' = IF known THEN [lists EXCEPT ![c][r.sym] = r.entry] ELSE lists
    BY <1>2 DEF Serve
  <2>2. CASE ~known
    BY <1>0, <1>2, <2>1, <2>2 DEF Requests, Writes
  <2>3. CASE known
    <3>1. c \in Codes /\ r.sym \in Symbols /\ lists[c] \in Rows /\ Writing(i) /\ r.entry \in Entry
      BY <1>0, <1>2, <2>3, ClientNoRecord DEF Writing, Writes, Requests
    <3>2. /\ lists' = [lists EXCEPT ![c] = [lists[c] EXCEPT ![r.sym] = r.entry]]
          /\ [lists[c] EXCEPT ![r.sym] = r.entry] \in Rows
      BY <1>0, <2>1, <2>3, <3>1 DEF Rows
    <3>3. /\ lists'[c] \in Rows /\ lists'[c][r.sym] = r.entry
          /\ \A s \in Symbols : s # r.sym => lists'[c][s] = lists[c][s]
          /\ \A d \in Codes : d # c => lists'[d] = lists[d]
      BY <1>0, <3>1, <3>2 DEF Rows
    <3> QED BY <1>0, <1>2, <3>1, <3>3
  <2> QED BY <2>2, <2>3
<1>3. CASE r.kind = "delete"
  <2>1. lists' = [lists EXCEPT ![c] = [(IF known THEN @ ELSE NoRows) EXCEPT ![r.sym] = None]]
    BY <1>3 DEF Serve
  <2>2. c \in Codes /\ r.sym \in Symbols /\ Writing(i)
    BY <1>0, <1>3 DEF Writing, Writes
  <2>3. /\ lists'[c] # None
        /\ known => \A s \in Symbols : s # r.sym => lists'[c][s] = lists[c][s]
        /\ \A d \in Codes : d # c => lists'[d] = lists[d]
    <3> DEFINE old == IF known THEN lists[c] ELSE NoRows
    <3>1. old \in Rows /\ (known => old = lists[c])
      BY <1>0, <2>2, RowsTypes
    <3>2. lists' = [lists EXCEPT ![c] = [old EXCEPT ![r.sym] = None]]
      BY <2>1
    <3> HIDE DEF old
    <3>3. [old EXCEPT ![r.sym] = None] \in Rows
      BY <2>2, <3>1 DEF Rows
    <3> QED BY <1>0, <2>2, <3>1, <3>2, <3>3 DEF Rows
  <2>4. c # None
    BY <2>2, ClientConstants DEF ClientConstants
  <2> QED BY <1>0, <1>3, <2>2, <2>3, <2>4
<1>4. CASE r.kind = "create"
  <2>1. PICK n \in Codes : lists[n] = None /\ lists' = [lists EXCEPT ![n] = NoRows]
    BY <1>4 DEF Serve
  <2> QED BY <1>0, <1>4, <2>1, RowsTypes
<1>5. CASE r.kind \in {"demoAdd", "detail"}
  <2>1. UNCHANGED lists
    BY <1>5 DEF Serve
  <2> QED BY <1>5, <2>1
<1>6. r.kind \in Kinds
  BY <1>0 DEF Requests
<1> QED BY <1>1, <1>2, <1>3, <1>4, <1>5, <1>6 DEF Kinds

LEMMA ServeOrder ==
  ASSUME OrderOK, InOrder, NEW i \in DOMAIN requests, Serve(i)
  PROVE  OrderInv'
<1>0. TypeInv /\ ServedFirst /\ ListsFit /\ LoadsFollow /\ ShownFits /\ RowsFit /\ SavesFit
  BY DEF OrderOK, OrderInv
<1> DEFINE r == requests[i]
<1>1. /\ \A j \in 1..(i - 1) : requests[j].stage # "sent"
      /\ i \in 1..Len(requests) /\ Len(requests) \in Nat /\ DOMAIN requests = 1..Len(requests)
  BY <1>0, QueueType DEF Serve
<1>2. /\ DOMAIN requests' = DOMAIN requests
      /\ r.stage = "sent" /\ requests'[i].stage # "sent"
      /\ \A j \in DOMAIN requests : j # i => requests'[j] = requests[j]
      /\ \A j \in DOMAIN requests :
           /\ requests'[j].kind = requests[j].kind /\ requests'[j].code = requests[j].code
           /\ requests'[j].sym = requests[j].sym /\ requests'[j].entry = requests[j].entry
           /\ requests'[j].base = requests[j].base /\ requests'[j].blind = requests[j].blind
      /\ UNCHANGED <<code, cached, items, owner, doubt>>
  BY <1>0, ServeKeeps
<1>3. /\ \A j, s : Behind(j, s)' <=> Behind(j, s)
      /\ \A j \in DOMAIN requests : Writing(j)' = Writing(j) /\ Careful(j)' = Careful(j)
      /\ \A c : \A j \in DOMAIN requests : ListOf(j, c)' = ListOf(j, c)
  BY <1>2 DEF Behind, Writing, Careful, ListOf
<1>4. \A j \in DOMAIN requests : requests[j].code \in Codes \cup {None}
        /\ (requests[j].kind = "list" \/ requests[j].kind = "save" => requests[j].code \in Codes)
        /\ (requests[j].kind = "save" => requests[j].sym \in Symbols)
  BY <1>0, RequestType DEF TypeInv, Requests, Writes
<1>5. ServedFirst'
  BY <1>0, <1>1, <1>2 DEF ServedFirst
<1>6. ListsFit'
  <2> SUFFICES ASSUME NEW j \in DOMAIN requests, requests[j].kind = "list",
                      requests'[j].stage = "served"
               PROVE  /\ lists'[requests[j].code] # None
                      /\ \A s \in Symbols :
                           requests'[j].got[s] = lists'[requests[j].code][s] \/ Behind(j, s)
    BY <1>2, <1>3 DEF ListsFit
  <2>1. CASE j = i
    BY <1>0, <2>1, ServeLists
  <2>2. CASE j # i
    <3>1. requests'[j] = requests[j] /\ j < i
      BY <1>0, <1>1, <1>2, <2>2 DEF ServedFirst
    <3>2. /\ lists[requests[j].code] # None
          /\ \A s \in Symbols : requests[j].got[s] = lists[requests[j].code][s] \/ Behind(j, s)
      BY <1>0, <3>1 DEF ListsFit
    <3>3. \A s \in Symbols : lists'[requests[j].code][s] # lists[requests[j].code][s] => Behind(j, s)
      BY <1>0, <1>4, <3>1, <3>2, ServeLists DEF Behind
    <3> QED BY <1>0, <1>4, <3>1, <3>2, <3>3, ServeLists
  <2> QED BY <2>1, <2>2
<1>7. LoadsFollow'
  BY <1>0, <1>2, <1>3 DEF LoadsFollow
<1>8. ShownFits'
  <2>1. code # None /\ ~doubt /\ items = lists[code] /\ ~Writing(i) => lists'[code] = lists[code]
    <3>1. items \in Rows /\ code \in Codes \cup {None} /\ None \notin Rows
      BY <1>0, ClientNoRecord DEF TypeInv, ClientTypeOK
    <3> QED BY <1>0, <3>1, ServeLists
  <2> QED BY <1>0, <1>2, <1>3, <2>1 DEF ShownFits, Names
<1>9. RowsFit'
  <2>1. owner \in Codes \cup {None}
    BY <1>0 DEF TypeInv, ClientTypeOK
  <2>2. \A s \in Symbols : Writing(i) /\ r.sym = s => Behind(0, s)
    BY <1>1 DEF Behind
  <2>3. owner # None /\ lists[owner] # None =>
          lists'[owner] # None /\ \A s \in Symbols : lists'[owner][s] # lists[owner][s] => Behind(0, s)
    BY <1>0, <2>1, <2>2, ServeLists
  <2> QED BY <1>0, <1>2, <1>3, <2>3 DEF RowsFit
<1>10. ASSUME NEW j \in DOMAIN requests, Careful(j) PROVE SaveFits(j)' /\ RowIsBase(j)'
  <2> DEFINE q == requests[j]
  <2>1. SaveFits(j) /\ RowIsBase(j) /\ q.kind = "save" /\ q.code \in Codes /\ q.sym \in Symbols
    BY <1>0, <1>4, <1>10 DEF SavesFit, Careful
  <2>2. RowIsBase(j)'
    <3>1. \A k \in 1..(j - 1) : k \in DOMAIN requests
      BY <1>1
    <3>2. \A k \in 1..(j - 1) :
            ListOf(k, q.code) <=> requests'[k].kind = "list" /\ requests'[k].code = requests'[j].code
      BY <1>2, <3>1 DEF ListOf
    <3> QED BY <1>2, <2>1, <3>2 DEF RowIsBase, ListOf
  <2>3. \A k \in 1..(j - 1) : ~(Writing(k)' /\ requests'[k].sym = requests'[j].sym)
    BY <1>1, <1>2, <1>3, <2>1 DEF SaveFits
  <2>4. ASSUME requests'[j].stage = "sent"
        PROVE  lists'[q.code] # None /\ lists'[q.code][q.sym] = q.base
    <3>1. j # i /\ q.stage = "sent" /\ j > i
      BY <1>1, <1>2, <2>4
    <3>2. lists[q.code] # None /\ lists[q.code][q.sym] = q.base
      BY <2>1, <3>1 DEF SaveFits
    <3>3. ~(Writing(i) /\ r.sym = q.sym)
      BY <1>1, <2>1, <3>1 DEF SaveFits
    <3> QED BY <1>0, <2>1, <3>2, <3>3, ServeLists
  <2>5. ASSUME requests'[j].stage = "served"
        PROVE  lists'[q.code] # None /\ (lists'[q.code][q.sym] = q.entry \/ Behind(j, q.sym))
    <3>1. CASE j = i
      <4>1. lists[q.code] # None
        BY <1>2, <2>1, <3>1 DEF SaveFits
      <4> QED BY <1>0, <2>1, <3>1, <4>1, ServeLists
    <3>2. CASE j # i
      <4>1. q.stage = "served" /\ j < i
        BY <1>0, <1>1, <1>2, <2>5, <3>2 DEF ServedFirst
      <4>2. lists[q.code] # None /\ (lists[q.code][q.sym] = q.entry \/ Behind(j, q.sym))
        BY <2>1, <4>1 DEF SaveFits
      <4>3. lists'[q.code][q.sym] # lists[q.code][q.sym] => Behind(j, q.sym)
        BY <1>0, <2>1, <4>1, <4>2, ServeLists DEF Behind
      <4> QED BY <1>0, <2>1, <4>2, <4>3, ServeLists
    <3> QED BY <3>1, <3>2
  <2>6. ASSUME NEW k \in 1..(j - 1)
        PROVE  /\ ListOf(k, q.code) /\ requests'[k].stage = "served" => requests'[k].got[q.sym] = q.base
               /\ requests[k].kind = "list" /\ requests[k].code # q.code
                    => \E l \in (k + 1)..(j - 1) : ListOf(l, q.code)
    <3>1. CASE k # i
      <4>1. requests'[k] = requests[k]
        BY <1>1, <1>2, <3>1
      <4> QED BY <2>1, <4>1 DEF SaveFits
    <3>2. CASE k = i
      <4>1. q.stage = "sent"
        BY <1>0, <1>1, <1>2, <3>2 DEF ServedFirst
      <4>2. lists[q.code] # None /\ lists[q.code][q.sym] = q.base /\ ~(Writing(i) /\ r.sym = q.sym)
        BY <2>1, <3>2, <4>1 DEF SaveFits
      <4>3. lists'[q.code][q.sym] = q.base
        BY <1>0, <2>1, <4>2, ServeLists
      <4>4. ListOf(k, q.code) /\ requests'[k].stage = "served" => requests'[k].got[q.sym] = q.base
        BY <1>0, <3>2, <4>3, ServeLists DEF ListOf
      <4> QED BY <2>1, <4>4 DEF SaveFits
    <3> QED BY <3>1, <3>2
  <2>7. SaveFits(j)'
    BY <1>1, <1>2, <1>3, <2>3, <2>4, <2>5, <2>6 DEF SaveFits
  <2> QED BY <2>2, <2>7
<1> QED BY <1>2, <1>3, <1>5, <1>6, <1>7, <1>8, <1>9, <1>10 DEF OrderInv, SavesFit

-----------------------------------------------------------------------------
(* Requests served and answered in their order: clicks and answers.         *)

\* The first d requests leave, none or one.
Shifted(d, kinds) ==
  /\ d \in {0, 1} /\ d <= Len(requests) /\ Len(requests) - d <= Len(requests')
  /\ \A j \in 1..(Len(requests) - d) : requests'[j] = requests[j + d]
  /\ \A j \in (Len(requests) - d + 1)..Len(requests') :
       /\ requests'[j].stage = "sent" /\ requests'[j].kind \in kinds
       /\ requests'[j].kind = "list" => requests'[j].code = code'

LEMMA ShiftedNone ==
  ASSUME TypeInv, NEW kinds, Sends(Nothing, kinds)
  PROVE  Shifted(0, kinds)
BY QueueType DEF Sends, Shifted

LEMMA ShiftedOne ==
  ASSUME TypeInv, NEW kinds, 1 \in DOMAIN requests, Sends(1, kinds)
  PROVE  Shifted(1, kinds)
<1>1. Stay(1) = Len(requests) - 1 /\ Len(requests) \in Nat \ {0}
  BY QueueType
<1>2. \A j \in 1..Stay(1) : Slot(1, j) = j + 1
  BY <1>1 DEF Slot
<1> QED BY <1>1, <1>2 DEF Sends, Shifted

LEMMA ShiftedDomain ==
  ASSUME TypeInv, TypeInv', NEW d, NEW kinds, Shifted(d, kinds)
  PROVE  /\ DOMAIN requests = 1..Len(requests) /\ Len(requests) \in Nat
         /\ DOMAIN requests' = 1..Len(requests') /\ Len(requests') \in Nat
         /\ \A j \in DOMAIN requests : j > d => j - d \in DOMAIN requests' /\ requests'[j - d] = requests[j]
         /\ \A j \in DOMAIN requests' :
              \/ j + d \in DOMAIN requests /\ j <= Len(requests) - d /\ requests'[j] = requests[j + d]
              \/ j > Len(requests) - d /\ requests'[j].stage = "sent" /\ requests'[j].kind \in kinds
                   /\ (requests'[j].kind = "list" => requests'[j].code = code')
<1>1. /\ DOMAIN requests = 1..Len(requests) /\ Len(requests) \in Nat
      /\ DOMAIN requests' = 1..Len(requests') /\ Len(requests') \in Nat
  BY QueueType DEF TypeInv, ClientTypeOK
<1>2. ASSUME NEW j \in DOMAIN requests, j > d
      PROVE  j - d \in DOMAIN requests' /\ requests'[j - d] = requests[j]
  <2>1. j - d \in 1..(Len(requests) - d) /\ (j - d) + d = j
    BY <1>1, <1>2 DEF Shifted
  <2>2. requests'[j - d] = requests[(j - d) + d]
    BY <2>1 DEF Shifted
  <2> QED BY <1>1, <2>1, <2>2 DEF Shifted
<1>3. ASSUME NEW j \in DOMAIN requests'
      PROVE  \/ j + d \in DOMAIN requests /\ j <= Len(requests) - d /\ requests'[j] = requests[j + d]
             \/ j > Len(requests) - d /\ requests'[j].stage = "sent" /\ requests'[j].kind \in kinds
                  /\ (requests'[j].kind = "list" => requests'[j].code = code')
  <2>1. CASE j <= Len(requests) - d
    <3>1. j \in 1..(Len(requests) - d) /\ j + d \in DOMAIN requests
      BY <1>1, <1>3, <2>1 DEF Shifted
    <3> QED BY <2>1, <3>1 DEF Shifted
  <2>2. CASE j > Len(requests) - d
    <3>1. j \in (Len(requests) - d + 1)..Len(requests')
      BY <1>1, <1>3, <2>2 DEF Shifted
    <3> QED BY <2>2, <3>1 DEF Shifted
  <2> QED BY <1>1, <1>3, <2>1, <2>2 DEF Shifted
<1> QED BY <1>1, <1>2, <1>3

LEMMA ShiftedBack ==
  ASSUME TypeInv, TypeInv', NEW d, NEW kinds, Shifted(d, kinds), NEW j \in DOMAIN requests, j > d
  PROVE  /\ d \in {0, 1} /\ j \in Nat /\ j - d \in Nat \ {0} /\ (j - d) + d = j
         /\ j - d \in DOMAIN requests' /\ requests'[j - d] = requests[j]
<1>1. j \in 1..Len(requests) /\ Len(requests) \in Nat /\ d \in {0, 1}
  BY ShiftedDomain DEF Shifted
<1>2. j - d \in DOMAIN requests' /\ requests'[j - d] = requests[j]
  BY ShiftedDomain
<1> QED BY <1>1, <1>2

LEMMA BehindKept ==
  ASSUME TypeInv, TypeInv', NEW d, NEW kinds, Shifted(d, kinds), NEW s
  PROVE  /\ \A j \in Nat : Behind(j + d, s) => Behind(j, s)'
         /\ Behind(0, s) => Behind(0, s)' \/ (d = 1 /\ Writing(1) /\ requests[1].sym = s)
<1>1. d \in {0, 1}
  BY DEF Shifted
<1>2. ASSUME NEW j \in Nat, Behind(j + d, s) PROVE Behind(j, s)'
  <2>1. PICK k \in DOMAIN requests : k > j + d /\ Writing(k) /\ requests[k].sym = s
    BY <1>2 DEF Behind
  <2>2. k \in Nat /\ k > d /\ k - d > j
    BY <1>1, <2>1, ShiftedDomain
  <2>3. k - d \in DOMAIN requests' /\ requests'[k - d] = requests[k]
    BY <2>1, <2>2, ShiftedDomain
  <2> QED BY <2>1, <2>2, <2>3 DEF Behind, Writing
<1>3. ASSUME Behind(0, s), ~(d = 1 /\ Writing(1) /\ requests[1].sym = s)
      PROVE  Behind(0, s)'
  <2>1. PICK k \in DOMAIN requests : k > 0 /\ Writing(k) /\ requests[k].sym = s
    BY <1>3 DEF Behind
  <2>2. k \in Nat /\ k > d
    BY <1>1, <1>3, <2>1, ShiftedDomain
  <2>3. Behind(0 + d, s)
    BY <1>1, <2>1, <2>2 DEF Behind
  <2> QED BY <1>2, <2>3
<1> QED BY <1>2, <1>3

LEMMA FirstKept ==
  ASSUME TypeInv, TypeInv', NEW d, NEW kinds, Shifted(d, kinds), ServedFirst
  PROVE  ServedFirst'
<1>1. d \in {0, 1}
  BY DEF Shifted
<1> SUFFICES ASSUME NEW j \in DOMAIN requests', NEW k \in DOMAIN requests', j < k,
                    requests'[j].stage = "sent"
             PROVE  requests'[k].stage = "sent"
  BY DEF ServedFirst
<1>2. CASE k > Len(requests) - d
  BY <1>1, <1>2, ShiftedDomain
<1>3. CASE k <= Len(requests) - d
  <2>1. /\ j + d \in DOMAIN requests /\ k + d \in DOMAIN requests /\ j + d < k + d
        /\ requests'[j] = requests[j + d] /\ requests'[k] = requests[k + d]
    BY <1>1, <1>3, ShiftedDomain
  <2> QED BY <2>1 DEF ServedFirst
<1> QED BY <1>1, <1>2, <1>3, ShiftedDomain

LEMMA ListsKept ==
  ASSUME TypeInv, TypeInv', NEW d, NEW kinds, Shifted(d, kinds), ListsFit, UNCHANGED lists
  PROVE  ListsFit'
<1>1. d \in {0, 1}
  BY DEF Shifted
<1> SUFFICES ASSUME NEW j \in DOMAIN requests', requests'[j].kind = "list",
                    requests'[j].stage = "served"
             PROVE  /\ lists[requests'[j].code] # None
                    /\ \A s \in Symbols :
                         requests'[j].got[s] = lists[requests'[j].code][s] \/ Behind(j, s)'
  BY DEF ListsFit
<1>2. j + d \in DOMAIN requests /\ requests'[j] = requests[j + d] /\ j \in Nat
  BY ShiftedDomain
<1>3. \A s \in Symbols : Behind(j + d, s) => Behind(j, s)'
  BY <1>2, BehindKept
<1> QED BY <1>2, <1>3 DEF ListsFit

LEMMA LoadsKept ==
  ASSUME TypeInv, TypeInv', NEW d, NEW kinds, Shifted(d, kinds), LoadsFollow,
         UNCHANGED code, code # None => "demoAdd" \notin kinds
  PROVE  LoadsFollow'
<1>1. d \in {0, 1}
  BY DEF Shifted
<1> SUFFICES ASSUME code # None, NEW j \in DOMAIN requests',
                    requests'[j].kind = "demoAdd"
                      \/ (requests'[j].kind = "list" /\ requests'[j].code # code)
             PROVE  \E k \in DOMAIN requests' : k > j /\ ListOf(k, code)'
  BY DEF LoadsFollow, ListOf
<1>2. j + d \in DOMAIN requests /\ requests'[j] = requests[j + d] /\ j \in Nat
  BY ShiftedDomain
<1>3. PICK k \in DOMAIN requests : k > j + d /\ ListOf(k, code)
  BY <1>2 DEF LoadsFollow
<1>4. k - d > j /\ k - d \in DOMAIN requests' /\ requests'[k - d] = requests[k]
  BY <1>1, <1>2, <1>3, ShiftedDomain
<1> QED BY <1>3, <1>4 DEF ListOf

\* The effect on code: the load of the new list comes last.
LEMMA LoadsOpened ==
  ASSUME TypeInv', requests' # <<>>,
         requests'[Len(requests')].kind = "list", requests'[Len(requests')].code = code'
  PROVE  LoadsFollow'
<1>1. DOMAIN requests' = 1..Len(requests') /\ Len(requests') \in Nat \ {0}
  BY DEF TypeInv, ClientTypeOK
<1> QED BY <1>1 DEF LoadsFollow, ListOf

LEMMA SaveKept ==
  ASSUME TypeInv, TypeInv', NEW d, NEW kinds, Shifted(d, kinds), UNCHANGED lists,
         NEW j \in DOMAIN requests, j > d, SaveFits(j)
  PROVE  SaveFits(j - d)'
<1> DEFINE r == requests[j]
           i == j - d
<1>0. /\ d \in {0, 1} /\ j \in Nat /\ i \in Nat \ {0} /\ i + d = j
      /\ i \in DOMAIN requests' /\ requests'[i] = r
  BY ShiftedBack
<1> HIDE DEF i
<1>1. \A k \in 1..(i - 1) :
        k + d \in 1..(j - 1) /\ k + d \in DOMAIN requests /\ requests'[k] = requests[k + d]
  <2>1. ASSUME NEW k \in 1..(i - 1)
        PROVE  k + d \in 1..(j - 1) /\ k + d \in DOMAIN requests /\ requests'[k] = requests[k + d]
    <3>1. k + d \in 1..(j - 1) /\ k + d \in DOMAIN requests /\ k + d > d /\ (k + d) - d = k
      BY <1>0, ShiftedDomain
    <3>2. requests'[(k + d) - d] = requests[k + d]
      BY <3>1, ShiftedDomain
    <3> QED BY <3>1, <3>2
  <2> QED BY <2>1
<1>2. \A k \in 1..(i - 1) : ~(Writing(k)' /\ requests'[k].sym = r.sym)
  BY <1>1 DEF SaveFits, Writing
<1>3. r.stage = "sent" => lists[r.code] # None /\ lists[r.code][r.sym] = r.base
  BY DEF SaveFits
<1>4. r.stage = "served" =>
        lists[r.code] # None
        /\ (lists[r.code][r.sym] = r.entry
             \/ \E k \in DOMAIN requests' :
                  k > i /\ requests'[k].kind \in Writes /\ requests'[k].sym = r.sym)
  <2>1. PICK s : s = r.sym
    OBVIOUS
  <2>2. Behind(i + d, s) => Behind(i, s)'
    BY <1>0, BehindKept
  <2>3. Behind(j, s) => Behind(i, s)'
    BY <1>0, <2>2
  <2>4. Behind(i, s)' => \E k \in DOMAIN requests' :
                  k > i /\ requests'[k].kind \in Writes /\ requests'[k].sym = r.sym
    BY <2>1 DEF Behind, Writing
  <2> QED BY <2>1, <2>3, <2>4 DEF SaveFits
<1>5. ASSUME NEW k \in 1..(i - 1)
      PROVE  /\ requests'[k].kind = "list" /\ requests'[k].code = r.code /\ requests'[k].stage = "served"
                  => requests'[k].got[r.sym] = r.base
             /\ requests'[k].kind = "list" /\ requests'[k].code # r.code
                  => \E l \in (k + 1)..(i - 1) : requests'[l].kind = "list" /\ requests'[l].code = r.code
  <2>1. requests'[k].kind = "list" /\ requests'[k].code = r.code /\ requests'[k].stage = "served"
          => requests'[k].got[r.sym] = r.base
    BY <1>1, <1>5 DEF SaveFits, ListOf
  <2>2. ASSUME requests'[k].kind = "list", requests'[k].code # r.code
        PROVE  \E l \in (k + 1)..(i - 1) : requests'[l].kind = "list" /\ requests'[l].code = r.code
    <3>1. PICK l \in (k + d + 1)..(j - 1) : ListOf(l, r.code)
      BY <1>1, <1>5, <2>2 DEF SaveFits
    <3>2. l - d \in (k + 1)..(i - 1) /\ (l - d) + d = l
      BY <1>0, <1>5, <3>1
    <3>3. l - d \in 1..(i - 1)
      BY <1>0, <1>5, <3>2
    <3>4. requests'[l - d] = requests[l]
      BY <1>1, <3>2, <3>3
    <3> QED BY <3>1, <3>2, <3>4 DEF ListOf
  <2> QED BY <2>1, <2>2
<1>6. SaveFits(i)'
  BY <1>0, <1>2, <1>3, <1>4, <1>5 DEF SaveFits, ListOf, Behind, Writing
<1> QED BY <1>6 DEF i

LEMMA BaseKept ==
  ASSUME TypeInv, TypeInv', NEW d, NEW kinds, Shifted(d, kinds),
         NEW j \in DOMAIN requests, j > d, RowIsBase(j),
         d = 1 => requests[1].kind # "list", doubt => doubt',
         owner' = None \/ (owner' = owner /\ items'[requests[j].sym] = items[requests[j].sym])
  PROVE  RowIsBase(j - d)'
<1> DEFINE r == requests[j]
           i == j - d
<1>0. /\ d \in {0, 1} /\ j \in Nat /\ i \in Nat \ {0} /\ i + d = j
      /\ i \in DOMAIN requests' /\ requests'[i] = r
  BY ShiftedBack
<1> HIDE DEF i
<1>1. ASSUME \A k \in 1..(i - 1) : ~(requests'[k].kind = "list" /\ requests'[k].code = r.code),
             NEW k \in 1..(j - 1)
      PROVE  ~ListOf(k, r.code)
  <2>1. CASE k > d
    <3>1. k - d \in 1..(i - 1) /\ k \in DOMAIN requests
      <4>1. k \in Nat /\ k < j /\ k - d \in 1..(i - 1)
        BY <1>0, <1>1, <2>1
      <4>2. j <= Len(requests) /\ DOMAIN requests = 1..Len(requests)
        BY ShiftedDomain
      <4> QED BY <1>1, <4>1, <4>2, ShiftedDomain
    <3>2. requests'[k - d] = requests[k]
      BY <2>1, <3>1, ShiftedDomain
    <3> QED BY <1>1, <3>1, <3>2 DEF ListOf
  <2>2. CASE k <= d
    <3>1. k = 1 /\ d = 1
      BY <1>0, <2>2
    <3> QED BY <3>1 DEF ListOf
  <2> QED BY <1>0, <2>1, <2>2
<1>2. RowIsBase(i)'
  BY <1>0, <1>1 DEF RowIsBase, ListOf
<1> QED BY <1>2 DEF i

\* No save is sent: those in flight stay as they were.
LEMMA SavesKept ==
  ASSUME TypeInv, TypeInv', NEW d, NEW kinds, Shifted(d, kinds), SavesFit, UNCHANGED lists,
         "save" \notin kinds, doubt => doubt',
         \/ doubt'
         \/ owner' = None
         \/ /\ d = 1 => requests[1].kind # "list"
            /\ owner' = owner
            /\ \A j \in DOMAIN requests :
                 j > d /\ Careful(j) => items'[requests[j].sym] = items[requests[j].sym]
  PROVE  SavesFit'
<1> SUFFICES ASSUME NEW i \in DOMAIN requests', Careful(i)'
             PROVE  SaveFits(i)' /\ RowIsBase(i)'
  BY DEF SavesFit
<1> DEFINE j == i + d
<1>1. /\ d \in {0, 1} /\ j \in DOMAIN requests /\ j > d /\ j - d = i /\ requests'[i] = requests[j]
  <2>1. requests'[i].kind \notin kinds /\ d \in {0, 1}
    BY DEF Careful, Shifted
  <2>2. i + d \in DOMAIN requests /\ requests'[i] = requests[i + d] /\ i \in Nat \ {0}
    BY <2>1, ShiftedDomain
  <2> QED BY <2>1, <2>2
<1> HIDE DEF j
<1>2. SaveFits(j) /\ RowIsBase(j) /\ Careful(j)
  BY <1>1 DEF SavesFit, Careful
<1>3. SaveFits(j - d)'
  BY <1>1, <1>2, SaveKept
<1>4. CASE doubt' \/ owner' = None
  BY <1>1, <1>3, <1>4 DEF RowIsBase
<1>5. CASE ~doubt' /\ owner' # None
  <2>1. RowIsBase(j - d)'
    BY <1>1, <1>2, <1>5, BaseKept
  <2> QED BY <1>1, <1>3, <2>1
<1> QED BY <1>4, <1>5

LEMMA ShownKept ==
  ASSUME TypeInv, TypeInv', NEW d, NEW kinds, Shifted(d, kinds), ShownFits,
         UNCHANGED <<lists, code, items, cached>>, doubt => doubt',
         d = 1 => ~Writing(1) /\ requests[1].kind # "list"
  PROVE  ShownFits'
<1> SUFFICES ASSUME code # None, ~doubt,
                    NEW i \in DOMAIN requests, Writing(i) \/ ListOf(i, code)
             PROVE  \E k \in DOMAIN requests' : Writing(k)' \/ ListOf(k, code)'
  BY DEF ShownFits, Names, ListOf, Writing
<1>1. d \in {0, 1} /\ i \in Nat /\ i > d
  <2>1. d \in {0, 1} /\ i \in 1..Len(requests) /\ Len(requests) \in Nat
    BY ShiftedDomain DEF Shifted
  <2>2. d = 1 => i # 1
    BY DEF ListOf
  <2> QED BY <2>1, <2>2
<1>2. i - d \in DOMAIN requests' /\ requests'[i - d] = requests[i]
  BY <1>1, ShiftedDomain
<1> QED BY <1>2 DEF ListOf, Writing

\* Something is sent, and it is a write or a load of the tab's list.
LEMMA ShownSent ==
  ASSUME TypeInv, TypeInv', NEW d, NEW kinds, Shifted(d, kinds),
         Len(requests') > Len(requests) - d, kinds \subseteq Writes \cup {"list"}
  PROVE  /\ ShownFits'
         /\ kinds = {"list"} => LoadsFollow'
<1>0. PICK n : n = Len(requests')
  OBVIOUS
<1>1. /\ n \in DOMAIN requests' /\ requests'[n].kind \in kinds
      /\ requests'[n].kind = "list" => requests'[n].code = code'
  BY <1>0, ShiftedDomain DEF Shifted
<1>2. Writing(n)' \/ (requests'[n].kind = "list" /\ requests'[n].code = code')
  BY <1>1 DEF Writing
<1>3. ShownFits'
  BY <1>1, <1>2 DEF ShownFits, ListOf, Writing
<1>4. requests' # <<>>
  BY <1>1
<1> QED BY <1>0, <1>1, <1>3, <1>4, LoadsOpened

LEMMA RowsKept ==
  ASSUME TypeInv, TypeInv', NEW d, NEW kinds, Shifted(d, kinds), RowsFit,
         UNCHANGED <<lists, owner>>, doubt => doubt',
         \A s \in Symbols : items'[s] # None =>
           items'[s] = items[s] /\ ~(d = 1 /\ Writing(1) /\ requests[1].sym = s)
  PROVE  RowsFit'
<1> SUFFICES ASSUME ~doubt, owner # None, NEW s \in Symbols, items'[s] # None
             PROVE  Behind(0, s)' \/ (lists[owner] # None /\ lists[owner][s] = items'[s])
  BY DEF RowsFit
<1>1. Behind(0, s) => Behind(0, s)'
  BY BehindKept
<1> QED BY <1>1 DEF RowsFit

\* Nothing the invariant is about changes.
LEMMA QuietOrder ==
  ASSUME OrderOK, TypeInv', NEW d, NEW kinds, Shifted(d, kinds),
         UNCHANGED <<lists, code, items, cached, owner>>, doubt => doubt',
         "save" \notin kinds, code # None => "demoAdd" \notin kinds,
         d = 1 => ~Writing(1) /\ requests[1].kind # "list"
  PROVE  OrderInv'
<1>0. TypeInv /\ ServedFirst /\ ListsFit /\ LoadsFollow /\ ShownFits /\ RowsFit /\ SavesFit
  BY DEF OrderOK, OrderInv
<1>1. ServedFirst' /\ ListsFit' /\ LoadsFollow' /\ ShownFits'
  BY <1>0, FirstKept, ListsKept, LoadsKept, ShownKept
<1>2. RowsFit'
  BY <1>0, RowsKept
<1>3. SavesFit'
  BY <1>0, SavesKept
<1> QED BY <1>1, <1>2, <1>3 DEF OrderInv

\* The tab has no code and no list's rows.
LEMMA NoCodeOrder ==
  ASSUME OrderOK, TypeInv', NEW d, NEW kinds, Shifted(d, kinds),
         UNCHANGED lists, code' = None, owner' = None, doubt => doubt', "save" \notin kinds
  PROVE  OrderInv'
<1>0. TypeInv /\ ServedFirst /\ ListsFit /\ SavesFit
  BY DEF OrderOK, OrderInv
<1>1. ServedFirst' /\ ListsFit'
  BY <1>0, FirstKept, ListsKept
<1>2. LoadsFollow' /\ ShownFits' /\ RowsFit'
  BY DEF LoadsFollow, ShownFits, RowsFit
<1>3. SavesFit'
  BY <1>0, SavesKept
<1> QED BY <1>1, <1>2, <1>3 DEF OrderInv

\* A failure has been shown.
LEMMA DoubtOrder ==
  ASSUME OrderOK, TypeInv', NEW d, NEW kinds, Shifted(d, kinds),
         UNCHANGED <<lists, code>>, doubt', "save" \notin kinds, "demoAdd" \notin kinds
  PROVE  OrderInv'
<1>0. TypeInv /\ ServedFirst /\ ListsFit /\ LoadsFollow /\ SavesFit
  BY DEF OrderOK, OrderInv
<1>1. ServedFirst' /\ ListsFit' /\ LoadsFollow'
  BY <1>0, FirstKept, ListsKept, LoadsKept
<1>2. ShownFits' /\ RowsFit'
  BY DEF ShownFits, RowsFit
<1>3. SavesFit'
  BY <1>0, SavesKept
<1> QED BY <1>1, <1>2, <1>3 DEF OrderInv

\* A write or a load of the tab's list is sent.
LEMMA SentOrder ==
  ASSUME OrderOK, TypeInv', NEW d, NEW kinds, Shifted(d, kinds),
         Len(requests') > Len(requests) - d, kinds \subseteq (Writes \ {"save"}) \cup {"list"},
         UNCHANGED <<lists, owner, items>>, doubt => doubt',
         UNCHANGED code \/ kinds = {"list"},
         d = 1 => requests[1].kind # "list",
         d = 1 /\ Writing(1) => items[requests[1].sym] = None
  PROVE  OrderInv'
<1>0. TypeInv /\ ServedFirst /\ ListsFit /\ LoadsFollow /\ RowsFit /\ SavesFit
  BY DEF OrderOK, OrderInv
<1>a. "save" \notin kinds /\ "demoAdd" \notin kinds /\ kinds \subseteq Writes \cup {"list"}
  BY DEF Writes
<1>1. ServedFirst' /\ ListsFit'
  BY <1>0, FirstKept, ListsKept
<1>2. LoadsFollow' /\ ShownFits'
  BY <1>0, <1>a, LoadsKept, ShownSent
<1>3. RowsFit'
  BY <1>0, RowsKept
<1>4. SavesFit'
  BY <1>0, <1>a, SavesKept
<1> QED BY <1>1, <1>2, <1>3, <1>4 DEF OrderInv

\* A save that the page does not doubt starts from the row the server has.
LEMMA CarefulSave ==
  ASSUME OrderOK, TypeInv', NEW d, NEW kinds, Shifted(d, kinds), UNCHANGED <<lists, code>>,
         code # None, NEW n, n = Len(requests'), n = Len(requests) - d + 1,
         requests'[n].kind = "save", requests'[n].code = code,
         requests'[n].sym \in Symbols, requests'[n].base # None,
         \A j \in DOMAIN requests : Writing(j) => requests[j].sym # requests'[n].sym,
         lists[code] # None, lists[code][requests'[n].sym] = requests'[n].base,
         owner' = code, items'[requests'[n].sym] = requests'[n].base
  PROVE  SaveFits(n)' /\ RowIsBase(n)'
<1> DEFINE r == requests'[n]
<1>0. TypeInv /\ ListsFit /\ LoadsFollow /\ n \in DOMAIN requests' /\ n \in Nat /\ d \in {0, 1}
  <2>1. TypeInv /\ ListsFit /\ LoadsFollow /\ d \in {0, 1} /\ d <= Len(requests)
    BY DEF OrderOK, OrderInv, Shifted
  <2>2. Len(requests) \in Nat /\ DOMAIN requests' = 1..Len(requests')
    BY <2>1, ShiftedDomain
  <2> QED BY <2>1, <2>2
<1>1. r.stage = "sent"
  BY <1>0, ShiftedDomain
<1>2. \A j \in 1..(n - 1) :
        j + d \in DOMAIN requests /\ requests'[j] = requests[j + d] /\ j + d <= Len(requests)
  <2>1. ASSUME NEW j \in 1..(n - 1)
        PROVE  j + d \in DOMAIN requests /\ requests'[j] = requests[j + d] /\ j + d <= Len(requests)
    <3>1. j \in 1..(Len(requests) - d) /\ j + d \in 1..Len(requests)
      BY <1>0, ShiftedDomain
    <3>2. requests'[j] = requests[j + d]
      BY <3>1 DEF Shifted
    <3>3. DOMAIN requests = 1..Len(requests) /\ Len(requests) \in Nat
      BY <1>0, ShiftedDomain
    <3> QED BY <3>1, <3>2, <3>3
  <2> QED BY <2>1
<1>3. \A j \in 1..(n - 1) : ~(requests'[j].kind \in Writes /\ requests'[j].sym = r.sym)
  BY <1>2 DEF Writing
<1>4. ASSUME NEW j \in 1..(n - 1), requests'[j].kind = "list", requests'[j].code = code,
             requests'[j].stage = "served"
      PROVE  requests'[j].got[r.sym] = r.base
  <2>1. ~Behind(j + d, r.sym)
    BY DEF Behind
  <2> QED BY <1>0, <1>2, <1>4, <2>1 DEF ListsFit
<1>5. ASSUME NEW j \in 1..(n - 1), requests'[j].kind = "list", requests'[j].code # code
      PROVE  \E k \in (j + 1)..(n - 1) : requests'[k].kind = "list" /\ requests'[k].code = code
  <2>1. PICK k \in DOMAIN requests : k > j + d /\ ListOf(k, code)
    BY <1>0, <1>2, <1>5 DEF LoadsFollow
  <2>2. k - d \in (j + 1)..(n - 1) /\ (k - d) + d = k /\ k - d \in 1..(n - 1)
    <3>1. k \in Nat /\ k <= Len(requests) /\ Len(requests) \in Nat
      <4>1. k \in 1..Len(requests) /\ Len(requests) \in Nat
        BY <1>0, ShiftedDomain
      <4> QED BY <4>1
    <3> QED BY <1>0, <2>1, <3>1
  <2>3. requests'[k - d] = requests[k]
    BY <1>2, <2>2
  <2> QED BY <2>1, <2>2, <2>3 DEF ListOf
<1> QED BY <1>0, <1>1, <1>3, <1>4, <1>5 DEF SaveFits, RowIsBase, ListOf, Writing

LEMMA OrderSave ==
  ASSUME OrderOK, NEW s \in Symbols, HandleSave(s), code # None, TypeInv'
  PROVE  OrderInv'
<1>0. /\ TypeInv /\ ServedFirst /\ ListsFit /\ LoadsFollow /\ RowsFit /\ SavesFit
      /\ stored = code /\ items[s] # None
  BY DEF OrderOK, OrderInv, TypeInv, OneCode, HandleSave
<1>1. PICK e \in Edits(s, items[s]) :
         requests' = Append(requests, Save(s, items[s], e, doubt \/ owner # stored))
  BY DEF HandleSave
<1> DEFINE r == Save(s, items[s], e, doubt \/ owner # stored)
<1>2. /\ r.kind = "save" /\ r.code = stored /\ r.sym = s /\ r.base = items[s]
      /\ r.blind = (doubt \/ owner # stored \/ \E i \in InFlight(Writes) : requests[i].sym = s)
  <2>1. PICK unsure : unsure = (doubt \/ owner # stored)
    OBVIOUS
  <2>2. r = Save(s, items[s], e, unsure)
    BY <2>1
  <2> HIDE DEF r
  <2>3. /\ r.kind = "save" /\ r.code = stored /\ r.sym = s /\ r.base = items[s]
        /\ r.blind = (unsure \/ \E i \in InFlight(Writes) : requests[i].sym = s)
    BY <2>2, SaveFields
  <2> QED BY <2>1, <2>3
<1> HIDE DEF r
<1>3. PICK n : n = Len(requests')
  OBVIOUS
<1>4. n = Len(requests) + 1 /\ Len(requests) \in Nat /\ requests'[n] = r /\ n \in DOMAIN requests'
  BY <1>0, <1>1, <1>3, QueueType DEF r
<1>5. Shifted(0, {"save"})
  BY <1>0, TabSends, ShiftedNone
<1>6. UNCHANGED <<lists, stored, cached, code, creating, modalVars, doubt, items, owner>>
  BY DEF HandleSave
<1>7. ServedFirst' /\ ListsFit' /\ LoadsFollow' /\ RowsFit'
  BY <1>0, <1>5, <1>6, FirstKept, ListsKept, LoadsKept, RowsKept
<1>8. ShownFits'
  BY <1>4, <1>5, <1>3, <1>0, ShownSent DEF Writes
<1>9. ASSUME NEW i \in DOMAIN requests', Careful(i)'
      PROVE  SaveFits(i)' /\ RowIsBase(i)'
  <2>1. CASE i <= Len(requests)
    <3>1. i \in DOMAIN requests /\ i > 0 /\ requests'[i] = requests[i] /\ i - 0 = i
      <4>1. /\ DOMAIN requests = 1..Len(requests) /\ Len(requests) \in Nat
            /\ DOMAIN requests' = 1..Len(requests') /\ Len(requests') \in Nat
        BY <1>0, <1>5, ShiftedDomain
      <4>2. i \in 1..Len(requests) /\ i \in 1..(Len(requests) - 0) /\ i + 0 = i
        BY <2>1, <4>1
      <4>3. requests'[i] = requests[i + 0]
        BY <1>5, <4>2 DEF Shifted
      <4> QED BY <4>1, <4>2, <4>3
    <3>2. SaveFits(i) /\ RowIsBase(i)
      BY <1>0, <1>9, <3>1 DEF SavesFit, Careful
    <3>3. SaveFits(i - 0)' /\ RowIsBase(i - 0)'
      BY <1>0, <1>5, <1>6, <3>1, <3>2, SaveKept, BaseKept
    <3> QED BY <3>1, <3>3
  <2>2. CASE i > Len(requests)
    <3>1. i = n
      BY <1>0, <1>3, <1>4, <1>5, <2>2, ShiftedDomain
    <3>2. ~doubt /\ owner = code /\ ~(\E j \in InFlight(Writes) : requests[j].sym = s)
      BY <1>0, <1>2, <1>4, <1>9, <3>1 DEF Careful
    <3>3. \A j \in DOMAIN requests : Writing(j) => requests[j].sym # s
      BY <3>2 DEF InFlight, Writing
    <3>4. ~Behind(0, s)
      BY <3>3 DEF Behind
    <3>5. lists[code] # None /\ lists[code][s] = items[s]
      BY <1>0, <3>2, <3>4 DEF RowsFit
    <3>6. n = Len(requests) - 0 + 1
      BY <1>4
    <3>7. SaveFits(n)' /\ RowIsBase(n)'
      BY <1>0, <1>2, <1>3, <1>4, <1>5, <1>6, <3>2, <3>3, <3>5, <3>6, CarefulSave
    <3> QED BY <3>1, <3>7
  <2> QED BY <1>0, <1>4, <1>5, <2>1, <2>2, ShiftedDomain
<1> QED BY <1>7, <1>8, <1>9 DEF OrderInv, SavesFit

LEMMA OrderUser ==
  ASSUME OrderOK, User, TypeInv'
  PROVE  OrderInv'
<1> USE DEF modalVars, tabVars
<1>0. TypeInv /\ requests \in Seq(Requests) /\ Len(requests) \in Nat
  BY QueueType DEF OrderOK
<1>a. 0 # 1 /\ "save" \notin {"create"} /\ "demoAdd" \notin {"create"} /\ "save" \notin {"detail"}
      /\ "demoAdd" \notin {"detail"} /\ "save" \notin {"demoAdd"}
  OBVIOUS
<1>1. CASE HandleCreate
  <2>1. Shifted(0, {"create"}) /\ UNCHANGED <<lists, code, items, cached, owner, doubt>>
    BY <1>0, <1>1, TabSends, ShiftedNone DEF HandleCreate
  <2> QED BY <1>a, <2>1, QuietOrder
<1>2. ASSUME NEW c \in Codes, HandleUseExisting(c) PROVE OrderInv'
  <2>1. Shifted(0, {"list"}) /\ UNCHANGED <<lists, items, owner, doubt>>
    BY <1>0, <1>2, TabSends, ShiftedNone DEF HandleUseExisting, Opened
  <2>2. c # code
    BY <1>2, ClientConstants DEF ClientConstants, HandleUseExisting
  <2>3. requests' = Append(requests, [Load(None) EXCEPT !.code = c])
    BY <1>2, <2>2 DEF HandleUseExisting, Opened
  <2>4. Len(requests') > Len(requests) - 0
    BY <1>0, <2>3
  <2> QED BY <1>a, <2>1, <2>4, SentOrder
<1>3. CASE HandleForget
  <2>1. Shifted(0, {}) /\ UNCHANGED <<lists, doubt>> /\ code' = None /\ owner' = None
    BY <1>0, <1>3, TabSends, ShiftedNone DEF HandleForget, Closed
  <2> QED BY <2>1, NoCodeOrder
<1>4. ASSUME NEW s \in Symbols, HandleAdd(s) PROVE OrderInv'
  <2>0. UNCHANGED <<lists, code, items, cached, owner, doubt>>
    BY <1>4 DEF HandleAdd
  <2>1. CASE code = None
    <3>1. Shifted(0, {"demoAdd"})
      BY <1>0, <1>4, <2>1, TabSends, ShiftedNone
    <3> QED BY <1>a, <2>0, <2>1, <3>1, QuietOrder
  <2>2. CASE code # None
    <3>1. Shifted(0, {"add"})
      BY <1>0, <1>4, <2>2, TabSends, ShiftedNone
    <3>2. requests' = Append(requests, Upsert("add", s, Blank))
      BY <1>4, <2>2 DEF HandleAdd
    <3>3. Len(requests') > Len(requests) - 0 /\ {"add"} \subseteq (Writes \ {"save"}) \cup {"list"}
      BY <1>0, <3>2 DEF Writes
    <3> QED BY <1>a, <2>0, <3>1, <3>3, SentOrder
  <2> QED BY <2>1, <2>2
<1>5. ASSUME NEW s \in Symbols, HandleSave(s) PROVE OrderInv'
  <2>1. CASE code = None
    <3>1. Shifted(0, {})
      BY <1>0, <1>5, <2>1, TabSends, ShiftedNone
    <3>2. UNCHANGED <<lists, doubt>> /\ code' = None /\ owner' = None
      BY <1>5, <2>1 DEF HandleSave
    <3> QED BY <3>1, <3>2, NoCodeOrder
  <2> QED BY <1>5, <2>1, OrderSave
<1>6. ASSUME NEW s \in Symbols, HandleRemove(s) PROVE OrderInv'
  <2>1. CASE code = None
    <3>1. Shifted(0, {})
      BY <1>0, <1>6, <2>1, TabSends, ShiftedNone
    <3>2. UNCHANGED <<lists, doubt>> /\ code' = None /\ owner' = None
      BY <1>6, <2>1 DEF HandleRemove
    <3> QED BY <3>1, <3>2, NoCodeOrder
  <2>2. CASE code # None
    <3>1. Shifted(0, {"delete"}) /\ UNCHANGED <<lists, code, items, owner, doubt>>
      BY <1>0, <1>6, <2>2, TabSends, ShiftedNone DEF HandleRemove
    <3>2. requests' = Append(requests, Request("delete", s))
      BY <1>6, <2>2 DEF HandleRemove
    <3>3. Len(requests') > Len(requests) - 0 /\ {"delete"} \subseteq (Writes \ {"save"}) \cup {"list"}
      BY <1>0, <3>2 DEF Writes
    <3> QED BY <1>a, <3>1, <3>3, SentOrder
  <2> QED BY <2>1, <2>2
<1>7. CASE CloseAll
  <2>1. Shifted(0, {}) /\ UNCHANGED <<lists, code, items, cached, owner, doubt>>
    BY <1>0, <1>7, ModalSends, ShiftedNone DEF CloseAll
  <2> QED BY <1>a, <2>1, QuietOrder
<1>8. CASE AddToWatchlist
  <2>1. Shifted(0, {"lookupAdd"}) /\ UNCHANGED <<lists, code, items, owner, doubt>>
    BY <1>0, <1>8, ModalSends, ShiftedNone DEF AddToWatchlist
  <2>2. requests' = Append(requests, Upsert("lookupAdd", shown, [Blank EXCEPT !.target = detail]))
    BY <1>8 DEF AddToWatchlist
  <2>3. Len(requests') > Len(requests) - 0 /\ {"lookupAdd"} \subseteq (Writes \ {"save"}) \cup {"list"}
    BY <1>0, <2>2 DEF Writes
  <2> QED BY <1>a, <2>1, <2>3, SentOrder
<1>9. ASSUME NEW s \in Symbols, Pick(s) PROVE OrderInv'
  <2>1. Shifted(0, {"detail"}) /\ UNCHANGED <<lists, code, items, cached, owner, doubt>>
    BY <1>0, <1>9, ModalSends, ShiftedNone DEF Pick
  <2> QED BY <1>a, <2>1, QuietOrder
<1>10. CASE Reload
  <2>1. /\ code' = stored /\ owner' = stored /\ (stored # None => items' = NoRows)
        /\ requests' = IF stored = None THEN <<>> ELSE <<Load(None)>>
    BY <1>10 DEF Reload
  <2>2. /\ stored = None => DOMAIN requests' = {}
        /\ stored # None => DOMAIN requests' = {1} /\ requests'[1] = Load(None)
    BY <2>1
  <2>3. ServedFirst' /\ ListsFit' /\ LoadsFollow' /\ SavesFit'
    BY <2>1, <2>2, LoadFields DEF ServedFirst, ListsFit, LoadsFollow, ListOf, SavesFit, Careful
  <2>4. ShownFits'
    BY <2>1, <2>2, LoadFields DEF ShownFits, ListOf
  <2>5. RowsFit'
    BY <2>1 DEF RowsFit, NoRows
  <2> QED BY <2>3, <2>4, <2>5 DEF OrderInv
<1> QED BY <1>1, <1>2, <1>3, <1>4, <1>5, <1>6, <1>7, <1>8, <1>9, <1>10 DEF User

LEMMA OrderList ==
  ASSUME OrderOK, InOrder, 1 \in DOMAIN requests, ListAnswered(1), TypeInv'
  PROVE  OrderInv'
<1> DEFINE r == requests[1]
<1>0. /\ TypeInv /\ ServedFirst /\ ListsFit /\ LoadsFollow /\ ShownFits /\ SavesFit
      /\ r.kind = "list" /\ r.stage = "served" /\ r.code \in Codes /\ r.got \in Rows
      /\ Len(requests) \in Nat \ {0} /\ r.sym \in Symbols \cup {None}
      /\ lists \in [Codes -> Rows \cup {None}] /\ stored = code /\ r.code # None
  <2>1. TypeInv /\ ServedFirst /\ ListsFit /\ LoadsFollow /\ ShownFits /\ SavesFit
        /\ r.kind = "list" /\ r.stage = "served"
    BY DEF OrderOK, OrderInv, ListAnswered, Answered
  <2>2. r \in Requests
    BY <2>1, RequestType DEF TypeInv
  <2>3. r.code \in Codes /\ r.got \in Rows /\ r.sym \in Symbols \cup {None}
    BY <2>1, <2>2 DEF Requests
  <2>4. r.code # None
    BY <2>3, ClientConstants DEF ClientConstants
  <2> QED BY <2>1, <2>3, <2>4, QueueType DEF TypeInv, ClientTypeOK, OneCode
<1>1. /\ items' = r.got /\ owner' = r.code /\ cached' = Names(r.got) /\ ~doubt'
      /\ UNCHANGED <<lists, code>>
  BY DEF ListAnswered
<1>2. Shifted(1, {"save"})
  BY <1>0, AnswerSends, ShiftedOne
<1>3. ServedFirst' /\ ListsFit' /\ LoadsFollow'
  BY <1>0, <1>1, <1>2, FirstKept, ListsKept, LoadsKept
<1>4. /\ lists[r.code] # None
      /\ \A s \in Symbols : r.got[s] = lists[r.code][s] \/ Behind(1, s)
  BY <1>0 DEF ListsFit
<1>5. \A s : Behind(1, s) => Behind(0, s)'
  BY <1>0, <1>2, BehindKept
<1>6. RowsFit'
  BY <1>0, <1>1, <1>4, <1>5 DEF RowsFit
<1>7. ShownFits'
  <2> SUFFICES ASSUME code # None, ~ \E k \in DOMAIN requests' : Writing(k)' \/ ListOf(k, code)'
               PROVE  items' = lists[code]
    BY <1>1 DEF ShownFits
  <2>1. r.code = code
    <3>1. SUFFICES ASSUME r.code # code PROVE FALSE
      OBVIOUS
    <3>2. PICK k \in DOMAIN requests : k > 1 /\ ListOf(k, code)
      BY <1>0, <3>1 DEF LoadsFollow
    <3>3. k - 1 \in DOMAIN requests' /\ requests'[k - 1] = requests[k]
      BY <1>0, <1>2, <3>2, ShiftedDomain
    <3> QED BY <1>1, <3>2, <3>3 DEF ListOf
  <2>2. \A s \in Symbols : ~Behind(1, s)
    <3>1. \A s \in Symbols : ~Behind(0, s)'
      BY DEF Behind
    <3> QED BY <1>5, <3>1
  <2>3. lists[code] \in Rows
    BY <1>0, <1>4, <2>1
  <2>4. \A s \in Symbols : r.got[s] = lists[code][s]
    BY <1>4, <2>1, <2>2
  <2> QED BY <1>0, <1>1, <2>3, <2>4 DEF Rows
<1>8. ASSUME NEW i \in DOMAIN requests', Careful(i)'
      PROVE  SaveFits(i)' /\ RowIsBase(i)'
  <2>1. CASE i <= Len(requests) - 1
    <3>1. PICK j \in DOMAIN requests : j = i + 1
      BY <1>0, <1>2, <2>1, ShiftedDomain
    <3>2. j > 1 /\ j - 1 = i /\ requests'[i] = requests[j] /\ j \in Nat
      BY <1>0, <1>2, <3>1, ShiftedDomain
    <3>3. SaveFits(j) /\ Careful(j)
      BY <1>0, <1>8, <3>2 DEF SavesFit, Careful
    <3>4. SaveFits(i)'
      BY <1>0, <1>1, <1>2, <3>2, <3>3, SaveKept
    <3> DEFINE q == requests[j]
    <3>5. RowIsBase(i)'
      <4>1. CASE r.code = q.code
        <5>1. r.got[q.sym] = q.base
          BY <1>0, <3>2, <3>3, <4>1 DEF SaveFits, ListOf
        <5> QED BY <1>1, <3>2, <4>1, <5>1 DEF RowIsBase
      <4>2. CASE r.code # q.code
        <5>1. PICK k \in 2..(j - 1) : ListOf(k, q.code)
          BY <1>0, <3>2, <3>3, <4>2 DEF SaveFits
        <5>2. k - 1 \in 1..(i - 1) /\ k \in DOMAIN requests /\ k > 1
          BY <1>0, <1>2, <3>2, <5>1, ShiftedDomain
        <5>3. requests'[k - 1] = requests[k]
          BY <1>0, <1>2, <5>2, ShiftedDomain
        <5> QED BY <3>2, <5>1, <5>2, <5>3 DEF RowIsBase, ListOf
      <4> QED BY <4>1, <4>2
    <3> QED BY <3>4, <3>5
  <2>2. CASE i > Len(requests) - 1
    <3> DEFINE unsure == r.code # stored
               q == Save(r.sym, r.got[r.sym], [r.got[r.sym] EXCEPT !.target = r.sym], unsure)
    <3>1. Len(Rest(1)) = Len(requests) - 1 /\ Rest(1) \in Seq(Requests)
      BY <1>0, RestFacts DEF TypeInv
    <3>2. Len(requests') # Len(requests) - 1
      BY <1>0, <1>2, <2>2, ShiftedDomain
    <3>3. /\ r.sym # None /\ stored # None /\ r.got[r.sym] # None
          /\ requests' = Append(Rest(1), q)
      BY <3>1, <3>2 DEF ListAnswered
    <3>4. q.kind = "save" /\ q.code = stored /\ q.sym = r.sym /\ q.base = r.got[r.sym]
          /\ q.blind = (unsure \/ \E k \in InFlight(Writes) : requests[k].sym = r.sym)
      <4>1. PICK u : u = unsure
        OBVIOUS
      <4>2. q = Save(r.sym, r.got[r.sym], [r.got[r.sym] EXCEPT !.target = r.sym], u)
        BY <4>1
      <4> HIDE DEF q
      <4>3. q.kind = "save" /\ q.code = stored /\ q.sym = r.sym /\ q.base = r.got[r.sym]
            /\ q.blind = (u \/ \E k \in InFlight(Writes) : requests[k].sym = r.sym)
        BY <4>2, SaveFields
      <4> QED BY <4>1, <4>3
    <3> HIDE DEF q
    <3>5. Len(requests') = Len(requests) /\ requests'[Len(requests)] = q /\ i = Len(requests)
      <4>1. Len(requests') = Len(requests) /\ requests'[Len(requests)] = q
        BY <1>0, <3>1, <3>3
      <4> QED BY <1>0, <1>2, <2>2, <4>1, ShiftedDomain
    <3>6. r.code = code /\ ~(\E k \in InFlight(Writes) : requests[k].sym = r.sym)
      BY <1>0, <1>8, <3>4, <3>5 DEF Careful
    <3>7. \A k \in DOMAIN requests : Writing(k) => requests[k].sym # r.sym
      BY <3>6 DEF InFlight, Writing
    <3>8. ~Behind(1, r.sym) /\ r.sym \in Symbols
      BY <1>0, <3>3, <3>7 DEF Behind
    <3>9. lists[code] # None /\ lists[code][r.sym] = r.got[r.sym]
      BY <1>4, <3>6, <3>8
    <3>10. i = Len(requests') /\ i = Len(requests) - 1 + 1 /\ requests'[i] = q
      BY <1>0, <3>5
    <3>11. /\ requests'[i].kind = "save" /\ requests'[i].code = code /\ requests'[i].sym = r.sym
           /\ requests'[i].base = r.got[r.sym] /\ code # None
      BY <1>0, <3>3, <3>4, <3>10
    <3> QED BY <1>0, <1>1, <1>2, <3>3, <3>6, <3>7, <3>8, <3>9, <3>10, <3>11, CarefulSave
  <2> QED BY <1>0, <1>2, <2>1, <2>2, ShiftedDomain
<1> QED BY <1>3, <1>6, <1>7, <1>8 DEF OrderInv, SavesFit

\* A save that starts from what the server has leaves the server's entry in the row.
LEMMA OrderSaveAnswered ==
  ASSUME OrderOK, 1 \in DOMAIN requests, SaveAnswered(1), TypeInv'
  PROVE  OrderInv'
<1> DEFINE r == requests[1]
<1>0. /\ TypeInv /\ ServedFirst /\ ListsFit /\ LoadsFollow /\ RowsFit /\ SavesFit /\ stored = code
      /\ r.kind = "save" /\ r.sym \in Symbols /\ r.base \in Entry /\ r.entry \in Entry
      /\ items \in Rows /\ Len(requests) \in Nat \ {0} /\ Writing(1)
  <2>1. TypeInv /\ ServedFirst /\ ListsFit /\ LoadsFollow /\ RowsFit /\ SavesFit /\ r.kind = "save"
    BY DEF OrderOK, OrderInv, SaveAnswered, Answered
  <2>2. r \in Requests
    BY <2>1, RequestType DEF TypeInv
  <2>3. r.sym \in Symbols /\ r.base \in Entry /\ r.entry \in Entry
    BY <2>1, <2>2, ClientNoRecord DEF Requests, Writes
  <2> QED BY <2>1, <2>3, QueueType DEF TypeInv, ClientTypeOK, OneCode, Writing, Writes
<1>1. UNCHANGED <<lists, stored, cached, code, creating, owner, modalVars>>
  BY DEF SaveAnswered
<1>2. Shifted(1, {"list"})
  BY <1>0, AnswerSends, ShiftedOne
<1>a. "save" \notin {"list"} /\ "demoAdd" \notin {"list"}
  OBVIOUS
<1>3. CASE doubt'
  BY <1>1, <1>2, <1>3, <1>a, DoubtOrder
<1>4. CASE ~doubt'
  <2>1. /\ r.stage = "served" /\ requests' = Announced(Rest(1)) /\ items' = Patched(r)
        /\ ~doubt /\ ~r.blind
    BY <1>4 DEF SaveAnswered, Answered
  <2>2. \A s \in Symbols : s # r.sym => items'[s] = items[s]
    BY <1>0, <2>1 DEF Patched, Rows
  <2>3. SaveFits(1) /\ RowIsBase(1)
    BY <1>0, <2>1 DEF SavesFit, Careful
  <2>4. ServedFirst' /\ ListsFit' /\ LoadsFollow'
    BY <1>0, <1>1, <1>2, <1>a, FirstKept, ListsKept, LoadsKept
  <2>5. ShownFits'
    <3>1. CASE code = None
      BY <1>1, <3>1 DEF ShownFits
    <3>2. CASE code # None
      <4>1. requests' = Append(Rest(1), Load(None))
        BY <1>0, <2>1, <3>2 DEF Announced
      <4>2. Len(requests') > Len(requests) - 1
        BY <1>0, <4>1, RestFacts DEF TypeInv
      <4> QED BY <1>0, <1>2, <4>2, ShownSent
    <3> QED BY <3>1, <3>2
  <2>6. RowsFit'
    <3> SUFFICES ASSUME owner # None, NEW s \in Symbols, items'[s] # None
                 PROVE  Behind(0, s)' \/ (lists[owner] # None /\ lists[owner][s] = items'[s])
      BY <1>1 DEF RowsFit
    <3>1. CASE s # r.sym
      <4>1. Behind(0, s) => Behind(0, s)'
        BY <1>0, <1>2, <3>1, BehindKept
      <4>2. items'[s] = items[s]
        BY <2>2, <3>1
      <4> QED BY <1>0, <2>1, <4>1, <4>2 DEF RowsFit
    <3>2. CASE s = r.sym
      <4>1. \A j \in 1..(1 - 1) : FALSE
        OBVIOUS
      <4>2. owner = r.code /\ items[s] = r.base
        BY <2>1, <2>3, <3>2, <4>1 DEF RowIsBase
      <4>3. Behind(1, s) => Behind(0, s)'
        BY <1>0, <1>2, BehindKept
      <4>4. lists[owner] # None /\ (lists[owner][s] = r.entry \/ Behind(0, s)')
        BY <2>1, <2>3, <3>2, <4>2, <4>3 DEF SaveFits
      <4>5. items'[s] = r.entry
        <5>1. items[r.sym] = r.base /\ r.base # None
          BY <1>0, <3>2, <4>2, ClientNoRecord
        <5>2. items'[s] = [note |-> IF r.entry.note # r.base.note THEN r.entry.note ELSE r.base.note,
                           target |-> IF r.entry.target # r.base.target
                                        THEN r.entry.target ELSE r.base.target]
          BY <1>0, <2>1, <3>2, <5>1 DEF Patched, Rows
        <5>3. items'[s] = [note |-> r.entry.note, target |-> r.entry.target]
          BY <5>2
        <5> QED BY <1>0, <5>3 DEF Entry
      <4> QED BY <4>4, <4>5
    <3> QED BY <3>1, <3>2
  <2>7. SavesFit'
    <3>1. ASSUME NEW j \in DOMAIN requests, j > 1, Careful(j)
          PROVE  items'[requests[j].sym] = items[requests[j].sym]
      <4>1. SaveFits(j) /\ 1 \in 1..(j - 1) /\ requests[j].sym \in Symbols
        <5>1. requests[j] \in Requests /\ requests[j].kind = "save" /\ j \in Nat
          BY <1>0, <3>1, RequestType, QueueType DEF TypeInv, Careful
        <5> QED BY <1>0, <3>1, <5>1 DEF SavesFit, Requests, Writes
      <4>2. requests[j].sym # r.sym
        BY <1>0, <4>1 DEF SaveFits
      <4> QED BY <2>2, <4>1, <4>2
    <3>2. requests[1].kind # "list"
      BY <1>0
    <3> QED BY <1>0, <1>1, <1>2, <1>a, <2>1, <3>1, <3>2, SavesKept
  <2> QED BY <2>4, <2>5, <2>6, <2>7 DEF OrderInv
<1> QED BY <1>3, <1>4

LEMMA OrderAnswer ==
  ASSUME OrderOK, InOrder, NEW i \in DOMAIN requests, Answer(i) \/ Fail(i), TypeInv'
  PROVE  OrderInv'
<1> USE DEF modalVars, tabVars
<1> DEFINE r == requests[1]
<1>0. /\ TypeInv /\ LoadsFollow /\ i = 1 /\ stored = code
      /\ Len(requests) \in Nat \ {0} /\ r \in Requests
  <2>1. i = 1
    BY DEF Answer, Fail, CreateAnswered, ListAnswered, ListRefused, SaveAnswered, AddAnswered,
           LookupAddAnswered, DetailAnswered, DemoAddAnswered, Answered
  <2> QED BY <2>1, QueueType, RequestType DEF OrderOK, OrderInv, TypeInv, OneCode
<1>a. "save" \notin {"list"} /\ "demoAdd" \notin {"list"}
      /\ {"list"} \subseteq (Writes \ {"save"}) \cup {"list"}
  OBVIOUS
<1>b. Len(Rest(1)) = Len(requests) - 1 /\ Rest(1) \in Seq(Requests)
  BY <1>0, RestFacts DEF TypeInv
<1>c. /\ CreateAnswered(1) \/ AddAnswered(1) \/ LookupAddAnswered(1) => Shifted(1, {"list"})
      /\ ListRefused(1) \/ DetailAnswered(1) \/ DemoAddAnswered(1) \/ Fail(1) => Shifted(1, {})
  BY <1>0, AnswerSends, ShiftedOne
<1>1. CASE CreateAnswered(1)
  <2>1. r.kind = "create" /\ r.got \in Codes /\ ~Writing(1)
    BY <1>0, <1>1 DEF CreateAnswered, Answered, Requests, Writing, Writes
  <2>2. UNCHANGED <<lists, items, cached, owner, doubt>>
    BY <1>1 DEF CreateAnswered, Opened
  <2>3. CASE r.got = code
    <3>1. UNCHANGED code
      BY <1>1, <2>3 DEF CreateAnswered, Opened
    <3> QED BY <1>1, <1>a, <1>c, <2>1, <2>2, <3>1, QuietOrder
  <2>4. CASE r.got # code
    <3>1. requests' = Append(Rest(1), [Load(None) EXCEPT !.code = r.got])
      BY <1>1, <2>4 DEF CreateAnswered, Opened
    <3>2. Len(requests') > Len(requests) - 1
      BY <1>0, <1>b, <3>1
    <3> QED BY <1>1, <1>a, <1>c, <2>1, <2>2, <3>2, SentOrder
  <2> QED BY <2>3, <2>4
<1>2. CASE ListAnswered(1)
  BY <1>0, <1>2, OrderList
<1>3. CASE ListRefused(1)
  <2>1. UNCHANGED <<lists, doubt>> /\ code' = None /\ owner' = None
    BY <1>3 DEF ListRefused, Closed
  <2> QED BY <1>3, <1>c, <2>1, NoCodeOrder
<1>4. CASE SaveAnswered(1)
  BY <1>0, <1>4, OrderSaveAnswered
<1>5. CASE AddAnswered(1)
  <2>0. UNCHANGED lists /\ r.kind # "list" /\ doubt' \in BOOLEAN
    BY <1>5 DEF AddAnswered, Answered, TypeInv, ClientTypeOK
  <2>1. CASE r.stage # "served"
    <3>1. doubt' /\ UNCHANGED code
      BY <1>5, <2>1 DEF AddAnswered
    <3> QED BY <1>5, <1>a, <1>c, <2>0, <3>1, DoubtOrder
  <2>2. CASE r.stage = "served"
    <3>0. /\ Reloaded(1, IF r.kind = "add" THEN r.sym ELSE None)
          /\ doubt' = (doubt \/ items[r.sym] # None)
      BY <1>5, <2>2 DEF AddAnswered
    <3>1. CASE stored = None
      <4>1. code' = None /\ owner' = None /\ (doubt => doubt')
        BY <3>0, <3>1 DEF Reloaded, Closed
      <4> QED BY <1>5, <1>a, <1>c, <2>0, <4>1, NoCodeOrder
    <3>2. CASE stored # None
      <4>1. UNCHANGED <<code, items, owner>>
            /\ requests' = Append(Append(Rest(1), Load(None)), Load(IF r.kind = "add" THEN r.sym ELSE None))
        BY <3>0, <3>2 DEF Reloaded, Announced
      <4>2. CASE doubt'
        BY <1>5, <1>a, <1>c, <2>0, <4>1, <4>2, DoubtOrder
      <4>3. CASE ~doubt'
        <5>1. items[r.sym] = None /\ ~doubt
          BY <3>0, <4>3
        <5>2. Len(requests') > Len(requests) - 1
          <6>1. PICK q : q = Append(Rest(1), Load(None))
            OBVIOUS
          <6>2. Load(None) \in Requests
            BY <1>0, <3>2, SentTypes
          <6>3. q \in Seq(Requests) /\ Len(q) = Len(requests)
            BY <1>0, <1>b, <6>1, <6>2
          <6>4. requests' = Append(q, Load(IF r.kind = "add" THEN r.sym ELSE None))
            BY <4>1, <6>1
          <6> QED BY <1>0, <6>3, <6>4
        <5> QED BY <1>5, <1>a, <1>c, <2>0, <4>1, <5>1, <5>2, SentOrder
      <4> QED BY <4>2, <4>3
    <3> QED BY <3>1, <3>2
  <2> QED BY <2>1, <2>2
<1>6. CASE LookupAddAnswered(1)
  <2>0. UNCHANGED <<lists, code, items, owner>> /\ r.kind = "lookupAdd"
    BY <1>6 DEF LookupAddAnswered, Answered
  <2>1. CASE doubt'
    BY <1>6, <1>a, <1>c, <2>0, <2>1, DoubtOrder
  <2>2. CASE ~doubt'
    <3>1. requests' = Announced(Rest(1)) /\ items[r.sym] = None /\ ~doubt
      BY <1>6, <2>2 DEF LookupAddAnswered
    <3>2. CASE stored = None
      <4>1. ServedFirst' /\ ListsFit' /\ RowsFit' /\ SavesFit'
        <5>1. /\ ServedFirst /\ ListsFit /\ RowsFit /\ SavesFit
              /\ Shifted(1, {"list"}) /\ UNCHANGED lists /\ UNCHANGED <<lists, owner>>
          BY <1>6, <1>c, <2>0 DEF OrderOK, OrderInv
        <5>2. \A s \in Symbols : items'[s] # None =>
                items'[s] = items[s] /\ ~(1 = 1 /\ Writing(1) /\ requests[1].sym = s)
          BY <2>0, <3>1
        <5> QED BY <1>0, <1>a, <2>0, <2>2, <3>1, <5>1, <5>2, FirstKept, ListsKept, RowsKept, SavesKept
      <4>2. LoadsFollow' /\ ShownFits'
        BY <1>0, <2>0, <3>2 DEF LoadsFollow, ShownFits
      <4> QED BY <4>1, <4>2 DEF OrderInv
    <3>3. CASE stored # None
      <4>1. requests' = Append(Rest(1), Load(None))
        BY <3>1, <3>3 DEF Announced
      <4>2. Len(requests') > Len(requests) - 1
        BY <1>0, <1>b, <4>1
      <4> QED BY <1>6, <1>a, <1>c, <2>0, <3>1, <4>2, SentOrder
    <3> QED BY <3>2, <3>3
  <2> QED BY <2>1, <2>2
<1>7. CASE DetailAnswered(1)
  <2>1. r.kind = "detail" /\ UNCHANGED <<lists, code, items, cached, owner, doubt>> /\ ~Writing(1)
    BY <1>7 DEF DetailAnswered, Answered, Writing, Writes
  <2> QED BY <1>7, <1>c, <2>1, QuietOrder
<1>8. CASE DemoAddAnswered(1)
  <2>0. /\ r.kind = "demoAdd" /\ UNCHANGED <<lists, code, cached, doubt>> /\ owner' = None
        /\ Shifted(1, {})
    BY <1>8, <1>c DEF DemoAddAnswered, Answered
  <2>1. ServedFirst' /\ ListsFit' /\ LoadsFollow' /\ SavesFit'
    <3>1. ServedFirst /\ ListsFit /\ LoadsFollow /\ SavesFit
      BY DEF OrderOK, OrderInv
    <3> QED BY <1>0, <2>0, <3>1, FirstKept, ListsKept, LoadsKept, SavesKept
  <2>2. RowsFit'
    BY <2>0 DEF RowsFit
  <2>3. ShownFits'
    <3> SUFFICES ASSUME code # None
                 PROVE  \E k \in DOMAIN requests' : ListOf(k, code)'
      BY <2>0 DEF ShownFits, ListOf
    <3>1. PICK k \in DOMAIN requests : k > 1 /\ ListOf(k, code)
      BY <1>0, <2>0 DEF LoadsFollow
    <3>2. k - 1 \in DOMAIN requests' /\ requests'[k - 1] = requests[k]
      BY <1>0, <2>0, <3>1, ShiftedDomain
    <3> QED BY <2>0, <3>1, <3>2 DEF ListOf
  <2> QED BY <2>1, <2>2, <2>3 DEF OrderInv
<1>9. CASE Fail(1)
  <2>1. doubt' /\ UNCHANGED <<lists, code>>
    BY <1>9 DEF Fail
  <2> QED BY <1>9, <1>c, <2>1, DoubtOrder
<1> QED BY <1>0, <1>1, <1>2, <1>3, <1>4, <1>5, <1>6, <1>7, <1>8, <1>9 DEF Answer

LEMMA OrderStep ==
  ASSUME OrderOK, InOrder, [ClientNext]_clientVars
  PROVE  OrderOK'
<1>0. TypeInv'
  BY TypeStep DEF OrderOK
<1>1. CASE UNCHANGED clientVars
  <2>1. UNCHANGED <<lists, code, items, cached, owner, doubt, requests>>
    BY <1>1 DEF clientVars, tabVars
  <2>2. Sends(Nothing, {})
    BY <2>1, NoneSent DEF OrderOK
  <2>3. Shifted(0, {})
    BY <2>2, ShiftedNone DEF OrderOK
  <2> QED BY <1>0, <2>1, <2>3, QuietOrder DEF OrderOK
<1>2. CASE User
  BY <1>0, <1>2, OrderUser DEF OrderOK
<1>3. CASE \E i \in DOMAIN requests : Serve(i) \/ Answer(i) \/ Fail(i)
  BY <1>0, <1>3, ServeOrder, OrderAnswer DEF OrderOK
<1> QED BY <1>1, <1>2, <1>3 DEF ClientNext

LEMMA OrderInit ==
  ASSUME ClientInit
  PROVE  OrderOK
<1>1. DOMAIN requests = {} /\ code = None /\ owner = None
  <2>1. requests = <<>> /\ code = None /\ owner = None
    BY DEF ClientInit
  <2> QED BY <2>1
<1> QED BY <1>1, TypeInit DEF OrderOK, OrderInv, ServedFirst, ListsFit, LoadsFollow, ShownFits,
      RowsFit, SavesFit

\* With every request answered, in their order and without a failure, the tab and the
\* cache of tracked symbols show what the server has.
THEOREM ShownAlwaysServed == InOrder /\ ClientSpec => []ShownIsServed
<1>1. OrderOK => ShownIsServed
  <2> SUFFICES ASSUME OrderOK, requests = <<>>, ~doubt, code # None
               PROVE  stored = code /\ items = lists[code] /\ cached = Names(items)
    BY DEF ShownIsServed
  <2>1. DOMAIN requests = {}
    OBVIOUS
  <2> QED BY <2>1 DEF OrderOK, OrderInv, TypeInv, OneCode, ShownFits
<1> SUFFICES ASSUME InOrder PROVE ClientSpec => []ShownIsServed
  OBVIOUS
<1>2. OrderOK /\ [ClientNext]_clientVars => OrderOK'
  BY OrderStep
<1> QED BY <1>1, <1>2, OrderInit, PTL DEF ClientSpec

\* An edit that the page had no reason to doubt overwrites exactly the entry it
\* started from: no other write is undone by it.
THEOREM EditsAlwaysKeepTheRest == InOrder /\ ClientSpec => EditsKeepTheRest
<1> DEFINE Kept ==
      \A i \in DOMAIN requests :
        LET r == requests[i] IN
        /\ r.kind = "save" /\ ~r.blind /\ r.stage = "sent"
        /\ i \in DOMAIN requests' /\ requests'[i] = [r EXCEPT !.stage = "served"]
        => lists[r.code][r.sym] \in {None, r.base}
<1>1. OrderOK => Kept
  BY DEF OrderOK, OrderInv, SavesFit, Careful, SaveFits
<1>2. EditsKeepTheRest <=> [][Kept]_clientVars
  BY DEF EditsKeepTheRest
<1> HIDE DEF Kept
<1> SUFFICES ASSUME InOrder PROVE ClientSpec => EditsKeepTheRest
  OBVIOUS
<1>3. OrderOK /\ [ClientNext]_clientVars => OrderOK'
  BY OrderStep
<1> QED BY <1>1, <1>2, <1>3, OrderInit, PTL DEF ClientSpec
=============================================================================
