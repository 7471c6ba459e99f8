------------------------- MODULE WatchlistStoreProofs -------------------------
(***************************************************************************)
(* Theorems about WatchlistStore, for every number of codes, symbols and   *)
(* workers and every value of the limits.                                  *)
(***************************************************************************)
EXTENDS WatchlistStore, FiniteSetTheorems, TLAPS

(* A write leaves the table, its replica and the lag well typed.            *)
LEMMA WriteType ==
  ASSUME TypeOK, NEW c \in Codes, NEW p \in Partition, Write(c, p)
  PROVE  /\ table' \in [Codes -> Partition]
         /\ view' \in [Codes -> Partition]
         /\ lag' \in [Codes -> 0..MaxLag]
<1>1. table' \in [Codes -> Partition]
  BY DEF TypeOK, Write
<1>2. view' \in [Codes -> Partition]
  BY DEF TypeOK, Write
<1>3. lag' \in [Codes -> 0..MaxLag]
  BY StoreConstants DEF TypeOK, Write, StoreConstants
<1> QED BY <1>1, <1>2, <1>3

LEMMA WriteMetaType ==
  ASSUME TypeOK, NEW c \in Codes, NEW m \in Meta \cup {None}, WriteMeta(c, m)
  PROVE  /\ table' \in [Codes -> Partition]
         /\ view' \in [Codes -> Partition]
         /\ lag' \in [Codes -> 0..MaxLag]
<1>1. [table[c] EXCEPT !.meta = m] \in Partition
  BY DEF TypeOK, Partition
<1> QED BY <1>1, WriteType DEF WriteMeta

LEMMA WriteItemsType ==
  ASSUME TypeOK, NEW c \in Codes, NEW its \in SUBSET Symbols, WriteItems(c, its)
  PROVE  /\ table' \in [Codes -> Partition]
         /\ view' \in [Codes -> Partition]
         /\ lag' \in [Codes -> 0..MaxLag]
<1>1. [table[c] EXCEPT !.items = its] \in Partition
  BY DEF TypeOK, Partition
<1> QED BY <1>1, WriteType DEF WriteItems

(* The records the writes put.                                              *)
LEMMA UpsertedType ==
  ASSUME NEW m \in Meta \cup {None}, NEW t \in Nat
  PROVE  /\ Upserted(m) \in Meta
         /\ Touched(m, t) \in Meta
         /\ [Upserted(m) EXCEPT !.lastAccess = t] \in Meta
<1>1. Upserted(m) \in Meta
  BY DEF Upserted, Meta, NoTime
<1>2. t + ttlWindow \in Nat
  BY StoreConstants DEF StoreConstants
<1> QED BY <1>1, <1>2 DEF Touched, Meta

(* Local state after a worker answers or moves to its next call.            *)
LEMMA AnswerType ==
  ASSUME TypeOK, NEW w \in Workers, NEW a \in Answers, Answer(w, a)
  PROVE  /\ pc' \in [Workers -> Steps \cup Answers]
         /\ pk' \in [Workers -> Codes \cup {None}]
         /\ sym' \in [Workers -> Symbols \cup {None}]
         /\ now' \in [Workers -> Nat]
         /\ \A v \in Workers : /\ pc'[v] \in OnPortfolio => pk'[v] \in Codes
                               /\ pc'[v] \in OnSymbol => sym'[v] \in Symbols
BY DEF TypeOK, Answer, Answers, OnPortfolio, OnSymbol, NoTime

(* The type invariant: every worker that is about to use a portfolio or a    *)
(* symbol has one, and every record and timestamp is well formed.            *)
THEOREM TypeCorrect == Spec => []TypeOK
<1>1. Init => TypeOK
  BY StoreConstants DEF Init, TypeOK, Partition, NoTime, OnPortfolio, OnSymbol,
     Answers, StoreConstants
<1>2. TypeOK /\ [Next]_vars => TypeOK'
  <2> SUFFICES ASSUME TypeOK, [Next]_vars PROVE TypeOK'
    OBVIOUS
  <2> USE DEF TypeOK
  <2>1. ASSUME NEW w \in Workers, HandleNew(w) PROVE TypeOK'
    BY <2>1 DEF HandleNew, Goto, tableVars, historyVars, Steps, OnPortfolio, OnSymbol
  <2>2. ASSUME NEW w \in Workers, Verify(w) PROVE TypeOK'
    <3>1. CASE Goto(w, "reserve")
      BY <2>2, <3>1 DEF Verify, Goto, tableVars, historyVars, Steps, OnPortfolio, OnSymbol
    <3>2. CASE \E a \in {"forbidden403", "unavailable502"} : Answer(w, a)
      BY <2>2, <3>2, AnswerType DEF Verify, tableVars, historyVars, Answers
    <3> QED BY <2>2, <3>1, <3>2 DEF Verify
  <2>3. ASSUME NEW w \in Workers, Reserve(w) PROVE TypeOK'
    <3>1. CASE SlotFree /\ Goto(w, "newCode")
      BY <2>3, <3>1 DEF Reserve, SlotFree, Goto, historyVars, Steps, OnPortfolio, OnSymbol, Answer, Resend
    <3>2. CASE SlotFree /\ Resend
      BY <2>3, <3>2 DEF Reserve, SlotFree, Resend, historyVars, localVars
    <3>3. CASE Answer(w, "closed503")
      BY <2>3, <3>3, AnswerType DEF Reserve, historyVars, Answers
    <3> QED BY <2>3, <3>1, <3>2, <3>3 DEF Reserve
  <2>4. ASSUME NEW w \in Workers, NewCode(w) PROVE TypeOK'
    <3>1. CASE Answer(w, "error500") /\ UNCHANGED minted
      BY <2>4, <3>1, AnswerType DEF NewCode, tableVars, Answers
    <3>2. ASSUME NEW c \in Codes,
                 minted' = minted \cup {c},
                 pk' = [pk EXCEPT ![w] = c],
                 pc' = [pc EXCEPT ![w] = "ensureMeta"],
                 now' = [now EXCEPT ![w] = clock],
                 UNCHANGED sym
          PROVE  TypeOK'
      BY <2>4, <3>2 DEF NewCode, tableVars, Steps, OnPortfolio, OnSymbol
    <3> QED BY <2>4, <3>1, <3>2 DEF NewCode
  <2>5. ASSUME NEW w \in Workers, EnsureMeta(w) PROVE TypeOK'
    <3>1. pk[w] \in Codes
      BY <2>5 DEF EnsureMeta, OnPortfolio
    <3>2. CASE MetaAbsent(pk[w])
      <4> DEFINE m == [createdAt |-> now[w], ttl |-> now[w] + ttlWindow,
                       lastAccess |-> NoTime]
      <4>1. m \in Meta
        BY StoreConstants DEF StoreConstants, Meta, NoTime
      <4>2. WriteMeta(pk[w], m)
        BY <2>5, <3>2 DEF EnsureMeta
      <4>3. /\ table' \in [Codes -> Partition]
            /\ view' \in [Codes -> Partition]
            /\ lag' \in [Codes -> 0..MaxLag]
        BY <3>1, <4>1, <4>2, WriteMetaType
      <4>4. lastEdit' \in [Codes -> Nat]
        BY <2>5, <3>1, <3>2 DEF EnsureMeta
      <4>5. CASE Answer(w, "ok200")
        BY <2>5, <4>3, <4>4, <4>5, AnswerType DEF EnsureMeta, Answers
      <4>6. CASE Resend
        BY <2>5, <4>3, <4>4, <4>6 DEF EnsureMeta, Resend, localVars
      <4> QED BY <2>5, <3>2, <4>5, <4>6 DEF EnsureMeta
    <3>3. CASE ~MetaAbsent(pk[w])
      BY <2>5, <3>3, AnswerType DEF EnsureMeta, Answers
    <3> QED BY <3>2, <3>3
  <2>6. ASSUME NEW w \in Workers, Reject(w) PROVE TypeOK'
    BY <2>6, AnswerType DEF Reject, tableVars, historyVars, Answers
  <2>7. ASSUME NEW w \in Workers, HandleGet(w) PROVE TypeOK'
    BY <2>7 DEF HandleGet, tableVars, historyVars, Steps, OnPortfolio, OnSymbol
  <2>8. ASSUME NEW w \in Workers, ListAndRecordAccess(w) PROVE TypeOK'
    <3>1. CASE \E a \in {"notFound404", "ok200"} : Answer(w, a)
      BY <2>8, <3>1, AnswerType DEF ListAndRecordAccess, tableVars, historyVars, Answers
    <3>2. CASE Goto(w, "recordAccess")
      BY <2>8, <3>2 DEF ListAndRecordAccess, Goto, tableVars, historyVars, Steps,
         OnPortfolio, OnSymbol
    <3> QED BY <2>8, <3>1, <3>2 DEF ListAndRecordAccess
  <2>9. ASSUME NEW w \in Workers, RecordAccess(w) PROVE TypeOK'
    <3>1. pk[w] \in Codes
      BY <2>9 DEF RecordAccess, OnPortfolio
    <3>2. CASE MetaExists(pk[w])
      <4> DEFINE m == [Upserted(table[pk[w]].meta) EXCEPT !.lastAccess = now[w]]
      <4>1. table[pk[w]].meta \in Meta \cup {None}
        BY <3>1 DEF Partition
      <4>2. m \in Meta \cup {None}
        BY <4>1, UpsertedType
      <4>3. WriteMeta(pk[w], m)
        BY <2>9, <3>2 DEF RecordAccess
      <4>4. /\ table' \in [Codes -> Partition]
            /\ view' \in [Codes -> Partition]
            /\ lag' \in [Codes -> 0..MaxLag]
        BY <3>1, <4>2, <4>3, WriteMetaType
      <4>5. CASE Answer(w, "ok200")
        BY <2>9, <4>4, <4>5, AnswerType DEF RecordAccess, historyVars, Answers
      <4>6. CASE Resend
        BY <2>9, <4>4, <4>6 DEF RecordAccess, historyVars, Resend, localVars
      <4> QED BY <2>9, <3>2, <4>5, <4>6 DEF RecordAccess
    <3>3. CASE ~MetaExists(pk[w])
      BY <2>9, <3>3, AnswerType DEF RecordAccess, historyVars, Answers
    <3> QED BY <3>2, <3>3
  <2>10. ASSUME NEW w \in Workers, HandlePut(w) \/ HandleDelete(w) PROVE TypeOK'
    BY <2>10 DEF HandlePut, HandleDelete, tableVars, historyVars, Steps, OnPortfolio, OnSymbol
  <2>11. ASSUME NEW w \in Workers, UpsertList(w) PROVE TypeOK'
    <3>1. CASE \E a \in {"notFound404", "bad400"} : Answer(w, a)
      BY <2>11, <3>1, AnswerType DEF UpsertList, tableVars, historyVars, Answers
    <3>2. CASE Goto(w, "putItem")
      BY <2>11, <3>2 DEF UpsertList, Goto, tableVars, historyVars, Steps,
         OnPortfolio, OnSymbol
    <3> QED BY <2>11, <3>1, <3>2 DEF UpsertList
  <2>12. ASSUME NEW w \in Workers, PutItem(w) \/ DeleteItem(w) PROVE TypeOK'
    <3>1. pk[w] \in Codes /\ sym[w] \in Symbols
      BY <2>12 DEF PutItem, DeleteItem, OnPortfolio, OnSymbol
    <3>2. PICK its \in SUBSET Symbols : WriteItems(pk[w], its)
      BY <2>12, <3>1 DEF PutItem, DeleteItem, Partition
    <3>3. /\ table' \in [Codes -> Partition]
          /\ view' \in [Codes -> Partition]
          /\ lag' \in [Codes -> 0..MaxLag]
      BY <3>1, <3>2, WriteItemsType
    <3>4. CASE GotoAt(w, "touch")
      BY <2>12, <3>1, <3>3, <3>4 DEF PutItem, DeleteItem, GotoAt, historyVars, Steps,
         OnPortfolio, OnSymbol
    <3>5. CASE Resend
      BY <2>12, <3>3, <3>5 DEF PutItem, DeleteItem, Resend, localVars, historyVars
    <3> QED BY <2>12, <3>4, <3>5 DEF PutItem, DeleteItem
  <2>13. ASSUME NEW w \in Workers, Touch(w) PROVE TypeOK'
    <3>1. pk[w] \in Codes
      BY <2>13 DEF Touch, OnPortfolio
    <3>2. Touched(table[pk[w]].meta, now[w]) \in Meta \cup {None}
      BY <3>1, UpsertedType DEF Partition
    <3>3. /\ table' \in [Codes -> Partition]
          /\ view' \in [Codes -> Partition]
          /\ lag' \in [Codes -> 0..MaxLag]
      BY <2>13, <3>1, <3>2, WriteMetaType DEF Touch
    <3>4. lastEdit' \in [Codes -> Nat]
      BY <2>13 DEF Touch, Later
    <3>5. CASE Answer(w, "noContent204")
      BY <2>13, <3>3, <3>4, <3>5, AnswerType DEF Touch, Answers
    <3>6. CASE Resend
      BY <2>13, <3>3, <3>4, <3>6 DEF Touch, Resend, localVars
    <3> QED BY <2>13, <3>5, <3>6 DEF Touch
  <2>14. ASSUME NEW w \in Workers, GiveUp(w) PROVE TypeOK'
    BY <2>14, AnswerType DEF GiveUp, tableVars, historyVars, Answers
  <2>15. ASSUME NEW c \in Codes, Expire(c) PROVE TypeOK'
    BY <2>15, WriteMetaType DEF Expire, localVars, historyVars
  <2>16. ASSUME NEW c \in Codes, CatchUp(c) PROVE TypeOK'
    BY <2>16, StoreConstants DEF CatchUp, localVars, historyVars, StoreConstants
  <2>17. CASE Tick
    BY <2>17 DEF Tick, tableVars, localVars, historyVars
  <2>18. CASE UNCHANGED vars
    BY <2>18 DEF vars, tableVars, localVars, historyVars
  <2> QED
    BY <2>1, <2>2, <2>3, <2>4, <2>5, <2>6, <2>7, <2>8, <2>9, <2>10, <2>11, <2>12,
       <2>13, <2>14, <2>15, <2>16, <2>17, <2>18
       DEF Next, Create, Handle, Get, Upsert, Delete
<1> QED BY <1>1, <1>2, PTL DEF Spec

-----------------------------------------------------------------------------
(* The cap on portfolio codes.                                              *)

LEMMA ClaimingFinite ==
  /\ IsFiniteSet(Claiming)
  /\ Cardinality(Claiming) \in Nat
<1>1. IsFiniteSet(Workers)
  BY StoreConstants DEF StoreConstants
<1>2. Claiming \in SUBSET Workers
  BY DEF Claiming
<1> QED BY <1>1, <1>2, FS_Subset, FS_CardinalityType

LEMMA MintedFinite ==
  ASSUME TypeOK
  PROVE  IsFiniteSet(minted) /\ Cardinality(minted) \in Nat
<1>1. IsFiniteSet(Codes)
  BY StoreConstants DEF StoreConstants
<1>2. minted \in SUBSET Codes
  BY DEF TypeOK
<1> QED BY <1>1, <1>2, FS_Subset, FS_CardinalityType

(* Only Reserve and NewCode touch the counter or the codes, and no other     *)
(* step brings a worker between the two.                                     *)
LEMMA OthersKeepSlots ==
  ASSUME TypeOK, [Next]_vars, \A w \in Workers : ~Reserve(w) /\ ~NewCode(w)
  PROVE  created' = created /\ minted' = minted /\ Claiming' \subseteq Claiming
<1> USE DEF TypeOK, Claiming
<1>1. ASSUME NEW w \in Workers, HandleNew(w) \/ Verify(w) \/ EnsureMeta(w)
      PROVE  created' = created /\ minted' = minted /\ Claiming' \subseteq Claiming
  BY <1>1 DEF HandleNew, Verify, EnsureMeta, Goto, Answer, Resend, tableVars,
     historyVars, localVars
<1>2. ASSUME NEW w \in Workers, Handle(w) \/ GiveUp(w)
      PROVE  created' = created /\ minted' = minted /\ Claiming' \subseteq Claiming
  BY <1>2 DEF Handle, Get, Upsert, Delete, Reject, HandleGet, ListAndRecordAccess,
     RecordAccess, HandlePut, UpsertList, PutItem, HandleDelete, DeleteItem, Touch,
     GiveUp, Goto, GotoAt, Answer, Resend, tableVars, historyVars, localVars
<1>3. ASSUME NEW c \in Codes, Expire(c) \/ CatchUp(c)
      PROVE  created' = created /\ minted' = minted /\ Claiming' \subseteq Claiming
  BY <1>3 DEF Expire, CatchUp, historyVars, localVars
<1>4. CASE Tick \/ UNCHANGED vars
  BY <1>4 DEF Tick, vars, tableVars, historyVars, localVars
<1> QED BY <1>1, <1>2, <1>3, <1>4 DEF Next, Create

LEMMA SlotsCoveredStep ==
  ASSUME TypeOK, SlotsCovered, [Next]_vars
  PROVE  SlotsCovered'
<1> USE DEF SlotsCovered
<1>1. /\ created \in Nat /\ MaxCodes \in Nat
      /\ IsFiniteSet(Claiming) /\ Cardinality(Claiming) \in Nat
      /\ IsFiniteSet(minted) /\ Cardinality(minted) \in Nat
  BY ClaimingFinite, MintedFinite, StoreConstants DEF TypeOK, StoreConstants
<1>2. ASSUME NEW w \in Workers, Reserve(w) PROVE SlotsCovered'
  <2>1. CASE SlotFree /\ Goto(w, "newCode")
    <3>1. Claiming' = Claiming \cup {w} /\ w \notin Claiming
      BY <1>2, <2>1 DEF Reserve, Goto, Claiming, TypeOK
    <3>2. Cardinality(Claiming') = Cardinality(Claiming) + 1
      BY <1>1, <3>1, FS_AddElement
    <3>3. created' = created + 1 /\ created < MaxCodes /\ minted' = minted
      BY <1>2, <2>1 DEF Reserve, SlotFree, historyVars
    <3> QED BY <1>1, <3>2, <3>3
  <2>2. CASE SlotFree /\ Resend
    <3>1. Claiming' = Claiming
      BY <2>2 DEF Resend, localVars, Claiming
    <3>2. created' = created + 1 /\ created < MaxCodes /\ minted' = minted
      BY <1>2, <2>2 DEF Reserve, SlotFree, historyVars
    <3> QED BY <1>1, <3>1, <3>2
  <2>3. CASE ~SlotFree
    <3>1. Claiming' = Claiming /\ created' = created /\ minted' = minted
      BY <1>2, <2>3 DEF Reserve, Answer, Claiming, TypeOK, historyVars
    <3> QED BY <1>1, <3>1
  <2> QED BY <1>2, <2>1, <2>2, <2>3 DEF Reserve
<1>3. ASSUME NEW w \in Workers, NewCode(w) PROVE SlotsCovered'
  <2>1. Claiming' = Claiming \ {w} /\ w \in Claiming /\ created' = created
    BY <1>3 DEF NewCode, Answer, Claiming, TypeOK, tableVars
  <2>2. Cardinality(Claiming') = Cardinality(Claiming) - 1
    BY <1>1, <2>1, FS_RemoveElement
  <2>3. Cardinality(minted') <= Cardinality(minted) + 1 /\ Cardinality(minted') \in Nat
    <3>1. ASSUME NEW c \in Codes, minted' = minted \cup {c}
          PROVE  Cardinality(minted') \in {Cardinality(minted), Cardinality(minted) + 1}
      BY <1>1, <3>1, FS_AddElement
    <3>2. CASE minted' = minted
      BY <1>1, <3>2
    <3> QED BY <1>1, <1>3, <3>1, <3>2 DEF NewCode
  <2> QED BY <1>1, <2>1, <2>2, <2>3
<1>4. CASE \A w \in Workers : ~Reserve(w) /\ ~NewCode(w)
  <2>1. created' = created /\ minted' = minted /\ Claiming' \subseteq Claiming
    BY <1>4, OthersKeepSlots
  <2>2. Cardinality(Claiming') <= Cardinality(Claiming) /\ Cardinality(Claiming') \in Nat
    BY <1>1, <2>1, FS_Subset, FS_CardinalityType
  <2> QED BY <1>1, <2>1, <2>2
<1> QED BY <1>2, <1>3, <1>4

THEOREM SlotsAlwaysCovered == Spec => []SlotsCovered
<1>1. Init => SlotsCovered
  <2> SUFFICES ASSUME Init PROVE SlotsCovered
    OBVIOUS
  <2>1. Claiming = {} /\ minted = {} /\ created = 0
    BY DEF Init, Claiming
  <2> QED BY <2>1, FS_EmptySet, StoreConstants DEF SlotsCovered, StoreConstants
<1>2. TypeOK /\ SlotsCovered /\ [Next]_vars => SlotsCovered'
  BY SlotsCoveredStep
<1> QED BY <1>1, <1>2, TypeCorrect, PTL DEF Spec

(* However creates race, fail half-way or are repeated by the SDK, the codes *)
(* handed out never exceed the slots claimed, nor the slots MAX_CODES        *)
(* (store.go, Reserve).                                                      *)
THEOREM CodesStayWithinCap == Spec => []CodesWithinCap
<1>1. TypeOK /\ SlotsCovered => CodesWithinCap
  <2> SUFFICES ASSUME TypeOK, SlotsCovered PROVE CodesWithinCap
    OBVIOUS
  <2> QED BY ClaimingFinite, MintedFinite DEF SlotsCovered, CodesWithinCap, TypeOK
<1> QED BY <1>1, TypeCorrect, SlotsAlwaysCovered, PTL

(* The store implements the abstract cap: a step claims one slot, grants one *)
(* code against an unused slot, or leaves both alone.                        *)
THEOREM StoreImplementsQuota == Spec => ImplementsQuota
<1>1. Init => Quota!Init
  BY DEF Init, Quota!Init
<1>2. TypeOK /\ SlotsCovered /\ [Next]_vars => [Quota!Next]_<<created, minted>>
  <2> SUFFICES ASSUME TypeOK, SlotsCovered, [Next]_vars
               PROVE  Quota!Next \/ UNCHANGED <<created, minted>>
    OBVIOUS
  <2>1. ASSUME NEW w \in Workers, Reserve(w)
        PROVE  Quota!Next \/ UNCHANGED <<created, minted>>
    BY <2>1 DEF Reserve, SlotFree, historyVars, Quota!Next, Quota!Claim
  <2>2. ASSUME NEW w \in Workers, NewCode(w)
        PROVE  Quota!Next \/ UNCHANGED <<created, minted>>
    <3>1. w \in Claiming
      BY <2>2 DEF NewCode, Claiming
    <3>2. Cardinality(Claiming) # 0
      BY <3>1, ClaimingFinite, FS_EmptySet
    <3>3. Cardinality(minted) < created
      BY <3>2, ClaimingFinite, MintedFinite DEF SlotsCovered, TypeOK
    <3>4. created' = created
      BY <2>2 DEF NewCode, tableVars
    <3>5. minted' = minted \/ \E c \in Codes : minted' = minted \cup {c}
      BY <2>2 DEF NewCode
    <3>6. Quota!Cardinality(minted) = Cardinality(minted)
      BY DEF Quota!Cardinality, Cardinality
    <3> QED BY <3>3, <3>4, <3>5, <3>6 DEF Quota!Next, Quota!Grant
  <2>3. CASE \A w \in Workers : ~Reserve(w) /\ ~NewCode(w)
    BY <2>3, OthersKeepSlots
  <2> QED BY <2>1, <2>2, <2>3
<1> QED BY <1>1, <1>2, TypeCorrect, SlotsAlwaysCovered, PTL DEF Spec, Quota!Spec, ImplementsQuota

-----------------------------------------------------------------------------
(* The cap on the symbols of a list.                                        *)

(* Sets of symbols are finite, so their cardinalities are numbers.          *)
LEMMA SymbolsFinite ==
  ASSUME NEW S \in SUBSET Symbols
  PROVE  IsFiniteSet(S) /\ Cardinality(S) \in Nat
BY StoreConstants, FS_Subset, FS_CardinalityType DEF StoreConstants

LEMMA SymbolsMonotone ==
  ASSUME NEW S \in SUBSET Symbols, NEW T \in SUBSET S
  PROVE  Cardinality(T) <= Cardinality(S)
BY SymbolsFinite, FS_Subset

LEMMA SymbolsUnion ==
  ASSUME NEW S \in SUBSET Symbols, NEW T \in SUBSET Symbols
  PROVE  Cardinality(S \cup T) <= Cardinality(S) + Cardinality(T)
<1>1. Cardinality(S \cup T) = Cardinality(S) + Cardinality(T) - Cardinality(S \cap T)
  BY SymbolsFinite, FS_Union
<1>2. /\ Cardinality(S) \in Nat /\ Cardinality(T) \in Nat
      /\ Cardinality(S \cap T) \in Nat
  BY SymbolsFinite
<1> QED BY <1>1, <1>2

LEMMA SetsTyped ==
  ASSUME TypeOK, NEW c \in Codes
  PROVE  /\ table[c].items \in SUBSET Symbols
         /\ view[c].items \in SUBSET Symbols
         /\ Pending(c) \in SUBSET Symbols
         /\ Unseen(c) \in SUBSET Symbols
         /\ Reach(c) \in SUBSET Symbols
BY DEF TypeOK, Partition, Pending, Unseen, Reach

(* A worker has at most one put in flight.                                  *)
LEMMA PendingBound ==
  ASSUME NEW c \in Codes
  PROVE  Cardinality(Pending(c)) <= Cardinality(Workers)
<1> DEFINE W == {w \in Workers : pc[w] = "putItem" /\ pk[w] = c /\ sym[w] \in Symbols}
           f == [w \in W |-> sym[w]]
<1>1. IsFiniteSet(Workers) /\ W \in SUBSET Workers
  BY StoreConstants DEF StoreConstants
<1>2. IsFiniteSet(W) /\ Cardinality(W) <= Cardinality(Workers) /\ Cardinality(W) \in Nat
  BY <1>1, FS_Subset, FS_CardinalityType
<1>3. f \in Surjection(W, Pending(c))
  BY DEF Surjection, Pending
<1>4. Cardinality(Pending(c)) <= Cardinality(W)
  BY <1>2, <1>3, FS_Surjection
<1>5. Cardinality(Pending(c)) \in Nat /\ Cardinality(Workers) \in Nat
  BY <1>1, FS_CardinalityType, SymbolsFinite DEF Pending
<1> QED BY <1>2, <1>4, <1>5

(* How a step can change the table: not at all, by a replica catching up, or *)
(* by a write that leaves the items alone, applies a pending put or deletes. *)
SmallWrite(d, p) ==
  /\ Write(d, p)
  /\ \/ p.items = table[d].items
     \/ \E s \in Pending(d) : p.items = table[d].items \cup {s}
     \/ \E s \in Symbols : p.items = table[d].items \ {s}

TableStep ==
  \/ UNCHANGED <<table, view, lag>>
  \/ \E d \in Codes : CatchUp(d)
  \/ \E d \in Codes, p \in Partition : SmallWrite(d, p)

LEMMA MetaWriteIsSmall ==
  ASSUME TypeOK, NEW d \in Codes, NEW m \in Meta \cup {None}, WriteMeta(d, m)
  PROVE  TableStep
<1> DEFINE p == [table[d] EXCEPT !.meta = m]
<1>1. p \in Partition /\ p.items = table[d].items
  BY DEF TypeOK, Partition
<1> QED BY <1>1 DEF WriteMeta, TableStep, SmallWrite

LEMMA StepsAreSmall ==
  ASSUME TypeOK, [Next]_vars
  PROVE  TableStep
<1>1. ASSUME NEW w \in Workers, EnsureMeta(w) PROVE TableStep
  <2>1. pk[w] \in Codes
    BY <1>1 DEF EnsureMeta, TypeOK, OnPortfolio
  <2>2. [createdAt |-> now[w], ttl |-> now[w] + ttlWindow, lastAccess |-> NoTime] \in Meta
    BY StoreConstants DEF StoreConstants, Meta, NoTime, TypeOK
  <2> QED BY <1>1, <2>1, <2>2, MetaWriteIsSmall DEF EnsureMeta, TableStep
<1>2. ASSUME NEW w \in Workers, RecordAccess(w) \/ Touch(w) PROVE TableStep
  <2>1. pk[w] \in Codes /\ now[w] \in Nat
    BY <1>2 DEF RecordAccess, Touch, TypeOK, OnPortfolio
  <2>2. table[pk[w]].meta \in Meta \cup {None}
    BY <2>1 DEF TypeOK, Partition
  <2>3. CASE RecordAccess(w)
    BY <2>1, <2>2, <2>3, UpsertedType, MetaWriteIsSmall DEF RecordAccess, TableStep
  <2>4. CASE Touch(w)
    BY <2>1, <2>2, <2>4, UpsertedType, MetaWriteIsSmall DEF Touch
  <2> QED BY <1>2, <2>3, <2>4
<1>3. ASSUME NEW w \in Workers, PutItem(w) \/ DeleteItem(w) PROVE TableStep
  <2>1. pk[w] \in Codes /\ sym[w] \in Symbols
    BY <1>3 DEF PutItem, DeleteItem, TypeOK, OnPortfolio, OnSymbol
  <2>2. table[pk[w]] \in Partition
    BY <2>1 DEF TypeOK
  <2>3. CASE PutItem(w)
    <3> DEFINE p == [table[pk[w]] EXCEPT !.items = table[pk[w]].items \cup {sym[w]}]
    <3>1. p \in Partition /\ p.items = table[pk[w]].items \cup {sym[w]}
      BY <2>1, <2>2 DEF Partition
    <3>2. sym[w] \in Pending(pk[w]) /\ Write(pk[w], p)
      BY <2>1, <2>3 DEF PutItem, Pending, WriteItems
    <3> QED BY <2>1, <3>1, <3>2 DEF TableStep, SmallWrite
  <2>4. CASE DeleteItem(w)
    <3> DEFINE p == [table[pk[w]] EXCEPT !.items = table[pk[w]].items \ {sym[w]}]
    <3>1. p \in Partition /\ p.items = table[pk[w]].items \ {sym[w]}
      BY <2>1, <2>2 DEF Partition
    <3>2. Write(pk[w], p)
      BY <2>4 DEF DeleteItem, WriteItems
    <3> QED BY <2>1, <3>1, <3>2 DEF TableStep, SmallWrite
  <2> QED BY <1>3, <2>3, <2>4
<1>4. ASSUME NEW c \in Codes, Expire(c) PROVE TableStep
  BY <1>4, MetaWriteIsSmall DEF Expire
<1>5. ASSUME NEW c \in Codes, CatchUp(c) PROVE TableStep
  BY <1>5 DEF TableStep
<1>6. ASSUME NEW w \in Workers,
             \/ HandleNew(w) \/ Verify(w) \/ Reserve(w) \/ NewCode(w) \/ Reject(w)
             \/ HandleGet(w) \/ ListAndRecordAccess(w) \/ HandlePut(w)
             \/ UpsertList(w) \/ HandleDelete(w) \/ GiveUp(w)
      PROVE  TableStep
  BY <1>6 DEF TableStep, HandleNew, Verify, Reserve, NewCode, Reject, HandleGet,
     ListAndRecordAccess, HandlePut, UpsertList, HandleDelete, GiveUp, tableVars
<1>7. CASE Tick \/ UNCHANGED vars
  BY <1>7 DEF Tick, vars, tableVars, TableStep
<1> QED
  BY <1>1, <1>2, <1>3, <1>4, <1>5, <1>6, <1>7
     DEF Next, Create, Handle, Get, Upsert, Delete

(* Only UpsertList makes a put pending.                                     *)
LEMMA OthersKeepPending ==
  ASSUME TypeOK, [Next]_vars, \A w \in Workers : ~UpsertList(w), NEW c \in Codes
  PROVE  Pending(c)' \subseteq Pending(c)
<1> USE DEF TypeOK, Pending
<1>1. ASSUME NEW w \in Workers, Create(w)
      PROVE  Pending(c)' \subseteq Pending(c)
  BY <1>1 DEF Create, HandleNew, Verify, Reserve, NewCode, EnsureMeta, Goto, Answer,
     Resend, Answers, localVars
<1>2. ASSUME NEW w \in Workers, Handle(w) \/ GiveUp(w)
      PROVE  Pending(c)' \subseteq Pending(c)
  BY <1>2 DEF Handle, Get, Upsert, Delete, Reject, HandleGet, ListAndRecordAccess,
     RecordAccess, HandlePut, PutItem, HandleDelete, DeleteItem, Touch,
     GiveUp, Goto, GotoAt, Answer, Resend, Answers, localVars
<1>3. ASSUME NEW d \in Codes, Expire(d) \/ CatchUp(d)
      PROVE  Pending(c)' \subseteq Pending(c)
  BY <1>3 DEF Expire, CatchUp, localVars
<1>4. CASE Tick \/ UNCHANGED vars
  BY <1>4 DEF Tick, vars, localVars
<1> QED BY <1>1, <1>2, <1>3, <1>4 DEF Next

(* A step moves the table and its replica apart by at most one symbol for    *)
(* each write the replica misses, and brings in no symbol that was not        *)
(* already in the table, in the replica or pending.                          *)
LEMMA TableStepBounds ==
  ASSUME TypeOK, TypeOK', TableStep, NEW c \in Codes, Cardinality(Unseen(c)) <= lag[c]
  PROVE  /\ Cardinality(Unseen(c)') <= lag'[c]
         /\ table'[c].items \cup view'[c].items \subseteq Reach(c)
<1>1. /\ Unseen(c) \in SUBSET Symbols /\ Unseen(c)' \in SUBSET Symbols
      /\ lag[c] \in Nat /\ lag'[c] \in Nat
  <2>1. lag[c] \in 0..MaxLag /\ lag'[c] \in 0..MaxLag
    BY DEF TypeOK
  <2> QED BY <2>1, StoreConstants DEF StoreConstants, TypeOK, Partition, Unseen
<1>2. CASE UNCHANGED <<table, view, lag>>
  BY <1>2 DEF Unseen, Reach
<1>3. ASSUME NEW d \in Codes, CatchUp(d)
      PROVE  /\ Cardinality(Unseen(c)') <= lag'[c]
             /\ table'[c].items \cup view'[c].items \subseteq Reach(c)
  <2>1. CASE d = c
    <3>1. view'[c] = table'[c] /\ table' = table /\ lag'[c] = 0
      BY <1>3, <2>1 DEF CatchUp, TypeOK
    <3>2. Unseen(c)' = {}
      BY <3>1 DEF Unseen
    <3> QED BY <3>1, <3>2, FS_EmptySet DEF Reach
  <2>2. CASE d # c
    BY <1>3, <2>2 DEF CatchUp, Unseen, Reach, TypeOK
  <2> QED BY <2>1, <2>2
<1>4. ASSUME NEW d \in Codes, NEW p \in Partition, SmallWrite(d, p)
      PROVE  /\ Cardinality(Unseen(c)') <= lag'[c]
             /\ table'[c].items \cup view'[c].items \subseteq Reach(c)
  <2>1. CASE d # c
    <3>1. table'[c] = table[c] /\ view'[c] = view[c] /\ lag'[c] = lag[c]
      BY <1>4, <2>1 DEF SmallWrite, Write, TypeOK
    <3> QED BY <3>1 DEF Unseen, Reach
  <2>2. CASE d = c
    <3>1. table'[c] = p
      BY <1>4, <2>2 DEF SmallWrite, Write, TypeOK
    <3>2. p.items \subseteq Reach(c)
      BY <1>4, <2>2 DEF SmallWrite, Reach
    <3>3. PICK s : /\ p.items \subseteq table[c].items \cup {s}
                   /\ table[c].items \subseteq p.items \cup {s}
      BY <1>4, <2>2 DEF SmallWrite
    <3>4. CASE view'[c] = p /\ lag'[c] = 0
      <4>1. Unseen(c)' = {}
        BY <3>1, <3>4 DEF Unseen
      <4> QED BY <3>1, <3>2, <3>4, <4>1, FS_EmptySet
    <3>5. CASE view'[c] = view[c] /\ lag'[c] = lag[c] + 1
      <4>1. Unseen(c)' \in SUBSET (Unseen(c) \cup {s})
        BY <3>1, <3>3, <3>5 DEF Unseen
      <4>2. /\ IsFiniteSet(Unseen(c) \cup {s})
            /\ Cardinality(Unseen(c) \cup {s}) <= Cardinality(Unseen(c)) + 1
            /\ Cardinality(Unseen(c)) \in Nat
        BY <1>1, SymbolsFinite, FS_AddElement
      <4>3. Cardinality(Unseen(c)') <= Cardinality(Unseen(c) \cup {s})
        BY <4>1, <4>2, FS_Subset
      <4>4. Cardinality(Unseen(c)') \in Nat /\ Cardinality(Unseen(c) \cup {s}) \in Nat
        BY <1>1, <4>2, SymbolsFinite, FS_CardinalityType
      <4> QED BY <1>1, <3>1, <3>2, <3>5, <4>2, <4>3, <4>4 DEF Reach
    <3> QED BY <1>4, <2>2, <3>4, <3>5 DEF SmallWrite, Write, TypeOK
  <2> QED BY <2>1, <2>2
<1> QED BY <1>2, <1>3, <1>4 DEF TableStep

(* A put that passes the cap check: the list it read held fewer than          *)
(* MaxSymbols, or the symbol was in it already.                              *)
LEMMA UpsertListReach ==
  ASSUME TypeOK, TypeOK', OvershootInv, NEW w \in Workers, UpsertList(w), NEW c \in Codes
  PROVE  Cardinality(Reach(c)') < MaxSymbols + Cardinality(Workers) + MaxLag
<1>0. table' = table /\ view' = view /\ lag' = lag
  BY DEF UpsertList, tableVars
<1>1. pk[w] \in Codes /\ sym[w] \in Symbols
  BY DEF UpsertList, TypeOK, OnPortfolio, OnSymbol
<1>2. CASE Reach(c)' \subseteq Reach(c)
  <2>1. Reach(c) \in SUBSET Symbols /\ Cardinality(Reach(c)') <= Cardinality(Reach(c))
    BY <1>2, SetsTyped, SymbolsMonotone
  <2>2. /\ Cardinality(Reach(c)') \in Nat /\ Cardinality(Reach(c)) \in Nat
        /\ Cardinality(Workers) \in Nat /\ MaxSymbols \in Nat /\ MaxLag \in Nat
    BY <1>2, <2>1, SymbolsFinite, FS_CardinalityType, StoreConstants DEF StoreConstants
  <2> QED BY <2>1, <2>2 DEF OvershootInv
<1>3. CASE ~(Reach(c)' \subseteq Reach(c))
  <2>1. PICK p \in Reads(pk[w]) : HasRoom(p, sym[w]) /\ Goto(w, "putItem")
    <3>1. ASSUME NEW a \in Answers, Answer(w, a) PROVE Reach(c)' \subseteq Reach(c)
      BY <1>0, <3>1 DEF Answer, Reach, Pending, TypeOK, Answers
    <3> QED BY <1>3, <3>1 DEF UpsertList, Answers
  <2>2. Pending(c)' \subseteq Pending(c) \cup {sym[w]} /\ (c # pk[w] => Pending(c)' \subseteq Pending(c))
    BY <2>1 DEF Goto, Pending, TypeOK
  <2>3. c = pk[w] /\ sym[w] \notin p.items
    BY <1>0, <1>3, <2>1, <2>2 DEF Reach, Reads
  <2>4. Cardinality(p.items) < MaxSymbols /\ p.items \in SUBSET Symbols
    BY <2>1, <2>3, SetsTyped DEF HasRoom, Reads
  <2>5. Reach(c)' \subseteq (p.items \cup Unseen(c)) \cup Pending(c)'
    BY <1>0, <2>1, <2>3 DEF Reach, Unseen, Reads
  <2>6. Cardinality(Pending(c)') <= Cardinality(Workers)
    <3>1. (c \in Codes => Cardinality(Pending(c)) <= Cardinality(Workers))'
      BY PendingBound, PTL
    <3> QED BY <3>1
  <2>7. Cardinality(Unseen(c)) <= MaxLag
    <3>1. lag[c] \in 0..MaxLag
      BY DEF TypeOK
    <3>2. Cardinality(Unseen(c)) \in Nat /\ MaxLag \in Nat
      BY SetsTyped, SymbolsFinite, StoreConstants DEF StoreConstants
    <3> QED BY <3>1, <3>2 DEF OvershootInv
  <2>8. /\ Pending(c)' \in SUBSET Symbols /\ Unseen(c) \in SUBSET Symbols
        /\ p.items \cup Unseen(c) \in SUBSET Symbols
    BY <2>2, <2>4, <1>1, SetsTyped
  <2>9. /\ Cardinality(Reach(c)') <= Cardinality((p.items \cup Unseen(c)) \cup Pending(c)')
        /\ Reach(c)' \in SUBSET Symbols
    BY <2>5, <2>8, SymbolsMonotone
  <2>10. Cardinality((p.items \cup Unseen(c)) \cup Pending(c)')
           <= Cardinality(p.items \cup Unseen(c)) + Cardinality(Pending(c)')
    BY <2>8, SymbolsUnion
  <2>11. Cardinality(p.items \cup Unseen(c)) <= Cardinality(p.items) + Cardinality(Unseen(c))
    BY <2>4, <2>8, SymbolsUnion
  <2>12. /\ Cardinality(Reach(c)') \in Nat
         /\ Cardinality((p.items \cup Unseen(c)) \cup Pending(c)') \in Nat
         /\ Cardinality(p.items \cup Unseen(c)) \in Nat
         /\ Cardinality(p.items) \in Nat
         /\ Cardinality(Unseen(c)) \in Nat
         /\ Cardinality(Pending(c)') \in Nat
    BY <2>4, <2>8, <2>9, SymbolsFinite
  <2>13. MaxSymbols \in Nat /\ MaxLag \in Nat /\ Cardinality(Workers) \in Nat
    BY StoreConstants, FS_CardinalityType DEF StoreConstants
  <2> QED BY <2>4, <2>6, <2>7, <2>9, <2>10, <2>11, <2>12, <2>13
<1> QED BY <1>2, <1>3

THEOREM OvershootInvAlways == Spec => []OvershootInv
<1>0. MaxSymbols \in Nat \ {0} /\ MaxLag \in Nat /\ Cardinality(Workers) \in Nat
  BY StoreConstants, FS_CardinalityType DEF StoreConstants
<1>1. Init => OvershootInv
  <2> SUFFICES ASSUME Init, NEW c \in Codes
               PROVE  /\ Cardinality(Unseen(c)) <= lag[c]
                      /\ Cardinality(Reach(c)) < MaxSymbols + Cardinality(Workers) + MaxLag
    BY DEF OvershootInv
  <2>1. Unseen(c) = {} /\ Reach(c) = {} /\ lag[c] = 0
    BY DEF Init, Unseen, Reach, Pending
  <2> QED BY <1>0, <2>1, FS_EmptySet
<1>2. TypeOK /\ TypeOK' /\ OvershootInv /\ [Next]_vars => OvershootInv'
  <2> SUFFICES ASSUME TypeOK, TypeOK', OvershootInv, [Next]_vars, NEW c \in Codes
               PROVE  /\ Cardinality(Unseen(c)') <= lag'[c]
                      /\ Cardinality(Reach(c)') < MaxSymbols + Cardinality(Workers) + MaxLag
    BY DEF OvershootInv
  <2>1. /\ Cardinality(Unseen(c)') <= lag'[c]
        /\ table'[c].items \cup view'[c].items \subseteq Reach(c)
    BY StepsAreSmall, TableStepBounds DEF OvershootInv
  <2>2. CASE \E w \in Workers : UpsertList(w)
    BY <2>1, <2>2, UpsertListReach
  <2>3. CASE \A w \in Workers : ~UpsertList(w)
    <3>1. Reach(c)' \in SUBSET Reach(c)
      BY <2>1, <2>3, OthersKeepPending DEF Reach
    <3>2. Reach(c) \in SUBSET Symbols /\ Reach(c)' \in SUBSET Symbols
      BY <3>1, SetsTyped
    <3>3. Cardinality(Reach(c)') <= Cardinality(Reach(c))
      BY <3>1, <3>2, SymbolsMonotone
    <3>4. Cardinality(Reach(c)') \in Nat /\ Cardinality(Reach(c)) \in Nat
      BY <3>2, SymbolsFinite
    <3> QED BY <1>0, <2>1, <3>3, <3>4 DEF OvershootInv
  <2> QED BY <2>2, <2>3
<1> QED BY <1>1, <1>2, TypeCorrect, PTL DEF Spec

(* However puts race and however stale the lists they check, a list exceeds   *)
(* MaxSymbols by less than the number of workers plus the read lag           *)
(* (store.go, Upsert).                                                       *)
THEOREM OvershootStaysBounded == Spec => []OvershootBounded
<1>1. TypeOK /\ OvershootInv => OvershootBounded
  <2> SUFFICES ASSUME TypeOK, OvershootInv, NEW c \in Codes
               PROVE  Cardinality(table[c].items) < MaxSymbols + Cardinality(Workers) + MaxLag
    BY DEF OvershootBounded
  <2>1. Cardinality(table[c].items) <= Cardinality(Reach(c))
    BY SetsTyped, SymbolsMonotone DEF Reach
  <2>2. /\ Cardinality(table[c].items) \in Nat /\ Cardinality(Reach(c)) \in Nat
        /\ MaxSymbols \in Nat /\ MaxLag \in Nat /\ Cardinality(Workers) \in Nat
    BY SetsTyped, SymbolsFinite, StoreConstants, FS_CardinalityType DEF StoreConstants
  <2> QED BY <2>1, <2>2 DEF OvershootInv
<1> QED BY <1>1, TypeCorrect, OvershootInvAlways, PTL

(* Without racing workers and with up-to-date reads the cap is exact.        *)
THEOREM SerialCapExact ==
  ASSUME Cardinality(Workers) = 1, MaxLag = 0
  PROVE  Spec => []SymbolCap
<1>1. TypeOK /\ OvershootBounded => SymbolCap
  <2> SUFFICES ASSUME TypeOK, OvershootBounded, NEW c \in Codes
               PROVE  Cardinality(table[c].items) <= MaxSymbols
    BY DEF SymbolCap
  <2>1. Cardinality(table[c].items) \in Nat /\ MaxSymbols \in Nat
    BY SetsTyped, SymbolsFinite, StoreConstants DEF StoreConstants
  <2> QED BY <2>1 DEF OvershootBounded
<1> QED BY <1>1, TypeCorrect, OvershootStaysBounded, PTL

-----------------------------------------------------------------------------
(* The life of a portfolio's record.                                        *)

(* A write of META replaces that record and no other.                       *)
LEMMA MetaWritten ==
  ASSUME TypeOK, NEW d \in Codes, NEW m \in Meta \cup {None}, WriteMeta(d, m),
         NEW c \in Codes
  PROVE  table'[c].meta = IF c = d THEN m ELSE table[c].meta
<1> DEFINE p == [table[d] EXCEPT !.meta = m]
<1>1. p.meta = m
  BY DEF TypeOK, Partition
<1> QED BY <1>1 DEF WriteMeta, Write, TypeOK

LEMMA ItemsWriteKeepsMeta ==
  ASSUME TypeOK, NEW d \in Codes, NEW its, WriteItems(d, its), NEW c \in Codes
  PROVE  table'[c].meta = table[c].meta
<1> DEFINE p == [table[d] EXCEPT !.items = its]
<1>1. p.meta = table[d].meta
  BY DEF TypeOK, Partition
<1> QED BY <1>1 DEF WriteItems, Write, TypeOK

(* The record of a code is created only by EnsureMeta or a touch for that    *)
(* code, and a write that finds one keeps its creation time.                 *)
LEMMA MetaStep ==
  ASSUME TypeOK, [Next]_vars, NEW c \in Codes
  PROVE  \/ table'[c].meta \in {table[c].meta, None}
         \/ /\ table[c].meta # None
            /\ table'[c].meta.createdAt = table[c].meta.createdAt
         \/ /\ table[c].meta = None
            /\ \E w \in Workers : pk[w] = c /\ pc[w] \in {"ensureMeta", "touch"}
<1> DEFINE Kept == \/ table'[c].meta \in {table[c].meta, None}
                   \/ /\ table[c].meta # None
                      /\ table'[c].meta.createdAt = table[c].meta.createdAt
                   \/ /\ table[c].meta = None
                      /\ \E w \in Workers : pk[w] = c /\ pc[w] \in {"ensureMeta", "touch"}
<1>1. ASSUME NEW w \in Workers, EnsureMeta(w) PROVE Kept
  <2> DEFINE m == [createdAt |-> now[w], ttl |-> now[w] + ttlWindow, lastAccess |-> NoTime]
  <2>1. pk[w] \in Codes /\ m \in Meta
    BY <1>1, StoreConstants DEF EnsureMeta, TypeOK, OnPortfolio, StoreConstants, Meta, NoTime
  <2>2. CASE MetaAbsent(pk[w]) /\ WriteMeta(pk[w], m)
    BY <1>1, <2>1, <2>2, MetaWritten DEF EnsureMeta, MetaAbsent
  <2>3. CASE UNCHANGED table
    BY <2>3
  <2> QED BY <1>1, <2>2, <2>3 DEF EnsureMeta
<1>2. ASSUME NEW w \in Workers, RecordAccess(w) PROVE Kept
  <2> DEFINE m == [Upserted(table[pk[w]].meta) EXCEPT !.lastAccess = now[w]]
  <2>1. pk[w] \in Codes /\ now[w] \in Nat /\ table[pk[w]].meta \in Meta \cup {None}
    BY <1>2 DEF RecordAccess, TypeOK, OnPortfolio, Partition
  <2>2. CASE MetaExists(pk[w]) /\ WriteMeta(pk[w], m)
    <3>1. m \in Meta
      BY <2>1, UpsertedType
    <3>2. m.createdAt = table[pk[w]].meta.createdAt
      BY <2>1, <2>2 DEF MetaExists, Upserted, Meta
    <3> QED BY <2>1, <2>2, <3>1, <3>2, MetaWritten DEF MetaExists
  <2>3. CASE UNCHANGED table
    BY <2>3
  <2> QED BY <1>2, <2>2, <2>3 DEF RecordAccess
<1>3. ASSUME NEW w \in Workers, Touch(w) PROVE Kept
  <2> DEFINE m == Touched(table[pk[w]].meta, now[w])
  <2>1. pk[w] \in Codes /\ now[w] \in Nat /\ table[pk[w]].meta \in Meta \cup {None}
    BY <1>3 DEF Touch, TypeOK, OnPortfolio, Partition
  <2>2. m \in Meta /\ WriteMeta(pk[w], m)
    BY <1>3, <2>1, UpsertedType DEF Touch
  <2>3. table[pk[w]].meta # None => m.createdAt = table[pk[w]].meta.createdAt
    BY <2>1 DEF Touched, Upserted, Meta
  <2> QED BY <1>3, <2>1, <2>2, <2>3, MetaWritten DEF Touch
<1>4. ASSUME NEW w \in Workers, PutItem(w) \/ DeleteItem(w) PROVE Kept
  <2>1. pk[w] \in Codes
    BY <1>4 DEF PutItem, DeleteItem, TypeOK, OnPortfolio
  <2> QED BY <1>4, <2>1, ItemsWriteKeepsMeta DEF PutItem, DeleteItem
<1>5. ASSUME NEW d \in Codes, Expire(d) PROVE Kept
  BY <1>5, MetaWritten DEF Expire
<1>6. ASSUME NEW d \in Codes, CatchUp(d) PROVE Kept
  BY <1>6 DEF CatchUp
<1>7. ASSUME NEW w \in Workers,
             \/ HandleNew(w) \/ Verify(w) \/ Reserve(w) \/ NewCode(w) \/ Reject(w)
             \/ HandleGet(w) \/ ListAndRecordAccess(w) \/ HandlePut(w)
             \/ UpsertList(w) \/ HandleDelete(w) \/ GiveUp(w)
      PROVE  Kept
  BY <1>7 DEF HandleNew, Verify, Reserve, NewCode, Reject, HandleGet,
     ListAndRecordAccess, HandlePut, UpsertList, HandleDelete, GiveUp, tableVars
<1>8. CASE Tick \/ UNCHANGED vars
  BY <1>8 DEF Tick, vars, tableVars
<1> QED
  BY <1>1, <1>2, <1>3, <1>4, <1>5, <1>6, <1>7, <1>8
     DEF Next, Create, Handle, Get, Upsert, Delete

(* A repeated create, an edit or a read never resets the creation time of a  *)
(* portfolio (store.go, EnsureMeta).                                         *)
THEOREM CreationTimeAlwaysKept == Spec => CreationTimeKept
<1>1. TypeOK /\ [Next]_vars =>
        [\A c \in Codes :
           table[c].meta # None /\ table'[c].meta # None
             => table'[c].meta.createdAt = table[c].meta.createdAt]_vars
  BY MetaStep
<1> QED BY <1>1, TypeCorrect, PTL DEF Spec, CreationTimeKept

(* A read never brings an expired portfolio back (store.go, recordAccess).   *)
THEOREM ReadsNeverRecreate == Spec => ReadNeverRecreates
<1>1. TypeOK /\ [Next]_vars =>
        [\A c \in Codes :
           table[c].meta = None /\ table'[c].meta # None
             => \E w \in Workers : pk[w] = c /\ pc[w] \in {"ensureMeta", "touch"}]_vars
  BY MetaStep
<1> QED BY <1>1, TypeCorrect, PTL DEF Spec, ReadNeverRecreates

-----------------------------------------------------------------------------
(* How long an acknowledged edit keeps its portfolio.                       *)

(* What ExpiryInv says of the workers needs only their own steps: a call     *)
(* that writes an expiry has a time, taken at most one tick ago.             *)
Timely(w) ==
  /\ now[w] <= clock
  /\ pc[w] \in {"ensureMeta", "touch"} => now[w] # NoTime /\ clock <= now[w] + 1

LEMMA ClockStep ==
  ASSUME TypeOK, ExpiryInv, [Next]_vars
  PROVE  clock' # NoTime
<1>1. clock' \in {clock, clock + 1}
  BY DEF Next, Create, Handle, Get, Upsert, Delete, HandleNew, Verify, Reserve, NewCode,
     EnsureMeta, Reject, HandleGet, ListAndRecordAccess, RecordAccess, HandlePut, UpsertList,
     PutItem, HandleDelete, DeleteItem, Touch, GiveUp, Expire, CatchUp, Tick, vars
<1> QED BY <1>1 DEF TypeOK, ExpiryInv, NoTime

LEMMA TimelyStep ==
  ASSUME TypeOK, ExpiryInv, [Next]_vars, NEW v \in Workers
  PROVE  Timely(v)'
<1> USE DEF TypeOK, ExpiryInv, Timely, NoTime
<1>1. ASSUME NEW w \in Workers, clock' = clock, NEW a \in Answers, Answer(w, a)
      PROVE  Timely(v)'
  BY <1>1 DEF Answer, Answers
<1>2. ASSUME clock' = clock, UNCHANGED localVars
      PROVE  Timely(v)'
  BY <1>2 DEF localVars
<1>3. ASSUME NEW w \in Workers, clock' = clock,
             NEW step \in {"verify", "reserve", "newCode", "recordAccess", "putItem"},
             Goto(w, step)
      PROVE  Timely(v)'
  BY <1>3 DEF Goto
<1>4. ASSUME NEW w \in Workers, clock' = clock, GotoAt(w, "touch")
      PROVE  Timely(v)'
  BY <1>4 DEF GotoAt
<1>5. ASSUME NEW w \in Workers, HandleNew(w) \/ Verify(w) \/ Reserve(w)
      PROVE  Timely(v)'
  BY <1>1, <1>2, <1>3, <1>5 DEF HandleNew, Verify, Reserve, Resend, Answers
<1>6. ASSUME NEW w \in Workers, NewCode(w)
      PROVE  Timely(v)'
  <2>1. CASE Answer(w, "error500")
    BY <1>1, <1>6, <2>1 DEF NewCode, Answers
  <2>2. CASE pc' = [pc EXCEPT ![w] = "ensureMeta"] /\ now' = [now EXCEPT ![w] = clock]
    BY <1>6, <2>2 DEF NewCode
  <2> QED BY <1>6, <2>1, <2>2 DEF NewCode
<1>7. ASSUME NEW w \in Workers, EnsureMeta(w) \/ Touch(w) \/ RecordAccess(w)
      PROVE  Timely(v)'
  BY <1>1, <1>2, <1>7 DEF EnsureMeta, Touch, RecordAccess, Resend, Answers
<1>8. ASSUME NEW w \in Workers, Reject(w) \/ ListAndRecordAccess(w) \/ UpsertList(w) \/ GiveUp(w)
      PROVE  Timely(v)'
  BY <1>1, <1>3, <1>8 DEF Reject, ListAndRecordAccess, UpsertList, GiveUp, Answers
<1>9. ASSUME NEW w \in Workers, HandleGet(w) \/ HandlePut(w) \/ HandleDelete(w)
      PROVE  Timely(v)'
  BY <1>9 DEF HandleGet, HandlePut, HandleDelete
<1>10. ASSUME NEW w \in Workers, PutItem(w) \/ DeleteItem(w)
       PROVE  Timely(v)'
  BY <1>2, <1>4, <1>10 DEF PutItem, DeleteItem, Resend
<1>11. ASSUME NEW c \in Codes, Expire(c) \/ CatchUp(c)
       PROVE  Timely(v)'
  BY <1>2, <1>11 DEF Expire, CatchUp
<1>12. ASSUME Tick PROVE Timely(v)'
  BY <1>12 DEF Tick, localVars
<1>13. ASSUME UNCHANGED vars PROVE Timely(v)'
  BY <1>2, <1>13 DEF vars
<1> QED
  BY <1>5, <1>6, <1>7, <1>8, <1>9, <1>10, <1>11, <1>12, <1>13
     DEF Next, Create, Handle, Get, Upsert, Delete

(* What it says of a portfolio: the expiry its record carries covers the last *)
(* acknowledged edit, and a record is gone only when that window has passed.  *)
Covered(c) ==
  /\ lastEdit[c] <= clock
  /\ table[c].meta # None => lastEdit[c] + ttlWindow <= table[c].meta.ttl + 1
  /\ lastEdit[c] # NoTime /\ table[c].meta = None => clock >= lastEdit[c] + ttlWindow

LEMMA CoveredStep ==
  ASSUME TypeOK, ExpiryInv, [Next]_vars, NEW c \in Codes
  PROVE  Covered(c)'
<1>0. /\ clock \in Nat /\ lastEdit \in [Codes -> Nat] /\ ttlWindow \in Nat
      /\ \A d \in Codes : table[d].meta \in Meta \cup {None}
      /\ Covered(c)
  BY StoreConstants DEF TypeOK, Partition, ExpiryInv, Covered, StoreConstants
<1>1. ASSUME NEW w \in Workers, EnsureMeta(w) PROVE Covered(c)'
  <2> DEFINE m == [createdAt |-> now[w], ttl |-> now[w] + ttlWindow, lastAccess |-> NoTime]
  <2>1. pk[w] \in Codes /\ now[w] \in Nat /\ now[w] <= clock /\ m \in Meta
    BY <1>1, <1>0 DEF EnsureMeta, TypeOK, OnPortfolio, ExpiryInv, Meta, NoTime
  <2>2. clock' = clock
    BY <1>1 DEF EnsureMeta
  <2>3. CASE /\ WriteMeta(pk[w], m)
             /\ lastEdit' = [lastEdit EXCEPT ![pk[w]] = now[w]]
    <3>1. table'[c].meta = IF c = pk[w] THEN m ELSE table[c].meta
      BY <2>1, <2>3, MetaWritten
    <3>2. m # None
      BY <2>1, StoreConstants DEF StoreConstants
    <3>3. CASE c = pk[w]
      BY <1>0, <2>1, <2>2, <2>3, <3>1, <3>2, <3>3 DEF Covered
    <3>4. CASE c # pk[w]
      BY <1>0, <2>1, <2>2, <2>3, <3>1, <3>4 DEF Covered
    <3> QED BY <3>3, <3>4
  <2>4. CASE UNCHANGED <<table, lastEdit>>
    BY <1>0, <2>2, <2>4 DEF Covered
  <2> QED BY <1>1, <2>3, <2>4 DEF EnsureMeta
<1>2. ASSUME NEW w \in Workers, RecordAccess(w) PROVE Covered(c)'
  <2> DEFINE m == [Upserted(table[pk[w]].meta) EXCEPT !.lastAccess = now[w]]
  <2>1. pk[w] \in Codes /\ now[w] \in Nat /\ clock' = clock /\ lastEdit' = lastEdit
    BY <1>2 DEF RecordAccess, TypeOK, OnPortfolio, historyVars
  <2>2. CASE MetaExists(pk[w]) /\ WriteMeta(pk[w], m)
    <3>1. table[pk[w]].meta \in Meta
      BY <1>0, <2>1, <2>2 DEF MetaExists
    <3>2. m \in Meta /\ m.ttl = table[pk[w]].meta.ttl
      BY <2>1, <2>2, <3>1, UpsertedType DEF MetaExists, Upserted, Meta
    <3>3. table'[c].meta = IF c = pk[w] THEN m ELSE table[c].meta
      BY <2>1, <2>2, <3>2, MetaWritten
    <3>4. m # None /\ table[pk[w]].meta # None
      BY <3>1, <3>2, StoreConstants DEF StoreConstants
    <3>5. /\ (table'[c].meta # None) <=> (table[c].meta # None)
          /\ table[c].meta # None => table'[c].meta.ttl = table[c].meta.ttl
      <4>1. CASE c = pk[w]
        BY <4>1, <3>2, <3>3, <3>4
      <4>2. CASE c # pk[w]
        BY <4>2, <3>3
      <4> QED BY <4>1, <4>2
    <3> HIDE DEF m
    <3> QED BY <1>0, <2>1, <3>5 DEF Covered
  <2>3. CASE UNCHANGED table
    BY <1>0, <2>1, <2>3 DEF Covered
  <2> QED BY <1>2, <2>2, <2>3 DEF RecordAccess
<1>3. ASSUME NEW w \in Workers, Touch(w) PROVE Covered(c)'
  <2> DEFINE m == Touched(table[pk[w]].meta, now[w])
  <2>1. /\ pk[w] \in Codes /\ now[w] \in Nat /\ clock' = clock
        /\ now[w] <= clock /\ clock <= now[w] + 1 /\ now[w] # NoTime
    BY <1>3 DEF Touch, TypeOK, OnPortfolio, ExpiryInv
  <2>2. m \in Meta /\ m.ttl = now[w] + ttlWindow
    BY <1>0, <2>1, UpsertedType DEF Touched, Upserted, Meta
  <2>3. table'[c].meta = IF c = pk[w] THEN m ELSE table[c].meta
    BY <1>3, <2>1, <2>2, MetaWritten DEF Touch
  <2>4. lastEdit' \in {lastEdit, [lastEdit EXCEPT ![pk[w]] = Later(@, now[w])]}
    BY <1>3 DEF Touch
  <2>5. CASE c = pk[w]
    <3>1. lastEdit'[c] \in {lastEdit[c], now[w]}
      BY <1>0, <2>1, <2>4, <2>5 DEF Later
    <3>2. lastEdit[c] <= clock
      BY <1>0 DEF Covered
    <3>3. m # None
      BY <2>2, StoreConstants DEF StoreConstants
    <3> QED BY <1>0, <2>1, <2>2, <2>3, <2>5, <3>1, <3>2, <3>3 DEF Covered
  <2>6. CASE c # pk[w]
    BY <1>0, <2>1, <2>3, <2>4, <2>6 DEF Covered
  <2> QED BY <2>5, <2>6
<1>4. ASSUME NEW w \in Workers, PutItem(w) \/ DeleteItem(w) PROVE Covered(c)'
  <2>1. pk[w] \in Codes
    BY <1>4 DEF PutItem, DeleteItem, TypeOK, OnPortfolio
  <2>2. table'[c].meta = table[c].meta
    BY <1>4, <2>1, ItemsWriteKeepsMeta DEF PutItem, DeleteItem
  <2> QED BY <1>0, <1>4, <2>2 DEF PutItem, DeleteItem, historyVars, Covered
<1>5. ASSUME NEW d \in Codes, Expire(d) PROVE Covered(c)'
  <2>1. table'[c].meta = IF c = d THEN None ELSE table[c].meta
    BY <1>5, MetaWritten DEF Expire
  <2>2. c = d => table[c].meta \in Meta /\ table[c].meta.ttl < clock
    BY <1>0, <1>5 DEF Expire
  <2> QED BY <1>0, <1>5, <2>1, <2>2 DEF Expire, historyVars, Covered, Meta
<1>6. ASSUME \/ Tick \/ UNCHANGED vars
             \/ \E d \in Codes : CatchUp(d)
             \/ \E w \in Workers :
                  \/ HandleNew(w) \/ Verify(w) \/ Reserve(w) \/ NewCode(w) \/ Reject(w)
                  \/ HandleGet(w) \/ ListAndRecordAccess(w) \/ HandlePut(w)
                  \/ UpsertList(w) \/ HandleDelete(w) \/ GiveUp(w)
      PROVE  Covered(c)'
  <2>1. table' = table /\ lastEdit' = lastEdit /\ clock' \in {clock, clock + 1}
    BY <1>6 DEF Tick, vars, CatchUp, HandleNew, Verify, Reserve, NewCode, Reject, HandleGet,
       ListAndRecordAccess, HandlePut, UpsertList, HandleDelete, GiveUp, tableVars, historyVars
  <2> QED BY <1>0, <2>1 DEF Covered
<1> QED
  BY <1>1, <1>2, <1>3, <1>4, <1>5, <1>6
     DEF Next, Create, Handle, Get, Upsert, Delete

THEOREM ExpiryInvAlways == Spec => []ExpiryInv
<1>1. Init => ExpiryInv
  BY StoreConstants DEF Init, ExpiryInv, NoTime, StoreConstants
<1>2. TypeOK /\ ExpiryInv /\ [Next]_vars => ExpiryInv'
  <2> SUFFICES ASSUME TypeOK, ExpiryInv, [Next]_vars PROVE ExpiryInv'
    OBVIOUS
  <2>1. clock' # NoTime
    BY ClockStep
  <2>2. \A v \in Workers : Timely(v)'
    BY TimelyStep
  <2>3. \A c \in Codes : Covered(c)'
    BY CoveredStep
  <2> QED BY <2>1, <2>2, <2>3 DEF ExpiryInv, Timely, Covered
<1> QED BY <1>1, <1>2, TypeCorrect, PTL DEF Spec

(* An edit a client was told of keeps the portfolio from the reaper for the   *)
(* whole ttlWindow, less the one tick a request may be late (store.go, touch). *)
THEOREM AcknowledgedEditsKeep == Spec => []AcknowledgedEditKeepsPortfolio
<1>1. ExpiryInv => AcknowledgedEditKeepsPortfolio
  BY DEF ExpiryInv, AcknowledgedEditKeepsPortfolio
<1> QED BY <1>1, ExpiryInvAlways, PTL
=============================================================================
