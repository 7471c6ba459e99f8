--------------------------- MODULE SectorCacheProofs ---------------------------
(***************************************************************************)
(* Theorems about SectorCache, for every set of callers and sectors, every *)
(* TTL and every bound of the clock.                                       *)
(***************************************************************************)
EXTENDS SectorCache, FiniteSetTheorems, TLAPS

LEMMA InitFacts ==
  ASSUME SectorInit
  PROVE  SectorTypeOK /\ HoldersHold
BY DEF SectorInit, SectorTypeOK, HoldersHold, Places, Held, Values, Entry

(* The type invariant.                                                      *)
THEOREM SectorTypeCorrect == SectorSpec => []SectorTypeOK
<1>1. SectorInit => SectorTypeOK
  BY InitFacts
<1>2. SectorTypeOK /\ [SectorNext]_sectorVars => SectorTypeOK'
  <2> SUFFICES ASSUME SectorTypeOK, [SectorNext]_sectorVars
               PROVE  SectorTypeOK'
    OBVIOUS
  <2> USE SectorCacheConstants DEF SectorTypeOK, SectorCacheConstants, Places, Held, Values,
          Entry, At, Return
  <2>1. ASSUME NEW g \in Callers, NEW s \in Sectors \cup {None}, Call(g, s)
        PROVE  SectorTypeOK'
    BY <2>1 DEF Call, Known
  <2>2. ASSUME NEW g \in Callers, Look(g)
        PROVE  SectorTypeOK'
    <3>1. sectorCache[sector[g]] \in Entry \cup {None}
      BY <2>2 DEF Look
    <3>2. Fresh(sectorCache[sector[g]]) => sectorCache[sector[g]].val \in Values
      BY <3>1 DEF Fresh
    <3> QED BY <2>2, <3>1, <3>2 DEF Look
  <2>3. ASSUME NEW g \in Callers, Evict(g)
        PROVE  SectorTypeOK'
    BY <2>3 DEF Evict
  <2>4. ASSUME NEW g \in Callers, Lock(g)
        PROVE  SectorTypeOK'
    BY <2>4 DEF Lock
  <2>5. ASSUME NEW g \in Callers, BeginFetch(g), pc[g] # "idle"
        PROVE  /\ pc' \in [Callers -> Places]
               /\ wasted' \in [Sectors -> Nat]
    BY <2>5 DEF BeginFetch
  <2>6. ASSUME NEW g \in Callers, Relook(g)
        PROVE  SectorTypeOK'
    <3>1. sectorCache[sector[g]] \in Entry \cup {None}
      BY <2>6 DEF Relook
    <3>2. Filled(sectorCache[sector[g]]) => sectorCache[sector[g]].val \in Values
      BY <3>1 DEF Filled, Fresh
    <3> QED BY <2>5, <2>6, <3>1, <3>2 DEF Relook, BeginFetch
  <2>7. ASSUME NEW g \in Callers, Reevict(g)
        PROVE  SectorTypeOK'
    BY <2>5, <2>7 DEF Reevict, BeginFetch
  <2>8. ASSUME NEW g \in Callers, Fetch(g)
        PROVE  SectorTypeOK'
    BY <2>8 DEF Fetch
  <2>9. ASSUME NEW g \in Callers, Store(g)
        PROVE  SectorTypeOK'
    <3>1. Stored(g) \in Entry
      BY DEF Stored
    <3> QED BY <2>9, <3>1 DEF Store
  <2>10. ASSUME NEW g \in Callers, Unlock(g)
         PROVE  SectorTypeOK'
    BY <2>10 DEF Unlock, Released
  <2>11. CASE Tick \/ UNCHANGED sectorVars
    BY <2>11 DEF Tick, sectorVars, cacheVars
  <2> QED BY <2>1, <2>2, <2>3, <2>4, <2>6, <2>7, <2>8, <2>9, <2>10, <2>11
          DEF SectorNext, Inside
<1> QED BY <1>1, <1>2, PTL DEF SectorSpec

-----------------------------------------------------------------------------
(* Mutual exclusion of the fetches of a sector.                             *)

LEMMA HoldersHoldStep ==
  ASSUME SectorTypeOK, HoldersHold, [SectorNext]_sectorVars
  PROVE  HoldersHold'
<1> USE SectorCacheConstants DEF SectorCacheConstants, SectorTypeOK, HoldersHold, Held, At
<1>1. ASSUME NEW g \in Callers, Lock(g)
      PROVE  HoldersHold'
  BY <1>1 DEF Lock, MutexFree
<1>2. ASSUME NEW g \in Callers, Unlock(g)
      PROVE  HoldersHold'
  BY <1>2 DEF Unlock, Released, Return
<1>3. ASSUME NEW g \in Callers,
             Look(g) \/ Evict(g) \/ (\E s \in Sectors \cup {None} : Call(g, s))
      PROVE  HoldersHold'
  BY <1>3 DEF Look, Evict, Call, Return
<1>4. ASSUME NEW g \in Callers, Relook(g) \/ Reevict(g) \/ Fetch(g) \/ Store(g)
      PROVE  HoldersHold'
  BY <1>4 DEF Relook, Reevict, BeginFetch, Fetch, Store
<1>5. CASE Tick \/ UNCHANGED sectorVars
  BY <1>5 DEF Tick, sectorVars, cacheVars
<1> QED BY <1>1, <1>2, <1>3, <1>4, <1>5 DEF SectorNext, Inside

THEOREM HoldersAlwaysHold == SectorSpec => []HoldersHold
<1>1. SectorInit => HoldersHold
  BY InitFacts
<1>2. SectorTypeOK /\ HoldersHold /\ [SectorNext]_sectorVars => HoldersHold'
  BY HoldersHoldStep
<1> QED BY <1>1, <1>2, SectorTypeCorrect, PTL DEF SectorSpec

(* "One in-flight fetch per sector".                                        *)
THEOREM OneFetchAtATime == SectorSpec => []OneFetchPerSector
<1>1. HoldersHold => OneFetchPerSector
  BY DEF HoldersHold, OneFetchPerSector, Held
<1> QED BY <1>1, HoldersAlwaysHold, PTL

-----------------------------------------------------------------------------
(* Before anything can expire, a sector is fetched once.                    *)

THEOREM ColdFetchedOnce ==
  ASSUME MaxTime <= sectorTTL, MaxTime # 0
  PROVE  SectorSpec => []FetchedOncePerWindow
<1> USE SectorCacheConstants DEF SectorCacheConstants
<1>1. SectorInit => ColdInv
  BY DEF SectorInit, ColdInv
<1>2. SectorTypeOK /\ ColdInv /\ [SectorNext]_sectorVars => ColdInv'
  <2> SUFFICES ASSUME SectorTypeOK, ColdInv, [SectorNext]_sectorVars
               PROVE  ColdInv'
    OBVIOUS
  <2> USE DEF SectorTypeOK, ColdInv, At
  <2>1. ASSUME NEW s \in Sectors
        PROVE  ~Stale(sectorCache[s])
    BY <2>1 DEF Stale, Fresh, Entry
  <2>2. ASSUME NEW g \in Callers, Relook(g)
        PROVE  ColdInv'
    <3>1. sector[g] \in Sectors
      BY <2>2 DEF Relook
    <3>2. CASE sectorCache[sector[g]] = None
      BY <2>2, <3>1, <3>2 DEF Relook, BeginFetch, InWindow, Filled, Fresh
    <3>3. CASE sectorCache[sector[g]] # None
      BY <2>1, <2>2, <3>1, <3>3 DEF Relook, Filled, Stale
    <3> QED BY <3>2, <3>3
  <2>3. ASSUME NEW g \in Callers, Store(g)
        PROVE  ColdInv'
    <3>1. Stored(g) \in Entry /\ Stored(g).expires >= sectorTTL
      BY DEF Stored, Entry
    <3>2. Stored(g) # None
      BY <3>1
    <3> QED BY <2>3, <3>1, <3>2 DEF Store
  <2>4. ASSUME NEW g \in Callers, Look(g)
        PROVE  ColdInv'
    BY <2>1, <2>4 DEF Look, Return
  <2>5. ASSUME NEW g \in Callers,
               Lock(g) \/ Fetch(g) \/ Unlock(g) \/ \E s \in Sectors \cup {None} : Call(g, s)
        PROVE  ColdInv'
    BY <2>5 DEF Lock, Fetch, Unlock, Call, Return
  <2>6. ASSUME NEW g \in Callers, Evict(g) \/ Reevict(g)
        PROVE  ColdInv'
    BY <2>6 DEF Evict, Reevict
  <2>7. CASE Tick \/ UNCHANGED sectorVars
    BY <2>7 DEF Tick, sectorVars, cacheVars
  <2> QED BY <2>2, <2>3, <2>4, <2>5, <2>6, <2>7 DEF SectorNext, Inside
<1>3. ColdInv => FetchedOncePerWindow
  BY DEF ColdInv, FetchedOncePerWindow
<1> QED BY <1>1, <1>2, <1>3, SectorTypeCorrect, PTL DEF SectorSpec

-----------------------------------------------------------------------------
(* How far the race of a delete with a store can go.                        *)

LEMMA CallersCounted ==
  /\ Cardinality(Callers) \in Nat
  /\ \A S \in SUBSET Callers :
       /\ IsFiniteSet(S)
       /\ Cardinality(S) \in Nat
       /\ S # Callers => Cardinality(S) < Cardinality(Callers)
       /\ \A T \in SUBSET Callers : S \subseteq T => Cardinality(S) <= Cardinality(T)
       /\ \A g \in S : Cardinality(S \ {g}) = Cardinality(S) - 1
<1>1. IsFiniteSet(Callers)
  BY SectorCacheConstants DEF SectorCacheConstants
<1>2. ASSUME NEW S \in SUBSET Callers
      PROVE  IsFiniteSet(S) /\ Cardinality(S) \in Nat
  BY <1>1, FS_Subset, FS_CardinalityType
<1>3. ASSUME NEW S \in SUBSET Callers, S # Callers
      PROVE  Cardinality(S) < Cardinality(Callers)
  BY <1>1, <1>2, <1>3, FS_Subset, FS_CardinalityType
<1>4. ASSUME NEW S \in SUBSET Callers, NEW T \in SUBSET Callers, S \subseteq T
      PROVE  Cardinality(S) <= Cardinality(T)
  BY <1>2, <1>4, FS_Subset
<1>5. ASSUME NEW S \in SUBSET Callers, NEW g \in S
      PROVE  Cardinality(S \ {g}) = Cardinality(S) - 1
  BY <1>2, FS_RemoveElement
<1> QED BY <1>1, <1>2, <1>3, <1>4, <1>5, FS_CardinalityType

LEMMA DeletersCounted ==
  ASSUME NEW s \in Sectors
  PROVE  Deleters(s) \in SUBSET Callers /\ Cardinality(Deleters(s)) \in Nat
<1>1. Deleters(s) \in SUBSET Callers
  BY DEF Deleters
<1> QED BY <1>1, CallersCounted

(* The bounds of one sector, as a step has to re-establish them.            *)
SectorBounds(s) ==
  /\ wasted[s] < Cardinality(Callers)
  /\ sectorCache[s] # None
       => storedAt[s] # None /\ sectorCache[s].expires = storedAt[s] + sectorTTL
  /\ Fetching(s) => /\ sectorCache[s] = None
                    /\ wasted[s] + Cardinality(Deleters(s)) < Cardinality(Callers)
  /\ InWindow(s) /\ ~Fetching(s)
       => wasted[s] + Cardinality(Deleters(s)) + Gap(s) < Cardinality(Callers)

(* A caller that is not about to delete leaves room for the others.         *)
LEMMA RoomForDeleters ==
  ASSUME SectorTypeOK, NEW s \in Sectors, NEW g \in Callers, pc[g] # "evict"
  PROVE  Cardinality(Deleters(s)) < Cardinality(Callers)
<1>1. Deleters(s) \in SUBSET Callers /\ g \notin Deleters(s)
  BY DEF Deleters
<1> QED BY <1>1, CallersCounted

(* A step of g that neither makes it a deleter nor stops it being one, nor   *)
(* touches the cache or the history, keeps the bounds.                      *)
LEMMA QuietStep ==
  ASSUME SectorTypeOK, NEW s \in Sectors, SectorBounds(s),
         sectorCache'[s] = sectorCache[s], wasted'[s] = wasted[s],
         storedAt'[s] = storedAt[s], clock' \in Nat, clock' >= clock,
         Fetching(s)' <=> Fetching(s), Deleters(s)' = Deleters(s)
  PROVE  SectorBounds(s)'
<1>1. InWindow(s)' => InWindow(s)
  BY SectorCacheConstants DEF InWindow, SectorTypeOK, SectorCacheConstants
<1>2. Gap(s)' = Gap(s)
  BY DEF Gap
<1> QED BY <1>1, <1>2 DEF SectorBounds

(* Starting a fetch: in the window it fills the gap, outside it starts over. *)
LEMMA BeginFetchBounds ==
  ASSUME SectorTypeOK, HoldersHold, NEW g \in Callers, BeginFetch(g),
         pc[g] \in {"relook", "reevict"}, SectorBounds(sector[g]),
         sectorCache'[sector[g]] = None, storedAt' = storedAt, sector' = sector,
         InWindow(sector[g]) => sectorCache[sector[g]] = None
  PROVE  SectorBounds(sector[g])'
<1> DEFINE s == sector[g]
<1>1. s \in Sectors
  BY DEF SectorTypeOK
<1>2. Deleters(s)' = Deleters(s)
  BY DEF Deleters, BeginFetch, At, SectorTypeOK
<1>3. Fetching(s)'
  BY DEF Fetching, BeginFetch, At, SectorTypeOK
<1>4. ~Fetching(s)
  BY <1>1 DEF Fetching, HoldersHold, Held
<1>5. wasted'[s] + Cardinality(Deleters(s)) < Cardinality(Callers)
  <2>1. CASE InWindow(s)
    <3>1. wasted'[s] = wasted[s] + 1 /\ Gap(s) = 1
      BY <1>1, <2>1 DEF BeginFetch, SectorTypeOK, Gap
    <3> QED BY <1>1, <1>4, <2>1, <3>1, DeletersCounted, CallersCounted
            DEF SectorBounds, SectorTypeOK
  <2>2. CASE ~InWindow(s)
    <3>1. wasted'[s] = 0
      BY <1>1, <2>2 DEF BeginFetch, SectorTypeOK
    <3> QED BY <1>1, <3>1, RoomForDeleters, DeletersCounted, CallersCounted
  <2> QED BY <2>1, <2>2
<1>6. wasted'[s] \in Nat
  BY <1>1 DEF BeginFetch, SectorTypeOK
<1> QED BY <1>1, <1>2, <1>3, <1>5, <1>6, DeletersCounted, CallersCounted DEF SectorBounds

LEMMA RefetchInvStep ==
  ASSUME SectorTypeOK, SectorTypeOK', HoldersHold, RefetchInv, [SectorNext]_sectorVars
  PROVE  RefetchInv'
<1> USE SectorCacheConstants DEF SectorCacheConstants
<1>0. /\ \A s \in Sectors : SectorBounds(s)
      /\ \A g \in Callers : pc[g] = "reevict" => ~InWindow(sector[g])
  BY DEF RefetchInv, SectorBounds
<1>1. SUFFICES /\ \A s \in Sectors : SectorBounds(s)'
               /\ \A g \in Callers : (pc[g] = "reevict" => ~InWindow(sector[g]))'
  BY DEF RefetchInv, SectorBounds
<1>2. clock \in Nat /\ clock' \in Nat
  BY DEF SectorTypeOK
<1>3. ASSUME NEW g \in Callers, NEW s \in Sectors \cup {None}, Call(g, s)
      PROVE  <1>1!1
  <2>1. \A t \in Sectors : (Fetching(t)' <=> Fetching(t)) /\ Deleters(t)' = Deleters(t)
    BY <1>3 DEF Call, At, Fetching, Deleters, SectorTypeOK
  <2>2. \A t \in Sectors : SectorBounds(t)'
    BY <1>0, <1>2, <1>3, <2>1, QuietStep DEF Call
  <2> QED BY <1>0, <1>3, <2>2 DEF Call, At, InWindow, SectorTypeOK
<1>4. ASSUME NEW g \in Callers, Lock(g) \/ Unlock(g) \/ Fetch(g)
      PROVE  <1>1!1
  <2>1. \A t \in Sectors : (Fetching(t)' <=> Fetching(t)) /\ Deleters(t)' = Deleters(t)
    BY <1>4 DEF Lock, Unlock, Fetch, Return, At, Fetching, Deleters, SectorTypeOK
  <2>2. \A t \in Sectors : SectorBounds(t)'
    BY <1>0, <1>2, <1>4, <2>1, QuietStep DEF Lock, Unlock, Fetch
  <2> QED BY <1>0, <1>4, <2>2
          DEF Lock, Unlock, Fetch, Return, At, InWindow, SectorTypeOK
<1>5. CASE Tick \/ UNCHANGED sectorVars
  <2>1. \A t \in Sectors : (Fetching(t)' <=> Fetching(t)) /\ Deleters(t)' = Deleters(t)
    BY <1>5 DEF Tick, sectorVars, cacheVars, Fetching, Deleters
  <2>2. clock' >= clock
    BY <1>2, <1>5 DEF Tick, sectorVars
  <2>3. \A t \in Sectors : SectorBounds(t)'
    BY <1>0, <1>2, <1>5, <2>1, <2>2, QuietStep DEF Tick, sectorVars, cacheVars
  <2> QED BY <1>0, <1>2, <1>5, <2>2, <2>3
          DEF Tick, sectorVars, cacheVars, InWindow, SectorTypeOK
<1>6. ASSUME NEW g \in Callers, Look(g)
      PROVE  <1>1!1
  <2>1. sector[g] \in Sectors
    BY <1>6 DEF Look, SectorTypeOK
  <2>2. \A t \in Sectors : Fetching(t)' <=> Fetching(t)
    BY <1>6 DEF Look, Return, At, Fetching, SectorTypeOK
  <2>3. \A t \in Sectors : t # sector[g] => Deleters(t)' = Deleters(t)
    BY <1>6 DEF Look, Return, At, Deleters, SectorTypeOK
  <2>4. CASE Stale(sectorCache[sector[g]])
    <3>1. ~InWindow(sector[g]) /\ sectorCache[sector[g]] # None
      BY <1>0, <2>1, <2>4 DEF Stale, Fresh, InWindow, SectorBounds, SectorTypeOK
    <3>2. ~Fetching(sector[g])
      BY <1>0, <2>1, <3>1 DEF SectorBounds
    <3>3. ASSUME NEW t \in Sectors, t = sector[g]
          PROVE  SectorBounds(t)'
      <4>1. SectorBounds(t) /\ ~InWindow(t)' /\ ~Fetching(t)'
        BY <1>0, <1>6, <2>2, <3>1, <3>2, <3>3 DEF Look, InWindow
      <4> QED BY <1>6, <4>1 DEF Look, SectorBounds
    <3>4. \A t \in Sectors : SectorBounds(t)'
      <4> SUFFICES ASSUME NEW t \in Sectors, t # sector[g]
                   PROVE  SectorBounds(t)'
        BY <3>3
      <4> QED BY <1>0, <1>2, <1>6, <2>2, <2>3, QuietStep DEF Look
    <3> QED BY <1>0, <1>6, <3>4 DEF Look, Return, At, InWindow, SectorTypeOK
  <2>5. CASE ~Stale(sectorCache[sector[g]])
    <3>1. \A t \in Sectors : Deleters(t)' = Deleters(t)
      BY <1>6, <2>5 DEF Look, Return, At, Deleters, SectorTypeOK
    <3>2. \A t \in Sectors : SectorBounds(t)'
      BY <1>0, <1>2, <1>6, <2>2, <3>1, QuietStep DEF Look
    <3> QED BY <1>0, <1>6, <3>2 DEF Look, Return, At, InWindow, SectorTypeOK
  <2> QED BY <2>4, <2>5
<1>7. ASSUME NEW g \in Callers, Evict(g)
      PROVE  <1>1!1
  <2>1. sector[g] \in Sectors
    BY <1>7 DEF Evict, SectorTypeOK
  <2>2. \A t \in Sectors : Fetching(t)' <=> Fetching(t)
    BY <1>7 DEF Evict, At, Fetching, SectorTypeOK
  <2>3. \A t \in Sectors : t # sector[g] => Deleters(t)' = Deleters(t)
    BY <1>7 DEF Evict, At, Deleters, SectorTypeOK
  <2>4. g \in Deleters(sector[g]) /\ Deleters(sector[g])' = Deleters(sector[g]) \ {g}
    BY <1>7 DEF Evict, At, Deleters, SectorTypeOK
  <2>5. Cardinality(Deleters(sector[g])') = Cardinality(Deleters(sector[g])) - 1
    BY <2>1, <2>4, DeletersCounted, CallersCounted
  <2>6. InWindow(sector[g])' => InWindow(sector[g])
    BY <1>7 DEF Evict, InWindow
  <2>7. Gap(sector[g])' = 1 /\ Gap(sector[g]) \in {0, 1}
    BY <1>7, <2>1 DEF Evict, Gap, SectorTypeOK
  <2>8. SectorBounds(sector[g])
    BY <1>0, <2>1
  <2>9. /\ wasted'[sector[g]] = wasted[sector[g]] /\ wasted[sector[g]] \in Nat
        /\ sectorCache'[sector[g]] = None
        /\ (Fetching(sector[g])' <=> Fetching(sector[g]))
    BY <1>7, <2>1, <2>2 DEF Evict, SectorTypeOK
  <2>10. (sector[g])' = sector[g]
    BY <1>7 DEF Evict
  <2>11. /\ Cardinality(Deleters(sector[g])) \in Nat /\ Cardinality(Callers) \in Nat
    BY <2>1, DeletersCounted, CallersCounted
  <2>12. SectorBounds(sector[g])'
    BY <2>5, <2>6, <2>7, <2>8, <2>9, <2>10, <2>11 DEF SectorBounds
  <2>13. \A t \in Sectors : t # sector[g] => SectorBounds(t)'
    BY <1>0, <1>2, <1>7, <2>2, <2>3, QuietStep DEF Evict, SectorTypeOK
  <2> QED BY <1>0, <1>7, <2>10, <2>12, <2>13 DEF Evict, At, InWindow, SectorTypeOK
<1>8. ASSUME NEW g \in Callers, Relook(g) \/ Reevict(g)
      PROVE  <1>1!1
  <2>1. sector[g] \in Sectors
    BY <1>8 DEF Relook, Reevict, SectorTypeOK
  <2>2. \A t \in Sectors : Deleters(t)' = Deleters(t)
    BY <1>8 DEF Relook, Reevict, BeginFetch, At, Deleters, SectorTypeOK
  <2>3. \A t \in Sectors : t # sector[g] => (Fetching(t)' <=> Fetching(t))
    BY <1>8 DEF Relook, Reevict, BeginFetch, At, Fetching, SectorTypeOK
  <2>4. \A t \in Sectors : t # sector[g] => SectorBounds(t)'
    BY <1>0, <1>2, <1>8, <2>2, <2>3, QuietStep DEF Relook, Reevict, BeginFetch, SectorTypeOK
  <2>5. CASE BeginFetch(g)
    <3>1. /\ pc[g] \in {"relook", "reevict"} /\ sectorCache'[sector[g]] = None
          /\ storedAt' = storedAt /\ sector' = sector /\ clock' = clock
      BY <1>8, <2>1, <2>5 DEF Relook, Reevict, BeginFetch, At, SectorTypeOK
    <3>2. InWindow(sector[g]) => sectorCache[sector[g]] = None
      BY <1>0, <1>8, <2>5 DEF Relook, Reevict, BeginFetch, At, SectorTypeOK
    <3>3. SectorBounds(sector[g])'
      BY <1>0, <2>1, <2>5, <3>1, <3>2, BeginFetchBounds
    <3>4. \A h \in Callers : (pc[h] = "reevict" => ~InWindow(sector[h]))'
      BY <1>0, <2>5, <3>1 DEF BeginFetch, At, InWindow, SectorTypeOK
    <3> QED BY <2>4, <3>1, <3>3, <3>4
  <2>6. CASE ~BeginFetch(g)
    <3>1. Relook(g) /\ sectorCache[sector[g]] # None /\ wasted' = wasted
      BY <1>8, <2>6 DEF Relook, Reevict, Filled, Fresh
    <3>2. Fetching(sector[g])' <=> Fetching(sector[g])
      BY <3>1, <2>6 DEF Relook, At, Fetching, SectorTypeOK
    <3>3. SectorBounds(sector[g])'
      BY <1>0, <1>2, <2>1, <2>2, <3>1, <3>2, QuietStep DEF Relook
    <3>4. pc'[g] = "reevict" => ~InWindow(sector[g])
      BY <1>0, <2>1, <3>1 DEF Relook, At, Filled, Fresh, InWindow, SectorBounds, SectorTypeOK
    <3>5. \A h \in Callers : (pc[h] = "reevict" => ~InWindow(sector[h]))'
      BY <1>0, <2>6, <3>1, <3>4 DEF Relook, At, InWindow, SectorTypeOK
    <3>6. sector' = sector
      BY <3>1 DEF Relook
    <3> QED BY <2>4, <3>3, <3>5, <3>6
  <2> QED BY <2>5, <2>6
<1>9. ASSUME NEW g \in Callers, Store(g)
      PROVE  <1>1!1
  <2>1. sector[g] \in Sectors
    BY <1>9 DEF Store, SectorTypeOK
  <2>2. \A t \in Sectors : Deleters(t)' = Deleters(t)
    BY <1>9 DEF Store, At, Deleters, SectorTypeOK
  <2>3. \A t \in Sectors : t # sector[g] => (Fetching(t)' <=> Fetching(t))
    BY <1>9 DEF Store, At, Fetching, SectorTypeOK
  <2>4. \A t \in Sectors : t # sector[g] => SectorBounds(t)'
    BY <1>0, <1>2, <1>9, <2>2, <2>3, QuietStep DEF Store, SectorTypeOK
  <2>5. Fetching(sector[g])
    BY <1>9 DEF Store, Fetching
  <2>6. \A h \in Callers :
          pc[h] \in Held /\ sector[h] = sector[g] => h = g
    BY <1>9 DEF Store, HoldersHold, Held
  <2>7. ~Fetching(sector[g])'
    BY <1>9, <2>6 DEF Store, At, Fetching, Held, SectorTypeOK
  <2>8. /\ Stored(g) # None /\ Stored(g).expires = clock + sectorTTL
        /\ sectorCache'[sector[g]] = Stored(g) /\ storedAt'[sector[g]] = clock
        /\ storedAt'[sector[g]] # None
        /\ wasted' = wasted /\ sector' = sector /\ clock' = clock
    <3>1. Stored(g) \in Entry
      BY DEF Stored, Entry, SectorTypeOK
    <3> QED BY <1>9, <2>1, <3>1 DEF Store, Stored, SectorTypeOK
  <2>9. Gap(sector[g])' = 0
    BY <2>8 DEF Gap
  <2>10. SectorBounds(sector[g])'
    <3>1. wasted[sector[g]] + Cardinality(Deleters(sector[g])) < Cardinality(Callers)
      BY <1>0, <2>1, <2>5 DEF SectorBounds
    <3>2. /\ wasted[sector[g]] \in Nat /\ wasted[sector[g]] < Cardinality(Callers)
          /\ Cardinality(Deleters(sector[g])) \in Nat
      BY <1>0, <2>1, DeletersCounted DEF SectorBounds, SectorTypeOK
    <3>3. (sector[g])' = sector[g]
      BY <2>8
    <3> QED BY <2>1, <2>2, <2>7, <2>8, <2>9, <3>1, <3>2, <3>3 DEF SectorBounds
  <2>11. \A h \in Callers : (pc[h] = "reevict" => ~InWindow(sector[h]))'
    <3> SUFFICES ASSUME NEW h \in Callers, pc'[h] = "reevict"
                 PROVE  ~InWindow(sector[h])'
      OBVIOUS
    <3>1. pc[h] = "reevict" /\ h # g
      BY <1>9 DEF Store, At, SectorTypeOK
    <3>2. sector[h] # sector[g] /\ sector[h] \in Sectors
      BY <2>6, <3>1 DEF Held, SectorTypeOK
    <3> QED BY <1>0, <1>9, <3>1, <3>2 DEF Store, InWindow, SectorTypeOK
  <2> QED BY <2>4, <2>8, <2>10, <2>11
<1> QED BY <1>3, <1>4, <1>5, <1>6, <1>7, <1>8, <1>9 DEF SectorNext, Inside

THEOREM RefetchInvAlways == SectorSpec => []RefetchInv
<1>1. SectorInit => RefetchInv
  <2> SUFFICES ASSUME SectorInit
               PROVE  RefetchInv
    OBVIOUS
  <2>1. Cardinality(Callers) # 0 /\ Cardinality(Callers) \in Nat
    BY SectorCacheConstants, FS_EmptySet, FS_CardinalityType DEF SectorCacheConstants
  <2> QED BY <2>1 DEF SectorInit, RefetchInv, Fetching, InWindow
<1>2. SectorTypeOK /\ SectorTypeOK' /\ HoldersHold /\ RefetchInv /\ [SectorNext]_sectorVars
        => RefetchInv'
  BY RefetchInvStep
<1> QED BY <1>1, <1>2, SectorTypeCorrect, HoldersAlwaysHold, PTL DEF SectorSpec

(* Every repeated fetch uses up one caller that was about to delete the      *)
(* expired entry, so there are fewer of them than callers.                  *)
THEOREM RefetchesStayBounded == SectorSpec => []RefetchesBounded
<1>1. RefetchInv => RefetchesBounded
  BY DEF RefetchInv, RefetchesBounded
<1> QED BY <1>1, RefetchInvAlways, PTL
=============================================================================
