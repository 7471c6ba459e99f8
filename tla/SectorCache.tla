------------------------------ MODULE SectorCache ------------------------------
(***************************************************************************)
(* The sector aggregates of internal/prices/sector.go: a cache shared by   *)
(* every goroutine of the process, filled by SectorValuationFor under one  *)
(* mutex per sector.                                                       *)
(*                                                                         *)
(* A caller is a goroutine.  Loading an entry (with the comparison of its  *)
(* expiry), deleting it and storing it are separate actions, as they are   *)
(* separate operations on the sync.Map; only the second look, the fetch    *)
(* and the store run with the sector's mutex held.                         *)
(***************************************************************************)
EXTENDS Naturals, FiniteSets

CONSTANTS
  Callers,    \* goroutines
  Sectors,    \* sector names; "" is None
  sectorTTL,  \* sector.go sectorTTL, in ticks
  MaxTime,    \* bound of the clock
  None        \* no entry, no holder, the empty sector name

\* A *SectorValuation: the figures, or nil for a sector without them.
Values == {"figures", "nil"}

Entry == [val : Values, expires : Nat]

ASSUME SectorCacheConstants ==
  /\ IsFiniteSet(Callers) /\ Callers # {}
  /\ None \notin Callers \cup Sectors \cup Nat \cup Entry
  /\ sectorTTL \in Nat
  /\ MaxTime \in Nat

VARIABLES
  clock,        \* time.Now(), in ticks
  sectorCache,  \* sectorCache[s]: the entry of sector s
  mu,           \* mu[s]: the caller holding the mutex of sector s
  pc,           \* pc[g]: where caller g is in SectorValuationFor
  sector,       \* sector[g]: the sector it asked for
  val,          \* val[g]: the value it is about to store or return
  storedAt,     \* history: when the last fetch of sector s was stored
  wasted        \* history: fetches of s begun while that result was fresh, in a row

cacheVars == <<sectorCache, mu, pc, sector, val, storedAt, wasted>>
sectorVars == <<clock, cacheVars>>

\* "look", "evict": cachedSector before the mutex; "relook", "reevict": with it.
Held == {"relook", "reevict", "fetch", "store", "unlock"}

Places == {"idle", "look", "evict", "lock"} \cup Held

SectorTypeOK ==
  /\ clock \in Nat
  /\ sectorCache \in [Sectors -> Entry \cup {None}]
  /\ mu \in [Sectors -> Callers \cup {None}]
  /\ pc \in [Callers -> Places]
  /\ sector \in [Callers -> Sectors \cup {None}]
  /\ \A g \in Callers : pc[g] # "idle" => sector[g] \in Sectors
  /\ val \in [Callers -> Values]
  /\ storedAt \in [Sectors -> Nat \cup {None}]
  /\ wasted \in [Sectors -> Nat]

SectorInit ==
  /\ clock = 1
  /\ sectorCache = [s \in Sectors |-> None]
  /\ mu = [s \in Sectors |-> None]
  /\ pc = [g \in Callers |-> "idle"]
  /\ sector = [g \in Callers |-> None]
  /\ val = [g \in Callers |-> "nil"]
  /\ storedAt = [s \in Sectors |-> None]
  /\ wasted = [s \in Sectors |-> 0]

-----------------------------------------------------------------------------

\* Not time.Now().After(expires).
Fresh(e) == e # None /\ clock <= e.expires

Stale(e) == e # None /\ ~Fresh(e)

At(g, place) == pc' = [pc EXCEPT ![g] = place]

\* The last result of sector s is still good, whether or not it is still cached.
InWindow(s) == storedAt[s] # None /\ clock <= storedAt[s] + sectorTTL

\* Caller g starts the upstream fetch.
BeginFetch(g) ==
  LET s == sector[g] IN
  /\ At(g, "fetch")
  /\ wasted' = [wasted EXCEPT ![s] = IF InWindow(s) THEN @ + 1 ELSE 0]

Return(g) ==
  /\ At(g, "idle")
  /\ sector' = [sector EXCEPT ![g] = None]
  /\ val' = [val EXCEPT ![g] = "nil"]

Known_NotChecked(s) == TRUE

\* Not sector == "".
Known(s) == s # None

\* A call for a symbol whose sector is unknown returns nil at once.
Call(g, s) ==
  /\ pc[g] = "idle"
  /\ \/ /\ Known(s)
        /\ At(g, "look")
        /\ sector' = [sector EXCEPT ![g] = s]
     \/ ~Known(s) /\ UNCHANGED <<pc, sector>>
  /\ UNCHANGED <<clock, sectorCache, mu, val, storedAt, wasted>>

\* cachedSector before the mutex: a hit returns, a stale entry is to be deleted.
Look(g) ==
  /\ pc[g] = "look"
  /\ LET e == sectorCache[sector[g]] IN
     \/ Fresh(e) /\ Return(g)
     \/ Stale(e) /\ At(g, "evict") /\ UNCHANGED <<sector, val>>
     \/ e = None /\ At(g, "lock") /\ UNCHANGED <<sector, val>>
  /\ UNCHANGED <<clock, sectorCache, mu, storedAt, wasted>>

\* sectorCache.Delete(sector): whatever the entry is by now.
Evict(g) ==
  /\ pc[g] = "evict"
  /\ sectorCache' = [sectorCache EXCEPT ![sector[g]] = None]
  /\ At(g, "lock")
  /\ UNCHANGED <<clock, mu, sector, val, storedAt, wasted>>

MutexFree_Ignored(s) == TRUE

MutexFree(s) == mu[s] = None

Lock(g) ==
  /\ pc[g] = "lock"
  /\ MutexFree(sector[g])
  /\ mu' = [mu EXCEPT ![sector[g]] = g]
  /\ At(g, "relook")
  /\ UNCHANGED <<clock, sectorCache, sector, val, storedAt, wasted>>

Filled_NotChecked(e) == FALSE

\* What "another goroutine may have filled it while this one waited" looks at.
Filled(e) == Fresh(e)

Relook(g) ==
  /\ pc[g] = "relook"
  /\ LET e == sectorCache[sector[g]] IN
     \/ /\ Filled(e)
        /\ val' = [val EXCEPT ![g] = e.val]
        /\ At(g, "unlock")
        /\ UNCHANGED wasted
     \/ ~Filled(e) /\ e # None /\ At(g, "reevict") /\ UNCHANGED <<val, wasted>>
     \/ e = None /\ BeginFetch(g) /\ UNCHANGED val
  /\ UNCHANGED <<clock, sectorCache, mu, sector, storedAt>>

Reevict(g) ==
  /\ pc[g] = "reevict"
  /\ sectorCache' = [sectorCache EXCEPT ![sector[g]] = None]
  /\ BeginFetch(g)
  /\ UNCHANGED <<clock, mu, sector, val, storedAt>>

\* GetSectorBenchmark answers: the aggregate, or an error or too few peers,
\* which both become a nil that is cached like the aggregate.
Fetch(g) ==
  /\ pc[g] = "fetch"
  /\ \E v \in Values : val' = [val EXCEPT ![g] = v]
  /\ At(g, "store")
  /\ UNCHANGED <<clock, sectorCache, mu, sector, storedAt, wasted>>

\* The negative is cached too.
Stored(g) == [val |-> val[g], expires |-> clock + sectorTTL]

\* storeSector.
Store(g) ==
  /\ pc[g] = "store"
  /\ sectorCache' = [sectorCache EXCEPT ![sector[g]] = Stored(g)]
  /\ storedAt' = [storedAt EXCEPT ![sector[g]] = clock]
  /\ At(g, "unlock")
  /\ UNCHANGED <<clock, mu, sector, val, wasted>>

Released_NotOnNil(g) == IF val[g] = "nil" THEN mu[sector[g]] ELSE None

\* The deferred mu.Unlock() runs on every return.
Released(g) == None

Unlock(g) ==
  /\ pc[g] = "unlock"
  /\ mu' = [mu EXCEPT ![sector[g]] = Released(g)]
  /\ Return(g)
  /\ UNCHANGED <<clock, sectorCache, storedAt, wasted>>

Tick ==
  /\ clock < MaxTime
  /\ clock' = clock + 1
  /\ UNCHANGED cacheVars

\* A caller inside SectorValuationFor.
Inside(g) ==
  \/ Look(g) \/ Evict(g) \/ Lock(g) \/ Relook(g) \/ Reevict(g)
  \/ Fetch(g) \/ Store(g) \/ Unlock(g)

SectorNext ==
  \/ \E g \in Callers : Inside(g) \/ \E s \in Sectors \cup {None} : Call(g, s)
  \/ Tick

SectorSpec == SectorInit /\ [][SectorNext]_sectorVars

\* Goroutines run, fetches end (the request's context bounds them), and a Go
\* mutex hands itself to a waiter that has waited long enough.
SectorFairness ==
  /\ \A g \in Callers : WF_sectorVars(Inside(g)) /\ SF_sectorVars(Lock(g))

SectorFairSpec == SectorSpec /\ SectorFairness

-----------------------------------------------------------------------------
(* Properties.                                                              *)

\* "One in-flight fetch per sector" (sector.go): no two callers are between
\* starting a fetch and storing its result for the same sector.
OneFetchPerSector ==
  \A g, h \in Callers :
    pc[g] \in {"fetch", "store"} /\ pc[h] \in {"fetch", "store"} /\ sector[g] = sector[h]
      => g = h

\* Why it is inductive: whoever is past Lock holds the mutex of its sector.
HoldersHold == \A g \in Callers : pc[g] \in Held => mu[sector[g]] = g

\* "fetching it once per distinct sector" (sector.go): no fetch starts while
\* the last result of the sector is within its TTL.  Before anything expires
\* this holds; afterwards a delete decided on the old entry removes the new.
FetchedOncePerWindow == \A s \in Sectors : wasted[s] = 0

\* How far that race can go: every repeated fetch uses up a caller that was
\* about to delete the old entry when the new one was stored.
RefetchesBounded == \A s \in Sectors : wasted[s] < Cardinality(Callers)

\* Why it is inductive: within the window the deletes still to come, and the
\* one that has come, each stand for at most one more fetch.
Deleters(s) == {g \in Callers : pc[g] = "evict" /\ sector[g] = s}

Fetching(s) == \E g \in Callers : pc[g] \in {"fetch", "store"} /\ sector[g] = s

Gap(s) == IF sectorCache[s] = None THEN 1 ELSE 0

RefetchInv ==
  /\ \A s \in Sectors :
       /\ wasted[s] < Cardinality(Callers)
       /\ sectorCache[s] # None
            => storedAt[s] # None /\ sectorCache[s].expires = storedAt[s] + sectorTTL
       /\ Fetching(s) => /\ sectorCache[s] = None
                         /\ wasted[s] + Cardinality(Deleters(s)) < Cardinality(Callers)
       /\ InWindow(s) /\ ~Fetching(s)
            => wasted[s] + Cardinality(Deleters(s)) + Gap(s) < Cardinality(Callers)
  /\ \A g \in Callers : pc[g] = "reevict" => ~InWindow(sector[g])

\* Why FetchedOncePerWindow is inductive before anything can expire.
ColdInv ==
  /\ clock <= MaxTime
  /\ \A g \in Callers : pc[g] \notin {"evict", "reevict"}
  /\ \A s \in Sectors :
       /\ sectorCache[s] # None => sectorCache[s].expires >= sectorTTL
       /\ storedAt[s] # None => sectorCache[s] # None
       /\ wasted[s] = 0

\* Every call of SectorValuationFor returns, waiters on the mutex included,
\* whether the fetches succeed or fail.
CallsReturn == \A g \in Callers : pc[g] # "idle" ~> pc[g] = "idle"
=============================================================================
