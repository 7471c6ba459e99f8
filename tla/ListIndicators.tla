---------------------------- MODULE ListIndicators ----------------------------
(***************************************************************************)
(* Fetching the indicators of a list (FetchListIndicators) or of the       *)
(* symbol a lookup shows (FetchTickerIndicators), composed with the sector *)
(* aggregates of SectorCache, which every fetch ends with.                 *)
(*                                                                         *)
(* A request is one call of either function; a job is the fetch of one     *)
(* symbol for one request (fetchIndicators), and is a caller of            *)
(* SectorCache.  The jobs of a request share a Yahoo client, which gets    *)
(* its crumb on the first call that asks for one, without a lock.          *)
(***************************************************************************)
EXTENDS SectorCache

CONSTANTS
  Requests,
  Symbols,
  classification,  \* Yahoo's sector of each symbol, None for ""
  concurrency,     \* main.go indicatorConcurrency
  indicatorTTL     \* indicator_cache.go indicatorTTL, in ticks

ASSUME ListConstants ==
  /\ Callers = Requests \X Symbols
  /\ classification \in [Symbols -> Sectors \cup {None}]
  /\ concurrency \in Nat \ {0}
  /\ indicatorTTL \in Nat
  /\ None \notin Symbols

VARIABLES
  indicatorCache,  \* indicatorCache[k]: when the entry of cache key k expires
  at,              \* at[r]: where request r is
  full,            \* full[r]: FALSE for a list, TRUE for a lookup
  todo,            \* todo[r]: the symbols whose cache entry r has not looked at
  evicting,        \* evicting[r]: the symbol whose stale entry r is deleting
  misses,          \* misses[r]: the symbols to fetch
  out,             \* out[r]: the symbols in the result
  alone,           \* alone[r]: the symbol r fetches first, without a slot
  crumb,           \* crumb[r]: the client of r has its crumb
  job,             \* job[g]: where the fetch of one symbol is
  resolved,        \* resolved[g]: GetPE has found something
  due,             \* history: the symbols r found, cached or upstream
  unprimed         \* history: the call of r that ran alone got no crumb

requestVars == <<at, full, todo, evicting, misses, alone, out, due>>
clientVars == <<crumb, unprimed>>
jobVars == <<job, resolved>>
listVars == <<indicatorCache, requestVars, clientVars, jobVars>>
allVars == <<sectorVars, listVars>>

Keys == Symbols \X BOOLEAN

ListTypeOK ==
  /\ SectorTypeOK
  /\ indicatorCache \in [Keys -> Nat \cup {None}]
  /\ at \in [Requests -> {"idle", "scan", "first", "rest"}]
  /\ full \in [Requests -> BOOLEAN]
  /\ todo \in [Requests -> SUBSET Symbols]
  /\ evicting \in [Requests -> Symbols \cup {None}]
  /\ misses \in [Requests -> SUBSET Symbols]
  /\ alone \in [Requests -> Symbols \cup {None}]
  /\ out \in [Requests -> SUBSET Symbols]
  /\ crumb \in [Requests -> BOOLEAN]
  /\ job \in [Callers -> {"none", "queued", "prime", "fanout", "sector"}]
  /\ resolved \in [Callers -> BOOLEAN]
  /\ due \in [Requests -> SUBSET Symbols]
  /\ unprimed \in [Requests -> BOOLEAN]

ListInit ==
  /\ SectorInit
  /\ indicatorCache = [k \in Keys |-> None]
  /\ at = [r \in Requests |-> "idle"]
  /\ full = [r \in Requests |-> FALSE]
  /\ todo = [r \in Requests |-> {}]
  /\ evicting = [r \in Requests |-> None]
  /\ misses = [r \in Requests |-> {}]
  /\ alone = [r \in Requests |-> None]
  /\ out = [r \in Requests |-> {}]
  /\ crumb = [r \in Requests |-> FALSE]
  /\ job = [g \in Callers |-> "none"]
  /\ resolved = [g \in Callers |-> FALSE]
  /\ due = [r \in Requests |-> {}]
  /\ unprimed = [r \in Requests |-> FALSE]

-----------------------------------------------------------------------------
(* The request.                                                             *)

Jobs(r) == {g \in Callers : g[1] = r}

Begin(r) ==
  /\ at[r] = "idle"
  /\ \E S \in SUBSET Symbols, f \in BOOLEAN :
       /\ f => Cardinality(S) = 1
       /\ todo' = [todo EXCEPT ![r] = S]
       /\ full' = [full EXCEPT ![r] = f]
  /\ at' = [at EXCEPT ![r] = "scan"]
  /\ UNCHANGED <<sectorVars, indicatorCache, evicting, misses, alone, out, due,
                 clientVars, jobVars>>

\* cachedIndicators for one symbol: fresh, missing, or stale and to be deleted.
Scan(r) ==
  /\ at[r] = "scan" /\ evicting[r] = None
  /\ \E s \in todo[r] :
       LET expires == indicatorCache[<<s, full[r]>>]
           hit == expires # None /\ clock <= expires IN
       /\ todo' = [todo EXCEPT ![r] = @ \ {s}]
       /\ out' = [out EXCEPT ![r] = IF hit THEN @ \cup {s} ELSE @]
       /\ due' = [due EXCEPT ![r] = IF hit THEN @ \cup {s} ELSE @]
       /\ misses' = [misses EXCEPT ![r] = IF hit THEN @ ELSE @ \cup {s}]
       /\ evicting' = [evicting EXCEPT ![r] = IF hit \/ expires = None THEN None ELSE s]
  /\ UNCHANGED <<sectorVars, indicatorCache, at, full, alone, clientVars, jobVars>>

EvictIndicators(r) ==
  /\ evicting[r] # None
  /\ indicatorCache' = [indicatorCache EXCEPT ![<<evicting[r], full[r]>>] = None]
  /\ evicting' = [evicting EXCEPT ![r] = None]
  /\ UNCHANGED <<sectorVars, at, full, todo, misses, alone, out, due, clientVars, jobVars>>

\* The function returns out[r]; its client and its variables are gone.
Answer(r) ==
  /\ at' = [at EXCEPT ![r] = "idle"]
  /\ full' = [full EXCEPT ![r] = FALSE]
  /\ misses' = [misses EXCEPT ![r] = {}]
  /\ alone' = [alone EXCEPT ![r] = None]
  /\ out' = [out EXCEPT ![r] = {}]
  /\ due' = [due EXCEPT ![r] = {}]
  /\ crumb' = [crumb EXCEPT ![r] = FALSE]
  /\ unprimed' = [unprimed EXCEPT ![r] = FALSE]
  /\ UNCHANGED <<sectorVars, indicatorCache, todo, evicting, jobVars>>

\* Nothing to fetch, or no client: what the cache had is the answer.
AnswerFromCache(r) ==
  /\ at[r] = "scan" /\ todo[r] = {} /\ evicting[r] = None
  /\ Answer(r)

\* A new client; the first miss runs alone.
FetchFirst(r) ==
  /\ at[r] = "scan" /\ todo[r] = {} /\ evicting[r] = None
  /\ \E s \in misses[r] :
       /\ misses' = [misses EXCEPT ![r] = @ \ {s}]
       /\ alone' = [alone EXCEPT ![r] = s]
       /\ job' = [job EXCEPT ![<<r, s>>] = "prime"]
  /\ at' = [at EXCEPT ![r] = "first"]
  /\ UNCHANGED <<sectorVars, indicatorCache, full, todo, evicting, out, due, clientVars,
                 resolved>>

JobsDone_NotAwaited(r) == TRUE

JobsDone(r) == \A g \in Jobs(r) : job[g] = "none"

FirstDone_NotAwaited(r) == TRUE

FirstDone(r) == JobsDone(r)

\* One goroutine per remaining symbol.
FetchRest(r) ==
  /\ at[r] = "first" /\ FirstDone(r)
  /\ job' = [g \in Callers |->
               IF g[1] = r /\ g[2] \in misses[r] THEN "queued" ELSE job[g]]
  /\ misses' = [misses EXCEPT ![r] = {}]
  /\ at' = [at EXCEPT ![r] = "rest"]
  /\ UNCHANGED <<sectorVars, indicatorCache, full, todo, evicting, alone, out, due, clientVars,
                 resolved>>

\* wg.Wait().
AnswerAfterFetch(r) ==
  /\ at[r] = "rest" /\ JobsDone(r)
  /\ Answer(r)

-----------------------------------------------------------------------------
(* The fetch of one symbol.                                                 *)

\* The jobs that hold a slot of the semaphore.
Running(r) ==
  {g \in Jobs(r) : job[g] \in {"prime", "fanout", "sector"} /\ g[2] # alone[r]}

SlotFree(r) == Cardinality(Running(r)) < concurrency

\* sem <- struct{}{}
Acquire(g) ==
  /\ job[g] = "queued" /\ SlotFree(g[1])
  /\ job' = [job EXCEPT ![g] = "prime"]
  /\ UNCHANGED <<sectorVars, indicatorCache, requestVars, clientVars, resolved>>

\* GetPE, before the rest of the fan-out.  A failure may leave the client
\* without a crumb.
Prime(g) ==
  /\ job[g] = "prime"
  /\ \E ok \in BOOLEAN, c \in BOOLEAN :
       /\ ok \/ crumb[g[1]] => c
       /\ resolved' = [resolved EXCEPT ![g] = ok]
       /\ crumb' = [crumb EXCEPT ![g[1]] = c]
       /\ unprimed' = [unprimed EXCEPT ![g[1]] = @ \/ (at[g[1]] = "first" /\ ~c)]
  /\ job' = [job EXCEPT ![g] = "fanout"]
  /\ UNCHANGED <<sectorVars, indicatorCache, requestVars>>

\* A symbol with nothing at all resolved is left out of the result.
FanoutFails(g) ==
  /\ job[g] = "fanout" /\ ~resolved[g]
  /\ job' = [job EXCEPT ![g] = "none"]
  /\ \E c \in BOOLEAN : crumb' = [crumb EXCEPT ![g[1]] = @ \/ c]
  /\ UNCHANGED <<sectorVars, indicatorCache, requestVars, unprimed, resolved>>

\* The six concurrent calls are back; the sector is known unless SectorOf
\* failed.  The sector aggregate comes last.
FanoutResolves(g) ==
  /\ job[g] = "fanout"
  /\ \E s \in {classification[g[2]], None} : Call(g, s)
  /\ \E c \in BOOLEAN : crumb' = [crumb EXCEPT ![g[1]] = @ \/ c]
  /\ resolved' = [resolved EXCEPT ![g] = FALSE]
  /\ job' = [job EXCEPT ![g] = "sector"]
  /\ due' = [due EXCEPT ![g[1]] = @ \cup {g[2]}]
  /\ UNCHANGED <<indicatorCache, at, full, todo, evicting, misses, alone, out, unprimed>>

\* SectorValuationFor has returned: store, add to the result, leave the slot.
Finish(g) ==
  /\ job[g] = "sector" /\ pc[g] = "idle"
  /\ indicatorCache' = [indicatorCache EXCEPT
                          ![<<g[2], full[g[1]]>>] = clock + indicatorTTL]
  /\ out' = [out EXCEPT ![g[1]] = @ \cup {g[2]}]
  /\ job' = [job EXCEPT ![g] = "none"]
  /\ UNCHANGED <<sectorVars, at, full, todo, evicting, misses, alone, due, clientVars,
                 resolved>>

InSector(g) == Inside(g) /\ UNCHANGED listVars

ListTick == Tick /\ UNCHANGED listVars

Serve(r) ==
  \/ Scan(r) \/ EvictIndicators(r) \/ AnswerFromCache(r) \/ FetchFirst(r)
  \/ FetchRest(r) \/ AnswerAfterFetch(r)

Work(g) ==
  Acquire(g) \/ Prime(g) \/ FanoutFails(g) \/ FanoutResolves(g) \/ InSector(g) \/ Finish(g)

ListNext ==
  \/ \E r \in Requests : Begin(r) \/ Serve(r)
  \/ \E g \in Callers : Work(g)
  \/ ListTick

ListSpec == ListInit /\ [][ListNext]_allVars

\* Goroutines run, upstream calls end, and a Go mutex hands itself to a waiter
\* that has waited long enough.
ListFairSpec ==
  /\ ListSpec
  /\ \A r \in Requests : WF_allVars(Serve(r))
  /\ \A g \in Callers :
       /\ WF_allVars(Work(g))
       /\ SF_allVars(Lock(g) /\ UNCHANGED listVars)

-----------------------------------------------------------------------------
(* Properties.                                                              *)

\* Two calls of a client that has no crumb yet are in flight at once: each
\* would fetch one.
CrumbRace(r) ==
  /\ ~crumb[r]
  /\ \/ \E g \in Jobs(r) : job[g] = "fanout"
     \/ \E g, h \in Jobs(r) : g # h /\ job[g] = "prime" /\ job[h] = "prime"

\* "runs alone to populate the client's crumb before the rest fan out"
\* (indicator_cache.go): a race for the crumb only after that call failed to
\* get one.
RaceNeedsFailedPrime == \A r \in Requests : CrumbRace(r) => unprimed[r]

\* The answer has every symbol that was cached or that a fetch resolved, and no
\* other: wg.Wait() joins all of them and no write to the map is lost.
ResultComplete ==
  [][\A r \in Requests : at[r] # "idle" /\ at'[r] = "idle" => out[r] = due[r]]_allVars

\* A request is answered, although its jobs hold slots of the semaphore while
\* they wait for the mutex of a sector that another request's job may hold.
RequestsAnswered ==
  \A r \in Requests : at[r] = "scan" ~> at[r] = "idle"

\* Why these are inductive: jobs exist only while their request fetches, one
\* alone at first; what is due and not in the result is being compared with its
\* sector; and a request without a crumb is either at its first call or failed it.
OneJobFirst(r) ==
  /\ at[r] \in {"idle", "scan"} => JobsDone(r)
  /\ at[r] = "first" => \A g, h \in Jobs(r) : job[g] # "none" /\ job[h] # "none" => g = h

AllAccounted(r) ==
  \A s \in Symbols : s \in due[r] <=> s \in out[r] \/ job[<<r, s>>] = "sector"

CrumbAccounted(r) ==
  /\ at[r] \in {"first", "rest"}
  /\ ~crumb[r] /\ ~unprimed[r]
  => at[r] = "first" /\ \E g \in Jobs(r) : job[g] = "prime"

ListInv == \A r \in Requests : OneJobFirst(r) /\ AllAccounted(r) /\ CrumbAccounted(r)

\* The composition uses the sector cache only through its own steps.
UsesSectorCache == SectorSpec
=============================================================================
