------------------------- MODULE ListIndicatorsProofs -------------------------
(***************************************************************************)
(* Theorems about ListIndicators, for every set of requests and symbols    *)
(* and every bound of the parallelism.                                     *)
(***************************************************************************)
EXTENDS ListIndicators, SectorCacheProofs

(* Every step is a step of the sector cache or leaves it alone.             *)
LEMMA StepsOfSectorCache ==
  ASSUME [ListNext]_allVars
  PROVE  [SectorNext]_sectorVars
<1>1. ASSUME NEW r \in Requests, Begin(r) \/ Serve(r)
      PROVE  UNCHANGED sectorVars
  BY <1>1 DEF Begin, Serve, Scan, EvictIndicators, AnswerFromCache, FetchFirst, FetchRest,
     AnswerAfterFetch, Answer
<1>2. ASSUME NEW g \in Callers, Acquire(g) \/ Prime(g) \/ FanoutFails(g) \/ Finish(g)
      PROVE  UNCHANGED sectorVars
  BY <1>2 DEF Acquire, Prime, FanoutFails, Finish
<1>3. ASSUME NEW g \in Callers, FanoutResolves(g)
      PROVE  SectorNext
  <2>1. g[2] \in Symbols
    BY ListConstants DEF ListConstants
  <2>2. classification[g[2]] \in Sectors \cup {None}
    BY <2>1, ListConstants DEF ListConstants
  <2> QED BY <1>3, <2>2 DEF FanoutResolves, SectorNext
<1>4. ASSUME NEW g \in Callers, InSector(g)
      PROVE  SectorNext
  BY <1>4 DEF InSector, SectorNext
<1>5. CASE ListTick
  BY <1>5 DEF ListTick, SectorNext
<1>6. CASE UNCHANGED allVars
  BY <1>6 DEF allVars
<1> QED BY <1>1, <1>2, <1>3, <1>4, <1>5, <1>6 DEF ListNext, Work

(* The composition implements the sector cache, so what is proved of it      *)
(* holds here.                                                              *)
THEOREM ListUsesSectorCache == ListSpec => UsesSectorCache
<1>1. ListInit => SectorInit
  BY DEF ListInit
<1> QED BY <1>1, StepsOfSectorCache, PTL DEF ListSpec, UsesSectorCache, SectorSpec

(* "One in-flight fetch per sector", for the jobs of all requests.          *)
THEOREM ListOneFetchAtATime == ListSpec => []OneFetchPerSector
BY ListUsesSectorCache, OneFetchAtATime, PTL DEF UsesSectorCache

-----------------------------------------------------------------------------

LEMMA JobOf ==
  /\ \A g \in Callers : /\ g[1] \in Requests /\ g[2] \in Symbols
                        /\ g = <<g[1], g[2]>> /\ g \in Jobs(g[1])
  /\ \A r \in Requests, s \in Symbols : <<r, s>> \in Callers /\ <<r, s>> \in Jobs(r)
  /\ \A r \in Requests : Jobs(r) \subseteq Callers
BY ListConstants DEF ListConstants, Jobs

(* The type invariant.                                                      *)
THEOREM ListTypeCorrect == ListSpec => []ListTypeOK
<1>1. ListInit => ListTypeOK
  BY InitFacts, ListConstants DEF ListInit, ListTypeOK, ListConstants, Keys
<1>2. ListTypeOK /\ SectorTypeOK' /\ [ListNext]_allVars => ListTypeOK'
  <2> SUFFICES ASSUME ListTypeOK, SectorTypeOK', [ListNext]_allVars
               PROVE  ListTypeOK'
    OBVIOUS
  <2> USE DEF ListTypeOK, Keys
  <2>1. ASSUME NEW r \in Requests, Begin(r)
        PROVE  ListTypeOK'
    BY <2>1 DEF Begin, clientVars, jobVars
  <2>2. ASSUME NEW r \in Requests, Scan(r)
        PROVE  ListTypeOK'
    BY <2>2 DEF Scan, clientVars, jobVars
  <2>3. ASSUME NEW r \in Requests, EvictIndicators(r)
        PROVE  ListTypeOK'
    BY <2>3 DEF EvictIndicators, clientVars, jobVars
  <2>4. ASSUME NEW r \in Requests, AnswerFromCache(r) \/ AnswerAfterFetch(r)
        PROVE  ListTypeOK'
    BY <2>4 DEF AnswerFromCache, AnswerAfterFetch, Answer, jobVars
  <2>5. ASSUME NEW r \in Requests, FetchFirst(r)
        PROVE  ListTypeOK'
    BY <2>5, JobOf DEF FetchFirst, clientVars
  <2>6. ASSUME NEW r \in Requests, FetchRest(r)
        PROVE  ListTypeOK'
    BY <2>6 DEF FetchRest, clientVars
  <2>7. ASSUME NEW g \in Callers, Acquire(g)
        PROVE  ListTypeOK'
    BY <2>7 DEF Acquire, requestVars, clientVars
  <2>8. ASSUME NEW g \in Callers, Prime(g)
        PROVE  ListTypeOK'
    <3>1. unprimed' \in [Requests -> BOOLEAN]
      BY <2>8, JobOf DEF Prime
    <3>2. crumb' \in [Requests -> BOOLEAN]
      BY <2>8, JobOf DEF Prime
    <3> QED BY <2>8, <3>1, <3>2 DEF Prime, requestVars
  <2>9. ASSUME NEW g \in Callers, FanoutFails(g)
        PROVE  ListTypeOK'
    BY <2>9, JobOf DEF FanoutFails, requestVars
  <2>10. ASSUME NEW g \in Callers, FanoutResolves(g)
         PROVE  ListTypeOK'
    BY <2>10, JobOf DEF FanoutResolves
  <2>11. ASSUME NEW g \in Callers, Finish(g)
         PROVE  ListTypeOK'
    <3>1. clock + indicatorTTL \in Nat
      BY ListConstants DEF ListConstants, SectorTypeOK
    <3> QED BY <2>11, <3>1, JobOf DEF Finish, clientVars
  <2>12. CASE UNCHANGED listVars
    BY <2>12 DEF listVars, requestVars, clientVars, jobVars
  <2> QED BY <2>1, <2>2, <2>3, <2>4, <2>5, <2>6, <2>7, <2>8, <2>9, <2>10, <2>11, <2>12
          DEF ListNext, Serve, Work, InSector, ListTick, allVars
<1>3. ListSpec => []SectorTypeOK
  BY ListUsesSectorCache, SectorTypeCorrect, PTL DEF UsesSectorCache
<1> QED BY <1>1, <1>2, <1>3, PTL DEF ListSpec

-----------------------------------------------------------------------------
(* What a request knows of its jobs.                                        *)

LEMMA ListInvStep ==
  ASSUME ListTypeOK, ListTypeOK', ListInv, [ListNext]_allVars
  PROVE  ListInv'
<1> USE JobOf DEF ListTypeOK
<1>0. /\ \A q \in Requests : OneJobFirst(q) /\ AllAccounted(q) /\ CrumbAccounted(q)
      /\ ListInv' <=> \A q \in Requests :
                         OneJobFirst(q)' /\ AllAccounted(q)' /\ CrumbAccounted(q)'
  BY DEF ListInv
<1>1. ASSUME NEW r \in Requests, Begin(r) \/ Scan(r) \/ EvictIndicators(r)
      PROVE  ListInv'
  <2>1. ASSUME NEW q \in Requests
        PROVE  OneJobFirst(q)'
    BY <1>0, <1>1, <2>1 DEF OneJobFirst, JobsDone, Jobs, Begin, Scan, EvictIndicators, clientVars, jobVars
  <2>2. ASSUME NEW q \in Requests
        PROVE  AllAccounted(q)'
    <3>1. job' = job
      BY <1>1 DEF Begin, Scan, EvictIndicators, jobVars
    <3>2. CASE UNCHANGED <<out, due>>
      BY <1>0, <3>1, <3>2 DEF AllAccounted
    <3>3. CASE Scan(r)
      <4>1. PICK s \in todo[r], hit \in BOOLEAN :
              /\ out' = [out EXCEPT ![r] = IF hit THEN @ \cup {s} ELSE @]
              /\ due' = [due EXCEPT ![r] = IF hit THEN @ \cup {s} ELSE @]
        BY <3>3 DEF Scan
      <4>2. \A t \in Symbols :
              /\ q # r => out'[q] = out[q] /\ due'[q] = due[q]
              /\ t \in out'[r] <=> t \in out[r] \/ (hit /\ t = s)
              /\ t \in due'[r] <=> t \in due[r] \/ (hit /\ t = s)
        BY <4>1
      <4> QED BY <1>0, <3>1, <4>2 DEF AllAccounted
    <3> QED BY <1>1, <3>2, <3>3 DEF Begin, EvictIndicators
  <2>3. ASSUME NEW q \in Requests
        PROVE  CrumbAccounted(q)'
    BY <1>0, <1>1, <2>3 DEF CrumbAccounted, OneJobFirst, JobsDone, Jobs, Begin, Scan, EvictIndicators, clientVars, jobVars
  <2> QED BY <1>0, <2>1, <2>2, <2>3
<1>2. ASSUME NEW r \in Requests, AnswerFromCache(r) \/ AnswerAfterFetch(r)
      PROVE  ListInv'
  <2>1. ASSUME NEW q \in Requests
        PROVE  OneJobFirst(q)'
    BY <1>0, <1>2, <2>1 DEF OneJobFirst, JobsDone, Jobs, AnswerFromCache, AnswerAfterFetch, Answer, jobVars
  <2>2. ASSUME NEW q \in Requests
        PROVE  AllAccounted(q)'
    <3>1. JobsDone(r) /\ job' = job
      BY <1>0, <1>2 DEF OneJobFirst, AnswerFromCache, AnswerAfterFetch, Answer, jobVars
    <3>2. /\ out' = [out EXCEPT ![r] = {}] /\ due' = [due EXCEPT ![r] = {}]
      BY <1>2 DEF AnswerFromCache, AnswerAfterFetch, Answer
    <3>3. CASE q = r
      BY <3>1, <3>2, <3>3 DEF AllAccounted, JobsDone
    <3>4. CASE q # r
      BY <1>0, <3>1, <3>2, <3>4 DEF AllAccounted
    <3> QED BY <3>3, <3>4
  <2>3. ASSUME NEW q \in Requests
        PROVE  CrumbAccounted(q)'
    <3>1. /\ at' = [at EXCEPT ![r] = "idle"] /\ job' = job
          /\ crumb' = [crumb EXCEPT ![r] = FALSE]
          /\ unprimed' = [unprimed EXCEPT ![r] = FALSE]
      BY <1>2 DEF AnswerFromCache, AnswerAfterFetch, Answer, jobVars
    <3>2. CASE q = r
      <4>1. at'[q] = "idle"
        BY <3>1, <3>2
      <4> QED BY <4>1 DEF CrumbAccounted
    <3>3. CASE q # r
      <4>1. at'[q] = at[q] /\ crumb'[q] = crumb[q] /\ unprimed'[q] = unprimed[q]
        BY <3>1, <3>3
      <4> QED BY <1>0, <3>1, <4>1 DEF CrumbAccounted
    <3> QED BY <3>2, <3>3
  <2> QED BY <1>0, <2>1, <2>2, <2>3
<1>3. ASSUME NEW r \in Requests, FetchFirst(r)
      PROVE  ListInv'
  <2>1. ASSUME NEW q \in Requests
        PROVE  OneJobFirst(q)'
    <3>1. PICK s \in misses[r] : job' = [job EXCEPT ![<<r, s>>] = "prime"]
      BY <1>3 DEF FetchFirst
    <3>2. /\ at[r] = "scan" /\ at' = [at EXCEPT ![r] = "first"]
      BY <1>3 DEF FetchFirst
    <3>3. CASE q = r
      <4>1. \A g \in Jobs(q) : job[g] = "none"
        BY <1>0, <3>2, <3>3 DEF OneJobFirst, JobsDone
      <4>2. \A g \in Jobs(q) : job'[g] # "none" => g = <<r, s>>
        BY <3>1, <4>1 DEF Jobs
      <4>3. at'[q] = "first"
        BY <3>2, <3>3
      <4> QED BY <4>2, <4>3 DEF OneJobFirst, Jobs
    <3>4. CASE q # r
      <4>1. \A g \in Jobs(q) : job'[g] = job[g]
        BY <3>1, <3>4 DEF Jobs
      <4>2. at'[q] = at[q]
        BY <3>2, <3>4
      <4> QED BY <1>0, <4>1, <4>2 DEF OneJobFirst, JobsDone, Jobs
    <3> QED BY <3>3, <3>4
  <2>2. ASSUME NEW q \in Requests
        PROVE  AllAccounted(q)'
    <3>1. \A s \in Symbols : job[<<r, s>>] = "none" /\ job'[<<r, s>>] # "sector"
      BY <1>0, <1>3 DEF OneJobFirst, JobsDone, FetchFirst
    <3>2. \A s \in Symbols : q # r => job'[<<q, s>>] = job[<<q, s>>]
      BY <1>3 DEF FetchFirst
    <3> QED BY <1>0, <1>3, <3>1, <3>2 DEF AllAccounted, FetchFirst
  <2>3. ASSUME NEW q \in Requests
        PROVE  CrumbAccounted(q)'
    BY <1>0, <1>3, <2>3 DEF CrumbAccounted, OneJobFirst, JobsDone, Jobs, FetchFirst, clientVars
  <2> QED BY <1>0, <2>1, <2>2, <2>3
<1>4. ASSUME NEW r \in Requests, FetchRest(r)
      PROVE  ListInv'
  <2>1. ASSUME NEW q \in Requests
        PROVE  OneJobFirst(q)'
    BY <1>0, <1>4, <2>1 DEF OneJobFirst, JobsDone, Jobs, FetchRest, FirstDone, clientVars
  <2>2. ASSUME NEW q \in Requests
        PROVE  AllAccounted(q)'
    <3>1. \A s \in Symbols : job[<<r, s>>] = "none" /\ job'[<<r, s>>] # "sector"
      BY <1>4 DEF JobsDone, FirstDone, FetchRest
    <3>2. \A s \in Symbols : q # r => job'[<<q, s>>] = job[<<q, s>>]
      BY <1>4 DEF FetchRest
    <3> QED BY <1>0, <1>4, <3>1, <3>2 DEF AllAccounted, FetchRest
  <2>3. ASSUME NEW q \in Requests
        PROVE  CrumbAccounted(q)'
    BY <1>0, <1>4, <2>3 DEF CrumbAccounted, OneJobFirst, JobsDone, Jobs, FetchRest, FirstDone, clientVars
  <2> QED BY <1>0, <2>1, <2>2, <2>3
<1>5. ASSUME NEW g \in Callers, Acquire(g)
      PROVE  ListInv'
  <2>1. ASSUME NEW q \in Requests
        PROVE  OneJobFirst(q)'
    BY <1>0, <1>5, <2>1 DEF OneJobFirst, JobsDone, Jobs, Acquire, requestVars, clientVars
  <2>2. ASSUME NEW q \in Requests
        PROVE  AllAccounted(q)'
    BY <1>0, <1>5, <2>2 DEF AllAccounted, Acquire, requestVars, clientVars
  <2>3. ASSUME NEW q \in Requests
        PROVE  CrumbAccounted(q)'
    BY <1>0, <1>5, <2>3 DEF CrumbAccounted, OneJobFirst, JobsDone, Jobs, Acquire, requestVars, clientVars
  <2> QED BY <1>0, <2>1, <2>2, <2>3
<1>6. ASSUME NEW g \in Callers, Prime(g)
      PROVE  ListInv'
  <2>1. ASSUME NEW q \in Requests
        PROVE  OneJobFirst(q)'
    BY <1>0, <1>6, <2>1 DEF OneJobFirst, JobsDone, Jobs, Prime, requestVars
  <2>2. ASSUME NEW q \in Requests
        PROVE  AllAccounted(q)'
    BY <1>0, <1>6, <2>2 DEF AllAccounted, Prime, requestVars
  <2>3. ASSUME NEW q \in Requests
        PROVE  CrumbAccounted(q)'
    <3>1. CASE q # g[1]
      BY <1>0, <1>6, <2>3, <3>1 DEF CrumbAccounted, Jobs, Prime, requestVars
    <3>2. CASE q = g[1]
      <4>1. at' = at /\ (crumb[q] => crumb'[q]) /\ (unprimed[q] => unprimed'[q])
        BY <1>6, <3>2 DEF Prime, requestVars
      <4>2. at[q] = "first" => crumb'[q] \/ unprimed'[q]
        BY <1>6, <3>2 DEF Prime
      <4> QED BY <1>0, <4>1, <4>2 DEF CrumbAccounted
    <3> QED BY <3>1, <3>2
  <2> QED BY <1>0, <2>1, <2>2, <2>3
<1>7. ASSUME NEW g \in Callers, FanoutFails(g)
      PROVE  ListInv'
  <2>1. ASSUME NEW q \in Requests
        PROVE  OneJobFirst(q)'
    BY <1>0, <1>7, <2>1 DEF OneJobFirst, JobsDone, Jobs, FanoutFails, requestVars
  <2>2. ASSUME NEW q \in Requests
        PROVE  AllAccounted(q)'
    BY <1>0, <1>7, <2>2 DEF AllAccounted, FanoutFails, requestVars
  <2>3. ASSUME NEW q \in Requests
        PROVE  CrumbAccounted(q)'
    BY <1>0, <1>7, <2>3 DEF CrumbAccounted, OneJobFirst, JobsDone, Jobs, FanoutFails, requestVars
  <2> QED BY <1>0, <2>1, <2>2, <2>3
<1>8. ASSUME NEW g \in Callers, FanoutResolves(g)
      PROVE  ListInv'
  <2>1. ASSUME NEW q \in Requests
        PROVE  OneJobFirst(q)'
    BY <1>0, <1>8, <2>1 DEF OneJobFirst, JobsDone, Jobs, FanoutResolves
  <2>2. ASSUME NEW q \in Requests
        PROVE  AllAccounted(q)'
    BY <1>0, <1>8, <2>2 DEF AllAccounted, FanoutResolves
  <2>3. ASSUME NEW q \in Requests
        PROVE  CrumbAccounted(q)'
    BY <1>0, <1>8, <2>3 DEF CrumbAccounted, OneJobFirst, JobsDone, Jobs, FanoutResolves
  <2> QED BY <1>0, <2>1, <2>2, <2>3
<1>9. ASSUME NEW g \in Callers, Finish(g)
      PROVE  ListInv'
  <2>1. ASSUME NEW q \in Requests
        PROVE  OneJobFirst(q)'
    BY <1>0, <1>9, <2>1 DEF OneJobFirst, JobsDone, Jobs, Finish, clientVars
  <2>2. ASSUME NEW q \in Requests
        PROVE  AllAccounted(q)'
    BY <1>0, <1>9, <2>2 DEF AllAccounted, Finish, clientVars
  <2>3. ASSUME NEW q \in Requests
        PROVE  CrumbAccounted(q)'
    BY <1>0, <1>9, <2>3 DEF CrumbAccounted, OneJobFirst, JobsDone, Jobs, Finish, clientVars
  <2> QED BY <1>0, <2>1, <2>2, <2>3
<1>10. CASE UNCHANGED listVars
  <2>1. ASSUME NEW q \in Requests
        PROVE  OneJobFirst(q)'
    BY <1>0, <1>10, <2>1 DEF OneJobFirst, JobsDone, Jobs, listVars, requestVars, clientVars, jobVars, Jobs
  <2>2. ASSUME NEW q \in Requests
        PROVE  AllAccounted(q)'
    BY <1>0, <1>10, <2>2 DEF AllAccounted, listVars, requestVars, clientVars, jobVars, Jobs
  <2>3. ASSUME NEW q \in Requests
        PROVE  CrumbAccounted(q)'
    BY <1>0, <1>10, <2>3 DEF CrumbAccounted, OneJobFirst, JobsDone, Jobs, listVars, requestVars, clientVars, jobVars, Jobs
  <2> QED BY <1>0, <2>1, <2>2, <2>3
<1> QED BY <1>1, <1>2, <1>3, <1>4, <1>5, <1>6, <1>7, <1>8, <1>9, <1>10
        DEF ListNext, Serve, Work, InSector, ListTick, allVars

THEOREM ListInvAlways == ListSpec => []ListInv
<1>1. ListInit => ListInv
  BY JobOf DEF ListInit, ListInv, OneJobFirst, AllAccounted, CrumbAccounted, JobsDone
<1>2. ListTypeOK /\ ListTypeOK' /\ ListInv /\ [ListNext]_allVars => ListInv'
  BY ListInvStep
<1> QED BY <1>1, <1>2, ListTypeCorrect, PTL DEF ListSpec

(* Two calls race for the crumb only after the first call failed to get it.  *)
THEOREM RaceOnlyAfterFailedPrime == ListSpec => []RaceNeedsFailedPrime
<1>1. ListTypeOK /\ ListInv => RaceNeedsFailedPrime
  <2> SUFFICES ASSUME ListTypeOK, ListInv, NEW r \in Requests, CrumbRace(r), ~unprimed[r]
               PROVE  FALSE
    BY DEF RaceNeedsFailedPrime
  <2>1. \E g \in Jobs(r) : job[g] \in {"fanout", "prime"}
    BY DEF CrumbRace
  <2>2. at[r] \in {"first", "rest"}
    BY <2>1 DEF ListTypeOK, ListInv, OneJobFirst, JobsDone
  <2>3. PICK g \in Jobs(r) : at[r] = "first" /\ job[g] = "prime"
    BY <2>2 DEF ListInv, CrumbAccounted, CrumbRace
  <2>4. \A h \in Jobs(r) : job[h] # "none" => h = g
    BY <2>3 DEF ListInv, OneJobFirst
  <2> QED BY <2>3, <2>4 DEF CrumbRace
<1> QED BY <1>1, ListTypeCorrect, ListInvAlways, PTL

(* A request returns all the symbols it found, whatever its jobs did.       *)
THEOREM ResultsComplete == ListSpec => ResultComplete
<1>1. ListTypeOK /\ ListInv /\ [ListNext]_allVars
        => [\A r \in Requests : at[r] # "idle" /\ at'[r] = "idle" => out[r] = due[r]]_allVars
  <2> SUFFICES ASSUME ListTypeOK, ListInv, ListNext, NEW r \in Requests,
                      at[r] # "idle", at'[r] = "idle"
               PROVE  out[r] = due[r]
    OBVIOUS
  <2>1. AnswerFromCache(r) \/ AnswerAfterFetch(r)
    <3> USE DEF ListTypeOK
    <3>1. ASSUME NEW q \in Requests, Begin(q) \/ Scan(q) \/ EvictIndicators(q)
          PROVE  FALSE
      BY <3>1 DEF Begin, Scan, EvictIndicators
    <3>2. ASSUME NEW q \in Requests, FetchFirst(q) \/ FetchRest(q)
          PROVE  FALSE
      BY <3>2 DEF FetchFirst, FetchRest
    <3>3. ASSUME NEW q \in Requests, AnswerFromCache(q) \/ AnswerAfterFetch(q)
          PROVE  q = r
      BY <3>3 DEF AnswerFromCache, AnswerAfterFetch, Answer
    <3>4. ASSUME NEW g \in Callers, Work(g)
          PROVE  FALSE
      BY <3>4 DEF Work, Acquire, Prime, FanoutFails, FanoutResolves, InSector, Finish,
         listVars, requestVars
    <3>5. CASE ListTick
      BY <3>5 DEF ListTick, listVars, requestVars
    <3> QED BY <3>1, <3>2, <3>3, <3>4, <3>5 DEF ListNext, Serve
  <2>2. JobsDone(r)
    BY <2>1 DEF AnswerFromCache, AnswerAfterFetch, ListInv, OneJobFirst
  <2> QED BY <2>2, JobOf DEF ListInv, AllAccounted, JobsDone, ListTypeOK
<1> QED BY <1>1, ListTypeCorrect, ListInvAlways, PTL DEF ListSpec, ResultComplete
=============================================================================
