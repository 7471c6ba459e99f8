-------------------------- MODULE PortfolioAppProofs --------------------------
(***************************************************************************)
(* Theorems about PortfolioApp, for all zips and tabs and every number of  *)
(* jobs and reloads.                                                       *)
(***************************************************************************)
EXTENDS PortfolioApp, TLAPS

Is(j, kind) == jobs[j] # None /\ jobs[j].kind = kind
OfUser(j) == jobs[j] # None /\ jobs[j].kind \in {"reprocess", "submit", "forget"}

\* The steps a job of each kind goes through.
Fits(job) ==
  /\ job.kind = "look" => job.step \in {"read", "clear", "upgrade"}
  /\ job.kind = "init" => job.step \in {"read", "clear", "upgrade", "show", "fetch", "upload"}
  /\ job.kind = "reprocess" => job.step \in {"read", "clear", "upgrade", "upload"}
  /\ job.kind = "submit" => job.step \in {"cache", "upload"}
  /\ job.kind = "forget" => job.step = "clear"
  /\ job.step \in {"upgrade", "show", "cache", "upload"} => job.zip # None

\* A job that is mounted has its view.
JobsFit ==
  \A j \in JobIds : jobs[j] # None => Fits(jobs[j]) /\ (jobs[j].mounted => settings # None)

\* The page starts once, and until it has, no badge and no "No data yet" is up.
StartInv ==
  /\ \A i, j \in JobIds : Is(i, "init") /\ Is(j, "init") => i = j
  /\ \A j \in JobIds : Is(j, "init") => ~isDemo
  /\ \A j \in JobIds : Is(j, "init") /\ jobs[j].step # "upload" => ~noData
  /\ isDemo <=> data = "mock"

\* Without overlap a job of the user's runs by itself, and the page that starts has
\* no report yet.
AloneInv ==
  ~overlapped =>
    /\ \A i, j \in JobIds : OfUser(j) /\ jobs[i] # None => i = j
    /\ \A j \in JobIds : Is(j, "init") /\ jobs[j].step # "upload" => data = None
    /\ noData => data = None

\* What is under way is under way for the kept zip, and unless an upload is, its
\* report is what is shown.
KeptFits ==
  /\ \A j \in JobIds : jobs[j] # None /\ jobs[j].step \in {"upgrade", "show", "upload"} =>
       kept # None /\ jobs[j].zip = kept.zip
  /\ \A j \in JobIds : Is(j, "init") /\ jobs[j].step = "fetch" => kept = None
  /\ data \in Zips /\ kept # None /\ (\A j \in JobIds : jobs[j] # None => jobs[j].step # "upload")
       => data = kept.zip

\* It is so while nothing overlapped and nothing failed.
KeptInv ==
  /\ \A j \in JobIds : jobs[j] # None /\ jobs[j].step = "clear" /\ jobs[j].kind # "forget" => missed
  /\ ~overlapped /\ ~missed => KeptFits

-----------------------------------------------------------------------------
(* What the operators on jobs and on the view do.                           *)

Places == [JobIds -> Job \cup {None}]

Look == NewJob("look", "read", None)

\* The same job, whether or not the view that started it is still there.
Same(old, new) ==
  \/ old = None /\ new = None
  \/ /\ old \in Job /\ new \in Job
     /\ new.kind = old.kind /\ new.step = old.step /\ new.zip = old.zip
     /\ new.mounted => old.mounted

\* The free place a new job takes.
LEMMA StartedJob ==
  ASSUME NEW js \in Places, Free(js) # {}, NEW job \in Job
  PROVE  /\ Started(js, job) \in Places
         /\ \E k \in JobIds : /\ js[k] = None /\ Started(js, job)[k] = job
                              /\ \A i \in JobIds \ {k} : Started(js, job)[i] = js[i]
<1>1. Slot(js) \in Free(js)
  BY DEF Slot
<1>2. Slot(js) \in JobIds /\ js[Slot(js)] = None
  BY <1>1 DEF Free, Busy
<1> QED BY <1>2 DEF Started, Places

\* Showing a tab looks for the kept zip at most, and leaves every other job as it is.
LEMMA ShownJobs ==
  ASSUME AppTypeOK, NEW t \in Tabs, NEW js \in Places, Shows(t, js),
         \A i \in JobIds : js[i] # None /\ js[i].mounted => settings # None
  PROVE  /\ activeTab' \in Tabs /\ settings' \in View \cup {None}
         /\ settings' # None <=> activeTab' = "settings"
         /\ jobs' \in Places
         /\ \A i \in JobIds :
              Same(js[i], jobs'[i]) \/ (js[i] = None /\ jobs'[i] = Look /\ t = "settings")
         /\ \A i \in JobIds : jobs'[i] # None /\ jobs'[i].mounted => settings' # None
         /\ settings' # None /\ settings # None => settings' = settings
         /\ settings' # None /\ settings = None => settings' = BlankView
<1>1. \A i \in JobIds : Same(js[i], js[i])
  BY DEF Same, Places
<1>2. BlankView \in View /\ Look \in Job
  BY DEF BlankView, View, Look, NewJob, Job
<1>3. None \notin View /\ None \notin Job
  BY NoneIsNoRecord
<1>4. CASE t = "settings" /\ activeTab # "settings"
  <2>1. settings' = BlankView /\ Free(js) # {} /\ jobs' = Started(js, Look)
    BY <1>4 DEF Shows, Look
  <2>2. PICK k \in JobIds : /\ js[k] = None /\ jobs'[k] = Look
                            /\ \A i \in JobIds \ {k} : jobs'[i] = js[i]
    BY <2>1, <1>2, StartedJob
  <2>3. jobs' \in Places
    BY <2>1, <1>2, StartedJob
  <2> QED BY <1>1, <1>2, <1>3, <1>4, <2>1, <2>2, <2>3 DEF Shows, AppTypeOK
<1>5. CASE t # "settings" /\ activeTab = "settings"
  <2>1. settings' = None /\ jobs' = Unmounted(js)
    BY <1>5 DEF Shows
  <2>2. \A i \in JobIds : js[i] # None =>
          /\ jobs'[i] = [js[i] EXCEPT !.mounted = FALSE]
          /\ jobs'[i] \in Job /\ ~jobs'[i].mounted /\ Same(js[i], jobs'[i])
    BY <2>1 DEF Unmounted, Places, Job, Same
  <2>3. \A i \in JobIds : js[i] = None => jobs'[i] = None
    BY <2>1 DEF Unmounted
  <2>4. jobs' \in Places
    BY <2>1, <2>2, <2>3 DEF Unmounted, Places
  <2>5. \A i \in JobIds : Same(js[i], jobs'[i])
    BY <2>2, <2>3 DEF Same
  <2> QED BY <1>3, <1>5, <2>1, <2>2, <2>3, <2>4, <2>5 DEF Shows, AppTypeOK
<1>6. CASE ~(t = "settings" /\ activeTab # "settings") /\ ~(t # "settings" /\ activeTab = "settings")
  BY <1>1, <1>6 DEF Shows, AppTypeOK
<1> QED BY <1>4, <1>5, <1>6

\* A setState of the view keeps it a view, and keeps whether there is one.
LEMMA ViewStays ==
  ASSUME NEW j \in JobIds, jobs[j].mounted => settings # None, settings \in View \cup {None},
         NEW view, settings # None => view \in View, ViewGets(j, view)
  PROVE  settings' \in View \cup {None} /\ (settings' # None <=> settings # None)
BY NoneIsNoRecord DEF ViewGets

\* A job goes on, or ends.
LEMMA NextStep ==
  ASSUME jobs \in Places, NEW j \in JobIds, jobs[j] # None, NEW z \in Zips \cup {None},
         NEW step \in {"clear", "upgrade", "show", "fetch", "upload"}
  PROVE  /\ Step(j, step, z) \in Places
         /\ \A i \in JobIds \ {j} : Step(j, step, z)[i] = jobs[i]
         /\ Step(j, step, z)[j] \in Job
         /\ Step(j, step, z)[j].kind = jobs[j].kind /\ Step(j, step, z)[j].step = step
         /\ Step(j, step, z)[j].zip = z /\ Step(j, step, z)[j].mounted = jobs[j].mounted
<1>1. jobs[j] \in Job
  BY DEF Places
<1>2. Step(j, step, z)[j] = [jobs[j] EXCEPT !.step = step, !.zip = z]
  BY DEF Step, Places
<1>3. [jobs[j] EXCEPT !.step = step, !.zip = z] \in Job
  BY <1>1 DEF Job
<1>4. \A i \in JobIds \ {j} : Step(j, step, z)[i] = jobs[i]
  BY DEF Step, Places
<1>5. Step(j, step, z) \in Places
  BY <1>2, <1>3, <1>4 DEF Step, Places
<1> QED BY <1>1, <1>2, <1>3, <1>4, <1>5 DEF Job

LEMMA EndedJob ==
  ASSUME jobs \in Places, NEW j \in JobIds
  PROVE  /\ Ended(j) \in Places /\ Ended(j)[j] = None
         /\ \A i \in JobIds \ {j} : Ended(j)[i] = jobs[i]
BY DEF Ended, Places

\* What loadCachedZip's callers do next.
LEMMA FoundStep ==
  ASSUME AppTypeOK, JobsFit, NEW j \in JobIds, jobs[j] # None, NEW z \in Zips \cup {None}, ZipFound(j, z)
  PROVE  /\ jobs' \in Places
         /\ \A i \in JobIds \ {j} : jobs'[i] = jobs[i]
         /\ jobs'[j] # None =>
              /\ jobs'[j].kind = jobs[j].kind /\ jobs'[j].zip = z
              /\ jobs'[j].mounted = jobs[j].mounted
              /\ \/ jobs[j].kind = "init" /\ jobs'[j].step = IF z = None THEN "fetch" ELSE "show"
                 \/ jobs[j].kind = "reprocess" /\ jobs'[j].step = "upload" /\ z # None
         /\ settings' \in View \cup {None} /\ (settings' # None <=> settings # None)
         /\ settings' # None /\ settings'.uploading =>
              settings.uploading \/ (jobs'[j] # None /\ jobs'[j].kind = "reprocess" /\ jobs[j].mounted)
<1> DEFINE kind == jobs[j].kind
<1>1. jobs[j] \in Job /\ jobs \in Places /\ None \notin Job
  BY NoneIsNoRecord DEF AppTypeOK, Places
<1>2. \A step \in {"fetch", "show", "upload"} :
        /\ Step(j, step, z) \in Places
        /\ Step(j, step, z)[j].kind = jobs[j].kind /\ Step(j, step, z)[j].step = step
        /\ Step(j, step, z)[j].zip = z /\ Step(j, step, z)[j].mounted = jobs[j].mounted
        /\ \A i \in JobIds \ {j} : Step(j, step, z)[i] = jobs[i]
  BY <1>1, NextStep
<1>3. Ended(j) \in Places /\ Ended(j)[j] = None /\ \A i \in JobIds \ {j} : Ended(j)[i] = jobs[i]
  BY <1>1, EndedJob
<1>4. /\ settings # None => [settings EXCEPT !.offersKept = TRUE] \in View
      /\ settings # None => [settings EXCEPT !.offersKept = TRUE].uploading = settings.uploading
      /\ settings # None => [settings EXCEPT !.uploading = TRUE] \in View
  BY DEF AppTypeOK, View
<1>5. jobs[j].mounted => settings # None
  BY DEF JobsFit
<1>6. None \notin View
  BY NoneIsNoRecord
<1>7. CASE /\ kind = "init" /\ settings' = settings
           /\ jobs' = Step(j, IF z = None THEN "fetch" ELSE "show", z)
  <2>1. CASE z = None
    BY <1>2, <1>7, <2>1 DEF AppTypeOK
  <2>2. CASE z # None
    BY <1>2, <1>7, <2>2 DEF AppTypeOK
  <2> QED BY <2>1, <2>2
<1>8. CASE /\ kind = "look" /\ jobs' = Ended(j)
           /\ ViewGets(j, IF z = None THEN settings ELSE [settings EXCEPT !.offersKept = TRUE])
  BY <1>1, <1>3, <1>4, <1>5, <1>6, <1>8 DEF ViewGets, AppTypeOK
<1>9. CASE /\ kind = "reprocess"
           /\ jobs' = IF z = None THEN Ended(j) ELSE Step(j, "upload", z)
           /\ ViewGets(j, IF z = None THEN settings ELSE [settings EXCEPT !.uploading = TRUE])
  <2>1. CASE z = None
    BY <1>1, <1>3, <1>5, <1>6, <1>9, <2>1 DEF ViewGets, AppTypeOK
  <2>2. CASE z # None
    <3>1. jobs' = Step(j, "upload", z) /\ jobs'[j] # None
      BY <1>1, <1>2, <1>9, <2>2, NextStep
    <3>2. CASE jobs[j].mounted
      BY <1>2, <1>4, <1>5, <1>6, <1>9, <2>2, <3>1, <3>2 DEF ViewGets
    <3>3. CASE ~jobs[j].mounted
      BY <1>2, <1>9, <2>2, <3>1, <3>3 DEF ViewGets, AppTypeOK
    <3> QED BY <3>2, <3>3
  <2> QED BY <2>1, <2>2
<1> QED BY <1>7, <1>8, <1>9 DEF ZipFound

-----------------------------------------------------------------------------
(* The type invariant, with what the jobs of each kind go through.          *)

TypeInv == AppTypeOK /\ JobsFit

LEMMA TypeInvStep == TypeInv /\ [AppNext]_appVars => TypeInv'
<1> SUFFICES ASSUME TypeInv, [AppNext]_appVars
             PROVE  TypeInv'
  OBVIOUS
<1> USE DEF TypeInv
<1>0. /\ jobs \in Places /\ None \notin Job /\ None \notin View
      /\ \A j \in JobIds : jobs[j] # None => jobs[j] \in Job
  BY NoneIsNoRecord DEF AppTypeOK, Places
<1>3. ASSUME jobs' \in Places, settings' \in View \cup {None}, activeTab' = activeTab,
             settings' # None <=> settings # None,
             kept' \in Entry \cup {None}, copy' \in Zips \cup {None},
             data' \in Reports \cup {"mock", None}, reloads' \in 0..MaxReloads,
             noData' \in BOOLEAN, isDemo' \in BOOLEAN, refreshing' \in BOOLEAN,
             refreshError' \in BOOLEAN, overlapped' \in BOOLEAN, missed' \in BOOLEAN,
             overQuota' \in BOOLEAN,
             \A i \in JobIds : jobs'[i] # None =>
               Fits(jobs'[i]) /\ (jobs'[i].mounted => settings' # None)
      PROVE  TypeInv'
  BY <1>3 DEF AppTypeOK, JobsFit, Places
<1>4. /\ noData \in BOOLEAN /\ isDemo \in BOOLEAN /\ refreshing \in BOOLEAN
      /\ refreshError \in BOOLEAN /\ overlapped \in BOOLEAN /\ missed \in BOOLEAN
      /\ overQuota \in BOOLEAN
  BY DEF AppTypeOK
<1>5. ASSUME NEW j \in JobIds, ReadZip(j)
      PROVE  TypeInv'
  <2>1. jobs[j] # None /\ jobs[j] \in Job /\ jobs[j].step = "read"
    BY <1>0, <1>5 DEF ReadZip
  <2>2. missed' \in BOOLEAN
    BY <1>5 DEF ReadZip
  <2>3. CASE \E z \in Zips \cup {None} : ZipFound(j, z)
    <3>1. PICK z \in Zips \cup {None} : ZipFound(j, z)
      BY <2>3
    <3>2. jobs' \in Places /\ settings' \in View \cup {None} /\ (settings' # None <=> settings # None)
      BY <2>1, <3>1, FoundStep
    <3>3. \A i \in JobIds : jobs'[i] # None =>
            Fits(jobs'[i]) /\ (jobs'[i].mounted => settings' # None)
      BY <2>1, <3>1, <3>2, FoundStep DEF JobsFit, Fits
    <3> QED BY <1>3, <1>4, <1>5, <2>2, <3>2, <3>3 DEF ReadZip, shownVars, AppTypeOK
  <2>4. ASSUME NEW step \in {"upgrade", "clear"}, NEW z \in Zips \cup {None},
               step = "upgrade" => z # None, jobs' = Step(j, step, z), settings' = settings
        PROVE  TypeInv'
    <3>1. \A i \in JobIds : jobs'[i] # None =>
            Fits(jobs'[i]) /\ (jobs'[i].mounted => settings' # None)
      BY <1>0, <2>1, <2>4, NextStep DEF JobsFit, Fits
    <3>2. jobs' \in Places
      BY <1>0, <2>1, <2>4, NextStep
    <3> QED BY <1>3, <1>4, <1>5, <2>2, <2>4, <3>1, <3>2 DEF ReadZip, shownVars, AppTypeOK
  <2>5. kept # None => kept.zip \in Zips /\ kept.zip # None
    BY AppConstants DEF AppConstants, AppTypeOK, Entry
  <2>6. CASE kept # None /\ jobs' = Step(j, "upgrade", kept.zip) /\ settings' = settings
    BY <2>4, <2>5, <2>6
  <2>7. CASE jobs' = Step(j, "clear", None) /\ settings' = settings
    BY <2>4, <2>7
  <2> QED BY <1>5, <2>3, <2>5, <2>6, <2>7 DEF ReadZip
<1>6. ASSUME NEW j \in JobIds, jobs[j] # None, NEW z \in Zips \cup {None}, ZipFound(j, z),
             jobs[j].step \in {"upgrade", "clear"}, kept' \in Entry \cup {None},
             UNCHANGED <<copy, shownVars, reloads, historyVars>>
      PROVE  TypeInv'
  <2>1. jobs' \in Places /\ settings' \in View \cup {None} /\ (settings' # None <=> settings # None)
    BY <1>6, FoundStep
  <2>2. \A i \in JobIds : jobs'[i] # None =>
          Fits(jobs'[i]) /\ (jobs'[i].mounted => settings' # None)
    BY <1>6, <2>1, FoundStep DEF JobsFit, Fits
  <2> QED BY <1>3, <1>4, <1>6, <2>1, <2>2 DEF shownVars, historyVars, AppTypeOK
<1>7. ASSUME NEW j \in JobIds, UpgradeZip(j)
      PROVE  TypeInv'
  <2>1. jobs[j] # None /\ jobs[j].step = "upgrade" /\ jobs[j] \in Job
    BY <1>0, <1>7 DEF UpgradeZip
  <2>2. jobs[j].zip \in Zips
    BY <2>1 DEF JobsFit, Fits, Job
  <2>3. kept' \in Entry \cup {None}
    <3>1. [zip |-> jobs[j].zip, legacy |-> FALSE] \in Entry
      BY <2>2 DEF Entry
    <3> QED BY <1>7, <3>1 DEF UpgradeZip, AppTypeOK
  <2> QED BY <1>6, <1>7, <2>1, <2>2, <2>3 DEF UpgradeZip
<1>8. ASSUME NEW j \in JobIds, DropZip(j)
      PROVE  TypeInv'
  BY <1>6, <1>8 DEF DropZip, AppTypeOK
<1>9. ASSUME NEW t \in Tabs, NEW js \in Places, Shows(t, js),
             \A i \in JobIds : js[i] # None =>
               Fits(js[i]) /\ (js[i].mounted => settings # None),
             kept' \in Entry \cup {None}, copy' \in Zips \cup {None},
             data' \in Reports \cup {"mock", None}, reloads' \in 0..MaxReloads,
             noData' \in BOOLEAN, isDemo' \in BOOLEAN, refreshing' \in BOOLEAN,
             refreshError' \in BOOLEAN, overlapped' \in BOOLEAN, missed' \in BOOLEAN,
             overQuota' \in BOOLEAN
      PROVE  TypeInv'
  <2>1. Fits(Look)
    BY DEF Fits, Look, NewJob
  <2>2. /\ activeTab' \in Tabs /\ settings' \in View \cup {None}
        /\ settings' # None <=> activeTab' = "settings"
        /\ jobs' \in Places
        /\ \A i \in JobIds : Same(js[i], jobs'[i]) \/ (js[i] = None /\ jobs'[i] = Look)
        /\ \A i \in JobIds : jobs'[i] # None /\ jobs'[i].mounted => settings' # None
    BY <1>9, ShownJobs
  <2>3. \A i \in JobIds : jobs'[i] # None => Fits(jobs'[i])
    BY <1>0, <1>9, <2>1, <2>2 DEF Same, Fits
  <2> QED BY <1>9, <2>2, <2>3 DEF AppTypeOK, JobsFit, Places
<1>10. ASSUME NEW j \in JobIds, InitShow(j)
       PROVE  TypeInv'
  <2>1. /\ jobs[j] # None /\ jobs[j] \in Job /\ jobs[j].kind = "init" /\ jobs[j].step = "show"
        /\ jobs[j].zip \in Zips \cup {None} /\ jobs[j].zip # None
    BY <1>0, <1>10 DEF InitShow, At, JobsFit, Fits, Job
  <2> DEFINE next == Step(j, "upload", jobs[j].zip)
  <2>2. /\ next \in Places
        /\ \A i \in JobIds : next[i] # None =>
             Fits(next[i]) /\ (next[i].mounted => settings # None)
    BY <1>0, <2>1, NextStep DEF JobsFit, Fits
  <2> HIDE DEF next
  <2>3. /\ kept' \in Entry \cup {None} /\ copy' \in Zips \cup {None}
        /\ data' \in Reports \cup {"mock", None} /\ reloads' \in 0..MaxReloads
        /\ noData' \in BOOLEAN /\ isDemo' \in BOOLEAN /\ refreshing' \in BOOLEAN
        /\ refreshError' \in BOOLEAN /\ overlapped' \in BOOLEAN /\ missed' \in BOOLEAN
        /\ overQuota' \in BOOLEAN
    BY <1>4, <1>10 DEF InitShow, FetchedData, AppTypeOK, Reports
  <2>4. CASE jobs' = next /\ settings' = settings /\ activeTab' = activeTab
    BY <1>3, <2>2, <2>3, <2>4 DEF AppTypeOK
  <2>5. CASE Shows("settings", next)
    BY <1>9, <2>2, <2>3, <2>5, AppConstants DEF AppConstants, Tabs
  <2> QED BY <1>10, <2>4, <2>5 DEF InitShow, next
\* The job ends.
<1>11. ASSUME NEW j \in JobIds
       PROVE  /\ Ended(j) \in Places
              /\ \A i \in JobIds : Ended(j)[i] # None =>
                   Fits(Ended(j)[i]) /\ (Ended(j)[i].mounted => settings # None)
  BY <1>0, EndedJob DEF JobsFit
<1>12. ASSUME NEW j \in JobIds, jobs[j] # None
       PROVE  jobs[j].zip \in Zips \cup {None}
  BY <1>0, <1>12 DEF Job
<1>13. ASSUME NEW j \in JobIds, Refreshed(j)
       PROVE  TypeInv'
  <2>1. jobs[j].zip \in Zips
    BY <1>12, <1>13 DEF Refreshed, At, JobsFit, Fits
  <2> QED BY <1>3, <1>4, <1>11, <1>13, <2>1 DEF Refreshed, CacheReport, AppTypeOK, Reports
<1>14. ASSUME NEW j \in JobIds, RefreshFailed(j)
       PROVE  TypeInv'
  BY <1>3, <1>4, <1>11, <1>14 DEF RefreshFailed, AppTypeOK
<1>15. ASSUME NEW j \in JobIds, InitFetch(j)
       PROVE  TypeInv'
  BY <1>3, <1>4, <1>11, <1>15 DEF InitFetch, FetchedData, AppTypeOK, Reports
<1>16. ASSUME NEW j \in JobIds, CacheZip(j)
       PROVE  TypeInv'
  <2>1. /\ jobs[j] # None /\ jobs[j].kind = "submit" /\ jobs[j].step = "cache"
        /\ jobs[j].zip \in Zips /\ jobs[j].zip # None
    BY <1>12, <1>16 DEF CacheZip, At, JobsFit, Fits
  <2>2. CASE jobs' = Ended(j) /\ kept' = kept /\ settings' = settings
    BY <1>3, <1>4, <1>11, <1>16, <2>2 DEF CacheZip, shownVars, historyVars, AppTypeOK
  <2>3. CASE /\ kept' = [zip |-> jobs[j].zip, legacy |-> FALSE]
             /\ jobs' = Step(j, "upload", jobs[j].zip)
             /\ ViewGets(j, [settings EXCEPT !.offersKept = TRUE, !.uploading = TRUE])
    <3>1. kept' \in Entry
      BY <2>1, <2>3 DEF Entry
    <3>2. settings # None => [settings EXCEPT !.offersKept = TRUE, !.uploading = TRUE] \in View
      BY DEF AppTypeOK, View
    <3>3. settings' \in View \cup {None} /\ (settings' # None <=> settings # None)
      BY <2>1, <2>3, <3>2, ViewStays DEF JobsFit, AppTypeOK
    <3>4. /\ jobs' \in Places
          /\ \A i \in JobIds : jobs'[i] # None =>
               Fits(jobs'[i]) /\ (jobs'[i].mounted => settings' # None)
      BY <1>0, <2>1, <2>3, <3>3, NextStep DEF JobsFit, Fits
    <3> QED BY <1>3, <1>4, <1>16, <3>1, <3>3, <3>4 DEF CacheZip, shownVars, historyVars, AppTypeOK
  <2> QED BY <1>16, <2>2, <2>3 DEF CacheZip
<1>17. ASSUME NEW j \in JobIds, ZipForgotten(j)
       PROVE  TypeInv'
  <2>1. settings # None => [settings EXCEPT !.offersKept = FALSE] \in View
    BY DEF AppTypeOK, View
  <2>2. settings' \in View \cup {None} /\ (settings' # None <=> settings # None)
    BY <1>17, <2>1, ViewStays DEF ZipForgotten, At, JobsFit, AppTypeOK
  <2> QED BY <1>3, <1>4, <1>11, <1>17, <2>2 DEF ZipForgotten, shownVars, historyVars, AppTypeOK
<1>18. ASSUME NEW j \in JobIds, Imported(j)
       PROVE  TypeInv'
  <2>1. jobs[j].zip \in Zips
    BY <1>12, <1>18 DEF Imported, Uploading, At, JobsFit, Fits
  <2>2. /\ kept' \in Entry \cup {None} /\ copy' \in Zips \cup {None}
        /\ data' \in Reports \cup {"mock", None} /\ reloads' \in 0..MaxReloads
        /\ noData' \in BOOLEAN /\ isDemo' \in BOOLEAN /\ refreshing' \in BOOLEAN
        /\ refreshError' \in BOOLEAN /\ overlapped' \in BOOLEAN /\ missed' \in BOOLEAN
        /\ overQuota' \in BOOLEAN
    BY <1>4, <1>18, <2>1 DEF Imported, OnImported, CacheReport, AppTypeOK, Reports
  <2>3. Shows("overview", Ended(j)) /\ "overview" \in Tabs
    BY <1>18, AppConstants DEF Imported, AppConstants, Tabs
  <2> QED BY <1>9, <1>11, <2>2, <2>3
<1>19. ASSUME NEW j \in JobIds, UploadFailed(j)
       PROVE  TypeInv'
  <2> DEFINE chosen == IF jobs[j].kind = "submit" THEN None ELSE settings.chosen
             view == [settings EXCEPT !.uploading = FALSE, !.chosen = chosen]
  <2>1. settings # None => view \in View
    BY DEF AppTypeOK, View
  <2>2. ViewGets(j, view) /\ jobs[j] # None
    BY <1>19 DEF UploadFailed, Uploading, At
  <2> HIDE DEF view
  <2>3. settings' \in View \cup {None} /\ (settings' # None <=> settings # None)
    BY <2>1, <2>2, ViewStays DEF JobsFit, AppTypeOK
  <2> QED BY <1>3, <1>4, <1>11, <1>19, <2>3 DEF UploadFailed, shownVars, AppTypeOK
<1>20. ASSUME NEW t \in Tabs, GoTo(t)
       PROVE  TypeInv'
  <2>1. /\ kept' \in Entry \cup {None} /\ copy' \in Zips \cup {None}
        /\ data' \in Reports \cup {"mock", None} /\ reloads' \in 0..MaxReloads
        /\ noData' \in BOOLEAN /\ isDemo' \in BOOLEAN /\ refreshing' \in BOOLEAN
        /\ refreshError' \in BOOLEAN /\ overlapped' \in BOOLEAN /\ missed' \in BOOLEAN
        /\ overQuota' \in BOOLEAN
    BY <1>4, <1>20 DEF GoTo, AppTypeOK
  <2> QED BY <1>0, <1>9, <1>20, <2>1 DEF GoTo, JobsFit
<1>21. ASSUME HandleFileChange
       PROVE  TypeInv'
  <2>1. \A file \in Zips \cup {None} :
          settings # None => [settings EXCEPT !.chosen = file, !.uploading = FALSE] \in View
    BY DEF AppTypeOK, View
  <2>2. settings # None /\ settings' \in View
    BY <1>21, <2>1 DEF HandleFileChange
  <2> QED BY <1>0, <1>3, <1>4, <1>21, <2>2
          DEF HandleFileChange, shownVars, historyVars, AppTypeOK, JobsFit
\* The user starts a job.
<1>22. ASSUME NEW job \in Job, Fits(job), settings # None, Begin(job)
       PROVE  TypeInv'
  <2>1. jobs' = Started(jobs, job) /\ Free(jobs) # {}
    BY <1>22 DEF Begin
  <2>2. /\ jobs' \in Places
        /\ \A i \in JobIds : jobs'[i] # None =>
             Fits(jobs'[i]) /\ (jobs'[i].mounted => settings # None)
    BY <1>0, <1>22, <2>1, StartedJob DEF JobsFit
  <2> QED BY <1>3, <1>4, <1>22, <2>2 DEF Begin, shownVars, AppTypeOK
<1>23. ASSUME HandleSubmit \/ HandleReprocess \/ HandleClearZip
       PROVE  TypeInv'
  <2>1. settings # None
    BY <1>23 DEF HandleSubmit, HandleReprocess, HandleClearZip, MaySubmit, MayUseKept
  <2>2. MaySubmit => settings.chosen \in Zips \cup {None} /\ settings.chosen # None
    BY <2>1, <1>0 DEF MaySubmit, AppTypeOK, View
  <2>3. ASSUME NEW kind \in {"submit", "reprocess", "forget"}, NEW step \in {"cache", "read", "clear"},
               NEW zip \in Zips \cup {None},
               \/ kind = "submit" /\ step = "cache" /\ zip # None
               \/ kind = "reprocess" /\ step = "read"
               \/ kind = "forget" /\ step = "clear"
        PROVE  NewJob(kind, step, zip) \in Job /\ Fits(NewJob(kind, step, zip))
    BY <2>3 DEF NewJob, Job, Fits
  <2> QED BY <1>22, <1>23, <2>1, <2>2, <2>3 DEF HandleSubmit, HandleReprocess, HandleClearZip
<1>24. FirstJobs \in Places /\ \A i \in JobIds : FirstJobs[i] # None =>
         Fits(FirstJobs[i]) /\ ~FirstJobs[i].mounted
  BY DEF FirstJobs, Places, NewJob, Job, Fits
<1>25. ASSUME Reload
       PROVE  TypeInv'
  <2>1. /\ kept' \in Entry \cup {None} /\ copy' \in Zips \cup {None}
        /\ data' \in Reports \cup {"mock", None} /\ reloads' \in 0..MaxReloads
        /\ noData' \in BOOLEAN /\ isDemo' \in BOOLEAN /\ refreshing' \in BOOLEAN
        /\ refreshError' \in BOOLEAN /\ overlapped' \in BOOLEAN /\ missed' \in BOOLEAN
        /\ overQuota' \in BOOLEAN /\ activeTab' \in Tabs
    <3>1. reloads' \in 0..MaxReloads
      BY <1>25, AppConstants DEF Reload, AppTypeOK, AppConstants
    <3> QED BY <1>4, <1>25, <3>1 DEF Reload, AppTypeOK
  <2>2. CASE activeTab = "settings"
    <3>1. settings' = BlankView /\ jobs' = Started(FirstJobs, Look) /\ activeTab' = "settings"
      BY <1>25, <2>2 DEF Reload, Look
    <3>2. BlankView \in View /\ Look \in Job /\ Fits(Look)
      BY DEF BlankView, View, Look, NewJob, Job, Fits
    <3>3. Free(FirstJobs) # {}
      <4>1. 2 \in JobIds /\ FirstJobs[2] = None
        BY AppConstants DEF JobIds, AppConstants, FirstJobs
      <4> QED BY <4>1 DEF Free, Busy
    <3>4. /\ jobs' \in Places
          /\ \A i \in JobIds : jobs'[i] # None => Fits(jobs'[i])
      BY <1>24, <3>1, <3>2, <3>3, StartedJob
    <3> QED BY <1>0, <2>1, <3>1, <3>2, <3>4 DEF AppTypeOK, JobsFit, Places
  <2>3. CASE activeTab # "settings"
    <3>1. settings' = None /\ jobs' = FirstJobs /\ activeTab' # "settings"
      BY <1>25, <2>3 DEF Reload
    <3> QED BY <1>24, <2>1, <3>1 DEF AppTypeOK, JobsFit, Places
  <2> QED BY <2>2, <2>3
<1>26. CASE UNCHANGED appVars
  BY <1>26 DEF appVars, shownVars, historyVars, AppTypeOK, JobsFit
<1> QED
  BY <1>5, <1>7, <1>8, <1>10, <1>13, <1>14, <1>15, <1>16, <1>17, <1>18, <1>19, <1>20, <1>21,
     <1>23, <1>25, <1>26 DEF AppNext, JobStep

LEMMA TypeInvInit == AppInit => TypeInv
<1> SUFFICES ASSUME AppInit
             PROVE  TypeInv
  OBVIOUS
<1>1. FirstJobs \in Places /\ \A i \in JobIds : FirstJobs[i] # None =>
        Fits(FirstJobs[i]) /\ ~FirstJobs[i].mounted
  BY DEF FirstJobs, Places, NewJob, Job, Fits
<1>2. JobsFit /\ jobs \in Places
  BY <1>1 DEF AppInit, JobsFit
<1>3. activeTab \in Tabs /\ activeTab # "settings" /\ settings = None
  BY AppConstants DEF AppInit, AppConstants, Tabs
<1>4. reloads \in 0..MaxReloads
  BY AppConstants DEF AppInit, AppConstants
<1> QED BY <1>2, <1>3, <1>4 DEF AppInit, TypeInv, AppTypeOK, Places

LEMMA TypeInvAlways == AppSpec => []TypeInv
BY TypeInvInit, TypeInvStep, PTL DEF AppSpec

\* Every variable stays in its set, and the settings view is there exactly while its
\* tab is shown (App.tsx 391).
THEOREM AppTypeCorrect == AppSpec => []AppTypeOK
BY TypeInvAlways, PTL DEF TypeInv

-----------------------------------------------------------------------------
(* Where a step of a job takes it.                                          *)

\* From the step it was at, with the zip that it found or had.
Onward(old, new) ==
  /\ new.kind = old.kind
  /\ old.step \in {"read", "clear", "upgrade", "show", "cache"}
  /\ \/ new.step = "clear" /\ old.step = "read" /\ missed'
     \/ new.step = "fetch" /\ old.step = "read" /\ kept = None
     \/ new.step = "fetch" /\ old.step = "clear" /\ old.kind = "init"
     \/ /\ new.step \in {"upgrade", "show", "upload"}
        /\ old.step = "read" /\ kept # None /\ new.zip = kept.zip
     \/ new.step = "show" /\ old.step = "upgrade" /\ new.zip = old.zip
     \/ new.step = "upload" /\ old.step \in {"upgrade", "show", "cache"} /\ new.zip = old.zip

LEMMA JobsAfterStep ==
  ASSUME TypeInv, NEW j \in JobIds, JobStep(j)
  PROVE  /\ jobs[j] \in Job
         /\ jobs'[j] = None \/ Onward(jobs[j], jobs'[j])
         /\ \A i \in JobIds \ {j} :
              Same(jobs[i], jobs'[i]) \/ (jobs[i] = None /\ jobs'[i] = Look /\ At(j, "init", "show"))
<1> USE DEF TypeInv
<1>0. jobs \in Places /\ None \notin Job
  BY NoneIsNoRecord DEF AppTypeOK, Places
<1>1. jobs[j] # None
  BY DEF JobStep, ReadZip, UpgradeZip, DropZip, InitShow, Refreshed, RefreshFailed, InitFetch,
         CacheZip, ZipForgotten, Imported, UploadFailed, Uploading, At
<1>2. jobs[j] \in Job /\ Fits(jobs[j])
  BY <1>0, <1>1 DEF Places, JobsFit
<1>3. \A i \in JobIds : Same(jobs[i], jobs[i])
  BY <1>0 DEF Same, Places
<1>4. ASSUME NEW z \in Zips \cup {None}, ZipFound(j, z)
      PROVE  /\ \A i \in JobIds \ {j} : jobs'[i] = jobs[i]
             /\ jobs'[j] # None =>
                  /\ jobs'[j].kind = jobs[j].kind /\ jobs'[j].zip = z
                  /\ \/ jobs[j].kind = "init" /\ jobs'[j].step = "fetch" /\ z = None
                     \/ jobs[j].kind = "init" /\ jobs'[j].step = "show" /\ z # None
                     \/ jobs'[j].step = "upload" /\ z # None
  BY <1>1, <1>4, FoundStep
<1>5. CASE ReadZip(j)
  <2>1. jobs[j].step = "read"
    BY <1>5 DEF ReadZip
  <2>2. CASE kept = None /\ ZipFound(j, None)
    BY <1>2, <1>3, <1>4, <2>1, <2>2 DEF Onward
  <2>3. CASE kept # None /\ ZipFound(j, kept.zip)
    <3>1. kept.zip \in Zips /\ kept.zip # None
      BY <2>3, AppConstants DEF AppConstants, AppTypeOK, Entry
    <3> QED BY <1>2, <1>3, <1>4, <2>1, <2>3, <3>1 DEF Onward
  <2>4. CASE kept # None /\ jobs' = Step(j, "upgrade", kept.zip)
    <3>1. kept.zip \in Zips
      BY <2>4 DEF AppTypeOK, Entry
    <3> QED BY <1>0, <1>1, <1>2, <1>3, <2>1, <2>4, <3>1, NextStep DEF Onward
  <2>5. CASE kept # None /\ jobs' = Step(j, "clear", None)
    <3>1. jobs'[j] \in Job /\ jobs'[j].step = "clear" /\ jobs'[j].kind = jobs[j].kind
      BY <1>0, <1>1, <2>5, NextStep
    <3>2. missed'
      BY <1>0, <1>5, <3>1 DEF ReadZip
    <3> QED BY <1>0, <1>1, <1>2, <1>3, <2>1, <2>5, <3>1, <3>2, NextStep DEF Onward
  <2> QED BY <1>5, <2>2, <2>3, <2>4, <2>5 DEF ReadZip
<1>6. CASE UpgradeZip(j)
  <2>1. jobs[j].zip \in Zips \cup {None} /\ jobs[j].zip # None /\ jobs[j].step = "upgrade"
    BY <1>2, <1>6 DEF UpgradeZip, Job, Fits
  <2> QED BY <1>2, <1>3, <1>4, <1>6, <2>1 DEF UpgradeZip, Onward
<1>7. CASE DropZip(j)
  BY <1>2, <1>3, <1>4, <1>7 DEF DropZip, Onward
<1>8. CASE InitShow(j)
  <2>1. At(j, "init", "show") /\ jobs[j].zip \in Zips \cup {None}
    BY <1>2, <1>8 DEF InitShow, Job
  <2> DEFINE next == Step(j, "upload", jobs[j].zip)
  <2>2. /\ next \in Places
        /\ \A i \in JobIds \ {j} : next[i] = jobs[i]
        /\ next[j] \in Job /\ next[j].kind = jobs[j].kind /\ next[j].step = "upload"
        /\ next[j].zip = jobs[j].zip /\ next[j].mounted = jobs[j].mounted
    BY <1>0, <1>1, <2>1, NextStep
  <2> HIDE DEF next
  <2>3. CASE jobs' = next
    BY <1>2, <1>3, <2>1, <2>2, <2>3 DEF At, Onward
  <2>4. CASE Shows("settings", next)
    <3>1. \A i \in JobIds : next[i] # None /\ next[i].mounted => settings # None
      BY <1>1, <2>2 DEF JobsFit
    <3>2. \A i \in JobIds :
            Same(next[i], jobs'[i]) \/ (next[i] = None /\ jobs'[i] = Look)
      BY <2>2, <2>4, <3>1, ShownJobs, AppConstants DEF AppConstants, Tabs
    <3> QED BY <1>0, <1>2, <2>1, <2>2, <3>2 DEF At, Onward, Same
  <2> QED BY <1>8, <2>3, <2>4 DEF InitShow, next
<1>9. CASE jobs' = Ended(j)
  BY <1>0, <1>2, <1>3, <1>9, EndedJob
<1>10. CASE CacheZip(j)
  <2>1. jobs[j].zip \in Zips \cup {None} /\ jobs[j].step = "cache"
    BY <1>2, <1>10 DEF CacheZip, At, Job
  <2>2. CASE jobs' = Step(j, "upload", jobs[j].zip)
    BY <1>0, <1>1, <1>2, <1>3, <2>1, <2>2, NextStep DEF Onward
  <2> QED BY <1>9, <1>10, <2>2 DEF CacheZip
<1>11. CASE Imported(j)
  <2>1. Ended(j) \in Places /\ Ended(j)[j] = None /\ \A i \in JobIds \ {j} : Ended(j)[i] = jobs[i]
    BY <1>0, EndedJob
  <2>2. \A i \in JobIds : Ended(j)[i] # None /\ Ended(j)[i].mounted => settings # None
    BY <2>1 DEF JobsFit
  <2>3. "overview" \in Tabs /\ "overview" # "settings" /\ Shows("overview", Ended(j))
    BY <1>11, AppConstants DEF Imported, AppConstants, Tabs
  <2>4. \A i \in JobIds : Same(Ended(j)[i], jobs'[i])
    BY <2>1, <2>2, <2>3, ShownJobs
  <2> QED BY <1>0, <1>2, <2>1, <2>4 DEF Same
<1> QED
  BY <1>5, <1>6, <1>7, <1>8, <1>9, <1>10, <1>11
     DEF JobStep, Refreshed, RefreshFailed, InitFetch, ZipForgotten, UploadFailed

-----------------------------------------------------------------------------
(* The badges.                                                              *)

\* A step of a job starts no page and no job of the user's.
LEMMA NoneIsNew ==
  ASSUME TypeInv, NEW j \in JobIds, JobStep(j)
  PROVE  /\ \A i \in JobIds : Is(i, "init")' =>
              Is(i, "init") /\ (jobs'[i].step # "upload" => jobs[i].step # "upload")
         /\ \A i \in JobIds : OfUser(i)' => OfUser(i)
         /\ At(j, "init", "show") \/ \A i \in JobIds : jobs'[i] # None => jobs[i] # None
<1>1. None \notin Job /\ Look.kind = "look"
  BY NoneIsNoRecord DEF Look, NewJob
<1> QED BY <1>1, JobsAfterStep DEF Is, OfUser, Onward, Same

\* What a click or a reload does to the jobs.
LEMMA JobsAfterClick ==
  ASSUME TypeInv, AppNext, ~\E j \in JobIds : JobStep(j)
  PROVE  \/ /\ UNCHANGED <<data, noData, isDemo, kept, copy, missed, overQuota>>
            /\ overlapped => overlapped'
            /\ \A i \in JobIds : Same(jobs[i], jobs'[i]) \/ (jobs[i] = None /\ jobs'[i] = Look)
            /\ \A i, k \in JobIds : ~overlapped' /\ OfUser(k) /\ jobs[i] = None => jobs'[i] = None
         \/ /\ UNCHANGED <<data, noData, isDemo, kept, copy, missed, overQuota>>
            /\ overlapped => overlapped'
            /\ ~overlapped' => \A i \in JobIds : jobs[i] = None
            /\ \E k \in JobIds :
                 /\ jobs[k] = None /\ jobs'[k] \in Job
                 /\ jobs'[k].kind \in {"submit", "reprocess", "forget"}
                 /\ jobs'[k].step \in {"cache", "read", "clear"}
                 /\ jobs'[k].step = "clear" => jobs'[k].kind = "forget"
                 /\ \A i \in JobIds \ {k} : Same(jobs[i], jobs'[i])
         \/ /\ data' = None /\ noData' = FALSE /\ isDemo' = FALSE /\ UNCHANGED overQuota
            /\ \A i \in JobIds : jobs'[i] \in {NewJob("init", "read", None), Look, None}
            /\ \A i, k \in JobIds : Is(i, "init")' /\ Is(k, "init")' => i = k
<1> USE DEF TypeInv
<1>0. jobs \in Places /\ None \notin Job /\ \A i \in JobIds : Same(jobs[i], jobs[i])
  BY NoneIsNoRecord DEF AppTypeOK, Places, Same
<1>1. ASSUME NEW t \in Tabs, GoTo(t)
      PROVE  /\ UNCHANGED <<data, noData, isDemo, kept, copy, missed, overQuota>>
             /\ overlapped => overlapped'
             /\ \A i \in JobIds : Same(jobs[i], jobs'[i]) \/ (jobs[i] = None /\ jobs'[i] = Look)
             /\ \A i, k \in JobIds : ~overlapped' /\ OfUser(k) /\ jobs[i] = None => jobs'[i] = None
  <2>1. \A i \in JobIds :
          Same(jobs[i], jobs'[i]) \/ (jobs[i] = None /\ jobs'[i] = Look /\ t = "settings")
    BY <1>0, <1>1, ShownJobs DEF GoTo, JobsFit
  <2>2. ~overlapped' /\ t = "settings" => \A k \in JobIds : ~OfUser(k)
    BY <1>1 DEF GoTo, Busy, OfUser
  <2> QED BY <1>0, <1>1, <2>1, <2>2 DEF GoTo, Same
<1>2. CASE HandleFileChange
  BY <1>0, <1>2 DEF HandleFileChange, shownVars, historyVars
<1>3. ASSUME NEW job \in Job, Begin(job)
      PROVE  /\ UNCHANGED <<data, noData, isDemo, kept, copy, missed, overQuota>>
             /\ overlapped => overlapped'
             /\ ~overlapped' => \A i \in JobIds : jobs[i] = None
             /\ \E k \in JobIds :
                  jobs[k] = None /\ jobs'[k] = job /\ \A i \in JobIds \ {k} : Same(jobs[i], jobs'[i])
  <2>1. PICK k \in JobIds : jobs[k] = None /\ jobs'[k] = job
                            /\ \A i \in JobIds \ {k} : jobs'[i] = jobs[i]
    BY <1>0, <1>3, StartedJob DEF Begin
  <2> QED BY <1>0, <1>3, <2>1 DEF Begin, shownVars, Busy
<1>4. ASSUME HandleSubmit \/ HandleReprocess \/ HandleClearZip
      PROVE  \E kind \in {"submit", "reprocess", "forget"}, step \in {"cache", "read", "clear"},
                zip \in Zips \cup {None} :
               /\ step = "clear" => kind = "forget"
               /\ Begin(NewJob(kind, step, zip))
  <2>1. MaySubmit => settings.chosen \in Zips \cup {None}
    BY NoneIsNoRecord DEF MaySubmit, AppTypeOK, View
  <2> QED BY <1>4, <2>1 DEF HandleSubmit, HandleReprocess, HandleClearZip
<1>5. CASE HandleSubmit \/ HandleReprocess \/ HandleClearZip
  <2>1. PICK kind \in {"submit", "reprocess", "forget"}, step \in {"cache", "read", "clear"},
             zip \in Zips \cup {None} :
               (step = "clear" => kind = "forget") /\ Begin(NewJob(kind, step, zip))
    BY <1>4, <1>5
  <2>2. /\ NewJob(kind, step, zip) \in Job
        /\ NewJob(kind, step, zip).kind = kind /\ NewJob(kind, step, zip).step = step
    BY DEF NewJob, Job
  <2> QED BY <1>3, <2>1, <2>2
<1>6. CASE Reload
  <2>1. /\ FirstJobs \in Places
        /\ \A i \in JobIds : FirstJobs[i] = IF i = 1 THEN NewJob("init", "read", None) ELSE None
    BY DEF FirstJobs, Places, NewJob, Job
  <2>2. Look \in Job /\ Look.kind = "look" /\ NewJob("init", "read", None).kind = "init"
    BY DEF Look, NewJob, Job
  <2>3. CASE jobs' = FirstJobs
    BY <1>6, <2>1, <2>3 DEF Reload, Is
  <2>4. CASE jobs' = Started(FirstJobs, Look)
    <3>1. Free(FirstJobs) # {}
      <4>1. 2 \in JobIds /\ FirstJobs[2] = None
        BY AppConstants DEF JobIds, AppConstants, FirstJobs
      <4> QED BY <4>1 DEF Free, Busy
    <3>2. PICK k \in JobIds : /\ FirstJobs[k] = None /\ jobs'[k] = Look
                              /\ \A i \in JobIds \ {k} : jobs'[i] = FirstJobs[i]
      BY <2>1, <2>2, <2>4, <3>1, StartedJob
    <3> QED BY <1>6, <2>1, <2>2, <3>2 DEF Reload, Is
  <2> QED BY <1>6, <2>3, <2>4 DEF Reload, Look
<1> QED BY <1>1, <1>2, <1>5, <1>6 DEF AppNext

LEMMA StartInvInit == AppInit => StartInv /\ AloneInv
<1> SUFFICES ASSUME AppInit
             PROVE  StartInv /\ AloneInv
  OBVIOUS
<1>1. \A i \in JobIds : jobs[i] = IF i = 1 THEN NewJob("init", "read", None) ELSE None
  BY DEF AppInit, FirstJobs
<1>2. NewJob("init", "read", None).kind = "init"
  BY DEF NewJob
<1>3. None # "mock"
  BY AppConstants DEF AppConstants
<1> QED BY <1>1, <1>2, <1>3 DEF AppInit, StartInv, AloneInv, Is, OfUser

LEMMA StartInvStep == TypeInv /\ StartInv /\ [AppNext]_appVars => StartInv'
<1> SUFFICES ASSUME TypeInv, StartInv, [AppNext]_appVars
             PROVE  StartInv'
  OBVIOUS
<1>1. None # "mock" /\ "file" # "mock" /\ "mock" \notin Zips
  BY AppConstants DEF AppConstants
<1>2. ASSUME NEW j \in JobIds, JobStep(j)
      PROVE  StartInv'
  <2>1. \A i \in JobIds : Is(i, "init")' =>
          Is(i, "init") /\ (jobs'[i].step # "upload" => jobs[i].step # "upload")
    BY <1>2, NoneIsNew
  <2>2. \A i, k \in JobIds : Is(i, "init")' /\ Is(k, "init")' => i = k
    BY <2>1 DEF StartInv
  <2>3. CASE UNCHANGED <<data, noData, isDemo>>
    BY <2>1, <2>2, <2>3 DEF StartInv, Is
  <2>4. CASE InitShow(j)
    <3>1. Is(j, "init") /\ jobs[j].step = "show" /\ jobs[j] # None /\ jobs[j] \in Job
      BY <2>4, <1>2, JobsAfterStep DEF InitShow, At, Is
    <3>2. Is(j, "init")' => jobs'[j].step = "upload"
      BY <1>2, <3>1, JobsAfterStep DEF Onward, Is
    <3>3. ~isDemo /\ ~noData /\ isDemo' = isDemo
      BY <2>4, <3>1 DEF InitShow, StartInv
    <3>4. \A i \in JobIds : Is(i, "init")' /\ jobs'[i].step # "upload" => FALSE
      BY <2>1, <3>1, <3>2 DEF StartInv
    <3>5. data' # "mock"
      <4>1. data # "mock" /\ copy # "mock"
        BY <1>1, <3>3 DEF StartInv, TypeInv, AppTypeOK
      <4> QED BY <1>1, <2>4, <4>1 DEF InitShow, FetchedData
    <3> QED BY <2>1, <2>2, <3>3, <3>4, <3>5 DEF StartInv
  <2>5. CASE Refreshed(j) \/ Imported(j)
    <3>1. data' = jobs[j].zip /\ noData' = FALSE /\ isDemo' \in {isDemo, FALSE}
      BY <2>5 DEF Refreshed, Imported, OnImported
    <3>2. data' # "mock"
      BY <1>1, <1>2, <3>1, JobsAfterStep DEF Job
    <3>3. isDemo' = FALSE
      BY <2>5 DEF Refreshed, Imported, OnImported, StartInv, Is, At
    <3> QED BY <2>2, <3>1, <3>2, <3>3 DEF StartInv
  <2>6. CASE InitFetch(j)
    <3>1. Is(j, "init") /\ jobs'[j] = None /\ noData' = noData
      BY <2>6 DEF InitFetch, At, Is, Ended, TypeInv, AppTypeOK
    <3>2. \A i \in JobIds : ~Is(i, "init")'
      BY <2>1, <3>1 DEF StartInv, Is
    <3>3. ~isDemo /\ copy # "mock"
      BY <1>1, <3>1 DEF StartInv, TypeInv, AppTypeOK
    <3>4. isDemo' <=> data' = "mock"
      BY <1>1, <2>6, <3>3 DEF InitFetch, FetchedData
    <3> QED BY <3>2, <3>4 DEF StartInv
  <2> QED
    BY <1>2, <2>3, <2>4, <2>5, <2>6
       DEF JobStep, ReadZip, UpgradeZip, DropZip, RefreshFailed, CacheZip, ZipForgotten,
           UploadFailed, shownVars
<1>3. ASSUME AppNext, ~\E j \in JobIds : JobStep(j)
      PROVE  StartInv'
  <2>1. /\ \A i, k \in JobIds : Is(i, "init")' /\ Is(k, "init")' => i = k
        /\ \/ UNCHANGED <<data, noData, isDemo>>
              /\ \A i \in JobIds : Is(i, "init")' => Is(i, "init") /\ jobs'[i].step = jobs[i].step
           \/ data' = None /\ noData' = FALSE /\ isDemo' = FALSE
    <3>1. None \notin Job /\ Look.kind = "look"
      BY NoneIsNoRecord DEF Look, NewJob
    <3> QED BY <1>3, <3>1, JobsAfterClick DEF Is, Same, StartInv
  <2> QED BY <1>1, <2>1 DEF StartInv
<1>4. CASE UNCHANGED appVars
  BY <1>4 DEF appVars, shownVars, StartInv, Is
<1> QED BY <1>2, <1>3, <1>4

LEMMA AloneInvStep == TypeInv /\ StartInv /\ AloneInv /\ [AppNext]_appVars => AloneInv'
<1> SUFFICES ASSUME TypeInv, StartInv, AloneInv, [AppNext]_appVars, ~overlapped'
             PROVE  /\ \A i, j \in JobIds : OfUser(j)' /\ jobs'[i] # None => i = j
                    /\ \A j \in JobIds : Is(j, "init")' /\ jobs'[j].step # "upload" => data' = None
                    /\ noData' => data' = None
  BY DEF AloneInv
<1>0. None \notin Job /\ Look.kind = "look"
  BY NoneIsNoRecord DEF Look, NewJob
<1>1. ASSUME NEW j \in JobIds, JobStep(j)
      PROVE  /\ \A i, k \in JobIds : OfUser(k)' /\ jobs'[i] # None => i = k
             /\ \A i \in JobIds : Is(i, "init")' /\ jobs'[i].step # "upload" => data' = None
             /\ noData' => data' = None
  <2>1. ~overlapped
    BY <1>1 DEF JobStep, ReadZip, UpgradeZip, DropZip, InitShow, Refreshed, RefreshFailed, InitFetch,
                CacheZip, ZipForgotten, Imported, UploadFailed, historyVars
  <2>2. jobs[j] # None
    BY <1>0, <1>1, JobsAfterStep
  <2>3. \A i, k \in JobIds : OfUser(k)' /\ jobs'[i] # None => i = k
    <3> SUFFICES ASSUME NEW i \in JobIds, NEW k \in JobIds, OfUser(k)', jobs'[i] # None
                 PROVE  i = k
      OBVIOUS
    <3>1. OfUser(k)
      BY <1>1, NoneIsNew
    <3>2. k = j
      BY <2>1, <2>2, <3>1 DEF AloneInv
    <3>3. ~At(j, "init", "show")
      BY <3>1, <3>2 DEF OfUser, At
    <3>4. jobs[i] # None
      BY <1>1, <3>3, NoneIsNew
    <3> QED BY <2>1, <3>1, <3>4 DEF AloneInv
  <2>4. \A i \in JobIds : Is(i, "init")' =>
          Is(i, "init") /\ (jobs'[i].step # "upload" => jobs[i].step # "upload")
    BY <1>1, NoneIsNew
  <2>5. CASE data' = data /\ noData' = noData
    BY <2>1, <2>3, <2>4, <2>5 DEF AloneInv
  <2>6. CASE InitShow(j)
    <3>1. Is(j, "init") /\ jobs[j].step = "show" /\ jobs[j] # None
      BY <2>6 DEF InitShow, At, Is
    <3>2. Is(j, "init")' => jobs'[j].step = "upload"
      BY <1>1, <3>1, JobsAfterStep DEF Onward, Is
    <3>3. ~noData /\ data = None
      BY <2>1, <3>1 DEF StartInv, AloneInv
    <3>4. noData' => data' = None
      BY <2>6, <3>3 DEF InitShow
    <3>5. \A i \in JobIds : Is(i, "init")' => i = j
      BY <2>4, <3>1 DEF StartInv
    <3> QED BY <2>3, <3>2, <3>4, <3>5
  <2>7. CASE Refreshed(j) \/ Imported(j)
    <3>1. ~noData'
      BY <2>7 DEF Refreshed, Imported, OnImported
    <3>2. jobs[j].step = "upload" /\ (Is(j, "init") \/ OfUser(j))
      BY <2>7 DEF Refreshed, Imported, Uploading, At, Is, OfUser
    <3>3. \A i \in JobIds : ~(Is(i, "init")' /\ jobs'[i].step # "upload")
      BY <2>1, <2>4, <3>2 DEF StartInv, AloneInv, Is, OfUser
    <3> QED BY <2>3, <3>1, <3>3
  <2>8. CASE InitFetch(j)
    <3>1. Is(j, "init") /\ jobs'[j] = None /\ jobs[j].step = "fetch" /\ noData' = noData
      BY <2>8 DEF InitFetch, At, Is, Ended, TypeInv, AppTypeOK
    <3>2. \A i \in JobIds : ~Is(i, "init")'
      BY <2>4, <3>1 DEF StartInv, Is
    <3>3. ~noData
      BY <3>1 DEF StartInv
    <3> QED BY <2>3, <3>1, <3>2, <3>3
  <2> QED
    BY <1>1, <2>5, <2>6, <2>7, <2>8
       DEF JobStep, ReadZip, UpgradeZip, DropZip, RefreshFailed, CacheZip, ZipForgotten,
           UploadFailed, shownVars
<1>2. ASSUME AppNext, ~\E j \in JobIds : JobStep(j)
      PROVE  /\ \A i, k \in JobIds : OfUser(k)' /\ jobs'[i] # None => i = k
             /\ \A i \in JobIds : Is(i, "init")' /\ jobs'[i].step # "upload" => data' = None
             /\ noData' => data' = None
  <2>1. NewJob("init", "read", None).kind = "init"
    BY DEF NewJob
  <2>2. CASE /\ UNCHANGED <<data, noData>> /\ ~overlapped
             /\ \A i \in JobIds : Same(jobs[i], jobs'[i]) \/ (jobs[i] = None /\ jobs'[i] = Look)
             /\ \A i, k \in JobIds : ~overlapped' /\ OfUser(k) /\ jobs[i] = None => jobs'[i] = None
    <3>1. \A i \in JobIds : (OfUser(i)' => OfUser(i)) /\ (Is(i, "init")' => Is(i, "init") /\ jobs'[i].step = jobs[i].step)
      BY <1>0, <2>2 DEF OfUser, Is, Same
    <3>2. \A i, k \in JobIds : OfUser(k)' /\ jobs'[i] # None => i = k
      BY <2>2, <3>1 DEF AloneInv
    <3> QED BY <2>2, <3>1, <3>2 DEF AloneInv
  <2>3. CASE /\ UNCHANGED <<data, noData>> /\ ~overlapped
             /\ \A i \in JobIds : jobs[i] = None
             /\ \E k \in JobIds :
                  /\ jobs'[k] \in Job /\ jobs'[k].kind \in {"submit", "reprocess", "forget"}
                  /\ \A i \in JobIds \ {k} : Same(jobs[i], jobs'[i])
    <3>1. PICK k \in JobIds : /\ jobs'[k].kind \in {"submit", "reprocess", "forget"}
                              /\ \A i \in JobIds \ {k} : jobs'[i] = None
      BY <1>0, <2>3 DEF Same
    <3>2. \A i \in JobIds : ~Is(i, "init")'
      BY <3>1 DEF Is
    <3>3. noData' => data' = None
      BY <2>3 DEF AloneInv
    <3> QED BY <3>1, <3>2, <3>3 DEF OfUser
  <2>4. CASE /\ data' = None /\ noData' = FALSE
             /\ \A i \in JobIds : jobs'[i] \in {NewJob("init", "read", None), Look, None}
    BY <1>0, <2>1, <2>4 DEF OfUser
  <2> QED BY <1>2, <2>2, <2>3, <2>4, JobsAfterClick
<1>3. CASE UNCHANGED appVars
  BY <1>3 DEF appVars, shownVars, historyVars, AloneInv, Is, OfUser
<1> QED BY <1>1, <1>2, <1>3

LEMMA AloneInvAlways == AppSpec => [](TypeInv /\ StartInv /\ AloneInv)
BY TypeInvInit, TypeInvStep, StartInvInit, StartInvStep, AloneInvStep, PTL DEF AppSpec

\* The DEMO badge is shown exactly over the sample, whatever the tabs and however many
\* jobs there are (App.tsx 97-98, 237, 394).
THEOREM DemoAlwaysIffMock == AppSpec => []DemoIffMock
<1>1. StartInv => DemoIffMock
  BY DEF StartInv, DemoIffMock, Header
<1> QED BY <1>1, AloneInvAlways, PTL

\* "No data yet" is never said over a report, unless an import overlapped with the
\* start of the page (App.tsx 68-78, SettingsView.tsx 175).
THEOREM NoDataAlwaysMeansNone == AppSpec => []NoDataMeansNone
<1>1. AloneInv => NoDataMeansNone
  BY DEF AloneInv, NoDataMeansNone
<1> QED BY <1>1, AloneInvAlways, PTL

-----------------------------------------------------------------------------
(* The copy, and the kept zip.                                              *)

\* A report that was computed here and is on screen is the one a reload falls back to
\* (portfolioService.ts 162-178, App.tsx 71-83), unless the browser refused to store it.
THEOREM CopyIsAlwaysShown == AppSpec => []CopyIsShown
<1>1. AppInit => CopyIsShown
  BY AppConstants DEF AppInit, CopyIsShown, AppConstants
<1>2. TypeInv /\ CopyIsShown /\ [AppNext]_appVars => CopyIsShown'
  <2> SUFFICES ASSUME TypeInv, CopyIsShown, [AppNext]_appVars
               PROVE  CopyIsShown'
    OBVIOUS
  <2>1. None \notin Zips /\ "file" \notin Zips /\ "mock" \notin Zips
    BY AppConstants DEF AppConstants
  <2>2. CASE UNCHANGED <<data, copy, overQuota>>
    BY <2>2 DEF CopyIsShown
  <2>3. ASSUME NEW j \in JobIds, JobStep(j)
        PROVE  CopyIsShown'
    <3>1. CASE InitShow(j)
      BY <2>1, <3>1 DEF InitShow, FetchedData, CopyIsShown
    <3>2. CASE Refreshed(j) \/ Imported(j)
      <4>1. data' = jobs[j].zip /\ CacheReport(jobs[j].zip)
        BY <3>2 DEF Refreshed, Imported, OnImported
      <4> QED BY <4>1 DEF CacheReport, CopyIsShown
    <3>3. CASE InitFetch(j)
      BY <2>1, <3>3 DEF InitFetch, FetchedData, CopyIsShown
    <3> QED
      BY <2>2, <2>3, <3>1, <3>2, <3>3
         DEF JobStep, ReadZip, UpgradeZip, DropZip, RefreshFailed, CacheZip, ZipForgotten,
             UploadFailed, shownVars, historyVars
  <2>4. CASE Reload
    BY <2>1, <2>4 DEF Reload, CopyIsShown
  <2> QED
    BY <2>2, <2>3, <2>4
       DEF AppNext, GoTo, HandleFileChange, HandleSubmit, HandleReprocess, HandleClearZip, Begin,
           appVars, shownVars, historyVars
<1> QED BY <1>1, <1>2, TypeInvAlways, PTL DEF AppSpec

\* The report that init shows is followed by an upload.
LEMMA ShowGoesOn ==
  ASSUME TypeInv, NEW j \in JobIds, InitShow(j)
  PROVE  jobs'[j] # None /\ jobs'[j].step = "upload"
<1> USE DEF TypeInv
<1>1. /\ jobs[j] # None /\ jobs[j].zip \in Zips \cup {None} /\ jobs \in Places
      /\ None \notin Job /\ jobs[j].step = "show"
  BY NoneIsNoRecord DEF InitShow, At, AppTypeOK, Places, Job
<1> DEFINE next == Step(j, "upload", jobs[j].zip)
<1>2. /\ next \in Places
      /\ \A i \in JobIds \ {j} : next[i] = jobs[i]
      /\ next[j] \in Job /\ next[j].step = "upload" /\ next[j].mounted = jobs[j].mounted
  BY <1>1, NextStep
<1> HIDE DEF next
<1>3. CASE jobs' = next
  BY <1>1, <1>2, <1>3
<1>4. CASE Shows("settings", next)
  <2>1. \A i \in JobIds : next[i] # None /\ next[i].mounted => settings # None
    BY <1>1, <1>2 DEF JobsFit
  <2>2. Same(next[j], jobs'[j])
    BY <1>1, <1>2, <1>4, <2>1, ShownJobs, AppConstants DEF AppConstants, Tabs
  <2> QED BY <1>1, <1>2, <2>2 DEF Same
<1> QED BY <1>3, <1>4 DEF InitShow, next

LEMMA KeptInvStep ==
  TypeInv /\ StartInv /\ AloneInv /\ KeptInv /\ [AppNext]_appVars => KeptInv'
<1> SUFFICES ASSUME TypeInv, StartInv, AloneInv, KeptInv, [AppNext]_appVars
             PROVE  KeptInv'
  OBVIOUS
<1>0. None \notin Job /\ Look.kind = "look" /\ Look.step = "read" /\ None \notin Zips
  BY NoneIsNoRecord, AppConstants DEF Look, NewJob, AppConstants
<1>1. ASSUME NEW j \in JobIds, JobStep(j)
      PROVE  KeptInv'
  <2>1. missed => missed'
    BY <1>1 DEF JobStep, ReadZip, UpgradeZip, DropZip, InitShow, Refreshed, RefreshFailed, InitFetch,
                CacheZip, ZipForgotten, Imported, UploadFailed, historyVars
  <2>2. \A i \in JobIds : jobs'[i] # None /\ jobs'[i].step = "clear" /\ jobs'[i].kind # "forget" => missed'
    <3>1. jobs'[j] # None /\ jobs'[j].step = "clear" => missed'
      BY <1>1, JobsAfterStep DEF Onward
    <3>2. \A i \in JobIds \ {j} :
            jobs'[i] # None /\ jobs'[i].step = "clear" /\ jobs'[i].kind # "forget" => missed'
      BY <1>0, <1>1, <2>1, JobsAfterStep DEF Same, KeptInv
    <3> QED BY <3>1, <3>2
  <2>3. ASSUME ~overlapped', ~missed'
        PROVE  KeptFits'
    <3>1. ~overlapped /\ ~missed /\ KeptFits
      <4>1. ~overlapped
        BY <1>1, <2>3
           DEF JobStep, ReadZip, UpgradeZip, DropZip, InitShow, Refreshed, RefreshFailed, InitFetch,
               CacheZip, ZipForgotten, Imported, UploadFailed, historyVars
      <4> QED BY <2>1, <2>3, <4>1 DEF KeptInv
    <3>2. jobs[j] # None /\ jobs[j] \in Job /\ Fits(jobs[j])
      BY <1>0, <1>1, JobsAfterStep DEF TypeInv, JobsFit
    <3>3. CASE /\ At(j, "submit", "cache") \/ At(j, "forget", "clear")
               /\ CacheZip(j) \/ ZipForgotten(j)
      <4>1. OfUser(j) /\ ~At(j, "init", "show")
        BY <3>3 DEF OfUser, At
      <4>2. \A i \in JobIds \ {j} : jobs[i] = None /\ jobs'[i] = None
        BY <1>0, <1>1, <3>1, <4>1, JobsAfterStep DEF AloneInv, Same
      <4>3. data' = data /\ jobs[j].step # "upload"
        BY <3>3 DEF CacheZip, ZipForgotten, shownVars, At
      <4>4. CASE jobs'[j] = None /\ kept' \in {None, kept}
        BY <3>1, <4>2, <4>3, <4>4 DEF KeptFits, Is
      <4>5. CASE /\ CacheZip(j) /\ kept' = [zip |-> jobs[j].zip, legacy |-> FALSE]
                 /\ jobs' = Step(j, "upload", jobs[j].zip)
        <5>1. jobs'[j] \in Job /\ jobs'[j].step = "upload" /\ jobs'[j].zip = jobs[j].zip
          BY <3>2, <4>5, NextStep DEF TypeInv, AppTypeOK, Places, Job
        <5>2. jobs[j].zip \in Zips
          BY <3>2, <4>5 DEF CacheZip, At, Fits, Job
        <5>3. kept' \in Entry
          BY <4>5, <5>2 DEF Entry
        <5>4. kept' # None /\ kept'.zip = jobs[j].zip
          BY <4>5, <5>3, NoneIsNoRecord
        <5> QED BY <1>0, <4>2, <5>1, <5>4 DEF KeptFits, Is
      <4> QED BY <3>3, <4>4, <4>5 DEF CacheZip, ZipForgotten, Ended, TypeInv, AppTypeOK
    <3>4. CASE ~(CacheZip(j) \/ ZipForgotten(j))
      <4>1. jobs[j].step # "cache" /\ ~(jobs[j].step = "clear")
        BY <1>1, <3>1, <3>2, <3>4
           DEF JobStep, ReadZip, UpgradeZip, DropZip, InitShow, Refreshed, RefreshFailed, InitFetch,
               Imported, UploadFailed, Uploading, At, KeptInv
      <4>2. kept' = kept \/ (kept # None /\ kept' # None /\ kept'.zip = kept.zip)
        <5>1. CASE UpgradeZip(j)
          <6>1. kept # None /\ jobs[j].zip = kept.zip
            BY <3>1, <5>1 DEF UpgradeZip, KeptFits
          <6>2. [zip |-> jobs[j].zip, legacy |-> FALSE] # None
            <7>1. kept.zip \in Zips
              BY <6>1 DEF TypeInv, AppTypeOK, Entry
            <7>2. [zip |-> jobs[j].zip, legacy |-> FALSE] \in Entry
              BY <6>1, <7>1 DEF Entry
            <7> QED BY <7>2, NoneIsNoRecord
          <6> QED BY <5>1, <6>1, <6>2 DEF UpgradeZip
        <5> QED
          BY <1>1, <3>4, <4>1, <5>1
             DEF JobStep, ReadZip, DropZip, InitShow, Refreshed, RefreshFailed, InitFetch,
                 Imported, UploadFailed
      <4>3. \A i \in JobIds : jobs'[i] # None /\ jobs'[i].step \in {"upgrade", "show", "upload"} =>
              kept' # None /\ jobs'[i].zip = kept'.zip
        <5>1. jobs'[j] # None /\ jobs'[j].step \in {"upgrade", "show", "upload"} =>
                kept # None /\ jobs'[j].zip = kept.zip
          BY <1>1, <3>1, <3>2, <4>1, JobsAfterStep DEF Onward, KeptFits
        <5>2. \A i \in JobIds \ {j} :
                jobs'[i] # None /\ jobs'[i].step \in {"upgrade", "show", "upload"} =>
                  kept # None /\ jobs'[i].zip = kept.zip
          BY <1>0, <1>1, <3>1, JobsAfterStep DEF Same, KeptFits
        <5> QED BY <4>2, <5>1, <5>2
      <4>4. \A i \in JobIds : Is(i, "init")' /\ jobs'[i].step = "fetch" => kept' = None
        <5>1. Is(j, "init")' /\ jobs'[j].step = "fetch" => kept = None
          BY <1>1, <4>1, JobsAfterStep DEF Onward, Is
        <5>2. \A i \in JobIds \ {j} : Is(i, "init")' /\ jobs'[i].step = "fetch" => kept = None
          BY <1>0, <1>1, <3>1, JobsAfterStep DEF Same, KeptFits, Is
        <5> QED BY <4>2, <5>1, <5>2
      <4>5. ASSUME data' \in Zips, kept' # None,
                   \A i \in JobIds : jobs'[i] # None => jobs'[i].step # "upload"
            PROVE  data' = kept'.zip
        <5>1. \A i \in JobIds \ {j} : jobs[i] # None => jobs[i].step # "upload"
          BY <1>0, <1>1, <4>5, JobsAfterStep DEF Same
        <5>2. CASE data' = data /\ jobs[j].step # "upload"
          BY <3>1, <4>2, <4>5, <5>1, <5>2 DEF KeptFits
        <5>3. CASE Refreshed(j) \/ Imported(j)
          <6>1. data' = jobs[j].zip /\ jobs[j].step = "upload"
            BY <5>3 DEF Refreshed, Imported, OnImported, Uploading, At
          <6> QED BY <3>1, <3>2, <4>2, <6>1 DEF KeptFits
        <5>4. CASE InitFetch(j)
          BY <3>1, <4>2, <4>5, <5>4 DEF InitFetch, At, Is, KeptFits
        <5>5. ~InitShow(j)
          BY <4>5, ShowGoesOn
        <5>6. ~RefreshFailed(j) /\ ~UploadFailed(j)
          BY <2>3 DEF RefreshFailed, UploadFailed
        <5> QED
          BY <1>1, <3>4, <5>2, <5>3, <5>4, <5>5, <5>6
             DEF JobStep, ReadZip, UpgradeZip, DropZip, shownVars
      <4> QED BY <4>3, <4>4, <4>5 DEF KeptFits, Is
    <3> QED BY <3>3, <3>4 DEF CacheZip, ZipForgotten
  <2> QED BY <2>2, <2>3 DEF KeptInv
<1>2. ASSUME AppNext, ~\E j \in JobIds : JobStep(j)
      PROVE  KeptInv'
  <2>1. CASE /\ UNCHANGED <<data, kept, missed>> /\ (overlapped => overlapped')
             /\ \A i \in JobIds : Same(jobs[i], jobs'[i]) \/ (jobs[i] = None /\ jobs'[i] = Look)
    <3>1. \A i \in JobIds : jobs'[i] # None =>
            \/ jobs'[i].step = "read"
            \/ /\ jobs[i] # None /\ jobs'[i].step = jobs[i].step
               /\ jobs'[i].kind = jobs[i].kind /\ jobs'[i].zip = jobs[i].zip
      BY <1>0, <2>1 DEF Same
    <3>2. \A i \in JobIds : jobs[i] # None /\ jobs[i].step = "upload" =>
            jobs'[i] # None /\ jobs'[i].step = "upload"
      BY <1>0, <2>1 DEF Same
    <3>3. KeptFits => KeptFits'
      BY <2>1, <3>1, <3>2 DEF KeptFits, Is
    <3> QED BY <2>1, <3>1, <3>3 DEF KeptInv
  <2>2. CASE /\ UNCHANGED <<data, kept, missed>> /\ (overlapped => overlapped')
             /\ ~overlapped' => \A i \in JobIds : jobs[i] = None
             /\ \E k \in JobIds :
                  /\ jobs'[k] \in Job
                  /\ jobs'[k].step \in {"cache", "read", "clear"}
                  /\ jobs'[k].step = "clear" => jobs'[k].kind = "forget"
                  /\ \A i \in JobIds \ {k} : Same(jobs[i], jobs'[i])
    <3>1. PICK k \in JobIds : /\ jobs'[k] \in Job
                              /\ jobs'[k].step \in {"cache", "read", "clear"}
                              /\ jobs'[k].step = "clear" => jobs'[k].kind = "forget"
                              /\ \A i \in JobIds \ {k} : Same(jobs[i], jobs'[i])
      BY <2>2
    <3>2. \A i \in JobIds : jobs'[i] # None /\ jobs'[i].step = "clear" /\ jobs'[i].kind # "forget" => missed'
      BY <1>0, <2>2, <3>1 DEF KeptInv, Same
    <3>3. ASSUME ~overlapped', ~missed'
          PROVE  KeptFits'
      <4>1. KeptFits /\ \A i \in JobIds : jobs[i] = None
        BY <2>2, <3>3 DEF KeptInv
      <4>2. \A i \in JobIds \ {k} : jobs'[i] = None
        BY <1>0, <3>1, <4>1 DEF Same
      <4> QED BY <2>2, <3>1, <4>1, <4>2 DEF KeptFits, Is
    <3> QED BY <3>2, <3>3 DEF KeptInv
  <2>3. CASE /\ data' = None
             /\ \A i \in JobIds : jobs'[i] \in {NewJob("init", "read", None), Look, None}
    <3>1. \A i \in JobIds : jobs'[i] # None => jobs'[i].step = "read"
      BY <1>0, <2>3 DEF NewJob
    <3> QED BY <1>0, <2>3, <3>1 DEF KeptInv, KeptFits, Is
  <2> QED BY <1>2, <2>1, <2>2, <2>3, JobsAfterClick
<1>3. CASE UNCHANGED appVars
  BY <1>3 DEF appVars, shownVars, historyVars, KeptInv, KeptFits, Is
<1> QED BY <1>1, <1>2, <1>3

\* When nothing is under way, nothing overlapped and nothing failed, the report on
\* screen is that of the kept zip (SettingsView.tsx 147-163), for every number of jobs
\* and reloads.
THEOREM QuietAlwaysShowsKept == AppSpec => []QuietShowsKept
<1>1. AppInit => KeptInv
  <2>1. NewJob("init", "read", None).step = "read" /\ None \notin Zips
    BY AppConstants DEF NewJob, AppConstants
  <2> QED BY <2>1 DEF AppInit, FirstJobs, KeptInv, KeptFits, Is
<1>2. KeptInv => QuietShowsKept
  BY DEF KeptInv, KeptFits, QuietShowsKept, Busy
<1> QED
  BY <1>1, <1>2, AloneInvAlways, KeptInvStep, PTL DEF AppSpec

================================================================================
