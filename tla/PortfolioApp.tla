------------------------------ MODULE PortfolioApp ------------------------------
(***************************************************************************)
(* The page of the broker reports: App, its settings view, the zip it      *)
(* keeps in IndexedDB (zipCache) and the copy of the report it keeps in    *)
(* localStorage (portfolioService).                                        *)
(*                                                                         *)
(* The page does several things at once: it starts (init), the settings    *)
(* view looks for a kept zip when it is opened, and the user uploads,      *)
(* re-processes or forgets a zip.  Each is a job that takes a step from    *)
(* one await to the next; between two steps any other job, a click or a    *)
(* reload of the page may come.                                            *)
(*                                                                         *)
(* A report is named after the zip it was computed from; "file" is the     *)
(* report served at /data/result.json and "mock" the sample.               *)
(***************************************************************************)
EXTENDS Naturals, FiniteSets

CONSTANTS
  Zips,
  EmptyZips,     \* zips of zero bytes
  ReportTabs,    \* the tabs that show a report
  OtherTabs,     \* "settings", and the tab that shows neither
  MaxJobs,       \* bound: jobs under way
  MaxReloads,    \* bound: reloads of the page
  None

ASSUME AppConstants ==
  /\ EmptyZips \subseteq Zips
  /\ "overview" \in ReportTabs /\ "settings" \in OtherTabs
  /\ ReportTabs \cap OtherTabs = {}
  /\ MaxJobs \in Nat \ {0, 1} /\ MaxReloads \in Nat
  /\ {"file", "mock", None} \cap Zips = {} /\ None \notin {"file", "mock"}

Tabs == ReportTabs \cup OtherTabs
Reports == Zips \cup {"file"}

VARIABLES
  kept,          \* IndexedDB: the zip, and whether it is a legacy entry (a File handle)
  copy,          \* localStorage: the report of the last upload
  data, noData, isDemo, activeTab, refreshing, refreshError,
  settings,      \* the settings view, None while it is not mounted
  jobs,          \* what is under way
  reloads,
  overlapped,    \* history: a job of the user's was started during another
  missed,        \* history: in this page an upload ended without a report, or the
                 \* kept zip could not be read
  overQuota      \* history: a report did not fit into localStorage

shownVars == <<data, noData, isDemo, activeTab, refreshing, refreshError>>
historyVars == <<overlapped, missed, overQuota>>
appVars == <<kept, copy, shownVars, settings, jobs, reloads, historyVars>>

Entry == [zip : Zips, legacy : BOOLEAN]

\* The file chosen, whether an upload is shown as running, and whether the view
\* knows of a kept zip.
View == [chosen : Zips \cup {None}, uploading : BOOLEAN, offersKept : BOOLEAN]

BlankView == [chosen |-> None, uploading |-> FALSE, offersKept |-> FALSE]

\* "mounted" says that the settings view that started the job is still there.
Job == [kind : {"init", "look", "reprocess", "submit", "forget"},
        step : {"read", "clear", "upgrade", "show", "fetch", "cache", "upload"},
        zip : Zips \cup {None}, mounted : BOOLEAN]

JobIds == 1..MaxJobs

ASSUME NoneIsNoRecord == None \notin Entry \cup View \cup Job

AppTypeOK ==
  /\ kept \in Entry \cup {None} /\ copy \in Zips \cup {None}
  /\ data \in Reports \cup {"mock", None} /\ activeTab \in Tabs
  /\ {noData, isDemo, refreshing, refreshError} \subseteq BOOLEAN
  /\ settings \in View \cup {None} /\ (settings # None <=> activeTab = "settings")
  /\ jobs \in [JobIds -> Job \cup {None}]
  /\ reloads \in 0..MaxReloads
  /\ {overlapped, missed, overQuota} \subseteq BOOLEAN

-----------------------------------------------------------------------------
(* Jobs.                                                                    *)

Busy(js) == {j \in JobIds : js[j] # None}
Free(js) == JobIds \ Busy(js)
Slot(js) == CHOOSE j \in Free(js) : TRUE

NewJob(kind, step, zip) == [kind |-> kind, step |-> step, zip |-> zip, mounted |-> kind # "init"]

Started(js, job) == [js EXCEPT ![Slot(js)] = job]
Ended(j) == [jobs EXCEPT ![j] = None]
At(j, kind, step) == jobs[j] # None /\ jobs[j].kind = kind /\ jobs[j].step = step
Step(j, step, zip) == [jobs EXCEPT ![j].step = step, ![j].zip = zip]

Unmounted(js) == [j \in JobIds |-> IF js[j] = None THEN None ELSE [js[j] EXCEPT !.mounted = FALSE]]

\* What mounting and unmounting the settings view do when the tab becomes t: a
\* view that appears looks for the kept zip, one that goes leaves its jobs behind.
Shows(t, js) ==
  /\ activeTab' = t
  /\ IF t = "settings" /\ activeTab # "settings"
       THEN settings' = BlankView /\ Free(js) # {} /\ jobs' = Started(js, NewJob("look", "read", None))
     ELSE IF t # "settings" /\ activeTab = "settings"
       THEN settings' = None /\ jobs' = Unmounted(js)
     ELSE settings' = settings /\ jobs' = js

\* A setState of the settings view does nothing when the view has gone.
ViewGets(j, view) == settings' = IF jobs[j].mounted THEN view ELSE settings

-----------------------------------------------------------------------------
(* The page starts, and is reloaded.                                        *)

FirstJobs == [j \in JobIds |-> IF j = 1 THEN NewJob("init", "read", None) ELSE None]

AppInit ==
  /\ kept \in Entry \cup {None}
  /\ copy \in (Zips \ EmptyZips) \cup {None}
  /\ data = None /\ noData = FALSE /\ isDemo = FALSE
  /\ activeTab \in ReportTabs
  /\ refreshing = FALSE /\ refreshError = FALSE
  /\ settings = None
  /\ jobs = FirstJobs
  /\ reloads = 0
  /\ overlapped = FALSE /\ missed = FALSE /\ overQuota = FALSE

\* The address names the tab; a reload in the settings looks for the zip again.
Reload ==
  /\ reloads < MaxReloads
  /\ reloads' = reloads + 1
  /\ data' = None /\ noData' = FALSE /\ isDemo' = FALSE
  /\ refreshing' = FALSE /\ refreshError' = FALSE
  /\ IF activeTab = "settings"
       THEN settings' = BlankView /\ jobs' = Started(FirstJobs, NewJob("look", "read", None))
       ELSE settings' = None /\ jobs' = FirstJobs
  /\ overlapped' = FALSE /\ missed' = FALSE
  /\ UNCHANGED <<kept, copy, activeTab, overQuota>>

\* The navigation, and the way back.
GoTo(t) ==
  /\ t # activeTab
  /\ Shows(t, jobs)
  /\ overlapped' = (overlapped \/ (t = "settings" /\ \E j \in Busy(jobs) : jobs[j].kind # "init"))
  /\ UNCHANGED <<kept, copy, data, noData, isDemo, refreshing, refreshError, reloads,
                 missed, overQuota>>

-----------------------------------------------------------------------------
(* loadCachedZip, for the three who call it.  Found is what they do with    *)
(* its answer.                                                              *)

ZipFound(j, z) ==
  LET kind == jobs[j].kind IN
  \/ /\ kind = "init"
     /\ jobs' = Step(j, IF z = None THEN "fetch" ELSE "show", z)
     /\ UNCHANGED settings
  \/ /\ kind = "look"
     /\ jobs' = Ended(j)
     /\ ViewGets(j, IF z = None THEN settings ELSE [settings EXCEPT !.offersKept = TRUE])
  \/ /\ kind = "reprocess"
     /\ jobs' = IF z = None THEN Ended(j) ELSE Step(j, "upload", z)
     /\ ViewGets(j, IF z = None THEN settings ELSE [settings EXCEPT !.uploading = TRUE])

\* A legacy handle may by now read as nothing or not at all; so may the store.
ReadZip(j) ==
  /\ jobs[j] # None /\ jobs[j].step = "read"
  /\ \/ kept = None /\ ZipFound(j, None)
     \/ kept # None /\ ~kept.legacy /\ kept.zip \notin EmptyZips /\ ZipFound(j, kept.zip)
     \/ /\ kept # None /\ kept.legacy /\ kept.zip \notin EmptyZips
        /\ jobs' = Step(j, "upgrade", kept.zip) /\ UNCHANGED settings
     \/ jobs' = Step(j, "clear", None) /\ kept # None /\ UNCHANGED settings
  /\ missed' = (missed \/ (jobs'[j] # None /\ jobs'[j].step = "clear"))
  /\ UNCHANGED <<kept, copy, shownVars, reloads, overlapped, overQuota>>

\* The bytes are put back under the same key; a failure is passed over.
UpgradeZip(j) ==
  /\ jobs[j] # None /\ jobs[j].step = "upgrade"
  /\ kept' \in {[zip |-> jobs[j].zip, legacy |-> FALSE], kept}
  /\ ZipFound(j, jobs[j].zip)
  /\ UNCHANGED <<copy, shownVars, reloads, historyVars>>

\* clearCachedZip does its best.
DropZip(j) ==
  /\ jobs[j] # None /\ jobs[j].step = "clear" /\ jobs[j].kind # "forget"
  /\ kept' \in {None, kept}
  /\ ZipFound(j, None)
  /\ UNCHANGED <<copy, shownVars, reloads, historyVars>>

-----------------------------------------------------------------------------
(* init: show what there is, then compute the report of the kept zip again. *)

\* fetchPortfolioData: the file, else the copy; None when the fetch throws.
FetchedData == {"file", copy, None}

InitShow_Silent(j) ==
  /\ At(j, "init", "show")
  /\ \E initial \in FetchedData :
       IF initial # None THEN data' = initial ELSE UNCHANGED data
  /\ jobs' = Step(j, "upload", jobs[j].zip)
  /\ refreshing' = TRUE
  /\ UNCHANGED <<kept, copy, noData, isDemo, activeTab, refreshError, settings, reloads,
                 overlapped, missed, overQuota>>

InitShow(j) ==
  /\ At(j, "init", "show")
  /\ \E initial \in FetchedData :
       IF initial # None
         THEN /\ data' = initial
              /\ jobs' = Step(j, "upload", jobs[j].zip)
              /\ UNCHANGED <<noData, activeTab, settings>>
         ELSE /\ noData' = TRUE
              /\ Shows("settings", Step(j, "upload", jobs[j].zip))
              /\ UNCHANGED data
  /\ refreshing' = TRUE
  /\ UNCHANGED <<kept, copy, isDemo, refreshError, reloads, overlapped, missed, overQuota>>

\* cacheRawPortfolio: the browser may have no room for it.
CacheReport_Never(z) == UNCHANGED <<copy, overQuota>>

CacheReport(z) ==
  \/ copy' = z /\ UNCHANGED overQuota
  \/ overQuota' = TRUE /\ UNCHANGED copy

Refreshed(j) ==
  /\ At(j, "init", "upload")
  /\ CacheReport(jobs[j].zip)
  /\ data' = jobs[j].zip
  /\ noData' = FALSE /\ refreshError' = FALSE /\ refreshing' = FALSE
  /\ jobs' = Ended(j)
  /\ UNCHANGED <<kept, isDemo, activeTab, settings, reloads, overlapped, missed>>

RefreshFailed_StaysRefreshing(j) ==
  /\ At(j, "init", "upload")
  /\ refreshError' \in {TRUE, refreshError} /\ UNCHANGED refreshing
  /\ missed' = TRUE
  /\ jobs' = Ended(j)
  /\ UNCHANGED <<kept, copy, data, noData, isDemo, activeTab, settings, reloads,
                 overlapped, overQuota>>

\* The upload failed, or its answer ended without a report: only the first is told.
RefreshFailed(j) ==
  /\ At(j, "init", "upload")
  /\ refreshError' \in {TRUE, refreshError} /\ refreshing' = FALSE
  /\ missed' = TRUE
  /\ jobs' = Ended(j)
  /\ UNCHANGED <<kept, copy, data, noData, isDemo, activeTab, settings, reloads,
                 overlapped, overQuota>>

\* Nothing is kept: the file, else the sample.
InitFetch(j) ==
  /\ At(j, "init", "fetch")
  /\ \E real \in FetchedData :
       IF real # None
         THEN data' = real /\ UNCHANGED isDemo
         ELSE data' = "mock" /\ isDemo' = TRUE
  /\ jobs' = Ended(j)
  /\ UNCHANGED <<kept, copy, noData, activeTab, refreshing, refreshError, settings,
                 reloads, overlapped, missed, overQuota>>

-----------------------------------------------------------------------------
(* The settings view.                                                       *)

Waiting == settings # None /\ settings.uploading

\* The buttons of the kept zip, and of the form, while no upload is shown.
MayUseKept == settings # None /\ settings.offersKept /\ ~Waiting
MaySubmit == settings # None /\ settings.chosen # None /\ ~Waiting

\* The user starts a job; it overlaps with whatever is under way.
Begin(job) ==
  /\ Free(jobs) # {}
  /\ jobs' = Started(jobs, job)
  /\ overlapped' = (overlapped \/ Busy(jobs) # {})
  /\ UNCHANGED <<kept, copy, shownVars, settings, reloads, missed, overQuota>>

\* The file input stays open during an upload, and clears what is shown of it.
HandleFileChange ==
  /\ settings # None
  /\ \E file \in Zips \cup {None} :  \* None: too large
       settings' = [settings EXCEPT !.chosen = file, !.uploading = FALSE]
  /\ UNCHANGED <<kept, copy, shownVars, jobs, reloads, historyVars>>

HandleSubmit_UploadFirst == MaySubmit /\ Begin(NewJob("submit", "upload", settings.chosen))

HandleSubmit == MaySubmit /\ Begin(NewJob("submit", "cache", settings.chosen))

HandleReprocess == MayUseKept /\ Begin(NewJob("reprocess", "read", None))
HandleClearZip == MayUseKept /\ Begin(NewJob("forget", "clear", None))

\* cacheZip, then the start of uploadBlob; when it throws nothing is told.
CacheZip(j) ==
  /\ At(j, "submit", "cache")
  /\ \/ /\ kept' = [zip |-> jobs[j].zip, legacy |-> FALSE]
        /\ jobs' = Step(j, "upload", jobs[j].zip)
        /\ ViewGets(j, [settings EXCEPT !.offersKept = TRUE, !.uploading = TRUE])
     \/ jobs' = Ended(j) /\ UNCHANGED <<kept, settings>>
  /\ UNCHANGED <<copy, shownVars, reloads, historyVars>>

ZipForgotten(j) ==
  /\ At(j, "forget", "clear")
  /\ kept' \in {None, kept}
  /\ ViewGets(j, [settings EXCEPT !.offersKept = FALSE])
  /\ jobs' = Ended(j)
  /\ UNCHANGED <<copy, shownVars, reloads, historyVars>>

Uploading(j) == At(j, "submit", "upload") \/ At(j, "reprocess", "upload")

OnImported_KeepsDemo(z) ==
  /\ data' = z /\ noData' = FALSE
  /\ UNCHANGED <<isDemo, refreshing, refreshError>>

\* The error of an earlier refresh is not taken back.
OnImported(z) ==
  /\ data' = z /\ noData' = FALSE /\ isDemo' = FALSE
  /\ UNCHANGED <<refreshing, refreshError>>

\* The report takes the user to the overview, wherever they have gone.
Imported(j) ==
  /\ Uploading(j) /\ jobs[j].zip \notin EmptyZips
  /\ CacheReport(jobs[j].zip)
  /\ OnImported(jobs[j].zip)
  /\ Shows("overview", Ended(j))
  /\ UNCHANGED <<kept, reloads, overlapped, missed>>

\* uploadZip refuses an empty zip itself; otherwise the server or the network did.
UploadFailed(j) ==
  /\ Uploading(j)
  /\ ViewGets(j, [settings EXCEPT !.uploading = FALSE,
                                  !.chosen = IF jobs[j].kind = "submit" THEN None ELSE @])
  /\ jobs' = Ended(j)
  /\ missed' = TRUE
  /\ UNCHANGED <<kept, copy, shownVars, reloads, overlapped, overQuota>>

-----------------------------------------------------------------------------

JobStep(j) ==
  \/ ReadZip(j) \/ UpgradeZip(j) \/ DropZip(j)
  \/ InitShow(j) \/ Refreshed(j) \/ RefreshFailed(j) \/ InitFetch(j)
  \/ CacheZip(j) \/ ZipForgotten(j) \/ Imported(j) \/ UploadFailed(j)

AppNext ==
  \/ \E j \in JobIds : JobStep(j)
  \/ \E t \in Tabs : GoTo(t)
  \/ HandleFileChange \/ HandleSubmit \/ HandleReprocess \/ HandleClearZip
  \/ Reload

\* Every read, write and request of a browser ends, if only with an error; the user
\* need never do anything.
AppSpec == AppInit /\ [][AppNext]_appVars /\ \A j \in JobIds : WF_appVars(JobStep(j))

-----------------------------------------------------------------------------
(* Properties, over what the header and the main area show.                 *)

Header == (IF refreshError THEN {"stale data"} ELSE {}) \cup (IF isDemo THEN {"demo"} ELSE {})
            \cup {IF refreshing THEN "refreshing" ELSE "as of"}

Main ==
  CASE activeTab \in OtherTabs -> activeTab
    [] activeTab \in ReportTabs /\ data # None -> data
    [] activeTab \in ReportTabs /\ data = None -> IF noData THEN "nothing" ELSE "loading"

\* The DEMO badge is shown exactly over the sample (App.tsx 97-98, 237, 394),
\* however late the start of the page sets its report and whatever the user has
\* imported meanwhile.
DemoIffMock == "demo" \in Header <=> data = "mock"

\* A report that was computed here and is on screen is the one a reload of the page
\* falls back to (portfolioService.ts 162-178, App.tsx 71-83), unless the browser
\* refused to store it: no path shows one report and leaves another in the copy.
CopyIsShown == data \in Zips /\ ~overQuota => copy = data

\* When nothing is under way, jobs did not overlap and none of them failed in this
\* page, the report on screen is that of the kept zip (SettingsView.tsx 147-163):
\* what Re-process or a reload would compute is what is shown.
QuietShowsKept ==
  Busy(jobs) = {} /\ ~overlapped /\ ~missed /\ kept # None /\ data \in Zips => data = kept.zip

\* "No data yet" (SettingsView.tsx 175) is not said over a report, unless an import
\* overlapped with the start of the page.
NoDataMeansNone == noData /\ ~overlapped => data = None

\* "Loading portfolio data" gives way to something else (App.tsx 66-103), and so does
\* "Refreshing" (App.tsx 78-91), whatever fails.
PageFills == Main = "loading" ~> Main # "loading"
RefreshEnds == "refreshing" \in Header ~> "as of" \in Header

=============================================================================
