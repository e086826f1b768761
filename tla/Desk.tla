--------------------------------- MODULE Desk ---------------------------------
(***************************************************************************)
(* The parts around an audit and the release of the program, each on a     *)
(* state of its own: one state graph in which `part' chooses what runs,    *)
(* while the others stay as they start.  They are one specification        *)
(* because they share nothing that one of them writes while another is at  *)
(* work: the files and settings they read of each other are inputs in each *)
(* module.  The deletions of package files are the module this one         *)
(* extends; the others are instances.  The constants are those of the      *)
(* parts, one name for each.                                               *)
(***************************************************************************)
EXTENDS FileCleanup, Sequences

CONSTANTS
  MaxTrouble,                                                                    \* each part
  Packages, CacheMarkets, CacheAudits, MainWindow, Renewals,                     \* StoreCache
  Folders, Roots, LibraryPaths, In, PackageContents, MaxTime, MaxScans, MaxSaves,\* LocalLibrary
  Columns, Applies, Ids, ViewNames, MaxViews, MaxEdits,                          \* CustomViews
  Queries, AppLists, MaxWrites,                                                  \* Settings
  Deadline, MaxSessions, MaxNoise,                                               \* BrowserSignIn
  Phones, SavedProfiles, MaxDialogs, MaxCaptures, MaxPlugs,                      \* PersonalDevice
  ResolutionApps, Eligible, Threads, MaxSignIns, MaxAudits,                      \* DeviceResolution
  EligibleApps, Stores, Workers, MaxPhases,                                      \* AlternativePhase
  ScanPhones, ScanPackages, MaxScanPlugs,                                        \* ScanCapture
  MaxAttempts, MaxRuns, Upstreams,                                               \* ReleaseBundle
  MaxAppTrouble,                                                                 \* MacBundle
  NApps, M, StoreWorkers, BatchSize, MaxRetries, English, MaxPauses,             \* StoreAudit
  Targets, Engineering, SourceNames, Commits, WorkflowRuns, Grace                \* ReleaseAssembly

VARIABLES
  part,
  cacheFile, temp, cachePc, job, data, out, cacheAudit, market, cacheCurrent, cacheRows,
  generation, fetching, arrived, cacheTrouble, disturbed, filled,
  libraryFiles, libraryClock, setback, scans, libraryTrouble, libraryLibrary, libraryScan,
  libraryCancelled, libraryDisk, saves,
  saved, old, viewsRunning, viewsSource, header, viewsPending, viewsDialog, edits, dropped,
  settingsFile, copy, window, settingsEvidence, settingsChosen, writes,
  signinPc, browser, profile, signinClock, asked, lastId, unread, cookies, again, accepted,
  noise, signinSession, sessions,
  personalLibrary, health, configured, slot, personalOwner, plugged, scanned,
  personalDialog, personalChosen, listed, personalPending, mayGet, question, reading,
  captured, storing, readers, auditing, raced, slips, captures, personalPlugs,
  account, signIns, resolutionCache, resolutionCurrent, resolutionStarted, resolutionStep,
  provider, resolutionCancelled, paused, resolutionContext, resolutionBundle, misses,
  resolutionFlight, resolutionRows,
  store, alternativeTrouble, alternativeFile, temporary, idle, alternativeStarted,
  alternativeStep, aptoide, memory, alternativePending, active, results,
  alternativeRunning, alternativeCancelled, expired,
  attached, scanPlugs, scanStep, full, scanStopped, scanOwner, packages, compact,
  scanContext, facts, scanQueue, scanFlight, status, exchanged,
  package, injected, candidateStaged, manifest, candidateReport, candidateEvidence,
  upstream, assets, candidateBundle, candidatePc, todo, attempt, runs, meddled,
  place, link, appStep, pos, moved, appTrouble, stranded, killed, stamp, appClock,
  found, output, merged, goal, phase, artifacts, releaseHistory, newest,
  storePaused, storeCancel, pauses, slots, fetch, storeApp, storeMarket, batchEnd,
  checked, storeFailed, outcome, main, snapshot, row, late

cacheVars == <<cacheFile, temp, cachePc, job, data, out, cacheAudit, market, cacheCurrent,
               cacheRows, generation, fetching, arrived, cacheTrouble, disturbed, filled>>
libraryVars == <<libraryFiles, libraryClock, setback, scans, libraryTrouble, libraryLibrary,
                 libraryScan, libraryCancelled, libraryDisk, saves>>
viewsVars == <<saved, old, viewsRunning, viewsSource, header, viewsPending, viewsDialog,
               edits, dropped>>
settingsVars == <<settingsFile, copy, window, settingsEvidence, settingsChosen, writes>>
signinVars == <<signinPc, browser, profile, signinClock, asked, lastId, unread, cookies,
                again, accepted, noise, signinSession, sessions>>
personalVars == <<personalLibrary, health, configured, slot, personalOwner, plugged,
                  scanned, personalDialog, personalChosen, listed, personalPending, mayGet,
                  question, reading, captured, storing, readers, auditing, raced, slips,
                  captures, personalPlugs>>
resolutionVars == <<account, signIns, resolutionCache, resolutionCurrent, resolutionStarted,
                    resolutionStep, provider, resolutionCancelled, paused,
                    resolutionContext, resolutionBundle, misses, resolutionFlight,
                    resolutionRows>>
alternativeVars == <<store, alternativeTrouble, alternativeFile, temporary, idle,
                     alternativeStarted, alternativeStep, aptoide, memory,
                     alternativePending, active, results, alternativeRunning,
                     alternativeCancelled, expired>>
scanVars == <<attached, scanPlugs, scanStep, full, scanStopped, scanOwner, packages,
              compact, scanContext, facts, scanQueue, scanFlight, status, exchanged>>
candidateVars == <<package, injected, candidateStaged, manifest, candidateReport,
                   candidateEvidence, upstream, assets, candidateBundle, candidatePc, todo,
                   attempt, runs, meddled>>
appVars == <<place, link, appStep, pos, moved, appTrouble, stranded, killed, stamp, appClock>>
requestsVars == <<storePaused, storeCancel, pauses, slots, fetch, storeApp, storeMarket,
                  batchEnd, checked, storeFailed, outcome, main, snapshot, row, late>>
releaseVars == <<found, output, merged, goal, phase, artifacts, releaseHistory, newest>>
deskVars == <<cacheVars, libraryVars, vars, viewsVars, settingsVars, signinVars,
              personalVars, resolutionVars, alternativeVars, scanVars, candidateVars,
              appVars, requestsVars, releaseVars, part>>

Parts == {"cache", "library", "cleanup", "views", "settings", "signin", "personal", "resolution",
          "alternative", "scan", "candidate", "app", "release", "store"}

Cache == INSTANCE StoreCache WITH
  file <- cacheFile, pc <- cachePc, audit <- cacheAudit, current <- cacheCurrent,
  Markets <- CacheMarkets, Audits <- CacheAudits, Window <- MainWindow, rows <- cacheRows,
  trouble <- cacheTrouble

Library == INSTANCE LocalLibrary WITH
  Paths <- LibraryPaths, Contents <- PackageContents, files <- libraryFiles,
  clock <- libraryClock, trouble <- libraryTrouble, library <- libraryLibrary,
  scan <- libraryScan, cancelled <- libraryCancelled, disk <- libraryDisk

Views == INSTANCE CustomViews WITH
  Names <- ViewNames, running <- viewsRunning, source <- viewsSource,
  pending <- viewsPending, dialog <- viewsDialog

Options == INSTANCE Settings WITH
  Paths <- AppLists, file <- settingsFile, evidence <- settingsEvidence,
  chosen <- settingsChosen

SignIn == INSTANCE BrowserSignIn WITH
  pc <- signinPc, clock <- signinClock, session <- signinSession

Personal == INSTANCE PersonalDevice WITH
  Profiles <- SavedProfiles, library <- personalLibrary, owner <- personalOwner,
  dialog <- personalDialog, chosen <- personalChosen, pending <- personalPending,
  plugs <- personalPlugs

Resolution == INSTANCE DeviceResolution WITH
  Apps <- ResolutionApps, cache <- resolutionCache, current <- resolutionCurrent,
  started <- resolutionStarted, step <- resolutionStep, cancelled <- resolutionCancelled,
  context <- resolutionContext, bundle <- resolutionBundle, flight <- resolutionFlight,
  rows <- resolutionRows

Alternative == INSTANCE AlternativePhase WITH
  Apps <- EligibleApps, trouble <- alternativeTrouble, file <- alternativeFile,
  started <- alternativeStarted, step <- alternativeStep, pending <- alternativePending,
  running <- alternativeRunning, cancelled <- alternativeCancelled

Scan == INSTANCE ScanCapture WITH
  Phones <- ScanPhones, Packages <- ScanPackages, MaxPlugs <- MaxScanPlugs,
  plugs <- scanPlugs, step <- scanStep, stopped <- scanStopped, owner <- scanOwner,
  context <- scanContext, queue <- scanQueue, flight <- scanFlight

Candidate == INSTANCE ReleaseBundle WITH
  staged <- candidateStaged, report <- candidateReport, evidence <- candidateEvidence,
  bundle <- candidateBundle, pc <- candidatePc

App == INSTANCE MacBundle WITH
  MaxTrouble <- MaxAppTrouble, step <- appStep, trouble <- appTrouble, clock <- appClock

Store == INSTANCE StoreAudit WITH
  Workers <- StoreWorkers, paused <- storePaused, cancel <- storeCancel, app <- storeApp,
  market <- storeMarket, failed <- storeFailed

Release == INSTANCE ReleaseAssembly WITH history <- releaseHistory

(***************************************************************************)
(* What the proofs need of the constants.  Folders are a tree: what holds  *)
(* an entry is its folder and what holds that, and a folder that holds an  *)
(* entry has it, or one of its folders does.  Files that do not parse and  *)
(* links are no contents; each source has its columns; a saved profile is  *)
(* not named like the two other choices; a phase has at least one thread,  *)
(* and apps of its audit; a Windows release is of one of the targets; the  *)
(* Store is asked by at least one worker, for batches of at least one      *)
(* market.                                                                 *)
(***************************************************************************)
LibraryConstantsFit ==
  /\ \A e \in Folders \cup LibraryPaths :
       /\ Library!Holders[e] =
            {In[e]} \cup IF In[e] \in Folders THEN Library!Holders[In[e]] ELSE {}
       /\ \A f \in Folders :
            Library!Under(e, f) => In[e] = f \/ \E g \in Library!FoldersIn(f) : Library!Under(e, g)
  /\ Folders \cap LibraryPaths = {} /\ Roots \subseteq Folders /\ "none" \notin Roots
  /\ "none" \notin PackageContents /\ "link" \notin PackageContents /\ MaxTime \in Nat
ViewsConstantsFit ==
  /\ Applies \in [Views!Sources -> SUBSET Columns]
  /\ Views!NoView \notin Ids /\ Ids # {} /\ ViewNames # {}
  /\ MaxViews \in Nat \ {0} /\ MaxEdits \in Nat
PersonalConstantsFit ==
  /\ Personal!None \notin Phones /\ MaxDialogs \in Nat /\ MaxAudits \in Nat
  /\ "default" \notin SavedProfiles /\ "connected" \notin SavedProfiles
ResolutionConstantsFit ==
  /\ MaxAudits \in Nat /\ Threads \in Nat \ {0}
  /\ Eligible \in [Resolution!Audits -> SUBSET ResolutionApps]
AlternativeConstantsFit == MaxPhases \in Nat
ReleaseConstantsFit == IsFiniteSet(Targets) /\ Engineering \in Targets
StoreConstantsFit ==
  /\ NApps \in Nat /\ M \in Nat /\ MaxRetries \in Nat /\ MaxPauses \in Nat
  /\ StoreWorkers \in Nat \ {0} /\ BatchSize \in Nat \ {0} /\ English \subseteq 0..M

ASSUME DeskAssumption ==
  /\ LibraryConstantsFit /\ ViewsConstantsFit /\ PersonalConstantsFit
  /\ ResolutionConstantsFit /\ AlternativeConstantsFit /\ ReleaseConstantsFit
  /\ StoreConstantsFit
-----------------------------------------------------------------------------
DeskInit ==
  /\ part \in Parts
  /\ Cache!Init /\ Library!Init /\ Init /\ Views!Init /\ Options!Init /\ SignIn!Init
  /\ Personal!Init /\ Resolution!Init /\ Alternative!Init /\ Scan!Init /\ Candidate!Init
  /\ App!Init /\ Release!Init /\ Store!Init

DeskNext ==
  \/ part = "cache" /\ Cache!Next
     /\ UNCHANGED <<libraryVars, vars, viewsVars, settingsVars, signinVars, personalVars,
                    resolutionVars, alternativeVars, scanVars, candidateVars, appVars,
                    releaseVars, requestsVars, part>>
  \/ part = "library" /\ Library!Next
     /\ UNCHANGED <<cacheVars, vars, viewsVars, settingsVars, signinVars, personalVars,
                    resolutionVars, alternativeVars, scanVars, candidateVars, appVars,
                    releaseVars, requestsVars, part>>
  \/ part = "cleanup" /\ Next
     /\ UNCHANGED <<cacheVars, libraryVars, viewsVars, settingsVars, signinVars,
                    personalVars, resolutionVars, alternativeVars, scanVars, candidateVars,
                    appVars, releaseVars, requestsVars, part>>
  \/ part = "views" /\ Views!Next
     /\ UNCHANGED <<cacheVars, libraryVars, vars, settingsVars, signinVars, personalVars,
                    resolutionVars, alternativeVars, scanVars, candidateVars, appVars,
                    releaseVars, requestsVars, part>>
  \/ part = "settings" /\ Options!Next
     /\ UNCHANGED <<cacheVars, libraryVars, vars, viewsVars, signinVars, personalVars,
                    resolutionVars, alternativeVars, scanVars, candidateVars, appVars,
                    releaseVars, requestsVars, part>>
  \/ part = "signin" /\ SignIn!Next
     /\ UNCHANGED <<cacheVars, libraryVars, vars, viewsVars, settingsVars, personalVars,
                    resolutionVars, alternativeVars, scanVars, candidateVars, appVars,
                    releaseVars, requestsVars, part>>
  \/ part = "personal" /\ Personal!Next
     /\ UNCHANGED <<cacheVars, libraryVars, vars, viewsVars, settingsVars, signinVars,
                    resolutionVars, alternativeVars, scanVars, candidateVars, appVars,
                    releaseVars, requestsVars, part>>
  \/ part = "resolution" /\ Resolution!Next
     /\ UNCHANGED <<cacheVars, libraryVars, vars, viewsVars, settingsVars, signinVars,
                    personalVars, alternativeVars, scanVars, candidateVars, appVars,
                    releaseVars, requestsVars, part>>
  \/ part = "alternative" /\ Alternative!Next
     /\ UNCHANGED <<cacheVars, libraryVars, vars, viewsVars, settingsVars, signinVars,
                    personalVars, resolutionVars, scanVars, candidateVars, appVars,
                    releaseVars, requestsVars, part>>
  \/ part = "scan" /\ Scan!Next
     /\ UNCHANGED <<cacheVars, libraryVars, vars, viewsVars, settingsVars, signinVars,
                    personalVars, resolutionVars, alternativeVars, candidateVars, appVars,
                    releaseVars, requestsVars, part>>
  \/ part = "candidate" /\ Candidate!Next
     /\ UNCHANGED <<cacheVars, libraryVars, vars, viewsVars, settingsVars, signinVars,
                    personalVars, resolutionVars, alternativeVars, scanVars, appVars,
                    releaseVars, requestsVars, part>>
  \/ part = "app" /\ App!Next
     /\ UNCHANGED <<cacheVars, libraryVars, vars, viewsVars, settingsVars, signinVars,
                    personalVars, resolutionVars, alternativeVars, scanVars, candidateVars,
                    releaseVars, requestsVars, part>>
  \/ part = "release" /\ Release!Next
     /\ UNCHANGED <<cacheVars, libraryVars, vars, viewsVars, settingsVars, signinVars,
                    personalVars, resolutionVars, alternativeVars, scanVars, candidateVars,
                    appVars, requestsVars, part>>
  \/ part = "store" /\ Store!Next
     /\ UNCHANGED <<cacheVars, libraryVars, vars, viewsVars, settingsVars, signinVars,
                    personalVars, resolutionVars, alternativeVars, scanVars, candidateVars,
                    appVars, releaseVars, part>>

DeskSpec == DeskInit /\ [][DeskNext]_deskVars

-----------------------------------------------------------------------------
(* The properties of the parts, stated and explained in their modules.  The  *)
(* parts that do not run satisfy them in the state they start in.            *)

\* Entries of the cache and completed rows are what was looked up for them.
EntriesAndRowsFit == part = "cache" => Cache!EntriesAndRowsFit
\* A cache operation nobody came between has exactly its effect.
UndisturbedOperationsHold ==
  [][part = "cache" => Cache!ReplacedUndisturbed]_<<cacheVars, part>>
\* What is present is what was parsed, and can be saved.
LibraryIsSound == part = "library" => Library!LibraryIsSound
\* Partial and cancelled rescans declare no untouched file absent.
UntouchedStaysPresent == part = "library" => Library!UntouchedStaysPresent
\* The table shows the active view, and saved views load.
ViewsAreKept == part = "views" => Views!ViewsAreKept
\* No view loses the columns of the other source.
OtherSourceIsKept ==
  [][part = "views" => Views!KeepsOtherSource]_<<viewsVars, part>>
\* Upgrades of the settings keep every choice.
SettingsKeepMeaning == part = "settings" => Options!SettingsKeepMeaning
\* A late answer of the browser is not taken for another.
AnswersBelong == part = "signin" => SignIn!AnswersBelong
\* The profile of an audit exists, is of its phone and keeps its model.
ProfilesHold ==
  /\ [](part = "personal" => Personal!ProfilesFit)
  /\ [][part = "personal" => Personal!KeepsSavedModels]_<<personalVars, part>>
\* Evidence is that of the session it is stored for.
EvidenceFitsItsSession == part = "resolution" => Resolution!EvidenceFitsItsSession
\* A phase nobody stopped leaves no app without an answer.
EveryMissIsAnswered == part = "resolution" => Resolution!EveryMissIsAnswered
\* Each source of each app has one result, its own.
RowsSayWhatSourcesSaid == part = "alternative" => Alternative!RowsSayWhatSourcesSaid
\* A complete session has every package, and what it says is of its phone.
CaptureIsSound == part = "scan" => Scan!CaptureIsSound
\* Slots are given back on every path, and verdicts and rows stay right.
AuditInv == part = "store" => Store!AuditInv
\* After Stop only the requests in flight answer.
StopBoundsRequests == part = "store" => Store!StopBoundsRequests
\* Pause lets no thread that waited for a slot go on to the network.
PauseAdmitsNoFetch == [][part = "store" => Store!PauseKeepsOut]_<<requestsVars, part>>
\* The audit keeps the promise of AuditPromise.
ImplementsPromise ==
  /\ part = "store" => Store!PromiseStarts
  /\ [][part = "store" => Store!PromiseStep]_<<requestsVars, part>>
\* What is prepared is accepted, what is accepted complete and official.
CandidateIsSound == part = "candidate" => Candidate!CandidateIsSound
\* Runtime paths serve after any failure, and a signature seals.
BundleIsSound == part = "app" => App!BundleIsSound
\* A release is consistent, and the latest artifacts stay.
ReleasesHold == part = "release" => Release!ReleasesHold
=============================================================================
