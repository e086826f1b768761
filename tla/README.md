# Store App Audit in TLA+

This directory specifies and verifies the control logic of Store App Audit
(`playstore_app_audit`) and of the scripts that release it: the part that decides
what happens when threads, timers, message boxes, other programs and the user
interleave. Every definition is translated from the source; `PROJECT.json` lists for each one
(`map`) the lines it stands for.

Contents: [inventory](#inventory) · [modules](#modules) ·
[what each run shows](#runs) · [fairness](#fairness) · [proofs](#proofs) ·
[disagreements found](#disagreements-between-the-code-and-what-is-said-of-it) ·
[not modelled](#what-is-not-modelled) · [plan](#plan)

Paths are relative to `src/playstore_app_audit/`, those of the scripts to
`src/.github/scripts/`.

## How to run it

    tlc -config Desk.cfg MCDesk                    # any run of PROJECT.json
    tlapm MassRenameProofs.tla                     # a proof module

## Inventory

The program is a Qt desktop window in layers of subclasses (`BaseWindow` <
`AuditWindow` < `CompactWindow` < `DeviceWindow` < `InsightsWindow` <
`ResultsWindow` < ... < `MainWindow`), so that one operation, say starting an
audit, is spread over several overrides of one method. The window's thread runs
one handler at a time; workers are daemon threads and pools that report through
queued Qt signals. There is a command line client without a window too.

### 1. Sources (`ui/main_window`, `ui/audit_window`, `ui/insights_window`, `services/local_apk_source`)

State: `source_mode` and the apps or package files loaded; the request number
and cancel event of phone scans; the generation of folder discovery; the flag
`pending_scan_after_install`; which controls are enabled. Operations: drop or
choose an app list, choose package files, discover the packages of a folder,
scan a phone (discover ADB, perhaps download it, scan), schedule the first audit
by a zero timer. Interactions: abandons a running audit, starts the next one.
Hard: results of threads that arrive after the user chose another source;
message boxes that run a nested event loop in the middle of a handler; the ADB
download, which carries no request number. Correct when: the newest choice
wins, only one result is awaited, every scan ends, and the source of an audit is
not replaced under it.

### 2. Audit lifecycle (`ui/compact_window`, `device_window`, `insights_window`, `results_window`, `main_window`)

State: session number, run state (idle, running, paused, stopping, finalizing),
requested outcome, rows and whether they are provisional, merge base and marks
of a targeted recheck, index of progressive rows, queued signals, finalization
timers, saved history. Operations: start, pause, resume, stop, abandon, receive
a row, receive the outcome, finalize, recheck, clear. Hard: a worker outlives an
abandoned audit and keeps sending; Stop races the outcome already queued; the
finalization is a timer that may fire for an audit that no longer exists, and
may raise half-way. Correct when: rows are the session's own, Stop is
authoritative, only success reaches history, nothing provisional is exported,
and the window always comes back to idle.

### 3. Google Play audit (`services/play_store`, `services/audit_engine`)

State: futures of an app pool and of a fallback pool, request slots, pause and
cancel events, per app the markets checked and failed. Operations: fetch a
market in its language and in English, with retries and an HTML confirmation;
complete the metadata in other markets; search other markets in batches; report
rows. Hard: slots must be given back on every path; the two pools may wait for
each other; Pause and Stop reach threads at any point; a verdict of absence must
rest on every market. Correct when: requests are bounded, a verdict rests on the
answers it claims, Stop admits only what is in flight, each app gets its row.

### 4. Local APK Mass Rename (`services/local_apk_mass_rename`, `services/local_apk_file_ops`, its dialog, `_sync_local_apk_mass_rename_result`)

State: the files of a folder, the plan, staged and finalized rows, the one move
under way, the table rows that name the files. Operations: preview, execute
(stage every file under a temporary name, then give final names), roll back in
two different ways, move by exclusive hard link or by exclusive copy, synchronise
the table. Hard: swaps and cycles of names, case-insensitive file systems, every
system call may fail, other programs use the folder, the process may be killed.
Correct when: no file is lost or overwritten and report and table name the place
each file is at.

### 5. App icons (`ui/app_icon_loader`, `services/app_icon_disk_cache`, `ui/table_window`)

State: generation, requests by key, queue, active downloads, memory cache, the
one-thread disk pool, the disk index, what was last reported as busy.
Operations: paint, disk lookup, download, disk store, new generation, clear
(waits a bounded time for the pool). Hard: retired work ends after the cache was
cleared; a store checks its generation before it writes; the busy flag is
sampled by a deferred timer. Correct when: nothing retired comes back, bounds
hold, clearing is impossible while work is under way, every request ends.

### 6. Store result cache and metadata backfill (`services/state`, `services/re_audit`, `ui/app_icon_backfill`, `ui/table_window`)

State: the JSON file of Store results, its temporary name, the rows shown and
their generation, requests for missing metadata. Operations: update with the
live rows of an audit, complete an entry, clear, reuse young entries, replace
the rows. Hard: all writers share one temporary name and read, change and write
the whole file; an abandoned worker still writes; requests outlive the rows they
were made for. Correct when: an entry is what the audit it is dated by found in
its market, a writer nobody came between has exactly its effect, and a row is
completed only by a request made for it.

### 7. Local APK library (`services/local_apk_library`)

State: registered roots, artifacts by content, where each was met, the document
on disk. Operations: register, rescan entry by entry with cancellation, merge,
save, load. Hard: nested roots, unreadable folders, files that change or no
longer parse, a clock that is set back. Correct when: what is present is what the
latest parse gave, nothing untouched is declared absent, and what was made can be
saved and loaded.

### 8. Removal and duplicates (`services/local_apk_mass_remove`, `services/local_apk_duplicates`, their dialogs, the handlers in `ui/main_window`)

State: plan of a batch (what each file was when it was shown), selection, rows
and candidates. Operations: plan, review, look again, delete, synchronise the
rows; remove or rename one row. Hard: other programs change files at any point,
some deletions fail. Correct when: only files the user reviewed go, a copy of
every duplicate stays, the rows follow what was deleted.

### 9. Named custom views (`domain/named_custom_views`, `ui/compact_window`, `ui/preferences_window`, `ui/column_presets`)

State: saved views of two families of sources, the active one of each, the
preset, the table header, the draft of the dialog. Hard: every change of the
header is written into the active view; a scan may end while the dialog is open.
Correct when: the table shows the active view, no view loses the columns that
only another source has, and what is saved can be loaded.

### 10. Settings document (`services/state`, `services/device_specific_settings`, `services/smart_queries`, `ui/menu_window`)

State: the file, the window's copy of it. Operations: load with the upgrades of
older documents, save from the file or from the copy. Hard: an upgrade must not
be applied over a later choice; two kinds of writers. Correct when: every reader
finds the user's last choice of each option, and nobody else's write changes the
saved queries.

### 11. Phone scan capture (`services/scan_session`, `services/device_insights`)

One scan thread: devices, properties, package lists, then the full metadata in
bulk and, for packages that lack some, by a small pool. Hard: phones are plugged
in and out between commands, a Stop, failing commands; the compact commands name
no phone, and the full part keeps what they told. Correct when: a session called
complete has a dump of every package from its phone, and what it takes over from the
compact part is of that phone too unless another took its place meanwhile.

### 12. Personal device profiles (`services/personal_device_library`, `services/connected_device_profile`, `ui/preferences_window`, `ui/device_window`)

State: the library of saved profiles, the one slot for a phone captured in this
session (a profile and the phone it is of), captures under way, the question
whether to replace a profile. Hard: captures outlive the dialog that began them,
and end while a question of the page is open; window and workers, those of abandoned
audits too, write the two fields of the slot one after the other. Correct
when: the configured profile exists, an audit uses a profile of the scanned
phone, and a saved profile keeps its model.

### 13. Personal Google sign-in (`services/device_specific_personal_session`)

A browser asked over its debugger for a token until a deadline. Hard: late
answers, unsolicited messages, request ids used again after a time-out. Correct
when: an answer is never taken for that of another kind of request.

### 14. Device-specific resolution (`services/device_specific_*`)

A phase of the audit worker: context of the cache, cached evidence, one
authorisation, a bounded window of requests. Hard: an abandoned audit keeps its
worker while the user signs in again; pause and Stop. Correct when: evidence is
kept for the session that obtained it, and a phase nobody stopped answers every
app.

### 15. Alternative distribution (`services/alternative_distribution`)

A phase of the audit worker within a budget of active time, with a cache. Hard:
requests that end as the phase does, a store that is changed, two phases that
write one cache. Correct when: each source of each app has one result, said by
that source.

### 16. Release legal material (`prepare_release_legal_bundle`, `validate_release_legal_bundle`, `preflight_release_legal_material`, `legal_payload_store`)

State: the built package, what was injected, the staging, its manifest, the
downloaded sources. Operations: preflight, prepare (download, verify, stage,
inject), sign, record the inventory again, validate. Hard: downloads break off, a
preparation is repeated over what a failed one left, signing changes what was
recorded. Correct when: the two programs agree, and what they agree on is
complete and official.

### 17. macOS bundle and assembly of a release (`normalize_macos_bundle`, `sign_macos_app`, `assemble_release_assets`, `assemble_windows_engineering_release`, `release_asset_layout`, `cleanup_actions_retention`)

Moves and links with their undoing, signatures from the inside out; candidates
of one commit merged into a release, checksums, deletion of superseded
artifacts. Hard: each call may fail, a job may end anywhere and be run again.
Correct when: every runtime path serves, a seal holds, a release is consistent
and its successors' artifacts stay.

### The rest

| component | why it is not modelled |
| --- | --- |
| audit history and change overview | a function of two lists of rows; when history is saved is in `AuditLifecycle` |
| local package metadata cache | the key of an entry is the hash of the bytes, computed again when it is stored, so no order of calls can serve one file for another; clearing it forgets which contents are being parsed (`local_package_metadata_cache.py:359`), after which two threads may do the same work twice, with the same result |
| device metadata, installer source | sequential parsing and classification of text |
| local package parsing | binary formats, out of a model checker's reach |
| result presentation, classification, evaluation of queries and profiles | pure functions of rows |
| exports | serialisation; *when* one may export is in `AuditLifecycle` |
| headless audit and command line | a sequential client; its writes of the cache and its reading of settings are in `StoreCache` and `Settings` |
| secrets, file locations | encoding and directories, once at start |
| table, details, menus | rendering and wording |
| update check | one thread, one signal, a single-flight guard |
| transport, logging, diagnostics | I/O; requests are modelled by their outcomes |
| developer tools and tests | not part of the running program |

### How the components meet

`Sources` starts and abandons audits (`AuditLifecycle`); what a phone scan brings
is a `ScanCapture`. A worker of an audit runs one `StoreAudit`, after the local
packages are parsed when the source is local, writes its live rows to the cache
(`StoreCache`), then runs the phases `DeviceResolution` (with a session from
`BrowserSignIn` and a profile from `PersonalDevice`) and `AlternativePhase`; its
rows come back through the window's signal queue; the finalization saves history
and inventory. Replacing the rows begins a new generation of `IconLoader` and of
the backfill, and lays the table out by `CustomViews`. A finished local audit is
what `MassRename` and `FileCleanup` work on, while the window is idle. `Settings`
is read by all of them. The release goes through `ReleaseBundle`, `MacBundle` and
`ReleaseAssembly` in this order: build, normalise (macOS), prepare and inject,
sign, record the inventory again, validate; then assemble.

The modules model these neighbours by what they do at the boundary: `Sources` has
an audit that runs and ends; `AuditLifecycle` has `LoadFile`, `ChooseApks` and
`startDue` where `Sources` has its choices, and a worker that decides an outcome
where `StoreAudit` has threads and slots; `StoreCache`, `DeviceResolution` and
`AlternativePhase` have audits that are started, paused, stopped and given up,
so that the worker of one still runs while the next has begun.

## Modules

| module | what it is |
| --- | --- |
| `MassRename`, `BatchMove` | the rename batch over a folder, and the table rows; abstract: what a two-phase batch promises |
| `StoreAudit`, `AuditPromise` | the concurrent audit: two pools, slots, retries, verdicts; abstract: verdicts are justified by answers received |
| `AuditLifecycle`, `AuditRuns` | the window's sessions, signals, timers and rechecks; abstract: one audit at a time, Stop honoured, baseline from success |
| `IconLoader` | icon requests, disk thread, downloads, generations, clear |
| `Sources` | choices of a source, phone scans, folders, ADB download |
| `StoreCache` | the cache file under its writers, and the backfill of rows |
| `LocalLibrary`, `FileCleanup` | the package library; deletions of package files |
| `CustomViews`, `Settings` | views and the table; the settings document |
| `ScanCapture`, `PersonalDevice`, `BrowserSignIn` | what a scan captures; device profiles; sign-in |
| `DeviceResolution`, `AlternativePhase` | the two phases after the Store audit |
| `ReleaseBundle`, `MacBundle`, `ReleaseAssembly` | the scripts of a release |
| `Desk` | fourteen parts in one specification: it extends `FileCleanup` and instantiates the other modules |
| `MassRenameProofs`, `StoreAuditProofs`, `AuditLifecycleProofs`, `FileCleanupProofs`, `IconLoaderProofs`, `SourcesProofs`, `DeskAuditProofs`, `DeskUserProofs` | theorems and their proofs |
| `MCMassRename`, `MCStoreAudit`, `MCIconLoader`, `MCViews` | values of constants and bounds for TLC; `AuditLifecycle`, `Sources` and `Settings` are checked directly |
| `MCDesk` | an instance of `Desk` for the run `desk`: values of its constants, and fewer initial states for the parts that do not run |

Correspondence of state and actions, in short (the comments at the VARIABLES
name the Python attributes):

* **MassRename.** `disk` maps directory entries to contents; `op` is the one
  move under way in `_move_without_overwrite` and `_copy_exclusive_then_remove`,
  one step for each system call (`MoveLink`, `MoveCopyOpen`, `MoveCopyDone`,
  `MoveUnlinkSource`, `MoveUndo`, and their failures). `pc` walks through
  `execute_local_package_mass_rename`: `Stage*`, `Finalize*`, and the two
  rollbacks `Restore*` for staging (`_restore_staged`, last row first) and for
  finalizing (inline, first row first). `External*` is another program, `Crash`
  the end of the process. Rendering of names and the sanitising of file names are
  abstracted to a choice of a name or of none; sizes and times of files to
  "there or gone".
* **StoreAudit.** `fetch[<<a, m>>]` is one `_fetch_locale_pair` with its steps
  gate, slot, recheck, request, retry; `app[a]` is `_fetch_app_bounded`; `main`
  is `audit_apps` with its window of submitted futures. Pause and Stop are
  actions of their own. Of a listing only the presence of update date and
  version matters, because nothing else steers the code.
* **AuditLifecycle.** One action per handler: `Run`, `Recheck`, `StartTimer`,
  `Pause`, `Resume`, `Stop`, `LoadFile`, `ChooseApks`, `Clear`, `TakeRow`,
  `TakeDone`, `FinalizeTimer`; `WorkerStep` is a worker of a list or a local
  source. `queue` holds queued signals in their order, `timers` the zero timers.
* **IconLoader.** `Ask` is `icon_for_row`, `Loaded*`, `Stored`, `Finish*` its
  signal handlers, `DiskThread` the pool's only thread, `ClearBegins` to
  `ClearTimesOut` the clear and its bounded wait, `CheckBusy` the deferred timer.
* **Sources.** One action per user choice and per signal; `threads` are the
  daemon threads with the number they carry, `dialogs` the stack of open message
  boxes and file dialogs. A handler that opens a box is two actions, one before
  and one after it, since Qt delivers signals and timers in between.
* **StoreCache.** `_write_json` is `OpenTemp`, `WriteTemp`, `ReplaceFile`, one
  step for each system call, `WriteFails` their failures; `out` is the name the
  file a writer has open goes by, since a replacement moves what others have
  open. Ages of entries are the audits they come from.
* **LocalLibrary.** `scan.work` is the library a rescan builds, entry by entry;
  the library shown stays what it was until the rescan returns. Times, and the
  texts of statuses, are abstracted to the order of scans.
* **FileCleanup.** `op` is one batch from plan to synchronisation; a file is its
  bytes and a mark for what `stat` says, which every change changes. The
  comparison of versions that suggests a batch keeps no state and is left out.
* **CustomViews.** A layout is the columns it shows and those with a width; their
  order is abstracted. Columns that are always shown or follow the history
  settings are never in it. Ids are fresh, as uuids are.
* **Settings.** A document maps keys to values; values no property tells apart
  are left out. `Loaded` is `load_settings` with its upgrades.
* **ScanCapture.** One action for each ADB command; `Pinned` are the commands that
  name a phone. `compact` says of each fact of the compact part which phone told it;
  `Aggregate` takes over what the compact part has and asks for the rest, as
  `collect_device_metadata_v9` does. The parsing of what ADB says is left out.
* **PersonalDevice.** `slot` and `owner` are the two fields, read and written in
  separate steps by the window (reader 0) and by a worker for each audit; a worker
  goes on when its audit is given up. `pending` is the id by which the dialog knows
  the purpose of the capture it waits for. A question is a nested event loop: what it
  asks about is fixed when it is put on the stack `question`, captures may end above
  it, and the action that follows the answer (`Delete`, `SaveLocally`, `Replace`) uses
  what the list selects by then. Renaming a profile asks too, but changes names only,
  and is left out.
* **BrowserSignIn.** The debugger answers in order, late, and with events in
  between; a clock of a few ticks stands for the deadlines.
* **DeviceResolution.** `step` walks a phase through `enrich_rows_with_device_`
  `specific_resolution`: context, cache, authorisation, window. `create_personal_`
  `auth_bundle` takes the credentials before it talks to Google and looks at
  neither pause nor Stop meanwhile. Requests that end after the phase has returned
  are dropped, as their result is.
* **AlternativePhase.** Budget is one tick of active time. What a provider says of
  an app is abstracted to who said it.
* **ReleaseBundle.** Contents are numbers and a digest is the content; licence
  texts and components are names. Recording the inventory again changes the
  inventory only. The upstream archives, the compiler and codesign are external.
* **MacBundle.** One action for each rename, link and their undoing (`PutBack`,
  `Unwind`, `Restore`), and one for the failure of each; `Kill` ends the job
  anywhere. **ReleaseAssembly.** Downloads, merge, checksums; then the
  retention job, which may end after each deletion.
* **Desk.** `part` is chosen at the start and names the module that runs; the
  variables of the others stay as they start. The variables of the part "cleanup"
  are those of `FileCleanup` itself, the others are instances, one state for each.
  The initial states of `MCDesk` are some of those of `DeskSpec` and its steps
  are the same, so the theorems about `DeskSpec` are about the very formulas the
  run checks, for every value of the constants.

## Runs

Eleven runs look at one module each, and `desk` at fourteen parts. `desk` takes
about two minutes on two cores (2.1 million states), `store_audit_pools` as much
(0.7 million, under fairness), the others about one or less.

| run | shows | bounds and why they are enough |
| --- | --- | --- |
| `mass_rename_disk` | no file lost, none overwritten; `BatchInv`: rows follow files, the batch status is true, no second names are left behind without a report; the batch ends; implements `BatchMove` | two files, four names of which two differ in case only on a folding file system, two interventions: swaps, case-only renames and every failing call; two rows are enough for a conflict between a file being restored and one already finalized; under fairness |
| `store_audit_pools` | the audit ends: no thread waits for ever for one of a pool, a slot, a resume or another's answer; `AuditInv`: slots are given back, verdicts rest on the answers they claim, the selected market's listing survives, each app has its row, with several apps at once | two apps, two other markets, two workers: both app threads wait at the same time for four requests, which two fallback threads answer through two slots, so that a pool shared by both kinds would be full of waiting apps (the mutant `FallbackSharesPool`). No retry, one pause; the selected market has neither app, others have it or not, the first app's request may raise: what a request goes through is in `desk`. Under fairness |
| `lifecycle` | `RunInv`: rows are the running audit's own, a stopped full audit ends stopped, what can be exported is final, the inventory is of the last successful audit, and until a recheck only success is saved; `RechecksHold`: nothing of an audit is left when idle, and a recheck merges into the rows it began from; implements `AuditRuns` until the first recheck; Stop ends, never stuck | two apps, two sessions of which one may be a recheck or follow an audit given up, one pause, faults before and after the rows are installed; under fairness. A session number is also spent when an audit is given up, so no audit starts beside the worker of one: that case is in the theorems, which hold for every number of sessions |
| `icons` | clear is final, busy is reported; `RequestsSettle`: bounds, one place per request, requests end | one app updated between two results and another one; every capacity is 1 so that each is at its limit, two pending requests, one new generation or clear; under fairness |
| `sources` | newest choice wins, one operation awaited, scans end | four choices, so that a scan, a superseding one, its download and a fourth choice overlap, and one unreadable list; under fairness |
| `desk` | twenty-two properties of fourteen parts, below | below |
| `recheck_stop`, `recheck_history`, `icons_busy`, `sources_audit`, `views_header`, `settings_lost` | one counterexample each | see [disagreements](#disagreements-between-the-code-and-what-is-said-of-it) |

The parts of `desk` share nothing that one of them writes while another is at
work - files and settings they read of each other are inputs of each module - so
one graph with `part` fixed at the start explores exactly the union of their
graphs. Its properties, by part:

| part | property | bounds |
| --- | --- | --- |
| cache | `EntriesAndRowsFit`: an entry, on disk or on its way there, was found by the audit it is dated by in its own market; metadata completes only the rows it was requested for. `UndisturbedOperationsHold`: an operation nobody came between has exactly its effect | one package, two markets, two audits beside the window, one failed write or change of market: every pair of writers overlaps at every system call |
| library | `LibraryIsSound`: what is present is what the latest parse of its path gave, and what was made can be saved and loaded. `UntouchedStaysPresent`: partial, nested and cancelled rescans declare no untouched file absent | one path under two nested roots, two contents, two rescans, one change or refused access: locations of different paths never meet in the code |
| cleanup | `DeletionsAreReviewed`: only a reviewed file goes, and a duplicate only while a kept copy has the same bytes. `RowsFollowDeletions` | two files, two contents, one change, one failing deletion |
| views | `ViewsAreKept`: the table shows the active view and what is saved loads. `OtherSourceIsKept` | three columns (of all sources, of phones, of packages), two views a family, three edits, which an open dialog and a scan that ends under it need |
| settings | `SettingsKeepMeaning`: whoever reads, before or after an upgrade was written, finds the user's last choice | every older document, four writes |
| sign-in | `AnswersBelong` | deadline of three ticks, one unsolicited message, two sessions |
| personal | `ProfilesHold`: the configured profile exists, unless another item was selected when its deletion was confirmed; an audit's profile is of the scanned phone, unless somebody accessed the slot between another's two halves; a saved one keeps its model | two phones of different models, one saved profile, two dialogs; the bounds of the module are split over the initial states (`PersonalInit`): two captures and all questions on a library that can be used, and an audit, a capture and an exchange of phones on the slot |
| resolution | `EvidenceFitsItsSession`, `EveryMissIsAnswered` | two apps, two audits, two sign-ins, one request thread, so that a worker that was given up meets a second session |
| alternative | `RowsSayWhatSourcesSaid`: each source of each app has exactly one result, said by it | one app, two stores, two phases, one change of store or failed write |
| scan | `CaptureIsSound`: a session called complete has a dump of every package from its phone; its other facts are of that phone or of the compact part, which is of it unless a phone was put in its place between two compact commands | two phones, two packages, two threads, four changes of what is attached: the phone is exchanged and put back before `Verify`, which therefore passes |
| store | `StopBoundsRequests`: after Stop only what is in flight answers; `PauseAdmitsNoFetch`; `AuditInv` and the refinement of `AuditPromise`, with every answer, a retry and an exception anywhere | one app, two other markets, both languages in these, two threads of the fallback pool that share two slots, one retry, one pause: all paths of one app; several apps are in `store_audit_pools` |
| candidate | `CandidateIsSound`: the preparing and the validating program agree, and accept only what is complete and official | one preparation over any staging that an earlier one may have left, two reads of each download; the theorem has any number of preparations |
| app | `BundleIsSound`: runtime paths serve after any failing calls, those of the undoing included, except exactly those of items that could not be renamed back; such a bundle is never signed; signatures seal. A job killed between a rename and its link leaves data unlinked; the property leaves such jobs out | all kinds of data the script moves, three failing calls: the link of the second profile, its renaming back, and a call of the unwinding, so that both are left behind |
| release | `ReleasesHold`: a release is consistent, the latest artifacts stay | two targets, two sources, two commits, three workflow runs |

`CHECK_DEADLOCK FALSE` stands where the modelled activity may be over: a batch
has ended, every icon is there, the choices or the bounds are used up.

History variables are not in the program, and no step of it depends on them:
`existed`, `gone` (MassRename), `late` (StoreAudit), `stopped` (AuditLifecycle),
`cleared` (IconLoader), `newest` (Sources and ReleaseAssembly), `disturbed`
(StoreCache), `setback` (LocalLibrary), `unseen`, `ours` (FileCleanup), `dropped`
(CustomViews), `chosen` (Settings), `accepted` (BrowserSignIn), `exchanged`
(ScanCapture), `slips`, `raced` (PersonalDevice), `stranded` (MacBundle), `meddled`
(ReleaseBundle), `killed` (MacBundle); the last two also bound their event to one
occurrence, and an id that slipped is not given to a new profile, as no id is given twice.

## Fairness

Weak fairness only, and only where the scheduler or a time-out of the code gives
it:

* a runnable thread runs: `Execute` in MassRename, `FetchStep`, `AppStep` and
  `MainStep` in StoreAudit, `WorkerStep` in AuditLifecycle, `DiskThread` in
  IconLoader, `ThreadEnds` in Sources. Requests, ADB commands and downloads
  have time-outs, so a thread that waits for one goes on. In StoreAudit each
  fetch has its own weak fairness, and the slot's acquisition polls with a
  time-out, so that no strong fairness is assumed of the semaphore. `PoolsSpec` of
  `MCStoreAudit` is `FairSpec` within a bound of the answers a request may have; the
  bound leaves each thread another step wherever it takes one away, so the fairness
  of the steps within it asks nothing the code does not give;
* the event loop delivers signals and fires timers (`UiStep`, `Handle`,
  `CheckBusy`, `TakeSignal`, `StartTimer`);
* in Sources the user answers an open box (`Answer`), since a modal box keeps
  the window from everything else.

The user never has to press anything else: `AuditEnds` is claimed when the audit
is not paused for ever, `NeverStuck` likewise.

## Proofs

TLAPS checks these for every value of the constants.

**MassRenameProofs** (assumes `ConstantsAssumption`: a number of rows, distinct
special values, folding maps names to names). Two inductive invariants, one about
contents and one about places.

* `TypeCorrect`: `Spec => []TypeOK`.
* `NoFileIsLost`: `Spec => []NothingLost`. `NothingLost` is not inductive: when
  the old name is removed one has to know that the new one holds the complete
  file, and when a move is undone, that the old one does. The inductive
  invariant `IInv` adds `MoveInv`, which says this of each step of the move under way,
  and `PlanInv`: a batch under way has a name for every row and renames at least
  one, so that the loops have a first and a last row.
  The argument: a name is only ever removed by a step of the move that has just
  established the same content at the move's other name, and the environment
  leaves these two names alone while the move is under way (`Busy`).
* `NothingIsOverwritten`: `Spec => NeverOverwrites`, from the exclusive link and
  the exclusive open.
* `BatchIsSound`: `Spec => []BatchInv`. The report and the table name places, so
  the invariant `PlaceInv` follows every row's file through the batch: where each
  loop stands and which rows it has passed (`Control`), whose bytes a place can hold
  (`OwnBytes`), that what other programs write is unlike every file seen before
  (`Fresh`), where the file of a row is between two moves (`AtHome`), that a move
  is of its own row's file (`MovesOwnFile`), that no file has two names but the one
  being moved (`OneName`), that a temporary name is in use only for a file on its
  way or a reported one (`Temporaries`), and
  that report, verdict and table agree with all this (`ReportSound`,
  `VerdictSound`, `RowsFollowFiles`).
* `BatchIsTwoPhase`: `Spec => ImplementsBatch`, the refinement of `BatchMove` step
  by step. It covers every permutation of names, so cycles of three and more need
  no run of their own.

**StoreAuditProofs** (assumes `ConstantsAssumption`: any numbers of apps,
markets and retries, a positive one of workers and a positive batch size).

* `AuditIsSound`: `Spec => []AuditInv`; `StopIsHonoured`: `Spec =>
  []StopBoundsRequests`; `PauseIsHonoured`: `Spec => PauseAdmitsNoFetch`;
  `PromiseIsKept`: `Spec => ImplementsPromise`. One inductive invariant, in which
  free slots and fetches that hold one add up to all (`SlotsConserved`), the
  answers after a Stop and the requests still in flight are together no more than the slots
  (`LateBound`), a fetch has an answer once it is done (`FetchesSound`), and each
  app's thread walks through the markets: the ones before its own have answered,
  the ones after it were not asked (`Walk`). A verdict of absence is true because
  the walk has counted every market; a slot is given back because every step that
  leaves the slot's steps returns it, exceptions included.

**AuditLifecycleProofs** (assumes `ConstantsAssumption`: at least one app, a known
source, numbers as bounds).

* `AuditsAreSound`: `Spec => []RunInv`, with any number of abandoned audits whose
  workers go on, and any recheck, stop and fault. A worker reports once: there is
  at most one result of a session, in the queue or behind its timer
  (`ResultsOnce`), and while the current one's is on its way its audit is active
  (`ResultsAwaited`), so that a finalization that is not stale ends its own
  audit, once. Sessions are numbered in their order (`Numbered`), rows are of
  audits that have started (`RowsAreOld`), and until the first recheck what is
  marked, incomplete or saved is that of full audits (`UntilRecheck`).
* `RechecksAreKept`: `Spec => RechecksHold`; the rows a recheck merges into are
  those it started from, since progressive rows never touch the merge base.
* `FullAuditsKeepThePromise`: `Spec => ImplementsRuns`, and `WithoutRechecks`: a
  behaviour without a recheck is one of `AuditRuns`. With rechecks it is not, as
  the runs `recheck_stop` and `recheck_history` show; that is the bound of this
  theorem, and of the last part of `RunInv`.

**FileCleanupProofs** (assumes `ConstantsAssumption`: audited files have paths, a
path is not the mark of none, numbers as bounds).

* `OnlyReviewedFilesGo`: `Spec => DeletionsAreReviewed`. What a batch knows of the
  files it has looked at (`LooksHold`) is conditional: a file it has hashed has
  the bytes of its group as long as `stat` says of it what it said at the review
  (`Known`), and the file that is to go was looked at last or changed since
  (`Seen`). Both survive changes by other programs, since a change gives a
  file a mark no plan has (`MarksAreOld`). That a copy stays is that the group was
  reviewed with a copy the user did not select, and hashed again with it.
* `RowsFollow`: `Spec => []RowsFollowDeletions`. Two rows may name one path, after
  a rename over a file another program removed; then only one of them follows.
  The invariant therefore says that candidates and rows correspond one to one
  (`CandidatesMatch`), which equality of sets of paths would not keep, and that at
  every moment of a batch the rows whose file is gone are those already marked
  and those of the batch (`RowsOfDeleted`).

**IconLoaderProofs** (assumes `ConstantsAssumption`: finitely many keys, which
are pairs of a package and an update, and positive capacities).

* `TypeCorrect`: the types, among them that the counter of downloads never goes
  below zero and that every task waiting in the pool is new.
* `OldWorkStaysOut`: `Spec => []ClearedStaysClear`. The inductive invariant adds
  that `cleared <= generation`, that the item the disk thread is about to write
  is not older than the last clear, and that memory is empty while a clear
  waits; lookups and downloads still on their way need no bound, since they are
  checked against the generation when they arrive. The one gap is
  the disk thread between its check and its write: its item may be retired
  there, but not by a completed clear, because a clear waits for the thread and
  gives up (without clearing) when the wait times out.
* `BusyIsReported`: `Spec => []WorkIsReported`; every handler that may create
  work ends with a notification.
* `RequestsAreInFlight`: `Spec => [](WithinBounds /\ PendingInFlight)`, the safety
  part of `RequestsSettle`. An item of the current generation is at exactly one place
  if it is pending and at none if it is not (`Placed`), since the same icon may
  be asked for again in the same generation and must meet nothing left of its
  first request; all places but the running task and the signals are emptied with each
  generation (`Ages`). Replies, queue and pool then hold each item once (`Distinct`), so that
  what a download adds to or takes from the counter is what it adds to or takes from
  the set of replies, and the `max(0, ...)` of the code never hides a difference.

**SourcesProofs** (its only assumption is that the two bounds are numbers, so
the theorems hold for any number of choices).

* `OneIsAwaited`: `Spec => []OneSourceOperation`.
* `NewestChoiceWins`: `Spec => NewestWins`.

  Both come from one invariant. A phone is awaited not only by its request
  (`active`), but also by a download that will continue it (`pending`) and by an
  open question whether to download: each can bring a request back. While it is
  awaited in any of these forms no folder is being discovered, and the newest
  choice of the user is that phone (`OneAwaited`). It is kept because
  choosing anything but a phone withdraws the first two; the open question cannot be withdrawn, and need
  not be: file dialogs open on the bare window only, so at the moment one is
  answered it is the bottom of the stack and no question is under it
  (`FileDialogsBelow`). Requests are numbered from 1, so that a report is never
  current while no request is (`Numbered`).

**DeskAuditProofs** and **DeskUserProofs** prove every property of the run `desk`
but those of `FileCleanup`, which have their own module. Both assume
`DeskAssumption`: folders are a tree, each source has its columns, saved profiles
have names of their own, a phase has a thread and the Store a worker, bounds are
numbers. Nothing bounds the phones, packages, apps, stores, markets, views,
audits or sign-ins. In each part an invariant is kept by the part's own
specification. The steps of the desk are steps of the part that runs, and leave
the invariants of the others alone (`ScanStays`, `CacheStays` and so on); a part
that does not run owes nothing.

Of the parts of an audit (`DeskAuditProofs`):

* `CapturesAreSound`: `DeskSpec => []CaptureIsSound`. A session has exactly one
  phone once the first command is over (`OneOwner`). The full commands name it, so a
  dump they bring is of it (`FactsOfOwner`). A compact command is answered by the only
  phone there is, which is the session's unless another one stood in its place while one
  could be asked (`OnlyOwnerTells`); an aggregate fact is of the session's phone or as the
  compact part got it. A session is called complete at its end only (`CompleteLast`).
* `LibrariesStaySound` and `UntouchedFilesStay`: `DeskSpec => []LibraryIsSound` and
  `DeskSpec => []UntouchedStaysPresent`. The rescan takes entries one by one, so
  the invariant says what it has yet to look at: as long as nothing failed, a file of
  the root that nobody touched was seen, is waiting, or lies in a folder that is
  waiting (`NothingMissed`). That a folder which holds a file holds it directly or in
  one of its folders is induction over the depth of a tree; it is part of the assumption
  on the folders, which TLC evaluates for the run's.
* `EntriesAndRowsAlwaysFit`: `DeskSpec => []EntriesAndRowsFit`. It does not depend on
  the order of the writers: the file, the temporary file and what each writer is
  about to write are always texts of true entries (`Lookups`), because every job makes
  true entries of true ones, what is torn reads as empty, and what an audit
  found is not revised. The cache is updated only with an audit that is over
  (`JobsFit`), so that its job means the same whenever it is carried out.
* `UndisturbedOperationsAreExact`: `DeskSpec => UndisturbedOperationsHold`. A writer
  no other came between is alone with the files: every other handle is closed,
  what it will write is made of the cache that is there, and what is at the
  temporary name is its own text (`Undisturbed`). That its replacement is not
  refused follows.
* `EvidenceFits`: `DeskSpec => []EvidenceFitsItsSession`. The context of a phase and
  its credentials are read at different times. They are of one session because
  the user can only sign in while the window is idle, when every phase that is
  not over has been cancelled (`OneRuns`); a cancelled phase may still take
  credentials of a later session, but submits nothing (`SessionHeld`).
* `MissesAreAnswered`: `DeskSpec => []EveryMissIsAnswered`; an eligible app without an
  answer is waiting or under way (`NoneForgotten`).
* `EverySourceHasItsSay`: `DeskSpec => []RowsSayWhatSourcesSaid`. From the load of its
  cache on, each task of a phase is waiting, under way or has one result
  (`OneResult`, `AskedOnce`), and a result was given by the source of its task or by none
  (`OwnAnswers`), though the user may choose another store between two phases.
* `AuditsStaySound`: `DeskSpec => []AuditInv`, and `StopsStayHonoured`,
  `PausesStayHonoured` and `PromisesStayKept`: the same for `StopBoundsRequests`,
  `PauseAdmitsNoFetch` and `ImplementsPromise`, by the theorems of `StoreAuditProofs`.
  That module is instantiated a second time under the desk's names; the lemmas show
  that what the two instances define is the same, so that a behaviour of the desk is one
  of the audit (`DeskAudits`). The run has one app; the theorems have any number.

Of what the user keeps, and of a release (`DeskUserProofs`):

* `AnswersAlwaysBelong`: `DeskSpec => []AnswersBelong`. Requests are numbered after the last
  answered one, so a late answer with the number awaited is of a request of the same kind:
  only the request for the cookies is repeated under its number (`NumberIsOfOneKind`).
* `SettingsAlwaysMean`: `DeskSpec => []SettingsKeepMeaning`, for every document an older
  version may have left.
* `ViewsStayKept` and `OtherSourceStays`: `DeskSpec => []ViewsAreKept` and `DeskSpec =>
  OtherSourceIsKept`. The editor works on a copy, while a scan that ends may present
  another family: a view both the copy and the saved ones have keeps its columns, and the
  copy's active view is the saved one or none (`DraftFits`).
* `ProfilesStayRight`: `DeskSpec => ProfilesHold`. A profile and its owner are read and
  written in two steps, by the window and any number of workers. As long as nobody
  accessed a half between another's two, the halves belong together whenever no writer
  is between them, and a reader that is holds the half that goes with the owner it is
  about to read (`HalvesFit`). What the settings name and the open
  dialog lists exists, unless its deletion was confirmed for another item
  (`NamesExist`), and the questions to delete and to save are asked in the open dialog
  (`QuestionsBelong`), so that what their answers list is listed there.
* `CandidatesStaySound`: `DeskSpec => []CandidateIsSound`. Nothing a preparation leaves is refused
  by the validation: one part for each group of its checks (`FilesHold`, `MappingsHold`,
  `EvidenceHolds`, `SourcesHold`), kept until somebody meddles (`Intact`); a package with
  an attribution that cannot be resolved never gets there (`ManifestFits`).
* `BundlesStaySound`: `DeskSpec => []BundleIsSound`. One item at a time is between its two
  places, and of the others exactly the stranded ones do not serve (`PathsServe`): while
  there is one, a run refuses before it reaches the signature, as a bundle that is done
  or signed has every link. A failure of the undoing is the second one at least
  (`CallsFailed`). What is signed holds only what was signed before it (`SignedInside`).
* `ReleasesStayGood`: `DeskSpec => ReleasesHold`. From the merge on the bundle serves each
  candidate (`BundleFits`); no artifact is younger than the newest of its kind (`NewestFit`),
  so the retention job keeps it, wherever it ends.

Only model-checked: liveness (`BatchEnds`, `AuditEnds`, `StopEnds`,
`NeverStuck`, `ScanSettles`, `RequestsEnd` in `RequestsSettle`), which the prover
cannot do. All safety that a passing run checks is a theorem. What a
recursive or folded definition computes for every input needs induction over data,
which is out of its reach as well.

Some definitions of the models have their present form for the sake of the
proofs: `PlaceOf` looks a row up by the greatest place instead of selecting a
subsequence, strangers of a rename get numbers after those of the rows, and a
plan of nothing is a function on the empty set. A choice between cases is written
with `IF` where one case excludes the other, `Resolved` of `ReleaseBundle` speaks of the
parts of a path and not of a subsequence of them, and constants of different modules
have different names in `Desk`.

## Disagreements between the code and what is said of it

With a run (`findings` of PROJECT.json):

1. **A Stop during a recheck may end as success** (`recheck_stop`,
   `StopIsAuthoritative`). The targeted branch of
   `DeviceWindow._on_controlled_done` takes the worker's outcome as it comes;
   only the branch of full audits lets an accepted Stop win.
2. **A recheck saves rows of a stopped audit** (`recheck_history`,
   `OnlySuccessIsSaved`). `save_history_merged` gets all rows that are shown.
3. **Data Maintenance may stay disabled** (`icons_busy`, `BusySettles`). The
   deferred check may still run before the disk thread has returned to its pool;
   nothing checks again until the next icon.
4. **A phone scan may replace the source of a running audit** (`sources_audit`,
   `AuditKeepsItsSource`). The end of an ADB download whose scan was superseded
   by a dropped file calls `_set_busy(False)`, which enables Scan Phone during
   the file's audit; the scan then sets `source_mode`, and the finalization of
   the file's audit takes its rows for the phone's inventory.

5. **Resizing a column may change a view's columns** (`views_header`,
   `HeaderChoosesNoColumns`). A stopped or failed folder discovery gives the
   source up (`main_window.py:774`, `759`) without presenting the table again: the
   header still shows the columns of packages while the family is that of phones,
   and the next resize writes them into the phones' active view.
6. **A deleted Smart Query returns** (`settings_lost`, `SavedQueriesStay`). The
   toggle of Exclude System Apps saves the window's copy of the settings, which
   saving and deleting queries do not refresh (`results_window.py:292`).

Met while modelling, each visible in the models but not a run of its own:

* `_on_worker_failed` of an orphaned download clears the id of whichever scan is
  active, so the completion of a newer scan is dropped. The scan does end
  (`ScanSettles`), without a result.
* An unreadable list dropped while a folder is being discovered invalidates the
  discovery before it is rejected, and nobody calls `_set_busy(False)`: the
  window stays busy until a readable list is dropped (`RejectFile`).
* Stop pressed during an audit while a folder is being discovered stops the
  discovery only (`StopFolder`), and forgets the source of the audit.
* The start of a recheck goes through the start of a full audit, which clears
  the inventory summary (`main_window.py:864`), although rechecks are described
  as leaving it.
* `_v9_targeted_active` survives a recheck whose finalization raises, because the
  line that resets it (`insights_window.py:767`) is then not reached; the next
  full audit is finalized as a targeted one.
* A recheck leaves `_results_incomplete` as its start set it, so the exports stay
  disabled until the next full audit, although `device_window.py:945` enables the
  export button; after a fault late in finalization ("after rows") it
  is enabled although the outcome is a failure.
* During a recheck a progressive row may be written at the place of another
  app's row, since the index was built for the recheck's own rows
  (`device_window.py:641`); the merge at the end repairs it. `RechecksHold` is about that
  merge and says nothing of the rows shown before it.
* The except branch of the audit worker repeats the enrichment that may have
  raised (`device_window.py:876`); a second exception would emit no outcome. The
  model takes an outcome as emitted once the branch is entered.
* An update of the cache of Store results may be lost to another writer that read
  before it (`StoreCache`: `disturbed`), and the phase of an audit that was given
  up may write back the alternative-distribution cache the user just cleared. Of
  two writers that share a temporary name one may put a torn text in place, which
  reads as an empty cache. The properties of the cache hold in spite of that, and do not
  exclude it.
* `load_settings` upgrades are saved by the window only; a command-line audit
  computes them anew each time, with the same result (`SettingsKeepMeaning`).
  `reset_settings` has no caller, nor have the scans of `LocalLibrary` a dialog.
* A clock that is set back between two rescans makes a library that cannot be
  saved (`LocalLibrary`: `setback`).
* The compact commands of a phone scan name no phone (`scan_session.py:401`): when
  phones are exchanged between two of them, a session joins the serial of one with the
  packages of the other, although it is described as made "from one atomic, read-only
  phone source". The full part pins its commands "so a disconnect/replacement cannot
  collect another phone" (`device_insights.py:443`), but takes over the Android version,
  disabled packages and installers of the compact part (455, 468, 485): an exchange
  that is undone before the serial is verified puts another phone's facts into full
  metadata that is called complete (`ScanCapture`: `exchanged`). Stop is noticed by the
  full part only.
* `_receive_response` of the sign-in has no deadline of its own while messages
  keep coming.
* Deleting a saved profile removes the item that is selected when the question is
  answered (`preferences_window.py:1496`), not the one that was asked about: a capture
  that ends while the question is open selects "Connected phone", which is then removed
  from the list, while the deleted profile stays in it and can be saved as configured
  (`PersonalDevice`: `slips`).
* The slot of the captured phone is described as replaced "atomically"
  (`device_window.py:217`), but its two fields are assigned one after the other, while workers
  read and write them (`raced`): an audit may then speak for one phone with the
  profile of another. `ProfilesHold` leaves exactly these behaviours out, so no property
  would catch a change that makes them more frequent.
* When two captures of a phone run at once, the second ends under the purpose the
  first one's dialog had (`PersonalDevice`: `pending`); only the check of the
  model keeps it from replacing a profile of another phone.
* A job killed between the rename and the link of `normalize_macos_bundle` leaves
  the data in Resources without a link, and the next run refuses it. So does a failure
  of the undoing itself: the unwinding ends at the first one, and what was not renamed back has no
  link (`stranded`).
* When clearing the icon cache times out or raises, the table keeps its old
  generation number while the loader's has advanced.

## What is not modelled

Within the modelled components: contents of rows beyond what steers the code,
progress texts, repainting; the once-per-process prune of a malformed icon
index, which is over before the initial state; closing the window, which ends
the process; scans of phones without any package. A zero timer is taken to fire
before the user's next input, as Qt does for a timer already due. In MassRename
other programs do not touch the two names of a move between its two system
calls: with the calls the program uses that window cannot be closed.

`ReleaseBundle` has one version of every archive at a time, and the optional
OpenSSL libraries as plain files where the package may hold symbolic links.
`StoreCache` leaves out that entries expire after 45 days. `PersonalDevice`
leaves out names. `AlternativePhase` leaves out what an answer says.

The other components, and why they are not modelled, are in the inventory and in
PROJECT.json: what is left is parsing, rendering, pure functions of rows, I/O,
and one cache in which no order of calls does harm.

## Plan

1. Abstract specifications still worth stating: a cache as a map with atomic
   updates, which `StoreCache` refines where no writer is disturbed, and a
   resumable window of requests, shared by `DeviceResolution`, `AlternativePhase`
   and the main loop of `StoreAudit`.
2. Pure operators (version relationship, change history, evaluation of queries)
   against reference definitions over bounded inputs.
