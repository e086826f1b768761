------------------------------ MODULE Sources -------------------------------
(***************************************************************************)
(* Where the apps to audit come from (ui/audit_window, insights_window and *)
(* main_window): an app list dropped on the window, package files, the     *)
(* packages of a folder, or a phone scanned through ADB, which may have to *)
(* be downloaded first.                                                    *)
(*                                                                         *)
(* Folders, ADB, its download and the phone are worked on by threads that  *)
(* report through queued signals.  A thread belongs to a request or to a   *)
(* generation and its report is dropped when that is no longer the current *)
(* one; the download of ADB belongs to none.  Message boxes and file       *)
(* dialogs keep handling signals and timers while they are open, so they   *)
(* may pile up.  The audit itself is AuditLifecycle; here it runs and      *)
(* ends.  A zero timer fires before the next input of the user; a phone    *)
(* has packages.                                                           *)
(***************************************************************************)
EXTENDS Naturals, Sequences

CONSTANTS
  MaxSequence,    \* bound: phone scans begun or superseded
  MaxRejected     \* bound: dropped lists that cannot be read

ASSUME ConstantsAssumption == MaxSequence \in Nat /\ MaxRejected \in Nat

VARIABLES
  source,      \* source_mode, and the request or generation it came from
  sequence,    \* _scan_request_sequence
  active,      \* _active_scan_request_id, 0 for None
  pending,     \* pending_scan_after_install
  generation,  \* _local_apk_parse_generation
  parsing,     \* _local_apk_parse_active: a folder is being discovered
  busy,        \* _source_operation_active
  buttons,     \* "Choose File" and "Scan Phone" are enabled
  due,         \* the first audit of the source is a pending timer
  auditing,    \* source of the running audit
  dialogs,     \* open dialogs, the topmost last
  threads,     \* running threads
  queue,       \* their signals not yet delivered
  newest,      \* history: the user's newest choice of a source
  rejected     \* lists rejected so far

scan    == <<sequence, active, pending>>
folder  == <<generation, parsing>>
control == <<busy, buttons>>
work    == <<threads, queue>>
vars == <<source, scan, folder, control, due, auditing, dialogs, work, newest, rejected>>

Source(kind, id) == [kind |-> kind, id |-> id]
NoSource == Source("none", 0)
Thread(kind, id) == [kind |-> kind, id |-> id]

Idle == ~busy /\ auditing = NoSource             \* ~_operation_running()
User == dialogs = <<>> /\ ~due                   \* the window takes input
Top(d) == dialogs # <<>> /\ dialogs[Len(dialogs)] = d /\ ~due
Closed == SubSeq(dialogs, 1, Len(dialogs) - 1)

SetBusy(b) == busy' = b /\ buttons' = ~b         \* _set_busy

\* A plausible mistake: the request stays the active one.
InvalidateScanKeeping ==
  /\ sequence' = sequence + 1
  /\ pending' = FALSE /\ UNCHANGED active

InvalidateScan ==                                \* _invalidate_phone_scan_request
  /\ sequence' = sequence + 1
  /\ active' = 0 /\ pending' = FALSE

InvalidateParse == generation' = generation + 1 /\ parsing' = FALSE

MayChoose == sequence < MaxSequence

-----------------------------------------------------------------------------
(* App lists and package files. *)

\* An app list dropped on the window or chosen.
LoadFile ==
  /\ User /\ MayChoose
  /\ InvalidateParse /\ InvalidateScan
  /\ source' = Source("file", generation')
  /\ auditing' = NoSource
  /\ SetBusy(FALSE)
  /\ due' = TRUE
  /\ newest' = source'
  /\ UNCHANGED <<dialogs, work, rejected>>

\* One that cannot be read.
RejectFile ==
  /\ User /\ rejected < MaxRejected
  /\ InvalidateParse
  /\ rejected' = rejected + 1
  /\ UNCHANGED <<source, scan, control, due, auditing, dialogs, work, newest>>

OpenDialog(d) ==
  /\ User /\ Idle
  /\ dialogs' = <<d>>
  /\ UNCHANGED <<source, scan, folder, control, due, auditing, work, newest, rejected>>

DismissDialog ==
  /\ (Top("packages") \/ Top("folder"))
  /\ dialogs' = Closed
  /\ UNCHANGED <<source, scan, folder, control, due, auditing, work, newest, rejected>>

\* _establish_local_apk_candidates of some packages, or of none
Establish(found) ==
  /\ InvalidateParse /\ InvalidateScan
  /\ source' = IF found THEN Source("local", generation') ELSE NoSource
  /\ auditing' = NoSource
  /\ SetBusy(FALSE)
  /\ due' = found

ChoosePackages(found) ==
  /\ Top("packages") /\ MayChoose
  /\ dialogs' = Closed
  /\ Establish(found)
  /\ newest' = Source("local", generation')
  /\ UNCHANGED <<work, rejected>>

\* The packages of an earlier local source are forgotten at once.
BeginFolder ==
  /\ Top("folder") /\ MayChoose
  /\ dialogs' = Closed
  /\ auditing' = NoSource
  /\ InvalidateScan
  /\ generation' = generation + 1 /\ parsing' = TRUE
  /\ source' = IF source.kind = "local" THEN NoSource ELSE source
  /\ SetBusy(TRUE)
  /\ threads' = threads \cup {Thread("folder", generation')}
  /\ newest' = Source("local", generation')
  /\ UNCHANGED <<due, queue, rejected>>

StopFolder ==
  /\ User /\ parsing
  /\ InvalidateParse
  /\ source' = NoSource
  /\ SetBusy(FALSE)
  /\ newest' = NoSource
  /\ UNCHANGED <<scan, due, auditing, dialogs, work, rejected>>

-----------------------------------------------------------------------------
(* The phone. *)

BeginRequest ==                                  \* _begin_phone_scan_request
  /\ sequence' = sequence + 1
  /\ active' = sequence'

\* Scan Phone, by its button or by the menu
ScanPhone ==
  /\ User /\ MayChoose
  /\ (buttons \/ Idle)
  /\ InvalidateParse
  /\ source' = IF source.kind = "local" THEN NoSource ELSE source
  /\ BeginRequest
  /\ SetBusy(TRUE)
  /\ threads' = threads \cup {Thread("adb", active')}
  /\ newest' = Source("device", active')
  /\ UNCHANGED <<pending, due, auditing, dialogs, queue, rejected>>

\* _start_adb_scan of request r; a thread for it may already be running.
StartScan(r) ==
  /\ SetBusy(TRUE)
  /\ \E kind \in {"scan", "second scan"} :
       /\ Thread(kind, r) \notin threads
       /\ kind = "second scan" => Thread("scan", r) \in threads
       /\ threads' = threads \cup {Thread(kind, r)}

AnswerNo ==
  /\ Top("install?")
  /\ dialogs' = Closed
  /\ active' = 0
  /\ UNCHANGED <<source, sequence, pending, folder, control, due, auditing, work, newest,
                 rejected>>

AnswerYes ==
  /\ Top("install?")
  /\ dialogs' = Closed
  /\ pending' = TRUE
  /\ SetBusy(TRUE)
  /\ threads' = threads \cup {Thread("install", sequence)}
  /\ UNCHANGED <<source, sequence, active, folder, due, auditing, queue, newest, rejected>>

\* A plausible mistake: the scan that waited for ADB is forgotten.
CloseInstalledForgetting ==
  /\ Top("installed")
  /\ dialogs' = Closed
  /\ pending' = FALSE
  /\ UNCHANGED <<source, sequence, active, folder, control, due, auditing, work, newest,
                 rejected>>

\* _on_adb_install_done, after its message: the waiting scan, or a new one
CloseInstalled ==
  /\ Top("installed")
  /\ dialogs' = Closed
  /\ IF ~pending THEN UNCHANGED <<scan, control, threads>>
     ELSE /\ pending' = FALSE
          /\ IF active = 0 THEN BeginRequest ELSE UNCHANGED <<sequence, active>>
          /\ StartScan(active')
  /\ UNCHANGED <<source, folder, due, auditing, queue, newest, rejected>>

-----------------------------------------------------------------------------
(***************************************************************************)
(* Threads.  Every begin and every invalidation of a scan request cancels  *)
(* the threads of earlier ones, and so for folders.                        *)
(***************************************************************************)
Cancelled(t) ==
  IF t.kind = "folder" THEN t.id # generation ELSE t.id # sequence

Signals(t) ==
  CASE t.kind = "adb"     -> {"adb found", "adb missing", "scan failed"}
    [] t.kind = "install" -> {"installed", "install failed"}
    [] t.kind = "folder"  -> IF Cancelled(t) THEN {"folder done"} ELSE {"folder done", "folder failed"}
    [] OTHER              -> {"scan done", "scan failed"}

ThreadEnds(t) ==
  /\ threads' = threads \ {t}
  /\ IF t.kind \in {"scan", "second scan"} /\ Cancelled(t) THEN UNCHANGED queue
     ELSE \E s \in Signals(t) : queue' = Append(queue, [kind |-> s, id |-> t.id])
  /\ UNCHANGED <<source, scan, folder, control, due, auditing, dialogs, newest, rejected>>

-----------------------------------------------------------------------------
(* The window takes the next signal. *)

Signal == Head(queue)
Take(kind) == queue # <<>> /\ Signal.kind = kind /\ queue' = Tail(queue)

\* A plausible mistake: any completion of a scan is taken.
IsCurrentAlways == TRUE

IsCurrent == Signal.id = active                  \* _is_current_scan_completion
IsCurrentFolder == Signal.id = generation /\ parsing

Ignored(kind, current) ==
  /\ Take(kind) /\ ~current
  /\ UNCHANGED <<source, scan, folder, control, due, auditing, dialogs, threads, newest,
                 rejected>>

Stale ==
  \/ \E k \in {"adb found", "adb missing", "scan done", "scan failed"} : Ignored(k, IsCurrent)
  \/ \E k \in {"folder done", "folder failed"} : Ignored(k, IsCurrentFolder)

AdbFound ==
  /\ Take("adb found") /\ IsCurrent
  /\ StartScan(active)
  /\ UNCHANGED <<source, scan, folder, due, auditing, dialogs, newest, rejected>>

\* The user is asked, where a download is supported.
AdbMissing ==
  /\ Take("adb missing") /\ IsCurrent
  /\ SetBusy(FALSE)
  /\ \/ active' = 0 /\ UNCHANGED dialogs
     \/ dialogs' = Append(dialogs, "install?") /\ UNCHANGED active
  /\ UNCHANGED <<source, sequence, pending, folder, due, auditing, threads, newest, rejected>>

Installed ==
  /\ Take("installed")
  /\ SetBusy(FALSE)
  /\ dialogs' = Append(dialogs, "installed")
  /\ UNCHANGED <<source, scan, folder, due, auditing, threads, newest, rejected>>

\* _on_worker_failed
InstallFailed ==
  /\ Take("install failed")
  /\ active' = 0 /\ pending' = FALSE
  /\ SetBusy(FALSE)
  /\ UNCHANGED <<source, sequence, folder, due, auditing, dialogs, threads, newest, rejected>>

DeviceScanned == due' = (due \/ auditing = NoSource)   \* MainWindow._on_adb_scan_done

ScanDone ==
  /\ Take("scan done") /\ IsCurrent
  /\ active' = 0
  /\ source' = Source("device", Signal.id)
  /\ SetBusy(FALSE)
  /\ DeviceScanned
  /\ UNCHANGED <<sequence, pending, folder, auditing, dialogs, threads, newest, rejected>>

ScanFailed ==
  /\ Take("scan failed") /\ IsCurrent
  /\ active' = 0
  /\ SetBusy(FALSE)
  /\ UNCHANGED <<source, sequence, pending, folder, due, auditing, dialogs, threads, newest,
                 rejected>>

FolderDone(found) ==
  /\ Take("folder done") /\ IsCurrentFolder
  /\ Establish(found)
  /\ UNCHANGED <<dialogs, threads, newest, rejected>>

FolderFailed ==
  /\ Take("folder failed") /\ IsCurrentFolder
  /\ parsing' = FALSE
  /\ source' = NoSource
  /\ SetBusy(FALSE)
  /\ UNCHANGED <<scan, generation, due, auditing, dialogs, threads, newest, rejected>>

TakeSignal ==
  \/ Stale \/ AdbFound \/ AdbMissing \/ Installed \/ InstallFailed \/ ScanDone \/ ScanFailed
  \/ \E found \in BOOLEAN : FolderDone(found)
  \/ FolderFailed

-----------------------------------------------------------------------------
(* Audits. *)

StartAudit ==
  /\ auditing' = source
  /\ buttons' = FALSE
  /\ UNCHANGED <<source, scan, folder, busy, dialogs, work, newest, rejected>>

\* The timer of _schedule_first_audit
StartTimer ==
  /\ due /\ due' = FALSE
  /\ IF auditing = NoSource /\ source # NoSource THEN StartAudit
     ELSE UNCHANGED <<source, scan, folder, control, auditing, dialogs, work, newest, rejected>>

Run ==
  /\ User /\ Idle /\ source # NoSource
  /\ StartAudit
  /\ UNCHANGED due

AuditEnds ==
  /\ auditing # NoSource
  /\ auditing' = NoSource
  /\ buttons' = TRUE
  /\ UNCHANGED <<source, scan, folder, busy, due, dialogs, work, newest, rejected>>

Init ==
  /\ source = NoSource /\ newest = NoSource /\ auditing = NoSource
  /\ sequence = 0 /\ active = 0 /\ pending = FALSE
  /\ generation = 0 /\ parsing = FALSE
  /\ busy = FALSE /\ buttons = TRUE /\ due = FALSE
  /\ dialogs = <<>> /\ threads = {} /\ queue = <<>>
  /\ rejected = 0

Answer ==
  \/ DismissDialog \/ BeginFolder \/ AnswerNo \/ AnswerYes \/ CloseInstalled
  \/ \E found \in BOOLEAN : ChoosePackages(found)

Command ==
  \/ LoadFile \/ RejectFile \/ StopFolder \/ ScanPhone \/ Run
  \/ OpenDialog("packages") \/ OpenDialog("folder")

Next ==
  \/ Command \/ Answer \/ TakeSignal \/ StartTimer \/ AuditEnds
  \/ \E t \in threads : ThreadEnds(t)

Spec == Init /\ [][Next]_vars

\* Threads end (ADB and the download have time-outs), the event loop goes on,
\* and the user answers a dialog.
FairSpec ==
  /\ Spec
  /\ WF_vars(TakeSignal) /\ WF_vars(StartTimer) /\ WF_vars(Answer)
  /\ WF_vars(\E t \in threads : ThreadEnds(t))

-----------------------------------------------------------------------------
(* Properties. *)

(***************************************************************************)
(* A thread's report establishes a source only while it is the user's      *)
(* newest choice: "a stale phone completion cannot replace" a file or a    *)
(* newer request (tests/test_scan_session_ui.py).                          *)
(***************************************************************************)
NewestWins ==
  [][source' # source /\ source' # NoSource =>
       source'.kind = newest'.kind /\ source'.id >= newest'.id]_vars

(***************************************************************************)
(* A phone scan and a folder discovery are never both current, so that     *)
(* never two results are awaited, however dialogs and downloads overlap.   *)
(***************************************************************************)
OneSourceOperation == ~(parsing /\ active # 0)

(***************************************************************************)
(* A phone scan ends, also through the installation of ADB: it is not left *)
(* waiting for a thread or a dialog that is gone.                          *)
(***************************************************************************)
ScanSettles == \A r \in 1..(MaxSequence + 2) : active = r ~> active # r

(***************************************************************************)
(* "Complete phone A data cannot bleed into phone B or a file"             *)
(* (docs/SCANSESSION_PHASE_C_VALIDATION.md): the source of a running audit *)
(* is not replaced by another under it.                                    *)
(***************************************************************************)
AuditKeepsItsSource == auditing # NoSource => source \in {auditing, NoSource}
=============================================================================
