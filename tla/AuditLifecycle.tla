--------------------------- MODULE AuditLifecycle ---------------------------
(***************************************************************************)
(* One window's audits (the _start_audit, _on_controlled_done and          *)
(* _complete_controlled_done overrides of the window classes in ui/).      *)
(*                                                                         *)
(* The UI thread runs one handler at a time: a user action, the next       *)
(* queued signal of a worker, or a zero timer.  Every started audit has a  *)
(* worker thread of its own, which outlives its audit when that is         *)
(* abandoned; the session number tells its late signals apart.  A list     *)
(* source (file or device) is audited by the worker of DeviceWindow, a     *)
(* local source by the one of MainWindow, which parses the packages first. *)
(* A targeted recheck audits some rows and merges them into the others.    *)
(***************************************************************************)
EXTENDS Naturals, Sequences, FiniteSetsExt

CONSTANTS
  NApps,         \* number of apps of the source
  FirstSource,   \* source loaded at first: "file", "device" or "local"
  MaxSession,    \* bound: session numbers used
  MaxRechecks,   \* bound: targeted rechecks
  MaxPauses,     \* bound: pauses
  Faults         \* where finalization may raise, a subset of FaultPoints

FaultPoints == {"before rows", "after rows", "after reset"}

ASSUME ConstantsAssumption ==
  /\ NApps \in Nat \ {0}
  /\ FirstSource \in {"file", "device", "local"}
  /\ MaxSession \in Nat /\ MaxRechecks \in Nat /\ MaxPauses \in Nat
  /\ Faults \subseteq FaultPoints

Apps == 1..NApps   \* in source order
Sessions == 1..MaxSession

VARIABLES
  source,       \* source_mode
  session,      \* _audit_session
  state,        \* _audit_state
  requested,    \* _audit_requested_outcome
  finalizing,   \* _finalizing_session, 0 for None
  rows,         \* current_rows
  incomplete,   \* _results_incomplete
  base,         \* _merge_base_rows, <<>> for None
  marked,       \* _v9_targeted_active
  index,        \* _provisional_row_indexes, 0 for no entry
  indexed,      \* _progressive_refresh_session, 0 for None
  inventory,    \* session _last_inventory_changes is of, 0 when empty
  startDue,     \* a current first-audit timer is pending
  queue,        \* queued signals of the workers
  timers,       \* results whose finalization timer is pending
  audit,        \* worker and events of each session
  history,      \* session each app's saved history row is from
  ended,        \* _last_audit_outcome of each session that ended
  stopped,      \* history: sessions whose Stop was accepted
  used          \* rechecks and pauses used up

view    == <<rows, incomplete, index, indexed>>
targets == <<base, marked>>
saved   == <<inventory, history>>
control == <<session, state, requested, finalizing>>
vars == <<source, control, view, targets, saved, startDue, queue, timers, audit,
          ended, stopped, used>>

Active == state # "idle"                              \* _audit_active
Exportable == state = "idle" /\ rows # <<>> /\ ~incomplete

Row(p, s, final) == [app |-> p, from |-> s, final |-> final]
AllApps == [p \in Apps |-> p]
RowsOf(seq, s, final) == [i \in DOMAIN seq |-> Row(seq[i], s, final)]
NoIndex == [p \in Apps |-> 0]

\* The elements of seq that are in S, in their order; Ordinal counts them up to
\* position i.
Ordinal(S, seq, i) == Cardinality({j \in 1..i : seq[j] \in S})
Picked(S, seq) ==
  [k \in 1..Ordinal(S, seq, Len(seq)) |->
     seq[CHOOSE i \in DOMAIN seq : seq[i] \in S /\ Ordinal(S, seq, i) = k]]

\* The last position of app p, 0 for none: of two entries a dict keeps the later.
PlaceOf(p, seq) == Max({0} \cup {i \in DOMAIN seq : seq[i] = p})
AppsIn(seq) == [i \in DOMAIN seq |-> seq[i].app]
IndexOf(seq) == [p \in Apps |-> PlaceOf(p, seq)]
RowOr(p, seq, default) ==
  LET place == PlaceOf(p, AppsIn(seq)) IN IF place = 0 THEN default ELSE seq[place]

-----------------------------------------------------------------------------
(* Starting an audit. *)

NoAudit == [step |-> "none", apps |-> <<>>, tried |-> {}, got |-> {}, local |-> FALSE,
            targeted |-> FALSE, cancel |-> FALSE, paused |-> FALSE, outcome |-> "none"]

Begin(seq, cached, targeted) ==
  /\ session < MaxSession
  /\ session' = session + 1
  /\ requested' = "none"
  /\ state' = "running"
  /\ incomplete' = TRUE
  /\ indexed' = session + 1
  /\ audit' = [audit EXCEPT ![session + 1] =
       [NoAudit EXCEPT !.step = IF source = "local" THEN "parsing" ELSE "store",
                       !.apps = seq, !.got = cached, !.local = source = "local",
                       !.targeted = targeted]]
  /\ inventory' = 0
  /\ UNCHANGED <<source, finalizing, history, queue, timers, ended, stopped>>

\* A list source: one provisional row per app, the cached ones answered already.
StartList(cached) ==
  /\ source # "local"
  /\ Begin(AllApps, cached, FALSE)
  /\ rows' = RowsOf(AllApps, session + 1, FALSE)
  /\ index' = IndexOf(AllApps)
  /\ UNCHANGED <<targets, used>>

\* A local source: rows appear as packages are parsed.
StartLocal ==
  /\ source = "local"
  /\ Begin(AllApps, {}, FALSE)
  /\ rows' = <<>> /\ index' = NoIndex
  /\ base' = <<>>
  /\ UNCHANGED <<marked, used>>

Start == StartLocal \/ \E cached \in {{}, {1}} : StartList(cached)

\* Run: also the full refresh, which empties the merge base.
Run ==
  /\ state = "idle"
  /\ Start
  /\ UNCHANGED startDue

\* _start_subset_refresh: the rows of the previous results are shown again
\* once the audit of the wanted ones has started.
Recheck(S) ==
  /\ state = "idle" /\ source # "local" /\ used.rechecks < MaxRechecks
  /\ LET wanted == Picked(S, AppsIn(rows)) IN
     /\ wanted # <<>>
     /\ Begin(wanted, {}, TRUE)
     /\ index' = IndexOf(wanted)
  /\ base' = rows
  /\ marked' = TRUE
  /\ used' = [used EXCEPT !.rechecks = @ + 1]
  /\ UNCHANGED <<rows, startDue>>

\* The timer of _schedule_first_audit.
StartTimer ==
  /\ startDue
  /\ startDue' = FALSE
  /\ IF state = "idle" THEN Start
     ELSE UNCHANGED <<source, control, view, targets, saved, queue, timers, audit,
                      ended, stopped, used>>

-----------------------------------------------------------------------------
(* User actions during an audit. *)

Pause ==
  /\ state = "running" /\ used.pauses < MaxPauses
  /\ state' = "paused"
  /\ audit' = [audit EXCEPT ![session].paused = TRUE]
  /\ used' = [used EXCEPT !.pauses = @ + 1]
  /\ UNCHANGED <<source, session, requested, finalizing, view, targets, saved, startDue,
                 queue, timers, ended, stopped>>

Resume ==
  /\ state = "paused"
  /\ state' = "running"
  /\ audit' = [audit EXCEPT ![session].paused = FALSE]
  /\ UNCHANGED <<source, session, requested, finalizing, view, targets, saved, startDue,
                 queue, timers, ended, stopped, used>>

Stop ==
  /\ state \in {"running", "paused"}
  /\ requested' = "stopped"
  /\ audit' = [audit EXCEPT ![session].cancel = TRUE, ![session].paused = FALSE]
  /\ state' = "stopping"
  /\ stopped' = stopped \cup {session}
  /\ UNCHANGED <<source, session, finalizing, view, targets, saved, startDue, queue,
                 timers, ended, used>>

\* _abandon_active_audit
Abandon ==
  IF state = "idle"
  THEN UNCHANGED <<control, targets, audit, ended>>
  ELSE /\ session < MaxSession
       /\ session' = session + 1
       /\ requested' = "abandoned"
       /\ ended' = [ended EXCEPT ![session] = "abandoned"]
       /\ audit' = [audit EXCEPT ![session].cancel = TRUE, ![session].paused = FALSE]
       /\ finalizing' = 0
       /\ base' = <<>> /\ marked' = FALSE
       /\ state' = "idle"

\* An app list dropped on the window, at any time.
LoadFile ==
  /\ Abandon
  /\ source' = "file"
  /\ index' = NoIndex /\ indexed' = 0
  /\ inventory' = 0
  /\ IF source = "local" THEN rows' = <<>> /\ incomplete' = FALSE
                         ELSE UNCHANGED <<rows, incomplete>>
  /\ startDue' = TRUE
  /\ UNCHANGED <<history, queue, timers, stopped, used>>

\* Local package files chosen; the control is enabled when idle.
ChooseApks ==
  /\ state = "idle"
  /\ source' = "local"
  /\ rows' = <<>> /\ incomplete' = FALSE
  /\ index' = NoIndex /\ indexed' = 0
  /\ inventory' = 0
  /\ startDue' = TRUE
  /\ UNCHANGED <<control, targets, history, queue, timers, audit, ended, stopped, used>>

Clear ==
  /\ state = "idle" /\ rows # <<>>
  /\ rows' = <<>> /\ incomplete' = FALSE
  /\ index' = NoIndex /\ indexed' = 0
  /\ UNCHANGED <<source, control, targets, saved, startDue, queue, timers, audit, ended,
                 stopped, used>>

-----------------------------------------------------------------------------
(***************************************************************************)
(* The worker thread of audit s.  The Store audit itself is StoreAudit;    *)
(* here an app's row is completed at any moment, and the worker goes on    *)
(* when all are, or when Stop let the remaining ones out.                  *)
(***************************************************************************)
worker == <<source, control, view, targets, saved, startDue, timers, ended, stopped, used>>

At(s, step) == audit[s].step = step
AppsOf(s) == Range(audit[s].apps)
RowSignal(s, p) == [kind |-> "row", session |-> s, app |-> p]
DoneSignal(s, outcome, result) ==
  [kind |-> "done", session |-> s, outcome |-> outcome, rows |-> result,
   local |-> audit[s].local]

\* A package is parsed; a row shows it.
ParseFile(s, p) ==
  /\ At(s, "parsing") /\ p \in AppsOf(s) \ audit[s].tried
  /\ audit' = [audit EXCEPT ![s].tried = @ \cup {p}, ![s].got = @ \cup {p}]
  /\ queue' = Append(queue, RowSignal(s, p))
  /\ UNCHANGED worker

RejectFile(s, p) ==
  /\ At(s, "parsing") /\ p \in AppsOf(s) \ audit[s].tried
  /\ audit' = [audit EXCEPT ![s].tried = @ \cup {p}]
  /\ UNCHANGED <<queue, worker>>

Ended(s) == audit' = [audit EXCEPT ![s].step = "ended"]

\* No session guard on these two results.
ParseEnds(s) ==
  /\ At(s, "parsing")
  /\ audit[s].cancel \/ audit[s].tried = AppsOf(s)
  /\ LET parsed == Picked(audit[s].got, audit[s].apps) IN
     CASE parsed = <<>> ->
            /\ queue' = Append(queue, DoneSignal(s, IF audit[s].cancel THEN "stopped"
                                                    ELSE "failed", <<>>))
            /\ Ended(s)
       [] parsed # <<>> /\ audit[s].cancel ->
            /\ queue' = Append(queue, DoneSignal(s, "stopped", RowsOf(parsed, s, FALSE)))
            /\ Ended(s)
       [] OTHER ->
            /\ audit' = [audit EXCEPT ![s].step = "store", ![s].apps = parsed, ![s].got = {}]
            /\ UNCHANGED queue
  /\ UNCHANGED worker

RowCompleted(s, p) ==
  /\ At(s, "store") /\ p \in AppsOf(s) \ audit[s].got
  /\ audit' = [audit EXCEPT ![s].got = @ \cup {p}]
  /\ queue' = IF session = s THEN Append(queue, RowSignal(s, p)) ELSE queue
  /\ UNCHANGED worker

WorkerDecides(s) ==
  /\ At(s, "store")
  /\ audit[s].cancel \/ (audit[s].got = AppsOf(s) /\ ~audit[s].paused)
  /\ audit' = [audit EXCEPT ![s].step = "decided", ![s].outcome =
                 IF audit[s].cancel \/ requested = "stopped" THEN "stopped" ELSE "success"]
  /\ UNCHANGED <<queue, worker>>

\* A plausible mistake: a failing worker ends without a result.
WorkerFailsSilently(s) ==
  /\ At(s, "store")
  /\ audit' = [audit EXCEPT ![s].step = "ended", ![s].outcome = "failed"]
  /\ UNCHANGED <<queue, worker>>

WorkerFails(s) ==
  /\ At(s, "store")
  /\ audit' = [audit EXCEPT ![s].step = "decided", ![s].outcome = "failed"]
  /\ UNCHANGED <<queue, worker>>

\* A plausible mistake: an audit that was stopped does not report.
WorkerEmitsUnlessStopped(s) ==
  /\ At(s, "decided")
  /\ queue' = IF session = s /\ requested = "none"
              THEN Append(queue, DoneSignal(s, audit[s].outcome,
                     RowsOf(Picked(audit[s].got, audit[s].apps), s, TRUE)))
              ELSE queue
  /\ Ended(s)
  /\ UNCHANGED worker

\* emit_result
WorkerEmits(s) ==
  /\ At(s, "decided")
  /\ queue' = IF session = s /\ requested # "abandoned"
              THEN Append(queue, DoneSignal(s, audit[s].outcome,
                     RowsOf(Picked(audit[s].got, audit[s].apps), s, TRUE)))
              ELSE queue
  /\ Ended(s)
  /\ UNCHANGED worker

WorkerStep(s) ==
  \/ \E p \in Apps : ParseFile(s, p) \/ RejectFile(s, p) \/ RowCompleted(s, p)
  \/ ParseEnds(s) \/ WorkerDecides(s) \/ WorkerFails(s) \/ WorkerEmits(s)

-----------------------------------------------------------------------------
(* The UI thread takes the next queued signal. *)

Signal == Head(queue)
Taken == queue # <<>> /\ queue' = Tail(queue)

RowIsCurrent == Signal.session = session /\ Active

\* _on_progressive_row
TakeRow ==
  /\ Taken /\ Signal.kind = "row"
  /\ IF ~RowIsCurrent THEN UNCHANGED <<rows, index, indexed>>
     ELSE LET idx == IF indexed = session THEN index
                     ELSE IndexOf(AppsIn(rows))
              row == Row(Signal.app, Signal.session, FALSE)
          IN  /\ indexed' = session
              /\ IF idx[row.app] = 0
                 THEN /\ rows' = Append(rows, row)
                      /\ index' = [idx EXCEPT ![row.app] = Len(rows) + 1]
                 ELSE /\ rows' = [rows EXCEPT ![idx[row.app]] = row]
                      /\ index' = idx
  /\ UNCHANGED <<source, control, incomplete, targets, saved, startDue, timers, audit,
                 ended, stopped, used>>

\* _on_controlled_done of MainWindow: finalization is left to a zero timer.
TakeDone ==
  /\ Taken /\ Signal.kind = "done"
  /\ IF Signal.session # session
     THEN UNCHANGED <<state, finalizing, index, indexed, timers, audit>>
     ELSE /\ index' = NoIndex /\ indexed' = 0
          /\ finalizing' = session
          /\ audit' = [audit EXCEPT ![session].paused = FALSE]
          /\ state' = "finalizing"
          /\ timers' = timers \cup {Signal}
  /\ UNCHANGED <<source, session, requested, rows, incomplete, targets, saved, startDue,
                 ended, stopped, used>>

-----------------------------------------------------------------------------
(***************************************************************************)
(* Finalization (_complete_controlled_done and the _on_controlled_done     *)
(* overrides it calls).  Fault names where, if anywhere, they raise:       *)
(* before the rows are installed, after that, or after the reset of        *)
(* _v9_targeted_active.                                                    *)
(***************************************************************************)
\* A plausible mistake: a queued success beats Stop.
AuthoritativeQueued(r) == r.outcome

\* CompactWindow: once Stop was accepted, a queued success is a stopped audit.
Authoritative(r) ==
  IF requested = "stopped" /\ r.outcome = "success" THEN "stopped" ELSE r.outcome

\* A plausible mistake: a recheck shows only its own rows.
MergedOnlyNew(old, new) == IF new = <<>> THEN old ELSE new

\* DeviceWindow: the rechecked rows among the others.
Merged(old, new) == [i \in DOMAIN old |-> RowOr(old[i].app, new, old[i])]

\* save_history, or save_history_merged for a targeted recheck
HistoryOf(seq, merge) ==
  [p \in Apps |-> RowOr(p, seq, [from |-> IF merge THEN history[p] ELSE 0]).from]

Promotable(r, outcome, fault) == outcome = "success" /\ fault = "none" /\ ~r.local

\* A plausible mistake: results are called complete before their rows are installed.
IncompleteAfterOutcome(targeted, fault, outcome) ==
  IF targeted THEN incomplete ELSE outcome # "success"

\* A recheck leaves _results_incomplete as its start set it.
IncompleteAfter(targeted, fault, outcome) ==
  IF targeted \/ fault = "before rows" THEN incomplete ELSE outcome # "success"

Finalize(r, fault, saves) ==
  LET targeted == base # <<>>
      outcome  == IF targeted THEN r.outcome ELSE Authoritative(r)
      shown    == IF fault = "before rows" THEN rows
                  ELSE IF targeted THEN Merged(base, r.rows) ELSE r.rows
      flagged  == targeted \/ marked
      kept     == IF targeted THEN inventory ELSE 0
  IN
  /\ r \in timers /\ timers' = timers \ {r}
  /\ r.session = session /\ finalizing = r.session
  /\ base' = <<>>
  /\ marked' = (marked /\ fault \in {"before rows", "after rows"})
  /\ rows' = shown
  /\ incomplete' = IncompleteAfter(targeted, fault, outcome)
  /\ ended' = [ended EXCEPT ![session] = IF fault = "none" THEN outcome ELSE "failed"]
  /\ IF Promotable(r, outcome, fault) /\ saves # "none"
     THEN /\ history' = HistoryOf(shown, flagged)
          /\ inventory' = IF ~flagged /\ source = "device" /\ shown # <<>> /\ saves = "all"
                          THEN session ELSE kept
     ELSE inventory' = kept /\ UNCHANGED history
  /\ finalizing' = 0
  /\ state' = "idle"
  /\ index' = NoIndex /\ indexed' = 0
  /\ UNCHANGED <<source, session, requested, startDue, queue, audit, stopped, used>>

FinalizeStale(r) ==
  /\ r \in timers /\ timers' = timers \ {r}
  /\ r.session # session \/ finalizing # r.session
  /\ UNCHANGED <<source, control, view, targets, saved, startDue, queue, audit, ended,
                 stopped, used>>

FinalizeTimer ==
  \E r \in timers :
    \/ FinalizeStale(r)
    \/ \E saves \in {"all", "history", "none"} : Finalize(r, "none", saves)
    \/ \E fault \in Faults : Finalize(r, fault, "none")

UiStep == TakeRow \/ TakeDone \/ FinalizeTimer \/ StartTimer

UserStep ==
  \/ Run \/ Pause \/ Resume \/ Stop \/ LoadFile \/ ChooseApks \/ Clear
  \/ \E S \in SUBSET Apps : Recheck(S)

-----------------------------------------------------------------------------
Init ==
  /\ source = FirstSource
  /\ session = 0 /\ state = "idle" /\ requested = "none" /\ finalizing = 0
  /\ rows = <<>> /\ incomplete = FALSE
  /\ base = <<>> /\ marked = FALSE
  /\ index = NoIndex /\ indexed = 0
  /\ inventory = 0 /\ history = [p \in Apps |-> 0]
  /\ startDue = TRUE
  /\ queue = <<>> /\ timers = {}
  /\ audit = [s \in Sessions |-> NoAudit]
  /\ ended = [s \in Sessions |-> "none"]
  /\ stopped = {}
  /\ used = [rechecks |-> 0, pauses |-> 0]

Next ==
  \/ UserStep
  \/ UiStep
  \/ \E s \in Sessions : WorkerStep(s)

Spec == Init /\ [][Next]_vars

\* Threads run, requests answer, and the event loop takes signals and timers.
FairSpec ==
  /\ Spec
  /\ \A s \in Sessions : WF_vars(WorkerStep(s))
  /\ WF_vars(UiStep)

-----------------------------------------------------------------------------
(* Properties. *)

States == {"idle", "running", "paused", "stopping", "finalizing"}
Outcomes == {"none", "success", "stopped", "failed", "abandoned"}

RowRecords == [app : Apps, from : Sessions, final : BOOLEAN]
AuditRecords ==
  [step : {"none", "parsing", "store", "decided", "ended"},
   apps : Seq(Apps), tried : SUBSET Apps, got : SUBSET Apps,
   local : BOOLEAN, targeted : BOOLEAN, cancel : BOOLEAN, paused : BOOLEAN,
   outcome : Outcomes]

TypeOK ==
  /\ source \in {"file", "device", "local"}
  /\ session \in 0..MaxSession /\ state \in States
  /\ requested \in {"none", "stopped", "abandoned"}
  /\ finalizing \in 0..MaxSession
  /\ rows \in Seq(RowRecords) /\ base \in Seq(RowRecords)
  /\ incomplete \in BOOLEAN /\ marked \in BOOLEAN /\ startDue \in BOOLEAN
  /\ index \in [Apps -> Nat] /\ indexed \in 0..MaxSession
  /\ inventory \in 0..MaxSession /\ history \in [Apps -> 0..MaxSession]
  /\ \A i \in DOMAIN queue : queue[i].session \in Sessions /\ queue[i].kind \in {"row", "done"}
  /\ \A r \in timers : r.session \in Sessions /\ r.outcome \in Outcomes
  /\ audit \in [Sessions -> AuditRecords]
  /\ ended \in [Sessions -> Outcomes]
  /\ stopped \subseteq Sessions

(***************************************************************************)
(* The state, the session being finalized and its pending timer always     *)
(* agree, and a recheck's merge base lives exactly as long as its audit:   *)
(* however the last audit ended, the next one starts clean.                *)
(***************************************************************************)
CleanWhenIdle ==
  /\ (state = "finalizing") <=> (finalizing # 0)
  /\ finalizing # 0 => finalizing = session /\ \E r \in timers : r.session = session
  /\ IF Active THEN base # <<>> <=> audit[session].targeted ELSE base = <<>>

(***************************************************************************)
(* The rows shown during an audit are its own (or, in a recheck, those it  *)
(* started from): a worker that outlived its audit changes nothing.        *)
(***************************************************************************)
OnlyOwnRows ==
  Active => \A i \in DOMAIN rows :
    rows[i].from = session \/ (audit[session].targeted /\ rows[i].from < session)

(***************************************************************************)
(* "Do not enable final export while provisional rows are still            *)
(* incomplete" (docs/SOURCE_WORKFLOW_V2_ACCEPTANCE.md): what can be        *)
(* exported is final.                                                      *)
(***************************************************************************)
ExportIsFinal == Exportable => \A i \in DOMAIN rows : rows[i].final

(***************************************************************************)
(* "Once Stop is accepted while the run is active, it remains              *)
(* authoritative" (comment in _on_controlled_done) over a success the      *)
(* worker had already queued.  Full audits keep it; a recheck takes the    *)
(* outcome as it comes.                                                    *)
(***************************************************************************)
StopIsAuthoritative == \A s \in stopped : ended[s] # "success"
FullStopsAreKept == \A s \in stopped : ended[s] = "success" => audit[s].targeted

\* The inventory summary is that of the last audit, a finished one of a device.
InventoryIsCurrent ==
  inventory # 0 => /\ inventory = session /\ ended[session] = "success"
                   /\ state = "idle" /\ source = "device"

(***************************************************************************)
(* Saved history only ever comes from audits that succeeded: the rows of a *)
(* stopped audit are "never promoted to the completed previous-audit       *)
(* baseline" (docs/PROJECT_DECISIONS.md).                                  *)
(***************************************************************************)
OnlySuccessIsSaved == \A p \in Apps : history[p] # 0 => ended[history[p]] = "success"

(***************************************************************************)
(* A recheck that ends normally gives back the rows it started from, in    *)
(* their order, with only its own ones exchanged.                          *)
(***************************************************************************)
RecheckMerges ==
  [][state = "finalizing" /\ base # <<>> /\ ended'[session] \in {"success", "stopped"} =>
       /\ DOMAIN rows' = DOMAIN base
       /\ \A i \in DOMAIN base :
            rows'[i].app = base[i].app /\ (rows'[i].from = session \/ rows'[i] = base[i])]_vars

(***************************************************************************)
(* Finished results can be exported once the window is idle                *)
(* (test_lifecycle_action_availability_and_clear_guard).                   *)
(***************************************************************************)
FinishedIsExportable ==
  state = "idle" /\ rows # <<>>
    /\ (\A i \in DOMAIN rows : rows[i].final /\ ended[rows[i].from] = "success")
  => Exportable

\* Before the first targeted recheck.
NoRecheck == used.rechecks = 0

(***************************************************************************)
(* What audits keep, whatever they leave behind them.  Two parts hold only *)
(* until the first recheck, which saves whatever is shown and leaves the   *)
(* flag of incomplete results as its start set it.                         *)
(***************************************************************************)
RunInv ==
  /\ TypeOK /\ CleanWhenIdle /\ OnlyOwnRows /\ ExportIsFinal
  /\ FullStopsAreKept /\ InventoryIsCurrent
  /\ NoRecheck => OnlySuccessIsSaved /\ FinishedIsExportable

\* What rechecks keep.
RechecksHold == []CleanWhenIdle /\ RecheckMerges

(***************************************************************************)
(* Stop brings the window back to idle, and an audit never hangs: the      *)
(* window is again and again idle, unless the user leaves it paused.       *)
(***************************************************************************)
StopEnds   == state = "stopping" ~> state = "idle"
NeverStuck == []<>(state \in {"idle", "paused"})

(***************************************************************************)
(* What audits promise, whatever their threads, signals and timers do: one *)
(* runs at a time, each ends once, none that was stopped succeeds, and only*)
(* the rows of an audit that succeeds become the baseline.  A recheck does *)
(* not keep this, so it is claimed of the steps up to the first one.       *)
(***************************************************************************)
Runs == INSTANCE AuditRuns WITH
  run <- [s \in Sessions |-> IF ended[s] # "none" THEN ended[s]
                             ELSE IF Active /\ s = session THEN "running" ELSE "none"],
  asked <- stopped,
  baseline <- history

ImplementsRuns == Runs!Init /\ [][NoRecheck' => [Runs!Next]_(Runs!vars)]_vars
=============================================================================
