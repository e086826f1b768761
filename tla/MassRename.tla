----------------------------- MODULE MassRename -----------------------------
(***************************************************************************)
(* Mass Rename of local package files                                      *)
(* (services/local_apk_mass_rename.py over services/local_apk_file_ops.py).*)
(*                                                                         *)
(* A batch is planned without touching the disk, re-validated when the     *)
(* user confirms it, and executed in two phases: every file first moves to *)
(* a hidden temporary name in its directory (staging), then from there to  *)
(* its final name (finalizing).  When a move fails, the files that have    *)
(* not reached their final name are moved back.  A move is three system    *)
(* calls - an exclusive hard link (or an exclusive copy where hard links   *)
(* are unsupported), the removal of the old name and, if that fails, the   *)
(* removal of the new one - and each of them can fail on its own.  Other   *)
(* programs create and remove files between any two of them, and the       *)
(* process can be killed.                                                  *)
(***************************************************************************)
EXTENDS Naturals, FiniteSets

CONSTANTS
  N,            \* number of rows of the batch; row i loads file i
  Names,        \* the visible file names of the directory
  PortableKey,  \* [Names -> Names]: one representative per NFC/casefold class
  FoldsCase,    \* TRUE when the file system identifies names of one class
  Unrendered,   \* the template renders no valid name for a row
  Free,         \* the content of a name that does not exist
  Partial,      \* the content of an unfinished copy
  NoReport,     \* no final location reported yet
  Missing,      \* final_location = None
  MaxExternal   \* bound: interventions of other programs

Files == 1..N

ASSUME ConstantsAssumption ==
  /\ N \in Nat \ {0}
  /\ MaxExternal \in Nat
  /\ FoldsCase \in BOOLEAN
  /\ PortableKey \in [Names -> Names]
  /\ \A n \in Names : PortableKey[PortableKey[n]] = PortableKey[n]
  /\ Names \cap Nat = {}
  /\ Unrendered \notin Names
  /\ {Free, Partial} \cap (Names \cup Nat) = {}
  /\ Free # Partial
  /\ {NoReport, Missing} \cap (Names \cup Nat) = {}
  /\ NoReport # Missing

(***************************************************************************)
(* Directory entries.  The temporary name `.saa-rename-<uuid>` of file i   *)
(* is the number i, so temporary names are fresh and visible names are not *)
(* numbers.  Contents: file i of the batch is the number i, any other file  *)
(* the directory held at first is its name, and the file another program   *)
(* makes in the k-th intervention is the number N + k.                     *)
(***************************************************************************)
Entry(n) == IF FoldsCase THEN PortableKey[n] ELSE n
Entries  == {Entry(n) : n \in Names}
Temp(i)  == i
Places   == Entries \cup Files
Contents == 1..(N + MaxExternal) \cup Entries

VARIABLES
  src, dst,   \* source name and rendered name of each row
  disk,       \* what each directory entry holds
  pc,         \* where the execution stands
  cur,        \* the row the current phase works on
  staged,     \* rows whose file was moved to its temporary name
  finalized,  \* rows whose file reached its final name
  op,         \* the move in progress
  stranded,   \* a file could not be moved back
  report,     \* final_location of each row's result
  verdict,    \* MassRenameBatchStatus
  rowAt,      \* location the results table shows for each row
  existed,    \* history: the files that ever existed
  gone,       \* history: the files another program removed
  undoFailed, \* history: the removal that undoes a move failed
  external    \* interventions so far

batchVars == <<cur, staged, finalized, stranded, report, verdict>>
history   == <<existed, gone, external>>
vars == <<src, dst, disk, pc, batchVars, op, rowAt, history, undoFailed>>

NoMove == [file |-> 0, from |-> Free, to |-> Free, data |-> Free, step |-> "idle"]

Lexists(p) == disk[p] # Free

-----------------------------------------------------------------------------
(* Planning.  One conflicting or invalid row blocks the whole batch. *)

Renames == {i \in Files : dst[i] # src[i]}

SourceMissing(i) == ~Lexists(Entry(src[i]))

DuplicateSource(i) ==
  \E j \in Files \ {i} : PortableKey[src[i]] = PortableKey[src[j]]

DuplicateDestination(i) ==
  \E j \in Files \ {i} : dst[j] # Unrendered /\ PortableKey[dst[i]] = PortableKey[dst[j]]

\* The destination exists, is not the source itself under another spelling,
\* and is not the source of a file the batch moves away.
OccupiedByStranger(i) ==
  /\ Lexists(Entry(dst[i]))
  /\ Entry(dst[i]) # Entry(src[i])
  /\ ~ \E j \in Renames : src[j] = dst[i]

HasBlockingIssues ==
  \E i \in Files :
     \/ SourceMissing(i)
     \/ dst[i] = Unrendered
     \/ DuplicateSource(i)
     \/ DuplicateDestination(i)
     \/ i \in Renames /\ OccupiedByStranger(i)

\* Size and modification time of every source still match the preview, and no
\* destination became occupied by a stranger.
PreflightPasses ==
  \A i \in Renames : disk[Entry(src[i])] = i /\ ~OccupiedByStranger(i)

Preview ==
  /\ pc = "preview"
  /\ pc' = IF HasBlockingIssues THEN "refused" ELSE "confirmed"
  /\ UNCHANGED <<src, dst, disk, batchVars, op, rowAt, history, undoFailed>>

SourceOrMissing(i) == IF Lexists(Entry(src[i])) THEN Entry(src[i]) ELSE Missing

ReportBlocked ==
  /\ report' = [i \in Files |-> SourceOrMissing(i)]
  /\ verdict' = "blocked"
  /\ pc' = "done"
  /\ UNCHANGED <<src, dst, disk, cur, staged, finalized, stranded, op, rowAt,
                 history, undoFailed>>

ExecuteRefused == pc = "refused" /\ ReportBlocked

ExecutePreflightFails ==
  pc = "confirmed" /\ Renames # {} /\ ~PreflightPasses /\ ReportBlocked

ExecuteNothing ==
  /\ pc = "confirmed"
  /\ Renames = {}
  /\ report' = [i \in Files |-> Entry(src[i])]
  /\ verdict' = "no_changes"
  /\ pc' = "done"
  /\ UNCHANGED <<src, dst, disk, cur, staged, finalized, stranded, op, rowAt,
                 history, undoFailed>>

First(S) == CHOOSE i \in S : \A j \in S : i <= j
Last(S)  == CHOOSE i \in S : \A j \in S : j <= i

ExecuteStart ==
  /\ pc = "confirmed"
  /\ Renames # {}
  /\ PreflightPasses
  /\ report' = [i \in Files |-> IF i \in Renames THEN NoReport ELSE Entry(src[i])]
  /\ cur' = First(Renames)
  /\ pc' = "stage"
  /\ UNCHANGED <<src, dst, disk, staged, finalized, stranded, op, verdict, rowAt,
                 history, undoFailed>>

-----------------------------------------------------------------------------
(***************************************************************************)
(* One move: rename_local_package_file and _move_without_overwrite.        *)
(***************************************************************************)
Idle == op.step = "idle"

Begin(i, from, to) ==
  op' = [file |-> i, from |-> from, to |-> to, data |-> Free, step |-> "open"]

\* The source is gone, the new name exists, or the link (and where links are
\* unsupported the exclusive creation of the copy) is refused.
MoveRefused ==
  /\ op.step = "open"
  /\ op' = [op EXCEPT !.step = "failed"]
  /\ UNCHANGED <<src, dst, disk, pc, batchVars, rowAt, history, undoFailed>>

\* A plausible mistake: the new name is taken without checking that it is unused.
CanOpenReplacing == op.step = "open" /\ Lexists(op.from)

CanOpen == op.step = "open" /\ Lexists(op.from) /\ ~Lexists(op.to)

MoveLink ==
  /\ CanOpen
  /\ disk' = [disk EXCEPT ![op.to] = disk[op.from]]
  /\ op' = [op EXCEPT !.data = disk[op.from], !.step = "linked"]
  /\ UNCHANGED <<src, dst, pc, batchVars, rowAt, history, undoFailed>>

MoveCopyOpen ==
  /\ CanOpen
  /\ disk' = [disk EXCEPT ![op.to] = Partial]
  /\ op' = [op EXCEPT !.data = disk[op.from], !.step = "copying"]
  /\ UNCHANGED <<src, dst, pc, batchVars, rowAt, history, undoFailed>>

\* copyfileobj, flush, fsync and copystat succeed; a copy that another program
\* removed meanwhile stays removed.
MoveCopyDone ==
  /\ op.step = "copying"
  /\ disk' = [disk EXCEPT ![op.to] = IF @ = Partial THEN op.data ELSE @]
  /\ op' = [op EXCEPT !.step = "linked"]
  /\ UNCHANGED <<src, dst, pc, batchVars, rowAt, history, undoFailed>>

\* A plausible mistake: an error while copying is ignored.
MoveCopyFailsIgnored ==
  /\ op.step = "copying"
  /\ op' = [op EXCEPT !.step = "linked"]
  /\ UNCHANGED <<src, dst, disk, pc, batchVars, rowAt, history, undoFailed>>

MoveCopyFails ==
  /\ op.step = "copying"
  /\ op' = [op EXCEPT !.step = "undo"]
  /\ UNCHANGED <<src, dst, disk, pc, batchVars, rowAt, history, undoFailed>>

MoveUnlinkSource ==
  /\ op.step = "linked"
  /\ Lexists(op.from)
  /\ disk' = [disk EXCEPT ![op.from] = Free]
  /\ op' = [op EXCEPT !.step = "renamed"]
  /\ UNCHANGED <<src, dst, pc, batchVars, rowAt, history, undoFailed>>

MoveUnlinkFails ==
  /\ op.step = "linked"
  /\ op' = [op EXCEPT !.step = "undo"]
  /\ UNCHANGED <<src, dst, disk, pc, batchVars, rowAt, history, undoFailed>>

MoveUndo ==
  /\ op.step = "undo"
  /\ Lexists(op.to)
  /\ disk' = [disk EXCEPT ![op.to] = Free]
  /\ op' = [op EXCEPT !.step = "failed"]
  /\ UNCHANGED <<src, dst, pc, batchVars, rowAt, history, undoFailed>>

MoveUndoFails ==
  /\ op.step = "undo"
  /\ op' = [op EXCEPT !.step = "failed"]
  /\ undoFailed' = TRUE
  /\ UNCHANGED <<src, dst, disk, pc, batchVars, rowAt, history>>

Executing == pc \in {"stage", "finalize", "unstage", "restore"}

Move ==
  /\ Executing
  /\ \/ MoveRefused \/ MoveLink \/ MoveCopyOpen \/ MoveCopyDone \/ MoveCopyFails
     \/ MoveUnlinkSource \/ MoveUnlinkFails \/ MoveUndo \/ MoveUndoFails

-----------------------------------------------------------------------------
(* Staging: every file to its temporary name, in plan order. *)

Later(i) == {j \in Renames : j > i}

StageBegin ==
  /\ pc = "stage" /\ Idle
  /\ Begin(cur, Entry(src[cur]), Temp(cur))
  /\ UNCHANGED <<src, dst, disk, pc, batchVars, rowAt, history, undoFailed>>

\* _temporary_path raises: no unused temporary name was found.
StageNoTemporary ==
  /\ pc = "stage" /\ Idle
  /\ pc' = "unstage"
  /\ UNCHANGED <<src, dst, disk, batchVars, op, rowAt, history, undoFailed>>

StageDone ==
  /\ pc = "stage" /\ op.step = "renamed"
  /\ staged' = staged \cup {cur}
  /\ op' = NoMove
  /\ IF Later(cur) # {}
       THEN cur' = First(Later(cur)) /\ UNCHANGED pc
       ELSE cur' = First(Renames) /\ pc' = "finalize"
  /\ UNCHANGED <<src, dst, disk, finalized, stranded, report, verdict, rowAt,
                 history, undoFailed>>

StageFailed ==
  /\ pc = "stage" /\ op.step = "failed"
  /\ pc' = "unstage"
  /\ op' = NoMove
  /\ UNCHANGED <<src, dst, disk, batchVars, rowAt, history, undoFailed>>

-----------------------------------------------------------------------------
(* Finalizing: every file from its temporary name to its final name. *)

FinalizeBegin ==
  /\ pc = "finalize" /\ Idle
  /\ Begin(cur, Temp(cur), Entry(dst[cur]))
  /\ UNCHANGED <<src, dst, disk, pc, batchVars, rowAt, history, undoFailed>>

FinalizeDone ==
  /\ pc = "finalize" /\ op.step = "renamed"
  /\ finalized' = finalized \cup {cur}
  /\ report' = [report EXCEPT ![cur] = Entry(dst[cur])]
  /\ op' = NoMove
  /\ IF Later(cur) # {}
       THEN cur' = First(Later(cur)) /\ UNCHANGED <<pc, verdict>>
       ELSE verdict' = "completed" /\ pc' = "done" /\ UNCHANGED cur
  /\ UNCHANGED <<src, dst, disk, staged, stranded, rowAt, history, undoFailed>>

FinalizeFailed ==
  /\ pc = "finalize" /\ op.step = "failed"
  /\ pc' = "restore"
  /\ op' = NoMove
  /\ UNCHANGED <<src, dst, disk, batchVars, rowAt, history, undoFailed>>

-----------------------------------------------------------------------------
(***************************************************************************)
(* Rollback: back to the source names.  After a failed staging the rows    *)
(* are restored in reverse order, after a failed finalization in plan      *)
(* order.                                                                  *)
(***************************************************************************)
ToRestore == {i \in staged : report[i] = NoReport}

Restoring == pc \in {"unstage", "restore"} /\ ToRestore # {}

Next2Restore == IF pc = "unstage" THEN Last(ToRestore) ELSE First(ToRestore)

RestoreBegin ==
  /\ Restoring /\ Idle
  /\ Lexists(Temp(Next2Restore))
  /\ Begin(Next2Restore, Temp(Next2Restore), Entry(src[Next2Restore]))
  /\ UNCHANGED <<src, dst, disk, pc, batchVars, rowAt, history, undoFailed>>

\* A plausible mistake: a row whose temporary file vanished gets no result.
RestoreMissingForgotten ==
  /\ Restoring /\ Idle
  /\ ~Lexists(Temp(Next2Restore))
  /\ stranded' = TRUE
  /\ UNCHANGED <<src, dst, disk, pc, cur, staged, finalized, report, verdict, op, rowAt,
                 history, undoFailed>>

RestoreMissing ==
  /\ Restoring /\ Idle
  /\ LET i == Next2Restore IN
     /\ ~Lexists(Temp(i))
     /\ IF Lexists(Entry(src[i]))
          THEN report' = [report EXCEPT ![i] = Entry(src[i])] /\ UNCHANGED stranded
          ELSE /\ report' = [report EXCEPT ![i] = IF Lexists(Entry(dst[i]))
                                                  THEN Entry(dst[i]) ELSE Missing]
               /\ stranded' = TRUE
  /\ UNCHANGED <<src, dst, disk, pc, cur, staged, finalized, verdict, op, rowAt,
                 history, undoFailed>>

RestoreDone ==
  /\ Restoring /\ op.step = "renamed"
  /\ report' = [report EXCEPT ![op.file] = Entry(src[op.file])]
  /\ op' = NoMove
  /\ UNCHANGED <<src, dst, disk, pc, cur, staged, finalized, stranded, verdict, rowAt,
                 history, undoFailed>>

\* A plausible mistake: a stranded file is reported as if it had been moved back.
RestoreFailedAsRestored ==
  /\ Restoring /\ op.step = "failed"
  /\ report' = [report EXCEPT ![op.file] = Entry(src[op.file])]
  /\ op' = NoMove
  /\ UNCHANGED <<src, dst, disk, pc, cur, staged, finalized, stranded, verdict, rowAt,
                 history, undoFailed>>

RestoreFailed ==
  /\ Restoring /\ op.step = "failed"
  /\ report' = [report EXCEPT ![op.file] = Temp(op.file)]
  /\ stranded' = TRUE
  /\ op' = NoMove
  /\ UNCHANGED <<src, dst, disk, pc, cur, staged, finalized, verdict, rowAt,
                 history, undoFailed>>

\* The row whose staging failed is looked up on disk; the rows after it were
\* not attempted.
StagingReport(i) ==
  CASE i = cur -> IF Lexists(Entry(src[i])) THEN Entry(src[i])
                  ELSE IF Lexists(Temp(i)) THEN Temp(i) ELSE Missing
    [] i \in Later(cur) -> Entry(src[i])
    [] OTHER -> report[i]

\* A plausible mistake: a rollback that stranded a file still counts as a clean failure.
FinishUnstageClean ==
  /\ pc = "unstage" /\ ToRestore = {}
  /\ report' = [i \in Files |-> StagingReport(i)]
  /\ verdict' = "failed"
  /\ pc' = "done"
  /\ UNCHANGED <<src, dst, disk, cur, staged, finalized, stranded, op, rowAt,
                 history, undoFailed>>

FinishUnstage ==
  /\ pc = "unstage" /\ ToRestore = {}
  /\ report' = [i \in Files |-> StagingReport(i)]
  /\ verdict' = IF stranded THEN "partial" ELSE "failed"
  /\ pc' = "done"
  /\ UNCHANGED <<src, dst, disk, cur, staged, finalized, stranded, op, rowAt,
                 history, undoFailed>>

FinishRestore ==
  /\ pc = "restore" /\ ToRestore = {}
  /\ verdict' = IF finalized # {} \/ stranded THEN "partial" ELSE "failed"
  /\ pc' = "done"
  /\ UNCHANGED <<src, dst, disk, cur, staged, finalized, stranded, report, op, rowAt,
                 history, undoFailed>>

\* _sync_local_apk_mass_rename_result: the table and the list of loaded files
\* follow the reported locations, looked up by the source path of each row
\* (the last result wins); a row without a location is dropped.
SyncRows ==
  /\ pc = "done"
  /\ rowAt' = [i \in Files |->
       report[Last({j \in Files : Entry(src[j]) = Entry(src[i])})]]
  /\ pc' = "synced"
  /\ UNCHANGED <<src, dst, disk, batchVars, op, history, undoFailed>>

-----------------------------------------------------------------------------
(***************************************************************************)
(* The environment.  Another program does not take a name while the two    *)
(* calls of one move are releasing or claiming it.                         *)
(***************************************************************************)
Busy == IF op.step \in {"linked", "copying", "undo"} THEN {op.from, op.to} ELSE {}

ExternalCreate(e) ==
  /\ external < MaxExternal
  /\ ~Lexists(e) /\ e \notin Busy
  /\ external' = external + 1
  /\ disk' = [disk EXCEPT ![e] = N + external']
  /\ existed' = existed \cup {N + external'}
  /\ UNCHANGED <<src, dst, pc, batchVars, op, rowAt, gone, undoFailed>>

ExternalRemove(p) ==
  /\ external < MaxExternal
  /\ Lexists(p)
  /\ disk' = [disk EXCEPT ![p] = Free]
  /\ gone' = gone \cup {IF disk[p] = Partial THEN op.data ELSE disk[p]}
  /\ external' = external + 1
  /\ UNCHANGED <<src, dst, pc, batchVars, op, rowAt, existed, undoFailed>>

External ==
  /\ pc # "preview"   \* the initial state is the directory the preview finds
  /\ \/ \E e \in Entries : ExternalCreate(e)
     \/ \E p \in Places : ExternalRemove(p)

Crash ==
  /\ Executing
  /\ pc' = "crashed"
  /\ UNCHANGED <<src, dst, disk, batchVars, op, rowAt, history, undoFailed>>

-----------------------------------------------------------------------------
\* The directory holds any of the batch's files and unrelated files.
Original(e) ==
  LET loaded == {i \in Files : Entry(src[i]) = e}
  IN  IF loaded = {} THEN e ELSE First(loaded)

Init ==
  /\ src \in [Files -> Names]
  /\ dst \in [Files -> Names \cup {Unrendered}]
  /\ \E present \in SUBSET Entries :
       disk = [p \in Places |-> IF p \in present THEN Original(p) ELSE Free]
  /\ pc = "preview"
  /\ cur = 1
  /\ staged = {} /\ finalized = {}
  /\ op = NoMove
  /\ stranded = FALSE
  /\ report = [i \in Files |-> NoReport]
  /\ verdict = "none"
  /\ rowAt = [i \in Files |-> Entry(src[i])]
  /\ existed = {disk[p] : p \in Places} \ {Free}
  /\ gone = {}
  /\ undoFailed = FALSE
  /\ external = 0

Execute ==
  \/ ExecuteRefused \/ ExecutePreflightFails \/ ExecuteNothing \/ ExecuteStart
  \/ Move
  \/ StageBegin \/ StageNoTemporary \/ StageDone \/ StageFailed
  \/ FinalizeBegin \/ FinalizeDone \/ FinalizeFailed
  \/ RestoreBegin \/ RestoreMissing \/ RestoreDone \/ RestoreFailed
  \/ FinishUnstage \/ FinishRestore
  \/ SyncRows

Next == Preview \/ Execute \/ External \/ Crash

Spec == Init /\ [][Next]_vars

-----------------------------------------------------------------------------
(* Properties. *)

Kept == existed \ gone

TypeOK ==
  /\ src \in [Files -> Names] /\ dst \in [Files -> Names \cup {Unrendered}]
  /\ disk \in [Places -> Contents \cup {Free, Partial}]
  /\ pc \in {"preview", "refused", "confirmed", "stage", "finalize", "unstage",
             "restore", "done", "synced", "crashed"}
  /\ cur \in Files
  /\ staged \subseteq Files /\ finalized \subseteq Files
  /\ op \in [file : Files \cup {0}, from : Places \cup {Free}, to : Places \cup {Free},
             data : Contents \cup {Free, Partial},
             step : {"idle", "open", "linked", "copying", "undo", "renamed", "failed"}]
  /\ stranded \in BOOLEAN /\ undoFailed \in BOOLEAN
  /\ report \in [Files -> Places \cup {NoReport, Missing}]
  /\ rowAt \in [Files -> Places \cup {NoReport, Missing}]
  /\ verdict \in {"none", "no_changes", "blocked", "completed", "failed", "partial"}
  /\ existed \subseteq Contents
  /\ gone \subseteq Contents \cup {Free, Partial}
  /\ external \in 0..MaxExternal

(***************************************************************************)
(* Whatever fails, and wherever the process is killed, every file that no  *)
(* other program removed still exists complete under some name: neither a  *)
(* file of the batch nor an unrelated one is lost.                         *)
(***************************************************************************)
NothingLost == \A c \in Kept : \E p \in Places : disk[p] = c

(***************************************************************************)
(* "Existing unrelated files will never be overwritten"                    *)
(* (the confirmation in ui/main_window.py): no step puts other bytes under *)
(* a name that already holds a file.                                       *)
(***************************************************************************)
NeverOverwrites ==
  [][\A p \in Places : disk[p] \notin {Free, Partial} => disk'[p] \in {disk[p], Free}]_vars

(***************************************************************************)
(* After the batch, each row of the results table points at the file it    *)
(* was loaded from - wherever a failed rename, a partial rollback or a     *)
(* swap left it - and no row is dropped while its file exists.             *)
(***************************************************************************)
RowsFollowFiles ==
  pc = "synced" => \A i \in Files \cap Kept : rowAt[i] \in Places /\ disk[rowAt[i]] = i

(***************************************************************************)
(* The batch status tells the truth: "completed" means that every file is  *)
(* under its rendered name, "failed" and "blocked" that every file is back *)
(* under its source name.                                                  *)
(***************************************************************************)
VerdictSound ==
  \A i \in Files \cap Kept :
     /\ verdict = "completed" => disk[Entry(dst[i])] = i
     /\ verdict \in {"failed", "blocked", "no_changes"} => disk[Entry(src[i])] = i

(***************************************************************************)
(* A batch that ran to its end leaves each file under one name only, no    *)
(* unfinished copy, and a temporary name only where a result row reports   *)
(* it - unless the removal that undoes a failed move failed as well.       *)
(***************************************************************************)
NoLeftovers ==
  pc \in {"done", "synced"} /\ ~undoFailed =>
     /\ \A p, q \in Places : Lexists(p) /\ disk[p] = disk[q] => p = q
     /\ \A p \in Places : disk[p] # Partial
     /\ \A i \in Files : Lexists(Temp(i)) => report[i] = Temp(i)

(***************************************************************************)
(* Why nothing is lost: between the calls of a move the file is complete   *)
(* under a name the next call does not remove, and the name it removes     *)
(* holds that file or nothing.                                             *)
(***************************************************************************)
SafeBeside(c, S) == c \in Kept => \E q \in Places \ S : disk[q] = c

MoveInv ==
  /\ ~Idle => /\ op.file \in Files
              /\ op.from \in Places /\ op.to \in Places /\ op.from # op.to
  /\ op.step = "linked" => /\ disk[op.from] \in {op.data, Free}
                           /\ SafeBeside(op.data, {op.from})
  /\ op.step = "copying" => /\ disk[op.from] \in {op.data, Free}
                            /\ disk[op.to] = Partial \/ SafeBeside(op.data, {op.from, op.to})
  /\ op.step \in {"linked", "copying", "undo"} =>
       /\ disk[op.to] \in {op.data, Partial, Free}
       /\ SafeBeside(op.data, {op.to})

\* What the steps of a batch keep.
BatchInv == TypeOK /\ MoveInv /\ RowsFollowFiles /\ VerdictSound /\ NoLeftovers

(***************************************************************************)
(* The two-phase promise (module BatchMove), read off the bookkeeping.     *)
(***************************************************************************)
At(i) ==
  CASE i \in finalized                             -> "final"
    [] i \in staged \ finalized /\ report[i] # Entry(src[i]) -> "staged"
    [] OTHER                                       -> "source"

Phase ==
  CASE pc = "stage"                       -> "staging"
    [] pc = "finalize"                    -> "finalizing"
    [] pc \in {"unstage", "restore"}      -> "rollback"
    [] pc \in {"done", "synced"}          -> "closed"
    [] pc = "crashed"                     -> "crashed"
    [] OTHER                              -> "planned"

Batch == INSTANCE BatchMove WITH
  Rows <- Files, moving <- Renames, at <- [i \in Files |-> At(i)],
  phase <- Phase, outcome <- verdict

(***************************************************************************)
(* The execution implements the abstract two-phase batch: no file takes a  *)
(* final name before every file has left its source name, and the outcome  *)
(* agrees with where the files ended.                                      *)
(***************************************************************************)
ImplementsBatch == Batch!Spec

(* A confirmed batch ends: the program takes its next step as long as it   *)
(* is not killed, and no rollback waits for itself.                        *)
FairSpec == Spec /\ WF_vars(Execute)

BatchEnds == Executing ~> pc \in {"synced", "crashed"}

=============================================================================
