----------------------------- MODULE FileCleanup -----------------------------
(***************************************************************************)
(* Deletion and renaming of audited package files from the window: one     *)
(* row, all rows of one relationship to the Store (Mass Remove), selected  *)
(* exact copies (Duplicates), and how candidates and rows follow.  Files   *)
(* are looked at, shown in a modal dialog, looked at again and deleted,    *)
(* while other programs change them.  A change always changes what stat    *)
(* says of a file (its mark); a row knows the hash of the audit.           *)
(***************************************************************************)
EXTENDS Naturals, FiniteSets

CONSTANTS
  Paths,
  Audited,       \* paths of the audited files; each also names its row
  Bytes,
  MaxTouches,   \* bound: changes by other programs
  MaxFailures   \* bound: deletions that fail

ASSUME ConstantsAssumption ==
  /\ Audited \subseteq Paths
  /\ "gone" \notin Paths \* what stands for no path
  /\ MaxTouches \in Nat /\ MaxFailures \in Nat

VARIABLES
  files,        \* what is at each path
  touches,
  failures,
  candidates,   \* _local_apk_candidates: by row name, the path
  rows,         \* current_rows: by name, path, hash, and whether of the target relationship
  op,           \* the operation under way
  unseen,       \* history: paths changed during the check of a file, since last looked at
  ours          \* history: rows whose file this program deleted

vars == <<files, touches, failures, candidates, rows, op, unseen, ours>>

Absent == [is |-> "none", mark |-> 0]
Gone   == "gone"
NoOp   == [kind |-> "none", stage |-> "idle", plan |-> [p \in {} |-> 0], selected |-> {},
           file |-> Gone, todo |-> {}, group |-> "none", groups |-> {}, removed |-> {}]

Exists(p) == files[p] # Absent
PathsOf(list) == {list[i] : i \in Audited} \ {Gone}
RowsAt(p) == {i \in Audited : rows[i].at = p}
RowPaths == {rows[i].at : i \in Audited} \ {Gone}

-----------------------------------------------------------------------------
(* Mass Remove. *)

\* plan_local_package_mass_remove: rows of the target that are candidates and exist are
\* runnable, with the mark they have now; the others are blocked.
MassTargets == {rows[i].at : i \in {j \in Audited : rows[j].target}} \ {Gone}
Runnable    == {p \in MassTargets \cap PathsOf(candidates) : Exists(p)}

MassPlan    == [p \in Runnable |-> files[p].mark]

ShowMassRemove ==
  /\ op = NoOp /\ MassTargets # {}
  /\ op' = [NoOp EXCEPT !.kind = "mass", !.stage = "preview", !.plan = MassPlan, !.todo = Runnable,
              !.selected = MassTargets]
  /\ UNCHANGED <<files, touches, failures, candidates, rows, unseen, ours>>

\* The dialog can only be accepted with something to remove.
ClosePreview(accepted) ==
  /\ op.kind = "mass" /\ op.stage = "preview"
  /\ accepted => op.todo # {}
  /\ op' = IF accepted THEN [op EXCEPT !.stage = "confirm"] ELSE NoOp
  /\ UNCHANGED <<files, touches, failures, candidates, rows, unseen, ours>>

\* The whole source asks twice; each question may be refused.
RemovesEntireSource == op.todo = PathsOf(candidates)

AnswerMassRemove(yes) ==
  /\ op.kind = "mass" /\ op.stage \in {"confirm", "confirm all"}
  /\ op' = IF ~yes THEN NoOp
           ELSE [op EXCEPT !.stage = IF @ = "confirm" /\ RemovesEntireSource THEN "confirm all" ELSE "check"]
  /\ UNCHANGED <<files, touches, failures, candidates, rows, unseen, ours>>

\* A plausible mistake: that it is a file is enough.
StillAsPlannedIfThere(p) == Exists(p)

\* _source_signature_matches, also _final_metadata_error of a duplicate
StillAsPlanned(p) == Exists(p) /\ files[p].mark = op.plan[p]

Look(p) == unseen' = unseen \ {p}

CheckNext(p) ==
  /\ op.kind = "mass" /\ op.stage = "check" /\ p \in op.todo
  /\ op' = IF StillAsPlanned(p) THEN [op EXCEPT !.stage = "delete", !.file = p]
           ELSE [op EXCEPT !.todo = @ \ {p}]
  /\ Look(p)
  /\ UNCHANGED <<files, touches, failures, candidates, rows, ours>>

\* remove_local_package_file
Delete(p, works) ==
  /\ works \/ ~Exists(p) \/ failures < MaxFailures
  /\ failures' = IF works \/ ~Exists(p) THEN failures ELSE failures + 1
  /\ IF works /\ Exists(p)
     THEN files' = [files EXCEPT ![p] = Absent] /\ ours' = ours \cup RowsAt(p)
     ELSE UNCHANGED <<files, ours>>

DeleteNext(works) ==
  /\ op.kind = "mass" /\ op.stage = "delete"
  /\ Delete(op.file, works)
  /\ op' = [op EXCEPT !.todo = @ \ {op.file}, !.stage = "check", !.file = Gone,
              !.removed = IF files'[op.file] # files[op.file] THEN @ \cup {op.file} ELSE @]
  /\ UNCHANGED <<touches, candidates, rows, unseen>>

\* A plausible mistake: what was to be removed leaves the table.
SyncRemovedAll ==
  LET removed == IF op.kind = "mass" THEN op.selected ELSE op.removed
  IN  /\ candidates' = [i \in Audited |-> IF candidates[i] \in removed THEN Gone ELSE candidates[i]]
      /\ rows' = [i \in Audited |-> IF rows[i].at \in removed THEN [rows[i] EXCEPT !.at = Gone] ELSE rows[i]]

\* _sync_local_apk_removed_paths
SyncRemoved ==
  /\ candidates' = [i \in Audited |-> IF candidates[i] \in op.removed THEN Gone ELSE candidates[i]]
  /\ rows' = [i \in Audited |-> IF rows[i].at \in op.removed THEN [rows[i] EXCEPT !.at = Gone] ELSE rows[i]]

EndMassRemove ==
  /\ op.kind = "mass" /\ op.stage = "check" /\ op.todo = {}
  /\ SyncRemoved /\ op' = NoOp
  /\ UNCHANGED <<files, touches, failures, unseen, ours>>

-----------------------------------------------------------------------------
(* Duplicates. *)

\* analyze_local_apk_duplicates: from the hashes of the rows, without reading files
Copies(c) == {rows[i].at : i \in {j \in Audited : rows[j].sha = c}} \cap PathsOf(candidates)
Groups    == {c \in Bytes : Cardinality(Copies(c)) > 1}

\* snapshot_duplicate_review and plan_duplicate_cleanup: the marks now; a group with a file
\* that cannot be looked at, or without a copy to keep, has no plan.
ShowDuplicates(selected) ==
  /\ op = NoOp /\ selected # {}
  /\ \A c \in Groups : Copies(c) \cap selected # {} =>
       /\ \A p \in Copies(c) : Exists(p)
       /\ Copies(c) \ selected # {}
  /\ selected \subseteq UNION {Copies(c) : c \in Groups}
  /\ op' = [NoOp EXCEPT !.kind = "duplicates", !.stage = "confirm", !.selected = selected,
              !.plan = [p \in {q \in Paths : Exists(q)} |-> files[p].mark],
              !.groups = {c \in Groups : Copies(c) \cap selected # {}}]
  /\ UNCHANGED <<files, touches, failures, candidates, rows, unseen, ours>>

AnswerDuplicates(yes) ==
  /\ op.kind = "duplicates" /\ op.stage = "confirm"
  /\ op' = IF yes THEN [op EXCEPT !.stage = "group"] ELSE NoOp
  /\ UNCHANGED <<files, touches, failures, candidates, rows, unseen, ours>>

Selected == Copies(op.group) \cap op.selected \cap DOMAIN op.plan
Keepers  == Copies(op.group) \ op.selected

\* Preflight of a group: every copy, selected or kept, is hashed.
StartGroup(c) ==
  /\ op.kind = "duplicates" /\ op.stage = "group" /\ c \in op.groups
  /\ op' = [op EXCEPT !.stage = "preflight", !.group = c, !.groups = @ \ {c}, !.todo = Copies(c)]
  /\ UNCHANGED <<files, touches, failures, candidates, rows, unseen, ours>>

\* _revalidate: the file of the review, with the bytes of the review
Revalidated(p) == StillAsPlanned(p) /\ files[p].is = op.group

\* A group that is not as reviewed is left: the files still selected are blocked.
LeaveGroup == op' = [op EXCEPT !.stage = "group", !.todo = {}, !.file = Gone]

Preflight(p) ==
  /\ op.kind = "duplicates" /\ op.stage = "preflight" /\ p \in op.todo
  /\ IF ~Revalidated(p) THEN LeaveGroup
     ELSE op' = [op EXCEPT !.todo = @ \ {p}, !.stage = IF op.todo = {p} THEN "pick" ELSE @]
  /\ UNCHANGED <<files, touches, failures, candidates, rows, unseen, ours>>

HashedAgain(p) == Keepers \cup {p}

\* Before each deletion the file and the copies to keep are hashed again,
PickFile(p) ==
  /\ op.kind = "duplicates" /\ op.stage = "pick" /\ p \in Selected \ op.removed
  /\ op' = [op EXCEPT !.stage = "hash", !.file = p, !.todo = HashedAgain(p)]
  /\ unseen' = {}
  /\ UNCHANGED <<files, touches, failures, candidates, rows, ours>>

HashAgain(p) ==
  /\ op.stage = "hash" /\ p \in op.todo
  /\ IF ~Revalidated(p) THEN LeaveGroup
     ELSE op' = IF op.todo = {p} THEN [op EXCEPT !.stage = "look", !.todo = HashedAgain(op.file)]
                ELSE [op EXCEPT !.todo = @ \ {p}]
  /\ Look(p)
  /\ UNCHANGED <<files, touches, failures, candidates, rows, ours>>

\* and then looked at once more.
LookAgain(p) ==
  /\ op.stage = "look" /\ p \in op.todo
  /\ IF ~StillAsPlanned(p) THEN LeaveGroup
     ELSE op' = [op EXCEPT !.todo = @ \ {p}, !.stage = IF op.todo = {p} THEN "unlink" ELSE @]
  /\ Look(p)
  /\ UNCHANGED <<files, touches, failures, candidates, rows, ours>>

\* A failed deletion blocks what remains of the group.
DeleteDuplicate(works) ==
  /\ op.stage = "unlink"
  /\ Delete(op.file, works)
  /\ op' = IF files'[op.file] # files[op.file]
           THEN [op EXCEPT !.stage = "pick", !.removed = @ \cup {op.file}, !.file = Gone]
           ELSE [op EXCEPT !.stage = "group", !.file = Gone]
  /\ UNCHANGED <<touches, candidates, rows, unseen>>

EndGroup ==
  /\ op.kind = "duplicates" /\ op.stage = "pick" /\ Selected \subseteq op.removed
  /\ LeaveGroup
  /\ UNCHANGED <<files, touches, failures, candidates, rows, unseen, ours>>

EndDuplicates ==
  /\ op.kind = "duplicates" /\ op.stage = "group" /\ op.groups = {}
  /\ SyncRemoved /\ op' = NoOp
  /\ UNCHANGED <<files, touches, failures, unseen, ours>>

-----------------------------------------------------------------------------
(* One row. *)

MutationAvailable(i) ==
  /\ op = NoOp /\ rows[i].at # Gone /\ Exists(rows[i].at) /\ rows[i].at \in PathsOf(candidates)

AskRemove(i) ==
  /\ MutationAvailable(i)
  /\ op' = [NoOp EXCEPT !.kind = "one", !.stage = "confirm", !.file = rows[i].at]
  /\ UNCHANGED <<files, touches, failures, candidates, rows, unseen, ours>>

\* Without another look at the file; one candidate and one row of the path go.
AnswerRemove(yes, works) ==
  /\ op.kind = "one"
  /\ op' = NoOp
  /\ IF ~yes \/ ~Exists(op.file) \/ (~works /\ failures < MaxFailures)
     THEN /\ failures' = IF yes /\ Exists(op.file) THEN failures + 1 ELSE failures
          /\ UNCHANGED <<files, candidates, rows, ours>>
     ELSE /\ files' = [files EXCEPT ![op.file] = Absent]
          /\ \E i \in RowsAt(op.file) : rows' = [rows EXCEPT ![i].at = Gone] /\ ours' = ours \cup {i}
          /\ \E i \in {j \in Audited : candidates[j] = op.file} : candidates' = [candidates EXCEPT ![i] = Gone]
          /\ UNCHANGED failures
  /\ UNCHANGED <<touches, unseen>>

RenameRow(i, p) ==
  /\ MutationAvailable(i) /\ ~Exists(p)
  /\ files' = [files EXCEPT ![rows[i].at] = Absent, ![p] = files[rows[i].at]]
  /\ \E j \in RowsAt(rows[i].at) : rows' = [rows EXCEPT ![j].at = p]
  /\ \E j \in {k \in Audited : candidates[k] = rows[i].at} : candidates' = [candidates EXCEPT ![j] = p]
  /\ UNCHANGED <<touches, failures, op, unseen, ours>>

-----------------------------------------------------------------------------
(* Other programs. *)

Touch(p, content) ==
  /\ touches < MaxTouches
  /\ touches' = touches + 1
  /\ files' = [files EXCEPT ![p] = IF content = "none" THEN Absent ELSE [is |-> content, mark |-> touches + 1]]
  /\ files' # files
  /\ unseen' = IF op = NoOp THEN {} ELSE unseen \cup {p}
  /\ UNCHANGED <<failures, candidates, rows, op, ours>>

Init ==
  /\ files \in [Paths -> {[is |-> c, mark |-> 0] : c \in Bytes} \cup {Absent}]
  /\ \A p \in Paths : Exists(p) <=> p \in Audited
  /\ touches = 0 /\ failures = 0 /\ unseen = {} /\ ours = {}
  /\ candidates = [i \in Audited |-> i]
  /\ \E target \in SUBSET Audited :
       rows = [i \in Audited |-> [at |-> i, sha |-> files[i].is, target |-> i \in target]]
  /\ op = NoOp

Next ==
  \/ ShowMassRemove \/ EndMassRemove \/ EndGroup \/ EndDuplicates
  \/ \E yes \in BOOLEAN : ClosePreview(yes) \/ AnswerMassRemove(yes) \/ AnswerDuplicates(yes) \/ DeleteNext(yes) \/ DeleteDuplicate(yes)
  \/ \E yes, works \in BOOLEAN : AnswerRemove(yes, works)
  \/ \E selected \in SUBSET Audited : ShowDuplicates(selected)
  \/ \E c \in Bytes : StartGroup(c)
  \/ \E p \in op.todo : CheckNext(p) \/ Preflight(p) \/ HashAgain(p) \/ LookAgain(p)
  \/ \E p \in Paths : PickFile(p) \/ (\E content \in Bytes \cup {"none"} : Touch(p, content))
  \/ \E i \in Audited : AskRemove(i) \/ (\E p \in Paths : RenameRow(i, p))

Spec == Init /\ [][Next]_vars

-----------------------------------------------------------------------------
(* Properties. *)

(***************************************************************************)
(* What a batch deletes is the file of its preview, unless another program *)
(* changed it after the batch last looked at it: "The source changed after *)
(* the preview." (local_apk_mass_remove:386)                               *)
(***************************************************************************)
OnlyReviewedFileGoes ==
  \A p \in op'.removed \ op.removed : p \in unseen \/ files[p].mark = op.plan[p]

(***************************************************************************)
(* A duplicate goes only while a copy that is kept has the same bytes,     *)
(* with the same exception: "Keep at least one unselected exact copy in    *)
(* every group" (local_apk_duplicates:194).                                *)
(***************************************************************************)
ACopyStays ==
  \A p \in op'.removed \ op.removed :
    op.kind = "duplicates" =>
      /\ p \in unseen \/ files[p].is = op.group
      /\ \E k \in Keepers : k \in unseen \/ files[k].is = op.group

(***************************************************************************)
(* After any batch, also one that failed for some files, the rows whose    *)
(* file this program deleted are gone, no others, and the candidates are   *)
(* those of the rows.                                                      *)
(***************************************************************************)
RowsFollowDeletions ==
  op = NoOp =>
    /\ \A i \in Audited : rows[i].at = Gone <=> i \in ours
    /\ PathsOf(candidates) = RowPaths

\* No file is deleted that the user did not decide on, by any batch.
ReviewedDeletion == OnlyReviewedFileGoes /\ ACopyStays
DeletionsAreReviewed == [][ReviewedDeletion]_vars
=============================================================================
