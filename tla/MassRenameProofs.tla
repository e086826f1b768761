-------------------------- MODULE MassRenameProofs --------------------------
(***************************************************************************)
(* Proofs about MassRename, for every number of rows, every set of names   *)
(* and every number of interventions by other programs.                    *)
(*                                                                         *)
(* They rest on two inductive invariants.  IInv is about contents: which   *)
(* of the two names of the move under way holds the complete file, so that *)
(* nothing is lost or overwritten.  PlaceInv is about places: where the    *)
(* loops stand, and at which name each row's file then is, so that report, *)
(* verdict and table rows are true and the batch moves in two phases.      *)
(***************************************************************************)
EXTENDS MassRename, Integers, WellFoundedInduction, TLAPS

-----------------------------------------------------------------------------
(* The plan order: the next row of a loop is a row of its set. *)

LEMMA HasMinimum ==
  ASSUME NEW S \in SUBSET Nat, S # {}
  PROVE  \E i \in S : \A j \in S : i <= j
<1> DEFINE R == {ss \in Nat \X Nat : ss[1] < ss[2]}
<1>1. IsWellFoundedOn(R, Nat)
  BY NatLessThanWellFounded DEF OpToRel
<1>2. PICK i \in S : \A j \in S : ~(<<j, i>> \in R)
  <2> HIDE DEF R
  <2> QED BY <1>1, WFMin
<1>3. ASSUME NEW j \in S PROVE i <= j
  <2>1. i \in Nat /\ j \in Nat
    OBVIOUS
  <2>2. ~(<<j, i>> \in R)
    BY <1>2
  <2>3. ~(j < i)
    BY <2>1, <2>2
  <2> HIDE DEF R
  <2> QED BY <2>1, <2>3
<1> QED BY <1>3

LEMMA FirstIsMember ==
  ASSUME NEW S \in SUBSET Files, S # {}
  PROVE  First(S) \in S
<1>1. S \in SUBSET Nat
  BY DEF Files
<1>2. \E i \in S : \A j \in S : i <= j
  BY <1>1, HasMinimum
<1> QED BY <1>2 DEF First

LEMMA LastIsMember ==
  ASSUME NEW S \in SUBSET Files, S # {}
  PROVE  Last(S) \in S
<1> DEFINE D == {n \in Nat : \E i \in S : n = N - i}
<1>0. N \in Nat /\ \A i \in S : i \in 1..N
  BY ConstantsAssumption DEF Files
<1>1. PICK k \in S : TRUE
  OBVIOUS
<1>2. N - k \in D
  BY <1>0
<1>3. PICK d \in D : \A e \in D : d <= e
  <2>1. D # {} /\ D \in SUBSET Nat
    BY <1>2
  <2> HIDE DEF D
  <2> QED BY <2>1, HasMinimum
<1>4. PICK i \in S : d = N - i
  OBVIOUS
<1>5. ASSUME NEW j \in S PROVE j <= i
  <2>1. N - j \in D
    BY <1>0
  <2>2. d <= N - j
    BY <2>1, <1>3
  <2> QED BY <2>2, <1>4, <1>0
<1> QED BY <1>5 DEF Last

-----------------------------------------------------------------------------
(* Places and contents do not collide. *)

LEMMA PlaceFacts ==
  /\ \A n \in Names : Entry(n) \in Entries /\ Entry(n) \in Names
  /\ Entries \subseteq Names
  /\ Entries \cap Files = {}
  /\ Entries \subseteq Places
  /\ Files \subseteq Places
  /\ Free \notin Places /\ Partial \notin Places
  /\ NoReport \notin Places /\ Missing \notin Places
  /\ Free \notin Contents /\ Partial \notin Contents
  /\ Free # Partial
  /\ Files \subseteq Contents /\ Entries \subseteq Contents
<1>1. \A n \in Names : Entry(n) \in Names
  BY ConstantsAssumption DEF Entry
<1>2. Files \subseteq Nat /\ 1..(N + MaxExternal) \subseteq Nat
  BY ConstantsAssumption DEF Files
<1>3. Files \subseteq Contents
  BY ConstantsAssumption DEF Files, Contents
<1> QED BY <1>3, <1>1, <1>2, ConstantsAssumption DEF Entries, Places, Contents

-----------------------------------------------------------------------------
(***************************************************************************)
(* The inductive invariant: the types, that a batch under way renders a    *)
(* name for every row and changes some, the safety of the move in progress *)
(* and NothingLost.                                                        *)
(***************************************************************************)
PlanInv ==
  /\ pc = "confirmed" \/ Executing => dst \in [Files -> Names]
  /\ Executing => Renames # {}

IInv == TypeOK /\ PlanInv /\ MoveInv /\ NothingLost

LEMMA InitIInv == Init => IInv
<1> SUFFICES ASSUME Init PROVE IInv
  OBVIOUS
<1> USE DEF Init
<1>1. PICK present \in SUBSET Entries :
        disk = [p \in Places |-> IF p \in present THEN Original(p) ELSE Free]
  OBVIOUS
<1>2. \A e \in Entries : Original(e) \in Contents
  <2> SUFFICES ASSUME NEW e \in Entries PROVE Original(e) \in Contents
    OBVIOUS
  <2> DEFINE loaded == {i \in Files : Entry(src[i]) = e}
  <2>1. CASE loaded = {}
    BY <2>1, PlaceFacts DEF Original
  <2>2. CASE loaded # {}
    <3>1. First(loaded) \in Files
      BY <2>2, FirstIsMember
    <3> QED BY <2>2, <3>1, PlaceFacts DEF Original
  <2> QED BY <2>1, <2>2
<1>3. disk \in [Places -> Contents \cup {Free}]
  BY <1>1, <1>2, PlaceFacts
<1>4. 1 \in Files /\ 0 \in 0..MaxExternal
  BY ConstantsAssumption DEF Files
<1>5. existed \subseteq Contents
  BY <1>3
<1>6. \A i \in Files : Entry(src[i]) \in Places
  BY PlaceFacts
<1>7. TypeOK
  BY <1>3, <1>4, <1>5, <1>6, PlaceFacts DEF TypeOK, NoMove
<1>8. PlanInv /\ MoveInv
  BY DEF PlanInv, Executing, Renames, MoveInv, Idle, NoMove
<1>9. NothingLost
  BY DEF NothingLost, Kept
<1> QED BY <1>7, <1>8, <1>9 DEF IInv

(* What the loops of the execution keep: they move no file themselves. *)

LEMMA BeginMove ==
  ASSUME NEW i \in Files, NEW from \in Places, NEW to \in Places, from # to,
         Begin(i, from, to), UNCHANGED disk, UNCHANGED <<existed, gone>>, IInv
  PROVE  /\ op' \in [file : Files \cup {0}, from : Places \cup {Free},
                     to : Places \cup {Free}, data : Contents \cup {Free, Partial},
                     step : {"idle", "open", "linked", "copying", "undo",
                             "renamed", "failed"}]
         /\ MoveInv' /\ NothingLost'
BY PlaceFacts DEF Begin, IInv, MoveInv, Idle, NothingLost, Kept

LEMMA EndMove ==
  ASSUME IInv, op' = NoMove, UNCHANGED disk, UNCHANGED <<existed, gone>>
  PROVE  /\ op' \in [file : Files \cup {0}, from : Places \cup {Free},
                     to : Places \cup {Free}, data : Contents \cup {Free, Partial},
                     step : {"idle", "open", "linked", "copying", "undo",
                             "renamed", "failed"}]
         /\ MoveInv' /\ NothingLost'
BY DEF NoMove, IInv, MoveInv, Idle, NothingLost, Kept

LEMMA KeepMove ==
  ASSUME IInv, UNCHANGED <<op, disk, existed, gone>>
  PROVE  MoveInv' /\ NothingLost'
BY DEF IInv, MoveInv, Idle, NothingLost, Kept, SafeBeside

LEMMA RowPlaces ==
  ASSUME TypeOK, NEW i \in Files
  PROVE  /\ Entry(src[i]) \in Places /\ Entry(src[i]) \in Entries
         /\ Temp(i) \in Places
         /\ Temp(i) # Entry(src[i])
         /\ dst \in [Files -> Names] => Entry(dst[i]) \in Places /\ Entry(dst[i]) # Temp(i)
BY PlaceFacts DEF TypeOK, Temp

-----------------------------------------------------------------------------
(* One lemma per group of actions. *)

LEMMA PlanStep ==
  ASSUME IInv,
         Preview \/ ExecuteRefused \/ ExecutePreflightFails \/ ExecuteNothing \/ ExecuteStart
  PROVE  IInv'
<1> USE DEF IInv
<1>1. MoveInv' /\ NothingLost'
  BY KeepMove DEF Preview, ExecuteRefused, ExecutePreflightFails, ReportBlocked,
                  ExecuteNothing, ExecuteStart, history
<1>2. CASE Preview
  <2>1. PlanInv'
    BY <1>2 DEF Preview, PlanInv, Executing, Renames, HasBlockingIssues, TypeOK
  <2>2. TypeOK'
    BY <1>2 DEF Preview, TypeOK, batchVars, history
  <2> QED BY <1>1, <2>1, <2>2
<1>3. CASE ExecuteRefused \/ ExecutePreflightFails
  <2>1. ReportBlocked
    BY <1>3 DEF ExecuteRefused, ExecutePreflightFails
  <2>2. \A i \in Files : SourceOrMissing(i) \in Places \cup {NoReport, Missing}
    BY RowPlaces DEF SourceOrMissing
  <2>3. TypeOK'
    BY <2>1, <2>2 DEF ReportBlocked, TypeOK, history
  <2>4. PlanInv'
    BY <2>1 DEF ReportBlocked, PlanInv, Executing, Renames
  <2> QED BY <1>1, <2>3, <2>4
<1>4. CASE ExecuteNothing
  <2>1. TypeOK'
    BY <1>4, RowPlaces DEF ExecuteNothing, TypeOK, history
  <2>2. PlanInv'
    BY <1>4 DEF ExecuteNothing, PlanInv, Executing, Renames
  <2> QED BY <1>1, <2>1, <2>2
<1>5. CASE ExecuteStart
  <2>1. First(Renames) \in Files
    BY <1>5, FirstIsMember DEF ExecuteStart, Renames
  <2>2. TypeOK'
    BY <1>5, <2>1, RowPlaces DEF ExecuteStart, TypeOK, history
  <2>3. PlanInv'
    BY <1>5 DEF ExecuteStart, PlanInv, Executing, Renames
  <2> QED BY <1>1, <2>2, <2>3
<1> QED BY <1>2, <1>3, <1>4, <1>5

LEMMA MoveStep ==
  ASSUME IInv, Move
  PROVE  IInv'
<1> USE DEF IInv
<1>1. PlanInv'
  BY DEF PlanInv, Executing, Renames, Move, MoveRefused, MoveLink, MoveCopyOpen, MoveCopyDone,
         MoveCopyFails, MoveUnlinkSource, MoveUnlinkFails, MoveUndo, MoveUndoFails
<1>2. Kept' = Kept
  BY DEF Kept, Move, MoveRefused, MoveLink, MoveCopyOpen, MoveCopyDone, MoveCopyFails,
         MoveUnlinkSource, MoveUnlinkFails, MoveUndo, MoveUndoFails, history
<1>3. ~Idle
  BY DEF Idle, Move, CanOpen, MoveRefused, MoveLink, MoveCopyOpen, MoveCopyDone,
         MoveCopyFails, MoveUnlinkSource, MoveUnlinkFails, MoveUndo, MoveUndoFails
<1>4. op.from \in Places /\ op.to \in Places /\ op.from # op.to /\ op.file \in Files
  BY <1>3 DEF MoveInv
<1>5. Kept \subseteq Contents /\ Free \notin Kept /\ Partial \notin Kept
  BY PlaceFacts DEF Kept, TypeOK
<1>6. CASE MoveRefused
  BY <1>1, <1>4, <1>6 DEF MoveRefused, TypeOK, MoveInv, Idle, NothingLost, Kept, batchVars, history
<1>7. CASE MoveLink
  <2>1. disk'[op.from] = disk[op.from] /\ disk'[op.to] = disk[op.from]
    BY <1>4, <1>7 DEF MoveLink, TypeOK
  <2>2. disk[op.to] = Free /\ disk[op.from] # Free
    BY <1>7 DEF MoveLink, CanOpen, Lexists
  <2>3. TypeOK'
    BY <1>4, <1>7 DEF MoveLink, TypeOK, batchVars, history
  <2>4. NothingLost'
    BY <1>2, <1>4, <1>5, <1>7, <2>1, <2>2 DEF MoveLink, NothingLost, TypeOK
  <2>5. MoveInv'
    BY <1>2, <1>4, <1>7, <2>1 DEF MoveLink, MoveInv, Idle, SafeBeside, TypeOK
  <2> QED BY <1>1, <2>3, <2>4, <2>5
<1>8. CASE MoveCopyOpen
  <2>1. disk'[op.from] = disk[op.from] /\ disk'[op.to] = Partial
    BY <1>4, <1>8 DEF MoveCopyOpen, TypeOK
  <2>2. disk[op.to] = Free /\ disk[op.from] # Free
    BY <1>8 DEF MoveCopyOpen, CanOpen, Lexists
  <2>3. TypeOK'
    BY <1>4, <1>8 DEF MoveCopyOpen, TypeOK, batchVars, history
  <2>4. NothingLost'
    BY <1>2, <1>4, <1>5, <1>8, <2>1, <2>2 DEF MoveCopyOpen, NothingLost, TypeOK
  <2>5. MoveInv'
    BY <1>2, <1>4, <1>8, <2>1 DEF MoveCopyOpen, MoveInv, Idle, SafeBeside, TypeOK
  <2> QED BY <1>1, <2>3, <2>4, <2>5
<1>9. CASE MoveCopyDone
  <2>1. disk'[op.from] = disk[op.from]
    BY <1>4, <1>9 DEF MoveCopyDone, TypeOK
  <2>2. disk'[op.to] = IF disk[op.to] = Partial THEN op.data ELSE disk[op.to]
    BY <1>4, <1>9 DEF MoveCopyDone, TypeOK
  <2>3. TypeOK'
    BY <1>4, <1>9 DEF MoveCopyDone, TypeOK, batchVars, history
  <2>4. NothingLost'
    BY <1>2, <1>4, <1>5, <1>9, <2>2 DEF MoveCopyDone, NothingLost, TypeOK
  <2>5. SafeBeside(op.data, {op.from})'
    <3>1. CASE disk[op.to] = Partial
      BY <1>4, <1>9, <2>2, <3>1 DEF MoveCopyDone, SafeBeside
    <3>2. CASE disk[op.to] # Partial
      <4>1. disk' = disk
        BY <1>4, <1>9, <3>2 DEF MoveCopyDone, TypeOK
      <4>2. SafeBeside(op.data, {op.from, op.to})
        BY <1>9, <3>2 DEF MoveCopyDone, MoveInv
      <4> QED BY <1>2, <1>4, <1>9, <4>1, <4>2 DEF MoveCopyDone, SafeBeside
    <3> QED BY <3>1, <3>2
  <2>6. SafeBeside(op.data, {op.to})'
    BY <1>2, <1>4, <1>9 DEF MoveCopyDone, MoveInv, SafeBeside, TypeOK
  <2>7. disk[op.to] \in {op.data, Partial, Free} /\ disk[op.from] \in {op.data, Free}
    BY <1>9 DEF MoveCopyDone, MoveInv
  <2>8. MoveInv'
    BY <1>4, <1>9, <2>1, <2>2, <2>5, <2>6, <2>7 DEF MoveCopyDone, MoveInv, Idle
  <2> QED BY <1>1, <2>3, <2>4, <2>8
<1>10. CASE MoveCopyFails
  <2>1. TypeOK'
    BY <1>10 DEF MoveCopyFails, TypeOK, batchVars, history
  <2>2. MoveInv' /\ NothingLost'
    BY <1>2, <1>4, <1>10 DEF MoveCopyFails, MoveInv, NothingLost, Idle, SafeBeside
  <2> QED BY <1>1, <2>1, <2>2
<1>11. CASE MoveUnlinkSource
  <2>1. TypeOK'
    BY <1>4, <1>11 DEF MoveUnlinkSource, TypeOK, batchVars, history
  <2>2. MoveInv'
    BY <1>4, <1>11 DEF MoveUnlinkSource, MoveInv, Idle
  <2>3. SafeBeside(op.data, {op.from}) /\ disk[op.from] \in {op.data, Free}
    BY <1>11 DEF MoveUnlinkSource, MoveInv
  <2>4. NothingLost'
    <3> SUFFICES ASSUME NEW c \in Kept PROVE \E p \in Places : disk'[p] = c
      BY <1>2 DEF NothingLost
    <3>1. PICK p \in Places : disk[p] = c /\ p # op.from
      BY <1>4, <1>5, <2>3 DEF NothingLost, SafeBeside
    <3> QED BY <1>4, <1>11, <3>1 DEF MoveUnlinkSource, TypeOK
  <2> QED BY <1>1, <2>1, <2>2, <2>4
<1>12. CASE MoveUnlinkFails
  <2>1. TypeOK'
    BY <1>12 DEF MoveUnlinkFails, TypeOK, batchVars, history
  <2>2. NothingLost'
    BY <1>2, <1>12 DEF MoveUnlinkFails, NothingLost
  <2>3. MoveInv'
    BY <1>2, <1>4, <1>12 DEF MoveUnlinkFails, MoveInv, Idle, SafeBeside
  <2> QED BY <1>1, <2>1, <2>2, <2>3
<1>13. CASE MoveUndo
  <2>1. TypeOK'
    BY <1>4, <1>13 DEF MoveUndo, TypeOK, batchVars, history
  <2>2. MoveInv'
    BY <1>4, <1>13 DEF MoveUndo, MoveInv, Idle
  <2>3. SafeBeside(op.data, {op.to}) /\ disk[op.to] \in {op.data, Partial, Free}
    BY <1>13 DEF MoveUndo, MoveInv
  <2>4. NothingLost'
    <3> SUFFICES ASSUME NEW c \in Kept PROVE \E p \in Places : disk'[p] = c
      BY <1>2 DEF NothingLost
    <3>1. PICK p \in Places : disk[p] = c /\ p # op.to
      BY <1>4, <1>5, <2>3 DEF NothingLost, SafeBeside
    <3> QED BY <1>4, <1>13, <3>1 DEF MoveUndo, TypeOK
  <2> QED BY <1>1, <2>1, <2>2, <2>4
<1>14. CASE MoveUndoFails
  BY <1>1, <1>2, <1>4, <1>14
  DEF MoveUndoFails, TypeOK, MoveInv, Idle, NothingLost, batchVars, history
<1> QED
  BY <1>6, <1>7, <1>8, <1>9, <1>10, <1>11, <1>12, <1>13, <1>14 DEF Move

LEMMA LaterIsMember ==
  ASSUME NEW i \in Files, Later(i) # {}
  PROVE  First(Later(i)) \in Files
BY FirstIsMember DEF Later, Renames

LEMMA LoopStep ==
  ASSUME IInv,
         StageBegin \/ StageNoTemporary \/ StageDone \/ StageFailed
           \/ FinalizeBegin \/ FinalizeDone \/ FinalizeFailed
  PROVE  IInv'
<1> USE DEF IInv
<1>0. cur \in Files /\ UNCHANGED <<src, dst, disk, existed, gone>>
  BY DEF TypeOK, StageBegin, StageNoTemporary, StageDone, StageFailed, FinalizeBegin,
         FinalizeDone, FinalizeFailed, history
<1>1. CASE StageBegin
  <2>1. Temp(cur) \in Places /\ Entry(src[cur]) \in Places /\ Temp(cur) # Entry(src[cur])
    BY <1>0, RowPlaces
  <2>2. Begin(cur, Entry(src[cur]), Temp(cur))
    BY <1>1 DEF StageBegin
  <2> HIDE DEF IInv
  <2>3. TypeOK' /\ MoveInv' /\ NothingLost'
    BY <1>0, <1>1, <2>1, <2>2, BeginMove DEF StageBegin, IInv, TypeOK, batchVars, history
  <2>4. PlanInv'
    BY <1>1 DEF StageBegin, IInv, PlanInv, Executing, Renames
  <2> QED BY <2>3, <2>4 DEF IInv
<1>2. CASE StageNoTemporary
  <2>1. TypeOK'
    BY <1>2 DEF StageNoTemporary, TypeOK, batchVars, history
  <2>2. PlanInv'
    BY <1>2 DEF StageNoTemporary, PlanInv, Executing, Renames
  <2>3. MoveInv' /\ NothingLost'
    BY <1>0, <1>2, KeepMove DEF StageNoTemporary
  <2> QED BY <2>1, <2>2, <2>3
<1>3. CASE StageDone
  <2>1. cur' \in Files
    <3>1. Renames # {} /\ Renames \in SUBSET Files
      BY <1>3 DEF StageDone, PlanInv, Executing, Renames
    <3> QED BY <1>0, <1>3, <3>1, LaterIsMember, FirstIsMember DEF StageDone
  <2>2. PlanInv'
    BY <1>3 DEF StageDone, PlanInv, Executing, Renames
  <2> HIDE DEF IInv
  <2>3. TypeOK' /\ MoveInv' /\ NothingLost'
    BY <1>0, <1>3, <2>1, EndMove DEF StageDone, IInv, TypeOK, history
  <2> QED BY <2>2, <2>3 DEF IInv
<1>4. CASE StageFailed
  <2>1. PlanInv'
    BY <1>4 DEF StageFailed, PlanInv, Executing, Renames
  <2> HIDE DEF IInv
  <2>2. TypeOK' /\ MoveInv' /\ NothingLost'
    BY <1>0, <1>4, EndMove DEF StageFailed, IInv, TypeOK, batchVars, history
  <2> QED BY <2>1, <2>2 DEF IInv
<1>5. CASE FinalizeBegin
  <2>1. dst \in [Files -> Names]
    BY <1>5 DEF FinalizeBegin, PlanInv, Executing, Renames
  <2>2. /\ Temp(cur) \in Places /\ Entry(dst[cur]) \in Places
        /\ Temp(cur) # Entry(dst[cur])
    BY <1>0, <2>1, RowPlaces
  <2>3. Begin(cur, Temp(cur), Entry(dst[cur]))
    BY <1>5 DEF FinalizeBegin
  <2> HIDE DEF IInv
  <2>4. TypeOK' /\ MoveInv' /\ NothingLost'
    BY <1>0, <1>5, <2>2, <2>3, BeginMove
    DEF FinalizeBegin, IInv, TypeOK, batchVars, history
  <2>5. PlanInv'
    BY <1>5 DEF FinalizeBegin, IInv, PlanInv, Executing, Renames
  <2> QED BY <2>4, <2>5 DEF IInv
<1>6. CASE FinalizeDone
  <2>1. dst \in [Files -> Names]
    BY <1>6 DEF FinalizeDone, PlanInv, Executing, Renames
  <2>2. Entry(dst[cur]) \in Places
    BY <1>0, <2>1, RowPlaces
  <2>3. cur' \in Files
    BY <1>0, <1>6, LaterIsMember DEF FinalizeDone
  <2>4. PlanInv'
    BY <1>6, <2>1 DEF FinalizeDone, PlanInv, Executing, Renames
  <2>5. pc' \in {"finalize", "done"} /\ verdict' \in {verdict, "completed"}
    BY <1>6 DEF FinalizeDone
  <2> HIDE DEF IInv
  <2>6. TypeOK' /\ MoveInv' /\ NothingLost'
    BY <1>0, <1>6, <2>2, <2>3, <2>5, EndMove DEF FinalizeDone, IInv, TypeOK, history
  <2> QED BY <2>4, <2>6 DEF IInv
<1>7. CASE FinalizeFailed
  <2>1. PlanInv'
    BY <1>7 DEF FinalizeFailed, PlanInv, Executing, Renames
  <2> HIDE DEF IInv
  <2>2. TypeOK' /\ MoveInv' /\ NothingLost'
    BY <1>0, <1>7, EndMove DEF FinalizeFailed, IInv, TypeOK, batchVars, history
  <2> QED BY <2>1, <2>2 DEF IInv
<1> QED BY <1>1, <1>2, <1>3, <1>4, <1>5, <1>6, <1>7

LEMMA RollbackStep ==
  ASSUME IInv,
         RestoreBegin \/ RestoreMissing \/ RestoreDone \/ RestoreFailed
           \/ FinishUnstage \/ FinishRestore \/ SyncRows
  PROVE  IInv'
<1> USE DEF IInv
<1>0. UNCHANGED <<src, dst, disk, existed, gone>>
  BY DEF RestoreBegin, RestoreMissing, RestoreDone, RestoreFailed, FinishUnstage,
         FinishRestore, SyncRows, history
<1>1. Restoring => Next2Restore \in Files
  BY FirstIsMember, LastIsMember DEF Restoring, Next2Restore, ToRestore, TypeOK
<1>2. Executing => dst \in [Files -> Names]
  BY DEF PlanInv
<1>3. Restoring => Executing
  BY DEF Restoring, Executing
<1>4. CASE RestoreBegin
  <2>1. Next2Restore \in Files
    BY <1>1, <1>4 DEF RestoreBegin
  <2> DEFINE i == Next2Restore
  <2>2. Temp(i) \in Places /\ Entry(src[i]) \in Places /\ Temp(i) # Entry(src[i])
    BY <2>1, RowPlaces
  <2>3. Begin(i, Temp(i), Entry(src[i]))
    BY <1>4 DEF RestoreBegin
  <2>4. PlanInv'
    BY <1>4 DEF RestoreBegin, PlanInv, Executing, Renames
  <2> HIDE DEF IInv, i
  <2>5. i \in Files
    BY <2>1 DEF i
  <2>6. TypeOK' /\ MoveInv' /\ NothingLost'
    BY <1>0, <1>4, <2>2, <2>3, <2>5, BeginMove
    DEF RestoreBegin, IInv, TypeOK, batchVars, history
  <2> QED BY <2>4, <2>6 DEF IInv
<1>5. CASE RestoreMissing
  <2>1. Next2Restore \in Files /\ dst \in [Files -> Names]
    BY <1>1, <1>2, <1>3, <1>5 DEF RestoreMissing
  <2>2. /\ Entry(src[Next2Restore]) \in Places
        /\ Entry(dst[Next2Restore]) \in Places
    BY <2>1, RowPlaces
  <2>5. /\ report' \in [Files -> Places \cup {NoReport, Missing}]
        /\ stranded' \in BOOLEAN
    BY <1>5, <2>2 DEF RestoreMissing, TypeOK
  <2>3. TypeOK'
    BY <1>5, <2>5 DEF RestoreMissing, TypeOK, history
  <2>4. PlanInv' /\ MoveInv' /\ NothingLost'
    BY <1>0, <1>5, KeepMove DEF RestoreMissing, PlanInv, Executing, Renames
  <2> QED BY <2>3, <2>4
<1>6. CASE RestoreDone \/ RestoreFailed
  <2>1. op.file \in Files
    BY <1>6 DEF RestoreDone, RestoreFailed, MoveInv, Idle
  <2>2. Entry(src[op.file]) \in Places /\ Temp(op.file) \in Places
    BY <2>1, RowPlaces
  <2>3. PlanInv'
    BY <1>6 DEF RestoreDone, RestoreFailed, PlanInv, Executing, Renames
  <2>5. /\ report' \in [Files -> Places \cup {NoReport, Missing}]
        /\ stranded' \in BOOLEAN
    <3>1. CASE RestoreDone
      BY <3>1, <2>2 DEF RestoreDone, TypeOK
    <3>2. CASE RestoreFailed
      BY <3>2, <2>2 DEF RestoreFailed, TypeOK
    <3> QED BY <1>6, <3>1, <3>2
  <2>6. /\ op' = NoMove
        /\ UNCHANGED <<src, dst, disk, pc, cur, staged, finalized, verdict, rowAt,
                       existed, gone, external, undoFailed>>
    BY <1>6 DEF RestoreDone, RestoreFailed, history
  <2> HIDE DEF IInv
  <2>4. TypeOK' /\ MoveInv' /\ NothingLost'
    BY <2>5, <2>6, EndMove DEF IInv, TypeOK
  <2> QED BY <2>3, <2>4 DEF IInv
<1>7. CASE FinishUnstage
  <2>1. \A i \in Files : StagingReport(i) \in Places \cup {NoReport, Missing}
    BY RowPlaces DEF StagingReport, TypeOK
  <2>2. TypeOK'
    BY <1>7, <2>1 DEF FinishUnstage, TypeOK, history
  <2>3. PlanInv' /\ MoveInv' /\ NothingLost'
    BY <1>0, <1>7, KeepMove DEF FinishUnstage, PlanInv, Executing, Renames
  <2> QED BY <2>2, <2>3
<1>8. CASE FinishRestore
  <2>1. TypeOK'
    BY <1>8 DEF FinishRestore, TypeOK, history
  <2>2. PlanInv' /\ MoveInv' /\ NothingLost'
    BY <1>0, <1>8, KeepMove DEF FinishRestore, PlanInv, Executing, Renames
  <2> QED BY <2>1, <2>2
<1>9. CASE SyncRows
  <2>1. \A i \in Files : Last({j \in Files : Entry(src[j]) = Entry(src[i])}) \in Files
    <3> SUFFICES ASSUME NEW i \in Files
                 PROVE  Last({j \in Files : Entry(src[j]) = Entry(src[i])}) \in Files
      OBVIOUS
    <3> DEFINE S == {j \in Files : Entry(src[j]) = Entry(src[i])}
    <3>1. S \in SUBSET Files /\ S # {}
      OBVIOUS
    <3>2. Last(S) \in S
      <4> HIDE DEF S
      <4> QED BY <3>1, LastIsMember
    <3> QED BY <3>2
  <2>2. TypeOK'
    BY <1>9, <2>1 DEF SyncRows, TypeOK, batchVars, history
  <2>3. PlanInv' /\ MoveInv' /\ NothingLost'
    BY <1>0, <1>9, KeepMove DEF SyncRows, PlanInv, Executing, Renames
  <2> QED BY <2>2, <2>3
<1> QED BY <1>4, <1>5, <1>6, <1>7, <1>8, <1>9

LEMMA EnvironmentStep ==
  ASSUME IInv, External \/ Crash
  PROVE  IInv'
<1> USE DEF IInv
<1>1. PlanInv'
  BY DEF External, ExternalCreate, ExternalRemove, Crash, PlanInv, Executing, Renames
<1>2. CASE Crash
  <2>1. TypeOK'
    BY <1>2 DEF Crash, TypeOK, batchVars, history
  <2>2. MoveInv' /\ NothingLost'
    BY <1>2, KeepMove DEF Crash, history
  <2> QED BY <1>1, <2>1, <2>2
<1>3. ASSUME NEW e \in Entries, ExternalCreate(e)
      PROVE  IInv'
  <2> DEFINE made == N + (external + 1)
  <2>1. e \in Places /\ made \in Contents /\ external + 1 \in 0..MaxExternal
    BY <1>3, PlaceFacts, ConstantsAssumption DEF ExternalCreate, TypeOK, Contents
  <2>3. /\ disk[e] = Free /\ disk' = [disk EXCEPT ![e] = made]
        /\ existed' = existed \cup {made} /\ external' = external + 1
    BY <1>3 DEF ExternalCreate, Lexists
  <2> HIDE DEF made
  <2>2. TypeOK'
    BY <1>3, <2>1, <2>3 DEF ExternalCreate, TypeOK, batchVars
  <2>9. Kept' \subseteq Kept \cup {made}
    BY <1>3, <2>3 DEF ExternalCreate, Kept
  <2>4. \A c \in Kept : c # Free
    BY PlaceFacts DEF Kept, TypeOK
  <2>5. NothingLost'
    BY <2>1, <2>3, <2>4, <2>9 DEF NothingLost, TypeOK
  <2>6. op' = op /\ Busy' = Busy /\ e \notin Busy
    BY <1>3 DEF ExternalCreate, Busy
  <2>7. ASSUME NEW c, NEW S, e \notin S, SafeBeside(c, S)
        PROVE  SafeBeside(c, S)'
    BY <2>1, <2>3, <2>4, <2>7, <2>9 DEF SafeBeside, TypeOK
  <2>8. MoveInv'
    <3>1. op.step \in {"linked", "copying", "undo"} =>
            /\ op.from # e /\ op.to # e
            /\ disk'[op.from] = disk[op.from] /\ disk'[op.to] = disk[op.to]
      BY <2>3, <2>6 DEF Busy, MoveInv, Idle, TypeOK
    <3> QED BY <2>6, <2>7, <3>1 DEF MoveInv, Idle
  <2> QED BY <1>1, <2>2, <2>5, <2>8
<1>4. ASSUME NEW p \in Places, ExternalRemove(p)
      PROVE  IInv'
  <2>1. TypeOK'
    <3>1. external + 1 \in 0..MaxExternal
      BY <1>4, ConstantsAssumption DEF ExternalRemove, TypeOK
    <3> QED BY <1>4, <3>1 DEF ExternalRemove, TypeOK, batchVars
  <2>2. /\ disk' = [disk EXCEPT ![p] = Free]
        /\ Kept' = Kept \ {IF disk[p] = Partial THEN op.data ELSE disk[p]}
        /\ op' = op
    BY <1>4 DEF ExternalRemove, Kept
  <2>3. Partial \notin Kept
    BY PlaceFacts DEF Kept, TypeOK
  <2>4. NothingLost'
    BY <2>2, <2>3 DEF NothingLost, TypeOK
  <2>5. ASSUME NEW c, NEW S, SafeBeside(c, S)
        PROVE  SafeBeside(c, S)'
    BY <2>2, <2>3, <2>5 DEF SafeBeside, TypeOK
  <2>6. disk[p] = Partial => op.data \notin Kept'
    BY <2>2
  <2>7. MoveInv'
    BY <2>2, <2>5, <2>6 DEF MoveInv, Idle, SafeBeside, TypeOK
  <2> QED BY <1>1, <2>1, <2>4, <2>7
<1> QED BY <1>2, <1>3, <1>4 DEF External

LEMMA Stutter ==
  ASSUME IInv, UNCHANGED vars
  PROVE  IInv'
BY DEF vars, batchVars, history, IInv, TypeOK, PlanInv, Executing, Renames, MoveInv, Idle,
       NothingLost, Kept, SafeBeside

LEMMA Inductive == Spec => []IInv
<1>1. IInv /\ [Next]_vars => IInv'
  BY PlanStep, MoveStep, LoopStep, RollbackStep, EnvironmentStep, Stutter
  DEF Next, Execute
<1> QED BY <1>1, InitIInv, PTL DEF Spec

-----------------------------------------------------------------------------
(***************************************************************************)
(* Every variable of a rename batch keeps its type.                        *)
(***************************************************************************)
THEOREM TypeCorrect == Spec => []TypeOK
BY Inductive, PTL DEF IInv

(***************************************************************************)
(* No file is lost, whatever call fails, whenever another program creates  *)
(* or removes files, and wherever the process is killed.                   *)
(***************************************************************************)
THEOREM NoFileIsLost == Spec => []NothingLost
BY Inductive, PTL DEF IInv

(***************************************************************************)
(* No step puts other bytes under a name that holds a file.                *)
(***************************************************************************)
THEOREM NothingIsOverwritten == Spec => NeverOverwrites
<1> DEFINE Keeps == \A p \in Places : disk[p] \notin {Free, Partial} => disk'[p] \in {disk[p], Free}
<1>1. ASSUME IInv, Move PROVE Keeps
  <2>1. op.from \in Places /\ op.to \in Places /\ op.from # op.to
    BY <1>1 DEF IInv, MoveInv, Idle, Move, CanOpen, MoveRefused, MoveLink, MoveCopyOpen,
         MoveCopyDone, MoveCopyFails, MoveUnlinkSource, MoveUnlinkFails, MoveUndo,
         MoveUndoFails
  <2> QED
    BY <1>1, <2>1 DEF IInv, TypeOK, Lexists, Move, CanOpen, MoveRefused, MoveLink,
         MoveCopyOpen, MoveCopyDone, MoveCopyFails, MoveUnlinkSource, MoveUnlinkFails,
         MoveUndo, MoveUndoFails
<1>2. ASSUME IInv, External PROVE Keeps
  BY <1>2 DEF IInv, TypeOK, External, ExternalCreate, ExternalRemove, Lexists
<1>3. ASSUME IInv, Next, ~Move, ~External PROVE disk' = disk
  BY <1>3 DEF Next, Execute, Preview, ExecuteRefused, ExecutePreflightFails, ReportBlocked,
     ExecuteNothing, ExecuteStart, StageBegin, StageNoTemporary, StageDone, StageFailed,
     FinalizeBegin, FinalizeDone, FinalizeFailed, RestoreBegin, RestoreMissing, RestoreDone,
     RestoreFailed, FinishUnstage, FinishRestore, SyncRows, Crash
<1>4. IInv /\ [Next]_vars => [Keeps]_vars
  BY <1>1, <1>2, <1>3
<1> QED BY <1>4, Inductive, PTL DEF Spec, NeverOverwrites
-----------------------------------------------------------------------------
(***************************************************************************)
(* The second invariant: where the files of the batch are.                 *)
(***************************************************************************)
Planning == pc \in {"preview", "refused", "confirmed"}
Over     == pc \in {"done", "synced"}

\* The name a file has while its rename is not under way.
Home(i) ==
  IF i \notin staged THEN Entry(src[i])
  ELSE IF report[i] = NoReport THEN Temp(i) ELSE report[i]

\* How far the loops are, and what they noted.
PlanningControl ==
  Planning => /\ staged = {} /\ finalized = {} /\ ~stranded /\ verdict = "none"
              /\ \A i \in Files : report[i] = NoReport

DistinctSources ==
  pc = "confirmed" \/ Executing =>
    \A i, j \in Files : Entry(src[i]) = Entry(src[j]) => i = j

LoopControl ==
  /\ Executing => cur \in Renames /\ verdict = "none"
  /\ pc \in {"stage", "unstage"} => staged = {j \in Renames : j < cur} /\ finalized = {}
  /\ pc \in {"finalize", "restore"} => staged = Renames /\ finalized = {j \in Renames : j < cur}

ReportControl ==
  Executing => \A i \in Files :
    /\ i \notin Renames => report[i] = Entry(src[i])
    /\ i \in Renames \ staged => report[i] = NoReport
    /\ i \in finalized => report[i] = Entry(dst[i])
    /\ pc \in {"stage", "finalize"} /\ i \in staged \ finalized => report[i] = NoReport
    /\ report[i] \in Entries \cup {NoReport, Missing, Temp(i)}

StrandedControl ==
  Executing =>
    (stranded <=> \E i \in staged \ finalized : report[i] \notin {NoReport, Entry(src[i])})

OpControl ==
  /\ Planning \/ Over => Idle
  /\ Idle => op = NoMove
  /\ pc = "stage" /\ ~Idle =>
       op.file = cur /\ op.from = Entry(src[cur]) /\ op.to = Temp(cur)
  /\ pc = "finalize" /\ ~Idle =>
       op.file = cur /\ op.from = Temp(cur) /\ op.to = Entry(dst[cur])
  /\ pc \in {"unstage", "restore"} /\ ~Idle =>
       op.file \in ToRestore /\ op.from = Temp(op.file) /\ op.to = Entry(src[op.file])

Control ==
  /\ PlanningControl /\ DistinctSources /\ LoopControl
  /\ ReportControl /\ StrandedControl /\ OpControl

\* Whose bytes a place can hold.
OwnBytes ==
  /\ op.data \in Files => op.data = op.file
  /\ \A i \in Files : disk[Temp(i)] \in Files => disk[Temp(i)] = i
  /\ Planning \/ pc = "stage" =>
       \A e \in Entries : disk[e] \in Files => Entry(src[disk[e]]) = e

Fresh ==
  /\ \A p \in Places : disk[p] \in existed \cup {Free, Partial}
  /\ op.data \in existed \cup {Free, Partial}
  /\ \A x \in existed : x \in Nat => x <= N + external

\* A file of the batch is at its home, or where the move that ended put it.
Spot(i) == IF op.file = i /\ op.step = "renamed" THEN op.to ELSE Home(i)

AtHome ==
  Planning \/ Executing => \A i \in Files \cap Kept : Spot(i) \in Places /\ disk[Spot(i)] = i

MovesOwnFile ==
  Executing /\ op.file \in Kept =>
    /\ op.step \in {"linked", "copying", "undo"} => op.data = op.file
    /\ op.step = "linked"  => disk[op.to] = op.file
    /\ op.step = "copying" => disk[op.to] = Partial

\* No file has two names but the one being moved.
OneName ==
  pc # "crashed" /\ ~undoFailed =>
    /\ \A p, q \in Places : disk[p] # Free /\ disk[p] = disk[q] =>
         \/ p = q
         \/ op.step \in {"linked", "undo"} /\ op.from \in {p, q} /\ op.to \in {p, q}
    /\ \A p \in Places : disk[p] = Partial => p = op.to /\ op.step \in {"copying", "undo"}
    /\ op.step = "copying" => \A q \in Places : disk[q] = op.data /\ disk[q] # Free => q = op.from

\* A temporary name is in use only for a file on its way or a reported one.
Temporaries ==
  pc # "crashed" /\ ~undoFailed =>
    /\ \A i \in Files : Lexists(Temp(i)) =>
         \/ i \in staged /\ report[i] = NoReport /\ ~Over
         \/ report[i] = Temp(i)
         \/ /\ op.file = i /\ op.to = Temp(i)
            /\ op.step \in {"linked", "copying", "undo", "renamed"}
    /\ op.step = "renamed" /\ op.from \in Files => disk[op.from] = Free

\* What the results say is so, and rows loaded from one name share a result.
ReportSound ==
  /\ Over => /\ \A i \in Files \cap Kept : report[i] \in Places /\ disk[report[i]] = i
             /\ \A i, j \in Files : Entry(src[i]) = Entry(src[j]) => report[i] = report[j]
  /\ verdict = "completed" => dst \in [Files -> Names]

PlaceInv ==
  /\ Control /\ OwnBytes /\ Fresh /\ AtHome /\ MovesOwnFile /\ OneName /\ Temporaries
  /\ ReportSound /\ VerdictSound /\ RowsFollowFiles

LEMMA InitPlaceInv == Init => PlaceInv
<1> SUFFICES ASSUME Init PROVE PlaceInv
  OBVIOUS
<1> USE DEF Init
<1>0. TypeOK
  BY InitIInv DEF IInv
<1>1. pc = "preview" /\ op = NoMove /\ staged = {} /\ finalized = {} /\ ~stranded
      /\ verdict = "none" /\ gone = {} /\ external = 0 /\ ~undoFailed
      /\ report = [i \in Files |-> NoReport] /\ existed = {disk[p] : p \in Places} \ {Free}
  OBVIOUS
<1>2. Idle /\ op.data = Free /\ op.file = 0 /\ op.step = "idle"
  BY <1>1 DEF Idle, NoMove
<1>3. PICK present \in SUBSET Entries :
        disk = [p \in Places |-> IF p \in present THEN Original(p) ELSE Free]
  OBVIOUS
<1> HIDE DEF Init
<1>4. \A e \in Entries : \/ Original(e) = e /\ e \notin Files
                         \/ Original(e) \in Files /\ Entry(src[Original(e)]) = e
  <2> SUFFICES ASSUME NEW e \in Entries
               PROVE  \/ Original(e) = e /\ e \notin Files
                      \/ Original(e) \in Files /\ Entry(src[Original(e)]) = e
    OBVIOUS
  <2> DEFINE loaded == {i \in Files : Entry(src[i]) = e}
  <2>1. CASE loaded = {}
    BY <2>1, PlaceFacts DEF Original
  <2>2. CASE loaded # {}
    <3>1. First(loaded) \in loaded
      <4>1. loaded \in SUBSET Files
        OBVIOUS
      <4> HIDE DEF loaded
      <4> QED BY <2>2, <4>1, FirstIsMember
    <3> QED BY <2>2, <3>1 DEF Original
  <2> QED BY <2>1, <2>2
<1>5. \A p \in Places : \/ p \notin Entries /\ disk[p] = Free
                        \/ p \in Entries /\ disk[p] \in {Free, p}
                        \/ p \in Entries /\ disk[p] \in Files /\ Entry(src[disk[p]]) = p
  BY <1>3, <1>4, PlaceFacts
<1> HIDE DEF Original
<1>6. Entries \cap Nat = {} /\ Files \subseteq Nat /\ (\A i \in Files : i <= N) /\ N \in Nat
      /\ 0 \notin Files
  BY ConstantsAssumption DEF Entries, Entry, Files
<1>7. Control
  BY <1>1, <1>2 DEF Control, Planning, Executing, Over, PlanningControl, DistinctSources,
     LoopControl, ReportControl, StrandedControl, OpControl
<1>8. OwnBytes
  BY <1>1, <1>2, <1>5, <1>6, PlaceFacts DEF OwnBytes, Temp
<1>9. Fresh
  BY <1>1, <1>2, <1>5, <1>6, PlaceFacts DEF Fresh
<1>10. AtHome
  <2> SUFFICES ASSUME NEW i \in Files, i \in Kept
               PROVE  Spot(i) \in Places /\ disk[Spot(i)] = i
    BY DEF AtHome
  <2>1. PICK p \in Places : disk[p] = i
    BY <1>1 DEF Kept
  <2>2. p = Entry(src[i])
    BY <1>5, <2>1, PlaceFacts
  <2> QED BY <1>1, <1>2, <2>1, <2>2 DEF Spot, Home
<1>11. MovesOwnFile /\ ReportSound /\ VerdictSound /\ RowsFollowFiles
  BY <1>1 DEF MovesOwnFile, Executing, ReportSound, Over, VerdictSound, RowsFollowFiles
<1>12. OneName
  BY <1>2, <1>5, PlaceFacts DEF OneName
<1>13. Temporaries
  BY <1>2, <1>5, PlaceFacts DEF Temporaries, Temp, Lexists
<1> QED BY <1>7, <1>8, <1>9, <1>10, <1>11, <1>12, <1>13 DEF PlaceInv

-----------------------------------------------------------------------------
(* The loops visit the renamed rows in order. *)

LEMMA FirstIsLeast ==
  ASSUME NEW S \in SUBSET Files, S # {}
  PROVE  First(S) \in S /\ \A j \in S : First(S) <= j
<1>1. S \in SUBSET Nat
  BY DEF Files
<1>2. \E i \in S : \A j \in S : i <= j
  BY <1>1, HasMinimum
<1> QED BY <1>2 DEF First

LEMMA LoopStarts ==
  ASSUME Renames # {}
  PROVE  First(Renames) \in Renames /\ {j \in Renames : j < First(Renames)} = {}
<1>1. Renames \in SUBSET Files /\ Files \subseteq Nat
  BY DEF Renames, Files
<1>2. First(Renames) \in Renames /\ \A j \in Renames : First(Renames) <= j
  BY <1>1, FirstIsLeast
<1>3. First(Renames) \in Nat
  BY <1>1, <1>2
<1>4. \A j \in Renames : j \in Nat
  BY <1>1
<1> QED BY <1>2, <1>3, <1>4

LEMMA LoopGoesOn ==
  ASSUME NEW i \in Renames
  PROVE  /\ Later(i) = {} => {j \in Renames : j < i} \cup {i} = Renames
         /\ Later(i) # {} =>
              /\ First(Later(i)) \in Renames
              /\ {j \in Renames : j < i} \cup {i} = {j \in Renames : j < First(Later(i))}
<1>1. Renames \in SUBSET Files /\ \A j \in Renames : j \in Nat
  BY DEF Renames, Files
<1>2. CASE Later(i) = {}
  BY <1>1, <1>2 DEF Later
<1>3. CASE Later(i) # {}
  <2>1. Later(i) \in SUBSET Files
    BY <1>1 DEF Later
  <2>2. First(Later(i)) \in Later(i) /\ \A j \in Later(i) : First(Later(i)) <= j
    BY <1>3, <2>1, FirstIsLeast
  <2> DEFINE k == First(Later(i))
  <2>3. k \in Renames /\ k \in Nat /\ i \in Nat /\ k > i /\ \A j \in Renames : j > i => k <= j
    BY <1>1, <2>2 DEF Later
  <2> HIDE DEF k
  <2>4. {j \in Renames : j < i} \cup {i} = {j \in Renames : j < k}
    <3>1. \A j \in Renames : j < k <=> j < i \/ j = i
      <4> SUFFICES ASSUME NEW j \in Renames PROVE j < k <=> j < i \/ j = i
        OBVIOUS
      <4>1. j \in Nat /\ (j > i => k <= j)
        BY <1>1, <2>3
      <4> QED BY <2>3, <4>1
    <3> QED BY <3>1
  <2> QED BY <1>3, <2>3, <2>4 DEF k
<1> QED BY <1>2, <1>3

-----------------------------------------------------------------------------
(* Control is kept. *)

LEMMA FixedPlan ==
  ASSUME Next
  PROVE  UNCHANGED <<src, dst>> /\ Renames' = Renames /\ \A i : Later(i)' = Later(i)
<1>1. UNCHANGED <<src, dst>>
  BY DEF Next, Preview, Execute, External, Crash, ExternalCreate, ExternalRemove,
     ExecuteRefused, ExecutePreflightFails, ReportBlocked, ExecuteNothing, ExecuteStart,
     Move, MoveRefused, MoveLink, MoveCopyOpen, MoveCopyDone, MoveCopyFails, MoveUnlinkSource,
     MoveUnlinkFails, MoveUndo, MoveUndoFails, StageBegin, StageNoTemporary, StageDone,
     StageFailed, FinalizeBegin, FinalizeDone, FinalizeFailed, RestoreBegin, RestoreMissing,
     RestoreDone, RestoreFailed, FinishUnstage, FinishRestore, SyncRows
<1> QED BY <1>1 DEF Renames, Later

LEMMA PlanControl ==
  ASSUME IInv, Control,
         Preview \/ ExecuteRefused \/ ExecutePreflightFails \/ ExecuteNothing \/ ExecuteStart
  PROVE  Control'
<1> USE DEF Control
<1>1. UNCHANGED <<src, dst>> /\ Renames' = Renames /\ Next
  BY FixedPlan DEF Next, Execute
<1>2. Planning /\ pc \notin {"stage", "finalize", "unstage", "restore", "done", "synced"}
  BY DEF Preview, ExecuteRefused, ExecutePreflightFails, ExecuteNothing, ExecuteStart, Planning
<1>3. CASE Preview
  <2>1. pc' \in {"refused", "confirmed"} /\ UNCHANGED <<batchVars, op>>
    BY <1>3 DEF Preview
  <2>2. pc' = "confirmed" => ~HasBlockingIssues
    BY <1>3 DEF Preview
  <2>3. ASSUME pc' = "confirmed", NEW i \in Files, NEW j \in Files, Entry(src[i]) = Entry(src[j])
        PROVE  i = j
    <3>1. ~DuplicateSource(i)
      BY <2>2, <2>3 DEF HasBlockingIssues
    <3>2. PortableKey[src[i]] = PortableKey[src[j]]
      BY <2>3 DEF Entry
    <3> QED BY <3>1, <3>2 DEF DuplicateSource
  <2>4. DistinctSources'
    BY <1>1, <2>1, <2>3 DEF DistinctSources, Executing, Entry
  <2> QED
    BY <1>1, <1>2, <2>1, <2>4 DEF batchVars, Planning, Executing, Over, PlanningControl,
       LoopControl, ReportControl, StrandedControl, OpControl, Idle
<1>4. CASE ExecuteRefused \/ ExecutePreflightFails \/ ExecuteNothing
  <2>1. pc' = "done" /\ UNCHANGED op
    BY <1>4 DEF ExecuteRefused, ExecutePreflightFails, ExecuteNothing, ReportBlocked
  <2> QED BY <1>2, <2>1 DEF Planning, Executing, Over, PlanningControl, DistinctSources,
       LoopControl, ReportControl, StrandedControl, OpControl, Idle
<1>5. CASE ExecuteStart
  <2>1. /\ Renames # {} /\ cur' = First(Renames) /\ pc' = "stage"
        /\ report' = [i \in Files |-> IF i \in Renames THEN NoReport ELSE Entry(src[i])]
        /\ UNCHANGED <<staged, finalized, stranded, op, verdict>>
    BY <1>5 DEF ExecuteStart
  <2>2. cur' \in Renames /\ {j \in Renames : j < cur'} = {}
    BY <2>1, LoopStarts
  <2>3. staged = {} /\ finalized = {} /\ ~stranded /\ verdict = "none" /\ Idle
    BY <1>2 DEF PlanningControl, OpControl
  <2>4. \A i \in Files : Entry(src[i]) \in Entries
    BY PlaceFacts DEF IInv, TypeOK
  <2>5. LoopControl'
    BY <1>1, <2>1, <2>2, <2>3 DEF LoopControl, Executing
  <2>6. ReportControl'
    BY <1>1, <2>1, <2>3, <2>4 DEF ReportControl, Executing, Entry
  <2>7. DistinctSources'
    BY <1>1, <1>5 DEF ExecuteStart, DistinctSources, Entry
  <2> QED BY <2>1, <2>3, <2>5, <2>6, <2>7
      DEF Planning, Over, PlanningControl, StrandedControl, OpControl, Idle
<1> QED BY <1>3, <1>4, <1>5

LEMMA MoveControl ==
  ASSUME IInv, Control, Move
  PROVE  Control'
<1>1. /\ UNCHANGED <<src, dst, pc, batchVars>> /\ Renames' = Renames /\ Executing
      /\ op'.file = op.file /\ op'.from = op.from /\ op'.to = op.to
      /\ op.step # "idle" /\ op'.step # "idle"
  BY DEF IInv, TypeOK, Move, MoveRefused, MoveLink, MoveCopyOpen, MoveCopyDone, MoveCopyFails,
         MoveUnlinkSource, MoveUnlinkFails, MoveUndo, MoveUndoFails, CanOpen, Renames
<1> QED BY <1>1 DEF batchVars, Control, Planning, Executing, Over, PlanningControl,
       DistinctSources, LoopControl, ReportControl, StrandedControl, OpControl, Idle, Entry,
       ToRestore, Temp

LEMMA EnvironmentControl ==
  ASSUME IInv, Control, External \/ Crash
  PROVE  Control'
<1>1. UNCHANGED <<src, dst, batchVars, op>> /\ (pc' = pc \/ pc' = "crashed") /\ Renames' = Renames
  BY DEF External, ExternalCreate, ExternalRemove, Crash, Renames
<1> QED BY <1>1 DEF batchVars, Control, Planning, Executing, Over, PlanningControl,
       DistinctSources, LoopControl, ReportControl, StrandedControl, OpControl, Idle, Entry,
       ToRestore, Temp

LEMMA LoopControlStep ==
  ASSUME IInv, Control,
         StageBegin \/ StageNoTemporary \/ StageDone \/ StageFailed
           \/ FinalizeBegin \/ FinalizeDone \/ FinalizeFailed
  PROVE  Control'
<1>1. UNCHANGED <<src, dst, stranded>> /\ Renames' = Renames
  BY DEF StageBegin, StageNoTemporary, StageDone, StageFailed, FinalizeBegin, FinalizeDone,
     FinalizeFailed, batchVars, Renames
<1>2. pc \in {"stage", "finalize"} /\ Executing /\ ~Planning /\ ~Over
  BY DEF StageBegin, StageNoTemporary, StageDone, StageFailed, FinalizeBegin, FinalizeDone,
     FinalizeFailed, Executing, Planning, Over
<1>3. cur \in Renames /\ verdict = "none" /\ Renames \subseteq Files /\ Renames # {}
  BY <1>2 DEF Control, LoopControl, Renames
<1>4. DistinctSources'
  BY <1>1, <1>2 DEF Control, DistinctSources, Entry
<1>5. CASE StageBegin \/ FinalizeBegin
  <2>1. UNCHANGED <<pc, batchVars>> /\ op'.step = "open" /\ op'.file = cur
    BY <1>5 DEF StageBegin, FinalizeBegin, Begin
  <2>2. /\ pc = "stage" => op'.from = Entry(src[cur]) /\ op'.to = Temp(cur)
        /\ pc = "finalize" => op'.from = Temp(cur) /\ op'.to = Entry(dst[cur])
    BY <1>5 DEF StageBegin, FinalizeBegin, Begin
  <2>3. OpControl'
    BY <1>1, <1>2, <2>1, <2>2 DEF OpControl, Idle, Planning, Over, batchVars, Entry, Temp
  <2>4. PlanningControl' /\ LoopControl' /\ ReportControl' /\ StrandedControl'
    BY <1>1, <1>2, <2>1 DEF batchVars, Control, Planning, Executing, PlanningControl, LoopControl,
       ReportControl, StrandedControl, Entry, Temp
  <2> QED BY <1>4, <2>3, <2>4 DEF Control
<1>6. CASE StageNoTemporary \/ StageFailed \/ FinalizeFailed
  <2>1. /\ UNCHANGED batchVars /\ op' = NoMove
        /\ \/ pc = "stage" /\ pc' = "unstage"
           \/ pc = "finalize" /\ pc' = "restore"
    BY <1>6 DEF StageNoTemporary, StageFailed, FinalizeFailed, Control, OpControl
  <2>2. OpControl'
    BY <2>1 DEF OpControl, Idle, NoMove, Planning, Over
  <2>3. PlanningControl' /\ LoopControl' /\ ReportControl' /\ StrandedControl'
    BY <1>1, <1>2, <2>1 DEF batchVars, Control, Planning, Executing, PlanningControl, LoopControl,
       ReportControl, StrandedControl, Entry, Temp
  <2> QED BY <1>4, <2>2, <2>3 DEF Control
<1>7. CASE StageDone
  <2>1. pc = "stage" /\ staged' = staged \cup {cur} /\ op' = NoMove
        /\ UNCHANGED <<finalized, report, verdict>>
    BY <1>7 DEF StageDone
  <2>2. \/ Later(cur) # {} /\ cur' = First(Later(cur)) /\ pc' = "stage"
        \/ Later(cur) = {} /\ cur' = First(Renames) /\ pc' = "finalize"
    BY <1>7 DEF StageDone
  <2>3. staged = {j \in Renames : j < cur} /\ finalized = {}
    BY <2>1 DEF Control, LoopControl
  <2>4. cur' \in Renames /\ LoopControl'
    <3>1. CASE Later(cur) # {}
      BY <1>1, <1>3, <2>1, <2>2, <2>3, <3>1, LoopGoesOn DEF LoopControl, Executing
    <3>2. CASE Later(cur) = {}
      BY <1>1, <1>3, <2>1, <2>2, <2>3, <3>2, LoopGoesOn, LoopStarts DEF LoopControl, Executing
    <3> QED BY <3>1, <3>2
  <2>5. OpControl'
    BY <2>1, <2>2 DEF OpControl, Idle, NoMove, Planning, Over
  <2>6. report[cur] = NoReport
    <3>1. cur \notin staged
      <4>1. cur \in Nat
        BY <1>3 DEF Files
      <4> QED BY <2>3, <4>1
    <3> QED BY <1>2, <1>3, <3>1 DEF Control, ReportControl
  <2>7. \A i \in Files : i \in staged' => report[i] = NoReport
    BY <1>2, <2>1, <2>3, <2>6 DEF Control, ReportControl
  <2>8. ReportControl'
    BY <1>1, <1>2, <2>1, <2>2, <2>3, <2>7 DEF Control, ReportControl, Entry, Temp
  <2>9. ~stranded /\ StrandedControl'
    <3>1. \A i \in staged : i \in Files
      BY <1>3, <2>3
    <3>2. \A i \in staged' : report'[i] = NoReport
      BY <1>3, <2>1, <2>7, <3>1
    <3>3. ~stranded
      BY <1>2, <2>1, <2>7, <3>1 DEF Control, StrandedControl
    <3> QED BY <1>1, <3>2, <3>3 DEF StrandedControl
  <2> QED BY <1>4, <2>2, <2>4, <2>5, <2>8, <2>9 DEF Control, PlanningControl, Planning
<1>8. CASE FinalizeDone
  <2>1. /\ pc = "finalize" /\ finalized' = finalized \cup {cur} /\ op' = NoMove
        /\ report' = [report EXCEPT ![cur] = Entry(dst[cur])] /\ UNCHANGED staged
    BY <1>8 DEF FinalizeDone
  <2>2. \/ Later(cur) # {} /\ cur' = First(Later(cur)) /\ pc' = "finalize" /\ UNCHANGED verdict
        \/ Later(cur) = {} /\ pc' = "done"
    BY <1>8 DEF FinalizeDone
  <2>3. OpControl'
    BY <2>1, <2>2 DEF OpControl, Idle, NoMove, Planning, Over
  <2>4. PlanningControl'
    BY <2>2 DEF PlanningControl, Planning
  <2>5. CASE pc' = "done"
    BY <1>4, <2>3, <2>4, <2>5 DEF Control, LoopControl, ReportControl, StrandedControl, Executing
  <2>6. CASE Later(cur) # {} /\ cur' = First(Later(cur)) /\ pc' = "finalize" /\ UNCHANGED verdict
    <3>1. staged = Renames /\ finalized = {j \in Renames : j < cur}
      BY <2>1 DEF Control, LoopControl
    <3>2. LoopControl'
      BY <1>1, <1>3, <2>1, <2>6, <3>1, LoopGoesOn DEF LoopControl, Executing
    <3>3. /\ report'[cur] = Entry(dst[cur]) /\ Entry(dst[cur]) \in Entries
          /\ \A i \in Files \ {cur} : report'[i] = report[i]
      <4>1. dst \in [Files -> Names] /\ cur \in Files
        BY <1>2, <1>3 DEF IInv, PlanInv
      <4> QED BY <2>1, <4>1, PlaceFacts DEF IInv, TypeOK
    <3>4. ReportControl'
      BY <1>1, <1>2, <1>3, <2>1, <2>6, <3>1, <3>3 DEF Control, ReportControl, Entry, Temp
    <3>5. \A i \in staged \ finalized : report[i] = NoReport
      BY <1>2, <1>3, <2>1, <3>1 DEF Control, ReportControl
    <3>6. ~stranded
      BY <1>2, <3>5 DEF Control, StrandedControl
    <3>7. \A i \in staged' \ finalized' : report'[i] = NoReport
      BY <1>3, <2>1, <3>1, <3>3, <3>5
    <3>8. StrandedControl'
      BY <1>1, <3>6, <3>7 DEF StrandedControl
    <3> QED BY <1>4, <2>3, <2>4, <3>2, <3>4, <3>8 DEF Control
  <2> QED BY <2>2, <2>5, <2>6
<1> QED BY <1>5, <1>6, <1>7, <1>8

LEMMA RollbackControl ==
  ASSUME IInv, Control,
         RestoreBegin \/ RestoreMissing \/ RestoreDone \/ RestoreFailed
           \/ FinishUnstage \/ FinishRestore \/ SyncRows
  PROVE  Control'
<1>1. UNCHANGED <<src, dst>> /\ Renames' = Renames
  BY DEF RestoreBegin, RestoreMissing, RestoreDone, RestoreFailed, FinishUnstage,
         FinishRestore, SyncRows, Renames
<1>2. CASE FinishUnstage \/ FinishRestore \/ SyncRows
  <2>1. pc' \in {"done", "synced"} /\ UNCHANGED op
    BY <1>2 DEF FinishUnstage, FinishRestore, SyncRows
  <2>2. Idle
    BY <1>2 DEF FinishUnstage, FinishRestore, SyncRows, Control, OpControl, Over
  <2> QED BY <2>1, <2>2 DEF Control, Planning, Executing, Over, PlanningControl, DistinctSources,
       LoopControl, ReportControl, StrandedControl, OpControl, Idle
<1>3. CASE RestoreBegin \/ RestoreMissing \/ RestoreDone \/ RestoreFailed
  <2>1. /\ pc \in {"unstage", "restore"} /\ Executing /\ ~Planning /\ ~Over /\ ToRestore # {}
        /\ UNCHANGED <<pc, cur, staged, finalized, verdict>>
    BY <1>3 DEF RestoreBegin, RestoreMissing, RestoreDone, RestoreFailed, batchVars, Restoring,
         Executing, Planning, Over
  <2>2. DistinctSources' /\ PlanningControl' /\ LoopControl'
    BY <1>1, <2>1 DEF Control, DistinctSources, PlanningControl, LoopControl, Executing, Planning,
         Entry
  <2>3. Next2Restore \in ToRestore /\ ToRestore \subseteq Files /\ ToRestore \subseteq staged
    BY <2>1, FirstIsMember, LastIsMember DEF Next2Restore, ToRestore, IInv, TypeOK
  <2>4. staged \subseteq Renames /\ \A i \in ToRestore : report[i] = NoReport
    BY <2>1 DEF Control, LoopControl, ToRestore
  <2>5. \A i \in ToRestore : i \notin finalized
    <3>1. dst \in [Files -> Names]
      BY <2>1 DEF IInv, PlanInv
    <3>2. \A i \in Files : Entry(dst[i]) # NoReport
      BY <3>1, PlaceFacts
    <3> QED BY <2>1, <2>3, <2>4, <3>2 DEF Control, ReportControl
  <2>6. CASE RestoreBegin
    <3>1. /\ op'.file = Next2Restore /\ op'.from = Temp(op'.file) /\ op'.to = Entry(src[op'.file])
          /\ op'.step = "open" /\ UNCHANGED <<report, stranded>>
      BY <2>6 DEF RestoreBegin, Begin, batchVars
    <3>2. OpControl'
      BY <1>1, <2>1, <2>3, <3>1 DEF OpControl, Idle, ToRestore, Planning, Over, Entry, Temp
    <3>3. ReportControl' /\ StrandedControl'
      BY <1>1, <2>1, <3>1 DEF Control, ReportControl, StrandedControl, Executing, Entry, Temp
    <3> QED BY <2>2, <3>2, <3>3 DEF Control
  <2>7. ASSUME NEW i \in ToRestore, NEW where \in Entries \cup {Missing, Temp(i)},
               report' = [report EXCEPT ![i] = where], op' = NoMove,
               \/ where = Entry(src[i]) /\ UNCHANGED stranded
               \/ where # Entry(src[i]) /\ stranded'
        PROVE  Control'
    <3>1. i \in Files /\ where # NoReport
      BY <2>3, PlaceFacts, ConstantsAssumption DEF Temp, Files
    <3>2. report'[i] = where /\ \A j \in Files \ {i} : report'[j] = report[j]
      BY <2>7, <3>1 DEF IInv, TypeOK
    <3>3. OpControl'
      BY <2>1, <2>7 DEF OpControl, Idle, NoMove, Planning, Over
    <3>4. i \in staged /\ i \in Renames /\ i \notin finalized
      BY <2>3, <2>4, <2>5
    <3>5. ReportControl'
      BY <1>1, <2>1, <2>7, <3>1, <3>2, <3>4 DEF Control, ReportControl, Entry, Temp
    <3>6. StrandedControl'
      <4>1. staged \subseteq Files
        BY DEF IInv, TypeOK
      <4>2. report[i] = NoReport
        BY <2>4
      <4>3. stranded <=> \E j \in staged \ finalized : report[j] \notin {NoReport, Entry(src[j])}
        BY <2>1 DEF Control, StrandedControl
      <4>4. CASE where = Entry(src[i]) /\ UNCHANGED stranded
        BY <1>1, <2>1, <3>1, <3>2, <3>4, <4>1, <4>2, <4>3, <4>4 DEF StrandedControl, Entry
      <4>5. CASE where # Entry(src[i]) /\ stranded'
        BY <1>1, <2>1, <3>1, <3>2, <3>4, <4>5 DEF StrandedControl, Entry
      <4> QED BY <2>7, <4>4, <4>5
    <3> QED BY <2>2, <3>3, <3>5, <3>6 DEF Control
  <2>8. \A i \in ToRestore : Entry(src[i]) \in Entries /\ Entry(src[i]) # Temp(i)
    BY <2>3, RowPlaces DEF IInv
  <2>9. op.step \in {"renamed", "failed"} => op.file \in ToRestore
    BY <2>1 DEF Control, OpControl, Idle
  <2>10. CASE RestoreMissing
    <3> DEFINE i == Next2Restore
    <3>1. op' = NoMove
      BY <2>10 DEF RestoreMissing, Control, OpControl
    <3>2. CASE Lexists(Entry(src[i]))
      <4>1. report' = [report EXCEPT ![i] = Entry(src[i])] /\ UNCHANGED stranded
        BY <2>10, <3>2 DEF RestoreMissing
      <4> QED BY <2>3, <2>7, <2>8, <3>1, <4>1
    <3>3. CASE ~Lexists(Entry(src[i]))
      <4> DEFINE where == IF Lexists(Entry(dst[i])) THEN Entry(dst[i]) ELSE Missing
      <4>1. report' = [report EXCEPT ![i] = where] /\ stranded'
        BY <2>10, <3>3 DEF RestoreMissing
      <4>2. dst \in [Files -> Names] /\ i \in Files /\ i \in ToRestore
        BY <2>1, <2>3 DEF IInv, PlanInv
      <4>3. where \in Entries \cup {Missing, Temp(i)} /\ where # Entry(src[i])
        BY <2>8, <3>3, <4>2, PlaceFacts
      <4> HIDE DEF where, i
      <4> QED BY <2>7, <3>1, <4>1, <4>2, <4>3
    <3> QED BY <3>2, <3>3
  <2>11. CASE RestoreDone
    BY <2>7, <2>8, <2>9, <2>11 DEF RestoreDone
  <2>12. CASE RestoreFailed
    BY <2>7, <2>8, <2>9, <2>12 DEF RestoreFailed
  <2> QED BY <1>3, <2>6, <2>10, <2>11, <2>12
<1> QED BY <1>2, <1>3

-----------------------------------------------------------------------------
(* What the steps that make no system call do to the move in progress. *)

Bookkeeping ==
  \/ Preview \/ ExecuteRefused \/ ExecutePreflightFails \/ ExecuteNothing \/ ExecuteStart
  \/ StageBegin \/ StageNoTemporary \/ StageDone \/ StageFailed
  \/ FinalizeBegin \/ FinalizeDone \/ FinalizeFailed
  \/ RestoreBegin \/ RestoreMissing \/ RestoreDone \/ RestoreFailed
  \/ FinishUnstage \/ FinishRestore \/ SyncRows

LEMMA StillDisk ==
  ASSUME IInv, Control, Bookkeeping
  PROVE  /\ UNCHANGED <<src, dst, disk, existed, gone, external, undoFailed>>
         /\ pc # "crashed" /\ pc' # "crashed"
         /\ Planning' \/ pc' = "stage" => Planning \/ pc = "stage"
         /\ \/ op' = op
            \/ op.step \in {"renamed", "failed"} /\ op' = NoMove
            \/ op.step = "idle" /\ op'.step = "open" /\ op'.data = Free
<1>1. CASE Preview \/ ExecuteRefused \/ ExecutePreflightFails \/ ExecuteNothing \/ ExecuteStart
  BY <1>1 DEF Preview, ExecuteRefused, ExecutePreflightFails, ExecuteNothing, ExecuteStart,
     ReportBlocked, Planning, history, batchVars
<1>2. CASE StageBegin \/ FinalizeBegin \/ RestoreBegin
  BY <1>2 DEF StageBegin, FinalizeBegin, RestoreBegin, Begin, Idle, Planning, history, Restoring
<1>3. CASE StageNoTemporary \/ RestoreMissing \/ FinishUnstage \/ FinishRestore \/ SyncRows
  BY <1>3 DEF StageNoTemporary, RestoreMissing, FinishUnstage, FinishRestore, SyncRows, Planning,
     history, Restoring
<1>4. CASE StageDone \/ StageFailed \/ FinalizeDone \/ FinalizeFailed
  BY <1>4 DEF StageDone, StageFailed, FinalizeDone, FinalizeFailed, Planning, history
<1>5. CASE RestoreDone \/ RestoreFailed
  BY <1>5 DEF RestoreDone, RestoreFailed, Planning, history, Restoring
<1> QED BY <1>1, <1>2, <1>3, <1>4, <1>5 DEF Bookkeeping

LEMMA NoMoveFacts == NoMove.step = "idle" /\ NoMove.data = Free /\ NoMove.file = 0
BY DEF NoMove

LEMMA FileFacts ==
  /\ Files \subseteq Nat /\ N \in Nat /\ (\A i \in Files : i <= N) /\ 0 \notin Files
  /\ Free \notin Files /\ Partial \notin Files /\ Entries \cap Nat = {}
BY PlaceFacts, ConstantsAssumption DEF Files, Entries, Entry

LEMMA BookkeepingKeepsBytes ==
  ASSUME IInv, Control, OwnBytes, Fresh, Bookkeeping
  PROVE  OwnBytes' /\ Fresh'
<1>1. /\ UNCHANGED <<src, disk, existed, external>>
      /\ Planning' \/ pc' = "stage" => Planning \/ pc = "stage"
      /\ op' = op \/ op'.data = Free
  BY StillDisk, NoMoveFacts
<1>2. OwnBytes'
  BY <1>1, FileFacts DEF OwnBytes, Entry, Temp
<1>3. Fresh'
  BY <1>1 DEF Fresh
<1> QED BY <1>2, <1>3

(* The places of a move are different, and one of them is temporary. *)
LEMMA MovePlaces ==
  ASSUME IInv, Control, Executing, ~Idle
  PROVE  /\ op.file \in Files /\ op.from \in Places /\ op.to \in Places /\ op.from # op.to
         /\ pc = "stage" => op.from = Entry(src[op.file]) /\ op.to = Temp(op.file)
         /\ pc # "stage" => op.from = Temp(op.file) /\ op.to \in Entries
         /\ op.from \in Entries => pc = "stage"
<1>1. op.file \in Files /\ op.from \in Places /\ op.to \in Places /\ op.from # op.to
  BY DEF IInv, MoveInv
<1>2. dst \in [Files -> Names] /\ src \in [Files -> Names]
  BY DEF IInv, PlanInv, TypeOK
<1>3. \A i \in Files : Entry(dst[i]) \in Entries /\ Entry(src[i]) \in Entries /\ Temp(i) \notin Entries
  BY <1>2, PlaceFacts DEF Temp
<1> QED BY <1>1, <1>3 DEF Control, OpControl, Executing

(* A move changes the place it creates or releases, no other. *)
LEMMA MoveEffect ==
  ASSUME IInv, Control, Move
  PROVE  /\ ~Idle /\ UNCHANGED <<src, dst, pc, batchVars, rowAt, existed, gone, external>>
         /\ op'.file = op.file /\ op'.from = op.from /\ op'.to = op.to
         /\ \A p \in Places : p \notin {op.from, op.to} => disk'[p] = disk[p]
         /\ \/ op.step = "open" /\ op'.step = "failed" /\ disk' = disk /\ op'.data = op.data
            \/ /\ op.step = "open" /\ op'.step = "linked" /\ op'.data = disk[op.from]
               /\ disk[op.from] # Free /\ disk[op.to] = Free
               /\ disk'[op.from] = disk[op.from] /\ disk'[op.to] = disk[op.from]
            \/ /\ op.step = "open" /\ op'.step = "copying" /\ op'.data = disk[op.from]
               /\ disk[op.from] # Free /\ disk[op.to] = Free
               /\ disk'[op.from] = disk[op.from] /\ disk'[op.to] = Partial
            \/ /\ op.step = "copying" /\ op'.step = "linked" /\ op'.data = op.data
               /\ disk'[op.from] = disk[op.from]
               /\ disk[op.to] = Partial  => disk'[op.to] = op.data
               /\ disk[op.to] # Partial => disk'[op.to] = disk[op.to]
            \/ /\ op.step \in {"copying", "linked"} /\ op'.step = "undo" /\ disk' = disk
               /\ op'.data = op.data
            \/ /\ op.step = "linked" /\ op'.step = "renamed" /\ op'.data = op.data
               /\ disk'[op.from] = Free /\ disk'[op.to] = disk[op.to]
            \/ /\ op.step = "undo" /\ op'.step = "failed" /\ op'.data = op.data
               /\ disk'[op.to] = Free /\ disk'[op.from] = disk[op.from]
            \/ op.step = "undo" /\ op'.step = "failed" /\ undoFailed' /\ disk' = disk
               /\ op'.data = op.data
         /\ undoFailed => undoFailed'
<1>0. ~Idle
  BY DEF Idle, Move, MoveRefused, MoveLink, MoveCopyOpen, MoveCopyDone, MoveCopyFails,
         MoveUnlinkSource, MoveUnlinkFails, MoveUndo, MoveUndoFails, CanOpen
<1>1. op.from \in Places /\ op.to \in Places /\ op.from # op.to /\ TypeOK /\ Executing
  BY <1>0, MovePlaces DEF IInv, Move
<1>2. CASE MoveRefused
  BY <1>0, <1>1, <1>2 DEF MoveRefused, TypeOK, history
<1>3. CASE MoveLink
  BY <1>0, <1>1, <1>3 DEF MoveLink, CanOpen, Lexists, TypeOK, history
<1>4. CASE MoveCopyOpen
  BY <1>0, <1>1, <1>4 DEF MoveCopyOpen, CanOpen, Lexists, TypeOK, history
<1>5. CASE MoveCopyDone
  BY <1>0, <1>1, <1>5 DEF MoveCopyDone, TypeOK, history
<1>6. CASE MoveCopyFails
  BY <1>0, <1>1, <1>6 DEF MoveCopyFails, TypeOK, history
<1>7. CASE MoveUnlinkSource
  BY <1>0, <1>1, <1>7 DEF MoveUnlinkSource, TypeOK, history
<1>8. CASE MoveUnlinkFails
  BY <1>0, <1>1, <1>8 DEF MoveUnlinkFails, TypeOK, history
<1>9. CASE MoveUndo
  BY <1>0, <1>1, <1>9 DEF MoveUndo, TypeOK, history
<1>10. CASE MoveUndoFails
  BY <1>0, <1>1, <1>10 DEF MoveUndoFails, TypeOK, history
<1> QED BY <1>2, <1>3, <1>4, <1>5, <1>6, <1>7, <1>8, <1>9, <1>10 DEF Move

LEMMA MoveKeepsBytes ==
  ASSUME IInv, Control, OwnBytes, Fresh, Move
  PROVE  OwnBytes' /\ Fresh'
<1> USE MoveEffect
<1>1. /\ op.file \in Files /\ op.from \in Places /\ op.to \in Places /\ op.from # op.to
      /\ pc = "stage" => op.from = Entry(src[op.file]) /\ op.to = Temp(op.file)
      /\ pc # "stage" => op.from = Temp(op.file) /\ op.to \in Entries
      /\ Executing /\ ~Planning
  BY MovePlaces DEF Move, Executing, Planning
<1>2. disk[op.from] \in Files => disk[op.from] = op.file
  <2>1. CASE pc = "stage"
    <3>1. src \in [Files -> Names] /\ \A i \in Files : Entry(src[i]) \in Entries
      BY PlaceFacts DEF IInv, TypeOK
    <3> QED BY <1>1, <2>1, <3>1 DEF OwnBytes, Control, DistinctSources
  <2>2. CASE pc # "stage"
    BY <1>1, <2>2 DEF OwnBytes
  <2> QED BY <2>1, <2>2
<1>3. op'.data \in Files => op'.data = op.file
  BY <1>2 DEF OwnBytes
<1>4. disk'[op.to] \in Files => disk'[op.to] = disk[op.to] \/ disk'[op.to] = op.file
  BY <1>2, FileFacts DEF OwnBytes
<1>5. disk'[op.from] \in {disk[op.from], Free}
  BY <1>1
<1>6. Entries \cap Files = {} /\ Files \subseteq Places /\ Entries \subseteq Places
  BY PlaceFacts
<1>7. \A i \in Files : disk'[Temp(i)] \in Files => disk'[Temp(i)] = i
  BY <1>1, <1>2, <1>4, <1>5, <1>6, FileFacts DEF OwnBytes, Temp
<1>8. pc = "stage" => \A e \in Entries : disk'[e] \in Files => Entry(src[disk'[e]]) = e
  BY <1>1, <1>5, <1>6, FileFacts DEF OwnBytes, Temp
<1>9. OwnBytes'
  BY <1>1, <1>3, <1>7, <1>8 DEF OwnBytes, Planning, Entry, Temp
<1>10. Fresh'
  <2>1. op'.data \in existed \cup {Free, Partial}
    BY <1>1 DEF Fresh
  <2>2. \A p \in Places : disk'[p] \in existed \cup {Free, Partial}
    BY <1>1 DEF Fresh
  <2> QED BY <2>1, <2>2 DEF Fresh
<1> QED BY <1>9, <1>10

LEMMA CrashKeepsBytes ==
  ASSUME OwnBytes, Fresh, Crash
  PROVE  OwnBytes' /\ Fresh'
BY DEF Crash, OwnBytes, Fresh, Planning, history, Entry, Temp

(* Other programs make new files and remove files. *)
LEMMA CreateEffect ==
  ASSUME IInv, Fresh, NEW e \in Entries, ExternalCreate(e)
  PROVE  \E made \in Nat :
           /\ made > N /\ made \notin existed /\ made \notin Files
           /\ disk[e] = Free /\ e \in Places /\ disk'[e] = made
           /\ \A p \in Places \ {e} : disk'[p] = disk[p]
           /\ existed' = existed \cup {made} /\ gone' = gone
           /\ external' = external + 1 /\ made = N + external'
           /\ op.step \in {"linked", "copying", "undo"} => e \notin {op.from, op.to}
<1> DEFINE made == N + (external + 1)
<1>1. external \in Nat /\ N \in Nat
  BY ConstantsAssumption DEF IInv, TypeOK
<1>2. made \in Nat /\ made > N /\ made > N + external
  BY <1>1
<1>3. made \notin existed /\ made \notin Files
  BY <1>1, <1>2, FileFacts DEF Fresh
<1>4. /\ disk[e] = Free /\ disk' = [disk EXCEPT ![e] = made] /\ existed' = existed \cup {made}
      /\ gone' = gone /\ external' = external + 1 /\ e \notin Busy
  BY DEF ExternalCreate, Lexists
<1>5. made = N + external'
  BY <1>4
<1> HIDE DEF made
<1>6. e \in Places
  BY PlaceFacts
<1> QED
  BY <1>2, <1>3, <1>4, <1>5, <1>6 DEF IInv, TypeOK, Busy

LEMMA RemoveEffect ==
  ASSUME IInv, NEW p \in Places, ExternalRemove(p)
  PROVE  /\ disk'[p] = Free /\ \A q \in Places \ {p} : disk'[q] = disk[q]
         /\ existed' = existed /\ external' = external + 1
         /\ disk[p] # Partial => disk[p] \notin Kept'
         /\ disk[p] = Partial => op.data \notin Kept'
         /\ Kept' \subseteq Kept
BY DEF ExternalRemove, IInv, TypeOK, Kept

LEMMA ExternalKeepsBytes ==
  ASSUME IInv, Control, OwnBytes, Fresh, External
  PROVE  OwnBytes' /\ Fresh'
<1>1. UNCHANGED <<src, pc, op>>
  BY DEF External, ExternalCreate, ExternalRemove
<1>2. external \in Nat /\ N \in Nat
  BY ConstantsAssumption DEF IInv, TypeOK
<1>3. ASSUME NEW e \in Entries, ExternalCreate(e) PROVE OwnBytes' /\ Fresh'
  <2>1. PICK made \in Nat :
           /\ made > N /\ made \notin existed /\ made \notin Files
           /\ disk[e] = Free /\ e \in Places /\ disk'[e] = made
           /\ \A p \in Places \ {e} : disk'[p] = disk[p]
           /\ existed' = existed \cup {made}
           /\ external' = external + 1 /\ made = N + external'
    BY <1>3, CreateEffect
  <2>2. \A p \in Places : disk'[p] = disk[p] \/ disk'[p] = made
    BY <2>1
  <2>3. Entries \subseteq Places /\ Files \subseteq Places
    BY PlaceFacts
  <2>4. OwnBytes'
    BY <1>1, <2>1, <2>2, <2>3 DEF OwnBytes, Planning, Entry, Temp
  <2>5. \A x \in existed' : x \in Nat => x <= N + external'
    BY <1>2, <2>1 DEF Fresh
  <2>6. Fresh'
    BY <1>1, <2>1, <2>2, <2>5 DEF Fresh
  <2> QED BY <2>4, <2>6
<1>4. ASSUME NEW p \in Places, ExternalRemove(p) PROVE OwnBytes' /\ Fresh'
  <2>1. (\A q \in Places : disk'[q] = disk[q] \/ disk'[q] = Free)
        /\ existed' = existed /\ external' = external + 1
    BY <1>4, RemoveEffect
  <2>2. Entries \subseteq Places /\ Files \subseteq Places
    BY PlaceFacts
  <2>3. OwnBytes'
    BY <1>1, <2>1, <2>2, FileFacts DEF OwnBytes, Planning, Entry, Temp
  <2>4. \A x \in existed' : x \in Nat => x <= N + external'
    BY <1>2, <2>1 DEF Fresh
  <2>5. Fresh'
    BY <1>1, <2>1, <2>4 DEF Fresh
  <2> QED BY <2>3, <2>5
<1> QED BY <1>3, <1>4 DEF External

-----------------------------------------------------------------------------
(* One name per file, and temporary names in use. *)

LEMMA BookkeepingKeepsOneName ==
  ASSUME IInv, Control, OneName, Bookkeeping
  PROVE  OneName'
<1>1. /\ UNCHANGED <<disk, undoFailed>> /\ pc # "crashed"
      /\ \/ op' = op
         \/ op.step \in {"renamed", "failed"} /\ op'.step = "idle"
         \/ op.step = "idle" /\ op'.step = "open"
  BY StillDisk, NoMoveFacts
<1> QED BY <1>1 DEF OneName

LEMMA MoveKeepsOneName ==
  ASSUME IInv, Control, OneName, Move
  PROVE  OneName'
<1> SUFFICES ASSUME pc' # "crashed", ~undoFailed' PROVE OneName'
  BY DEF OneName
<1>0. ~Idle /\ Executing /\ ~undoFailed /\ pc # "crashed"
  BY MoveEffect DEF Move
<1>1. op.from \in Places /\ op.to \in Places /\ op.from # op.to
  BY <1>0, MovePlaces
<1>2. /\ \A p, q \in Places : disk[p] # Free /\ disk[p] = disk[q] =>
           \/ p = q
           \/ op.step \in {"linked", "undo"} /\ op.from \in {p, q} /\ op.to \in {p, q}
      /\ \A p \in Places : disk[p] = Partial => p = op.to /\ op.step \in {"copying", "undo"}
      /\ op.step = "copying" => \A q \in Places : disk[q] = op.data /\ disk[q] # Free => q = op.from
  BY <1>0 DEF OneName
<1>3. op.step = "copying" => disk[op.to] \in {op.data, Partial, Free} /\ disk[op.from] \in {op.data, Free}
  BY DEF IInv, MoveInv
<1>4. Free # Partial
  BY PlaceFacts
<1>5. /\ \A p, q \in Places : disk'[p] # Free /\ disk'[p] = disk'[q] =>
           \/ p = q
           \/ op'.step \in {"linked", "undo"} /\ op.from \in {p, q} /\ op.to \in {p, q}
      /\ \A p \in Places : disk'[p] = Partial => p = op.to /\ op'.step \in {"copying", "undo"}
      /\ op'.step = "copying" => \A q \in Places : disk'[q] = op'.data /\ disk'[q] # Free => q = op.from
  <2>1. CASE disk' = disk
    BY <1>0, <1>1, <1>2, <1>4, <2>1, MoveEffect
  <2>2. CASE op.step = "open" /\ op'.step = "linked"
    BY <1>0, <1>1, <1>2, <1>4, <2>2, MoveEffect
  <2>3. CASE op.step = "open" /\ op'.step = "copying"
    BY <1>0, <1>1, <1>2, <1>4, <2>3, MoveEffect
  <2>4. CASE op.step = "copying" /\ op'.step = "linked"
    BY <1>0, <1>1, <1>2, <1>3, <1>4, <2>4, MoveEffect
  <2>5. CASE op.step = "linked" /\ op'.step = "renamed"
    BY <1>0, <1>1, <1>2, <1>4, <2>5, MoveEffect
  <2>6. CASE op.step = "undo" /\ op'.step = "failed"
    BY <1>0, <1>1, <1>2, <1>4, <2>6, MoveEffect
  <2> QED BY <2>1, <2>2, <2>3, <2>4, <2>5, <2>6, MoveEffect
<1>6. op'.from = op.from /\ op'.to = op.to
  BY MoveEffect
<1> QED BY <1>5, <1>6 DEF OneName

LEMMA ExternalKeepsOneName ==
  ASSUME IInv, Fresh, OneName, External
  PROVE  OneName'
<1>1. UNCHANGED <<pc, op, undoFailed>>
  BY DEF External, ExternalCreate, ExternalRemove
<1>2. ASSUME NEW e \in Entries, ExternalCreate(e) PROVE OneName'
  <2>1. PICK made \in Nat :
           /\ made \notin existed /\ disk[e] = Free /\ e \in Places /\ disk'[e] = made
           /\ \A p \in Places \ {e} : disk'[p] = disk[p]
    BY <1>2, CreateEffect
  <2>2. \A p \in Places : disk[p] # made \/ made \in {Free, Partial}
    BY <2>1 DEF Fresh
  <2>3. made \notin {Free, Partial}
    BY ConstantsAssumption
  <2>4. op.data # made
    BY <2>1, <2>3 DEF Fresh
  <2> QED BY <1>1, <2>1, <2>2, <2>3, <2>4 DEF OneName
<1>3. ASSUME NEW p \in Places, ExternalRemove(p) PROVE OneName'
  <2>1. disk'[p] = Free /\ \A q \in Places \ {p} : disk'[q] = disk[q]
    BY <1>3, RemoveEffect
  <2>2. Free # Partial
    BY PlaceFacts
  <2> QED BY <1>1, <2>1, <2>2 DEF OneName
<1> QED BY <1>2, <1>3 DEF External

LEMMA MoveKeepsTemporaries ==
  ASSUME IInv, Control, Temporaries, Move
  PROVE  Temporaries'
<1> SUFFICES ASSUME pc' # "crashed", ~undoFailed' PROVE Temporaries'
  BY DEF Temporaries
<1>0. ~Idle /\ Executing /\ ~undoFailed /\ pc # "crashed" /\ UNCHANGED <<pc, staged, report>>
  BY MoveEffect DEF Move, batchVars
<1>1. /\ op.file \in Files /\ op.from \in Places /\ op.to \in Places /\ op.from # op.to
      /\ \A i \in Files : op.to = Temp(i) => op.file = i
  BY <1>0, MovePlaces, PlaceFacts DEF Temp
<1>2. op'.file = op.file /\ op'.from = op.from /\ op'.to = op.to
  BY MoveEffect
<1>3. ASSUME NEW i \in Files, disk'[Temp(i)] # Free
      PROVE  \/ i \in staged /\ report[i] = NoReport /\ ~Over
             \/ report[i] = Temp(i)
             \/ /\ op.file = i /\ op.to = Temp(i)
                /\ op'.step \in {"linked", "copying", "undo", "renamed"}
  <2>1. Temp(i) \in Places
    BY PlaceFacts DEF Temp
  <2>2. disk[Temp(i)] # Free =>
             \/ i \in staged /\ report[i] = NoReport /\ ~Over
             \/ report[i] = Temp(i)
             \/ /\ op.file = i /\ op.to = Temp(i)
                /\ op.step \in {"linked", "copying", "undo", "renamed"}
    BY <1>0 DEF Temporaries, Lexists
  <2>3. CASE op.to = Temp(i)
    BY <1>0, <1>1, <1>3, <2>1, <2>2, <2>3, MoveEffect
  <2>4. CASE op.to # Temp(i)
    <3>1. disk'[Temp(i)] \in {disk[Temp(i)], Free}
      BY <1>1, <2>1, <2>4, MoveEffect
    <3> QED BY <1>3, <2>2, <2>4, <3>1
  <2> QED BY <2>3, <2>4
<1>4. op'.step = "renamed" => disk'[op.from] = Free
  BY <1>0, MoveEffect
<1>5. Over' = Over
  BY <1>0 DEF Over
<1> QED BY <1>0, <1>2, <1>3, <1>4, <1>5 DEF Temporaries, Lexists, Temp

LEMMA ExternalKeepsTemporaries ==
  ASSUME IInv, Fresh, Temporaries, External
  PROVE  Temporaries'
<1>1. UNCHANGED <<pc, op, undoFailed, staged, report>>
  BY DEF External, ExternalCreate, ExternalRemove, batchVars
<1>2. \A i \in Files : Temp(i) \in Places \ Entries
  BY PlaceFacts DEF Temp
<1>3. Files \subseteq Places /\ Files \cap Entries = {}
  BY PlaceFacts
<1>4. \A i \in Files : disk'[Temp(i)] \in {disk[Temp(i)], Free}
  <2>1. ASSUME NEW e \in Entries, ExternalCreate(e)
        PROVE  \A i \in Files : disk'[Temp(i)] \in {disk[Temp(i)], Free}
    <3>1. \A p \in Places \ {e} : disk'[p] = disk[p]
      BY <2>1, CreateEffect
    <3> QED BY <1>2, <3>1
  <2>2. ASSUME NEW p \in Places, ExternalRemove(p)
        PROVE  \A i \in Files : disk'[Temp(i)] \in {disk[Temp(i)], Free}
    <3>1. disk'[p] = Free /\ \A q \in Places \ {p} : disk'[q] = disk[q]
      BY <2>2, RemoveEffect
    <3> QED BY <1>2, <3>1
  <2> QED BY <2>1, <2>2 DEF External
<1> QED BY <1>1, <1>4 DEF Temporaries, Lexists, Over, Temp

LEMMA BookkeepingKeepsTemporaries ==
  ASSUME IInv, Control, Temporaries, Bookkeeping
  PROVE  Temporaries'
<1> SUFFICES ASSUME ~undoFailed' PROVE Temporaries'
  BY DEF Temporaries
<1>0. UNCHANGED <<src, disk>> /\ pc # "crashed" /\ ~undoFailed /\ src \in [Files -> Names]
  BY StillDisk DEF IInv, TypeOK
<1>1. \A i \in Files : disk[Temp(i)] # Free =>
             \/ i \in staged /\ report[i] = NoReport /\ ~Over
             \/ report[i] = Temp(i)
             \/ /\ op.file = i /\ op.to = Temp(i)
                /\ op.step \in {"linked", "copying", "undo", "renamed"}
  BY <1>0 DEF Temporaries, Lexists
<1>2. op.step = "renamed" /\ op.from \in Files => disk[op.from] = Free
  BY <1>0 DEF Temporaries
<1>3. \A i \in Files : Temp(i) = i /\ Temp(i) # NoReport
  BY ConstantsAssumption DEF Temp, Files
<1>4. SUFFICES
        /\ \A i \in Files : disk[Temp(i)] # Free =>
             \/ i \in staged' /\ report'[i] = NoReport /\ ~Over'
             \/ report'[i] = Temp(i)
             \/ /\ op'.file = i /\ op'.to = Temp(i)
                /\ op'.step \in {"linked", "copying", "undo", "renamed"}
        /\ op'.step = "renamed" /\ op'.from \in Files => disk[op'.from] = Free
  BY <1>0 DEF Temporaries, Lexists, Temp
<1>5. CASE Planning /\ Bookkeeping
  <2>1. /\ staged = {} /\ op = NoMove /\ op.step = "idle"
        /\ \A i \in Files : report[i] = NoReport
    BY <1>5, NoMoveFacts DEF Control, PlanningControl, OpControl, Idle
  <2>2. \A i \in Files : disk[Temp(i)] = Free
    BY <1>1, <1>3, <2>1
  <2>3. op' = op
    BY <1>5 DEF Planning, Bookkeeping, Preview, ExecuteRefused, ExecutePreflightFails,
       ExecuteNothing, ExecuteStart, ReportBlocked, StageBegin, StageNoTemporary, StageDone,
       StageFailed, FinalizeBegin, FinalizeDone, FinalizeFailed, RestoreBegin, RestoreMissing,
       RestoreDone, RestoreFailed, FinishUnstage, FinishRestore, SyncRows, Restoring
  <2> QED BY <2>1, <2>2, <2>3
<1>6. CASE StageBegin \/ StageNoTemporary \/ FinalizeBegin \/ RestoreBegin \/ StageFailed \/ FinalizeFailed
  <2>1. /\ staged' = staged /\ report' = report /\ ~Over'
        /\ op'.step # "renamed" /\ op.step \in {"idle", "failed"}
    BY <1>6, NoMoveFacts DEF StageBegin, StageNoTemporary, FinalizeBegin, RestoreBegin,
       StageFailed, FinalizeFailed, Begin, Idle, batchVars, Over, Restoring
  <2> QED BY <1>1, <2>1
<1>7. CASE StageDone
  <2>1. /\ staged' = staged \cup {cur} /\ report' = report /\ ~Over' /\ op'.step = "idle"
        /\ pc = "stage" /\ op.step = "renamed"
    BY <1>7, NoMoveFacts DEF StageDone, Over
  <2>2. op.file = cur /\ cur \in Renames /\ staged = {j \in Renames : j < cur} /\ cur \in Files
    BY <2>1 DEF Control, OpControl, LoopControl, Executing, Idle, Renames
  <2>3. cur \notin staged
    BY <2>2, FileFacts
  <2>4. report[cur] = NoReport
    BY <2>1, <2>2, <2>3 DEF Control, ReportControl, Executing
  <2> QED BY <1>1, <2>1, <2>2, <2>4
<1>8. CASE FinalizeDone
  <2>1. /\ staged' = staged /\ report' = [report EXCEPT ![cur] = Entry(dst[cur])]
        /\ pc' \in {"finalize", "done"} /\ op'.step = "idle" /\ pc = "finalize"
        /\ op.step = "renamed" /\ finalized' = finalized \cup {cur}
        /\ pc' = "done" => Later(cur) = {}
    BY <1>8, NoMoveFacts DEF FinalizeDone
  <2>2. /\ op.file = cur /\ op.from = Temp(cur) /\ op.to = Entry(dst[cur])
        /\ cur \in Renames /\ staged = Renames /\ finalized = {j \in Renames : j < cur}
        /\ cur \in Files /\ dst \in [Files -> Names]
    BY <2>1 DEF Control, OpControl, LoopControl, Executing, Idle, Renames, IInv, PlanInv
  <2>3. disk[Temp(cur)] = Free
    BY <1>2, <1>3, <2>1, <2>2
  <2>4. op.to \in Entries /\ \A i \in Files : op.to # Temp(i)
    BY <2>2, PlaceFacts DEF Temp
  <2>5. \A i \in Files \ {cur} : report'[i] = report[i]
    BY <2>1 DEF IInv, TypeOK
  <2>6. pc' = "done" => \A i \in staged : i \in finalized \/ i = cur
    BY <2>1, <2>2, LoopGoesOn
  <2>7. \A i \in finalized : report[i] # NoReport
    BY <2>1, <2>2, PlaceFacts DEF Control, ReportControl, Executing, Renames
  <2>8. ASSUME NEW i \in Files, disk[Temp(i)] # Free
        PROVE  \/ i \in staged' /\ report'[i] = NoReport /\ ~Over'
               \/ report'[i] = Temp(i)
    <3>1. i # cur /\ report'[i] = report[i]
      BY <2>3, <2>5, <2>8
    <3>2. (i \in staged /\ report[i] = NoReport) \/ report[i] = Temp(i)
      BY <1>1, <2>4, <2>8
    <3>3. i \in staged /\ report[i] = NoReport => ~Over'
      BY <2>1, <2>6, <2>7, <3>1 DEF Over
    <3> QED BY <2>1, <3>1, <3>2, <3>3
  <2> QED BY <2>1, <2>8
<1>9. CASE RestoreMissing \/ RestoreDone \/ RestoreFailed
  <2>1. /\ staged' = staged /\ op'.step = "idle" /\ ~Over' /\ pc \in {"unstage", "restore"}
        /\ ToRestore # {}
    BY <1>9, NoMoveFacts DEF RestoreMissing, RestoreDone, RestoreFailed, Over, Restoring, Idle
  <2>2. op.step \in {"renamed", "failed"} =>
          op.file \in ToRestore /\ op.from = Temp(op.file) /\ op.to = Entry(src[op.file])
    BY <2>1 DEF Control, OpControl, Idle
  <2>3. Next2Restore \in ToRestore /\ ToRestore \subseteq Files
    BY <2>1, FirstIsMember, LastIsMember DEF Next2Restore, ToRestore, IInv, TypeOK
  <2>4. op.step \in {"renamed", "failed"} => op.to \in Entries /\ \A i \in Files : op.to # Temp(i)
    BY <1>0, <2>2, <2>3, PlaceFacts DEF Temp
  <2>5. \A i \in Files : disk[Temp(i)] # Free =>
          (i \in staged /\ report[i] = NoReport) \/ report[i] = Temp(i)
    BY <1>1, <1>9, <2>4 DEF RestoreMissing, RestoreDone, RestoreFailed, Idle
  <2>6. CASE RestoreMissing
    <3>1. ~Lexists(Temp(Next2Restore)) /\ \A i \in Files \ {Next2Restore} : report'[i] = report[i]
      BY <2>6 DEF RestoreMissing, IInv, TypeOK
    <3> QED BY <2>1, <2>5, <3>1 DEF Lexists
  <2>7. CASE RestoreDone
    <3>1. disk[Temp(op.file)] = Free /\ \A i \in Files \ {op.file} : report'[i] = report[i]
      BY <1>2, <1>3, <2>2, <2>3, <2>7 DEF RestoreDone, IInv, TypeOK
    <3> QED BY <2>1, <2>5, <3>1
  <2>8. CASE RestoreFailed
    <3>1. /\ op.file \in Files => report'[op.file] = Temp(op.file)
          /\ \A i \in Files \ {op.file} : report'[i] = report[i]
      BY <2>8 DEF RestoreFailed, IInv, TypeOK
    <3> QED BY <2>1, <2>5, <3>1
  <2> QED BY <1>9, <2>6, <2>7, <2>8
<1>10. CASE FinishUnstage \/ FinishRestore
  <2>1. /\ pc \in {"unstage", "restore"} /\ ToRestore = {} /\ staged' = staged /\ op' = op
        /\ pc' = "done"
    BY <1>10 DEF FinishUnstage, FinishRestore
  <2>2. op.step = "idle"
    BY <2>1 DEF Control, OpControl, Idle
  <2>3. \A i \in Files : disk[Temp(i)] # Free => report[i] = Temp(i)
    BY <1>1, <2>1, <2>2 DEF ToRestore
  <2>4. \A i \in Files : report[i] = Temp(i) => report'[i] = Temp(i)
    <3>1. CASE FinishRestore
      BY <3>1 DEF FinishRestore
    <3>2. CASE FinishUnstage
      <4>1. pc = "unstage" /\ \A i \in Files : report'[i] = StagingReport(i)
        BY <3>2 DEF FinishUnstage
      <4>2. \A i \in Files : i = cur \/ i \in Later(cur) => report[i] = NoReport
        <5>1. staged = {j \in Renames : j < cur} /\ cur \in Renames /\ Renames \subseteq Files
          BY <4>1 DEF Control, LoopControl, Executing, Renames
        <5>2. \A i \in Files : i = cur \/ i \in Later(cur) => i \in Renames \ staged
          BY <5>1, FileFacts DEF Later
        <5> QED BY <4>1, <5>2 DEF Control, ReportControl, Executing
      <4>3. \A i \in Files : report[i] = Temp(i) => StagingReport(i) = report[i]
        BY <1>3, <4>2 DEF StagingReport
      <4> QED BY <4>1, <4>3
    <3> QED BY <1>10, <3>1, <3>2
  <2> QED BY <2>1, <2>2, <2>3, <2>4
<1>11. CASE SyncRows
  <2>1. staged' = staged /\ report' = report /\ op' = op /\ Over
    BY <1>11 DEF SyncRows, batchVars, Over
  <2> QED BY <1>1, <1>2, <2>1
<1>12. Planning \/ ~(Preview \/ ExecuteRefused \/ ExecutePreflightFails \/ ExecuteNothing \/ ExecuteStart)
  BY DEF Planning, Preview, ExecuteRefused, ExecutePreflightFails, ExecuteNothing, ExecuteStart
<1> QED BY <1>5, <1>6, <1>7, <1>8, <1>9, <1>10, <1>11, <1>12 DEF Bookkeeping

-----------------------------------------------------------------------------
(* Every file is at home. *)

LEMMA HomeOfMoved ==
  ASSUME IInv, Control, Executing, ~Idle
  PROVE  Home(op.file) = op.from
<1>1. CASE pc = "stage"
  <2>1. op.file = cur /\ op.from = Entry(src[cur]) /\ cur \in Renames /\ Renames \subseteq Files
        /\ staged = {j \in Renames : j < cur}
    BY <1>1 DEF Control, OpControl, LoopControl, Renames
  <2>2. cur \notin staged
    BY <2>1, FileFacts
  <2> QED BY <2>1, <2>2 DEF Home
<1>2. CASE pc = "finalize"
  <2>1. op.file = cur /\ op.from = Temp(cur) /\ cur \in Renames /\ Renames \subseteq Files
        /\ staged = Renames /\ finalized = {j \in Renames : j < cur}
    BY <1>2 DEF Control, OpControl, LoopControl, Renames
  <2>2. cur \in staged \ finalized /\ cur \in Files
    BY <2>1, FileFacts
  <2>3. report[cur] = NoReport
    BY <1>2, <2>2 DEF Control, ReportControl
  <2> QED BY <2>1, <2>2, <2>3 DEF Home
<1>3. CASE pc \in {"unstage", "restore"}
  BY <1>3 DEF Control, OpControl, ToRestore, Home
<1> QED BY <1>1, <1>2, <1>3 DEF Executing

LEMMA MoveKeepsHome ==
  ASSUME IInv, Control, OwnBytes, AtHome, MovesOwnFile, Move
  PROVE  AtHome' /\ MovesOwnFile'
<1>1. /\ ~Idle /\ Executing /\ Kept' = Kept
      /\ UNCHANGED <<src, dst, pc, staged, report>>
      /\ op'.file = op.file /\ op'.from = op.from /\ op'.to = op.to /\ op.step # "renamed"
  BY MoveEffect DEF Move, batchVars, Kept
<1>2. op.file \in Files /\ op.from \in Places /\ op.to \in Places /\ op.from # op.to
  BY <1>1, MovePlaces
<1>3. Home(op.file) = op.from /\ \A i : Home(i)' = Home(i)
  BY <1>1, HomeOfMoved DEF Home, Entry, Temp
<1>4. \A i \in Files \cap Kept : Home(i) \in Places /\ disk[Home(i)] = i
  BY <1>1 DEF AtHome, Spot
<1>5. op.file \in Kept => disk[op.from] = op.file
  BY <1>2, <1>3, <1>4
<1>6. op.file \in Kept =>
        /\ op.step \in {"linked", "copying", "undo"} => op.data = op.file
        /\ op.step = "linked"  => disk[op.to] = op.file
        /\ op.step = "copying" => disk[op.to] = Partial
  BY <1>1 DEF MovesOwnFile
<1>7. op.file \in Kept =>
        /\ op'.step \in {"linked", "copying", "undo"} => op'.data = op.file
        /\ op'.step = "linked"  => disk'[op.to] = op.file
        /\ op'.step = "copying" => disk'[op.to] = Partial
  BY <1>2, <1>5, <1>6, MoveEffect
<1>8. MovesOwnFile'
  BY <1>1, <1>7 DEF MovesOwnFile
<1>9. ASSUME NEW i \in Files, i \in Kept
      PROVE  /\ i = op.file /\ op'.step = "renamed" => disk'[op.to] = i
             /\ ~(i = op.file /\ op'.step = "renamed") => disk'[Home(i)] = i
  <2>1. CASE i = op.file
    BY <1>2, <1>3, <1>5, <1>6, <1>9, <2>1, MoveEffect
  <2>2. CASE i # op.file
    <3>1. Home(i) \in Places /\ disk[Home(i)] = i /\ i # Free /\ i # Partial
      BY <1>4, <1>9, FileFacts
    <3>2. op.data # i
      BY <2>2 DEF OwnBytes
    <3>3. Home(i) = op.from => disk'[op.from] = i
      <4>1. op.step = "linked" => disk[op.from] \in {op.data, Free}
        BY DEF IInv, MoveInv
      <4>2. Home(i) = op.from => op.step # "linked"
        BY <3>1, <3>2, <4>1
      <4> QED BY <1>2, <3>1, <4>2, MoveEffect
    <3>4. Home(i) = op.to => disk'[op.to] = i
      <4>1. op.step \in {"linked", "copying", "undo"} => disk[op.to] \in {op.data, Partial, Free}
        BY DEF IInv, MoveInv
      <4>2. Home(i) = op.to => op.step \notin {"linked", "copying", "undo"}
        BY <3>1, <3>2, <4>1
      <4> QED BY <1>2, <3>1, <4>2, MoveEffect
    <3>5. Home(i) \notin {op.from, op.to} => disk'[Home(i)] = i
      BY <3>1, MoveEffect
    <3> QED BY <2>2, <3>3, <3>4, <3>5
  <2> QED BY <2>1, <2>2
<1>10. AtHome'
  BY <1>1, <1>2, <1>3, <1>4, <1>9 DEF AtHome, Spot
<1> QED BY <1>8, <1>10

LEMMA ExternalKeepsHome ==
  ASSUME IInv, Fresh, AtHome, MovesOwnFile, External
  PROVE  AtHome' /\ MovesOwnFile'
<1>1. UNCHANGED <<src, pc, op, staged, report>>
  BY DEF External, ExternalCreate, ExternalRemove, batchVars
<1>2. \A i : Spot(i)' = Spot(i)
  BY <1>1 DEF Spot, Home, Entry, Temp
<1>3. \A i \in Files : i # Free /\ i # Partial
  BY FileFacts
<1>4. op.step \in {"linked", "copying", "undo"} => op.to \in Places /\ op.file \in Files
  BY DEF IInv, MoveInv, Idle
<1>5. ASSUME NEW e \in Entries, ExternalCreate(e) PROVE AtHome' /\ MovesOwnFile'
  <2>1. PICK made \in Nat :
           /\ made \notin Files /\ disk[e] = Free
           /\ \A p \in Places \ {e} : disk'[p] = disk[p]
           /\ existed' = existed \cup {made} /\ gone' = gone
           /\ op.step \in {"linked", "copying", "undo"} => e \notin {op.from, op.to}
    BY <1>5, CreateEffect
  <2>2. \A i \in Files : i \in Kept' <=> i \in Kept
    BY <2>1 DEF Kept
  <2>3. AtHome'
    BY <1>1, <1>2, <1>3, <2>1, <2>2 DEF AtHome, Planning, Executing
  <2>4. MovesOwnFile'
    BY <1>1, <1>4, <2>1, <2>2 DEF MovesOwnFile, Executing
  <2> QED BY <2>3, <2>4
<1>6. ASSUME NEW p \in Places, ExternalRemove(p) PROVE AtHome' /\ MovesOwnFile'
  <2>1. /\ \A q \in Places \ {p} : disk'[q] = disk[q]
        /\ disk[p] # Partial => disk[p] \notin Kept'
        /\ disk[p] = Partial => op.data \notin Kept'
        /\ Kept' \subseteq Kept
    BY <1>6, RemoveEffect
  <2>2. AtHome'
    BY <1>1, <1>2, <1>3, <2>1 DEF AtHome, Planning, Executing
  <2>3. MovesOwnFile'
    BY <1>1, <1>3, <1>4, <2>1 DEF MovesOwnFile, Executing
  <2> QED BY <2>2, <2>3
<1> QED BY <1>5, <1>6 DEF External

LEMMA BookkeepingKeepsHome ==
  ASSUME IInv, Control, AtHome, MovesOwnFile, Bookkeeping
  PROVE  AtHome' /\ MovesOwnFile'
<1>0. UNCHANGED <<src, dst, disk>> /\ Kept' = Kept /\ pc # "crashed"
  BY StillDisk DEF Kept
<1>1. MovesOwnFile'
  <2>1. op' = op \/ op'.step \in {"idle", "open"}
    BY StillDisk, NoMoveFacts
  <2>2. op' = op => Executing \/ op.step = "idle"
    <3>1. Planning \/ Over => op.step = "idle"
      BY DEF Control, OpControl, Idle
    <3> QED BY <1>0, <3>1 DEF Planning, Over, Executing, IInv, TypeOK
  <2> QED BY <1>0, <2>1, <2>2 DEF MovesOwnFile
<1>2. \A i \in Files : Temp(i) \in Places /\ Entry(src[i]) \in Places /\ Entry(src[i]) # NoReport
                       /\ Temp(i) # NoReport
  BY PlaceFacts DEF IInv, TypeOK, Temp
<1>3. SUFFICES ASSUME Planning' \/ Executing', NEW i \in Files, i \in Kept
               PROVE  Spot(i)' = Spot(i)
  <2>1. \A i \in Files \cap Kept : Planning \/ Executing => Spot(i) \in Places /\ disk[Spot(i)] = i
    BY DEF AtHome
  <2>2. Planning' \/ Executing' => Planning \/ Executing
    BY <1>0 DEF Planning, Executing, Bookkeeping, SyncRows, Preview, ExecuteRefused,
       ExecutePreflightFails, ReportBlocked, ExecuteNothing, ExecuteStart, StageBegin,
       StageNoTemporary, StageDone, StageFailed, FinalizeBegin, FinalizeDone, FinalizeFailed,
       RestoreBegin, RestoreMissing, RestoreDone, RestoreFailed, FinishUnstage, FinishRestore,
       Restoring
  <2> QED BY <1>0, <1>1, <1>3, <2>1, <2>2 DEF AtHome
<1>4. CASE Preview \/ ExecuteStart
  <2>1. Planning /\ UNCHANGED <<op, staged>> /\ staged = {}
    BY <1>4 DEF Preview, ExecuteStart, Planning, Control, PlanningControl, batchVars
  <2> QED BY <1>0, <2>1 DEF Spot, Home, Entry
<1>5. CASE StageBegin \/ StageNoTemporary \/ StageFailed \/ FinalizeBegin \/ FinalizeFailed \/ RestoreBegin
  <2>1. UNCHANGED <<staged, report>> /\ op.step # "renamed" /\ op'.step # "renamed"
    BY <1>5, NoMoveFacts DEF StageBegin, StageNoTemporary, StageFailed, FinalizeBegin,
       FinalizeFailed, RestoreBegin, Begin, Idle, batchVars
  <2> QED BY <1>0, <2>1 DEF Spot, Home, Entry, Temp
<1>6. CASE StageDone
  <2>1. /\ pc = "stage" /\ op.step = "renamed" /\ op'.step = "idle" /\ report' = report
        /\ staged' = staged \cup {cur}
    BY <1>6, NoMoveFacts DEF StageDone
  <2>2. op.file = cur /\ op.to = Temp(cur) /\ cur \in Renames \ staged /\ cur \in Files
    <3>1. op.file = cur /\ op.to = Temp(cur) /\ cur \in Renames /\ cur \in Files
          /\ staged = {j \in Renames : j < cur}
      BY <2>1 DEF Control, OpControl, LoopControl, Executing, Idle, Renames
    <3> QED BY <3>1, FileFacts
  <2>3. report[cur] = NoReport
    BY <2>1, <2>2 DEF Control, ReportControl, Executing
  <2> QED BY <1>0, <2>1, <2>2, <2>3 DEF Spot, Home, Entry, Temp
<1>7. CASE FinalizeDone
  <2>1. /\ pc = "finalize" /\ op.step = "renamed" /\ op'.step = "idle" /\ staged' = staged
        /\ report' = [report EXCEPT ![cur] = Entry(dst[cur])]
    BY <1>7, NoMoveFacts DEF FinalizeDone
  <2>2. /\ op.file = cur /\ op.to = Entry(dst[cur]) /\ cur \in staged /\ cur \in Files
        /\ dst \in [Files -> Names]
    BY <2>1 DEF Control, OpControl, LoopControl, Executing, Idle, Renames, IInv, PlanInv
  <2>3. report'[cur] = op.to /\ op.to # NoReport /\ \A j \in Files \ {cur} : report'[j] = report[j]
    BY <2>1, <2>2, PlaceFacts DEF IInv, TypeOK
  <2> QED BY <1>0, <2>1, <2>2, <2>3 DEF Spot, Home, Entry, Temp
<1>8. CASE RestoreMissing \/ RestoreDone \/ RestoreFailed
  <2>1. pc \in {"unstage", "restore"} /\ staged' = staged /\ op'.step = "idle" /\ ToRestore # {}
    BY <1>8, NoMoveFacts DEF RestoreMissing, RestoreDone, RestoreFailed, Restoring, Idle
  <2>2. \A j \in ToRestore : j \in staged /\ report[j] = NoReport /\ j \in Files
    BY DEF ToRestore, IInv, TypeOK
  <2>3. op.step \in {"renamed", "failed"} =>
          op.file \in ToRestore /\ op.from = Temp(op.file) /\ op.to = Entry(src[op.file])
    BY <2>1 DEF Control, OpControl, Idle
  <2>4. CASE RestoreMissing
    <3>1. Next2Restore \in ToRestore
      BY <2>1, FirstIsMember, LastIsMember DEF Next2Restore, ToRestore, IInv, TypeOK
    <3>2. ~Lexists(Temp(Next2Restore)) /\ op.step = "idle"
          /\ \A j \in Files \ {Next2Restore} : report'[j] = report[j]
      BY <2>4 DEF RestoreMissing, Idle, IInv, TypeOK
    <3>3. i # Next2Restore
      <4>1. Executing
        BY <2>1 DEF Executing
      <4>2. disk[Spot(i)] = i /\ i # Free
        BY <1>3, <4>1, FileFacts DEF AtHome
      <4>3. i = Next2Restore => Spot(i) = Temp(i)
        BY <2>2, <3>1, <3>2 DEF Spot, Home
      <4> QED BY <3>2, <4>2, <4>3 DEF Lexists
    <3> QED BY <1>0, <2>1, <3>2, <3>3 DEF Spot, Home, Entry, Temp
  <2>5. CASE RestoreDone
    <3>1. op.step = "renamed" /\ report'[op.file] = op.to
          /\ \A j \in Files \ {op.file} : report'[j] = report[j]
      BY <2>2, <2>3, <2>5 DEF RestoreDone, IInv, TypeOK
    <3> QED BY <1>0, <1>2, <2>1, <2>2, <2>3, <3>1 DEF Spot, Home, Entry, Temp
  <2>6. CASE RestoreFailed
    <3>1. op.step = "failed" /\ report'[op.file] = Temp(op.file)
          /\ \A j \in Files \ {op.file} : report'[j] = report[j]
      BY <2>2, <2>3, <2>6 DEF RestoreFailed, IInv, TypeOK
    <3> QED BY <1>0, <1>2, <2>1, <2>2, <2>3, <3>1 DEF Spot, Home, Entry, Temp
  <2> QED BY <1>8, <2>4, <2>5, <2>6
<1>9. ~(ExecuteRefused \/ ExecutePreflightFails \/ ExecuteNothing \/ FinishUnstage \/ FinishRestore
          \/ SyncRows)
  BY <1>3 DEF ExecuteRefused, ExecutePreflightFails, ExecuteNothing, ReportBlocked, FinishUnstage,
     FinishRestore, SyncRows, Planning, Executing
<1> QED BY <1>4, <1>5, <1>6, <1>7, <1>8, <1>9 DEF Bookkeeping

-----------------------------------------------------------------------------
(* What a batch reports when it is over. *)

Results == ReportSound /\ VerdictSound /\ RowsFollowFiles

\* The files did not move and the rows of one name agree.
LEMMA DoneIsSound ==
  ASSUME pc' = "done", Kept' = Kept, UNCHANGED <<src, dst, disk>>,
         \A i \in Files \cap Kept : report'[i] \in Places /\ disk[report'[i]] = i,
         \A i, j \in Files : Entry(src[i]) = Entry(src[j]) => report'[i] = report'[j],
         verdict' = "completed" =>
           dst \in [Files -> Names] /\ \A i \in Files \cap Kept : disk[Entry(dst[i])] = i,
         verdict' \in {"failed", "blocked", "no_changes"} =>
           \A i \in Files \cap Kept : disk[Entry(src[i])] = i
  PROVE  Results'
BY DEF Results, ReportSound, VerdictSound, RowsFollowFiles, Over, Entry

\* Nothing is claimed before the end.
LEMMA OngoingIsSound ==
  ASSUME verdict' = "none", pc' \notin {"done", "synced"}
  PROVE  Results'
BY DEF Results, ReportSound, VerdictSound, RowsFollowFiles, Over

LEMMA PlanResults ==
  ASSUME IInv, Control, AtHome, 
         Preview \/ ExecuteRefused \/ ExecutePreflightFails \/ ExecuteNothing \/ ExecuteStart
  PROVE  Results'
<1>1. Planning /\ Bookkeeping
  BY DEF Preview, ExecuteRefused, ExecutePreflightFails, ExecuteNothing, ExecuteStart, Planning,
     Bookkeeping
<1>2. UNCHANGED <<src, dst, disk>> /\ Kept' = Kept
  BY <1>1, StillDisk DEF Kept
<1>3. verdict = "none" /\ staged = {} /\ op.step = "idle"
  BY <1>1, NoMoveFacts DEF Control, PlanningControl, OpControl, Idle
<1>4. \A i \in Files \cap Kept : Entry(src[i]) \in Places /\ disk[Entry(src[i])] = i /\ i # Free
  BY <1>1, <1>3, FileFacts DEF AtHome, Spot, Home
<1>5. CASE Preview \/ ExecuteStart
  BY <1>3, <1>5, OngoingIsSound DEF Preview, ExecuteStart, batchVars
<1>6. CASE ExecuteRefused \/ ExecutePreflightFails \/ ExecuteNothing
  <2>1. /\ pc' = "done" /\ verdict' \in {"blocked", "no_changes"}
        /\ \/ report' = [i \in Files |-> SourceOrMissing(i)]
           \/ report' = [i \in Files |-> Entry(src[i])]
    BY <1>6 DEF ExecuteRefused, ExecutePreflightFails, ExecuteNothing, ReportBlocked
  <2>2. \A i \in Files : /\ report'[i] \in {SourceOrMissing(i), Entry(src[i])}
                         /\ Lexists(Entry(src[i])) => report'[i] = Entry(src[i])
    BY <2>1 DEF SourceOrMissing
  <2>3. \A i \in Files \cap Kept : report'[i] \in Places /\ disk[report'[i]] = i
    BY <1>4, <2>2 DEF Lexists
  <2>4. \A i, j \in Files : Entry(src[i]) = Entry(src[j]) => report'[i] = report'[j]
    BY <2>1 DEF SourceOrMissing
  <2> QED BY <1>2, <1>4, <2>1, <2>3, <2>4, DoneIsSound
<1> QED BY <1>5, <1>6

LEMMA OngoingResults ==
  ASSUME IInv, Control,
         \/ Move \/ StageBegin \/ StageNoTemporary \/ StageDone \/ StageFailed
         \/ FinalizeBegin \/ FinalizeFailed
         \/ RestoreBegin \/ RestoreMissing \/ RestoreDone \/ RestoreFailed \/ Crash
  PROVE  Results'
<1>1. Executing /\ verdict' = verdict
  BY MoveEffect DEF Move, StageBegin, StageNoTemporary, StageDone, StageFailed, FinalizeBegin,
     FinalizeFailed, RestoreBegin, RestoreMissing, RestoreDone, RestoreFailed, Restoring, Crash,
     Executing, batchVars
<1>2. pc' \notin {"done", "synced"}
  BY <1>1, MoveEffect DEF StageBegin, StageNoTemporary, StageDone, StageFailed, FinalizeBegin,
     FinalizeFailed, RestoreBegin, RestoreMissing, RestoreDone, RestoreFailed, Crash, Executing
<1> QED BY <1>1, <1>2, OngoingIsSound DEF Control, LoopControl

LEMMA FinalizeDoneResults ==
  ASSUME IInv, Control, AtHome, FinalizeDone
  PROVE  Results'
<1>1. /\ pc = "finalize" /\ Executing /\ op.step = "renamed"
      /\ report' = [report EXCEPT ![cur] = Entry(dst[cur])] /\ UNCHANGED <<src, dst, disk>>
      /\ Kept' = Kept /\ verdict = "none"
  BY DEF FinalizeDone, Executing, Kept, history, Control, LoopControl
<1>2. \/ pc' = "finalize" /\ verdict' = verdict
      \/ Later(cur) = {} /\ pc' = "done" /\ verdict' = "completed"
  BY <1>1 DEF FinalizeDone
<1>3. CASE pc' = "finalize" /\ verdict' = verdict
  BY <1>1, <1>3, OngoingIsSound
<1>4. CASE Later(cur) = {} /\ pc' = "done" /\ verdict' = "completed"
  <2>1. /\ op.file = cur /\ op.to = Entry(dst[cur]) /\ cur \in Renames /\ Renames \subseteq Files
        /\ staged = Renames /\ finalized = {j \in Renames : j < cur}
        /\ dst \in [Files -> Names]
    BY <1>1 DEF Control, OpControl, LoopControl, Idle, Renames, IInv, PlanInv
  <2>2. \A i \in Files : i \notin Renames \/ i \in finalized \/ i = cur
    BY <1>4, <2>1, LoopGoesOn
  <2>3. \A i \in Files : i \notin Renames => dst[i] = src[i] /\ report[i] = Entry(src[i])
    BY <1>1 DEF Renames, Control, ReportControl
  <2>4. \A i \in Files : i \in finalized => report[i] = Entry(dst[i])
    BY <1>1 DEF Control, ReportControl
  <2>5. \A i \in Files : report'[i] = Entry(dst[i]) /\ Entry(dst[i]) \in Places
                         /\ Entry(dst[i]) # NoReport
    BY <1>1, <2>1, <2>2, <2>3, <2>4, PlaceFacts DEF IInv, TypeOK
  <2>6. \A i \in Files : Spot(i) = Entry(dst[i])
    BY <1>1, <2>1, <2>2, <2>3, <2>4, <2>5 DEF Spot, Home
  <2>7. \A i \in Files \cap Kept : disk[Entry(dst[i])] = i
    BY <1>1, <2>6 DEF AtHome
  <2>8. \A i, j \in Files : Entry(src[i]) = Entry(src[j]) => report'[i] = report'[j]
    BY <1>1 DEF Control, DistinctSources
  <2> QED BY <1>1, <1>4, <2>1, <2>5, <2>7, <2>8, DoneIsSound
<1> QED BY <1>2, <1>3, <1>4

LEMMA FinishResults ==
  ASSUME IInv, Control, AtHome, FinishUnstage \/ FinishRestore
  PROVE  Results'
<1>1. /\ pc \in {"unstage", "restore"} /\ Executing /\ ToRestore = {} /\ pc' = "done"
      /\ UNCHANGED <<src, dst, disk, staged>> /\ Kept' = Kept
      /\ verdict' \in {"partial", "failed"}
  BY DEF FinishUnstage, FinishRestore, Executing, Kept, history
<1>2. op.step # "renamed"
  BY <1>1 DEF Control, OpControl, Idle
<1>3. \A i \in Files \cap Kept : Home(i) \in Places /\ disk[Home(i)] = i /\ i # Free
  BY <1>1, <1>2, FileFacts DEF AtHome, Spot
<1>4. \A i \in staged : report[i] # NoReport
  BY <1>1 DEF ToRestore
<1>5. staged \subseteq Renames /\ Renames \subseteq Files /\ \A i \in Files \ Renames : report[i] = Entry(src[i])
  BY <1>1 DEF Control, LoopControl, ReportControl, Renames
<1>6. \A i \in Files : Home(i) = IF i \in staged THEN report[i] ELSE Entry(src[i])
  BY <1>4 DEF Home
<1>7. \A i \in Files \cap Kept : report'[i] = Home(i)
  <2>1. CASE FinishRestore
    <3>1. report' = report /\ staged = Renames
      BY <1>1, <2>1 DEF FinishRestore, Control, LoopControl
    <3> QED BY <1>5, <1>6, <3>1
  <2>2. CASE FinishUnstage
    <3>1. pc = "unstage" /\ \A i \in Files : report'[i] = StagingReport(i)
      BY <2>2 DEF FinishUnstage
    <3>2. staged = {j \in Renames : j < cur} /\ cur \in Renames
      BY <3>1, <1>1 DEF Control, LoopControl
    <3>3. \A i \in Files : i = cur \/ i \in Later(cur) => i \notin staged
      BY <1>5, <3>2, FileFacts DEF Later
    <3>4. \A i \in Files : i \in Renames /\ i # cur /\ i \notin Later(cur) => i \in staged
      BY <1>5, <3>2, FileFacts DEF Later
    <3>5. ASSUME NEW i \in Files, i \in Kept PROVE StagingReport(i) = Home(i)
      <4>1. CASE i = cur
        <5>1. Home(i) = Entry(src[i]) /\ Lexists(Entry(src[i]))
          BY <1>3, <1>6, <3>3, <3>5, <4>1 DEF Lexists
        <5> QED BY <4>1, <5>1 DEF StagingReport
      <4>2. CASE i # cur /\ i \in Later(cur)
        BY <1>6, <3>3, <4>2 DEF StagingReport
      <4>3. CASE i # cur /\ i \notin Later(cur)
        BY <1>5, <1>6, <3>4, <4>3 DEF StagingReport
      <4> QED BY <4>1, <4>2, <4>3
    <3> QED BY <3>1, <3>5
  <2> QED BY <2>1, <2>2
<1>8. \A i, j \in Files : Entry(src[i]) = Entry(src[j]) => report'[i] = report'[j]
  BY <1>1 DEF Control, DistinctSources
<1>9. verdict' = "failed" => \A i \in Files \cap Kept : disk[Entry(src[i])] = i
  <2> SUFFICES ASSUME verdict' = "failed", NEW i \in Files, i \in Kept
               PROVE  Home(i) = Entry(src[i])
    BY <1>3
  <2>1. ~stranded /\ finalized = {}
    BY <1>1 DEF FinishUnstage, FinishRestore, Control, LoopControl
  <2>2. \A j \in staged : report[j] \in {NoReport, Entry(src[j])}
    BY <1>1, <2>1 DEF Control, StrandedControl
  <2> QED BY <1>4, <1>6, <2>2
<1> QED BY <1>1, <1>3, <1>7, <1>8, <1>9, DoneIsSound

LEMMA SyncResults ==
  ASSUME IInv, Results, SyncRows
  PROVE  Results'
<1>1. /\ pc = "done" /\ UNCHANGED <<src, dst, disk, report, verdict>> /\ Kept' = Kept
      /\ rowAt' = [i \in Files |-> report[Last({j \in Files : Entry(src[j]) = Entry(src[i])})]]
      /\ pc' = "synced"
  BY DEF SyncRows, batchVars, history, Kept
<1>2. ASSUME NEW i \in Files PROVE rowAt'[i] = report[i]
  <2> DEFINE S == {j \in Files : Entry(src[j]) = Entry(src[i])}
  <2>1. S \in SUBSET Files /\ S # {} /\ rowAt'[i] = report[Last(S)]
    BY <1>1
  <2>2. Last(S) \in S
    <3> HIDE DEF S
    <3> QED BY <2>1, LastIsMember
  <2>3. Last(S) \in Files /\ Entry(src[Last(S)]) = Entry(src[i])
    BY <2>2
  <2> HIDE DEF S
  <2> QED BY <1>1, <2>1, <2>3 DEF Results, ReportSound, Over
<1> QED BY <1>1, <1>2 DEF Results, ReportSound, VerdictSound, RowsFollowFiles, Over, Entry

LEMMA ExternalResults ==
  ASSUME IInv, Fresh, Results, External
  PROVE  Results'
<1>1. UNCHANGED <<src, dst, pc, report, rowAt, verdict>>
  BY DEF External, ExternalCreate, ExternalRemove, batchVars
<1>2. ASSUME NEW i \in Files, i \in Kept', NEW p, disk[p] = i, p \in Places
      PROVE  i \in Kept /\ disk'[p] = i
  <2>1. ASSUME NEW e \in Entries, ExternalCreate(e) PROVE i \in Kept /\ disk'[p] = i
    <3>1. PICK made \in Nat :
             /\ made \notin Files /\ disk[e] = Free
             /\ \A q \in Places \ {e} : disk'[q] = disk[q]
             /\ existed' = existed \cup {made} /\ gone' = gone
      BY <2>1, CreateEffect
    <3> QED BY <1>2, <3>1, FileFacts DEF Kept
  <2>2. ASSUME NEW q \in Places, ExternalRemove(q) PROVE i \in Kept /\ disk'[p] = i
    <3>1. /\ \A r \in Places \ {q} : disk'[r] = disk[r]
          /\ disk[q] # Partial => disk[q] \notin Kept'
          /\ Kept' \subseteq Kept
      BY <2>2, RemoveEffect
    <3> QED BY <1>2, <3>1, FileFacts
  <2> QED BY <2>1, <2>2 DEF External
<1>3. \A i \in Files : i \in Kept' => i \in Kept
  <2>1. ASSUME NEW i \in Files, i \in Kept', NEW e \in Entries, ExternalCreate(e) PROVE i \in Kept
    <3>1. PICK made \in Nat : made \notin Files /\ existed' = existed \cup {made} /\ gone' = gone
      BY <2>1, CreateEffect
    <3> QED BY <2>1, <3>1 DEF Kept
  <2>2. ASSUME NEW i \in Files, i \in Kept', NEW q \in Places, ExternalRemove(q) PROVE i \in Kept
    BY <2>2, RemoveEffect
  <2> QED BY <2>1, <2>2 DEF External
<1>4. RowsFollowFiles'
  BY <1>1, <1>2, <1>3 DEF Results, RowsFollowFiles
<1>5. ReportSound'
  BY <1>1, <1>2, <1>3 DEF Results, ReportSound, Over, Entry
<1>6. VerdictSound'
  <2>1. \A i \in Files : Entry(src[i]) \in Places
    BY PlaceFacts DEF IInv, TypeOK
  <2>2. verdict = "completed" => \A i \in Files : Entry(dst[i]) \in Places
    BY PlaceFacts DEF Results, ReportSound
  <2> QED BY <1>1, <1>2, <1>3, <2>1, <2>2 DEF Results, VerdictSound, Entry
<1> QED BY <1>4, <1>5, <1>6 DEF Results

-----------------------------------------------------------------------------
LEMMA PlaceStutter ==
  ASSUME PlaceInv, UNCHANGED vars
  PROVE  PlaceInv'
BY DEF vars, batchVars, history, PlaceInv, Control, PlanningControl, DistinctSources, LoopControl,
       ReportControl, StrandedControl, OpControl, OwnBytes, Fresh, AtHome, Spot, Home,
       MovesOwnFile, OneName, Temporaries, ReportSound, VerdictSound, RowsFollowFiles, Planning,
       Over, Executing, Renames, ToRestore, Idle, Kept, Lexists, Entry, Temp

LEMMA NextPlaceInv ==
  ASSUME IInv, PlaceInv, Next
  PROVE  PlaceInv'
<1> USE DEF PlaceInv
<1>1. CASE Bookkeeping
  <2>1. Control'
    BY <1>1, PlanControl, LoopControlStep, RollbackControl DEF Bookkeeping
  <2>2. OwnBytes' /\ Fresh'
    BY <1>1, BookkeepingKeepsBytes
  <2>3. AtHome' /\ MovesOwnFile'
    BY <1>1, BookkeepingKeepsHome
  <2>4. OneName' /\ Temporaries'
    BY <1>1, BookkeepingKeepsOneName, BookkeepingKeepsTemporaries
  <2>5. Results'
    BY <1>1, PlanResults, OngoingResults, FinalizeDoneResults, FinishResults, SyncResults
    DEF Bookkeeping, Results
  <2> QED BY <2>1, <2>2, <2>3, <2>4, <2>5 DEF Results
<1>2. CASE Move
  <2>1. Control' /\ OwnBytes' /\ Fresh'
    BY <1>2, MoveControl, MoveKeepsBytes
  <2>2. AtHome' /\ MovesOwnFile' /\ OneName' /\ Temporaries'
    BY <1>2, MoveKeepsHome, MoveKeepsOneName, MoveKeepsTemporaries
  <2>3. Results'
    BY <1>2, OngoingResults
  <2> QED BY <2>1, <2>2, <2>3 DEF Results
<1>3. CASE External
  <2>1. Control' /\ OwnBytes' /\ Fresh'
    BY <1>3, EnvironmentControl, ExternalKeepsBytes
  <2>2. AtHome' /\ MovesOwnFile' /\ OneName' /\ Temporaries'
    BY <1>3, ExternalKeepsHome, ExternalKeepsOneName, ExternalKeepsTemporaries
  <2>3. Results'
    BY <1>3, ExternalResults DEF Results
  <2> QED BY <2>1, <2>2, <2>3 DEF Results
<1>4. CASE Crash
  <2>1. Control' /\ OwnBytes' /\ Fresh' /\ Results'
    BY <1>4, EnvironmentControl, CrashKeepsBytes, OngoingResults
  <2>2. AtHome' /\ MovesOwnFile' /\ OneName' /\ Temporaries'
    BY <1>4 DEF Crash, AtHome, MovesOwnFile, OneName, Temporaries, Planning, Executing
  <2> QED BY <2>1, <2>2 DEF Results
<1> QED BY <1>1, <1>2, <1>3, <1>4 DEF Next, Execute, Bookkeeping

LEMMA PlaceInductive == Spec => [](IInv /\ PlaceInv)
<1>1. IInv /\ PlaceInv /\ [Next]_vars => PlaceInv'
  BY NextPlaceInv, PlaceStutter
<1> QED BY <1>1, Inductive, InitPlaceInv, PTL DEF Spec

(***************************************************************************)
(* What the steps of a batch keep: rows of the table follow their files,   *)
(* the batch status is true, and a batch that ran to its end leaves one    *)
(* name per file and no unreported temporary file.                         *)
(***************************************************************************)
THEOREM BatchIsSound == Spec => []BatchInv
<1>1. IInv /\ PlaceInv => BatchInv
  <2> SUFFICES ASSUME IInv, PlaceInv PROVE BatchInv
    OBVIOUS
  <2>1. TypeOK /\ MoveInv /\ RowsFollowFiles /\ VerdictSound
    BY DEF IInv, PlaceInv
  <2>2. NoLeftovers
    <3> SUFFICES ASSUME Over, ~undoFailed
                 PROVE  /\ \A p, q \in Places : Lexists(p) /\ disk[p] = disk[q] => p = q
                        /\ \A p \in Places : disk[p] # Partial
                        /\ \A i \in Files : Lexists(Temp(i)) => report[i] = Temp(i)
      BY DEF NoLeftovers, Over
    <3>1. op.step = "idle" /\ pc # "crashed"
      BY DEF PlaceInv, Control, OpControl, Idle, Over
    <3> QED BY <3>1 DEF PlaceInv, OneName, Temporaries, Lexists
  <2> QED BY <2>1, <2>2 DEF BatchInv
<1> QED BY <1>1, PlaceInductive, PTL

-----------------------------------------------------------------------------
(* The refinement of BatchMove. *)

Where == [i \in Files |-> At(i)]

LEMMA WhereStays ==
  ASSUME UNCHANGED <<src, dst, staged, finalized>>,
         \A i \in staged \ finalized : report'[i] = report[i]
  PROVE  Where' = Where
BY DEF Where, At, Entry

LEMMA Unnoticed ==
  ASSUME IInv, PlaceInv,
         \/ Move \/ External \/ Preview \/ StageBegin \/ FinalizeBegin \/ RestoreBegin \/ SyncRows
         \/ UNCHANGED vars
  PROVE  UNCHANGED Batch!vars
<1>1. UNCHANGED <<src, dst, staged, finalized, report, verdict>>
  BY MoveEffect DEF PlaceInv, External, ExternalCreate, ExternalRemove, Preview, StageBegin,
     FinalizeBegin, RestoreBegin, SyncRows, vars, batchVars
<1>2. \/ pc' = pc
      \/ pc = "preview" /\ pc' \in {"refused", "confirmed"}
      \/ pc = "done" /\ pc' = "synced"
  BY MoveEffect DEF PlaceInv, External, ExternalCreate, ExternalRemove, Preview, StageBegin,
     FinalizeBegin, RestoreBegin, SyncRows, vars
<1>3. Phase' = Phase
  BY <1>2 DEF Phase
<1>4. Where' = Where
  BY <1>1, WhereStays
<1> QED BY <1>1, <1>3, <1>4 DEF Batch!vars, Where, Renames

LEMMA PlanRefines ==
  ASSUME IInv, PlaceInv, ExecuteRefused \/ ExecutePreflightFails \/ ExecuteNothing \/ ExecuteStart
  PROVE  Batch!Next
<1>1. UNCHANGED <<src, dst, staged, finalized>> /\ Planning /\ staged = {}
  BY DEF ExecuteRefused, ExecutePreflightFails, ExecuteNothing, ExecuteStart, ReportBlocked,
     Planning, PlaceInv, Control, PlanningControl
<1>2. Where' = Where /\ Renames' = Renames
  BY <1>1, WhereStays DEF Renames
<1>3. Phase = "planned"
  BY <1>1 DEF Planning, Phase
<1>4. CASE ExecuteRefused \/ ExecutePreflightFails \/ ExecuteNothing
  <2>1. Phase' = "closed" /\ verdict' \in (IF Renames = {} THEN {"blocked", "no_changes"} ELSE {"blocked"})
    BY <1>4 DEF ExecuteRefused, ExecutePreflightFails, ExecuteNothing, ReportBlocked, Phase
  <2> QED BY <1>2, <1>3, <2>1 DEF Batch!Next, Batch!Decline, Where
<1>5. CASE ExecuteStart
  <2>1. Phase' = "staging" /\ verdict' = verdict /\ Renames # {}
    BY <1>5 DEF ExecuteStart, Phase
  <2> QED BY <1>2, <1>3, <2>1 DEF Batch!Next, Batch!Start, Where
<1> QED BY <1>4, <1>5

LEMMA AbortRefines ==
  ASSUME IInv, PlaceInv, StageNoTemporary \/ StageFailed \/ FinalizeFailed \/ Crash
  PROVE  Batch!Next
<1>1. UNCHANGED <<src, dst, staged, finalized, report, verdict>>
  BY DEF StageNoTemporary, StageFailed, FinalizeFailed, Crash, batchVars
<1>2. Where' = Where /\ Renames' = Renames
  BY <1>1, WhereStays DEF Renames
<1>3. CASE Crash
  <2>1. Phase \in {"staging", "finalizing", "rollback"} /\ Phase' = "crashed"
    BY <1>3 DEF Crash, Executing, Phase
  <2> QED BY <1>1, <1>2, <2>1 DEF Batch!Next, Batch!Crash, Where
<1>4. CASE StageNoTemporary \/ StageFailed \/ FinalizeFailed
  <2>1. Phase \in {"staging", "finalizing"} /\ Phase' = "rollback"
    BY <1>4 DEF StageNoTemporary, StageFailed, FinalizeFailed, Phase
  <2> QED BY <1>1, <1>2, <2>1 DEF Batch!Next, Batch!Abort, Where
<1> QED BY <1>3, <1>4

\* One row's place changes, those of the others stay.
LEMMA OneRowMoves ==
  ASSUME UNCHANGED <<src, dst>>, NEW i \in Files,
         \A j \in Files \ {i} : At(j)' = At(j)
  PROVE  Where' = [Where EXCEPT ![i] = At(i)']
BY DEF Where

LEMMA NoReportIsNoEntry ==
  ASSUME IInv
  PROVE  \A i \in Files : Entry(src[i]) \in Entries /\ Entry(src[i]) # NoReport
                          /\ Entry(src[i]) # Temp(i)
BY PlaceFacts DEF IInv, TypeOK, Temp

LEMMA StageRefines ==
  ASSUME IInv, PlaceInv, StageDone
  PROVE  Batch!Next
<1>1. /\ pc = "stage" /\ staged' = staged \cup {cur}
      /\ UNCHANGED <<src, dst, finalized, report, verdict>>
  BY DEF StageDone
<1>2. /\ cur \in Renames /\ Renames \subseteq Files /\ staged = {j \in Renames : j < cur}
      /\ finalized = {} /\ cur \in Files
  BY <1>1 DEF PlaceInv, Control, LoopControl, Executing, Renames
<1>3. cur \notin staged
  BY <1>2, FileFacts
<1>4. \A j \in staged' : report[j] = NoReport /\ j \in Files
  BY <1>1, <1>2, <1>3 DEF PlaceInv, Control, ReportControl, Executing
<1>5. \A j \in Files : At(j) = IF j \in staged THEN "staged" ELSE "source"
  BY <1>1, <1>2, <1>4, NoReportIsNoEntry DEF At
<1>6. \A j \in Files : At(j)' = IF j \in staged' THEN "staged" ELSE "source"
  BY <1>1, <1>2, <1>4, NoReportIsNoEntry DEF At, Entry
<1>7. Where[cur] = "source" /\ Where' = [Where EXCEPT ![cur] = "staged"]
  BY <1>1, <1>2, <1>3, <1>5, <1>6 DEF Where
<1>8. (\A j \in Renames : Where'[j] = "staged") <=> staged' = Renames
  BY <1>1, <1>2, <1>6 DEF Where
<1>9. Phase = "staging" /\ Phase' = IF \A j \in Renames : Where'[j] = "staged" THEN "finalizing" ELSE "staging"
  <2>1. CASE Later(cur) = {}
    BY <1>1, <1>2, <1>8, <2>1, LoopGoesOn DEF StageDone, Phase
  <2>2. CASE Later(cur) # {}
    <3>1. staged' = {j \in Renames : j < First(Later(cur))} /\ First(Later(cur)) \in Renames
      BY <1>1, <1>2, <2>2, LoopGoesOn
    <3>2. staged' # Renames
      <4> DEFINE k == First(Later(cur))
      <4>1. k \in Nat /\ k \in Renames /\ staged' = {j \in Renames : j < k}
        BY <1>2, <3>1, FileFacts
      <4> HIDE DEF k
      <4>2. ~(k < k) /\ k \notin staged'
        BY <4>1
      <4> QED BY <4>1, <4>2
    <3> QED BY <1>1, <1>8, <2>2, <3>2 DEF StageDone, Phase
  <2> QED BY <2>1, <2>2
<1>10. Renames' = Renames
  BY <1>1 DEF Renames
<1>11. Batch!Stage(cur)
  BY <1>1, <1>2, <1>7, <1>9, <1>10 DEF Batch!Stage, Where
<1> QED BY <1>2, <1>11 DEF Batch!Next

LEMMA FinalizeRefines ==
  ASSUME IInv, PlaceInv, FinalizeDone
  PROVE  Batch!Next
<1>1. /\ pc = "finalize" /\ finalized' = finalized \cup {cur}
      /\ report' = [report EXCEPT ![cur] = Entry(dst[cur])]
      /\ UNCHANGED <<src, dst, staged>>
  BY DEF FinalizeDone
<1>2. /\ cur \in Renames /\ Renames \subseteq Files /\ staged = Renames
      /\ finalized = {j \in Renames : j < cur} /\ cur \in Files /\ verdict = "none"
  BY <1>1 DEF PlaceInv, Control, LoopControl, Executing, Renames
<1>3. cur \notin finalized
  BY <1>2, FileFacts
<1>4. \A j \in Renames \ finalized : report[j] = NoReport /\ j \in Files
  BY <1>1, <1>2 DEF PlaceInv, Control, ReportControl, Executing
<1>5. \A j \in Files : At(j) = IF j \in finalized THEN "final"
                               ELSE IF j \in Renames THEN "staged" ELSE "source"
  BY <1>2, <1>4, NoReportIsNoEntry DEF At
<1>6. \A j \in Files : At(j)' = IF j \in finalized' THEN "final"
                                ELSE IF j \in Renames THEN "staged" ELSE "source"
  <2>1. \A j \in Files \ {cur} : report'[j] = report[j]
    BY <1>1 DEF IInv, TypeOK
  <2> QED BY <1>1, <1>2, <1>4, <2>1, NoReportIsNoEntry DEF At, Entry
<1>7. Where[cur] = "staged" /\ Where' = [Where EXCEPT ![cur] = "final"]
  BY <1>1, <1>2, <1>3, <1>5, <1>6 DEF Where
<1>8. (\A j \in Renames : Where'[j] = "final") <=> finalized' = Renames
  BY <1>1, <1>2, <1>6 DEF Where
<1>9. /\ Phase = "finalizing"
      /\ IF \A j \in Renames : Where'[j] = "final" THEN Phase' = "closed" /\ verdict' = "completed"
                                                   ELSE UNCHANGED <<Phase, verdict>>
  <2>1. CASE Later(cur) = {}
    BY <1>1, <1>2, <1>8, <2>1, LoopGoesOn DEF FinalizeDone, Phase
  <2>2. CASE Later(cur) # {}
    <3>1. finalized' = {j \in Renames : j < First(Later(cur))} /\ First(Later(cur)) \in Renames
      BY <1>1, <1>2, <2>2, LoopGoesOn
    <3>2. finalized' # Renames
      <4> DEFINE k == First(Later(cur))
      <4>1. k \in Nat /\ k \in Renames /\ finalized' = {j \in Renames : j < k}
        BY <1>2, <3>1, FileFacts
      <4> HIDE DEF k
      <4>2. ~(k < k) /\ k \notin finalized'
        BY <4>1
      <4> QED BY <4>1, <4>2
    <3> QED BY <1>1, <1>8, <2>2, <3>2 DEF FinalizeDone, Phase
  <2> QED BY <2>1, <2>2
<1>10. Renames' = Renames
  BY <1>1 DEF Renames
<1>11. Batch!Finalize(cur)
  BY <1>1, <1>2, <1>7, <1>9, <1>10 DEF Batch!Finalize, Where
<1> QED BY <1>2, <1>11 DEF Batch!Next

LEMMA RestoreRefines ==
  ASSUME IInv, PlaceInv, RestoreMissing \/ RestoreDone \/ RestoreFailed
  PROVE  Batch!Next \/ UNCHANGED Batch!vars
<1>1. /\ pc \in {"unstage", "restore"} /\ ToRestore # {} /\ Executing
      /\ UNCHANGED <<src, dst, pc, staged, finalized, verdict>>
  BY DEF RestoreMissing, RestoreDone, RestoreFailed, Restoring, Executing
<1>2. ToRestore \subseteq Files /\ \A j \in ToRestore : j \in staged /\ report[j] = NoReport
  BY DEF ToRestore, IInv, TypeOK
<1>3. Next2Restore \in ToRestore
  BY <1>1, <1>2, FirstIsMember, LastIsMember DEF Next2Restore
<1>4. op.step \in {"renamed", "failed"} => op.file \in ToRestore
  BY <1>1 DEF PlaceInv, Control, OpControl, Idle
<1>5. PICK i \in ToRestore : \A j \in Files \ {i} : report'[j] = report[j]
  <2>1. CASE RestoreMissing
    BY <1>3, <2>1 DEF RestoreMissing, IInv, TypeOK
  <2>2. CASE RestoreDone \/ RestoreFailed
    BY <1>4, <2>2 DEF RestoreDone, RestoreFailed, IInv, TypeOK
  <2> QED BY <2>1, <2>2
<1>6. i \in Files /\ i \in staged /\ report[i] = NoReport
  BY <1>2
<1>7. i \notin finalized
  <2>1. dst \in [Files -> Names]
    BY <1>1 DEF IInv, PlanInv
  <2>2. Entry(dst[i]) # NoReport
    BY <1>6, <2>1, PlaceFacts
  <2> QED BY <1>1, <1>6, <2>2 DEF PlaceInv, Control, ReportControl
<1>8. At(i) = "staged" /\ At(i)' \in {"staged", "source"}
  BY <1>1, <1>6, <1>7, NoReportIsNoEntry DEF At
<1>9. \A j \in Files \ {i} : At(j)' = At(j)
  BY <1>1, <1>5 DEF At, Entry
<1>10. Phase = "rollback" /\ Phase' = Phase /\ Renames' = Renames
  BY <1>1 DEF Phase, Renames
<1>11. CASE At(i)' = "staged"
  BY <1>1, <1>8, <1>9, <1>10, <1>11 DEF Batch!vars, Where
<1>12. CASE At(i)' = "source"
  <2>1. Where' = [Where EXCEPT ![i] = "source"] /\ Where[i] = "staged"
    BY <1>1, <1>6, <1>8, <1>9, <1>12, OneRowMoves DEF Where
  <2>2. Batch!Restore(i)
    BY <1>1, <1>10, <2>1 DEF Batch!Restore, Where
  <2> QED BY <1>6, <2>2 DEF Batch!Next
<1> QED BY <1>8, <1>11, <1>12

LEMMA CloseRefines ==
  ASSUME IInv, PlaceInv, FinishUnstage \/ FinishRestore
  PROVE  Batch!Next
<1>1. /\ pc \in {"unstage", "restore"} /\ ToRestore = {} /\ Executing /\ pc' = "done"
      /\ UNCHANGED <<src, dst, staged, finalized>>
      /\ verdict' = IF finalized # {} \/ stranded THEN "partial" ELSE "failed"
  BY DEF FinishUnstage, FinishRestore, Executing, PlaceInv, Control, LoopControl
<1>2. staged \subseteq Files /\ finalized \subseteq Files
  BY DEF IInv, TypeOK
<1>3. \A i \in staged : report[i] # NoReport
  BY <1>1 DEF ToRestore
<1>4. \A i \in staged \ finalized : report'[i] = report[i]
  <2>1. CASE FinishRestore
    BY <2>1 DEF FinishRestore
  <2>2. CASE FinishUnstage
    <3>1. pc = "unstage" /\ \A i \in Files : report'[i] = StagingReport(i)
      BY <2>2 DEF FinishUnstage
    <3>2. staged = {j \in Renames : j < cur} /\ cur \in Renames /\ Renames \subseteq Files
      BY <1>1, <3>1 DEF PlaceInv, Control, LoopControl, Renames
    <3>3. \A i \in staged : i # cur /\ i \notin Later(cur)
      BY <3>2, FileFacts DEF Later
    <3> QED BY <1>2, <3>1, <3>3 DEF StagingReport
  <2> QED BY <2>1, <2>2
<1>5. Where' = Where /\ Renames' = Renames
  BY <1>1, <1>4, WhereStays DEF Renames
<1>6. stranded <=> \E i \in staged \ finalized : report[i] # Entry(src[i])
  BY <1>1, <1>3 DEF PlaceInv, Control, StrandedControl
<1>7. (\A i \in Files : Where[i] = "source") <=> finalized = {} /\ ~stranded
  BY <1>2, <1>6 DEF Where, At
<1>8. Phase = "rollback" /\ Phase' = "closed"
  BY <1>1 DEF Phase
<1>9. verdict' = IF \A i \in Files : Where[i] = "source" THEN "failed" ELSE "partial"
  BY <1>1, <1>7
<1> QED BY <1>5, <1>8, <1>9 DEF Batch!Next, Batch!Close, Where

(***************************************************************************)
(* The execution implements the abstract two-phase batch, whatever fails   *)
(* and whatever other programs do: no file takes its final name before     *)
(* all have left their source names, and the outcome tells where they are. *)
(***************************************************************************)
THEOREM BatchIsTwoPhase == Spec => ImplementsBatch
<1>1. Init => Batch!Init
  BY InitPlaceInv, PlaceFacts DEF Init, Batch!Init, At, Phase, Renames
<1>2. IInv /\ PlaceInv /\ [Next]_vars => [Batch!Next]_(Batch!vars)
  BY Unnoticed, PlanRefines, AbortRefines, StageRefines, FinalizeRefines, RestoreRefines,
     CloseRefines DEF Next, Execute
<1> QED BY <1>1, <1>2, PlaceInductive, PTL DEF Spec, ImplementsBatch, Batch!Spec
=============================================================================
