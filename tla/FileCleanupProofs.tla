------------------------- MODULE FileCleanupProofs -------------------------
(***************************************************************************)
(* Proofs about FileCleanup, for any files, rows, contents, changes by     *)
(* other programs and failing deletions.                                   *)
(*                                                                         *)
(* What is deleted is right because of what a batch knows of a file it     *)
(* looked at (LooksHold): unless another program changed it since, the     *)
(* file is that of the plan, and while it is that of the plan, its bytes   *)
(* are those that were hashed.  Rows follow because each row has a         *)
(* candidate of its own (CandidatesMatch) and because the rows whose file  *)
(* is gone are at every moment those of the batch (RowsOfDeleted).         *)
(***************************************************************************)
EXTENDS FileCleanup, TLAPS

Marks == 0..MaxTouches
Plans == UNION {[D -> Marks] : D \in SUBSET Paths}

Operations ==
  [kind : {"none", "mass", "duplicates", "one"},
   stage : {"idle", "preview", "confirm", "confirm all", "check", "delete",
            "group", "preflight", "pick", "hash", "look", "unlink"},
   plan : Plans, selected : SUBSET Paths, file : Paths \cup {Gone}, todo : SUBSET Paths,
   group : Bytes \cup {"none"}, groups : SUBSET Bytes, removed : SUBSET Paths]

TypeOK ==
  /\ files \in [Paths -> [is : Bytes \cup {"none"}, mark : Marks]]
  /\ touches \in 0..MaxTouches /\ failures \in 0..MaxFailures
  /\ candidates \in [Audited -> Paths \cup {Gone}]
  /\ rows \in [Audited -> [at : Paths \cup {Gone}, sha : Bytes \cup {"none"}, target : BOOLEAN]]
  /\ op \in Operations
  /\ unseen \subseteq Paths /\ ours \subseteq Audited

\* Marks are given in order: none is younger than the last change.
MarksAreOld ==
  /\ \A p \in Paths : files[p].mark <= touches
  /\ \A p \in DOMAIN op.plan : op.plan[p] <= touches

Stages ==
  /\ op.kind = "none" => op = NoOp
  /\ op.kind = "mass" => op.stage \in {"preview", "confirm", "confirm all", "check", "delete"}
  /\ op.kind = "duplicates" =>
       op.stage \in {"confirm", "group", "preflight", "pick", "hash", "look", "unlink"}
  /\ op.kind = "one" => op.stage = "confirm" /\ op.file \in Paths
  /\ op.stage \in {"preview", "confirm", "confirm all"} => op.removed = {}
  /\ op.stage = "delete" => op.kind = "mass"
  /\ op.stage \in {"hash", "look", "unlink"} => op.kind = "duplicates"

\* Every candidate has a row of its own, and every row a candidate.
Bijections == {f \in [Audited -> Audited] : /\ \A i, j \in Audited : f[i] = f[j] => i = j
                                            /\ \A j \in Audited : \E i \in Audited : f[i] = j}
CandidatesMatch == \E f \in Bijections : \A i \in Audited : candidates[i] = rows[f[i]].at

RowsOfDeleted ==
  \A i \in Audited : i \in ours <=> rows[i].at = Gone \/ rows[i].at \in op.removed

\* A group that is cleaned was looked at as a whole, and a copy of it is kept.
Reviewed(c) == Copies(c) \subseteq DOMAIN op.plan /\ Copies(c) \ op.selected # {}

Seen(p)  == p \in unseen \/ StillAsPlanned(p)
Known(p) == StillAsPlanned(p) => files[p].is = op.group

LooksHold ==
  /\ op.stage = "delete" => op.file \in Paths /\ Seen(op.file)
  /\ op.kind = "duplicates" =>
       /\ \A c \in op.groups : Reviewed(c)
       /\ op.stage \in {"preflight", "pick", "hash", "look", "unlink"} => Reviewed(op.group)
  /\ op.stage \in {"hash", "look", "unlink"} => op.file \in Selected
  /\ op.stage = "hash" => \A p \in HashedAgain(op.file) \ op.todo : Known(p)
  /\ op.stage = "look" => /\ \A p \in HashedAgain(op.file) : Known(p)
                          /\ \A p \in HashedAgain(op.file) \ op.todo : Seen(p)
  /\ op.stage = "unlink" => \A p \in HashedAgain(op.file) : Known(p) /\ Seen(p)

IInv == TypeOK /\ MarksAreOld /\ Stages /\ CandidatesMatch /\ RowsOfDeleted /\ LooksHold

-----------------------------------------------------------------------------
(* Lemmas. *)

LEMMA PlanFits ==
  ASSUME NEW plan \in Plans
  PROVE  DOMAIN plan \in SUBSET Paths /\ \A p \in DOMAIN plan : plan[p] \in Nat
  BY DEF Plans, Marks

LEMMA MarksArePlans ==
  ASSUME NEW D \in SUBSET Paths, NEW plan \in [D -> Marks]
  PROVE  plan \in Plans
  BY DEF Plans

LEMMA NoOpFits == NoOp \in Operations
<1>1. [p \in {} |-> 0] \in [{} -> Marks]
  OBVIOUS
<1>2. [p \in {} |-> 0] \in Plans
  BY <1>1, MarksArePlans
<1> QED BY <1>2 DEF NoOp, Operations

(* The copies of a group are files of the source. *)
LEMMA CopiesFit ==
  ASSUME TypeOK, NEW c
  PROVE  Copies(c) \subseteq Paths
  BY DEF TypeOK, Copies, PathsOf

LEMMA SameCopies ==
  ASSUME rows' = rows, candidates' = candidates, NEW c
  PROVE  Copies(c)' = Copies(c)
  BY DEF Copies, PathsOf

(* A deletion removes the file and marks its rows, or changes nothing. *)
LEMMA DeleteEffect ==
  ASSUME TypeOK, NEW p \in Paths, NEW works \in BOOLEAN, Delete(p, works)
  PROVE  /\ failures' \in 0..MaxFailures
         /\ \/ files' = files /\ ours' = ours
            \/ /\ Exists(p) /\ files' = [files EXCEPT ![p] = Absent] /\ files'[p] # files[p]
               /\ ours' = ours \cup RowsAt(p)
<1>1. failures' \in 0..MaxFailures
  BY ConstantsAssumption DEF Delete, TypeOK
<1>2. CASE works /\ Exists(p)
  <2>1. files' = [files EXCEPT ![p] = Absent] /\ ours' = ours \cup RowsAt(p)
    BY <1>2 DEF Delete
  <2>2. files'[p] = Absent
    BY <2>1 DEF TypeOK
  <2> QED BY <1>1, <1>2, <2>1, <2>2 DEF Exists
<1>3. CASE ~(works /\ Exists(p))
  BY <1>1, <1>3 DEF Delete
<1> QED BY <1>2, <1>3

LEMMA AbsentFits == Absent \in [is : Bytes \cup {"none"}, mark : Marks] /\ Absent.mark = 0
  BY ConstantsAssumption DEF Absent, Marks

-----------------------------------------------------------------------------
(* Steps that only talk to the user or look at files. *)

Talk ==
  \/ ShowMassRemove \/ EndGroup
  \/ \E yes \in BOOLEAN : ClosePreview(yes) \/ AnswerMassRemove(yes) \/ AnswerDuplicates(yes)
  \/ \E selected \in SUBSET Audited : ShowDuplicates(selected)
  \/ \E c \in Bytes : StartGroup(c)
  \/ \E p \in op.todo : CheckNext(p) \/ Preflight(p) \/ HashAgain(p) \/ LookAgain(p)
  \/ \E p \in Paths : PickFile(p)
  \/ \E i \in Audited : AskRemove(i)

(* The operation stays typed, its plan is the marks of now or stays, and nothing else *)
(* changes.                                                                            *)
TalkKeeps ==
  /\ UNCHANGED <<files, touches, failures, candidates, rows, ours>>
  /\ op' \in Operations
  /\ op'.removed = op.removed
  /\ op'.plan = op.plan \/ \A p \in DOMAIN op'.plan : p \in Paths /\ op'.plan[p] = files[p].mark

LEMMA ShowKeeps ==
  ASSUME IInv, ShowMassRemove \/ \E selected \in SUBSET Audited : ShowDuplicates(selected)
  PROVE  TalkKeeps /\ Stages' /\ unseen' = unseen
<1>1. op = NoOp /\ NoOp \in Operations
  BY NoOpFits DEF ShowMassRemove, ShowDuplicates
<1>2. CASE ShowMassRemove
  <2> DEFINE plan == MassPlan
  <2>1. Runnable \subseteq Paths /\ MassTargets \subseteq Paths
    BY DEF IInv, TypeOK, Runnable, MassTargets
  <2>2. plan \in [Runnable -> Marks] /\ \A p \in Runnable : plan[p] = files[p].mark
    BY <2>1 DEF IInv, TypeOK, MassPlan
  <2>3. plan \in Plans /\ DOMAIN plan = Runnable
    BY <2>1, <2>2, MarksArePlans
  <2>4. op' = [NoOp EXCEPT !.kind = "mass", !.stage = "preview", !.plan = plan,
                 !.todo = Runnable, !.selected = MassTargets]
        /\ UNCHANGED <<files, touches, failures, candidates, rows, unseen, ours>>
    BY <1>2 DEF ShowMassRemove
  <2> HIDE DEF plan
  <2>5. op' \in Operations /\ op'.plan = plan /\ op'.removed = NoOp.removed
        /\ op'.kind = "mass" /\ op'.stage = "preview" /\ NoOp.removed = {}
    BY <1>1, <2>1, <2>3, <2>4 DEF Operations, NoOp
  <2> QED BY <1>1, <2>1, <2>2, <2>3, <2>4, <2>5 DEF TalkKeeps, Stages
<1>3. CASE \E selected \in SUBSET Audited : ShowDuplicates(selected)
  <2>1. PICK selected \in SUBSET Audited : ShowDuplicates(selected)
    BY <1>3
  <2> DEFINE there == {q \in Paths : Exists(q)}
             plan == [p \in there |-> files[p].mark]
             groups == {c \in Groups : Copies(c) \cap selected # {}}
  <2>2. plan \in [there -> Marks] /\ there \in SUBSET Paths
    BY DEF IInv, TypeOK
  <2>3. plan \in Plans /\ DOMAIN plan = there /\ \A p \in there : plan[p] = files[p].mark
    BY <2>2, MarksArePlans
  <2>4. groups \in SUBSET Bytes /\ selected \in SUBSET Paths
    BY ConstantsAssumption DEF Groups
  <2>5. op' = [NoOp EXCEPT !.kind = "duplicates", !.stage = "confirm", !.selected = selected,
                 !.plan = plan, !.groups = groups]
        /\ UNCHANGED <<files, touches, failures, candidates, rows, unseen, ours>>
    BY <2>1 DEF ShowDuplicates
  <2> HIDE DEF plan, groups, there
  <2>6. op' \in Operations /\ op'.plan = plan /\ op'.removed = NoOp.removed
        /\ op'.kind = "duplicates" /\ op'.stage = "confirm" /\ NoOp.removed = {}
    BY <1>1, <2>3, <2>4, <2>5 DEF Operations, NoOp
  <2> QED BY <1>1, <2>2, <2>3, <2>5, <2>6 DEF TalkKeeps, Stages
<1> QED BY <1>2, <1>3

LEMMA AnswersKeep ==
  ASSUME IInv,
         \/ EndGroup
         \/ \E yes \in BOOLEAN : ClosePreview(yes) \/ AnswerMassRemove(yes) \/ AnswerDuplicates(yes)
         \/ \E c \in Bytes : StartGroup(c)
         \/ \E i \in Audited : AskRemove(i)
  PROVE  TalkKeeps /\ Stages' /\ unseen' = unseen
<1>1. op \in Operations /\ NoOp \in Operations /\ NoOp.removed = {} /\ NoOp.kind = "none"
      /\ NoOp.stage = "idle"
  BY NoOpFits DEF IInv, TypeOK, NoOp
<1>2. \A p \in DOMAIN NoOp.plan : p \in Paths /\ NoOp.plan[p] = files[p].mark
  BY DEF NoOp
<1>3. CASE EndGroup
  <2>1. op' \in Operations
    BY <1>1, <1>3 DEF EndGroup, LeaveGroup, Operations
  <2> QED BY <1>1, <1>3, <2>1 DEF EndGroup, LeaveGroup, TalkKeeps, Stages, Operations
<1>4. ASSUME NEW yes \in BOOLEAN, ClosePreview(yes)
      PROVE  TalkKeeps /\ Stages' /\ unseen' = unseen
  <2>1. CASE yes
    <3>1. op' = [op EXCEPT !.stage = "confirm"] /\ op.stage = "preview" /\ op.kind = "mass"
          /\ UNCHANGED <<files, touches, failures, candidates, rows, unseen, ours>>
      BY <1>4, <2>1 DEF ClosePreview
    <3> QED BY <1>1, <3>1 DEF IInv, TalkKeeps, Stages, Operations
  <2>2. CASE ~yes
    <3>1. op' = NoOp /\ op.removed = {}
      BY <1>4, <2>2 DEF ClosePreview, IInv, Stages
    <3> QED BY <1>1, <1>2, <1>4, <3>1 DEF ClosePreview, TalkKeeps, Stages
  <2> QED BY <2>1, <2>2
<1>5. ASSUME NEW yes \in BOOLEAN, AnswerMassRemove(yes)
      PROVE  TalkKeeps /\ Stages' /\ unseen' = unseen
  <2>1. op.removed = {} /\ op.kind = "mass"
        /\ UNCHANGED <<files, touches, failures, candidates, rows, unseen, ours>>
    BY <1>5 DEF AnswerMassRemove, IInv, Stages
  <2>2. CASE yes
    <3>1. PICK stage \in {"confirm all", "check"} : op' = [op EXCEPT !.stage = stage]
      BY <1>5, <2>2 DEF AnswerMassRemove
    <3> QED BY <1>1, <2>1, <3>1 DEF IInv, TalkKeeps, Stages, Operations
  <2>3. CASE ~yes
    <3>1. op' = NoOp
      BY <1>5, <2>3 DEF AnswerMassRemove
    <3> QED BY <1>1, <1>2, <2>1, <3>1 DEF TalkKeeps, Stages
  <2> QED BY <2>2, <2>3
<1>6. ASSUME NEW yes \in BOOLEAN, AnswerDuplicates(yes)
      PROVE  TalkKeeps /\ Stages' /\ unseen' = unseen
  <2>1. op.removed = {} /\ op.kind = "duplicates"
        /\ UNCHANGED <<files, touches, failures, candidates, rows, unseen, ours>>
    BY <1>6 DEF AnswerDuplicates, IInv, Stages
  <2>2. CASE yes
    <3>1. op' = [op EXCEPT !.stage = "group"]
      BY <1>6, <2>2 DEF AnswerDuplicates
    <3> QED BY <1>1, <2>1, <3>1 DEF IInv, TalkKeeps, Stages, Operations
  <2>3. CASE ~yes
    <3>1. op' = NoOp
      BY <1>6, <2>3 DEF AnswerDuplicates
    <3> QED BY <1>1, <1>2, <2>1, <3>1 DEF TalkKeeps, Stages
  <2> QED BY <2>2, <2>3
<1>7. ASSUME NEW c \in Bytes, StartGroup(c)
      PROVE  TalkKeeps /\ Stages' /\ unseen' = unseen
  <2>1. Copies(c) \subseteq Paths
    BY CopiesFit DEF IInv
  <2>2. op' = [op EXCEPT !.stage = "preflight", !.group = c, !.groups = @ \ {c},
                 !.todo = Copies(c)]
        /\ op.kind = "duplicates"
        /\ UNCHANGED <<files, touches, failures, candidates, rows, unseen, ours>>
    BY <1>7 DEF StartGroup
  <2>3. op' \in Operations
    BY <1>1, <2>1, <2>2 DEF Operations
  <2> QED BY <1>1, <2>2, <2>3 DEF TalkKeeps, Stages, Operations
<1>8. ASSUME NEW i \in Audited, AskRemove(i)
      PROVE  TalkKeeps /\ Stages' /\ unseen' = unseen
  <2>1. op = NoOp /\ rows[i].at \in Paths
        /\ op' = [NoOp EXCEPT !.kind = "one", !.stage = "confirm", !.file = rows[i].at]
        /\ UNCHANGED <<files, touches, failures, candidates, rows, unseen, ours>>
    BY <1>8 DEF AskRemove, MutationAvailable, IInv, TypeOK
  <2> QED BY <1>1, <2>1 DEF TalkKeeps, Stages, Operations
<1> QED BY <1>3, <1>4, <1>5, <1>6, <1>7, <1>8

LEMMA LooksKeep ==
  ASSUME IInv,
         \/ \E p \in op.todo : CheckNext(p) \/ Preflight(p) \/ HashAgain(p) \/ LookAgain(p)
         \/ \E p \in Paths : PickFile(p)
  PROVE  TalkKeeps /\ Stages' /\ unseen' \subseteq unseen
<1>1. op \in Operations /\ op.todo \subseteq Paths
  BY DEF IInv, TypeOK, Operations
<1>2. ASSUME LeaveGroup, op.kind = "duplicates",
             UNCHANGED <<files, touches, failures, candidates, rows, ours>>
      PROVE  TalkKeeps /\ Stages'
  BY <1>1, <1>2 DEF LeaveGroup, TalkKeeps, Stages, Operations
<1>3. ASSUME NEW p \in op.todo, CheckNext(p)
      PROVE  TalkKeeps /\ Stages' /\ unseen' \subseteq unseen
  <2>1. op.kind = "mass" /\ op.stage = "check" /\ unseen' \subseteq unseen
        /\ UNCHANGED <<files, touches, failures, candidates, rows, ours>>
    BY <1>3 DEF CheckNext, Look
  <2>2. \/ op' = [op EXCEPT !.stage = "delete", !.file = p]
        \/ op' = [op EXCEPT !.todo = @ \ {p}]
    BY <1>3 DEF CheckNext
  <2> QED BY <1>1, <2>1, <2>2 DEF TalkKeeps, Stages, Operations
<1>4. ASSUME NEW p \in op.todo, Preflight(p)
      PROVE  TalkKeeps /\ Stages' /\ unseen' \subseteq unseen
  <2>1. op.kind = "duplicates" /\ op.stage = "preflight" /\ unseen' = unseen
        /\ UNCHANGED <<files, touches, failures, candidates, rows, ours>>
    BY <1>4 DEF Preflight
  <2>2. \/ LeaveGroup
        \/ \E stage \in {"preflight", "pick"} : op' = [op EXCEPT !.todo = @ \ {p}, !.stage = stage]
    BY <1>4, <2>1 DEF Preflight
  <2> QED BY <1>1, <1>2, <2>1, <2>2 DEF TalkKeeps, Stages, Operations
<1>5. ASSUME NEW p \in op.todo, HashAgain(p)
      PROVE  TalkKeeps /\ Stages' /\ unseen' \subseteq unseen
  <2>1. op.kind = "duplicates" /\ op.stage = "hash" /\ unseen' \subseteq unseen
        /\ UNCHANGED <<files, touches, failures, candidates, rows, ours>>
    BY <1>5 DEF HashAgain, Look, IInv, Stages
  <2>2. op.file \in Paths /\ HashedAgain(op.file) \subseteq Paths
    BY <2>1, CopiesFit DEF IInv, LooksHold, Selected, HashedAgain, Keepers
  <2>3. \/ LeaveGroup
        \/ op' = [op EXCEPT !.stage = "look", !.todo = HashedAgain(op.file)]
        \/ op' = [op EXCEPT !.todo = @ \ {p}]
    BY <1>5 DEF HashAgain
  <2> QED BY <1>1, <1>2, <2>1, <2>2, <2>3 DEF TalkKeeps, Stages, Operations
<1>6. ASSUME NEW p \in op.todo, LookAgain(p)
      PROVE  TalkKeeps /\ Stages' /\ unseen' \subseteq unseen
  <2>1. op.kind = "duplicates" /\ op.stage = "look" /\ unseen' \subseteq unseen
        /\ UNCHANGED <<files, touches, failures, candidates, rows, ours>>
    BY <1>6 DEF LookAgain, Look, IInv, Stages
  <2>2. \/ LeaveGroup
        \/ \E stage \in {"look", "unlink"} : op' = [op EXCEPT !.todo = @ \ {p}, !.stage = stage]
    BY <1>6, <2>1 DEF LookAgain
  <2> QED BY <1>1, <1>2, <2>1, <2>2 DEF TalkKeeps, Stages, Operations
<1>7. ASSUME NEW p \in Paths, PickFile(p)
      PROVE  TalkKeeps /\ Stages' /\ unseen' \subseteq unseen
  <2>1. op.kind = "duplicates" /\ unseen' = {}
        /\ UNCHANGED <<files, touches, failures, candidates, rows, ours>>
        /\ op' = [op EXCEPT !.stage = "hash", !.file = p, !.todo = HashedAgain(p)]
    BY <1>7 DEF PickFile
  <2>2. HashedAgain(p) \subseteq Paths
    BY CopiesFit DEF IInv, HashedAgain, Keepers
  <2> QED BY <1>1, <2>1, <2>2 DEF TalkKeeps, Stages, Operations
<1> QED BY <1>3, <1>4, <1>5, <1>6, <1>7

(* What is kept whatever is said or looked at, except what is known of files. *)
LEMMA TalkStep ==
  ASSUME IInv, Talk
  PROVE  /\ TalkKeeps /\ unseen' \subseteq unseen
         /\ TypeOK' /\ MarksAreOld' /\ Stages' /\ CandidatesMatch' /\ RowsOfDeleted'
<1>1. TalkKeeps /\ Stages' /\ unseen' \subseteq unseen
  BY ShowKeeps, AnswersKeep, LooksKeep DEF Talk
<1>2. TypeOK'
  BY <1>1 DEF TalkKeeps, IInv, TypeOK
<1>3. MarksAreOld'
  BY <1>1 DEF TalkKeeps, IInv, MarksAreOld
<1>4. CandidatesMatch' /\ RowsOfDeleted'
  BY <1>1 DEF TalkKeeps, IInv, CandidatesMatch, RowsOfDeleted
<1> QED BY <1>1, <1>2, <1>3, <1>4


-----------------------------------------------------------------------------
(* What a batch knows of the files it looked at. *)

(* It stays true while the plan, the group, the rows and the files stay. *)
LEMMA GroupFrame ==
  ASSUME UNCHANGED <<files, rows, candidates>>,
         op'.plan = op.plan, op'.selected = op.selected, op'.group = op.group
  PROVE  /\ Selected' = Selected
         /\ \A c \in Bytes \cup {"none"} : Copies(c)' = Copies(c) /\ (Reviewed(c)' <=> Reviewed(c))
         /\ Reviewed(op.group)' <=> Reviewed(op.group)
         /\ \A p \in Paths : /\ HashedAgain(p)' = HashedAgain(p)
                             /\ StillAsPlanned(p)' <=> StillAsPlanned(p)
                             /\ Known(p)' <=> Known(p)
<1>1. \A c : Copies(c)' = Copies(c)
  BY SameCopies
<1>2. Copies(op.group)' = Copies(op.group)
  BY <1>1, Zenon
<1>3. \A p \in Paths : Exists(p)' <=> Exists(p)
  BY DEF Exists
<1> QED BY <1>1, <1>2, <1>3
     DEF Selected, HashedAgain, Keepers, Reviewed, StillAsPlanned, Known


LEMMA TalkLooks ==
  ASSUME IInv, Talk
  PROVE  LooksHold'
<1>1. /\ TalkKeeps /\ unseen' \subseteq unseen /\ Stages'
      /\ op \in Operations /\ op.todo \subseteq Paths /\ op.group \in Bytes \cup {"none"}
      /\ op.groups \subseteq Bytes
  BY TalkStep DEF IInv, TypeOK, Operations
<1>2. UNCHANGED <<files, rows, candidates>>
  BY <1>1 DEF TalkKeeps
<1>3. ASSUME op'.kind # "duplicates", op'.stage # "delete" PROVE LooksHold'
  BY <1>1, <1>3 DEF LooksHold, Stages
<1>4. ASSUME op'.kind = "duplicates", op'.stage = "group", op.kind = "duplicates",
             op'.groups = op.groups,
             op'.plan = op.plan, op'.selected = op.selected, op'.group = op.group
      PROVE  LooksHold'
  BY <1>1, <1>2, <1>4, GroupFrame DEF IInv, LooksHold
<1>5. ASSUME LeaveGroup, op.kind = "duplicates" PROVE LooksHold'
  <2>1. /\ op'.kind = "duplicates" /\ op'.stage = "group" /\ op'.groups = op.groups
        /\ op'.plan = op.plan /\ op'.selected = op.selected /\ op'.group = op.group
    BY <1>1, <1>5 DEF LeaveGroup, Operations
  <2> QED BY <1>4, <1>5, <2>1
<1>6. CASE ShowMassRemove
  BY <1>3, <1>6 DEF ShowMassRemove, NoOp
<1>7. ASSUME NEW selected \in SUBSET Audited, ShowDuplicates(selected) PROVE LooksHold'
  <2> DEFINE groups == {c \in Groups : Copies(c) \cap selected # {}}
             there == {q \in Paths : Exists(q)}
  <2>1. /\ op'.kind = "duplicates" /\ op'.stage = "confirm" /\ op'.groups = groups
        /\ op'.selected = selected /\ DOMAIN op'.plan = there
    BY <1>7 DEF ShowDuplicates, NoOp
  <2>2. ASSUME NEW c \in groups PROVE Reviewed(c)'
    <3>1. Copies(c) \subseteq there /\ Copies(c) \ selected # {}
      BY <1>1, <1>7, CopiesFit DEF ShowDuplicates, IInv
    <3>2. Copies(c)' = Copies(c)
      BY <1>2, SameCopies
    <3> QED BY <2>1, <3>1, <3>2 DEF Reviewed
  <2> QED BY <2>1, <2>2 DEF LooksHold
<1>8. CASE EndGroup
  BY <1>5, <1>8 DEF EndGroup
<1>9. ASSUME NEW yes \in BOOLEAN, ClosePreview(yes) \/ AnswerMassRemove(yes) PROVE LooksHold'
  <2>1. \/ op' = NoOp
        \/ /\ op.kind = "mass"
           /\ \E stage \in {"confirm", "confirm all", "check"} : op' = [op EXCEPT !.stage = stage]
    BY <1>9 DEF ClosePreview, AnswerMassRemove
  <2>2. CASE op' = NoOp
    BY <1>3, <2>2 DEF NoOp
  <2>3. CASE op' # NoOp
    <3>1. PICK stage \in {"confirm", "confirm all", "check"} : op' = [op EXCEPT !.stage = stage]
      BY <2>1, <2>3
    <3>2. op'.kind = op.kind /\ op'.stage = stage
      BY <1>1, <3>1 DEF Operations
    <3> QED BY <1>3, <2>1, <2>3, <3>2
  <2> QED BY <2>2, <2>3
<1>10. ASSUME NEW yes \in BOOLEAN, AnswerDuplicates(yes) PROVE LooksHold'
  <2>1. CASE yes
    BY <1>1, <1>4, <1>10, <2>1 DEF AnswerDuplicates, Operations
  <2>2. CASE ~yes
    BY <1>3, <1>10, <2>2 DEF AnswerDuplicates, NoOp
  <2> QED BY <2>1, <2>2
<1>11. ASSUME NEW c \in Bytes, StartGroup(c) PROVE LooksHold'
  <2>1. /\ op.kind = "duplicates" /\ c \in op.groups
        /\ op'.kind = "duplicates" /\ op'.stage = "preflight" /\ op'.group = c
        /\ op'.groups \subseteq op.groups /\ op'.plan = op.plan /\ op'.selected = op.selected
    BY <1>1, <1>11 DEF StartGroup, Operations
  <2>2. \A d \in op.groups : Reviewed(d)'
    <3>1. ASSUME NEW d \in op.groups PROVE Reviewed(d)'
      <4>1. Copies(d)' = Copies(d)
        BY <1>2, SameCopies
      <4> QED BY <2>1, <4>1 DEF IInv, LooksHold, Reviewed
    <3> QED BY <3>1
  <2> QED BY <2>1, <2>2 DEF LooksHold
<1>12. ASSUME NEW i \in Audited, AskRemove(i) PROVE LooksHold'
  BY <1>3, <1>12 DEF AskRemove, NoOp
<1>13. ASSUME NEW p \in op.todo, CheckNext(p) PROVE LooksHold'
  <2>1. op.kind = "mass" /\ op.stage = "check"
    BY <1>13 DEF CheckNext
  <2>2. CASE StillAsPlanned(p)
    <3>1. /\ op'.kind = "mass" /\ op'.stage = "delete" /\ op'.file = p /\ op'.plan = op.plan
          /\ op'.selected = op.selected /\ op'.group = op.group
      BY <1>1, <1>13, <2>1, <2>2 DEF CheckNext, Operations
    <3>2. StillAsPlanned(p)'
      BY <1>1, <1>2, <2>2, <3>1, GroupFrame
    <3> QED BY <1>1, <3>1, <3>2 DEF LooksHold, Seen
  <2>3. CASE ~StillAsPlanned(p)
    BY <1>1, <1>3, <1>13, <2>1, <2>3 DEF CheckNext, Operations
  <2> QED BY <2>2, <2>3
<1>14. ASSUME NEW p \in op.todo, Preflight(p) PROVE LooksHold'
  <2>1. op.kind = "duplicates" /\ op.stage = "preflight"
    BY <1>14 DEF Preflight
  <2>2. CASE LeaveGroup
    BY <1>5, <2>1, <2>2
  <2>3. CASE \E stage \in {"preflight", "pick"} :
               op' = [op EXCEPT !.todo = @ \ {p}, !.stage = stage]
    <3>1. /\ op'.kind = "duplicates" /\ op'.stage \in {"preflight", "pick"}
          /\ op'.groups = op.groups /\ op'.plan = op.plan /\ op'.selected = op.selected
          /\ op'.group = op.group
      BY <1>1, <2>1, <2>3 DEF Operations
    <3> QED BY <1>1, <1>2, <2>1, <3>1, GroupFrame DEF IInv, LooksHold
  <2> QED BY <1>14, <2>1, <2>2, <2>3 DEF Preflight
<1>15. ASSUME NEW p \in Paths, PickFile(p) PROVE LooksHold'
  <2>1. /\ op.kind = "duplicates" /\ op.stage = "pick" /\ p \in Selected
        /\ op' = [op EXCEPT !.stage = "hash", !.file = p, !.todo = HashedAgain(p)]
    BY <1>15 DEF PickFile
  <2>2. /\ op'.kind = "duplicates" /\ op'.stage = "hash" /\ op'.file = p
        /\ op'.todo = HashedAgain(p) /\ op'.groups = op.groups /\ op'.plan = op.plan
        /\ op'.selected = op.selected /\ op'.group = op.group
    BY <1>1, <2>1 DEF Operations
  <2>3. HashedAgain(p)' = HashedAgain(p) /\ Selected' = Selected
    BY <1>2, <2>2, GroupFrame
  <2> QED BY <1>1, <1>2, <2>1, <2>2, <2>3, GroupFrame DEF IInv, LooksHold
<1>16. ASSUME NEW p \in op.todo, HashAgain(p) PROVE LooksHold'
  <2>1. /\ op.stage = "hash" /\ op.kind = "duplicates" /\ op.file \in Selected
        /\ op.file \in Paths /\ HashedAgain(op.file) \subseteq Paths
    BY <1>16, CopiesFit DEF HashAgain, IInv, Stages, LooksHold, Selected, HashedAgain, Keepers
  <2>2. CASE LeaveGroup
    BY <1>5, <2>1, <2>2
  <2>3. CASE ~LeaveGroup
    <3>1. Revalidated(p) /\ files[p].is = op.group
      BY <1>16, <2>3 DEF HashAgain, Revalidated
    <3>2. op' = IF op.todo = {p} THEN [op EXCEPT !.stage = "look", !.todo = HashedAgain(op.file)]
                ELSE [op EXCEPT !.todo = @ \ {p}]
      BY <1>16, <2>3 DEF HashAgain
    <3>3. /\ op'.kind = "duplicates" /\ op'.file = op.file /\ op'.groups = op.groups
          /\ op'.plan = op.plan /\ op'.selected = op.selected /\ op'.group = op.group
          /\ \/ op'.stage = "look" /\ op.todo = {p} /\ op'.todo = HashedAgain(op.file)
             \/ op'.stage = "hash" /\ op'.todo = op.todo \ {p}
      BY <1>1, <2>1, <3>2 DEF Operations
    <3>4. Selected' = Selected /\ HashedAgain(op.file)' = HashedAgain(op.file)
      <4>1. \A q \in Paths : HashedAgain(q)' = HashedAgain(q)
        BY <1>2, <3>3, GroupFrame
      <4>2. Selected' = Selected
        BY <1>2, <3>3, GroupFrame
      <4> QED BY <2>1, <3>3, <4>1, <4>2
    <3>5. \A q \in HashedAgain(op.file) \ (op.todo \ {p}) : Known(q)'
      <4>1. \A q \in HashedAgain(op.file) \ op.todo : Known(q)
        BY <2>1 DEF IInv, LooksHold
      <4>2. Known(p)
        BY <3>1 DEF Known
      <4> QED BY <1>2, <2>1, <3>3, <4>1, <4>2, GroupFrame
    <3>6. Reviewed(op.group)' /\ \A c \in op.groups : Reviewed(c)'
      BY <1>1, <1>2, <2>1, <3>3, GroupFrame DEF IInv, LooksHold
    <3> QED BY <2>1, <3>3, <3>4, <3>5, <3>6 DEF LooksHold
  <2> QED BY <2>2, <2>3
<1>17. ASSUME NEW p \in op.todo, LookAgain(p) PROVE LooksHold'
  <2>1. /\ op.stage = "look" /\ op.kind = "duplicates" /\ op.file \in Selected
        /\ op.file \in Paths /\ HashedAgain(op.file) \subseteq Paths
    BY <1>17, CopiesFit DEF LookAgain, IInv, Stages, LooksHold, Selected, HashedAgain, Keepers
  <2>2. CASE LeaveGroup
    BY <1>5, <2>1, <2>2
  <2>3. CASE ~LeaveGroup
    <3>1. StillAsPlanned(p)
      BY <1>17, <2>3 DEF LookAgain
    <3>2. op' = [op EXCEPT !.todo = @ \ {p}, !.stage = IF op.todo = {p} THEN "unlink" ELSE @]
          /\ unseen' = unseen \ {p}
      BY <1>17, <2>3 DEF LookAgain, Look
    <3>3. /\ op'.kind = "duplicates" /\ op'.file = op.file /\ op'.groups = op.groups
          /\ op'.plan = op.plan /\ op'.selected = op.selected /\ op'.group = op.group
          /\ \/ op'.stage = "unlink" /\ op.todo = {p}
             \/ op'.stage = "look" /\ op'.todo = op.todo \ {p}
      BY <1>1, <2>1, <3>2 DEF Operations
    <3>4. Selected' = Selected /\ HashedAgain(op.file)' = HashedAgain(op.file)
      <4>1. \A q \in Paths : HashedAgain(q)' = HashedAgain(q)
        BY <1>2, <3>3, GroupFrame
      <4>2. Selected' = Selected
        BY <1>2, <3>3, GroupFrame
      <4> QED BY <2>1, <3>3, <4>1, <4>2
    <3>5. \A q \in HashedAgain(op.file) : Known(q)'
      <4>1. \A q \in HashedAgain(op.file) : Known(q)
        BY <2>1 DEF IInv, LooksHold
      <4> QED BY <1>2, <2>1, <3>3, <4>1, GroupFrame
    <3>6. \A q \in HashedAgain(op.file) \ (op.todo \ {p}) : Seen(q)'
      <4>1. ASSUME NEW q \in HashedAgain(op.file) \ (op.todo \ {p}) PROVE Seen(q)'
        <5>1. StillAsPlanned(q)' <=> StillAsPlanned(q)
          BY <1>2, <2>1, <3>3, GroupFrame
        <5>2. q # p => Seen(q)
          BY <2>1 DEF IInv, LooksHold
        <5> QED BY <3>1, <3>2, <5>1, <5>2 DEF Seen
      <4> QED BY <4>1
    <3>7. Reviewed(op.group)' /\ \A c \in op.groups : Reviewed(c)'
      BY <1>1, <1>2, <2>1, <3>3, GroupFrame DEF IInv, LooksHold
    <3> QED BY <2>1, <3>3, <3>4, <3>5, <3>6, <3>7 DEF LooksHold
  <2> QED BY <2>2, <2>3
<1> QED BY <1>6, <1>7, <1>8, <1>9, <1>10, <1>11, <1>12, <1>13, <1>14, <1>15, <1>16, <1>17 DEF Talk


-----------------------------------------------------------------------------
(* Deletions. *)

(* A group stays reviewed while rows, candidates, plan and selection stay. *)
LEMMA ReviewStays ==
  ASSUME UNCHANGED <<rows, candidates>>, op'.plan = op.plan, op'.selected = op.selected,
         NEW c \in Bytes \cup {"none"}, Reviewed(c)
  PROVE  Reviewed(c)'
<1>1. Copies(c)' = Copies(c)
  BY SameCopies
<1> QED BY <1>1 DEF Reviewed

LEMMA DeletionStep ==
  ASSUME IInv, NEW works \in BOOLEAN, DeleteNext(works) \/ DeleteDuplicate(works)
  PROVE  IInv' /\ ReviewedDeletion
<1> DEFINE p == op.file
<1>1. /\ p \in Paths /\ Delete(p, works) /\ UNCHANGED <<touches, candidates, rows, unseen>>
      /\ op \in Operations /\ op.group \in Bytes \cup {"none"} /\ op.groups \subseteq Bytes
  BY DEF DeleteNext, DeleteDuplicate, IInv, LooksHold, Selected, TypeOK, Operations
<1>2. /\ failures' \in 0..MaxFailures
      /\ \/ files' = files /\ ours' = ours
         \/ /\ Exists(p) /\ files' = [files EXCEPT ![p] = Absent] /\ files'[p] # files[p]
            /\ ours' = ours \cup RowsAt(p)
  BY <1>1, DeleteEffect DEF IInv
<1>3. /\ op'.plan = op.plan /\ op'.selected = op.selected /\ op'.groups = op.groups
      /\ op'.group = op.group /\ op'.kind = op.kind /\ op' \in Operations
      /\ op'.removed = IF files'[p] # files[p] THEN op.removed \cup {p} ELSE op.removed
      /\ \/ op.kind = "mass" /\ op'.stage = "check"
         \/ op.kind = "duplicates" /\ op.stage = "unlink" /\ op'.stage \in {"pick", "group"}
  <2>1. CASE DeleteNext(works)
    <3>1. op' = [op EXCEPT !.todo = @ \ {p}, !.stage = "check", !.file = Gone,
                   !.removed = IF files'[p] # files[p] THEN @ \cup {p} ELSE @]
          /\ op.kind = "mass"
      BY <2>1 DEF DeleteNext
    <3> QED BY <1>1, <3>1 DEF Operations
  <2>2. CASE DeleteDuplicate(works)
    <3>1. op.stage = "unlink" /\ op.kind = "duplicates"
      BY <2>2 DEF DeleteDuplicate, IInv, Stages
    <3>2. CASE files'[p] # files[p]
      <4>1. op' = [op EXCEPT !.stage = "pick", !.removed = @ \cup {p}, !.file = Gone]
        BY <2>2, <3>2 DEF DeleteDuplicate
      <4> QED BY <1>1, <3>1, <3>2, <4>1 DEF Operations
    <3>3. CASE files'[p] = files[p]
      <4>1. op' = [op EXCEPT !.stage = "group", !.file = Gone]
        BY <2>2, <3>3 DEF DeleteDuplicate
      <4> QED BY <1>1, <3>1, <3>3, <4>1 DEF Operations
    <3> QED BY <3>2, <3>3
  <2> QED BY <2>1, <2>2
<1>4. TypeOK'
  <2>1. files' \in [Paths -> [is : Bytes \cup {"none"}, mark : Marks]]
    BY <1>1, <1>2, AbsentFits DEF IInv, TypeOK
  <2>2. ours' \subseteq Audited
    BY <1>2 DEF IInv, TypeOK, RowsAt
  <2> QED BY <1>1, <1>2, <1>3, <2>1, <2>2 DEF IInv, TypeOK
<1>5. MarksAreOld'
  <2>1. \A q \in Paths : files'[q].mark <= touches
    BY <1>1, <1>2, AbsentFits DEF IInv, TypeOK, MarksAreOld
  <2> QED BY <1>1, <1>3, <2>1 DEF IInv, MarksAreOld
<1>6. Stages'
  BY <1>3 DEF Stages
<1>7. CandidatesMatch'
  BY <1>1 DEF IInv, CandidatesMatch
<1>8. RowsOfDeleted'
  BY <1>1, <1>2, <1>3 DEF IInv, RowsOfDeleted, RowsAt
<1>9. LooksHold'
  <2>1. \A c \in op.groups : Reviewed(c) => Reviewed(c)'
    BY <1>1, <1>3, ReviewStays
  <2>2. op.kind = "duplicates" => Reviewed(op.group)'
    <3>1. op.kind = "duplicates" => Reviewed(op.group)
      BY <1>3 DEF IInv, LooksHold
    <3>2. Copies(op.group)' = Copies(op.group)
      BY <1>1, <1>3, SameCopies, Zenon
    <3> QED BY <1>3, <3>1, <3>2 DEF Reviewed
  <2> QED BY <1>3, <2>1, <2>2 DEF IInv, LooksHold
<1>10. ReviewedDeletion
  <2>1. op'.removed \ op.removed \subseteq {p}
    BY <1>3
  <2>2. Seen(p)
    <3>1. op.kind = "mass" => op.stage = "delete"
      BY DEF DeleteNext, DeleteDuplicate, IInv, Stages
    <3> QED BY <1>3, <3>1 DEF IInv, LooksHold, HashedAgain
  <2>3. ASSUME op.kind = "duplicates"
        PROVE  /\ Known(p)
               /\ \E k \in Keepers : Known(k) /\ Seen(k)
    <3>1. Reviewed(op.group) /\ \A q \in HashedAgain(p) : Known(q) /\ Seen(q)
      BY <1>3, <2>3 DEF IInv, LooksHold
    <3> QED BY <3>1 DEF Reviewed, HashedAgain, Keepers
  <2> QED BY <2>1, <2>2, <2>3
       DEF ReviewedDeletion, OnlyReviewedFileGoes, ACopyStays, Seen, Known, StillAsPlanned
<1> QED BY <1>4, <1>5, <1>6, <1>7, <1>8, <1>9, <1>10 DEF IInv

-----------------------------------------------------------------------------
(* Rows. *)

(* Nothing is under way: what a batch knows is nothing, and it removed nothing. *)
LEMMA NothingUnderWay ==
  op = NoOp => LooksHold /\ Stages /\ op.removed = {} /\ op \in Operations /\ DOMAIN op.plan = {}
  BY NoOpFits DEF NoOp, LooksHold, Stages

LEMMA SyncStep ==
  ASSUME IInv, EndMassRemove \/ EndDuplicates
  PROVE  IInv' /\ op'.removed = {}
<1>1. op' = NoOp /\ SyncRemoved /\ UNCHANGED <<files, touches, failures, unseen, ours>>
  BY DEF EndMassRemove, EndDuplicates
<1>2. LooksHold' /\ Stages' /\ op'.removed = {} /\ op' \in Operations /\ DOMAIN op'.plan = {}
  BY <1>1, NothingUnderWay, NoOpFits DEF NoOp, LooksHold, Stages
<1>3. /\ \A i \in Audited : candidates'[i] = IF candidates[i] \in op.removed THEN Gone ELSE candidates[i]
      /\ \A i \in Audited : rows'[i].at = IF rows[i].at \in op.removed THEN Gone ELSE rows[i].at
      /\ candidates' \in [Audited -> Paths \cup {Gone}]
      /\ rows' \in [Audited -> [at : Paths \cup {Gone}, sha : Bytes \cup {"none"}, target : BOOLEAN]]
  BY <1>1 DEF SyncRemoved, IInv, TypeOK
<1>4. op.removed \subseteq Paths /\ Gone \notin op.removed
  BY ConstantsAssumption DEF IInv, TypeOK, Operations, Gone
<1>5. TypeOK'
  BY <1>1, <1>2, <1>3 DEF IInv, TypeOK
<1>6. MarksAreOld'
  BY <1>1, <1>2 DEF IInv, MarksAreOld
<1>7. CandidatesMatch'
  <2>1. PICK f \in Bijections : \A i \in Audited : candidates[i] = rows[f[i]].at
    BY DEF IInv, CandidatesMatch
  <2>2. \A i \in Audited : f[i] \in Audited
    BY <2>1 DEF Bijections
  <2>3. ASSUME NEW i \in Audited PROVE candidates'[i] = rows'[f[i]].at
    <3>1. candidates'[i] = IF candidates[i] \in op.removed THEN Gone ELSE candidates[i]
      BY <1>3
    <3>2. rows'[f[i]].at = IF rows[f[i]].at \in op.removed THEN Gone ELSE rows[f[i]].at
      BY <1>3, <2>2
    <3> QED BY <2>1, <3>1, <3>2
  <2>4. f \in Bijections'
    BY <2>1 DEF Bijections
  <2> QED BY <2>3, <2>4 DEF CandidatesMatch
<1>8. RowsOfDeleted'
  BY <1>1, <1>2, <1>3, <1>4 DEF IInv, RowsOfDeleted
<1> QED BY <1>2, <1>5, <1>6, <1>7, <1>8 DEF IInv

(* A row and a candidate of the same path that go to the same place. *)
LEMMA MovedTogether ==
  ASSUME TypeOK, CandidatesMatch, NEW i \in Audited, NEW k \in Audited,
         rows[i].at = candidates[k], NEW p \in Paths \cup {Gone},
         rows' = [rows EXCEPT ![i].at = p], candidates' = [candidates EXCEPT ![k] = p]
  PROVE  CandidatesMatch'
<1>1. PICK f \in Bijections : \A j \in Audited : candidates[j] = rows[f[j]].at
  BY DEF CandidatesMatch
<1>2. f \in [Audited -> Audited] /\ \A m, n \in Audited : f[m] = f[n] => m = n
  BY <1>1 DEF Bijections
<1>3. PICK k2 \in Audited : f[k2] = i
  BY <1>1 DEF Bijections
<1> DEFINE g == [j \in Audited |-> IF j = k THEN i ELSE IF j = k2 THEN f[k] ELSE f[j]]
<1>4. g \in [Audited -> Audited]
  BY <1>2
<1>5. \A m, n \in Audited : g[m] = g[n] => m = n
  BY <1>2, <1>3
<1>6. ASSUME NEW j \in Audited PROVE \E m \in Audited : g[m] = j
  <2>1. PICK m \in Audited : f[m] = j
    BY <1>1 DEF Bijections
  <2>2. CASE m = k /\ k # k2
    BY <2>1, <2>2
  <2>3. CASE m = k2
    BY <1>3, <2>1, <2>3
  <2>4. CASE m # k /\ m # k2
    BY <2>1, <2>4
  <2> QED BY <2>2, <2>3, <2>4
<1>7. ASSUME NEW j \in Audited PROVE candidates'[j] = rows'[g[j]].at
  <2>1. \A m \in Audited : candidates'[m] = IF m = k THEN p ELSE candidates[m]
    BY DEF TypeOK
  <2>2. \A m \in Audited : rows'[m].at = IF m = i THEN p ELSE rows[m].at
    BY DEF TypeOK
  <2>3. CASE j = k
    BY <2>1, <2>2, <2>3
  <2>4. CASE j # k /\ j = k2
    <3>1. g[j] = f[k] /\ f[k] # i /\ f[k] \in Audited
      BY <1>2, <1>3, <2>4
    <3>2. candidates'[j] = candidates[j] /\ candidates[j] = rows[i].at
      BY <1>1, <1>3, <2>1, <2>4
    <3> HIDE DEF g
    <3> QED BY <1>1, <2>2, <3>1, <3>2
  <2>5. CASE j # k /\ j # k2
    <3>1. g[j] = f[j] /\ f[j] # i /\ f[j] \in Audited
      BY <1>2, <1>3, <2>5
    <3> HIDE DEF g
    <3> QED BY <1>1, <2>1, <2>2, <2>5, <3>1
  <2> QED BY <2>3, <2>4, <2>5
<1> HIDE DEF g
<1>8. g \in Bijections
  BY <1>4, <1>5, <1>6 DEF Bijections
<1> QED BY <1>7, <1>8 DEF CandidatesMatch

LEMMA RowStep ==
  ASSUME IInv,
         \/ \E yes, works \in BOOLEAN : AnswerRemove(yes, works)
         \/ \E i \in Audited, p \in Paths : RenameRow(i, p)
  PROVE  IInv' /\ op'.removed = {}
<1>1. CASE \E yes, works \in BOOLEAN : AnswerRemove(yes, works)
  <2>1. PICK yes \in BOOLEAN, works \in BOOLEAN : AnswerRemove(yes, works)
    BY <1>1
  <2>2. op.kind = "one" /\ op.file \in Paths /\ op.removed = {} /\ op' = NoOp
        /\ UNCHANGED <<touches, unseen>>
    BY <2>1 DEF AnswerRemove, IInv, Stages
  <2>3. LooksHold' /\ Stages' /\ op'.removed = {} /\ op' \in Operations /\ DOMAIN op'.plan = {}
    BY <2>2, NoOpFits DEF NoOp, LooksHold, Stages
  <2>4. CASE ~yes \/ ~Exists(op.file) \/ (~works /\ failures < MaxFailures)
    <3>1. UNCHANGED <<files, candidates, rows, ours>>
          /\ failures' = IF yes /\ Exists(op.file) THEN failures + 1 ELSE failures
      BY <2>1, <2>4 DEF AnswerRemove
    <3>2. failures' \in 0..MaxFailures
      BY <2>4, <3>1, ConstantsAssumption DEF IInv, TypeOK
    <3>3. TypeOK'
      BY <2>2, <2>3, <3>1, <3>2 DEF IInv, TypeOK
    <3> QED BY <2>2, <2>3, <3>1, <3>3 DEF IInv, MarksAreOld, CandidatesMatch, RowsOfDeleted
  <2>5. CASE ~(~yes \/ ~Exists(op.file) \/ (~works /\ failures < MaxFailures))
    <3>1. /\ files' = [files EXCEPT ![op.file] = Absent] /\ failures' = failures
          /\ \E i \in RowsAt(op.file) : rows' = [rows EXCEPT ![i].at = Gone] /\ ours' = ours \cup {i}
          /\ \E k \in {j \in Audited : candidates[j] = op.file} :
               candidates' = [candidates EXCEPT ![k] = Gone]
      BY <2>1, <2>5 DEF AnswerRemove
    <3>2. PICK i \in RowsAt(op.file) : rows' = [rows EXCEPT ![i].at = Gone] /\ ours' = ours \cup {i}
      BY <3>1
    <3>3. PICK k \in Audited : candidates[k] = op.file /\ candidates' = [candidates EXCEPT ![k] = Gone]
      BY <3>1
    <3>4. i \in Audited /\ rows[i].at = candidates[k]
      BY <3>2, <3>3 DEF RowsAt
    <3>5. CandidatesMatch'
      BY <3>2, <3>3, <3>4, MovedTogether DEF IInv
    <3>6. TypeOK'
      <4>1. files' \in [Paths -> [is : Bytes \cup {"none"}, mark : Marks]]
        BY <2>2, <3>1, AbsentFits DEF IInv, TypeOK
      <4>2. rows' \in [Audited -> [at : Paths \cup {Gone}, sha : Bytes \cup {"none"}, target : BOOLEAN]]
        BY <3>2, <3>4 DEF IInv, TypeOK
      <4>3. candidates' \in [Audited -> Paths \cup {Gone}]
        BY <3>3 DEF IInv, TypeOK
      <4> QED BY <2>2, <2>3, <3>1, <3>2, <3>4, <4>1, <4>2, <4>3 DEF IInv, TypeOK
    <3>7. MarksAreOld'
      BY <2>2, <2>3, <3>1, AbsentFits DEF IInv, TypeOK, MarksAreOld
    <3>8. RowsOfDeleted'
      <4>1. \A j \in Audited : rows'[j].at = IF j = i THEN Gone ELSE rows[j].at
        BY <3>2, <3>4 DEF IInv, TypeOK
      <4> QED BY <2>2, <2>3, <3>2, <3>4, <4>1 DEF IInv, RowsOfDeleted
    <3> QED BY <2>3, <3>5, <3>6, <3>7, <3>8 DEF IInv
  <2> QED BY <2>4, <2>5
<1>2. CASE \E i \in Audited, p \in Paths : RenameRow(i, p)
  <2>1. PICK i \in Audited, p \in Paths : RenameRow(i, p)
    BY <1>2
  <2> DEFINE from == rows[i].at
  <2>2. /\ op = NoOp /\ from \in Paths
        /\ files' = [files EXCEPT ![from] = Absent, ![p] = files[from]]
        /\ UNCHANGED <<touches, failures, op, unseen, ours>>
    BY <2>1 DEF RenameRow, MutationAvailable, IInv, TypeOK
  <2>3. LooksHold' /\ Stages' /\ op'.removed = {} /\ op' \in Operations /\ DOMAIN op'.plan = {}
        /\ op.removed = {}
    BY <2>2, NoOpFits DEF NoOp, LooksHold, Stages
  <2>4. PICK j \in Audited : rows[j].at = from /\ rows' = [rows EXCEPT ![j].at = p]
    BY <2>1 DEF RenameRow, RowsAt
  <2>5. PICK k \in Audited : candidates[k] = from /\ candidates' = [candidates EXCEPT ![k] = p]
    BY <2>1 DEF RenameRow
  <2> HIDE DEF from
  <2>6. CandidatesMatch'
    BY <2>4, <2>5, MovedTogether DEF IInv
  <2>7. files' \in [Paths -> [is : Bytes \cup {"none"}, mark : Marks]]
        /\ \A q \in Paths : files'[q].mark <= touches
    <3>1. \A q \in Paths : files'[q] = IF q = p THEN files[from] ELSE IF q = from THEN Absent ELSE files[q]
      BY <2>2 DEF IInv, TypeOK
    <3>2. \A q \in Paths : files'[q] \in [is : Bytes \cup {"none"}, mark : Marks]
      BY <2>2, <3>1, AbsentFits DEF IInv, TypeOK
    <3>3. \A q \in Paths : files'[q].mark <= touches
      BY <2>2, <3>1, AbsentFits DEF IInv, TypeOK, MarksAreOld
    <3> QED BY <2>2, <3>2, <3>3 DEF IInv, TypeOK
  <2>8. TypeOK'
    <3>1. rows' \in [Audited -> [at : Paths \cup {Gone}, sha : Bytes \cup {"none"}, target : BOOLEAN]]
      BY <2>4 DEF IInv, TypeOK
    <3>2. candidates' \in [Audited -> Paths \cup {Gone}]
      BY <2>5 DEF IInv, TypeOK
    <3> QED BY <2>2, <2>3, <2>7, <3>1, <3>2 DEF IInv, TypeOK
  <2>9. MarksAreOld'
    BY <2>2, <2>3, <2>7 DEF MarksAreOld
  <2>10. RowsOfDeleted'
    <3>1. \A m \in Audited : rows'[m].at = IF m = j THEN p ELSE rows[m].at
      BY <2>4 DEF IInv, TypeOK
    <3>2. p # Gone /\ from # Gone
      BY <2>2, ConstantsAssumption DEF Gone
    <3> QED BY <2>2, <2>3, <2>4, <3>1, <3>2 DEF IInv, RowsOfDeleted
  <2> QED BY <2>3, <2>6, <2>8, <2>9, <2>10 DEF IInv
<1> QED BY <1>1, <1>2

-----------------------------------------------------------------------------
(* Other programs: what they change is unseen, and its mark is new. *)

LEMMA TouchStep ==
  ASSUME IInv, NEW p \in Paths, NEW content \in Bytes \cup {"none"}, Touch(p, content)
  PROVE  IInv'
<1>1. /\ touches < MaxTouches /\ touches' = touches + 1
      /\ files' = [files EXCEPT ![p] = IF content = "none" THEN Absent
                                       ELSE [is |-> content, mark |-> touches + 1]]
      /\ unseen' = IF op = NoOp THEN {} ELSE unseen \cup {p}
      /\ UNCHANGED <<failures, candidates, rows, op, ours>>
  BY DEF Touch
<1>2. touches \in Nat /\ MaxTouches \in Nat /\ touches' \in 0..MaxTouches /\ touches' \in Marks
  BY <1>1, ConstantsAssumption DEF IInv, TypeOK, Marks
<1>3. /\ \A q \in Paths : q # p => files'[q] = files[q]
      /\ files'[p] = Absent \/ files'[p] = [is |-> content, mark |-> touches + 1]
      /\ DOMAIN files' = Paths /\ files' = [q \in Paths |-> files'[q]]
  BY <1>1 DEF IInv, TypeOK
<1>4. TypeOK'
  <2>1. \A q \in Paths : files'[q] \in [is : Bytes \cup {"none"}, mark : Marks]
    BY <1>1, <1>2, <1>3, AbsentFits DEF IInv, TypeOK
  <2>2. files' \in [Paths -> [is : Bytes \cup {"none"}, mark : Marks]]
    BY <1>3, <2>1
  <2> QED BY <1>1, <1>2, <2>2 DEF IInv, TypeOK
<1>5. MarksAreOld'
  <2>1. \A q \in Paths : files'[q].mark <= touches'
    BY <1>1, <1>2, <1>3, AbsentFits DEF IInv, TypeOK, MarksAreOld, Marks
  <2>2. \A q \in DOMAIN op.plan : op.plan[q] \in Nat
    BY PlanFits DEF IInv, TypeOK, Operations
  <2> QED BY <1>1, <1>2, <2>1, <2>2 DEF IInv, MarksAreOld
<1>6. Stages' /\ CandidatesMatch' /\ RowsOfDeleted'
  BY <1>1 DEF IInv, Stages, CandidatesMatch, RowsOfDeleted
<1>7. Selected' = Selected /\ (\A q : HashedAgain(q)' = HashedAgain(q))
      /\ \A c : (Reviewed(c)' <=> Reviewed(c))
  <2>1. \A c : Copies(c)' = Copies(c)
    BY <1>1, SameCopies
  <2>2. Copies(op.group)' = Copies(op.group)
    BY <1>1, <2>1, Zenon
  <2> QED BY <1>1, <2>1, <2>2 DEF Selected, HashedAgain, Keepers, Reviewed
<1>8. ASSUME op # NoOp, NEW q \in Paths, Seen(q) PROVE Seen(q)'
  BY <1>1, <1>3, <1>8 DEF Seen, StillAsPlanned, Exists
<1>9. ASSUME NEW q \in DOMAIN op.plan, q \in Paths, Known(q) PROVE Known(q)'
  <2>1. op.plan[q] \in Nat /\ op.plan[q] <= touches
    BY PlanFits DEF IInv, TypeOK, Operations, MarksAreOld
  <2>2. CASE q # p
    BY <1>1, <1>3, <1>9, <2>2 DEF Known, StillAsPlanned, Exists
  <2>3. CASE q = p
    <3>1. ASSUME StillAsPlanned(q)' PROVE FALSE
      <4>1. files'[q] # Absent /\ files'[q].mark = op.plan[q]
        BY <1>1, <3>1 DEF StillAsPlanned, Exists
      <4>2. files'[q].mark = touches + 1
        BY <1>3, <2>3, <4>1
      <4> QED BY <1>2, <2>1, <4>1, <4>2
    <3> QED BY <3>1 DEF Known
  <2> QED BY <2>2, <2>3
<1>10. LooksHold'
  <2>1. op.stage = "delete" => op.file \in Paths /\ Seen(op.file)' /\ op # NoOp
    <3>1. op.stage = "delete" => op # NoOp
      BY DEF NoOp
    <3>2. op.stage = "delete" => op.file \in Paths /\ Seen(op.file)
      BY DEF IInv, LooksHold
    <3> QED BY <1>1, <1>8, <3>1, <3>2
  <2>2. ASSUME op.stage \in {"hash", "look", "unlink"}
        PROVE  op # NoOp /\ HashedAgain(op.file) \subseteq DOMAIN op.plan
               /\ HashedAgain(op.file) \subseteq Paths
    <3>1. op.kind = "duplicates"
      BY <2>2 DEF IInv, Stages
    <3>2. op # NoOp
      BY <2>2 DEF NoOp
    <3>3. op.file \in Selected
      BY <2>2 DEF IInv, LooksHold
    <3>4. Reviewed(op.group)
      BY <2>2, <3>1 DEF IInv, LooksHold
    <3>5. Copies(op.group) \subseteq Paths
      BY CopiesFit DEF IInv
    <3> QED BY <3>2, <3>3, <3>4, <3>5 DEF Reviewed, HashedAgain, Keepers, Selected
  <2>3. ASSUME op.stage \in {"hash", "look", "unlink"}, NEW q \in HashedAgain(op.file)
        PROVE  (Known(q) => Known(q)') /\ (Seen(q) => Seen(q)')
    BY <1>8, <1>9, <2>2, <2>3
  <2>4. op'.file = op.file /\ HashedAgain(op.file)' = HashedAgain(op.file)
        /\ (Reviewed(op.group)' <=> Reviewed(op.group)) /\ op' = op
    <3>1. op' = op
      BY <1>1
    <3>2. HashedAgain(op.file)' = HashedAgain(op.file)
      BY <1>7, <3>1, Zenon
    <3>3. Reviewed(op.group)' <=> Reviewed(op.group)
      BY <1>7, <3>1, Zenon
    <3> QED BY <3>1, <3>2, <3>3
  <2>5. (op.kind = "duplicates" =>
           /\ \A c \in op.groups : Reviewed(c)'
           /\ op.stage \in {"preflight", "pick", "hash", "look", "unlink"} => Reviewed(op.group)')
        /\ (op.stage \in {"hash", "look", "unlink"} => op.file \in Selected')
    BY <1>7, <2>4 DEF IInv, LooksHold
  <2>6. op.stage = "hash" => \A q \in HashedAgain(op.file) \ op.todo : Known(q)'
    BY <2>3 DEF IInv, LooksHold
  <2>7. op.stage = "look" => /\ \A q \in HashedAgain(op.file) : Known(q)'
                             /\ \A q \in HashedAgain(op.file) \ op.todo : Seen(q)'
    BY <2>3 DEF IInv, LooksHold
  <2>8. op.stage = "unlink" => \A q \in HashedAgain(op.file) : Known(q)' /\ Seen(q)'
    BY <2>3 DEF IInv, LooksHold
  <2> QED BY <2>1, <2>4, <2>5, <2>6, <2>7, <2>8 DEF LooksHold
<1> QED BY <1>4, <1>5, <1>6, <1>10 DEF IInv

-----------------------------------------------------------------------------
(* The theorems. *)

LEMMA InitInv == Init => IInv
<1> SUFFICES ASSUME Init PROVE IInv
  OBVIOUS
<1>1. op = NoOp /\ unseen = {} /\ ours = {} /\ touches = 0 /\ failures = 0
      /\ candidates = [i \in Audited |-> i]
  BY DEF Init
<1>2. PICK target \in SUBSET Audited :
        rows = [i \in Audited |-> [at |-> i, sha |-> files[i].is, target |-> i \in target]]
  BY DEF Init
<1>3. files \in [Paths -> [is : Bytes \cup {"none"}, mark : Marks]]
      /\ \A p \in Paths : files[p].mark = 0
  BY AbsentFits, ConstantsAssumption DEF Init, Marks
<1>4. \A i \in Audited : rows[i].at = i /\ i \in Paths /\ i # Gone
  BY <1>2, ConstantsAssumption DEF Gone
<1>5. TypeOK
  <2>1. rows \in [Audited -> [at : Paths \cup {Gone}, sha : Bytes \cup {"none"}, target : BOOLEAN]]
    BY <1>2, <1>3, ConstantsAssumption
  <2>2. candidates \in [Audited -> Paths \cup {Gone}]
    BY <1>1, ConstantsAssumption
  <2> QED BY <1>1, <1>3, <2>1, <2>2, NoOpFits, ConstantsAssumption DEF TypeOK
<1>6. LooksHold /\ Stages /\ op.removed = {} /\ DOMAIN op.plan = {}
  BY <1>1, NothingUnderWay
<1>7. MarksAreOld
  BY <1>1, <1>3, <1>6 DEF MarksAreOld
<1>8. CandidatesMatch
  <2> DEFINE f == [i \in Audited |-> i]
  <2>1. f \in Bijections
    BY DEF Bijections
  <2>2. \A i \in Audited : candidates[i] = rows[f[i]].at
    BY <1>1, <1>4
  <2> QED BY <2>1, <2>2 DEF CandidatesMatch
<1>9. RowsOfDeleted
  BY <1>1, <1>4, <1>6 DEF RowsOfDeleted
<1> QED BY <1>5, <1>6, <1>7, <1>8, <1>9 DEF IInv

LEMMA StutterStep ==
  ASSUME IInv, UNCHANGED vars
  PROVE  IInv'
<1>1. /\ files' = files /\ touches' = touches /\ failures' = failures /\ op' = op
      /\ candidates' = candidates /\ rows' = rows /\ unseen' = unseen /\ ours' = ours
  BY DEF vars
<1>2. TypeOK' /\ MarksAreOld' /\ Stages' /\ RowsOfDeleted'
  BY <1>1 DEF IInv, TypeOK, MarksAreOld, Stages, RowsOfDeleted
<1>3. CandidatesMatch'
  BY <1>1 DEF IInv, CandidatesMatch, Bijections
<1>4. \A c : Copies(c)' = Copies(c)
  BY <1>1, SameCopies
<1>5. Copies(op.group)' = Copies(op.group)
  BY <1>1, <1>4, Zenon
<1>6. Selected' = Selected /\ \A q : HashedAgain(q)' = HashedAgain(q)
  BY <1>1, <1>5 DEF Selected, HashedAgain, Keepers
<1>7. \A c : Reviewed(c)' <=> Reviewed(c)
  BY <1>1, <1>4 DEF Reviewed
<1>8. \A q : (Seen(q)' <=> Seen(q)) /\ (Known(q)' <=> Known(q))
  BY <1>1 DEF Seen, Known, StillAsPlanned, Exists
<1>9. HashedAgain(op.file)' = HashedAgain(op.file) /\ (Reviewed(op.group)' <=> Reviewed(op.group))
      /\ (Seen(op.file)' <=> Seen(op.file))
  BY <1>1, <1>6, <1>7, <1>8, Zenon
<1>10. LooksHold'
  BY <1>1, <1>6, <1>7, <1>8, <1>9 DEF IInv, LooksHold
<1> QED BY <1>2, <1>3, <1>10 DEF IInv

(* Only a deletion adds to what a batch removed, and it is a reviewed one. *)
LEMMA Step ==
  ASSUME IInv, [Next]_vars
  PROVE  IInv' /\ (ReviewedDeletion \/ UNCHANGED vars)
<1>1. ASSUME op'.removed = op.removed \/ op'.removed = {} PROVE ReviewedDeletion
  BY <1>1 DEF ReviewedDeletion, OnlyReviewedFileGoes, ACopyStays
<1>2. CASE Talk
  BY <1>1, <1>2, TalkStep, TalkLooks DEF IInv, TalkKeeps
<1>3. CASE \E works \in BOOLEAN : DeleteNext(works) \/ DeleteDuplicate(works)
  BY <1>3, DeletionStep
<1>4. CASE EndMassRemove \/ EndDuplicates
  BY <1>1, <1>4, SyncStep
<1>5. CASE \/ \E yes, works \in BOOLEAN : AnswerRemove(yes, works)
           \/ \E i \in Audited, p \in Paths : RenameRow(i, p)
  BY <1>1, <1>5, RowStep
<1>6. CASE \E p \in Paths, content \in Bytes \cup {"none"} : Touch(p, content)
  <2>1. IInv'
    BY <1>6, TouchStep
  <2>2. op' = op
    BY <1>6 DEF Touch
  <2> QED BY <1>1, <2>1, <2>2
<1>7. CASE UNCHANGED vars
  BY <1>7, StutterStep
<1>8. Next => \/ Talk
              \/ \E works \in BOOLEAN : DeleteNext(works) \/ DeleteDuplicate(works)
              \/ EndMassRemove \/ EndDuplicates
              \/ \E yes, works \in BOOLEAN : AnswerRemove(yes, works)
              \/ \E i \in Audited, p \in Paths : RenameRow(i, p)
              \/ \E p \in Paths, content \in Bytes \cup {"none"} : Touch(p, content)
  BY DEF Next, Talk
<1> QED BY <1>2, <1>3, <1>4, <1>5, <1>6, <1>7, <1>8

LEMMA Invariance == Spec => []IInv
<1>1. IInv /\ [Next]_vars => IInv'
  BY Step
<1> QED BY <1>1, InitInv, PTL DEF Spec

(***************************************************************************)
(* No batch deletes a file the user did not review, and no duplicate goes  *)
(* without a copy that stays, unless another program changed that file     *)
(* after the batch last looked at it.                                      *)
(***************************************************************************)
THEOREM OnlyReviewedFilesGo == Spec => DeletionsAreReviewed
<1>1. IInv /\ [Next]_vars => [ReviewedDeletion]_vars
  BY Step
<1> QED BY <1>1, Invariance, PTL DEF Spec, DeletionsAreReviewed

(***************************************************************************)
(* After every operation, whatever failed and whatever was renamed over    *)
(* vanished files before, the rows whose file this program deleted are     *)
(* gone, no others, and the candidates are those of the rows.              *)
(***************************************************************************)
THEOREM RowsFollow == Spec => []RowsFollowDeletions
<1>1. ASSUME IInv, op = NoOp PROVE PathsOf(candidates) = RowPaths
  <2>1. PICK f \in Bijections : \A i \in Audited : candidates[i] = rows[f[i]].at
    BY <1>1 DEF IInv, CandidatesMatch
  <2>2. \A i \in Audited : f[i] \in Audited
    BY <2>1 DEF Bijections
  <2>3. \A j \in Audited : \E i \in Audited : rows[j].at = candidates[i]
    BY <2>1 DEF Bijections
  <2> QED BY <2>1, <2>2, <2>3 DEF PathsOf, RowPaths
<1>2. ASSUME IInv, op = NoOp PROVE \A i \in Audited : rows[i].at = Gone <=> i \in ours
  BY <1>2, NothingUnderWay DEF IInv, RowsOfDeleted
<1>3. IInv => RowsFollowDeletions
  BY <1>1, <1>2 DEF RowsFollowDeletions
<1> QED BY <1>3, Invariance, PTL
=============================================================================
