------------------------ MODULE AuditLifecycleProofs ------------------------
(***************************************************************************)
(* Proofs about the audits of the window (AuditLifecycle), for any source, *)
(* any number of apps and any bounds: what an abandoned or stopped audit   *)
(* leaves behind never reaches the next one, what a recheck gives back,    *)
(* and that audits without rechecks keep the promise of AuditRuns.         *)
(*                                                                         *)
(* The argument is about the results of an audit on their way to the       *)
(* window.  A worker reports once, so there is at most one result of a     *)
(* session, in the queue or behind its finalization timer (ResultsOnce);   *)
(* a result of the current session that has not arrived means that its     *)
(* audit is still active, and one that waits for its timer that it is      *)
(* being finalized (ResultsAwaited).  With that every finalization that    *)
(* is not stale ends the audit it belongs to, once.                        *)
(***************************************************************************)
EXTENDS AuditLifecycle, FiniteSetTheorems, WellFoundedInduction, SequenceTheorems, TLAPS

-----------------------------------------------------------------------------
(* The inductive invariant. *)

RowSignals == [kind : {"row"}, session : Sessions, app : Apps]

\* The results workers report: their rows are their own, final ones after success.
Results ==
  {r \in [kind : {"done"}, session : Sessions, outcome : {"success", "stopped", "failed"},
          rows : Seq(RowRecords), local : BOOLEAN] :
     \A i \in DOMAIN r.rows :
       r.rows[i].from = r.session /\ (r.outcome = "success" => r.rows[i].final)}

Carried ==
  /\ queue \in Seq(RowSignals \cup Results)
  /\ timers \subseteq Results
  /\ used \in [rechecks : Nat, pauses : Nat]
  /\ \A s \in Sessions : audit[s].outcome \in {"none", "success", "stopped", "failed"}
  /\ \A s \in Sessions : audit[s].step = "decided" => audit[s].outcome # "none"

\* Sessions are used in their order, and what the window did not end has not ended.
Numbered ==
  /\ Active => session \in Sessions /\ ended[session] = "none"
  /\ \A s \in Sessions : s > session => audit[s].step = "none" /\ ended[s] = "none"
  /\ \A s \in stopped : s <= session

IsResult(i) == i \in DOMAIN queue /\ queue[i].kind = "done"

ResultsOnce ==
  /\ \A i, j \in DOMAIN queue :
       IsResult(i) /\ IsResult(j) /\ queue[i].session = queue[j].session => i = j
  /\ \A i \in DOMAIN queue : IsResult(i) =>
       audit[queue[i].session].step = "ended" /\ \A r \in timers : r.session # queue[i].session
  /\ \A r \in timers : audit[r.session].step = "ended"
  /\ \A r, q \in timers : r.session = q.session => r = q

ResultsAwaited ==
  /\ \A i \in DOMAIN queue : IsResult(i) /\ queue[i].session = session => Active
  /\ \A r \in timers : r.session = session => state = "finalizing"
  /\ \A s \in Sessions : s = session /\ audit[s].step \notin {"none", "ended"} => Active

\* Rows are of audits that started; while one is active nothing is exported or saved.
RowsAreOld ==
  /\ \A i \in DOMAIN rows : rows[i].from <= session
  /\ \A i \in DOMAIN base : base[i].from <= session
  /\ Active => incomplete /\ inventory = 0
  /\ Active /\ session \in stopped => requested = "stopped"

\* Until the first recheck, which merges into rows of audits that did not succeed.
UntilRecheck ==
  NoRecheck =>
    /\ ~marked
    /\ \A s \in Sessions : ~audit[s].targeted
    /\ OnlySuccessIsSaved
    /\ FinishedIsExportable

IInv ==
  /\ TypeOK /\ Carried /\ Numbered /\ ResultsOnce /\ ResultsAwaited
  /\ CleanWhenIdle /\ OnlyOwnRows /\ ExportIsFinal
  /\ RowsAreOld /\ InventoryIsCurrent /\ FullStopsAreKept /\ UntilRecheck

-----------------------------------------------------------------------------
(* Lemmas about positions in sequences. *)

LEMMA MaxIsMember ==
  ASSUME NEW n \in Nat, NEW P \in SUBSET (0..n), P # {}
  PROVE  Max(P) \in P
<1> DEFINE R == {ss \in Nat \X Nat : ss[1] < ss[2]}
<1> DEFINE Q == {d \in Nat : n - d \in P}
<1>1. IsWellFoundedOn(R, Nat)
  BY NatLessThanWellFounded DEF OpToRel
<1>2. Q \subseteq Nat /\ Q # {}
  <2>1. PICK x \in P : x \in 0..n OBVIOUS
  <2>2. n - x \in Nat /\ n - (n - x) = x BY <2>1
  <2> QED BY <2>1, <2>2
<1>3. PICK d \in Q : \A e \in Q : ~(<<e, d>> \in R)
  <2> HIDE DEF R, Q
  <2> QED BY <1>1, <1>2, WFMin
<1>4. n - d \in P /\ d \in Nat
  OBVIOUS
<1>5. ASSUME NEW y \in P PROVE n - d >= y
  <2>1. y \in 0..n /\ n - y \in Nat /\ n - (n - y) = y OBVIOUS
  <2>2. n - y \in Q BY <2>1
  <2>3. ~(<<n - y, d>> \in R)
    <3> HIDE DEF R, Q
    <3> QED BY <1>3, <2>2
  <2>4. ~(n - y < d) BY <2>3, <2>1, <1>4
  <2> QED BY <2>1, <2>4, <1>4
<1> HIDE DEF R, Q
<1> QED BY <1>4, <1>5 DEF Max

(* The last position of an app holds it, and is 0 when there is none. *)
LEMMA PlaceHolds ==
  ASSUME NEW A, NEW seq \in Seq(A), NEW p
  PROVE  /\ PlaceOf(p, seq) \in 0..Len(seq)
         /\ PlaceOf(p, seq) # 0 => PlaceOf(p, seq) \in DOMAIN seq /\ seq[PlaceOf(p, seq)] = p
<1> DEFINE P == {0} \cup {i \in DOMAIN seq : seq[i] = p}
<1>1. Len(seq) \in Nat /\ DOMAIN seq = 1..Len(seq)
  OBVIOUS
<1>2. P \in SUBSET (0..Len(seq)) /\ P # {}
  BY <1>1
<1>3. Max(P) \in P
  <2> HIDE DEF P
  <2> QED BY <1>1, <1>2, MaxIsMember
<1> QED BY <1>1, <1>2, <1>3 DEF PlaceOf

(* Counting up to a position: one more when it is of the set, none before the first. *)
LEMMA OrdinalCounts ==
  ASSUME NEW S, NEW A, NEW seq \in Seq(A), NEW i \in Nat
  PROVE  /\ Ordinal(S, seq, i) \in Nat
         /\ Ordinal(S, seq, 0) = 0
         /\ seq[i + 1] \in S => Ordinal(S, seq, i + 1) = Ordinal(S, seq, i) + 1
         /\ seq[i + 1] \notin S => Ordinal(S, seq, i + 1) = Ordinal(S, seq, i)
<1> DEFINE C(n) == {j \in 1..n : seq[j] \in S}
<1>1. IsFiniteSet(1..i)
  BY FS_Interval
<1>2. IsFiniteSet(C(i)) /\ Cardinality(C(i)) \in Nat
  BY <1>1, FS_Subset, FS_CardinalityType
<1>3. C(0) = {}
  OBVIOUS
<1>4. C(i + 1) = IF seq[i + 1] \in S THEN C(i) \cup {i + 1} ELSE C(i)
  <2>1. \A j : j \in 1..(i + 1) <=> j \in 1..i \/ j = i + 1 OBVIOUS
  <2> QED BY <2>1
<1>5. i + 1 \notin C(i)
  OBVIOUS
<1>6. Cardinality(C(i) \cup {i + 1}) = Cardinality(C(i)) + 1
  <2> HIDE DEF C
  <2> QED BY <1>2, <1>5, FS_AddElement
<1>7. Cardinality(C(0)) = 0
  BY <1>3, FS_EmptySet
<1>8. /\ seq[i + 1] \in S => Cardinality(C(i + 1)) = Cardinality(C(i)) + 1
      /\ seq[i + 1] \notin S => Cardinality(C(i + 1)) = Cardinality(C(i))
  <2> HIDE DEF C
  <2> QED BY <1>2, <1>4, <1>6
<1> QED BY <1>2, <1>7, <1>8 DEF Ordinal

(* What is picked out of a sequence is of the sequence and of the set. *)
LEMMA PickedFits ==
  ASSUME NEW S, NEW A, NEW seq \in Seq(A)
  PROVE  /\ Picked(S, seq) \in Seq(A)
         /\ \A k \in DOMAIN Picked(S, seq) : Picked(S, seq)[k] \in S
         /\ Picked(S, seq) # <<>> => seq # <<>>
<1> DEFINE O(i) == Ordinal(S, seq, i)
           F(k, i) == i \in DOMAIN seq /\ seq[i] \in S /\ O(i) = k
           R == {ss \in Nat \X Nat : ss[1] < ss[2]}
<1>1. Len(seq) \in Nat /\ DOMAIN seq = 1..Len(seq) /\ \A i \in DOMAIN seq : seq[i] \in A
  OBVIOUS
<1>2. \A i \in Nat : /\ O(i) \in Nat /\ O(0) = 0
                     /\ seq[i + 1] \in S => O(i + 1) = O(i) + 1
                     /\ seq[i + 1] \notin S => O(i + 1) = O(i)
  <2> TAKE i \in Nat
  <2>1. /\ Ordinal(S, seq, i) \in Nat /\ Ordinal(S, seq, 0) = 0
        /\ seq[i + 1] \in S => Ordinal(S, seq, i + 1) = Ordinal(S, seq, i) + 1
        /\ seq[i + 1] \notin S => Ordinal(S, seq, i + 1) = Ordinal(S, seq, i)
    BY OrdinalCounts
  <2> QED BY <2>1
<1>3. ASSUME NEW k \in 1..O(Len(seq)) PROVE \E i \in DOMAIN seq : F(k, i)
  <2> DEFINE Q == {i \in 0..Len(seq) : O(i) >= k}
  <2>1. IsWellFoundedOn(R, Nat)
    BY NatLessThanWellFounded DEF OpToRel
  <2>2. Q \subseteq Nat /\ Q # {}
    <3>1. O(Len(seq)) \in Nat /\ k \in Nat BY <1>1, <1>2
    <3>2. Len(seq) \in Q BY <1>1, <3>1
    <3> QED BY <3>2, <1>1
  <2>3. PICK i \in Q : \A e \in Q : ~(<<e, i>> \in R)
    <3> HIDE DEF R, Q
    <3> QED BY <2>1, <2>2, WFMin
  <2> HIDE DEF O
  <2>4. i \in 0..Len(seq) /\ O(i) >= k /\ O(i) \in Nat /\ k \in Nat /\ k >= 1 /\ i \in Nat
    BY <1>1, <1>2
  <2>5. i # 0
    BY <2>4, <1>2
  <2>6. i - 1 \in 0..Len(seq) /\ i - 1 \in Nat /\ (i - 1) + 1 = i
    BY <2>4, <2>5, <1>1
  <2>7. <<i - 1, i>> \in R
    BY <2>4, <2>6
  <2>8. i - 1 \notin Q
    <3> HIDE DEF R, Q
    <3> QED BY <2>3, <2>7
  <2>9. O(i - 1) < k /\ O(i - 1) \in Nat
    BY <2>8, <2>6, <2>4, <1>2
  <2>10. IF seq[i] \in S THEN O(i) = O(i - 1) + 1 ELSE O(i) = O(i - 1)
    BY <1>2, <2>6
  <2>11. seq[i] \in S /\ O(i) = k
    BY <2>4, <2>9, <2>10
  <2> QED BY <2>11, <2>4, <2>5, <1>1
<1>4. ASSUME NEW k \in 1..O(Len(seq))
      PROVE  F(k, CHOOSE i \in DOMAIN seq : seq[i] \in S /\ O(i) = k)
  BY <1>3, <1>4
<1>5. Picked(S, seq) = [k \in 1..O(Len(seq)) |->
                          seq[CHOOSE i \in DOMAIN seq : seq[i] \in S /\ O(i) = k]]
  BY DEF Picked
<1>6. O(Len(seq)) \in Nat
  BY <1>1, <1>2
<1> HIDE DEF O
<1>7. /\ DOMAIN Picked(S, seq) = 1..O(Len(seq))
      /\ \A k \in 1..O(Len(seq)) : Picked(S, seq)[k] \in A /\ Picked(S, seq)[k] \in S
  BY <1>4, <1>5, <1>1
<1>8. Picked(S, seq) \in [1..O(Len(seq)) -> A]
  BY <1>5, <1>7
<1>9. Picked(S, seq) \in Seq(A)
  BY <1>6, <1>8
<1>10. ASSUME seq = <<>> PROVE Picked(S, seq) = <<>>
  <2>1. O(Len(seq)) = 0 BY <1>10, <1>2
  <2> QED BY <2>1, <1>8
<1> QED BY <1>7, <1>9, <1>10

LEMMA TailShifts ==
  ASSUME NEW A, NEW q \in Seq(A), q # <<>>
  PROVE  /\ Tail(q) \in Seq(A) /\ Head(q) \in A /\ Head(q) = q[1] /\ 1 \in DOMAIN q
         /\ \A i \in DOMAIN Tail(q) : i \in Nat /\ i + 1 # 1 /\ i + 1 \in DOMAIN q /\ Tail(q)[i] = q[i + 1]
BY HeadTailProperties

LEMMA AppendAdds ==
  ASSUME NEW A, NEW q \in Seq(A), NEW e \in A
  PROVE  /\ Append(q, e) \in Seq(A)
         /\ DOMAIN Append(q, e) = DOMAIN q \cup {Len(q) + 1}
         /\ Append(q, e)[Len(q) + 1] = e
         /\ Len(q) + 1 \notin DOMAIN q
         /\ \A i \in DOMAIN q : Append(q, e)[i] = q[i]
BY AppendProperties

-----------------------------------------------------------------------------
(* Lemmas about rows. *)

LEMMA AppsInFits ==
  ASSUME NEW seq \in Seq(RowRecords)
  PROVE  AppsIn(seq) \in Seq(Apps) /\ Len(AppsIn(seq)) = Len(seq)
<1>1. Len(seq) \in Nat /\ DOMAIN seq = 1..Len(seq) /\ \A i \in DOMAIN seq : seq[i] \in RowRecords
  OBVIOUS
<1>2. AppsIn(seq) \in [1..Len(seq) -> Apps]
  BY <1>1 DEF AppsIn, RowRecords
<1> QED BY <1>1, <1>2

LEMMA IndexOfFits ==
  ASSUME NEW seq \in Seq(Apps)
  PROVE  IndexOf(seq) \in [Apps -> Nat]
BY PlaceHolds DEF IndexOf

LEMMA RowsOfFits ==
  ASSUME NEW seq \in Seq(Apps), NEW s \in Sessions, NEW final \in BOOLEAN
  PROVE  /\ RowsOf(seq, s, final) \in Seq(RowRecords)
         /\ \A i \in DOMAIN RowsOf(seq, s, final) :
              RowsOf(seq, s, final)[i].from = s /\ RowsOf(seq, s, final)[i].final = final
<1>1. Len(seq) \in Nat /\ DOMAIN seq = 1..Len(seq) /\ \A i \in DOMAIN seq : seq[i] \in Apps
  OBVIOUS
<1>2. \A i \in DOMAIN seq : /\ Row(seq[i], s, final) \in RowRecords
                            /\ Row(seq[i], s, final).from = s
                            /\ Row(seq[i], s, final).final = final
  BY <1>1 DEF Row, RowRecords
<1>3. RowsOf(seq, s, final) \in [1..Len(seq) -> RowRecords]
  BY <1>1, <1>2 DEF RowsOf
<1> QED BY <1>1, <1>2, <1>3 DEF RowsOf

LEMMA AllAppsFit == AllApps \in Seq(Apps)
<1>1. NApps \in Nat BY ConstantsAssumption
<1>2. AllApps \in [1..NApps -> Apps] BY DEF AllApps, Apps
<1> QED BY <1>1, <1>2

(* The row of an app among new ones is one of them and its own. *)
LEMMA RowOrHolds ==
  ASSUME NEW seq \in Seq(RowRecords), NEW p, NEW default
  PROVE  \/ RowOr(p, seq, default) = default
         \/ \E i \in DOMAIN seq : RowOr(p, seq, default) = seq[i] /\ seq[i].app = p
<1> DEFINE place == PlaceOf(p, AppsIn(seq))
<1>1. AppsIn(seq) \in Seq(Apps) /\ DOMAIN AppsIn(seq) = DOMAIN seq
      /\ \A i \in DOMAIN seq : AppsIn(seq)[i] = seq[i].app
  BY AppsInFits DEF AppsIn
<1>2. place # 0 => place \in DOMAIN seq /\ seq[place].app = p
  BY <1>1, PlaceHolds
<1>3. RowOr(p, seq, default) = IF place = 0 THEN default ELSE seq[place]
  BY DEF RowOr
<1> QED BY <1>2, <1>3

LEMMA MergedFits ==
  ASSUME NEW old \in Seq(RowRecords), NEW new \in Seq(RowRecords)
  PROVE  /\ Merged(old, new) \in Seq(RowRecords)
         /\ DOMAIN Merged(old, new) = DOMAIN old
         /\ \A i \in DOMAIN old :
              /\ Merged(old, new)[i].app = old[i].app
              /\ \/ Merged(old, new)[i] = old[i]
                 \/ \E j \in DOMAIN new : Merged(old, new)[i] = new[j]
<1>1. /\ Len(old) \in Nat /\ DOMAIN old = 1..Len(old) /\ \A i \in DOMAIN old : old[i] \in RowRecords
      /\ \A i \in DOMAIN new : new[i] \in RowRecords
  OBVIOUS
<1>2. ASSUME NEW i \in DOMAIN old
      PROVE  \/ RowOr(old[i].app, new, old[i]) = old[i]
             \/ \E j \in DOMAIN new : /\ RowOr(old[i].app, new, old[i]) = new[j]
                                      /\ new[j].app = old[i].app
  BY RowOrHolds
<1>3. Merged(old, new) = [i \in DOMAIN old |-> RowOr(old[i].app, new, old[i])]
  BY DEF Merged
<1>4. Merged(old, new) \in [1..Len(old) -> RowRecords]
  BY <1>1, <1>2, <1>3
<1> QED BY <1>1, <1>2, <1>3, <1>4

-----------------------------------------------------------------------------
(* The initial state. *)

LEMMA InitHolds == Init => IInv
<1> SUFFICES ASSUME Init PROVE IInv
  OBVIOUS
<1>1. MaxSession \in Nat /\ NApps \in Nat
  BY ConstantsAssumption
<1>2. NoAudit \in AuditRecords /\ NoAudit.outcome = "none" /\ NoAudit.step = "none"
      /\ NoAudit.targeted = FALSE
  BY DEF NoAudit, AuditRecords, Outcomes
<1>3. \A S : <<>> \in Seq(S) /\ DOMAIN <<>> = {}
  OBVIOUS
<1>4. TypeOK
  <2>1. rows \in Seq(RowRecords) /\ base \in Seq(RowRecords)
        /\ \A i \in DOMAIN queue : queue[i].session \in Sessions /\ queue[i].kind \in {"row", "done"}
    BY <1>3 DEF Init
  <2>2. /\ index \in [Apps -> Nat] /\ history \in [Apps -> 0..MaxSession]
        /\ audit \in [Sessions -> AuditRecords] /\ ended \in [Sessions -> Outcomes]
    BY <1>1, <1>2 DEF Init, NoIndex, Outcomes
  <2>3. /\ session \in 0..MaxSession /\ finalizing \in 0..MaxSession
        /\ indexed \in 0..MaxSession /\ inventory \in 0..MaxSession
    BY <1>1 DEF Init
  <2>4. /\ source \in {"file", "device", "local"} /\ state \in States
        /\ requested \in {"none", "stopped", "abandoned"}
        /\ incomplete \in BOOLEAN /\ marked \in BOOLEAN /\ startDue \in BOOLEAN
        /\ stopped \subseteq Sessions /\ timers = {}
    BY ConstantsAssumption DEF Init, States
  <2> QED BY <2>1, <2>2, <2>3, <2>4 DEF TypeOK
<1>5. Carried
  BY <1>1, <1>2, <1>3 DEF Init, Carried
<1>6. Numbered /\ ResultsOnce /\ ResultsAwaited
  BY <1>1, <1>2, <1>3 DEF Init, Numbered, ResultsOnce, ResultsAwaited, IsResult, Active
<1>7. CleanWhenIdle /\ OnlyOwnRows /\ ExportIsFinal /\ RowsAreOld
  BY <1>3 DEF Init, CleanWhenIdle, OnlyOwnRows, ExportIsFinal, RowsAreOld, Active, Exportable
<1>8. InventoryIsCurrent /\ FullStopsAreKept /\ UntilRecheck
  BY <1>2, <1>3 DEF Init, InventoryIsCurrent, FullStopsAreKept, UntilRecheck, NoRecheck, OnlySuccessIsSaved,
                    FinishedIsExportable, Exportable
<1> QED BY <1>4, <1>5, <1>6, <1>7, <1>8 DEF IInv

-----------------------------------------------------------------------------
(* Steps of the workers. *)

LEMMA SessionsAreNumbers ==
  TypeOK => session \in Nat /\ MaxSession \in Nat /\ \A s \in Sessions : s \in Nat /\ s # 0
BY ConstantsAssumption DEF TypeOK, Sessions

\* What a step of the worker of s does: it goes on, and signals at most once.
WorkerMoves(s) ==
  /\ UNCHANGED worker
  /\ audit[s].step \notin {"none", "ended"}
  /\ audit' \in [Sessions -> AuditRecords]
  /\ \A t \in Sessions : t # s => audit'[t] = audit[t]
  /\ audit'[s].targeted = audit[s].targeted
  /\ audit'[s].step # "none"
  /\ audit'[s].outcome \in {"none", "success", "stopped", "failed"}
  /\ audit'[s].step = "decided" => audit'[s].outcome # "none"
  /\ \/ queue' = queue
     \/ \E g \in RowSignals : queue' = Append(queue, g)
     \/ \E g \in Results : /\ g.session = s /\ audit'[s].step = "ended"
                           /\ queue' = Append(queue, g)

LEMMA WorkerFrame ==
  ASSUME IInv, NEW s \in Sessions, WorkerMoves(s)
  PROVE  /\ Numbered' /\ CleanWhenIdle' /\ OnlyOwnRows' /\ ExportIsFinal' /\ RowsAreOld'
         /\ InventoryIsCurrent' /\ FullStopsAreKept' /\ UntilRecheck'
<1> USE DEF WorkerMoves, worker, control, view, targets, saved
<1>1. \A t \in Sessions : audit'[t].targeted = audit[t].targeted
  OBVIOUS
<1>2. Numbered'
  BY DEF IInv, Numbered, Active
<1>3. Active => session \in Sessions /\ audit'[session].targeted = audit[session].targeted
  BY <1>1 DEF IInv, Numbered
<1>4. CleanWhenIdle'
  BY <1>3 DEF IInv, CleanWhenIdle, Active
<1>5. OnlyOwnRows' /\ ExportIsFinal'
  BY <1>3 DEF IInv, OnlyOwnRows, ExportIsFinal, Active, Exportable
<1>6. RowsAreOld' /\ InventoryIsCurrent'
  BY DEF IInv, RowsAreOld, InventoryIsCurrent, Active
<1>7. FullStopsAreKept'
  BY <1>1 DEF IInv, TypeOK, FullStopsAreKept
<1>8. UntilRecheck'
  BY <1>1 DEF IInv, UntilRecheck, NoRecheck, OnlySuccessIsSaved, FinishedIsExportable, Exportable
<1> QED BY <1>2, <1>4, <1>5, <1>6, <1>7, <1>8

LEMMA WorkerKeeps ==
  ASSUME IInv, NEW s \in Sessions, WorkerMoves(s)
  PROVE  IInv'
<1> USE DEF WorkerMoves, worker, control, view, targets, saved
<1>1. /\ queue \in Seq(RowSignals \cup Results) /\ timers \subseteq Results
      /\ Len(queue) \in Nat /\ DOMAIN queue = 1..Len(queue)
  BY DEF IInv, Carried
<1>2. \A g \in RowSignals : g.kind = "row" /\ g.session \in Sessions
  BY DEF RowSignals
<1>3. \A g \in Results : g.kind = "done" /\ g.session \in Sessions
  BY DEF Results
<1>4. /\ \A i \in DOMAIN queue : queue[i].session \in Sessions
      /\ \A r \in timers : r.session \in Sessions
  BY <1>1, <1>2, <1>3
<1>0. \A g \in RowSignals \cup Results :
         /\ Append(queue, g) \in Seq(RowSignals \cup Results)
         /\ DOMAIN Append(queue, g) = DOMAIN queue \cup {Len(queue) + 1}
         /\ Append(queue, g)[Len(queue) + 1] = g
         /\ \A i \in DOMAIN queue : Append(queue, g)[i] = queue[i]
  <2> HIDE DEF WorkerMoves
  <2> QED BY <1>1, AppendAdds
<1>5. ASSUME queue' \in Seq(RowSignals \cup Results) PROVE Carried' /\ TypeOK'
  <2>1. Carried'
    BY <1>5 DEF IInv, Carried
  <2>2. \A i \in DOMAIN queue' : queue'[i] \in RowSignals \cup Results
    BY <1>5
  <2>3. \A i \in DOMAIN queue' : queue'[i].session \in Sessions /\ queue'[i].kind \in {"row", "done"}
    BY <2>2, <1>2, <1>3
  <2>4. TypeOK'
    BY <2>3 DEF IInv, TypeOK
  <2> QED BY <2>1, <2>4
<1>6. \A t \in Sessions : audit[t].step = "ended" => audit'[t].step = "ended"
  OBVIOUS
<1>7. ResultsAwaited /\ ResultsOnce /\ session \in Nat
  BY SessionsAreNumbers DEF IInv
<1>8. \A t \in Sessions : t = session /\ audit'[t].step \notin {"none", "ended"} => Active'
  BY <1>7 DEF ResultsAwaited, Active
<1>9. CASE queue' = queue
  <2>1. ResultsOnce'
    BY <1>9, <1>4, <1>6, <1>7 DEF ResultsOnce, IsResult
  <2>2. ResultsAwaited'
    BY <1>9, <1>8, <1>7 DEF ResultsAwaited, IsResult, Active
  <2> QED BY <2>1, <2>2, <1>1, <1>5, <1>9, WorkerFrame DEF IInv
<1>10. ASSUME NEW g \in RowSignals, queue' = Append(queue, g) PROVE IInv'
  <2>1. /\ queue' \in Seq(RowSignals \cup Results)
        /\ DOMAIN queue' = DOMAIN queue \cup {Len(queue) + 1}
        /\ queue'[Len(queue) + 1] = g
        /\ \A i \in DOMAIN queue : queue'[i] = queue[i]
    BY <1>0, <1>10
  <2>2. \A i : IsResult(i)' => IsResult(i) /\ queue'[i] = queue[i]
    BY <2>1, <1>2 DEF IsResult
  <2>3. ResultsOnce'
    BY <2>2, <1>4, <1>6, <1>7 DEF ResultsOnce, IsResult
  <2>4. ResultsAwaited'
    BY <2>2, <1>8, <1>7 DEF ResultsAwaited, IsResult, Active
  <2> QED BY <2>1, <2>3, <2>4, <1>5, WorkerFrame DEF IInv
<1>11. ASSUME NEW g \in Results, g.session = s, audit'[s].step = "ended",
              queue' = Append(queue, g)
       PROVE  IInv'
  <2>1. /\ queue' \in Seq(RowSignals \cup Results)
        /\ DOMAIN queue' = DOMAIN queue \cup {Len(queue) + 1}
        /\ queue'[Len(queue) + 1] = g
        /\ \A i \in DOMAIN queue : queue'[i] = queue[i]
    BY <1>0, <1>11
  <2>2. \A i : IsResult(i)' => \/ IsResult(i) /\ queue'[i] = queue[i]
                               \/ i = Len(queue) + 1 /\ queue'[i] = g
    BY <2>1 DEF IsResult
  <2>3. \A i \in DOMAIN queue : IsResult(i) => queue[i].session # s
    BY <1>7 DEF ResultsOnce
  <2>4. \A r \in timers : r.session # s
    BY <1>7 DEF ResultsOnce
  <2>5. ResultsOnce'
    <3>1. \A i, j \in DOMAIN queue' :
            IsResult(i)' /\ IsResult(j)' /\ queue'[i].session = queue'[j].session => i = j
      BY <2>2, <2>3, <1>11, <1>7 DEF ResultsOnce, IsResult
    <3>2. \A i \in DOMAIN queue' : IsResult(i)' =>
            audit'[queue'[i].session].step = "ended"
              /\ \A r \in timers : r.session # queue'[i].session
      BY <2>2, <2>4, <1>4, <1>6, <1>11, <1>7 DEF ResultsOnce, IsResult
    <3> QED BY <3>1, <3>2, <1>4, <1>6, <1>7 DEF ResultsOnce
  <2>6. ResultsAwaited'
    <3>1. s = session => Active
      BY <1>7 DEF ResultsAwaited
    <3> QED BY <3>1, <2>2, <1>8, <1>11, <1>7 DEF ResultsAwaited, IsResult, Active
  <2> QED BY <2>1, <2>5, <2>6, <1>5, WorkerFrame DEF IInv
<1> QED BY <1>9, <1>10, <1>11

(* Each step of a worker is such a move. *)
LEMMA RowSignalFits ==
  ASSUME NEW s \in Sessions, NEW p \in Apps
  PROVE  RowSignal(s, p) \in RowSignals
BY DEF RowSignal, RowSignals

LEMMA ParsingMoves ==
  ASSUME IInv, NEW s \in Sessions, NEW p \in Apps,
         ParseFile(s, p) \/ RejectFile(s, p) \/ RowCompleted(s, p)
  PROVE  WorkerMoves(s)
<1>1. audit \in [Sessions -> AuditRecords] /\ audit[s] \in AuditRecords
      /\ audit[s].outcome \in {"none", "success", "stopped", "failed"}
  BY DEF IInv, TypeOK, Carried
<1>2. UNCHANGED worker /\ audit[s].step \notin {"none", "ended", "decided"}
  BY DEF ParseFile, RejectFile, RowCompleted, At
<1>3. audit' \in [Sessions -> AuditRecords] /\ audit'[s].step = audit[s].step
      /\ audit'[s].outcome = audit[s].outcome /\ audit'[s].targeted = audit[s].targeted
      /\ \A t \in Sessions : t # s => audit'[t] = audit[t]
  <2>1. CASE ParseFile(s, p) BY <2>1, <1>1 DEF ParseFile, AuditRecords
  <2>2. CASE RejectFile(s, p) BY <2>2, <1>1 DEF RejectFile, AuditRecords
  <2>3. CASE RowCompleted(s, p) BY <2>3, <1>1 DEF RowCompleted, AuditRecords
  <2> QED BY <2>1, <2>2, <2>3
<1>4. queue' = queue \/ queue' = Append(queue, RowSignal(s, p))
  BY DEF ParseFile, RejectFile, RowCompleted
<1> QED BY <1>1, <1>2, <1>3, <1>4, RowSignalFits DEF WorkerMoves

(* What a worker reports of its rows is a result. *)
LEMMA ResultFits ==
  ASSUME IInv, NEW s \in Sessions, NEW outcome \in {"success", "stopped", "failed"},
         NEW final \in BOOLEAN, outcome = "success" => final
  PROVE  /\ DoneSignal(s, outcome, <<>>) \in Results
         /\ DoneSignal(s, outcome, RowsOf(Picked(audit[s].got, audit[s].apps), s, final))
              \in Results
         /\ \A result : DoneSignal(s, outcome, result).session = s
<1>1. audit[s] \in AuditRecords
  BY DEF IInv, TypeOK
<1>2. audit[s].local \in BOOLEAN /\ audit[s].apps \in Seq(Apps)
  BY <1>1 DEF AuditRecords
<1>3. Picked(audit[s].got, audit[s].apps) \in Seq(Apps)
  BY <1>2, PickedFits
<1> DEFINE result == RowsOf(Picked(audit[s].got, audit[s].apps), s, final)
<1>4. result \in Seq(RowRecords) /\ \A i \in DOMAIN result : result[i].from = s
                                                           /\ result[i].final = final
  BY <1>3, RowsOfFits
<1>5. <<>> \in Seq(RowRecords) /\ DOMAIN <<>> = {}
  OBVIOUS
<1> HIDE DEF result
<1>6. DoneSignal(s, outcome, result) \in Results
  BY <1>2, <1>4 DEF DoneSignal, Results
<1>7. DoneSignal(s, outcome, <<>>) \in Results
  BY <1>2, <1>5 DEF DoneSignal, Results
<1> QED BY <1>6, <1>7 DEF DoneSignal, result

LEMMA ParseEndsMoves ==
  ASSUME IInv, NEW s \in Sessions, ParseEnds(s)
  PROVE  WorkerMoves(s)
<1>1. audit \in [Sessions -> AuditRecords] /\ audit[s] \in AuditRecords
      /\ audit[s].outcome \in {"none", "success", "stopped", "failed"}
  BY DEF IInv, TypeOK, Carried
<1>2. UNCHANGED worker /\ audit[s].step = "parsing"
  BY DEF ParseEnds, At
<1> DEFINE parsed == Picked(audit[s].got, audit[s].apps)
<1>3. parsed \in Seq(Apps)
  BY <1>1, PickedFits DEF AuditRecords
<1>4. CASE Ended(s) /\ \E outcome \in {"stopped", "failed"} :
             \/ queue' = Append(queue, DoneSignal(s, outcome, <<>>))
             \/ queue' = Append(queue, DoneSignal(s, outcome, RowsOf(parsed, s, FALSE)))
  <2>1. PICK outcome \in {"stopped", "failed"} :
             \/ queue' = Append(queue, DoneSignal(s, outcome, <<>>))
             \/ queue' = Append(queue, DoneSignal(s, outcome, RowsOf(parsed, s, FALSE)))
    BY <1>4
  <2>2. \E g \in Results : g.session = s /\ queue' = Append(queue, g)
    BY <2>1, ResultFits
  <2>3. audit' \in [Sessions -> AuditRecords] /\ audit'[s].step = "ended"
        /\ audit'[s].outcome = audit[s].outcome /\ audit'[s].targeted = audit[s].targeted
        /\ \A t \in Sessions : t # s => audit'[t] = audit[t]
    BY <1>1, <1>4 DEF Ended, AuditRecords
  <2> HIDE DEF parsed
  <2> QED BY <2>2, <2>3, <1>1, <1>2 DEF WorkerMoves
<1>5. CASE /\ audit' = [audit EXCEPT ![s].step = "store", ![s].apps = parsed, ![s].got = {}]
           /\ queue' = queue
  <2> HIDE DEF parsed
  <2>1. audit' \in [Sessions -> AuditRecords] /\ audit'[s].step = "store"
        /\ audit'[s].outcome = audit[s].outcome /\ audit'[s].targeted = audit[s].targeted
        /\ \A t \in Sessions : t # s => audit'[t] = audit[t]
    BY <1>1, <1>3, <1>5 DEF AuditRecords
  <2> QED BY <2>1, <1>1, <1>2, <1>5 DEF WorkerMoves
<1> QED BY <1>4, <1>5 DEF ParseEnds

LEMMA DecisionMoves ==
  ASSUME IInv, NEW s \in Sessions, WorkerDecides(s) \/ WorkerFails(s)
  PROVE  WorkerMoves(s)
<1>1. audit \in [Sessions -> AuditRecords] /\ audit[s] \in AuditRecords
  BY DEF IInv, TypeOK
<1>2. UNCHANGED worker /\ audit[s].step = "store" /\ queue' = queue
  BY DEF WorkerDecides, WorkerFails, At
<1>3. PICK outcome \in {"success", "stopped", "failed"} :
        audit' = [audit EXCEPT ![s].step = "decided", ![s].outcome = outcome]
  BY DEF WorkerDecides, WorkerFails
<1>4. audit' \in [Sessions -> AuditRecords] /\ audit'[s].step = "decided"
      /\ audit'[s].outcome = outcome /\ audit'[s].targeted = audit[s].targeted
      /\ \A t \in Sessions : t # s => audit'[t] = audit[t]
  BY <1>1, <1>3 DEF AuditRecords, Outcomes
<1> QED BY <1>2, <1>4 DEF WorkerMoves

LEMMA EmitMoves ==
  ASSUME IInv, NEW s \in Sessions, WorkerEmits(s)
  PROVE  WorkerMoves(s)
<1>1. audit \in [Sessions -> AuditRecords] /\ audit[s] \in AuditRecords
      /\ audit[s].outcome \in {"success", "stopped", "failed"}
  BY DEF IInv, TypeOK, Carried, WorkerEmits, At
<1>2. UNCHANGED worker /\ audit[s].step = "decided"
  BY DEF WorkerEmits, At
<1>3. audit' \in [Sessions -> AuditRecords] /\ audit'[s].step = "ended"
      /\ audit'[s].outcome = audit[s].outcome /\ audit'[s].targeted = audit[s].targeted
      /\ \A t \in Sessions : t # s => audit'[t] = audit[t]
  BY <1>1 DEF WorkerEmits, Ended, AuditRecords
<1>4. queue' = queue \/ \E g \in Results : g.session = s /\ queue' = Append(queue, g)
  BY <1>1, ResultFits DEF WorkerEmits
<1> QED BY <1>1, <1>2, <1>3, <1>4 DEF WorkerMoves

LEMMA WorkerStepKeeps ==
  ASSUME IInv, NEW s \in Sessions, WorkerStep(s)
  PROVE  IInv' /\ WorkerMoves(s)
BY ParsingMoves, ParseEndsMoves, DecisionMoves, EmitMoves, WorkerKeeps DEF WorkerStep

-----------------------------------------------------------------------------
(* Steps of the user. *)

(* Signals and timers stay what they are when audits only go on. *)
LEMMA SignalsFrame ==
  ASSUME IInv, UNCHANGED <<queue, timers>>,
         \A s \in Sessions : audit[s].step = "ended" => audit'[s].step = "ended"
  PROVE  ResultsOnce'
<1>1. /\ \A i \in DOMAIN queue : queue[i].session \in Sessions
      /\ \A r \in timers : r.session \in Sessions
  BY DEF IInv, TypeOK
<1> QED BY <1>1 DEF IInv, ResultsOnce, IsResult

(* An audit that begins where none was, over rows that are old or its own. *)
LEMMA BeginKeeps ==
  ASSUME IInv, state = "idle",
         NEW seq \in Seq(Apps), NEW cached \in SUBSET Apps, NEW targeted \in BOOLEAN,
         Begin(seq, cached, targeted),
         rows' \in Seq(RowRecords), base' \in Seq(RowRecords), index' \in [Apps -> Nat],
         marked' \in BOOLEAN, startDue' \in BOOLEAN, used' \in [rechecks : Nat, pauses : Nat],
         base' # <<>> <=> targeted,
         \A i \in DOMAIN base' : base'[i].from <= session,
         \A i \in DOMAIN rows' :
           rows'[i].from = session + 1 \/ (targeted /\ rows'[i].from <= session),
         used'.rechecks = 0 => used.rechecks = 0 /\ ~targeted /\ ~marked'
  PROVE  IInv'
<1>1. /\ session \in Nat /\ MaxSession \in Nat /\ Sessions = 1..MaxSession
      /\ session < MaxSession /\ session' = session + 1
      /\ session' \in Sessions /\ session + 1 \in 0..MaxSession
  BY SessionsAreNumbers DEF IInv, Sessions, Begin
<1>2. /\ state' = "running" /\ incomplete' = TRUE /\ inventory' = 0 /\ requested' = "none"
      /\ UNCHANGED <<source, finalizing, history, queue, timers, ended, stopped>>
      /\ indexed' = session + 1
  BY DEF Begin
<1>3. /\ audit' \in [Sessions -> AuditRecords]
      /\ \A t \in Sessions : t # session' => audit'[t] = audit[t]
      /\ audit'[session'].step \in {"parsing", "store"}
      /\ audit'[session'].targeted = targeted /\ audit'[session'].outcome = "none"
  <2>1. NoAudit \in AuditRecords /\ NoAudit.outcome = "none"
    BY DEF NoAudit, AuditRecords, Outcomes
  <2>2. PICK step \in {"parsing", "store"}, local \in BOOLEAN :
          audit' = [audit EXCEPT ![session + 1] =
            [NoAudit EXCEPT !.step = step, !.apps = seq, !.got = cached, !.local = local,
                            !.targeted = targeted]]
    BY DEF Begin
  <2>3. audit \in [Sessions -> AuditRecords]
    BY DEF IInv, TypeOK
  <2> QED BY <2>1, <2>2, <2>3, <1>1 DEF AuditRecords
<1>4. audit[session'].step = "none" /\ ended[session'] = "none" /\ session' \notin stopped
  BY <1>1 DEF IInv, Numbered
<1>5. TypeOK'
  BY <1>1, <1>2, <1>3 DEF IInv, TypeOK, States
<1>6. Carried'
  BY <1>1, <1>2, <1>3 DEF IInv, Carried
<1>7. Numbered'
  <2>1. \A s \in Sessions : s > session' => s > session /\ s # session'
    BY <1>1
  <2>2. \A s \in stopped : s <= session'
    BY <1>1 DEF IInv, TypeOK, Numbered
  <2> QED BY <1>1, <1>2, <1>3, <1>4, <2>1, <2>2 DEF IInv, Numbered, Active
<1>8. ResultsOnce'
  BY <1>2, <1>3, <1>4, SignalsFrame
<1>9. ResultsAwaited'
  <2>1. \A r \in timers : r.session # session'
    BY <1>4 DEF IInv, ResultsOnce
  <2> QED BY <1>2, <2>1 DEF ResultsAwaited, Active
<1>10. CleanWhenIdle'
  BY <1>1, <1>2, <1>3 DEF IInv, CleanWhenIdle, Active
<1>11. \A i \in DOMAIN rows' : rows'[i].from \in Nat
  <2>1. \A i \in DOMAIN rows' : rows'[i] \in RowRecords
    OBVIOUS
  <2> QED BY <2>1, <1>1 DEF RowRecords
<1>12. OnlyOwnRows' /\ ExportIsFinal'
  BY <1>1, <1>2, <1>3, <1>11 DEF OnlyOwnRows, ExportIsFinal, Exportable
<1>13. RowsAreOld'
  <2>1. \A i \in DOMAIN base' : base'[i] \in RowRecords
    OBVIOUS
  <2>2. \A i \in DOMAIN base' : base'[i].from \in Nat
    BY <1>1, <2>1 DEF RowRecords
  <2>3. \A i \in DOMAIN base' : base'[i].from <= session'
    BY <1>1, <2>2
  <2>4. \A i \in DOMAIN rows' : rows'[i].from <= session'
    BY <1>1, <1>11
  <2> QED BY <1>2, <1>4, <2>3, <2>4 DEF RowsAreOld
<1>14. InventoryIsCurrent'
  BY <1>2 DEF InventoryIsCurrent
<1>15. FullStopsAreKept'
  BY <1>2, <1>3, <1>4 DEF IInv, TypeOK, FullStopsAreKept
<1>16. UntilRecheck'
  <2>1. FinishedIsExportable'
    BY <1>2 DEF FinishedIsExportable
  <2> QED BY <1>2, <1>3, <2>1 DEF IInv, UntilRecheck, NoRecheck, OnlySuccessIsSaved
<1> QED BY <1>5, <1>6, <1>7, <1>8, <1>9, <1>10, <1>12, <1>13, <1>14, <1>15, <1>16 DEF IInv

LEMMA StartKeeps ==
  ASSUME IInv, state = "idle", Start, startDue' \in BOOLEAN
  PROVE  IInv'
<1>1. /\ TypeOK /\ base = <<>> /\ \A i \in DOMAIN base : FALSE
      /\ session \in Nat /\ MaxSession \in Nat
      /\ session < MaxSession => session + 1 \in Sessions
  BY SessionsAreNumbers DEF IInv, CleanWhenIdle, Active, Sessions
<1>2. 1 \in Apps /\ AllApps \in Seq(Apps)
  BY AllAppsFit, ConstantsAssumption DEF Apps
<1>3. used \in [rechecks : Nat, pauses : Nat] /\ (used.rechecks = 0 => ~marked)
      /\ marked \in BOOLEAN /\ base \in Seq(RowRecords)
  BY DEF IInv, TypeOK, Carried, UntilRecheck, NoRecheck, OnlySuccessIsSaved
<1>4. ASSUME StartLocal PROVE IInv'
  <2>1. /\ Begin(AllApps, {}, FALSE) /\ rows' = <<>> /\ base' = <<>> /\ index' = NoIndex
        /\ marked' = marked /\ used' = used
    BY <1>4 DEF StartLocal
  <2>2. <<>> \in Seq(RowRecords) /\ DOMAIN <<>> = {} /\ NoIndex \in [Apps -> Nat]
    BY DEF NoIndex
  <2> QED BY <1>2, <1>3, <2>1, <2>2, BeginKeeps
<1>5. ASSUME NEW cached \in {{}, {1}}, StartList(cached) PROVE IInv'
  <2>1. /\ Begin(AllApps, cached, FALSE) /\ rows' = RowsOf(AllApps, session + 1, FALSE)
        /\ index' = IndexOf(AllApps) /\ base' = base /\ marked' = marked /\ used' = used
    BY <1>5 DEF StartList, targets
  <2>2. session + 1 \in Sessions
    BY <1>1, <2>1 DEF Begin
  <2>3. rows' \in Seq(RowRecords) /\ \A i \in DOMAIN rows' : rows'[i].from = session + 1
    <3> DEFINE own == RowsOf(AllApps, session + 1, FALSE)
    <3>1. own \in Seq(RowRecords) /\ \A i \in DOMAIN own : own[i].from = session + 1
      <4>1. \A final \in BOOLEAN :
              LET some == RowsOf(AllApps, session + 1, final)
              IN  some \in Seq(RowRecords) /\ \A i \in DOMAIN some : some[i].from = session + 1
        BY <1>2, <2>2, RowsOfFits
      <4> QED BY <4>1, Zenon
    <3> HIDE DEF own
    <3> QED BY <3>1, <2>1 DEF own
  <2>4. index' \in [Apps -> Nat]
    BY <1>2, <2>1, IndexOfFits
  <2>5. cached \in SUBSET Apps
    BY <1>2
  <2> QED BY <1>1, <1>2, <1>3, <2>1, <2>3, <2>4, <2>5, BeginKeeps
<1> QED BY <1>4, <1>5 DEF Start

LEMMA RecheckKeeps ==
  ASSUME IInv, NEW S \in SUBSET Apps, Recheck(S)
  PROVE  IInv'
<1> DEFINE wanted == Picked(S, AppsIn(rows))
<1>1. /\ state = "idle" /\ wanted # <<>> /\ Begin(wanted, {}, TRUE)
      /\ index' = IndexOf(wanted) /\ base' = rows /\ marked' = TRUE
      /\ used' = [used EXCEPT !.rechecks = @ + 1] /\ rows' = rows /\ startDue' = startDue
  BY DEF Recheck
<1>2. rows \in Seq(RowRecords) /\ startDue \in BOOLEAN /\ used \in [rechecks : Nat, pauses : Nat]
  BY DEF IInv, TypeOK, Carried
<1>3. AppsIn(rows) \in Seq(Apps) /\ Len(AppsIn(rows)) = Len(rows)
  BY <1>2, AppsInFits
<1>4. wanted \in Seq(Apps) /\ AppsIn(rows) # <<>>
  BY <1>1, <1>3, PickedFits
<1>5. rows # <<>>
  BY <1>2, <1>3, <1>4
<1> HIDE DEF wanted
<1>6. IndexOf(wanted) \in [Apps -> Nat]
  BY <1>4, IndexOfFits
<1>7. \A i \in DOMAIN rows : rows[i].from <= session
  BY DEF IInv, RowsAreOld
<1>8. used' \in [rechecks : Nat, pauses : Nat] /\ used'.rechecks # 0
  BY <1>1, <1>2
<1> QED BY <1>1, <1>2, <1>4, <1>5, <1>6, <1>7, <1>8, BeginKeeps

(* Cancelling an audit changes nothing else of it. *)
LEMMA CancelFits ==
  ASSUME TypeOK, session \in Sessions,
         audit' = [audit EXCEPT ![session].cancel = TRUE, ![session].paused = FALSE]
  PROVE  /\ audit' \in [Sessions -> AuditRecords]
         /\ \A s \in Sessions : /\ audit'[s].step = audit[s].step
                                /\ audit'[s].targeted = audit[s].targeted
                                /\ audit'[s].outcome = audit[s].outcome
<1> DEFINE record == [audit[session] EXCEPT !.cancel = TRUE, !.paused = FALSE]
<1>1. audit \in [Sessions -> AuditRecords] /\ audit[session] \in AuditRecords
  BY DEF TypeOK
<1>2. /\ record \in AuditRecords /\ record.step = audit[session].step
      /\ record.targeted = audit[session].targeted /\ record.outcome = audit[session].outcome
  BY <1>1 DEF AuditRecords
<1>3. audit' = [audit EXCEPT ![session] = record]
  BY <1>1
<1> HIDE DEF record
<1> QED BY <1>1, <1>2, <1>3

(* Pause, Resume and Stop: the audit stays the active one. *)
LEMMA ControlKeeps ==
  ASSUME IInv, Pause \/ Resume \/ Stop
  PROVE  IInv'
<1>1. /\ state \in {"running", "paused"} /\ state' \in {"running", "paused", "stopping"}
      /\ UNCHANGED <<source, session, finalizing, rows, incomplete, index, indexed, base, marked,
                     inventory, history, startDue, queue, timers, ended>>
      /\ requested' \in {requested, "stopped"}
      /\ \/ stopped' = stopped /\ requested' = requested
         \/ stopped' = stopped \cup {session} /\ requested' = "stopped"
  BY DEF Pause, Resume, Stop, view, targets, saved
<1>2. session \in Sessions /\ session \in Nat /\ ended[session] = "none"
  BY <1>1, SessionsAreNumbers DEF IInv, Numbered, Active
<1>3. audit \in [Sessions -> AuditRecords]
  BY DEF IInv, TypeOK
<1>4. /\ audit' \in [Sessions -> AuditRecords]
      /\ \A s \in Sessions : /\ audit'[s].step = audit[s].step
                             /\ audit'[s].targeted = audit[s].targeted
                             /\ audit'[s].outcome = audit[s].outcome
  <2>1. CASE Pause BY <2>1, <1>2, <1>3 DEF Pause, AuditRecords
  <2>2. CASE Resume BY <2>2, <1>2, <1>3 DEF Resume, AuditRecords
  <2>3. CASE Stop BY <2>3, <1>2, CancelFits DEF Stop, IInv
  <2> QED BY <2>1, <2>2, <2>3
<1>5. used' \in [rechecks : Nat, pauses : Nat] /\ used'.rechecks = used.rechecks
  BY DEF IInv, Carried, Pause, Resume, Stop
<1>6. TypeOK'
  BY <1>1, <1>2, <1>4 DEF IInv, TypeOK, States
<1>7. Carried'
  BY <1>1, <1>4, <1>5 DEF IInv, Carried
<1>8. Numbered'
  <2>1. \A s \in stopped' : s <= session
    BY <1>1, <1>2 DEF IInv, Numbered
  <2> QED BY <1>1, <1>2, <1>4, <2>1 DEF IInv, Numbered, Active
<1>9. ResultsOnce'
  BY <1>1, <1>4, SignalsFrame
<1>10. ResultsAwaited'
  BY <1>1 DEF IInv, ResultsAwaited, IsResult, Active
<1>11. CleanWhenIdle' /\ OnlyOwnRows' /\ ExportIsFinal'
  BY <1>1, <1>2, <1>4 DEF IInv, CleanWhenIdle, OnlyOwnRows, ExportIsFinal, Active, Exportable
<1>12. RowsAreOld' /\ InventoryIsCurrent'
  BY <1>1 DEF IInv, RowsAreOld, InventoryIsCurrent, Active
<1>13. FullStopsAreKept'
  BY <1>1, <1>2, <1>4 DEF IInv, TypeOK, FullStopsAreKept
<1>14. UntilRecheck'
  BY <1>1, <1>4, <1>5 DEF IInv, UntilRecheck, NoRecheck, OnlySuccessIsSaved, FinishedIsExportable
<1> QED BY <1>6, <1>7, <1>8, <1>9, <1>10, <1>11, <1>12, <1>13, <1>14 DEF IInv

(* A step of an idle window that loads or clears: what is shown goes or stays. *)
LEMMA IdleKeeps ==
  ASSUME IInv, state = "idle", source' \in {"file", "device", "local"},
         UNCHANGED <<control, base, marked, history, queue, timers, audit, ended, stopped, used>>,
         \/ UNCHANGED <<rows, incomplete>>
         \/ rows' = <<>> /\ incomplete' = FALSE,
         index' = NoIndex, indexed' = 0, startDue' \in BOOLEAN,
         inventory' = 0 \/ UNCHANGED <<inventory, source>>
  PROVE  IInv'
<1> USE DEF control
<1>1. <<>> \in Seq(RowRecords) /\ DOMAIN <<>> = {} /\ NoIndex \in [Apps -> Nat]
  BY DEF NoIndex
<1>2. MaxSession \in Nat
  BY ConstantsAssumption
<1>3. TypeOK'
  <2>1. rows' \in Seq(RowRecords)
    BY <1>1 DEF IInv, TypeOK
  <2>2. incomplete' \in BOOLEAN
    BY DEF IInv, TypeOK
  <2>3. inventory' \in 0..MaxSession
    BY <1>2 DEF IInv, TypeOK
  <2> QED BY <1>1, <1>2, <2>1, <2>2, <2>3 DEF IInv, TypeOK
<1>4. Carried' /\ Numbered' /\ ResultsOnce' /\ ResultsAwaited'
  BY DEF IInv, Carried, Numbered, ResultsOnce, ResultsAwaited, IsResult, Active
<1>5. CleanWhenIdle' /\ OnlyOwnRows' /\ ExportIsFinal'
  BY DEF IInv, CleanWhenIdle, OnlyOwnRows, ExportIsFinal, Active, Exportable
<1>6. RowsAreOld' /\ InventoryIsCurrent' /\ FullStopsAreKept'
  BY <1>1 DEF IInv, RowsAreOld, InventoryIsCurrent, FullStopsAreKept, Active
<1>7. UntilRecheck'
  BY DEF IInv, UntilRecheck, NoRecheck, OnlySuccessIsSaved, FinishedIsExportable, Exportable
<1> QED BY <1>3, <1>4, <1>5, <1>6, <1>7 DEF IInv

LEMMA ChooseAndClearKeep ==
  ASSUME IInv, ChooseApks \/ Clear
  PROVE  IInv'
<1>1. source \in {"file", "device", "local"} /\ startDue \in BOOLEAN
  BY DEF IInv, TypeOK
<1>2. CASE ChooseApks
  BY <1>2, IdleKeeps DEF ChooseApks, targets
<1>3. CASE Clear
  BY <1>1, <1>3, IdleKeeps DEF Clear, targets, saved
<1> QED BY <1>2, <1>3

(* A list dropped during an audit abandons it: its number is used up, and the *)
(* window idles under the next one, for which no worker speaks.               *)
LEMMA LoadFileKeeps ==
  ASSUME IInv, LoadFile
  PROVE  IInv'
<1>1. /\ source' = "file" /\ index' = NoIndex /\ indexed' = 0 /\ inventory' = 0
      /\ startDue' = TRUE /\ UNCHANGED <<history, queue, timers, stopped, used>>
      /\ \/ UNCHANGED <<rows, incomplete>>
         \/ rows' = <<>> /\ incomplete' = FALSE
  BY DEF LoadFile
<1>2. CASE state = "idle"
  BY <1>1, <1>2, IdleKeeps DEF LoadFile, Abandon, control, targets
<1>3. CASE state # "idle"
  <2>1. /\ session < MaxSession /\ session' = session + 1 /\ requested' = "abandoned"
        /\ ended' = [ended EXCEPT ![session] = "abandoned"]
        /\ audit' = [audit EXCEPT ![session].cancel = TRUE, ![session].paused = FALSE]
        /\ finalizing' = 0 /\ base' = <<>> /\ marked' = FALSE /\ state' = "idle"
    BY <1>3 DEF LoadFile, Abandon
  <2>2. /\ session \in Sessions /\ session \in Nat /\ ended[session] = "none"
        /\ MaxSession \in Nat /\ session' \in Sessions /\ session' \in 0..MaxSession
        /\ session' # session
    BY <1>3, <2>1, SessionsAreNumbers DEF IInv, Numbered, Active, Sessions
  <2>3. audit \in [Sessions -> AuditRecords] /\ ended \in [Sessions -> Outcomes]
    BY DEF IInv, TypeOK
  <2>4. /\ audit' \in [Sessions -> AuditRecords]
        /\ \A s \in Sessions : /\ audit'[s].step = audit[s].step
                               /\ audit'[s].targeted = audit[s].targeted
                               /\ audit'[s].outcome = audit[s].outcome
    BY <2>1, <2>2, CancelFits DEF IInv
  <2>5. /\ ended' \in [Sessions -> Outcomes] /\ ended'[session] = "abandoned"
        /\ \A s \in Sessions : s # session => ended'[s] = ended[s]
    BY <2>1, <2>2, <2>3 DEF Outcomes
  <2>6. <<>> \in Seq(RowRecords) /\ DOMAIN <<>> = {} /\ NoIndex \in [Apps -> Nat]
    BY DEF NoIndex
  <2>7. audit[session'].step = "none" /\ session' \notin stopped
    BY <2>1, <2>2 DEF IInv, Numbered
  <2>8. rows' \in Seq(RowRecords) /\ incomplete' \in BOOLEAN
    <3>1. rows' \in Seq(RowRecords)
      BY <1>1, <2>6 DEF IInv, TypeOK
    <3>2. incomplete' \in BOOLEAN
      BY <1>1 DEF IInv, TypeOK
    <3> QED BY <3>1, <3>2
  <2>9. TypeOK'
    <3>1. 0 \in 0..MaxSession
      BY <2>2
    <3> QED BY <1>1, <2>1, <2>2, <2>4, <2>5, <2>6, <2>8, <3>1 DEF IInv, TypeOK, States
  <2>10. Carried'
    BY <1>1, <2>4 DEF IInv, Carried
  <2>11. Numbered'
    <3>1. \A s \in Sessions : s > session' => s > session /\ s # session
      BY <2>1, <2>2, SessionsAreNumbers DEF IInv
    <3>2. \A s \in stopped : s <= session'
      BY <2>1, <2>2, SessionsAreNumbers DEF IInv, TypeOK, Numbered
    <3> QED BY <1>1, <2>1, <2>4, <2>5, <3>1, <3>2 DEF IInv, Numbered, Active
  <2>12. ResultsOnce'
    BY <1>1, <2>4, SignalsFrame
  <2>13. ResultsAwaited'
    <3>1. \A i \in DOMAIN queue : IsResult(i) => queue[i].session # session'
      BY <2>7 DEF IInv, ResultsOnce
    <3>2. \A r \in timers : r.session # session'
      BY <2>7 DEF IInv, ResultsOnce
    <3> QED BY <1>1, <2>2, <2>4, <2>7, <3>1, <3>2 DEF ResultsAwaited, IsResult
  <2>14. CleanWhenIdle' /\ OnlyOwnRows'
    BY <2>1 DEF CleanWhenIdle, OnlyOwnRows, Active
  <2>15. incomplete
    BY <1>3 DEF IInv, RowsAreOld, Active
  <2>16. ExportIsFinal'
    BY <1>1, <2>15 DEF ExportIsFinal, Exportable
  <2>17. RowsAreOld'
    <3>1. \A i \in DOMAIN rows : rows[i].from <= session /\ rows[i].from \in Nat
      <4>1. \A i \in DOMAIN rows : rows[i] \in RowRecords
        BY DEF IInv, TypeOK
      <4>2. \A i \in DOMAIN rows : rows[i].from \in Nat
        BY <4>1, SessionsAreNumbers DEF IInv, RowRecords
      <4> QED BY <4>2 DEF IInv, RowsAreOld
    <3>2. \A i \in DOMAIN rows' : rows'[i].from <= session'
      BY <1>1, <2>1, <2>2, <2>6, <3>1
    <3> QED BY <2>1, <2>6, <3>2 DEF RowsAreOld, Active
  <2>18. InventoryIsCurrent' /\ FullStopsAreKept'
    BY <1>1, <2>4, <2>5 DEF IInv, TypeOK, InventoryIsCurrent, FullStopsAreKept
  <2>19. UntilRecheck'
    <3> SUFFICES ASSUME NoRecheck'
                 PROVE  /\ ~marked' /\ \A s \in Sessions : ~audit'[s].targeted
                        /\ \A p \in Apps : history'[p] # 0 => ended'[history'[p]] = "success"
                        /\ FinishedIsExportable'
      BY DEF UntilRecheck, OnlySuccessIsSaved
    <3>0. NoRecheck
      BY <1>1 DEF NoRecheck
    <3>1. /\ \A s \in Sessions : ~audit[s].targeted
          /\ \A p \in Apps : history[p] # 0 => ended[history[p]] = "success"
      BY <3>0 DEF IInv, UntilRecheck, OnlySuccessIsSaved
    <3>2. \A p \in Apps : history[p] # 0 => history[p] \in Sessions /\ history[p] # session
      <4>1. \A p \in Apps : history[p] \in 0..MaxSession
        BY DEF IInv, TypeOK
      <4> QED BY <4>1, <3>1, <2>2 DEF Sessions
    <3>3. \A i \in DOMAIN rows : rows[i].from = session
      BY <1>3, <2>2, <3>1 DEF IInv, OnlyOwnRows, Active
    <3>4. FinishedIsExportable'
      <4>1. CASE rows' = <<>> BY <4>1 DEF FinishedIsExportable
      <4>2. CASE rows' = rows /\ rows # <<>>
        <5>1. 1 \in DOMAIN rows
          BY <4>2 DEF IInv, TypeOK
        <5> QED BY <4>2, <5>1, <3>3, <2>5 DEF FinishedIsExportable
      <4> QED BY <4>1, <4>2, <1>1
    <3> QED BY <1>1, <2>1, <2>4, <2>5, <3>1, <3>2, <3>4
  <2> QED BY <2>9, <2>10, <2>11, <2>12, <2>13, <2>14, <2>16, <2>17, <2>18, <2>19 DEF IInv
<1> QED BY <1>2, <1>3

LEMMA UserStepKeeps ==
  ASSUME IInv, UserStep
  PROVE  IInv'
<1>1. ASSUME Run PROVE IInv'
  <2>1. startDue' \in BOOLEAN
    BY <1>1 DEF Run, IInv, TypeOK
  <2> QED BY <1>1, <2>1, StartKeeps DEF Run
<1> QED BY <1>1, ControlKeeps, LoadFileKeeps, ChooseAndClearKeep, RecheckKeeps DEF UserStep

-----------------------------------------------------------------------------
(* Signals and timers of the window. *)

LEMMA TakenFits ==
  ASSUME IInv, Taken
  PROVE  /\ Signal \in RowSignals \cup Results /\ Signal = queue[1] /\ 1 \in DOMAIN queue
         /\ queue' \in Seq(RowSignals \cup Results)
         /\ \A i \in DOMAIN queue' : /\ i + 1 \in DOMAIN queue /\ i + 1 # 1
                                     /\ queue'[i] = queue[i + 1] /\ i \in Nat
         /\ Signal.kind = "row" => Signal \in RowSignals
         /\ Signal.kind = "done" => Signal \in Results
         /\ \A i \in DOMAIN queue' : queue'[i].session \in Sessions
                                     /\ queue'[i].kind \in {"row", "done"}
<1>1. queue \in Seq(RowSignals \cup Results) /\ queue # <<>> /\ queue' = Tail(queue)
  BY DEF IInv, Carried, Taken
<1>2. /\ Tail(queue) \in Seq(RowSignals \cup Results) /\ Head(queue) \in RowSignals \cup Results
      /\ Head(queue) = queue[1] /\ 1 \in DOMAIN queue
      /\ \A i \in DOMAIN Tail(queue) : /\ i \in Nat /\ i + 1 # 1 /\ i + 1 \in DOMAIN queue
                                       /\ Tail(queue)[i] = queue[i + 1]
  BY <1>1, TailShifts
<1>3. /\ \A g \in RowSignals : g.kind = "row" /\ g.session \in Sessions
      /\ \A g \in Results : g.kind = "done" /\ g.session \in Sessions
  BY DEF RowSignals, Results
<1>4. \A i \in DOMAIN queue' : queue'[i] \in RowSignals \cup Results
  BY <1>1, <1>2
<1> QED BY <1>1, <1>2, <1>3, <1>4 DEF Signal

(* A row is only ever shown for the audit it belongs to. *)
LEMMA TakeRowKeeps ==
  ASSUME IInv, TakeRow
  PROVE  IInv'
<1> USE DEF control, targets, saved
<1>1. /\ UNCHANGED <<source, control, incomplete, targets, saved, startDue, timers, audit,
                     ended, stopped, used>>
      /\ Taken /\ Signal.kind = "row"
  BY DEF TakeRow
<1>2. Signal \in RowSignals /\ Signal.session \in Sessions /\ Signal.app \in Apps
  BY <1>1, TakenFits DEF RowSignals
<1>3. rows \in Seq(RowRecords) /\ index \in [Apps -> Nat] /\ session \in Nat
      /\ indexed \in 0..MaxSession
  BY SessionsAreNumbers DEF IInv, TypeOK
<1>4. /\ rows' \in Seq(RowRecords) /\ index' \in [Apps -> Nat] /\ indexed' \in 0..MaxSession
      /\ \/ rows' = rows
         \/ /\ Active
            /\ \A i \in DOMAIN rows' : \/ rows'[i].from = session
                                       \/ i \in DOMAIN rows /\ rows'[i] = rows[i]
  <2>1. CASE ~RowIsCurrent
    BY <2>1, <1>3 DEF TakeRow
  <2>2. CASE RowIsCurrent
    <3> DEFINE idx == IF indexed = session THEN index ELSE IndexOf(AppsIn(rows))
               row == Row(Signal.app, Signal.session, FALSE)
    <3>1. Signal.session = session /\ Active
      BY <2>2 DEF RowIsCurrent
    <3>2. row \in RowRecords /\ row.from = session /\ row.app \in Apps
      BY <3>1, <1>2 DEF Row, RowRecords
    <3>3. idx \in [Apps -> Nat]
      BY <1>3, AppsInFits, IndexOfFits
    <3>4. indexed' = session
          /\ \/ rows' = Append(rows, row) /\ index' = [idx EXCEPT ![row.app] = Len(rows) + 1]
             \/ rows' = [rows EXCEPT ![idx[row.app]] = row] /\ index' = idx
      BY <2>2 DEF TakeRow
    <3> HIDE DEF idx, row
    <3>5. Len(rows) + 1 \in Nat /\ session \in 0..MaxSession
      BY <1>3 DEF IInv, TypeOK
    <3>6. CASE rows' = Append(rows, row)
      <4>1. /\ rows' \in Seq(RowRecords)
            /\ DOMAIN rows' = DOMAIN rows \cup {Len(rows) + 1}
            /\ rows'[Len(rows) + 1] = row
            /\ \A i \in DOMAIN rows : rows'[i] = rows[i]
        BY <3>6, <3>2, <1>3, AppendAdds
      <4> QED BY <4>1, <3>1, <3>2, <3>3, <3>4, <3>5
    <3>7. CASE rows' = [rows EXCEPT ![idx[row.app]] = row]
      <4>1. rows' \in Seq(RowRecords) /\ DOMAIN rows' = DOMAIN rows
        <5>1. rows \in [1..Len(rows) -> RowRecords] /\ Len(rows) \in Nat
          BY <1>3
        <5>2. rows' \in [1..Len(rows) -> RowRecords]
          BY <5>1, <3>7, <3>2
        <5> QED BY <5>1, <5>2
      <4>2. \A i \in DOMAIN rows' : rows'[i] = row \/ rows'[i] = rows[i]
        BY <3>7, <4>1
      <4> QED BY <4>1, <4>2, <3>1, <3>2, <3>3, <3>4, <3>5
    <3> QED BY <3>4, <3>6, <3>7
  <2> QED BY <2>1, <2>2
<1>5. TypeOK'
  BY <1>1, <1>4, TakenFits DEF IInv, TypeOK
<1>6. Carried'
  BY <1>1, TakenFits DEF IInv, Carried
<1>7. Numbered' /\ CleanWhenIdle' /\ InventoryIsCurrent' /\ FullStopsAreKept'
  BY <1>1 DEF IInv, Numbered, CleanWhenIdle, InventoryIsCurrent, FullStopsAreKept, Active
<1>8. \A i \in DOMAIN queue' : IsResult(i)' => IsResult(i + 1) /\ queue'[i] = queue[i + 1]
  BY <1>1, TakenFits DEF IsResult
<1>9. ResultsOnce'
  <2>1. ASSUME NEW i \in DOMAIN queue', NEW j \in DOMAIN queue', IsResult(i)', IsResult(j)',
               queue'[i].session = queue'[j].session
        PROVE  i = j
    <3>1. i \in Nat /\ j \in Nat /\ i + 1 \in DOMAIN queue /\ j + 1 \in DOMAIN queue
      BY <1>1, TakenFits
    <3>2. i + 1 = j + 1
      BY <2>1, <3>1, <1>8 DEF IInv, ResultsOnce
    <3> QED BY <3>1, <3>2
  <2>2. ASSUME NEW i \in DOMAIN queue', IsResult(i)'
        PROVE  /\ audit'[queue'[i].session].step = "ended"
               /\ \A r \in timers' : r.session # queue'[i].session
    <3>1. i + 1 \in DOMAIN queue
      BY <1>1, TakenFits
    <3> QED BY <1>1, <2>2, <3>1, <1>8 DEF IInv, ResultsOnce
  <2> QED BY <2>1, <2>2, <1>1 DEF IInv, ResultsOnce
<1>10. ResultsAwaited'
  <2>1. ASSUME NEW i \in DOMAIN queue', IsResult(i)', queue'[i].session = session
        PROVE  Active
    <3>1. i + 1 \in DOMAIN queue
      BY <1>1, TakenFits
    <3> QED BY <2>1, <3>1, <1>8 DEF IInv, ResultsAwaited
  <2> QED BY <1>1, <2>1 DEF IInv, ResultsAwaited, Active
<1>11. OnlyOwnRows' /\ ExportIsFinal'
  BY <1>1, <1>4 DEF IInv, OnlyOwnRows, ExportIsFinal, Active, Exportable
<1>12. RowsAreOld'
  <2>1. \A i \in DOMAIN rows' : rows'[i].from <= session
    BY <1>3, <1>4 DEF IInv, RowsAreOld
  <2> QED BY <1>1, <2>1 DEF IInv, RowsAreOld, Active
<1>13. UntilRecheck'
  <2>1. FinishedIsExportable => FinishedIsExportable'
    BY <1>1, <1>4 DEF FinishedIsExportable, Exportable, Active
  <2> QED BY <1>1, <2>1 DEF IInv, UntilRecheck, NoRecheck, OnlySuccessIsSaved
<1> QED BY <1>5, <1>6, <1>7, <1>9, <1>10, <1>11, <1>12, <1>13 DEF IInv

(* The result of the current audit is taken once; any other is dropped. *)
LEMMA TakeDoneKeeps ==
  ASSUME IInv, TakeDone
  PROVE  IInv'
<1> USE DEF targets, saved
<1>1. /\ UNCHANGED <<source, session, requested, rows, incomplete, targets, saved, startDue,
                     ended, stopped, used>>
      /\ Taken /\ Signal.kind = "done"
  BY DEF TakeDone
<1>2. Signal \in Results /\ Signal.session \in Sessions /\ IsResult(1) /\ Signal = queue[1]
  BY <1>1, TakenFits DEF Results, IsResult
<1>3. \A i \in DOMAIN queue' : IsResult(i)' => /\ IsResult(i + 1) /\ queue'[i] = queue[i + 1]
                                              /\ i + 1 # 1 /\ i + 1 \in DOMAIN queue
  BY <1>1, TakenFits DEF IsResult
<1>4. \A i \in DOMAIN queue' : IsResult(i)' => queue'[i].session # Signal.session
  <2> SUFFICES ASSUME NEW i \in DOMAIN queue', IsResult(i)', queue'[i].session = Signal.session
               PROVE  FALSE
    OBVIOUS
  <2>1. /\ IsResult(i + 1) /\ queue'[i] = queue[i + 1] /\ i + 1 # 1 /\ i + 1 \in DOMAIN queue
    BY <1>3
  <2>2. 1 \in DOMAIN queue
    BY <1>2 DEF IsResult
  <2> QED BY <2>1, <2>2, <1>2 DEF IInv, ResultsOnce
<1>5. \A i \in DOMAIN queue', j \in DOMAIN queue' :
        IsResult(i)' /\ IsResult(j)' /\ queue'[i].session = queue'[j].session => i = j
  <2> SUFFICES ASSUME NEW i \in DOMAIN queue', NEW j \in DOMAIN queue',
                      IsResult(i)', IsResult(j)', queue'[i].session = queue'[j].session
               PROVE  i = j
    OBVIOUS
  <2>1. i \in Nat /\ j \in Nat
    BY <1>1, TakenFits
  <2>2. i + 1 = j + 1
    BY <1>3 DEF IInv, ResultsOnce
  <2> QED BY <2>1, <2>2
<1>6. \A i \in DOMAIN queue' : IsResult(i)' =>
        audit[queue'[i].session].step = "ended" /\ \A r \in timers : r.session # queue'[i].session
  BY <1>3 DEF IInv, ResultsOnce
<1>7. Carried' /\ audit' \in [Sessions -> AuditRecords]
      /\ \A s \in Sessions : /\ audit'[s].step = audit[s].step
                             /\ audit'[s].targeted = audit[s].targeted
                             /\ audit'[s].outcome = audit[s].outcome
  <2>1. audit \in [Sessions -> AuditRecords]
    BY DEF IInv, TypeOK
  <2>2. audit' \in [Sessions -> AuditRecords]
        /\ \A s \in Sessions : /\ audit'[s].step = audit[s].step
                               /\ audit'[s].targeted = audit[s].targeted
                               /\ audit'[s].outcome = audit[s].outcome
    <3>1. CASE audit' = audit
      BY <3>1, <2>1
    <3>2. CASE session \in Sessions /\ audit' = [audit EXCEPT ![session].paused = FALSE]
      BY <3>2, <2>1 DEF AuditRecords
    <3> QED BY <3>1, <3>2, <1>2 DEF TakeDone
  <2>3. timers' \subseteq Results /\ queue' \in Seq(RowSignals \cup Results)
    BY <1>1, <1>2, TakenFits DEF TakeDone, IInv, Carried
  <2> QED BY <1>1, <2>2, <2>3 DEF IInv, Carried
<1>8. CASE Signal.session # session
  <2>1. UNCHANGED <<state, finalizing, index, indexed, timers, audit>>
    BY <1>8 DEF TakeDone
  <2>2. TypeOK'
    BY <1>1, <2>1, TakenFits DEF IInv, TypeOK
  <2>3. ResultsOnce'
    BY <1>5, <1>6, <2>1 DEF IInv, ResultsOnce
  <2>4. ResultsAwaited'
    BY <1>1, <1>3, <2>1 DEF IInv, ResultsAwaited, Active
  <2>5. Numbered' /\ CleanWhenIdle' /\ OnlyOwnRows' /\ ExportIsFinal'
    BY <1>1, <2>1 DEF IInv, Numbered, CleanWhenIdle, OnlyOwnRows, ExportIsFinal, Active, Exportable
  <2>6. RowsAreOld' /\ InventoryIsCurrent' /\ FullStopsAreKept'
    BY <1>1, <2>1 DEF IInv, RowsAreOld, InventoryIsCurrent, FullStopsAreKept, Active
  <2>7. UntilRecheck'
    BY <1>1, <2>1 DEF IInv, UntilRecheck, NoRecheck, OnlySuccessIsSaved, FinishedIsExportable, Exportable
  <2> QED BY <1>7, <2>2, <2>3, <2>4, <2>5, <2>6, <2>7 DEF IInv
<1>9. CASE Signal.session = session
  <2>1. /\ index' = NoIndex /\ indexed' = 0 /\ finalizing' = session
        /\ state' = "finalizing" /\ timers' = timers \cup {Signal}
    BY <1>9 DEF TakeDone
  <2>2. Active /\ session \in Sessions /\ session # 0 /\ session \in Nat
    <3>1. 1 \in DOMAIN queue
      BY <1>2 DEF IsResult
    <3>2. Active
      BY <1>2, <1>9, <3>1 DEF IInv, ResultsAwaited
    <3> QED BY <3>2, SessionsAreNumbers DEF IInv, Numbered
  <2>3. audit[session].step = "ended" /\ \A r \in timers : r.session # session
    <3>1. 1 \in DOMAIN queue
      BY <1>2 DEF IsResult
    <3> QED BY <1>2, <1>9, <3>1 DEF IInv, ResultsOnce
  <2>4. TypeOK'
    <3>1. \A r \in timers' : r.session \in Sessions /\ r.outcome \in Outcomes
      BY <1>2, <2>1 DEF IInv, TypeOK, Results, Outcomes
    <3>2. index' \in [Apps -> Nat] /\ 0 \in 0..MaxSession /\ session \in 0..MaxSession
      BY <2>1, ConstantsAssumption DEF NoIndex, IInv, TypeOK
    <3> QED BY <1>1, <1>7, <2>1, <3>1, <3>2, TakenFits DEF IInv, TypeOK, States
  <2>5. ResultsOnce'
    <3>1. \A r \in timers' : r \in timers \/ r = Signal
      BY <2>1
    <3>2. \A r \in timers : r.session \in Sessions
      BY DEF IInv, TypeOK
    <3>3. \A r \in timers' : audit'[r.session].step = "ended"
      BY <1>2, <1>7, <1>9, <2>3, <3>1, <3>2 DEF IInv, ResultsOnce
    <3>4. \A r, q \in timers' : r.session = q.session => r = q
      BY <1>9, <2>3, <3>1 DEF IInv, ResultsOnce
    <3>5. \A i \in DOMAIN queue' : IsResult(i)' =>
            audit'[queue'[i].session].step = "ended"
              /\ \A r \in timers' : r.session # queue'[i].session
      <4>1. \A i \in DOMAIN queue' : queue'[i].session \in Sessions
        BY <1>1, TakenFits
      <4> QED BY <1>4, <1>6, <1>7, <3>1, <4>1
    <3> QED BY <1>5, <3>3, <3>4, <3>5 DEF ResultsOnce
  <2>6. ResultsAwaited'
    BY <1>1, <2>1 DEF ResultsAwaited, Active
  <2>7. Numbered'
    BY <1>1, <1>7, <2>1, <2>2 DEF IInv, Numbered, Active
  <2>8. CleanWhenIdle' /\ OnlyOwnRows' /\ ExportIsFinal'
    BY <1>1, <1>7, <1>9, <2>1, <2>2
    DEF IInv, CleanWhenIdle, OnlyOwnRows, ExportIsFinal, Active, Exportable
  <2>9. RowsAreOld' /\ InventoryIsCurrent'
    BY <1>1, <2>1, <2>2 DEF IInv, RowsAreOld, InventoryIsCurrent, Active
  <2>10. FullStopsAreKept'
    BY <1>1, <1>7 DEF IInv, TypeOK, FullStopsAreKept
  <2>11. UntilRecheck'
    BY <1>1, <1>7, <2>1 DEF IInv, UntilRecheck, NoRecheck, OnlySuccessIsSaved, FinishedIsExportable
  <2> QED BY <1>7, <2>4, <2>5, <2>6, <2>7, <2>8, <2>9, <2>10, <2>11 DEF IInv
<1> QED BY <1>8, <1>9

-----------------------------------------------------------------------------
(* Finalization. *)

(* A timer that fires late finds another audit, or none, to finalize. *)
LEMMA FinalizeStaleKeeps ==
  ASSUME IInv, NEW r \in timers, FinalizeStale(r)
  PROVE  IInv'
<1> USE DEF control, view, targets, saved
<1>1. /\ timers' = timers \ {r} /\ (r.session # session \/ finalizing # r.session)
      /\ UNCHANGED <<source, control, view, targets, saved, startDue, queue, audit, ended,
                     stopped, used>>
  BY DEF FinalizeStale
<1>2. r.session # session
  <2>1. r.session = session => finalizing = session
    BY DEF IInv, ResultsAwaited, CleanWhenIdle
  <2> QED BY <1>1, <2>1
<1>3. TypeOK' /\ Carried' /\ Numbered' /\ ResultsOnce' /\ ResultsAwaited'
  <2>1. timers' \subseteq timers
    BY <1>1
  <2>2. TypeOK'
    BY <1>1, <2>1 DEF IInv, TypeOK
  <2>3. Carried' /\ Numbered'
    BY <1>1, <2>1 DEF IInv, Carried, Numbered, Active
  <2>4. ResultsOnce'
    BY <1>1, <2>1 DEF IInv, ResultsOnce, IsResult
  <2>5. ResultsAwaited'
    BY <1>1, <2>1 DEF IInv, ResultsAwaited, IsResult, Active
  <2> QED BY <2>2, <2>3, <2>4, <2>5
<1>4. CleanWhenIdle'
  BY <1>1, <1>2 DEF IInv, CleanWhenIdle, Active
<1>5. OnlyOwnRows' /\ ExportIsFinal' /\ RowsAreOld' /\ InventoryIsCurrent' /\ FullStopsAreKept'
  BY <1>1 DEF IInv, OnlyOwnRows, ExportIsFinal, RowsAreOld, InventoryIsCurrent, FullStopsAreKept,
              Active, Exportable
<1>6. UntilRecheck'
  BY <1>1 DEF IInv, UntilRecheck, NoRecheck, OnlySuccessIsSaved, FinishedIsExportable, Exportable
<1> QED BY <1>3, <1>4, <1>5, <1>6 DEF IInv

\* The outcome a finalization takes a result for.
OutcomeOf(r) == IF base # <<>> THEN r.outcome ELSE Authoritative(r)

(* What a finalization finds: the active audit, whose result comes once. *)
LEMMA FinalizationFinds ==
  ASSUME IInv, NEW r \in timers, NEW fault, NEW saves, Finalize(r, fault, saves)
  PROVE  /\ r.session = session /\ state = "finalizing" /\ Active
         /\ session \in Sessions /\ session \in Nat /\ session # 0 /\ ended[session] = "none"
         /\ inventory = 0 /\ incomplete
         /\ base # <<>> <=> audit[session].targeted
         /\ r \in Results /\ OutcomeOf(r) \in {"success", "stopped", "failed"}
         /\ OutcomeOf(r) = "success" => r.outcome = "success"
         /\ OutcomeOf(r) = "success" /\ session \in stopped => audit[session].targeted
         /\ \A i \in DOMAIN r.rows : r.rows[i].from = session
<1>1. r.session = session /\ r \in Results
  BY DEF Finalize, IInv, Carried
<1>2. state = "finalizing" /\ Active
  BY <1>1 DEF IInv, ResultsAwaited, Active
<1>3. session \in Sessions /\ session \in Nat /\ session # 0 /\ ended[session] = "none"
  BY <1>2, SessionsAreNumbers DEF IInv, Numbered
<1>4. inventory = 0 /\ incomplete /\ (session \in stopped => requested = "stopped")
  BY <1>2 DEF IInv, RowsAreOld
<1>5. base # <<>> <=> audit[session].targeted
  BY <1>2 DEF IInv, CleanWhenIdle
<1>6. r.outcome \in {"success", "stopped", "failed"} /\ \A i \in DOMAIN r.rows : r.rows[i].from = session
  BY <1>1 DEF Results
<1>7. OutcomeOf(r) \in {r.outcome, "stopped"}
  BY DEF OutcomeOf, Authoritative
<1>8. OutcomeOf(r) = "success" /\ requested = "stopped" => base # <<>>
  BY DEF OutcomeOf, Authoritative
<1> QED BY <1>1, <1>2, <1>3, <1>4, <1>5, <1>6, <1>7, <1>8

(* What a finalization leaves. *)
LEMMA FinalizationLeaves ==
  ASSUME IInv, NEW r \in timers, NEW fault \in {"none"} \cup FaultPoints,
         NEW saves \in {"all", "history", "none"}, fault # "none" => saves = "none",
         Finalize(r, fault, saves)
  PROVE  /\ timers' = timers \ {r} /\ base' = <<>> /\ finalizing' = 0 /\ state' = "idle"
         /\ index' = NoIndex /\ indexed' = 0
         /\ UNCHANGED <<source, session, requested, startDue, queue, audit, stopped, used>>
         /\ marked' \in BOOLEAN /\ (~marked => ~marked')
         /\ ended' = [ended EXCEPT ![session] = IF fault = "none" THEN OutcomeOf(r) ELSE "failed"]
         /\ fault = "before rows" => rows' = rows
         /\ fault # "before rows" /\ base # <<>> => rows' = Merged(base, r.rows)
         /\ fault # "before rows" /\ base = <<>> => rows' = r.rows
         /\ incomplete' = IF base # <<>> \/ fault = "before rows" THEN incomplete
                          ELSE OutcomeOf(r) # "success"
         /\ \/ UNCHANGED history
            \/ /\ fault = "none" /\ OutcomeOf(r) = "success"
               /\ history' = HistoryOf(rows', base # <<>> \/ marked)
         /\ \/ inventory' = 0
            \/ /\ inventory' = session /\ source = "device"
               /\ fault = "none" /\ OutcomeOf(r) = "success"
<1>1. inventory = 0 /\ marked \in BOOLEAN
  BY FinalizationFinds DEF IInv, TypeOK
<1>2. /\ timers' = timers \ {r} /\ base' = <<>> /\ finalizing' = 0 /\ state' = "idle"
      /\ index' = NoIndex /\ indexed' = 0
      /\ UNCHANGED <<source, session, requested, startDue, queue, audit, stopped, used>>
      /\ marked' = (marked /\ fault \in {"before rows", "after rows"})
  BY DEF Finalize
<1>3. ended' = [ended EXCEPT ![session] = IF fault = "none" THEN OutcomeOf(r) ELSE "failed"]
  BY DEF Finalize, OutcomeOf
<1>4. /\ fault = "before rows" => rows' = rows
      /\ fault # "before rows" /\ base # <<>> => rows' = Merged(base, r.rows)
      /\ fault # "before rows" /\ base = <<>> => rows' = r.rows
  BY DEF Finalize
<1>5. incomplete' = IF base # <<>> \/ fault = "before rows" THEN incomplete
                    ELSE OutcomeOf(r) # "success"
  BY DEF Finalize, OutcomeOf, IncompleteAfter
<1>6. \/ UNCHANGED history
      \/ /\ fault = "none" /\ OutcomeOf(r) = "success"
         /\ history' = HistoryOf(rows', base # <<>> \/ marked)
  BY <1>4 DEF Finalize, OutcomeOf, Promotable
<1>7. \/ inventory' = 0
      \/ /\ inventory' = session /\ source = "device"
         /\ fault = "none" /\ OutcomeOf(r) = "success"
  BY <1>1 DEF Finalize, OutcomeOf, Promotable
<1>8. marked' \in BOOLEAN /\ (~marked => ~marked')
  BY <1>1, <1>2
<1> QED BY <1>2, <1>3, <1>4, <1>5, <1>6, <1>7, <1>8

LEMMA HistoryOfFits ==
  ASSUME TypeOK, NEW seq \in Seq(RowRecords), NEW merge \in BOOLEAN
  PROVE  /\ HistoryOf(seq, merge) \in [Apps -> 0..MaxSession]
         /\ \A p \in Apps : \/ HistoryOf(seq, merge)[p] = IF merge THEN history[p] ELSE 0
                            \/ \E i \in DOMAIN seq : HistoryOf(seq, merge)[p] = seq[i].from
<1>1. /\ \A i \in DOMAIN seq : seq[i] \in RowRecords
      /\ history \in [Apps -> 0..MaxSession] /\ MaxSession \in Nat
  BY ConstantsAssumption DEF TypeOK
<1>2. \A i \in DOMAIN seq : seq[i].from \in 0..MaxSession
  BY <1>1 DEF RowRecords, Sessions
<1> DEFINE last(p) == IF merge THEN history[p] ELSE 0
<1>3. ASSUME NEW p \in Apps
      PROVE  /\ RowOr(p, seq, [from |-> last(p)]).from \in 0..MaxSession
             /\ \/ RowOr(p, seq, [from |-> last(p)]).from = last(p)
                \/ \E i \in DOMAIN seq : RowOr(p, seq, [from |-> last(p)]).from = seq[i].from
  <2>1. last(p) \in 0..MaxSession
    BY <1>1
  <2> HIDE DEF last
  <2>2. \/ RowOr(p, seq, [from |-> last(p)]) = [from |-> last(p)]
        \/ \E i \in DOMAIN seq : RowOr(p, seq, [from |-> last(p)]) = seq[i]
    BY RowOrHolds
  <2> QED BY <2>1, <2>2, <1>2
<1>4. HistoryOf(seq, merge) = [p \in Apps |-> RowOr(p, seq, [from |-> last(p)]).from]
  BY DEF HistoryOf
<1> HIDE DEF last
<1>5. \A p \in Apps : \/ HistoryOf(seq, merge)[p] = last(p)
                      \/ \E i \in DOMAIN seq : HistoryOf(seq, merge)[p] = seq[i].from
  BY <1>3, <1>4
<1>6. HistoryOf(seq, merge) \in [Apps -> 0..MaxSession]
  BY <1>3, <1>4
<1> QED BY <1>5, <1>6 DEF last

LEMMA FinalizeKeeps ==
  ASSUME IInv, NEW r \in timers, NEW fault \in {"none"} \cup FaultPoints,
         NEW saves \in {"all", "history", "none"}, fault # "none" => saves = "none",
         Finalize(r, fault, saves)
  PROVE  IInv'
<1> DEFINE outcome == OutcomeOf(r)
           targeted == base # <<>>
<1>1. /\ timers' = timers \ {r} /\ base' = <<>> /\ finalizing' = 0 /\ state' = "idle"
      /\ index' = NoIndex /\ indexed' = 0
      /\ UNCHANGED <<source, session, requested, startDue, queue, audit, stopped, used>>
      /\ marked' \in BOOLEAN /\ (~marked => ~marked')
  BY FinalizationLeaves
<1>2. /\ r.session = session /\ state = "finalizing" /\ Active
      /\ session \in Sessions /\ session \in Nat /\ session # 0 /\ ended[session] = "none"
      /\ inventory = 0 /\ incomplete
      /\ r \in Results
      /\ \A i \in DOMAIN r.rows : r.rows[i].from = session
  BY FinalizationFinds
<1>3. /\ targeted <=> audit[session].targeted
      /\ outcome \in {"success", "stopped", "failed"}
      /\ outcome = "success" => r.outcome = "success"
      /\ outcome = "success" /\ session \in stopped => targeted
  BY FinalizationFinds
<1>4. ended' = [ended EXCEPT ![session] = IF fault = "none" THEN outcome ELSE "failed"]
  BY FinalizationLeaves
<1>5. /\ fault = "before rows" => rows' = rows
      /\ fault # "before rows" /\ targeted => rows' = Merged(base, r.rows)
      /\ fault # "before rows" /\ ~targeted => rows' = r.rows
  <2>1. fault = "before rows" => rows' = rows
    BY DEF Finalize
  <2>2. fault # "before rows" /\ base # <<>> => rows' = Merged(base, r.rows)
    BY FinalizationLeaves
  <2>3. fault # "before rows" /\ base = <<>> => rows' = r.rows
    BY FinalizationLeaves
  <2> QED BY <2>1, <2>2, <2>3
<1>6. incomplete' = IF targeted \/ fault = "before rows" THEN incomplete ELSE outcome # "success"
  BY FinalizationLeaves
<1>7. \/ UNCHANGED history
      \/ /\ fault = "none" /\ outcome = "success"
         /\ history' = HistoryOf(rows', targeted \/ marked)
  BY FinalizationLeaves
<1>8. \/ inventory' = 0
      \/ inventory' = session /\ source = "device" /\ fault = "none" /\ outcome = "success"
  BY FinalizationLeaves
<1> HIDE DEF outcome
<1>9. /\ rows \in Seq(RowRecords) /\ base \in Seq(RowRecords) /\ r.rows \in Seq(RowRecords)
      /\ incomplete \in BOOLEAN /\ marked \in BOOLEAN
  BY <1>2 DEF IInv, TypeOK, Results
<1>10. /\ ended' \in [Sessions -> Outcomes]
       /\ ended'[session] = IF fault = "none" THEN outcome ELSE "failed"
       /\ \A s \in Sessions : s # session => ended'[s] = ended[s]
  BY <1>2, <1>3, <1>4 DEF IInv, TypeOK, Outcomes
<1>11. rows' \in Seq(RowRecords)
  BY <1>5, <1>9, MergedFits
<1>12. \A i \in DOMAIN rows' : rows'[i].from <= session
  <2>1. \A i \in DOMAIN rows : rows[i].from <= session
    BY DEF IInv, RowsAreOld
  <2>2. \A i \in DOMAIN base : base[i].from <= session
    BY DEF IInv, RowsAreOld
  <2>3. \A i \in DOMAIN r.rows : r.rows[i].from <= session
    BY <1>2
  <2>4. \A i \in DOMAIN Merged(base, r.rows) : Merged(base, r.rows)[i].from <= session
    BY <1>9, <2>2, <2>3, MergedFits
  <2> QED BY <1>5, <2>1, <2>3, <2>4
<1>13. TypeOK'
  <2>1. history' \in [Apps -> 0..MaxSession]
    <3>1. (targeted \/ marked) \in BOOLEAN
      OBVIOUS
    <3>2. HistoryOf(rows', targeted \/ marked) \in [Apps -> 0..MaxSession]
      <4> HIDE DEF targeted
      <4> QED BY <1>11, <3>1, HistoryOfFits DEF IInv
    <3> QED BY <1>7, <3>2 DEF IInv, TypeOK
  <2>2. inventory' \in 0..MaxSession /\ 0 \in 0..MaxSession
    BY <1>8, ConstantsAssumption DEF IInv, TypeOK
  <2>3. incomplete' \in BOOLEAN
    BY <1>6, <1>9
  <2>4. index' \in [Apps -> Nat] /\ base' \in Seq(RowRecords)
    BY <1>1 DEF NoIndex
  <2>5. \A q \in timers' : q.session \in Sessions /\ q.outcome \in Outcomes
    BY <1>1 DEF IInv, TypeOK
  <2> QED BY <1>1, <1>10, <1>11, <2>1, <2>2, <2>3, <2>4, <2>5 DEF IInv, TypeOK, States
<1>14. Carried'
  BY <1>1 DEF IInv, Carried
<1>15. Numbered'
  BY <1>1, <1>2, <1>10 DEF IInv, Numbered, Active
<1>16. ResultsOnce'
  BY <1>1 DEF IInv, ResultsOnce, IsResult
<1>17. ResultsAwaited'
  <2>1. \A q \in timers' : q.session # session
    BY <1>1, <1>2 DEF IInv, ResultsOnce
  <2>2. audit[session].step = "ended" /\ \A i \in DOMAIN queue : IsResult(i) => queue[i].session # session
    BY <1>2 DEF IInv, ResultsOnce
  <2> QED BY <1>1, <2>1, <2>2 DEF ResultsAwaited, IsResult
<1>18. CleanWhenIdle' /\ OnlyOwnRows'
  BY <1>1 DEF CleanWhenIdle, OnlyOwnRows, Active
<1>19. ExportIsFinal'
  <2> SUFFICES ASSUME ~incomplete' PROVE \A i \in DOMAIN rows' : rows'[i].final
    BY DEF ExportIsFinal, Exportable
  <2>1. ~targeted /\ fault # "before rows" /\ outcome = "success"
    BY <1>2, <1>6
  <2>2. rows' = r.rows /\ r.outcome = "success"
    BY <1>3, <1>5, <2>1
  <2> QED BY <1>2, <2>2 DEF Results
<1>20. RowsAreOld'
  BY <1>1, <1>12 DEF RowsAreOld, Active
<1>21. InventoryIsCurrent'
  BY <1>1, <1>8, <1>10 DEF InventoryIsCurrent
<1>22. FullStopsAreKept'
  BY <1>1, <1>2, <1>3, <1>10 DEF IInv, TypeOK, FullStopsAreKept
<1>23. UntilRecheck'
  <2> SUFFICES ASSUME NoRecheck'
               PROVE  /\ ~marked' /\ \A s \in Sessions : ~audit'[s].targeted
                      /\ \A p \in Apps : history'[p] # 0 => ended'[history'[p]] = "success"
                      /\ FinishedIsExportable'
    BY DEF UntilRecheck, OnlySuccessIsSaved
  <2>1. NoRecheck
    BY <1>1 DEF NoRecheck
  <2>2. /\ ~marked /\ \A s \in Sessions : ~audit[s].targeted
        /\ \A p \in Apps : history[p] # 0 => ended[history[p]] = "success"
    BY <2>1 DEF IInv, UntilRecheck, OnlySuccessIsSaved
  <2>3. ~targeted
    BY <1>2, <1>3, <2>2
  <2>4. \A p \in Apps : history'[p] # 0 => ended'[history'[p]] = "success"
    <3>1. CASE UNCHANGED history
      <4>1. \A p \in Apps : history[p] \in 0..MaxSession
        BY DEF IInv, TypeOK
      <4>2. \A p \in Apps : history[p] # 0 => history[p] \in Sessions /\ history[p] # session
        BY <4>1, <1>2, <2>2, ConstantsAssumption DEF Sessions
      <4> QED BY <3>1, <4>2, <2>2, <1>10
    <3>2. CASE fault = "none" /\ outcome = "success"
               /\ history' = HistoryOf(rows', targeted \/ marked)
      <4>1. rows' = r.rows /\ ended'[session] = "success"
        BY <1>5, <1>10, <2>3, <3>2
      <4>2. history' = HistoryOf(rows', FALSE)
        BY <2>2, <2>3, <3>2
      <4>3. \A p \in Apps : \/ history'[p] = 0
                            \/ \E i \in DOMAIN rows' : history'[p] = rows'[i].from
        <5>1. \A merge \in BOOLEAN : \A p \in Apps :
                \/ HistoryOf(rows', merge)[p] = IF merge THEN history[p] ELSE 0
                \/ \E i \in DOMAIN rows' : HistoryOf(rows', merge)[p] = rows'[i].from
          BY <1>11, HistoryOfFits DEF IInv
        <5> QED BY <4>2, <5>1, Zenon
      <4> QED BY <1>2, <4>1, <4>3
    <3> QED BY <1>7, <3>1, <3>2
  <2>5. FinishedIsExportable'
    <3> SUFFICES ASSUME rows' # <<>>, incomplete',
                        \A i \in DOMAIN rows' : ended'[rows'[i].from] = "success"
                 PROVE  FALSE
      BY DEF FinishedIsExportable, Exportable
    <3>1. fault = "before rows" \/ outcome # "success"
      BY <1>6, <2>3
    <3>2. ended'[session] # "success"
      BY <1>3, <1>10, <3>1
    <3>3. 1 \in DOMAIN rows'
      BY <1>11
    <3>4. \A i \in DOMAIN rows' : rows'[i].from = session
      <4>1. \A i \in DOMAIN rows : rows[i].from = session
        BY <1>2, <2>2 DEF IInv, OnlyOwnRows
      <4> QED BY <1>2, <1>5, <2>3, <4>1
    <3> QED BY <3>2, <3>3, <3>4
  <2> QED BY <1>1, <2>2, <2>4, <2>5
<1> QED BY <1>13, <1>14, <1>15, <1>16, <1>17, <1>18, <1>19, <1>20, <1>21, <1>22, <1>23 DEF IInv

LEMMA StartTimerKeeps ==
  ASSUME IInv, StartTimer
  PROVE  IInv'
<1>1. startDue' = FALSE
  BY DEF StartTimer
<1>2. CASE state = "idle"
  BY <1>1, <1>2, StartKeeps DEF StartTimer
<1>3. CASE state # "idle"
  <2>1. UNCHANGED <<source, control, view, targets, saved, queue, timers, audit, ended,
                    stopped, used>>
    BY <1>3 DEF StartTimer
  <2> USE DEF control, view, targets, saved
  <2>2. TypeOK'
    BY <1>1, <2>1 DEF IInv, TypeOK
  <2>3. Carried' /\ Numbered' /\ ResultsOnce' /\ ResultsAwaited'
    BY <2>1 DEF IInv, Carried, Numbered, ResultsOnce, ResultsAwaited, IsResult, Active
  <2>4. CleanWhenIdle' /\ OnlyOwnRows' /\ ExportIsFinal' /\ RowsAreOld'
    BY <2>1 DEF IInv, CleanWhenIdle, OnlyOwnRows, ExportIsFinal, RowsAreOld, Active, Exportable
  <2>5. InventoryIsCurrent' /\ FullStopsAreKept' /\ UntilRecheck'
    BY <2>1 DEF IInv, InventoryIsCurrent, FullStopsAreKept, UntilRecheck, NoRecheck, OnlySuccessIsSaved,
                FinishedIsExportable, Exportable
  <2> QED BY <2>2, <2>3, <2>4, <2>5 DEF IInv
<1> QED BY <1>2, <1>3

LEMMA UiStepKeeps ==
  ASSUME IInv, UiStep
  PROVE  IInv'
<1>1. ASSUME FinalizeTimer PROVE IInv'
  <2>1. PICK r \in timers : \/ FinalizeStale(r)
                            \/ \E saves \in {"all", "history", "none"} : Finalize(r, "none", saves)
                            \/ \E fault \in Faults : Finalize(r, fault, "none")
    BY <1>1 DEF FinalizeTimer
  <2>2. \A saves \in {"all", "history", "none"} : Finalize(r, "none", saves) => IInv'
    BY FinalizeKeeps
  <2>3. \A fault \in Faults : Finalize(r, fault, "none") => IInv'
    <3> SUFFICES ASSUME NEW fault \in Faults, Finalize(r, fault, "none") PROVE IInv'
      OBVIOUS
    <3>1. fault \in {"none"} \cup FaultPoints
      BY ConstantsAssumption
    <3> QED BY <3>1, FinalizeKeeps
  <2> QED BY <2>1, <2>2, <2>3, FinalizeStaleKeeps
<1> QED BY <1>1, TakeRowKeeps, TakeDoneKeeps, StartTimerKeeps DEF UiStep

-----------------------------------------------------------------------------
(* The invariants of every behaviour. *)

LEMMA StutterKeeps ==
  ASSUME IInv, UNCHANGED vars
  PROVE  IInv'
<1> USE DEF vars, control, view, targets, saved
<1>1. TypeOK'
  BY DEF IInv, TypeOK
<1>2. Carried' /\ Numbered' /\ ResultsOnce' /\ ResultsAwaited'
  BY DEF IInv, Carried, Numbered, ResultsOnce, ResultsAwaited, IsResult, Active
<1>3. CleanWhenIdle' /\ OnlyOwnRows' /\ ExportIsFinal' /\ RowsAreOld'
  BY DEF IInv, CleanWhenIdle, OnlyOwnRows, ExportIsFinal, RowsAreOld, Active, Exportable
<1>4. InventoryIsCurrent' /\ FullStopsAreKept' /\ UntilRecheck'
  BY DEF IInv, InventoryIsCurrent, FullStopsAreKept, UntilRecheck, NoRecheck, OnlySuccessIsSaved,
         FinishedIsExportable, Exportable
<1> QED BY <1>1, <1>2, <1>3, <1>4 DEF IInv

LEMMA NextKeeps == IInv /\ [Next]_vars => IInv'
BY UserStepKeeps, UiStepKeeps, WorkerStepKeeps, StutterKeeps DEF Next

LEMMA Invariance == Spec => []IInv
BY InitHolds, NextKeeps, PTL DEF Spec

(***************************************************************************)
(* Whatever threads, signals, timers and faults do and however many audits *)
(* are abandoned, stopped or targeted: state, rows and timers agree, what  *)
(* can be exported is final, the accepted Stop of a full audit is never a  *)
(* success, the inventory is of the last audit; and until the first        *)
(* recheck saved history is of audits that succeeded.                      *)
(***************************************************************************)
THEOREM AuditsAreSound == Spec => []RunInv
<1>1. IInv => RunInv
  BY DEF IInv, UntilRecheck, RunInv
<1> QED BY <1>1, Invariance, PTL

-----------------------------------------------------------------------------
(* Rechecks. *)

(* Only finalization gives the active audit an outcome of its own. *)
LEMMA OutcomeIsFinalized ==
  ASSUME IInv, [Next]_vars, state = "finalizing"
  PROVE  \/ session \in Sessions /\ ended'[session] \in {"none", "abandoned"}
         \/ \E r \in timers : \E fault \in {"none"} \cup FaultPoints :
              \E saves \in {"all", "history", "none"} :
                (fault # "none" => saves = "none") /\ Finalize(r, fault, saves)
<1>1. session \in Sessions /\ ended[session] = "none" /\ ended \in [Sessions -> Outcomes]
  BY DEF IInv, Numbered, Active, TypeOK
<1>2. ASSUME ended' = ended PROVE ended'[session] \in {"none", "abandoned"}
  BY <1>1, <1>2
<1>3. CASE UNCHANGED vars
  BY <1>1, <1>2, <1>3 DEF vars
<1>4. CASE UserStep
  <2>1. LoadFile
    BY <1>4 DEF UserStep, Run, Pause, Resume, Stop, ChooseApks, Clear, Recheck
  <2>2. ended' = [ended EXCEPT ![session] = "abandoned"]
    BY <2>1 DEF LoadFile, Abandon
  <2> QED BY <1>1, <2>2
<1>5. ASSUME NEW s \in Sessions, WorkerStep(s)
      PROVE  ended'[session] \in {"none", "abandoned"}
  <2>1. ended' = ended
    BY <1>5, WorkerStepKeeps DEF WorkerMoves, worker
  <2> QED BY <1>2, <2>1
<1>6. CASE TakeRow \/ TakeDone \/ StartTimer
  <2>1. ended' = ended
    BY <1>6 DEF TakeRow, TakeDone, StartTimer
  <2> QED BY <1>1, <1>2, <2>1
<1>7. CASE FinalizeTimer
  <2>1. PICK r \in timers : \/ FinalizeStale(r)
                            \/ \E saves \in {"all", "history", "none"} : Finalize(r, "none", saves)
                            \/ \E fault \in Faults : Finalize(r, fault, "none")
    BY <1>7 DEF FinalizeTimer
  <2>2. CASE FinalizeStale(r)
    <3>1. ended' = ended
      BY <2>2 DEF FinalizeStale
    <3> QED BY <1>1, <1>2, <3>1
  <2>3. CASE \E saves \in {"all", "history", "none"} : Finalize(r, "none", saves)
    BY <2>3
  <2>4. CASE \E fault \in Faults : Finalize(r, fault, "none")
    <3>1. PICK fault \in Faults : Finalize(r, fault, "none")
      BY <2>4
    <3>2. fault \in {"none"} \cup FaultPoints
      BY ConstantsAssumption
    <3> QED BY <3>1, <3>2
  <2> QED BY <2>1, <2>2, <2>3, <2>4
<1> QED BY <1>1, <1>3, <1>4, <1>5, <1>6, <1>7 DEF Next, UiStep

LEMMA MergeStep ==
  ASSUME IInv, [Next]_vars,
         state = "finalizing", base # <<>>, ended'[session] \in {"success", "stopped"}
  PROVE  /\ DOMAIN rows' = DOMAIN base
         /\ \A i \in DOMAIN base :
              rows'[i].app = base[i].app /\ (rows'[i].from = session \/ rows'[i] = base[i])
<1>1. PICK r \in timers, fault \in {"none"} \cup FaultPoints, saves \in {"all", "history", "none"} :
        (fault # "none" => saves = "none") /\ Finalize(r, fault, saves)
  BY OutcomeIsFinalized
<1>2. ended' = [ended EXCEPT ![session] = IF fault = "none" THEN OutcomeOf(r) ELSE "failed"]
  BY <1>1, FinalizationLeaves
<1>3. session \in Sessions /\ ended \in [Sessions -> Outcomes]
      /\ r \in Results /\ \A i \in DOMAIN r.rows : r.rows[i].from = session
  BY <1>1, FinalizationFinds DEF IInv, TypeOK
<1>4. fault = "none"
  BY <1>2, <1>3
<1>5. rows' = Merged(base, r.rows)
  BY <1>1, <1>4 DEF Finalize
<1>6. base \in Seq(RowRecords) /\ r.rows \in Seq(RowRecords)
  BY <1>3 DEF IInv, TypeOK, Results
<1> QED BY <1>3, <1>5, <1>6, MergedFits

(***************************************************************************)
(* A recheck leaves nothing behind however it ends, and when it ends       *)
(* normally it gives back the rows it started from, in their order, with   *)
(* its own exchanged: for any rows, also those an abandoned recheck left.  *)
(***************************************************************************)
THEOREM RechecksAreKept == Spec => RechecksHold
<1>1. IInv => CleanWhenIdle
  BY DEF IInv
<1>2. IInv /\ [Next]_vars =>
        [state = "finalizing" /\ base # <<>> /\ ended'[session] \in {"success", "stopped"} =>
           /\ DOMAIN rows' = DOMAIN base
           /\ \A i \in DOMAIN base :
                rows'[i].app = base[i].app /\ (rows'[i].from = session \/ rows'[i] = base[i])]_vars
  BY MergeStep
<1> QED BY <1>1, <1>2, Invariance, PTL DEF Spec, RechecksHold, RecheckMerges

-----------------------------------------------------------------------------
(* Audits without rechecks implement AuditRuns. *)

RunNow == [s \in Sessions |-> IF ended[s] # "none" THEN ended[s]
                              ELSE IF Active /\ s = session THEN "running" ELSE "none"]

LEMMA RunsInit == Init => Runs!Init
BY DEF Init, Runs!Init, Active

LEMMA RunsNext ==
  ASSUME NEW s \in Sessions,
         \/ Runs!Start(s) \/ Runs!AskToStop(s) \/ Runs!Succeed(s)
         \/ \E how \in {"stopped", "failed", "abandoned"} : Runs!End(s, how)
  PROVE  Runs!Next
BY DEF Runs!Next

LEMMA RunsFrame ==
  ASSUME UNCHANGED <<ended, stopped, history, session>>, Active' <=> Active
  PROVE  UNCHANGED Runs!vars
<1>1. RunNow' = RunNow
  BY DEF RunNow
<1> QED BY <1>1 DEF RunNow, Runs!vars

LEMMA BeginRuns ==
  ASSUME IInv, state = "idle", NEW seq, NEW cached, NEW targeted, Begin(seq, cached, targeted)
  PROVE  Runs!Next
<1> PICK s \in Sessions : s = session + 1
  BY SessionsAreNumbers DEF IInv, Sessions, Begin
<1>1. s \in Sessions /\ session' = s /\ session \in Nat /\ s # session
  BY SessionsAreNumbers DEF IInv, Sessions, Begin
<1>2. ended' = ended /\ stopped' = stopped /\ history' = history /\ ~Active /\ Active'
  BY DEF Begin, Active
<1>3. \A t \in Sessions : t >= s => ended[t] = "none"
  <2>1. \A t \in Sessions : t >= s => t > session
    BY <1>1, SessionsAreNumbers DEF IInv
  <2> QED BY <2>1 DEF IInv, Numbered
<1>4. \A t \in Sessions : RunNow[t] = ended[t]
  BY <1>2 DEF RunNow
<1>5. \A t \in Sessions : RunNow[t] # "running" /\ (t >= s => RunNow[t] = "none")
  BY <1>3, <1>4 DEF IInv, TypeOK, Outcomes
<1>6. RunNow' = [RunNow EXCEPT ![s] = "running"]
  <2>1. \A t \in Sessions : RunNow'[t] = IF t = s THEN "running" ELSE RunNow[t]
    <3>1. ended[s] = "none"
      BY <1>1, <1>3, SessionsAreNumbers DEF IInv
    <3> QED BY <1>1, <1>2, <3>1 DEF RunNow
  <2> QED BY <1>1, <2>1 DEF RunNow
<1>7. Runs!Start(s)
  BY <1>2, <1>5, <1>6 DEF Runs!Start, RunNow
<1> QED BY <1>7, RunsNext

(* An active audit that ends, and the window is idle. *)
LEMMA EndRuns ==
  ASSUME IInv, Active, ~Active', NEW how \in {"success", "stopped", "failed", "abandoned"},
         ended' = [ended EXCEPT ![session] = how]
  PROVE  /\ session \in Sessions /\ RunNow[session] = "running"
         /\ RunNow' = [RunNow EXCEPT ![session] = how]
<1>1. session \in Sessions /\ ended[session] = "none" /\ ended \in [Sessions -> Outcomes]
  BY DEF IInv, TypeOK, Numbered
<1>2. \A t \in Sessions : RunNow'[t] = IF t = session THEN how ELSE RunNow[t]
  BY <1>1 DEF RunNow
<1> QED BY <1>1, <1>2 DEF RunNow

LEMMA UserRuns ==
  ASSUME IInv, NoRecheck', UserStep
  PROVE  Runs!Next \/ UNCHANGED Runs!vars
<1>1. CASE Run
  BY <1>1, BeginRuns DEF Run, Start, StartLocal, StartList
<1>2. CASE Pause \/ Resume
  BY <1>2, RunsFrame DEF Pause, Resume, saved, Active
<1>3. CASE Stop
  <2>1. session \in Sessions /\ RunNow[session] = "running"
    BY <1>3 DEF Stop, IInv, Numbered, RunNow, Active
  <2>2. RunNow' = RunNow
    BY <1>3 DEF Stop, RunNow, Active
  <2>3. Runs!AskToStop(session)
    BY <1>3, <2>1, <2>2 DEF Stop, saved, Runs!AskToStop, RunNow
  <2> QED BY <2>1, <2>3 DEF Runs!Next
<1>4. CASE LoadFile
  <2>1. CASE state = "idle"
    BY <1>4, <2>1, RunsFrame DEF LoadFile, Abandon, control, Active
  <2>2. CASE state # "idle"
    <3>1. /\ ended' = [ended EXCEPT ![session] = "abandoned"] /\ Active /\ ~Active'
          /\ history' = history /\ stopped' = stopped
      BY <1>4, <2>2 DEF LoadFile, Abandon, Active
    <3>2. session \in Sessions /\ RunNow[session] = "running"
          /\ RunNow' = [RunNow EXCEPT ![session] = "abandoned"]
      BY <3>1, EndRuns
    <3>3. Runs!End(session, "abandoned")
      BY <3>1, <3>2 DEF Runs!End, RunNow
    <3> QED BY <3>2, <3>3 DEF Runs!Next
  <2> QED BY <2>1, <2>2
<1>5. CASE ChooseApks \/ Clear
  BY <1>5, RunsFrame DEF ChooseApks, Clear, control, saved, Active
<1>6. ASSUME NEW S \in SUBSET Apps, Recheck(S) PROVE FALSE
  BY <1>6 DEF Recheck, NoRecheck, IInv, Carried
<1> QED BY <1>1, <1>2, <1>3, <1>4, <1>5, <1>6 DEF UserStep

LEMMA FinalizeRuns ==
  ASSUME IInv, NoRecheck', NEW r \in timers, NEW fault \in {"none"} \cup FaultPoints,
         NEW saves \in {"all", "history", "none"}, fault # "none" => saves = "none",
         Finalize(r, fault, saves)
  PROVE  Runs!Next
<1> DEFINE how == IF fault = "none" THEN OutcomeOf(r) ELSE "failed"
<1>1. /\ Active /\ session \in Sessions /\ r \in Results /\ r.session = session
      /\ base # <<>> <=> audit[session].targeted
      /\ OutcomeOf(r) \in {"success", "stopped", "failed"}
      /\ OutcomeOf(r) = "success" /\ session \in stopped => audit[session].targeted
      /\ \A i \in DOMAIN r.rows : r.rows[i].from = session
  BY FinalizationFinds
<1>2. /\ state' = "idle" /\ stopped' = stopped /\ used' = used
      /\ ended' = [ended EXCEPT ![session] = how]
  BY FinalizationLeaves
<1>3. ~marked /\ base = <<>> /\ ~audit[session].targeted
  BY <1>1, <1>2 DEF IInv, UntilRecheck, NoRecheck, OnlySuccessIsSaved
<1>4. \/ UNCHANGED history
      \/ fault = "none" /\ OutcomeOf(r) = "success" /\ history' = HistoryOf(rows', FALSE)
  <2>1. \/ UNCHANGED history
        \/ /\ fault = "none" /\ OutcomeOf(r) = "success"
           /\ history' = HistoryOf(rows', base # <<>> \/ marked)
    BY FinalizationLeaves
  <2>2. (base # <<>> \/ marked) = FALSE
    BY <1>3
  <2> QED BY <2>1, <2>2
<1>5. how \in {"success", "stopped", "failed"}
  BY <1>1
<1> HIDE DEF how
<1>6. RunNow[session] = "running" /\ RunNow' = [RunNow EXCEPT ![session] = how]
  <2>1. ~Active'
    BY <1>2 DEF Active
  <2> QED BY <1>1, <1>2, <1>5, <2>1, EndRuns
<1>7. CASE how = "success"
  <2>1. fault = "none" /\ OutcomeOf(r) = "success" /\ session \notin stopped
    BY <1>1, <1>3, <1>7 DEF how
  <2>2. rows' = r.rows /\ r.rows \in Seq(RowRecords)
    BY <1>1, <1>3, <2>1 DEF Finalize, Results
  <2>3. history' \in {history} \cup [Apps -> {0, session}]
    <3>1. CASE history' = HistoryOf(rows', FALSE)
      <4>1. \A merge \in BOOLEAN :
              /\ HistoryOf(r.rows, merge) \in [Apps -> 0..MaxSession]
              /\ \A p \in Apps :
                   \/ HistoryOf(r.rows, merge)[p] = IF merge THEN history[p] ELSE 0
                   \/ \E i \in DOMAIN r.rows : HistoryOf(r.rows, merge)[p] = r.rows[i].from
        BY <2>2, HistoryOfFits DEF IInv
      <4>2. /\ HistoryOf(r.rows, FALSE) \in [Apps -> 0..MaxSession]
            /\ \A p \in Apps :
                 \/ HistoryOf(r.rows, FALSE)[p] = 0
                 \/ \E i \in DOMAIN r.rows : HistoryOf(r.rows, FALSE)[p] = r.rows[i].from
        BY <4>1, Zenon
      <4>3. \A p \in Apps : HistoryOf(r.rows, FALSE)[p] \in {0, session}
        BY <1>1, <4>2
      <4> QED BY <2>2, <3>1, <4>2, <4>3
    <3> QED BY <1>4, <3>1
  <2>4. PICK s \in Sessions : s = session
    BY <1>1
  <2>5. Runs!Succeed(s)
    BY <1>2, <1>6, <1>7, <2>1, <2>3, <2>4 DEF Runs!Succeed, RunNow
  <2> QED BY <2>5, RunsNext
<1>8. CASE how # "success"
  <2>1. UNCHANGED history
    BY <1>4, <1>8 DEF how
  <2>2. how \in {"stopped", "failed", "abandoned"}
    BY <1>5, <1>8
  <2>3. PICK s \in Sessions, end \in {"stopped", "failed", "abandoned"} :
          s = session /\ end = how
    BY <1>1, <2>2
  <2>4. Runs!End(s, end)
    BY <1>2, <1>6, <2>1, <2>3 DEF Runs!End, RunNow
  <2> QED BY <2>4, RunsNext
<1> QED BY <1>7, <1>8

LEMMA StepRuns ==
  ASSUME IInv, NoRecheck', [Next]_vars
  PROVE  Runs!Next \/ UNCHANGED Runs!vars
<1>1. CASE UNCHANGED vars
  BY <1>1, RunsFrame DEF vars, control, saved, Active
<1>2. ASSUME NEW s \in Sessions, WorkerStep(s) PROVE UNCHANGED Runs!vars
  BY <1>2, RunsFrame, WorkerStepKeeps DEF WorkerMoves, worker, control, saved, Active
<1>3. CASE TakeRow
  BY <1>3, RunsFrame DEF TakeRow, control, saved, Active
<1>4. CASE TakeDone
  <2>1. Active' <=> Active
    <3>1. CASE Signal.session # session
      BY <1>4, <3>1 DEF TakeDone, Active
    <3>2. CASE Signal.session = session
      <4>1. 1 \in DOMAIN queue /\ queue[1] = Signal /\ Signal.kind = "done"
        BY <1>4, TakenFits DEF TakeDone
      <4>2. Active
        BY <3>2, <4>1 DEF IInv, ResultsAwaited, IsResult
      <4> QED BY <1>4, <3>2, <4>2 DEF TakeDone, Active
    <3> QED BY <3>1, <3>2
  <2> QED BY <1>4, <2>1, RunsFrame DEF TakeDone, saved
<1>5. CASE StartTimer
  <2>1. CASE state = "idle"
    BY <1>5, <2>1, BeginRuns DEF StartTimer, Start, StartLocal, StartList
  <2>2. CASE state # "idle"
    BY <1>5, <2>2, RunsFrame DEF StartTimer, control, saved, Active
  <2> QED BY <2>1, <2>2
<1>6. CASE FinalizeTimer
  <2>1. PICK r \in timers : \/ FinalizeStale(r)
                            \/ \E saves \in {"all", "history", "none"} : Finalize(r, "none", saves)
                            \/ \E fault \in Faults : Finalize(r, fault, "none")
    BY <1>6 DEF FinalizeTimer
  <2>2. CASE FinalizeStale(r)
    BY <2>2, RunsFrame DEF FinalizeStale, control, saved, Active
  <2>3. CASE \E saves \in {"all", "history", "none"} : Finalize(r, "none", saves)
    BY <2>3, FinalizeRuns
  <2>4. CASE \E fault \in Faults : Finalize(r, fault, "none")
    <3>1. PICK fault \in Faults : Finalize(r, fault, "none")
      BY <2>4
    <3>2. fault \in {"none"} \cup FaultPoints
      BY ConstantsAssumption
    <3> QED BY <3>1, <3>2, FinalizeRuns
  <2> QED BY <2>1, <2>2, <2>3, <2>4
<1> QED BY <1>1, <1>2, <1>3, <1>4, <1>5, <1>6, UserRuns DEF Next, UiStep

(***************************************************************************)
(* Up to the first recheck, audits do what AuditRuns promises: one runs at *)
(* a time, each ends once, none that was stopped succeeds, and only the    *)
(* rows of an audit that succeeds become the baseline.                     *)
(***************************************************************************)
THEOREM FullAuditsKeepThePromise == Spec => ImplementsRuns
<1>1. IInv /\ [Next]_vars => [NoRecheck' => [Runs!Next]_(Runs!vars)]_vars
  BY StepRuns
<1> QED BY <1>1, RunsInit, Invariance, PTL DEF Spec, ImplementsRuns

(***************************************************************************)
(* A window in which nobody rechecks anything is an implementation of      *)
(* AuditRuns.                                                              *)
(***************************************************************************)
COROLLARY WithoutRechecks == Spec /\ []NoRecheck => Runs!Spec
<1>1. IInv /\ NoRecheck' /\ [Next]_vars => [Runs!Next]_(Runs!vars)
  BY StepRuns
<1>2. Spec /\ []NoRecheck => Runs!Init /\ [][Runs!Next]_(Runs!vars)
  BY <1>1, RunsInit, Invariance, PTL DEF Spec
<1> QED BY <1>2 DEF Runs!Spec
=============================================================================
