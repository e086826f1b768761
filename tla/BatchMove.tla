----------------------------- MODULE BatchMove ------------------------------
(***************************************************************************)
(* What a batch of renames promises, without file names, moves or a disk.  *)
(* The files that change name leave their source names first, all of them; *)
(* only then do they take their final names.  When that stops, the files   *)
(* that have no final name yet go back, or stay staged and are reported.   *)
(***************************************************************************)
CONSTANT Rows

VARIABLES
  moving,   \* the rows whose file changes name
  at,       \* where each row's file is: "source", "staged", "final"
  phase,    \* "planned", "staging", "finalizing", "rollback", "closed", "crashed"
  outcome   \* the batch status

vars == <<moving, at, phase, outcome>>

Init ==
  /\ moving \in SUBSET Rows
  /\ at = [i \in Rows |-> "source"]
  /\ phase = "planned"
  /\ outcome = "none"

Start ==
  /\ phase = "planned" /\ moving # {}
  /\ phase' = "staging"
  /\ UNCHANGED <<moving, at, outcome>>

Decline ==
  /\ phase = "planned"
  /\ phase' = "closed"
  /\ outcome' \in (IF moving = {} THEN {"blocked", "no_changes"} ELSE {"blocked"})
  /\ UNCHANGED <<moving, at>>

\* Leaving the source names, in any order; the last one opens the next phase.
Stage(i) ==
  /\ phase = "staging" /\ i \in moving /\ at[i] = "source"
  /\ at' = [at EXCEPT ![i] = "staged"]
  /\ phase' = IF \A j \in moving : at'[j] = "staged" THEN "finalizing" ELSE "staging"
  /\ UNCHANGED <<moving, outcome>>

Finalize(i) ==
  /\ phase = "finalizing" /\ at[i] = "staged"
  /\ at' = [at EXCEPT ![i] = "final"]
  /\ IF \A j \in moving : at'[j] = "final"
       THEN phase' = "closed" /\ outcome' = "completed"
       ELSE UNCHANGED <<phase, outcome>>
  /\ UNCHANGED moving

Abort ==
  /\ phase \in {"staging", "finalizing"}
  /\ phase' = "rollback"
  /\ UNCHANGED <<moving, at, outcome>>

Restore(i) ==
  /\ phase = "rollback" /\ at[i] = "staged"
  /\ at' = [at EXCEPT ![i] = "source"]
  /\ UNCHANGED <<moving, phase, outcome>>

Close ==
  /\ phase = "rollback"
  /\ phase' = "closed"
  /\ outcome' = IF \A i \in Rows : at[i] = "source" THEN "failed" ELSE "partial"
  /\ UNCHANGED <<moving, at>>

Crash ==
  /\ phase \in {"staging", "finalizing", "rollback"}
  /\ phase' = "crashed"
  /\ UNCHANGED <<moving, at, outcome>>

Next ==
  \/ Start \/ Decline \/ Abort \/ Close \/ Crash
  \/ \E i \in Rows : Stage(i) \/ Finalize(i) \/ Restore(i)

Spec == Init /\ [][Next]_vars
=============================================================================
