----------------------------- MODULE AuditRuns ------------------------------
(***************************************************************************)
(* What the window promises about its audits: one runs at a time, each     *)
(* ends once, an accepted Stop is honoured, and only the rows of an audit  *)
(* that succeeds become the baseline, at its end.                          *)
(***************************************************************************)
EXTENDS Naturals

CONSTANTS Sessions, Apps

VARIABLES
  run,       \* "none", "running" or how it ended
  asked,     \* sessions whose Stop was accepted
  baseline   \* session of each app's saved row, 0 for none

vars == <<run, asked, baseline>>

Init ==
  /\ run = [s \in Sessions |-> "none"]
  /\ asked = {}
  /\ baseline = [p \in Apps |-> 0]

Start(s) ==
  /\ \A t \in Sessions : run[t] # "running" /\ (t >= s => run[t] = "none")
  /\ run' = [run EXCEPT ![s] = "running"]
  /\ UNCHANGED <<asked, baseline>>

AskToStop(s) ==
  /\ run[s] = "running"
  /\ asked' = asked \cup {s}
  /\ UNCHANGED <<run, baseline>>

End(s, how) ==
  /\ run[s] = "running"
  /\ run' = [run EXCEPT ![s] = how]
  /\ UNCHANGED <<asked, baseline>>

Succeed(s) ==
  /\ run[s] = "running" /\ s \notin asked
  /\ run' = [run EXCEPT ![s] = "success"]
  /\ baseline' \in {baseline} \cup [Apps -> {0, s}]
  /\ UNCHANGED asked

Next == \E s \in Sessions :
  \/ Start(s) \/ AskToStop(s) \/ Succeed(s)
  \/ \E how \in {"stopped", "failed", "abandoned"} : End(s, how)

Spec == Init /\ [][Next]_vars

=============================================================================
