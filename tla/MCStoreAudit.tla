---------------------------- MODULE MCStoreAudit ----------------------------
(***************************************************************************)
(* An instance of StoreAudit for TLC: two apps that wait at the same time  *)
(* for four requests in other markets, which two threads answer.           *)
(***************************************************************************)
EXTENDS StoreAudit

AllEnglish == Markets

\* Bound of the answers: the selected market has neither app, another market has it or not,
\* and only the first one that is asked for the first app can raise.
Expected(f) ==
  /\ fetch[f].step = "raised" => f = <<1, 1>>
  /\ fetch[f].scraper \in {NoAnswer, NotFound}
  /\ fetch[f].answer \in {NoAnswer, NotFound, Cancelled}
                         \cup IF f[2] = 0 THEN {} ELSE {Available(TRUE, TRUE)}

PoolsNext == Next /\ \A f \in Fetches : Expected(f)'

\* FairSpec within that bound: what it leaves out is never the only step of a thread.
PoolsSpec ==
  /\ Init /\ [][PoolsNext]_vars
  /\ \A f \in Fetches : WF_vars(FetchStep(f)) /\ WF_vars(FallbackStart(f))
  /\ \A a \in Apps : WF_vars(AppStep(a))
  /\ WF_vars(MainStep)
=============================================================================
