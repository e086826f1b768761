---------------------------- MODULE MCIconLoader ----------------------------
(* Instances of IconLoader for TLC. *)
EXTENDS IconLoader

CONSTANTS p1, p2

\* Two apps, of which one is updated between two results.
TwoAppsOneUpdated == {<<p1, 1>>, <<p1, 2>>, <<p2, 1>>}
=============================================================================
