---------------------------- MODULE AuditPromise ----------------------------
(***************************************************************************)
(* What a Store audit promises to whoever reads its rows: answers of the   *)
(* markets arrive in any order, an app gets at most one verdict, the       *)
(* verdict is justified by answers that have arrived, and only Stop leaves *)
(* an app without one.                                                     *)
(***************************************************************************)
CONSTANTS Apps, Markets
VARIABLES told, verdict, stopped, ended
vars == <<told, verdict, stopped, ended>>

Seen(a)     == \E m \in Markets : told[<<a, m>>] = "available"
Absent(a)   == \A m \in Markets : told[<<a, m>>] = "not_found"
AllAsked(a) == \A m \in Markets : told[<<a, m>>] # "none"

Justified(a, v) ==
  CASE v = "available"     -> Seen(a)
    [] v = "other_country" -> Seen(a) /\ told[<<a, 0>>] = "not_found"
    [] v = "not_found"     -> Absent(a)
    [] v = "inconclusive"  -> AllAsked(a) /\ ~Seen(a)
    [] OTHER               -> v = "error"   \* an unexpected exception

Learn(f, s) ==
  /\ ~ended /\ told[f] = "none"
  /\ told' = [told EXCEPT ![f] = s]
  /\ UNCHANGED <<verdict, stopped, ended>>

Conclude(a, v) ==
  /\ ~ended /\ verdict[a] = "none" /\ Justified(a, v)
  /\ verdict' = [verdict EXCEPT ![a] = v]
  /\ UNCHANGED <<told, stopped, ended>>

Stop ==
  /\ ~ended /\ stopped' = TRUE
  /\ UNCHANGED <<told, verdict, ended>>

End ==
  /\ ~ended /\ ended' = TRUE
  /\ stopped \/ \A a \in Apps : verdict[a] # "none"
  /\ UNCHANGED <<told, verdict, stopped>>

Init ==
  /\ told = [f \in Apps \X Markets |-> "none"]
  /\ verdict = [a \in Apps |-> "none"]
  /\ stopped = FALSE /\ ended = FALSE

Next ==
  \/ \E f \in Apps \X Markets, s \in {"available", "not_found", "failed"} : Learn(f, s)
  \/ \E a \in Apps, v \in {"available", "other_country", "not_found", "inconclusive", "error"} :
       Conclude(a, v)
  \/ Stop \/ End

Spec == Init /\ [][Next]_vars
=============================================================================
