------------------------------ MODULE MacBundle ------------------------------
(***************************************************************************)
(* The macOS application bundle between the compiler and the signature     *)
(* (.github/scripts): normalize_macos_bundle moves data from the directory *)
(* of the code to Resources and leaves links, so that the program finds it *)
(* where it was; sign_macos_app signs from the inside out.  Each call of   *)
(* the system may fail, those that undo a failed one too; the job may be   *)
(* killed and run again.                                                   *)
(***************************************************************************)
EXTENDS Naturals, FiniteSets, Sequences

CONSTANT MaxTrouble     \* bound: calls that fail

Profiles == {"samsung", "oneplus"}
Order    == <<"certifi", "pyaxmlparser", "oneplus", "samsung", "help">>
Items    == {Order[i] : i \in 1..Len(Order)}
Linked   == Items \ {"help"}

\* What is signed: the libraries and two nested bundles, by their depth and what holds them.
Code     == {"main", "lib", "inner-lib"}
Bundles  == {"framework", "inner"}
Depth(n) == CASE n = "inner-lib" -> 5 [] n = "inner" -> 4 [] n = "lib" -> 4
              [] n = "framework" -> 3 [] n = "main" -> 3 [] OTHER -> 1
Holds(b) == CASE b = "inner" -> {"inner-lib"} [] b = "framework" -> {"lib", "inner", "inner-lib"}
              [] b = "app" -> Code \cup Bundles [] OTHER -> {}

VARIABLES
  place,     \* of each item: "macos" or "resources"
  link,      \* there is a link at its runtime path
  step,      \* of the scripts: "idle", "check", "link", "undo", "unwind", "restore", "failed",
             \* "done", "signed"
  pos,       \* item it is at
  moved,     \* profiles this run moved
  trouble,   \* calls that failed
  stranded,  \* history: items that could not be renamed back
  killed,    \* history: a run was killed
  stamp,     \* when each part was signed, 0 for not
  clock
vars == <<place, link, step, pos, moved, trouble, stranded, killed, stamp, clock>>

Item == Order[pos]
layout  == <<place, link, stranded>>
signing == <<stamp, clock>>

-----------------------------------------------------------------------------
(* normalize_bundle *)

Begin ==
  /\ step \in {"idle", "failed"}
  /\ step' = "check" /\ pos' = 1 /\ moved' = {}
  /\ UNCHANGED <<layout, trouble, killed, signing>>

\* A link has to lead to the data in Resources; without it the data has to be in place.
WellPlaced(i) == IF link[i] THEN place[i] = "resources" ELSE place[i] = "macos"

\* The profiles are all looked at before the first one is moved.
MustHold(i) == IF i \in Profiles THEN \A p \in Profiles \ moved : WellPlaced(p) ELSE WellPlaced(i)

Skip ==
  /\ step = "check" /\ pos <= Len(Order)
  /\ IF Item = "help" THEN place[Item] = "resources" ELSE link[Item] /\ MustHold(Item)
  /\ pos' = pos + 1
  /\ UNCHANGED <<layout, step, moved, trouble, killed, signing>>

Refuse ==
  /\ step = "check" /\ pos <= Len(Order)
  /\ Item \in Linked /\ ~MustHold(Item)
  /\ step' = "failed"
  /\ UNCHANGED <<layout, pos, moved, trouble, killed, signing>>

\* Nothing is in the way of the move.
Movable ==
  /\ step = "check" /\ pos <= Len(Order)
  /\ place[Item] = "macos" /\ (Item \in Linked => MustHold(Item) /\ ~link[Item])

Rename ==
  /\ Movable
  /\ place' = [place EXCEPT ![Item] = "resources"]
  /\ IF Item = "help" THEN pos' = pos + 1 /\ UNCHANGED step
     ELSE step' = "link" /\ UNCHANGED pos
  /\ UNCHANGED <<link, moved, trouble, stranded, killed, signing>>

MakeLink ==
  /\ step = "link"
  /\ link' = [link EXCEPT ![Item] = TRUE]
  /\ moved' = IF Item \in Profiles THEN moved \cup {Item} ELSE moved
  /\ step' = "check" /\ pos' = pos + 1
  /\ UNCHANGED <<place, trouble, stranded, killed, signing>>

Failing == trouble < MaxTrouble /\ trouble' = trouble + 1

\* An OSError: of a profile's call the earlier profiles are put back too.
AfterError == step' = IF Item \in Profiles THEN "unwind" ELSE "failed"

RenameFails ==
  /\ Movable /\ Failing /\ AfterError
  /\ UNCHANGED <<layout, pos, moved, killed, signing>>

\* A plausible mistake: what was renamed stays in Resources.
LinkFailsAfterMove ==
  /\ step = "link" /\ Failing /\ AfterError
  /\ UNCHANGED <<layout, pos, moved, killed, signing>>

LinkFails ==
  /\ step = "link" /\ Failing /\ step' = "undo"
  /\ UNCHANGED <<layout, pos, moved, killed, signing>>

\* The renaming back, after a failed link, and its failure.
PutBack ==
  /\ step = "undo" /\ AfterError
  /\ place' = [place EXCEPT ![Item] = "macos"]
  /\ UNCHANGED <<link, pos, moved, trouble, stranded, killed, signing>>

PutBackFails ==
  /\ step = "undo" /\ Failing /\ AfterError
  /\ stranded' = stranded \cup {Item}
  /\ UNCHANGED <<place, link, pos, moved, killed, signing>>

\* An earlier profile is put back: its link is removed and it is renamed.
Unwind ==
  /\ step = "unwind"
  /\ IF moved = {} THEN step' = "failed" /\ UNCHANGED <<link, pos, moved>>
     ELSE \E n \in 1..Len(Order) :
            /\ Order[n] \in moved /\ moved' = moved \ {Order[n]}
            /\ link' = [link EXCEPT ![Order[n]] = FALSE]
            /\ step' = "restore" /\ pos' = n
  /\ UNCHANGED <<place, trouble, stranded, killed, signing>>

Restore ==
  /\ step = "restore" /\ step' = "unwind"
  /\ place' = [place EXCEPT ![Item] = "macos"]
  /\ UNCHANGED <<link, pos, moved, trouble, stranded, killed, signing>>

\* A failure here ends the run, whatever is still to be put back.
UnlinkFails ==
  /\ step = "unwind" /\ moved # {} /\ Failing /\ step' = "failed"
  /\ UNCHANGED <<layout, pos, moved, killed, signing>>

RestoreFails ==
  /\ step = "restore" /\ Failing /\ step' = "failed"
  /\ stranded' = stranded \cup {Item}
  /\ UNCHANGED <<place, link, pos, moved, killed, signing>>

\* _validate_layout: links that lead to unchanged data, nothing but code beside the code.
LayoutHolds ==
  /\ \A i \in Linked : link[i] /\ place[i] = "resources"
  /\ place["help"] = "resources"

ValidateLayout ==
  /\ step = "check" /\ pos > Len(Order)
  /\ step' = IF LayoutHolds THEN "done" ELSE "failed"
  /\ UNCHANGED <<layout, pos, moved, trouble, killed, signing>>

Kill ==
  /\ step \in {"check", "link", "undo", "unwind", "restore"} /\ ~killed
  /\ killed' = TRUE
  /\ step' = "idle"
  /\ UNCHANGED <<layout, pos, moved, trouble, signing>>

-----------------------------------------------------------------------------
(* sign_app *)

\* discover_macho_files, then discover_nested_bundles: the deepest first, equal depths by name
Pending == LET code == {c \in Code : stamp[c] = 0}
           IN  IF code # {} THEN code ELSE {b \in Bundles : stamp[b] = 0}

InsideOut(parts) == {n \in parts : \A m \in parts : Depth(m) <= Depth(n)}

SignTarget(n) ==
  /\ stamp' = [stamp EXCEPT ![n] = clock + 1]
  /\ clock' = clock + 1

SignPart ==
  /\ step = "done"
  /\ \E n \in InsideOut(Pending) : SignTarget(n)
  /\ UNCHANGED <<layout, step, pos, moved, trouble, killed>>

SignApp ==
  /\ step = "done" /\ Pending = {}
  /\ SignTarget("app")
  /\ step' = "signed"
  /\ UNCHANGED <<layout, pos, moved, trouble, killed>>

\* codesign fails; the job starts over, and --force replaces every signature.
SignFails ==
  /\ step = "done" /\ Failing
  /\ stamp' = [n \in DOMAIN stamp |-> 0] /\ clock' = 0
  /\ UNCHANGED <<layout, step, pos, moved, killed>>

-----------------------------------------------------------------------------
Init ==
  /\ place = [i \in Items |-> "macos"] /\ link = [i \in Items |-> FALSE]
  /\ step = "idle" /\ pos = 1 /\ moved = {}
  /\ trouble = 0 /\ stranded = {} /\ killed = FALSE
  /\ stamp = [n \in Code \cup Bundles \cup {"app"} |-> 0] /\ clock = 0

Work ==
  \/ Begin \/ Skip \/ Refuse \/ Rename \/ MakeLink \/ PutBack \/ Unwind \/ Restore
  \/ ValidateLayout \/ SignPart \/ SignApp

Failures == RenameFails \/ LinkFails \/ PutBackFails \/ UnlinkFails \/ RestoreFails \/ SignFails

Next == Work \/ Failures \/ Kill

Spec == Init /\ [][Next]_vars

-----------------------------------------------------------------------------
(* Properties. *)

(***************************************************************************)
(* "Keep approved data in Resources while preserving Nuitka's runtime      *)
(* paths" (normalize_macos_bundle.py:2), also when calls fail half-way:    *)
(* whenever the script is not at work and was not killed, each data file   *)
(* is reached by its runtime path, and the next run is not refused.  The   *)
(* exceptions are exactly the files whose renaming back failed after the   *)
(* call it was to undo, two failures for the first of them; and a bundle   *)
(* with such a file is never signed.                                       *)
(***************************************************************************)
RuntimePathsServe ==
  step \in {"idle", "failed", "done", "signed"} /\ ~killed =>
    /\ \A i \in Linked : WellPlaced(i) <=> i \notin stranded
    /\ stranded # {} => trouble > 1 /\ step \notin {"done", "signed"}

(***************************************************************************)
(* A signature seals what the bundle holds: everything in it was signed    *)
(* before it, so the verification of the whole app finds no later change.  *)
(***************************************************************************)
SealedInsideOut ==
  step = "signed" =>
    \A b \in Bundles \cup {"app"} : \A n \in Holds(b) : 0 < stamp[n] /\ stamp[n] < stamp[b]

\* A bundle works when it was rearranged, and is sealed as it is when it was signed.
BundleIsSound == RuntimePathsServe /\ SealedInsideOut
=============================================================================
