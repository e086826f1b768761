----------------------------- MODULE ScanCapture -----------------------------
(***************************************************************************)
(* What one scan of a phone captures: the compact session of collect_scan_ *)
(* _session (services/scan_session.py) and, when the settings ask for it,  *)
(* the full metadata of collect_device_metadata_v9 (services/              *)
(* device_insights.py).                                                    *)
(*                                                                         *)
(* Every command goes to an ADB server that knows the phones attached at   *)
(* that moment.  The compact commands name no phone, so the server sends   *)
(* them to the only one there is; the full ones name the phone whose       *)
(* serial the session was made for.  The full part takes over what the     *)
(* compact one got for all packages, whichever phone told it.              *)
(***************************************************************************)
EXTENDS Naturals, FiniteSets

CONSTANTS
  Phones,
  Packages,   \* packages a phone may list
  Workers,    \* threads that read single packages
  MaxPlugs    \* bound: phones plugged in or out

VARIABLES
  attached,   \* phones ADB sees and may talk to
  plugs,
  step,       \* of the scan: the command that comes next, or "off", "read", "over", "failed"
  full,       \* the settings ask for full metadata
  stopped,
  owner,      \* {} or the phone of the session's serial
  packages,   \* packages of the session
  compact,    \* per fact, the phone the compact part got it from, or {}
  context,    \* the same for the aggregate facts of the full part; {} where they failed
  facts,      \* per package, {} or where its dump came from and whether it is full
  queue,      \* packages that no thread was given yet
  flight,     \* per package: "none", "queued", "asked", "empty" or "read"
  status,     \* of the session's full metadata
  exchanged    \* history: another phone answered while the compact part of a session ran

Aggregates == {"sdk", "disabled", "installers"}
Facts      == Aggregates \cup {"packages"}

capture == <<packages, compact, context, facts, queue, flight>>
vars    == <<attached, plugs, step, full, stopped, owner, capture, status, exchanged>>

Info(phone, isFull) == [from |-> phone, full |-> isFull]
\* What a request that raised leaves: a package without version and SDKs.
NoInputs == [from |-> {}, full |-> FALSE]

Init ==
  /\ \E p \in Phones : attached = {p}
  /\ plugs = 0 /\ step = "devices" /\ full \in BOOLEAN /\ stopped = FALSE /\ owner = {}
  /\ packages = {} /\ compact = [f \in Facts |-> {}] /\ context = [f \in Aggregates |-> {}]
  /\ facts = [p \in Packages |-> {}] /\ queue = {} /\ flight = [p \in Packages |-> "none"]
  /\ status = "not_requested" /\ exchanged = FALSE

Move(to) == step' = to

-----------------------------------------------------------------------------
(* Phones come and go; Stop is only noticed by the full part. *)

\* Phones that answer a command which names none, and one which names the session's.
Sole   == IF Cardinality(attached) = 1 THEN attached ELSE {}

\* As if the commands of the full part named no phone.
PinnedToAny == Sole

Pinned == attached \cap owner

Plug(p) ==
  /\ step \notin {"over", "failed"} /\ plugs < MaxPlugs
  /\ plugs' = plugs + 1
  /\ attached' = IF p \in attached THEN attached \ {p} ELSE attached \cup {p}
  /\ exchanged' = (exchanged \/ (/\ step \in {"properties", "list", "system", "disabled"}
                              /\ Sole' \notin {{}, owner}))
  /\ UNCHANGED <<step, full, stopped, owner, capture, status>>

Stop ==
  /\ step \notin {"over", "failed"} /\ full /\ ~stopped /\ stopped' = TRUE
  /\ UNCHANGED <<attached, plugs, step, full, owner, capture, status, exchanged>>

-----------------------------------------------------------------------------
(* The compact part.  A scan without a session is told and ends. *)

Fail ==
  /\ Move("failed")
  /\ UNCHANGED <<attached, plugs, full, stopped, owner, capture, status, exchanged>>

\* adb devices: exactly one phone that is authorised.
Devices ==
  /\ step = "devices"
  /\ \/ Sole = {} /\ Fail
     \/ /\ Sole # {} /\ owner' = Sole /\ Move("properties")
        /\ UNCHANGED <<attached, plugs, full, stopped, capture, status, exchanged>>

\* A compact command told these facts.
Got(told) ==
  /\ compact' = [f \in Facts |-> IF f \in told THEN Sole ELSE compact[f]]
  /\ UNCHANGED <<attached, plugs, full, stopped, owner, context, facts, queue, flight, status,
                 exchanged>>

\* getprop; the locale may need a command of its own, whose failure is harmless.
Properties ==
  /\ step = "properties"
  /\ \/ Fail
     \/ /\ Sole # {} /\ Move("list") /\ UNCHANGED packages
        /\ \E sdk \in SUBSET {"sdk"} : Got(sdk)

\* Three forms of the list, the richest one the phone understands: only the first two tell
\* the installers.  No package at all ends the scan.
ListPackages ==
  /\ step = "list"
  /\ \/ Fail
     \/ /\ Sole # {} /\ Move("system")
        /\ packages' \in SUBSET Packages \ {{}}
        /\ \E more \in SUBSET {"installers"} : Got({"packages"} \cup more)

\* The system packages, unless they are left out of the scan.
ListSystem ==
  /\ step = "system"
  /\ \/ Fail
     \/ /\ Move("disabled")
        /\ UNCHANGED <<attached, plugs, full, stopped, owner, capture, status, exchanged>>

\* The disabled packages may stay unknown; then the session is made.
ListDisabled ==
  /\ step = "disabled" /\ Move(IF full THEN "verify" ELSE "over")
  /\ \E more \in SUBSET {"disabled"} : Got(more) /\ UNCHANGED packages

-----------------------------------------------------------------------------
(* The full part. *)

\* Whatever ends it early, the session keeps its compact part only.
Incomplete ==
  /\ Move("over") /\ status' = "incomplete" /\ facts' = [p \in Packages |-> {}]
  /\ UNCHANGED <<attached, plugs, full, stopped, owner, packages, compact, context, queue,
                 flight, exchanged>>

\* The only authorised phone has to be that of the session, whose serial is used from here.
Verify ==
  /\ step = "verify"
  /\ IF stopped \/ Sole # owner
       THEN Incomplete
       ELSE /\ Move("sdk")
            /\ UNCHANGED <<attached, plugs, full, stopped, owner, capture, status, exchanged>>

\* An aggregate fact the compact part got is not asked for again; one that cannot be read
\* leaves the snapshot incomplete but does not end it.
Aggregate(at, fact, next) ==
  /\ step = at
  /\ IF stopped
       THEN Incomplete
       ELSE /\ \E from \in IF compact[fact] # {} THEN {compact[fact]} ELSE {{}, Pinned} :
                 context' = [context EXCEPT ![fact] = from]
            /\ Move(next)
            /\ UNCHANGED <<attached, plugs, full, stopped, owner, packages, compact, facts,
                           queue, flight, status, exchanged>>

\* One dump of everything: of some packages it has all that is needed, the others are read
\* one by one.
Bulk ==
  /\ step = "bulk"
  /\ \E usable \in IF stopped \/ Pinned = {} THEN {{}} ELSE SUBSET packages :
       /\ facts' = [p \in Packages |-> IF p \in usable THEN {Info(Pinned, TRUE)} ELSE {}]
       /\ queue' = packages \ usable
       /\ Move(IF stopped \/ usable = packages THEN "finish" ELSE "read")
  /\ UNCHANGED <<attached, plugs, full, stopped, owner, packages, compact, context, flight,
                 status, exchanged>>

InFlight == {p \in Packages : flight[p] # "none"}
Reading(p, as) ==
  /\ flight' = [flight EXCEPT ![p] = as]
  /\ UNCHANGED <<attached, plugs, step, full, stopped, owner, packages, compact, context,
                 status, exchanged>>

\* fill_submission_window
Submit(p) ==
  /\ step = "read" /\ p \in queue /\ Cardinality(InFlight) < Workers /\ ~stopped
  /\ queue' = queue \ {p} /\ Reading(p, "queued") /\ UNCHANGED facts

\* read_one looks for Stop once and then asks.
Ask(p) ==
  /\ flight[p] = "queued"
  /\ Reading(p, IF stopped THEN "empty" ELSE "asked") /\ UNCHANGED <<facts, queue>>

\* The dump of one package may lack what a full snapshot needs, as that of an app which was
\* removed meanwhile; so does a request that raised.
Answer(p) ==
  /\ flight[p] = "asked"
  /\ \E isFull \in IF Pinned = {} THEN {FALSE} ELSE BOOLEAN :
       facts' = [facts EXCEPT ![p] = {IF isFull THEN Info(Pinned, TRUE) ELSE NoInputs}]
  /\ Reading(p, "read") /\ UNCHANGED queue

\* The coordinator takes what is done and, after Stop, cancels what no thread has begun.
Collect ==
  /\ step = "read"
  /\ \E p \in Packages : flight[p] \in {"empty", "read"}
  /\ flight' = [p \in Packages |->
       IF flight[p] \in {"empty", "read"} \/ (stopped /\ flight[p] = "queued")
         THEN "none" ELSE flight[p]]
  /\ UNCHANGED <<attached, plugs, step, full, stopped, owner, packages, compact, context, facts,
                 queue, status, exchanged>>

AllRead ==
  /\ step = "read" /\ InFlight = {} /\ (queue = {} \/ stopped)
  /\ Move("finish")
  /\ UNCHANGED <<attached, plugs, full, stopped, owner, capture, status, exchanged>>

\* finish: the receipt is issued for a full entry of every package.
Receipt ==
  /\ ~stopped /\ \A f \in Aggregates : context[f] # {}
  /\ \A p \in packages : \E i \in facts[p] : i.full

\* _capture_full_metadata: no receipt, a Stop or a missing package discard everything.
FinishFull ==
  /\ step = "finish"
  /\ IF Receipt /\ ~stopped /\ \A p \in packages : facts[p] # {}
       THEN /\ Move("over") /\ status' = "complete"
            /\ UNCHANGED <<attached, plugs, full, stopped, owner, capture, exchanged>>
       ELSE Incomplete

Next ==
  \/ \E p \in Phones : Plug(p)
  \/ Stop \/ Devices \/ Properties \/ ListPackages \/ ListSystem \/ ListDisabled \/ Verify
  \/ Aggregate("sdk", "sdk", "off") \/ Aggregate("off", "disabled", "installers")
  \/ Aggregate("installers", "installers", "bulk")
  \/ Bulk \/ Collect \/ AllRead \/ FinishFull
  \/ \E p \in Packages : Submit(p) \/ Ask(p) \/ Answer(p)

Spec == Init /\ [][Next]_vars

-----------------------------------------------------------------------------
(* Properties. *)

\* Of the full part, every dump is of the session's phone, whatever was plugged in or out
\* between the commands, and so is every aggregate fact but those that the compact part had
\* got, which are kept as it got them; a session that is not complete keeps nothing
\* (device_insights.py:443-449, 451-493, scan_session.py:465-479).
FullPartIsOfItsPhone ==
  step = "over" => \A p \in Packages : \A i \in facts[p] :
    /\ status = "complete" /\ (i.full => i.from = owner)
    /\ \A f \in Aggregates : context[f] \in {owner, compact[f]}

\* The commands of the compact part name no phone.  They all speak of the session's unless
\* another one was put in its place between two of them; phones that are plugged in beside
\* it, or taken out, make them fail.  With the above, everything that a session says is then
\* of its phone (scan_session.py:397-457).
CompactPartIsOfItsPhone == ~exchanged => \A f \in Facts : compact[f] \in {{}, owner}

\* A session that is called complete has a full entry for each of its packages, although
\* dumps lack data and requests fail or are stopped (device_insights.py:497-505,
\* scan_session.py:476-479).
CompleteMeansEveryPackage ==
  status = "complete" => \A p \in packages : \E i \in facts[p] : i.full

\* What a session says it has, it has, and of its phone.
CaptureIsSound ==
  FullPartIsOfItsPhone /\ CompactPartIsOfItsPhone /\ CompleteMeansEveryPackage
=============================================================================
