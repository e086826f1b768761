--------------------------- MODULE DeskAuditProofs ----------------------------
(***************************************************************************)
(* Proofs about the parts an audit is made of: the scan of a phone, the    *)
(* library of local APKs, the cache of Store results, device-specific      *)
(* resolution, alternative sources and the requests to the Store. Each     *)
(* part has an invariant that its own specification keeps, for any values  *)
(* of its constants; the steps of Desk are steps of the part that runs, so *)
(* that Desk keeps it too.                                                 *)
(***************************************************************************)
EXTENDS Desk, FiniteSetTheorems, TLAPS

LEMMA PartStays == ASSUME [DeskNext]_deskVars PROVE part' = part
  BY DEF DeskNext, deskVars

-----------------------------------------------------------------------------
(* The scan of a phone. A session has exactly one phone (OneOwner); facts *)
(* are there from the dump of everything to the end (FactsLast), and the  *)
(* full ones are of that phone.                                           *)

ScanBegins == {"devices", "properties", "list", "system", "disabled"}
ScanSteps  == ScanBegins \cup {"verify", "sdk", "off", "installers", "bulk", "read", "finish",
                               "over", "failed"}
NoFacts    == \A p \in ScanPackages : facts[p] = {}

ScanTypes ==
  /\ IsFiniteSet(attached) /\ scanStep \in ScanSteps /\ packages \subseteq ScanPackages
  /\ DOMAIN facts = ScanPackages /\ facts = [p \in ScanPackages |-> facts[p]]
  /\ scanFlight \in [ScanPackages -> {"none", "queued", "asked", "empty", "read"}]
  /\ status \in {"not_requested", "incomplete", "complete"}

(* A session has exactly one phone; only while single packages are read is a   *)
(* thread at work; facts are there from the dump of everything to the end.      *)
OneOwner     == scanStep \notin {"devices", "failed"} => \E p : scanOwner = {p}
ThreadsRead  == scanStep # "read" => \A p \in ScanPackages : scanFlight[p] = "none"
FactsOfOwner == \A p \in ScanPackages : \A i \in facts[p] : i.full => i.from = scanOwner
FactsLast    == scanStep \in {"read", "finish"} \/ status = "complete" \/ NoFacts
CompleteLast ==
  status = "complete" => scanStep = "over" /\ \A p \in packages : \E i \in facts[p] : i.full

ScanInv ==
  ScanTypes /\ OneOwner /\ ThreadsRead /\ FactsOfOwner /\ FactsLast /\ CompleteLast

(* Who told the facts. Unless another phone was put in its place, the one of   *)
(* the session is the only one that can answer while the compact part runs;    *)
(* the full part has each fact of that phone, or as the compact part got it.   *)
OnlyOwnerTells ==
  ~exchanged =>
    /\ \A f \in Scan!Facts : compact[f] \in {{}, scanOwner}
    /\ scanStep \in ScanBegins \ {"devices"} => Scan!Sole \in {{}, scanOwner}
ContextFits ==
  /\ \A f \in Scan!Aggregates : scanContext[f] \in {{}, scanOwner, compact[f]}
  /\ status = "complete" => \A f \in Scan!Aggregates : scanContext[f] # {}
  /\ scanStep \in ScanBegins => \A f \in Scan!Aggregates : scanContext[f] = {}
FactsTold ==
  /\ DOMAIN compact = Scan!Facts /\ DOMAIN scanContext = Scan!Aggregates
  /\ scanContext = [f \in Scan!Aggregates |-> scanContext[f]]
  /\ scanStep = "devices" => \A f \in Scan!Facts : compact[f] = {}
  /\ OnlyOwnerTells /\ ContextFits

\* Sets of the instance are counted as those of the library are.
LEMMA ScanSets == \A S : Scan!Cardinality(S) = Cardinality(S)
  BY DEF Scan!Cardinality, Cardinality

LEMMA ScanStarts == ASSUME Scan!Init PROVE ScanInv
<1>1. IsFiniteSet(attached)
  BY FS_Singleton DEF Scan!Init
<1> QED
  BY <1>1 DEF Scan!Init, ScanInv, ScanTypes, OneOwner, ThreadsRead, FactsOfOwner, FactsLast,
     CompleteLast, ScanSteps, ScanBegins, NoFacts

(* Who answers a command that names no phone, and one that names the session's. *)
LEMMA SoleIsOne ==
  ASSUME ScanInv, Scan!Sole # {}
  PROVE  \E p : Scan!Sole = {p}
  BY FS_Singleton, ScanSets DEF ScanInv, ScanTypes, Scan!Sole

LEMMA PinnedIsOwner ==
  ASSUME ScanInv, scanStep \notin {"devices", "failed"}, Scan!Pinned # {}
  PROVE  Scan!Pinned = scanOwner
  BY DEF ScanInv, OneOwner, Scan!Pinned

LEMMA CompactStep ==
  ASSUME ScanInv,
         Scan!Devices \/ Scan!Properties \/ Scan!ListPackages \/ Scan!ListSystem
           \/ Scan!ListDisabled \/ Scan!Verify
  PROVE  ScanInv'
<1> USE DEF Scan!capture, Scan!Move
<1>1. scanStep \in ScanBegins \cup {"verify"} /\ status # "complete"
  BY DEF Scan!Devices, Scan!Properties, Scan!ListPackages, Scan!ListSystem, Scan!ListDisabled,
     Scan!Verify, ScanBegins, ScanInv, CompleteLast
<1>2. NoFacts
  BY <1>1 DEF ScanInv, FactsLast, ScanBegins
<1>3. /\ scanFlight' = scanFlight /\ attached' = attached /\ packages' \subseteq ScanPackages
      /\ facts' = facts \/ (Scan!Incomplete /\ scanOwner' = scanOwner)
  BY DEF Scan!Devices, Scan!Properties, Scan!ListPackages, Scan!ListSystem, Scan!ListDisabled,
     Scan!Verify, Scan!Incomplete, Scan!Fail, Scan!Got, ScanInv, ScanTypes
<1>4. scanStep' \in ScanSteps \ {"devices", "read", "finish"}
        /\ status' \in {status, "incomplete"}
  BY DEF Scan!Devices, Scan!Properties, Scan!ListPackages, Scan!ListSystem, Scan!ListDisabled,
     Scan!Verify, Scan!Incomplete, Scan!Fail, Scan!Got, ScanInv, ScanTypes, ScanSteps, ScanBegins
<1>5. scanStep' # "failed" => \E p : scanOwner' = {p}
  <2>1. CASE Scan!Devices
    BY <2>1, SoleIsOne DEF Scan!Devices, Scan!Fail
  <2>2. CASE scanOwner' = scanOwner /\ scanStep # "devices"
    BY <1>1, <2>2 DEF ScanInv, OneOwner, ScanBegins
  <2> QED
    BY <2>1, <2>2 DEF Scan!Properties, Scan!ListPackages, Scan!ListSystem, Scan!ListDisabled,
       Scan!Verify, Scan!Incomplete, Scan!Fail, Scan!Got
<1>6. NoFacts' /\ DOMAIN facts' = ScanPackages /\ facts' = [p \in ScanPackages |-> facts'[p]]
  BY <1>2, <1>3 DEF Scan!Incomplete, NoFacts, ScanInv, ScanTypes
<1>7. scanStep # "read"
  BY <1>1 DEF ScanBegins
<1>8. status' # "complete" /\ scanStep' # "read"
  BY <1>1, <1>4
<1> QED
  BY <1>3, <1>4, <1>5, <1>6, <1>7, <1>8 DEF ScanInv, ScanTypes, OneOwner, ThreadsRead,
     FactsOfOwner, FactsLast, CompleteLast, NoFacts

LEMMA AggregateStep ==
  ASSUME ScanInv, NEW at \in {"sdk", "off", "installers"}, NEW fact,
         NEW next \in {"off", "installers", "bulk"}, Scan!Aggregate(at, fact, next)
  PROVE  ScanInv'
<1> USE DEF Scan!capture, Scan!Move
<1>1. scanStep = at /\ status # "complete" /\ NoFacts
  BY DEF Scan!Aggregate, ScanInv, CompleteLast, FactsLast
<1>2. /\ UNCHANGED <<attached, scanOwner, packages, scanFlight>>
      /\ facts' = facts \/ facts' = [p \in ScanPackages |-> {}]
      /\ scanStep' \in {"over", next} /\ status' \in {status, "incomplete"}
  BY DEF Scan!Aggregate, Scan!Incomplete
<1>3. NoFacts' /\ DOMAIN facts' = ScanPackages /\ facts' = [p \in ScanPackages |-> facts'[p]]
  BY <1>1, <1>2 DEF NoFacts, ScanInv, ScanTypes
<1> QED
  BY <1>1, <1>2, <1>3 DEF ScanInv, ScanTypes, OneOwner, ThreadsRead, FactsOfOwner, FactsLast,
     CompleteLast, NoFacts, ScanSteps, ScanBegins

LEMMA BulkStep ==
  ASSUME ScanInv, Scan!Bulk
  PROVE  ScanInv'
<1> USE DEF Scan!Move
<1>1. PICK usable \in IF scanStopped \/ Scan!Pinned = {} THEN {{}} ELSE SUBSET packages :
        facts' = [p \in ScanPackages |-> IF p \in usable
                                         THEN {Scan!Info(Scan!Pinned, TRUE)}
                                         ELSE {}]
  BY DEF Scan!Bulk
<1>2. scanStep = "bulk" /\ status' = status /\ status # "complete"
        /\ scanStep' \in {"finish", "read"}
      /\ UNCHANGED <<attached, scanOwner, packages, scanFlight>>
  BY DEF Scan!Bulk, ScanInv, CompleteLast
<1>3. usable # {} => Scan!Pinned = scanOwner
  BY <1>1, <1>2, PinnedIsOwner
<1>4. \A p \in ScanPackages : \A i \in facts'[p] : i.from = scanOwner
  BY <1>1, <1>3 DEF Scan!Info
<1>5. facts' = [p \in ScanPackages |-> facts'[p]] /\ DOMAIN facts' = ScanPackages
  BY <1>1
<1> QED
  BY <1>2, <1>4, <1>5 DEF ScanInv, ScanTypes, OneOwner, ThreadsRead, FactsOfOwner, FactsLast,
     CompleteLast, ScanSteps, ScanBegins

LEMMA ScanThreadStep ==
  ASSUME ScanInv,
         Scan!Collect \/ \E p \in ScanPackages : Scan!Submit(p) \/ Scan!Ask(p) \/ Scan!Answer(p)
  PROVE  ScanInv'
<1>1. scanStep = "read" /\ scanStep' = scanStep
  BY DEF Scan!Collect, Scan!Submit, Scan!Ask, Scan!Answer, Scan!Reading, ScanInv, ThreadsRead
<1>2. UNCHANGED <<attached, scanOwner, packages, status>>
  BY DEF Scan!Collect, Scan!Submit, Scan!Ask, Scan!Answer, Scan!Reading
<1>3. scanFlight' \in [ScanPackages -> {"none", "queued", "asked", "empty", "read"}]
  BY DEF Scan!Collect, Scan!Submit, Scan!Ask, Scan!Answer, Scan!Reading, ScanInv, ScanTypes
<1>4. FactsOfOwner' /\ facts' = [p \in ScanPackages |-> facts'[p]]
        /\ DOMAIN facts' = ScanPackages
  <2>1. CASE facts' = facts
    BY <1>2, <2>1 DEF ScanInv, ScanTypes, FactsOfOwner
  <2>2. CASE \E p \in ScanPackages : Scan!Answer(p)
    <3>1. PICK p \in ScanPackages : Scan!Answer(p)
      BY <2>2
    <3>2. PICK isFull \in IF Scan!Pinned = {} THEN {FALSE} ELSE BOOLEAN :
            facts' = [facts EXCEPT ![p] = {IF isFull THEN Scan!Info(Scan!Pinned, TRUE)
                                                   ELSE Scan!NoInputs}]
      BY <3>1 DEF Scan!Answer
    <3>3. isFull => Scan!Pinned = scanOwner
      BY <1>1, <3>2, PinnedIsOwner
    <3>4. \A i \in facts'[p] : i.full => i.from = scanOwner
      BY <3>2, <3>3 DEF ScanInv, ScanTypes, Scan!Info, Scan!NoInputs
    <3>5. \A q \in ScanPackages \ {p} : facts'[q] = facts[q]
      BY <3>2 DEF ScanInv, ScanTypes
    <3>6. DOMAIN facts' = ScanPackages /\ facts' = [q \in ScanPackages |-> facts'[q]]
      BY <3>2 DEF ScanInv, ScanTypes
    <3> QED BY <1>2, <3>4, <3>5, <3>6 DEF ScanInv, FactsOfOwner
  <2> QED BY <2>1, <2>2 DEF Scan!Collect, Scan!Submit, Scan!Ask
<1> QED
  BY <1>1, <1>2, <1>3, <1>4 DEF ScanInv, ScanTypes, OneOwner, ThreadsRead, FactsLast,
     CompleteLast

LEMMA ScanEndStep ==
  ASSUME ScanInv, Scan!AllRead \/ Scan!FinishFull
  PROVE  ScanInv'
<1> USE DEF Scan!capture, Scan!Move
<1>1. scanStep \in {"read", "finish"} /\ status # "complete"
      /\ UNCHANGED <<attached, scanOwner, packages, scanFlight>>
  BY DEF Scan!AllRead, Scan!FinishFull, Scan!Incomplete, ScanInv, CompleteLast
<1>2. \A p \in ScanPackages : scanFlight[p] = "none"
  BY DEF Scan!AllRead, Scan!FinishFull, Scan!InFlight, ScanInv, ThreadsRead
<1>3. CASE Scan!AllRead
  BY <1>1, <1>2, <1>3 DEF Scan!AllRead, ScanInv, ScanTypes, OneOwner, ThreadsRead,
     FactsOfOwner, FactsLast, CompleteLast, ScanSteps
<1>4. CASE Scan!FinishFull /\ status' = "complete" /\ scanStep' = "over" /\ facts' = facts
        /\ Scan!Receipt
  BY <1>1, <1>2, <1>4 DEF Scan!Receipt, ScanInv, ScanTypes, OneOwner, ThreadsRead,
     FactsOfOwner, FactsLast, CompleteLast, ScanSteps
<1>5. CASE Scan!Incomplete
  BY <1>1, <1>2, <1>5 DEF Scan!Incomplete, ScanInv, ScanTypes, OneOwner, ThreadsRead,
     FactsOfOwner, FactsLast, CompleteLast, ScanSteps, NoFacts
<1> QED BY <1>3, <1>4, <1>5 DEF Scan!FinishFull

LEMMA ScanWorldStep ==
  ASSUME ScanInv, Scan!Stop \/ UNCHANGED Scan!vars \/ \E p \in ScanPhones : Scan!Plug(p)
  PROVE  ScanInv'
<1> USE DEF Scan!capture
<1>1. UNCHANGED <<scanStep, scanOwner, packages, facts, scanFlight, status>>
  BY DEF Scan!Stop, Scan!vars, Scan!Plug
<1>2. IsFiniteSet(attached')
  <2>1. \A p : IsFiniteSet(attached \ {p}) /\ IsFiniteSet(attached \cup {p})
    BY FS_AddElement, FS_RemoveElement DEF ScanInv, ScanTypes
  <2> QED BY <2>1 DEF Scan!Stop, Scan!vars, Scan!Plug, ScanInv, ScanTypes
<1> QED
  BY <1>1, <1>2 DEF ScanInv, ScanTypes, OneOwner, ThreadsRead, FactsOfOwner, FactsLast,
     CompleteLast, NoFacts

LEMMA ScanStep == ASSUME ScanInv, [Scan!Next]_(Scan!vars) PROVE ScanInv'
<1>1. CASE \/ Scan!Aggregate("sdk", "sdk", "off")
           \/ Scan!Aggregate("off", "disabled", "installers")
           \/ Scan!Aggregate("installers", "installers", "bulk")
  BY <1>1, AggregateStep
<1> QED BY <1>1, CompactStep, BulkStep, ScanThreadStep, ScanEndStep, ScanWorldStep
        DEF Scan!Next

(* The facts, command by command. *)
LEMMA FactsStart == ASSUME Scan!Init PROVE FactsTold
  BY DEF Scan!Init, FactsTold, OnlyOwnerTells, ContextFits, ScanBegins, Scan!Facts

LEMMA DevicesTell ==
  ASSUME ScanInv, FactsTold, Scan!Devices
  PROVE  FactsTold'
<1> USE DEF Scan!capture, Scan!Move
<1>1. /\ \A f \in Scan!Facts : compact[f] = {}
      /\ \A f \in Scan!Aggregates : scanContext[f] = {}
      /\ scanStep' \in {"failed", "properties"} /\ status # "complete"
      /\ UNCHANGED <<attached, compact, scanContext, exchanged, status>>
  BY DEF Scan!Devices, Scan!Fail, FactsTold, ContextFits, ScanBegins, ScanInv, CompleteLast
<1>2. scanStep' = "properties" => scanOwner' = Scan!Sole
  BY DEF Scan!Devices, Scan!Fail
<1>3. Scan!Sole' = Scan!Sole
  BY <1>1 DEF Scan!Sole
<1> QED
  BY <1>1, <1>2, <1>3 DEF FactsTold, OnlyOwnerTells, ContextFits, ScanBegins

LEMMA CompactTells ==
  ASSUME ScanInv, FactsTold,
         Scan!Properties \/ Scan!ListPackages \/ Scan!ListSystem \/ Scan!ListDisabled
  PROVE  FactsTold'
<1> USE DEF Scan!capture, Scan!Move
<1>1. /\ scanStep \in ScanBegins \ {"devices"} /\ status # "complete"
      /\ scanStep' \in ScanSteps \ {"devices"}
      /\ UNCHANGED <<attached, scanContext, scanOwner, exchanged, status>>
  BY DEF Scan!Properties, Scan!ListPackages, Scan!ListSystem, Scan!ListDisabled, Scan!Fail,
     Scan!Got, ScanBegins, ScanSteps, ScanInv, CompleteLast
<1>2. compact' = compact
        \/ \E told : compact' = [f \in Scan!Facts |-> IF f \in told THEN Scan!Sole
                                                                    ELSE compact[f]]
  BY DEF Scan!Properties, Scan!ListPackages, Scan!ListSystem, Scan!ListDisabled, Scan!Fail,
     Scan!Got
<1>3. DOMAIN compact' = Scan!Facts
        /\ \A f \in Scan!Facts : compact'[f] \in {compact[f], Scan!Sole}
  BY <1>2 DEF FactsTold
<1>4. \A f \in Scan!Aggregates : scanContext[f] = {}
  BY <1>1 DEF FactsTold, ContextFits
<1>5. Scan!Sole' = Scan!Sole
  BY <1>1 DEF Scan!Sole
<1> QED
  BY <1>1, <1>3, <1>4, <1>5 DEF FactsTold, OnlyOwnerTells, ContextFits

LEMMA FullTells ==
  ASSUME ScanInv, FactsTold,
         \/ Scan!Verify \/ Scan!Bulk \/ Scan!Collect \/ Scan!AllRead \/ Scan!FinishFull
         \/ \E p \in ScanPackages : Scan!Submit(p) \/ Scan!Ask(p) \/ Scan!Answer(p)
  PROVE  FactsTold'
<1> USE DEF Scan!capture, Scan!Move
<1>1. /\ scanStep \notin ScanBegins /\ scanStep' \notin ScanBegins
      /\ UNCHANGED <<attached, compact, scanContext, scanOwner, exchanged>>
  BY DEF Scan!Verify, Scan!Bulk, Scan!Collect, Scan!AllRead, Scan!FinishFull, Scan!Submit,
     Scan!Ask, Scan!Answer, Scan!Reading, Scan!Incomplete, ScanBegins, ScanInv, ThreadsRead
<1>2. status' = "complete" =>
        status = "complete" \/ \A f \in Scan!Aggregates : scanContext[f] # {}
  BY DEF Scan!Verify, Scan!Bulk, Scan!Collect, Scan!AllRead, Scan!FinishFull, Scan!Submit,
     Scan!Ask, Scan!Answer, Scan!Reading, Scan!Incomplete, Scan!Receipt
<1> QED
  BY <1>1, <1>2 DEF FactsTold, OnlyOwnerTells, ContextFits, ScanBegins

LEMMA AggregateTells ==
  ASSUME ScanInv, FactsTold, NEW at \in {"sdk", "off", "installers"}, NEW fact,
         NEW next \in {"off", "installers", "bulk"}, Scan!Aggregate(at, fact, next)
  PROVE  FactsTold'
<1> USE DEF Scan!capture, Scan!Move
<1>1. /\ scanStep \notin ScanBegins /\ scanStep' \notin ScanBegins
      /\ status # "complete" /\ status' # "complete"
      /\ UNCHANGED <<attached, compact, scanOwner, exchanged>>
  BY DEF Scan!Aggregate, Scan!Incomplete, ScanBegins, ScanInv, CompleteLast
<1>2. \E from \in {{}, scanOwner, compact[fact]} :
        scanContext' = scanContext \/ scanContext' = [scanContext EXCEPT ![fact] = from]
  BY PinnedIsOwner DEF Scan!Aggregate, Scan!Incomplete
<1>3. DOMAIN scanContext' = Scan!Aggregates
      /\ scanContext' = [f \in Scan!Aggregates |-> scanContext'[f]]
      /\ \A f \in Scan!Aggregates : scanContext'[f] \in {{}, scanOwner, compact[f]}
  BY <1>2 DEF FactsTold, ContextFits
<1> QED
  BY <1>1, <1>3 DEF FactsTold, OnlyOwnerTells, ContextFits, ScanBegins

LEMMA WorldTells ==
  ASSUME FactsTold, Scan!Stop \/ UNCHANGED Scan!vars \/ \E p \in ScanPhones : Scan!Plug(p)
  PROVE  FactsTold'
<1> USE DEF Scan!capture
<1>1. UNCHANGED <<scanStep, compact, scanContext, scanOwner, status>>
  BY DEF Scan!Stop, Scan!vars, Scan!Plug
<1>2. \/ UNCHANGED <<attached, exchanged>>
      \/ exchanged' = (exchanged \/ (/\ scanStep \in ScanBegins \ {"devices"}
                                    /\ Scan!Sole' \notin {{}, scanOwner}))
  BY DEF Scan!Stop, Scan!vars, Scan!Plug, ScanBegins
<1>3. ~exchanged' =>
        ~exchanged /\ (scanStep \in ScanBegins \ {"devices"} => Scan!Sole' \in {{}, scanOwner})
  BY <1>2 DEF Scan!Sole, FactsTold, OnlyOwnerTells
<1> QED
  BY <1>1, <1>3 DEF FactsTold, OnlyOwnerTells, ContextFits

LEMMA FactsStep == ASSUME ScanInv, FactsTold, [Scan!Next]_(Scan!vars) PROVE FactsTold'
<1>1. CASE \/ Scan!Aggregate("sdk", "sdk", "off")
           \/ Scan!Aggregate("off", "disabled", "installers")
           \/ Scan!Aggregate("installers", "installers", "bulk")
  BY <1>1, AggregateTells
<1> QED BY <1>1, DevicesTell, CompactTells, FullTells, WorldTells DEF Scan!Next

LEMMA ScanInvMeans == ASSUME ScanInv, FactsTold PROVE Scan!CaptureIsSound
<1>1. Scan!FullPartIsOfItsPhone
  BY DEF ScanInv, FactsLast, FactsOfOwner, NoFacts, FactsTold, ContextFits,
     Scan!FullPartIsOfItsPhone
<1>2. Scan!CompactPartIsOfItsPhone
  BY DEF FactsTold, OnlyOwnerTells, Scan!CompactPartIsOfItsPhone
<1>3. Scan!CompleteMeansEveryPackage
  BY DEF ScanInv, CompleteLast, Scan!CompleteMeansEveryPackage
<1> QED BY <1>1, <1>2, <1>3 DEF Scan!CaptureIsSound

LEMMA ScanMoves ==
  ASSUME [DeskNext]_deskVars, part = "scan"
  PROVE  [Scan!Next]_(Scan!vars)
  BY DEF DeskNext, deskVars, scanVars, Scan!vars, Scan!capture

LEMMA ScanStays == DeskSpec => [](part = "scan" => ScanInv /\ FactsTold)
<1>1. DeskInit => (part = "scan" => ScanInv /\ FactsTold)
  BY ScanStarts, FactsStart DEF DeskInit
<1>2. (part = "scan" => ScanInv /\ FactsTold) /\ [DeskNext]_deskVars
        => (part = "scan" => ScanInv /\ FactsTold)'
  BY PartStays, ScanMoves, ScanStep, FactsStep
<1> QED BY <1>1, <1>2, PTL DEF DeskSpec

(* For any phones and packages: what a complete session says was told by its *)
(* phone, or taken over as the compact part had it, which is of that phone   *)
(* too unless another one was put in its place meanwhile; and it has full    *)
(* metadata of every package.                                                *)
THEOREM CapturesAreSound ==
  /\ Scan!Spec => []Scan!CaptureIsSound
  /\ DeskSpec => []CaptureIsSound
<1>1. Scan!Init => ScanInv /\ FactsTold
  BY ScanStarts, FactsStart
<1>2. ScanInv /\ FactsTold /\ [Scan!Next]_(Scan!vars) => (ScanInv /\ FactsTold)'
  BY ScanStep, FactsStep
<1>3. ScanInv /\ FactsTold => Scan!CaptureIsSound
  BY ScanInvMeans
<1>4. (part = "scan" => ScanInv /\ FactsTold) => CaptureIsSound
  BY <1>3 DEF CaptureIsSound
<1>5. Scan!Spec => []Scan!CaptureIsSound
  BY <1>1, <1>2, <1>3, PTL DEF Scan!Spec
<1>6. DeskSpec => []CaptureIsSound
  BY <1>4, ScanStays, PTL
<1> QED BY <1>5, <1>6

-----------------------------------------------------------------------------
(* The library of local APKs. A rescan works on a copy of the library.    *)
(* The files it has yet to look at are in the folders and entries that    *)
(* are left, the roots that are left, or the list of what it saw          *)
(* (NothingMissed), so that what it sweeps nobody left untouched.         *)

Locations == [root : Roots \cup {"none"}, present : BOOLEAN, first : Nat, last : Nat]
Libraries == [roots : SUBSET Roots, artifacts : SUBSET PackageContents,
              locations : [Library!Keys -> Locations],
              parsed : [LibraryPaths -> PackageContents \cup {"nothing", "failure"}]]
Scans == [active : BOOLEAN, left : SUBSET Roots, root : Roots \cup {"none"},
          folders : SUBSET Folders,
          entries : SUBSET (Folders \cup LibraryPaths), seen : SUBSET LibraryPaths,
          trouble : BOOLEAN, now : Nat,
          work : Libraries, disturbed : SUBSET LibraryPaths]

LibraryTypes ==
  /\ libraryFiles \in [LibraryPaths -> PackageContents \cup {"none", "link"}]
  /\ libraryClock \in Nat /\ setback \in BOOLEAN /\ libraryCancelled \in BOOLEAN
  /\ libraryLibrary \in Libraries /\ libraryScan \in Scans
  /\ libraryDisk \in [loads : BOOLEAN, of : Libraries]

Placed(lib) ==
  \A k \in Library!Keys : lib.locations[k] # Library!Unknown =>
    /\ k[1] \in lib.artifacts /\ lib.locations[k].root \in lib.roots
    /\ Library!Under(k[2], lib.locations[k].root)
ParsedSo(lib) == \A k \in Library!Keys : lib.locations[k].present => lib.parsed[k[2]] = k[1]
Ordered(lib)  == \A k \in Library!Keys : lib.locations[k].first <= lib.locations[k].last
Before(lib, t) == \A k \in Library!Keys : lib.locations[k].last <= t
Right(lib) == lib \in Libraries /\ Placed(lib) /\ ParsedSo(lib)

LibrariesFit ==
  /\ Right(libraryLibrary) /\ Right(libraryScan.work) /\ Right(libraryDisk.of)
  /\ Ordered(libraryDisk.of)
  /\ setback = FALSE => \A lib \in {libraryLibrary, libraryScan.work, libraryDisk.of} :
       Ordered(lib) /\ Before(lib, libraryClock)

Within(e, root) == e = root \/ Library!Under(e, root)

(* A scan is in the roots of its library, and what it has yet to look at is in   *)
(* its root.                                                                     *)
ScanFits ==
  /\ libraryScan.active = FALSE => libraryScan = Library!NoScan
  /\ libraryScan.active => /\ libraryScan.now = libraryClock
                           /\ libraryScan.work.roots = libraryLibrary.roots
                           /\ libraryScan.left \subseteq libraryLibrary.roots
                           /\ libraryScan.root \in libraryLibrary.roots \cup {"none"}
  /\ libraryScan.root = "none" => libraryScan.folders = {} /\ libraryScan.entries = {}
  /\ libraryScan.root # "none" => \A e \in libraryScan.folders \cup libraryScan.entries :
       Within(e, libraryScan.root)

\* Without trouble no untouched file of the root is passed by.
Reaches(p) ==
  \/ p \in libraryScan.seen \cup libraryScan.entries
  \/ \E f \in libraryScan.folders \cup (libraryScan.entries \cap Folders) : Library!Under(p, f)
Untouched(p) == libraryFiles[p] \in PackageContents /\ p \notin libraryScan.disturbed
NothingMissed ==
  libraryScan.active /\ libraryScan.root # "none" /\ libraryScan.trouble = FALSE =>
    \A p \in LibraryPaths : Untouched(p) /\ Library!Under(p, libraryScan.root) => Reaches(p)

LibraryInv ==
  LibraryTypes /\ LibrariesFit /\ ScanFits /\ NothingMissed /\ Library!UntouchedStaysPresent

-----------------------------------------------------------------------------

LEMMA UnderFits ==
  ASSUME LibraryConstantsFit, NEW e \in Folders \cup LibraryPaths, NEW f \in Folders, In[e] = f
  PROVE  Library!Under(e, f) /\ \A root : Library!Under(f, root) => Library!Under(e, root)
  BY DEF LibraryConstantsFit, Library!Under

LEMMA LibraryEmptyFits ==
  /\ Right(Library!EmptyLibrary) /\ Ordered(Library!EmptyLibrary)
  /\ Library!EmptyLibrary.roots = {}
  /\ \A t \in Nat : Before(Library!EmptyLibrary, t)
<1>1. Library!Unknown \in Locations
  BY DEF Library!Unknown, Locations
<1>2. Library!EmptyLibrary \in Libraries
  BY <1>1 DEF Library!EmptyLibrary, Libraries
<1>3. \A k \in Library!Keys : Library!EmptyLibrary.locations[k] = Library!Unknown
  BY DEF Library!EmptyLibrary
<1> QED BY <1>2, <1>3 DEF Library!EmptyLibrary, Right, Placed, ParsedSo, Ordered, Before,
           Library!Unknown

\* Marking absent keeps a library right, for any set of locations.
NowAbsent(lib, new, gone) ==
  /\ new \in Libraries /\ new.roots = lib.roots /\ new.artifacts = lib.artifacts
  /\ \A k \in Library!Keys : new.locations[k] =
       IF k \in gone THEN [lib.locations[k] EXCEPT !.present = FALSE] ELSE lib.locations[k]

Only(lib, new, gone) ==
  \A k \in Library!Keys : IF k \in gone THEN new.locations[k].present = FALSE
                          ELSE new.locations[k] = lib.locations[k]

LEMMA AbsentFits ==
  ASSUME NEW lib, Right(lib), NEW new, NEW gone, NowAbsent(lib, new, gone),
         \A k \in Library!Keys \ gone : new.parsed[k[2]] = lib.parsed[k[2]]
  PROVE  /\ Right(new) /\ (Ordered(lib) => Ordered(new)) /\ \A t : Before(lib, t)
              => Before(new, t)
         /\ Only(lib, new, gone)
<1>1. ASSUME NEW k \in Library!Keys
      PROVE  /\ lib.locations[k] \in Locations
             /\ new.locations[k].root = lib.locations[k].root
             /\ new.locations[k].first = lib.locations[k].first
             /\ new.locations[k].last = lib.locations[k].last
             /\ k \in gone => new.locations[k].present = FALSE
             /\ k \notin gone => new.locations[k] = lib.locations[k]
             /\ lib.locations[k] = Library!Unknown => new.locations[k] = Library!Unknown
  <2>1. lib.locations[k] \in Locations
    BY DEF Right, Libraries
  <2>2. new.locations[k] = IF k \in gone THEN [lib.locations[k] EXCEPT !.present = FALSE]
          ELSE lib.locations[k]
    BY DEF NowAbsent
  <2>3. /\ new.locations[k].root = lib.locations[k].root
        /\ new.locations[k].first = lib.locations[k].first
        /\ new.locations[k].last = lib.locations[k].last
        /\ k \in gone => new.locations[k].present = FALSE
        /\ k \notin gone => new.locations[k] = lib.locations[k]
    BY <2>1, <2>2 DEF Locations
  <2>4. lib.locations[k] = Library!Unknown => new.locations[k] = Library!Unknown
    <3>1. new.locations[k] \in Locations
      BY DEF NowAbsent, Libraries
    <3> DEFINE l == new.locations[k]
    <3>2. l = [root |-> l.root, present |-> l.present, first |-> l.first, last |-> l.last]
      BY <3>1 DEF Locations
    <3>3. CASE lib.locations[k] = Library!Unknown /\ k \in gone
      <4>1. l.root = "none" /\ l.present = FALSE /\ l.first = 0 /\ l.last = 0
        BY <2>3, <3>3 DEF Library!Unknown
      <4> HIDE DEF l
      <4>2. l = Library!Unknown
        BY <3>2, <4>1 DEF Library!Unknown
      <4> QED BY <4>2 DEF l
    <3> QED BY <2>3, <3>3
  <2> QED BY <2>1, <2>3, <2>4
<1>2. Placed(new)
  BY <1>1 DEF Right, Placed, NowAbsent
<1>3. ParsedSo(new)
  <2> SUFFICES ASSUME NEW k \in Library!Keys, new.locations[k].present
               PROVE  new.parsed[k[2]] = k[1]
    BY DEF ParsedSo
  <2>1. k \notin gone
    BY <1>1
  <2> QED BY <1>1, <2>1 DEF Right, ParsedSo
<1>4. (Ordered(lib) => Ordered(new)) /\ \A t : Before(lib, t) => Before(new, t)
  BY <1>1 DEF Ordered, Before
<1>5. Only(lib, new, gone)
  BY <1>1 DEF Only
<1> QED BY <1>2, <1>3, <1>4, <1>5 DEF Right, NowAbsent

LEMMA LocationFits ==
  ASSUME NEW before \in Locations
  PROVE  [before EXCEPT !.present = FALSE] \in Locations
  BY DEF Locations

LEMMA InvalidatedFits ==
  ASSUME NEW lib, Right(lib), NEW p \in LibraryPaths
  PROVE  /\ NowAbsent(lib, Library!Invalidated(lib, p), {k \in Library!Keys : k[2] = p})
         /\ Library!Invalidated(lib, p).parsed = lib.parsed
<1> DEFINE new == [k \in Library!Keys |-> IF k[2] = p
                                          THEN [lib.locations[k] EXCEPT !.present = FALSE]
                                          ELSE lib.locations[k]]
<1>1. \A k \in Library!Keys : lib.locations[k] \in Locations
  BY DEF Right, Libraries
<1>2. new \in [Library!Keys -> Locations]
  BY <1>1, LocationFits
<1>3. Library!Invalidated(lib, p) = [lib EXCEPT !.locations = new]
  BY DEF Library!Invalidated
<1>4. \A k \in Library!Keys : new[k] = IF k \in {l \in Library!Keys : l[2] = p}
        THEN [lib.locations[k] EXCEPT !.present = FALSE]
                                       ELSE lib.locations[k]
  OBVIOUS
<1> HIDE DEF new
<1>5. lib \in Libraries
  BY DEF Right
<1>6. /\ Library!Invalidated(lib, p) \in Libraries
      /\ Library!Invalidated(lib, p).locations = new
      /\ Library!Invalidated(lib, p).roots = lib.roots
      /\ Library!Invalidated(lib, p).artifacts = lib.artifacts
      /\ Library!Invalidated(lib, p).parsed = lib.parsed
  BY <1>2, <1>3, <1>5 DEF Libraries
<1> QED BY <1>4, <1>6 DEF NowAbsent

LEMMA UnparsedFits ==
  ASSUME NEW lib, Right(lib), NEW p \in LibraryPaths
  PROVE  /\ Right(Library!Unparsed(lib, p)) /\ Library!Unparsed(lib, p).roots = lib.roots
         /\ Ordered(lib) => Ordered(Library!Unparsed(lib, p))
         /\ \A t : Before(lib, t) => Before(Library!Unparsed(lib, p), t)
         /\ \A k \in Library!Keys : k[2] # p /\ lib.locations[k].present
              => Library!Unparsed(lib, p).locations[k].present
<1> DEFINE inv == Library!Invalidated(lib, p)
           new == [inv EXCEPT !.parsed = [inv.parsed EXCEPT ![p] = "failure"]]
           gone == {k \in Library!Keys : k[2] = p}
<1>1. Library!Unparsed(lib, p) = new
  BY DEF Library!Unparsed
<1>2. NowAbsent(lib, inv, gone) /\ inv.parsed = lib.parsed
  BY InvalidatedFits
<1> HIDE DEF inv
<1>3. inv.parsed \in [LibraryPaths -> PackageContents \cup {"nothing", "failure"}]
        /\ inv \in Libraries
  BY <1>2 DEF Right, Libraries, NowAbsent
<1>4. [inv.parsed EXCEPT ![p] = "failure"]
        \in [LibraryPaths -> PackageContents \cup {"nothing", "failure"}]
  BY <1>3
<1>5. /\ new \in Libraries /\ new.roots = inv.roots /\ new.artifacts = inv.artifacts
      /\ new.locations = inv.locations /\ new.parsed = [inv.parsed EXCEPT ![p] = "failure"]
  BY <1>3, <1>4 DEF Libraries
<1> HIDE DEF new
<1>6. NowAbsent(lib, new, gone)
  <2> HIDE DEF gone
  <2> QED BY <1>2, <1>5 DEF NowAbsent
<1>7. \A k \in Library!Keys \ gone : new.parsed[k[2]] = lib.parsed[k[2]]
  <2>1. \A k \in Library!Keys : k[2] \in LibraryPaths
    BY DEF Library!Keys
  <2> QED BY <1>2, <1>3, <1>5, <2>1
<1>8. /\ Right(new) /\ (Ordered(lib) => Ordered(new)) /\ \A t : Before(lib, t) => Before(new, t)
      /\ Only(lib, new, gone)
  <2> HIDE DEF gone
  <2>1. Right(new)
    BY <1>6, <1>7, AbsentFits
  <2>2. (Ordered(lib) => Ordered(new)) /\ \A t : Before(lib, t) => Before(new, t)
    BY <1>6, <1>7, AbsentFits
  <2>3. Only(lib, new, gone)
    BY <1>6, <1>7, AbsentFits
  <2> QED BY <2>1, <2>2, <2>3
<1>9. new.roots = lib.roots
  BY <1>2, <1>5 DEF NowAbsent
<1> QED BY <1>1, <1>8, <1>9 DEF Only

LEMMA SweptFits ==
  ASSUME NEW lib, Right(lib), NEW root, NEW seen
  PROVE  /\ Right(Library!Swept(lib, root, seen))
         /\ Library!Swept(lib, root, seen).roots = lib.roots
         /\ Ordered(lib) => Ordered(Library!Swept(lib, root, seen))
         /\ \A t : Before(lib, t) => Before(Library!Swept(lib, root, seen), t)
         /\ Only(lib, Library!Swept(lib, root, seen),
                 {k \in Library!Keys : lib.locations[k].root = root /\ k[2] \notin seen})
<1> DEFINE gone == {k \in Library!Keys : lib.locations[k].root = root /\ k[2] \notin seen}
           locations == [k \in Library!Keys |->
              IF lib.locations[k].root = root
                /\ k[2] \notin seen THEN [lib.locations[k] EXCEPT !.present = FALSE]
              ELSE lib.locations[k]]
           new == [lib EXCEPT !.locations = locations]
<1>1. \A k \in Library!Keys : lib.locations[k] \in Locations
  BY DEF Right, Libraries
<1>2. locations \in [Library!Keys -> Locations]
  BY <1>1, LocationFits
<1>3. \A k \in Library!Keys : locations[k] = IF k \in gone
        THEN [lib.locations[k] EXCEPT !.present = FALSE]
                                             ELSE lib.locations[k]
  OBVIOUS
<1>4. Library!Swept(lib, root, seen) = new
  BY DEF Library!Swept
<1> HIDE DEF locations
<1>5. lib \in Libraries
  BY DEF Right
<1>6. /\ new \in Libraries /\ new.locations = locations
      /\ new.roots = lib.roots /\ new.artifacts = lib.artifacts /\ new.parsed = lib.parsed
  BY <1>2, <1>5 DEF Libraries
<1> HIDE DEF new, gone
<1>7. NowAbsent(lib, new, gone) /\ \A k \in Library!Keys \ gone :
    new.parsed[k[2]] = lib.parsed[k[2]]
  BY <1>3, <1>6 DEF NowAbsent
<1>8. /\ Right(new) /\ (Ordered(lib) => Ordered(new)) /\ \A t : Before(lib, t) => Before(new, t)
      /\ Only(lib, new, gone)
  BY <1>7, AbsentFits
<1> QED BY <1>4, <1>6, <1>8 DEF gone

LEMMA RegisterFits ==
  ASSUME NEW lib, Right(lib), NEW roots \in SUBSET Roots
  PROVE  /\ Right(Library!Register(lib, roots))
         /\ (Ordered(lib) => Ordered(Library!Register(lib, roots)))
         /\ \A t : Before(lib, t) => Before(Library!Register(lib, roots), t)
<1> DEFINE all == lib.roots \cup roots
           new == [lib EXCEPT !.roots = all]
<1>1. Library!Register(lib, roots) = new
  BY DEF Library!Register
<1>2. lib \in Libraries /\ all \in SUBSET Roots
  BY DEF Right, Libraries
<1>3. /\ new \in Libraries /\ new.locations = lib.locations /\ new.roots = lib.roots \cup roots
      /\ new.artifacts = lib.artifacts /\ new.parsed = lib.parsed
  BY <1>2 DEF Libraries
<1> HIDE DEF new
<1> QED BY <1>1, <1>3 DEF Right, Placed, ParsedSo, Ordered, Before

LEMMA RemoveFits ==
  ASSUME NEW lib, Right(lib), NEW root
  PROVE  /\ Right(Library!Remove(lib, root))
         /\ (Ordered(lib) => Ordered(Library!Remove(lib, root)))
         /\ \A t \in Nat : Before(lib, t) => Before(Library!Remove(lib, root), t)
<1> DEFINE rest == lib.roots \ {root}
           locations == [k \in Library!Keys |-> IF lib.locations[k].root = root
                                                THEN Library!Unknown
                                                ELSE lib.locations[k]]
           new == [lib EXCEPT !.roots = rest, !.locations = locations]
<1>1. Library!Remove(lib, root) = new
  BY DEF Library!Remove
<1>2. Library!Unknown \in Locations /\ Library!Unknown.present = FALSE
        /\ Library!Unknown.first = 0 /\ Library!Unknown.last = 0
  BY DEF Library!Unknown, Locations
<1>3. locations \in [Library!Keys -> Locations]
  BY <1>2 DEF Right, Libraries
<1>4. \A k \in Library!Keys : locations[k] = IF lib.locations[k].root = root
        THEN Library!Unknown ELSE lib.locations[k]
  OBVIOUS
<1> HIDE DEF locations
<1>5. lib \in Libraries /\ rest \in SUBSET Roots
  BY DEF Right, Libraries
<1>6. /\ new \in Libraries /\ new.locations = locations /\ new.roots = lib.roots \ {root}
      /\ new.artifacts = lib.artifacts /\ new.parsed = lib.parsed
  BY <1>3, <1>5 DEF Libraries
<1> HIDE DEF new
<1>7. Placed(new)
  BY <1>4, <1>6 DEF Right, Placed
<1>8. ParsedSo(new)
  BY <1>2, <1>4, <1>6 DEF Right, ParsedSo
<1>9. (Ordered(lib) => Ordered(new)) /\ \A t \in Nat : Before(lib, t) => Before(new, t)
  BY <1>2, <1>4, <1>6 DEF Ordered, Before
<1> QED BY <1>1, <1>6, <1>7, <1>8, <1>9 DEF Right

LEMMA MergedFits ==
  ASSUME NEW lib, Right(lib), NEW c \in PackageContents, NEW p \in LibraryPaths,
         NEW root \in Roots, root \in lib.roots,
         Library!Under(p, root), NEW now \in Nat
  PROVE  /\ Right(Library!Merged(lib, c, p, root, now))
         /\ Library!Merged(lib, c, p, root, now).roots = lib.roots
         /\ Ordered(lib) /\ Before(lib, now) =>
              Ordered(Library!Merged(lib, c, p, root, now))
                /\ Before(Library!Merged(lib, c, p, root, now), now)
         /\ \A k \in Library!Keys : k = <<c, p>> \/ (k[2] # p /\ lib.locations[k].present) =>
              Library!Merged(lib, c, p, root, now).locations[k].present
<1> DEFINE inv  == Library!Invalidated(lib, p)
           gone == {k \in Library!Keys : k[2] = p}
           key  == <<c, p>>
           before  == lib.locations[key]
           rec  == [root |-> root, present |-> TRUE,
                    first |-> IF before = Library!Unknown THEN now ELSE before.first,
                    last |-> now]
           hashes == inv.artifacts \cup {c}
           parsed    == [inv.parsed EXCEPT ![p] = c]
           locations == [inv.locations EXCEPT ![key] = rec]
           new  == [inv EXCEPT !.artifacts = hashes, !.parsed = parsed, !.locations = locations]
<1>1. Library!Merged(lib, c, p, root, now) = new
  BY DEF Library!Merged
<1>2. NowAbsent(lib, inv, gone) /\ inv.parsed = lib.parsed
  BY InvalidatedFits
<1>3. Right(inv) /\ (Ordered(lib) => Ordered(inv)) /\ (\A t : Before(lib, t) => Before(inv, t))
        /\ Only(lib, inv, gone)
  <2> HIDE DEF inv, gone
  <2>1. \A k \in Library!Keys \ gone : inv.parsed[k[2]] = lib.parsed[k[2]]
    BY <1>2
  <2> QED BY <1>2, <2>1, AbsentFits
<1>4. key \in Library!Keys /\ key[2] = p /\ key[1] = c /\ \A k \in Library!Keys :
    k[2] = p /\ k[1] = c => k = key
  BY DEF Library!Keys
<1>5. /\ inv.artifacts \in SUBSET PackageContents
      /\ inv.locations \in [Library!Keys -> Locations]
      /\ inv.parsed \in [LibraryPaths -> PackageContents \cup {"nothing", "failure"}]
      /\ inv \in Libraries
  BY <1>3 DEF Right, Libraries
<1>6. before \in Locations /\ rec \in Locations
  <2>1. before \in Locations
    BY <1>4 DEF Right, Libraries
  <2> HIDE DEF before
  <2> QED BY <2>1 DEF Locations
<1>7. /\ rec.root = root /\ rec.present = TRUE /\ rec.last = now
      /\ rec.first = IF before = Library!Unknown THEN now ELSE before.first
  OBVIOUS
<1> HIDE DEF inv, key, rec, before
<1>8. /\ locations \in [Library!Keys -> Locations]
      /\ \A k \in Library!Keys : locations[k] = IF k = key THEN rec ELSE inv.locations[k]
  BY <1>4, <1>5, <1>6
<1>9. /\ parsed \in [LibraryPaths -> PackageContents \cup {"nothing", "failure"}]
      /\ \A q \in LibraryPaths : parsed[q] = IF q = p THEN c ELSE inv.parsed[q]
  BY <1>5
<1>10. hashes \in SUBSET PackageContents
  BY <1>5
<1> HIDE DEF locations, parsed, hashes
<1>11. /\ new \in Libraries /\ new.locations = locations /\ new.parsed = parsed
       /\ new.artifacts = hashes /\ new.roots = inv.roots
  BY <1>5, <1>8, <1>9, <1>10 DEF Libraries
<1> HIDE DEF new
<1>12. Placed(new)
  <2> SUFFICES ASSUME NEW k \in Library!Keys, new.locations[k] # Library!Unknown
               PROVE  /\ k[1] \in new.artifacts /\ new.locations[k].root \in new.roots
                      /\ Library!Under(k[2], new.locations[k].root)
    BY DEF Placed
  <2>1. CASE k = key
    <3>1. inv.roots = lib.roots
      BY <1>2 DEF NowAbsent
    <3> QED BY <1>4, <1>7, <1>8, <1>11, <2>1, <3>1 DEF hashes
  <2>2. CASE k # key
    BY <1>3, <1>8, <1>11, <2>2 DEF Right, Placed, hashes
  <2> QED BY <2>1, <2>2
<1>13. ParsedSo(new)
  <2> SUFFICES ASSUME NEW k \in Library!Keys, new.locations[k].present
               PROVE  new.parsed[k[2]] = k[1]
    BY DEF ParsedSo
  <2>1. k[2] \in LibraryPaths
    BY DEF Library!Keys
  <2>2. CASE k = key
    BY <1>4, <1>9, <1>11, <2>1, <2>2
  <2>3. CASE k # key
    <3>1. inv.locations[k].present
      BY <1>8, <1>11, <2>3
    <3>2. k[2] # p
      BY <1>3, <3>1 DEF Only, gone
    <3> QED BY <1>3, <1>9, <1>11, <2>1, <3>1, <3>2 DEF Right, ParsedSo
  <2> QED BY <2>2, <2>3
<1>14. ASSUME Ordered(lib), Before(lib, now) PROVE Ordered(new) /\ Before(new, now)
  <2>1. Ordered(inv) /\ Before(inv, now)
    BY <1>3, <1>14
  <2>2. before = Library!Unknown \/ (before.first <= before.last /\ before.last <= now)
    BY <1>4, <1>14 DEF Ordered, Before, before
  <2>3. rec.first <= now /\ rec.last <= now /\ rec.first <= rec.last
    <3>1. before.first \in Nat /\ before.last \in Nat
      BY <1>6 DEF Locations
    <3> QED BY <1>7, <2>2, <3>1
  <2> QED BY <1>8, <1>11, <2>1, <2>3 DEF Ordered, Before
<1>15. ASSUME NEW k \in Library!Keys, k = key \/ (k[2] # p /\ lib.locations[k].present)
       PROVE  new.locations[k].present
  <2>1. CASE k = key
    BY <1>7, <1>8, <1>11, <2>1
  <2>2. CASE k # key
    <3>1. k \notin gone
      BY <1>15, <2>2 DEF gone
    <3>2. inv.locations[k] = lib.locations[k]
      BY <1>3, <3>1 DEF Only
    <3> QED BY <1>8, <1>11, <1>15, <2>2, <3>2
  <2> QED BY <2>1, <2>2
<1>16. new.roots = lib.roots
  BY <1>2, <1>11 DEF NowAbsent
<1> QED BY <1>1, <1>11, <1>12, <1>13, <1>14, <1>15, <1>16 DEF Right, key

LEMMA NoScanFits == Library!NoScan \in Scans /\ Library!NoScan.work = Library!EmptyLibrary
<1>1. Library!EmptyLibrary \in Libraries
  BY LibraryEmptyFits DEF Right
<1> QED BY <1>1 DEF Library!NoScan, Scans

LEMMA LibraryStarts == ASSUME LibraryConstantsFit, Library!Init PROVE LibraryInv
<1>1. libraryLibrary = Library!EmptyLibrary /\ libraryScan = Library!NoScan
        /\ libraryDisk = [loads |-> TRUE, of |-> Library!EmptyLibrary]
  BY DEF Library!Init, Library!Document
<1>2. LibraryTypes
  <2>1. [loads |-> TRUE, of |-> Library!EmptyLibrary] \in [loads : BOOLEAN, of : Libraries]
    BY LibraryEmptyFits DEF Right
  <2>2. libraryFiles \in [LibraryPaths -> PackageContents \cup {"none", "link"}]
    BY DEF Library!Init
  <2> QED BY <1>1, <2>1, <2>2, LibraryEmptyFits, NoScanFits DEF Library!Init, LibraryTypes,
             Right
<1>3. LibrariesFit
  BY <1>1, LibraryEmptyFits, NoScanFits DEF Library!Init, LibrariesFit
<1>4. libraryScan.active = FALSE /\ libraryScan.root = "none" /\ libraryScan.folders = {}
        /\ libraryScan.entries = {}
  BY <1>1 DEF Library!NoScan
<1> QED BY <1>1, <1>2, <1>3, <1>4 DEF LibraryInv, ScanFits, NothingMissed,
           Library!UntouchedStaysPresent

\* The operations between two rescans.
LEMMA CallerStep ==
  ASSUME LibraryConstantsFit, LibraryInv,
         \/ \E roots \in SUBSET Roots : Library!RegisterRoots(roots)
         \/ \E root \in Roots : Library!RemoveRoot(root)
         \/ Library!Save \/ Library!Load
  PROVE  LibraryInv'
<1>1. /\ UNCHANGED <<libraryFiles, libraryClock, setback, libraryScan, libraryCancelled>>
      /\ libraryScan.active = FALSE /\ libraryScan = Library!NoScan
  <2>1. UNCHANGED <<libraryFiles, libraryClock, setback, libraryScan, libraryCancelled>>
          /\ ~libraryScan.active
    BY DEF Library!RegisterRoots, Library!RemoveRoot, Library!Save, Library!Load
  <2> QED BY <2>1 DEF LibraryInv, LibraryTypes, Scans, ScanFits
<1>2. /\ Right(libraryLibrary') /\ Right(libraryDisk'.of) /\ Ordered(libraryDisk'.of)
      /\ libraryDisk' \in [loads : BOOLEAN, of : Libraries]
      /\ setback = FALSE => /\ Ordered(libraryLibrary') /\ Before(libraryLibrary', libraryClock)
                            /\ Before(libraryDisk'.of, libraryClock)
  <2>1. /\ Right(libraryLibrary) /\ Right(libraryDisk.of) /\ Ordered(libraryDisk.of)
        /\ libraryDisk \in [loads : BOOLEAN, of : Libraries]
        /\ libraryClock \in Nat
        /\ setback = FALSE => Ordered(libraryLibrary) /\ Before(libraryLibrary, libraryClock)
             /\ Before(libraryDisk.of, libraryClock)
    BY DEF LibraryInv, LibrariesFit, LibraryTypes
  <2>2. CASE \E roots \in SUBSET Roots : Library!RegisterRoots(roots)
    <3>1. PICK roots \in SUBSET Roots :
        libraryLibrary' = Library!Register(libraryLibrary, roots) /\ libraryDisk' = libraryDisk
      BY <2>2 DEF Library!RegisterRoots
    <3> QED BY <2>1, <3>1, RegisterFits
  <2>3. CASE \E root \in Roots : Library!RemoveRoot(root)
    <3>1. PICK root \in Roots : libraryLibrary' = Library!Remove(libraryLibrary, root)
            /\ libraryDisk' = libraryDisk
      BY <2>3 DEF Library!RemoveRoot
    <3> QED BY <2>1, <3>1, RemoveFits
  <2>4. CASE Library!Save
    <3>1. libraryLibrary' = libraryLibrary
            /\ libraryDisk' = [loads |-> TRUE, of |-> libraryLibrary]
            /\ Library!Valid(libraryLibrary)
      BY <2>4 DEF Library!Save, Library!Document
    <3>2. Ordered(libraryLibrary)
      <4>1. \A k \in Library!Keys : libraryLibrary.locations[k] # Library!Unknown
              => libraryLibrary.locations[k].first <= libraryLibrary.locations[k].last
        BY <3>1 DEF Library!Valid, Library!Known
      <4>2. Library!Unknown.first <= Library!Unknown.last
        BY DEF Library!Unknown
      <4> QED BY <4>1, <4>2 DEF Ordered
    <3>3. libraryDisk' \in [loads : BOOLEAN, of : Libraries] /\ libraryDisk'.of = libraryLibrary
      BY <2>1, <3>1 DEF Right
    <3> QED BY <2>1, <3>1, <3>2, <3>3
  <2>5. CASE Library!Load
    <3>1. libraryLibrary' = libraryDisk.of /\ libraryDisk' = libraryDisk
      BY <2>5 DEF Library!Load, Library!Library
    <3> QED BY <2>1, <3>1
  <2> QED BY <2>2, <2>3, <2>4, <2>5
<1>3. LibrariesFit'
  BY <1>1, <1>2 DEF LibraryInv, LibrariesFit
<1>4. LibraryTypes' /\ ScanFits'
  BY <1>1, <1>2 DEF LibraryInv, LibraryTypes, Right, ScanFits
<1> QED BY <1>1, <1>3, <1>4 DEF LibraryInv, NothingMissed, Library!UntouchedStaysPresent

LEMMA LibraryBeginStep ==
  ASSUME LibraryConstantsFit, LibraryInv, NEW roots, NEW now \in 1..MaxTime,
         Library!Rescan(roots, now)
  PROVE  LibraryInv'
<1>1. /\ libraryScan' = [Library!NoScan EXCEPT !.active = TRUE, !.left = roots, !.now = now,
                         !.work = libraryLibrary]
      /\ libraryClock' = now /\ setback' = (setback \/ now < libraryClock)
      /\ UNCHANGED <<libraryFiles, libraryLibrary, libraryCancelled, libraryDisk>>
      /\ roots \subseteq libraryLibrary.roots
  BY DEF Library!Rescan
<1>2. now \in Nat /\ libraryLibrary \in Libraries /\ roots \in SUBSET Roots
        /\ libraryClock \in Nat
  BY <1>1 DEF LibraryConstantsFit, LibraryInv, LibraryTypes, Libraries
<1>3. /\ libraryScan' \in Scans /\ libraryScan'.active = TRUE /\ libraryScan'.now = now
      /\ libraryScan'.work = libraryLibrary
      /\ libraryScan'.left = roots /\ libraryScan'.root = "none" /\ libraryScan'.folders = {}
      /\ libraryScan'.entries = {}
  BY <1>1, <1>2, NoScanFits DEF Library!NoScan, Scans
<1>4. setback' = FALSE => setback = FALSE /\ libraryClock <= now
  <2>1. setback' = FALSE => setback = FALSE /\ ~(now < libraryClock)
    BY <1>1 DEF LibraryInv, LibraryTypes
  <2> QED BY <1>2, <2>1
<1>5. LibrariesFit'
  <2>1. \A lib : lib \in Libraries /\ Before(lib, libraryClock) /\ libraryClock <= now
          => Before(lib, now)
    BY <1>2 DEF Before, Libraries, Locations
  <2> QED BY <1>1, <1>2, <1>3, <1>4, <2>1 DEF LibraryInv, LibrariesFit, Right
<1>6. LibraryTypes'
  <2>1. setback' \in BOOLEAN
    BY <1>1
  <2> QED BY <1>1, <1>2, <1>3, <2>1 DEF LibraryInv, LibraryTypes
<1>7. ScanFits'
  BY <1>1, <1>3 DEF ScanFits
<1>8. NothingMissed' /\ Library!UntouchedStaysPresent'
  BY <1>1, <1>3 DEF NothingMissed, Library!UntouchedStaysPresent
<1> QED BY <1>5, <1>6, <1>7, <1>8 DEF LibraryInv

LEMMA LibraryEndStep ==
  ASSUME LibraryConstantsFit, LibraryInv, Library!EndRescan
  PROVE  LibraryInv'
<1>1. /\ libraryLibrary' = libraryScan.work /\ libraryScan' = Library!NoScan
      /\ libraryCancelled' = FALSE
      /\ UNCHANGED <<libraryFiles, libraryClock, setback, libraryDisk>>
  BY DEF Library!EndRescan
<1>2. LibraryTypes'
  BY <1>1, NoScanFits DEF LibraryInv, LibraryTypes, LibrariesFit, Right
<1>3. LibrariesFit'
  BY <1>1, NoScanFits, LibraryEmptyFits DEF LibraryInv, LibraryTypes, LibrariesFit
<1>4. libraryScan'.active = FALSE /\ libraryScan'.root = "none" /\ libraryScan'.folders = {}
        /\ libraryScan'.entries = {}
  BY <1>1 DEF Library!NoScan
<1> QED BY <1>1, <1>2, <1>3, <1>4 DEF LibraryInv, ScanFits, NothingMissed,
           Library!UntouchedStaysPresent

LEMMA LibraryWorldStep ==
  ASSUME LibraryConstantsFit, LibraryInv,
         \/ \E p \in LibraryPaths, content \in PackageContents \cup {"link", "none"} :
              Library!ChangeFile(p, content)
         \/ Library!DamageDocument \/ Library!Cancel
  PROVE  LibraryInv'
<1>1. CASE Library!DamageDocument \/ Library!Cancel
  <2>1. /\ UNCHANGED <<libraryFiles, libraryClock, setback, libraryLibrary, libraryScan>>
        /\ libraryCancelled' \in BOOLEAN
        /\ libraryDisk' \in [loads : BOOLEAN, of : Libraries]
        /\ libraryDisk'.of = libraryDisk.of
    BY <1>1 DEF LibraryInv, LibraryTypes, Library!DamageDocument, Library!Cancel
  <2> QED BY <2>1 DEF LibraryInv, LibraryTypes, LibrariesFit, ScanFits, NothingMissed,
             Reaches, Untouched, Library!UntouchedStaysPresent
<1>2. ASSUME NEW p \in LibraryPaths, NEW content \in PackageContents \cup {"link", "none"},
             Library!ChangeFile(p, content)
      PROVE  LibraryInv'
  <2> DEFINE touched == IF libraryScan.active THEN libraryScan.disturbed \cup {p}
        ELSE libraryScan.disturbed
  <2>1. /\ libraryFiles' = [libraryFiles EXCEPT ![p] = content]
        /\ libraryScan' = [libraryScan EXCEPT !.disturbed = touched]
        /\ UNCHANGED <<libraryClock, setback, libraryLibrary, libraryCancelled, libraryDisk>>
    BY <1>2 DEF Library!ChangeFile
  <2>2. libraryScan \in Scans /\ touched \in SUBSET LibraryPaths
    BY DEF LibraryInv, LibraryTypes, Scans
  <2>3. libraryScan.disturbed \subseteq touched /\ (libraryScan.active => p \in touched)
          /\ (~libraryScan.active => touched = libraryScan.disturbed)
    OBVIOUS
  <2> HIDE DEF touched
  <2>4. /\ libraryScan' \in Scans /\ libraryScan'.disturbed = touched
        /\ libraryScan'.active = libraryScan.active /\ libraryScan'.left = libraryScan.left
        /\ libraryScan'.root = libraryScan.root
        /\ libraryScan'.folders = libraryScan.folders
        /\ libraryScan'.entries = libraryScan.entries /\ libraryScan'.seen = libraryScan.seen
        /\ libraryScan'.trouble = libraryScan.trouble /\ libraryScan'.now = libraryScan.now
        /\ libraryScan'.work = libraryScan.work
    BY <2>1, <2>2 DEF Scans
  <2>5. libraryScan.active = FALSE => libraryScan' = libraryScan
    BY <2>1, <2>2, <2>3 DEF Scans
  <2>6. libraryFiles' \in [LibraryPaths -> PackageContents \cup {"none", "link"}]
          /\ \A q \in LibraryPaths : q # p => libraryFiles'[q] = libraryFiles[q]
    BY <2>1 DEF LibraryInv, LibraryTypes
  <2>7. LibraryTypes' /\ LibrariesFit'
    BY <2>1, <2>4, <2>6 DEF LibraryInv, LibraryTypes, LibrariesFit
  <2>8. ScanFits'
    BY <2>1, <2>4, <2>5 DEF LibraryInv, ScanFits
  <2>9. ASSUME libraryScan.active, NEW q \in LibraryPaths, Untouched(q)' PROVE Untouched(q)
    BY <2>3, <2>4, <2>6, <2>9 DEF Untouched
  <2>10. NothingMissed'
    BY <2>4, <2>9 DEF LibraryInv, NothingMissed, Reaches
  <2>11. Library!UntouchedStaysPresent'
    <3> SUFFICES ASSUME libraryScan.active, NEW k \in Library!Present(libraryLibrary),
                        libraryFiles'[k[2]] = k[1], k[2] \notin touched
                 PROVE  k \in Library!Present(libraryScan.work)
      BY <2>1, <2>4 DEF Library!UntouchedStaysPresent, Library!Present
    <3>1. k[2] \in LibraryPaths /\ k[2] # p
      BY <2>3 DEF Library!Present, Library!Keys
    <3> QED BY <2>3, <2>6, <3>1 DEF LibraryInv, Library!UntouchedStaysPresent
  <2> QED BY <2>7, <2>8, <2>10, <2>11 DEF LibraryInv
<1> QED BY <1>1, <1>2

(* The steps of a rescan: the rest of the state stays. *)
LEMMA LibraryOpenStep ==
  ASSUME LibraryConstantsFit, LibraryInv, NEW root \in Roots, NEW usable \in BOOLEAN,
         Library!OpenRoot(root, usable)
  PROVE  LibraryInv'
<1>1. /\ libraryScan.active = TRUE /\ libraryScan.root = "none" /\ root \in libraryScan.left
      /\ libraryScan \in Scans
      /\ UNCHANGED <<libraryFiles, libraryClock, setback, libraryLibrary, libraryCancelled,
                     libraryDisk>>
  BY DEF Library!OpenRoot, LibraryInv, LibraryTypes, Scans
<1>2. libraryScan.folders = {} /\ libraryScan.entries = {}
  BY <1>1 DEF LibraryInv, ScanFits
<1>3. CASE libraryCancelled \/ ~usable
  <2> DEFINE left == IF libraryCancelled THEN {} ELSE libraryScan.left \ {root}
  <2>1. libraryScan' = [libraryScan EXCEPT !.left = left]
    BY <1>3 DEF Library!OpenRoot
  <2>2. left \in SUBSET Roots /\ left \subseteq libraryScan.left
    BY <1>1 DEF Scans
  <2> HIDE DEF left
  <2>3. /\ libraryScan' \in Scans /\ libraryScan'.left = left
        /\ libraryScan'.active = libraryScan.active /\ libraryScan'.root = libraryScan.root
        /\ libraryScan'.disturbed = libraryScan.disturbed
        /\ libraryScan'.folders = libraryScan.folders
        /\ libraryScan'.entries = libraryScan.entries /\ libraryScan'.seen = libraryScan.seen
        /\ libraryScan'.trouble = libraryScan.trouble /\ libraryScan'.now = libraryScan.now
        /\ libraryScan'.work = libraryScan.work
    BY <1>1, <2>1, <2>2 DEF Scans
  <2>4. LibraryTypes' /\ LibrariesFit'
    BY <1>1, <2>3 DEF LibraryInv, LibraryTypes, LibrariesFit
  <2>5. ScanFits' /\ NothingMissed' /\ Library!UntouchedStaysPresent'
    BY <1>1, <1>2, <2>2, <2>3 DEF LibraryInv, ScanFits, NothingMissed,
       Library!UntouchedStaysPresent
  <2> QED BY <2>4, <2>5 DEF LibraryInv
<1>4. CASE ~(libraryCancelled \/ ~usable)
  <2> DEFINE left == libraryScan.left \ {root}
             folders == {root}
  <2>1. libraryScan' = [libraryScan EXCEPT !.left = left, !.root = root, !.folders = folders,
                        !.seen = {}, !.trouble = FALSE]
    BY <1>4 DEF Library!OpenRoot
  <2>2. /\ left \in SUBSET Roots /\ left \subseteq libraryScan.left
        /\ folders \in SUBSET Folders /\ root # "none"
        /\ root \in folders /\ \A f \in folders : f = root
    BY <1>1 DEF Scans, LibraryConstantsFit
  <2> HIDE DEF left, folders
  <2>3. /\ libraryScan' \in Scans /\ libraryScan'.left = left /\ libraryScan'.root = root
        /\ libraryScan'.folders = folders /\ libraryScan'.seen = {}
        /\ libraryScan'.trouble = FALSE /\ libraryScan'.active = libraryScan.active
        /\ libraryScan'.disturbed = libraryScan.disturbed
        /\ libraryScan'.entries = libraryScan.entries /\ libraryScan'.now = libraryScan.now
        /\ libraryScan'.work = libraryScan.work
    BY <1>1, <2>1, <2>2 DEF Scans
  <2>4. LibraryTypes' /\ LibrariesFit'
    BY <1>1, <2>3 DEF LibraryInv, LibraryTypes, LibrariesFit
  <2>5. ScanFits'
    BY <1>1, <1>2, <2>2, <2>3 DEF LibraryInv, ScanFits, Within
  <2>6. NothingMissed'
    BY <2>2, <2>3 DEF NothingMissed, Reaches
  <2>7. Library!UntouchedStaysPresent'
    BY <1>1, <2>3 DEF LibraryInv, Library!UntouchedStaysPresent
  <2> QED BY <2>4, <2>5, <2>6, <2>7 DEF LibraryInv
<1> QED BY <1>3, <1>4

LEMMA ListStep ==
  ASSUME LibraryConstantsFit, LibraryInv, NEW folder \in Folders, NEW readable \in BOOLEAN,
         Library!ListFolder(folder, readable)
  PROVE  LibraryInv'
<1> DEFINE folders == libraryScan.folders \ {folder}
           entries == IF readable THEN Library!FilesIn(folder) \cup Library!FoldersIn(folder)
             ELSE {}
           bad == libraryScan.trouble \/ ~readable
<1>1. /\ libraryScan.active = TRUE /\ libraryScan.root # "none" /\ libraryScan.entries = {}
      /\ folder \in libraryScan.folders /\ libraryScan \in Scans
      /\ UNCHANGED <<libraryFiles, libraryClock, setback, libraryLibrary, libraryCancelled,
                     libraryDisk>>
  BY DEF Library!ListFolder, Library!Scanning, LibraryInv, LibraryTypes, Scans
<1>2. libraryScan' = [libraryScan EXCEPT !.folders = folders, !.entries = entries,
                      !.trouble = bad]
  BY DEF Library!ListFolder
<1>3. /\ folders \in SUBSET Folders /\ entries \in SUBSET (Folders \cup LibraryPaths)
      /\ bad \in BOOLEAN
      /\ \A e \in entries : In[e] = folder
  BY <1>1 DEF Scans, Library!FilesIn, Library!FoldersIn
<1>4. bad = FALSE => libraryScan.trouble = FALSE
        /\ entries = Library!FilesIn(folder) \cup Library!FoldersIn(folder)
  BY <1>1 DEF Scans
<1>5. \A f \in libraryScan.folders : f # folder => f \in folders
  OBVIOUS
<1>6. folders \subseteq libraryScan.folders
  OBVIOUS
<1> HIDE DEF folders, entries, bad
<1>7. /\ libraryScan' \in Scans /\ libraryScan'.folders = folders
      /\ libraryScan'.entries = entries /\ libraryScan'.trouble = bad
      /\ libraryScan'.left = libraryScan.left /\ libraryScan'.root = libraryScan.root
      /\ libraryScan'.seen = libraryScan.seen
      /\ libraryScan'.active = libraryScan.active
      /\ libraryScan'.disturbed = libraryScan.disturbed
      /\ libraryScan'.now = libraryScan.now /\ libraryScan'.work = libraryScan.work
  BY <1>1, <1>2, <1>3 DEF Scans
<1>8. LibraryTypes' /\ LibrariesFit'
  BY <1>1, <1>7 DEF LibraryInv, LibraryTypes, LibrariesFit
<1>9. ASSUME NEW e \in entries PROVE Within(e, libraryScan.root)
  <2>1. Within(folder, libraryScan.root) /\ e \in Folders \cup LibraryPaths /\ In[e] = folder
    BY <1>1, <1>3 DEF LibraryInv, ScanFits
  <2> QED BY <2>1, UnderFits DEF Within
<1>10. ScanFits'
  BY <1>1, <1>6, <1>7, <1>9 DEF LibraryInv, ScanFits
<1>11. NothingMissed'
  <2> SUFFICES ASSUME bad = FALSE, NEW p \in LibraryPaths, Untouched(p),
                      Library!Under(p, libraryScan.root)
               PROVE  Reaches(p)'
    BY <1>1, <1>7 DEF NothingMissed, Untouched
  <2>1. Reaches(p) /\ libraryFiles[p] # "none"
    BY <1>1, <1>4 DEF LibraryInv, NothingMissed, Untouched, LibraryConstantsFit
  <2>2. CASE p \in libraryScan.seen
    BY <1>7, <2>2 DEF Reaches
  <2>3. CASE \E f \in libraryScan.folders : f # folder /\ Library!Under(p, f)
    BY <1>5, <1>7, <2>3 DEF Reaches
  <2>4. CASE Library!Under(p, folder)
    <3>1. In[p] = folder \/ \E g \in Library!FoldersIn(folder) : Library!Under(p, g)
      BY <2>4 DEF LibraryConstantsFit
    <3>2. CASE In[p] = folder
      BY <1>4, <1>7, <2>1, <3>2 DEF Reaches, Library!FilesIn
    <3>3. CASE \E g \in Library!FoldersIn(folder) : Library!Under(p, g)
      BY <1>4, <1>7, <3>3 DEF Reaches, Library!FoldersIn
    <3> QED BY <3>1, <3>2, <3>3
  <2> QED BY <1>1, <2>1, <2>2, <2>3, <2>4 DEF Reaches
<1>12. Library!UntouchedStaysPresent'
  BY <1>1, <1>7 DEF LibraryInv, Library!UntouchedStaysPresent
<1> QED BY <1>8, <1>10, <1>11, <1>12 DEF LibraryInv

(* One entry is taken: what it does to the library, and that it is not lost. *)
EntryTaken(e, lib, isSeen, failed, folders, meddling) ==
  /\ e \in libraryScan.entries /\ libraryScan.active = TRUE /\ libraryScan.root # "none"
  /\ UNCHANGED <<libraryFiles, libraryClock, setback, libraryLibrary, libraryCancelled,
                 libraryDisk>>
  /\ Library!TakeEntry(e, lib, isSeen, failed, folders, meddling)
  /\ Right(lib) /\ lib.roots = libraryScan.work.roots
  /\ setback = FALSE => Ordered(lib) /\ Before(lib, libraryClock)
  /\ isSeen \in BOOLEAN /\ failed \in BOOLEAN /\ (isSeen => e \in LibraryPaths)
  /\ folders \subseteq {e} \cap Folders /\ meddling \subseteq {e} \cap LibraryPaths
  /\ failed \/ e \in folders \/ isSeen \/ e \in meddling
       \/ (e \in LibraryPaths /\ libraryFiles[e] = "link")
  /\ \A k \in Library!Keys : k \in Library!Present(libraryScan.work)
       /\ (k[2] # e \/ (k[1] = libraryFiles[e] /\ e \notin meddling)) =>
       k \in Library!Present(lib)

LEMMA EntryStep ==
  ASSUME LibraryConstantsFit, LibraryInv, NEW e, NEW lib, NEW isSeen, NEW failed, NEW folders,
         NEW meddling,
         EntryTaken(e, lib, isSeen, failed, folders, meddling)
  PROVE  LibraryInv'
<1> USE DEF EntryTaken
<1> DEFINE entries == libraryScan.entries \ {e}
           seen    == IF isSeen THEN libraryScan.seen \cup {e} ELSE libraryScan.seen
           bad     == libraryScan.trouble \/ failed
           next    == libraryScan.folders \cup folders
           known   == libraryScan.disturbed \cup meddling
<1>1. libraryScan' = [libraryScan EXCEPT !.entries = entries, !.work = lib, !.seen = seen,
                      !.trouble = bad,
                        !.folders = next, !.disturbed = known]
  BY DEF Library!TakeEntry
<1>2. libraryScan \in Scans
  BY DEF LibraryInv, LibraryTypes
<1>3. /\ entries \in SUBSET (Folders \cup LibraryPaths) /\ seen \in SUBSET LibraryPaths
      /\ bad \in BOOLEAN
      /\ next \in SUBSET Folders /\ known \in SUBSET LibraryPaths /\ lib \in Libraries
  BY <1>2 DEF Scans, Right
<1>4. /\ entries \subseteq libraryScan.entries /\ libraryScan.seen \subseteq seen
      /\ libraryScan.folders \subseteq next
      /\ next \subseteq libraryScan.folders \cup {e} /\ \A f \in libraryScan.entries : f # e
           => f \in entries
      /\ libraryScan.disturbed \subseteq known /\ meddling \subseteq known
      /\ folders \subseteq next
      /\ isSeen => e \in seen
      /\ bad = FALSE => libraryScan.trouble = FALSE /\ ~failed
  BY <1>2 DEF Scans
<1> HIDE DEF entries, seen, bad, next, known
<1>5. /\ libraryScan' \in Scans /\ libraryScan'.entries = entries /\ libraryScan'.work = lib
      /\ libraryScan'.seen = seen
      /\ libraryScan'.trouble = bad /\ libraryScan'.folders = next
      /\ libraryScan'.disturbed = known
      /\ libraryScan'.left = libraryScan.left /\ libraryScan'.root = libraryScan.root
      /\ libraryScan'.active = libraryScan.active /\ libraryScan'.now = libraryScan.now
  BY <1>1, <1>2, <1>3 DEF Scans
<1>6. LibraryTypes' /\ LibrariesFit'
  BY <1>5 DEF LibraryInv, LibraryTypes, LibrariesFit
<1>7. ScanFits'
  BY <1>4, <1>5 DEF LibraryInv, ScanFits
<1>8. NothingMissed'
  <2> SUFFICES ASSUME bad = FALSE, NEW p \in LibraryPaths, libraryFiles[p] \in PackageContents,
                      p \notin known, Library!Under(p, libraryScan.root)
               PROVE  Reaches(p)'
    BY <1>5 DEF NothingMissed, Untouched
  <2>1. Reaches(p)
    BY <1>4 DEF LibraryInv, NothingMissed, Untouched
  <2>2. CASE p \in libraryScan.seen
    BY <1>4, <1>5, <2>2 DEF Reaches
  <2>3. CASE p \in libraryScan.entries
    <3>1. CASE p # e
      BY <1>4, <1>5, <2>3, <3>1 DEF Reaches
    <3>2. CASE p = e
      <4>1. isSeen
        BY <1>4, <3>2 DEF LibraryConstantsFit
      <4> QED BY <1>4, <1>5, <3>2, <4>1 DEF Reaches
    <3> QED BY <3>1, <3>2
  <2>4. ASSUME NEW f \in libraryScan.folders \cup (libraryScan.entries \cap Folders),
               Library!Under(p, f)
        PROVE  Reaches(p)'
    <3>1. CASE f \in libraryScan.folders \/ f # e
      BY <1>4, <1>5, <2>4, <3>1 DEF Reaches
    <3>2. CASE f \notin libraryScan.folders /\ f = e
      <4>1. e \in Folders /\ e \notin LibraryPaths
        BY <3>2 DEF LibraryConstantsFit
      <4>2. e \in folders
        BY <1>4, <4>1
      <4> QED BY <1>4, <1>5, <2>4, <3>2, <4>2 DEF Reaches
    <3> QED BY <3>1, <3>2
  <2> QED BY <2>1, <2>2, <2>3, <2>4 DEF Reaches
<1>9. Library!UntouchedStaysPresent'
  <2> SUFFICES ASSUME NEW k \in Library!Present(libraryLibrary), libraryFiles[k[2]] = k[1],
                      k[2] \notin known
               PROVE  k \in Library!Present(lib)
    BY <1>5 DEF Library!UntouchedStaysPresent, Library!Present
  <2>1. k \in Library!Present(libraryScan.work) /\ k \in Library!Keys
    BY <1>4 DEF LibraryInv, Library!UntouchedStaysPresent, Library!Present
  <2> QED BY <1>4, <2>1
<1> QED BY <1>6, <1>7, <1>8, <1>9 DEF LibraryInv

LEMMA TakeStep ==
  ASSUME LibraryConstantsFit, LibraryInv, NEW e \in libraryScan.entries,
         Library!InaccessibleEntry(e) \/ Library!FolderEntry(e) \/ \E fails \in BOOLEAN :
             Library!FileEntry(e, fails)
  PROVE  LibraryInv'
<1>1. /\ libraryScan.active = TRUE /\ libraryScan.root # "none" /\ libraryScan \in Scans
      /\ e \in Folders \cup LibraryPaths
      /\ UNCHANGED <<libraryFiles, libraryClock, setback, libraryLibrary, libraryCancelled,
                     libraryDisk>>
  BY DEF Library!InaccessibleEntry, Library!FolderEntry, Library!FileEntry, Library!Scanning,
     LibraryInv, LibraryTypes, Scans
<1>2. /\ Right(libraryScan.work) /\ libraryScan.work.roots = libraryLibrary.roots
      /\ libraryScan.root \in libraryLibrary.roots
      /\ setback = FALSE => Ordered(libraryScan.work) /\ Before(libraryScan.work, libraryClock)
      /\ Within(e, libraryScan.root) /\ libraryScan.now = libraryClock /\ libraryClock \in Nat
  BY <1>1 DEF LibraryInv, LibraryTypes, LibrariesFit, ScanFits
<1>3. CASE Library!InaccessibleEntry(e)
  <2> DEFINE named == e \in LibraryPaths
  <2>1. Library!TakeEntry(e, libraryScan.work, named, TRUE, {}, {})
    BY <1>3 DEF Library!InaccessibleEntry
  <2>2. named \in BOOLEAN /\ (named => e \in LibraryPaths)
    OBVIOUS
  <2> HIDE DEF named
  <2>3. EntryTaken(e, libraryScan.work, named, TRUE, {}, {})
    BY <1>1, <1>2, <2>1, <2>2 DEF EntryTaken
  <2> QED BY <2>3, EntryStep
<1>4. CASE Library!FolderEntry(e)
  <2>1. Library!TakeEntry(e, libraryScan.work, FALSE, FALSE, {e}, {}) /\ e \in Folders
    BY <1>4 DEF Library!FolderEntry
  <2>2. EntryTaken(e, libraryScan.work, FALSE, FALSE, {e}, {})
    BY <1>1, <1>2, <2>1 DEF EntryTaken
  <2> QED BY <2>2, EntryStep
<1>5. ASSUME NEW fails \in BOOLEAN, Library!FileEntry(e, fails) PROVE LibraryInv'
  <2>1. e \in LibraryPaths /\ libraryFiles[e] # "none"
          /\ libraryFiles[e] \in PackageContents \cup {"none", "link"}
    BY <1>5 DEF Library!FileEntry, Library!Gone, LibraryInv, LibraryTypes
  <2>2. CASE libraryFiles[e] = "link"
    <3>1. Library!TakeEntry(e, libraryScan.work, FALSE, FALSE, {}, {})
      BY <1>5, <2>2 DEF Library!FileEntry
    <3>2. EntryTaken(e, libraryScan.work, FALSE, FALSE, {}, {})
      BY <1>1, <1>2, <2>1, <2>2, <3>1 DEF EntryTaken
    <3> QED BY <3>2, EntryStep
  <2>3. CASE libraryFiles[e] # "link" /\ fails
    <3> DEFINE lib == Library!Unparsed(libraryScan.work, e)
    <3>1. Library!TakeEntry(e, lib, TRUE, FALSE, {}, {e})
      BY <1>5, <2>3 DEF Library!FileEntry
    <3>2. /\ Right(lib) /\ lib.roots = libraryScan.work.roots
          /\ setback = FALSE => Ordered(lib) /\ Before(lib, libraryClock)
          /\ \A k \in Library!Keys : k[2] # e /\ libraryScan.work.locations[k].present
               => lib.locations[k].present
      BY <1>2, <2>1, UnparsedFits
    <3> HIDE DEF lib
    <3>3. \A k \in Library!Keys :
        k \in Library!Present(libraryScan.work)
          /\ (k[2] # e \/ (k[1] = libraryFiles[e] /\ e \notin {e})) =>
            k \in Library!Present(lib)
      BY <3>2 DEF Library!Present
    <3>4. EntryTaken(e, lib, TRUE, FALSE, {}, {e})
      BY <1>1, <1>2, <2>1, <3>1, <3>2, <3>3 DEF EntryTaken
    <3> QED BY <3>4, EntryStep
  <2>4. CASE libraryFiles[e] \in PackageContents /\ ~fails
    <3> DEFINE lib == Library!Merged(libraryScan.work, libraryFiles[e], e, libraryScan.root,
                                     libraryScan.now)
    <3>1. Library!TakeEntry(e, lib, TRUE, FALSE, {}, {})
      BY <1>5, <2>4 DEF Library!FileEntry, LibraryConstantsFit
    <3>2. libraryScan.root \in Roots /\ Library!Under(e, libraryScan.root)
      BY <1>1, <1>2, <2>1 DEF Within, Scans, LibraryConstantsFit
    <3>3. /\ Right(lib) /\ lib.roots = libraryScan.work.roots
          /\ Ordered(libraryScan.work) /\ Before(libraryScan.work, libraryClock)
               => Ordered(lib) /\ Before(lib, libraryClock)
          /\ \A k \in Library!Keys :
               k = <<libraryFiles[e], e>>
                 \/ (k[2] # e /\ libraryScan.work.locations[k].present) =>
               lib.locations[k].present
      BY <1>2, <2>1, <2>4, <3>2, MergedFits
    <3> HIDE DEF lib
    <3>4. \A k \in Library!Keys :
        k \in Library!Present(libraryScan.work)
          /\ (k[2] # e \/ (k[1] = libraryFiles[e] /\ e \notin {})) =>
            k \in Library!Present(lib)
      <4>1. \A k \in Library!Keys : k[2] = e /\ k[1] = libraryFiles[e]
              => k = <<libraryFiles[e], e>>
        BY DEF Library!Keys
      <4> QED BY <3>3, <4>1 DEF Library!Present
    <3>5. EntryTaken(e, lib, TRUE, FALSE, {}, {})
      BY <1>1, <1>2, <2>1, <3>1, <3>3, <3>4 DEF EntryTaken
    <3> QED BY <3>5, EntryStep
  <2> QED BY <2>1, <2>2, <2>3, <2>4
<1> QED BY <1>3, <1>4, <1>5

LEMMA LibraryFinishStep ==
  ASSUME LibraryConstantsFit, LibraryInv, Library!FinishRoot
  PROVE  LibraryInv'
<1> DEFINE lib  == IF Library!StatusAtEnd = "completed"
      THEN Library!Swept(libraryScan.work, libraryScan.root, libraryScan.seen)
        ELSE libraryScan.work
           left == IF Library!StatusAtEnd = "cancelled" THEN {} ELSE libraryScan.left
<1>1. /\ libraryScan.active = TRUE /\ libraryScan.root # "none" /\ libraryScan \in Scans
      /\ UNCHANGED <<libraryFiles, libraryClock, setback, libraryLibrary, libraryCancelled,
                     libraryDisk>>
      /\ libraryCancelled \/ (libraryScan.folders = {} /\ libraryScan.entries = {})
  BY DEF Library!FinishRoot, Library!Scanning, LibraryInv, LibraryTypes, Scans
<1>2. libraryScan' = [libraryScan EXCEPT !.root = "none", !.folders = {}, !.entries = {},
                      !.work = lib, !.left = left]
  BY DEF Library!FinishRoot, Library!RootDone
<1>3. /\ Right(libraryScan.work)
      /\ (setback = FALSE => Ordered(libraryScan.work) /\ Before(libraryScan.work, libraryClock))
  BY DEF LibraryInv, LibrariesFit
<1>4. /\ Right(lib) /\ lib.roots = libraryScan.work.roots
      /\ (setback = FALSE => Ordered(lib) /\ Before(lib, libraryClock))
  BY <1>3, SweptFits
<1>5. ASSUME NEW k \in Library!Present(libraryLibrary), libraryFiles[k[2]] = k[1],
             k[2] \notin libraryScan.disturbed
      PROVE  k \in Library!Present(lib)
  <2> DEFINE swept == Library!Swept(libraryScan.work, libraryScan.root, libraryScan.seen)
             gone  == {l \in Library!Keys : libraryScan.work.locations[l].root
                         = libraryScan.root /\ l[2] \notin libraryScan.seen}
  <2>0. Only(libraryScan.work, swept, gone)
    BY <1>3, SweptFits
  <2>1. k \in Library!Present(libraryScan.work) /\ k \in Library!Keys
          /\ k[1] \in PackageContents /\ k[2] \in LibraryPaths
    BY <1>1, <1>5 DEF LibraryInv, Library!UntouchedStaysPresent, Library!Present, Library!Keys
  <2>2. CASE Library!StatusAtEnd = "completed"
          /\ libraryScan.work.locations[k].root = libraryScan.root
    <3>1. ~libraryCancelled /\ libraryScan.trouble = FALSE
      BY <1>1, <2>2 DEF Library!StatusAtEnd, Scans
    <3>2. Library!Under(k[2], libraryScan.root)
      <4>1. libraryScan.work.locations[k] # Library!Unknown
        BY <2>1 DEF Library!Present, Library!Unknown
      <4> QED BY <1>3, <2>1, <2>2, <4>1 DEF Right, Placed
    <3>3. k[2] \in libraryScan.seen
      BY <1>1, <1>5, <2>1, <3>1, <3>2 DEF LibraryInv, NothingMissed, Untouched, Reaches
    <3>4. lib.locations[k] = libraryScan.work.locations[k]
      <4>1. lib = swept /\ k \notin gone
        BY <2>2, <3>3
      <4> HIDE DEF lib, swept, gone
      <4> QED BY <2>0, <2>1, <4>1 DEF Only
    <3> HIDE DEF lib
    <3> QED BY <2>1, <3>4 DEF Library!Present
  <2>3. CASE Library!StatusAtEnd = "completed"
          /\ libraryScan.work.locations[k].root # libraryScan.root
    <3>1. lib.locations[k] = libraryScan.work.locations[k]
      <4>1. lib = swept /\ k \notin gone
        BY <2>3
      <4> HIDE DEF lib, swept, gone
      <4> QED BY <2>0, <2>1, <4>1 DEF Only
    <3> HIDE DEF lib
    <3> QED BY <2>1, <3>1 DEF Library!Present
  <2>4. CASE Library!StatusAtEnd # "completed"
    BY <2>1, <2>4
  <2> QED BY <2>2, <2>3, <2>4
<1>6. left \in SUBSET Roots /\ left \subseteq libraryScan.left /\ lib \in Libraries
  BY <1>1, <1>4 DEF Scans, Right
<1> HIDE DEF lib, left
<1>7. /\ libraryScan' \in Scans /\ libraryScan'.root = "none" /\ libraryScan'.folders = {}
      /\ libraryScan'.entries = {} /\ libraryScan'.work = lib
      /\ libraryScan'.left = left /\ libraryScan'.active = libraryScan.active
      /\ libraryScan'.seen = libraryScan.seen
      /\ libraryScan'.trouble = libraryScan.trouble /\ libraryScan'.now = libraryScan.now
      /\ libraryScan'.disturbed = libraryScan.disturbed
  BY <1>1, <1>2, <1>6 DEF Scans
<1>8. LibraryTypes' /\ LibrariesFit'
  BY <1>1, <1>4, <1>7 DEF LibraryInv, LibraryTypes, LibrariesFit
<1>9. ScanFits' /\ NothingMissed'
  BY <1>1, <1>4, <1>6, <1>7 DEF LibraryInv, ScanFits, NothingMissed
<1>10. Library!UntouchedStaysPresent'
  BY <1>1, <1>5, <1>7 DEF Library!UntouchedStaysPresent, Library!Present
<1> QED BY <1>8, <1>9, <1>10 DEF LibraryInv

LEMMA LibraryStep ==
  ASSUME LibraryConstantsFit, LibraryInv, [Library!Next]_(Library!vars)
  PROVE  LibraryInv'
<1>1. CASE UNCHANGED Library!vars
  BY <1>1 DEF Library!vars, LibraryInv, LibraryTypes, LibrariesFit, ScanFits, NothingMissed,
     Reaches, Untouched, Library!UntouchedStaysPresent
<1>2. ASSUME NEW roots \in SUBSET Roots, NEW now \in 1..MaxTime, Library!Rescan(roots, now)
      PROVE  LibraryInv'
  BY <1>2, LibraryBeginStep
<1>3. ASSUME NEW root \in Roots, NEW usable \in BOOLEAN, Library!OpenRoot(root, usable)
      PROVE  LibraryInv'
  BY <1>3, LibraryOpenStep
<1>4. ASSUME NEW f \in Folders, NEW readable \in BOOLEAN, Library!ListFolder(f, readable)
      PROVE  LibraryInv'
  BY <1>4, ListStep
<1>5. ASSUME NEW e \in libraryScan.entries,
             Library!InaccessibleEntry(e) \/ Library!FolderEntry(e)
               \/ Library!FileEntry(e, TRUE) \/ Library!FileEntry(e, FALSE)
      PROVE  LibraryInv'
  BY <1>5, TakeStep
<1>6. CASE Library!FinishRoot \/ Library!EndRescan
  BY <1>6, LibraryFinishStep, LibraryEndStep
<1>7. CASE \/ \E p \in LibraryPaths, content \in PackageContents \cup {"link", "none"} :
                Library!ChangeFile(p, content)
           \/ Library!DamageDocument \/ Library!Cancel
  BY <1>7, LibraryWorldStep
<1>8. CASE \/ \E roots \in SUBSET Roots : Library!RegisterRoots(roots)
           \/ \E root \in Roots : Library!RemoveRoot(root)
           \/ Library!Save \/ Library!Load
  BY <1>8, CallerStep
<1> QED BY <1>1, <1>2, <1>3, <1>4, <1>5, <1>6, <1>7, <1>8 DEF Library!Next

LEMMA LibraryInvMeans ==
  ASSUME LibraryConstantsFit, LibraryInv
  PROVE  Library!LibraryIsSound /\ Library!UntouchedStaysPresent
<1>1. ASSUME NEW lib, Right(lib), Ordered(lib) PROVE Library!Valid(lib)
  <2>1. \A k, l \in Library!Present(lib) : k[2] = l[2] => k = l
    BY <1>1 DEF Right, ParsedSo, Library!Present, Library!Keys
  <2> QED BY <1>1, <2>1 DEF Library!Valid, Right, Placed, Library!Known, Ordered
<1>2. Library!PresentIsWhatWasParsed
  BY DEF LibraryInv, LibrariesFit, Library!PresentIsWhatWasParsed, Right, ParsedSo,
     Library!Present
<1>3. Library!LibrariesCanBeSaved
  BY <1>1 DEF LibraryInv, LibraryTypes, LibrariesFit, Library!LibrariesCanBeSaved
<1> QED BY <1>2, <1>3 DEF LibraryInv, Library!LibraryIsSound

LEMMA LibraryMoves ==
  ASSUME [DeskNext]_deskVars, part = "library"
  PROVE  [Library!Next]_(Library!vars)
  BY DEF DeskNext, deskVars, libraryVars, Library!vars

LEMMA LibraryStays == DeskSpec => [](part = "library" => LibraryInv)
<1>1. DeskInit => (part = "library" => LibraryInv)
  BY LibraryStarts, DeskAssumption DEF DeskInit
<1>2. (part = "library" => LibraryInv) /\ [DeskNext]_deskVars
        => (part = "library" => LibraryInv)'
  BY PartStays, LibraryMoves, LibraryStep, DeskAssumption
<1> QED BY <1>1, <1>2, PTL DEF DeskSpec

(* For any tree of folders, however rescans overlap with other programs,  *)
(* are cancelled or meet what cannot be read: what is present was parsed  *)
(* so, lies under a registered root and can be saved.                     *)
THEOREM LibrariesStaySound ==
  /\ Library!Spec => []Library!LibraryIsSound
  /\ DeskSpec => []LibraryIsSound
<1>1. Library!Init => LibraryInv
  BY LibraryStarts, DeskAssumption
<1>2. LibraryInv /\ [Library!Next]_(Library!vars) => LibraryInv'
  BY LibraryStep, DeskAssumption
<1>3. LibraryInv => Library!LibraryIsSound
  BY LibraryInvMeans, DeskAssumption
<1>4. (part = "library" => LibraryInv) => LibraryIsSound
  BY <1>3 DEF LibraryIsSound
<1>5. Library!Spec => []Library!LibraryIsSound
  BY <1>1, <1>2, <1>3, PTL DEF Library!Spec
<1>6. DeskSpec => []LibraryIsSound
  BY <1>4, LibraryStays, PTL
<1> QED BY <1>5, <1>6

(* A partial or cancelled rescan declares no file absent that nobody      *)
(* touched.                                                               *)
THEOREM UntouchedFilesStay ==
  /\ Library!Spec => []Library!UntouchedStaysPresent
  /\ DeskSpec => []UntouchedStaysPresent
<1>1. Library!Init => LibraryInv
  BY LibraryStarts, DeskAssumption
<1>2. LibraryInv /\ [Library!Next]_(Library!vars) => LibraryInv'
  BY LibraryStep, DeskAssumption
<1>3. LibraryInv => Library!UntouchedStaysPresent
  BY LibraryInvMeans, DeskAssumption
<1>4. (part = "library" => LibraryInv) => UntouchedStaysPresent
  BY <1>3 DEF UntouchedStaysPresent
<1>5. Library!Spec => []Library!UntouchedStaysPresent
  BY <1>1, <1>2, <1>3, PTL DEF Library!Spec
<1>6. DeskSpec => []UntouchedStaysPresent
  BY <1>4, LibraryStays, PTL
<1> QED BY <1>5, <1>6

-----------------------------------------------------------------------------
(* The cache of Store results. That entries are true does not depend on   *)
(* the order of writers: every text under way is made of true entries     *)
(* (Lookups), and an audit that was looked up stays so. That a writer     *)
(* nobody came between has exactly its effect does: nobody else then has  *)
(* the file open, so that what is at the temporary name is its own        *)
(* (Undisturbed).                                                         *)

Caches   == [Cache!Keys -> [by : CacheAudits \cup {0}, meta : BOOLEAN]]
Texts    == [is : {"json", "torn", "none"}, cache : Caches]
Jobs     == {[kind |-> "clear"]} \cup [kind : {"update"}, again : BOOLEAN]
            \cup [kind : {"complete"}, key : Cache!Keys]
Founds   == {"none", "reused", "reused bare"} \cup Cache!Found
Pending  == [package : Packages, market : CacheMarkets, generation : Nat]

DiskFits ==
  /\ cacheFile \in Texts /\ temp \in Texts
  /\ cachePc \in [Cache!Writers -> {"idle", "read", "open", "write", "replace"}]
  /\ job \in [Cache!Writers -> Jobs] /\ data \in [Cache!Writers -> Caches]
  /\ out \in [Cache!Writers -> {"temp", "file", "gone"}]
  /\ disturbed \in [Cache!Writers -> BOOLEAN]

AuditsFit ==
  /\ cacheAudit \in [CacheAudits -> [market : CacheMarkets, found : [Packages -> Founds],
                                     state : {"new", "running", "done"}]]
  /\ \A a \in CacheAudits : cacheAudit[a].state = "new"
       => \A p \in Packages : cacheAudit[a].found[p] = "none"

RowsFit ==
  /\ market \in CacheMarkets /\ generation \in Nat /\ filled \in [Packages -> Nat]
  /\ fetching \subseteq Pending /\ arrived \subseteq Pending
  /\ Cache!CompletionsFitTheRows

\* The cache is updated with the rows of an audit once it is over.
JobsFit ==
  \A w \in Cache!Writers : job[w].kind = "update"
    => w \in CacheAudits /\ cacheAudit[w].state = "done"

\* The entry of a key was found by the audit it is dated by.
True(entry, k) ==
  entry # Cache!None => /\ entry.by \in CacheAudits
                        /\ cacheAudit[entry.by].market = k[1]
                        /\ cacheAudit[entry.by].found[k[2]] \in {"healthy", "bare"}

AllTrue(cache) == \A k \in Cache!Keys : True(cache[k], k)

Lookups == AllTrue(cacheFile.cache) /\ AllTrue(temp.cache) /\ \A w \in Cache!Writers :
    AllTrue(data[w])

Alone(w) ==
  cachePc[w] # "idle" /\ ~disturbed[w] =>
         /\ \A v \in Cache!Writers \ {w} : out[v] = "gone"
         /\ cachePc[w] \in {"open", "write", "replace"}
              => data[w] = Cache!Applied(w, cacheFile.cache)
         /\ cachePc[w] \in {"write", "replace"} => out[w] = "temp"
         /\ cachePc[w] = "replace" => temp = Cache!Json(data[w])

Undisturbed == \A w \in Cache!Writers : Alone(w)

CacheInv == DiskFits /\ AuditsFit /\ RowsFit /\ JobsFit /\ Lookups /\ Undisturbed

-----------------------------------------------------------------------------
(* What the operations make of a cache. *)

LEMMA CacheEmptyFits == Cache!Empty \in Caches /\ AllTrue(Cache!Empty)
  BY DEF Cache!Empty, Cache!None, Caches, AllTrue, True

LEMMA KeysArePairs ==
  ASSUME NEW k \in Cache!Keys
  PROVE  k[1] \in CacheMarkets /\ k[2] \in Packages
  BY DEF Cache!Keys

LEMMA UpdatedFits ==
  ASSUME AuditsFit, NEW a \in CacheAudits, NEW cache \in Caches, AllTrue(cache)
  PROVE  Cache!Updated(a, cache) \in Caches /\ AllTrue(Cache!Updated(a, cache))
<1> DEFINE new == Cache!Updated(a, cache)
<1>1. ASSUME NEW k \in Cache!Keys
      PROVE  new[k] \in [by : CacheAudits \cup {0}, meta : BOOLEAN] /\ True(new[k], k)
  <2>1. cache[k] \in [by : CacheAudits \cup {0}, meta : BOOLEAN] /\ True(cache[k], k)
    BY DEF Caches, AllTrue
  <2>2. \/ new[k] = cache[k]
        \/ new[k] = Cache!None
        \/ /\ k[1] = cacheAudit[a].market /\ cacheAudit[a].found[k[2]] \in {"healthy", "bare"}
           /\ \E meta \in BOOLEAN : new[k] = [by |-> a, meta |-> meta]
    BY DEF Cache!Updated
  <2>3. CASE new[k] = cache[k]
    BY <2>1, <2>3
  <2>4. CASE new[k] = Cache!None
    BY <2>4 DEF Cache!None, True
  <2>5. CASE /\ k[1] = cacheAudit[a].market /\ cacheAudit[a].found[k[2]] \in {"healthy", "bare"}
             /\ \E meta \in BOOLEAN : new[k] = [by |-> a, meta |-> meta]
    <3>1. PICK meta \in BOOLEAN : new[k] = [by |-> a, meta |-> meta]
      BY <2>5
    <3>2. new[k].by = a
      BY <3>1
    <3>3. True(new[k], k)
      BY <2>5, <3>2 DEF True
    <3> QED BY <3>1, <3>3
  <2> QED BY <2>2, <2>3, <2>4, <2>5
<1>2. new = [k \in Cache!Keys |-> new[k]]
  BY DEF Cache!Updated
<1> HIDE DEF new
<1>3. new \in Caches
  BY <1>1, <1>2 DEF Caches
<1>4. AllTrue(new)
  BY <1>1 DEF AllTrue
<1> QED BY <1>3, <1>4 DEF new

LEMMA CompletedFits ==
  ASSUME NEW key \in Cache!Keys, NEW cache \in Caches, AllTrue(cache),
         Cache!Completable(key, cache)
  PROVE  Cache!Completed(key, cache) \in Caches /\ AllTrue(Cache!Completed(key, cache))
<1>1. Cache!Completed(key, cache) \in Caches
  BY DEF Cache!Completed, Caches
<1>2. ASSUME NEW k \in Cache!Keys PROVE True(Cache!Completed(key, cache)[k], k)
  <2>1. True(cache[k], k) /\ cache[key] # Cache!None
    BY DEF AllTrue, Cache!Completable
  <2>2. CASE k # key
    BY <2>1, <2>2 DEF Cache!Completed, Caches
  <2>3. CASE k = key
    <3>1. Cache!Completed(key, cache)[k].by = cache[k].by
      BY <2>3 DEF Cache!Completed, Caches
    <3> QED BY <2>1, <2>3, <3>1 DEF True
  <2> QED BY <2>2, <2>3
<1> QED BY <1>1, <1>2 DEF AllTrue

(* What a job makes of the cache stays the same while its audit does. *)
LEMMA AppliedAgain ==
  ASSUME NEW w, cacheFile' = cacheFile, job'[w] = job[w],
         job[w].kind = "update" => cacheAudit'[w] = cacheAudit[w]
  PROVE  Cache!Applied(w, cacheFile.cache)' = Cache!Applied(w, cacheFile.cache)
  BY DEF Cache!Applied, Cache!Updated, Cache!Completed, Cache!Empty

LEMMA AppliedFits ==
  ASSUME CacheInv, NEW w \in Cache!Writers,
         job[w].kind = "complete" => Cache!Completable(job[w].key, cacheFile.cache)
  PROVE  Cache!Applied(w, cacheFile.cache) \in Caches
           /\ AllTrue(Cache!Applied(w, cacheFile.cache))
<1>1. cacheFile.cache \in Caches /\ AllTrue(cacheFile.cache) /\ job[w] \in Jobs
  BY DEF CacheInv, DiskFits, Texts, Lookups
<1>2. CASE job[w].kind = "update"
  BY <1>1, <1>2, UpdatedFits DEF CacheInv, JobsFit, Cache!Applied
<1>3. CASE job[w].kind = "complete"
  <2>1. job[w].key \in Cache!Keys
    BY <1>1, <1>3 DEF Jobs
  <2> QED BY <1>1, <1>3, <2>1, CompletedFits DEF Cache!Applied
<1>4. CASE job[w].kind \notin {"update", "complete"}
  BY <1>4, CacheEmptyFits DEF Cache!Applied
<1> QED BY <1>2, <1>3, <1>4

(* What was found stays found. *)
LEMMA TrueStays ==
  ASSUME \A a \in CacheAudits : \A p \in Packages :
      cacheAudit[a].found[p] \in {"healthy", "bare"} =>
           cacheAudit'[a].market = cacheAudit[a].market
             /\ cacheAudit'[a].found[p] = cacheAudit[a].found[p],
         NEW cache, AllTrue(cache)
  PROVE  AllTrue(cache)'
<1> SUFFICES ASSUME NEW k \in Cache!Keys PROVE True(cache[k], k)'
  BY DEF AllTrue
<1>1. True(cache[k], k) /\ k[2] \in Packages
  BY KeysArePairs DEF AllTrue
<1> QED BY <1>1 DEF True

-----------------------------------------------------------------------------
(* Access to the files. *)

AccessFrame == UNCHANGED <<cacheAudit, market, cacheCurrent, Cache!shown>>

LEMMA AccessKeeps ==
  ASSUME CacheInv, AccessFrame
  PROVE  AuditsFit' /\ RowsFit' /\ \A cache : AllTrue(cache) => AllTrue(cache)'
<1>1. cacheAudit' = cacheAudit /\ market' = market /\ cacheRows' = cacheRows
        /\ generation' = generation
      /\ fetching' = fetching /\ arrived' = arrived /\ filled' = filled
  BY DEF AccessFrame, Cache!shown
<1>2. AuditsFit' /\ RowsFit'
  BY <1>1 DEF CacheInv, AuditsFit, RowsFit, Cache!CompletionsFitTheRows
<1>3. ASSUME NEW cache, AllTrue(cache) PROVE AllTrue(cache)'
  BY <1>1, <1>3, TrueStays
<1> QED BY <1>2, <1>3

LEMMA ReadStep ==
  ASSUME CacheInv, NEW w \in Cache!Writers, Cache!ReadCache(w)
  PROVE  CacheInv' /\ cachePc[w] = "read"
<1>1. /\ cachePc[w] = "read" /\ cacheFile' = cacheFile /\ temp' = temp /\ job' = job
      /\ out' = out
      /\ disturbed' = disturbed /\ cacheAudit' = cacheAudit /\ AccessFrame
  BY DEF Cache!ReadCache, AccessFrame, Cache!shown
<1>2. \/ cachePc' = [cachePc EXCEPT ![w] = "idle"] /\ data' = data
      \/ /\ cachePc' = [cachePc EXCEPT ![w] = "open"]
         /\ data' = [data EXCEPT ![w] = Cache!Applied(w, cacheFile.cache)]
         /\ job[w].kind = "complete" => Cache!Completable(job[w].key, cacheFile.cache)
  BY DEF Cache!ReadCache, Cache!Readable
<1> DEFINE made == Cache!Applied(w, cacheFile.cache)
<1>3. (made \in Caches /\ AllTrue(made)) \/ data' = data
  BY <1>2, AppliedFits
<1>4. \A v \in Cache!Writers : data'[v] = data[v]
        \/ (data'[v] = made /\ made \in Caches /\ AllTrue(made))
  BY <1>2, <1>3 DEF CacheInv, DiskFits
<1>5. \A v \in Cache!Writers \ {w} : data'[v] = data[v] /\ cachePc'[v] = cachePc[v]
  BY <1>2 DEF CacheInv, DiskFits
<1>6. cachePc'[w] = "idle" \/ (cachePc'[w] = "open" /\ data'[w] = made)
  BY <1>2 DEF CacheInv, DiskFits
<1>7. DiskFits'
  <2>1. cachePc' \in [Cache!Writers -> {"idle", "read", "open", "write", "replace"}]
    BY <1>2 DEF CacheInv, DiskFits
  <2>2. data' \in [Cache!Writers -> Caches]
    BY <1>2, <1>3 DEF CacheInv, DiskFits
  <2> QED BY <1>1, <2>1, <2>2 DEF CacheInv, DiskFits
<1>8. AuditsFit' /\ RowsFit' /\ \A cache : AllTrue(cache) => AllTrue(cache)'
  BY <1>1, AccessKeeps
<1>9. JobsFit'
  BY <1>1 DEF CacheInv, JobsFit
<1>10. Lookups'
  <2>1. \A v \in Cache!Writers : AllTrue(data'[v])
    BY <1>4 DEF CacheInv, Lookups
  <2>2. AllTrue(cacheFile.cache) /\ AllTrue(temp.cache)
    BY DEF CacheInv, Lookups
  <2>3. \A cache : AllTrue(cache)' <=> AllTrue(cache)
    BY <1>1 DEF AllTrue, True
  <2> QED BY <1>1, <2>1, <2>2, <2>3 DEF Lookups, AllTrue, True
<1>11. Undisturbed'
  <2> SUFFICES ASSUME NEW v \in Cache!Writers PROVE Alone(v)'
    BY DEF Undisturbed
  <2>1. Alone(v) /\ Cache!Applied(v, cacheFile.cache)' = Cache!Applied(v, cacheFile.cache)
    BY <1>1, AppliedAgain DEF CacheInv, Undisturbed
  <2>2. CASE v # w
    BY <1>1, <1>5, <2>1, <2>2 DEF Alone
  <2>3. CASE v = w
    BY <1>1, <1>6, <2>1, <2>3 DEF Alone
  <2> QED BY <2>2, <2>3
<1> QED BY <1>1, <1>7, <1>8, <1>9, <1>10, <1>11 DEF CacheInv

(* A step that writes: it disturbs every other writer. *)
LEMMA WriteKeeps ==
  ASSUME CacheInv, NEW w \in Cache!Writers, Cache!Disturb(w), AccessFrame,
         cachePc[w] # "idle", job' = job, data' = data,
         cacheFile' \in Texts, temp' \in Texts, AllTrue(cacheFile'.cache), AllTrue(temp'.cache),
         cachePc' = [cachePc EXCEPT ![w] = cachePc'[w]],
         cachePc'[w] \in {"idle", "read", "open", "write", "replace"},
         out' \in [Cache!Writers -> {"temp", "file", "gone"}],
         cachePc'[w] # "idle" /\ ~disturbed[w] =>
                /\ cacheFile' = cacheFile /\ data[w] = Cache!Applied(w, cacheFile.cache)
                /\ \A v \in Cache!Writers \ {w} : out'[v] = out[v]
                /\ out'[w] = "temp" /\ cachePc'[w] \in {"write", "replace"}
                /\ cachePc'[w] = "replace" => temp' = Cache!Json(data[w])
  PROVE  CacheInv'
<1>1. /\ \A v \in Cache!Writers \ {w} : disturbed'[v]
      /\ disturbed'[w] = disturbed[w] /\ disturbed' \in [Cache!Writers -> BOOLEAN]
  BY DEF Cache!Disturb, CacheInv, DiskFits
<1>2. cachePc' \in [Cache!Writers -> {"idle", "read", "open", "write", "replace"}]
  BY DEF CacheInv, DiskFits
<1>3. DiskFits'
  BY <1>1, <1>2 DEF CacheInv, DiskFits
<1>4. AuditsFit' /\ RowsFit'
  BY AccessKeeps
<1>5. cacheAudit' = cacheAudit
  BY DEF AccessFrame
<1>6. JobsFit' /\ Lookups'
  BY <1>5 DEF CacheInv, JobsFit, Lookups, AllTrue, True
<1>7. Undisturbed'
  <2> SUFFICES ASSUME NEW v \in Cache!Writers, cachePc'[v] # "idle", ~disturbed'[v]
               PROVE  Alone(v)'
    BY DEF Undisturbed, Alone
  <2>1. v = w /\ ~disturbed[w] /\ Alone(w)
    BY <1>1 DEF CacheInv, Undisturbed
  <2>2. Cache!Applied(w, cacheFile.cache)' = Cache!Applied(w, cacheFile.cache)
    BY <1>5, <2>1, AppliedAgain
  <2> QED BY <2>1, <2>2 DEF Alone
<1> QED BY <1>3, <1>4, <1>6, <1>7 DEF CacheInv

LEMMA TextsFit ==
  ASSUME CacheInv, NEW w \in Cache!Writers
  PROVE  /\ Cache!Json(data[w]) \in Texts /\ AllTrue(Cache!Json(data[w]).cache)
         /\ Cache!Torn \in Texts /\ AllTrue(Cache!Torn.cache)
         /\ Cache!NoFile \in Texts /\ AllTrue(Cache!NoFile.cache)
  BY CacheEmptyFits DEF CacheInv, DiskFits, Lookups, Cache!Json, Cache!Torn, Cache!NoFile,
     Texts

LEMMA CacheOpenStep ==
  ASSUME CacheInv, NEW w \in Cache!Writers, Cache!OpenTemp(w)
  PROVE  CacheInv' /\ cachePc[w] = "open"
<1>1. /\ cachePc[w] = "open" /\ temp' = Cache!Torn /\ cacheFile' = cacheFile /\ job' = job
      /\ data' = data
      /\ out' = [out EXCEPT ![w] = "temp"] /\ cachePc' = [cachePc EXCEPT ![w] = "write"]
      /\ Cache!Disturb(w) /\ AccessFrame
  BY DEF Cache!OpenTemp, AccessFrame, Cache!shown
<1>2. /\ cachePc'[w] = "write" /\ out'[w] = "temp" /\ \A v \in Cache!Writers \ {w} :
           out'[v] = out[v]
      /\ out' \in [Cache!Writers -> {"temp", "file", "gone"}]
      /\ cachePc' = [cachePc EXCEPT ![w] = cachePc'[w]]
  BY <1>1 DEF CacheInv, DiskFits
<1>3. ~disturbed[w] => data[w] = Cache!Applied(w, cacheFile.cache)
  BY <1>1 DEF CacheInv, Undisturbed, Alone
<1>4. cacheFile' \in Texts /\ temp' \in Texts /\ AllTrue(cacheFile'.cache)
        /\ AllTrue(temp'.cache)
  BY <1>1, TextsFit DEF CacheInv, DiskFits, Lookups
<1> QED BY <1>1, <1>2, <1>3, <1>4, WriteKeeps

LEMMA WriteStep ==
  ASSUME CacheInv, NEW w \in Cache!Writers, Cache!WriteTemp(w)
  PROVE  CacheInv' /\ cachePc[w] = "write"
<1>1. /\ cachePc[w] = "write" /\ job' = job /\ data' = data /\ out' = out
      /\ cachePc' = [cachePc EXCEPT ![w] = "replace"] /\ Cache!Disturb(w) /\ AccessFrame
  BY DEF Cache!WriteTemp, AccessFrame, Cache!shown
<1>2. PICK content \in {Cache!Json(data[w]), Cache!Torn} :
        /\ Cache!Written(w, content)
        /\ CASE out[w] = "temp" -> temp' = content /\ UNCHANGED cacheFile
             [] out[w] = "file" -> cacheFile' = content /\ UNCHANGED temp
             [] OTHER           -> UNCHANGED <<cacheFile, temp>>
  BY DEF Cache!WriteTemp
<1>3. /\ out[w] = "temp" => temp' = content /\ cacheFile' = cacheFile
      /\ out[w] = "file" => cacheFile' = content /\ temp' = temp
      /\ out[w] \notin {"temp", "file"} => cacheFile' = cacheFile /\ temp' = temp
  BY <1>2
<1>4. content \in Texts /\ AllTrue(content.cache)
  BY <1>2, TextsFit
<1>5. cacheFile' \in Texts /\ temp' \in Texts /\ AllTrue(cacheFile'.cache)
        /\ AllTrue(temp'.cache)
  BY <1>3, <1>4 DEF CacheInv, DiskFits, Lookups
<1>6. cachePc'[w] = "replace" /\ cachePc' = [cachePc EXCEPT ![w] = cachePc'[w]]
      /\ out' \in [Cache!Writers -> {"temp", "file", "gone"}]
  BY <1>1 DEF CacheInv, DiskFits
<1>7. ASSUME ~disturbed[w]
      PROVE  /\ cacheFile' = cacheFile /\ data[w] = Cache!Applied(w, cacheFile.cache)
             /\ out[w] = "temp" /\ temp' = Cache!Json(data[w])
  <2>1. /\ \A v \in Cache!Writers \ {w} : out[v] = "gone"
        /\ data[w] = Cache!Applied(w, cacheFile.cache) /\ out[w] = "temp"
    BY <1>1, <1>7 DEF CacheInv, Undisturbed, Alone
  <2>2. content = Cache!Json(data[w])
    BY <1>2, <2>1 DEF Cache!Written
  <2> QED BY <1>3, <2>1, <2>2
<1> QED BY <1>1, <1>5, <1>6, <1>7, WriteKeeps

LEMMA ReplaceStep ==
  ASSUME CacheInv, NEW w \in Cache!Writers, Cache!ReplaceFile(w)
  PROVE  /\ CacheInv' /\ cachePc[w] = "replace" /\ \A v \in Cache!Writers \ {w} :
              cachePc'[v] = cachePc[v]
         /\ ~disturbed[w] => cacheFile' = Cache!Json(Cache!Applied(w, cacheFile.cache))
<1>1. /\ cachePc[w] = "replace" /\ cacheFile' = temp /\ temp' = Cache!NoFile /\ job' = job
      /\ data' = data
      /\ cachePc' = [cachePc EXCEPT ![w] = "idle"] /\ Cache!Disturb(w) /\ AccessFrame
  BY DEF Cache!ReplaceFile, AccessFrame, Cache!shown
<1>2. out' \in [Cache!Writers -> {"temp", "file", "gone"}]
  BY DEF Cache!ReplaceFile
<1>3. cacheFile' \in Texts /\ temp' \in Texts /\ AllTrue(cacheFile'.cache)
        /\ AllTrue(temp'.cache)
  BY <1>1, TextsFit DEF CacheInv, DiskFits, Lookups
<1>4. cachePc'[w] = "idle" /\ cachePc' = [cachePc EXCEPT ![w] = cachePc'[w]]
      /\ \A v \in Cache!Writers \ {w} : cachePc'[v] = cachePc[v]
  BY <1>1 DEF CacheInv, DiskFits
<1>5. ~disturbed[w] => cacheFile' = Cache!Json(Cache!Applied(w, cacheFile.cache))
  BY <1>1 DEF CacheInv, Undisturbed, Alone
<1>6. CacheInv'
  BY <1>1, <1>2, <1>3, <1>4, WriteKeeps
<1> QED BY <1>1, <1>4, <1>5, <1>6

(* A failed writer starts over or leaves, and is no longer undisturbed. *)
LEMMA FailStep ==
  ASSUME CacheInv, NEW w \in Cache!Writers, Cache!WriteFails(w)
  PROVE  CacheInv' /\ \A v \in Cache!Writers \ {w} : cachePc'[v] = cachePc[v]
<1>1. /\ cacheFile' = cacheFile /\ temp' = temp /\ data' = data /\ AccessFrame
      /\ cacheAudit' = cacheAudit
      /\ out' = [out EXCEPT ![w] = "gone"] /\ disturbed' = [disturbed EXCEPT ![w] = TRUE]
  BY DEF Cache!WriteFails, AccessFrame, Cache!shown
<1>2. \/ /\ job[w].kind = "update" /\ job' = [job EXCEPT ![w].again = TRUE]
         /\ cachePc' = [cachePc EXCEPT ![w] = "read"]
      \/ cachePc' = [cachePc EXCEPT ![w] = "idle"] /\ job' = job
  BY DEF Cache!WriteFails
<1>3. /\ \A v \in Cache!Writers \ {w} : cachePc'[v] = cachePc[v] /\ disturbed'[v] = disturbed[v]
      /\ \A v \in Cache!Writers \ {w} : out'[v] = out[v]
      /\ disturbed'[w]
  BY <1>1, <1>2 DEF CacheInv, DiskFits
<1>3a. \A v \in Cache!Writers \ {w} : job'[v] = job[v]
  BY <1>2 DEF CacheInv, DiskFits
<1>3b. job'[w].kind = job[w].kind
  BY <1>2 DEF CacheInv, DiskFits, Jobs
<1>4. job' \in [Cache!Writers -> Jobs]
  <2>1. CASE job' = job
    BY <2>1 DEF CacheInv, DiskFits
  <2>2. CASE job[w].kind = "update" /\ job' = [job EXCEPT ![w].again = TRUE]
    <3>1. job[w] \in [kind : {"update"}, again : BOOLEAN]
      BY <2>2 DEF CacheInv, DiskFits, Jobs
    <3>2. [job[w] EXCEPT !.again = TRUE] \in Jobs
      BY <3>1 DEF Jobs
    <3> QED BY <2>2, <3>2 DEF CacheInv, DiskFits
  <2> QED BY <1>2, <2>1, <2>2
<1>5. DiskFits'
  <2>1. /\ cachePc' \in [Cache!Writers -> {"idle", "read", "open", "write", "replace"}]
        /\ out' \in [Cache!Writers -> {"temp", "file", "gone"}]
        /\ disturbed' \in [Cache!Writers -> BOOLEAN]
    BY <1>1, <1>2 DEF CacheInv, DiskFits
  <2> QED BY <1>1, <1>4, <2>1 DEF CacheInv, DiskFits
<1>6. AuditsFit' /\ RowsFit'
  BY <1>1, AccessKeeps
<1>7. JobsFit' /\ Lookups'
  BY <1>1, <1>3a, <1>3b DEF CacheInv, JobsFit, Lookups, AllTrue, True
<1>8. Undisturbed'
  <2> SUFFICES ASSUME NEW v \in Cache!Writers, cachePc'[v] # "idle", ~disturbed'[v]
               PROVE  Alone(v)'
    BY DEF Undisturbed, Alone
  <2>1. v # w /\ ~disturbed[v] /\ cachePc[v] # "idle" /\ Alone(v)
    BY <1>3 DEF CacheInv, Undisturbed
  <2>2. Cache!Applied(v, cacheFile.cache)' = Cache!Applied(v, cacheFile.cache)
    BY <1>1, <1>3a, <2>1, AppliedAgain
  <2> QED BY <1>1, <1>3, <2>1, <2>2 DEF Alone
<1> QED BY <1>3, <1>5, <1>6, <1>7, <1>8 DEF CacheInv

-----------------------------------------------------------------------------
(* The other steps: what was found stays, and an audit that is over. *)

AuditsStay ==
  \A a \in CacheAudits :
    /\ cacheAudit[a].state = "done" => cacheAudit'[a] = cacheAudit[a]
    /\ \A p \in Packages : cacheAudit[a].found[p] \in {"healthy", "bare"} =>
         cacheAudit'[a].market = cacheAudit[a].market
           /\ cacheAudit'[a].found[p] = cacheAudit[a].found[p]

LEMMA OtherWritersKeep ==
  ASSUME CacheInv, AuditsStay, NEW w \in Cache!Writers, cacheFile' = cacheFile, out' = out,
         job'[w] = job[w],
         cachePc'[w] = cachePc[w], data'[w] = data[w], temp' = temp, disturbed'[w]
           = disturbed[w]
  PROVE  /\ Alone(w)'
         /\ job'[w].kind = "update" => w \in CacheAudits /\ cacheAudit'[w].state = "done"
<1>1. job[w].kind = "update" => w \in CacheAudits /\ cacheAudit[w].state = "done"
        /\ cacheAudit'[w] = cacheAudit[w]
  BY DEF CacheInv, JobsFit, AuditsStay
<1>2. Cache!Applied(w, cacheFile.cache)' = Cache!Applied(w, cacheFile.cache)
  BY <1>1, AppliedAgain
<1> QED BY <1>1, <1>2 DEF CacheInv, Undisturbed, Alone

LEMMA DiskStays ==
  ASSUME CacheInv, AuditsStay, UNCHANGED Cache!disk, AuditsFit', RowsFit'
  PROVE  CacheInv' /\ cachePc' = cachePc
<1>1. /\ cacheFile' = cacheFile /\ temp' = temp /\ cachePc' = cachePc /\ job' = job
      /\ data' = data /\ out' = out
      /\ disturbed' = disturbed
  BY DEF Cache!disk
<1>2. DiskFits'
  BY <1>1 DEF CacheInv, DiskFits
<1>3. JobsFit' /\ Undisturbed'
  BY <1>1, OtherWritersKeep DEF JobsFit, Undisturbed
<1>4. ASSUME NEW cache, AllTrue(cache) PROVE AllTrue(cache)'
  BY <1>4, TrueStays DEF AuditsStay
<1>5. Lookups'
  BY <1>1, <1>4 DEF CacheInv, Lookups, AllTrue
<1> QED BY <1>1, <1>2, <1>3, <1>5 DEF CacheInv

LEMMA StartKeeps ==
  ASSUME CacheInv, AuditsStay, AuditsFit', RowsFit', NEW w \in Cache!Writers, NEW j \in Jobs,
         Cache!StartJob(w, j), UNCHANGED <<cacheFile, temp, out>>,
         j.kind = "update" => w \in CacheAudits /\ cacheAudit'[w].state = "done"
  PROVE  CacheInv' /\ \A v \in Cache!Writers : cachePc'[v] # "idle" \/ cachePc'[v] = cachePc[v]
<1>1. /\ \A v \in Cache!Writers \ {w} : /\ job'[v] = job[v] /\ cachePc'[v] = cachePc[v]
                                        /\ data'[v] = data[v] /\ disturbed'[v] = disturbed[v]
      /\ job'[w] = j /\ data'[w] = Cache!Empty
      /\ cachePc'[w] = "read" \/ (cachePc'[w] = "open" /\ j.kind = "clear")
      /\ ~disturbed'[w] => \A v \in Cache!Writers \ {w} : out[v] = "gone"
  BY DEF Cache!StartJob, CacheInv, DiskFits
<1>2. DiskFits'
  BY CacheEmptyFits DEF Cache!StartJob, CacheInv, DiskFits
<1>3. ASSUME NEW v \in Cache!Writers \ {w}
      PROVE  /\ Alone(v)'
             /\ job'[v].kind = "update" => v \in CacheAudits /\ cacheAudit'[v].state = "done"
  BY <1>1, OtherWritersKeep
<1>4. Alone(w)'
  <2>1. cachePc'[w] = "open" => (Cache!Applied(w, cacheFile.cache) = Cache!Empty)'
    BY <1>1 DEF Cache!Applied, Cache!Empty
  <2> QED BY <1>1, <2>1 DEF Alone
<1>5. JobsFit' /\ Undisturbed'
  BY <1>1, <1>3, <1>4 DEF JobsFit, Undisturbed
<1>6. ASSUME NEW cache, AllTrue(cache) PROVE AllTrue(cache)'
  BY <1>6, TrueStays DEF AuditsStay
<1>7. Lookups'
  <2>1. AllTrue(cacheFile.cache)' /\ AllTrue(temp.cache)'
    BY <1>6 DEF CacheInv, Lookups, AllTrue
  <2>2. ASSUME NEW v \in Cache!Writers PROVE AllTrue(data[v])'
    <3>1. AllTrue(data'[v])
      BY <1>1, CacheEmptyFits DEF CacheInv, Lookups
    <3> QED BY <3>1, <1>6 DEF AllTrue
  <2> QED BY <2>1, <2>2 DEF Lookups
<1> QED BY <1>1, <1>2, <1>5, <1>7 DEF CacheInv

LEMMA RequestsFit ==
  ASSUME market \in CacheMarkets, NEW shownRows, NEW g \in Nat
  PROVE  Cache!Requests(shownRows, g) \subseteq Pending
  BY DEF Cache!Requests, Pending

LEMMA CacheBeginStep ==
  ASSUME CacheInv, NEW a \in CacheAudits, Cache!Begin(a)
  PROVE  AuditsFit' /\ AuditsStay
<1>1. PICK since \in CacheAudits \cup {a + 1} :
        cacheAudit' = [cacheAudit EXCEPT ![a] = [market |-> market,
                                                 found |-> Cache!Reused(since),
                                                 state |-> "running"]]
  BY DEF Cache!Begin
<1>2. Cache!Reused(since) \in [Packages -> Founds]
  BY DEF Cache!Reused, Founds
<1>3. cacheAudit[a].state = "new" /\ \A p \in Packages : cacheAudit[a].found[p] = "none"
  BY DEF Cache!Begin, CacheInv, AuditsFit
<1> DEFINE begun == [market |-> market, found |-> Cache!Reused(since), state |-> "running"]
<1>4. begun \in [market : CacheMarkets, found : [Packages -> Founds],
                 state : {"new", "running", "done"}]
      /\ begun.state = "running"
  BY <1>2 DEF CacheInv, RowsFit
<1>5. cacheAudit' = [cacheAudit EXCEPT ![a] = begun]
  BY <1>1
<1> HIDE DEF begun
<1>6. AuditsFit'
  BY <1>4, <1>5 DEF CacheInv, AuditsFit
<1>7. AuditsStay
  BY <1>3, <1>5 DEF CacheInv, AuditsFit, AuditsStay
<1> QED BY <1>6, <1>7

LEMMA NewGenerationFits ==
  ASSUME RowsFit, Cache!NewGeneration, market' = market, arrived' = arrived,
         fetching' \subseteq Pending
  PROVE  RowsFit'
  BY DEF RowsFit, Cache!NewGeneration, Cache!CompletionsFitTheRows

LEMMA AuditStep ==
  ASSUME CacheInv, NEW a \in CacheAudits, Cache!Audit(a)
  PROVE  CacheInv' /\ \A w \in Cache!Writers : cachePc'[w] # "idle" \/ cachePc'[w] = cachePc[w]
<1>1. CASE Cache!StartAudit(a)
  <2>1. fetching' \subseteq Pending /\ RowsFit'
    <3>1. generation' \in Nat /\ market \in CacheMarkets
      BY <1>1 DEF Cache!StartAudit, Cache!NewGeneration, CacheInv, RowsFit
    <3>2. Cache!Requests(cacheRows', generation') \subseteq Pending
      BY <3>1, RequestsFit
    <3> QED BY <1>1, <3>2, NewGenerationFits DEF Cache!StartAudit, CacheInv
  <2>2. AuditsFit' /\ AuditsStay /\ UNCHANGED Cache!disk
    BY <1>1, CacheBeginStep DEF Cache!StartAudit
  <2> QED BY <2>1, <2>2, DiskStays
<1>2. CASE Cache!StartHeadless(a)
  <2>1. AuditsFit' /\ AuditsStay /\ UNCHANGED Cache!disk
    BY <1>2, CacheBeginStep DEF Cache!StartHeadless
  <2>2. RowsFit'
    BY <1>2 DEF Cache!StartHeadless, Cache!shown, CacheInv, RowsFit,
       Cache!CompletionsFitTheRows
  <2> QED BY <2>1, <2>2, DiskStays
<1>3. CASE Cache!Persist(a)
  <2>1. cacheAudit' = [cacheAudit EXCEPT ![a].state = "done"] /\ cacheAudit[a].state = "running"
    BY <1>3 DEF Cache!Persist
  <2>2. AuditsFit' /\ AuditsStay /\ cacheAudit'[a].state = "done"
    BY <2>1 DEF CacheInv, AuditsFit, AuditsStay
  <2>3. RowsFit'
    BY <1>3 DEF Cache!Persist, Cache!shown, CacheInv, RowsFit, Cache!CompletionsFitTheRows
  <2>4. CASE UNCHANGED Cache!disk
    BY <2>2, <2>3, <2>4, DiskStays
  <2>5. CASE Cache!StartJob(a, [kind |-> "update", again |-> FALSE])
          /\ UNCHANGED <<cacheFile, temp, out>>
    <3>1. [kind |-> "update", again |-> FALSE] \in Jobs /\ a \in Cache!Writers
      BY DEF Jobs, Cache!Writers
    <3> QED BY <2>2, <2>3, <2>5, <3>1, StartKeeps
  <2> QED BY <1>3, <2>4, <2>5 DEF Cache!Persist
<1>4. CASE \E p \in Packages, result \in Cache!Found : Cache!LookUp(a, p, result)
  <2>1. PICK p \in Packages, result \in Cache!Found : Cache!LookUp(a, p, result)
    BY <1>4
  <2>2. /\ cacheAudit' = [cacheAudit EXCEPT ![a].found[p] = result]
        /\ cacheAudit[a].state = "running"
        /\ cacheAudit[a].found[p] = "none" /\ result \in Founds
    BY <2>1 DEF Cache!LookUp, Founds
  <2>3. AuditsFit' /\ AuditsStay
    BY <2>2 DEF CacheInv, AuditsFit, AuditsStay
  <2>4. RowsFit' /\ UNCHANGED Cache!disk
    BY <2>1 DEF Cache!LookUp, Cache!shown, CacheInv, RowsFit, Cache!CompletionsFitTheRows
  <2> QED BY <2>3, <2>4, DiskStays
<1> QED BY <1>1, <1>2, <1>3, <1>4 DEF Cache!Audit

LEMMA AuditsUnchanged ==
  ASSUME CacheInv, cacheAudit' = cacheAudit
  PROVE  AuditsFit' /\ AuditsStay
  BY DEF CacheInv, AuditsFit, AuditsStay

LEMMA RowsStep ==
  ASSUME CacheInv,
         \/ Cache!Abandon \/ Cache!FinishAudit \/ Cache!SetRowsAgain
         \/ \E m \in CacheMarkets : Cache!ChangeMarket(m)
         \/ \E r \in fetching : Cache!Arrive(r)
  PROVE  CacheInv' /\ cachePc' = cachePc
<1>1. UNCHANGED <<Cache!disk, cacheAudit>>
  BY DEF Cache!Abandon, Cache!FinishAudit, Cache!SetRowsAgain, Cache!ChangeMarket,
     Cache!Arrive
<1>2. Cache!Requests(cacheRows, generation) \subseteq Pending
        /\ Cache!Requests(cacheRows', generation) \subseteq Pending
  BY RequestsFit DEF CacheInv, RowsFit
<1>3. RowsFit'
  <2>1. CASE Cache!Abandon
    BY <2>1, NewGenerationFits DEF Cache!Abandon, CacheInv
  <2>2. CASE Cache!FinishAudit \/ Cache!SetRowsAgain
    BY <1>2, <2>2 DEF Cache!FinishAudit, Cache!SetRowsAgain, CacheInv, RowsFit,
       Cache!CompletionsFitTheRows
  <2>3. CASE \E m \in CacheMarkets : Cache!ChangeMarket(m)
    BY <2>3 DEF Cache!ChangeMarket, Cache!shown, CacheInv, RowsFit,
       Cache!CompletionsFitTheRows
  <2>4. CASE \E r \in fetching : Cache!Arrive(r)
    BY <2>4 DEF Cache!Arrive, CacheInv, RowsFit, Cache!CompletionsFitTheRows
  <2> QED BY <2>1, <2>2, <2>3, <2>4
<1> QED BY <1>1, <1>3, AuditsUnchanged, DiskStays

LEMMA CacheWindowStep ==
  ASSUME CacheInv, Cache!ClearCache \/ \E r \in arrived : Cache!Deliver(r)
  PROVE  CacheInv' /\ \A w \in Cache!Writers : cachePc'[w] # "idle" \/ cachePc'[w] = cachePc[w]
<1>1. cacheAudit' = cacheAudit /\ MainWindow \in Cache!Writers
  BY DEF Cache!ClearCache, Cache!Deliver, Cache!Writers
<1>2. AuditsFit' /\ AuditsStay
  BY <1>1, AuditsUnchanged
<1>3. CASE Cache!ClearCache
  <2>1. RowsFit'
    BY <1>3 DEF Cache!ClearCache, Cache!shown, CacheInv, RowsFit, Cache!CompletionsFitTheRows
  <2>2. [kind |-> "clear"] \in Jobs
    BY DEF Jobs
  <2> QED BY <1>1, <1>2, <1>3, <2>1, <2>2, StartKeeps DEF Cache!ClearCache
<1>4. CASE \E r \in arrived : Cache!Deliver(r)
  <2>1. PICK r \in arrived : Cache!Deliver(r)
    BY <1>4
  <2>2. r \in Pending /\ r.package \in Packages /\ r.market \in CacheMarkets
    BY DEF CacheInv, RowsFit, Pending
  <2>3. /\ market' = market /\ generation' = generation /\ fetching' = fetching
        /\ arrived' = arrived \ {r}
    BY <2>1 DEF Cache!Deliver
  <2>4. CASE UNCHANGED <<Cache!disk, cacheRows, filled>>
    <3>1. RowsFit'
      BY <2>3, <2>4 DEF CacheInv, RowsFit, Cache!CompletionsFitTheRows
    <3> QED BY <1>2, <2>4, <3>1, DiskStays
  <2>5. CASE /\ r.generation = generation
             /\ filled' = [filled EXCEPT ![r.package] = r.generation]
             /\ Cache!StartJob(MainWindow, [kind |-> "complete",
                                            key |-> <<r.market, r.package>>])
             /\ UNCHANGED <<cacheFile, temp, out>>
    <3>1. RowsFit'
      BY <2>2, <2>3, <2>5 DEF CacheInv, RowsFit, Cache!CompletionsFitTheRows
    <3>2. [kind |-> "complete", key |-> <<r.market, r.package>>] \in Jobs
      BY <2>2 DEF Jobs, Cache!Keys
    <3> QED BY <1>1, <1>2, <2>5, <3>1, <3>2, StartKeeps
  <2> QED BY <2>1, <2>4, <2>5 DEF Cache!Deliver, Cache!IsCurrentRequest
<1> QED BY <1>3, <1>4

-----------------------------------------------------------------------------
(* Together. *)

LEMMA CacheStarts == ASSUME Cache!Init PROVE CacheInv
<1>1. Cache!Empty \in Caches /\ AllTrue(Cache!Empty)
  BY CacheEmptyFits
<1>2. DiskFits
  BY <1>1 DEF Cache!Init, DiskFits, Cache!Json, Cache!NoFile, Texts, Jobs
<1>3. AuditsFit
  BY DEF Cache!Init, AuditsFit, Cache!NewAudit, Founds
<1>4. RowsFit
  BY DEF Cache!Init, RowsFit, Cache!CompletionsFitTheRows
<1>5. JobsFit /\ Undisturbed
  BY DEF Cache!Init, JobsFit, Undisturbed, Alone
<1>6. Lookups
  BY <1>1 DEF Cache!Init, Lookups, Cache!Json, Cache!NoFile
<1> QED BY <1>2, <1>3, <1>4, <1>5, <1>6 DEF CacheInv

LEMMA AccessStep ==
  ASSUME CacheInv, NEW w \in Cache!Writers, Cache!Access(w)
  PROVE  CacheInv' /\ Cache!ReplacedUndisturbed
<1>1. CASE Cache!ReadCache(w)
  <2>1. CacheInv' /\ cachePc[w] = "read" /\ \A v \in Cache!Writers \ {w} :
      cachePc'[v] = cachePc[v]
    BY <1>1, ReadStep DEF Cache!ReadCache, CacheInv, DiskFits
  <2> QED BY <2>1 DEF Cache!ReplacedUndisturbed
<1>2. CASE Cache!OpenTemp(w)
  <2>1. CacheInv' /\ cachePc[w] = "open" /\ \A v \in Cache!Writers \ {w} :
      cachePc'[v] = cachePc[v]
    BY <1>2, CacheOpenStep DEF Cache!OpenTemp, CacheInv, DiskFits
  <2> QED BY <2>1 DEF Cache!ReplacedUndisturbed
<1>3. CASE Cache!WriteTemp(w)
  <2>1. CacheInv' /\ cachePc[w] = "write" /\ \A v \in Cache!Writers \ {w} :
      cachePc'[v] = cachePc[v]
    BY <1>3, WriteStep DEF Cache!WriteTemp, CacheInv, DiskFits
  <2> QED BY <2>1 DEF Cache!ReplacedUndisturbed
<1>4. CASE Cache!ReplaceFile(w)
  <2>1. /\ CacheInv' /\ \A v \in Cache!Writers \ {w} : cachePc'[v] = cachePc[v]
        /\ ~disturbed[w] => cacheFile' = Cache!Json(Cache!Applied(w, cacheFile.cache))
    BY <1>4, ReplaceStep
  <2> QED BY <2>1 DEF Cache!ReplacedUndisturbed, Cache!Readable
<1>5. CASE Cache!WriteFails(w)
  \* What an undisturbed writer put at the temporary name is there, and nobody holds it open.
  <2>1. CacheInv' /\ \A v \in Cache!Writers \ {w} : cachePc'[v] = cachePc[v]
    BY <1>5, FailStep
  <2>2. ~(cachePc[w] = "replace" /\ ~disturbed[w])
    <3> SUFFICES ASSUME cachePc[w] = "replace", ~disturbed[w] PROVE FALSE
      OBVIOUS
    <3>1. temp = Cache!Json(data[w]) /\ \A v \in Cache!Writers \ {w} : out[v] = "gone"
      BY DEF CacheInv, Undisturbed, Alone
    <3>2. temp # Cache!NoFile
      BY <3>1 DEF Cache!Json, Cache!NoFile
    <3> QED BY <1>5, <3>1, <3>2 DEF Cache!WriteFails
  <2> QED BY <2>1, <2>2 DEF Cache!ReplacedUndisturbed
<1> QED BY <1>1, <1>2, <1>3, <1>4, <1>5 DEF Cache!Access

LEMMA NextStep ==
  ASSUME CacheInv, Cache!Next
  PROVE  CacheInv' /\ Cache!ReplacedUndisturbed
<1>1. CASE \E w \in Cache!Writers : Cache!Access(w)
  BY <1>1, AccessStep
<1>2. CASE \E a \in CacheAudits : Cache!Audit(a)
  BY <1>2, AuditStep DEF Cache!ReplacedUndisturbed
<1>3. CASE \/ Cache!Abandon \/ Cache!FinishAudit \/ Cache!SetRowsAgain
           \/ \E m \in CacheMarkets : Cache!ChangeMarket(m)
           \/ \E r \in fetching : Cache!Arrive(r)
  BY <1>3, RowsStep DEF Cache!ReplacedUndisturbed
<1>4. CASE Cache!ClearCache \/ \E r \in arrived : Cache!Deliver(r)
  BY <1>4, CacheWindowStep DEF Cache!ReplacedUndisturbed
<1> QED BY <1>1, <1>2, <1>3, <1>4 DEF Cache!Next

LEMMA CacheStep ==
  ASSUME CacheInv, [Cache!Next]_(Cache!vars)
  PROVE  CacheInv' /\ [Cache!ReplacedUndisturbed]_(Cache!vars)
<1>1. CASE Cache!Next
  BY <1>1, NextStep
<1>2. CASE UNCHANGED Cache!vars
  <2>1. UNCHANGED <<Cache!disk, cacheAudit>> /\ market' = market /\ generation' = generation
        /\ filled' = filled /\ fetching' = fetching /\ arrived' = arrived
    BY <1>2 DEF Cache!vars, Cache!shown
  <2>2. RowsFit'
    BY <2>1 DEF CacheInv, RowsFit, Cache!CompletionsFitTheRows
  <2> QED BY <1>2, <2>1, <2>2, AuditsUnchanged, DiskStays
<1> QED BY <1>1, <1>2

LEMMA CacheInvMeans == ASSUME CacheInv PROVE Cache!EntriesAndRowsFit
<1>1. \A content \in Cache!Contents : AllTrue(content)
  BY DEF CacheInv, Lookups, Cache!Contents, Cache!Readable
<1>2. Cache!EntriesWereLookedUp
  BY <1>1 DEF Cache!EntriesWereLookedUp, AllTrue, True
<1> QED BY <1>2 DEF Cache!EntriesAndRowsFit, CacheInv, RowsFit

LEMMA CacheMoves ==
  ASSUME [DeskNext]_deskVars, part = "cache"
  PROVE  [Cache!Next]_(Cache!vars)
  BY DEF DeskNext, deskVars, cacheVars, Cache!vars, Cache!disk, Cache!shown

LEMMA CacheStays == DeskSpec => [](part = "cache" => CacheInv)
<1>1. DeskInit => (part = "cache" => CacheInv)
  BY CacheStarts DEF DeskInit
<1>2. (part = "cache" => CacheInv) /\ [DeskNext]_deskVars => (part = "cache" => CacheInv)'
  BY PartStays, CacheMoves, CacheStep
<1> QED BY <1>1, <1>2, PTL DEF DeskSpec

(* Whatever writers overlap and whichever fails, every entry of the       *)
(* cache, on disk or on its way there, was found healthy in its own       *)
(* market by the audit its age is taken from, and the metadata remembered *)
(* for a shown row was requested for these rows (state.update_cache,      *)
(* update_cached_store_metadata, app_icon_backfill).                      *)
THEOREM EntriesAndRowsAlwaysFit ==
  /\ Cache!Spec => []Cache!EntriesAndRowsFit
  /\ DeskSpec => []EntriesAndRowsFit
<1>1. Cache!Init => CacheInv
  BY CacheStarts
<1>2. CacheInv /\ [Cache!Next]_(Cache!vars) => CacheInv'
  BY CacheStep
<1>3. CacheInv => Cache!EntriesAndRowsFit
  BY CacheInvMeans
<1>4. (part = "cache" => CacheInv) => EntriesAndRowsFit
  BY <1>3 DEF EntriesAndRowsFit
<1>5. Cache!Spec => []Cache!EntriesAndRowsFit
  BY <1>1, <1>2, <1>3, PTL DEF Cache!Spec
<1>6. DeskSpec => []EntriesAndRowsFit
  BY <1>4, CacheStays, PTL
<1> QED BY <1>5, <1>6

(* Of any number of writers, one that none came between puts in place     *)
(* exactly what its operation makes of the cache of that moment, and its  *)
(* replacement is not refused: the name is there and no other writer has  *)
(* it open (state.update_cache, update_cached_store_metadata).            *)
THEOREM UndisturbedOperationsAreExact ==
  /\ Cache!Spec => Cache!UndisturbedOperationsHold
  /\ DeskSpec => UndisturbedOperationsHold
<1>1. Cache!Init => CacheInv
  BY CacheStarts
<1>2. CacheInv /\ [Cache!Next]_(Cache!vars)
        => CacheInv' /\ [Cache!ReplacedUndisturbed]_(Cache!vars)
  BY CacheStep
<1>3. (part = "cache" => CacheInv) /\ [DeskNext]_deskVars
        => [part = "cache" => Cache!ReplacedUndisturbed]_<<cacheVars, part>>
  BY PartStays, CacheMoves, CacheStep DEF cacheVars, Cache!vars, Cache!disk, Cache!shown
<1>4. Cache!Spec => Cache!UndisturbedOperationsHold
  BY <1>1, <1>2, PTL DEF Cache!Spec, Cache!UndisturbedOperationsHold
<1>5. DeskSpec => UndisturbedOperationsHold
  BY <1>3, CacheStays, PTL DEF DeskSpec, UndisturbedOperationsHold
<1> QED BY <1>4, <1>5

-----------------------------------------------------------------------------
(* Device-specific resolution. Context and authorisation of a phone are   *)
(* read at different times. They are of one session because one can only  *)
(* sign in while the window is idle, when every phase that is not over    *)
(* was cancelled (OneRuns), and a cancelled phase submits nothing more:   *)
(* what it does submit, it submits with an authorisation that fits        *)
(* (SessionHeld).                                                         *)

Steps == {"no", "context", "cache", "authorise", "authorising", "fill", "wait", "over",
          "refused"}
Flights == {"none", "queued", "asked", "authorised", "given up", "resolved", "failed"}
ResolutionAnswers == [kind : {"resolved", "failed"}, by : Nat]

TypeOK ==
  /\ account \in Nat /\ signIns \in Nat
  /\ resolutionCache \subseteq [app : ResolutionApps, context : Nat, by : Nat]
  /\ resolutionStarted \in Nat /\ resolutionCurrent \in 0..resolutionStarted
  /\ resolutionStep \in [Resolution!Audits -> Steps]
  /\ provider \in [Resolution!Audits -> {"dispenser", "personal"}]
  /\ resolutionCancelled \in [Resolution!Audits -> BOOLEAN]
  /\ paused \in [Resolution!Audits -> BOOLEAN]
  /\ resolutionContext \in [Resolution!Audits -> Nat]
  /\ resolutionBundle \in [Resolution!Audits -> Nat]
  /\ misses \in [Resolution!Audits -> SUBSET ResolutionApps]
  /\ resolutionFlight \in [Resolution!Audits -> [ResolutionApps -> Flights]]
  /\ resolutionRows \in [Resolution!Audits -> [ResolutionApps -> SUBSET ResolutionAnswers]]

\* Audits are numbered in order, and one that has not read its context has done nothing.
ResolutionNotBegun ==
  \A a \in Resolution!Audits :
    /\ a > resolutionStarted => resolutionStep[a] = "no"
    /\ resolutionStep[a] \in {"no", "context"} =>
         resolutionContext[a] = 0 /\ resolutionBundle[a] = 0 /\ \A p \in ResolutionApps :
             resolutionRows[a][p] = {}

\* A phase that goes on and was not cancelled is that of the running audit.
OneRuns ==
  \A a \in Resolution!Audits : resolutionStep[a] \notin {"no", "over", "refused"}
    /\ ~resolutionCancelled[a] => resolutionCurrent = a

\* The context of a phase stays that of the session until it is authorised, and a request is
\* only under way with an authorisation of the context.
SessionHeld ==
  \A a \in Resolution!Audits :
    /\ provider[a] = "dispenser" => resolutionContext[a] = 0 /\ resolutionBundle[a] = 0
    /\ resolutionStep[a] \in {"authorise", "authorising"} => provider[a] = "personal"
    /\ resolutionStep[a] \in {"cache", "authorise"} /\ provider[a] = "personal"
         /\ ~resolutionCancelled[a] =>
         resolutionContext[a] = account
    /\ resolutionStep[a] \in {"authorising", "fill", "wait"} /\ ~resolutionCancelled[a]
         => resolutionBundle[a] = resolutionContext[a]
    /\ \A p \in ResolutionApps : resolutionFlight[a][p] # "none" =>
         resolutionStep[a] \in {"fill", "wait"} /\ resolutionBundle[a] = resolutionContext[a]

\* An app without an answer is still to be submitted or under way.
NoneForgotten ==
  \A a \in Resolution!Audits : ~resolutionCancelled[a] => \A p \in Eligible[a] :
    /\ resolutionStep[a] \in {"authorise", "authorising", "fill", "wait"} =>
         resolutionRows[a][p] # {} \/ p \in misses[a] \/ resolutionFlight[a][p] # "none"
    /\ resolutionStep[a] = "over" => resolutionRows[a][p] # {}

ResolutionInv == TypeOK /\ ResolutionNotBegun /\ OneRuns /\ SessionHeld /\ NoneForgotten
  /\ Resolution!EvidenceFitsItsSession

-----------------------------------------------------------------------------
(* The window. *)

ResolutionWindowStep ==
  \/ Resolution!SignIn \/ Resolution!SignOut \/ Resolution!ClearCache
  \/ Resolution!PauseOrResume \/ Resolution!Report
  \/ \E p \in {"dispenser", "personal"} : Resolution!StartAudit(p)
  \/ \E b \in BOOLEAN : Resolution!Stop(b)

\* Sets of the instance are counted as those of the library are.
LEMMA ResolutionSets == \A S : Resolution!Cardinality(S) = Cardinality(S)
  BY DEF Resolution!Cardinality, Cardinality

LEMMA SessionChange ==
  ASSUME ResolutionConstantsFit, ResolutionInv,
         Resolution!SignIn \/ Resolution!SignOut \/ Resolution!ClearCache
  PROVE  ResolutionInv'
<1>1. /\ resolutionCurrent = 0 /\ account' \in Nat /\ signIns' \in Nat
      /\ resolutionCache' \subseteq resolutionCache
      /\ UNCHANGED <<Resolution!window, provider, Resolution!phase>>
  BY DEF ResolutionInv, TypeOK, Resolution!SignIn, Resolution!SignOut, Resolution!ClearCache,
     Resolution!session
<1>2. /\ resolutionCurrent' = resolutionCurrent /\ resolutionStarted' = resolutionStarted
      /\ resolutionCancelled' = resolutionCancelled /\ paused' = paused
      /\ provider' = provider /\ resolutionStep' = resolutionStep
      /\ resolutionContext' = resolutionContext /\ resolutionBundle' = resolutionBundle
      /\ misses' = misses /\ resolutionFlight' = resolutionFlight
      /\ resolutionRows' = resolutionRows
  BY <1>1 DEF Resolution!window, Resolution!phase
<1>3. \A a \in Resolution!Audits : resolutionStep[a] \notin {"no", "over", "refused"}
        => resolutionCancelled[a]
  <2>1. \A a \in Resolution!Audits : a # 0
    BY DEF ResolutionConstantsFit, Resolution!Audits
  <2> QED BY <1>1, <2>1 DEF ResolutionInv, OneRuns
<1>4. TypeOK'
  BY <1>1, <1>2 DEF ResolutionInv, TypeOK
<1>5. ResolutionNotBegun' /\ OneRuns' /\ NoneForgotten'
  BY <1>2 DEF ResolutionInv, ResolutionNotBegun, OneRuns, NoneForgotten
<1>6. SessionHeld'
  BY <1>2, <1>3 DEF ResolutionInv, SessionHeld
<1>7. Resolution!EvidenceFitsItsSession'
  BY <1>1, <1>2 DEF ResolutionInv, Resolution!EvidenceFitsItsSession
<1> QED BY <1>4, <1>5, <1>6, <1>7 DEF ResolutionInv

LEMMA StartStep ==
  ASSUME ResolutionConstantsFit, ResolutionInv, NEW p \in {"dispenser", "personal"},
         Resolution!StartAudit(p)
  PROVE  ResolutionInv'
<1> DEFINE new == resolutionStarted + 1
<1>1. /\ resolutionCurrent = 0 /\ resolutionStarted' = new /\ resolutionCurrent' = new
      /\ resolutionStep' = [resolutionStep EXCEPT ![new] = "context"]
      /\ provider' = [provider EXCEPT ![new] = p]
      /\ account' = account /\ signIns' = signIns /\ resolutionCache' = resolutionCache
      /\ resolutionCancelled' = resolutionCancelled
      /\ paused' = paused /\ resolutionContext' = resolutionContext
      /\ resolutionBundle' = resolutionBundle /\ misses' = misses
      /\ resolutionFlight' = resolutionFlight /\ resolutionRows' = resolutionRows
  BY DEF Resolution!StartAudit, Resolution!session
<1>2. new \in Resolution!Audits /\ resolutionStep[new] = "no" /\ \A a \in Resolution!Audits :
    a \in Nat \ {0}
  BY DEF Resolution!StartAudit, ResolutionConstantsFit, Resolution!Audits, ResolutionInv,
     TypeOK, ResolutionNotBegun
<1>3. \A a \in Resolution!Audits : /\ resolutionStep'[a] = IF a = new THEN "context"
                                        ELSE resolutionStep[a]
                                   /\ provider'[a] = IF a = new THEN p ELSE provider[a]
  BY <1>1 DEF ResolutionInv, TypeOK
<1>4. TypeOK'
  <2>1. resolutionStep' \in [Resolution!Audits -> Steps]
          /\ provider' \in [Resolution!Audits -> {"dispenser", "personal"}]
    BY <1>1 DEF ResolutionInv, TypeOK, Steps
  <2>2. resolutionStarted' \in Nat /\ resolutionCurrent' \in 0..resolutionStarted'
    BY <1>1 DEF ResolutionInv, TypeOK
  <2> QED BY <1>1, <2>1, <2>2 DEF ResolutionInv, TypeOK
<1>5. ResolutionNotBegun'
  BY <1>1, <1>2, <1>3 DEF ResolutionInv, TypeOK, ResolutionNotBegun
<1>6. OneRuns'
  BY <1>1, <1>2, <1>3 DEF ResolutionInv, OneRuns
<1>7. SessionHeld'
  BY <1>1, <1>2, <1>3 DEF ResolutionInv, SessionHeld, ResolutionNotBegun
<1>8. NoneForgotten' /\ Resolution!EvidenceFitsItsSession'
  BY <1>1, <1>3 DEF ResolutionInv, NoneForgotten, Resolution!EvidenceFitsItsSession
<1> QED BY <1>4, <1>5, <1>6, <1>7, <1>8 DEF ResolutionInv

LEMMA ControlStep ==
  ASSUME ResolutionConstantsFit, ResolutionInv,
         Resolution!PauseOrResume \/ Resolution!Report \/ \E b \in BOOLEAN : Resolution!Stop(b)
  PROVE  ResolutionInv'
<1>1. /\ resolutionCurrent' \in {0, resolutionCurrent} /\ resolutionStarted' = resolutionStarted
      /\ resolutionCancelled' \in [Resolution!Audits -> BOOLEAN]
      /\ paused' \in [Resolution!Audits -> BOOLEAN]
      /\ \A a \in Resolution!Audits : resolutionCancelled[a] => resolutionCancelled'[a]
      /\ \A a \in Resolution!Audits :
           resolutionCurrent' # resolutionCurrent /\ a = resolutionCurrent =>
           resolutionCancelled'[a] \/ resolutionStep[a] \in {"over", "refused"}
      /\ UNCHANGED <<Resolution!session, resolutionCache, provider, Resolution!phase>>
  BY DEF Resolution!PauseOrResume, Resolution!Report, Resolution!Stop, ResolutionInv, TypeOK
<1>2. /\ account' = account /\ signIns' = signIns /\ resolutionCache' = resolutionCache
      /\ provider' = provider /\ resolutionStep' = resolutionStep
      /\ resolutionContext' = resolutionContext /\ resolutionBundle' = resolutionBundle
      /\ misses' = misses /\ resolutionFlight' = resolutionFlight
      /\ resolutionRows' = resolutionRows
  BY <1>1 DEF Resolution!session, Resolution!phase
<1>3. TypeOK'
  BY <1>1, <1>2 DEF ResolutionInv, TypeOK
<1>4. ResolutionNotBegun' /\ Resolution!EvidenceFitsItsSession'
  BY <1>1, <1>2 DEF ResolutionInv, ResolutionNotBegun, Resolution!EvidenceFitsItsSession
<1>5. OneRuns'
  BY <1>1, <1>2 DEF ResolutionInv, OneRuns
<1>6. SessionHeld'
  BY <1>1, <1>2 DEF ResolutionInv, SessionHeld
<1>7. NoneForgotten'
  BY <1>1, <1>2 DEF ResolutionInv, NoneForgotten
<1> QED BY <1>3, <1>4, <1>5, <1>6, <1>7 DEF ResolutionInv

-----------------------------------------------------------------------------
(* The coordinator. *)

LEMMA ContextStep ==
  ASSUME ResolutionConstantsFit, ResolutionInv, NEW a \in Resolution!Audits,
         Resolution!ReadContext(a)
  PROVE  ResolutionInv'
<1>1. /\ resolutionStep[a] = "context"
      /\ resolutionStep' = [resolutionStep EXCEPT ![a] = resolutionStep'[a]]
      /\ resolutionContext' = [resolutionContext EXCEPT ![a] = resolutionContext'[a]]
      /\ resolutionStep'[a] \in {"refused", "over", "cache"} /\ resolutionContext'[a] \in Nat
      /\ resolutionStep'[a] = "over" => resolutionCancelled[a]
      /\ resolutionStep'[a] = "cache" /\ provider[a] = "personal"
           => resolutionContext'[a] = account
      /\ provider[a] = "dispenser" => resolutionContext'[a] = 0
      /\ UNCHANGED <<Resolution!session, resolutionCache, Resolution!window, provider,
                     resolutionBundle, misses, resolutionFlight, resolutionRows>>
  BY DEF Resolution!ReadContext, Resolution!Move, Resolution!Anonymous, ResolutionInv, TypeOK
<1>2. /\ account' = account /\ signIns' = signIns /\ resolutionCache' = resolutionCache
      /\ resolutionCurrent' = resolutionCurrent
      /\ resolutionStarted' = resolutionStarted /\ resolutionCancelled' = resolutionCancelled
      /\ paused' = paused /\ provider' = provider
      /\ resolutionBundle' = resolutionBundle /\ misses' = misses
      /\ resolutionFlight' = resolutionFlight /\ resolutionRows' = resolutionRows
  BY <1>1 DEF Resolution!session, Resolution!window
<1>3. \A b \in Resolution!Audits : b # a
        => resolutionStep'[b] = resolutionStep[b]
          /\ resolutionContext'[b] = resolutionContext[b]
  BY <1>1 DEF ResolutionInv, TypeOK
<1>4. TypeOK'
  <2>1. resolutionStep' \in [Resolution!Audits -> Steps]
    BY <1>1 DEF ResolutionInv, TypeOK, Steps
  <2>2. resolutionContext' \in [Resolution!Audits -> Nat]
    BY <1>1 DEF ResolutionInv, TypeOK
  <2> QED BY <1>2, <2>1, <2>2 DEF ResolutionInv, TypeOK
<1>5. ResolutionNotBegun' /\ OneRuns'
  BY <1>1, <1>2, <1>3 DEF ResolutionInv, ResolutionNotBegun, OneRuns
<1>6. SessionHeld'
  BY <1>1, <1>2, <1>3 DEF ResolutionInv, SessionHeld
<1>7. NoneForgotten'
  BY <1>1, <1>2, <1>3 DEF ResolutionInv, NoneForgotten
<1>8. Resolution!EvidenceFitsItsSession'
  BY <1>1, <1>2, <1>3 DEF ResolutionInv, ResolutionNotBegun, Resolution!EvidenceFitsItsSession
<1> QED BY <1>4, <1>5, <1>6, <1>7, <1>8 DEF ResolutionInv

LEMMA LoadCacheStep ==
  ASSUME ResolutionConstantsFit, ResolutionInv, NEW a \in Resolution!Audits,
         NEW aged \in BOOLEAN, Resolution!LoadCache(a, aged)
  PROVE  ResolutionInv'
<1> DEFINE hits == IF aged THEN {} ELSE {p \in Eligible[a] : Resolution!Cached(a, p) # {}}
           loaded == [p \in ResolutionApps |->
                         IF p \in hits
                         THEN {Resolution!Of(e.by) : e \in Resolution!Cached(a, p)} ELSE {}]
<1>1. /\ resolutionStep[a] = "cache" /\ resolutionRows' = [resolutionRows EXCEPT ![a] = loaded]
      /\ misses' = [misses EXCEPT ![a] = Eligible[a] \ hits]
      /\ resolutionStep' = [resolutionStep EXCEPT ![a] = IF hits = Eligible[a] THEN "over"
                                                         ELSE IF provider[a] = "personal"
                                                           THEN "authorise" ELSE "fill"]
      /\ UNCHANGED <<Resolution!session, resolutionCache, Resolution!window, provider,
                     resolutionContext, resolutionBundle, resolutionFlight>>
  BY DEF Resolution!LoadCache, Resolution!Move
<1>2. /\ account' = account /\ signIns' = signIns /\ resolutionCache' = resolutionCache
      /\ resolutionCurrent' = resolutionCurrent
      /\ resolutionStarted' = resolutionStarted /\ resolutionCancelled' = resolutionCancelled
      /\ paused' = paused /\ provider' = provider
      /\ resolutionContext' = resolutionContext /\ resolutionBundle' = resolutionBundle
      /\ resolutionFlight' = resolutionFlight
  BY <1>1 DEF Resolution!session, Resolution!window
<1>3. Eligible[a] \subseteq ResolutionApps /\ hits \subseteq Eligible[a]
  BY DEF ResolutionConstantsFit
<1>4. ASSUME NEW p \in ResolutionApps
      PROVE  /\ \A r \in loaded[p] : r \in ResolutionAnswers /\ r.by = resolutionContext[a]
             /\ p \in hits => loaded[p] # {}
  <2>1. \A e \in Resolution!Cached(a, p) :
      e \in resolutionCache /\ e.by = resolutionContext[a] /\ e.by \in Nat
    BY DEF Resolution!Cached, ResolutionInv, TypeOK, Resolution!EvidenceFitsItsSession
  <2>2. \A r \in loaded[p] : \E e \in Resolution!Cached(a, p) : r = Resolution!Of(e.by)
    OBVIOUS
  <2>3. p \in hits => loaded[p] # {}
    OBVIOUS
  <2> QED BY <2>1, <2>2, <2>3 DEF Resolution!Of, ResolutionAnswers
<1>5. /\ resolutionStep'[a] \in {"over", "authorise", "fill"}
      /\ resolutionStep'[a] = "over" => hits = Eligible[a]
      /\ resolutionStep'[a] = "authorise" => provider[a] = "personal"
      /\ resolutionStep'[a] = "fill" => provider[a] = "dispenser"
      /\ resolutionRows'[a] = loaded /\ misses'[a] = Eligible[a] \ hits
  BY <1>1 DEF ResolutionInv, TypeOK
<1>6. \A b \in Resolution!Audits : b # a
        => resolutionStep'[b] = resolutionStep[b] /\ resolutionRows'[b] = resolutionRows[b]
          /\ misses'[b] = misses[b]
  BY <1>1 DEF ResolutionInv, TypeOK
<1>7. loaded \in [ResolutionApps -> SUBSET ResolutionAnswers]
        /\ resolutionStep' \in [Resolution!Audits -> Steps]
  BY <1>1, <1>4 DEF ResolutionInv, TypeOK, Steps
<1> HIDE DEF hits, loaded
<1>8. TypeOK'
  BY <1>1, <1>2, <1>3, <1>7 DEF ResolutionInv, TypeOK
<1>9. ResolutionNotBegun' /\ OneRuns'
  BY <1>1, <1>2, <1>5, <1>6 DEF ResolutionInv, ResolutionNotBegun, OneRuns
<1>10. SessionHeld'
  BY <1>1, <1>2, <1>5, <1>6 DEF ResolutionInv, SessionHeld
<1>11. NoneForgotten'
  BY <1>1, <1>2, <1>3, <1>4, <1>5, <1>6 DEF ResolutionInv, NoneForgotten
<1>12. Resolution!EvidenceFitsItsSession'
  BY <1>2, <1>4, <1>5, <1>6 DEF ResolutionInv, Resolution!EvidenceFitsItsSession
<1> QED BY <1>8, <1>9, <1>10, <1>11, <1>12 DEF ResolutionInv

LEMMA AuthoriseStep ==
  ASSUME ResolutionConstantsFit, ResolutionInv, NEW a \in Resolution!Audits,
         Resolution!TakeCredentials(a) \/ Resolution!Authorise(a)
  PROVE  ResolutionInv'
<1>1. CASE Resolution!TakeCredentials(a)
  <2>1. /\ resolutionStep[a] = "authorise"
        /\ resolutionStep' = [resolutionStep EXCEPT ![a] = "authorising"]
        /\ resolutionBundle' = [resolutionBundle EXCEPT ![a] = account]
        /\ account' = account /\ signIns' = signIns /\ resolutionCache' = resolutionCache
        /\ resolutionCurrent' = resolutionCurrent
        /\ resolutionStarted' = resolutionStarted /\ resolutionCancelled' = resolutionCancelled
        /\ paused' = paused
        /\ provider' = provider /\ resolutionContext' = resolutionContext /\ misses' = misses
        /\ resolutionFlight' = resolutionFlight /\ resolutionRows' = resolutionRows
    BY <1>1 DEF Resolution!TakeCredentials, Resolution!Move, Resolution!session,
       Resolution!window
  <2>2. \A b \in Resolution!Audits : /\ resolutionStep'[b] = IF b = a THEN "authorising"
                                          ELSE resolutionStep[b]
                                     /\ resolutionBundle'[b] = IF b = a THEN account
                                          ELSE resolutionBundle[b]
    BY <2>1 DEF ResolutionInv, TypeOK
  <2>3. TypeOK'
    BY <2>1 DEF ResolutionInv, TypeOK, Steps
  <2>4. ResolutionNotBegun' /\ OneRuns'
    BY <2>1, <2>2 DEF ResolutionInv, ResolutionNotBegun, OneRuns
  <2>5. SessionHeld'
    BY <2>1, <2>2 DEF ResolutionInv, SessionHeld
  <2>6. NoneForgotten' /\ Resolution!EvidenceFitsItsSession'
    BY <2>1, <2>2 DEF ResolutionInv, NoneForgotten, Resolution!EvidenceFitsItsSession
  <2> QED BY <2>3, <2>4, <2>5, <2>6 DEF ResolutionInv
<1>2. CASE Resolution!Authorise(a)
  <2>1. /\ resolutionStep[a] = "authorising" /\ resolutionStep'[a] \in {"fill", "over"}
        /\ resolutionStep' = [resolutionStep EXCEPT ![a] = resolutionStep'[a]]
        /\ resolutionRows' = [resolutionRows EXCEPT ![a] = resolutionRows'[a]]
        /\ resolutionStep'[a] = "fill" => resolutionRows'[a] = resolutionRows[a]
        /\ resolutionStep'[a] = "over" =>
             resolutionRows'[a] = [p \in ResolutionApps |-> IF p \in misses[a]
                                                            THEN {Resolution!Failed}
                                                            ELSE resolutionRows[a][p]]
        /\ account' = account /\ signIns' = signIns /\ resolutionCache' = resolutionCache
        /\ resolutionCurrent' = resolutionCurrent
        /\ resolutionStarted' = resolutionStarted /\ resolutionCancelled' = resolutionCancelled
        /\ paused' = paused
        /\ provider' = provider /\ resolutionContext' = resolutionContext
        /\ resolutionBundle' = resolutionBundle /\ misses' = misses
        /\ resolutionFlight' = resolutionFlight
    BY <1>2 DEF Resolution!Authorise, Resolution!Move, Resolution!session, Resolution!window,
       ResolutionInv, TypeOK
  <2>2. \A b \in Resolution!Audits : b # a
          => resolutionStep'[b] = resolutionStep[b] /\ resolutionRows'[b] = resolutionRows[b]
    BY <2>1 DEF ResolutionInv, TypeOK
  <2>3. resolutionRows'[a] \in [ResolutionApps -> SUBSET ResolutionAnswers]
          /\ Resolution!Failed.kind = "failed"
    <3>1. Resolution!Failed \in ResolutionAnswers /\ Resolution!Failed.kind = "failed"
      BY DEF Resolution!Failed, ResolutionAnswers
    <3>2. resolutionRows[a] \in [ResolutionApps -> SUBSET ResolutionAnswers]
      BY DEF ResolutionInv, TypeOK
    <3> QED BY <2>1, <3>1, <3>2
  <2>4. TypeOK'
    <3>1. resolutionStep' \in [Resolution!Audits -> Steps]
      BY <2>1 DEF ResolutionInv, TypeOK, Steps
    <3>2. resolutionRows' \in [Resolution!Audits -> [ResolutionApps -> SUBSET ResolutionAnswers]]
      BY <2>1, <2>3 DEF ResolutionInv, TypeOK
    <3> QED BY <2>1, <3>1, <3>2 DEF ResolutionInv, TypeOK
  <2>5. ResolutionNotBegun' /\ OneRuns'
    BY <2>1, <2>2 DEF ResolutionInv, ResolutionNotBegun, OneRuns
  <2>6. SessionHeld'
    BY <2>1, <2>2 DEF ResolutionInv, SessionHeld
  <2>7. NoneForgotten'
    <3>1. Eligible[a] \subseteq ResolutionApps /\ \A p \in ResolutionApps :
        resolutionFlight[a][p] = "none"
      BY <2>1 DEF ResolutionConstantsFit, ResolutionInv, SessionHeld
    <3> QED BY <2>1, <2>2, <3>1 DEF ResolutionInv, NoneForgotten
  <2>8. Resolution!EvidenceFitsItsSession'
    BY <2>1, <2>2, <2>3 DEF ResolutionInv, Resolution!EvidenceFitsItsSession
  <2> QED BY <2>4, <2>5, <2>6, <2>7, <2>8 DEF ResolutionInv
<1> QED BY <1>1, <1>2

LEMMA SubmitStep ==
  ASSUME ResolutionConstantsFit, ResolutionInv, NEW a \in Resolution!Audits,
         NEW app \in ResolutionApps, Resolution!Submit(a, app)
  PROVE  ResolutionInv'
<1>1. /\ resolutionStep[a] = "fill" /\ ~resolutionCancelled[a] /\ app \in misses[a]
      /\ misses' = [misses EXCEPT ![a] = @ \ {app}]
      /\ resolutionFlight' = [resolutionFlight EXCEPT ![a][app] = "queued"]
      /\ account' = account /\ signIns' = signIns /\ resolutionCache' = resolutionCache
      /\ resolutionCurrent' = resolutionCurrent
      /\ resolutionStarted' = resolutionStarted /\ resolutionCancelled' = resolutionCancelled
      /\ paused' = paused /\ provider' = provider
      /\ resolutionStep' = resolutionStep /\ resolutionContext' = resolutionContext
      /\ resolutionBundle' = resolutionBundle /\ resolutionRows' = resolutionRows
  BY DEF Resolution!Submit, Resolution!MayGoOn, Resolution!session, Resolution!window
<1>2. \A b \in Resolution!Audits : \A p \in ResolutionApps :
        /\ resolutionFlight'[b][p] = IF b = a
             /\ p = app THEN "queued" ELSE resolutionFlight[b][p]
        /\ p \in misses'[b] <=> p \in misses[b] /\ ~(b = a /\ p = app)
  BY <1>1 DEF ResolutionInv, TypeOK
<1>3. TypeOK'
  BY <1>1 DEF ResolutionInv, TypeOK, Flights
<1>4. ResolutionNotBegun' /\ OneRuns' /\ Resolution!EvidenceFitsItsSession'
  BY <1>1 DEF ResolutionInv, ResolutionNotBegun, OneRuns, Resolution!EvidenceFitsItsSession
<1>5. SessionHeld'
  BY <1>1, <1>2 DEF ResolutionInv, SessionHeld
<1>6. NoneForgotten'
  BY <1>1, <1>2 DEF ResolutionInv, NoneForgotten, ResolutionConstantsFit
<1> QED BY <1>3, <1>4, <1>5, <1>6 DEF ResolutionInv

LEMMA FilledStep ==
  ASSUME ResolutionConstantsFit, ResolutionInv, NEW a \in Resolution!Audits,
         Resolution!Filled(a)
  PROVE  ResolutionInv'
<1>1. /\ resolutionStep[a] = "fill"
      /\ resolutionStep' = [resolutionStep EXCEPT ![a] = resolutionStep'[a]]
      /\ resolutionStep'[a] = IF Resolution!Pending(a) = {} THEN "over" ELSE "wait"
      /\ misses[a] = {} \/ Cardinality(Resolution!Pending(a)) = Threads
           \/ resolutionCancelled[a]
      /\ account' = account /\ signIns' = signIns /\ resolutionCache' = resolutionCache
      /\ resolutionCurrent' = resolutionCurrent
      /\ resolutionStarted' = resolutionStarted /\ resolutionCancelled' = resolutionCancelled
      /\ paused' = paused /\ provider' = provider
      /\ resolutionContext' = resolutionContext /\ resolutionBundle' = resolutionBundle
      /\ misses' = misses /\ resolutionFlight' = resolutionFlight
      /\ resolutionRows' = resolutionRows
  BY ResolutionSets DEF Resolution!Filled, Resolution!Move, Resolution!MayGoOn,
     Resolution!session, Resolution!window, ResolutionInv, TypeOK
<1>2. resolutionStep'[a] = "over" =>
        /\ \A p \in ResolutionApps : resolutionFlight[a][p] = "none"
        /\ misses[a] = {} \/ resolutionCancelled[a]
  <2>1. SUFFICES ASSUME Resolution!Pending(a) = {}
                 PROVE  /\ \A p \in ResolutionApps : resolutionFlight[a][p] = "none"
                        /\ misses[a] = {} \/ resolutionCancelled[a]
    BY <1>1
  <2>2. Cardinality({}) = 0
    BY FS_EmptySet
  <2> QED BY <1>1, <2>1, <2>2 DEF Resolution!Pending, ResolutionConstantsFit
<1>3. /\ resolutionStep'[a] \in {"over", "wait"}
      /\ \A b \in Resolution!Audits : b # a => resolutionStep'[b] = resolutionStep[b]
  BY <1>1 DEF ResolutionInv, TypeOK
<1>4. TypeOK'
  BY <1>1, <1>3 DEF ResolutionInv, TypeOK, Steps
<1>5. ResolutionNotBegun' /\ OneRuns' /\ Resolution!EvidenceFitsItsSession'
  BY <1>1, <1>3 DEF ResolutionInv, ResolutionNotBegun, OneRuns,
     Resolution!EvidenceFitsItsSession
<1>6. SessionHeld'
  BY <1>1, <1>2, <1>3 DEF ResolutionInv, SessionHeld
<1>7. NoneForgotten'
  BY <1>1, <1>2, <1>3 DEF ResolutionInv, NoneForgotten, ResolutionConstantsFit
<1> QED BY <1>4, <1>5, <1>6, <1>7 DEF ResolutionInv

LEMMA CollectStep ==
  ASSUME ResolutionConstantsFit, ResolutionInv, NEW a \in Resolution!Audits,
         Resolution!Collect(a)
  PROVE  ResolutionInv'
<1> DEFINE done     == Resolution!Done(a)
           resolved == {p \in done : resolutionFlight[a][p] = "resolved"}
           shown    == [p \in ResolutionApps |-> IF p \in resolved
                                                 THEN {Resolution!Of(resolutionBundle[a])}
                                                 ELSE IF p \in done THEN {Resolution!Failed}
                                                   ELSE resolutionRows[a][p]]
           left     == [p \in ResolutionApps |-> IF p \in done \/ resolutionCancelled[a]
                                                 THEN "none"
                                                 ELSE resolutionFlight[a][p]]
<1>1. /\ resolutionStep[a] = "wait" /\ done # {}
      /\ resolutionRows' = [resolutionRows EXCEPT ![a] = shown]
      /\ resolutionFlight' = [resolutionFlight EXCEPT ![a] = left]
      /\ resolutionCache' = {e \in resolutionCache : ~(e.app \in resolved
                                                         /\ e.context = resolutionContext[a])}
                            \cup {Resolution!Entry(p, resolutionContext[a],
                                                   resolutionBundle[a]) : p \in resolved}
      /\ resolutionStep' = [resolutionStep EXCEPT ![a] = IF resolutionCancelled[a]
                                                         THEN "over"
                                                         ELSE "fill"]
      /\ account' = account /\ signIns' = signIns /\ resolutionCurrent' = resolutionCurrent
      /\ resolutionStarted' = resolutionStarted /\ resolutionCancelled' = resolutionCancelled
      /\ paused' = paused /\ provider' = provider
      /\ resolutionContext' = resolutionContext /\ resolutionBundle' = resolutionBundle
      /\ misses' = misses
  BY DEF Resolution!Collect, Resolution!Collected, Resolution!Move, Resolution!session,
     Resolution!window, ResolutionInv, TypeOK
<1>2. /\ done \subseteq ResolutionApps /\ resolved \subseteq done /\ resolutionBundle[a] \in Nat
      /\ resolutionContext[a] \in Nat
      /\ \A p \in ResolutionApps : p \in done => resolutionFlight[a][p] # "none"
  BY DEF Resolution!Done, ResolutionInv, TypeOK
<1>3. done # {} => resolutionBundle[a] = resolutionContext[a]
  BY <1>2 DEF ResolutionInv, SessionHeld
<1>4. Resolution!Failed \in ResolutionAnswers /\ Resolution!Failed.kind = "failed"
        /\ Resolution!Of(resolutionBundle[a]) \in ResolutionAnswers
      /\ Resolution!Of(resolutionBundle[a]).by = resolutionBundle[a]
  BY <1>2 DEF Resolution!Failed, Resolution!Of, ResolutionAnswers
<1>5. shown \in [ResolutionApps -> SUBSET ResolutionAnswers]
        /\ left \in [ResolutionApps -> Flights]
      /\ \A p \in ResolutionApps : /\ p \in done => shown[p] # {} /\ left[p] = "none"
                                   /\ p \notin done => shown[p] = resolutionRows[a][p]
                                   /\ p \notin done /\ ~resolutionCancelled[a]
                                        => left[p] = resolutionFlight[a][p]
                                   /\ resolutionCancelled[a] => left[p] = "none"
                                   /\ left[p] # "none" => resolutionFlight[a][p] # "none"
                                   /\ \A r \in shown[p] : r.kind = "resolved" =>
                                        r.by = resolutionBundle[a] \/ r \in resolutionRows[a][p]
  BY <1>2, <1>4 DEF ResolutionInv, TypeOK, Flights
<1>6. \A e \in resolutionCache' : e \in resolutionCache \/ \E p \in resolved :
    e = Resolution!Entry(p, resolutionContext[a], resolutionBundle[a])
  BY <1>1
<1> HIDE DEF done, resolved, shown, left
<1>7. /\ resolutionRows'[a] = shown /\ resolutionFlight'[a] = left
      /\ resolutionStep'[a] = IF resolutionCancelled[a] THEN "over" ELSE "fill"
      /\ \A b \in Resolution!Audits : b # a => /\ resolutionStep'[b] = resolutionStep[b]
                                               /\ resolutionRows'[b] = resolutionRows[b]
                                               /\ resolutionFlight'[b] = resolutionFlight[b]
  BY <1>1 DEF ResolutionInv, TypeOK
<1>8. resolutionCache' \subseteq [app : ResolutionApps, context : Nat, by : Nat]
      /\ \A e \in resolutionCache' : e.by = e.context
  BY <1>1, <1>2, <1>3, <1>6 DEF Resolution!Entry, ResolutionInv, TypeOK,
     Resolution!EvidenceFitsItsSession
<1>9. TypeOK'
  BY <1>1, <1>5, <1>8 DEF ResolutionInv, TypeOK, Steps
<1>10. ResolutionNotBegun' /\ OneRuns'
  BY <1>1, <1>7 DEF ResolutionInv, ResolutionNotBegun, OneRuns
<1>11. SessionHeld'
  BY <1>1, <1>3, <1>5, <1>7 DEF ResolutionInv, SessionHeld
<1>12. NoneForgotten'
  <2>1. Eligible[a] \subseteq ResolutionApps
    BY DEF ResolutionConstantsFit
  <2> QED BY <1>1, <1>5, <1>7, <2>1 DEF ResolutionInv, NoneForgotten
<1>13. Resolution!EvidenceFitsItsSession'
  BY <1>1, <1>3, <1>5, <1>7, <1>8 DEF ResolutionInv, Resolution!EvidenceFitsItsSession
<1> QED BY <1>9, <1>10, <1>11, <1>12, <1>13 DEF ResolutionInv

-----------------------------------------------------------------------------
(* The threads. *)

LEMMA ResolutionThreadStep ==
  ASSUME ResolutionConstantsFit, ResolutionInv, NEW a \in Resolution!Audits,
         NEW app \in ResolutionApps,
         Resolution!Ask(a, app) \/ Resolution!Answer(a, app) \/ Resolution!AuthoriseOne(a, app)
           \/ Resolution!AnswerOne(a, app)
  PROVE  ResolutionInv'
<1>1. /\ resolutionFlight[a][app] # "none"
      /\ \E as \in Flights \ {"none"} :
           resolutionFlight' = [resolutionFlight EXCEPT ![a][app] = as]
      /\ account' = account /\ signIns' = signIns /\ resolutionCache' = resolutionCache
      /\ resolutionCurrent' = resolutionCurrent
      /\ resolutionStarted' = resolutionStarted /\ resolutionCancelled' = resolutionCancelled
      /\ paused' = paused /\ provider' = provider
      /\ resolutionStep' = resolutionStep /\ resolutionContext' = resolutionContext
      /\ resolutionBundle' = resolutionBundle /\ misses' = misses
      /\ resolutionRows' = resolutionRows
  BY DEF Resolution!Ask, Resolution!Answer, Resolution!AuthoriseOne, Resolution!AnswerOne,
     Resolution!Land, Flights, Resolution!session, Resolution!window
<1> PICK as \in Flights \ {"none"} :
    resolutionFlight' = [resolutionFlight EXCEPT ![a][app] = as]
  BY <1>1
<1>2. \A b \in Resolution!Audits : \A p \in ResolutionApps :
        resolutionFlight'[b][p] = IF b = a /\ p = app THEN as ELSE resolutionFlight[b][p]
  BY DEF ResolutionInv, TypeOK
<1>3. \A b \in Resolution!Audits : \A p \in ResolutionApps : resolutionFlight'[b][p] # "none"
        <=> resolutionFlight[b][p] # "none"
  <2>1. resolutionFlight[a][app] # "none" /\ as # "none"
    BY <1>1
  <2>2. ASSUME NEW b \in Resolution!Audits, NEW p \in ResolutionApps
        PROVE  resolutionFlight'[b][p] # "none" <=> resolutionFlight[b][p] # "none"
    <3>1. resolutionFlight'[b][p] = IF b = a /\ p = app THEN as ELSE resolutionFlight[b][p]
      BY <1>2
    <3> QED BY <2>1, <3>1
  <2> QED BY <2>2
<1>4. TypeOK'
  <2>1. resolutionFlight' \in [Resolution!Audits -> [ResolutionApps -> Flights]]
    BY DEF ResolutionInv, TypeOK
  <2> QED BY <1>1, <2>1 DEF ResolutionInv, TypeOK
<1>5. ResolutionNotBegun' /\ OneRuns' /\ Resolution!EvidenceFitsItsSession'
  BY <1>1 DEF ResolutionInv, ResolutionNotBegun, OneRuns, Resolution!EvidenceFitsItsSession
<1>6. SessionHeld'
  BY <1>1, <1>3 DEF ResolutionInv, SessionHeld
<1>7. NoneForgotten'
  BY <1>1, <1>3 DEF ResolutionInv, NoneForgotten, ResolutionConstantsFit
<1> QED BY <1>4, <1>5, <1>6, <1>7 DEF ResolutionInv

-----------------------------------------------------------------------------
(* The theorems. *)

LEMMA ResolutionStarts == ResolutionConstantsFit /\ Resolution!Init => ResolutionInv
  BY DEF ResolutionConstantsFit, Resolution!Init, ResolutionInv, TypeOK, Steps, Flights,
     Resolution!Audits, ResolutionNotBegun, OneRuns, SessionHeld, NoneForgotten,
     Resolution!EvidenceFitsItsSession

LEMMA ResolutionStep == ResolutionConstantsFit /\ ResolutionInv
  /\ [Resolution!Next]_(Resolution!vars) => ResolutionInv'
<1> SUFFICES ASSUME ResolutionConstantsFit, ResolutionInv, [Resolution!Next]_(Resolution!vars)
             PROVE  ResolutionInv'
  OBVIOUS
<1>1. CASE ResolutionWindowStep
  BY <1>1, SessionChange, StartStep, ControlStep DEF ResolutionWindowStep
<1>2. ASSUME NEW a \in Resolution!Audits,
             Resolution!ReadContext(a) \/ Resolution!TakeCredentials(a)
               \/ Resolution!Authorise(a) \/ Resolution!Filled(a) \/ Resolution!Collect(a)
      PROVE  ResolutionInv'
  BY <1>2, ContextStep, AuthoriseStep, FilledStep, CollectStep
<1>3. ASSUME NEW a \in Resolution!Audits, NEW aged \in BOOLEAN, Resolution!LoadCache(a, aged)
      PROVE  ResolutionInv'
  BY <1>3, LoadCacheStep
<1>4. ASSUME NEW a \in Resolution!Audits, NEW app \in ResolutionApps,
             \/ Resolution!Submit(a, app) \/ Resolution!Ask(a, app) \/ Resolution!Answer(a, app)
             \/ Resolution!AuthoriseOne(a, app) \/ Resolution!AnswerOne(a, app)
      PROVE  ResolutionInv'
  BY <1>4, SubmitStep, ResolutionThreadStep
<1>5. CASE UNCHANGED Resolution!vars
  BY <1>5 DEF Resolution!vars, Resolution!session, Resolution!window, Resolution!phase,
     ResolutionInv, TypeOK, ResolutionNotBegun, OneRuns, SessionHeld, NoneForgotten,
     Resolution!EvidenceFitsItsSession
<1> QED BY <1>1, <1>2, <1>3, <1>4, <1>5 DEF Resolution!Next, ResolutionWindowStep

LEMMA ResolutionInvMeans ==
  ASSUME ResolutionInv
  PROVE  Resolution!EvidenceFitsItsSession /\ Resolution!EveryMissIsAnswered
  BY DEF ResolutionInv, NoneForgotten, Resolution!EveryMissIsAnswered

LEMMA ResolutionMoves ==
  ASSUME [DeskNext]_deskVars, part = "resolution"
  PROVE  [Resolution!Next]_(Resolution!vars)
  BY DEF DeskNext, deskVars, resolutionVars, Resolution!vars, Resolution!session,
     Resolution!window, Resolution!phase

LEMMA ResolutionStays == DeskSpec => [](part = "resolution" => ResolutionInv)
<1>1. DeskInit => (part = "resolution" => ResolutionInv)
  BY ResolutionStarts, DeskAssumption DEF DeskInit
<1>2. (part = "resolution" => ResolutionInv) /\ [DeskNext]_deskVars
        => (part = "resolution" => ResolutionInv)'
  BY PartStays, ResolutionMoves, ResolutionStep, DeskAssumption
<1> QED BY <1>1, <1>2, PTL DEF DeskSpec

(* Evidence is kept and shown for the session that obtained it, however   *)
(* often the user signs in while workers of audits that were given up     *)
(* still run.                                                             *)
THEOREM EvidenceFits ==
  /\ Resolution!Spec => []Resolution!EvidenceFitsItsSession
  /\ DeskSpec => []EvidenceFitsItsSession
<1>1. Resolution!Init => ResolutionInv
  BY ResolutionStarts, DeskAssumption
<1>2. ResolutionInv /\ [Resolution!Next]_(Resolution!vars) => ResolutionInv'
  BY ResolutionStep, DeskAssumption
<1>3. ResolutionInv => Resolution!EvidenceFitsItsSession
  BY ResolutionInvMeans, DeskAssumption
<1>4. (part = "resolution" => ResolutionInv) => EvidenceFitsItsSession
  BY <1>3 DEF EvidenceFitsItsSession
<1>5. Resolution!Spec => []Resolution!EvidenceFitsItsSession
  BY <1>1, <1>2, <1>3, PTL DEF Resolution!Spec
<1>6. DeskSpec => []EvidenceFitsItsSession
  BY <1>4, ResolutionStays, PTL
<1> QED BY <1>5, <1>6

(* A phase that nobody stopped leaves no eligible app without an answer,  *)
(* however many threads it has and however its requests end.              *)
THEOREM MissesAreAnswered ==
  /\ Resolution!Spec => []Resolution!EveryMissIsAnswered
  /\ DeskSpec => []EveryMissIsAnswered
<1>1. Resolution!Init => ResolutionInv
  BY ResolutionStarts, DeskAssumption
<1>2. ResolutionInv /\ [Resolution!Next]_(Resolution!vars) => ResolutionInv'
  BY ResolutionStep, DeskAssumption
<1>3. ResolutionInv => Resolution!EveryMissIsAnswered
  BY ResolutionInvMeans, DeskAssumption
<1>4. (part = "resolution" => ResolutionInv) => EveryMissIsAnswered
  BY <1>3 DEF EveryMissIsAnswered
<1>5. Resolution!Spec => []Resolution!EveryMissIsAnswered
  BY <1>1, <1>2, <1>3, PTL DEF Resolution!Spec
<1>6. DeskSpec => []EveryMissIsAnswered
  BY <1>4, ResolutionStays, PTL
<1> QED BY <1>5, <1>6

-----------------------------------------------------------------------------
(* Alternative sources. Before a phase loads its cache it has nothing;    *)
(* afterwards each task of its sources is waiting, under way, or has its  *)
(* one result (OneResult).                                                *)

PhaseSteps == {"no", "load", "loop", "submit", "submitting", "wait", "write", "replace", "over"}
Requests   == [task : Alternative!Tasks, done : BOOLEAN]
AlternativeAnswers    == [provenance : {"live", "cache", "not checked"},
                          by : Stores \cup {Alternative!Fdroid, Alternative!Off}]
Entries    == {Alternative!Entry(t) : t \in Alternative!Tasks}

CachesFit ==
  /\ alternativeFile \subseteq Entries /\ temporary \in SUBSET SUBSET Entries
  /\ memory \in [Alternative!Phases -> SUBSET Entries]

PhaseTypes ==
  /\ store \in Stores \cup {Alternative!Off} /\ alternativeStarted \in Nat
  /\ alternativeStep \in [Alternative!Phases -> PhaseSteps]
  /\ aptoide \in [Alternative!Phases -> Stores \cup {Alternative!Off}]
  /\ alternativePending \in [Alternative!Phases -> SUBSET Alternative!Tasks]
  /\ active \in [Alternative!Phases -> SUBSET Requests]
  /\ results \in [Alternative!Phases -> [Alternative!Tasks -> Seq(AlternativeAnswers)]]

Asked(a, t) == t \in alternativePending[a] \/ \E f \in active[a] : f.task = t

(* What one phase has to do and has done: nothing before it loads, afterwards  *)
(* each task of its sources is waiting, under way, or has its one result, and  *)
(* at the end none is open.                                                    *)
AlternativeNotBegun(a) ==
  alternativeStep[a] \in {"no", "load"} =>
    alternativePending[a] = {} /\ active[a] = {} /\ \A t \in Alternative!Tasks :
        results[a][t] = <<>>
OneResult(a) ==
  alternativeStep[a] \notin {"no", "load"} =>
    \A t \in Alternative!Tasks :
      /\ Asked(a, t) => t[2] \in Alternative!Sources(a) /\ Len(results[a][t]) = 0
      /\ ~Asked(a, t) => Len(results[a][t]) = IF t[2] \in Alternative!Sources(a) THEN 1 ELSE 0
AskedOnce(a) ==
  \A f \in active[a] : f.task \notin alternativePending[a] /\ \A g \in active[a] :
      f.task = g.task => f = g
Ended(a)      == alternativeStep[a] \in {"write", "replace", "over"}
  => alternativePending[a] = {} /\ active[a] = {}
OwnAnswers(a) == \A t \in Alternative!Tasks : \A i \in DOMAIN results[a][t] :
    results[a][t][i].by \in {t[2], Alternative!Off}
NotYet(a)     == a > alternativeStarted => alternativeStep[a] = "no"

PhaseInv(a) == AlternativeNotBegun(a) /\ OneResult(a) /\ AskedOnce(a) /\ Ended(a)
  /\ OwnAnswers(a) /\ NotYet(a)

AlternativeInv == PhaseTypes /\ CachesFit /\ \A a \in Alternative!Phases : PhaseInv(a)

LEMMA AlternativeStarts == ASSUME AlternativeConstantsFit, Alternative!Init PROVE AlternativeInv
<1>1. PhaseTypes /\ CachesFit
  BY DEF Alternative!Init, PhaseTypes, CachesFit, PhaseSteps
<1>2. ASSUME NEW a \in Alternative!Phases PROVE PhaseInv(a)
  <2>1. /\ alternativeStep[a] = "no" /\ alternativePending[a] = {} /\ active[a] = {}
        /\ \A t \in Alternative!Tasks : results[a][t] = <<>>
    BY DEF Alternative!Init
  <2> QED BY <2>1 DEF PhaseInv, AlternativeNotBegun, OneResult, AskedOnce, Ended, OwnAnswers,
             NotYet
<1> QED BY <1>1, <1>2 DEF AlternativeInv

LEMMA PhaseStays ==
  ASSUME NEW a, PhaseInv(a), alternativeStep'[a] = alternativeStep[a], aptoide'[a] = aptoide[a],
         alternativePending'[a] = alternativePending[a],
         active'[a] = active[a], results'[a] = results[a],
         a > alternativeStarted' => a > alternativeStarted
  PROVE  PhaseInv(a)'
  BY DEF PhaseInv, AlternativeNotBegun, OneResult, AskedOnce, Ended, OwnAnswers, NotYet,
     Asked, Alternative!Sources

(* The caches hold what sources said of themselves. *)
LEMMA EntriesFit ==
  ASSUME NEW entries \in SUBSET Entries, NEW tasks \in SUBSET Alternative!Tasks
  PROVE  /\ Alternative!CacheResults(entries, tasks) \subseteq Entries
         /\ \A t \in Alternative!Tasks : \A e \in Alternative!FreshCached(entries, t) :
              e.by = t[2]
  BY DEF Alternative!CacheResults, Entries, Alternative!FreshCached, Alternative!Entry,
     Alternative!CacheKey

LEMMA AlternativeWindowStep ==
  ASSUME AlternativeConstantsFit, AlternativeInv,
         \/ Alternative!StartPhase \/ Alternative!ClearCache \/ Alternative!PauseOrResume
         \/ Alternative!Report \/ UNCHANGED Alternative!vars
         \/ \E s \in Stores \cup {Alternative!Off} : Alternative!ChangeStore(s)
         \/ \E b \in BOOLEAN : Alternative!Stop(b)
         \/ \E a \in Alternative!Phases : Alternative!Spend(a)
  PROVE  AlternativeInv'
<1> USE DEF Alternative!window, Alternative!work, Alternative!control
<1>1. UNCHANGED <<temporary, memory, alternativePending, active, results>>
        /\ alternativeFile' \in {alternativeFile, {}}
  BY DEF Alternative!StartPhase, Alternative!ClearCache, Alternative!PauseOrResume,
     Alternative!Report, Alternative!ChangeStore, Alternative!Stop, Alternative!Spend,
     Alternative!vars
<1>2. CachesFit'
  BY <1>1 DEF AlternativeInv, CachesFit
<1>3. CASE Alternative!StartPhase
  <2>1. /\ alternativeStarted' = alternativeStarted + 1
        /\ alternativeStarted' \in Alternative!Phases /\ store' = store
        /\ aptoide' = [aptoide EXCEPT ![alternativeStarted'] = store]
        /\ alternativeStep' = [alternativeStep EXCEPT ![alternativeStarted'] = "load"]
    BY <1>3 DEF Alternative!StartPhase, Alternative!Move, Alternative!Phases,
       AlternativeConstantsFit, AlternativeInv, PhaseTypes
  <2>2. PhaseTypes'
    BY <1>1, <2>1 DEF AlternativeInv, PhaseTypes, PhaseSteps
  <2>3. ASSUME NEW a \in Alternative!Phases PROVE PhaseInv(a)'
    <3>1. PhaseInv(a)
      BY DEF AlternativeInv
    <3>2. CASE a = alternativeStarted'
      <4>1. alternativeStep[a] = "no" /\ alternativeStep'[a] = "load"
        BY <2>1, <3>1, <3>2 DEF PhaseInv, NotYet, AlternativeInv, PhaseTypes
      <4> QED
        BY <1>1, <2>1, <3>1, <3>2, <4>1 DEF PhaseInv, AlternativeNotBegun, OneResult,
           AskedOnce, Ended, OwnAnswers, NotYet, AlternativeInv, PhaseTypes
    <3>3. CASE a # alternativeStarted'
      <4>1. alternativeStep'[a] = alternativeStep[a] /\ aptoide'[a] = aptoide[a]
              /\ (a > alternativeStarted' => a > alternativeStarted)
        BY <2>1, <3>3 DEF AlternativeInv, PhaseTypes, Alternative!Phases
      <4> QED BY <1>1, <3>1, <4>1, PhaseStays
    <3> QED BY <3>2, <3>3
  <2> QED BY <1>2, <2>2, <2>3 DEF AlternativeInv
<1>4. CASE UNCHANGED <<alternativeStarted, alternativeStep, aptoide>>
        /\ store' \in Stores \cup {Alternative!Off}
  <2>1. PhaseTypes'
    BY <1>1, <1>4 DEF AlternativeInv, PhaseTypes
  <2>2. ASSUME NEW a \in Alternative!Phases PROVE PhaseInv(a)'
    BY <1>1, <1>4, PhaseStays DEF AlternativeInv
  <2> QED BY <1>2, <2>1, <2>2 DEF AlternativeInv
<1> QED
  BY <1>3, <1>4 DEF Alternative!ClearCache, Alternative!PauseOrResume, Alternative!Report,
     Alternative!ChangeStore, Alternative!Stop, Alternative!Spend, Alternative!vars,
     AlternativeInv, PhaseTypes

(* A step of one phase leaves the others as they are. *)
LEMMA OnePhaseKeeps ==
  ASSUME AlternativeInv, NEW a \in Alternative!Phases, CachesFit', PhaseInv(a)',
         UNCHANGED <<store, alternativeStarted, aptoide>>,
         NEW s \in PhaseSteps, alternativeStep' = [alternativeStep EXCEPT ![a] = s],
         NEW p \in SUBSET Alternative!Tasks, alternativePending'
           = [alternativePending EXCEPT ![a] = p],
         NEW q \in SUBSET Requests, active' = [active EXCEPT ![a] = q],
         NEW r \in [Alternative!Tasks -> Seq(AlternativeAnswers)], results'
           = [results EXCEPT ![a] = r]
  PROVE  AlternativeInv'
<1>1. PhaseTypes'
  BY DEF AlternativeInv, PhaseTypes
<1>2. ASSUME NEW b \in Alternative!Phases, b # a PROVE PhaseInv(b)'
  <2>1. /\ alternativeStep'[b] = alternativeStep[b]
        /\ alternativePending'[b] = alternativePending[b] /\ active'[b] = active[b]
        /\ results'[b] = results[b]
    BY <1>2 DEF AlternativeInv, PhaseTypes
  <2> QED BY <2>1, PhaseStays DEF AlternativeInv
<1> QED BY <1>1, <1>2 DEF AlternativeInv

LEMMA SamePhase ==
  ASSUME AlternativeInv, NEW a \in Alternative!Phases
  PROVE  /\ alternativePending = [alternativePending EXCEPT ![a] = alternativePending[a]]
         /\ alternativePending[a] \in SUBSET Alternative!Tasks
         /\ active = [active EXCEPT ![a] = active[a]] /\ active[a] \in SUBSET Requests
         /\ results = [results EXCEPT ![a] = results[a]]
         /\ results[a] \in [Alternative!Tasks -> Seq(AlternativeAnswers)]
         /\ alternativeStep = [alternativeStep EXCEPT ![a] = alternativeStep[a]]
         /\ alternativeStep[a] \in PhaseSteps
         /\ PhaseInv(a) /\ Alternative!Sources(a) \subseteq {Alternative!Fdroid} \cup Stores
  BY DEF AlternativeInv, PhaseTypes, Alternative!Sources

LEMMA ResultGrows ==
  ASSUME NEW s \in Seq(AlternativeAnswers), NEW x \in AlternativeAnswers
  PROVE  /\ Append(s, x) \in Seq(AlternativeAnswers) /\ Len(Append(s, x)) = Len(s) + 1
         /\ \A i \in DOMAIN Append(s, x) :
              Append(s, x)[i] = x \/ (i \in DOMAIN s /\ Append(s, x)[i] = s[i])
  OBVIOUS

LEMMA MemoryFits ==
  ASSUME CachesFit, NEW a \in Alternative!Phases, NEW tasks \in SUBSET Alternative!Tasks,
         UNCHANGED <<alternativeFile, temporary>>,
         memory' = [memory EXCEPT ![a] = Alternative!CacheResults(@, tasks)]
  PROVE  CachesFit'
<1>1. memory[a] \in SUBSET Entries
  BY DEF CachesFit
<1>2. Alternative!CacheResults(memory[a], tasks) \in SUBSET Entries
  BY <1>1, EntriesFit
<1>3. memory' = [memory EXCEPT ![a] = Alternative!CacheResults(memory[a], tasks)]
  OBVIOUS
<1> QED BY <1>2, <1>3 DEF CachesFit

LEMMA LoadStep ==
  ASSUME AlternativeInv, NEW a \in Alternative!Phases, NEW stale \in BOOLEAN,
         Alternative!Load(a, stale)
  PROVE  AlternativeInv'
<1> USE DEF Alternative!window, Alternative!control
<1> DEFINE tasks == EligibleApps \X Alternative!Sources(a)
           hits  == IF stale
                    THEN {}
                    ELSE {t \in tasks : Alternative!FreshCached(alternativeFile, t) # {}}
           hit(t) ==
              LET e == CHOOSE x \in Alternative!FreshCached(alternativeFile, t) : TRUE
              IN  <<Alternative!Hit(e.by)>>
           r     == [t \in Alternative!Tasks |-> IF t \in hits THEN hit(t) ELSE <<>>]
<1>1. /\ alternativeStep[a] = "load"
      /\ alternativeStep' = [alternativeStep EXCEPT ![a] = "loop"] /\ active' = active
      /\ UNCHANGED <<store, alternativeFile, temporary, alternativeStarted, aptoide>>
      /\ alternativePending' = [alternativePending EXCEPT ![a] = tasks \ hits]
      /\ results' = [results EXCEPT ![a] = r]
      /\ memory' = [memory EXCEPT ![a] = alternativeFile]
  BY DEF Alternative!Load, Alternative!Move
<1>2. tasks \subseteq Alternative!Tasks /\ hits \subseteq tasks
  BY SamePhase DEF Alternative!Tasks
<1>3. ASSUME NEW t \in hits
      PROVE  hit(t) \in Seq(AlternativeAnswers) /\ Len(hit(t)) = 1 /\ DOMAIN hit(t) = {1}
               /\ hit(t)[1].by = t[2]
  <2>1. (CHOOSE e \in Alternative!FreshCached(alternativeFile, t) : TRUE).by = t[2]
          /\ t \in Alternative!Tasks
    BY <1>2, EntriesFit DEF AlternativeInv, CachesFit
  <2>2. Alternative!Hit(t[2]) \in AlternativeAnswers /\ Alternative!Hit(t[2]).by = t[2]
    BY <2>1 DEF Alternative!Hit, AlternativeAnswers, Alternative!Tasks
  <2> QED BY <2>1, <2>2
<1>4. r \in [Alternative!Tasks -> Seq(AlternativeAnswers)]
  BY <1>3
<1>5. CachesFit'
  BY <1>1 DEF AlternativeInv, CachesFit
<1>6. /\ alternativeStep'[a] = "loop" /\ alternativePending'[a] = tasks \ hits
      /\ active'[a] = {} /\ results'[a] = r
      /\ Alternative!Sources(a)' = Alternative!Sources(a)
  BY <1>1, SamePhase DEF AlternativeInv, PhaseTypes, PhaseInv, AlternativeNotBegun,
     Alternative!Sources
<1>7. PhaseInv(a)'
  <2>1. OneResult(a)'
    <3> SUFFICES ASSUME NEW t \in Alternative!Tasks
                 PROVE  /\ t \in tasks \ hits
                             => t[2] \in Alternative!Sources(a) /\ Len(r[t]) = 0
                        /\ t \notin tasks \ hits
                             => Len(r[t]) = IF t[2] \in Alternative!Sources(a) THEN 1 ELSE 0
      BY <1>6 DEF OneResult, Asked
    <3>1. t \in tasks <=> t[2] \in Alternative!Sources(a)
      BY DEF Alternative!Tasks
    <3> QED BY <1>2, <1>3, <3>1
  <2>2. OwnAnswers(a)'
    BY <1>3, <1>6 DEF OwnAnswers
  <2> QED
    BY <1>1, <1>6, <2>1, <2>2, SamePhase DEF PhaseInv, AlternativeNotBegun, AskedOnce, Ended,
       NotYet
<1>8. /\ active' = [active EXCEPT ![a] = active[a]] /\ active[a] \in SUBSET Requests
      /\ tasks \ hits \in SUBSET Alternative!Tasks /\ "loop" \in PhaseSteps
  BY <1>1, <1>2, SamePhase DEF PhaseSteps
<1> HIDE DEF tasks, hits, r
<1> QED BY <1>1, <1>4, <1>5, <1>7, <1>8, OnePhaseKeeps

(* Steps that only ask, or only move. *)
LEMMA AskStep ==
  ASSUME AlternativeInv, NEW a \in Alternative!Phases, NEW t \in Alternative!Tasks,
         Alternative!Check(a, t) \/ Alternative!Submit(a, t)
  PROVE  AlternativeInv'
<1> USE DEF Alternative!window, Alternative!control
<1> DEFINE open == [task |-> t, done |-> FALSE]
           closed == [task |-> t, done |-> TRUE]
<1>0. open \in Requests /\ closed \in Requests /\ open # closed /\ open.task = t
        /\ closed.task = t
  BY DEF Requests
<1>1. CASE Alternative!Check(a, t)
  <2> DEFINE q == (active[a] \ {open}) \cup {closed}
  <2>1. /\ open \in active[a] /\ active' = [active EXCEPT ![a] = q]
        /\ UNCHANGED <<store, alternativeFile, temporary, alternativeStarted, alternativeStep,
                       aptoide, memory, alternativePending, results>>
    BY <1>1 DEF Alternative!Check
  <2>2. q \in SUBSET Requests /\ active'[a] = q
    BY <1>0, <2>1, SamePhase DEF AlternativeInv, PhaseTypes
  <2>3. \A u \in Alternative!Tasks : Asked(a, u)' <=> Asked(a, u)
    BY <1>0, <2>1, <2>2 DEF Asked
  <2>4. AskedOnce(a)'
    <3>1. \A f \in active[a] : f.task = t => f = open
      BY <1>0, <2>1, SamePhase DEF PhaseInv, AskedOnce
    <3>2. open.task \notin alternativePending[a]
      BY <2>1, SamePhase DEF PhaseInv, AskedOnce
    <3> QED BY <1>0, <2>1, <2>2, <3>1, <3>2, SamePhase, ZenonT(40) DEF PhaseInv, AskedOnce
  <2>5. active[a] # {}
    BY <2>1
  <2>6. PhaseInv(a)'
    <3>1. Alternative!Sources(a)' = Alternative!Sources(a)
      BY <2>1 DEF Alternative!Sources
    <3> QED
      BY <2>1, <2>3, <2>4, <2>5, <3>1, SamePhase DEF PhaseInv, AlternativeNotBegun, OneResult,
         Ended, OwnAnswers, NotYet
  <2>7. CachesFit'
    BY <2>1 DEF AlternativeInv, CachesFit
  <2> HIDE DEF q
  <2> QED BY <2>1, <2>2, <2>6, <2>7, SamePhase, OnePhaseKeeps
<1>2. CASE Alternative!Submit(a, t)
  <2> DEFINE q == active[a] \cup {open}
             p == alternativePending[a] \ {t}
  <2>1. /\ t \in alternativePending[a] /\ alternativeStep[a] = "submitting"
        /\ active' = [active EXCEPT ![a] = q]
        /\ alternativePending' = [alternativePending EXCEPT ![a] = p]
        /\ alternativeStep' = [alternativeStep EXCEPT ![a] = "submit"]
        /\ UNCHANGED <<store, alternativeFile, temporary, alternativeStarted, aptoide, memory,
                       results>>
    BY <1>2 DEF Alternative!Submit, Alternative!Move
  <2>2. q \in SUBSET Requests /\ p \in SUBSET Alternative!Tasks /\ active'[a] = q
          /\ alternativePending'[a] = p /\ alternativeStep'[a] = "submit"
    BY <1>0, <2>1, SamePhase DEF AlternativeInv, PhaseTypes
  <2>3. \A u \in Alternative!Tasks : Asked(a, u)' <=> Asked(a, u)
    BY <1>0, <2>1, <2>2 DEF Asked
  <2>4. AskedOnce(a)'
    <3>1. \A f \in active[a] : f.task # t
      BY <2>1, SamePhase DEF PhaseInv, AskedOnce
    <3>2. ASSUME NEW f \in q PROVE f.task \notin p /\ \A g \in q : f.task = g.task => f = g
      <4>1. CASE f = open
        BY <1>0, <3>1, <4>1
      <4>2. CASE f \in active[a]
        BY <1>0, <3>1, <4>2, SamePhase DEF PhaseInv, AskedOnce
      <4> QED BY <4>1, <4>2
    <3> HIDE DEF p, q
    <3> QED BY <2>2, <3>2 DEF AskedOnce
  <2>5. PhaseInv(a)'
    <3>1. Alternative!Sources(a)' = Alternative!Sources(a)
      BY <2>1 DEF Alternative!Sources
    <3> QED
      BY <2>1, <2>2, <2>3, <2>4, <3>1, SamePhase DEF PhaseInv, AlternativeNotBegun, OneResult,
         Ended, OwnAnswers, NotYet
  <2>6. CachesFit' /\ "submit" \in PhaseSteps
    BY <2>1 DEF AlternativeInv, CachesFit, PhaseSteps
  <2> HIDE DEF p, q
  <2> QED BY <2>1, <2>2, <2>5, <2>6, SamePhase, OnePhaseKeeps
<1> QED BY <1>1, <1>2

LEMMA MoveStep ==
  ASSUME AlternativeInv, NEW a \in Alternative!Phases,
         \/ Alternative!TrySubmit(a) \/ (Alternative!Loop(a) /\ ~Alternative!Finish(a))
         \/ Alternative!ReplaceCache(a)
         \/ \E fails \in BOOLEAN : Alternative!WriteCache(a, fails)
  PROVE  AlternativeInv'
<1> USE DEF Alternative!window, Alternative!work, Alternative!control
<1>1. /\ UNCHANGED <<store, alternativeStarted, aptoide, alternativePending, active, results>>
      /\ \E s \in PhaseSteps : alternativeStep' = [alternativeStep EXCEPT ![a] = s] /\
           IF alternativeStep[a] \in {"write", "replace"} THEN s \in {"replace", "over"}
           ELSE alternativeStep[a] \in {"loop", "submit"}
             /\ s \in {"loop", "submit", "submitting", "wait"}
  BY DEF Alternative!TrySubmit, Alternative!Loop, Alternative!ReplaceCache,
     Alternative!WriteCache, Alternative!Move, PhaseSteps
<1>2. CachesFit'
  BY DEF Alternative!TrySubmit, Alternative!Loop, Alternative!ReplaceCache,
     Alternative!WriteCache, AlternativeInv, CachesFit
<1>3. PICK s \in PhaseSteps :
        /\ alternativeStep' = [alternativeStep EXCEPT ![a] = s]
        /\ \/ alternativeStep[a] \in {"write", "replace"} /\ s \in {"replace", "over"}
           \/ alternativeStep[a] \in {"loop", "submit"}
                /\ s \in {"loop", "submit", "submitting", "wait"}
  BY <1>1
<1>4. alternativeStep'[a] = s
  BY <1>3 DEF AlternativeInv, PhaseTypes
<1>5. PhaseInv(a)'
  <2>1. Alternative!Sources(a)' = Alternative!Sources(a) /\ \A t \in Alternative!Tasks :
      Asked(a, t)' <=> Asked(a, t)
    BY <1>1 DEF Alternative!Sources, Asked
  <2> QED
    BY <1>1, <1>3, <1>4, <2>1, SamePhase DEF PhaseInv, AlternativeNotBegun, OneResult,
       AskedOnce, Ended, OwnAnswers, NotYet
<1> QED BY <1>1, <1>2, <1>3, <1>5, SamePhase, OnePhaseKeeps

(* Results are added: to what is done, and at the end to everything open. *)
LEMMA GatherStep ==
  ASSUME AlternativeInv, NEW a \in Alternative!Phases, Alternative!Gather(a)
  PROVE  AlternativeInv'
<1> USE DEF Alternative!window, Alternative!control
<1> DEFINE q == {f \in active[a] : ~f.done}
           r == Alternative!WithLive(a, Alternative!Done(a))
<1>1. /\ alternativeStep[a] = "wait"
      /\ alternativeStep' = [alternativeStep EXCEPT ![a] = "loop"]
      /\ results' = [results EXCEPT ![a] = r]
      /\ memory' = [memory EXCEPT ![a] = Alternative!CacheResults(@, Alternative!Done(a))]
      /\ active' = [active EXCEPT ![a] = q]
      /\ UNCHANGED <<store, alternativeFile, temporary, alternativeStarted, aptoide,
                     alternativePending>>
  BY DEF Alternative!Gather, Alternative!Move
<1>2. Alternative!Done(a) \subseteq Alternative!Tasks /\ q \in SUBSET Requests
  BY SamePhase DEF Alternative!Done, Requests
<1>3. CachesFit'
  BY <1>1, <1>2, MemoryFits DEF AlternativeInv
<1>4. ASSUME NEW t \in Alternative!Tasks
      PROVE  /\ r[t] \in Seq(AlternativeAnswers)
             /\ t \in Alternative!Done(a) => Len(r[t]) = Len(results[a][t]) + 1
             /\ t \notin Alternative!Done(a) => Len(r[t]) = Len(results[a][t])
             /\ \A i \in DOMAIN r[t] : r[t][i].by \in {t[2], Alternative!Off}
  <2>1. results[a][t] \in Seq(AlternativeAnswers) /\ \A i \in DOMAIN results[a][t] :
      results[a][t][i].by \in {t[2], Alternative!Off}
    BY SamePhase DEF PhaseInv, OwnAnswers
  <2>2. Alternative!Live(t[2]) \in AlternativeAnswers /\ Alternative!Live(t[2]).by = t[2]
    BY DEF Alternative!Live, AlternativeAnswers, Alternative!Tasks
  <2>3. r[t] = IF t \in Alternative!Done(a) THEN Append(results[a][t], Alternative!Live(t[2]))
          ELSE results[a][t]
    BY DEF Alternative!WithLive
  <2>4. CASE t \in Alternative!Done(a)
    BY <2>1, <2>2, <2>3, <2>4, ResultGrows
  <2>5. CASE t \notin Alternative!Done(a)
    BY <2>1, <2>3, <2>5
  <2> QED BY <2>4, <2>5
<1>5. r = [t \in Alternative!Tasks |-> r[t]]
  BY DEF Alternative!WithLive
<1>6. ASSUME NEW t \in Alternative!Tasks
      PROVE  /\ t \in Alternative!Done(a) =>
                  Asked(a, t) /\ t \notin alternativePending[a] /\ \A f \in q : f.task # t
             /\ t \notin Alternative!Done(a)
                  => (Asked(a, t) <=> (t \in alternativePending[a] \/ \E f \in q : f.task = t))
  <2>1. CASE t \in Alternative!Done(a)
    <3>1. PICK f \in active[a] : f.done /\ f.task = t
      BY <2>1 DEF Alternative!Done
    <3> QED BY <2>1, <3>1, SamePhase DEF PhaseInv, AskedOnce, Asked
  <2>2. CASE t \notin Alternative!Done(a)
    BY <2>2 DEF Alternative!Done, Asked
  <2> QED BY <2>1, <2>2
<1>7. alternativeStep'[a] = "loop" /\ active'[a] = q /\ results'[a] = r
        /\ Alternative!Sources(a)' = Alternative!Sources(a)
        /\ alternativePending' = alternativePending
  BY <1>1 DEF AlternativeInv, PhaseTypes, Alternative!Sources
<1> HIDE DEF r
<1>8. r \in [Alternative!Tasks -> Seq(AlternativeAnswers)]
  BY <1>4, <1>5
<1>9. PhaseInv(a)'
  <2>1. OneResult(a)'
    <3> SUFFICES ASSUME NEW t \in Alternative!Tasks
                 PROVE  /\ Asked(a, t)' => t[2] \in Alternative!Sources(a) /\ Len(r[t]) = 0
                        /\ ~Asked(a, t)'
                             => Len(r[t]) = IF t[2] \in Alternative!Sources(a) THEN 1 ELSE 0
      BY <1>7 DEF OneResult
    <3>1. Asked(a, t)' <=> (t \in alternativePending[a] \/ \E f \in q : f.task = t)
      BY <1>7 DEF Asked
    <3>2. /\ Asked(a, t) => t[2] \in Alternative!Sources(a) /\ Len(results[a][t]) = 0
          /\ ~Asked(a, t) => Len(results[a][t]) = IF t[2] \in Alternative!Sources(a) THEN 1
               ELSE 0
      BY <1>1, SamePhase DEF PhaseInv, OneResult
    <3>3. CASE t \in Alternative!Done(a)
      <4>1. t[2] \in Alternative!Sources(a) /\ Len(results[a][t]) = 0 /\ ~Asked(a, t)'
        BY <1>6, <3>1, <3>2, <3>3
      <4>2. Len(r[t]) = Len(results[a][t]) + 1
        BY <1>4, <3>3
      <4> QED BY <4>1, <4>2
    <3>4. CASE t \notin Alternative!Done(a)
      <4>1. Len(r[t]) = Len(results[a][t])
        BY <1>4, <3>4
      <4>2. Asked(a, t)' <=> Asked(a, t)
        BY <1>6, <3>1, <3>4
      <4> QED BY <3>2, <4>1, <4>2
    <3> QED BY <3>3, <3>4
  <2>2. OwnAnswers(a)'
    BY <1>4, <1>7 DEF OwnAnswers
  <2>3. AskedOnce(a)'
    BY <1>7, SamePhase DEF PhaseInv, AskedOnce
  <2> QED BY <1>1, <1>7, <2>1, <2>2, <2>3, SamePhase DEF PhaseInv, AlternativeNotBegun, Ended,
             NotYet
<1>10. "loop" \in PhaseSteps
  BY DEF PhaseSteps
<1> HIDE DEF q
<1> QED BY <1>1, <1>2, <1>3, <1>8, <1>9, <1>10, SamePhase, OnePhaseKeeps

LEMMA AlternativeFinishStep ==
  ASSUME AlternativeInv, NEW a \in Alternative!Phases, Alternative!Loop(a),
         Alternative!Finish(a)
  PROVE  AlternativeInv'
<1> USE DEF Alternative!window, Alternative!control
<1> DEFINE lost == alternativePending[a] \cup Alternative!Unfinished(a)
           r == [t \in Alternative!Tasks |-> IF t \in lost
                                             THEN Append(results[a][t], Alternative!NotChecked)
                                             ELSE Alternative!WithLive(a, Alternative!Done(a))[t]]
<1>1. /\ alternativeStep[a] = "loop"
      /\ alternativeStep' = [alternativeStep EXCEPT ![a] = "write"]
      /\ results' = [results EXCEPT ![a] = r]
      /\ memory' = [memory EXCEPT ![a] = Alternative!CacheResults(@, Alternative!Done(a))]
      /\ active' = [active EXCEPT ![a] = {}]
      /\ alternativePending' = [alternativePending EXCEPT ![a] = {}]
      /\ UNCHANGED <<store, alternativeFile, temporary, alternativeStarted, aptoide>>
  BY DEF Alternative!Loop, Alternative!Finish, Alternative!Move, Alternative!Answered
<1>2. Alternative!Done(a) \subseteq Alternative!Tasks
  BY SamePhase DEF Alternative!Done, Requests
<1>3. CachesFit'
  BY <1>1, <1>2, MemoryFits DEF AlternativeInv
<1>4. ASSUME NEW t \in Alternative!Tasks
      PROVE  Asked(a, t) <=> (t \in lost \/ t \in Alternative!Done(a))
  BY SamePhase DEF Asked, Alternative!Done, Alternative!Unfinished, Requests
<1>5. ASSUME NEW t \in Alternative!Tasks
      PROVE  /\ r[t] \in Seq(AlternativeAnswers) /\ \A i \in DOMAIN r[t] :
                  r[t][i].by \in {t[2], Alternative!Off}
             /\ Asked(a, t) => Len(r[t]) = Len(results[a][t]) + 1
             /\ ~Asked(a, t) => Len(r[t]) = Len(results[a][t])
  <2>1. results[a][t] \in Seq(AlternativeAnswers) /\ \A i \in DOMAIN results[a][t] :
      results[a][t][i].by \in {t[2], Alternative!Off}
    BY SamePhase DEF PhaseInv, OwnAnswers
  <2>2. /\ Alternative!Live(t[2]) \in AlternativeAnswers /\ Alternative!Live(t[2]).by = t[2]
        /\ Alternative!NotChecked \in AlternativeAnswers
        /\ Alternative!NotChecked.by = Alternative!Off
    BY DEF Alternative!Live, Alternative!NotChecked, AlternativeAnswers, Alternative!Tasks
  <2>3. CASE t \in lost
    <3>1. r[t] = Append(results[a][t], Alternative!NotChecked) /\ Asked(a, t)
      BY <1>4, <2>3
    <3> HIDE DEF r
    <3> QED BY <2>1, <2>2, <3>1, ResultGrows
  <2>4. CASE t \notin lost /\ t \in Alternative!Done(a)
    <3>1. r[t] = Append(results[a][t], Alternative!Live(t[2])) /\ Asked(a, t)
      BY <1>4, <2>4 DEF Alternative!WithLive
    <3> HIDE DEF r
    <3> QED BY <2>1, <2>2, <3>1, ResultGrows
  <2>5. CASE t \notin lost /\ t \notin Alternative!Done(a)
    <3>1. r[t] = results[a][t] /\ ~Asked(a, t)
      BY <1>4, <2>5 DEF Alternative!WithLive
    <3> HIDE DEF r
    <3> QED BY <2>1, <3>1
  <2> QED BY <2>3, <2>4, <2>5
<1>6. r = [t \in Alternative!Tasks |-> r[t]]
  OBVIOUS
<1>7. alternativeStep'[a] = "write" /\ active'[a] = {} /\ alternativePending'[a] = {}
        /\ results'[a] = r /\ Alternative!Sources(a)' = Alternative!Sources(a)
  BY <1>1 DEF AlternativeInv, PhaseTypes, Alternative!Sources
<1> HIDE DEF r
<1>8. r \in [Alternative!Tasks -> Seq(AlternativeAnswers)]
  BY <1>5, <1>6
<1>9. PhaseInv(a)'
  <2>1. OneResult(a)'
    <3> SUFFICES ASSUME NEW t \in Alternative!Tasks
                 PROVE  ~Asked(a, t)' /\ Len(r[t]) = IF t[2] \in Alternative!Sources(a) THEN 1
                          ELSE 0
      BY <1>7 DEF OneResult
    <3>1. ~Asked(a, t)'
      BY <1>7 DEF Asked
    <3>2. /\ Asked(a, t) => t[2] \in Alternative!Sources(a) /\ Len(results[a][t]) = 0
          /\ ~Asked(a, t) => Len(results[a][t]) = IF t[2] \in Alternative!Sources(a) THEN 1
               ELSE 0
      BY <1>1, SamePhase DEF PhaseInv, OneResult
    <3>3. CASE Asked(a, t)
      BY <1>5, <3>1, <3>2, <3>3
    <3>4. CASE ~Asked(a, t)
      BY <1>5, <3>1, <3>2, <3>4
    <3> QED BY <3>3, <3>4
  <2>2. OwnAnswers(a)'
    BY <1>5, <1>7 DEF OwnAnswers
  <2> QED BY <1>1, <1>7, <2>1, <2>2, SamePhase DEF PhaseInv, AlternativeNotBegun, AskedOnce,
             Ended, NotYet
<1>10. "write" \in PhaseSteps /\ {} \in SUBSET Alternative!Tasks /\ {} \in SUBSET Requests
  BY DEF PhaseSteps
<1> HIDE DEF lost
<1> QED BY <1>1, <1>3, <1>8, <1>9, <1>10, SamePhase, OnePhaseKeeps

LEMMA AlternativeStep ==
  ASSUME AlternativeConstantsFit, AlternativeInv, [Alternative!Next]_(Alternative!vars)
  PROVE  AlternativeInv'
  BY AlternativeWindowStep, LoadStep, AskStep, MoveStep, GatherStep, AlternativeFinishStep
  DEF Alternative!Next

LEMMA AlternativeInvMeans == ASSUME AlternativeInv PROVE Alternative!RowsSayWhatSourcesSaid
<1>1. ASSUME NEW a \in Alternative!Phases, alternativeStep[a] \in {"write", "replace", "over"},
             NEW t \in Alternative!Tasks
      PROVE  Len(results[a][t]) = IF t[2] \in Alternative!Sources(a) THEN 1 ELSE 0
  BY <1>1 DEF AlternativeInv, PhaseInv, OneResult, Ended, Asked
<1>2. Alternative!AnswersAreOfTheStore
  BY DEF AlternativeInv, PhaseInv, OwnAnswers, Alternative!AnswersAreOfTheStore
<1> QED BY <1>1, <1>2 DEF Alternative!RowsSayWhatSourcesSaid, Alternative!EveryProviderAnswers

LEMMA AlternativeMoves ==
  ASSUME [DeskNext]_deskVars, part = "alternative"
  PROVE  [Alternative!Next]_(Alternative!vars)
  BY DEF DeskNext, deskVars, alternativeVars, Alternative!vars, Alternative!window,
     Alternative!work, Alternative!control

LEMMA AlternativeStays == DeskSpec => [](part = "alternative" => AlternativeInv)
<1>1. DeskInit => (part = "alternative" => AlternativeInv)
  BY AlternativeStarts, DeskAssumption DEF DeskInit
<1>2. (part = "alternative" => AlternativeInv) /\ [DeskNext]_deskVars
        => (part = "alternative" => AlternativeInv)'
  BY PartStays, AlternativeMoves, AlternativeStep, DeskAssumption
<1> QED BY <1>1, <1>2, PTL DEF DeskSpec

(* For any apps, stores and threads, though a Stop, the budget or a pause *)
(* comes at any time: each source of each app has one result in the end,  *)
(* and results and cached entries are those of the store that was asked.  *)
THEOREM EverySourceHasItsSay ==
  /\ Alternative!Spec => []Alternative!RowsSayWhatSourcesSaid
  /\ DeskSpec => []RowsSayWhatSourcesSaid
<1>1. Alternative!Init => AlternativeInv
  BY AlternativeStarts, DeskAssumption
<1>2. AlternativeInv /\ [Alternative!Next]_(Alternative!vars) => AlternativeInv'
  BY AlternativeStep, DeskAssumption
<1>3. AlternativeInv => Alternative!RowsSayWhatSourcesSaid
  BY AlternativeInvMeans, DeskAssumption
<1>4. (part = "alternative" => AlternativeInv) => RowsSayWhatSourcesSaid
  BY <1>3 DEF RowsSayWhatSourcesSaid
<1>5. Alternative!Spec => []Alternative!RowsSayWhatSourcesSaid
  BY <1>1, <1>2, <1>3, PTL DEF Alternative!Spec
<1>6. DeskSpec => []RowsSayWhatSourcesSaid
  BY <1>4, AlternativeStays, PTL
<1> QED BY <1>5, <1>6

-----------------------------------------------------------------------------
(***************************************************************************)
(* The audit of the Store.  Its invariant is proved in StoreAuditProofs,   *)
(* whose instance defines the audit once more, with the same values: what  *)
(* the two instances define is the same, so that what holds of one does of *)
(* the other.                                                              *)
(***************************************************************************)
Audit == INSTANCE StoreAuditProofs WITH
  Workers <- StoreWorkers, paused <- storePaused, cancel <- storeCancel, app <- storeApp,
  market <- storeMarket, failed <- storeFailed

LEMMA SameSizes == \A S : Store!Cardinality(S) = Audit!Cardinality(S)
  BY DEF Store!Cardinality, Audit!Cardinality

LEMMA SameAnswers ==
  /\ Store!NoFetch = Audit!NoFetch
  /\ Store!NotFound = Audit!NotFound
  /\ Store!Failed = Audit!Failed
  /\ Store!Cancelled = Audit!Cancelled
  /\ Store!Fetches = Audit!Fetches
  /\ Store!Apps = Audit!Apps
  /\ Store!Markets = Audit!Markets
  /\ Store!Others = Audit!Others
  /\ \A u, v : Store!Available(u, v) = Audit!Available(u, v)
  /\ \A r : Store!IsAvailable(r) = Audit!IsAvailable(r) /\ Store!Complete(r) = Audit!Complete(r)
  /\ \A m : Store!Begun(m) = Audit!Begun(m)
  /\ \A f, r : Store!Answered(f, r) <=> Audit!Answered(f, r)
<1>1. /\ Store!NoFetch = Audit!NoFetch
      /\ Store!NotFound = Audit!NotFound
      /\ Store!Failed = Audit!Failed
      /\ Store!Cancelled = Audit!Cancelled
      /\ Store!Fetches = Audit!Fetches
      /\ Store!Apps = Audit!Apps
      /\ Store!Markets = Audit!Markets
      /\ Store!Others = Audit!Others
      /\ \A u, v : Store!Available(u, v) = Audit!Available(u, v)
      /\ \A r : /\ Store!IsAvailable(r) = Audit!IsAvailable(r)
               /\ Store!Complete(r) = Audit!Complete(r)
      /\ \A m : Store!Begun(m) = Audit!Begun(m)
  BY DEF Store!NoFetch, Audit!NoFetch, Store!NoAnswer, Audit!NoAnswer, Store!Answer,
     Audit!Answer, Store!NotFound, Audit!NotFound, Store!Failed, Audit!Failed, Store!Cancelled,
     Audit!Cancelled, Store!Fetches, Audit!Fetches, Store!Apps, Audit!Apps, Store!Markets,
     Audit!Markets, Store!Others, Audit!Others, Store!Available, Audit!Available,
     Store!IsAvailable, Audit!IsAvailable, Store!Complete, Audit!Complete, Store!Begun,
     Audit!Begun
<1>2. ASSUME NEW f, NEW r PROVE Store!Answered(f, r) <=> Audit!Answered(f, r)
  BY DEF Store!Answered, Audit!Answered, Store!NeedsEnglish, Audit!NeedsEnglish,
     Store!NoFetch, Audit!NoFetch, Store!NoAnswer, Audit!NoAnswer, Store!Combine,
     Audit!Combine, Store!IsAvailable, Audit!IsAvailable, Store!Complete, Audit!Complete,
     Store!Answer, Audit!Answer, Store!Available, Audit!Available
<1> QED BY <1>1, <1>2

LEMMA SameFetchStep ==
  ASSUME NEW f, Store!FetchStep(f)
  PROVE  Audit!FetchStep(f)
<1> USE DEF Store!At, Audit!At, Store!Goto, Audit!Goto, Store!control, Audit!control,
            Store!appVars, Audit!appVars, Store!mainVars, Audit!mainVars
<1>1. Store!Gate(f) => Audit!Gate(f)
  BY SameAnswers DEF Store!Gate, Audit!Gate, Store!MayRun, Audit!MayRun
<1>2. Store!Acquire(f) => Audit!Acquire(f)
  BY DEF Store!Acquire, Audit!Acquire
<1>3. Store!Recheck(f) => Audit!Recheck(f)
  BY SameAnswers DEF Store!Recheck, Audit!Recheck
<1>4. Store!ScraperAttempt(f) => Audit!ScraperAttempt(f)
  BY SameAnswers DEF Store!ScraperAttempt, Audit!ScraperAttempt, Store!Release,
     Audit!Release
<1>5. Store!ScraperNotFound(f) => Audit!ScraperNotFound(f)
  BY SameAnswers DEF Store!ScraperNotFound, Audit!ScraperNotFound, Store!Confirm,
     Audit!Confirm, Store!CountLate, Audit!CountLate
<1>6. Store!ScraperErrs(f) => Audit!ScraperErrs(f)
  BY SameAnswers DEF Store!ScraperErrs, Audit!ScraperErrs, Store!Release, Audit!Release,
     Store!Confirm, Audit!Confirm, Store!CountLate, Audit!CountLate
<1>7. Store!HtmlAttempt(f) => Audit!HtmlAttempt(f)
  BY SameAnswers DEF Store!HtmlAttempt, Audit!HtmlAttempt, Store!Release, Audit!Release
<1>8. Store!HtmlRetries(f) => Audit!HtmlRetries(f)
  BY DEF Store!HtmlRetries, Audit!HtmlRetries, Store!CountLate, Audit!CountLate
<1>9. Store!HtmlRaises(f) => Audit!HtmlRaises(f)
  BY SameAnswers DEF Store!HtmlRaises, Audit!HtmlRaises, Store!CountLate, Audit!CountLate
<1>10. ASSUME NEW u, NEW v, Store!ScraperFinds(f, u, v) PROVE Audit!ScraperFinds(f, u, v)
  BY <1>10, SameAnswers DEF Store!ScraperFinds, Audit!ScraperFinds, Store!Release,
     Audit!Release, Store!Confirm, Audit!Confirm, Store!CountLate, Audit!CountLate
<1>11. ASSUME NEW r, Store!HtmlAnswers(f, r) PROVE Audit!HtmlAnswers(f, r)
  BY <1>11, SameAnswers DEF Store!HtmlAnswers, Audit!HtmlAnswers, Store!Release,
     Audit!Release, Store!WithScraper, Audit!WithScraper, Store!CountLate, Audit!CountLate
<1> QED BY <1>1, <1>2, <1>3, <1>4, <1>5, <1>6, <1>7, <1>8, <1>9, <1>10, <1>11, SameAnswers
           DEF Store!FetchStep, Audit!FetchStep

LEMMA SameAppStep ==
  ASSUME NEW a, Store!AppStep(a)
  PROVE  Audit!AppStep(a)
<1> USE DEF Store!At, Audit!At, Store!AppAt, Audit!AppAt, Store!control, Audit!control,
            Store!mainVars, Audit!mainVars
<1>1. Store!AppStart(a) => Audit!AppStart(a)
  BY SameAnswers, SameSizes DEF Store!AppStart, Audit!AppStart, Store!RunningApps,
     Audit!RunningApps
<1>2. Store!AppBegin(a) => Audit!AppBegin(a)
  BY SameAnswers DEF Store!AppBegin, Audit!AppBegin, Store!MayRun, Audit!MayRun,
     Store!Finish, Audit!Finish, Store!BeginFetch, Audit!BeginFetch
<1>3. Store!AppPrimary(a) => Audit!AppPrimary(a)
  BY SameAnswers DEF Store!AppPrimary, Audit!AppPrimary, Store!Current, Audit!Current,
     Store!Primary, Audit!Primary, Store!Finish, Audit!Finish, Store!Turn, Audit!Turn
<1>4. Store!AppRaises(a) => Audit!AppRaises(a)
  BY SameAnswers DEF Store!AppRaises, Audit!AppRaises, Store!Current, Audit!Current,
     Store!Finish, Audit!Finish
<1>5. Store!CompleteNext(a) => Audit!CompleteNext(a)
  BY SameAnswers DEF Store!CompleteNext, Audit!CompleteNext, Store!MayRun, Audit!MayRun,
     Store!Finish, Audit!Finish, Store!BeginFetch, Audit!BeginFetch
<1>6. Store!CompleteAnswer(a) => Audit!CompleteAnswer(a)
  BY DEF Store!CompleteAnswer, Audit!CompleteAnswer, Store!Current, Audit!Current,
     Store!Finish, Audit!Finish, Store!Turn, Audit!Turn
<1>7. Store!BatchSubmit(a) => Audit!BatchSubmit(a)
  BY SameAnswers DEF Store!BatchSubmit, Audit!BatchSubmit, Store!MayRun, Audit!MayRun,
     Store!Finish, Audit!Finish, Store!Lesser, Audit!Lesser
<1>8. Store!AwaitAnswer(a) => Audit!AwaitAnswer(a)
  BY SameAnswers DEF Store!AwaitAnswer, Audit!AwaitAnswer, Store!Current, Audit!Current,
     Store!Finish, Audit!Finish, Store!Primary, Audit!Primary
<1>9. Store!BatchDone(a) => Audit!BatchDone(a)
  BY DEF Store!BatchDone, Audit!BatchDone, Store!Finish, Audit!Finish, Store!Turn,
     Audit!Turn
<1>10. Store!Judge(a) => Audit!Judge(a)
  BY SameAnswers DEF Store!Judge, Audit!Judge, Store!Finish, Audit!Finish, Store!Verdict,
     Audit!Verdict, Store!Primary, Audit!Primary
<1> QED BY <1>1, <1>2, <1>3, <1>4, <1>5, <1>6, <1>7, <1>8, <1>9, <1>10 DEF Store!AppStep,
           Audit!AppStep

LEMMA SameMainStep ==
  ASSUME Store!MainStep
  PROVE  Audit!MainStep
<1> USE DEF Store!AppAt, Audit!AppAt, Store!control, Audit!control, Store!appVars,
            Audit!appVars, Store!mainVars, Audit!mainVars
<1>1. Store!Fill => Audit!Fill
  BY SameAnswers, SameSizes DEF Store!Fill, Audit!Fill, Store!MayFill, Audit!MayFill,
     Store!Least, Audit!Least, Store!Unstarted, Audit!Unstarted, Store!Pending, Audit!Pending
<1>2. Store!FillDone => Audit!FillDone
  BY SameAnswers, SameSizes DEF Store!FillDone, Audit!FillDone, Store!MayFill,
     Audit!MayFill, Store!Unstarted, Audit!Unstarted, Store!Pending, Audit!Pending
<1>3. Store!WaitReturns => Audit!WaitReturns
  BY SameAnswers DEF Store!WaitReturns, Audit!WaitReturns, Store!Completed, Audit!Completed,
     Store!Pending, Audit!Pending
<1>4. Store!Report => Audit!Report
  BY DEF Store!Report, Audit!Report, Store!Least, Audit!Least, Store!RowOf, Audit!RowOf
<1>5. Store!ReportDone => Audit!ReportDone
  BY SameAnswers DEF Store!ReportDone, Audit!ReportDone
<1>6. Store!End => Audit!End
  BY SameAnswers DEF Store!End, Audit!End, Store!Pending, Audit!Pending
<1> QED BY <1>1, <1>2, <1>3, <1>4, <1>5, <1>6 DEF Store!MainStep, Audit!MainStep

LEMMA SameStep == ASSUME [Store!Next]_(Store!vars) PROVE [Audit!Next]_(Audit!vars)
<1>1. UNCHANGED Store!vars => UNCHANGED Audit!vars
  BY DEF Store!vars, Audit!vars, Store!control, Audit!control, Store!appVars, Audit!appVars,
     Store!mainVars, Audit!mainVars
<1>2. ASSUME NEW f, Store!FallbackStart(f) PROVE Audit!FallbackStart(f)
  BY <1>2, SameAnswers, SameSizes DEF Store!FallbackStart, Audit!FallbackStart, Store!At,
     Audit!At, Store!FallbackHasWorker, Audit!FallbackHasWorker, Store!Goto, Audit!Goto,
     Store!control, Audit!control, Store!appVars, Audit!appVars, Store!mainVars,
     Audit!mainVars, Store!RunningFallbacks, Audit!RunningFallbacks
<1>3. /\ Store!Pause => Audit!Pause
      /\ Store!Resume => Audit!Resume
      /\ Store!Stop => Audit!Stop
  BY DEF Store!Pause, Audit!Pause, Store!Resume, Audit!Resume, Store!Stop, Audit!Stop,
     Store!appVars, Audit!appVars, Store!mainVars, Audit!mainVars
<1>4. Store!Ended => Audit!Ended
  BY <1>1 DEF Store!Ended, Audit!Ended
<1>5. Store!Next => Audit!Next
  <2>1. (\E f \in Store!Fetches : Store!FetchStep(f) \/ Store!FallbackStart(f))
          => \E f \in Audit!Fetches : Audit!FetchStep(f) \/ Audit!FallbackStart(f)
    BY <1>2, SameFetchStep, SameAnswers
  <2>2. (\E a \in Store!Apps : Store!AppStep(a)) => \E a \in Audit!Apps : Audit!AppStep(a)
    BY SameAppStep, SameAnswers
  <2> QED BY <1>3, <1>4, <2>1, <2>2, SameMainStep DEF Store!Next, Audit!Next
<1> QED BY <1>1, <1>5

LEMMA SameStart == Store!Init => Audit!Init
  BY SameAnswers DEF Store!Init, Audit!Init

LEMMA SameInv == Audit!AuditInv => Store!AuditInv
<1>1. Audit!TypeOK => Store!TypeOK
  BY SameAnswers DEF Store!TypeOK, Audit!TypeOK, Store!FetchSteps, Audit!FetchSteps,
     Store!Answers, Audit!Answers, Store!Outcomes, Audit!Outcomes
<1>2. Audit!SlotsConserved => Store!SlotsConserved
  BY SameAnswers, SameSizes DEF Store!SlotsConserved, Audit!SlotsConserved, Store!Holding,
     Audit!Holding, Store!Requests, Audit!Requests
<1>3. Audit!VerdictSound => Store!VerdictSound
  BY SameAnswers DEF Store!VerdictSound, Audit!VerdictSound, Store!Grounded, Audit!Grounded,
     Store!Told, Audit!Told
<1>4. Audit!PrimaryKept => Store!PrimaryKept
  BY SameAnswers DEF Store!PrimaryKept, Audit!PrimaryKept, Store!Primary, Audit!Primary
<1>5. Audit!RowsAccounted => Store!RowsAccounted
  BY SameAnswers DEF Store!RowsAccounted, Audit!RowsAccounted
<1> QED BY <1>1, <1>2, <1>3, <1>4, <1>5 DEF Store!AuditInv, Audit!AuditInv

LEMMA StoreMoves == [DeskNext]_deskVars => [Audit!Next]_(Audit!vars)
<1>1. [DeskNext]_deskVars => [Store!Next]_(Store!vars)
  BY DEF DeskNext, deskVars, requestsVars, Store!vars, Store!control, Store!appVars,
     Store!mainVars
<1> QED BY <1>1, SameStep

\* A behaviour of the desk is one of the audit that StoreAuditProofs reasons about.
LEMMA DeskAudits == DeskSpec => Audit!Spec
<1>1. DeskInit => Audit!Init
  BY SameStart DEF DeskInit
<1> QED BY <1>1, StoreMoves, PTL DEF DeskSpec, Audit!Spec

(* For any numbers of apps, markets, workers and retries, however Stop,    *)
(* Pause and failures fall: apps that compete for the request slots give   *)
(* them back, their verdicts rest on the answers they claim, and each has  *)
(* its row (play_store.py, audit_engine.py).                               *)
THEOREM AuditsStaySound == DeskSpec => []AuditInv
<1>1. Audit!Spec => []Audit!AuditInv
  BY Audit!AuditIsSound, DeskAssumption DEF StoreConstantsFit, Audit!Markets
<1>2. Audit!AuditInv => AuditInv
  BY SameInv DEF AuditInv
<1> QED BY <1>1, <1>2, DeskAudits, PTL

(* After Stop only the requests in flight answer, at most one per slot,    *)
(* whatever apps, markets, languages and retries are still to be asked     *)
(* (play_store.py:215-222, 507-518, audit_engine.py:303-316).              *)
THEOREM StopsStayHonoured == DeskSpec => []StopBoundsRequests
<1>1. Audit!Spec => []Audit!StopBoundsRequests
  BY Audit!StopIsHonoured, DeskAssumption DEF StoreConstantsFit, Audit!Markets
<1>2. Audit!StopBoundsRequests => StopBoundsRequests
  BY DEF StopBoundsRequests, Store!StopBoundsRequests, Audit!StopBoundsRequests
<1> QED BY <1>1, <1>2, DeskAudits, PTL

(* While the audit is paused no market is asked anew, not even by a thread *)
(* that was waiting for a slot (play_store.py:507-518).                    *)
THEOREM PausesStayHonoured == DeskSpec => PauseAdmitsNoFetch
<1>1. Audit!Spec => Audit!PauseAdmitsNoFetch
  BY Audit!PauseIsHonoured, DeskAssumption DEF StoreConstantsFit, Audit!Markets
<1>2. [Audit!PauseKeepsOut]_(Audit!vars)
        => [part = "store" => Store!PauseKeepsOut]_<<requestsVars, part>>
  BY SameAnswers DEF Store!PauseKeepsOut, Audit!PauseKeepsOut, Store!Fetching, Audit!Fetching,
     Audit!vars, Audit!control
<1> QED BY <1>1, <1>2, DeskAudits, PTL DEF PauseAdmitsNoFetch, Audit!PauseAdmitsNoFetch

(* The audit does what AuditPromise says, also where apps compete: at most *)
(* one verdict per app, justified by answers that have arrived, and none   *)
(* left out unless Stop came (play_store.py:571-767, 841-914).             *)
THEOREM PromisesStayKept == DeskSpec => ImplementsPromise
<1>1. Audit!Spec => Audit!ImplementsPromise
  BY Audit!PromiseIsKept, DeskAssumption DEF StoreConstantsFit, Audit!Markets
<1>2. Audit!Promise!Init => Store!PromiseStarts
  BY SameAnswers DEF Store!PromiseStarts, Store!Promise!Init, Audit!Promise!Init
<1>3. UNCHANGED Audit!Promise!vars => UNCHANGED Store!Promise!vars
  BY SameAnswers DEF Store!Promise!vars, Audit!Promise!vars
<1>4. ASSUME NEW f, NEW s, Audit!Promise!Learn(f, s) PROVE Store!Promise!Learn(f, s)
  BY <1>4, SameAnswers DEF Store!Promise!Learn, Audit!Promise!Learn
<1>5. ASSUME NEW a, NEW v, Audit!Promise!Conclude(a, v) PROVE Store!Promise!Conclude(a, v)
  BY <1>5, SameAnswers
  DEF Store!Promise!Conclude, Audit!Promise!Conclude, Store!Promise!Justified,
      Audit!Promise!Justified, Store!Promise!Seen, Audit!Promise!Seen, Store!Promise!Absent,
      Audit!Promise!Absent, Store!Promise!AllAsked, Audit!Promise!AllAsked
<1>6. /\ Audit!Promise!Stop => Store!Promise!Stop
      /\ Audit!Promise!End => Store!Promise!End
  BY SameAnswers DEF Store!Promise!Stop, Audit!Promise!Stop, Store!Promise!End,
     Audit!Promise!End
<1>7. Audit!Promise!Next => Store!Promise!Next
  BY <1>4, <1>5, <1>6, SameAnswers DEF Store!Promise!Next, Audit!Promise!Next
<1>8. [Audit!Promise!Next]_(Audit!Promise!vars)
        => [part = "store" => Store!PromiseStep]_<<requestsVars, part>>
  BY <1>3, <1>7 DEF Store!PromiseStep
<1> QED BY <1>1, <1>2, <1>8, DeskAudits, PTL
        DEF ImplementsPromise, Audit!ImplementsPromise, Audit!Promise!Spec
=============================================================================
