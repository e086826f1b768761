--------------------------- MODULE ReleaseAssembly ---------------------------
(***************************************************************************)
(* From release candidates to a release, and what becomes of the old ones  *)
(* (.github/scripts): assemble_release_assets takes one candidate for each *)
(* target from the downloaded artifacts, all built from one commit, merges *)
(* their sources into one bundle and writes the checksums;                 *)
(* assemble_windows_engineering_release does so for one target;            *)
(* cleanup_actions_retention deletes superseded artifacts and runs.        *)
(*                                                                         *)
(* Commits and digests are numbers; a file is known by its digest.         *)
(***************************************************************************)
EXTENDS Naturals, FiniteSets

CONSTANTS
  Targets,     \* platforms and architectures of a release
  Engineering, \* the one target of a Windows engineering release
  SourceNames, \* file names of third-party sources
  Commits,     \* 1 is the expected one
  WorkflowRuns,\* numbers of workflow runs, in the order they were last updated
  Grace        \* age in days, of 0..2 Grace, at which superseded things go

VARIABLES
  found,      \* downloaded: for each target the set of its candidates
  output,     \* files in the output directory: <<name, digest>>
  merged,     \* source name -> digest
  goal,       \* the targets of this release
  phase,      \* of the assembly
  artifacts,  \* of workflow runs: set of [id, run, profile]
  history,    \* of each workflow run: its conclusion and age
  newest      \* history: of each profile its latest successful run before the cleanup
vars == <<found, output, merged, goal, phase, artifacts, history, newest>>
assembly == <<found, output, merged, goal, phase>>
retention == <<artifacts, history, newest>>

Binary(t)  == <<"binary", t>>
BundleName == <<"bundle", "sources">>
SumsName   == <<"sums", "SHA256SUMS.txt">>
BundleDigest(sources) == {<<s, sources[s]>> : s \in DOMAIN sources}

-----------------------------------------------------------------------------
(* Candidates: the commit of the archive's BUILD-INFO, whether staging is  *)
(* beside it, what its manifest says it is, the staged sources and what    *)
(* the manifest declares of them.                                          *)
Candidates ==
  [commit : Commits, staging : BOOLEAN, target : Targets,
   declared : {[s \in names |-> d] : names \in (SUBSET SourceNames) \ {{}}, d \in {1, 2}},
   staged : {1, 2}]

\* _validate_source_asset: a staged source is the declared one.
SourcesHold(c) == \A s \in DOMAIN c.declared : c.declared[s] = c.staged

\* _validate_rc_legal: the manifest of this target, its sources, and their bundle.
LegalHolds(c, target) == c.staging /\ c.target = target /\ SourcesHold(c)

\* A plausible mistake: the commit is not compared.
UsableOfAnyCommit(c, target) == LegalHolds(c, target)

\* _validate_binary_build_sha, then the legal staging
Usable(c, target) == c.commit = 1 /\ LegalHolds(c, target)

OnlyUsable(t) == Cardinality(found[t]) = 1 /\ \A c \in found[t] : Usable(c, t)

\* One candidate for each target; an engineering release refuses those of other targets.
DiscoveredRelease == \A t \in Targets : OnlyUsable(t)
DiscoveredWindows == OnlyUsable(Engineering) /\ \A t \in Targets \ {Engineering} : found[t] = {}
Discovered == IF goal = {Engineering} THEN DiscoveredWindows ELSE DiscoveredRelease

The(t) == CHOOSE c \in found[t] : TRUE

-----------------------------------------------------------------------------
\* The artifacts of the workflow runs are downloaded: of one target they may be any, the
\* others are good.
Download ==
  /\ phase = "new"
  /\ \E odd \in Targets : \E some \in {{}} \cup {{c} : c \in Candidates} \cup {{c, d} : c, d \in {e \in Candidates : e.staging /\ e.commit = 1 /\ e.target = odd}} :
       \E d \in {1, 2} : \E names \in (SUBSET SourceNames) \ {{}}, alone \in BOOLEAN :
         found' = [t \in Targets |->
           IF t = odd THEN some
           ELSE IF alone THEN {} ELSE {[commit |-> 1, staging |-> TRUE, target |-> t, declared |-> [s \in names |-> d], staged |-> d]}]
  /\ goal' \in {Targets, {Engineering}}
  /\ phase' = "downloaded"
  /\ UNCHANGED <<output, merged, retention>>

\* _prepare_output_dir wants an empty directory; the assembly stops at what is wrong.
Start ==
  /\ phase = "downloaded"
  /\ phase' = IF Discovered /\ output = {} THEN "copy" ELSE "failed"
  /\ UNCHANGED <<found, output, merged, goal, retention>>

\* Each copied archive is compared with the original; a copy that differs stays behind.
CopyBinary(t) ==
  /\ phase = "copy" /\ t \in goal /\ \A file \in output : file[1] # Binary(t)
  /\ \E digest \in {The(t).commit, 9} :
       /\ output' = output \cup {<<Binary(t), {<<"commit", digest>>}>>}
       /\ phase' = IF digest = The(t).commit THEN phase ELSE "failed"
  /\ UNCHANGED <<found, merged, goal, retention>>

Copied(t) == \E file \in output : file[1] = Binary(t)

\* A plausible mistake: the first source of a name wins.
FirstMerged(names) ==
  [s \in names |-> LET t == CHOOSE t \in goal : s \in DOMAIN The(t).declared IN The(t).declared[s]]
Disagree(names) == \E s \in names : Cardinality({The(t).declared[s] : t \in {t \in goal : s \in DOMAIN The(t).declared}}) > 1

Conflicting(names) == Disagree(names)

\* _merge_source_assets, then the bundle is built and validated.
Merge ==
  /\ phase = "copy" /\ \A t \in goal : Copied(t)
  /\ LET names == UNION {DOMAIN The(t).declared : t \in goal}
     IN  IF Conflicting(names) THEN phase' = "failed" /\ UNCHANGED <<merged, output>>
         ELSE /\ merged' = FirstMerged(names)
              /\ output' = output \cup {<<BundleName, BundleDigest(merged')>>}
              /\ phase' = "sums"
  /\ UNCHANGED <<found, goal, retention>>

AllowedNames == {Binary(t) : t \in goal} \cup {BundleName}
Names(files) == {file[1] : file \in files}

\* generate_release_sha256s wants exactly the complete set.
WriteSums ==
  /\ phase = "sums"
  /\ IF Names(output) = AllowedNames
     THEN output' = output \cup {<<SumsName, output>>} /\ phase' = "check"
     ELSE phase' = "failed" /\ UNCHANGED output
  /\ UNCHANGED <<found, merged, goal, retention>>

\* validate_release_sha256s
SumsHold == <<SumsName, {file \in output : file[1] # SumsName}>> \in output

FinishWith(binaries) ==
  /\ phase = "check"
  /\ phase' = IF SumsHold /\ Names(output) = {Binary(t) : t \in binaries} \cup {BundleName, SumsName}
              THEN "released" ELSE "failed"
  /\ UNCHANGED <<found, output, merged, goal, retention>>

FinishRelease     == goal = Targets /\ FinishWith(Targets)
FinishEngineering == goal = {Engineering} /\ FinishWith({Engineering})

\* The job is killed, or another file appears in the directory meanwhile.
Break ==
  /\ phase \in {"copy", "sums", "check"}
  /\ \/ phase' = "failed" /\ UNCHANGED output
     \/ output' = output \cup {<<<<"other", "file">>, {}>>} /\ UNCHANGED phase
  /\ UNCHANGED <<found, merged, goal, retention>>

\* Started again over the same directories.
Again ==
  /\ phase = "failed"
  /\ phase' = "downloaded"
  /\ UNCHANGED <<found, output, merged, goal, retention>>

-----------------------------------------------------------------------------
(* cleanup_actions_retention *)

Successful(r) == history[r].conclusion = "success"
Profiles      == {a.profile : a \in artifacts}

\* Runs of a profile that succeeded and still have artifacts of it.
Generations(p) == {a.run : a \in {b \in artifacts : b.profile = p /\ Successful(b.run)}}
Rank(p, r)     == Cardinality({q \in Generations(p) : q > r})       \* 0 is the latest
Age(r)         == history[r].age

\* select_successful_artifact_deletions: of each profile the latest generation stays, the
\* one before it until the latest has been there for the grace time.
Superseded ==
  {a \in artifacts : /\ Successful(a.run)
                     /\ \/ Rank(a.profile, a.run) >= 2
                        \/ /\ Rank(a.profile, a.run) = 1
                           /\ \E r \in Generations(a.profile) : Rank(a.profile, r) = 0 /\ Age(r) >= Grace}

\* select_expired_bad_runs
ExpiredBad == {r \in WorkflowRuns : history[r].conclusion = "failure" /\ Age(r) >= Grace}

\* A successful run goes when all its artifacts do, else they go one by one.
ArtifactsOf(r) == {a \in artifacts : a.run = r}
WholeRuns == {r \in WorkflowRuns : Successful(r) /\ ArtifactsOf(r) # {} /\ ArtifactsOf(r) \subseteq Superseded}

\* Workflow runs have come to an end with some artifacts.
RunWorkflows ==
  /\ phase = "new" /\ artifacts = {}
  /\ \E h \in [WorkflowRuns -> [conclusion : {"success", "failure"}, age : 0..2 * Grace]] :
       /\ \A r, s \in WorkflowRuns : r < s => h[r].age >= h[s].age
       /\ history' = h
  /\ \E kept \in SUBSET (WorkflowRuns \X {"windows", "linux"}) :
       artifacts' = {[run |-> k[1], profile |-> k[2]] : k \in kept}
  /\ phase' = "runs"
  /\ newest' = {a \in artifacts' : /\ history'[a.run].conclusion = "success"
                                   /\ \A b \in artifacts' : (b.profile = a.profile /\ b.run > a.run)
                                                            => history'[b.run].conclusion # "success"}
  /\ UNCHANGED <<found, output, merged, goal>>

\* The lists are fetched once; then runs and artifacts are deleted one after another, and
\* the job may end at each of them and be scheduled again.
DeleteRun(r) ==
  /\ phase = "runs" /\ r \in ExpiredBad \cup WholeRuns
  /\ ArtifactsOf(r) # {}
  /\ artifacts' = artifacts \ ArtifactsOf(r)
  /\ UNCHANGED <<assembly, history, newest>>

DeleteArtifact(a) ==
  /\ phase = "runs" /\ a \in Superseded /\ a.run \notin WholeRuns
  /\ artifacts' = artifacts \ {a}
  /\ UNCHANGED <<assembly, history, newest>>

-----------------------------------------------------------------------------
Init ==
  /\ found = [t \in Targets |-> {}] /\ output = {} /\ merged = [s \in {} |-> 1]
  /\ goal = {} /\ phase = "new"
  /\ artifacts = {} /\ history = [r \in WorkflowRuns |-> [conclusion |-> "failure", age |-> 0]]
  /\ newest = {}

Next ==
  \/ Download \/ Start \/ Merge \/ WriteSums \/ FinishRelease \/ FinishEngineering
  \/ Break \/ Again
  \/ \E t \in Targets : CopyBinary(t)
  \/ RunWorkflows \/ \E r \in WorkflowRuns : DeleteRun(r) \/ \E a \in artifacts : DeleteArtifact(a)

Spec == Init /\ [][Next]_vars

-----------------------------------------------------------------------------
(* Properties. *)

(***************************************************************************)
(* What is released was built from the expected commit for every target,   *)
(* its bundle serves every candidate with each source at the digest the    *)
(* candidate declares, and the checksums are those of exactly these files, *)
(* also after attempts that broke off.                                     *)
(***************************************************************************)
ReleaseIsConsistent ==
  phase = "released" =>
    /\ \A t \in goal :
         /\ <<Binary(t), {<<"commit", 1>>}>> \in output
         /\ \A s \in DOMAIN The(t).declared : merged[s] = The(t).declared[s]
    /\ <<BundleName, BundleDigest(merged)>> \in output
    /\ <<SumsName, {file \in output : file[1] # SumsName}>> \in output
    /\ Names(output) = AllowedNames \cup {SumsName}

(***************************************************************************)
(* However often the cleanup runs or breaks off: of every kind of artifact *)
(* the one of the latest successful run is still there.                    *)
(***************************************************************************)
LatestArtifactsStay == newest \subseteq artifacts

\* A release is consistent, and what one is made from next is still there.
ReleasesHold == ReleaseIsConsistent /\ LatestArtifactsStay
=============================================================================
