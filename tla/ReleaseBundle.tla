---------------------------- MODULE ReleaseBundle ----------------------------
(***************************************************************************)
(* The legal material of one release candidate                             *)
(* (.github/scripts): prepare_release_legal_bundle collects it from the    *)
(* built package, the build report and the sources it downloads, and       *)
(* copies it into the package; the package is signed and its inventory     *)
(* recorded again; validate_release_legal_bundle then accepts or refuses   *)
(* package and staging.  A preparation can fail at any download and be run *)
(* again over what it left behind.                                         *)
(*                                                                         *)
(* Files, licence texts and packages are names; the content of a file is a *)
(* number, and a digest is the content itself.                             *)
(***************************************************************************)
EXTENDS Naturals, FiniteSets, Sequences, SequencesExt

CONSTANTS
  MaxAttempts,   \* reads of one download, 4 in the program
  MaxRuns,       \* bound: preparations
  Upstreams      \* the licence trees the Qt for Python archive may have

Dists      == {"pyside", "shiboken", "certifi", "extra", "stranger"}
Direct     == {"pyside", "certifi"}
Components == {"qtbase", "qtsvg", "pyside-setup"}
Sources    == Components \cup {"certifi"}
Always     == {"qtcore", "pyside", "shiboken", "certifi"}
Optional   == {"qtsvg", "ssl", "extra", "adb"}
Files      == Always \cup Optional \cup {"qpdf", "marker"}
Absent     == 0
None       == [kind |-> "none"]

VARIABLES
  package,    \* content of each runtime file, 0 if absent
  injected,   \* legal files in the package: pairs of name and content
  staged,     \* the same in release_dir/package-legal
  manifest,   \* LEGAL-MANIFEST.json
  report,     \* Nuitka compilation report: modules with their declared owner, distributions
  evidence,   \* what the staging keeps of it for the validation
  upstream,   \* of the Qt for Python sources: licence members and references to them
  assets,     \* source-assets: "none", "official", "other" or "partial"
  bundle,     \* sources in the consolidated archive
  pc,         \* of the release workflow
  todo,       \* sources still to download
  attempt,    \* of the current download
  runs,       \* preparations begun
  meddled     \* history: somebody changed what was prepared
vars == <<package, injected, staged, manifest, report, evidence, upstream, assets, bundle, pc, todo,
          attempt, runs, meddled>>

Reports ==
  {[modules |-> ms, dists |-> ds] :
     ms \in SUBSET {[name |-> "extra", owner |-> "none"], [name |-> "certifi", owner |-> "certifi"],
                    [name |-> "stranger", owner |-> "certifi"]},
     ds \in {{"certifi"}, {"pyside", "shiboken", "certifi", "extra"}, {"stranger"}}}

Packaged == {f \in Files : package[f] # Absent}

-----------------------------------------------------------------------------
(* What the package holds. *)

Detected ==      \* _detect_qt_components
  {c \in Components : \/ c = "qtbase" /\ Packaged \cap {"qtcore", "pyside"} # {}
                      \/ c = "qtsvg" /\ "qtsvg" \in Packaged
                      \/ c = "pyside-setup" /\ Packaged \cap {"pyside", "shiboken"} # {}}

Forbidden == Packaged \cap {"qpdf"}     \* _forbidden_matches
BundledAdb == Packaged \cap {"adb"}
IsOpensslRuntimeName(f) == f = "ssl"
OpenSsl == {f \in Packaged : IsOpensslRuntimeName(f)}

\* validate_windows_standalone and its like: what every package needs, and nothing forbidden
Standalone == Always \subseteq Packaged /\ Forbidden = {}

\* _declared_dependency_candidates; "stranger" is installed but nothing declares it
Requires(d) == CASE d = "pyside" -> {"shiboken"} [] d = "certifi" -> {"extra"} [] OTHER -> {}
Candidates ==
  {d \in Dists : \A S \in SUBSET Dists :
                   (Direct \subseteq S /\ \A e \in S : Requires(e) \subseteq S) => d \in S}

\* _load_nuitka_compilation_report
ReportLoads(r) == r.modules # {} /\ r.dists # {}

\* _runtime_dependency_closure: a module with a declared owner counts for it, another one
\* for the candidate whose top-level name it has; a file for the candidate it is named after.
ModuleMatches(module, d) == module.name = d
OwnerOf(module) == IF module.owner # "none" THEN module.owner
                   ELSE CHOOSE d \in Dists : ModuleMatches(module, d)
FilesOf(d) == {<<"file", f>> : f \in Packaged \cap {d}}
ModulesOf(d) == {<<"module", m.name, m.owner>> : m \in {m \in report.modules : OwnerOf(m) = d}}
EvidenceOf(d) == FilesOf(d) \cup ModulesOf(d)

ClosureFails ==
  \/ report.dists \ Candidates # {}
  \/ \E m \in report.modules : m.owner # "none" /\ \/ m.owner \notin Candidates
                                                   \/ m.owner \notin report.dists
                                                   \/ ~ModuleMatches(m, m.owner)
  \/ \E d \in report.dists \cup Direct : EvidenceOf(d) = {}

Dependencies == {d \in Candidates : EvidenceOf(d) # {}}

-----------------------------------------------------------------------------
(* Licence texts of the Qt for Python sources.  A path is a sequence of    *)
(* names; a member's payload is its last name.                             *)

Outside == <<"..">>
NormalizedPath(path) ==
  FoldLeft(LAMBDA done, part : IF done = Outside THEN Outside
                               ELSE IF part # ".." THEN Append(done, part)
                               ELSE IF done = <<>> THEN Outside ELSE Front(done), <<>>, path)

\* _resolve_qt_license_reference: beside the attribution, from the root, or the only
\* member of that name; the empty path if there is none.
Resolved(at, reference, members) ==
  LET beside   == NormalizedPath(Front(at) \o reference)
      fromRoot == NormalizedPath(reference)
      named    == {m \in members : Last(m) = Last(reference)}
  IN  IF beside \in members THEN beside
      ELSE IF fromRoot \in members THEN fromRoot
      ELSE IF Cardinality(named) = 1 THEN CHOOSE m \in named : TRUE ELSE <<>>

\* A legal file is its name - a kind and a name - and its content, a set.
Single(kind, name) == <<<<kind, name>>, {<<name>>}>>
Root(name) == <<"root", name>>

Licences(u)  == {m \in u.members : \E i \in 1..Len(m) : m[i] = "LICENSES"}
Referred(u)  == {Resolved(u.at, r, u.members) : r \in u.references}
ExtractFails(u) == <<>> \in Referred(u)

\* store_canonical_legal_payload: equal texts are stored once, named by their digest;
\* the community licences keep their names.
LegalName(member) == <<IF member = <<"LICENSES", "LGPL">> THEN "community" ELSE "payload", Last(member)>>
LegalFile(member) == Single(LegalName(member)[1], Last(member))

\* _extract_qt_legal_material
Extracted(u) == {LegalFile(m) : m \in Licences(u) \cup (Referred(u) \ {<<>>})}

-----------------------------------------------------------------------------
(* prepare_release_legal_bundle *)

Fails == pc' = "failed"

\* What the metadata documents of a source yield, after their own retries.
Answers == {"digest", "nothing"}
HasDigest(answer) == answer = "digest"

\* _qt_official_sha256 and _certifi_source_spec: every source has to have one.
Provenance(sources, answer) == \A s \in sources : HasDigest(answer[s])

CachedSources(needed) == [s \in Sources |-> IF s \in needed THEN assets[s] ELSE "none"]

\* Before anything is built: the sources of every component have official digests, and the
\* environment has the licences of the compilers.
Preflight ==
  /\ pc = "new"
  /\ \E answer \in [Sources -> Answers], missing \in SUBSET {"cpython", "nuitka"} :
       pc' = IF Provenance(Sources, answer) /\ missing = {} THEN "checked" ELSE "refused"
  /\ UNCHANGED <<package, injected, staged, manifest, report, evidence, upstream, assets, bundle,
                 todo, attempt, runs, meddled>>

PrepareRefuses ==
  \/ ~ReportLoads(report) \/ Forbidden # {} \/ BundledAdb # {}
  \/ ~{"qtbase", "pyside-setup"} \subseteq Detected

\* main, to the removal of the previous staging.
StartPrepare ==
  /\ pc \in {"built", "failed"} /\ runs < MaxRuns
  /\ runs' = runs + 1
  /\ IF PrepareRefuses THEN Fails /\ UNCHANGED <<staged, manifest>>
     ELSE /\ pc' = "resolve"
          /\ staged' = {Single("root", "LICENSE")}
          /\ manifest' = None
  /\ UNCHANGED <<package, injected, report, evidence, upstream, assets, bundle, todo, attempt, meddled>>

\* The sources and their official digests; then files of other names are removed.
ResolveSources ==
  /\ pc = "resolve"
  /\ LET needed == Detected \cup {"certifi"}
     IN  \E answer \in [Sources -> Answers] :
           IF Provenance(needed, answer)
           THEN pc' = "fetch" /\ todo' = needed /\ assets' = CachedSources(needed)
           ELSE Fails /\ UNCHANGED <<todo, assets>>
  /\ attempt' = 1
  /\ UNCHANGED <<package, injected, staged, manifest, report, evidence, upstream, bundle, runs, meddled>>

\* _download_file: what is there and has the official digest is kept.
Reuse(s) ==
  /\ pc = "fetch" /\ s \in todo /\ attempt = 1
  /\ assets[s] = "official"
  /\ todo' = todo \ {s}
  /\ UNCHANGED <<package, injected, staged, manifest, report, evidence, upstream, assets, bundle, pc,
                 attempt, runs, meddled>>

\* The body was read into a temporary file: it takes its name when its digest is the
\* official one; a broken read is repeated, wrong bytes are not.
Received(s, outcome) ==
  CASE outcome = "official" -> /\ assets' = [assets EXCEPT ![s] = "official"]
                               /\ todo' = todo \ {s} /\ attempt' = 1
                               /\ UNCHANGED pc
    [] outcome = "broken" /\ attempt < MaxAttempts ->
                               attempt' = attempt + 1 /\ UNCHANGED <<assets, todo, pc>>
    [] OTHER                -> Fails /\ UNCHANGED <<assets, todo, attempt>>

Download(s) ==
  /\ pc = "fetch" /\ s \in todo
  /\ assets[s] # "official"
  /\ \E outcome \in {"official", "other", "broken"} : Received(s, outcome)
  /\ UNCHANGED <<package, injected, staged, manifest, report, evidence, upstream, bundle, runs, meddled>>

\* _open_url_with_retry gives up, or the job is killed.
Interrupted ==
  /\ pc \in {"resolve", "fetch"}
  /\ Fails
  /\ UNCHANGED <<package, injected, staged, manifest, report, evidence, upstream, assets, bundle, todo,
                 attempt, runs, meddled>>

\* _runtime_inventory: legal files left out
Inventory == [f \in Packaged |-> package[f]]

\* What has a licence of its own: the dependencies, copied from their metadata - the Qt ones
\* rest on the community licences - the toolchain, adopted code, and OpenSSL if it is there.
LicencesOf(names) == {Single("licence", d) : d \in names}
QtPython          == {"pyside", "shiboken"}
OwnLicences       == Dependencies \ QtPython
CPythonLicence    == {"cpython"}
NuitkaLicences    == {"nuitka"}
GoopdlLicence     == {"goopdl"}
OpenSslLicence    == OpenSsl
Licensed == OwnLicences \cup CPythonLicence \cup NuitkaLicences \cup GoopdlLicence \cup OpenSslLicence

Attributions       == <<Root("ATTRIBUTIONS"), upstream.references>>
SourceAvailability == <<Root("AVAILABILITY"), {<<"bundle">>}>>
ThirdPartyNotices  == <<Root("NOTICES"), {<<d>> : d \in Dependencies}>>

CommunityHolds == Single("community", "LGPL") \in Extracted(upstream)

\* The parts of the manifest.
LicenceMappings   == {LegalFile(m) : m \in Licences(upstream)}
ReferenceMappings == {<<r, LegalFile(Resolved(upstream.at, r, upstream.members))>> : r \in upstream.references}
NewManifest ==
  [kind |-> "manifest", inventory |-> Inventory,
   licences |-> LicenceMappings, references |-> ReferenceMappings, records |-> upstream.references,
   dependencies |-> [d \in Dependencies |-> EvidenceOf(d)],
   evidence |-> report, openssl |-> OpenSsl,
   sources |-> Detected \cup {"certifi"}]

\* Licences of the environment may be missing; its metadata may differ from the report.
Unprepared(missing) == ExtractFails(upstream) \/ ClosureFails \/ ~CommunityHolds \/ missing \cap Licensed # {}

SourceBundle == [s \in Detected \cup {"certifi"} |-> assets[s]]

\* _copy_package_legal_into_runtime replaces whole directories.
Injected(files) == files

\* main, from the extraction to the manifest and --inject.
Complete ==
  /\ pc = "fetch" /\ todo = {}
  \* What a failed preparation staged is removed by the next one.
  /\ \/ /\ \E missing \in {{}} \cup {{l} : l \in Licensed} : Unprepared(missing)
        /\ Fails /\ UNCHANGED <<staged, manifest, evidence, bundle, injected>>
     \/ /\ ~Unprepared({})
        /\ staged' = staged \cup Extracted(upstream) \cup LicencesOf(Licensed)
                      \cup {Attributions, SourceAvailability, ThirdPartyNotices}
        /\ evidence' = report
        /\ bundle' = SourceBundle
        /\ manifest' = NewManifest
        /\ injected' = Injected(staged')
        /\ pc' = "prepared"
  /\ UNCHANGED <<package, report, upstream, assets, todo, attempt, runs, meddled>>

-----------------------------------------------------------------------------
(* Signing, and the inventory again. *)

\* sign_app: every Mach-O file, nested bundle and at last the app gets a signature.
Sign ==
  /\ pc = "prepared"
  /\ package' = [f \in Files |-> IF package[f] = 1 /\ f # "certifi" THEN 2 ELSE package[f]]
  /\ pc' = "signed"
  /\ UNCHANGED <<injected, staged, manifest, report, evidence, upstream, assets, bundle, todo, attempt,
                 runs, meddled>>

\* _refresh_runtime_evidence; where nothing is signed the inventory is still the recorded
\* one.  Only the inventory is recorded again, so no component may come in before it.
RefreshEvidence ==
  /\ pc \in {"prepared", "signed"}
  /\ manifest' = [manifest EXCEPT !.inventory = Inventory]
  /\ pc' = "ready"
  /\ UNCHANGED <<package, injected, staged, report, evidence, upstream, assets, bundle, todo, attempt,
                 runs, meddled>>

\* What could go wrong between the steps: a file is added, changed or removed.
Meddle ==
  /\ pc = "ready" /\ ~meddled
  /\ meddled' = TRUE
  /\ \/ /\ \E f \in Files : \E c \in {0, 1, 3} : c # package[f] /\ package' = [package EXCEPT ![f] = c]
        /\ UNCHANGED <<injected, assets, bundle, evidence>>
     \/ /\ \/ \E file \in injected : injected' = injected \ {file}
           \/ \E file \in injected : injected' = (injected \ {file}) \cup {<<file[1], {<<"altered">>}>>}
           \/ injected' = injected \cup {Single("payload", "old")}
           \/ injected' = injected \cup {Single("root", "MANIFEST")}
        /\ UNCHANGED <<package, assets, bundle, evidence>>
     \/ /\ \E s \in Sources, c \in {"none", "other"} : assets' = [assets EXCEPT ![s] = c]
        /\ UNCHANGED <<package, injected, bundle, evidence>>
     \/ /\ \E s \in DOMAIN bundle : \/ bundle' = [bundle EXCEPT ![s] = "other"]
                                     \/ bundle' = [t \in DOMAIN bundle \ {s} |-> bundle[t]]
        /\ UNCHANGED <<package, injected, assets, evidence>>
     \/ /\ \E r \in Reports : r # evidence /\ evidence' = r
        /\ UNCHANGED <<package, injected, assets, bundle>>
  /\ UNCHANGED <<staged, manifest, report, upstream, pc, todo, attempt, runs>>

-----------------------------------------------------------------------------
(* validate_release_legal_bundle --public: every check, in its order. *)

NamesIn(files) == {file[1] : file \in files}

RequiredFiles ==        \* _validate_required_files
  /\ {Root("LICENSE"), Root("NOTICES"), Root("AVAILABILITY")} \subseteq NamesIn(injected)
  /\ Root("MANIFEST") \notin NamesIn(injected)

\* A plausible mistake: only the names of the files are compared.
StagedNamesHold == NamesIn(staged) \subseteq NamesIn(injected)

StagedTreeHolds == staged \subseteq injected     \* _validate_staged_tree

InventoryHolds == manifest.inventory = Inventory
RuntimeAllowed == Forbidden = {} /\ BundledAdb = {}

Canonical(names) == {n \in names : n[1] = "payload"}

\* _validate_qt_license_mapping: the mapped texts, exactly these in the canonical store, and
\* the community licences as the basis of the Qt distributions.
LicencesMapped ==
  /\ <<"community", "LGPL">> \in NamesIn(injected)
  /\ manifest.licences # {} /\ manifest.licences \subseteq injected
StoreIsExact ==
  Canonical(NamesIn(injected))
    = Canonical(NamesIn(manifest.licences \cup {m[2] : m \in manifest.references}))
CommunityBasis == QtPython \subseteq DOMAIN manifest.dependencies

\* _validate_qt_attributions: mappings, records, and the readable rendering
ReferencesMapped == \A m \in manifest.references : m[2] \in injected
RecordsMapped    == manifest.records = {m[1] : m \in manifest.references}
Rendered         == \E file \in injected : file[1] = Root("ATTRIBUTIONS") /\ file[2] = manifest.records

\* _validate_nuitka_build_evidence: the file, its modules, its distributions
EvidenceRecorded == evidence = manifest.evidence
EvidenceModules  == evidence.modules # {}
EvidenceDists ==
  /\ evidence.dists # {}
  /\ \A m \in evidence.modules : m.owner \in evidence.dists \cup {"none"}

DependencyEvidence ==       \* _validate_dependency_evidence
  /\ \A d \in DOMAIN manifest.dependencies :
       /\ manifest.dependencies[d] # {}
       /\ manifest.dependencies[d] \subseteq {<<"file", f>> : f \in Packaged}
            \cup {<<"module", m.name, m.owner>> : m \in evidence.modules}
       /\ d \in QtPython \/ <<"licence", d>> \in NamesIn(injected)
  /\ evidence.dists \subseteq DOMAIN manifest.dependencies

OpenSslHolds ==             \* _validate_openssl
  /\ manifest.openssl = OpenSsl
  /\ OpenSsl # {} => <<"licence", "ssl">> \in NamesIn(injected)

\* _validate_source_assets: the staged sources, their bundle, and what the package says of it
SourcesStaged ==
  /\ {s \in Sources : assets[s] # "none"} = manifest.sources
  /\ \A s \in manifest.sources : assets[s] = "official"
  /\ "certifi" \in manifest.sources
BundleHolds ==
  /\ DOMAIN bundle = manifest.sources
  /\ \A s \in manifest.sources : bundle[s] = "official"
AvailabilityStated == SourceAvailability \in injected

ReviewArtifacts == Packaged \cap {"marker"}     \* _validate_legal_scope and the private marker

Accepts ==
  /\ RequiredFiles /\ StagedTreeHolds /\ InventoryHolds /\ RuntimeAllowed
  /\ LicencesMapped /\ StoreIsExact /\ CommunityBasis
  /\ ReferencesMapped /\ RecordsMapped /\ Rendered
  /\ EvidenceRecorded /\ EvidenceModules /\ EvidenceDists /\ DependencyEvidence
  /\ OpenSslHolds /\ SourcesStaged /\ BundleHolds /\ AvailabilityStated
  /\ ReviewArtifacts = {}

Validate ==
  /\ pc = "ready"
  /\ pc' = IF Accepts THEN "accepted" ELSE "refused"
  /\ UNCHANGED <<package, injected, staged, manifest, report, evidence, upstream, assets, bundle, todo,
                 attempt, runs, meddled>>

-----------------------------------------------------------------------------
Init ==
  /\ package = [f \in Files |-> Absent]
  /\ injected = {} /\ staged = {} /\ manifest = None
  /\ report = [modules |-> {}, dists |-> {}] /\ evidence = report
  /\ upstream = [at |-> <<>>, members |-> {}, references |-> {}]
  /\ assets = [s \in Sources |-> "none"]
  /\ bundle = [s \in {} |-> "official"]
  /\ pc = "new" /\ todo = {} /\ attempt = 1 /\ runs = 0 /\ meddled = FALSE

\* The compiler leaves a package and its report; the sources of an earlier candidate may be
\* in the staging directory.
Build ==
  /\ pc = "checked"
  /\ \E optional \in SUBSET Optional :
       package' = [f \in Files |-> IF f \in Always \cup optional THEN 1 ELSE Absent]
  /\ pc' = IF Standalone' THEN "built" ELSE "refused"
  /\ report' \in Reports
  /\ upstream' \in Upstreams
  /\ \E c \in {"none", "official", "other"} :
       assets' = [s \in Sources |-> IF s = "qtsvg" THEN c ELSE "none"]
  /\ UNCHANGED <<injected, staged, manifest, evidence, bundle, todo, attempt, runs, meddled>>

Next ==
  \/ Preflight \/ Build \/ StartPrepare \/ ResolveSources \/ Interrupted \/ Complete
  \/ \E s \in Sources : Reuse(s) \/ Download(s)
  \/ Sign \/ RefreshEvidence \/ Meddle \/ Validate

Spec == Init /\ [][Next]_vars

-----------------------------------------------------------------------------
(* Properties. *)

(***************************************************************************)
(* The two programs agree: what a preparation that came to its end left,   *)
(* signed and recorded again or not, is accepted when nobody meddled with  *)
(* it, whatever earlier preparations failed over the same directories.     *)
(***************************************************************************)
PreparedIsAccepted == pc = "ready" /\ ~meddled => Accepts

(***************************************************************************)
(* What is accepted conveys what has to be conveyed, looked at in the      *)
(* package and not in the manifest: nothing forbidden, the licences and    *)
(* referenced texts of the Qt sources, a licence for every dependency that *)
(* is there, and the official sources of exactly its components.           *)
(***************************************************************************)
AcceptedIsComplete ==
  pc = "accepted" =>
    /\ Forbidden \cup BundledAdb = {} /\ "marker" \notin Packaged
    /\ Extracted(upstream) \subseteq injected
    /\ \A d \in Packaged \cap (Dists \ {"pyside", "shiboken"}) : Single("licence", d) \in injected
    /\ OpenSsl # {} => Single("licence", "ssl") \in injected
    /\ DOMAIN bundle = Detected \cup {"certifi"}
    /\ \A s \in DOMAIN bundle : bundle[s] = "official"

(***************************************************************************)
(* Whatever breaks off, no part of a download ever has the name of a       *)
(* source; wrong bytes under such a name were there before and never reach *)
(* the bundle of a preparation that ended.                                 *)
(***************************************************************************)
OnlyVerifiedSources ==
  /\ \A s \in Sources : assets[s] # "partial"
  /\ pc = "prepared" => \A s \in DOMAIN bundle : bundle[s] = "official"

\* The programs that prepare and that validate a candidate agree, and what they agree on is
\* right.
CandidateIsSound == PreparedIsAccepted /\ AcceptedIsComplete /\ OnlyVerifiedSources
=============================================================================
