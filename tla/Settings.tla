------------------------------ MODULE Settings ------------------------------
(***************************************************************************)
(* The settings document of the application: services/state.py, what       *)
(* upgrades an older document, and every place of the window that writes   *)
(* it.  The window keeps a copy; some writers start from the file, others  *)
(* from that copy.                                                         *)
(*                                                                         *)
(* A document maps a key to the set of its values: {} stands for a missing *)
(* key, and of the two keys that hold lists "list" stands for the list     *)
(* itself, present when it is empty.                                       *)
(***************************************************************************)
EXTENDS Naturals, FiniteSets

CONSTANTS
  Queries,     \* ids of Smart Queries
  Paths,       \* app lists that can be opened
  MaxWrites    \* bound: writes of one behaviour

Lists == {"queries", "recents"}
Scalars == {"language", "languageMark", "ttl", "ttlMark", "tracking", "comparing", "provider",
            "legacy", "exclude"}
Keys == Lists \cup Scalars

\* The choices a user makes in the window, by key.
Offered == [language |-> {"auto", "en", "it"}, ttl |-> {"24", "48", "72"}, tracking |-> {"on", "off"},
            provider |-> {"disabled", "custom"}, exclude |-> {"on", "off"}]

VARIABLES
  file,       \* the stored document
  copy,       \* user_settings of the window
  window,     \* "closed", "open" or "dialog" (Advanced Settings, which is modal)
  evidence,   \* a history of an earlier version lies beside the settings
  chosen,     \* for each offered key, what the user chose last, or what an upgrade makes of it
  writes

vars == <<file, copy, window, evidence, chosen, writes>>

Nothing == [k \in Keys |-> {}]

Defaults ==
  [Nothing EXCEPT !.language = {"auto"}, !.languageMark = {"yes"}, !.ttl = {"24"}, !.ttlMark = {"yes"},
                  !.tracking = {"off"}, !.comparing = {"off"}, !.provider = {"disabled"},
                  !.legacy = {"off"}, !.exclude = {"on"}, !.recents = {"list"}]

Over(base, doc) == [k \in Keys |-> IF doc[k] # {} THEN doc[k] ELSE base[k]]

-----------------------------------------------------------------------------
(* Reading. *)

OldTtl(doc) == doc.ttlMark = {} /\ doc.ttl = {"72"}

Language(doc) ==
  IF doc.languageMark = {} /\ doc.language = {"en"} THEN {"auto"} ELSE Over(Defaults, doc).language

Tracking(doc) ==
  IF doc.tracking # {} THEN doc.tracking
  ELSE IF doc.comparing = {"on"} \/ evidence THEN {"on"} ELSE {"off"}

Provider(doc) ==
  IF doc.provider # {} THEN doc.provider
  ELSE IF doc.legacy = {"on"} THEN {"custom"} ELSE {"disabled"}

\* migrate_settings keeps the boolean of older versions in step with the provider.
Coherent(doc) == [doc EXCEPT !.legacy = IF doc.provider = {"disabled"} THEN {"off"} ELSE {"on"}]

Loaded(doc) ==
  Coherent([Over(Defaults, doc) EXCEPT
    !.language = Language(doc), !.languageMark = {"yes"},
    !.ttl = IF OldTtl(doc) THEN Defaults.ttl ELSE @, !.ttlMark = {"yes"},
    !.tracking = Tracking(doc), !.provider = Provider(doc)])

\* Some upgrades are written back at once; that of the language waits for a save.
Upgrades(doc) ==
  OldTtl(doc) \/ doc.tracking = {} \/ doc.provider = {} \/ doc.legacy # Loaded(doc).legacy

AfterLoad(doc) == IF Upgrades(doc) THEN Loaded(doc) ELSE doc

\* As if a save did not mark the time to live as chosen under this version.
SavedUnmarked(doc, settings) ==
  Coherent([Over(Loaded(doc), settings) EXCEPT !.languageMark = {"yes"}, !.ttlMark = {}])

Saved(doc, settings) ==
  Coherent([Over(Loaded(doc), settings) EXCEPT !.languageMark = {"yes"}, !.ttlMark = {"yes"}])

-----------------------------------------------------------------------------
(* What earlier versions left. *)

\* Version 1.5 had neither mark, and no provider; version 1.6 marked the language.
Earlier ==
  {[Nothing EXCEPT !.language = {l}, !.ttl = {t}, !.comparing = {c}, !.legacy = p, !.languageMark = m,
                   !.exclude = {"on"}] :
     l \in {"en", "it"}, t \in {"72", "48"}, c \in {"on", "off"}, p \in {{}, {"on"}}, m \in {{}, {"yes"}}}

Meaning(doc) ==
  [language |-> IF doc.language = {"it"} THEN "it"
                ELSE IF doc.language = {"en"} /\ doc.languageMark # {} THEN "en" ELSE "auto",
   ttl      |-> IF doc.ttl = {"48"} THEN "48" ELSE "24",
   tracking |-> IF doc.comparing = {"on"} \/ evidence THEN "on" ELSE "off",
   provider |-> IF doc.legacy = {"on"} THEN "custom" ELSE "disabled",
   exclude  |-> "on"]

Init ==
  /\ evidence \in BOOLEAN
  /\ file \in Earlier \cup {Nothing}
  /\ copy = Nothing /\ window = "closed" /\ writes = 0
  /\ chosen = Meaning(file)

-----------------------------------------------------------------------------
(* Writers. *)

MayWrite == writes < MaxWrites /\ writes' = writes + 1

\* save_settings of a document that was just read; the copy of the window is not told.
FromFile(change) == file' = Saved(AfterLoad(file), Over(Loaded(file), change))

\* The same, and the copy of the window becomes the result.
Fresh(change) == FromFile(change) /\ copy' = file'

\* save_settings of the copy of the window, changed.
FromCopy(change) ==
  /\ file' = Saved(AfterLoad(file), Over(copy, change))
  /\ copy' = file'

Chosen(change) ==
  chosen' = [k \in DOMAIN chosen |-> IF change[k] # {} THEN CHOOSE v \in change[k] : TRUE ELSE chosen[k]]

Change(k, v) == [Nothing EXCEPT ![k] = {v}]

\* The constructors of the window reset the quick filter and the state of the header and
\* save that; then the window takes its copy.
Start ==
  /\ window = "closed" /\ window' = "open"
  /\ MayWrite
  /\ Fresh(Nothing)
  /\ UNCHANGED <<evidence, chosen>>

Quit ==
  /\ window = "open" /\ window' = "closed"
  /\ copy' = Nothing
  /\ UNCHANGED <<file, evidence, chosen, writes>>

\* A command-line audit reads the settings and persists nothing; it uses what it read.
Headless == Loaded(file)

\* The start of an audit, a restored view and the dialogs read the file again.
Refresh ==
  /\ window = "open"
  /\ file' = AfterLoad(file) /\ copy' = Loaded(file)
  /\ UNCHANGED <<window, evidence, chosen, writes>>

OpenSettings ==
  /\ window = "open" /\ window' = "dialog"
  /\ file' = AfterLoad(file) /\ copy' = Loaded(file)
  /\ UNCHANGED <<evidence, chosen, writes>>

\* Every field of the dialog is stored, those that were not touched as they were shown.
AcceptSettings(l, t, p) ==
  LET change == [Nothing EXCEPT !.language = {l}, !.ttl = {t}, !.provider = {p}]
  IN /\ window = "dialog" /\ window' = "open"
     /\ MayWrite
     /\ FromCopy(change) /\ Chosen(change)
     /\ UNCHANGED evidence

CancelSettings ==
  /\ window = "dialog" /\ window' = "open"
  /\ UNCHANGED <<file, copy, evidence, chosen, writes>>

\* Exclude System Apps.
ToggleExclude(v) ==
  /\ window = "open" /\ MayWrite
  /\ FromCopy(Change("exclude", v)) /\ Chosen(Change("exclude", v))
  /\ UNCHANGED <<window, evidence>>

\* Changes & History, which is not modal.
SaveTracking(v, c) ==
  /\ window = "open" /\ MayWrite
  /\ FromCopy([Nothing EXCEPT !.tracking = {v}, !.comparing = {c}]) /\ Chosen(Change("tracking", v))
  /\ UNCHANGED <<window, evidence>>

\* The position of the details, a view, the check for updates.
SaveOther ==
  /\ window = "open" /\ MayWrite
  /\ Fresh(Nothing)
  /\ UNCHANGED <<window, evidence, chosen>>

Stored(doc, k) == Loaded(doc)[k] \ {"list"}

\* The query is stored in place of those of the same name.
SaveQuery(q, replaced) ==
  /\ window = "open" /\ MayWrite
  /\ replaced \subseteq Stored(file, "queries") \ {q}
  /\ FromFile([Nothing EXCEPT !.queries = {"list", q} \cup (Stored(file, "queries") \ replaced)])
  /\ UNCHANGED <<copy, window, evidence, chosen>>

DeleteQuery(q) ==
  /\ window = "open" /\ MayWrite
  /\ q \in Stored(file, "queries")
  /\ FromFile([Nothing EXCEPT !.queries = {"list"} \cup (Stored(file, "queries") \ {q})])
  /\ UNCHANGED <<copy, window, evidence, chosen>>

\* add_recent_source when an app list is opened.
OpenList(path) ==
  /\ window = "open" /\ MayWrite
  /\ FromFile([Nothing EXCEPT !.recents = {"list", path} \cup Stored(file, "recents")])
  /\ UNCHANGED <<copy, window, evidence, chosen>>

EditsQueries == \E q \in Queries : DeleteQuery(q) \/ \E replaced \in SUBSET Queries : SaveQuery(q, replaced)

Next ==
  \/ Start \/ Quit \/ Refresh \/ OpenSettings \/ CancelSettings \/ SaveOther \/ EditsQueries
  \/ \E l \in Offered.language, t \in Offered.ttl, p \in Offered.provider : AcceptSettings(l, t, p)
  \/ \E v \in Offered.exclude : ToggleExclude(v)
  \/ \E v \in Offered.tracking, c \in {"on", "off"} : SaveTracking(v, c)
  \/ \E path \in Paths : OpenList(path)

Spec == Init /\ [][Next]_vars

-----------------------------------------------------------------------------
(* Properties. *)

\* Upgrades keep the meaning and never touch a later choice: whoever reads the settings,
\* the window or a command-line audit, before or after an upgrade was written, finds for
\* every option the last choice of the user (state.py:202-311).
SettingsKeepMeaning ==
  \A k \in DOMAIN chosen : Headless[k] = {chosen[k]} /\ Loaded(AfterLoad(file))[k] = {chosen[k]}

\* Only the Smart Query window changes the saved Smart Queries (CHANGELOG.md:170).  It
\* does not hold.
SavedQueriesStay ==
  [][Loaded(file')["queries"] # Loaded(file)["queries"] => EditsQueries]_vars

=============================================================================
