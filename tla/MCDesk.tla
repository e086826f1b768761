-------------------------------- MODULE MCDesk --------------------------------
(* An instance of Desk for TLC.  The deletions have two files, two contents, *)
(* one change and one failure; the bounds of the other parts are in the cfg. *)
EXTENDS Desk

CONSTANT ui

\* A registered folder in another.
InDef == [sub |-> "lib", b |-> "sub", lib |-> "top"]

\* A column of every source, one of phones and one of Local APKs.
AppliesDef == [file |-> {"c"}, device |-> {"c", "d"}, local |-> {"c", "l"}]

\* Licence trees: texts in and beside LICENSES, references by every way they resolve, or
\* not: missing, ambiguous, out of the archive.
Tree == {<<"LICENSES", "LGPL">>, <<"LICENSES", "MIT">>, <<"src", "BSD">>, <<"a", "MIT">>}
UpstreamsDef ==
  {[at |-> <<"src", "qt_attribution.json">>, members |-> Tree, references |-> refs] :
     refs \in {{<<"BSD">>}, {<<"..", "a", "MIT">>, <<"BSD">>}, {<<"..", "..", "x", "BSD">>},
               {<<"MIT">>}, {<<"none">>}, {<<"LICENSES", "MIT">>}}}
  \cup {[at |-> <<"src", "qt_attribution.json">>, members |-> Tree \ {<<"LICENSES", "LGPL">>},
         references |-> {<<"BSD">>}]}


\* The public listings of the two audits.
EligibleDef == <<{"p1", "p2"}, {"p1"}>>

\* The selected market has a language of its own, the others have English.
OtherMarkets == 1..2

\* What is left of the bounds of the personal part: audits, captures, changes of the phone.
Left(a, c, changes) ==
  /\ readers = [r \in Personal!Readers |-> IF r > a THEN Personal!Over ELSE Personal!Idle]
  /\ captures = MaxCaptures - c /\ personalPlugs = MaxPlugs - changes

\* Captures and questions work on a library that can be used, and an audit, a capture and
\* an exchange of phones on the slot.  The phones are interchangeable.
PersonalInit ==
  /\ personalLibrary["p1"] # "g"
  /\ \/ health = "ok" /\ Left(0, 2, 0)
     \/ health = "partial" /\ configured = "p1" /\ plugged = "f" /\ Left(0, 2, 0)
     \/ /\ health = "foreign" /\ configured = "connected" /\ personalLibrary["p1"] = "f"
        /\ plugged = "f" /\ Left(1, 1, 1)

\* Initial states of DeskSpec: only the part that runs starts in any of its own.
MCInit ==
  /\ part \in Parts
  /\ Cache!Init /\ market = "m1" \* the markets are interchangeable
  /\ Library!Init /\ (part = "library" \/ \A p \in DOMAIN libraryFiles : libraryFiles[p] = "none")
  /\ Init
     /\ (part = "cleanup" \/ \A i \in {"f", "g"} : files[i].is = "s" /\ ~rows[i].target)
  /\ Views!Init /\ (part = "views" \/ (saved.schema = "v2" /\ saved.preset = "Basic"))
  /\ Options!Init /\ (part = "settings" \/ (~settingsEvidence /\ settingsFile = Options!Nothing))
  /\ SignIn!Init
  /\ Personal!Init /\ PersonalInit
     /\ (part = "personal" \/ (health = "partial" /\ plugged = "f"))
  /\ Resolution!Init
  /\ Alternative!Init /\ store = "s1" \* so are the stores
  /\ Scan!Init /\ (part = "scan" \/ (full /\ attached = {"g"}))
  /\ Candidate!Init /\ App!Init /\ Release!Init /\ Store!Init

MCSpec == MCInit /\ [][DeskNext]_deskVars
=============================================================================
