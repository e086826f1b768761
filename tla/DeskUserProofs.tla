---------------------------- MODULE DeskUserProofs ----------------------------
(***************************************************************************)
(* Proofs about what the user keeps, and about the release of the program: *)
(* the sign-in, the settings, custom views and profiles of phones; the     *)
(* legal material of a release, the macOS bundle and the assembly. Each    *)
(* part has an invariant that its own specification keeps, for any values  *)
(* of its constants; the steps of Desk are steps of the part that runs, so *)
(* that Desk keeps it too.                                                 *)
(***************************************************************************)
EXTENDS Desk, FiniteSetTheorems, TLAPS

LEMMA PartStays == ASSUME [DeskNext]_deskVars PROVE part' = part
  BY DEF DeskNext, deskVars

-----------------------------------------------------------------------------
(* The Google sign-in in the browser. A request has the number after the  *)
(* last answered one, so a message of the debugger with that number       *)
(* answers a request of the last kind: only the request for the cookies   *)
(* is repeated under its number (NumberIsOfOneKind).                      *)

Methods  == {"none", "attach", "cookies", "navigate", "event"}
Messages == [id : Nat, method : Methods]

SignInTypes ==
  /\ lastId \in Nat /\ asked \in Messages /\ unread \in Seq(Messages)
  /\ accepted \in Methods \X Methods

(* A request has the number after the last answered one.  A message with that    *)
(* number answers a request of the last kind: only the request for the cookies is *)
(* repeated under its number.                                                    *)
NumberIsOfOneKind ==
  /\ signinPc = "reply" => asked.id = lastId + 1
  /\ \A i \in DOMAIN unread :
       \/ unread[i].id <= lastId
       \/ /\ unread[i].id = lastId + 1 /\ unread[i].method = asked.method
          /\ signinPc = "reply" \/ (signinPc = "loop" /\ asked.method = "cookies")

SignInInv == SignInTypes /\ NumberIsOfOneKind /\ SignIn!AnswersBelong

LEMMA SignInStarts == ASSUME SignIn!Init PROVE SignInInv
  BY DEF SignIn!Init, SignInInv, SignInTypes, NumberIsOfOneKind, SignIn!AnswersBelong,
     SignIn!NoRequest, Messages, Methods

LEMMA LeaveKeeps ==
  ASSUME SignInInv, NEW next \in {"idle", "exchange"}, SignIn!Leave(next),
         accepted' \in Methods \X Methods,
         accepted'[1] = accepted'[2]
  PROVE  SignInInv'
<1>1. unread' = <<>> /\ lastId' = 0 /\ asked' = [id |-> 0, method |-> "none"]
        /\ signinPc' = next
  BY DEF SignIn!Leave, SignIn!NoRequest
<1>2. asked' \in Messages /\ unread' \in Seq(Messages) /\ DOMAIN unread' = {}
  BY <1>1 DEF Messages, Methods
<1> QED BY <1>1, <1>2 DEF SignInInv, SignInTypes, NumberIsOfOneKind, SignIn!AnswersBelong

LEMMA SendKeeps ==
  ASSUME SignInInv, NEW method \in Methods, SignIn!Send(method), signinPc' = "reply",
         lastId' = lastId,
         accepted' = accepted, signinPc \in {"attach", "loop", "reopen"}, signinPc = "loop"
           => method = "cookies"
  PROVE  SignInInv'
<1>1. asked' = [id |-> lastId + 1, method |-> method] /\ asked' \in Messages
  BY DEF SignIn!Send, SignInInv, SignInTypes, Messages
<1>2. unread' = unread \/ unread' = Append(unread, asked')
  BY DEF SignIn!Send
<1>3. unread' \in Seq(Messages)
  BY <1>1, <1>2 DEF SignInInv, SignInTypes
<1>4. ASSUME NEW i \in DOMAIN unread'
      PROVE  unread'[i].id <= lastId
             \/ (unread'[i].id = lastId + 1 /\ unread'[i].method = method)
  <2>1. CASE i \in DOMAIN unread /\ unread'[i] = unread[i]
    BY <2>1 DEF SignInInv, NumberIsOfOneKind
  <2>2. CASE unread'[i] = asked'
    BY <1>1, <2>2
  <2> QED BY <1>1, <1>2, <2>1, <2>2, SMTT(20) DEF SignInInv, SignInTypes
<1> QED BY <1>1, <1>3, <1>4 DEF SignInInv, SignInTypes, NumberIsOfOneKind,
           SignIn!AnswersBelong

LEMMA ReceiveStep ==
  ASSUME SignInInv, SignIn!Receive
  PROVE  SignInInv'
<1> DEFINE message == Head(unread)
<1>1. /\ unread # <<>> /\ signinPc = "reply" /\ unread \in Seq(Messages)
      /\ asked.id = lastId + 1
      /\ asked \in Messages /\ lastId \in Nat
  BY DEF SignIn!Receive, SignInInv, SignInTypes, NumberIsOfOneKind
<1>2. /\ message = unread[1] /\ 1 \in DOMAIN unread /\ Tail(unread) \in Seq(Messages)
      /\ \A i \in DOMAIN Tail(unread) :
           i + 1 \in DOMAIN unread /\ Tail(unread)[i] = unread[i + 1]
  BY <1>1
<1>3. CASE ~SignIn!Answers(message)
  <2>1. unread' = Tail(unread) /\ UNCHANGED <<signinPc, asked, lastId, accepted>>
    BY <1>3 DEF SignIn!Receive
  <2> QED BY <1>2, <2>1 DEF SignInInv, SignInTypes, NumberIsOfOneKind, SignIn!AnswersBelong
<1>4. CASE SignIn!Answers(message)
  <2>1. message.method = asked.method
    BY <1>1, <1>2, <1>4 DEF SignIn!Answers, SignInInv, NumberIsOfOneKind, Messages
  <2>2. accepted' = <<asked.method, message.method>> /\ accepted' \in Methods \X Methods
        /\ accepted'[1] = accepted'[2]
    BY <1>1, <1>4, <2>1 DEF SignIn!Receive, Messages
  <2>3. CASE SignIn!Leave("exchange")
    BY <2>2, <2>3, LeaveKeeps
  <2>4. CASE /\ unread' = Tail(unread) /\ lastId' = asked.id /\ asked' = asked
             /\ signinPc' \in {"loop", "reopen"}
    <3>1. ASSUME NEW i \in DOMAIN Tail(unread)
          PROVE  Tail(unread)[i].id <= lastId + 1
      <4>1. \A j \in DOMAIN unread : unread[j].id <= lastId \/ unread[j].id = lastId + 1
        BY DEF SignInInv, NumberIsOfOneKind
      <4>2. i + 1 \in DOMAIN unread /\ Tail(unread)[i] = unread[i + 1]
              /\ unread[i + 1] \in Messages
        BY <1>1, <1>2
      <4>3. unread[i + 1].id \in Nat
        BY <4>2 DEF Messages
      <4> QED BY <1>1, <4>1, <4>2, <4>3
    <3> QED BY <1>1, <1>2, <2>2, <2>4, <3>1 DEF SignInInv, SignInTypes, NumberIsOfOneKind,
               SignIn!AnswersBelong, Messages
  <2> QED BY <1>4, <2>3, <2>4 DEF SignIn!Receive, SignIn!AfterReply
<1> QED BY <1>3, <1>4

LEMMA SignInStep == ASSUME SignInInv, [SignIn!Next]_(SignIn!vars) PROVE SignInInv'
<1> USE DEF SignIn!debugger, SignIn!memory
<1>0. accepted \in Methods \X Methods /\ accepted[1] = accepted[2]
  BY DEF SignInInv, SignInTypes, SignIn!AnswersBelong
<1>1. CASE SignIn!Fail
  BY <1>0, <1>1, LeaveKeeps DEF SignIn!Fail
<1>2. CASE UNCHANGED <<asked, lastId, unread, accepted>> /\ signinPc' # "reply"
        /\ signinPc \in {"idle", "debugger", "exchange"}
  BY <1>2 DEF SignInInv, SignInTypes, NumberIsOfOneKind, SignIn!AnswersBelong
<1>3. CASE UNCHANGED <<asked, lastId, unread, accepted, signinPc>>
  BY <1>3 DEF SignInInv, SignInTypes, NumberIsOfOneKind, SignIn!AnswersBelong
<1>4. CASE SignIn!Attach \/ (SignIn!AskCookies /\ ~SignIn!Fail) \/ SignIn!Reopen
  <2>1. PICK method \in {"attach", "cookies", "navigate"} :
          SignIn!Send(method) /\ (signinPc = "loop" => method = "cookies")
    BY <1>4 DEF SignIn!Attach, SignIn!AskCookies, SignIn!Reopen
  <2>2. /\ method \in Methods /\ signinPc' = "reply" /\ lastId' = lastId /\ accepted' = accepted
        /\ signinPc \in {"attach", "loop", "reopen"}
    BY <1>4 DEF SignIn!Attach, SignIn!AskCookies, SignIn!Reopen, Methods
  <2> QED BY <2>1, <2>2, SendKeeps
<1>5. CASE SignIn!Receive
  BY <1>5, ReceiveStep
<1>6. CASE SignIn!Silence /\ ~SignIn!Fail
  BY <1>6 DEF SignIn!Silence, SignInInv, SignInTypes, NumberIsOfOneKind, SignIn!AnswersBelong
<1>7. CASE SignIn!PageEvent
  <2>1. [id |-> 0, method |-> "event"] \in Messages
    BY DEF Messages, Methods
  <2>2. /\ unread' = Append(unread, [id |-> 0, method |-> "event"]) /\ unread' \in Seq(Messages)
        /\ UNCHANGED <<signinPc, asked, lastId, accepted>>
    BY <1>7, <2>1 DEF SignIn!PageEvent, SignInInv, SignInTypes
  <2>3. ASSUME NEW i \in DOMAIN unread'
        PROVE  unread'[i].id = 0 \/ (i \in DOMAIN unread /\ unread'[i] = unread[i])
    BY <2>2 DEF SignInInv, SignInTypes
  <2> QED BY <2>2, <2>3 DEF SignInInv, SignInTypes, NumberIsOfOneKind, SignIn!AnswersBelong
<1> QED
  BY <1>1, <1>2, <1>3, <1>4, <1>5, <1>6, <1>7 DEF SignIn!Next, SignIn!vars, SignIn!Launch,
     SignIn!PollDebugger, SignIn!AskCookies, SignIn!Silence, SignIn!Broken, SignIn!Exchange,
     SignIn!SignOut, SignIn!UserSignsIn, SignIn!BrowserExits

LEMMA SignInInvMeans == ASSUME SignInInv PROVE SignIn!AnswersBelong
  BY DEF SignInInv

LEMMA SignInMoves ==
  ASSUME [DeskNext]_deskVars, part = "signin"
  PROVE  [SignIn!Next]_(SignIn!vars)
  BY DEF DeskNext, deskVars, signinVars, SignIn!vars

LEMMA SignInStays == DeskSpec => [](part = "signin" => SignInInv)
<1>1. DeskInit => (part = "signin" => SignInInv)
  BY SignInStarts DEF DeskInit
<1>2. (part = "signin" => SignInInv) /\ [DeskNext]_deskVars => (part = "signin" => SignInInv)'
  BY PartStays, SignInMoves, SignInStep
<1> QED BY <1>1, <1>2, PTL DEF DeskSpec

(* However long the browser takes, whatever events its pages send and     *)
(* though a request is repeated under its number, an answer is taken for  *)
(* no request of another kind (personal_auth.py).                         *)
THEOREM AnswersAlwaysBelong ==
  /\ SignIn!Spec => []SignIn!AnswersBelong
  /\ DeskSpec => []AnswersBelong
<1>1. SignIn!Init => SignInInv
  BY SignInStarts
<1>2. SignInInv /\ [SignIn!Next]_(SignIn!vars) => SignInInv'
  BY SignInStep
<1>3. SignInInv => SignIn!AnswersBelong
  BY SignInInvMeans
<1>4. (part = "signin" => SignInInv) => AnswersBelong
  BY <1>3 DEF AnswersBelong
<1>5. SignIn!Spec => []SignIn!AnswersBelong
  BY <1>1, <1>2, <1>3, PTL DEF SignIn!Spec
<1>6. DeskSpec => []AnswersBelong
  BY <1>4, SignInStays, PTL
<1> QED BY <1>5, <1>6

-----------------------------------------------------------------------------
(* The settings document. What the user chose is what the file means when *)
(* it is loaded, and what the window's copy means while there is one. An  *)
(* upgrade is idempotent: loading what a load has written back reads the  *)
(* same (AfterLoadReads).                                                 *)

OfferedKeys == {"language", "ttl", "tracking", "provider", "exclude"}
Settled(doc) ==
  /\ DOMAIN doc = Options!Keys /\ doc["languageMark"] # {} /\ doc["ttlMark"] # {}
  /\ \A k \in OfferedKeys : doc[k] # {}
Means(doc) == \A k \in OfferedKeys : doc[k] = {settingsChosen[k]}

(* The choices are those of the file as it is read, and of the window's copy. *)
SettingsInv ==
  /\ DOMAIN settingsChosen = OfferedKeys
  /\ DOMAIN settingsFile = Options!Keys /\ Means(Options!Loaded(settingsFile))
  /\ DOMAIN copy = Options!Keys
  /\ window # "closed" => Settled(copy) /\ Means(copy)

LEMMA KeysFit ==
  /\ OfferedKeys \subseteq Options!Keys
  /\ \A k \in {"languageMark", "ttlMark", "legacy", "comparing", "queries", "recents"} :
       k \in Options!Keys
  /\ DOMAIN Options!Nothing = Options!Keys /\ DOMAIN Options!Defaults = Options!Keys
  /\ \A k \in Options!Keys : Options!Nothing[k] = {}
  BY DEF Options!Keys, Options!Lists, Options!Scalars, OfferedKeys, Options!Nothing,
     Options!Defaults

LEMMA OverFits ==
  ASSUME NEW base, NEW doc
  PROVE  /\ DOMAIN Options!Over(base, doc) = Options!Keys
         /\ \A k \in Options!Keys :
              Options!Over(base, doc)[k] = IF doc[k] # {} THEN doc[k] ELSE base[k]
  BY DEF Options!Over

LEMMA CoherentFits ==
  ASSUME NEW doc, DOMAIN doc = Options!Keys
  PROVE  /\ DOMAIN Options!Coherent(doc) = Options!Keys
         /\ \A k \in Options!Keys \ {"legacy"} : Options!Coherent(doc)[k] = doc[k]
  BY DEF Options!Coherent

\* A document as it is read.
LEMMA LoadedFits ==
  ASSUME NEW doc
  PROVE  /\ DOMAIN Options!Loaded(doc) = Options!Keys
         /\ Options!Loaded(doc)["language"] = Options!Language(doc)
         /\ Options!Loaded(doc)["languageMark"] = {"yes"}
         /\ Options!Loaded(doc)["ttl"] = (IF Options!OldTtl(doc)
                                          THEN {"24"}
                                          ELSE Options!Over(Options!Defaults, doc)["ttl"])
         /\ Options!Loaded(doc)["ttlMark"] = {"yes"}
         /\ Options!Loaded(doc)["tracking"] = Options!Tracking(doc)
         /\ Options!Loaded(doc)["provider"] = Options!Provider(doc)
         /\ Options!Loaded(doc)["exclude"] = Options!Over(Options!Defaults, doc)["exclude"]
<1> DEFINE over == Options!Over(Options!Defaults, doc)
           l == Options!Language(doc)
           t == IF Options!OldTtl(doc) THEN Options!Defaults.ttl ELSE over.ttl
           h == Options!Tracking(doc)
           p == Options!Provider(doc)
           read == [over EXCEPT !.language = l, !.languageMark = {"yes"},
                                !.ttl = t, !.ttlMark = {"yes"}, !.tracking = h, !.provider = p]
<1>1. DOMAIN over = Options!Keys
  BY OverFits
<1>2. Options!Loaded(doc) = Options!Coherent(read)
  BY DEF Options!Loaded
<1>3. Options!Defaults.ttl = {"24"}
  BY DEF Options!Defaults, Options!Nothing, Options!Keys, Options!Lists, Options!Scalars
<1> HIDE DEF over, l, h, p, t
<1>4. /\ DOMAIN read = Options!Keys
      /\ read["language"] = l /\ read["languageMark"] = {"yes"} /\ read["ttl"] = t
      /\ read["ttlMark"] = {"yes"} /\ read["tracking"] = h /\ read["provider"] = p
      /\ read["exclude"] = over["exclude"]
  BY <1>1 DEF Options!Keys, Options!Lists, Options!Scalars
<1> HIDE DEF read
<1>5. /\ DOMAIN Options!Coherent(read) = Options!Keys
      /\ \A k \in Options!Keys \ {"legacy"} : Options!Coherent(read)[k] = read[k]
  BY <1>4, CoherentFits
<1>6. \A k \in OfferedKeys \cup {"languageMark", "ttlMark"} : Options!Loaded(doc)[k] = read[k]
  BY <1>2, <1>5 DEF OfferedKeys, Options!Keys, Options!Lists, Options!Scalars
<1>7. DOMAIN Options!Loaded(doc) = Options!Keys
  BY <1>2, <1>5
<1> USE DEF l, h, p, t, over
<1> QED BY <1>3, <1>4, <1>6, <1>7 DEF OfferedKeys

LEMMA DefaultsFit ==
  /\ Options!Defaults["language"] = {"auto"} /\ Options!Defaults["ttl"] = {"24"}
  /\ Options!Defaults["exclude"] = {"on"}
  BY DEF Options!Defaults, Options!Nothing, Options!Keys, Options!Lists, Options!Scalars

LEMMA LoadedSettles == ASSUME NEW doc PROVE Settled(Options!Loaded(doc))
<1>1. \A k \in {"language", "ttl", "exclude"} : Options!Over(Options!Defaults, doc)[k] # {}
  BY DefaultsFit, OverFits, KeysFit DEF OfferedKeys
<1>2. Options!Language(doc) # {}
  BY <1>1 DEF Options!Language
<1>3. Options!Tracking(doc) # {} /\ Options!Provider(doc) # {}
  BY DEF Options!Tracking, Options!Provider
<1>4. \A k \in OfferedKeys : Options!Loaded(doc)[k] # {}
  BY <1>1, <1>2, <1>3, LoadedFits DEF OfferedKeys
<1> QED BY <1>4, LoadedFits DEF Settled

\* A settled document is read as it is.
LEMMA SettledReads ==
  ASSUME NEW doc, Settled(doc), NEW k \in OfferedKeys
  PROVE  Options!Loaded(doc)[k] = doc[k]
<1>1. \A f \in OfferedKeys : doc[f] # {} /\ Options!Over(Options!Defaults, doc)[f] = doc[f]
  BY OverFits, KeysFit DEF Settled
<1>2. Options!Language(doc) = doc["language"] /\ ~Options!OldTtl(doc)
  BY <1>1 DEF Options!Language, Options!OldTtl, Settled, OfferedKeys
<1>3. Options!Tracking(doc) = doc["tracking"] /\ Options!Provider(doc) = doc["provider"]
  BY <1>1 DEF Options!Tracking, Options!Provider, OfferedKeys
<1> QED BY <1>1, <1>2, <1>3, LoadedFits DEF OfferedKeys

LEMMA AfterLoadReads ==
  ASSUME NEW doc, NEW k \in OfferedKeys
  PROVE  Options!Loaded(Options!AfterLoad(doc))[k] = Options!Loaded(doc)[k]
  BY LoadedSettles, SettledReads DEF Options!AfterLoad

\* A save settles the document, and stores what it is given.
LEMMA OptionsSavedFits ==
  ASSUME NEW doc, NEW settings, \A k \in OfferedKeys : settings[k] # {}
  PROVE  Settled(Options!Saved(doc, settings)) /\ \A k \in OfferedKeys :
      Options!Saved(doc, settings)[k] = settings[k]
<1> DEFINE over == Options!Over(Options!Loaded(doc), settings)
           marked == [over EXCEPT !.languageMark = {"yes"}, !.ttlMark = {"yes"}]
<1>1. DOMAIN over = Options!Keys /\ \A k \in OfferedKeys : over[k] = settings[k]
  BY OverFits, KeysFit
<1> HIDE DEF over
<1>2. /\ DOMAIN marked = Options!Keys /\ marked["languageMark"] = {"yes"}
      /\ marked["ttlMark"] = {"yes"}
      /\ \A k \in OfferedKeys : marked[k] = settings[k]
  BY <1>1, KeysFit DEF OfferedKeys
<1> HIDE DEF marked
<1>3. /\ DOMAIN Options!Coherent(marked) = Options!Keys
      /\ \A k \in Options!Keys \ {"legacy"} : Options!Coherent(marked)[k] = marked[k]
  BY <1>2, CoherentFits
<1>4. \A k \in OfferedKeys \cup {"languageMark", "ttlMark"} : k \in Options!Keys \ {"legacy"}
  BY DEF OfferedKeys, Options!Keys, Options!Lists, Options!Scalars
<1>5. Options!Saved(doc, settings) = Options!Coherent(marked)
  BY DEF Options!Saved, marked, over
<1>6. \A k \in OfferedKeys : Options!Saved(doc, settings)[k] = settings[k]
  BY <1>2, <1>3, <1>4, <1>5
<1>7. Options!Saved(doc, settings)["languageMark"] # {}
        /\ Options!Saved(doc, settings)["ttlMark"] # {}
  BY <1>2, <1>3, <1>4, <1>5
<1> QED BY <1>3, <1>5, <1>6, <1>7 DEF Settled

\* What is read in the end, whichever document the writer started from.
LEMMA WriteFits ==
  ASSUME NEW base, \A k \in OfferedKeys : base[k] = {settingsChosen[k]}, NEW change,
         NEW doc, settingsFile' = Options!Saved(doc, Options!Over(base, change)),
         DOMAIN settingsChosen' = OfferedKeys, UNCHANGED settingsEvidence,
         \A k \in OfferedKeys : IF change[k] = {} THEN settingsChosen'[k] = settingsChosen[k]
           ELSE change[k] = {settingsChosen'[k]}
  PROVE  /\ DOMAIN settingsFile' = Options!Keys /\ Means(Options!Loaded(settingsFile))'
         /\ Settled(settingsFile') /\ \A k \in OfferedKeys :
              settingsFile'[k] = {settingsChosen'[k]}
<1> DEFINE over == Options!Over(base, change)
<1>1. \A k \in OfferedKeys : over[k] = {settingsChosen'[k]}
  BY OverFits, KeysFit
<1> HIDE DEF over
<1>2. settingsFile' = Options!Saved(doc, over)
  BY DEF over
<1>3. Settled(settingsFile') /\ \A k \in OfferedKeys : settingsFile'[k] = {settingsChosen'[k]}
  BY <1>1, <1>2, OptionsSavedFits
<1>4. \A k \in OfferedKeys : Options!Loaded(settingsFile')[k] = settingsFile'[k]
  BY <1>3, SettledReads
<1>5. Options!Loaded(settingsFile)' = Options!Loaded(settingsFile')
  BY DEF Options!Loaded, Options!Language, Options!Tracking, Options!Provider, Options!OldTtl
<1> QED BY <1>3, <1>4, <1>5 DEF Means, Settled

LEMMA SettingsStart == ASSUME Options!Init PROVE SettingsInv
<1>1. DOMAIN settingsChosen = OfferedKeys /\ settingsChosen = Options!Meaning(settingsFile)
  BY DEF Options!Init, Options!Meaning, OfferedKeys
<1>2. DOMAIN settingsFile = Options!Keys /\ DOMAIN copy = Options!Keys /\ window = "closed"
  <2>1. copy = Options!Nothing /\ window = "closed"
          /\ settingsFile \in Options!Earlier \cup {Options!Nothing}
    BY DEF Options!Init
  <2>2. ASSUME NEW doc \in Options!Earlier PROVE DOMAIN doc = Options!Keys
    <3>1. PICK l \in {"en", "it"}, t \in {"72", "48"}, c \in {"on", "off"}, p
            \in {{}, {"on"}}, m \in {{}, {"yes"}} :
            doc = [Options!Nothing EXCEPT !.language = {l}, !.ttl = {t}, !.comparing = {c},
                   !.legacy = p,
                                          !.languageMark = m, !.exclude = {"on"}]
      BY DEF Options!Earlier
    <3> QED BY <3>1, KeysFit
  <2> QED BY <2>1, <2>2, KeysFit
<1>3. CASE settingsFile = Options!Nothing
  <2>1. \A k \in Options!Keys : settingsFile[k] = {}
          /\ Options!Over(Options!Defaults, settingsFile)[k] = Options!Defaults[k]
    BY <1>3, OverFits, KeysFit
  <2>2. /\ settingsFile["language"] = {} /\ settingsFile["ttl"] = {}
        /\ settingsFile["comparing"] = {} /\ settingsFile["legacy"] = {}
        /\ settingsFile["tracking"] = {} /\ settingsFile["provider"] = {}
        /\ settingsFile["exclude"] = {}
    BY <2>1 DEF Options!Keys, Options!Lists, Options!Scalars
  <2>3. /\ Options!Over(Options!Defaults, settingsFile)["language"] = {"auto"}
        /\ Options!Over(Options!Defaults, settingsFile)["ttl"] = {"24"}
        /\ Options!Over(Options!Defaults, settingsFile)["exclude"] = {"on"}
    BY <2>1, DefaultsFit DEF Options!Keys, Options!Lists, Options!Scalars
  <2>4. /\ Options!Language(settingsFile) = {"auto"}
        /\ Options!Provider(settingsFile) = {"disabled"} /\ ~Options!OldTtl(settingsFile)
        /\ Options!Tracking(settingsFile) = IF settingsEvidence THEN {"on"} ELSE {"off"}
    BY <2>2, <2>3 DEF Options!Language, Options!Provider, Options!Tracking, Options!OldTtl
  <2>5. /\ settingsChosen["language"] = "auto" /\ settingsChosen["ttl"] = "24"
        /\ settingsChosen["provider"] = "disabled"
        /\ settingsChosen["exclude"] = "on"
             /\ settingsChosen["tracking"] = IF settingsEvidence THEN "on" ELSE "off"
    BY <1>1, <2>2 DEF Options!Meaning
  <2> QED BY <1>1, <1>2, <2>3, <2>4, <2>5, LoadedFits DEF SettingsInv, Means, OfferedKeys
<1>4. CASE settingsFile \in Options!Earlier
  <2>1. PICK l \in {"en", "it"}, t \in {"72", "48"}, c \in {"on", "off"}, p \in {{}, {"on"}}, m
          \in {{}, {"yes"}} :
          settingsFile = [Options!Nothing EXCEPT !.language = {l}, !.ttl = {t},
                          !.comparing = {c}, !.legacy = p,
                                                 !.languageMark = m, !.exclude = {"on"}]
    BY <1>4 DEF Options!Earlier
  <2>2. /\ settingsFile["language"] = {l} /\ settingsFile["ttl"] = {t}
        /\ settingsFile["comparing"] = {c} /\ settingsFile["legacy"] = p
        /\ settingsFile["languageMark"] = m /\ settingsFile["exclude"] = {"on"}
        /\ settingsFile["tracking"] = {} /\ settingsFile["provider"] = {}
        /\ settingsFile["ttlMark"] = {}
    BY <2>1 DEF Options!Nothing, Options!Keys, Options!Lists, Options!Scalars
  <2>3. /\ Options!Over(Options!Defaults, settingsFile)["language"] = {l}
        /\ Options!Over(Options!Defaults, settingsFile)["ttl"] = {t}
        /\ Options!Over(Options!Defaults, settingsFile)["exclude"] = {"on"}
    BY <2>2, OverFits DEF Options!Keys, Options!Lists, Options!Scalars
  <2>4. /\ Options!Language(settingsFile) = {settingsChosen["language"]}
    BY <1>1, <2>2, <2>3 DEF Options!Language, Options!Meaning
  <2>5. (IF Options!OldTtl(settingsFile)
         THEN {"24"}
         ELSE Options!Over(Options!Defaults, settingsFile)["ttl"]) = {settingsChosen["ttl"]}
    BY <1>1, <2>2, <2>3 DEF Options!OldTtl, Options!Meaning
  <2>6. Options!Tracking(settingsFile) = {settingsChosen["tracking"]}
          /\ Options!Provider(settingsFile) = {settingsChosen["provider"]}
    BY <1>1, <2>2 DEF Options!Tracking, Options!Provider, Options!Meaning
  <2>7. settingsChosen["exclude"] = "on"
    BY <1>1 DEF Options!Meaning
  <2> QED BY <1>1, <1>2, <2>3, <2>4, <2>5, <2>6, <2>7, LoadedFits DEF SettingsInv, Means,
             OfferedKeys
<1> QED BY <1>3, <1>4 DEF Options!Init

\* Every writer stores the choices as they are, but those the user just changed.
LEMMA WriteStep ==
  ASSUME SettingsInv, NEW change, window' # "closed", UNCHANGED settingsEvidence,
         DOMAIN settingsChosen' = OfferedKeys,
         \A k \in OfferedKeys : IF change[k] = {} THEN settingsChosen'[k] = settingsChosen[k]
           ELSE change[k] = {settingsChosen'[k]},
         \/ Options!FromFile(change) /\ copy' = copy /\ window # "closed"
              /\ settingsChosen' = settingsChosen
         \/ Options!Fresh(change)
         \/ Options!FromCopy(change) /\ window # "closed"
  PROVE  SettingsInv'
<1>1. /\ DOMAIN settingsFile' = Options!Keys /\ Means(Options!Loaded(settingsFile))'
      /\ Settled(settingsFile') /\ \A k \in OfferedKeys :
           settingsFile'[k] = {settingsChosen'[k]}
  <2>1. CASE Options!FromFile(change) \/ Options!Fresh(change)
    BY <2>1, WriteFits DEF SettingsInv, Means, Options!FromFile, Options!Fresh
  <2>2. CASE Options!FromCopy(change) /\ window # "closed"
    BY <2>2, WriteFits DEF SettingsInv, Means, Options!FromCopy
  <2> QED BY <2>1, <2>2
<1>2. CASE copy' = settingsFile'
  BY <1>1, <1>2 DEF SettingsInv, Settled, Means
<1>3. CASE copy' = copy /\ window # "closed" /\ settingsChosen' = settingsChosen
  BY <1>1, <1>3 DEF SettingsInv, Settled, Means
<1> QED BY <1>2, <1>3 DEF Options!FromFile, Options!Fresh, Options!FromCopy

\* The file is read, and an upgrade may be written.
LEMMA ReadStep ==
  ASSUME SettingsInv, settingsFile' = Options!AfterLoad(settingsFile),
         copy' = Options!Loaded(settingsFile), UNCHANGED <<settingsEvidence, settingsChosen>>
  PROVE  SettingsInv'
<1>1. \A k \in OfferedKeys : Options!Loaded(settingsFile')[k] = {settingsChosen[k]}
  BY AfterLoadReads DEF SettingsInv, Means
<1>2. Options!Loaded(settingsFile)' = Options!Loaded(settingsFile')
  BY DEF Options!Loaded, Options!Language, Options!Tracking, Options!Provider, Options!OldTtl
<1>3. DOMAIN settingsFile' = Options!Keys
  BY LoadedFits DEF Options!AfterLoad, SettingsInv
<1>4. Settled(copy') /\ DOMAIN copy' = Options!Keys /\ \A k \in OfferedKeys :
    copy'[k] = {settingsChosen[k]}
  BY LoadedSettles, LoadedFits DEF SettingsInv, Means
<1> QED BY <1>1, <1>2, <1>3, <1>4 DEF SettingsInv, Means, Settled

LEMMA SameSettings ==
  ASSUME SettingsInv, UNCHANGED <<settingsFile, settingsEvidence, settingsChosen>>,
         copy' = copy, window # "closed" \/ window' = "closed"
  PROVE  SettingsInv'
<1>1. Options!Loaded(settingsFile)' = Options!Loaded(settingsFile)
  BY DEF Options!Loaded, Options!Language, Options!Tracking, Options!Provider, Options!OldTtl
<1> QED BY <1>1 DEF SettingsInv, Means, Settled

\* A change of one choice, and one of none.
LEMMA ChangeFits ==
  ASSUME NEW key \in OfferedKeys, NEW v, DOMAIN settingsChosen = OfferedKeys,
         Options!Chosen(Options!Change(key, v))
  PROVE  /\ DOMAIN settingsChosen' = OfferedKeys
         /\ \A k \in OfferedKeys :
              IF Options!Change(key, v)[k] = {} THEN settingsChosen'[k] = settingsChosen[k]
                ELSE Options!Change(key, v)[k] = {settingsChosen'[k]}
<1>1. \A k \in OfferedKeys : Options!Change(key, v)[k] = IF k = key THEN {v} ELSE {}
  BY KeysFit DEF Options!Change
<1>2. (CHOOSE x \in {v} : TRUE) = v
  OBVIOUS
<1>3. /\ DOMAIN settingsChosen' = OfferedKeys
      /\ \A k \in OfferedKeys :
           settingsChosen'[k] = IF Options!Change(key, v)[k] # {}
             THEN CHOOSE x \in Options!Change(key, v)[k] : TRUE ELSE settingsChosen[k]
  BY DEF Options!Chosen
<1> QED BY <1>1, <1>2, <1>3

LEMMA SettingsStep == ASSUME SettingsInv, [Options!Next]_(Options!vars) PROVE SettingsInv'
<1> USE DEF OfferedKeys
<1>1. CASE UNCHANGED Options!vars
  BY <1>1, SameSettings DEF Options!vars
<1>2. CASE Options!Start \/ Options!SaveOther
  <2>1. Options!Fresh(Options!Nothing) /\ UNCHANGED <<settingsEvidence, settingsChosen>>
          /\ window' # "closed"
    BY <1>2 DEF Options!Start, Options!SaveOther
  <2>2. DOMAIN settingsChosen = OfferedKeys /\ \A k \in OfferedKeys : Options!Nothing[k] = {}
    BY KeysFit DEF SettingsInv
  <2> QED BY <2>1, <2>2, WriteStep
<1>3. CASE Options!Quit
  <2>1. copy' = Options!Nothing /\ UNCHANGED <<settingsFile, settingsEvidence, settingsChosen>>
          /\ window' = "closed"
    BY <1>3 DEF Options!Quit
  <2>2. Options!Loaded(settingsFile)' = Options!Loaded(settingsFile)
    BY <2>1 DEF Options!Loaded, Options!Language, Options!Tracking, Options!Provider,
       Options!OldTtl
  <2> QED BY <2>1, <2>2, KeysFit DEF SettingsInv, Means
<1>4. CASE Options!Refresh \/ Options!OpenSettings
  BY <1>4, ReadStep DEF Options!Refresh, Options!OpenSettings
<1>5. CASE Options!CancelSettings
  BY <1>5, SameSettings DEF Options!CancelSettings
<1>6. CASE Options!EditsQueries \/ \E path \in AppLists : Options!OpenList(path)
  <2> DEFINE Writes(f, new) == /\ Options!FromFile([Options!Nothing EXCEPT ![f] = new])
                               /\ window = "open"
                               /\ UNCHANGED <<copy, window, settingsEvidence, settingsChosen>>
  <2>1. \E f \in {"queries", "recents"} : \E new : Writes(f, new)
    <3>1. ASSUME NEW q, NEW replaced, Options!SaveQuery(q, replaced)
          PROVE  /\ Options!FromFile([Options!Nothing EXCEPT
                        !["queries"] = {"list", q} \cup (Options!Stored(settingsFile,
                                                                        "queries") \ replaced)])
                 /\ window = "open"
                 /\ UNCHANGED <<copy, window, settingsEvidence, settingsChosen>>
      BY <3>1 DEF Options!SaveQuery
    <3>2. ASSUME NEW q, Options!DeleteQuery(q)
          PROVE  /\ Options!FromFile([Options!Nothing EXCEPT
                        !["queries"] = {"list"} \cup (Options!Stored(settingsFile,
                                                                     "queries") \ {q})])
                 /\ window = "open"
                 /\ UNCHANGED <<copy, window, settingsEvidence, settingsChosen>>
      BY <3>2 DEF Options!DeleteQuery
    <3>3. ASSUME NEW path, Options!OpenList(path)
          PROVE  /\ Options!FromFile([Options!Nothing EXCEPT
                        !["recents"] = {"list", path} \cup Options!Stored(settingsFile,
                                                                          "recents")])
                 /\ window = "open"
                 /\ UNCHANGED <<copy, window, settingsEvidence, settingsChosen>>
      BY <3>3 DEF Options!OpenList
    <3>4. ASSUME NEW q, NEW replaced, Options!SaveQuery(q, replaced)
          PROVE  \E new : Writes("queries", new)
      BY <3>1, <3>4
    <3>5. ASSUME NEW q, Options!DeleteQuery(q) PROVE \E new : Writes("queries", new)
      BY <3>2, <3>5
    <3>6. ASSUME NEW path, Options!OpenList(path) PROVE \E new : Writes("recents", new)
      BY <3>3, <3>6
    <3> HIDE DEF Writes
    <3>7. (\E new : Writes("queries", new)) \/ (\E new : Writes("recents", new))
      BY <1>6, <3>4, <3>5, <3>6, Zenon DEF Options!EditsQueries
    <3> QED BY <3>7
  <2>2. PICK f \in {"queries", "recents"} : \E new : Writes(f, new)
    BY <2>1
  <2>3. PICK new : Writes(f, new)
    BY <2>2
  <2>4. \A k \in OfferedKeys : [Options!Nothing EXCEPT ![f] = new][k] = {}
    BY <2>3, KeysFit
  <2>5. DOMAIN settingsChosen' = OfferedKeys /\ window' # "closed" /\ window # "closed"
    BY <2>3 DEF SettingsInv
  <2> DEFINE change == [Options!Nothing EXCEPT ![f] = new]
  <2> HIDE DEF change
  <2>6. Options!FromFile(change) /\ \A k \in OfferedKeys : change[k] = {}
    BY <2>3, <2>4 DEF change
  <2> QED BY <2>3, <2>5, <2>6, WriteStep
<1>7. CASE \E l \in Options!Offered.language, t \in Options!Offered.ttl, p
        \in Options!Offered.provider : Options!AcceptSettings(l, t, p)
  <2>1. PICK l \in Options!Offered.language, t \in Options!Offered.ttl, p
          \in Options!Offered.provider : Options!AcceptSettings(l, t, p)
    BY <1>7
  <2> DEFINE change == [Options!Nothing EXCEPT !.language = {l}, !.ttl = {t}, !.provider = {p}]
  <2>2. Options!FromCopy(change) /\ Options!Chosen(change) /\ window' = "open"
          /\ window = "dialog" /\ UNCHANGED settingsEvidence
    BY <2>1 DEF Options!AcceptSettings
  <2>3. /\ change["language"] = {l} /\ change["ttl"] = {t} /\ change["provider"] = {p}
        /\ change["tracking"] = {} /\ change["exclude"] = {}
    BY KeysFit DEF Options!Keys, Options!Lists, Options!Scalars
  <2> HIDE DEF change
  <2>4. \A v : (CHOOSE x \in {v} : TRUE) = v
    OBVIOUS
  <2>5. /\ DOMAIN settingsChosen' = OfferedKeys
        /\ \A k \in OfferedKeys :
             settingsChosen'[k] = IF change[k] # {} THEN CHOOSE v \in change[k] :
                 TRUE ELSE settingsChosen[k]
    BY <2>2 DEF Options!Chosen, SettingsInv
  <2>6. \A k \in OfferedKeys : IF change[k] = {} THEN settingsChosen'[k] = settingsChosen[k]
          ELSE change[k] = {settingsChosen'[k]}
    BY <2>3, <2>4, <2>5
  <2> QED BY <2>2, <2>5, <2>6, WriteStep
<1>8. CASE \E v \in Options!Offered.exclude : Options!ToggleExclude(v)
  <2>1. PICK v \in Options!Offered.exclude : Options!ToggleExclude(v)
    BY <1>8
  <2> DEFINE change == Options!Change("exclude", v)
  <2> HIDE DEF change
  <2>2. Options!FromCopy(change) /\ window' # "closed" /\ window # "closed"
          /\ UNCHANGED settingsEvidence
    BY <2>1 DEF Options!ToggleExclude, change
  <2>3. /\ DOMAIN settingsChosen' = OfferedKeys
        /\ \A k \in OfferedKeys :
             IF change[k] = {} THEN settingsChosen'[k] = settingsChosen[k]
               ELSE change[k] = {settingsChosen'[k]}
    BY <2>1, ChangeFits DEF Options!ToggleExclude, SettingsInv, change
  <2> QED BY <2>2, <2>3, WriteStep
<1>9. CASE \E v \in Options!Offered.tracking, c \in {"on", "off"} : Options!SaveTracking(v, c)
  <2>1. PICK v \in Options!Offered.tracking, c \in {"on", "off"} : Options!SaveTracking(v, c)
    BY <1>9
  <2> DEFINE change == [Options!Nothing EXCEPT !.tracking = {v}, !.comparing = {c}]
             told == Options!Change("tracking", v)
  <2>2. \A k \in OfferedKeys : change[k] = told[k]
    BY KeysFit DEF Options!Change, Options!Keys, Options!Lists, Options!Scalars
  <2> HIDE DEF change, told
  <2>3. Options!FromCopy(change) /\ window' # "closed" /\ window # "closed"
          /\ UNCHANGED settingsEvidence
    BY <2>1 DEF Options!SaveTracking, change
  <2>4. /\ DOMAIN settingsChosen' = OfferedKeys
        /\ \A k \in OfferedKeys :
             IF told[k] = {} THEN settingsChosen'[k] = settingsChosen[k]
               ELSE told[k] = {settingsChosen'[k]}
    BY <2>1, ChangeFits DEF Options!SaveTracking, SettingsInv, told
  <2>5. \A k \in OfferedKeys : IF change[k] = {} THEN settingsChosen'[k] = settingsChosen[k]
          ELSE change[k] = {settingsChosen'[k]}
    BY <2>2, <2>4
  <2> QED BY <2>3, <2>4, <2>5, WriteStep
<1> QED
  BY <1>1, <1>2, <1>3, <1>4, <1>5, <1>6, <1>7, <1>8, <1>9 DEF Options!Next

LEMMA SettingsInvMeans == ASSUME SettingsInv PROVE Options!SettingsKeepMeaning
<1>1. \A k \in OfferedKeys : Options!Loaded(Options!AfterLoad(settingsFile))[k]
        = Options!Loaded(settingsFile)[k]
  BY AfterLoadReads
<1> QED BY <1>1 DEF SettingsInv, Options!SettingsKeepMeaning, Means, Options!Headless

LEMMA OptionsMoves ==
  ASSUME [DeskNext]_deskVars, part = "settings"
  PROVE  [Options!Next]_(Options!vars)
  BY DEF DeskNext, deskVars, settingsVars, Options!vars

LEMMA OptionsStays == DeskSpec => [](part = "settings" => SettingsInv)
<1>1. DeskInit => (part = "settings" => SettingsInv)
  BY SettingsStart DEF DeskInit
<1>2. (part = "settings" => SettingsInv) /\ [DeskNext]_deskVars
        => (part = "settings" => SettingsInv)'
  BY PartStays, OptionsMoves, SettingsStep
<1> QED BY <1>1, <1>2, PTL DEF DeskSpec

(* However versions follow one another and whichever writers save, from   *)
(* the file, from the window's copy or from both, each offered setting is *)
(* what the user chose last (state.py, dialogs and windows).              *)
THEOREM SettingsAlwaysMean ==
  /\ Options!Spec => []Options!SettingsKeepMeaning
  /\ DeskSpec => []SettingsKeepMeaning
<1>1. Options!Init => SettingsInv
  BY SettingsStart
<1>2. SettingsInv /\ [Options!Next]_(Options!vars) => SettingsInv'
  BY SettingsStep
<1>3. SettingsInv => Options!SettingsKeepMeaning
  BY SettingsInvMeans
<1>4. (part = "settings" => SettingsInv) => SettingsKeepMeaning
  BY <1>3 DEF SettingsKeepMeaning
<1>5. Options!Spec => []Options!SettingsKeepMeaning
  BY <1>1, <1>2, <1>3, PTL DEF Options!Spec
<1>6. DeskSpec => []SettingsKeepMeaning
  BY <1>4, OptionsStays, PTL
<1> QED BY <1>5, <1>6

-----------------------------------------------------------------------------
(* Named custom views. A draft starts as a copy and meets only views it   *)
(* made or deleted itself; a view that it and the settings both have has  *)
(* the columns it had (DraftFits).                                        *)

OneView    == [name : ViewNames, columns : SUBSET Columns, wide : SUBSET Columns]
SavedViews == UNION {[S -> OneView] : S \in SUBSET Ids}
Shown      == [visible : SUBSET Columns, wide : SUBSET Columns]
Layouts    == [schema : {"none", "v1", "v2", "other"},
               preset : {"Basic", "Technical", "Custom"},
               active : [Views!Families -> Ids \cup {Views!NoView}],
               views : [Views!Families -> SavedViews]]
Drafts     == [open : {TRUE}, family : Views!Families, source : Views!Sources,
               initial : Ids \cup {Views!NoView},
               active : Ids \cup {Views!NoView}, views : SavedViews, id : Ids
                 \cup {Views!NoView},
               dirty : BOOLEAN, basis : SUBSET Columns, checks : SUBSET Columns]

\* What a load accepts: few views, each with a name of its own.
Loads(views) ==
  /\ IsFiniteSet(DOMAIN views) /\ Cardinality(DOMAIN views) <= MaxViews
  /\ \A v, w \in DOMAIN views : views[v].name = views[w].name => v = w

ViewsSavedFits(st) ==
  /\ st \in Layouts
  /\ \A f \in Views!Families : Loads(st.views[f])
       /\ st.active[f] \in DOMAIN st.views[f] \cup {Views!NoView}
  /\ ~Views!Supported(st) => \A f \in Views!Families : DOMAIN st.views[f] = {}

TableFits ==
  /\ header \in Shown /\ viewsSource \in Views!Sources /\ viewsRunning \in BOOLEAN
  /\ dropped \in BOOLEAN
  /\ old \in [Views!Families -> SUBSET Columns]
  /\ Views!TableShowsTheView

(* A draft starts as a copy and meets only views it made or deleted itself: a   *)
(* view both have has the columns it had, and its active view is the saved one  *)
(* or none.                                                                     *)
DraftFits ==
  /\ viewsDialog \in Drafts /\ Views!Family(viewsDialog.source) = viewsDialog.family
  /\ viewsDialog.checks \subseteq Applies[viewsDialog.source]
  /\ viewsDialog.basis \subseteq Applies[viewsDialog.source]
  /\ Loads(viewsDialog.views)
  /\ viewsDialog.active \in DOMAIN viewsDialog.views \cup {Views!NoView}
  /\ viewsDialog.active \in {saved.active[viewsDialog.family], Views!NoView}
  /\ viewsDialog.initial = Views!ActiveId(saved, viewsDialog.family)
  /\ viewsDialog.initial # Views!NoView /\ viewsDialog.active = Views!NoView
       => viewsDialog.dirty
  /\ \A v \in DOMAIN viewsDialog.views \cap DOMAIN saved.views[viewsDialog.family] :
       viewsDialog.views[v].columns = saved.views[viewsDialog.family][v].columns

ViewsInv ==
  /\ ViewsSavedFits(saved) /\ TableFits
  /\ viewsDialog = Views!Closed \/ viewsDialog \in Drafts
  /\ (viewsRunning /\ viewsDialog.open) => DraftFits

-----------------------------------------------------------------------------
\* Sets of the instance are counted as those of the library are.
LEMMA ViewsSets == \A S : Views!Cardinality(S) = Cardinality(S)
  BY DEF Views!Cardinality, Cardinality

LEMMA FamiliesFit == ASSUME NEW s \in Views!Sources PROVE Views!Family(s) \in Views!Families
  BY DEF Views!Family, Views!Families, Views!Sources

LEMMA VisibleFits ==
  ASSUME ViewsConstantsFit, NEW st \in Layouts, NEW s \in Views!Sources
  PROVE  /\ Views!Visible(st, s) \subseteq Applies[s] /\ Applies[s] \subseteq Columns
         /\ Views!Presented(st, s).visible = Views!Visible(st, s)
         /\ Views!Presented(st, s) \in Shown
         /\ \A h \in Shown : Views!Reapplied(st, s, h).visible = Views!Visible(st, s)
              /\ Views!Reapplied(st, s, h) \in Shown
         /\ Views!Basic(s) \subseteq Applies[s]
<1>1. Applies[s] \subseteq Columns /\ Views!Basic(s) \subseteq Applies[s]
        /\ Views!Family(s) \in Views!Families
  BY FamiliesFit DEF ViewsConstantsFit, Views!Basic
<1>2. Views!Visible(st, s) \subseteq Applies[s]
  BY <1>1 DEF Views!Visible, Views!BuiltIn
<1>3. ASSUME st.preset = "Custom", Views!HasActive(st, Views!Family(s))
      PROVE  st.views[Views!Family(s)][st.active[Views!Family(s)]].wide \subseteq Columns
  <2>1. st.views[Views!Family(s)] \in SavedViews
    BY <1>1 DEF Layouts
  <2>2. PICK S \in SUBSET Ids : st.views[Views!Family(s)] \in [S -> OneView]
    BY <2>1 DEF SavedViews
  <2> QED BY <1>3, <2>2 DEF Views!HasActive, OneView
<1> QED BY <1>1, <1>2, <1>3 DEF Views!Presented, Views!Reapplied, Views!Header, Shown

LEMMA WithFits ==
  ASSUME NEW views \in SavedViews, NEW id \in Ids, NEW view \in OneView
  PROVE  /\ Views!With(views, id, view) \in SavedViews
         /\ DOMAIN Views!With(views, id, view) = DOMAIN views \cup {id}
         /\ Views!With(views, id, view)[id] = view
         /\ \A v \in DOMAIN views : v # id => Views!With(views, id, view)[v] = views[v]
<1>1. PICK S \in SUBSET Ids : views \in [S -> OneView]
  BY DEF SavedViews
<1>2. Views!With(views, id, view) \in [S \cup {id} -> OneView]
  BY <1>1 DEF Views!With
<1> QED BY <1>1, <1>2 DEF Views!With, SavedViews

LEMMA WithoutFits ==
  ASSUME ViewsConstantsFit, NEW views \in SavedViews, NEW id \in Ids
  PROVE  /\ Views!Without(views, id) \in SavedViews
         /\ DOMAIN Views!Without(views, id) = DOMAIN views \ {id}
         /\ \A v \in DOMAIN Views!Without(views, id) : Views!Without(views, id)[v] = views[v]
         /\ Loads(views) => Loads(Views!Without(views, id))
<1>1. PICK S \in SUBSET Ids : views \in [S -> OneView]
  BY DEF SavedViews
<1>2. Views!Without(views, id) \in [S \ {id} -> OneView]
        /\ DOMAIN Views!Without(views, id) = DOMAIN views \ {id}
  BY <1>1 DEF Views!Without
<1>3. \A v \in DOMAIN Views!Without(views, id) : Views!Without(views, id)[v] = views[v]
  BY DEF Views!Without
<1>4. ASSUME Loads(views) PROVE Loads(Views!Without(views, id))
  <2>1. /\ IsFiniteSet(DOMAIN Views!Without(views, id))
        /\ Cardinality(DOMAIN Views!Without(views, id)) <= Cardinality(DOMAIN views)
    BY <1>2, <1>4, FS_Subset DEF Loads
  <2>2. /\ Cardinality(DOMAIN views) \in Nat
        /\ Cardinality(DOMAIN Views!Without(views, id)) \in Nat
        /\ Cardinality(DOMAIN views) <= MaxViews
    BY <1>4, <2>1, FS_CardinalityType DEF Loads
  <2> QED BY <1>2, <1>3, <1>4, <2>1, <2>2 DEF Loads, ViewsConstantsFit
<1> QED BY <1>2, <1>3, <1>4 DEF SavedViews

\* A view that keeps its name, or takes a new one while there is room.
LEMMA WithLoads ==
  ASSUME ViewsConstantsFit, NEW views \in SavedViews, Loads(views), NEW id \in Ids,
         NEW view \in OneView,
         ~Views!DuplicateName(views, id, view.name),
         id \in DOMAIN views \/ Cardinality(DOMAIN views) < MaxViews
  PROVE  Loads(Views!With(views, id, view))
<1> DEFINE w == Views!With(views, id, view)
<1>1. /\ DOMAIN w = DOMAIN views \cup {id} /\ w[id] = view
      /\ \A v \in DOMAIN views : v # id => w[v] = views[v]
  BY WithFits
<1> HIDE DEF w
<1>2. IsFiniteSet(DOMAIN w) /\ Cardinality(DOMAIN w) <= MaxViews
  <2>1. IsFiniteSet(DOMAIN views) /\ Cardinality(DOMAIN views) \in Nat
    BY FS_CardinalityType DEF Loads
  <2>2. CASE id \in DOMAIN views
    <3>1. DOMAIN w = DOMAIN views
      BY <1>1, <2>2
    <3> QED BY <3>1 DEF Loads
  <2>3. CASE id \notin DOMAIN views
    <3>1. IsFiniteSet(DOMAIN w) /\ Cardinality(DOMAIN w) = Cardinality(DOMAIN views) + 1
      BY <1>1, <2>1, <2>3, FS_AddElement
    <3> QED BY <2>1, <2>3, <3>1 DEF ViewsConstantsFit
  <2> QED BY <2>2, <2>3
<1>3. \A v, x \in DOMAIN w : w[v].name = w[x].name => v = x
  BY <1>1 DEF Loads, Views!DuplicateName
<1> QED BY <1>2, <1>3 DEF Loads, w

\* What the table writes into the active view: its source's columns, and nothing else.
LEMMA PersistedFits ==
  ASSUME ViewsConstantsFit, NEW st, ViewsSavedFits(st), NEW h \in Shown, NEW s \in Views!Sources
  PROVE  /\ ViewsSavedFits(Views!Persisted(st, h, s))
         /\ h.visible = Views!Visible(st, s)
              => h.visible = Views!Visible(Views!Persisted(st, h, s), s)
         /\ \A f \in Views!Families :
              \A v \in DOMAIN st.views[f] \cap DOMAIN Views!Persisted(st, h, s).views[f] :
              st.views[f][v].columns \ Applies[s]
                = Views!Persisted(st, h, s).views[f][v].columns \ Applies[s]
<1> DEFINE f == Views!Family(s)
           id == st.active[f]
           view == Views!Captured(st.views[f][id], h, s)
           new == Views!With(st.views[f], id, view)
<1>0. f \in Views!Families /\ st \in Layouts
  BY FamiliesFit DEF ViewsSavedFits
<1>1. CASE ~(st.preset = "Custom" /\ Views!HasActive(st, f))
  BY <1>1 DEF Views!Persisted
<1>2. CASE st.preset = "Custom" /\ Views!HasActive(st, f)
  <2>1. /\ Views!Persisted(st, h, s) = [st EXCEPT !.views[f] = new] /\ id \in DOMAIN st.views[f]
        /\ st.views[f] \in SavedViews /\ Views!Supported(st)
    BY <1>0, <1>2 DEF Views!Persisted, Views!HasActive, Layouts
  <2>2. id \in Ids /\ st.views[f][id] \in OneView
    <3>1. PICK S \in SUBSET Ids : st.views[f] \in [S -> OneView]
      BY <2>1 DEF SavedViews
    <3> QED BY <2>1, <3>1
  <2>3. Applies[s] \subseteq Columns
    BY DEF ViewsConstantsFit
  <2>4. /\ view \in OneView /\ view.name = st.views[f][id].name
        /\ view.columns = (st.views[f][id].columns \ Applies[s])
             \cup (h.visible \cap Applies[s])
    <3>1. /\ st.views[f][id].name \in ViewNames /\ st.views[f][id].columns \subseteq Columns
          /\ st.views[f][id].wide \subseteq Columns
      BY <2>2 DEF OneView
    <3>2. h.visible \subseteq Columns /\ h.wide \subseteq Columns
      BY DEF Shown
    <3> QED BY <2>3, <3>1, <3>2 DEF Views!Captured, Views!View, Views!Layout, OneView
  <2> HIDE DEF view
  <2>5. Loads(st.views[f]) /\ \A g \in Views!Families : Loads(st.views[g])
    BY <1>0 DEF ViewsSavedFits
  <2>6. ~Views!DuplicateName(st.views[f], id, view.name)
    BY <2>1, <2>4, <2>5 DEF Loads, Views!DuplicateName
  <2>7. /\ new \in SavedViews /\ DOMAIN new = DOMAIN st.views[f] /\ new[id] = view
        /\ \A v \in DOMAIN st.views[f] : v # id => new[v] = st.views[f][v]
    <3> HIDE DEF id, f
    <3>1. /\ new \in SavedViews /\ DOMAIN new = DOMAIN st.views[f] \cup {id} /\ new[id] = view
          /\ \A v \in DOMAIN st.views[f] : v # id => new[v] = st.views[f][v]
      <4>1. st.views[f] \in SavedViews /\ id \in Ids /\ view \in OneView
        BY <2>1, <2>2, <2>4
      <4> QED BY <4>1, WithFits
    <3> HIDE DEF new
    <3> QED BY <2>1, <3>1
  <2>8. Loads(new)
    <3> HIDE DEF id
    <3> QED BY <2>1, <2>2, <2>4, <2>5, <2>6, WithLoads
  <2> HIDE DEF new
  <2>9. /\ Views!Persisted(st, h, s) \in Layouts
        /\ Views!Persisted(st, h, s).views = [st.views EXCEPT ![f] = new]
        /\ Views!Persisted(st, h, s).active = st.active
        /\ Views!Persisted(st, h, s).schema = st.schema
        /\ Views!Persisted(st, h, s).preset = st.preset
    BY <1>0, <2>1, <2>7 DEF Layouts
  <2>10. ViewsSavedFits(Views!Persisted(st, h, s))
    <3>1. \A g \in Views!Families :
        Views!Persisted(st, h, s).views[g] = IF g = f THEN new ELSE st.views[g]
      BY <1>0, <2>9 DEF Layouts
    <3> QED BY <1>0, <2>1, <2>5, <2>7, <2>8, <2>9, <3>1 DEF ViewsSavedFits, Views!Supported
  <2>11. \A g \in Views!Families :
      Views!Persisted(st, h, s).views[g] = IF g = f THEN new ELSE st.views[g]
    BY <1>0, <2>9 DEF Layouts
  <2>12. Views!Visible(Views!Persisted(st, h, s), s) = new[id].columns \cap Applies[s]
    BY <1>0, <1>2, <2>1, <2>7, <2>9, <2>11 DEF Views!Visible, Views!HasActive, Views!Supported
  <2>13. new[id].columns \cap Applies[s] = h.visible \cap Applies[s]
    BY <2>4, <2>7
  <2>14. Views!Visible(st, s) \subseteq Applies[s]
    BY <1>0, VisibleFits
  <2>15. ASSUME NEW g \in Views!Families, NEW v \in DOMAIN st.views[g]
         PROVE  st.views[g][v].columns \ Applies[s]
                  = Views!Persisted(st, h, s).views[g][v].columns \ Applies[s]
    <3>1. CASE g = f /\ v = id
      BY <2>4, <2>7, <2>11, <3>1
    <3>2. CASE ~(g = f /\ v = id)
      BY <2>7, <2>11, <3>2
    <3> QED BY <3>1, <3>2
  <2> QED BY <2>10, <2>12, <2>13, <2>14, <2>15
<1> QED BY <1>1, <1>2

-----------------------------------------------------------------------------
LEMMA ViewsStart == ASSUME ViewsConstantsFit, Views!Init PROVE ViewsInv
<1>1. PICK schema \in {"none", "v1", "v2", "other"}, preset \in {"Basic", "Custom"} :
        saved = [schema |-> schema, preset |-> preset,
                 active |-> [f \in Views!Families |-> Views!NoView],
                 views |-> [f \in Views!Families |-> Views!NoViews]]
  BY DEF Views!Init
<1>2. Views!NoViews \in SavedViews /\ DOMAIN Views!NoViews = {}
  <2>1. Views!NoViews \in [{} -> OneView] /\ DOMAIN Views!NoViews = {}
    BY DEF Views!NoViews
  <2> QED BY <2>1 DEF SavedViews
<1>3. Loads(Views!NoViews)
  BY <1>2, FS_EmptySet DEF Loads, ViewsConstantsFit
<1>4. ViewsSavedFits(saved)
  BY <1>1, <1>2, <1>3 DEF ViewsSavedFits, Layouts
<1>5. TableFits
  BY DEF Views!Init, TableFits, Views!TableShowsTheView, Views!Sources, Views!Header, Shown
<1> QED BY <1>4, <1>5 DEF ViewsInv, Views!Init

\* Presets, the table, sources that come and go.
LEMMA TableStep ==
  ASSUME ViewsConstantsFit, ViewsInv,
         \/ Views!Quit \/ Views!SourceStep \/ Views!ResetLayout \/ Views!Reapply
         \/ UNCHANGED Views!vars
         \/ \E c \in Columns, widen \in BOOLEAN : Views!TouchHeader(c, widen)
         \/ \E p \in {"Basic", "Technical"} : Views!SelectPreset(p)
         \/ \E id \in Ids : Views!SelectView(id)
  PROVE  ViewsInv' /\ Views!KeepsOtherSource
<1> DEFINE Outcome ==
      /\ UNCHANGED old /\ viewsDialog' = viewsDialog /\ viewsSource' \in Views!Sources
      /\ viewsRunning' \in BOOLEAN /\ dropped' \in BOOLEAN
      /\ (viewsRunning' => viewsRunning) /\ ViewsSavedFits(saved)' /\ header' \in Shown
      /\ viewsRunning' /\ ~dropped' => header'.visible = Views!Visible(saved', viewsSource')
      /\ (saved' = saved \/ ~(viewsRunning' /\ viewsDialog.open))
      /\ Views!KeepsOtherSource
<1>0. ViewsSavedFits(saved) /\ saved \in Layouts /\ TableFits /\ viewsSource \in Views!Sources
        /\ header \in Shown
  BY DEF ViewsInv, ViewsSavedFits, TableFits
<1>1. \A s \in Views!Sources : Views!Presented(saved, s) \in Shown
        /\ Views!Presented(saved, s).visible = Views!Visible(saved, s)
  BY <1>0, VisibleFits
<1>2. saved' = saved => (ViewsSavedFits(saved)' /\ Views!KeepsOtherSource)
  BY <1>0 DEF Views!KeepsOtherSource
<1>3. ASSUME Views!Quit \/ UNCHANGED Views!vars PROVE Outcome
  <2>1. /\ UNCHANGED <<saved, old, viewsSource, header, viewsDialog, dropped>>
        /\ viewsRunning' \in BOOLEAN /\ (viewsRunning' => viewsRunning)
    <3>1. CASE Views!Quit
      BY <3>1 DEF Views!Quit
    <3>2. CASE UNCHANGED Views!vars
      <4>1. UNCHANGED <<saved, old, viewsRunning, viewsSource, header, viewsDialog, dropped>>
              /\ viewsRunning \in BOOLEAN
        BY <1>0, <3>2 DEF Views!vars, TableFits
      <4> QED BY <4>1
    <3> QED BY <1>3, <3>1, <3>2
  <2>2. viewsRunning' /\ ~dropped' => header'.visible = Views!Visible(saved', viewsSource')
    BY <1>0, <2>1 DEF TableFits, Views!TableShowsTheView
  <2>3. ViewsSavedFits(saved)' /\ Views!KeepsOtherSource /\ dropped' \in BOOLEAN
          /\ viewsSource' \in Views!Sources /\ header' \in Shown
    BY <1>0, <1>2, <2>1 DEF TableFits
  <2> QED BY <2>1, <2>2, <2>3
<1>4. ASSUME Views!Reapply PROVE Outcome
  <2>1. Views!Reapplied(saved, viewsSource, header) \in Shown
          /\ Views!Reapplied(saved, viewsSource, header).visible
               = Views!Visible(saved, viewsSource)
    BY <1>0, VisibleFits
  <2> QED BY <1>0, <1>2, <1>4, <2>1 DEF Views!Reapply, TableFits
<1>5. ASSUME Views!SourceStep PROVE Outcome
  <2>1. CASE \E s \in Views!Sources : viewsRunning /\ Views!Establish(s)
    BY <1>0, <1>1, <1>2, <2>1 DEF Views!Establish, TableFits
  <2>2. CASE Views!ScanPhone \/ Views!StartDiscovery \/ Views!EndDiscovery
    BY <1>0, <1>1, <1>2, <2>2 DEF Views!ScanPhone, Views!StartDiscovery, Views!EndDiscovery,
       Views!NoDialog, TableFits, Views!TableShowsTheView, Views!Sources
  <2> QED
    BY <1>5, <2>1, <2>2 DEF Views!SourceStep, Views!LoadFile, Views!ChooseApks,
       Views!RemoveLastApk, Views!ScanDone, Views!DiscoveryDone, Views!NoDialog, Views!Sources
<1>6. ASSUME Views!ResetLayout \/ \E c \in Columns,
             widen \in BOOLEAN : Views!TouchHeader(c, widen)
      PROVE  Outcome
  <2>1. /\ saved' = Views!Persisted(saved, header', viewsSource)
        /\ UNCHANGED <<old, viewsRunning, viewsSource, viewsDialog>>
        /\ viewsRunning /\ ~viewsDialog.open /\ dropped' \in {FALSE, dropped}
    BY <1>6 DEF Views!ResetLayout, Views!TouchHeader, Views!NoDialog
  <2>2. header' \in Shown /\ (dropped'
                     \/ header'.visible = Views!Visible(saved, viewsSource))
    <3>1. CASE Views!ResetLayout
      <4>1. Views!Visible(saved, viewsSource) \in SUBSET Columns
        BY <1>0, VisibleFits
      <4> HIDE DEF Outcome
      <4> QED BY <3>1, <4>1 DEF Views!ResetLayout, Views!Header, Shown
    <3>2. ASSUME NEW c \in Columns, NEW widen \in BOOLEAN, Views!TouchHeader(c, widen)
          PROVE  header' \in Shown /\ (dropped'
                     \/ header'.visible = Views!Visible(saved, viewsSource))
      BY <1>0, <3>2 DEF Views!TouchHeader, Shown, Views!NoDialog, TableFits,
         Views!TableShowsTheView
    <3> QED BY <1>6, <3>1, <3>2
  <2>3. /\ ViewsSavedFits(saved')
        /\ (dropped'
                     \/ header'.visible = Views!Visible(saved', viewsSource))
        /\ \A f \in Views!Families :
             \A v \in DOMAIN saved.views[f] \cap DOMAIN saved'.views[f] :
              saved.views[f][v].columns \ Applies[viewsSource]
                = saved'.views[f][v].columns \ Applies[viewsSource]
    BY <1>0, <2>1, <2>2, PersistedFits
  <2>4. Views!KeepsOtherSource
    BY <2>1, <2>3 DEF Views!KeepsOtherSource
  <2>5. ViewsSavedFits(saved)'
    BY <2>3 DEF ViewsSavedFits, Loads, Views!Supported
  <2> QED BY <1>0, <2>1, <2>2, <2>3, <2>4, <2>5 DEF TableFits
<1>7. ASSUME \/ \E p \in {"Basic", "Technical"} : Views!SelectPreset(p)
             \/ \E id \in Ids : Views!SelectView(id)
      PROVE  Outcome
  <2>1. /\ saved' \in Layouts /\ saved'.views = saved.views /\ saved'.schema = saved.schema
        /\ \A f \in Views!Families :
             saved'.active[f] = saved.active[f] \/ saved'.active[f] \in DOMAIN saved.views[f]
        /\ header' = Views!Presented(saved', viewsSource) /\ dropped' = FALSE
        /\ UNCHANGED <<old, viewsRunning, viewsSource, viewsDialog>>
        /\ ~viewsDialog.open
    <3>1. CASE \E p \in {"Basic", "Technical"} : Views!SelectPreset(p)
      BY <1>0, <3>1 DEF Views!SelectPreset, Views!NoDialog, Layouts
    <3>2. CASE \E id \in Ids : Views!SelectView(id)
      <4>1. PICK id \in Ids : Views!SelectView(id)
        BY <3>2
      <4> DEFINE g == Views!Family(viewsSource)
      <4>2. /\ saved' = [saved EXCEPT !.active = [@ EXCEPT ![g] = id], !.preset = "Custom"]
            /\ id \in DOMAIN saved.views[g] /\ g \in Views!Families
            /\ header' = Views!Presented(saved', viewsSource) /\ dropped' = FALSE
            /\ UNCHANGED <<old, viewsRunning, viewsSource, viewsDialog>> /\ ~viewsDialog.open
        BY <1>0, <4>1, FamiliesFit DEF Views!SelectView, Views!NoDialog
      <4> HIDE DEF g
      <4> QED BY <1>0, <4>2 DEF Layouts
    <3> QED BY <1>7, <3>1, <3>2
  <2>2. ViewsSavedFits(saved)'
    BY <1>0, <2>1 DEF ViewsSavedFits, Views!Supported
  <2>3. header' \in Shown /\ header'.visible = Views!Visible(saved', viewsSource)
    BY <1>0, <2>1, VisibleFits
  <2>4. Views!KeepsOtherSource
    BY <2>1 DEF Views!KeepsOtherSource
  <2> QED BY <1>0, <2>1, <2>2, <2>3, <2>4 DEF TableFits
<1>8. Outcome
  <2> HIDE DEF Outcome
  <2> QED BY <1>3, <1>4, <1>5, <1>6, <1>7
<1>9. TableFits'
  BY <1>0, <1>8 DEF TableFits, Views!TableShowsTheView
<1>10. (viewsRunning /\ viewsDialog.open)' => DraftFits'
  BY <1>8 DEF ViewsInv, DraftFits
<1> QED BY <1>8, <1>9, <1>10 DEF ViewsInv

\* What a draft knows of the views it came from does not depend on the other variables.
LEMMA SameSaved ==
  ASSUME ViewsConstantsFit, ViewsInv,
         UNCHANGED <<saved, old, viewsRunning, viewsSource, header, dropped>>
  PROVE  ViewsSavedFits(saved)' /\ TableFits' /\ Views!KeepsOtherSource
  BY DEF ViewsInv, ViewsSavedFits, TableFits, Views!TableShowsTheView, Views!KeepsOtherSource,
     Loads, Views!Supported, Views!Visible, Views!HasActive, Views!BuiltIn, Views!Basic

LEMMA PayloadFits ==
  ASSUME ViewsConstantsFit, ViewsInv, viewsRunning, viewsDialog.open
  PROVE  /\ Views!Payload.columns \subseteq Columns /\ Views!Payload.wide \subseteq Columns
         /\ viewsDialog.id \in DOMAIN viewsDialog.views =>
              Views!Payload.columns \ Applies[viewsDialog.source] =
                viewsDialog.views[viewsDialog.id].columns \ Applies[viewsDialog.source]
<1>1. DraftFits /\ viewsDialog \in Drafts /\ header \in Shown
  BY DEF ViewsInv, DraftFits, TableFits
<1>2. viewsDialog.views \in SavedViews /\ viewsDialog.source \in Views!Sources
        /\ viewsDialog.checks \subseteq Applies[viewsDialog.source]
  BY <1>1 DEF Drafts, DraftFits
<1>3. PICK S \in SUBSET Ids : viewsDialog.views \in [S -> OneView]
  BY <1>2 DEF SavedViews
<1>4. \A v \in Views!Chosen : v.columns \subseteq Columns /\ v.wide \subseteq Columns
  BY <1>3 DEF Views!Chosen, OneView
<1>5. Applies[viewsDialog.source] \subseteq Columns
  BY <1>2 DEF ViewsConstantsFit
<1>6. /\ Views!Payload.columns = viewsDialog.checks
           \cup UNION {v.columns \ Applies[viewsDialog.source] : v \in Views!Chosen}
      /\ Views!Payload.wide = IF Views!Chosen # {} THEN UNION {v.wide : v \in Views!Chosen}
                              ELSE header.wide \cap header.visible
                                     \cap Views!UserColumns(viewsDialog.family)
  BY DEF Views!Payload, Views!Layout
<1>7. header.wide \subseteq Columns
  BY <1>1 DEF Shown
<1>8. ASSUME viewsDialog.id \in DOMAIN viewsDialog.views
      PROVE  UNION {v.columns \ Applies[viewsDialog.source] : v \in Views!Chosen} =
               viewsDialog.views[viewsDialog.id].columns \ Applies[viewsDialog.source]
  BY <1>8 DEF Views!Chosen
<1> QED BY <1>2, <1>4, <1>5, <1>6, <1>7, <1>8

LEMMA OpenStep ==
  ASSUME ViewsConstantsFit, ViewsInv, Views!OpenDialog
  PROVE  ViewsInv' /\ Views!KeepsOtherSource
<1>1. ViewsSavedFits(saved)' /\ TableFits' /\ Views!KeepsOtherSource
  BY SameSaved DEF Views!OpenDialog
<1> DEFINE f == Views!Family(viewsSource)
           id == IF saved.preset = "Custom" THEN Views!ActiveId(saved, f) ELSE Views!NoView
           columns == Views!Visible(saved, viewsSource)
           checks == IF id \in DOMAIN saved.views[f]
             THEN saved.views[f][id].columns \cap Applies[viewsSource]
                     ELSE columns
<1>2. /\ viewsDialog' = [open |-> TRUE, family |-> f, source |-> viewsSource,
                         initial |-> Views!ActiveId(saved, f),
                         active |-> saved.active[f], views |-> saved.views[f], id |-> id,
                         dirty |-> FALSE,
                         basis |-> columns, checks |-> checks]
      /\ UNCHANGED <<saved, viewsRunning, viewsSource>>
  BY DEF Views!OpenDialog
<1>3. /\ saved \in Layouts /\ ViewsSavedFits(saved) /\ viewsSource \in Views!Sources
      /\ f \in Views!Families
      /\ saved.views[f] \in SavedViews /\ saved.active[f] \in Ids \cup {Views!NoView}
  BY FamiliesFit DEF ViewsInv, ViewsSavedFits, TableFits, Layouts
<1>4. columns \subseteq Applies[viewsSource] /\ Applies[viewsSource] \subseteq Columns
  BY <1>3, VisibleFits
<1>5. Views!ActiveId(saved, f) \in Ids \cup {Views!NoView} /\ id \in Ids \cup {Views!NoView}
      /\ (Views!ActiveId(saved, f) # Views!NoView => saved.active[f] # Views!NoView)
  BY <1>3 DEF Views!ActiveId, ViewsConstantsFit
<1>6. checks \subseteq Applies[viewsSource]
  BY <1>4
<1> HIDE DEF f, id, columns, checks
<1>7. viewsDialog' \in Drafts
  BY <1>2, <1>3, <1>4, <1>5, <1>6 DEF Drafts
<1>8. /\ Views!Family(viewsDialog'.source) = viewsDialog'.family
      /\ viewsDialog'.checks \subseteq Applies[viewsDialog'.source]
      /\ viewsDialog'.basis \subseteq Applies[viewsDialog'.source]
      /\ Loads(viewsDialog'.views)
      /\ viewsDialog'.active \in DOMAIN viewsDialog'.views \cup {Views!NoView}
      /\ viewsDialog'.active = saved'.active[viewsDialog'.family]
      /\ viewsDialog'.views = saved'.views[viewsDialog'.family]
      /\ viewsDialog'.initial = Views!ActiveId(saved', viewsDialog'.family)
      /\ (viewsDialog'.initial # Views!NoView => viewsDialog'.active # Views!NoView)
  BY <1>2, <1>3, <1>4, <1>5, <1>6 DEF ViewsSavedFits, f
<1>9. DraftFits'
  BY <1>7, <1>8 DEF DraftFits, Loads, Views!ActiveId, Views!HasActive, Views!Supported,
     Views!Family
<1> QED BY <1>1, <1>7, <1>9 DEF ViewsInv

\* Steps in the dialog work on its copy.
LEMMA DraftStep ==
  ASSUME ViewsConstantsFit, ViewsInv,
         \/ Views!ResetControls \/ Views!Delete
         \/ \E id \in Ids \cup {Views!NoView} : Views!Choose(id)
         \/ \E c \in Columns : Views!Tick(c)
         \/ \E name \in ViewNames : Views!Rename(name) \/ \E id \in Ids : Views!New(id, name)
  PROVE  ViewsInv' /\ Views!KeepsOtherSource
<1>1. Views!InDialog
  BY DEF Views!ResetControls, Views!Delete, Views!Choose, Views!Tick, Views!Rename, Views!New
<1>2. /\ ViewsSavedFits(saved)' /\ TableFits' /\ Views!KeepsOtherSource /\ viewsRunning
      /\ viewsDialog.open
      /\ UNCHANGED <<saved, viewsRunning>>
  BY <1>1, SameSaved DEF Views!InDialog
<1>3. DraftFits /\ ViewsSavedFits(saved) /\ saved \in Layouts /\ viewsDialog \in Drafts
  BY <1>2 DEF ViewsInv, DraftFits, ViewsSavedFits
<1> DEFINE d == viewsDialog
           Kept(views) == \A v \in DOMAIN views \cap DOMAIN saved.views[d.family] :
                            views[v].columns = saved.views[d.family][v].columns
           Redrawn == \E checks \in SUBSET Columns : checks \subseteq Applies[d.source] /\
                        \/ \E id \in Ids \cup {Views!NoView} :
                             viewsDialog' = [d EXCEPT !.id = id, !.checks = checks]
                        \/ \E id \in Ids \cup {Views!NoView}, views \in SavedViews, shownView
                             \in {d.active, Views!NoView} :
                             /\ Loads(views) /\ Kept(views)
                             /\ shownView \in DOMAIN views \cup {Views!NoView}
                             /\ viewsDialog' = [d EXCEPT !.views = views, !.id = id,
                                                !.dirty = TRUE,
                                                        !.active = shownView, !.checks = checks]
<1>4. /\ d.views \in SavedViews /\ Loads(d.views) /\ Kept(d.views)
      /\ d.active \in DOMAIN d.views \cup {Views!NoView}
      /\ d.checks \subseteq Applies[d.source] /\ d.basis \subseteq Applies[d.source]
      /\ d.source \in Views!Sources
      /\ d.family \in Views!Families /\ d.id \in Ids \cup {Views!NoView}
      /\ Applies[d.source] \subseteq Columns
      /\ d.active \in Ids \cup {Views!NoView} /\ d.dirty \in BOOLEAN
      /\ saved.views[d.family] \in SavedViews
  BY <1>3 DEF DraftFits, Drafts, ViewsConstantsFit, Layouts
<1>5. PICK S \in SUBSET Ids : d.views \in [S -> OneView]
  BY <1>4 DEF SavedViews
<1>6. ASSUME Redrawn PROVE ViewsInv'
  <2>1. PICK checks \in SUBSET Applies[d.source] :
          \/ \E id \in Ids \cup {Views!NoView} :
               viewsDialog' = [d EXCEPT !.id = id, !.checks = checks]
          \/ \E id \in Ids \cup {Views!NoView}, views \in SavedViews, shownView
               \in {d.active, Views!NoView} :
                /\ Loads(views) /\ Kept(views) /\ shownView \in DOMAIN views \cup {Views!NoView}
                /\ viewsDialog' = [d EXCEPT !.views = views, !.id = id, !.dirty = TRUE,
                                           !.active = shownView, !.checks = checks]
    BY <1>6, ZenonT(40)
  <2>2. CASE \E id \in Ids \cup {Views!NoView} :
      viewsDialog' = [d EXCEPT !.id = id, !.checks = checks]
    <3>1. PICK id \in Ids \cup {Views!NoView} :
        viewsDialog' = [d EXCEPT !.id = id, !.checks = checks]
      BY <2>2
    <3>2. viewsDialog' \in Drafts
      BY <1>3, <1>4, <3>1 DEF Drafts
    <3>3. DraftFits'
      BY <1>2, <1>3, <3>1, <3>2 DEF DraftFits, Loads, Views!ActiveId, Views!HasActive,
         Views!Supported, Drafts
    <3> QED BY <1>2, <3>2, <3>3 DEF ViewsInv
  <2>3. CASE \E id \in Ids \cup {Views!NoView}, views \in SavedViews, shownView
          \in {d.active, Views!NoView} :
                /\ Loads(views) /\ Kept(views) /\ shownView \in DOMAIN views \cup {Views!NoView}
                /\ viewsDialog' = [d EXCEPT !.views = views, !.id = id, !.dirty = TRUE,
                                           !.active = shownView, !.checks = checks]
    <3>1. PICK id \in Ids \cup {Views!NoView}, views \in SavedViews, shownView
            \in {d.active, Views!NoView} :
                /\ Loads(views) /\ Kept(views) /\ shownView \in DOMAIN views \cup {Views!NoView}
                /\ viewsDialog' = [d EXCEPT !.views = views, !.id = id, !.dirty = TRUE,
                                           !.active = shownView, !.checks = checks]
      BY <2>3
    <3>2. viewsDialog' \in Drafts
      BY <1>3, <1>4, <3>1 DEF Drafts
    <3>3. DraftFits'
      <4>1. /\ viewsDialog'.views = views /\ viewsDialog'.active = shownView
            /\ viewsDialog'.checks = checks /\ viewsDialog'.dirty
            /\ viewsDialog'.family = d.family /\ viewsDialog'.source = d.source
            /\ viewsDialog'.initial = d.initial
            /\ viewsDialog'.basis = d.basis
        BY <1>3, <3>1 DEF Drafts
      <4> QED
        BY <1>2, <1>3, <3>1, <3>2, <4>1 DEF DraftFits, Loads, Views!ActiveId, Views!HasActive,
           Views!Supported
    <3> QED BY <1>2, <3>2, <3>3 DEF ViewsInv
  <2> QED BY <2>1, <2>2, <2>3
<1>7. CASE Views!ResetControls \/ (\E c \in Columns : Views!Tick(c))
        \/ \E id \in Ids \cup {Views!NoView} : Views!Choose(id)
  <2>1. PICK id \in Ids \cup {Views!NoView}, checks \in SUBSET Applies[d.source] :
          viewsDialog' = [d EXCEPT !.id = id, !.checks = checks]
    <3>1. CASE Views!ResetControls
      <4>1. Views!Basic(d.source) \subseteq Applies[d.source]
        BY <1>3, <1>4, VisibleFits
      <4>2. viewsDialog' = [d EXCEPT !.id = d.id, !.checks = Views!Basic(d.source)]
        BY <1>3, <3>1 DEF Views!ResetControls, Drafts
      <4> QED BY <1>4, <4>1, <4>2
    <3>2. ASSUME NEW c \in Columns, Views!Tick(c)
          PROVE  \E id \in Ids \cup {Views!NoView}, checks \in SUBSET Applies[d.source] :
                   viewsDialog' = [d EXCEPT !.id = id, !.checks = checks]
      <4> DEFINE checks == IF c \in d.checks THEN d.checks \ {c} ELSE d.checks \cup {c}
      <4>1. viewsDialog' = [d EXCEPT !.id = d.id, !.checks = checks]
              /\ checks \in SUBSET Applies[d.source]
        BY <1>3, <1>4, <3>2 DEF Views!Tick, Drafts
      <4> QED BY <1>4, <4>1
    <3>3. ASSUME NEW id \in Ids \cup {Views!NoView}, Views!Choose(id)
          PROVE  \E checks \in SUBSET Applies[d.source] :
              viewsDialog' = [d EXCEPT !.id = id, !.checks = checks]
      BY <1>4, <3>3 DEF Views!Choose, Views!Checks
    <3> QED BY <1>7, <3>1, <3>2, <3>3
  <2>2. Redrawn
    BY <1>4, <2>1
  <2> QED BY <1>2, <1>6, <2>2
<1>8. CASE Views!Delete
  <2>1. d.id \in Ids /\ d.id \in DOMAIN d.views
    BY <1>5, <1>8 DEF Views!Delete
  <2> DEFINE views == Views!Without(d.views, d.id)
             shownView == IF d.active = d.id THEN Views!NoView ELSE d.active
  <2>2. views \in SavedViews /\ Loads(views) /\ Kept(views)
          /\ DOMAIN views = DOMAIN d.views \ {d.id}
    <3>1. /\ views \in SavedViews /\ Loads(views) /\ DOMAIN views = DOMAIN d.views \ {d.id}
          /\ \A v \in DOMAIN views : views[v] = d.views[v]
      BY <1>4, <2>1, WithoutFits
    <3> HIDE DEF views
    <3>2. Kept(views)
      BY <1>4, <3>1
    <3> QED BY <3>1, <3>2
  <2>3. viewsDialog' = [d EXCEPT !.views = views, !.id = Views!NoView, !.dirty = TRUE,
                        !.active = shownView, !.checks = d.basis]
    BY <1>3, <1>8 DEF Views!Delete
  <2> HIDE DEF views
  <2>4. Redrawn
    BY <1>4, <2>2, <2>3
  <2> QED BY <1>2, <1>6, <2>4
<1>9. ASSUME NEW name \in ViewNames, Views!Rename(name) PROVE ViewsInv'
  <2>1. d.id \in Ids /\ d.id \in DOMAIN d.views /\ ~Views!DuplicateName(d.views, d.id, name)
    BY <1>5, <1>9 DEF Views!Rename, Views!MayRename
  <2> DEFINE fresh == [d.views[d.id] EXCEPT !.name = name]
             views == Views!With(d.views, d.id, fresh)
  <2>2. fresh \in OneView /\ fresh.columns = d.views[d.id].columns /\ fresh.name = name
    BY <1>5, <2>1 DEF OneView
  <2>3. views = [d.views EXCEPT ![d.id] = fresh]
    BY <1>5, <2>1 DEF Views!With
  <2>4. /\ views \in SavedViews /\ DOMAIN views = DOMAIN d.views \cup {d.id}
        /\ views[d.id] = fresh
        /\ \A v \in DOMAIN d.views : v # d.id => views[v] = d.views[v]
    <3> HIDE DEF fresh, views
    <3>1. views \in [S -> OneView]
      BY <1>5, <2>2, <2>3
    <3>2. views \in SavedViews
      BY <3>1 DEF SavedViews
    <3> QED BY <1>5, <2>1, <2>2, <2>3, <3>1, <3>2
  <2>5. Loads(views)
    BY <1>4, <2>1, <2>2, WithLoads
  <2>6. viewsDialog' = [d EXCEPT !.views = views, !.id = d.id, !.dirty = TRUE,
                        !.active = d.active, !.checks = d.checks]
    BY <1>3, <1>9, <2>3 DEF Views!Rename, Drafts
  <2> HIDE DEF views, fresh
  <2>7. Kept(views) /\ DOMAIN views = DOMAIN d.views
    BY <1>4, <2>1, <2>2, <2>4
  <2>8. Redrawn
    BY <1>4, <2>4, <2>5, <2>6, <2>7
  <2> QED BY <1>6, <2>8
<1>10. ASSUME NEW name \in ViewNames, NEW id \in Ids, Views!New(id, name) PROVE ViewsInv'
  <2>1. /\ id \notin DOMAIN d.views /\ id \notin DOMAIN saved.views[d.family]
        /\ Cardinality(DOMAIN d.views) < MaxViews /\ ~Views!DuplicateName(d.views, id, name)
    BY <1>10, ViewsSets DEF Views!New
  <2> DEFINE view == Views!View(name, Views!Payload)
             views == Views!With(d.views, id, view)
             checks == Views!Payload.columns \cap Applies[d.source]
  <2>2. view \in OneView /\ view.name = name /\ checks \subseteq Applies[d.source]
    BY <1>2, PayloadFits DEF Views!View, OneView
  <2>3. viewsDialog' = [d EXCEPT !.views = views, !.id = id, !.dirty = TRUE,
                        !.active = d.active, !.checks = checks]
    BY <1>3, <1>10 DEF Views!New, Drafts
  <2> HIDE DEF view, checks
  <2>4. /\ views \in SavedViews /\ DOMAIN views = DOMAIN d.views \cup {id}
        /\ \A v \in DOMAIN d.views : v # id => views[v] = d.views[v]
    <3>1. d.views \in SavedViews /\ view \in OneView
      BY <1>4, <2>2
    <3> QED BY <3>1, WithFits
  <2>5. Loads(views)
    BY <1>4, <2>1, <2>2, WithLoads
  <2> HIDE DEF views
  <2>6. Kept(views)
    BY <1>4, <2>1, <2>4
  <2>7. Redrawn
    BY <1>4, <2>2, <2>3, <2>4, <2>5, <2>6
  <2> QED BY <1>6, <2>7
<1> QED BY <1>2, <1>7, <1>8, <1>9, <1>10

LEMMA EndDialogStep ==
  ASSUME ViewsConstantsFit, ViewsInv, Views!Cancel \/ Views!SaveDraft \/ Views!SaveChosen
  PROVE  ViewsInv' /\ Views!KeepsOtherSource
<1>1. /\ viewsRunning /\ viewsDialog.open /\ viewsDialog' = Views!Closed
      /\ UNCHANGED <<old, viewsRunning, viewsSource>>
  BY DEF Views!Cancel, Views!SaveDraft, Views!SaveChosen
<1>2. DraftFits /\ ViewsSavedFits(saved) /\ saved \in Layouts /\ viewsDialog \in Drafts
        /\ TableFits
  BY <1>1 DEF ViewsInv, DraftFits, ViewsSavedFits
<1> DEFINE f == viewsDialog.family
<1>3. /\ viewsDialog.views \in SavedViews /\ Loads(viewsDialog.views) /\ f \in Views!Families
      /\ viewsDialog.source \in Views!Sources
      /\ viewsDialog.active \in Ids \cup {Views!NoView}
      /\ viewsDialog.active \in DOMAIN viewsDialog.views \cup {Views!NoView}
      /\ viewsSource \in Views!Sources /\ header \in Shown /\ dropped \in BOOLEAN
  BY <1>2 DEF DraftFits, Drafts, TableFits
<1>4. PICK S \in SUBSET Ids : viewsDialog.views \in [S -> OneView]
  BY <1>3 DEF SavedViews
<1>5. ~viewsDialog'.open
  BY <1>1 DEF Views!Closed
<1>6. ASSUME ViewsSavedFits(saved)', header' \in Shown, dropped' \in BOOLEAN,
             dropped' \/ header'.visible = Views!Visible(saved', viewsSource'),
             \A g \in Views!Families :
                 \A v \in DOMAIN saved.views[g] \cap DOMAIN saved'.views[g] :
               saved.views[g][v].columns \ Applies[viewsDialog.source] =
                 saved'.views[g][v].columns \ Applies[viewsDialog.source]
      PROVE  ViewsInv' /\ Views!KeepsOtherSource
  <2>1. TableFits'
    BY <1>1, <1>2, <1>6 DEF TableFits, Views!TableShowsTheView
  <2>2. Views!KeepsOtherSource
    BY <1>1, <1>6 DEF Views!KeepsOtherSource
  <2> QED BY <1>1, <1>5, <1>6, <2>1, <2>2 DEF ViewsInv
<1>7. CASE UNCHANGED <<saved, header, dropped>>
  <2>1. ViewsSavedFits(saved)' /\ TableFits' /\ Views!KeepsOtherSource
    BY <1>1, <1>7, SameSaved
  <2> QED BY <1>1, <1>5, <2>1 DEF ViewsInv
<1>8. ASSUME NEW views \in SavedViews, Loads(views),
             NEW shownView \in DOMAIN views \cup {Views!NoView},
             shownView \in Ids \cup {Views!NoView}, Views!Supported(saved),
             NEW preset \in {"Basic", "Technical", "Custom"},
             saved' = [saved EXCEPT !.views[f] = views, !.active[f] = shownView,
                       !.preset = preset],
             \A v \in DOMAIN views \cap DOMAIN saved.views[f] :
               views[v].columns \ Applies[viewsDialog.source]
                 = saved.views[f][v].columns \ Applies[viewsDialog.source]
      PROVE  /\ ViewsSavedFits(saved)' /\ saved' \in Layouts
             /\ saved'.preset = preset /\ saved'.schema = saved.schema
             /\ \A g \in Views!Families : /\ saved'.views[g]
                                               = (IF g = f THEN views ELSE saved.views[g])
                                          /\ saved'.active[g]
                                               = (IF g = f THEN shownView ELSE saved.active[g])
             /\ \A g \in Views!Families :
                  \A v \in DOMAIN saved.views[g] \cap DOMAIN saved'.views[g] :
                  saved.views[g][v].columns \ Applies[viewsDialog.source] =
                    saved'.views[g][v].columns \ Applies[viewsDialog.source]
  <2>1. saved' = [saved EXCEPT !.views = [@ EXCEPT ![f] = views],
                  !.active = [@ EXCEPT ![f] = shownView],
                               !.preset = preset]
    BY <1>8
  <2> HIDE DEF f
  <2>2. /\ saved'.views = [saved.views EXCEPT ![f] = views]
        /\ saved'.active = [saved.active EXCEPT ![f] = shownView]
        /\ saved'.preset = preset /\ saved'.schema = saved.schema
    BY <1>2, <2>1 DEF Layouts
  <2>3. saved' \in Layouts
    <3>1. /\ [saved.views EXCEPT ![f] = views] \in [Views!Families -> SavedViews]
          /\ [saved.active EXCEPT ![f] = shownView]
               \in [Views!Families -> Ids \cup {Views!NoView}]
      BY <1>2, <1>3, <1>8 DEF Layouts
    <3> QED BY <1>2, <1>8, <2>1, <3>1 DEF Layouts
  <2>4. \A g \in Views!Families : /\ saved'.views[g] = (IF g = f THEN views ELSE saved.views[g])
                                  /\ saved'.active[g]
                                       = (IF g = f THEN shownView ELSE saved.active[g])
    BY <1>2, <1>3, <2>2 DEF Layouts
  <2>5. ViewsSavedFits(saved)'
    <3>1. ASSUME NEW g \in Views!Families
          PROVE  Loads(saved'.views[g])
                   /\ saved'.active[g] \in DOMAIN saved'.views[g] \cup {Views!NoView}
      BY <1>2, <1>8, <2>4 DEF ViewsSavedFits
    <3>2. Views!Supported(saved')
      BY <1>8, <2>2 DEF Views!Supported
    <3> QED BY <2>3, <3>1, <3>2 DEF ViewsSavedFits, Loads, Views!Supported
  <2> QED BY <1>8, <2>2, <2>3, <2>4, <2>5
<1>9. CASE Views!SaveChosen
  <2> DEFINE id == viewsDialog.id
             view == Views!View(viewsDialog.views[id].name, Views!Payload)
             views == Views!With(viewsDialog.views, id, view)
  <2>1. /\ id \in DOMAIN viewsDialog.views /\ Views!Supported(saved)
        /\ header' = Views!AfterSave(saved') /\ dropped' = FALSE
        /\ saved' = [saved EXCEPT !.views[f] = views, !.active[f] = id, !.preset = "Custom"]
    BY <1>9 DEF Views!SaveChosen
  <2>2. /\ view \in OneView /\ view.name = viewsDialog.views[id].name
        /\ view.columns \ Applies[viewsDialog.source]
             = viewsDialog.views[id].columns \ Applies[viewsDialog.source]
    <3>1. viewsDialog.views[id].name \in ViewNames
      BY <1>4, <2>1 DEF OneView
    <3> QED BY <1>1, <2>1, <3>1, PayloadFits DEF Views!View, OneView
  <2>3. id \in Ids
    BY <1>4, <2>1
  <2> HIDE DEF view, id
  <2>4. /\ views \in SavedViews /\ DOMAIN views = DOMAIN viewsDialog.views \cup {id}
        /\ views[id] = view
        /\ \A v \in DOMAIN viewsDialog.views : v # id => views[v] = viewsDialog.views[v]
    <3>1. viewsDialog.views \in SavedViews /\ id \in Ids /\ view \in OneView
      BY <1>3, <2>2, <2>3
    <3> QED BY <3>1, WithFits
  <2>5. ~Views!DuplicateName(viewsDialog.views, id, view.name)
    BY <1>3, <2>1, <2>2 DEF Loads, Views!DuplicateName
  <2>6. Loads(views)
    BY <1>3, <2>1, <2>2, <2>3, <2>5, WithLoads
  <2> HIDE DEF views
  <2>7. \A v \in DOMAIN views \cap DOMAIN saved.views[f] :
          views[v].columns \ Applies[viewsDialog.source]
            = saved.views[f][v].columns \ Applies[viewsDialog.source]
    BY <1>2, <2>1, <2>2, <2>4 DEF DraftFits
  <2>8. id \in DOMAIN views \cup {Views!NoView}
    BY <2>4
  <2>9. /\ ViewsSavedFits(saved)' /\ saved' \in Layouts
        /\ \A g \in Views!Families :
             \A v \in DOMAIN saved.views[g] \cap DOMAIN saved'.views[g] :
              saved.views[g][v].columns \ Applies[viewsDialog.source] =
                saved'.views[g][v].columns \ Applies[viewsDialog.source]
    BY <1>8, <2>1, <2>3, <2>4, <2>6, <2>7, <2>8
  <2>10. header' \in Shown /\ header'.visible = Views!Visible(saved', viewsSource)
    BY <1>3, <2>1, <2>9, VisibleFits DEF Views!AfterSave
  <2> QED BY <1>1, <1>6, <2>1, <2>9, <2>10
<1>10. CASE Views!SaveDraft /\ viewsDialog.dirty /\ Views!Supported(saved)
  <2> DEFINE lost == viewsDialog.initial # Views!NoView
        /\ viewsDialog.active \notin DOMAIN viewsDialog.views
             preset == IF lost THEN "Basic" ELSE saved.preset
  <2>1. /\ saved' = [saved EXCEPT !.views[f] = viewsDialog.views,
                     !.active[f] = viewsDialog.active, !.preset = preset]
        /\ header' = IF lost THEN Views!Presented(saved', viewsSource) ELSE header
        /\ dropped' = (dropped /\ ~lost)
    BY <1>2, <1>10 DEF Views!SaveDraft, Layouts
  <2>2. preset \in {"Basic", "Technical", "Custom"}
    BY <1>2 DEF Layouts
  <2>3. \A v \in DOMAIN viewsDialog.views \cap DOMAIN saved.views[f] :
          /\ viewsDialog.views[v].columns = saved.views[f][v].columns
          /\ viewsDialog.views[v].columns \ Applies[viewsDialog.source]
               = saved.views[f][v].columns \ Applies[viewsDialog.source]
    BY <1>2 DEF DraftFits
  <2>4. /\ ViewsSavedFits(saved)' /\ saved' \in Layouts /\ saved'.preset = preset
        /\ saved'.schema = saved.schema
        /\ \A g \in Views!Families : /\ saved'.views[g]
                                          = (IF g = f THEN viewsDialog.views ELSE saved.views[g])
                                     /\ saved'.active[g]
                                          = (IF g = f
                                             THEN viewsDialog.active
                                             ELSE saved.active[g])
        /\ \A g \in Views!Families :
             \A v \in DOMAIN saved.views[g] \cap DOMAIN saved'.views[g] :
              saved.views[g][v].columns \ Applies[viewsDialog.source] =
                saved'.views[g][v].columns \ Applies[viewsDialog.source]
    <3> HIDE DEF preset, lost
    <3>1. /\ viewsDialog.views \in SavedViews /\ Loads(viewsDialog.views)
          /\ viewsDialog.active \in DOMAIN viewsDialog.views \cup {Views!NoView}
          /\ viewsDialog.active \in Ids \cup {Views!NoView} /\ Views!Supported(saved)
          /\ preset \in {"Basic", "Technical", "Custom"}
          /\ saved' = [saved EXCEPT !.views[f] = viewsDialog.views,
                       !.active[f] = viewsDialog.active, !.preset = preset]
          /\ \A v \in DOMAIN viewsDialog.views \cap DOMAIN saved.views[f] :
               viewsDialog.views[v].columns \ Applies[viewsDialog.source]
                 = saved.views[f][v].columns \ Applies[viewsDialog.source]
      BY <1>3, <1>10, <2>1, <2>2, <2>3
    <3> HIDE DEF f
    <3> QED BY <1>8, <3>1, ZenonT(40)
  <2>5. CASE lost
    BY <1>1, <1>3, <1>6, <2>1, <2>4, <2>5, VisibleFits
  <2>6. CASE ~lost
    <3>1. Views!Visible(saved', viewsSource) = Views!Visible(saved, viewsSource)
      <4>0. saved'.preset = saved.preset /\ saved'.schema = saved.schema
        BY <2>4, <2>6
      <4>1. CASE saved.preset # "Custom"
        BY <4>0, <4>1 DEF Views!Visible, Views!BuiltIn, Views!Basic
      <4>2. CASE saved.preset = "Custom" /\ Views!Family(viewsSource) # f
        BY <1>3, <2>4, <2>6, <4>2, FamiliesFit DEF Views!Visible, Views!HasActive,
           Views!Supported
      <4>3. CASE saved.preset = "Custom" /\ Views!Family(viewsSource) = f
              /\ Views!HasActive(saved, f)
        <5>1. saved.active[f] # Views!NoView
          BY <1>2, <1>3, <4>3 DEF Views!HasActive, Layouts, SavedViews, ViewsConstantsFit
        <5>2. viewsDialog.initial # Views!NoView
                /\ viewsDialog.active \in DOMAIN viewsDialog.views
          BY <1>2, <2>6, <4>3, <5>1 DEF DraftFits, Views!ActiveId
        <5>3. viewsDialog.active # Views!NoView
          BY <1>4, <5>2 DEF ViewsConstantsFit
        <5>4. viewsDialog.active = saved.active[f]
          BY <1>2, <5>3 DEF DraftFits
        <5> QED BY <1>3, <2>3, <2>4, <2>6, <4>3, <5>2, <5>4 DEF Views!Visible,
                   Views!HasActive, Views!Supported
      <4>4. CASE saved.preset = "Custom" /\ Views!Family(viewsSource) = f
              /\ ~Views!HasActive(saved, f)
        <5>1. saved.active[f] = Views!NoView
          BY <1>2, <1>3, <1>10, <4>4 DEF ViewsSavedFits, Views!HasActive
        <5>2. viewsDialog.active = Views!NoView
                /\ viewsDialog.active \notin DOMAIN viewsDialog.views
          BY <1>2, <1>4, <5>1 DEF DraftFits, ViewsConstantsFit
        <5> QED BY <1>3, <2>4, <2>6, <4>4, <5>2 DEF Views!Visible, Views!HasActive,
                   Views!Supported
      <4> QED BY <4>1, <4>2, <4>3, <4>4
    <3>2. header' = header /\ dropped' = dropped
      BY <1>3, <2>1, <2>6
    <3>3. dropped \/ header.visible = Views!Visible(saved, viewsSource)
      BY <1>1, <1>2 DEF TableFits, Views!TableShowsTheView
    <3> HIDE DEF lost, preset
    <3> QED BY <1>1, <1>3, <1>6, <2>4, <3>1, <3>2, <3>3
  <2> QED BY <2>5, <2>6
<1> QED BY <1>7, <1>9, <1>10 DEF Views!Cancel, Views!SaveDraft

(* A start takes over the layout of an earlier version. *)
LEMMA StartStep ==
  ASSUME ViewsConstantsFit, ViewsInv, Views!Start
  PROVE  ViewsInv' /\ Views!KeepsOtherSource
<1>1. ViewsSavedFits(saved) /\ saved \in Layouts /\ old \in [Views!Families -> SUBSET Columns]
  BY DEF ViewsInv, ViewsSavedFits, TableFits
<1> DEFINE v0 == CHOOSE v \in Ids : TRUE
           n0 == CHOOSE n \in ViewNames : TRUE
<1>2. v0 \in Ids /\ n0 \in ViewNames
  BY DEF ViewsConstantsFit
<1>3. Views!NoViews \in SavedViews /\ DOMAIN Views!NoViews = {} /\ Loads(Views!NoViews)
  <2>1. Views!NoViews \in [{} -> OneView] /\ DOMAIN Views!NoViews = {}
    BY DEF Views!NoViews
  <2>2. Views!NoViews \in SavedViews
    BY <2>1 DEF SavedViews
  <2>3. Loads(Views!NoViews)
    BY <2>1, FS_EmptySet DEF Loads, ViewsConstantsFit
  <2> QED BY <2>1, <2>2, <2>3
<1>4. ASSUME NEW f \in Views!Families
      PROVE  /\ Views!Custom1(f) \in SavedViews /\ Loads(Views!Custom1(f))
             /\ Views!Custom1(f) # Views!NoViews => v0 \in DOMAIN Views!Custom1(f)
  <2> DEFINE view == Views!View(n0, Views!Layout(old[f] \cap Views!UserColumns(f), {}))
  <2>1. view \in OneView /\ view.name = n0
    <3>1. old[f] \subseteq Columns
      BY <1>1
    <3> QED BY <1>2, <3>1 DEF Views!View, Views!Layout, OneView
  <2>2. Views!Custom1(f) = Views!NoViews
          \/ Views!Custom1(f) = Views!With(Views!NoViews, v0, view)
    BY DEF Views!Custom1
  <2> HIDE DEF view, v0
  <2>3. Cardinality(DOMAIN Views!NoViews) < MaxViews
          /\ ~Views!DuplicateName(Views!NoViews, v0, view.name)
    BY <1>3, FS_EmptySet DEF ViewsConstantsFit, Views!DuplicateName
  <2>4. Views!With(Views!NoViews, v0, view) \in SavedViews
          /\ v0 \in DOMAIN Views!With(Views!NoViews, v0, view)
    <3>1. Views!NoViews \in SavedViews /\ v0 \in Ids /\ view \in OneView
      BY <1>2, <1>3, <2>1
    <3>2. /\ Views!With(Views!NoViews, v0, view) \in SavedViews
          /\ DOMAIN Views!With(Views!NoViews, v0, view) = DOMAIN Views!NoViews \cup {v0}
      BY <3>1, WithFits
    <3> QED BY <3>2
  <2>5. Loads(Views!With(Views!NoViews, v0, view))
    BY <1>2, <1>3, <2>1, <2>3, WithLoads
  <2> QED BY <1>3, <2>2, <2>4, <2>5
<1>5. ViewsSavedFits(Views!Migrated(saved)) /\ Views!Migrated(saved) \in Layouts
      /\ \/ Views!Migrated(saved).views = saved.views
         \/ \A f \in Views!Families : DOMAIN saved.views[f] = {}
  <2>1. CASE saved.schema = "v1" \/ (saved.schema = "none"
                                       /\ \E f \in Views!Families : old[f] # {})
    <3> DEFINE views == [f \in Views!Families |-> Views!Custom1(f)]
               shownView == [f \in Views!Families |-> IF Views!Custom1(f) = Views!NoViews
                                                      THEN Views!NoView
                                                      ELSE CHOOSE v \in Ids : TRUE]
    <3>1. Views!Migrated(saved) = [saved EXCEPT !.schema = "v2", !.views = views,
                                   !.active = shownView]
      BY <2>1 DEF Views!Migrated
    <3>2. views \in [Views!Families -> SavedViews]
            /\ shownView \in [Views!Families -> Ids \cup {Views!NoView}]
      BY <1>2, <1>4
    <3>3. \A f \in Views!Families :
        Loads(views[f]) /\ shownView[f] \in DOMAIN views[f] \cup {Views!NoView}
      BY <1>4
    <3> HIDE DEF views, shownView
    <3>4. /\ Views!Migrated(saved) \in Layouts /\ Views!Migrated(saved).views = views
          /\ Views!Migrated(saved).active = shownView
          /\ Views!Migrated(saved).schema = "v2"
      BY <1>1, <3>1, <3>2 DEF Layouts
    <3>5. \A f \in Views!Families : DOMAIN saved.views[f] = {}
      BY <1>1, <2>1 DEF ViewsSavedFits, Views!Supported
    <3> QED BY <3>3, <3>4, <3>5 DEF ViewsSavedFits, Views!Supported
  <2>2. CASE ~(saved.schema = "v1" \/ (saved.schema = "none"
                                         /\ \E f \in Views!Families : old[f] # {}))
    <3>1. /\ Views!Migrated(saved) \in Layouts /\ Views!Migrated(saved).views = saved.views
          /\ Views!Migrated(saved).active = saved.active
          /\ (Views!Migrated(saved).schema = saved.schema \/ Views!Migrated(saved).schema = "v2")
      BY <1>1, <2>2 DEF Views!Migrated, Layouts
    <3> QED BY <1>1, <3>1 DEF ViewsSavedFits, Views!Supported
  <2> QED BY <2>1, <2>2
<1>6. /\ saved' = Views!Migrated(saved) /\ viewsRunning' = TRUE /\ viewsSource' = "file"
      /\ viewsDialog' = Views!Closed
      /\ header' = Views!Presented(saved', "file") /\ dropped' = FALSE /\ old' = old
  BY DEF Views!Start
<1>7. header' \in Shown /\ header'.visible = Views!Visible(saved', "file")
  BY <1>5, <1>6, VisibleFits DEF Views!Sources
<1>8. ViewsSavedFits(saved)' /\ TableFits' /\ Views!KeepsOtherSource
  <2>1. ViewsSavedFits(saved)'
    BY <1>5, <1>6 DEF ViewsSavedFits, Loads, Views!Supported
  <2>2. TableFits'
    BY <1>1, <1>6, <1>7 DEF TableFits, Views!TableShowsTheView, Views!Sources
  <2>3. Views!KeepsOtherSource
    <3> HIDE DEF Views!KeepsOtherSource
    <3>1. CASE saved'.views = saved.views
      BY <3>1 DEF Views!KeepsOtherSource
    <3>2. CASE \A f \in Views!Families : DOMAIN saved.views[f] = {}
      BY <3>2 DEF Views!KeepsOtherSource
    <3> QED BY <1>5, <1>6, <3>1, <3>2
  <2> QED BY <2>1, <2>2, <2>3
<1>9. ~viewsDialog'.open
  BY <1>6 DEF Views!Closed
<1> QED BY <1>6, <1>8, <1>9 DEF ViewsInv

LEMMA ViewsStep ==
  ASSUME ViewsConstantsFit, ViewsInv, [Views!Next]_(Views!vars)
  PROVE  ViewsInv' /\ Views!KeepsOtherSource
  BY TableStep, OpenStep, DraftStep, EndDialogStep, StartStep DEF Views!Next, Views!DialogStep

LEMMA ViewsInvMeans == ASSUME ViewsConstantsFit, ViewsInv PROVE Views!ViewsAreKept
<1>1. ViewsSavedFits(saved) /\ Views!TableShowsTheView
  BY DEF ViewsInv, TableFits
<1>2. Views!SavedViewsLoad
  BY <1>1, ViewsSets DEF ViewsSavedFits, Loads, Views!SavedViewsLoad, Views!DuplicateName
<1> QED BY <1>1, <1>2 DEF Views!ViewsAreKept

LEMMA ViewsMoves ==
  ASSUME [DeskNext]_deskVars, part = "views"
  PROVE  [Views!Next]_(Views!vars)
  BY DEF DeskNext, deskVars, viewsVars, Views!vars

LEMMA ViewsStays == DeskSpec => [](part = "views" => ViewsInv)
<1>1. DeskInit => (part = "views" => ViewsInv)
  BY ViewsStart, DeskAssumption DEF DeskInit
<1>2. (part = "views" => ViewsInv) /\ [DeskNext]_deskVars => (part = "views" => ViewsInv)'
  BY PartStays, ViewsMoves, ViewsStep, DeskAssumption
<1> QED BY <1>1, <1>2, PTL DEF DeskSpec

(* For any columns and any number of views, through drafts, header        *)
(* changes, presets and changes of the source: the table shows its active *)
(* view, and what is saved loads again.                                   *)
THEOREM ViewsStayKept ==
  /\ Views!Spec => []Views!ViewsAreKept
  /\ DeskSpec => []ViewsAreKept
<1>1. Views!Init => ViewsInv
  BY ViewsStart, DeskAssumption
<1>2. ViewsInv /\ [Views!Next]_(Views!vars) => ViewsInv'
  BY ViewsStep, DeskAssumption
<1>3. ViewsInv => Views!ViewsAreKept
  BY ViewsInvMeans, DeskAssumption
<1>4. (part = "views" => ViewsInv) => ViewsAreKept
  BY <1>3 DEF ViewsAreKept
<1>5. Views!Spec => []Views!ViewsAreKept
  BY <1>1, <1>2, <1>3, PTL DEF Views!Spec
<1>6. DeskSpec => []ViewsAreKept
  BY <1>4, ViewsStays, PTL
<1> QED BY <1>5, <1>6

(* No step takes from a view the columns of the source that is not shown. *)
THEOREM OtherSourceStays ==
  /\ Views!Spec => Views!OtherSourceIsKept
  /\ DeskSpec => OtherSourceIsKept
<1>1. Views!Init => ViewsInv
  BY ViewsStart, DeskAssumption
<1>2. ViewsInv /\ [Views!Next]_(Views!vars)
        => ViewsInv' /\ [Views!KeepsOtherSource]_(Views!vars)
  BY ViewsStep, DeskAssumption
<1>3. (part = "views" => ViewsInv) /\ [DeskNext]_deskVars
        => [part = "views" => Views!KeepsOtherSource]_<<viewsVars, part>>
  BY PartStays, ViewsMoves, ViewsStep, DeskAssumption DEF viewsVars, Views!vars
<1>4. Views!Spec => Views!OtherSourceIsKept
  BY <1>1, <1>2, PTL DEF Views!Spec, Views!OtherSourceIsKept
<1>5. DeskSpec => OtherSourceIsKept
  BY <1>3, ViewsStays, PTL DEF DeskSpec, OtherSourceIsKept
<1> QED BY <1>4, <1>5

-----------------------------------------------------------------------------
(* Profiles of phones. The slot of the session has two halves, the        *)
(* profile and its owner. Whoever reads or stores it without meeting      *)
(* another between its two finds both together (HalvesFit). A question    *)
(* that changes the list was asked by the dialog that is open             *)
(* (QuestionsBelong).                                                     *)

Choices     == {"default", "connected"} \cup SavedProfiles
PhoneOrNone == Phones \cup {Personal!None}
Questions   == [kind : {"delete", "save", "replace"},
                profile : SavedProfiles \cup {Personal!None}, phone : PhoneOrNone, dialog : Nat]
Captured    == [dialog : Personal!Dialogs, phone : PhoneOrNone]
ReaderStates ==
  [step : {"idle", "slot", "owner", "collect", "store", "used", "over"}, session : PhoneOrNone,
   held : PhoneOrNone]

PersonalTypes ==
  /\ personalLibrary \in [SavedProfiles -> PhoneOrNone] /\ slips \subseteq SavedProfiles
  /\ slot \in PhoneOrNone /\ plugged \in PhoneOrNone /\ scanned \in PhoneOrNone
  /\ personalDialog \in 0..MaxDialogs /\ listed \subseteq Choices
  /\ personalChosen \in [Personal!Dialogs -> Choices]
  /\ personalPending \in [Personal!Dialogs -> SavedProfiles \cup {Personal!None}]
  /\ question \in Seq(Questions) /\ captured \in Seq(Captured)
  /\ readers \in [Personal!Readers -> ReaderStates]
  /\ raced \in BOOLEAN

\* What the settings and the open dialog name is there, or slipped through a deletion.
IsThere(p) == personalLibrary[p] # Personal!None \/ p \in slips
NamesExist ==
  /\ Personal!ConfiguredExists
  /\ personalDialog # 0 =>
       \A p \in SavedProfiles : p \in listed \/ p = personalChosen[personalDialog] => IsThere(p)

QuestionsBelong ==
  \A i \in 1..Len(question) :
    /\ question[i].kind \in {"delete", "replace"} => question[i].profile \in SavedProfiles
    /\ question[i].kind \in {"save", "replace"} => question[i].phone \in Phones
    /\ question[i].kind \in {"delete", "save"}
         => personalDialog # 0 /\ question[i].dialog = personalDialog

\* While r is between the halves nobody else is where it disturbs r, and r is right.
ReaderFits(r) ==
  LET others(steps) == \A q \in Personal!Readers \ {r} : readers[q].step \notin steps IN
  /\ readers[r].step = "owner"
       => readers[r].held = slot /\ storing = Personal!None /\ others({"store"})
  /\ readers[r].step = "store"
       => slot = readers[r].session /\ readers[r].held = slot /\ storing = Personal!None
            /\ others({"owner", "store"})
  /\ readers[r].step = "used" /\ readers[r].session # Personal!None
       => readers[r].held \in {Personal!None, readers[r].session}
HalvesFit ==
  /\ storing = Personal!None /\ (\A r \in Personal!Readers : readers[r].step # "store")
       => slot = personalOwner
  /\ storing # Personal!None => slot = storing
  /\ \A r \in Personal!Readers : ReaderFits(r)

PersonalInv ==
  /\ PersonalTypes /\ NamesExist /\ QuestionsBelong
  /\ \A r \in Personal!Readers : readers[r].step = "collect" => readers[r].held = Personal!None
  /\ ~raced => HalvesFit

LEMMA PersonalStarts == ASSUME PersonalConstantsFit, Personal!Init PROVE PersonalInv
<1>1. PersonalTypes
  <2>1. /\ personalChosen \in [Personal!Dialogs -> Choices] /\ listed \subseteq Choices
        /\ personalPending \in [Personal!Dialogs -> SavedProfiles \cup {Personal!None}]
        /\ personalLibrary \in [SavedProfiles -> PhoneOrNone] /\ slips \subseteq SavedProfiles
    BY DEF Personal!Init, Choices, PhoneOrNone
  <2>2. readers \in [Personal!Readers -> ReaderStates]
    BY DEF Personal!Init, PhoneOrNone, ReaderStates, Personal!Idle, Personal!Over,
       Personal!Reader
  <2>3. /\ question \in Seq(Questions) /\ captured \in Seq(Captured)
        /\ personalDialog \in 0..MaxDialogs
    BY DEF Personal!Init, PersonalConstantsFit
  <2> QED BY <2>1, <2>2, <2>3 DEF Personal!Init, PersonalTypes, PhoneOrNone
<1>2. NamesExist /\ QuestionsBelong
  BY DEF Personal!Init, PersonalConstantsFit, NamesExist, Personal!ConfiguredExists,
     QuestionsBelong
<1>3. \A r \in Personal!Readers : readers[r].step \in {"idle", "over"}
  BY DEF Personal!Init, Personal!Idle, Personal!Over, Personal!Reader
<1>4. HalvesFit
  BY <1>3 DEF Personal!Init, HalvesFit, ReaderFits
<1> QED BY <1>1, <1>2, <1>3, <1>4 DEF PersonalInv

\* The first of a sequence, and the rest.
LEMMA FirstAndRest ==
  ASSUME NEW S, NEW s \in Seq(S), s # <<>>
  PROVE  /\ Head(s) \in S /\ Head(s) = s[1] /\ 1 \in 1..Len(s)
         /\ Tail(s) \in Seq(S)
         /\ \A i \in 1..Len(Tail(s)) : i + 1 \in 1..Len(s) /\ Tail(s)[i] = s[i + 1]
  OBVIOUS

\* What keeps the names, and what keeps the halves of the slot.
LEMMA NamesKept ==
  ASSUME PersonalInv,
         UNCHANGED <<personalLibrary, configured, slips, personalDialog, personalChosen,
                     listed>>
  PROVE  NamesExist' /\ Personal!KeepsSavedModels
  BY DEF PersonalInv, NamesExist, IsThere, Personal!ConfiguredExists, Personal!KeepsSavedModels

LEMMA QuestionsKept ==
  ASSUME PersonalInv, UNCHANGED <<question, personalDialog>> PROVE QuestionsBelong'
  BY DEF PersonalInv, QuestionsBelong

\* The reader r, if any, starts or has ended.
LEMMA HalvesKept ==
  ASSUME PersonalInv, UNCHANGED <<slot, personalOwner, storing, raced>>,
         \A q \in Personal!Readers :
           \/ readers'[q] = readers[q]
           \/ readers'[q].step \in {"idle", "slot", "over"} /\ readers[q].step # "store"
  PROVE  /\ ~raced' => HalvesFit'
         /\ \A r \in Personal!Readers :
              readers'[r].step = "collect" => readers'[r].held = Personal!None
<1>1. \A r \in Personal!Readers :
        readers'[r].step = "collect" => readers'[r].held = Personal!None
  BY DEF PersonalInv
<1>2. ASSUME ~raced' PROVE HalvesFit'
  <2>1. HalvesFit
    BY <1>2 DEF PersonalInv
  <2>2. \A q \in Personal!Readers : \A steps \in SUBSET {"owner", "store"} :
          readers[q].step \notin steps => readers'[q].step \notin steps
    OBVIOUS
  <2>3. ASSUME NEW r \in Personal!Readers PROVE ReaderFits(r)'
    BY <2>1, <2>2, <2>3 DEF HalvesFit, ReaderFits
  <2>4. (\A r \in Personal!Readers : readers'[r].step # "store")
          => \A r \in Personal!Readers : readers[r].step # "store"
    OBVIOUS
  <2> QED BY <2>1, <2>3, <2>4 DEF HalvesFit
<1> QED BY <1>1, <1>2

LEMMA PhoneStep ==
  ASSUME PersonalConstantsFit, PersonalInv,
         \/ Personal!Plug \/ Personal!ScanEnds \/ Personal!LoadAppList \/ Personal!Abandon
         \/ \E r \in Personal!Auditors : Personal!StartAudit(r)
         \/ UNCHANGED Personal!vars
  PROVE  PersonalInv' /\ Personal!KeepsSavedModels
<1>1. /\ UNCHANGED <<personalLibrary, configured, slips, personalDialog, personalChosen, listed,
                     personalPending, question, captured, slot, personalOwner, storing, raced>>
      /\ plugged' \in PhoneOrNone /\ scanned' \in PhoneOrNone
  BY DEF PersonalInv, PersonalTypes, PhoneOrNone, Personal!Plug, Personal!ScanEnds,
     Personal!LoadAppList, Personal!Abandon, Personal!StartAudit, Personal!vars,
     Personal!savedState, Personal!slotState, Personal!phoneState, Personal!dialogState,
     Personal!captureState
<1>2. \/ UNCHANGED readers
      \/ \E r \in Personal!Readers, session \in PhoneOrNone :
           /\ readers[r].step = "idle"
           /\ readers' = [readers EXCEPT ![r] = [step |-> "slot", session |-> session,
                                                 held |-> Personal!None]]
  <2>1. CASE Personal!ScanEnds
    BY <2>1 DEF PersonalInv, PersonalTypes, PersonalConstantsFit, Personal!ScanEnds,
       Personal!WindowReads, Personal!UiFree, Personal!Reader, Personal!Readers
  <2>2. ASSUME NEW r \in Personal!Auditors, Personal!StartAudit(r)
        PROVE  /\ r \in Personal!Readers /\ scanned \in PhoneOrNone
               /\ readers[r].step = "idle"
               /\ readers' = [readers EXCEPT ![r] = [step |-> "slot", session |-> scanned,
                                                     held |-> Personal!None]]
    <3>1. r \in Personal!Readers
      BY DEF Personal!Readers, Personal!Auditors, PersonalConstantsFit
    <3> QED BY <2>2, <3>1 DEF PersonalInv, PersonalTypes, Personal!StartAudit, Personal!Reader
  <2>3. CASE \/ Personal!Plug \/ Personal!LoadAppList \/ Personal!Abandon
             \/ UNCHANGED Personal!vars
    BY <2>3 DEF Personal!Plug, Personal!LoadAppList, Personal!Abandon, Personal!vars,
       Personal!auditState
  <2> QED BY <2>1, <2>2, <2>3
<1>3. readers' \in [Personal!Readers -> ReaderStates]
  <2>1. ASSUME NEW session \in PhoneOrNone
        PROVE  [step |-> "slot", session |-> session, held |-> Personal!None]
                 \in ReaderStates
    BY DEF ReaderStates, PhoneOrNone
  <2> QED BY <1>2, <2>1 DEF PersonalInv, PersonalTypes
<1>4. \A q \in Personal!Readers :
        \/ readers'[q] = readers[q]
        \/ readers'[q].step \in {"idle", "slot", "over"} /\ readers[q].step # "store"
  BY <1>2 DEF PersonalInv, PersonalTypes
<1>5. PersonalTypes'
  BY <1>1, <1>3 DEF PersonalInv, PersonalTypes
<1> QED BY <1>1, <1>4, <1>5, NamesKept, QuestionsKept, HalvesKept DEF PersonalInv

\* The window's own reading starts.
LEMMA WindowReadsFits ==
  ASSUME PersonalConstantsFit, PersonalInv, NEW choice, NEW session \in PhoneOrNone,
         readers[0].step = "idle", Personal!WindowReads(choice, session)
  PROVE  /\ readers' \in [Personal!Readers -> ReaderStates]
         /\ \A q \in Personal!Readers :
              \/ readers'[q] = readers[q]
              \/ readers'[q].step \in {"idle", "slot", "over"} /\ readers[q].step # "store"
<1>1. [step |-> "slot", session |-> session, held |-> Personal!None]
        \in ReaderStates
  BY DEF ReaderStates, PhoneOrNone
<1>2. \/ UNCHANGED readers
      \/ readers' = [readers EXCEPT ![0] = [step |-> "slot", session |-> session,
                                            held |-> Personal!None]]
  BY DEF Personal!WindowReads, Personal!Reader
<1> QED BY <1>1, <1>2 DEF PersonalInv, PersonalTypes

\* A question is put on top of those that are open.
LEMMA AskFits ==
  ASSUME PersonalInv, UNCHANGED personalDialog,
         NEW kind \in {"delete", "save", "replace"},
         NEW p \in SavedProfiles \cup {Personal!None}, NEW phone \in PhoneOrNone, NEW d \in Nat,
         Personal!Ask(kind, p, phone, d),
         kind \in {"delete", "replace"} => p \in SavedProfiles,
         kind \in {"save", "replace"} => phone \in Phones,
         kind \in {"delete", "save"} => personalDialog # 0 /\ d = personalDialog
  PROVE  question' \in Seq(Questions) /\ QuestionsBelong'
<1> DEFINE q == [kind |-> kind, profile |-> p, phone |-> phone, dialog |-> d]
<1>1. q \in Questions
  BY DEF Questions
<1>2. /\ q.kind = kind /\ q.profile = p /\ q.phone = phone /\ q.dialog = d
      /\ question' = <<q>> \o question /\ question \in Seq(Questions)
  BY DEF Personal!Ask, Personal!Asked, PersonalInv, PersonalTypes
<1> HIDE DEF q
<1>3. /\ question' \in Seq(Questions) /\ Len(question') = Len(question) + 1
      /\ question'[1] = q
      /\ \A i \in 1..Len(question') :
           i # 1 => i - 1 \in 1..Len(question) /\ question'[i] = question[i - 1]
  BY <1>1, <1>2
<1> QED BY <1>2, <1>3 DEF PersonalInv, QuestionsBelong

LEMMA DialogStep ==
  ASSUME PersonalConstantsFit, PersonalInv,
         \/ Personal!GetPhoneData \/ Personal!Refresh \/ Personal!AskDelete \/ Personal!AskName
         \/ \E x \in Choices : Personal!Select(x)
         \/ \E b \in BOOLEAN : Personal!Close(b)
         \/ \E d \in Personal!Dialogs : Personal!Open(d)
  PROVE  PersonalInv' /\ Personal!KeepsSavedModels
<1>1. /\ PersonalTypes /\ NamesExist /\ QuestionsBelong /\ Personal!ConfiguredExists
      /\ Personal!Dialogs = 1..MaxDialogs /\ MaxDialogs \in Nat
      /\ \A d \in Personal!Dialogs : Personal!Selected(d) \in SavedProfiles \cup {Personal!None}
  BY DEF PersonalInv, NamesExist, Personal!Dialogs, PersonalConstantsFit, Personal!Selected,
     Personal!Available
<1>2. /\ UNCHANGED <<personalLibrary, slips, plugged, scanned, captured, slot, personalOwner,
                     storing, raced>>
      /\ Personal!KeepsSavedModels
  BY DEF Personal!Open, Personal!GetPhoneData, Personal!Refresh, Personal!AskDelete,
     Personal!AskName, Personal!Select, Personal!Close, Personal!StartCapture,
     Personal!savedState, Personal!phoneState, Personal!slotState, Personal!captureState,
     Personal!KeepsSavedModels
<1>3. /\ readers' \in [Personal!Readers -> ReaderStates]
      /\ \A q \in Personal!Readers :
           \/ readers'[q] = readers[q]
           \/ readers'[q].step \in {"idle", "slot", "over"} /\ readers[q].step # "store"
  <2>1. CASE UNCHANGED readers
    BY <1>1, <2>1 DEF PersonalTypes
  <2>2. CASE readers[0].step = "idle" /\ Personal!WindowReads(configured', scanned)
    BY <1>1, <2>2, WindowReadsFits DEF PersonalTypes
  <2> QED
    BY <2>1, <2>2 DEF Personal!Open, Personal!GetPhoneData, Personal!Refresh,
       Personal!AskDelete, Personal!AskName, Personal!Select, Personal!Close,
       Personal!StartCapture, Personal!auditState, Personal!InDialog, Personal!UiFree
<1>4. ASSUME PersonalTypes', NamesExist', QuestionsBelong'
      PROVE  PersonalInv' /\ Personal!KeepsSavedModels
  BY <1>2, <1>3, <1>4, HalvesKept DEF PersonalInv
<1>5. CASE Personal!GetPhoneData \/ Personal!Refresh
  <2>1. /\ UNCHANGED <<configured, personalDialog, personalChosen, listed, question>>
        /\ personalPending' \in [Personal!Dialogs -> SavedProfiles \cup {Personal!None}]
    <3>1. CASE Personal!GetPhoneData
      BY <1>1, <3>1 DEF Personal!GetPhoneData, Personal!StartCapture, PersonalTypes,
         Personal!savedState
    <3>2. CASE Personal!Refresh
      <4>1. personalDialog \in Personal!Dialogs
        BY <1>1, <3>2 DEF Personal!Refresh, Personal!InDialog, PersonalTypes
      <4> QED
        BY <1>1, <3>2, <4>1 DEF Personal!Refresh, Personal!StartCapture, PersonalTypes,
           Personal!savedState
    <3> QED BY <1>5, <3>1, <3>2
  <2>2. PersonalTypes'
    BY <1>1, <1>2, <1>3, <2>1 DEF PersonalTypes
  <2> QED BY <1>2, <1>4, <2>1, <2>2, NamesKept, QuestionsKept
<1>6. CASE Personal!AskDelete \/ Personal!AskName
  <2>1. /\ UNCHANGED <<configured, personalDialog, personalChosen, listed, personalPending>>
        /\ personalDialog # 0 /\ personalDialog \in Nat /\ personalDialog \in Personal!Dialogs
    BY <1>1, <1>6 DEF Personal!AskDelete, Personal!AskName, Personal!InDialog,
       Personal!savedState, Personal!dialogState, PersonalTypes
  <2>2. question' \in Seq(Questions) /\ QuestionsBelong'
    <3>1. CASE Personal!AskDelete
      <4>1. /\ Personal!Selected(personalDialog) \in SavedProfiles
            /\ Personal!Ask("delete", Personal!Selected(personalDialog), Personal!None,
                            personalDialog)
        BY <1>1, <2>1, <3>1 DEF Personal!AskDelete
      <4> QED BY <2>1, <4>1, AskFits DEF PhoneOrNone
    <3>2. CASE Personal!AskName
      <4>1. slot \in Phones /\ Personal!Ask("save", Personal!None, slot, personalDialog)
        BY <1>1, <3>2 DEF Personal!AskName, PersonalTypes, PhoneOrNone
      <4> QED BY <2>1, <4>1, AskFits DEF PhoneOrNone
    <3> QED BY <1>6, <3>1, <3>2
  <2>3. PersonalTypes'
    BY <1>1, <1>2, <1>3, <2>1, <2>2 DEF PersonalTypes
  <2> QED BY <1>2, <1>4, <2>1, <2>2, <2>3, NamesKept
<1>7. ASSUME NEW x \in Choices, Personal!Select(x)
      PROVE  PersonalInv' /\ Personal!KeepsSavedModels
  <2>1. /\ UNCHANGED <<configured, personalDialog, listed, personalPending, question>>
        /\ x \in listed /\ personalDialog \in Personal!Dialogs
        /\ personalChosen' = [personalChosen EXCEPT ![personalDialog] = x]
    BY <1>1, <1>7 DEF Personal!Select, Personal!InDialog, Personal!savedState, PersonalTypes
  <2>2. PersonalTypes'
    BY <1>1, <1>2, <1>3, <2>1 DEF PersonalTypes
  <2>3. NamesExist'
    BY <1>1, <1>2, <2>1 DEF PersonalTypes, NamesExist, IsThere, Personal!ConfiguredExists
  <2> QED BY <1>4, <2>1, <2>2, <2>3, QuestionsKept
<1>8. ASSUME NEW b \in BOOLEAN, Personal!Close(b)
      PROVE  PersonalInv' /\ Personal!KeepsSavedModels
  <2>1. /\ UNCHANGED <<personalChosen, personalPending, question>>
        /\ question = <<>> /\ listed' = {"default"}
        /\ personalDialog' = 0 /\ personalDialog # 0
        /\ configured' \in {configured, personalChosen[personalDialog]}
    BY <1>8 DEF Personal!Close, Personal!InDialog
  <2>2. PersonalTypes'
    BY <1>1, <1>2, <1>3, <2>1 DEF PersonalTypes, Choices
  <2>3. NamesExist'
    BY <1>1, <1>2, <2>1 DEF PersonalTypes, NamesExist, IsThere, Personal!ConfiguredExists
  <2>4. QuestionsBelong'
    BY <2>1 DEF QuestionsBelong
  <2> QED BY <1>4, <2>2, <2>3, <2>4
<1>9. ASSUME NEW d \in Personal!Dialogs, Personal!Open(d)
      PROVE  PersonalInv' /\ Personal!KeepsSavedModels
  <2> DEFINE session == slot # Personal!None
               /\ (scanned = Personal!None \/ personalOwner = scanned)
             offers == {"default"} \cup Personal!Available
               \cup (IF session THEN {"connected"} ELSE {}) \cup ({configured} \cap SavedProfiles)
             choice == IF configured \in offers THEN configured ELSE "default"
  <2>1. /\ UNCHANGED <<configured, question>> /\ question = <<>>
        /\ personalDialog' = d /\ listed' = offers
        /\ personalChosen' = [personalChosen EXCEPT ![d] = choice]
        /\ personalPending' = [personalPending EXCEPT ![d] = Personal!None]
    BY <1>9 DEF Personal!Open, Personal!Window, Personal!savedState
  <2>2. /\ offers \subseteq Choices /\ choice \in offers
        /\ \A p \in SavedProfiles \cap offers : IsThere(p)
    BY <1>1 DEF Personal!Available, Choices, IsThere, Personal!ConfiguredExists,
       PersonalConstantsFit
  <2> HIDE DEF offers, choice
  <2>3. PersonalTypes'
    BY <1>1, <1>2, <1>3, <2>1, <2>2 DEF PersonalTypes
  <2>4. NamesExist'
    BY <1>1, <1>2, <2>1, <2>2 DEF PersonalTypes, NamesExist, IsThere, Personal!ConfiguredExists
  <2>5. QuestionsBelong'
    BY <2>1 DEF QuestionsBelong
  <2> QED BY <1>4, <2>3, <2>4, <2>5
<1> QED BY <1>5, <1>6, <1>7, <1>8, <1>9

\* The topmost question is answered.
LEMMA TopFits ==
  ASSUME PersonalInv, UNCHANGED personalDialog, question # <<>>, question' = Tail(question)
  PROVE  /\ question' \in Seq(Questions) /\ QuestionsBelong'
         /\ Head(question).kind \in {"delete", "replace"}
              => Head(question).profile \in SavedProfiles
         /\ Head(question).kind \in {"save", "replace"} => Head(question).phone \in Phones
         /\ Head(question).kind \in {"delete", "save"}
              => personalDialog # 0 /\ Head(question).dialog = personalDialog
  BY FirstAndRest DEF PersonalInv, PersonalTypes, QuestionsBelong

LEMMA QuestionStep ==
  ASSUME PersonalConstantsFit, PersonalInv,
         \/ Personal!Dismiss \/ Personal!Delete \/ Personal!Replace
         \/ \E p \in SavedProfiles : Personal!SaveLocally(p)
  PROVE  PersonalInv' /\ Personal!KeepsSavedModels
<1> DEFINE top == Head(question)
<1>1. /\ PersonalTypes /\ NamesExist /\ QuestionsBelong /\ Personal!ConfiguredExists
      /\ Personal!Dialogs = 1..MaxDialogs /\ MaxDialogs \in Nat
  BY DEF PersonalInv, NamesExist, Personal!Dialogs, PersonalConstantsFit
<1>2. /\ UNCHANGED <<plugged, scanned, captured, slot, personalOwner, storing, raced, readers,
                     personalDialog, personalPending>>
      /\ question # <<>> /\ question' = Tail(question)
  BY DEF Personal!Dismiss, Personal!Delete, Personal!Replace, Personal!SaveLocally, Personal!Top,
     Personal!phoneState, Personal!slotState, Personal!captureState, Personal!auditState,
     Personal!dialogState
<1>3. /\ question' \in Seq(Questions) /\ QuestionsBelong'
      /\ top.kind \in {"delete", "replace"} => top.profile \in SavedProfiles
      /\ top.kind \in {"save", "replace"} => top.phone \in Phones
      /\ top.kind \in {"delete", "save"}
           => top.dialog = personalDialog /\ personalDialog \in Personal!Dialogs
  BY <1>1, <1>2, TopFits DEF PersonalTypes
<1>4. ASSUME NamesExist', Personal!KeepsSavedModels, slips' \subseteq SavedProfiles,
             personalLibrary' \in [SavedProfiles -> PhoneOrNone], listed' \subseteq Choices,
             personalChosen' \in [Personal!Dialogs -> Choices]
      PROVE  PersonalInv' /\ Personal!KeepsSavedModels
  <2>1. PersonalTypes'
    BY <1>1, <1>2, <1>3, <1>4 DEF PersonalTypes
  <2> QED BY <1>2, <1>3, <1>4, <2>1, HalvesKept DEF PersonalInv
<1> HIDE DEF top
<1>5. CASE Personal!Dismiss \/ Personal!Replace
  <2>1. /\ UNCHANGED <<configured, slips, personalChosen, listed>>
        /\ \/ UNCHANGED personalLibrary
           \/ /\ top.profile \in SavedProfiles /\ top.phone = personalLibrary[top.profile]
              /\ personalLibrary' = [personalLibrary EXCEPT ![top.profile] = top.phone]
    BY <1>3, <1>5 DEF Personal!Dismiss, Personal!Replace, Personal!Top, Personal!Compatible, top,
       Personal!savedState, Personal!dialogState
  <2>2. UNCHANGED personalLibrary
    BY <1>1, <2>1 DEF PersonalTypes
  <2> QED BY <1>1, <1>2, <1>4, <2>1, <2>2, NamesKept DEF PersonalTypes
<1>6. CASE Personal!Delete
  <2>1. /\ top.profile \in SavedProfiles /\ personalDialog \in Personal!Dialogs
        /\ personalLibrary' = [personalLibrary EXCEPT ![top.profile] = Personal!None]
        /\ listed' = listed \ {personalChosen[personalDialog]}
        /\ personalChosen' = [personalChosen EXCEPT ![personalDialog] = "default"]
        /\ configured' = IF configured = top.profile THEN "default" ELSE configured
        /\ slips' = IF personalChosen[personalDialog] = top.profile
                      THEN slips ELSE slips \cup {top.profile}
    BY <1>3, <1>6 DEF Personal!Delete, Personal!Top, top
  <2>2. NamesExist'
    BY <1>1, <1>2, <2>1 DEF PersonalTypes, NamesExist, IsThere, Personal!ConfiguredExists,
       PersonalConstantsFit
  <2>3. Personal!KeepsSavedModels
    BY <1>1, <2>1 DEF PersonalTypes, Personal!KeepsSavedModels
  <2> QED BY <1>1, <1>4, <2>1, <2>2, <2>3 DEF PersonalTypes, Choices, PhoneOrNone
<1>7. ASSUME NEW p \in SavedProfiles, Personal!SaveLocally(p)
      PROVE  PersonalInv' /\ Personal!KeepsSavedModels
  <2>1. /\ UNCHANGED <<configured, slips>> /\ top.phone \in Phones
        /\ personalDialog \in Personal!Dialogs
        /\ personalLibrary[p] = Personal!None
        /\ personalLibrary' = [personalLibrary EXCEPT ![p] = top.phone]
        /\ listed' = listed \cup {p}
        /\ personalChosen' = [personalChosen EXCEPT ![personalDialog] = p]
    BY <1>3, <1>7 DEF Personal!SaveLocally, Personal!Top, Personal!Unused, top
  <2>2. NamesExist'
    BY <1>1, <1>2, <2>1 DEF PersonalTypes, NamesExist, IsThere, Personal!ConfiguredExists,
       PersonalConstantsFit
  <2>3. Personal!KeepsSavedModels
    BY <1>1, <2>1 DEF PersonalTypes, Personal!KeepsSavedModels
  <2> QED BY <1>1, <1>4, <2>1, <2>2, <2>3 DEF PersonalTypes, Choices, PhoneOrNone
<1> QED BY <1>5, <1>6, <1>7

LEMMA CaptureStep ==
  ASSUME PersonalConstantsFit, PersonalInv, NEW d \in Personal!Dialogs,
         \/ Personal!CaptureReads(d) \/ Personal!CaptureFails(d)
         \/ Personal!OfferReplacement(d) \/ Personal!StoreProfile(d)
  PROVE  PersonalInv' /\ Personal!KeepsSavedModels
<1>1. /\ PersonalTypes /\ NamesExist /\ QuestionsBelong /\ Personal!ConfiguredExists
      /\ Personal!Dialogs = 1..MaxDialogs /\ MaxDialogs \in Nat
  BY DEF PersonalInv, NamesExist, Personal!Dialogs, PersonalConstantsFit
<1>2. /\ UNCHANGED <<personalLibrary, configured, slips, plugged, scanned, personalDialog,
                     readers>>
      /\ Personal!KeepsSavedModels
  BY DEF Personal!CaptureReads, Personal!CaptureFails, Personal!OfferReplacement,
     Personal!StoreProfile, Personal!CaptureEnds, Personal!savedState, Personal!phoneState,
     Personal!auditState, Personal!dialogState, Personal!KeepsSavedModels
<1>3. captured' \in Seq(Captured)
      /\ (~Personal!CaptureReads(d) => Head(captured).phone \in PhoneOrNone)
  <2>1. CASE Personal!CaptureReads(d)
    <3>1. PICK phone \in {plugged, Personal!None} :
            captured' = Append(captured, [dialog |-> d, phone |-> phone])
      BY <2>1 DEF Personal!CaptureReads
    <3>2. [dialog |-> d, phone |-> phone] \in Captured
      BY <1>1, <3>1 DEF Captured, PhoneOrNone, PersonalTypes
    <3> QED BY <1>1, <2>1, <3>1, <3>2 DEF PersonalTypes
  <2>2. CASE ~Personal!CaptureReads(d)
    <3>1. captured # <<>> /\ captured' = Tail(captured)
      BY <2>2 DEF Personal!CaptureFails, Personal!OfferReplacement, Personal!StoreProfile,
         Personal!CaptureEnds
    <3>2. Head(captured) \in Captured /\ Tail(captured) \in Seq(Captured)
      BY <1>1, <3>1, FirstAndRest DEF PersonalTypes
    <3> QED BY <3>1, <3>2 DEF Captured
  <2> QED BY <2>1, <2>2
<1>4. CASE Personal!CaptureReads(d) \/ Personal!CaptureFails(d) \/ Personal!OfferReplacement(d)
  <2>1. /\ UNCHANGED <<slot, personalOwner, storing, raced, personalChosen, listed>>
        /\ personalPending' \in [Personal!Dialogs -> SavedProfiles \cup {Personal!None}]
    BY <1>1, <1>4 DEF Personal!CaptureReads, Personal!CaptureFails, Personal!OfferReplacement,
       Personal!slotState, Personal!dialogState, PersonalTypes
  <2>2. question' \in Seq(Questions) /\ QuestionsBelong'
    <3>1. CASE UNCHANGED question
      BY <1>1, <1>2, <3>1, QuestionsKept DEF PersonalTypes
    <3>2. CASE /\ ~Personal!CaptureReads(d) /\ Head(captured).phone # Personal!None
               /\ personalPending[d] # Personal!None
               /\ Personal!Ask("replace", personalPending[d], Head(captured).phone, d)
      <4>1. personalPending[d] \in SavedProfiles /\ Head(captured).phone \in Phones /\ d \in Nat
        BY <1>1, <1>3, <3>2 DEF PersonalTypes, PhoneOrNone
      <4> QED BY <1>2, <3>2, <4>1, AskFits DEF PhoneOrNone
    <3>3. Personal!OfferReplacement(d) => ~Personal!CaptureReads(d)
      BY <1>1 DEF Personal!OfferReplacement, Personal!CaptureEnds, Personal!CaptureReads,
         PersonalTypes
    <3> QED
      BY <1>4, <3>1, <3>2, <3>3 DEF Personal!CaptureReads, Personal!CaptureFails,
         Personal!OfferReplacement
  <2>3. PersonalTypes'
    BY <1>1, <1>2, <1>3, <2>1, <2>2 DEF PersonalTypes
  <2> QED BY <1>2, <2>1, <2>2, <2>3, NamesKept, HalvesKept DEF PersonalInv
<1>5. CASE Personal!StoreProfile(d)
  <2> DEFINE phone == Head(captured).phone
  <2>1. ~Personal!CaptureReads(d)
    BY <1>1, <1>5 DEF Personal!StoreProfile, Personal!CaptureEnds, Personal!CaptureReads,
       PersonalTypes
  <2>2. /\ UNCHANGED <<personalOwner, personalPending, question>>
        /\ phone \in Phones /\ slot' = phone /\ storing' = phone
        /\ listed' = IF d = personalDialog THEN listed \cup {"connected"} ELSE listed
        /\ personalChosen' = [personalChosen EXCEPT ![d] = "connected"]
        /\ raced' = (raced \/ Personal!BetweenHalves(0, {"owner", "store"}))
        /\ readers[0].step = "idle" /\ storing = Personal!None
    BY <1>3, <1>5, <2>1 DEF Personal!StoreProfile, Personal!CaptureEnds, Personal!UiFree,
       PhoneOrNone
  <2> HIDE DEF phone
  <2>3. PersonalTypes'
    BY <1>1, <1>2, <1>3, <2>2 DEF PersonalTypes, Choices, PhoneOrNone
  <2>4. NamesExist'
    BY <1>1, <1>2, <2>2 DEF PersonalTypes, NamesExist, IsThere, Personal!ConfiguredExists,
       PersonalConstantsFit
  <2>5. ASSUME ~raced' PROVE HalvesFit'
    <3>1. /\ HalvesFit
          /\ \A r \in Personal!Readers : readers[r].step \notin {"owner", "store"}
      BY <2>2, <2>5 DEF PersonalInv, PersonalTypes, Personal!BetweenHalves, Personal!Readers
    <3> QED BY <1>2, <2>2, <3>1 DEF HalvesFit, ReaderFits, PersonalConstantsFit
  <2> QED BY <1>2, <2>2, <2>3, <2>4, <2>5, QuestionsKept DEF PersonalInv
<1> QED BY <1>4, <1>5

LEMMA OwnerStep ==
  ASSUME PersonalConstantsFit, PersonalInv, Personal!StoreOwner
  PROVE  PersonalInv' /\ Personal!KeepsSavedModels
<1>1. /\ UNCHANGED <<personalLibrary, configured, slips, slot, plugged, scanned, personalDialog,
                     personalChosen, listed, personalPending, question, captured, readers>>
      /\ storing # Personal!None /\ storing' = Personal!None /\ personalOwner' = storing
      /\ raced' = (raced \/ \E r \in Personal!Readers : readers[r].step \in {"owner", "store"})
  BY DEF Personal!StoreOwner, Personal!savedState, Personal!phoneState, Personal!dialogState,
     Personal!captureState, Personal!auditState
<1>2. PersonalTypes'
  BY <1>1 DEF PersonalInv, PersonalTypes
<1>3. ASSUME ~raced' PROVE HalvesFit'
  <2>1. HalvesFit /\ \A r \in Personal!Readers : readers[r].step \notin {"owner", "store"}
    BY <1>1, <1>3 DEF PersonalInv, PersonalTypes
  <2> QED BY <1>1, <2>1 DEF HalvesFit, ReaderFits
<1> QED BY <1>1, <1>2, <1>3, NamesKept, QuestionsKept DEF PersonalInv

LEMMA ReaderStep ==
  ASSUME PersonalConstantsFit, PersonalInv, NEW r \in Personal!Readers, Personal!ReadStep(r)
  PROVE  PersonalInv' /\ Personal!KeepsSavedModels
<1> DEFINE before == readers[r]
           becomes(step, session, held) ==
             readers' = [readers EXCEPT
                          ![r] = [step |-> step, session |-> session, held |-> held]]
<1>1. /\ UNCHANGED <<personalLibrary, configured, slips, plugged, scanned, personalDialog,
                     personalChosen, listed, personalPending, question, captured, storing>>
      /\ PersonalTypes
  BY DEF Personal!ReadStep, Personal!ReadSlot, Personal!ReadOwner, Personal!Serves,
     Personal!Collect, Personal!StoreSessionOwner, Personal!CollectNothing, Personal!EndReading,
     Personal!savedState, Personal!phoneState, Personal!dialogState, Personal!captureState,
     Personal!slotState, PersonalInv
<1>2. before \in ReaderStates /\ readers \in [Personal!Readers -> ReaderStates]
  BY <1>1 DEF PersonalTypes, ReaderStates
<1>3. /\ Personal!ReadSlot(r) =>
           becomes(IF before.session = Personal!None THEN "used" ELSE "owner",
                   before.session, slot)
      /\ Personal!ReadOwner(r) =>
           IF before.held # Personal!None /\ personalOwner = before.session
             THEN becomes("used", before.session, before.held)
             ELSE becomes("collect", before.session, Personal!None)
      /\ Personal!Collect(r) => becomes("store", before.session, before.session)
      /\ Personal!StoreSessionOwner(r) => becomes("used", before.session, before.held)
      /\ Personal!CollectNothing(r) => becomes("used", before.session, before.held)
      /\ Personal!EndReading(r) =>
           \E step \in {"idle", "over"} : becomes(step, Personal!None, Personal!None)
  <2>1. Personal!ReadSlot(r) =>
          becomes(IF before.session = Personal!None THEN "used" ELSE "owner",
                  before.session, slot)
    BY <1>2 DEF Personal!ReadSlot, ReaderStates
  <2>2. Personal!ReadOwner(r) =>
          IF before.held # Personal!None /\ personalOwner = before.session
            THEN becomes("used", before.session, before.held)
            ELSE becomes("collect", before.session, Personal!None)
    <3>1. Personal!ReadOwner(r) /\ before.held # Personal!None /\ personalOwner = before.session
            => becomes("used", before.session, before.held)
      BY <1>2 DEF Personal!ReadOwner, Personal!Serves, ReaderStates
    <3>2. Personal!ReadOwner(r) /\ ~(before.held # Personal!None /\ personalOwner = before.session)
            => becomes("collect", before.session, Personal!None)
      BY <1>2 DEF Personal!ReadOwner, Personal!Serves, ReaderStates
    <3> QED BY <3>1, <3>2
  <2>3. /\ Personal!Collect(r) => becomes("store", before.session, before.session)
        /\ Personal!StoreSessionOwner(r) => becomes("used", before.session, before.held)
        /\ Personal!CollectNothing(r) => becomes("used", before.session, before.held)
    BY <1>2 DEF Personal!Collect, Personal!StoreSessionOwner, Personal!CollectNothing,
       ReaderStates
  <2>4. Personal!EndReading(r) =>
          \E step \in {"idle", "over"} : becomes(step, Personal!None, Personal!None)
    BY <1>2 DEF Personal!EndReading, Personal!Idle, Personal!Over, Personal!Reader
  <2> QED BY <2>1, <2>2, <2>3, <2>4
\* Only r moves, and stays typed.
<1>4. ASSUME NEW step \in {"idle", "slot", "owner", "collect", "store", "used", "over"},
             NEW session \in PhoneOrNone, NEW held \in PhoneOrNone,
             becomes(step, session, held)
      PROVE  /\ readers' \in [Personal!Readers -> ReaderStates]
             /\ readers'[r].step = step /\ readers'[r].session = session
             /\ readers'[r].held = held
             /\ \A q \in Personal!Readers \ {r} : readers'[q] = readers[q]
  <2>1. [step |-> step, session |-> session, held |-> held] \in ReaderStates
    BY DEF ReaderStates
  <2> QED BY <1>2, <1>4, <2>1
<1>5. before.session \in PhoneOrNone /\ before.held \in PhoneOrNone /\ slot \in PhoneOrNone
  BY <1>1, <1>2 DEF ReaderStates, PersonalTypes
<1> HIDE DEF becomes
<1>6. /\ Personal!ReadSlot(r) => before.step = "slot" /\ UNCHANGED <<slot, personalOwner>>
      /\ Personal!ReadOwner(r) => before.step = "owner" /\ UNCHANGED <<slot, personalOwner>>
      /\ Personal!Collect(r) =>
           before.step = "collect" /\ slot' = before.session /\ UNCHANGED personalOwner
      /\ Personal!StoreSessionOwner(r) =>
           before.step = "store" /\ personalOwner' = before.session /\ UNCHANGED slot
      /\ Personal!CollectNothing(r) =>
           before.step = "collect" /\ UNCHANGED <<slot, personalOwner>>
      /\ Personal!EndReading(r) => before.step = "used" /\ UNCHANGED <<slot, personalOwner>>
  BY DEF Personal!ReadSlot, Personal!ReadOwner, Personal!Serves, Personal!Collect,
     Personal!StoreSessionOwner, Personal!CollectNothing, Personal!EndReading,
     Personal!slotState
<1>7. /\ raced' \in BOOLEAN /\ (~raced' => ~raced)
      /\ (Personal!ReadSlot(r) \/ Personal!ReadOwner(r)) /\ ~raced' =>
           storing = Personal!None
             /\ \A q \in Personal!Readers \ {r} : readers[q].step # "store"
      /\ (Personal!Collect(r) \/ Personal!StoreSessionOwner(r)) /\ ~raced' =>
           storing = Personal!None
             /\ \A q \in Personal!Readers \ {r} : readers[q].step \notin {"owner", "store"}
  BY <1>1 DEF PersonalTypes, Personal!ReadStep, Personal!ReadSlot, Personal!ReadOwner,
     Personal!Serves, Personal!Collect, Personal!StoreSessionOwner, Personal!CollectNothing,
     Personal!EndReading, Personal!slotState, Personal!BetweenHalves
<1>8. /\ readers' \in [Personal!Readers -> ReaderStates] /\ slot' \in PhoneOrNone
      /\ readers'[r].step = "collect" => readers'[r].held = Personal!None
      /\ \A q \in Personal!Readers \ {r} : readers'[q] = readers[q]
  <2>1. Personal!None \in PhoneOrNone
    BY DEF PhoneOrNone
  <2> QED BY <1>3, <1>4, <1>5, <1>6, <2>1 DEF Personal!ReadStep
<1>9. ASSUME ~raced' PROVE HalvesFit'
  <2>1. HalvesFit
    BY <1>7, <1>9 DEF PersonalInv
  <2>2. before.step = "collect" => before.held = Personal!None
    BY DEF PersonalInv
  <2>3. CASE Personal!ReadSlot(r)
    <3>1. /\ readers'[r].step \in {"owner", "used"} /\ readers'[r].session = before.session
          /\ readers'[r].step = "used" => before.session = Personal!None
          /\ readers'[r].held = slot
      BY <1>3, <1>4, <1>5, <2>3
    <3> QED BY <1>1, <1>6, <1>7, <1>8, <1>9, <2>1, <2>3, <3>1 DEF HalvesFit, ReaderFits
  <2>4. CASE Personal!ReadOwner(r)
    <3>1. /\ readers'[r].step \in {"used", "collect"} /\ readers'[r].session = before.session
          /\ readers'[r].step = "used"
               => readers'[r].held = before.held /\ personalOwner = before.session
      BY <1>3, <1>4, <1>5, <2>4 DEF PhoneOrNone
    <3>2. slot = personalOwner /\ before.held = slot
      BY <1>6, <1>7, <1>9, <2>1, <2>4 DEF HalvesFit, ReaderFits
    <3> QED BY <1>1, <1>6, <1>7, <1>8, <1>9, <2>1, <2>4, <3>1, <3>2 DEF HalvesFit, ReaderFits
  <2>5. CASE Personal!Collect(r)
    <3>1. /\ readers'[r].step = "store" /\ readers'[r].session = before.session
          /\ readers'[r].held = before.session
      BY <1>3, <1>4, <1>5, <2>5
    <3> QED BY <1>1, <1>6, <1>7, <1>8, <1>9, <2>1, <2>5, <3>1 DEF HalvesFit, ReaderFits
  <2>6. CASE Personal!StoreSessionOwner(r)
    <3>1. /\ readers'[r].step = "used" /\ readers'[r].session = before.session
          /\ readers'[r].held = before.held
      BY <1>3, <1>4, <1>5, <2>6
    <3> QED BY <1>1, <1>6, <1>7, <1>8, <1>9, <2>1, <2>6, <3>1 DEF HalvesFit, ReaderFits
  <2>7. CASE Personal!CollectNothing(r)
    <3>1. readers'[r].step = "used" /\ readers'[r].held = Personal!None
      BY <1>3, <1>4, <1>5, <1>6, <2>2, <2>7
    <3> QED BY <1>1, <1>6, <1>7, <1>8, <1>9, <2>1, <2>7, <3>1 DEF HalvesFit, ReaderFits
  <2>8. CASE Personal!EndReading(r)
    <3>1. readers'[r].step \in {"idle", "over"}
      BY <1>3, <1>4, <2>8 DEF PhoneOrNone
    <3> QED BY <1>1, <1>6, <1>7, <1>8, <1>9, <2>1, <2>8, <3>1 DEF HalvesFit, ReaderFits
  <2> QED BY <2>3, <2>4, <2>5, <2>6, <2>7, <2>8 DEF Personal!ReadStep
<1>10. PersonalTypes'
  BY <1>1, <1>7, <1>8 DEF PersonalTypes
<1>11. \A q \in Personal!Readers :
         readers'[q].step = "collect" => readers'[q].held = Personal!None
  BY <1>8 DEF PersonalInv
<1> QED BY <1>1, <1>9, <1>10, <1>11, NamesKept, QuestionsKept DEF PersonalInv

LEMMA PersonalStep ==
  ASSUME PersonalConstantsFit, PersonalInv, [Personal!Next]_(Personal!vars)
  PROVE  PersonalInv' /\ Personal!KeepsSavedModels
  BY PhoneStep, DialogStep, QuestionStep, CaptureStep, OwnerStep, ReaderStep
     DEF Personal!Next, Choices

LEMMA PersonalInvMeans == ASSUME PersonalInv PROVE Personal!ProfilesFit
  BY DEF PersonalInv, NamesExist, HalvesFit, ReaderFits, Personal!ProfilesFit,
     Personal!ProfileFitsTheAudit

LEMMA PersonalMoves ==
  ASSUME [DeskNext]_deskVars, part = "personal"
  PROVE  [Personal!Next]_(Personal!vars)
  BY DEF DeskNext, deskVars, personalVars, Personal!vars, Personal!savedState,
     Personal!slotState, Personal!phoneState, Personal!dialogState, Personal!captureState,
     Personal!auditState

LEMMA PersonalStays == DeskSpec => [](part = "personal" => PersonalInv)
<1>1. DeskInit => (part = "personal" => PersonalInv)
  BY PersonalStarts, DeskAssumption DEF DeskInit
<1>2. (part = "personal" => PersonalInv) /\ [DeskNext]_deskVars
        => (part = "personal" => PersonalInv)'
  BY PartStays, PersonalMoves, PersonalStep, DeskAssumption
<1> QED BY <1>1, <1>2, PTL DEF DeskSpec

(* For any phones and profiles, however questions, captures, dialogs,     *)
(* scans and audits, abandoned ones too, overlap: a configured profile is *)
(* there, unless its deletion was confirmed while another was selected;   *)
(* what an audit uses is of its phone, unless somebody accessed the slot  *)
(* between another's two halves; and a saved profile keeps its model.     *)
THEOREM ProfilesStayRight ==
  /\ Personal!Spec => Personal!ProfilesHold
  /\ DeskSpec => ProfilesHold
<1>1. Personal!Init => PersonalInv
  BY PersonalStarts, DeskAssumption
<1>2. PersonalInv /\ [Personal!Next]_(Personal!vars)
        => PersonalInv' /\ [Personal!KeepsSavedModels]_(Personal!vars)
  BY PersonalStep, DeskAssumption
<1>3. PersonalInv => Personal!ProfilesFit
  BY PersonalInvMeans
<1>4. (part = "personal" => PersonalInv) /\ [DeskNext]_deskVars =>
        [part = "personal" => Personal!KeepsSavedModels]_<<personalVars, part>>
  BY PartStays, PersonalMoves, PersonalStep, DeskAssumption DEF personalVars, Personal!vars,
     Personal!savedState, Personal!slotState, Personal!phoneState, Personal!dialogState,
     Personal!captureState, Personal!auditState
<1>5. Personal!Spec => Personal!ProfilesHold
  BY <1>1, <1>2, <1>3, PTL DEF Personal!Spec, Personal!ProfilesHold, Personal!SavedModelStays
<1>6. DeskSpec => ProfilesHold
  BY <1>3, <1>4, PersonalStays, PTL DEF DeskSpec, ProfilesHold
<1> QED BY <1>5, <1>6

-----------------------------------------------------------------------------
(* The legal material of a release. What was taken off the list of a      *)
(* preparation is there as the official file (DownloadsFit), and the      *)
(* manifest is about the package as it was recorded (ManifestFits), until *)
(* somebody meddles with it.                                              *)

Intact == candidatePc \in {"prepared", "signed"} \/ (candidatePc = "ready" /\ ~meddled)
Needed == Candidate!Detected \cup {"certifi"}
DetectedIn(P) ==
  {c \in Candidate!Components : \/ c = "qtbase" /\ P \cap {"qtcore", "pyside"} # {}
                                \/ c = "qtsvg" /\ "qtsvg" \in P
                                \/ c = "pyside-setup" /\ P \cap {"pyside", "shiboken"} # {}}

\* The package a preparation works on is one the platform's check let through.
PackageFits ==
  /\ candidatePc \in {"built", "resolve", "fetch", "failed"} \/ Intact =>
                Candidate!Always \subseteq Candidate!Packaged /\ Candidate!Forbidden = {}
                  /\ "marker" \notin Candidate!Packaged
  /\ candidatePc \in {"resolve", "fetch"} \/ Intact
       => Candidate!BundledAdb = {} /\ Candidate!ReportLoads(candidateReport)

\* What was taken off the list of a preparation is there as the official file.
DownloadsFit ==
  /\ assets \in [Candidate!Sources -> {"none", "official", "other"}]
  /\ candidatePc \in {"resolve", "fetch"}
       => candidateStaged = {Candidate!Single("root", "LICENSE")}
  /\ candidatePc = "fetch" =>
                /\ todo \subseteq Needed
                /\ \A s \in Candidate!Sources :
                     IF s \in Needed THEN s \in todo
                       \/ assets[s] = "official" ELSE assets[s] = "none"

\* The manifest is about the package as it was recorded, and the sources of its build.
ManifestFits ==
  candidatePc \in {"prepared", "signed", "ready"} =>
             /\ {"inventory", "licences", "references", "sources", "records", "dependencies",
                 "evidence", "openssl"}
                  \subseteq DOMAIN manifest
             /\ manifest.licences = Candidate!LicenceMappings
             /\ manifest.references = Candidate!ReferenceMappings
             /\ ~Candidate!ExtractFails(upstream)
             /\ manifest.sources = DetectedIn(DOMAIN manifest.inventory) \cup {"certifi"}
             /\ \A d \in DOMAIN manifest.inventory \cap (Candidate!Dists \ Candidate!QtPython) :
                  Candidate!Single("licence", d) \in candidateStaged
             /\ "ssl" \in DOMAIN manifest.inventory
                  => Candidate!Single("licence", "ssl") \in candidateStaged

\* All that the validation looks at but the inventory, which signing changes.
FilesHold     == Candidate!RequiredFiles /\ Candidate!StagedTreeHolds
  /\ Candidate!LicencesMapped /\ Candidate!StoreIsExact /\ Candidate!AvailabilityStated
MappingsHold  == Candidate!ReferencesMapped /\ Candidate!RecordsMapped /\ Candidate!Rendered
EvidenceHolds == Candidate!EvidenceRecorded /\ Candidate!EvidenceModules
  /\ Candidate!EvidenceDists /\ Candidate!CommunityBasis /\ Candidate!DependencyEvidence
SourcesHold   == Candidate!OpenSslHolds /\ Candidate!SourcesStaged /\ Candidate!BundleHolds

IntactFits ==
  Intact => /\ FilesHold /\ MappingsHold /\ EvidenceHolds /\ SourcesHold
            /\ DOMAIN manifest.inventory = Candidate!Packaged
            /\ candidatePc = "ready" => Candidate!InventoryHolds

CandidateInv == PackageFits /\ DownloadsFit /\ ManifestFits /\ IntactFits
  /\ Candidate!AcceptedIsComplete

-----------------------------------------------------------------------------

LEMMA PackagedFits == Candidate!Packaged = {f \in Candidate!Files : package[f] # 0}
  BY DEF Candidate!Packaged, Candidate!Absent

\* The programs of the package that declare themselves, and what they need.
LEMMA CandidatesFit ==
  /\ {"pyside", "shiboken", "certifi", "extra"} \subseteq Candidate!Candidates
<1>1. ASSUME NEW S \in SUBSET Candidate!Dists, Candidate!Direct \subseteq S,
             \A e \in S : Candidate!Requires(e) \subseteq S
      PROVE  {"pyside", "shiboken", "certifi", "extra"} \subseteq S
  BY <1>1 DEF Candidate!Direct, Candidate!Requires
<1> QED BY <1>1 DEF Candidate!Candidates, Candidate!Dists

LEMMA ResolvedFits ==
  ASSUME NEW at, NEW reference, NEW members, Candidate!Resolved(at, reference, members) # <<>>
  PROVE  Candidate!Resolved(at, reference, members) \in members
<1> DEFINE named == {m \in members : Candidate!Last(m) = Candidate!Last(reference)}
<1>1. CASE Cardinality(named) = 1
  <2>1. named # {}
    BY <1>1, FS_EmptySet
  <2>2. (CHOOSE m \in named : TRUE) \in named
    BY <2>1
  <2>3. (CHOOSE m \in named : TRUE) \in members
    BY <2>2
  <2> HIDE DEF named
  <2> QED BY <2>3 DEF Candidate!Resolved, named
<1>2. CASE Cardinality(named) # 1
  BY <1>2 DEF Candidate!Resolved
<1> QED BY <1>1, <1>2

\* The community licence is a text in LICENSES.
LEMMA CommunityFits ==
  ASSUME Candidate!CommunityHolds
  PROVE  <<"LICENSES", "LGPL">> \in Candidate!Licences(upstream)
<1>1. PICK m \in Candidate!Licences(upstream) \cup (Candidate!Referred(upstream) \ {<<>>}) :
    Candidate!LegalFile(m) = Candidate!Single("community", "LGPL")
  BY DEF Candidate!CommunityHolds, Candidate!Extracted
<1>2. m = <<"LICENSES", "LGPL">>
  BY <1>1 DEF Candidate!LegalFile, Candidate!Single, Candidate!LegalName
<1>3. m \in upstream.members
  BY <1>1, ResolvedFits DEF Candidate!Licences, Candidate!Referred
<1>4. Len(m) = 2 /\ m[1] = "LICENSES"
  BY <1>2
<1> QED BY <1>2, <1>3, <1>4 DEF Candidate!Licences

\* The kinds of files that are staged, and their names.
Plain == {Candidate!Single("root", "LICENSE"), Candidate!Attributions,
          Candidate!SourceAvailability, Candidate!ThirdPartyNotices}
LEMMA StagedNames ==
  /\ \A file \in Candidate!Extracted(upstream) : file[1][1] \in {"community", "payload"}
  /\ \A S : \A file \in Candidate!LicencesOf(S) : \E d \in S : file[1] = <<"licence", d>>
  /\ \A S : \A d \in S : Candidate!Single("licence", d) \in Candidate!LicencesOf(S)
  /\ \A file \in Plain : file[1] \in {Candidate!Root("LICENSE"), Candidate!Root("ATTRIBUTIONS"),
                                      Candidate!Root("AVAILABILITY"), Candidate!Root("NOTICES")}
<1>1. \A m : Candidate!LegalFile(m)[1][1] \in {"community", "payload"}
  BY DEF Candidate!LegalFile, Candidate!Single, Candidate!LegalName
<1>2. \A file \in Candidate!Extracted(upstream) : file[1][1] \in {"community", "payload"}
  BY <1>1 DEF Candidate!Extracted
<1>3. \A S : /\ \A file \in Candidate!LicencesOf(S) : \E d \in S : file[1] = <<"licence", d>>
             /\ \A d \in S : Candidate!Single("licence", d) \in Candidate!LicencesOf(S)
  BY DEF Candidate!LicencesOf, Candidate!Single
<1>4. \A file \in Plain : file[1] \in {Candidate!Root("LICENSE"),
                                       Candidate!Root("ATTRIBUTIONS"),
                                       Candidate!Root("AVAILABILITY"), Candidate!Root("NOTICES")}
  BY DEF Plain, Candidate!Root, Candidate!Single, Candidate!Attributions,
     Candidate!SourceAvailability, Candidate!ThirdPartyNotices
<1> QED BY <1>2, <1>3, <1>4

Prepared ==
  /\ candidatePc = "fetch" /\ todo = {} /\ ~Candidate!Unprepared({})
  /\ candidateStaged' = candidateStaged \cup Candidate!Extracted(upstream)
       \cup Candidate!LicencesOf(Candidate!Licensed)
                          \cup {Candidate!Attributions, Candidate!SourceAvailability,
                                Candidate!ThirdPartyNotices}
  /\ candidateEvidence' = candidateReport /\ candidateBundle' = Candidate!SourceBundle
  /\ manifest' = Candidate!NewManifest /\ injected' = candidateStaged'
  /\ candidatePc' = "prepared"
  /\ UNCHANGED <<package, candidateReport, upstream, assets, todo, attempt, runs, meddled>>

LEMMA MappingsFit ==
  /\ {m[1] : m \in Candidate!ReferenceMappings} = upstream.references
  /\ {m[2] : m \in Candidate!ReferenceMappings}
       = {Candidate!LegalFile(m) : m \in Candidate!Referred(upstream)}
<1> DEFINE referred(r) == Candidate!Resolved(upstream.at, r, upstream.members)
           mapping(r) == <<r, Candidate!LegalFile(referred(r))>>
<1>1. \A m : m \in Candidate!ReferenceMappings <=> \E r \in upstream.references : m = mapping(r)
  BY DEF Candidate!ReferenceMappings
<1>2. \A m : m \in Candidate!Referred(upstream)
        <=> \E r \in upstream.references : m = referred(r)
  BY DEF Candidate!Referred
<1>3. \A r : mapping(r)[1] = r /\ mapping(r)[2] = Candidate!LegalFile(referred(r))
  OBVIOUS
<1> HIDE DEF referred, mapping
<1>4. {m[1] : m \in Candidate!ReferenceMappings} = upstream.references
  BY <1>1, <1>3
<1>5. {m[2] : m \in Candidate!ReferenceMappings}
        = {Candidate!LegalFile(m) : m \in Candidate!Referred(upstream)}
  BY <1>1, <1>2, <1>3
<1> QED BY <1>4, <1>5

LEMMA PreparedFiles == ASSUME CandidateInv, Prepared PROVE FilesHold'
<1>1. candidateStaged' = Plain \cup Candidate!Extracted(upstream)
        \cup Candidate!LicencesOf(Candidate!Licensed) /\ injected' = candidateStaged'
  BY DEF Prepared, CandidateInv, DownloadsFit, Plain
<1>2. /\ manifest'.licences = Candidate!LicenceMappings
      /\ manifest'.references = Candidate!ReferenceMappings
      /\ upstream' = upstream /\ ~Candidate!ExtractFails(upstream) /\ Candidate!CommunityHolds
  BY DEF Prepared, Candidate!NewManifest, Candidate!Unprepared
<1>3. {Candidate!Single("root", "LICENSE"), Candidate!Attributions,
       Candidate!SourceAvailability, Candidate!ThirdPartyNotices} \subseteq injected'
  BY <1>1 DEF Plain
<1>4. /\ Candidate!Single("root", "LICENSE")[1] = Candidate!Root("LICENSE")
      /\ Candidate!SourceAvailability[1] = Candidate!Root("AVAILABILITY")
      /\ Candidate!ThirdPartyNotices[1] = Candidate!Root("NOTICES")
  BY DEF Candidate!Single, Candidate!Root, Candidate!SourceAvailability,
     Candidate!ThirdPartyNotices
<1>5. {Candidate!Root("LICENSE"), Candidate!Root("NOTICES"),
       Candidate!Root("AVAILABILITY")} \subseteq Candidate!NamesIn(injected')
  BY <1>3, <1>4 DEF Candidate!NamesIn
<1>6. \A file \in injected' : file[1] # Candidate!Root("MANIFEST")
  <2> SUFFICES ASSUME NEW file \in injected' PROVE file[1] # Candidate!Root("MANIFEST")
    OBVIOUS
  <2>1. CASE file \in Plain
    BY <2>1, StagedNames DEF Candidate!Root
  <2>2. CASE file \in Candidate!Extracted(upstream)
    BY <2>2, StagedNames DEF Candidate!Root
  <2>3. CASE file \in Candidate!LicencesOf(Candidate!Licensed)
    BY <2>3, StagedNames DEF Candidate!Root
  <2> QED BY <1>1, <2>1, <2>2, <2>3
<1>7. Candidate!RequiredFiles' /\ Candidate!StagedTreeHolds' /\ Candidate!AvailabilityStated'
  <2>1. Candidate!Root("MANIFEST") \notin Candidate!NamesIn(injected')
    BY <1>6 DEF Candidate!NamesIn
  <2> QED BY <1>1, <1>3, <1>5, <2>1 DEF Candidate!RequiredFiles, Candidate!StagedTreeHolds,
             Candidate!AvailabilityStated, Candidate!SourceAvailability
<1>8. Candidate!LicencesMapped'
  <2>1. Candidate!LicenceMappings \subseteq Candidate!Extracted(upstream)
    BY DEF Candidate!LicenceMappings, Candidate!Extracted
  <2>2. Candidate!LegalFile(<<"LICENSES", "LGPL">>) \in Candidate!LicenceMappings
    BY <1>2, CommunityFits DEF Candidate!LicenceMappings
  <2>3. Candidate!LegalFile(<<"LICENSES", "LGPL">>)[1] = <<"community", "LGPL">>
    <3>1. Candidate!Last(<<"LICENSES", "LGPL">>) = "LGPL"
      BY DEF Candidate!Last
    <3> QED BY <3>1 DEF Candidate!LegalFile, Candidate!LegalName, Candidate!Single
  <2>4. <<"community", "LGPL">> \in Candidate!NamesIn(injected')
    BY <1>1, <2>1, <2>2, <2>3 DEF Candidate!NamesIn
  <2> QED BY <1>1, <1>2, <2>1, <2>2, <2>4 DEF Candidate!LicencesMapped
<1>9. Candidate!StoreIsExact'
  <2> DEFINE mapped == manifest'.licences \cup {m[2] : m \in manifest'.references}
  <2>1. mapped = Candidate!Extracted(upstream)
    <3>1. {m[2] : m \in Candidate!ReferenceMappings}
            = {Candidate!LegalFile(m) : m \in Candidate!Referred(upstream)}
      BY MappingsFit
    <3>2. Candidate!Referred(upstream) \ {<<>>} = Candidate!Referred(upstream)
      BY <1>2 DEF Candidate!ExtractFails
    <3> QED BY <1>2, <3>1, <3>2 DEF Candidate!LicenceMappings, Candidate!Extracted
  <2>2. ASSUME NEW n \in Candidate!Canonical(Candidate!NamesIn(injected'))
        PROVE  n \in Candidate!Canonical(Candidate!NamesIn(mapped))
    <3>1. PICK file \in injected' : n = file[1] /\ n[1] = "payload"
      BY <2>2 DEF Candidate!Canonical, Candidate!NamesIn
    <3>2. file \notin Plain
      BY <3>1, StagedNames DEF Candidate!Root
    <3>3. file \notin Candidate!LicencesOf(Candidate!Licensed)
      BY <3>1, StagedNames
    <3>4. file \in mapped
      BY <1>1, <2>1, <3>2, <3>3
    <3> QED BY <3>1, <3>4 DEF Candidate!Canonical, Candidate!NamesIn
  <2>3. Candidate!NamesIn(mapped) \subseteq Candidate!NamesIn(injected')
    BY <1>1, <2>1 DEF Candidate!NamesIn
  <2>4. Candidate!Canonical(Candidate!NamesIn(mapped))
        \subseteq Candidate!Canonical(Candidate!NamesIn(injected'))
    BY <2>3 DEF Candidate!Canonical
  <2>5. Candidate!Canonical(Candidate!NamesIn(injected'))
          = Candidate!Canonical(Candidate!NamesIn(mapped))
    BY <2>2, <2>4
  <2> QED BY <2>5 DEF Candidate!StoreIsExact
<1> QED BY <1>7, <1>8, <1>9 DEF FilesHold

LEMMA PreparedMappings == ASSUME CandidateInv, Prepared PROVE MappingsHold'
<1>1. /\ candidateStaged' = Plain \cup Candidate!Extracted(upstream)
           \cup Candidate!LicencesOf(Candidate!Licensed) /\ injected' = candidateStaged'
      /\ manifest'.references = Candidate!ReferenceMappings
      /\ manifest'.records = upstream.references
      /\ upstream' = upstream /\ ~Candidate!ExtractFails(upstream)
  BY DEF Prepared, CandidateInv, DownloadsFit, Plain, Candidate!NewManifest,
     Candidate!Unprepared
<1>2. Candidate!ReferencesMapped'
  <2>1. ASSUME NEW r \in upstream.references
        PROVE  Candidate!LegalFile(Candidate!Resolved(upstream.at, r, upstream.members))
                 \in Candidate!Extracted(upstream)
    BY <1>1 DEF Candidate!Extracted, Candidate!Referred, Candidate!ExtractFails
  <2> QED BY <1>1, <2>1 DEF Candidate!ReferencesMapped, Candidate!ReferenceMappings
<1>3. Candidate!RecordsMapped'
  <2>1. {m[1] : m \in Candidate!ReferenceMappings} = upstream.references
    BY MappingsFit
  <2> QED BY <1>1, <2>1 DEF Candidate!RecordsMapped
<1>4. Candidate!Rendered'
  <2>1. Candidate!Attributions \in injected'
          /\ Candidate!Attributions[1] = Candidate!Root("ATTRIBUTIONS")
          /\ Candidate!Attributions[2] = upstream.references
    BY <1>1 DEF Plain, Candidate!Attributions
  <2> QED BY <1>1, <2>1 DEF Candidate!Rendered
<1> QED BY <1>2, <1>3, <1>4 DEF MappingsHold

LEMMA PreparedEvidence == ASSUME CandidateInv, Prepared PROVE EvidenceHolds'
<1>1. /\ candidateStaged' = Plain \cup Candidate!Extracted(upstream)
           \cup Candidate!LicencesOf(Candidate!Licensed) /\ injected' = candidateStaged'
      /\ candidateEvidence' = candidateReport /\ package' = package
      /\ candidateReport' = candidateReport /\ ~Candidate!ClosureFails
      /\ Candidate!ReportLoads(candidateReport)
      /\ Candidate!Always \subseteq Candidate!Packaged
  BY DEF Prepared, CandidateInv, PackageFits, DownloadsFit, Plain, Candidate!Unprepared
<1>2. manifest'.evidence = candidateReport
        /\ manifest'.dependencies = [d \in Candidate!Dependencies |-> Candidate!EvidenceOf(d)]
  BY DEF Prepared, Candidate!NewManifest
<1>3. /\ DOMAIN manifest'.dependencies = Candidate!Dependencies
      /\ \A d \in Candidate!Dependencies : manifest'.dependencies[d] = Candidate!EvidenceOf(d)
  BY <1>2
<1>4. Candidate!EvidenceRecorded' /\ Candidate!EvidenceModules'
  BY <1>1, <1>2 DEF Candidate!EvidenceRecorded, Candidate!EvidenceModules,
     Candidate!ReportLoads
<1>5. Candidate!EvidenceDists'
  BY <1>1 DEF Candidate!EvidenceDists, Candidate!ReportLoads, Candidate!ClosureFails
<1>6. Candidate!CommunityBasis'
  <2>1. ASSUME NEW d \in Candidate!QtPython PROVE d \in Candidate!Dependencies
    <3>1. d \in Candidate!Candidates /\ d \in Candidate!Packaged
      BY <1>1, CandidatesFit DEF Candidate!QtPython, Candidate!Always
    <3>2. <<"file", d>> \in Candidate!FilesOf(d)
      BY <3>1 DEF Candidate!FilesOf
    <3> QED BY <3>1, <3>2 DEF Candidate!Dependencies, Candidate!EvidenceOf
  <2> QED BY <1>3, <2>1 DEF Candidate!CommunityBasis
<1>7. Candidate!DependencyEvidence'
  <2>1. ASSUME NEW d \in Candidate!Dependencies
        PROVE  /\ Candidate!EvidenceOf(d) # {}
               /\ Candidate!EvidenceOf(d) \subseteq {<<"file", f>> : f \in Candidate!Packaged}
                    \cup {<<"module", m.name, m.owner>> : m \in candidateReport.modules}
               /\ d \in Candidate!QtPython \/ <<"licence", d>> \in Candidate!NamesIn(injected')
    <3>1. Candidate!EvidenceOf(d) # {}
      BY DEF Candidate!Dependencies
    <3>2. Candidate!EvidenceOf(d) \subseteq {<<"file", f>> : f \in Candidate!Packaged}
                              \cup {<<"module", m.name,
                                      m.owner>> : m \in candidateReport.modules}
      BY DEF Candidate!EvidenceOf, Candidate!FilesOf, Candidate!ModulesOf
    <3>3. CASE d \notin Candidate!QtPython
      <4>1. d \in Candidate!Licensed
        BY <3>3 DEF Candidate!Licensed, Candidate!OwnLicences
      <4>2. Candidate!Single("licence", d) \in injected'
              /\ Candidate!Single("licence", d)[1] = <<"licence", d>>
        BY <1>1, <4>1, StagedNames DEF Candidate!Single
      <4> QED BY <3>1, <3>2, <4>2 DEF Candidate!NamesIn
    <3> QED BY <3>1, <3>2, <3>3
  <2>2. candidateReport.dists \subseteq Candidate!Dependencies
    BY <1>1 DEF Candidate!ClosureFails, Candidate!Dependencies
  <2>3. Candidate!Packaged' = Candidate!Packaged
    BY <1>1 DEF Candidate!Packaged
  <2> QED BY <1>1, <1>3, <2>1, <2>2, <2>3 DEF Candidate!DependencyEvidence
<1> QED BY <1>4, <1>5, <1>6, <1>7 DEF EvidenceHolds

LEMMA PreparedSources == ASSUME CandidateInv, Prepared PROVE SourcesHold'
<1>1. /\ candidateStaged' = Plain \cup Candidate!Extracted(upstream)
           \cup Candidate!LicencesOf(Candidate!Licensed) /\ injected' = candidateStaged'
      /\ package' = package /\ assets' = assets
      /\ candidateBundle' = [s \in Needed |-> assets[s]]
      /\ \A s \in Candidate!Sources :
           IF s \in Needed THEN assets[s] = "official" ELSE assets[s] = "none"
  BY DEF Prepared, CandidateInv, DownloadsFit, Plain, Candidate!SourceBundle, Needed
<1>2. manifest'.openssl = Candidate!OpenSsl /\ manifest'.sources = Needed
  BY DEF Prepared, Candidate!NewManifest, Needed
<1>3. Candidate!Packaged' = Candidate!Packaged /\ Candidate!OpenSsl' = Candidate!OpenSsl
  BY <1>1 DEF Candidate!Packaged, Candidate!OpenSsl
<1>4. Candidate!OpenSslHolds'
  <2>1. ASSUME Candidate!OpenSsl # {}
        PROVE  <<"licence", "ssl">> \in Candidate!NamesIn(injected')
    <3>1. "ssl" \in Candidate!Licensed
      BY <2>1 DEF Candidate!Licensed, Candidate!OpenSslLicence, Candidate!OpenSsl,
         Candidate!IsOpensslRuntimeName
    <3>2. Candidate!Single("licence", "ssl") \in injected'
            /\ Candidate!Single("licence", "ssl")[1] = <<"licence", "ssl">>
      BY <1>1, <3>1, StagedNames DEF Candidate!Single
    <3> QED BY <3>2 DEF Candidate!NamesIn
  <2> QED BY <1>2, <1>3, <2>1 DEF Candidate!OpenSslHolds
<1>5. Candidate!SourcesStaged' /\ Candidate!BundleHolds'
  <2>1. Needed \subseteq Candidate!Sources /\ "certifi" \in Needed
    BY DEF Needed, Candidate!Detected, Candidate!Sources
  <2> QED BY <1>1, <1>2, <2>1 DEF Candidate!SourcesStaged, Candidate!BundleHolds
<1> QED BY <1>4, <1>5 DEF SourcesHold

LEMMA PreparedManifest ==
  ASSUME CandidateInv, Prepared
  PROVE  ManifestFits' /\ DOMAIN manifest'.inventory = Candidate!Packaged
<1>1. /\ candidateStaged' = Plain \cup Candidate!Extracted(upstream)
           \cup Candidate!LicencesOf(Candidate!Licensed)
      /\ upstream' = upstream /\ ~Candidate!ExtractFails(upstream) /\ Candidate!Forbidden = {}
      /\ Candidate!BundledAdb = {}
  BY DEF Prepared, CandidateInv, PackageFits, DownloadsFit, Plain, Candidate!Unprepared
<1>2. /\ manifest'.licences = Candidate!LicenceMappings
      /\ manifest'.references = Candidate!ReferenceMappings
      /\ manifest'.inventory = Candidate!Inventory
      /\ manifest'.sources = Candidate!Detected \cup {"certifi"}
  BY DEF Prepared, Candidate!NewManifest
<1>3. DOMAIN manifest'.inventory = Candidate!Packaged
  BY <1>2 DEF Candidate!Inventory
<1>4. Candidate!Detected = DetectedIn(Candidate!Packaged)
  BY DEF Candidate!Detected, DetectedIn
<1>5. ASSUME NEW d \in Candidate!Packaged \cap (Candidate!Dists \ Candidate!QtPython)
      PROVE  Candidate!Single("licence", d) \in candidateStaged'
  <2>1. d \in {"certifi", "extra"}
    BY DEF Candidate!Packaged, Candidate!Files, Candidate!Always, Candidate!Optional,
       Candidate!Dists, Candidate!QtPython
  <2>2. d \in Candidate!Candidates
    BY <2>1, CandidatesFit
  <2>3. <<"file", d>> \in Candidate!FilesOf(d)
    BY DEF Candidate!FilesOf
  <2>4. d \in Candidate!Licensed
    BY <2>2, <2>3 DEF Candidate!Licensed, Candidate!OwnLicences, Candidate!Dependencies,
       Candidate!EvidenceOf
  <2> QED BY <1>1, <2>4, StagedNames
<1>6. ASSUME "ssl" \in Candidate!Packaged
      PROVE  Candidate!Single("licence", "ssl") \in candidateStaged'
  <2>1. "ssl" \in Candidate!Licensed
    BY <1>6 DEF Candidate!Licensed, Candidate!OpenSslLicence, Candidate!OpenSsl,
       Candidate!IsOpensslRuntimeName
  <2> QED BY <1>1, <2>1, StagedNames
<1>7. Candidate!LicenceMappings' = Candidate!LicenceMappings
        /\ Candidate!ReferenceMappings' = Candidate!ReferenceMappings
      /\ Candidate!ExtractFails(upstream)' = Candidate!ExtractFails(upstream)
  BY <1>1 DEF Candidate!LicenceMappings, Candidate!ReferenceMappings
<1>8. {"inventory", "licences", "references", "sources", "records", "dependencies", "evidence",
       "openssl"}
        \subseteq DOMAIN manifest'
  BY DEF Prepared, Candidate!NewManifest
<1> QED BY <1>1, <1>2, <1>3, <1>4, <1>5, <1>6, <1>7, <1>8 DEF ManifestFits

LEMMA CompleteStep == ASSUME CandidateInv, Candidate!Complete PROVE CandidateInv'
<1>1. CASE Prepared
  <2>1. /\ candidatePc' = "prepared" /\ candidatePc = "fetch" /\ assets' = assets
        /\ UNCHANGED <<package, candidateReport>> /\ Intact'
        /\ Candidate!Packaged' = Candidate!Packaged
    BY <1>1 DEF Prepared, Intact, Candidate!Packaged
  <2>2. PackageFits'
    BY <2>1 DEF CandidateInv, PackageFits, Candidate!Forbidden, Candidate!BundledAdb,
       Candidate!ReportLoads
  <2>3. DownloadsFit' /\ Candidate!AcceptedIsComplete'
    BY <2>1 DEF CandidateInv, DownloadsFit, Candidate!AcceptedIsComplete
  <2>4. IntactFits'
    BY <1>1, <2>1, PreparedFiles, PreparedMappings, PreparedEvidence, PreparedSources,
       PreparedManifest DEF IntactFits
  <2> QED BY <1>1, <2>2, <2>3, <2>4, PreparedManifest DEF CandidateInv
<1>2. CASE ~Prepared
  <2>1. /\ candidatePc' = "failed" /\ candidatePc = "fetch" /\ assets' = assets
        /\ UNCHANGED <<package, candidateReport>>
        /\ Candidate!Packaged' = Candidate!Packaged
    BY <1>2 DEF Candidate!Complete, Prepared, Candidate!Fails, Candidate!Injected,
       Candidate!Packaged
  <2> QED BY <2>1 DEF CandidateInv, PackageFits, Candidate!Forbidden, Candidate!BundledAdb,
             DownloadsFit, ManifestFits, IntactFits, Intact, Candidate!AcceptedIsComplete
<1> QED BY <1>1, <1>2

LEMMA CandidateStarts == ASSUME Candidate!Init PROVE CandidateInv
<1>1. assets \in [Candidate!Sources -> {"none", "official", "other"}] /\ candidatePc = "new"
  BY DEF Candidate!Init
<1> QED BY <1>1 DEF CandidateInv, PackageFits, DownloadsFit, ManifestFits, IntactFits, Intact,
           Candidate!AcceptedIsComplete

\* From the checks before the build to the start of a preparation.
LEMMA BuildStep ==
  ASSUME CandidateInv, Candidate!Preflight \/ Candidate!Build \/ Candidate!StartPrepare
  PROVE  CandidateInv'
<1>1. CASE Candidate!Preflight
  <2>1. candidatePc' \in {"checked", "refused"} /\ assets' = assets
    BY <1>1 DEF Candidate!Preflight
  <2> QED BY <2>1 DEF CandidateInv, PackageFits, DownloadsFit, ManifestFits, IntactFits,
             Intact, Candidate!AcceptedIsComplete
<1>2. CASE Candidate!Build
  <2>1. candidatePc' = (IF Candidate!Standalone' THEN "built" ELSE "refused")
    BY <1>2 DEF Candidate!Build
  <2>2. PICK optional \in SUBSET Candidate!Optional :
          package' = [f \in Candidate!Files |-> IF f \in Candidate!Always \cup optional
                                                THEN 1
                                                ELSE Candidate!Absent]
    BY <1>2 DEF Candidate!Build
  <2>3. "marker" \notin Candidate!Packaged'
    BY <2>2 DEF Candidate!Packaged, Candidate!Files, Candidate!Always, Candidate!Optional,
       Candidate!Absent
  <2>4. assets' \in [Candidate!Sources -> {"none", "official", "other"}]
    <3>1. PICK c \in {"none", "official", "other"} :
        assets' = [s \in Candidate!Sources |-> IF s = "qtsvg" THEN c ELSE "none"]
      BY <1>2 DEF Candidate!Build
    <3> QED BY <3>1
  <2>5. PackageFits'
    BY <2>1, <2>3 DEF PackageFits, Candidate!Standalone, Intact
  <2> QED BY <2>1, <2>4, <2>5 DEF CandidateInv, DownloadsFit, ManifestFits, IntactFits,
             Intact, Candidate!AcceptedIsComplete
<1>3. CASE Candidate!StartPrepare
  <2>1. /\ candidatePc \in {"built", "failed"} /\ UNCHANGED <<package, candidateReport, assets>>
        /\ candidatePc' \in {"failed", "resolve"}
        /\ candidatePc' = "resolve" => ~Candidate!PrepareRefuses
             /\ candidateStaged' = {Candidate!Single("root", "LICENSE")}
    BY <1>3 DEF Candidate!StartPrepare, Candidate!Fails
  <2>2. Candidate!Packaged' = Candidate!Packaged /\ Candidate!Forbidden' = Candidate!Forbidden
          /\ Candidate!BundledAdb' = Candidate!BundledAdb
    BY <2>1 DEF Candidate!Packaged, Candidate!Forbidden, Candidate!BundledAdb
  <2>3. PackageFits'
    BY <2>1, <2>2 DEF CandidateInv, PackageFits, Candidate!PrepareRefuses, Intact
  <2> QED BY <2>1, <2>3 DEF CandidateInv, DownloadsFit, ManifestFits, IntactFits, Intact,
             Candidate!AcceptedIsComplete
<1> QED BY <1>1, <1>2, <1>3

LEMMA SourcesStep ==
  ASSUME CandidateInv,
         Candidate!ResolveSources \/ Candidate!Interrupted \/ \E s \in Candidate!Sources :
             Candidate!Reuse(s) \/ Candidate!Download(s)
  PROVE  CandidateInv'
<1>1. /\ candidatePc \in {"resolve", "fetch"} /\ candidatePc' \in {"resolve", "fetch", "failed"}
      /\ UNCHANGED <<package, candidateReport, candidateStaged>>
  BY DEF Candidate!ResolveSources, Candidate!Interrupted, Candidate!Reuse, Candidate!Download,
     Candidate!Received, Candidate!Fails
<1>2. Candidate!Packaged' = Candidate!Packaged /\ Candidate!Forbidden' = Candidate!Forbidden
        /\ Candidate!BundledAdb' = Candidate!BundledAdb /\ Needed' = Needed
  BY <1>1 DEF Candidate!Packaged, Candidate!Forbidden, Candidate!BundledAdb, Needed,
     Candidate!Detected
<1>3. PackageFits'
  BY <1>1, <1>2 DEF CandidateInv, PackageFits, Intact
<1>4. DownloadsFit'
  <2> USE DEF CandidateInv, DownloadsFit
  <2>1. CASE Candidate!ResolveSources
    <3>1. (candidatePc' = "failed" /\ assets' = assets)
            \/ (candidatePc' = "fetch" /\ todo' = Needed
                  /\ assets' = Candidate!CachedSources(Needed))
      BY <2>1 DEF Candidate!ResolveSources, Needed, Candidate!Fails
    <3>2. CASE candidatePc' = "failed" /\ assets' = assets
      BY <1>1, <3>2
    <3>3. CASE candidatePc' = "fetch" /\ todo' = Needed
            /\ assets' = Candidate!CachedSources(Needed)
      <4>1. /\ assets' \in [Candidate!Sources -> {"none", "official", "other"}]
            /\ \A s \in Candidate!Sources : s \notin Needed => assets'[s] = "none"
        BY <3>3 DEF Candidate!CachedSources
      <4> QED BY <1>1, <1>2, <3>3, <4>1
    <3> QED BY <3>1, <3>2, <3>3
  <2>2. CASE Candidate!Interrupted
    BY <1>1, <2>2 DEF Candidate!Interrupted, Candidate!Fails
  <2>3. ASSUME NEW s \in Candidate!Sources, Candidate!Reuse(s) PROVE DownloadsFit'
    <3>1. candidatePc' = "fetch" /\ candidatePc = "fetch" /\ assets[s] = "official"
            /\ todo' = todo \ {s} /\ assets' = assets
      BY <2>3 DEF Candidate!Reuse
    <3> QED BY <1>1, <1>2, <3>1
  <2>4. ASSUME NEW s \in Candidate!Sources, Candidate!Download(s) PROVE DownloadsFit'
    <3>1. /\ candidatePc = "fetch" /\ s \in todo
          /\ \/ candidatePc' = "failed" /\ assets' = assets
             \/ candidatePc' = "fetch" /\ assets' = assets /\ todo' = todo
             \/ candidatePc' = "fetch" /\ assets' = [assets EXCEPT ![s] = "official"]
                  /\ todo' = todo \ {s}
      BY <2>4 DEF Candidate!Download, Candidate!Received, Candidate!Fails
    <3>2. CASE assets' = assets
      BY <1>1, <1>2, <3>1, <3>2
    <3>3. CASE candidatePc' = "fetch" /\ assets' = [assets EXCEPT ![s] = "official"]
            /\ todo' = todo \ {s}
      <4>1. /\ assets' \in [Candidate!Sources -> {"none", "official", "other"}]
            /\ \A r \in Candidate!Sources : assets'[r] = IF r = s THEN "official" ELSE assets[r]
        BY <3>3
      <4> QED BY <1>1, <1>2, <3>1, <3>3, <4>1
    <3> QED BY <3>1, <3>2, <3>3
  <2> QED BY <2>1, <2>2, <2>3, <2>4
<1> QED BY <1>1, <1>3, <1>4 DEF CandidateInv, ManifestFits, IntactFits, Intact,
           Candidate!AcceptedIsComplete

\* Signing changes what the files hold and not which are there, and the manifest the inventory.
LEMMA SealStep ==
  ASSUME CandidateInv, Candidate!Sign \/ Candidate!RefreshEvidence
  PROVE  CandidateInv'
<1>1. /\ candidatePc \in {"prepared", "signed"} /\ Intact
      /\ candidatePc' \in {"signed", "ready"}
      /\ UNCHANGED <<injected, candidateStaged, candidateReport, candidateEvidence, upstream,
                     assets, candidateBundle>>
  BY DEF Candidate!Sign, Candidate!RefreshEvidence, Intact
<1>2. Candidate!Packaged' = Candidate!Packaged
  <2>1. CASE Candidate!Sign
    <3>1. package' = [f \in Candidate!Files |-> IF package[f] = 1 /\ f # "certifi"
                                                THEN 2
                                                ELSE package[f]]
      BY <2>1 DEF Candidate!Sign
    <3> QED BY <3>1, PackagedFits DEF Candidate!Packaged, Candidate!Absent
  <2>2. CASE Candidate!RefreshEvidence
    BY <2>2 DEF Candidate!RefreshEvidence, Candidate!Packaged
  <2> QED BY <2>1, <2>2
<1>3. /\ manifest'.licences = manifest.licences /\ manifest'.references = manifest.references
      /\ manifest'.sources = manifest.sources /\ manifest'.records = manifest.records
      /\ manifest'.dependencies = manifest.dependencies
      /\ manifest'.evidence = manifest.evidence
      /\ manifest'.openssl = manifest.openssl /\ DOMAIN manifest'.inventory = Candidate!Packaged
      /\ candidatePc' = "ready" => Candidate!InventoryHolds'
  <2>1. CASE Candidate!Sign
    <3>1. manifest' = manifest /\ candidatePc' = "signed"
      BY <2>1 DEF Candidate!Sign
    <3> QED BY <1>1, <3>1 DEF CandidateInv, IntactFits
  <2>2. CASE Candidate!RefreshEvidence
    <3>1. manifest' = [manifest EXCEPT !.inventory = Candidate!Inventory] /\ package' = package
      BY <2>2 DEF Candidate!RefreshEvidence
    <3>3. {"inventory", "licences", "references", "sources", "records", "dependencies",
           "evidence", "openssl"}
            \subseteq DOMAIN manifest
      BY <1>1 DEF CandidateInv, ManifestFits
    <3>2. DOMAIN Candidate!Inventory = Candidate!Packaged
            /\ Candidate!Inventory' = Candidate!Inventory
      BY <3>1 DEF Candidate!Inventory, Candidate!Packaged
    <3> HIDE DEF Candidate!Inventory
    <3> QED BY <3>1, <3>2, <3>3 DEF Candidate!InventoryHolds
  <2> QED BY <2>1, <2>2
<1>4. PackageFits' /\ DownloadsFit' /\ Candidate!AcceptedIsComplete'
  BY <1>1, <1>2 DEF CandidateInv, PackageFits, DownloadsFit, Candidate!AcceptedIsComplete,
     Intact, Candidate!Forbidden, Candidate!BundledAdb
<1>5. ManifestFits'
  <2>1. DOMAIN manifest'.inventory = DOMAIN manifest.inventory
    BY <1>1, <1>3 DEF CandidateInv, IntactFits
  <2>2. Candidate!LicenceMappings' = Candidate!LicenceMappings
          /\ Candidate!ReferenceMappings' = Candidate!ReferenceMappings
        /\ Candidate!ExtractFails(upstream)' = Candidate!ExtractFails(upstream)
    BY <1>1 DEF Candidate!LicenceMappings, Candidate!ReferenceMappings
  <2>3. {"inventory", "licences", "references", "sources", "records", "dependencies",
         "evidence", "openssl"}
          \subseteq DOMAIN manifest'
    BY <1>1 DEF CandidateInv, ManifestFits, Candidate!Sign, Candidate!RefreshEvidence
  <2> QED BY <1>1, <1>3, <2>1, <2>2, <2>3 DEF CandidateInv, ManifestFits
<1>6. FilesHold' /\ MappingsHold'
  BY <1>1, <1>3 DEF CandidateInv, IntactFits, FilesHold, MappingsHold,
     Candidate!RequiredFiles, Candidate!StagedTreeHolds, Candidate!LicencesMapped,
     Candidate!StoreIsExact, Candidate!AvailabilityStated, Candidate!SourceAvailability,
     Candidate!ReferencesMapped, Candidate!RecordsMapped, Candidate!Rendered
<1>7. EvidenceHolds'
  BY <1>1, <1>2, <1>3 DEF CandidateInv, IntactFits, EvidenceHolds, Candidate!EvidenceRecorded,
     Candidate!EvidenceModules, Candidate!EvidenceDists, Candidate!CommunityBasis,
     Candidate!DependencyEvidence
<1>8. SourcesHold'
  BY <1>1, <1>2, <1>3 DEF CandidateInv, IntactFits, SourcesHold, Candidate!OpenSslHolds,
     Candidate!OpenSsl, Candidate!SourcesStaged, Candidate!BundleHolds
<1> QED BY <1>2, <1>3, <1>4, <1>5, <1>6, <1>7, <1>8 DEF CandidateInv, IntactFits

LEMMA MeddleStep == ASSUME CandidateInv, Candidate!Meddle PROVE CandidateInv'
<1>1. /\ candidatePc = "ready" /\ candidatePc' = "ready" /\ meddled' = TRUE
      /\ UNCHANGED <<candidateStaged, manifest, candidateReport, upstream, todo, attempt, runs>>
  BY DEF Candidate!Meddle
<1>2. assets' \in [Candidate!Sources -> {"none", "official", "other"}]
  BY DEF Candidate!Meddle, CandidateInv, DownloadsFit
<1>3. Candidate!LicenceMappings' = Candidate!LicenceMappings
        /\ Candidate!ReferenceMappings' = Candidate!ReferenceMappings
      /\ Candidate!ExtractFails(upstream)' = Candidate!ExtractFails(upstream)
  BY <1>1 DEF Candidate!LicenceMappings, Candidate!ReferenceMappings
<1>4. ManifestFits'
  BY <1>1, <1>3 DEF CandidateInv, ManifestFits
<1> QED BY <1>1, <1>2, <1>4 DEF CandidateInv, PackageFits, DownloadsFit, IntactFits, Intact,
           Candidate!AcceptedIsComplete

\* What the checks let through is complete, whoever meddled with it.
LEMMA AcceptedFits ==
  ASSUME CandidateInv, candidatePc = "ready", Candidate!Accepts
  PROVE  /\ Candidate!Forbidden \cup Candidate!BundledAdb = {}
         /\ "marker" \notin Candidate!Packaged
         /\ Candidate!Extracted(upstream) \subseteq injected
         /\ \A d \in Candidate!Packaged \cap (Candidate!Dists \ {"pyside", "shiboken"}) :
              Candidate!Single("licence", d) \in injected
         /\ Candidate!OpenSsl # {} => Candidate!Single("licence", "ssl") \in injected
         /\ DOMAIN candidateBundle = Candidate!Detected \cup {"certifi"}
         /\ \A s \in DOMAIN candidateBundle : candidateBundle[s] = "official"
<1>1. /\ manifest.licences = Candidate!LicenceMappings
      /\ manifest.references = Candidate!ReferenceMappings
      /\ ~Candidate!ExtractFails(upstream)
      /\ manifest.sources = DetectedIn(DOMAIN manifest.inventory) \cup {"certifi"}
      /\ \A d \in DOMAIN manifest.inventory \cap (Candidate!Dists \ Candidate!QtPython) :
           Candidate!Single("licence", d) \in candidateStaged
      /\ "ssl" \in DOMAIN manifest.inventory
           => Candidate!Single("licence", "ssl") \in candidateStaged
  BY DEF CandidateInv, ManifestFits
<1>2. DOMAIN manifest.inventory = Candidate!Packaged
  BY DEF Candidate!Accepts, Candidate!InventoryHolds, Candidate!Inventory
<1>3. Candidate!Forbidden \cup Candidate!BundledAdb = {} /\ "marker" \notin Candidate!Packaged
  BY DEF Candidate!Accepts, Candidate!RuntimeAllowed, Candidate!ReviewArtifacts
<1>4. Candidate!Extracted(upstream) \subseteq injected
  <2>1. Candidate!LicenceMappings \subseteq injected
    BY <1>1 DEF Candidate!Accepts, Candidate!LicencesMapped
  <2>2. {m[2] : m \in Candidate!ReferenceMappings} \subseteq injected
    BY <1>1 DEF Candidate!Accepts, Candidate!ReferencesMapped
  <2>3. {Candidate!LegalFile(m) : m \in Candidate!Referred(upstream)} \subseteq injected
    BY <2>2, MappingsFit
  <2> QED BY <2>1, <2>3 DEF Candidate!Extracted, Candidate!LicenceMappings
<1>5. candidateStaged \subseteq injected
  BY DEF Candidate!Accepts, Candidate!StagedTreeHolds
<1>6. \A d \in Candidate!Packaged \cap (Candidate!Dists \ {"pyside", "shiboken"}) :
    Candidate!Single("licence", d) \in injected
  BY <1>1, <1>2, <1>5 DEF Candidate!QtPython
<1>7. Candidate!OpenSsl # {} => Candidate!Single("licence", "ssl") \in injected
  BY <1>1, <1>2, <1>5 DEF Candidate!OpenSsl, Candidate!IsOpensslRuntimeName
<1>8. manifest.sources = Candidate!Detected \cup {"certifi"}
  BY <1>1, <1>2 DEF Candidate!Detected, DetectedIn
<1>9. DOMAIN candidateBundle = Candidate!Detected \cup {"certifi"}
        /\ \A s \in DOMAIN candidateBundle : candidateBundle[s] = "official"
  BY <1>8 DEF Candidate!Accepts, Candidate!BundleHolds
<1> QED BY <1>3, <1>4, <1>6, <1>7, <1>9

LEMMA ValidateStep == ASSUME CandidateInv, Candidate!Validate PROVE CandidateInv'
<1>1. /\ candidatePc = "ready"
      /\ candidatePc' = (IF Candidate!Accepts THEN "accepted" ELSE "refused")
      /\ UNCHANGED <<package, injected, candidateStaged, manifest, candidateReport,
                     candidateEvidence, upstream, assets, candidateBundle>>
  BY DEF Candidate!Validate
<1>2. Candidate!AcceptedIsComplete'
  <2>1. CASE Candidate!Accepts
    <3>1. /\ Candidate!Packaged' = Candidate!Packaged
          /\ Candidate!Forbidden' = Candidate!Forbidden
          /\ Candidate!BundledAdb' = Candidate!BundledAdb
          /\ Candidate!Detected' = Candidate!Detected /\ Candidate!OpenSsl' = Candidate!OpenSsl
      BY <1>1 DEF Candidate!Packaged, Candidate!Forbidden, Candidate!BundledAdb,
         Candidate!Detected, Candidate!OpenSsl
    <3> QED BY <1>1, <2>1, <3>1, AcceptedFits DEF Candidate!AcceptedIsComplete
  <2>2. CASE ~Candidate!Accepts
    BY <1>1, <2>2 DEF Candidate!AcceptedIsComplete
  <2> QED BY <2>1, <2>2
<1>3. candidatePc' \in {"accepted", "refused"}
  BY <1>1
<1> QED BY <1>1, <1>2, <1>3 DEF CandidateInv, PackageFits, DownloadsFit, ManifestFits,
           IntactFits, Intact

LEMMA CandidateStep ==
  ASSUME CandidateInv, [Candidate!Next]_(Candidate!vars)
  PROVE  CandidateInv'
<1>1. CASE UNCHANGED Candidate!vars
  <2>1. /\ Candidate!Packaged' = Candidate!Packaged
        /\ Candidate!Forbidden' = Candidate!Forbidden
        /\ Candidate!BundledAdb' = Candidate!BundledAdb /\ Needed' = Needed
        /\ Candidate!Detected' = Candidate!Detected /\ Candidate!OpenSsl' = Candidate!OpenSsl
        /\ Intact' = Intact
    BY <1>1 DEF Candidate!vars, Candidate!Packaged, Candidate!Forbidden, Candidate!BundledAdb,
       Candidate!Detected, Candidate!OpenSsl, Needed, Intact
  <2>2. PackageFits' /\ DownloadsFit' /\ Candidate!AcceptedIsComplete'
    BY <1>1, <2>1 DEF Candidate!vars, CandidateInv, PackageFits, DownloadsFit,
       Candidate!AcceptedIsComplete
  <2>3. Candidate!LicenceMappings' = Candidate!LicenceMappings
          /\ Candidate!ReferenceMappings' = Candidate!ReferenceMappings
        /\ Candidate!ExtractFails(upstream)' = Candidate!ExtractFails(upstream)
    BY <1>1 DEF Candidate!vars, Candidate!LicenceMappings, Candidate!ReferenceMappings
  <2>4. ManifestFits'
    BY <1>1, <2>3 DEF Candidate!vars, CandidateInv, ManifestFits
  <2>5. (FilesHold' = FilesHold) /\ (MappingsHold' = MappingsHold)
          /\ (Candidate!InventoryHolds' = Candidate!InventoryHolds)
    BY <1>1 DEF Candidate!vars, FilesHold, MappingsHold, Candidate!InventoryHolds,
       Candidate!Inventory, Candidate!Packaged, Candidate!RequiredFiles,
       Candidate!StagedTreeHolds, Candidate!LicencesMapped, Candidate!StoreIsExact,
       Candidate!AvailabilityStated, Candidate!SourceAvailability, Candidate!ReferencesMapped,
       Candidate!RecordsMapped, Candidate!Rendered
  <2>6. (EvidenceHolds' = EvidenceHolds) /\ (SourcesHold' = SourcesHold)
    BY <1>1, <2>1 DEF Candidate!vars, EvidenceHolds, Candidate!EvidenceRecorded,
       Candidate!EvidenceModules, Candidate!EvidenceDists, Candidate!CommunityBasis,
       Candidate!DependencyEvidence, SourcesHold, Candidate!OpenSslHolds,
       Candidate!SourcesStaged, Candidate!BundleHolds
  <2> QED BY <1>1, <2>1, <2>2, <2>4, <2>5, <2>6 DEF Candidate!vars, CandidateInv, IntactFits
<1> QED BY <1>1, BuildStep, SourcesStep, CompleteStep, SealStep, MeddleStep, ValidateStep
        DEF Candidate!Next

LEMMA CandidateInvMeans == ASSUME CandidateInv PROVE Candidate!CandidateIsSound
<1>1. Candidate!PreparedIsAccepted
  BY DEF CandidateInv, Candidate!PreparedIsAccepted, IntactFits, PackageFits, Intact,
     Candidate!Accepts, FilesHold, MappingsHold, EvidenceHolds, SourcesHold,
     Candidate!RuntimeAllowed, Candidate!ReviewArtifacts
<1>2. Candidate!OnlyVerifiedSources
  BY DEF CandidateInv, Candidate!OnlyVerifiedSources, DownloadsFit, IntactFits, Intact,
     SourcesHold, Candidate!BundleHolds
<1> QED BY <1>1, <1>2 DEF CandidateInv, Candidate!CandidateIsSound

LEMMA CandidateMoves ==
  ASSUME [DeskNext]_deskVars, part = "candidate"
  PROVE  [Candidate!Next]_(Candidate!vars)
  BY DEF DeskNext, deskVars, candidateVars, Candidate!vars

LEMMA CandidateStays == DeskSpec => [](part = "candidate" => CandidateInv)
<1>1. DeskInit => (part = "candidate" => CandidateInv)
  BY CandidateStarts DEF DeskInit
<1>2. (part = "candidate" => CandidateInv) /\ [DeskNext]_deskVars
        => (part = "candidate" => CandidateInv)'
  BY PartStays, CandidateMoves, CandidateStep
<1> QED BY <1>1, <1>2, PTL DEF DeskSpec

(* Whatever is packaged, however often a download is tried and            *)
(* preparations are repeated: what was prepared and left alone is         *)
(* accepted, and what is accepted has its licences, its references and    *)
(* its official sources.                                                  *)
THEOREM CandidatesStaySound ==
  /\ Candidate!Spec => []Candidate!CandidateIsSound
  /\ DeskSpec => []CandidateIsSound
<1>1. Candidate!Init => CandidateInv
  BY CandidateStarts
<1>2. CandidateInv /\ [Candidate!Next]_(Candidate!vars) => CandidateInv'
  BY CandidateStep
<1>3. CandidateInv => Candidate!CandidateIsSound
  BY CandidateInvMeans
<1>4. (part = "candidate" => CandidateInv) => CandidateIsSound
  BY <1>3 DEF CandidateIsSound
<1>5. Candidate!Spec => []Candidate!CandidateIsSound
  BY <1>1, <1>2, <1>3, PTL DEF Candidate!Spec
<1>6. DeskSpec => []CandidateIsSound
  BY <1>4, CandidateStays, PTL
<1> QED BY <1>5, <1>6

-----------------------------------------------------------------------------
(* The layout and the signatures of the macOS bundle. One item at a time  *)
(* is between its two places, and the others serve unless their renaming  *)
(* back failed (PathsServe); that took two failures (CallsFailed). What   *)
(* is signed holds only what was signed before it (SignedInside).         *)

SignedParts == App!Code \cup App!Bundles \cup {"app"}
BetweenPlaces == {"link", "undo", "restore"}

LayoutTypes ==
  /\ place \in [App!Items -> {"macos", "resources"}] /\ link \in [App!Items -> BOOLEAN]
  /\ appStep \in {"idle", "check", "unwind", "failed", "done", "signed"} \cup BetweenPlaces
  /\ pos \in Nat \ {0} /\ moved \subseteq App!Linked /\ stranded \subseteq App!Linked
  /\ killed \in BOOLEAN

Halfway(i) == link[i] = FALSE /\ place[i] = "resources" /\ i \notin stranded
Serves(i)  == App!WellPlaced(i) <=> i \notin stranded
PathsServe ==
  /\ appStep \in BetweenPlaces => pos <= Len(App!Order) /\ App!Item \in App!Linked
  /\ ~killed =>
       /\ \A i \in App!Linked :
            IF appStep \in BetweenPlaces /\ i = App!Item THEN Halfway(i) ELSE Serves(i)
       /\ \A p \in moved : link[p] = TRUE /\ p \notin stranded
       /\ appStep \in {"done", "signed"} =>
            \A i \in App!Linked : link[i] = TRUE /\ place[i] = "resources"

CallsFailed ==
  /\ appTrouble \in Nat
  /\ stranded # {} => appTrouble > 1
  /\ appStep \in {"undo", "unwind", "restore"} => appTrouble > 0

\* What is signed holds what was signed before it; nothing is before the layout is right.
SignedInside ==
  /\ appClock \in Nat /\ stamp \in [SignedParts -> Nat] /\ \A n \in SignedParts :
       stamp[n] <= appClock
  /\ appStep \notin {"done", "signed"} => \A n \in SignedParts : stamp[n] = 0
  /\ appStep # "signed" => stamp["app"] = 0
  /\ \A b \in App!Bundles : stamp[b] # 0 => \A c \in App!Code : stamp[c] # 0
  /\ \A b \in App!Bundles \cup {"app"} : stamp[b] # 0 =>
       \A n \in App!Holds(b) : stamp[n] # 0 /\ stamp[n] < stamp[b]
  /\ appStep = "signed" => stamp["app"] # 0 /\ \A b \in App!Bundles : stamp[b] # 0

BundleInv == LayoutTypes /\ PathsServe /\ CallsFailed /\ SignedInside

LEMMA OrderFits ==
  /\ Len(App!Order) = 5 /\ App!Items = {"certifi", "pyaxmlparser", "oneplus", "samsung", "help"}
  /\ App!Linked = {"certifi", "pyaxmlparser", "oneplus", "samsung"}
  /\ \A i \in 1..5 : App!Order[i] \in App!Items
<1>1. Len(App!Order) = 5
  BY DEF App!Order
<1>2. \A i \in 1..5 : i = 1 \/ i = 2 \/ i = 3 \/ i = 4 \/ i = 5
  OBVIOUS
<1>3. App!Items = {App!Order[1], App!Order[2], App!Order[3], App!Order[4], App!Order[5]}
  BY <1>1, <1>2 DEF App!Items
<1>4. App!Items = {"certifi", "pyaxmlparser", "oneplus", "samsung", "help"}
  BY <1>3 DEF App!Order
<1> QED BY <1>1, <1>2, <1>3, <1>4 DEF App!Linked

LEMMA BundleStarts == ASSUME App!Init PROVE BundleInv
<1>1. LayoutTypes
  <2>1. link \in [App!Items -> BOOLEAN]
    BY Zenon DEF App!Init
  <2>2. place \in [App!Items -> {"macos", "resources"}] /\ moved \subseteq App!Linked
          /\ stranded \subseteq App!Linked /\ killed \in BOOLEAN
    BY DEF App!Init
  <2> QED BY <2>1, <2>2 DEF App!Init, LayoutTypes
<1>2. PathsServe /\ CallsFailed
  BY DEF App!Init, PathsServe, CallsFailed, Serves, BetweenPlaces, App!WellPlaced, App!Linked
<1>3. SignedInside
  BY DEF App!Init, SignedInside, SignedParts
<1> QED BY <1>1, <1>2, <1>3 DEF BundleInv

\* Before and after a step that is none of the signing.
LEMMA UnsignedStays ==
  ASSUME SignedInside, UNCHANGED <<stamp, appClock>>,
         \/ appStep' = appStep
         \/ appStep \notin {"done", "signed"} /\ appStep' # "signed"
  PROVE  SignedInside'
  BY DEF SignedInside

\* Steps that move no data.
LEMMA LayoutKept ==
  ASSUME BundleInv,
         \/ App!Begin \/ App!Skip \/ App!Refuse \/ App!ValidateLayout \/ App!RenameFails
         \/ App!LinkFails \/ App!UnlinkFails \/ App!Kill
         \/ (App!Unwind /\ moved = {})
         \/ UNCHANGED App!vars
  PROVE  BundleInv'
<1> USE DEF App!layout, App!signing
<1>1. LayoutTypes /\ PathsServe /\ CallsFailed /\ SignedInside
  BY DEF BundleInv
<1> DEFINE stays ==
             /\ UNCHANGED <<place, link, stranded, stamp, appClock>>
             /\ moved' = moved \/ moved' = {}
             /\ killed' \in BOOLEAN /\ pos' \in Nat \ {0}
             /\ appTrouble' \in {appTrouble, appTrouble + 1}
             /\ appStep' \in {"idle", "check", "undo", "failed", "unwind", "done", appStep}
             /\ \/ appStep' = appStep
                \/ appStep \notin {"done", "signed"} /\ appStep' # "signed"
             /\ appStep' \in {"undo", "unwind", "restore"} =>
                  appTrouble' = appTrouble + 1 \/ appStep \in {"undo", "unwind", "restore"}
             /\ appStep' \in {"done", "signed"} => appStep' = appStep \/ App!LayoutHolds
             /\ ~killed' => ~killed /\ (appStep \in BetweenPlaces => appStep' \in BetweenPlaces)
             /\ appStep' \in BetweenPlaces => appStep \in BetweenPlaces /\ pos' = pos
<1>2. stays
  <2>1. CASE App!Begin \/ App!Skip \/ App!Refuse \/ App!ValidateLayout
    BY <1>1, <2>1 DEF App!Begin, App!Skip, App!Refuse, App!ValidateLayout, LayoutTypes,
       BetweenPlaces
  <2>2. CASE App!RenameFails
    BY <1>1, <2>2 DEF App!RenameFails, App!Movable, App!AfterError, App!Failing, LayoutTypes,
       BetweenPlaces
  <2>3. CASE App!LinkFails \/ App!UnlinkFails
    BY <1>1, <2>3 DEF App!LinkFails, App!UnlinkFails, App!Failing, LayoutTypes, BetweenPlaces
  <2>4. CASE App!Kill \/ UNCHANGED App!vars
    BY <1>1, <2>4 DEF App!Kill, App!vars, LayoutTypes, BetweenPlaces
  <2>5. CASE App!Unwind /\ moved = {}
    BY <1>1, <2>5 DEF App!Unwind, LayoutTypes, BetweenPlaces
  <2> QED BY <2>1, <2>2, <2>3, <2>4, <2>5
<1>5. LayoutTypes'
  BY <1>1, <1>2 DEF LayoutTypes, BetweenPlaces
<1>6. CallsFailed'
  BY <1>1, <1>2 DEF CallsFailed
<1>7. PathsServe'
  BY <1>1, <1>2 DEF PathsServe, Halfway, Serves, App!WellPlaced, App!Item, App!LayoutHolds
<1> QED BY <1>1, <1>2, <1>5, <1>6, <1>7, UnsignedStays DEF BundleInv

LEMMA RenameStep == ASSUME BundleInv, App!Rename PROVE BundleInv'
<1>1. LayoutTypes /\ PathsServe /\ CallsFailed /\ SignedInside
  BY DEF BundleInv
<1>2. /\ pos \in 1..5 /\ App!Item \in App!Items
      /\ appStep = "check" /\ place[App!Item] = "macos"
      /\ place' = [place EXCEPT ![App!Item] = "resources"]
      /\ UNCHANGED <<link, moved, appTrouble, stranded, killed, stamp, appClock>>
  BY <1>1, OrderFits DEF App!Rename, App!Movable, App!signing, LayoutTypes, App!Item
<1>3. \/ App!Item = "help" /\ pos' = pos + 1 /\ appStep' = appStep
      \/ App!Item # "help" /\ pos' = pos /\ appStep' = "link" /\ link[App!Item] = FALSE
  BY <1>1, <1>2 DEF App!Rename, App!Movable, LayoutTypes, App!Linked
<1>4. LayoutTypes' /\ CallsFailed'
  BY <1>1, <1>2, <1>3 DEF LayoutTypes, CallsFailed, BetweenPlaces
<1>5. appStep' \in BetweenPlaces => (pos' <= Len(App!Order) /\ App!Item' \in App!Linked)
  BY <1>2, <1>3, OrderFits DEF App!Item, App!Linked, BetweenPlaces
<1>6. ASSUME ~killed', NEW i \in App!Linked
      PROVE  IF appStep' \in BetweenPlaces /\ i = App!Item' THEN Halfway(i)' ELSE Serves(i)'
  <2>1. Serves(i) /\ i \in App!Items /\ i # "help"
    BY <1>1, <1>2, <1>6 DEF PathsServe, BetweenPlaces, App!Linked
  <2>2. CASE i = App!Item
    <3>1. /\ appStep' \in BetweenPlaces /\ App!Item' = App!Item /\ link[i] = FALSE
          /\ place'[i] = "resources"
      BY <1>1, <1>2, <1>3, <2>1, <2>2 DEF App!Item, BetweenPlaces, LayoutTypes
    <3>2. i \notin stranded
      BY <1>2, <2>1, <2>2, <3>1 DEF Serves, App!WellPlaced
    <3> QED BY <1>2, <2>2, <3>1, <3>2 DEF Halfway
  <2>3. CASE i # App!Item
    <3>1. ~(appStep' \in BetweenPlaces /\ i = App!Item')
      BY <1>2, <1>3, <2>3 DEF App!Item, BetweenPlaces
    <3>2. place'[i] = place[i] /\ link'[i] = link[i] /\ stranded' = stranded
      BY <1>1, <1>2, <2>1, <2>3 DEF LayoutTypes
    <3> QED BY <2>1, <3>1, <3>2 DEF Serves, App!WellPlaced
  <2> QED BY <2>2, <2>3
<1>7. PathsServe'
  BY <1>1, <1>2, <1>3, <1>5, <1>6 DEF PathsServe
<1> QED BY <1>1, <1>2, <1>3, <1>4, <1>7, UnsignedStays DEF BundleInv

\* The item that is between its places arrives, goes back, or stays where it is for good.
LEMMA ArrivalStep ==
  ASSUME BundleInv,
         \/ App!MakeLink \/ App!PutBack \/ App!PutBackFails \/ App!Restore \/ App!RestoreFails
  PROVE  BundleInv'
<1>1. LayoutTypes /\ PathsServe /\ CallsFailed /\ SignedInside
  BY DEF BundleInv
<1>2. /\ appStep \in BetweenPlaces /\ appStep' \in {"check", "unwind", "failed"}
      /\ pos' \in {pos, pos + 1} /\ UNCHANGED <<killed, stamp, appClock>>
      /\ appStep' = "unwind" => appStep \in {"undo", "restore"}
  BY DEF App!MakeLink, App!PutBack, App!PutBackFails, App!Restore, App!RestoreFails,
     App!AfterError, App!signing, BetweenPlaces
<1>3. App!Item \in App!Linked /\ App!Linked \subseteq App!Items
  BY <1>1, <1>2 DEF PathsServe, App!Linked
<1>4. \/ App!MakeLink
      \/ App!PutBack \/ App!Restore
      \/ App!PutBackFails \/ App!RestoreFails
  OBVIOUS
<1>5. App!MakeLink => /\ link' = [link EXCEPT ![App!Item] = TRUE]
                      /\ moved' \in {moved, moved \cup {App!Item}}
                      /\ UNCHANGED <<place, appTrouble, stranded>>
  BY DEF App!MakeLink
<1>6. App!PutBack \/ App!Restore => /\ place' = [place EXCEPT ![App!Item] = "macos"]
                                    /\ UNCHANGED <<link, moved, appTrouble, stranded>>
  BY DEF App!PutBack, App!Restore
<1>7. App!PutBackFails \/ App!RestoreFails => /\ stranded' = stranded \cup {App!Item}
                                              /\ appTrouble' = appTrouble + 1
                                              /\ appStep \in {"undo", "restore"}
                                              /\ UNCHANGED <<place, link, moved>>
  BY DEF App!PutBackFails, App!RestoreFails, App!Failing
<1>8. LayoutTypes'
  <2>1. /\ place' \in [App!Items -> {"macos", "resources"}] /\ link' \in [App!Items -> BOOLEAN]
        /\ moved' \subseteq App!Linked /\ stranded' \subseteq App!Linked
    BY <1>1, <1>3, <1>4, <1>5, <1>6, <1>7 DEF LayoutTypes
  <2> QED BY <1>1, <1>2, <2>1 DEF LayoutTypes
<1>9. CallsFailed'
  BY <1>1, <1>2, <1>4, <1>5, <1>6, <1>7 DEF CallsFailed
<1>10. ASSUME ~killed'
       PROVE  /\ \A i \in App!Linked : Serves(i)'
              /\ \A p \in moved' : link'[p] = TRUE /\ p \notin stranded'
  <2>1. Halfway(App!Item) /\ \A p \in moved : link[p] = TRUE /\ p \notin stranded
    BY <1>1, <1>2, <1>3, <1>10 DEF PathsServe
  <2>2. \A i \in App!Linked \ {App!Item} : Serves(i)
    BY <1>1, <1>2, <1>10 DEF PathsServe
  <2>3. CASE App!MakeLink
    BY <1>1, <1>3, <1>5, <2>1, <2>2, <2>3 DEF LayoutTypes, Halfway, Serves, App!WellPlaced
  <2>4. CASE App!PutBack \/ App!Restore
    BY <1>1, <1>3, <1>6, <2>1, <2>2, <2>4 DEF LayoutTypes, Halfway, Serves, App!WellPlaced
  <2>5. CASE App!PutBackFails \/ App!RestoreFails
    BY <1>1, <1>3, <1>7, <2>1, <2>2, <2>5 DEF LayoutTypes, Halfway, Serves, App!WellPlaced
  <2> QED BY <1>4, <2>3, <2>4, <2>5
<1>11. PathsServe'
  BY <1>2, <1>10 DEF PathsServe, BetweenPlaces
<1> QED BY <1>1, <1>2, <1>8, <1>9, <1>11, UnsignedStays DEF BundleInv, BetweenPlaces

LEMMA UnwindStep == ASSUME BundleInv, App!Unwind, moved # {} PROVE BundleInv'
<1>1. LayoutTypes /\ PathsServe /\ CallsFailed /\ SignedInside
  BY DEF BundleInv
<1>2. PICK n \in 1..5 : /\ App!Order[n] \in moved /\ moved' = moved \ {App!Order[n]}
                        /\ link' = [link EXCEPT ![App!Order[n]] = FALSE]
                        /\ appStep' = "restore" /\ pos' = n
  BY OrderFits DEF App!Unwind
<1>3. /\ appStep = "unwind" /\ App!Item' = App!Order[n] /\ App!Order[n] \in App!Linked
      /\ UNCHANGED <<place, appTrouble, stranded, killed, stamp, appClock>>
  BY <1>1, <1>2 DEF App!Unwind, App!Item, App!signing, LayoutTypes
<1>4. LayoutTypes' /\ CallsFailed'
  BY <1>1, <1>2, <1>3 DEF LayoutTypes, CallsFailed, BetweenPlaces, App!Linked
<1>5. ASSUME ~killed', NEW i \in App!Linked
      PROVE  IF appStep' \in BetweenPlaces /\ i = App!Item' THEN Halfway(i)' ELSE Serves(i)'
  <2>1. Serves(i) /\ (i \in moved => link[i] = TRUE /\ i \notin stranded) /\ i \in App!Items
    BY <1>1, <1>3, <1>5 DEF PathsServe, BetweenPlaces, App!Linked
  <2>2. CASE i = App!Order[n]
    <3>1. link'[i] = FALSE /\ place[i] = "resources" /\ i \notin stranded
      BY <1>1, <1>2, <2>1, <2>2 DEF LayoutTypes, Serves, App!WellPlaced
    <3> QED BY <1>2, <1>3, <2>2, <3>1 DEF Halfway, BetweenPlaces
  <2>3. CASE i # App!Order[n]
    <3>1. link'[i] = link[i]
      BY <1>1, <1>2, <2>1, <2>3 DEF LayoutTypes
    <3> QED BY <1>3, <2>1, <2>3, <3>1 DEF Serves, App!WellPlaced
  <2> QED BY <2>2, <2>3
<1>6. ~killed' => \A p \in moved' : link'[p] = TRUE /\ p \notin stranded'
  BY <1>1, <1>2, <1>3 DEF PathsServe, LayoutTypes, App!Linked
<1>7. PathsServe'
  BY <1>2, <1>3, <1>5, <1>6, OrderFits DEF PathsServe, BetweenPlaces
<1> QED BY <1>1, <1>2, <1>3, <1>4, <1>7, UnsignedStays DEF BundleInv

LEMMA SignStep ==
  ASSUME BundleInv, App!SignPart \/ App!SignApp \/ App!SignFails
  PROVE  BundleInv'
<1> USE DEF App!layout
<1>1. LayoutTypes /\ SignedInside /\ appStep = "done"
        /\ UNCHANGED <<place, link, stranded, pos, moved, killed>>
  BY DEF BundleInv, App!SignPart, App!SignApp, App!SignFails
<1>2. LayoutTypes' /\ PathsServe' /\ CallsFailed'
  <2>1. appStep' \in {"done", "signed"} /\ appTrouble' \in {appTrouble, appTrouble + 1}
    BY <1>1 DEF App!SignPart, App!SignApp, App!SignFails, App!Failing
  <2> QED
    BY <1>1, <2>1 DEF BundleInv, LayoutTypes, PathsServe, Serves, CallsFailed, BetweenPlaces,
       App!WellPlaced
<1>3. CASE App!SignPart
  <2>1. PICK n \in App!InsideOut(App!Pending) : App!SignTarget(n)
    BY <1>3 DEF App!SignPart
  <2>2. /\ n \in App!Pending /\ n \in SignedParts /\ appStep' = "done" /\ stamp[n] = 0
        /\ n # "app"
        /\ stamp' = [stamp EXCEPT ![n] = appClock + 1] /\ appClock' = appClock + 1
    BY <1>1, <1>3, <2>1 DEF App!SignPart, App!SignTarget, App!InsideOut, App!Pending,
       SignedParts, App!Code, App!Bundles
  <2>3. n \in App!Bundles => /\ \A c \in App!Code : stamp[c] # 0
                             /\ \A m \in App!Holds(n) : stamp[m] # 0
    <3>1. ASSUME n \in App!Bundles PROVE \A c \in App!Code : stamp[c] # 0
      BY <2>2, <3>1 DEF App!Pending, App!Code, App!Bundles
    <3>2. ASSUME n = "framework" PROVE stamp["inner"] # 0
      <4>1. \A c \in App!Code : stamp[c] # 0
        BY <3>1, <3>2 DEF App!Bundles
      <4>2. App!Pending = {b \in App!Bundles : stamp[b] = 0}
        BY <4>1 DEF App!Pending
      <4>3. "inner" \in App!Pending => App!Depth("inner") <= App!Depth("framework")
        BY <2>1, <3>2 DEF App!InsideOut
      <4> QED BY <4>2, <4>3 DEF App!Depth, App!Bundles
    <3> QED BY <3>1, <3>2 DEF App!Holds, App!Bundles, App!Code
  <2>4. n \in App!Code => \A b \in App!Bundles : stamp[b] = 0
    BY <1>1, <2>2 DEF SignedInside
  <2>5. n \in App!Code \/ n \in App!Bundles
    BY <2>2 DEF SignedParts
  <2>6. \A m \in SignedParts : stamp'[m] = IF m = n THEN appClock + 1 ELSE stamp[m]
    BY <1>1, <2>2 DEF SignedInside
  <2>7. \A b \in App!Bundles \cup {"app"} :
      App!Holds(b) \subseteq SignedParts /\ b \in SignedParts /\ b \notin App!Holds(b)
    BY DEF App!Holds, App!Bundles, App!Code, SignedParts
  <2>8. SignedInside'
    <3>1. appClock' \in Nat /\ stamp' \in [SignedParts -> Nat] /\ \A m \in SignedParts :
        stamp'[m] <= appClock'
      BY <1>1, <2>2, <2>6 DEF SignedInside
    <3>2. \A b \in App!Bundles : stamp'[b] # 0 => \A c \in App!Code : stamp'[c] # 0
      BY <1>1, <2>2, <2>3, <2>4, <2>5, <2>6 DEF SignedInside, SignedParts
    <3>3. ASSUME NEW b \in App!Bundles \cup {"app"}, stamp'[b] # 0, NEW m \in App!Holds(b)
          PROVE  stamp'[m] # 0 /\ stamp'[m] < stamp'[b]
      <4>1. CASE b = n
        <5>1. stamp[m] # 0 /\ m \in SignedParts /\ m # n /\ n \in App!Bundles
          BY <2>2, <2>3, <2>7, <3>3, <4>1
        <5> QED BY <1>1, <2>2, <2>6, <4>1, <5>1 DEF SignedInside
      <4>2. CASE b # n
        <5>1. stamp[b] # 0 /\ b \in SignedParts /\ m \in SignedParts
          BY <2>6, <2>7, <3>3, <4>2
        <5>2. stamp[m] # 0 /\ stamp[m] < stamp[b]
          BY <1>1, <3>3, <5>1 DEF SignedInside
        <5>3. m # n
          BY <2>2, <5>2
        <5> QED BY <2>6, <4>2, <5>1, <5>2, <5>3
      <4> QED BY <4>1, <4>2
    <3>4. appStep' = "done" /\ stamp'["app"] = 0
      BY <1>1, <2>2, <2>6 DEF SignedInside, SignedParts
    <3> QED BY <3>1, <3>2, <3>3, <3>4 DEF SignedInside
  <2> QED BY <1>2, <2>8 DEF BundleInv
<1>4. CASE App!SignApp
  <2>1. /\ appStep' = "signed" /\ stamp' = [stamp EXCEPT !["app"] = appClock + 1]
        /\ appClock' = appClock + 1
        /\ \A m \in App!Code \cup App!Bundles : stamp[m] # 0
    BY <1>4 DEF App!SignApp, App!SignTarget, App!Pending
  <2>2. \A m \in SignedParts : stamp'[m] = IF m = "app" THEN appClock + 1 ELSE stamp[m]
    BY <1>1, <2>1 DEF SignedInside
  <2>3. \A b \in App!Bundles \cup {"app"} : App!Holds(b) \subseteq App!Code \cup App!Bundles
    BY DEF App!Holds, App!Bundles, App!Code
  <2>4. "app" \notin App!Code \cup App!Bundles /\ "app" \in SignedParts
          /\ App!Code \cup App!Bundles \subseteq SignedParts
    BY DEF App!Code, App!Bundles, SignedParts
  <2>5. SignedInside'
    <3>1. appClock' \in Nat /\ stamp' \in [SignedParts -> Nat] /\ \A m \in SignedParts :
        stamp'[m] <= appClock'
      <4>1. appClock \in Nat /\ stamp \in [SignedParts -> Nat] /\ \A m \in SignedParts :
          stamp[m] <= appClock
        BY <1>1 DEF SignedInside
      <4>2. appClock' = appClock + 1 /\ appClock + 1 \in Nat
              /\ stamp' = [stamp EXCEPT !["app"] = appClock + 1]
        BY <2>1, <4>1
      <4>3. stamp' \in [SignedParts -> Nat]
        BY <4>1, <4>2
      <4> QED BY <2>2, <4>1, <4>2, <4>3
    <3>2. ASSUME NEW b \in App!Bundles \cup {"app"}, NEW m \in App!Holds(b)
          PROVE  stamp'[m] # 0 /\ stamp'[m] < stamp'[b]
      <4>1. stamp[m] # 0 /\ m \in SignedParts /\ m # "app" /\ b \in SignedParts
        BY <2>1, <2>3, <2>4
      <4>2. CASE b = "app"
        BY <1>1, <2>2, <4>1, <4>2 DEF SignedInside
      <4>3. CASE b # "app"
        BY <1>1, <2>1, <2>2, <4>1, <4>3 DEF SignedInside
      <4> QED BY <4>2, <4>3
    <3>3. \A m \in App!Code \cup App!Bundles : stamp'[m] # 0
      BY <2>1, <2>2, <2>4
    <3>4. stamp'["app"] # 0
      BY <1>1, <2>2, <2>4 DEF SignedInside
    <3> QED BY <2>1, <3>1, <3>2, <3>3, <3>4 DEF SignedInside
  <2> QED BY <1>2, <2>5 DEF BundleInv
<1>5. CASE App!SignFails
  <2>1. stamp' = [n \in SignedParts |-> 0] /\ appClock' = 0 /\ appStep' = "done"
    BY <1>1, <1>5 DEF App!SignFails, SignedInside
  <2>2. SignedInside'
    BY <2>1 DEF SignedInside, SignedParts
  <2> QED BY <1>2, <2>2 DEF BundleInv
<1> QED BY <1>3, <1>4, <1>5

LEMMA BundleStep == ASSUME BundleInv, [App!Next]_(App!vars) PROVE BundleInv'
<1>1. CASE App!Work
  BY <1>1, LayoutKept, RenameStep, ArrivalStep, UnwindStep, SignStep DEF App!Work
<1>2. CASE App!Failures
  BY <1>2, LayoutKept, ArrivalStep, SignStep DEF App!Failures
<1>3. CASE App!Kill \/ UNCHANGED App!vars
  BY <1>3, LayoutKept
<1> QED BY <1>1, <1>2, <1>3 DEF App!Next

LEMMA BundleInvMeans == ASSUME BundleInv PROVE App!BundleIsSound
<1>1. App!RuntimePathsServe
  <2> SUFFICES ASSUME appStep \in {"idle", "failed", "done", "signed"}, ~killed
               PROVE  /\ \A i \in App!Linked : App!WellPlaced(i) <=> i \notin stranded
                      /\ stranded # {} => appTrouble > 1 /\ appStep \notin {"done", "signed"}
    BY DEF App!RuntimePathsServe
  <2>1. \A i \in App!Linked : Serves(i)
    BY DEF BundleInv, PathsServe, BetweenPlaces
  <2>2. appStep \in {"done", "signed"} => \A i \in App!Linked : App!WellPlaced(i)
    BY DEF BundleInv, PathsServe, App!WellPlaced
  <2>3. stranded # {} => appTrouble > 1 /\ \E i \in App!Linked : i \in stranded
    BY DEF BundleInv, LayoutTypes, CallsFailed
  <2> QED BY <2>1, <2>2, <2>3 DEF Serves
<1>2. App!SealedInsideOut
  BY DEF BundleInv, SignedInside, App!SealedInsideOut, SignedParts, App!Holds, App!Code,
     App!Bundles
<1> QED BY <1>1, <1>2 DEF App!BundleIsSound

LEMMA AppMoves ==
  ASSUME [DeskNext]_deskVars, part = "app"
  PROVE  [App!Next]_(App!vars)
  BY DEF DeskNext, deskVars, appVars, App!vars

LEMMA AppStays == DeskSpec => [](part = "app" => BundleInv)
<1>1. DeskInit => (part = "app" => BundleInv)
  BY BundleStarts DEF DeskInit
<1>2. (part = "app" => BundleInv) /\ [DeskNext]_deskVars => (part = "app" => BundleInv)'
  BY PartStays, AppMoves, BundleStep
<1> QED BY <1>1, <1>2, PTL DEF DeskSpec

(* Whichever calls fail, those that undo a failed one too, and unless a   *)
(* run was killed: each runtime path leads to its item but for those that *)
(* could not be renamed back, which takes a failure after another one; a  *)
(* bundle with such an item is not signed, and what is signed holds       *)
(* nothing that was signed later.                                         *)
THEOREM BundlesStaySound ==
  /\ App!Spec => []App!BundleIsSound
  /\ DeskSpec => []BundleIsSound
<1>1. App!Init => BundleInv
  BY BundleStarts
<1>2. BundleInv /\ [App!Next]_(App!vars) => BundleInv'
  BY BundleStep
<1>3. BundleInv => App!BundleIsSound
  BY BundleInvMeans
<1>4. (part = "app" => BundleInv) => BundleIsSound
  BY <1>3 DEF BundleIsSound
<1>5. App!Spec => []App!BundleIsSound
  BY <1>1, <1>2, <1>3, PTL DEF App!Spec
<1>6. DeskSpec => []BundleIsSound
  BY <1>4, AppStays, PTL
<1> QED BY <1>5, <1>6
-----------------------------------------------------------------------------
(* Assembly and retention of releases. While an assembly is at work it    *)
(* has its candidates and only good copies of them (CopiesFit); from the  *)
(* merge on the bundle serves every candidate (BundleFits). No artifact   *)
(* is younger than the newest of its kind (NewestFit).                    *)

AtWork == phase \in {"copy", "sums", "check", "released"}
Built(t) == <<Release!Binary(t), {<<"commit", 1>>}>>

\* While an assembly is at work it has its candidates, and only good copies of them.
CopiesFit ==
  /\ phase \in {"new", "runs"} \/ goal \in {Targets, {Engineering}}
  /\ AtWork => /\ Release!Discovered
               /\ \A t \in goal : \A file \in output : file[1] = Release!Binary(t)
                    => file = Built(t)

\* From the merge on every binary is there, and the bundle serves every candidate.
BundleFits ==
  phase \in {"sums", "check", "released"} =>
    /\ \A t \in goal : Built(t) \in output
    /\ \A t \in goal : \A s \in DOMAIN Release!The(t).declared :
         merged[s] = Release!The(t).declared[s]
    /\ <<Release!BundleName, Release!BundleDigest(merged)>> \in output

SumsFit == phase = "released" => Release!SumsHold
  /\ Release!Names(output) = Release!AllowedNames \cup {Release!SumsName}

\* No artifact is younger than the newest of its kind, and that is never superseded.
NewestFit ==
  /\ newest \subseteq artifacts
  /\ \A n \in newest : Release!Successful(n.run)
  /\ \A n \in newest : \A b \in artifacts :
       b.profile = n.profile /\ b.run > n.run => ~Release!Successful(b.run)

ReleaseInv == CopiesFit /\ BundleFits /\ SumsFit /\ NewestFit

\* Sets of the instance are counted as those of the library are.
LEMMA ReleaseSets == \A S : Release!Cardinality(S) = Cardinality(S)
  BY DEF Release!Cardinality, Cardinality

LEMMA ReleaseStarts == ASSUME Release!Init PROVE ReleaseInv
  BY DEF Release!Init, ReleaseInv, AtWork, CopiesFit, BundleFits, SumsFit, NewestFit

\* One candidate for each target of the release, built from the expected commit.
LEMMA DiscoveredFits ==
  ASSUME ReleaseConstantsFit, Release!Discovered, goal \in {Targets, {Engineering}},
         NEW t \in goal
  PROVE  Release!The(t) \in found[t] /\ Release!The(t).commit = 1
<1>1. Release!OnlyUsable(t)
  BY DEF Release!Discovered, Release!DiscoveredRelease, Release!DiscoveredWindows,
     ReleaseConstantsFit
<1>2. found[t] # {}
  BY <1>1, FS_EmptySet, ReleaseSets DEF Release!OnlyUsable
<1>3. Release!The(t) \in found[t]
  BY <1>2 DEF Release!The
<1> QED BY <1>1, <1>3 DEF Release!OnlyUsable, Release!Usable

LEMMA OneElement ==
  ASSUME NEW S, IsFiniteSet(S), ~(Cardinality(S) > 1), NEW a \in S, NEW b \in S
  PROVE  a = b
<1> SUFFICES ASSUME a # b PROVE FALSE
  OBVIOUS
<1>1. IsFiniteSet({a}) /\ Cardinality({a}) = 1
  BY FS_Singleton
<1>2. IsFiniteSet({a} \cup {b}) /\ Cardinality({a} \cup {b}) = 2
  <2>1. /\ IsFiniteSet({a} \cup {b})
        /\ Cardinality({a} \cup {b}) = IF b \in {a} THEN Cardinality({a})
             ELSE Cardinality({a}) + 1
    BY <1>1, FS_AddElement
  <2> QED BY <1>1, <2>1
<1>3. Cardinality({a} \cup {b}) <= Cardinality(S) /\ Cardinality(S) \in Nat
  BY FS_Subset, FS_CardinalityType
<1> QED BY <1>2, <1>3

\* The first source of a name is everyone's, when they do not disagree.
LEMMA MergedFits ==
  ASSUME ReleaseConstantsFit, goal \in {Targets, {Engineering}},
         NEW names, names = UNION {DOMAIN Release!The(u).declared : u \in goal},
         ~Release!Disagree(names),
         NEW t \in goal, NEW s \in DOMAIN Release!The(t).declared
  PROVE  Release!FirstMerged(names)[s] = Release!The(t).declared[s]
<1> DEFINE with == {u \in goal : s \in DOMAIN Release!The(u).declared}
           first == CHOOSE u \in goal : s \in DOMAIN Release!The(u).declared
           given == {Release!The(u).declared[s] : u \in with}
<1>1. s \in names /\ t \in with /\ first \in with
  OBVIOUS
<1>2. IsFiniteSet(given)
  <2>1. IsFiniteSet(goal)
    BY FS_Singleton DEF ReleaseConstantsFit
  <2>2. IsFiniteSet(with)
    BY <2>1, FS_Subset
  <2> DEFINE f == [u \in with |-> Release!The(u).declared[s]]
  <2>3. f \in Surjection(with, given)
    BY DEF Surjection
  <2> HIDE DEF f, with, given
  <2> QED BY <2>2, <2>3, FS_Surjection
<1>3. ~(Cardinality(given) > 1)
  BY <1>1, ReleaseSets DEF Release!Disagree
<1>4. Release!The(first).declared[s] \in given /\ Release!The(t).declared[s] \in given
  BY <1>1
<1>5. Release!The(first).declared[s] = Release!The(t).declared[s]
  <2> HIDE DEF given, first
  <2> QED BY <1>2, <1>3, <1>4, OneElement
<1>6. Release!FirstMerged(names)[s] = Release!The(first).declared[s]
  BY <1>1 DEF Release!FirstMerged
<1> QED BY <1>5, <1>6

LEMMA KeptFits ==
  ASSUME NewestFit, artifacts' \subseteq artifacts, UNCHANGED <<releaseHistory, newest>>,
         \A n \in newest : n \in artifacts'
  PROVE  NewestFit'
  BY DEF NewestFit, Release!Successful

LEMMA NewestIsLatest ==
  ASSUME NewestFit, NEW n \in newest
  PROVE  n \notin Release!Superseded
<1>1. {q \in Release!Generations(n.profile) : q > n.run} = {}
  BY DEF NewestFit, Release!Generations
<1>2. Release!Rank(n.profile, n.run) = 0
  BY <1>1, FS_EmptySet, ReleaseSets DEF Release!Rank
<1> QED BY <1>2 DEF Release!Superseded

LEMMA RetentionStep ==
  ASSUME ReleaseInv,
         \/ Release!RunWorkflows \/ \E r \in WorkflowRuns : Release!DeleteRun(r)
         \/ \E a \in artifacts : Release!DeleteArtifact(a)
  PROVE  ReleaseInv'
<1> USE DEF Release!assembly
<1>1. UNCHANGED <<found, output, merged, goal>> /\ phase \in {"new", "runs"} /\ phase' = "runs"
  BY DEF Release!RunWorkflows, Release!DeleteRun, Release!DeleteArtifact
<1>2. CopiesFit' /\ BundleFits' /\ SumsFit'
  BY <1>1 DEF AtWork, CopiesFit, BundleFits, SumsFit
<1>3. CASE Release!RunWorkflows
  BY <1>2, <1>3 DEF Release!RunWorkflows, ReleaseInv, NewestFit, Release!Successful
<1>4. ASSUME NEW r \in WorkflowRuns, Release!DeleteRun(r) PROVE NewestFit'
  <2>1. /\ artifacts' = artifacts \ Release!ArtifactsOf(r)
        /\ UNCHANGED <<releaseHistory, newest>> /\ NewestFit
        /\ r \in Release!ExpiredBad \/ Release!ArtifactsOf(r) \subseteq Release!Superseded
    BY <1>4 DEF Release!DeleteRun, ReleaseInv, Release!WholeRuns
  <2>2. ASSUME NEW n \in newest PROVE n \notin Release!ArtifactsOf(r)
    <3>1. CASE r \in Release!ExpiredBad
      BY <2>1, <3>1 DEF Release!ExpiredBad, Release!ArtifactsOf, NewestFit, Release!Successful
    <3>2. CASE Release!ArtifactsOf(r) \subseteq Release!Superseded
      BY <2>1, <3>2, NewestIsLatest
    <3> QED BY <2>1, <3>1, <3>2
  <2>3. \A n \in newest : n \in artifacts'
    BY <2>1, <2>2 DEF NewestFit
  <2> QED BY <2>1, <2>3, KeptFits
<1>5. ASSUME NEW a \in artifacts, Release!DeleteArtifact(a) PROVE NewestFit'
  <2>1. artifacts' = artifacts \ {a} /\ a \in Release!Superseded
          /\ UNCHANGED <<releaseHistory, newest>> /\ NewestFit
    BY <1>5 DEF Release!DeleteArtifact, ReleaseInv
  <2>2. \A n \in newest : n \in artifacts'
    BY <2>1, NewestIsLatest DEF NewestFit
  <2> QED BY <2>1, <2>2, KeptFits
<1> QED BY <1>2, <1>3, <1>4, <1>5 DEF ReleaseInv

LEMMA AssemblyStep ==
  ASSUME ReleaseConstantsFit, ReleaseInv,
         \/ Release!Download \/ Release!Start \/ Release!Merge \/ Release!WriteSums
         \/ Release!FinishRelease \/ Release!FinishEngineering
         \/ Release!Break \/ Release!Again \/ (\E t \in Targets : Release!CopyBinary(t))
         \/ UNCHANGED Release!vars
  PROVE  ReleaseInv'
<1> USE DEF Release!retention
<1>1. NewestFit'
  <2>1. UNCHANGED <<artifacts, releaseHistory, newest>>
    BY DEF Release!Download, Release!Start, Release!Merge, Release!WriteSums,
       Release!FinishRelease, Release!FinishEngineering, Release!FinishWith, Release!Break,
       Release!Again, Release!CopyBinary, Release!vars
  <2> QED BY <2>1 DEF ReleaseInv, NewestFit, Release!Successful
<1>2. CASE Release!Download \/ Release!Again
  BY <1>1, <1>2 DEF Release!Download, Release!Again, ReleaseInv, AtWork, CopiesFit,
     BundleFits, SumsFit
<1>3. CASE UNCHANGED Release!vars
  <2>1. CopiesFit' /\ BundleFits' /\ SumsFit'
    BY <1>3 DEF Release!vars, ReleaseInv, AtWork, CopiesFit, BundleFits, SumsFit,
       Release!Discovered, Release!DiscoveredRelease, Release!DiscoveredWindows,
       Release!OnlyUsable, Release!The, Release!SumsHold, Release!AllowedNames
  <2> QED BY <1>1, <2>1 DEF ReleaseInv
<1>4. CASE Release!Start
  BY <1>1, <1>4 DEF Release!Start, ReleaseInv, AtWork, CopiesFit, BundleFits, SumsFit,
     Release!Discovered, Release!DiscoveredRelease, Release!DiscoveredWindows,
     Release!OnlyUsable
<1>5. ASSUME UNCHANGED <<found, goal>>
      PROVE  (Release!Discovered' <=> Release!Discovered) /\ \A t :
          Release!The(t)' = Release!The(t)
  BY <1>5 DEF Release!Discovered, Release!DiscoveredRelease, Release!DiscoveredWindows,
     Release!OnlyUsable, Release!The
<1>6. CopiesFit /\ BundleFits
  BY DEF ReleaseInv
<1>7. \A t, u : /\ Release!Binary(t) # Release!BundleName
                /\ Release!Binary(t) # Release!SumsName
                /\ Release!Binary(t) # <<"other", "file">>
                /\ (Release!Binary(t) = Release!Binary(u) => t = u)
                /\ Built(t)[1] = Release!Binary(t)
  BY DEF Release!Binary, Release!BundleName, Release!SumsName, Built
<1>8. ASSUME NEW t \in Targets, Release!CopyBinary(t) PROVE ReleaseInv'
  <2>1. PICK digest \in {Release!The(t).commit, 9} :
          /\ output' = output \cup {<<Release!Binary(t), {<<"commit", digest>>}>>}
          /\ phase' = IF digest = Release!The(t).commit THEN phase ELSE "failed"
    BY <1>8 DEF Release!CopyBinary
  <2>2. phase = "copy" /\ t \in goal /\ UNCHANGED <<found, merged, goal>> /\ Release!Discovered
        /\ goal \in {Targets, {Engineering}}
    BY <1>6, <1>8 DEF Release!CopyBinary, CopiesFit, AtWork
  <2>3. Release!The(t).commit = 1
    BY <2>2, DiscoveredFits
  <2>4. phase' = "copy" => output' = output \cup {Built(t)}
    BY <2>1, <2>2, <2>3 DEF Built
  <2>5. phase' \in {"copy", "failed"}
    BY <2>1, <2>2
  <2>6. CopiesFit'
    BY <1>5, <1>6, <1>7, <2>2, <2>4, <2>5 DEF CopiesFit, AtWork
  <2> QED BY <1>1, <2>5, <2>6 DEF ReleaseInv, BundleFits, SumsFit
<1>9. CASE Release!Merge
  <2> DEFINE names == UNION {DOMAIN Release!The(u).declared : u \in goal}
  <2>1. /\ phase = "copy" /\ (\A t \in goal : Release!Copied(t)) /\ UNCHANGED <<found, goal>>
        /\ \/ phase' = "failed"
           \/ /\ ~Release!Disagree(names) /\ merged' = Release!FirstMerged(names)
              /\ phase' = "sums"
              /\ output' = output \cup {<<Release!BundleName, Release!BundleDigest(merged')>>}
    BY <1>9 DEF Release!Merge, Release!Conflicting
  <2>2. CASE phase' = "failed"
    BY <1>1, <1>6, <2>1, <2>2 DEF ReleaseInv, AtWork, CopiesFit, BundleFits, SumsFit
  <2>3. CASE phase' = "sums"
    <3>1. /\ ~Release!Disagree(names) /\ merged' = Release!FirstMerged(names)
          /\ output' = output \cup {<<Release!BundleName, Release!BundleDigest(merged')>>}
      BY <2>1, <2>3
    <3>2. Release!Discovered /\ goal \in {Targets, {Engineering}}
      BY <1>6, <2>1 DEF CopiesFit, AtWork
    <3>3. CopiesFit'
      BY <1>5, <1>6, <1>7, <2>1, <2>3, <3>1 DEF CopiesFit, AtWork
    <3>4. ASSUME NEW t \in goal PROVE Built(t) \in output
      BY <1>6, <2>1 DEF Release!Copied, CopiesFit, AtWork
    <3>5. ASSUME NEW t \in goal, NEW s \in DOMAIN Release!The(t).declared
          PROVE  merged'[s] = Release!The(t).declared[s]
      <4> HIDE DEF names
      <4> QED BY <3>1, <3>2, MergedFits DEF names
    <3>6. BundleFits'
      BY <1>5, <2>1, <3>1, <3>4, <3>5 DEF BundleFits, Built
    <3> QED BY <1>1, <2>3, <3>3, <3>6 DEF ReleaseInv, SumsFit
  <2> QED BY <2>1, <2>2, <2>3
<1>10. CASE Release!WriteSums \/ Release!Break
  <2>1. /\ UNCHANGED <<found, goal, merged>> /\ phase \in {"copy", "sums", "check"}
        /\ \/ phase' = "failed"
           \/ /\ \E file : output' = output \cup {file}
                   /\ file[1] \in {Release!SumsName, <<"other", "file">>}
              /\ phase' = phase \/ (phase = "sums" /\ phase' = "check")
    <3>1. CASE Release!WriteSums
      <4>1. CASE phase' = "failed"
        BY <3>1, <4>1 DEF Release!WriteSums
      <4>2. CASE phase' # "failed"
        <5> DEFINE sums == <<Release!SumsName, output>>
        <5>1. output' = output \cup {sums} /\ phase = "sums" /\ phase' = "check"
              /\ UNCHANGED <<found, goal, merged>>
          BY <3>1, <4>2 DEF Release!WriteSums
        <5>2. sums[1] \in {Release!SumsName, <<"other", "file">>}
          OBVIOUS
        <5> HIDE DEF sums
        <5> QED BY <5>1, <5>2
      <4> QED BY <4>1, <4>2
    <3>2. CASE Release!Break
      <4>1. CASE phase' = "failed"
        BY <3>2, <4>1 DEF Release!Break
      <4>2. CASE phase' # "failed"
        <5> DEFINE other == <<<<"other", "file">>, {}>>
        <5>1. output' = output \cup {other} /\ phase' = phase
              /\ phase \in {"copy", "sums", "check"} /\ UNCHANGED <<found, goal, merged>>
          BY <3>2, <4>2 DEF Release!Break
        <5>2. other[1] \in {Release!SumsName, <<"other", "file">>}
          OBVIOUS
        <5> HIDE DEF other
        <5> QED BY <5>1, <5>2
      <4> QED BY <4>1, <4>2
    <3> QED BY <1>10, <3>1, <3>2
  <2>2. CASE phase' = "failed"
    BY <1>1, <1>6, <2>1, <2>2 DEF ReleaseInv, AtWork, CopiesFit, BundleFits, SumsFit
  <2>3. CASE phase' # "failed"
    <3>1. PICK file : output' = output \cup {file}
            /\ file[1] \in {Release!SumsName, <<"other", "file">>}
      BY <2>1, <2>3
    <3>2. phase' \in {"copy", "sums", "check"} /\ (phase = "copy" => phase' = "copy")
      BY <2>1, <2>3
    <3>3. CopiesFit'
      BY <1>5, <1>6, <1>7, <2>1, <3>1, <3>2 DEF CopiesFit, AtWork
    <3>4. BundleFits'
      BY <1>5, <1>6, <2>1, <3>1, <3>2 DEF BundleFits
    <3> QED BY <1>1, <3>2, <3>3, <3>4 DEF ReleaseInv, SumsFit
  <2> QED BY <2>2, <2>3
<1>11. CASE Release!FinishRelease \/ Release!FinishEngineering
  <2>1. /\ phase = "check" /\ UNCHANGED <<found, output, merged, goal>>
        /\ \/ phase' = "failed"
           \/ phase' = "released" /\ Release!SumsHold
                /\ Release!Names(output) = Release!AllowedNames \cup {Release!SumsName}
    <3>1. Release!FinishWith(goal)
      BY <1>11 DEF Release!FinishRelease, Release!FinishEngineering
    <3> QED BY <3>1 DEF Release!FinishWith, Release!AllowedNames
  <2>2. CopiesFit' /\ BundleFits'
    BY <1>5, <1>6, <2>1 DEF CopiesFit, BundleFits, AtWork
  <2>3. SumsFit'
    BY <2>1 DEF SumsFit, Release!SumsHold, Release!AllowedNames
  <2> QED BY <1>1, <2>2, <2>3 DEF ReleaseInv
<1> QED BY <1>2, <1>3, <1>4, <1>8, <1>9, <1>10, <1>11

LEMMA ReleaseStep ==
  ASSUME ReleaseConstantsFit, ReleaseInv, [Release!Next]_(Release!vars)
  PROVE  ReleaseInv'
  BY RetentionStep, AssemblyStep DEF Release!Next

LEMMA ReleaseInvMeans == ASSUME ReleaseInv PROVE Release!ReleasesHold
<1>1. Release!ReleaseIsConsistent
  BY DEF ReleaseInv, BundleFits, SumsFit, Release!SumsHold, Built, Release!ReleaseIsConsistent
<1> QED BY <1>1 DEF ReleaseInv, NewestFit, Release!LatestArtifactsStay, Release!ReleasesHold

LEMMA ReleaseMoves ==
  ASSUME [DeskNext]_deskVars, part = "release"
  PROVE  [Release!Next]_(Release!vars)
  BY DEF DeskNext, deskVars, releaseVars, Release!vars

LEMMA ReleaseStays == DeskSpec => [](part = "release" => ReleaseInv)
<1>1. DeskInit => (part = "release" => ReleaseInv)
  BY ReleaseStarts, DeskAssumption DEF DeskInit
<1>2. (part = "release" => ReleaseInv) /\ [DeskNext]_deskVars
        => (part = "release" => ReleaseInv)'
  BY PartStays, ReleaseMoves, ReleaseStep, DeskAssumption
<1> QED BY <1>1, <1>2, PTL DEF DeskSpec

(* For any targets, sources and workflow runs: a release has the binaries *)
(* of all its targets from one commit, the sources they declare and sums  *)
(* of what is there, and the newest successful artifact of each kind is   *)
(* never removed.                                                         *)
THEOREM ReleasesStayGood ==
  /\ Release!Spec => []Release!ReleasesHold
  /\ DeskSpec => []ReleasesHold
<1>1. Release!Init => ReleaseInv
  BY ReleaseStarts, DeskAssumption
<1>2. ReleaseInv /\ [Release!Next]_(Release!vars) => ReleaseInv'
  BY ReleaseStep, DeskAssumption
<1>3. ReleaseInv => Release!ReleasesHold
  BY ReleaseInvMeans, DeskAssumption
<1>4. (part = "release" => ReleaseInv) => ReleasesHold
  BY <1>3 DEF ReleasesHold
<1>5. Release!Spec => []Release!ReleasesHold
  BY <1>1, <1>2, <1>3, PTL DEF Release!Spec
<1>6. DeskSpec => []ReleasesHold
  BY <1>4, ReleaseStays, PTL
<1> QED BY <1>5, <1>6
=============================================================================
