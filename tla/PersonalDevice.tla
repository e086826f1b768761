---------------------------- MODULE PersonalDevice ----------------------------
(***************************************************************************)
(* The phones a Device Specific audit can speak for: the one process-local *)
(* slot for a phone captured in this session, the library of saved         *)
(* profiles (services/personal_device_library.py), the page of Advanced    *)
(* Settings that manages both, and those who read and fill the slot for a  *)
(* scan: the workers of audits, abandoned ones too, and the window itself. *)
(*                                                                         *)
(* A question of the page is a nested event loop: captures, which run in   *)
(* threads and outlive the dialog that started them, end while it is open, *)
(* and only then does the handler that asked go on.  The slot is a profile *)
(* and the phone it belongs to, two fields written one after the other.    *)
(***************************************************************************)
EXTENDS Naturals, FiniteSets, Sequences

CONSTANTS
  Phones,       \* phones; of different models
  Profiles,     \* ids of saved profiles
  MaxDialogs,   \* bound: the open dialog and closed ones whose captures go on
  MaxCaptures,  \* bound: captures that are started
  MaxAudits,    \* bound: audits, each with a worker of its own
  MaxPlugs      \* bound: changes of the connected phone

None == "none"

VARIABLES
  library,     \* for each saved profile the phone it describes, or None
  health,      \* of the library's file: "ok", "partial" (a malformed record) or "foreign"
  configured,  \* stored choice: "default", "connected" or a saved profile
  slot, owner, \* captured profile, and the phone the slot says it belongs to
  plugged,     \* phone connected over ADB
  scanned,     \* phone of the current scan session
  dialog,      \* the open dialog, 0 when none is
  listed,      \* what the list of profiles of the open dialog offers
  mayGet,      \* its Get Phone Data is enabled
  chosen,      \* per dialog, what its list selects
  pending,     \* per dialog, the saved profile a replacement was asked for
  question,    \* open questions, the topmost first
  reading,     \* per dialog, its capture threads
  captured,    \* queued results of captures: dialog, and phone or None
  storing,     \* phone whose capture the window is putting into the slot
  readers,     \* of the slot: the window (0) and workers, with step, session and profile held
  auditing,    \* the worker whose audit the window shows, 0 when none
  raced,       \* history: one accessed half of the slot while another was between its two
  slips,       \* history: profiles deleted while another was selected
  captures, plugs

dialogState == <<dialog, chosen, listed, pending, mayGet>>
captureState == <<reading, captured, captures>>
slotState   == <<slot, owner, storing, raced>>
auditState  == <<readers, auditing>>
phoneState  == <<plugged, scanned, plugs>>
savedState  == <<library, health, configured, slips>>

vars == <<savedState, slotState, phoneState, dialogState, question, captureState, auditState>>

Dialogs == 1..MaxDialogs
Auditors == 1..MaxAudits
Readers == 0..MaxAudits                  \* 0 is the window
Asked(kind, profile, phone, d) ==
  [kind |-> kind, profile |-> profile, phone |-> phone, dialog |-> d]
Reader(step, session, held) == [step |-> step, session |-> session, held |-> held]
Idle == Reader("idle", None, None)
Over == Reader("over", None, None)

\* The library and the settings are those of an earlier run; some of the audits, captures
\* and changes of phones that bound a run are behind it.
Init ==
  /\ library \in [Profiles -> Phones \cup {None}] /\ health \in {"ok", "partial", "foreign"}
  /\ configured \in {"default", "connected"} \cup {p \in Profiles : library[p] # None}
  /\ slot = None /\ owner = None /\ storing = None /\ raced = FALSE /\ slips = {}
  /\ plugged \in Phones \cup {None} /\ scanned = None /\ plugs \in 0..MaxPlugs
  /\ dialog = 0
  /\ listed = {"default"} /\ mayGet = TRUE
  /\ chosen = [d \in Dialogs |-> "default"] /\ pending = [d \in Dialogs |-> None]
  /\ question = <<>>
  /\ reading = [d \in Dialogs |-> 0] /\ captured = <<>> /\ captures \in 0..MaxCaptures
  /\ readers \in [Readers -> {Idle, Over}] /\ readers[0] = Idle /\ auditing = 0

-----------------------------------------------------------------------------
(* The library's file. *)

\* list_profiles skips a malformed record; an unknown structure hides all.
Available == {p \in Profiles : library[p] # None /\ health # "foreign"}

\* _editable refuses every change while a record is malformed.
Editable == health = "ok"

\* A new id is random: nothing has named it.
Unused ==
  {p \in Profiles \ (slips \cup listed \cup {configured}) :
     library[p] = None /\ \A d \in Dialogs : p # chosen[d] /\ p # pending[d]}

Compatible(p, phone) == phone = library[p]

-----------------------------------------------------------------------------
(* The slot: _connected_device_profile_for_resolution, by a worker or by the *)
(* window, for the session it was called with.                               *)

\* Exactly one authorised phone is connected; its serial selects it for every read.
Readable == plugged # None

\* It is the phone of the scan, told by a token that lives as long as the process.
IsPhoneOf(session) == Readable /\ plugged = session

\* Others that have read one half of the slot, or written one.
BetweenHalves(r, steps) == storing # None \/ \E q \in Readers \ {r} : readers[q].step \in steps

\* Without a scan session any complete profile serves.
ReadSlot(r) ==
  /\ readers[r].step = "slot"
  /\ readers' = [readers EXCEPT
                   ![r].held = slot,
                   ![r].step = IF readers[r].session = None THEN "used" ELSE "owner"]
  /\ raced' = (raced \/ BetweenHalves(r, {"store"}))
  /\ UNCHANGED <<slot, owner, storing, auditing>>

Serves(r, fits) ==
  LET serves == readers[r].held # None /\ fits IN
  /\ readers[r].step = "owner"
  /\ readers' = [readers EXCEPT ![r].held = IF serves THEN @ ELSE None,
                                ![r].step = IF serves THEN "used" ELSE "collect"]
  /\ raced' = (raced \/ BetweenHalves(r, {"store"}))
  /\ UNCHANGED <<slot, owner, storing, auditing>>

\* As if a captured profile served the audit of any phone.
ReadOwnerOfAny(r) == Serves(r, TRUE)

ReadOwner(r) == Serves(r, owner = readers[r].session)

\* Collected from the session's phone only, by its serial, and put into the slot ...
Collect(r) ==
  LET session == readers[r].session IN
  /\ readers[r].step = "collect" /\ IsPhoneOf(session)
  /\ slot' = session
  /\ readers' = [readers EXCEPT ![r].held = session, ![r].step = "store"]
  /\ raced' = (raced \/ BetweenHalves(r, {"owner", "store"}))
  /\ UNCHANGED <<owner, storing, auditing>>

\* ... with its owner.
StoreSessionOwner(r) ==
  /\ readers[r].step = "store"
  /\ owner' = readers[r].session
  /\ readers' = [readers EXCEPT ![r].step = "used"]
  /\ raced' = (raced \/ BetweenHalves(r, {"owner", "store"}))
  /\ UNCHANGED <<slot, storing, auditing>>

\* Another phone, none, an incomplete answer or an exception: there is no profile.
CollectNothing(r) ==
  /\ readers[r].step = "collect"
  /\ readers' = [readers EXCEPT ![r].step = "used"]
  /\ UNCHANGED <<slotState, auditing>>

\* The window goes on; the worker has resolved its rows with what it holds.
EndReading(r) ==
  /\ readers[r].step = "used"
  /\ readers' = [readers EXCEPT ![r] = IF r = 0 THEN Idle ELSE Over]
  /\ auditing' = IF r = auditing THEN 0 ELSE auditing
  /\ UNCHANGED slotState

ReadStep(r) ==
  /\ \/ ReadSlot(r) \/ ReadOwner(r) \/ Collect(r) \/ StoreSessionOwner(r)
     \/ CollectNothing(r) \/ EndReading(r)
  /\ UNCHANGED <<savedState, phoneState, dialogState, question, captureState>>

\* _capture_requested_personal_device_profile, by the window.
WindowReads(choice, session) ==
  readers' = IF choice = "connected" /\ session # None
               THEN [readers EXCEPT ![0] = Reader("slot", session, None)] ELSE readers

UiFree == storing = None /\ readers[0].step = "idle"   \* no handler of the window is at work
Window == UiFree /\ question = <<>> /\ dialog = 0       \* and nothing is open above it

-----------------------------------------------------------------------------
(* Phones, scans and audits.  A scan that ends, and the audit its timer     *)
(* starts, find the dialog or a question open or not.                       *)

Plug ==
  /\ plugs < MaxPlugs /\ plugs' = plugs + 1
  /\ plugged' \in (Phones \cup {None}) \ {plugged}
  /\ UNCHANGED <<savedState, slotState, scanned, dialogState, question, captureState,
                 auditState>>

\* The scan of the connected phone ends, in an event loop of the window.
ScanEnds ==
  /\ UiFree /\ auditing = 0 /\ Readable
  /\ scanned' = plugged /\ WindowReads(configured, plugged)
  /\ UNCHANGED <<savedState, slotState, plugged, plugs, dialogState, question, captureState,
                 auditing>>

\* Its audit is cancelled and its scan is superseded; a worker in a request goes on.
LoadAppList ==
  /\ Window
  /\ scanned' = None /\ auditing' = 0
  /\ UNCHANGED <<savedState, slotState, plugged, plugs, dialogState, question, captureState,
                 readers>>

StartAudit(r) ==
  /\ UiFree /\ auditing = 0 /\ readers[r].step = "idle" /\ configured = "connected"
  /\ auditing' = r
  /\ readers' = [readers EXCEPT ![r] = Reader("slot", scanned, None)]
  /\ UNCHANGED <<savedState, slotState, phoneState, dialogState, question, captureState>>

\* The grace period after Stop is over: the window is idle, the worker is not.
Abandon ==
  /\ UiFree /\ auditing # 0 /\ auditing' = 0
  /\ UNCHANGED <<savedState, slotState, phoneState, dialogState, question, captureState,
                 readers>>

-----------------------------------------------------------------------------
(* The dialog.  Menus are enabled during scans and audits. *)

\* A dialog without a capture that is still to end in it.
Free(d) == reading[d] = 0 /\ \A i \in 1..Len(captured) : captured[i].dialog # d

Open(d) ==
  LET session == slot # None /\ (scanned = None \/ owner = scanned)
      offers == {"default"} \cup Available \cup (IF session THEN {"connected"} ELSE {})
                \cup ({configured} \cap Profiles)   \* a missing one is retained
  IN /\ Window /\ Free(d) /\ \A e \in Dialogs : Free(e) => d <= e
     /\ dialog' = d
     /\ listed' = offers /\ mayGet' = TRUE
     /\ chosen' = [chosen EXCEPT ![d] = IF configured \in offers THEN configured ELSE "default"]
     /\ pending' = [pending EXCEPT ![d] = None]
     /\ UNCHANGED <<savedState, slotState, phoneState, question, captureState, auditState>>

InDialog == UiFree /\ question = <<>> /\ dialog # 0

Select(x) ==
  /\ InDialog /\ x \in listed /\ x # chosen[dialog]
  /\ chosen' = [chosen EXCEPT ![dialog] = x]
  /\ UNCHANGED <<savedState, slotState, phoneState, dialog, listed, pending, mayGet, question,
                 captureState, auditState>>

Selected(d) == IF chosen[d] \in Available THEN chosen[d] ELSE None

StartCapture(d) ==
  /\ captures < MaxCaptures /\ captures' = captures + 1
  /\ reading' = [reading EXCEPT ![d] = @ + 1] /\ mayGet' = FALSE
  /\ UNCHANGED <<savedState, slotState, phoneState, dialog, chosen, listed, question, captured,
                 auditState>>

GetPhoneData ==
  /\ InDialog /\ mayGet
  /\ StartCapture(dialog) /\ UNCHANGED pending

\* Its button is disabled by it, and enabled again by any selection.
Refresh ==
  /\ InDialog /\ Selected(dialog) # None
  /\ pending' = [pending EXCEPT ![dialog] = Selected(dialog)]
  /\ StartCapture(dialog)

Close(accepted) ==
  /\ InDialog /\ dialog' = 0
  /\ configured' = IF accepted THEN chosen[dialog] ELSE configured
  /\ IF accepted THEN WindowReads(configured', scanned) ELSE UNCHANGED readers
  /\ listed' = {"default"} /\ mayGet' = TRUE
  /\ UNCHANGED <<library, health, slips, slotState, phoneState, chosen, pending, question,
                 captureState, auditing>>

-----------------------------------------------------------------------------
(* Its questions.  What is asked is fixed when it is asked; the answer acts  *)
(* on what the list selects by then.                                         *)

Ask(kind, profile, phone, d) == question' = <<Asked(kind, profile, phone, d)>> \o question

AskDelete ==
  /\ InDialog /\ Selected(dialog) # None
  /\ Ask("delete", Selected(dialog), None, dialog)
  /\ UNCHANGED <<savedState, slotState, phoneState, dialogState, captureState, auditState>>

\* The name of a profile to save, which is the one in the slot now.
AskName ==
  /\ InDialog /\ slot # None
  /\ Ask("save", None, slot, dialog)
  /\ UNCHANGED <<savedState, slotState, phoneState, dialogState, captureState, auditState>>

Top(kind) == UiFree /\ question # <<>> /\ Head(question).kind = kind

\* Refused by the user, or by the library: a malformed record, a failed write, a profile
\* that is gone.
Dismiss ==
  /\ UiFree /\ question # <<>> /\ question' = Tail(question)
  /\ UNCHANGED <<savedState, slotState, phoneState, dialogState, captureState, auditState>>

\* The profile that was asked about leaves the library, the item selected now the list.
Delete ==
  LET p == Head(question).profile
      d == Head(question).dialog
  IN /\ Top("delete") /\ Editable /\ library[p] # None
     /\ question' = Tail(question)
     /\ library' = [library EXCEPT ![p] = None]
     /\ listed' = listed \ {chosen[d]}
     /\ chosen' = [chosen EXCEPT ![d] = "default"]
     /\ configured' = IF configured = p THEN "default" ELSE configured
     /\ slips' = IF chosen[d] = p THEN slips ELSE slips \cup {p}
     /\ UNCHANGED <<health, slotState, phoneState, dialog, pending, mayGet, captureState,
                    auditState>>

SaveLocally(p) ==
  LET d == Head(question).dialog IN
  /\ Top("save") /\ Editable /\ p \in Unused
  /\ library' = [library EXCEPT ![p] = Head(question).phone]
  /\ question' = Tail(question)
  /\ listed' = listed \cup {p} /\ chosen' = [chosen EXCEPT ![d] = p]
  /\ UNCHANGED <<health, configured, slips, slotState, phoneState, dialog, pending, mayGet,
                 captureState, auditState>>

\* refresh_profile looks at the model again.
Replace ==
  LET p == Head(question).profile IN
  /\ Top("replace") /\ Editable /\ library[p] # None /\ Compatible(p, Head(question).phone)
  /\ library' = [library EXCEPT ![p] = Head(question).phone]
  /\ question' = Tail(question)
  /\ UNCHANGED <<health, configured, slips, slotState, phoneState, dialogState, captureState,
                 auditState>>

-----------------------------------------------------------------------------
(* Captures read the phone in their threads, and end one after the other in  *)
(* the dialog that started them, open or not, whatever question is open.     *)

CaptureReads(d) ==
  /\ reading[d] > 0
  /\ reading' = [reading EXCEPT ![d] = @ - 1]
  /\ \E phone \in {plugged, None} :
       captured' = Append(captured, [dialog |-> d, phone |-> phone])
  /\ UNCHANGED <<savedState, slotState, phoneState, dialogState, question, captures,
                 auditState>>

CaptureEnds(d) ==
  /\ UiFree /\ captured # <<>> /\ Head(captured).dialog = d
  /\ captured' = Tail(captured)
  /\ mayGet' = (mayGet \/ d = dialog)
  /\ UNCHANGED <<savedState, phoneState, dialog, reading, captures, auditState>>

CaptureFails(d) ==
  /\ CaptureEnds(d) /\ Head(captured).phone = None
  /\ pending' = [pending EXCEPT ![d] = None]
  /\ UNCHANGED <<slotState, chosen, listed, question>>

\* finish_phone_capture of a replacement: only for the profile that is still selected and
\* of the phone's model, and after a question.
OfferReplacement(d) ==
  LET p == pending[d]
      phone == Head(captured).phone
  IN /\ CaptureEnds(d) /\ phone # None /\ p # None
     /\ pending' = [pending EXCEPT ![d] = None]
     /\ IF Selected(d) = p /\ Compatible(p, phone)
          THEN Ask("replace", p, phone, d) ELSE UNCHANGED question
     /\ UNCHANGED <<slotState, chosen, listed>>

\* _store_direct_personal_device_capture, its first assignment ...
StoreProfile(d) ==
  LET phone == Head(captured).phone IN
  /\ CaptureEnds(d) /\ phone # None /\ pending[d] = None
  /\ slot' = phone /\ storing' = phone
  /\ raced' = (raced \/ BetweenHalves(0, {"owner", "store"}))
  /\ listed' = IF d = dialog THEN listed \cup {"connected"} ELSE listed
  /\ chosen' = [chosen EXCEPT ![d] = "connected"]
  /\ UNCHANGED <<owner, pending, question>>

\* ... and its second.
StoreOwner ==
  /\ storing # None /\ storing' = None
  /\ owner' = storing
  /\ raced' = (raced \/ \E r \in Readers : readers[r].step \in {"owner", "store"})
  /\ UNCHANGED <<savedState, slot, phoneState, dialogState, question, captureState, auditState>>

Next ==
  \/ Plug \/ ScanEnds \/ LoadAppList \/ Abandon
  \/ GetPhoneData \/ Refresh \/ AskDelete \/ AskName \/ Dismiss \/ Delete \/ Replace
  \/ StoreOwner
  \/ \E x \in {"default", "connected"} \cup Profiles : Select(x)
  \/ \E p \in Profiles : SaveLocally(p)
  \/ \E b \in BOOLEAN : Close(b)
  \/ \E d \in Dialogs : \/ Open(d) \/ CaptureReads(d) \/ CaptureFails(d)
                         \/ OfferReplacement(d) \/ StoreProfile(d)
  \/ \E r \in Auditors : StartAudit(r)
  \/ \E r \in Readers : ReadStep(r)

Spec == Init /\ [][Next]_vars

-----------------------------------------------------------------------------
(* Properties. *)

\* The settings name no saved profile that was deleted, whatever was captured, answered,
\* saved or cancelled in between, but one whose item stayed in the list because another
\* was selected when its deletion was confirmed (preferences_window.py:1483-1501).
ConfiguredExists ==
  configured \in Profiles => library[configured] # None \/ configured \in slips

\* A saved profile keeps its phone's model however captures, asked for one purpose and
\* ending for another, are confirmed (preferences_window.py:1530-1562).
KeepsSavedModels ==
  \A p \in Profiles : library[p] # None => library'[p] \in {library[p], None}

SavedModelStays == [][KeepsSavedModels]_vars

\* The profile that speaks for an audit is of the phone that was scanned, however many
\* workers, abandoned or not, and captures of other phones fill the slot, as long as
\* nobody accesses a half of it between another's two (device_window.py:130-170, 212-228).
ProfileFitsTheAudit ==
  ~raced => /\ \A r \in Readers : readers[r].step = "used" /\ readers[r].session # None
                                      => readers[r].held \in {None, readers[r].session}
            /\ (storing = None /\ \A r \in Readers : readers[r].step # "store") => slot = owner

\* The profile that an audit uses is there, and of the scanned phone.
ProfilesFit == ConfiguredExists /\ ProfileFitsTheAudit

\* Profiles fit, and stay of their model.
ProfilesHold == []ProfilesFit /\ SavedModelStays
=============================================================================
