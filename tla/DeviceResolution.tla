-------------------------- MODULE DeviceResolution --------------------------
(***************************************************************************)
(* The Device Specific phase of an audit: for the apps whose public        *)
(* listing says "Varies with device" the worker asks Google Play, as a     *)
(* phone with a given profile, for the version that phone would get        *)
(* (services/device_specific_integration.py, with the cache, the resolver, *)
(* the protocol and the authorisation it calls).                           *)
(*                                                                         *)
(* An audit that is given up keeps its worker for a while, and meanwhile   *)
(* the user may sign in with another account and start another audit.      *)
(* Evidence is stored under the context of the session that was signed in  *)
(* when the phase began; the account that really answers is that of the    *)
(* authorisation made later.                                               *)
(***************************************************************************)
EXTENDS Naturals, FiniteSets

CONSTANTS
  Apps,
  Eligible,    \* per audit, the apps whose public listing says "Varies with device"
  Threads,     \* request threads of a phase
  MaxSignIns,  \* bound: sign-ins
  MaxAudits    \* bound: audits

Audits == 1..MaxAudits

\* Context and account of the dispenser, which is anonymous; those of a session are its
\* number, as every session gets a context of its own.
Anonymous == 0

VARIABLES
  account,     \* number of the session that is signed in, or 0
  signIns,
  cache,       \* entries: the app, the context it is stored under, the account that answered
  current,     \* audit the window runs, or 0
  started,     \* audits started
  step,        \* per audit: "no", "context", "cache", "authorise", "authorising", "fill", "wait", "over" or "refused"
  provider,    \* per audit: "dispenser" or "personal"
  cancelled, paused,
  context,     \* per audit, context its evidence is stored under
  bundle,      \* per audit, account of its authorisation
  misses,      \* per audit, apps that are still to be submitted
  flight,      \* per audit and app: "none", "queued", "asked", "authorised", "given up", "resolved" or "failed"
  rows         \* per audit and app, {} or its evidence: an account, or "failed"

session == <<account, signIns>>
window  == <<current, started, cancelled, paused>>
phase   == <<step, context, bundle, misses, flight, rows>>
vars    == <<session, cache, window, provider, phase>>

Entry(app, ctx, by) == [app |-> app, context |-> ctx, by |-> by]
Of(by) == [kind |-> "resolved", by |-> by]
Failed == [kind |-> "failed", by |-> 0]

Init ==
  /\ account = 0 /\ signIns = 0 /\ cache = {} /\ current = 0 /\ started = 0
  /\ step = [a \in Audits |-> "no"] /\ provider = [a \in Audits |-> "dispenser"]
  /\ cancelled = [a \in Audits |-> FALSE] /\ paused = [a \in Audits |-> FALSE]
  /\ context = [a \in Audits |-> 0] /\ bundle = [a \in Audits |-> 0]
  /\ misses = [a \in Audits |-> {}] /\ flight = [a \in Audits |-> [p \in Apps |-> "none"]]
  /\ rows = [a \in Audits |-> [p \in Apps |-> {}]]

-----------------------------------------------------------------------------
(* The window.  Advanced Settings, where one signs in, needs an idle window. *)

SignIn ==
  /\ current = 0 /\ signIns < MaxSignIns
  /\ signIns' = signIns + 1 /\ account' = signIns'
  /\ UNCHANGED <<cache, window, provider, phase>>

SignOut ==
  /\ current = 0 /\ account # 0 /\ account' = 0
  /\ UNCHANGED <<signIns, cache, window, provider, phase>>

ClearCache ==
  /\ current = 0 /\ cache # {} /\ cache' = {}
  /\ UNCHANGED <<session, window, provider, phase>>

StartAudit(p) ==
  /\ current = 0 /\ started < MaxAudits
  /\ started' = started + 1 /\ current' = started'
  /\ step' = [step EXCEPT ![started'] = "context"]
  /\ provider' = [provider EXCEPT ![started'] = p]
  /\ UNCHANGED <<session, cache, cancelled, paused, context, bundle, misses, flight, rows>>

PauseOrResume ==
  /\ current # 0 /\ ~cancelled[current]
  /\ paused' = [paused EXCEPT ![current] = ~@]
  /\ UNCHANGED <<session, cache, current, started, cancelled, provider, phase>>

\* Stop wakes a paused phase; so does giving the audit up, after which the window is idle.
Stop(givenUp) ==
  /\ current # 0
  /\ givenUp \/ ~cancelled[current]
  /\ cancelled' = [cancelled EXCEPT ![current] = TRUE] /\ paused' = [paused EXCEPT ![current] = FALSE]
  /\ current' = IF givenUp THEN 0 ELSE current
  /\ UNCHANGED <<session, cache, started, provider, phase>>

Report ==
  /\ current # 0 /\ step[current] \in {"over", "refused"} /\ current' = 0
  /\ UNCHANGED <<session, cache, started, cancelled, paused, provider, phase>>

-----------------------------------------------------------------------------
(* The coordinator of a phase. *)

Move(a, to) == step' = [step EXCEPT ![a] = to]

\* As if a phase that was cancelled went on.
MayGoOnAlways(a) == TRUE

MayGoOn(a) == ~cancelled[a]

\* The context of the session, or of the endpoint, and then the wait for a pause to end.
ReadContext(a) ==
  /\ step[a] = "context" /\ ~paused[a]
  /\ IF provider[a] = "personal" /\ account = 0
       THEN Move(a, "refused") /\ UNCHANGED context
       ELSE /\ context' = [context EXCEPT ![a] = IF provider[a] = "personal" THEN account ELSE Anonymous]
            /\ Move(a, IF cancelled[a] THEN "over" ELSE "cache")
  /\ UNCHANGED <<session, cache, window, provider, bundle, misses, flight, rows>>

\* Entries of this very context that are still fresh; all of them may have aged.
Cached(a, app) == {e \in cache : e.app = app /\ e.context = context[a]}

LoadCache(a, aged) ==
  LET hits == IF aged THEN {} ELSE {p \in Eligible[a] : Cached(a, p) # {}}
  IN /\ step[a] = "cache"
     /\ rows' = [rows EXCEPT ![a] = [p \in Apps |->
                   IF p \in hits THEN {Of(e.by) : e \in Cached(a, p)} ELSE {}]]
     /\ misses' = [misses EXCEPT ![a] = Eligible[a] \ hits]
     /\ Move(a, IF hits = Eligible[a] THEN "over" ELSE IF provider[a] = "personal" THEN "authorise" ELSE "fill")
     /\ UNCHANGED <<session, cache, window, provider, context, bundle, flight>>

\* create_personal_auth_bundle takes the credentials of the session there is now ...
TakeCredentials(a) ==
  /\ step[a] = "authorise"
  /\ bundle' = [bundle EXCEPT ![a] = account] /\ Move(a, "authorising")
  /\ UNCHANGED <<session, cache, window, provider, context, misses, flight, rows>>

\* ... and makes a device, its configuration and a token of Play with them.  Any request may
\* fail, and neither a pause nor a Stop ends the sequence.
Authorise(a) ==
  /\ step[a] = "authorising"
  /\ \/ bundle[a] # 0 /\ Move(a, "fill") /\ UNCHANGED rows
     \/ /\ rows' = [rows EXCEPT ![a] = [p \in Apps |-> IF p \in misses[a] THEN {Failed} ELSE @[p]]]
        /\ Move(a, "over")
  /\ UNCHANGED <<session, cache, window, provider, context, bundle, misses, flight>>

Pending(a) == {p \in Apps : flight[a][p] # "none"}
Done(a) == {p \in Apps : flight[a][p] \in {"given up", "resolved", "failed"}}

\* fill_submission_window, one submission after the other.
Submit(a, app) ==
  /\ step[a] = "fill" /\ app \in misses[a]
  /\ Cardinality(Pending(a)) < Threads /\ MayGoOn(a)
  /\ misses' = [misses EXCEPT ![a] = @ \ {app}]
  /\ flight' = [flight EXCEPT ![a][app] = "queued"]
  /\ UNCHANGED <<session, cache, window, provider, step, context, bundle, rows>>

Filled(a) ==
  /\ step[a] = "fill"
  /\ misses[a] = {} \/ Cardinality(Pending(a)) = Threads \/ ~MayGoOn(a)
  /\ Move(a, IF Pending(a) = {} THEN "over" ELSE "wait")
  /\ UNCHANGED <<session, cache, window, provider, context, bundle, misses, flight, rows>>

\* Every completed request goes into its row, and resolved evidence into the cache; then
\* Stop is noticed, and what is still under way is no longer waited for.
Collected(a, next) ==
  LET done     == Done(a)
      resolved == {p \in done : flight[a][p] = "resolved"}
  IN /\ step[a] = "wait" /\ done # {}
     /\ rows' = [rows EXCEPT ![a] = [p \in Apps |->
                   IF p \in resolved THEN {Of(bundle[a])} ELSE IF p \in done THEN {Failed} ELSE @[p]]]
     /\ cache' = {e \in cache : ~(e.app \in resolved /\ e.context = context[a])}
                 \cup {Entry(p, context[a], bundle[a]) : p \in resolved}
     /\ flight' = [flight EXCEPT ![a] = [p \in Apps |->
                     IF p \in done \/ cancelled[a] THEN "none" ELSE @[p]]]
     /\ Move(a, IF cancelled[a] THEN "over" ELSE next)
     /\ UNCHANGED <<session, window, provider, context, bundle, misses>>

\* As if the window of submissions was filled only once.
CollectOnce(a) == Collected(a, IF Pending(a) = Done(a) THEN "over" ELSE "wait")

Collect(a) == Collected(a, "fill")

-----------------------------------------------------------------------------
(* The threads of a phase. *)

Land(a, app, as) ==
  /\ flight' = [flight EXCEPT ![a][app] = as]
  /\ UNCHANGED <<session, cache, window, provider, step, context, bundle, misses, rows>>

\* run_one waits for a pause to end and gives up when the audit is cancelled.
Ask(a, app) ==
  /\ flight[a][app] = "queued" /\ ~paused[a]
  /\ Land(a, app, IF MayGoOn(a) THEN "asked" ELSE "given up")

\* resolve_metadata_with_auth_bundle: one request, with the authorisation of the phase.
Answer(a, app) ==
  /\ provider[a] = "personal" /\ flight[a][app] = "asked"
  /\ \E as \in {"resolved", "failed"} : Land(a, app, as)

\* resolve_metadata_with_dispenser first gets an anonymous authorisation for this request.
AuthoriseOne(a, app) ==
  /\ provider[a] = "dispenser" /\ flight[a][app] = "asked"
  /\ \E as \in {"authorised", "failed"} : Land(a, app, as)

AnswerOne(a, app) ==
  /\ flight[a][app] = "authorised"
  /\ \E as \in {"resolved", "failed"} : Land(a, app, as)

Next ==
  \/ SignIn \/ SignOut \/ ClearCache \/ PauseOrResume \/ Report
  \/ \E p \in {"dispenser", "personal"} : StartAudit(p)
  \/ \E b \in BOOLEAN : Stop(b)
  \/ \E a \in Audits :
       \/ ReadContext(a) \/ TakeCredentials(a) \/ Authorise(a) \/ Filled(a) \/ Collect(a)
       \/ \E aged \in BOOLEAN : LoadCache(a, aged)
       \/ \E app \in Apps : Submit(a, app) \/ Ask(a, app) \/ Answer(a, app) \/ AuthoriseOne(a, app)
                            \/ AnswerOne(a, app)

Spec == Init /\ [][Next]_vars

-----------------------------------------------------------------------------
(* Properties. *)

\* Evidence is kept and shown for the session that obtained it, although the user signs
\* in again while the worker of an audit that was given up still runs
\* (device_specific_integration.py:289-376, device_specific_cache.py:68-81).
EvidenceFitsItsSession ==
  /\ \A e \in cache : e.by = e.context
  /\ \A a \in Audits, p \in Apps : \A r \in rows[a][p] : r.kind = "resolved" => r.by = context[a]

\* A phase that nobody stopped leaves no eligible app without an answer, however its
\* requests end and wherever it was paused (device_specific_integration.py:405-463).
EveryMissIsAnswered ==
  \A a \in Audits : step[a] = "over" /\ ~cancelled[a] => \A p \in Eligible[a] : rows[a][p] # {}
=============================================================================
