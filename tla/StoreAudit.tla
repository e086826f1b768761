----------------------------- MODULE StoreAudit -----------------------------
(***************************************************************************)
(* The Google Play audit of a list of apps (services/play_store.py, and    *)
(* _html_request of services/audit_engine.py).                             *)
(*                                                                         *)
(* The main thread keeps at most Workers apps submitted to the app pool.   *)
(* An app's thread asks the selected market first; when the listing is     *)
(* complete it is done, when it lacks metadata it asks the other markets   *)
(* one by one, and when there is none it has batches of other markets      *)
(* asked on a second pool.  A market is asked in its language and, when    *)
(* that answer is incomplete or failed, again in English; each of these    *)
(* locale fetches holds one of Workers request slots, tries the scraper    *)
(* and confirms with the HTML page, both with retries.  Pause and Stop     *)
(* come from another thread at any moment.                                 *)
(***************************************************************************)
EXTENDS Naturals, FiniteSets

CONSTANTS
  NApps,      \* number of apps
  M,          \* number of other markets
  Workers,    \* config.max_workers, at least 1
  BatchSize,  \* FALLBACK_BATCH_SIZE
  MaxRetries, \* config.max_retries
  English,    \* markets whose Store language is English
  MaxPauses   \* bound: how often the user pauses

Apps    == 1..NApps
Markets == 0..M         \* 0 is the selected market
Others  == 1..M         \* _fallback_countries, in order

ASSUME ConstantsAssumption ==
  /\ NApps \in Nat /\ M \in Nat /\ MaxRetries \in Nat /\ MaxPauses \in Nat
  /\ Workers \in Nat \ {0} /\ BatchSize \in Nat \ {0}
  /\ English \subseteq Markets

Fetches == Apps \X Markets   \* one fetch of one app in one market

VARIABLES
  paused, cancel,   \* pause_event (inverted) and cancel_event
  pauses,           \* pauses so far
  slots,            \* free request slots
  fetch,            \* state of each market fetch
  app,              \* where each app's thread stands
  market,           \* the market an app's thread works on
  batchEnd,         \* last market of an app's current batch
  checked, failed,  \* markets that answered, and that failed
  outcome,          \* what the app's future returned
  main,             \* where the main thread stands
  snapshot,         \* completed futures being reported
  row,              \* emitted row of each app
  late              \* history: answers received after Stop

appVars  == <<app, market, batchEnd, checked, failed, outcome>>
mainVars == <<main, snapshot, row>>
control  == <<paused, cancel, pauses>>
vars == <<control, slots, fetch, appVars, mainVars, late>>

-----------------------------------------------------------------------------
(* Answers.  Of a listing only the presence of its two dates and versions  *)
(* steers the audit.                                                       *)

Answer(s, u, v) == [status |-> s, updated |-> u, version |-> v]
Available(u, v) == Answer("available", u, v)
NotFound  == Answer("not_found", FALSE, FALSE)
Failed    == Answer("failed", FALSE, FALSE)      \* request_error, http_error
Cancelled == Answer("cancelled", FALSE, FALSE)
NoAnswer  == Answer("none", FALSE, FALSE)
Answers   == [status : {"none", "available", "not_found", "failed", "cancelled"},
              updated : BOOLEAN, version : BOOLEAN]

IsAvailable(r) == r.status = "available"
Complete(r)    == IsAvailable(r) /\ r.updated /\ r.version

NeedsEnglish(m, r) ==
  m \notin English /\ (r.status = "failed" \/ (IsAvailable(r) /\ ~Complete(r)))

\* The market's answer from its two locale answers.
Combine(preferred, english) ==
  IF IsAvailable(preferred)
  THEN IF IsAvailable(english)
       THEN Available(preferred.updated \/ english.updated, preferred.version \/ english.version)
       ELSE preferred
  ELSE IF english.status \in {"available", "not_found", "cancelled"} THEN english ELSE preferred

NoFetch == [step |-> "idle", english |-> FALSE, attempt |-> 0,
            scraper |-> NoAnswer, preferred |-> NoAnswer, answer |-> NoAnswer]

-----------------------------------------------------------------------------
(***************************************************************************)
(* One market fetch.  `fetch[f].step` names the point its thread is at:    *)
(* waiting to run, waiting for a slot, re-checking after it got one,       *)
(* before and inside a scraper request, before and inside an HTML request. *)
(***************************************************************************)
Holding   == {f \in Fetches : fetch[f].step \in
                {"recheck", "scraper", "scraping", "html", "loading"}}
Fetching  == {f \in Fetches : fetch[f].step \in {"scraper", "scraping", "html", "loading"}}
Requests  == {f \in Fetches : fetch[f].step \in {"scraping", "loading"}}

At(f, s) == fetch[f].step = s
Goto(f, s) == fetch' = [fetch EXCEPT ![f].step = s]
Begun(m) == [NoFetch EXCEPT !.step = "gate", !.english = m \in English]

\* _fetch_country on the answer of one locale: done, or once more in English.
Answered(f, r) ==
  LET t == fetch[f]
      next == IF ~t.english /\ NeedsEnglish(f[2], r)
              THEN [NoFetch EXCEPT !.step = "gate", !.english = TRUE, !.preferred = r]
              ELSE [NoFetch EXCEPT !.step = "done", !.answer =
                     IF t.preferred = NoAnswer THEN r ELSE Combine(t.preferred, r)]
  IN  fetch' = [fetch EXCEPT ![f] = next]

MayRun == cancel \/ ~paused   \* _wait_until_running returns

Gate(f) ==
  /\ At(f, "gate") /\ MayRun
  /\ IF cancel THEN Answered(f, Cancelled) ELSE Goto(f, "slot")
  /\ UNCHANGED <<control, slots, appVars, mainVars, late>>

\* A wait for a slot that times out goes back to the pause and cancel checks.
Acquire(f) ==
  /\ At(f, "slot")
  /\ IF slots > 0 THEN slots' = slots - 1 /\ Goto(f, "recheck")
                  ELSE Goto(f, "gate") /\ UNCHANGED slots
  /\ UNCHANGED <<control, appVars, mainVars, late>>

\* A plausible mistake: the slot is kept when Stop arrived while the thread waited for it.
RecheckKeepsSlot(f) ==
  /\ At(f, "recheck")
  /\ IF cancel THEN Answered(f, Cancelled) /\ UNCHANGED slots
     ELSE IF paused THEN Goto(f, "gate") /\ slots' = slots + 1
     ELSE Goto(f, "scraper") /\ UNCHANGED slots
  /\ UNCHANGED <<control, appVars, mainVars, late>>

\* A plausible mistake: a Pause that arrived while the thread waited for a slot is missed.
RecheckCancelOnly(f) ==
  /\ At(f, "recheck")
  /\ IF cancel THEN Answered(f, Cancelled) /\ slots' = slots + 1
     ELSE Goto(f, "scraper") /\ UNCHANGED slots
  /\ UNCHANGED <<control, appVars, mainVars, late>>

Recheck(f) ==
  /\ At(f, "recheck")
  /\ IF cancel THEN Answered(f, Cancelled) /\ slots' = slots + 1
     ELSE IF paused THEN Goto(f, "gate") /\ slots' = slots + 1
     ELSE Goto(f, "scraper") /\ UNCHANGED slots
  /\ UNCHANGED <<control, appVars, mainVars, late>>

Release(f, r) == Answered(f, r) /\ slots' = slots + 1

CountLate == late' = IF cancel THEN late + 1 ELSE late

\* A plausible mistake: a retry does not look at Stop.
ScraperAttemptDeaf(f) ==
  /\ At(f, "scraper")
  /\ IF cancel /\ fetch[f].attempt = 0 THEN Release(f, Cancelled)
               ELSE Goto(f, "scraping") /\ UNCHANGED slots
  /\ UNCHANGED <<control, appVars, mainVars, late>>

ScraperAttempt(f) ==
  /\ At(f, "scraper")
  /\ IF cancel THEN Release(f, Cancelled)
               ELSE Goto(f, "scraping") /\ UNCHANGED slots
  /\ UNCHANGED <<control, appVars, mainVars, late>>

Confirm(f, r) ==
  fetch' = [fetch EXCEPT ![f].step = "html", ![f].attempt = 0, ![f].scraper = r]

ScraperFinds(f, u, v) ==
  /\ At(f, "scraping")
  /\ IF u THEN Release(f, Available(u, v))
          ELSE Confirm(f, Available(FALSE, v)) /\ UNCHANGED slots
  /\ CountLate
  /\ UNCHANGED <<control, appVars, mainVars>>

ScraperNotFound(f) ==
  /\ At(f, "scraping")
  /\ Confirm(f, NotFound)
  /\ CountLate
  /\ UNCHANGED <<control, slots, appVars, mainVars>>

\* A transient error: retried until the attempts are used up; an error of the
\* last attempt is a cancellation when Stop came meanwhile.
ScraperErrs(f) ==
  /\ At(f, "scraping")
  /\ IF fetch[f].attempt < MaxRetries
     THEN /\ fetch' = [fetch EXCEPT ![f].step = "scraper", ![f].attempt = @ + 1]
          /\ UNCHANGED slots
     ELSE IF cancel THEN Release(f, Cancelled)
     ELSE Confirm(f, Failed) /\ UNCHANGED slots
  /\ CountLate
  /\ UNCHANGED <<control, appVars, mainVars>>

HtmlAttempt(f) ==
  /\ At(f, "html")
  /\ IF ~cancel THEN Goto(f, "loading") /\ UNCHANGED slots
     ELSE Release(f, IF IsAvailable(fetch[f].scraper) THEN fetch[f].scraper ELSE Cancelled)
  /\ UNCHANGED <<control, appVars, mainVars, late>>

\* A listing the scraper found stays available whatever the page says.
WithScraper(f, r) ==
  IF IsAvailable(fetch[f].scraper)
  THEN Available(r.updated, fetch[f].scraper.version) ELSE r

HtmlAnswers(f, r) ==
  /\ At(f, "loading")
  /\ Release(f, WithScraper(f, r))
  /\ CountLate
  /\ UNCHANGED <<control, appVars, mainVars>>

\* A connection error or one of the retried HTTP statuses.
HtmlRetries(f) ==
  /\ At(f, "loading") /\ fetch[f].attempt < MaxRetries
  /\ fetch' = [fetch EXCEPT ![f].step = "html", ![f].attempt = @ + 1]
  /\ CountLate
  /\ UNCHANGED <<control, slots, appVars, mainVars>>

\* An unexpected exception, e.g. of the page parser: the slot is released and
\* the exception propagates.
HtmlRaises(f) ==
  /\ At(f, "loading")
  /\ fetch' = [fetch EXCEPT ![f] = [NoFetch EXCEPT !.step = "raised"]]
  /\ slots' = slots + 1
  /\ CountLate
  /\ UNCHANGED <<control, appVars, mainVars>>

FetchStep(f) ==
  \/ Gate(f) \/ Acquire(f) \/ Recheck(f)
  \/ ScraperAttempt(f) \/ ScraperNotFound(f) \/ ScraperErrs(f)
  \/ \E u, v \in BOOLEAN : ScraperFinds(f, u, v)
  \/ HtmlAttempt(f) \/ HtmlRetries(f) \/ HtmlRaises(f)
  \/ \E r \in {Available(TRUE, FALSE), Available(FALSE, FALSE), NotFound, Failed} :
       HtmlAnswers(f, r)

-----------------------------------------------------------------------------
(***************************************************************************)
(* The app's thread (_fetch_app_bounded).                                  *)
(***************************************************************************)
AppAt(a, s) == app[a] = s

Finish(a, o) ==
  /\ app' = [app EXCEPT ![a] = "finished"]
  /\ outcome' = [outcome EXCEPT ![a] = o]
  /\ UNCHANGED <<market, batchEnd, checked, failed>>

RunningApps == {a \in Apps : app[a] \notin {"new", "queued", "revoked", "finished", "reported"}}

AppStart(a) ==
  /\ AppAt(a, "queued") /\ Cardinality(RunningApps) < Workers
  /\ app' = [app EXCEPT ![a] = "begin"]
  /\ UNCHANGED <<control, slots, fetch, market, batchEnd, checked, failed, outcome,
                 mainVars, late>>

BeginFetch(a, m, s) ==
  /\ fetch' = [fetch EXCEPT ![<<a, m>>] = Begun(m)]
  /\ app' = [app EXCEPT ![a] = s]
  /\ market' = [market EXCEPT ![a] = m]
  /\ UNCHANGED <<batchEnd, checked, failed, outcome>>

AppBegin(a) ==
  /\ AppAt(a, "begin") /\ MayRun
  /\ IF cancel THEN Finish(a, "none") /\ UNCHANGED fetch
               ELSE BeginFetch(a, 0, "primary")
  /\ UNCHANGED <<control, slots, mainVars, late>>

Current(a) == fetch[<<a, market[a]>>]
Primary(a) == fetch[<<a, 0>>].answer

Turn(a, s, m) ==
  /\ app' = [app EXCEPT ![a] = s]
  /\ market' = [market EXCEPT ![a] = m]
  /\ UNCHANGED <<batchEnd, checked, failed, outcome>>

AppPrimary(a) ==
  /\ AppAt(a, "primary") /\ Current(a).step = "done"
  /\ CASE Primary(a).status = "cancelled" -> Finish(a, "none")
       [] cancel /\ Primary(a).status # "cancelled" ->
            Finish(a, IF IsAvailable(Primary(a)) THEN "available" ELSE "none")
       [] ~cancel /\ Complete(Primary(a)) -> Finish(a, "available")
       [] ~cancel /\ IsAvailable(Primary(a)) /\ ~Complete(Primary(a)) -> Turn(a, "lacking", 1)
       [] OTHER -> Turn(a, "batch", 1)
  /\ UNCHANGED <<control, slots, fetch, mainVars, late>>

\* An exception in the app's own fetch ends the app.
AppRaises(a) ==
  /\ app[a] \in {"primary", "completing", "await"} /\ market[a] \in Markets
  /\ Current(a).step = "raised"
  /\ Finish(a, "error")
  /\ UNCHANGED <<control, slots, fetch, mainVars, late>>

(* Metadata completion: the other markets one by one. *)

CompleteNext(a) ==
  /\ AppAt(a, "lacking")
  /\ market[a] \in Others => MayRun
  /\ IF market[a] \notin Others \/ cancel
     THEN Finish(a, "available") /\ UNCHANGED fetch
     ELSE BeginFetch(a, market[a], "completing")
  /\ UNCHANGED <<control, slots, mainVars, late>>

CompleteAnswer(a) ==
  /\ AppAt(a, "completing") /\ Current(a).step = "done"
  /\ IF cancel \/ Current(a).answer.status \in {"cancelled", "available"}
     THEN Finish(a, "available")
     ELSE Turn(a, "lacking", market[a] + 1)
  /\ UNCHANGED <<control, slots, fetch, mainVars, late>>

(* Regional fallback: batches of markets on the fallback pool. *)

Lesser(x, y) == IF x <= y THEN x ELSE y

BatchSubmit(a) ==
  /\ AppAt(a, "batch") /\ market[a] \in Others /\ MayRun
  /\ IF cancel THEN Finish(a, "none") /\ UNCHANGED fetch
     ELSE LET last == Lesser(market[a] + BatchSize - 1, M) IN
          /\ fetch' = [f \in Fetches |-> IF f[1] = a /\ f[2] \in market[a]..last
                                         THEN [Begun(f[2]) EXCEPT !.step = "queued"]
                                         ELSE fetch[f]]
          /\ app' = [app EXCEPT ![a] = "await"]
          /\ batchEnd' = [batchEnd EXCEPT ![a] = last]
          /\ UNCHANGED <<market, checked, failed, outcome>>
  /\ UNCHANGED <<control, slots, mainVars, late>>

RunningFallbacks ==
  {f \in Fetches : /\ app[f[1]] \notin {"primary", "completing"} /\ f[2] # 0
                   /\ fetch[f].step \notin {"idle", "queued", "done", "raised", "revoked"}}

\* A plausible mistake: one pool runs the apps and the requests they wait for.
FallbackSharesPool == Cardinality(RunningApps) + Cardinality(RunningFallbacks) < Workers

FallbackHasWorker == Cardinality(RunningFallbacks) < Workers

FallbackStart(f) ==
  /\ At(f, "queued") /\ FallbackHasWorker
  /\ Goto(f, "gate")
  /\ UNCHANGED <<control, slots, appVars, mainVars, late>>

\* future.result() in batch order; a listing cancels the futures not yet started.
AwaitAnswer(a) ==
  /\ AppAt(a, "await") /\ market[a] <= batchEnd[a]
  /\ Current(a).step = "done"
  /\ LET m == market[a]
         r == Current(a).answer
     IN  IF IsAvailable(r)
         THEN /\ Finish(a, IF Primary(a) = NotFound THEN "other_country" ELSE "available")
              /\ fetch' = [f \in Fetches |-> IF f[1] = a /\ At(f, "queued")
                                             THEN [NoFetch EXCEPT !.step = "revoked"]
                                             ELSE fetch[f]]
         ELSE /\ market' = [market EXCEPT ![a] = m + 1]
              /\ checked' = [checked EXCEPT ![a] = IF r = Cancelled THEN @ ELSE @ \cup {m}]
              /\ failed' = [failed EXCEPT ![a] = IF r = Failed THEN @ \cup {m} ELSE @]
              /\ UNCHANGED <<app, batchEnd, outcome, fetch>>
  /\ UNCHANGED <<control, slots, mainVars, late>>

\* A plausible mistake: Stop is not looked at after the answers of a batch.
BatchDoneDeaf(a) ==
  /\ AppAt(a, "await") /\ market[a] > batchEnd[a]
  /\ Turn(a, "batch", market[a])
  /\ UNCHANGED <<control, slots, fetch, mainVars, late>>

BatchDone(a) ==
  /\ AppAt(a, "await") /\ market[a] > batchEnd[a]
  /\ IF cancel THEN Finish(a, "none") ELSE Turn(a, "batch", market[a])
  /\ UNCHANGED <<control, slots, fetch, mainVars, late>>

\* A plausible mistake: failed markets are not counted against the verdict.
VerdictIgnoringFailures(a) ==
  IF checked[a] # {} /\ Primary(a) = NotFound THEN "not_found" ELSE "inconclusive"

Verdict(a) ==
  IF checked[a] # {} /\ Primary(a) = NotFound /\ failed[a] = {}
  THEN "not_found" ELSE "inconclusive"

Judge(a) ==
  /\ AppAt(a, "batch") /\ market[a] \notin Others
  /\ Finish(a, Verdict(a))
  /\ UNCHANGED <<control, slots, fetch, mainVars, late>>

AppStep(a) ==
  \/ AppStart(a) \/ AppBegin(a) \/ AppPrimary(a) \/ AppRaises(a)
  \/ CompleteNext(a) \/ CompleteAnswer(a)
  \/ BatchSubmit(a) \/ AwaitAnswer(a) \/ BatchDone(a) \/ Judge(a)

-----------------------------------------------------------------------------
(***************************************************************************)
(* The main thread (audit_apps).                                           *)
(***************************************************************************)
Pending   == {a \in Apps : app[a] \notin {"new", "reported"}}
Unstarted == {a \in Apps : app[a] = "new"}
Least(S)  == CHOOSE x \in S : \A y \in S : x <= y

MayFill == Unstarted # {} /\ Cardinality(Pending) < Workers /\ ~cancel

Fill ==
  /\ main = "fill" /\ MayFill
  /\ app' = [app EXCEPT ![Least(Unstarted)] = "queued"]
  /\ UNCHANGED <<control, slots, fetch, market, batchEnd, checked, failed, outcome,
                 mainVars, late>>

FillDone ==
  /\ main = "fill" /\ ~MayFill
  /\ main' = "wait"
  /\ UNCHANGED <<control, slots, fetch, appVars, snapshot, row, late>>

Completed == {a \in Pending : app[a] \in {"finished", "revoked"}}

WaitReturns ==
  /\ main = "wait" /\ Completed # {}
  /\ snapshot' = Completed
  /\ main' = "report"
  /\ UNCHANGED <<control, slots, fetch, appVars, row, late>>

\* An exception becomes an unexpected_error row, unless Stop came.
RowOf(a) ==
  IF app[a] = "revoked" \/ (outcome[a] = "error" /\ cancel) THEN "none" ELSE outcome[a]

Report ==
  /\ main = "report" /\ snapshot # {}
  /\ LET a == Least(snapshot) IN
     /\ row' = [row EXCEPT ![a] = RowOf(a)]
     /\ app' = [app EXCEPT ![a] = "reported"]
     /\ snapshot' = snapshot \ {a}
  /\ UNCHANGED <<control, slots, fetch, market, batchEnd, checked, failed, outcome, main, late>>

\* After Stop the futures that have not started are cancelled.
ReportDone ==
  /\ main = "report" /\ snapshot = {}
  /\ IF cancel
     THEN /\ app' = [a \in Apps |-> IF AppAt(a, "queued") THEN "revoked" ELSE app[a]]
          /\ main' = "wait"
     ELSE main' = "fill" /\ UNCHANGED app
  /\ UNCHANGED <<control, slots, fetch, market, batchEnd, checked, failed, outcome,
                 snapshot, row, late>>

\* The pools are shut down once nothing is pending; the fallback pool waits
\* for the requests it still runs.
End ==
  /\ main = "wait" /\ Pending = {}
  /\ \A f \in Fetches : fetch[f].step \in {"idle", "done", "raised", "revoked"}
  /\ main' = "ended"
  /\ UNCHANGED <<control, slots, fetch, appVars, snapshot, row, late>>

MainStep == Fill \/ FillDone \/ WaitReturns \/ Report \/ ReportDone \/ End

-----------------------------------------------------------------------------
(* The user, from the UI thread. *)

Pause ==
  /\ main # "ended" /\ ~cancel /\ ~paused /\ pauses < MaxPauses
  /\ paused' = TRUE /\ pauses' = pauses + 1
  /\ UNCHANGED <<cancel, slots, fetch, appVars, mainVars, late>>

Resume ==
  /\ main # "ended" /\ paused
  /\ paused' = FALSE
  /\ UNCHANGED <<cancel, pauses, slots, fetch, appVars, mainVars, late>>

\* cancel_event is set first; the pause_event.set() that follows is Resume.
Stop ==
  /\ main # "ended" /\ ~cancel
  /\ cancel' = TRUE
  /\ UNCHANGED <<paused, pauses, slots, fetch, appVars, mainVars, late>>

Ended == main = "ended" /\ UNCHANGED vars

Init ==
  /\ paused = FALSE /\ cancel = FALSE /\ pauses = 0
  /\ slots = Workers
  /\ fetch = [f \in Fetches |-> NoFetch]
  /\ app = [a \in Apps |-> "new"]
  /\ market = [a \in Apps |-> 0] /\ batchEnd = [a \in Apps |-> 0]
  /\ checked = [a \in Apps |-> {}] /\ failed = [a \in Apps |-> {}]
  /\ outcome = [a \in Apps |-> "none"]
  /\ main = "fill" /\ snapshot = {}
  /\ row = [a \in Apps |-> "none"]
  /\ late = 0

Next ==
  \/ \E f \in Fetches : FetchStep(f) \/ FallbackStart(f)
  \/ \E a \in Apps : AppStep(a)
  \/ MainStep
  \/ Pause \/ Resume \/ Stop
  \/ Ended

Spec == Init /\ [][Next]_vars

-----------------------------------------------------------------------------
(* Properties. *)

FetchSteps == {"idle", "queued", "gate", "slot", "recheck", "scraper", "scraping",
               "html", "loading", "done", "raised", "revoked"}
Outcomes == {"none", "available", "other_country", "not_found", "inconclusive", "error"}

TypeOK ==
  /\ paused \in BOOLEAN /\ cancel \in BOOLEAN /\ pauses \in 0..MaxPauses
  /\ slots \in 0..Workers
  /\ fetch \in [Fetches -> [step : FetchSteps, english : BOOLEAN, attempt : 0..MaxRetries,
                            scraper : Answers, preferred : Answers, answer : Answers]]
  /\ app \in [Apps -> {"new", "queued", "revoked", "begin", "primary", "lacking",
                       "completing", "batch", "await", "finished", "reported"}]
  /\ market \in [Apps -> 0..(M + 1)] /\ batchEnd \in [Apps -> Markets]
  /\ checked \in [Apps -> SUBSET Others] /\ failed \in [Apps -> SUBSET Others]
  /\ outcome \in [Apps -> Outcomes]
  /\ main \in {"fill", "wait", "report", "ended"}
  /\ snapshot \subseteq Apps /\ row \in [Apps -> Outcomes]
  /\ late \in Nat

(***************************************************************************)
(* Request slots are neither leaked nor invented on any of the paths that  *)
(* give one back (answer, Stop, Pause after the acquisition, exception),   *)
(* so never more than max_workers Store requests are in flight, although   *)
(* two pools of max_workers threads issue them.                            *)
(***************************************************************************)
SlotsConserved ==
  /\ slots + Cardinality(Holding) = Workers
  /\ Cardinality(Requests) <= Workers

(***************************************************************************)
(* "Once cancellation is observed, no package, retry, country, or language *)
(* request is started" (docstring of audit_apps): after Stop only the      *)
(* requests already in flight, one per slot, still answer.                 *)
(***************************************************************************)
StopBoundsRequests == late <= Workers

(***************************************************************************)
(* No market is asked anew while the audit is paused, although threads     *)
(* were already waiting for a slot when Pause was pressed.                 *)
(***************************************************************************)
PauseKeepsOut == paused /\ paused' => Fetching' \subseteq Fetching
PauseAdmitsNoFetch == [][PauseKeepsOut]_vars

(***************************************************************************)
(* A verdict about the Store rests on the answers it claims: "not found in *)
(* the checked countries" only when every market said so, "available" and  *)
(* "available in another country" only when a market showed the listing,   *)
(* and "inconclusive" never hides a listing that was seen.                 *)
(***************************************************************************)
Told(a, m) == fetch[<<a, m>>].answer

Grounded(a) ==
  /\ outcome[a] = "not_found" => \A m \in Markets : Told(a, m) = NotFound
  /\ outcome[a] = "available" => \E m \in Markets : IsAvailable(Told(a, m))
  /\ outcome[a] = "other_country" =>
       Told(a, 0) = NotFound /\ \E m \in Others : IsAvailable(Told(a, m))
  /\ outcome[a] = "inconclusive" =>
       \A m \in Markets : Told(a, m) \in {NotFound, Failed}

VerdictSound == \A a \in Apps : Grounded(a)

(***************************************************************************)
(* "Cancellation may stop optional metadata completion, but it must not    *)
(* erase that conclusive primary evidence" (comment in _fetch_app_bounded).*)
(***************************************************************************)
PrimaryKept ==
  \A a \in Apps : app[a] \in {"finished", "reported"} /\ IsAvailable(Primary(a)) =>
    outcome[a] \in {"available", "error"}

(***************************************************************************)
(* At the end every app has its row, failed ones included; only Stop       *)
(* leaves apps out, and never one whose verdict had been reached.          *)
(***************************************************************************)
RowsAccounted ==
  main = "ended" => \A a \in Apps :
    /\ outcome[a] \notin {"none", "error"} => row[a] = outcome[a]
    /\ ~cancel => row[a] # "none"

\* What the steps of an audit keep of its slots, verdicts and rows.
AuditInv == TypeOK /\ SlotsConserved /\ VerdictSound /\ PrimaryKept /\ RowsAccounted

(***************************************************************************)
(* What the audit promises, whatever its pools and pauses (AuditPromise).  *)
(***************************************************************************)
Promise == INSTANCE AuditPromise WITH
  told <- [f \in Fetches |-> IF fetch[f].answer = Cancelled THEN "none"
                                                           ELSE fetch[f].answer.status],
  verdict <- row, stopped <- cancel, ended <- main = "ended"

ImplementsPromise == Promise!Spec
PromiseStarts == Promise!Init
PromiseStep   == [Promise!Next]_(Promise!vars)

(***************************************************************************)
(* Threads are scheduled and every request answers or times out: unless    *)
(* the user leaves it paused, the audit ends - after Stop even then - and  *)
(* the two pools never wait for each other.                                *)
(***************************************************************************)
FairSpec ==
  /\ Spec
  /\ \A f \in Fetches : WF_vars(FetchStep(f)) /\ WF_vars(FallbackStart(f))
  /\ \A a \in Apps : WF_vars(AppStep(a))
  /\ WF_vars(MainStep)

AuditEnds == <>[](~paused \/ cancel) => <>(main = "ended")

=============================================================================
