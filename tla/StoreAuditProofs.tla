-------------------------- MODULE StoreAuditProofs --------------------------
(***************************************************************************)
(* Proofs about StoreAudit, for every number of apps, markets, workers,    *)
(* retries and pauses.                                                     *)
(***************************************************************************)
EXTENDS StoreAudit, Integers, WellFoundedInduction, FiniteSetTheorems, TLAPS

-----------------------------------------------------------------------------
(***************************************************************************)
(* The inductive invariant.                                                *)
(***************************************************************************)
FetchStates == [step : FetchSteps, english : BOOLEAN, attempt : 0..MaxRetries,
                scraper : Answers, preferred : Answers, answer : Answers]

HoldingSteps == {"recheck", "scraper", "scraping", "html", "loading"}
RequestSteps == {"scraping", "loading"}
InFlight     == {"gate", "slot"} \cup HoldingSteps

Listing(r) == r \in Answers /\ IsAvailable(r)
Absence    == {NotFound, Failed}

\* A fetch has an answer once it is done, and one of Stop only after Stop.
SoundFetch(t) ==
  /\ t.preferred \in {NoAnswer, Failed} \/ Listing(t.preferred)
  /\ t.step # "done" => t.answer = NoAnswer
  /\ t.step = "done" => t.answer \in Absence \cup {Cancelled} \/ Listing(t.answer)
  /\ t.answer = Cancelled => cancel

FetchesSound == \A f \in Fetches : SoundFetch(fetch[f])

\* The requests in flight when Stop came are the ones still to answer.
LateBound ==
  /\ ~cancel => late = 0
  /\ cancel => late + Cardinality(Requests) <= Workers

(***************************************************************************)
(* An app's thread walks through the markets from 0 to M: the markets      *)
(* before its own have answered, the ones after it have not been asked.    *)
(***************************************************************************)
Step(a, m) == fetch[<<a, m>>].step
Unasked(a, S) == \A m \in S : Step(a, m) = "idle"
AllDone(a, S) == \A m \in S : Step(a, m) = "done"

\* What the verdict of an app will rest on: the other markets before k.
Counted(a, k) ==
  \A m \in Others : m < k =>
    /\ Step(a, m) = "done"
    /\ Told(a, m) \in Absence \cup {Cancelled}
    /\ Told(a, m) = Failed => m \in failed[a]

Walk(a) ==
  LET k == market[a] IN
  /\ app[a] \in {"new", "queued", "revoked", "begin"} => Unasked(a, Markets)
  /\ app[a] = "primary" => k = 0 /\ Unasked(a, Others) /\ Step(a, 0) \in InFlight \cup {"done", "raised"}
  /\ app[a] \in {"lacking", "completing"} =>
       /\ k >= 1 /\ Listing(Told(a, 0)) /\ Step(a, 0) = "done"
       /\ Unasked(a, {m \in Markets : m > k})
       /\ app[a] = "lacking" => Unasked(a, {m \in Markets : m = k})
       /\ app[a] = "completing" => k \in Others
  /\ app[a] \in {"batch", "await"} =>
       /\ k >= 1 /\ Told(a, 0) \in Absence /\ Step(a, 0) = "done"
       /\ Counted(a, k)
  /\ app[a] = "batch" =>
       /\ Unasked(a, {m \in Markets : m >= k})
       /\ \A m \in Others : m < k => Told(a, m) # Cancelled
  /\ app[a] = "await" =>
       /\ k <= batchEnd[a] + 1
       /\ Unasked(a, {m \in Markets : m > batchEnd[a]})
  /\ app[a] \in {"finished", "reported"} => Step(a, 0) \in {"idle", "done", "raised"}

\* An app has an outcome once it is finished, and none of its own only after Stop.
Concluded(a) ==
  /\ app[a] \notin {"finished", "reported"} => outcome[a] = "none"
  /\ app[a] \in {"finished", "reported"} /\ outcome[a] = "none" => cancel
  /\ app[a] = "revoked" => cancel
  /\ outcome[a] \in {"not_found", "inconclusive"} => AllDone(a, Markets)

\* A row is the outcome, or absent because of Stop.
Reported(a) ==
  /\ app[a] # "reported" => row[a] = "none"
  /\ row[a] # "none" => row[a] = outcome[a]
  /\ app[a] = "reported" /\ outcome[a] \notin {"none", "error"} => row[a] = outcome[a]
  /\ app[a] = "reported" /\ row[a] = "none" => cancel

\* The main thread waits while something is pending, or after Stop.
MainSound ==
  /\ main = "wait" => cancel \/ Unstarted = {} \/ Pending # {}
  /\ main = "report" => \A a \in snapshot : app[a] \in {"finished", "revoked"}
  /\ main = "ended" =>
       /\ Pending = {} /\ (cancel \/ Unstarted = {})
       /\ \A f \in Fetches : fetch[f].step \in {"idle", "done", "raised", "revoked"}

Threads == \A a \in Apps : Walk(a) /\ Concluded(a) /\ Reported(a)

IInv == /\ TypeOK /\ SlotsConserved /\ LateBound /\ FetchesSound /\ Threads
        /\ VerdictSound /\ PrimaryKept /\ MainSound

-----------------------------------------------------------------------------
(***************************************************************************)
(* A step of a market fetch, in the terms the invariant is stated in: the  *)
(* fetch f becomes t, and slots and late are adjusted to it.               *)
(***************************************************************************)
Becomes(f, t) ==
  /\ fetch' = [fetch EXCEPT ![f] = t]
  /\ t \in FetchStates /\ SoundFetch(t)
  /\ fetch[f].step \in InFlight
  /\ t.step \in InFlight \cup {"done", "raised"}

SlotsFollow(f, t) ==
  \/ (f \in Holding <=> t.step \in HoldingSteps) /\ slots' = slots
  \/ f \notin Holding /\ t.step \in HoldingSteps /\ slots > 0 /\ slots' = slots - 1
  \/ f \in Holding /\ t.step \notin HoldingSteps /\ slots' = slots + 1

LateCounted(f) ==
  late' = IF cancel /\ fetch[f].step \in RequestSteps THEN late + 1 ELSE late

LateFollows(f, t) ==
  /\ LateCounted(f)
  /\ t.step \in RequestSteps => ~cancel /\ fetch[f].step \notin RequestSteps

FetchingSteps == {"scraper", "scraping", "html", "loading"}

PauseRespected(f, t) ==
  paused /\ t.step \in FetchingSteps => fetch[f].step \in FetchingSteps

Moves(f, t) ==
  Becomes(f, t) /\ SlotsFollow(f, t) /\ LateFollows(f, t) /\ PauseRespected(f, t)

(* What the two locales of a market say together. *)
LEMMA CombineFacts ==
  ASSUME NEW p \in Answers, IsAvailable(p) \/ p = Failed,
         NEW r \in Answers, r \in Absence \cup {Cancelled} \/ IsAvailable(r)
  PROVE  /\ Combine(p, r) \in Answers
         /\ Combine(p, r) \in Absence \cup {Cancelled} \/ IsAvailable(Combine(p, r))
         /\ Combine(p, r) = Cancelled => r = Cancelled
<1>1. CASE IsAvailable(p) /\ IsAvailable(r)
  <2> DEFINE u == p.updated \/ r.updated
             v == p.version \/ r.version
  <2>1. u \in BOOLEAN /\ v \in BOOLEAN
    BY Zenon
  <2>2. Combine(p, r) = Available(u, v)
    BY <1>1 DEF Combine
  <2> HIDE DEF u, v
  <2> QED BY <2>1, <2>2 DEF Available, Answer, Answers, IsAvailable, Cancelled
<1>2. CASE ~(IsAvailable(p) /\ IsAvailable(r))
  <2>1. Combine(p, r) \in {p, r}
    BY <1>2 DEF Combine
  <2> QED BY <2>1, <1>2 DEF Combine, Absence, Failed, Cancelled, Answer, IsAvailable
<1> QED BY <1>1, <1>2

(* What an answer of one locale makes of a fetch. *)
LEMMA AnsweredFacts ==
  ASSUME TypeOK, NEW f \in Fetches, SoundFetch(fetch[f]), NEW r \in Answers,
         r \in Absence \cup {Cancelled} \/ IsAvailable(r), r = Cancelled => cancel,
         Answered(f, r)
  PROVE  \E t \in FetchStates :
           /\ fetch' = [fetch EXCEPT ![f] = t] /\ SoundFetch(t)
           /\ t.step \in {"gate", "done"}
<1> DEFINE p == fetch[f].preferred
           again == [NoFetch EXCEPT !.step = "gate", !.english = TRUE, !.preferred = r]
           a == IF p = NoAnswer THEN r ELSE Combine(p, r)
           done == [NoFetch EXCEPT !.step = "done", !.answer = a]
<1>1. p \in Answers /\ (p \in {NoAnswer, Failed} \/ IsAvailable(p))
  BY DEF TypeOK, SoundFetch, Listing
<1>2. /\ NoFetch \in FetchStates /\ NoAnswer \in Answers /\ Failed \in Answers
  BY ConstantsAssumption DEF NoFetch, FetchStates, FetchSteps, NoAnswer, Failed, Answer, Answers
<1>3. /\ a \in Answers
      /\ a \in Absence \cup {Cancelled} \/ IsAvailable(a)
      /\ a = Cancelled => r = Cancelled
  <2>1. CASE p = NoAnswer
    BY <2>1
  <2>2. CASE p # NoAnswer
    <3>1. a = Combine(p, r) /\ (IsAvailable(p) \/ p = Failed)
      BY <1>1, <2>2
    <3> HIDE DEF a, p
    <3> QED BY <1>1, <3>1, CombineFacts
  <2> QED BY <2>1, <2>2
<1> HIDE DEF a, p
<1>4. /\ again \in FetchStates
      /\ again.step = "gate" /\ again.preferred = r /\ again.answer = NoAnswer
  BY <1>2 DEF NoFetch, FetchStates, FetchSteps
<1>5. /\ done \in FetchStates
      /\ done.step = "done" /\ done.preferred = NoAnswer /\ done.answer = a
  BY <1>2, <1>3 DEF NoFetch, FetchStates, FetchSteps
<1>6. \/ fetch' = [fetch EXCEPT ![f] = again] /\ NeedsEnglish(f[2], r)
      \/ fetch' = [fetch EXCEPT ![f] = done]
  BY DEF Answered, a, p
<1>7. CASE fetch' = [fetch EXCEPT ![f] = again] /\ NeedsEnglish(f[2], r)
  <2>1. r = Failed \/ IsAvailable(r)
    BY <1>7 DEF NeedsEnglish, Absence, NotFound, Failed, Cancelled, Answer
  <2>2. SoundFetch(again)
    <3> HIDE DEF again
    <3> QED BY <1>4, <2>1 DEF SoundFetch, Listing, NoAnswer, Cancelled, Answer
  <2> HIDE DEF again
  <2> QED BY <1>4, <1>7, <2>2
<1>8. CASE fetch' = [fetch EXCEPT ![f] = done]
  <2> HIDE DEF done
  <2>1. SoundFetch(done)
    BY <1>3, <1>5 DEF SoundFetch, Listing
  <2> QED BY <1>5, <1>8, <2>1
<1> QED BY <1>6, <1>7, <1>8

(* The answers that end the work of a locale. *)
LEMMA AnswerIsReply ==
  /\ \A u, v \in BOOLEAN : Available(u, v) \in Answers /\ IsAvailable(Available(u, v))
  /\ {NotFound, Failed, Cancelled, NoAnswer} \subseteq Answers
  /\ Cancelled \notin Absence /\ NoAnswer \notin Absence \cup {Cancelled}
  /\ \A r \in Absence \cup {Cancelled, NoAnswer} : ~IsAvailable(r)
BY DEF Available, Answer, Answers, IsAvailable, NotFound, Failed, Cancelled, NoAnswer, Absence

LEMMA NoFetchType ==
  /\ NoFetch \in FetchStates
  /\ NoFetch.step = "idle" /\ NoFetch.preferred = NoAnswer /\ NoFetch.answer = NoAnswer
BY ConstantsAssumption DEF NoFetch, FetchStates, FetchSteps, NoAnswer, Answer, Answers

(* A fetch that gives its slot back with an answer. *)
LEMMA ReleaseMoves ==
  ASSUME TypeOK, FetchesSound, NEW f \in Fetches, NEW r \in Answers, f \in Holding,
         r \in Absence \cup {Cancelled} \/ IsAvailable(r), r = Cancelled => cancel,
         Release(f, r), LateCounted(f)
  PROVE  \E t : Moves(f, t)
<1>1. PICK t \in FetchStates :
        /\ fetch' = [fetch EXCEPT ![f] = t] /\ SoundFetch(t) /\ t.step \in {"gate", "done"}
  BY AnsweredFacts DEF Release, FetchesSound
<1>2. /\ Becomes(f, t) /\ SlotsFollow(f, t) /\ PauseRespected(f, t)
      /\ t.step \notin RequestSteps
  BY <1>1 DEF Release, Becomes, SlotsFollow, PauseRespected, Holding, HoldingSteps, InFlight,
     FetchingSteps, RequestSteps
<1> QED BY <1>2 DEF Moves, LateFollows

(* A fetch that only changes its step, and perhaps counts an attempt. *)
LEMMA SameAnswer ==
  ASSUME TypeOK, FetchesSound, NEW f \in Fetches, NEW s \in InFlight,
         NEW n \in 0..MaxRetries, NEW r \in Answers, fetch[f].step \in InFlight,
         fetch' = [fetch EXCEPT ![f] =
                     [fetch[f] EXCEPT !.step = s, !.attempt = n, !.scraper = r]]
  PROVE  \E t : Becomes(f, t) /\ t.step = s
<1> DEFINE t == [fetch[f] EXCEPT !.step = s, !.attempt = n, !.scraper = r]
<1>1. fetch[f] \in FetchStates /\ SoundFetch(fetch[f])
  BY DEF TypeOK, FetchStates, FetchesSound
<1>2. s \in FetchSteps /\ s # "done" /\ fetch[f].step # "done"
  BY DEF InFlight, HoldingSteps, FetchSteps
<1>3. /\ t \in FetchStates
      /\ t.step = s /\ t.preferred = fetch[f].preferred /\ t.answer = fetch[f].answer
  BY <1>1, <1>2 DEF FetchStates
<1>4. fetch' = [fetch EXCEPT ![f] = t]
  OBVIOUS
<1> HIDE DEF t
<1>5. SoundFetch(t)
  BY <1>1, <1>2, <1>3 DEF SoundFetch
<1> QED BY <1>3, <1>4, <1>5 DEF Becomes

LEMMA GotoMoves ==
  ASSUME TypeOK, FetchesSound, NEW f \in Fetches, NEW s \in InFlight, fetch[f].step \in InFlight,
         Goto(f, s)
  PROVE  \E t : Becomes(f, t) /\ t.step = s
<1> DEFINE n == fetch[f].attempt
           r == fetch[f].scraper
           u == [fetch[f] EXCEPT !.step = s, !.attempt = n, !.scraper = r]
<1>1. fetch[f] \in FetchStates /\ fetch \in [Fetches -> FetchStates]
  BY DEF TypeOK, FetchStates
<1>2. n \in 0..MaxRetries /\ r \in Answers
  BY <1>1 DEF FetchStates
<1>3. u = [fetch[f] EXCEPT !.step = s]
  BY <1>1 DEF FetchStates
<1>4. fetch' = [fetch EXCEPT ![f] = u]
  BY <1>1, <1>3 DEF Goto
<1> HIDE DEF n, r
<1> QED BY <1>2, <1>4, SameAnswer

LEMMA FetchStepMoves ==
  ASSUME TypeOK, FetchesSound, NEW f \in Fetches, FetchStep(f)
  PROVE  (\E t : Moves(f, t)) /\ UNCHANGED <<control, appVars, mainVars>>
<1> USE DEF SlotsFollow, LateFollows, LateCounted, PauseRespected, Moves, At, Holding,
        HoldingSteps, RequestSteps, FetchingSteps
<1>0. /\ {"gate", "slot", "recheck", "scraper", "scraping", "html", "loading"} = InFlight
      /\ fetch[f] \in FetchStates /\ fetch[f].attempt \in 0..MaxRetries
      /\ fetch[f].scraper \in Answers /\ fetch \in [Fetches -> FetchStates]
      /\ slots \in 0..Workers
  BY DEF InFlight, TypeOK, FetchStates
<1>1. CASE Gate(f)
  <2>1. CASE cancel
    <3>1. PICK t \in FetchStates :
            /\ fetch' = [fetch EXCEPT ![f] = t] /\ SoundFetch(t) /\ t.step \in {"gate", "done"}
      BY <1>1, <2>1, AnswerIsReply, AnsweredFacts DEF Gate, FetchesSound
    <3>2. Becomes(f, t) BY <1>0, <1>1, <3>1 DEF Becomes, Gate
    <3> QED BY <1>1, <3>1, <3>2 DEF Gate
  <2>2. CASE ~cancel
    <3>1. PICK t : Becomes(f, t) /\ t.step = "slot"
      BY <1>0, <1>1, <2>2, GotoMoves DEF Gate
    <3> QED BY <1>1, <3>1 DEF Gate
  <2> QED BY <1>1, <2>1, <2>2 DEF Gate
<1>2. CASE Acquire(f)
  <2>1. CASE slots > 0
    <3>1. PICK t : Becomes(f, t) /\ t.step = "recheck"
      BY <1>0, <1>2, <2>1, GotoMoves DEF Acquire
    <3> QED BY <1>2, <2>1, <3>1 DEF Acquire
  <2>2. CASE ~(slots > 0)
    <3>1. PICK t : Becomes(f, t) /\ t.step = "gate"
      BY <1>0, <1>2, <2>2, GotoMoves DEF Acquire
    <3> QED BY <1>2, <2>2, <3>1 DEF Acquire
  <2> QED BY <2>1, <2>2, <1>2 DEF Acquire
<1>3. CASE Recheck(f)
  <2>1. CASE cancel
    <3>1. Release(f, Cancelled) /\ late' = late /\ UNCHANGED <<control, appVars, mainVars>>
      BY <1>3, <2>1 DEF Recheck, Release
    <3> QED BY <1>3, <2>1, <3>1, AnswerIsReply, ReleaseMoves DEF Recheck
  <2>2. CASE ~cancel /\ paused
    <3>1. PICK t : Becomes(f, t) /\ t.step = "gate"
      BY <1>0, <1>3, <2>2, GotoMoves DEF Recheck
    <3> QED BY <1>3, <2>2, <3>1 DEF Recheck
  <2>3. CASE ~cancel /\ ~paused
    <3>1. PICK t : Becomes(f, t) /\ t.step = "scraper"
      BY <1>0, <1>3, <2>3, GotoMoves DEF Recheck
    <3> QED BY <1>3, <2>3, <3>1 DEF Recheck
  <2> QED BY <2>1, <2>2, <2>3
<1>4. CASE ScraperAttempt(f)
  <2>1. CASE cancel
    <3>1. Release(f, Cancelled) /\ late' = late /\ UNCHANGED <<control, appVars, mainVars>>
      BY <1>4, <2>1 DEF ScraperAttempt
    <3> QED BY <1>4, <2>1, <3>1, AnswerIsReply, ReleaseMoves DEF ScraperAttempt
  <2>2. CASE ~cancel
    <3>1. PICK t : Becomes(f, t) /\ t.step = "scraping"
      BY <1>0, <1>4, <2>2, GotoMoves DEF ScraperAttempt
    <3> QED BY <1>4, <2>2, <3>1 DEF ScraperAttempt
  <2> QED BY <2>1, <2>2
<1>5. ASSUME NEW r \in Answers, At(f, "scraping"), Confirm(f, r), slots' = slots, CountLate,
             UNCHANGED <<control, appVars, mainVars>>
      PROVE  (\E t : Moves(f, t)) /\ UNCHANGED <<control, appVars, mainVars>>
  <2> DEFINE u == [fetch[f] EXCEPT !.step = "html", !.attempt = 0, !.scraper = r]
  <2>1. fetch' = [fetch EXCEPT ![f] = u]
    BY <1>0, <1>5 DEF Confirm
  <2>2. 0 \in 0..MaxRetries
    BY ConstantsAssumption
  <2>3. PICK t : Becomes(f, t) /\ t.step = "html"
    BY <1>0, <1>5, <2>1, <2>2, SameAnswer
  <2> QED BY <1>5, <2>3 DEF CountLate
<1>6. ASSUME NEW s \in {"scraper", "html"}, f \in Holding, fetch[f].step \in RequestSteps,
             fetch[f].attempt < MaxRetries, slots' = slots, CountLate,
             fetch' = [fetch EXCEPT ![f].step = s, ![f].attempt = @ + 1],
             UNCHANGED <<control, appVars, mainVars>>
      PROVE  (\E t : Moves(f, t)) /\ UNCHANGED <<control, appVars, mainVars>>
  <2> DEFINE n == fetch[f].attempt + 1
             r == fetch[f].scraper
             u == [fetch[f] EXCEPT !.step = s, !.attempt = n, !.scraper = r]
  <2>1. u = [fetch[f] EXCEPT !.step = s, !.attempt = n]
    BY <1>0 DEF FetchStates
  <2>2. fetch' = [fetch EXCEPT ![f] = u]
    BY <1>0, <1>6, <2>1
  <2>3. n \in 0..MaxRetries
    BY <1>0, <1>6, ConstantsAssumption
  <2> HIDE DEF n, r
  <2>4. r \in Answers
    BY <1>0 DEF r
  <2>5. s \in InFlight /\ fetch[f].step \in InFlight
    BY <1>0, <1>6
  <2>6. PICK t : Becomes(f, t) /\ t.step = s
    BY <2>2, <2>3, <2>4, <2>5, SameAnswer
  <2> QED BY <1>6, <2>6 DEF CountLate
<1>7. CASE ScraperNotFound(f)
  BY <1>5, <1>7, AnswerIsReply DEF ScraperNotFound
<1>8. CASE ScraperErrs(f)
  <2>1. CASE fetch[f].attempt < MaxRetries
    BY <1>6, <1>8, <2>1 DEF ScraperErrs
  <2>2. CASE ~(fetch[f].attempt < MaxRetries) /\ cancel
    <3>1. Release(f, Cancelled) /\ CountLate /\ UNCHANGED <<control, appVars, mainVars>>
      BY <1>8, <2>2 DEF ScraperErrs
    <3> QED BY <1>8, <2>2, <3>1, AnswerIsReply, ReleaseMoves DEF ScraperErrs, CountLate
  <2>3. CASE ~(fetch[f].attempt < MaxRetries) /\ ~cancel
    BY <1>5, <1>8, <2>3, AnswerIsReply DEF ScraperErrs
  <2> QED BY <2>1, <2>2, <2>3
<1>9. ASSUME NEW u \in BOOLEAN, NEW v \in BOOLEAN, ScraperFinds(f, u, v)
      PROVE  (\E t : Moves(f, t)) /\ UNCHANGED <<control, appVars, mainVars>>
  <2>1. CASE u
    <3>1. /\ At(f, "scraping") /\ Release(f, Available(u, v)) /\ CountLate
          /\ UNCHANGED <<control, appVars, mainVars>>
      BY <1>9, <2>1 DEF ScraperFinds
    <3>2. Available(u, v) \in Answers /\ IsAvailable(Available(u, v)) /\ Available(u, v) # Cancelled
      BY AnswerIsReply
    <3>3. f \in Holding /\ LateCounted(f)
      BY <3>1 DEF CountLate
    <3>4. \E t : Moves(f, t)
      BY <3>1, <3>2, <3>3, ReleaseMoves
    <3> QED BY <3>1, <3>4
  <2>2. CASE ~u
    <3>1. Available(FALSE, v) \in Answers
      BY AnswerIsReply
    <3> QED BY <1>5, <1>9, <2>2, <3>1 DEF ScraperFinds
  <2> QED BY <2>1, <2>2
<1>10. CASE HtmlAttempt(f)
  <2>1. CASE ~cancel
    <3>1. PICK t : Becomes(f, t) /\ t.step = "loading"
      BY <1>0, <1>10, <2>1, GotoMoves DEF HtmlAttempt
    <3> QED BY <1>10, <2>1, <3>1 DEF HtmlAttempt
  <2>2. CASE cancel
    <3> DEFINE r == IF IsAvailable(fetch[f].scraper) THEN fetch[f].scraper ELSE Cancelled
    <3>1. r \in Answers /\ (r = Cancelled \/ IsAvailable(r))
      BY <1>0, AnswerIsReply
    <3>2. Release(f, r) /\ late' = late /\ UNCHANGED <<control, appVars, mainVars>>
      BY <1>10, <2>2 DEF HtmlAttempt
    <3> HIDE DEF r
    <3> QED BY <1>10, <2>2, <3>1, <3>2, ReleaseMoves DEF HtmlAttempt
  <2> QED BY <2>1, <2>2
<1>11. CASE HtmlRetries(f)
  BY <1>6, <1>11 DEF HtmlRetries
<1>12. CASE HtmlRaises(f)
  <2> DEFINE t == [NoFetch EXCEPT !.step = "raised"]
  <2>1. t \in FetchStates /\ t.step = "raised" /\ t.preferred = NoAnswer /\ t.answer = NoAnswer
    BY NoFetchType DEF FetchStates, FetchSteps
  <2>2. fetch' = [fetch EXCEPT ![f] = t]
    BY <1>12 DEF HtmlRaises
  <2> HIDE DEF t
  <2>3. Becomes(f, t)
    BY <1>0, <1>12, <2>1, <2>2, AnswerIsReply DEF Becomes, SoundFetch, HtmlRaises
  <2> QED BY <1>12, <2>1, <2>3 DEF HtmlRaises, CountLate
<1>13. ASSUME NEW r \in {Available(TRUE, FALSE), Available(FALSE, FALSE), NotFound, Failed},
              HtmlAnswers(f, r)
       PROVE  (\E t : Moves(f, t)) /\ UNCHANGED <<control, appVars, mainVars>>
  <2> DEFINE w == WithScraper(f, r)
  <2>1. r \in Answers /\ r.updated \in BOOLEAN /\ (r \in Absence \/ IsAvailable(r))
    <3>1. \A v \in BOOLEAN : Available(v, FALSE) \in Answers /\ IsAvailable(Available(v, FALSE))
      BY AnswerIsReply
    <3>2. r \in Answers /\ (r \in Absence \/ IsAvailable(r))
      BY <3>1, AnswerIsReply DEF Absence
    <3> QED BY <3>2 DEF Answers
  <2>2. fetch[f].scraper.version \in BOOLEAN
    BY <1>0 DEF Answers
  <2>3. w \in Answers /\ (w \in Absence \/ IsAvailable(w))
    BY <2>1, <2>2, AnswerIsReply DEF WithScraper
  <2>4. /\ Release(f, w) /\ CountLate /\ At(f, "loading")
        /\ UNCHANGED <<control, appVars, mainVars>>
    BY <1>13 DEF HtmlAnswers
  <2> HIDE DEF w
  <2>5. f \in Holding /\ LateCounted(f) /\ w # Cancelled
    BY <2>3, <2>4, AnswerIsReply DEF CountLate
  <2>6. \E t : Moves(f, t)
    BY <2>3, <2>4, <2>5, ReleaseMoves
  <2> QED BY <2>4, <2>6
<1> QED BY <1>1, <1>2, <1>3, <1>4, <1>7, <1>8, <1>9, <1>10, <1>11, <1>12, <1>13 DEF FetchStep

-----------------------------------------------------------------------------
(* Counting fetches. *)

LEMMA FetchesFinite ==
  /\ IsFiniteSet(Fetches)
  /\ \A S \in SUBSET Fetches : IsFiniteSet(S) /\ Cardinality(S) \in Nat
  /\ Apps \subseteq Nat /\ Markets \subseteq Nat /\ 0 \in Markets /\ Others = Markets \ {0}
<1>1. IsFiniteSet(Apps) /\ IsFiniteSet(Markets)
  BY ConstantsAssumption, FS_Interval DEF Apps, Markets
<1>2. IsFiniteSet(Fetches)
  BY <1>1, FS_Product DEF Fetches
<1>3. \A S \in SUBSET Fetches : IsFiniteSet(S) /\ Cardinality(S) \in Nat
  BY <1>2, FS_Subset, FS_CardinalityType
<1> QED BY <1>2, <1>3, ConstantsAssumption DEF Apps, Markets, Others

LEMMA HoldingFacts ==
  /\ Holding \in SUBSET Fetches /\ Requests \in SUBSET Holding
  /\ IsFiniteSet(Holding) /\ Cardinality(Holding) \in Nat
  /\ IsFiniteSet(Requests) /\ Cardinality(Requests) \in Nat
  /\ Cardinality(Requests) <= Cardinality(Holding)
<1>1. Holding \in SUBSET Fetches /\ Requests \in SUBSET Holding
  BY DEF Holding, Requests
<1> QED BY <1>1, FetchesFinite, FS_Subset

\* Slots are conserved by whoever keeps the sum of free and held slots.
LEMMA SlotsFromSum ==
  ASSUME Holding' \in SUBSET Fetches, slots' \in Int, slots' >= 0,
         slots' + Cardinality(Holding') = Workers
  PROVE  SlotsConserved' /\ slots' \in 0..Workers
<1>1. Requests' \in SUBSET Holding'
  BY DEF Holding, Requests
<1>2. /\ IsFiniteSet(Holding') /\ Cardinality(Holding') \in Nat
      /\ Cardinality(Requests') \in Nat /\ Cardinality(Requests') <= Cardinality(Holding')
  BY <1>1, FetchesFinite, FS_Subset
<1>3. Workers \in Nat
  BY ConstantsAssumption
<1> QED BY <1>2, <1>3 DEF SlotsConserved

LEMMA MovesSlots ==
  ASSUME TypeOK, SlotsConserved, NEW f \in Fetches, NEW t, Becomes(f, t), SlotsFollow(f, t)
  PROVE  SlotsConserved' /\ slots' \in 0..Workers
<1>1. /\ fetch \in [Fetches -> FetchStates] /\ slots \in Nat
      /\ slots + Cardinality(Holding) = Workers
  BY ConstantsAssumption DEF TypeOK, FetchStates, SlotsConserved
<1>2. \A g \in Fetches : fetch'[g] = IF g = f THEN t ELSE fetch[g]
  BY <1>1 DEF Becomes
<1>3. Holding' = IF t.step \in HoldingSteps THEN Holding \cup {f} ELSE Holding \ {f}
  BY <1>2 DEF Holding, HoldingSteps
<1>4. /\ Cardinality(Holding \cup {f}) = IF f \in Holding THEN Cardinality(Holding)
                                                          ELSE Cardinality(Holding) + 1
      /\ Cardinality(Holding \ {f}) = IF f \in Holding THEN Cardinality(Holding) - 1
                                                       ELSE Cardinality(Holding)
      /\ Cardinality(Holding) \in Nat
  BY HoldingFacts, FS_AddElement, FS_RemoveElement
<1>5. /\ slots' \in Int /\ slots' >= 0
      /\ slots' + Cardinality(Holding') = Workers
  BY <1>1, <1>3, <1>4 DEF SlotsFollow
<1>6. Holding' \in SUBSET Fetches
  BY DEF Holding
<1> QED BY <1>5, <1>6, SlotsFromSum

LEMMA MovesLate ==
  ASSUME TypeOK, LateBound, NEW f \in Fetches, NEW t, Becomes(f, t), LateFollows(f, t),
         cancel' = cancel
  PROVE  LateBound' /\ late' \in Nat
<1>1. fetch \in [Fetches -> FetchStates] /\ late \in Nat
  BY DEF TypeOK, FetchStates
<1>2. \A g \in Fetches : fetch'[g] = IF g = f THEN t ELSE fetch[g]
  BY <1>1 DEF Becomes
<1>3. CASE ~cancel
  BY <1>1, <1>3 DEF LateBound, LateFollows, LateCounted
<1>4. CASE cancel
  <2>1. t.step \notin RequestSteps
    BY <1>4 DEF LateFollows
  <2>2. Requests' = Requests \ {f}
    BY <1>2, <2>1 DEF Requests, RequestSteps
  <2>3. Cardinality(Requests \ {f}) = IF f \in Requests THEN Cardinality(Requests) - 1
                                                        ELSE Cardinality(Requests)
    BY HoldingFacts, FS_RemoveElement
  <2>4. late' = IF f \in Requests THEN late + 1 ELSE late
    BY <1>4 DEF LateFollows, LateCounted, Requests, RequestSteps
  <2>5. Cardinality(Requests) \in Nat /\ Workers \in Nat
    BY HoldingFacts, ConstantsAssumption
  <2> QED BY <1>1, <1>4, <2>2, <2>3, <2>4, <2>5 DEF LateBound
<1> QED BY <1>3, <1>4

-----------------------------------------------------------------------------
(* The rest of the invariant under the steps of fetches. *)

(* A fetch that begins or goes on changes nothing an app or a verdict rests on. *)
LEMMA FetchFrame ==
  ASSUME IInv, UNCHANGED <<control, appVars, mainVars>>, NEW f \in Fetches, NEW t,
         fetch' = [fetch EXCEPT ![f] = t], FetchesSound',
         fetch[f].step \in InFlight \cup {"queued"},
         t.step \in InFlight \cup {"done", "raised"}
  PROVE  Threads' /\ VerdictSound' /\ PrimaryKept' /\ MainSound'
<1> USE DEF control, appVars, mainVars
<1>1. fetch \in [Fetches -> FetchStates] /\ TypeOK
  BY DEF IInv, TypeOK, FetchStates
<1>2. \A g \in Fetches : fetch'[g] = IF g = f THEN t ELSE fetch[g]
  BY <1>1
<1>3. /\ fetch[f].step \notin {"idle", "done", "raised", "revoked"} /\ t.step # "idle"
      /\ fetch[f].answer = NoAnswer
  BY DEF InFlight, HoldingSteps, IInv, FetchesSound, SoundFetch
<1>4. \A a \in Apps, m \in Markets :
        /\ Step(a, m) \in {"idle", "done", "raised"} =>
             Step(a, m)' = Step(a, m) /\ Told(a, m)' = Told(a, m)
        /\ Told(a, m) # NoAnswer => Step(a, m) = "done"
        /\ Step(a, m)' \in {Step(a, m)} \cup InFlight \cup {"done", "raised"}
  <2> SUFFICES ASSUME NEW a \in Apps, NEW m \in Markets
               PROVE  /\ Step(a, m) \in {"idle", "done", "raised"} =>
                           Step(a, m)' = Step(a, m) /\ Told(a, m)' = Told(a, m)
                      /\ Told(a, m) # NoAnswer => Step(a, m) = "done"
                      /\ Step(a, m)' \in {Step(a, m)} \cup InFlight \cup {"done", "raised"}
    OBVIOUS
  <2>1. <<a, m>> \in Fetches BY DEF Fetches
  <2> QED BY <1>2, <1>3, <2>1 DEF Step, Told, IInv, FetchesSound, SoundFetch
<1>5. /\ Others \subseteq Markets /\ 0 \in Markets
      /\ \A a \in Apps : market[a] \in Nat /\ batchEnd[a] \in Nat
  BY <1>1, FetchesFinite, ConstantsAssumption DEF TypeOK, Markets
<1>6. ASSUME NEW a \in Apps PROVE Walk(a)'
  <2>1. Walk(a) BY DEF IInv, Threads
  <2>2. \A S \in SUBSET Markets : Unasked(a, S) => Unasked(a, S)'
    BY <1>4 DEF Unasked
  <2>3. \A k \in Nat : Counted(a, k) => Counted(a, k)'
    BY <1>4, <1>5 DEF Counted
  <2>4. /\ {m \in Markets : m > market[a]} \in SUBSET Markets
        /\ {m \in Markets : m = market[a]} \in SUBSET Markets
        /\ {m \in Markets : m >= market[a]} \in SUBSET Markets
        /\ {m \in Markets : m > batchEnd[a]} \in SUBSET Markets
    OBVIOUS
  <2>5. Step(a, 0) \in {"idle", "done", "raised"} =>
          Step(a, 0)' = Step(a, 0) /\ Told(a, 0)' = Told(a, 0)
    BY <1>4, <1>5
  <2>6. Step(a, 0)' \in {Step(a, 0)} \cup InFlight \cup {"done", "raised"}
    BY <1>4, <1>5
  <2>7. app[a] = "batch" => \A m \in Others : m < market[a] => Told(a, m)' # Cancelled
    BY <1>4, <1>5, <2>1 DEF Walk, Counted
  <2> QED
    BY <1>5, <2>1, <2>2, <2>3, <2>4, <2>5, <2>6, <2>7 DEF Walk
<1>7. ASSUME NEW a \in Apps PROVE Concluded(a)' /\ Reported(a)'
  <2>1. AllDone(a, Markets) => AllDone(a, Markets)'
    BY <1>4 DEF AllDone
  <2> QED BY <2>1 DEF IInv, Threads, Concluded, Reported
<1>8. VerdictSound'
  <2> SUFFICES ASSUME NEW a \in Apps
               PROVE  Grounded(a)'
    BY DEF VerdictSound
  <2>1. \A m \in Markets : Told(a, m) # NoAnswer => Told(a, m)' = Told(a, m)
    BY <1>4
  <2>2. Grounded(a)
    BY DEF IInv, VerdictSound
  <2>3. /\ ~IsAvailable(NoAnswer) /\ NotFound # NoAnswer /\ Failed # NoAnswer
    BY AnswerIsReply DEF Absence
  <2> QED BY <1>5, <2>1, <2>2, <2>3 DEF Grounded
<1>9. PrimaryKept'
  <2> SUFFICES ASSUME NEW a \in Apps, app[a] \in {"finished", "reported"}, IsAvailable(Primary(a)')
               PROVE  outcome[a] \in {"available", "error"}
    BY DEF PrimaryKept
  <2>1. Primary(a) = Told(a, 0) /\ Primary(a)' = Told(a, 0)'
    BY DEF Primary, Told
  <2>2. Told(a, 0)' = Told(a, 0)
    BY <1>4, <1>5 DEF IInv, Threads, Walk
  <2> QED BY <2>1, <2>2 DEF IInv, PrimaryKept
<1>10. MainSound'
  <2>1. main # "ended" BY <1>3 DEF IInv, MainSound
  <2> QED BY <2>1 DEF IInv, MainSound, Unstarted, Pending
<1> QED BY <1>6, <1>7, <1>8, <1>9, <1>10 DEF Threads

LEMMA FetchStepKeeps ==
  ASSUME IInv, NEW f \in Fetches, FetchStep(f)
  PROVE  IInv'
<1>1. TypeOK /\ FetchesSound /\ SlotsConserved /\ LateBound
  BY DEF IInv
<1>2. PICK t : Moves(f, t) /\ UNCHANGED <<control, appVars, mainVars>>
  BY <1>1, FetchStepMoves
<1>3. fetch' \in [Fetches -> FetchStates] /\ \A g \in Fetches : fetch'[g] = IF g = f THEN t ELSE fetch[g]
  BY <1>1, <1>2 DEF TypeOK, FetchStates, Moves, Becomes
<1>4. FetchesSound'
  BY <1>1, <1>2, <1>3 DEF FetchesSound, SoundFetch, Moves, Becomes, control
<1>5. SlotsConserved' /\ slots' \in 0..Workers
  BY <1>1, <1>2, MovesSlots DEF Moves
<1>6. LateBound' /\ late' \in Nat
  BY <1>1, <1>2, MovesLate DEF Moves, control
<1>7. TypeOK'
  BY <1>1, <1>2, <1>3, <1>5, <1>6 DEF TypeOK, FetchStates, control, appVars, mainVars
<1>8. Threads' /\ VerdictSound' /\ PrimaryKept' /\ MainSound'
  BY <1>2, <1>4, FetchFrame DEF Moves, Becomes
<1> QED BY <1>4, <1>5, <1>6, <1>7, <1>8 DEF IInv

LEMMA FallbackStartKeeps ==
  ASSUME IInv, NEW f \in Fetches, FallbackStart(f)
  PROVE  IInv'
<1> DEFINE t == [fetch[f] EXCEPT !.step = "gate"]
<1>1. TypeOK /\ FetchesSound /\ SlotsConserved /\ LateBound /\ fetch \in [Fetches -> FetchStates]
  BY DEF IInv, TypeOK, FetchStates
<1>2. /\ fetch' = [fetch EXCEPT ![f] = t] /\ fetch[f].step = "queued"
      /\ UNCHANGED <<control, slots, appVars, mainVars, late>>
  BY <1>1 DEF FallbackStart, Goto, At
<1>3. /\ t \in FetchStates
      /\ t.step = "gate" /\ t.preferred = fetch[f].preferred /\ t.answer = fetch[f].answer
  BY <1>1 DEF FetchStates, FetchSteps
<1> HIDE DEF t
<1>4. fetch' \in [Fetches -> FetchStates] /\ \A g \in Fetches : fetch'[g] = IF g = f THEN t ELSE fetch[g]
  BY <1>1, <1>2, <1>3
<1>5. FetchesSound'
  BY <1>1, <1>2, <1>3, <1>4 DEF FetchesSound, SoundFetch, control
<1>6. Holding' = Holding /\ Requests' = Requests
  BY <1>2, <1>3, <1>4 DEF Holding, Requests
<1>7. TypeOK' /\ SlotsConserved' /\ LateBound'
  BY <1>1, <1>2, <1>4, <1>6 DEF TypeOK, FetchStates, SlotsConserved, LateBound, control, appVars, mainVars
<1>8. Threads' /\ VerdictSound' /\ PrimaryKept' /\ MainSound'
  BY <1>2, <1>3, <1>5, FetchFrame DEF InFlight
<1> QED BY <1>5, <1>7, <1>8 DEF IInv

-----------------------------------------------------------------------------
(***************************************************************************)
(* Steps of an app's thread.  They concern the app and its own fetches, so *)
(* only the app's part of the invariant has to be looked at.               *)
(***************************************************************************)
OwnStep(a) ==
  /\ app[a] \notin {"new", "revoked", "finished", "reported"}
  /\ app' \in [Apps -> {"new", "queued", "revoked", "begin", "primary", "lacking",
                        "completing", "batch", "await", "finished", "reported"}]
  /\ app'[a] \notin {"new", "revoked", "reported"}
  /\ fetch' \in [Fetches -> FetchStates]
  /\ market' \in [Apps -> 0..(M + 1)] /\ batchEnd' \in [Apps -> Markets]
  /\ checked' \in [Apps -> SUBSET Others] /\ failed' \in [Apps -> SUBSET Others]
  /\ outcome' \in [Apps -> Outcomes]
  /\ \A b \in Apps \ {a} :
       /\ app'[b] = app[b] /\ market'[b] = market[b] /\ batchEnd'[b] = batchEnd[b]
       /\ failed'[b] = failed[b] /\ outcome'[b] = outcome[b]
       /\ \A m \in Markets : fetch'[<<b, m>>] = fetch[<<b, m>>]
  /\ UNCHANGED <<control, slots, mainVars, late>>

\* The fetches it starts or calls off have no answer and hold no slot.
Idlers == {"idle", "queued", "gate", "revoked"}

Quiet ==
  \A f \in Fetches :
    \/ fetch'[f] = fetch[f]
    \/ /\ fetch[f].step \in Idlers /\ fetch'[f].step \in Idlers
       /\ fetch'[f].preferred = NoAnswer /\ fetch'[f].answer = NoAnswer

LEMMA AppFrame ==
  ASSUME IInv, NEW a \in Apps, OwnStep(a),
         \A m \in Markets :
           LET f == <<a, m>> IN
           \/ fetch'[f] = fetch[f]
           \/ /\ fetch[f].step \in Idlers /\ fetch'[f].step \in Idlers
              /\ fetch'[f].preferred = NoAnswer /\ fetch'[f].answer = NoAnswer,
         Walk(a)', Concluded(a)', Grounded(a)',
         app'[a] = "finished" /\ IsAvailable(Primary(a))' => outcome'[a] \in {"available", "error"}
  PROVE  IInv' /\ Quiet
<1> USE DEF control, mainVars
<1>1. /\ TypeOK /\ fetch \in [Fetches -> FetchStates] /\ fetch' \in [Fetches -> FetchStates]
      /\ UNCHANGED <<paused, cancel, pauses, slots, main, snapshot, row, late>>
  BY DEF IInv, TypeOK, FetchStates, OwnStep
<1>2. Quiet
  <2> SUFFICES ASSUME NEW b \in Apps, NEW m \in Markets
               PROVE  LET f == <<b, m>> IN
                      \/ fetch'[f] = fetch[f]
                      \/ /\ fetch[f].step \in Idlers /\ fetch'[f].step \in Idlers
                         /\ fetch'[f].preferred = NoAnswer /\ fetch'[f].answer = NoAnswer
    BY DEF Quiet, Fetches
  <2>1. CASE b = a BY <2>1
  <2>2. CASE b # a BY <2>2 DEF OwnStep
  <2> QED BY <2>1, <2>2
<1>3. FetchesSound'
  <2>1. NoAnswer # Cancelled BY AnswerIsReply
  <2> QED BY <1>1, <1>2, <2>1 DEF IInv, FetchesSound, SoundFetch, Quiet, Idlers
<1>4. Holding' = Holding /\ Requests' = Requests
  BY <1>2 DEF Quiet, Holding, Requests, Idlers
<1>5. TypeOK' /\ SlotsConserved' /\ LateBound'
  BY <1>1, <1>4 DEF IInv, TypeOK, FetchStates, SlotsConserved, LateBound, OwnStep
<1>6. ASSUME NEW b \in Apps \ {a} PROVE Walk(b)' /\ Concluded(b)' /\ Grounded(b)'
  <2>1. \A m \in Markets : Step(b, m)' = Step(b, m) /\ Told(b, m)' = Told(b, m)
    BY DEF OwnStep, Step, Told
  <2>2. /\ app'[b] = app[b] /\ market'[b] = market[b] /\ batchEnd'[b] = batchEnd[b]
        /\ failed'[b] = failed[b] /\ outcome'[b] = outcome[b]
    BY DEF OwnStep
  <2>3. Walk(b) /\ Concluded(b) /\ Grounded(b)
    BY DEF IInv, Threads, VerdictSound
  <2>4. Others \subseteq Markets /\ 0 \in Markets
    BY FetchesFinite
  <2>5. Walk(b)'
    BY <2>1, <2>2, <2>3, <2>4 DEF Walk, Unasked, Counted
  <2>6. Concluded(b)'
    BY <1>1, <2>1, <2>2, <2>3 DEF Concluded, AllDone
  <2>7. Grounded(b)'
    BY <2>1, <2>2, <2>3, <2>4 DEF Grounded
  <2> QED BY <2>5, <2>6, <2>7
<1>7. \A b \in Apps : Reported(b)'
  BY <1>1 DEF IInv, Threads, Reported, OwnStep
<1>8. PrimaryKept'
  <2>1. \A b \in Apps \ {a} : Primary(b)' = Primary(b)
    BY FetchesFinite DEF Primary, OwnStep
  <2> QED BY <2>1 DEF IInv, PrimaryKept, OwnStep
<1>9. MainSound'
  <2>1. Pending' = Pending /\ Unstarted' = Unstarted /\ a \in Pending
    BY DEF Pending, Unstarted, OwnStep
  <2>2. main # "ended" BY <2>1 DEF IInv, MainSound
  <2>3. main = "report" => \A b \in snapshot : app'[b] \in {"finished", "revoked"}
    BY <1>1 DEF IInv, MainSound, OwnStep, TypeOK
  <2> QED BY <1>1, <2>1, <2>2, <2>3 DEF IInv, MainSound
<1>10. Threads' /\ VerdictSound'
  BY <1>6, <1>7 DEF Threads, VerdictSound
<1> QED BY <1>2, <1>3, <1>5, <1>8, <1>9, <1>10 DEF IInv

(* An app that ends with outcome o, its fetches as they are. *)
LEMMA FinishKeeps ==
  ASSUME IInv, NEW a \in Apps, NEW o \in Outcomes, Finish(a, o),
         app[a] \notin {"new", "queued", "revoked", "finished", "reported"},
         UNCHANGED <<control, slots, fetch, mainVars, late>>,
         Step(a, 0) \in {"idle", "done", "raised"},
         o = "none" => cancel,
         o \in {"not_found", "inconclusive"} => AllDone(a, Markets),
         IsAvailable(Primary(a)) => o \in {"available", "error"},
         o = "not_found" => \A m \in Markets : Told(a, m) = NotFound,
         o = "available" => \E m \in Markets : IsAvailable(Told(a, m)),
         o = "other_country" => Told(a, 0) = NotFound /\ \E m \in Others : IsAvailable(Told(a, m)),
         o = "inconclusive" => \A m \in Markets : Told(a, m) \in {NotFound, Failed}
  PROVE  IInv' /\ Quiet
<1>1. TypeOK /\ fetch \in [Fetches -> FetchStates]
  BY DEF IInv, TypeOK, FetchStates
<1>2. /\ app'[a] = "finished" /\ outcome'[a] = o
      /\ app' = [app EXCEPT ![a] = "finished"] /\ outcome' = [outcome EXCEPT ![a] = o]
      /\ UNCHANGED <<fetch, cancel, market, batchEnd, checked, failed>>
  BY <1>1 DEF Finish, TypeOK, control
<1>3. OwnStep(a)
  BY <1>1, <1>2 DEF OwnStep, TypeOK
<1>4. /\ \A m \in Markets : Step(a, m)' = Step(a, m) /\ Told(a, m)' = Told(a, m)
      /\ Primary(a)' = Primary(a)
  BY <1>2 DEF Step, Told, Primary
<1>5. Walk(a)'
  BY <1>2, <1>4, FetchesFinite DEF Walk
<1>6. Concluded(a)'
  BY <1>2, <1>4 DEF Concluded, AllDone
<1>7. Grounded(a)'
  BY <1>2, <1>4, FetchesFinite DEF Grounded
<1> QED BY <1>2, <1>3, <1>4, <1>5, <1>6, <1>7, AppFrame

(* An app that turns to market m, its fetches as they are. *)
LEMMA TurnKeeps ==
  ASSUME IInv, NEW a \in Apps, NEW m \in 0..(M + 1), NEW s \in {"lacking", "batch"},
         Turn(a, s, m), app[a] \in {"primary", "completing", "await"},
         UNCHANGED <<control, slots, fetch, mainVars, late>>,
         m >= 1, Step(a, 0) = "done", Unasked(a, {n \in Markets : n >= m}),
         s = "lacking" => Listing(Told(a, 0)),
         s = "batch" => /\ Told(a, 0) \in Absence /\ Counted(a, m)
                        /\ \A n \in Others : n < m => Told(a, n) # Cancelled
  PROVE  IInv' /\ Quiet
<1>1. TypeOK /\ fetch \in [Fetches -> FetchStates]
  BY DEF IInv, TypeOK, FetchStates
<1>2. /\ app'[a] = s /\ market'[a] = m
      /\ app' = [app EXCEPT ![a] = s] /\ market' = [market EXCEPT ![a] = m]
      /\ UNCHANGED <<fetch, cancel, batchEnd, checked, failed, outcome>>
  BY <1>1 DEF Turn, TypeOK, control
<1>3. OwnStep(a)
  BY <1>1, <1>2 DEF OwnStep, TypeOK
<1>4. \A n \in Markets : Step(a, n)' = Step(a, n) /\ Told(a, n)' = Told(a, n)
  BY <1>2 DEF Step, Told
<1>5. Walk(a)'
  <2>1. Others \subseteq Markets /\ 0 \in Markets /\ Markets \subseteq Nat /\ m \in Nat
    BY FetchesFinite
  <2>2. Counted(a, m) => Counted(a, m)'
    BY <1>2, <1>4, <2>1 DEF Counted
  <2>3. \A S \in SUBSET {n \in Markets : n >= m} : Unasked(a, S)'
    BY <1>4 DEF Unasked
  <2>4. /\ {n \in Markets : n > m} \subseteq {n \in Markets : n >= m}
        /\ {n \in Markets : n = m} \subseteq {n \in Markets : n >= m}
    <3>1. \A n \in Markets : (n > m => n >= m) /\ (n = m => n >= m)
      BY <2>1
    <3> QED BY <3>1
  <2> QED BY <1>2, <1>4, <2>1, <2>2, <2>3, <2>4 DEF Walk
<1>6. Concluded(a)' /\ Grounded(a)'
  <2>1. outcome[a] = "none" BY DEF IInv, Threads, Concluded
  <2> QED BY <1>2, <2>1 DEF Concluded, Grounded
<1> QED BY <1>2, <1>3, <1>5, <1>6, AppFrame

(* An app that has its thread ask market m itself. *)
LEMMA BeginFetchKeeps ==
  ASSUME IInv, NEW a \in Apps, NEW m \in Markets, NEW s \in {"primary", "completing"},
         BeginFetch(a, m, s), UNCHANGED <<control, slots, mainVars, late>>,
         \/ s = "primary" /\ m = 0 /\ app[a] = "begin"
         \/ s = "completing" /\ m \in Others /\ app[a] = "lacking" /\ market[a] = m
  PROVE  IInv' /\ Quiet
<1>1. TypeOK /\ fetch \in [Fetches -> FetchStates] /\ Walk(a)
  BY DEF IInv, TypeOK, FetchStates, Threads
<1>2. /\ app'[a] = s /\ market'[a] = m
      /\ app' = [app EXCEPT ![a] = s] /\ market' = [market EXCEPT ![a] = m]
      /\ fetch' = [fetch EXCEPT ![<<a, m>>] = Begun(m)]
      /\ UNCHANGED <<cancel, batchEnd, checked, failed, outcome>>
  BY <1>1 DEF BeginFetch, TypeOK, control
<1>3. /\ Begun(m) \in FetchStates
      /\ Begun(m).step = "gate" /\ Begun(m).preferred = NoAnswer /\ Begun(m).answer = NoAnswer
  <2>1. \E e \in BOOLEAN : Begun(m) = [NoFetch EXCEPT !.step = "gate", !.english = e]
    <3>1. CASE m \in English
      <4>1. (m \in English) = TRUE BY <3>1
      <4> QED BY <4>1 DEF Begun
    <3>2. CASE m \notin English
      <4>1. (m \in English) = FALSE BY <3>2
      <4> QED BY <4>1 DEF Begun
    <3> QED BY <3>1, <3>2
  <2> QED BY <2>1, NoFetchType DEF FetchStates, FetchSteps
<1>4. /\ Others \subseteq Markets /\ 0 \in Markets /\ Markets \subseteq Nat
      /\ Markets \subseteq 0..(M + 1) /\ Others = Markets \ {0}
  BY FetchesFinite, ConstantsAssumption DEF Markets
<1>5. \A n \in Markets : fetch'[<<a, n>>] = IF n = m THEN Begun(m) ELSE fetch[<<a, n>>]
  BY <1>1, <1>2 DEF Fetches
<1>6. OwnStep(a)
  <2>1. \A b \in Apps \ {a}, n \in Markets : fetch'[<<b, n>>] = fetch[<<b, n>>]
    BY <1>1, <1>2 DEF Fetches
  <2>2. fetch' \in [Fetches -> FetchStates]
    BY <1>1, <1>2, <1>3
  <2>3. app[a] \in {"begin", "lacking"} OBVIOUS
  <2> QED BY <1>1, <1>2, <1>4, <2>1, <2>2, <2>3 DEF OwnStep, TypeOK
<1>7. Step(a, m) = "idle"
  BY <1>1, <1>4 DEF Walk, Unasked
<1>8. \A n \in Markets : n # m => Step(a, n)' = Step(a, n) /\ Told(a, n)' = Told(a, n)
  BY <1>5 DEF Step, Told
<1>9. Step(a, m)' = "gate"
  BY <1>3, <1>5 DEF Step
<1>10. Walk(a)'
  <2>1. CASE s = "primary"
    BY <1>1, <1>2, <1>4, <1>8, <1>9, <2>1 DEF Walk, Unasked, InFlight
  <2>2. CASE s = "completing"
    BY <1>1, <1>2, <1>4, <1>8, <1>9, <2>2 DEF Walk, Unasked
  <2> QED BY <2>1, <2>2
<1>11. Concluded(a)' /\ Grounded(a)'
  <2>1. outcome[a] = "none" BY DEF IInv, Threads, Concluded
  <2> QED BY <1>2, <2>1 DEF Concluded, Grounded
<1>12. \A n \in Markets :
         LET f == <<a, n>> IN
         \/ fetch'[f] = fetch[f]
         \/ /\ fetch[f].step \in Idlers /\ fetch'[f].step \in Idlers
            /\ fetch'[f].preferred = NoAnswer /\ fetch'[f].answer = NoAnswer
  BY <1>3, <1>5, <1>7 DEF Step, Idlers
<1> QED BY <1>2, <1>6, <1>10, <1>11, <1>12, AppFrame

(* What the invariant says of an app whose thread is about to step. *)
LEMMA OwnFacts ==
  ASSUME IInv, NEW a \in Apps
  PROVE  /\ TypeOK /\ fetch \in [Fetches -> FetchStates]
         /\ Walk(a) /\ Concluded(a) /\ Grounded(a)
         /\ \A m \in Markets : <<a, m>> \in Fetches /\ SoundFetch(fetch[<<a, m>>])
         /\ \A m \in Markets : Told(a, m) \in Answers
         /\ \A m \in Markets : Step(a, m) = "done" =>
              Told(a, m) \in Absence \cup {Cancelled} \/ Listing(Told(a, m))
         /\ \A m \in Markets : Told(a, m) = Cancelled => cancel
         /\ \A m \in Markets : Step(a, m) # "done" => Told(a, m) = NoAnswer
         /\ Primary(a) = Told(a, 0)
         /\ market[a] \in 0..(M + 1) /\ market[a] \in Nat /\ M \in Nat
         /\ batchEnd[a] \in Markets
         /\ 0 \in Markets /\ Others = 1..M /\ Markets = 0..M
<1>1. TypeOK /\ fetch \in [Fetches -> FetchStates] /\ Walk(a) /\ Concluded(a) /\ Grounded(a)
  BY DEF IInv, TypeOK, FetchStates, Threads, VerdictSound
<1>2. \A m \in Markets : <<a, m>> \in Fetches /\ SoundFetch(fetch[<<a, m>>])
  BY DEF IInv, FetchesSound, Fetches
<1>3. \A m \in Markets : Told(a, m) \in Answers
  BY <1>1, <1>2 DEF Told, FetchStates
<1>4. /\ \A m \in Markets : Step(a, m) = "done" =>
           Told(a, m) \in Absence \cup {Cancelled} \/ Listing(Told(a, m))
      /\ \A m \in Markets : Told(a, m) = Cancelled => cancel
      /\ \A m \in Markets : Step(a, m) # "done" => Told(a, m) = NoAnswer
      /\ Primary(a) = Told(a, 0)
  BY <1>2 DEF SoundFetch, Step, Told, Primary
<1>5. /\ market[a] \in 0..(M + 1) /\ market[a] \in Nat /\ M \in Nat
      /\ batchEnd[a] \in Markets
      /\ 0 \in Markets /\ Others = 1..M /\ Markets = 0..M
  BY <1>1, ConstantsAssumption DEF TypeOK, Others, Markets
<1> QED BY <1>1, <1>2, <1>3, <1>4, <1>5

\* An answer that is available is a listing, and no other answer is one.
LEMMA AnswerKinds ==
  /\ \A r : Listing(r) => IsAvailable(r) /\ r.status \notin {"cancelled", "none"}
  /\ \A r \in Absence : ~IsAvailable(r) /\ r.status \notin {"cancelled", "available", "none"}
  /\ ~IsAvailable(Cancelled) /\ Cancelled.status = "cancelled"
  /\ ~IsAvailable(NoAnswer) /\ ~Complete(NoAnswer)
BY DEF Listing, IsAvailable, Absence, NotFound, Failed, Cancelled, NoAnswer, Answer, Complete

LEMMA AppStartKeeps ==
  ASSUME IInv, NEW a \in Apps, AppStart(a)
  PROVE  IInv' /\ Quiet
<1>1. TypeOK /\ fetch \in [Fetches -> FetchStates] /\ Walk(a) /\ Concluded(a)
  BY OwnFacts
<1>2. /\ app[a] = "queued" /\ app'[a] = "begin" /\ app' = [app EXCEPT ![a] = "begin"]
      /\ UNCHANGED <<control, slots, fetch, market, batchEnd, checked, failed, outcome,
                     mainVars, late>>
      /\ UNCHANGED cancel
  BY <1>1 DEF AppStart, AppAt, TypeOK, control
<1>3. OwnStep(a)
  BY <1>1, <1>2 DEF OwnStep, TypeOK
<1>4. Walk(a)'
  BY <1>1, <1>2 DEF Walk, Unasked, Step
<1>5. Concluded(a)' /\ Grounded(a)'
  BY <1>1, <1>2 DEF Concluded, Grounded
<1> QED BY <1>2, <1>3, <1>4, <1>5, AppFrame

LEMMA AppBeginKeeps ==
  ASSUME IInv, NEW a \in Apps, AppBegin(a)
  PROVE  IInv' /\ Quiet
<1>1. CASE cancel
  <2>1. /\ Finish(a, "none") /\ UNCHANGED <<control, slots, fetch, mainVars, late>>
        /\ app[a] = "begin"
    BY <1>1 DEF AppBegin, AppAt
  <2>2. Step(a, 0) = "idle" /\ Told(a, 0) = NoAnswer /\ Primary(a) = NoAnswer
    BY <2>1, OwnFacts DEF Walk, Unasked
  <2>3. "none" \in Outcomes BY DEF Outcomes
  <2> QED BY <1>1, <2>1, <2>2, <2>3, AnswerKinds, FinishKeeps
<1>2. CASE ~cancel
  <2>1. /\ BeginFetch(a, 0, "primary") /\ UNCHANGED <<control, slots, mainVars, late>>
        /\ app[a] = "begin"
    BY <1>2 DEF AppBegin, AppAt
  <2> QED BY <2>1, FetchesFinite, BeginFetchKeeps
<1> QED BY <1>1, <1>2

LEMMA AppPrimaryKeeps ==
  ASSUME IInv, NEW a \in Apps, AppPrimary(a)
  PROVE  IInv' /\ Quiet
<1> DEFINE r == Primary(a)
<1>1. /\ app[a] = "primary" /\ market[a] = 0 /\ Step(a, 0) = "done"
      /\ UNCHANGED <<control, slots, fetch, mainVars, late>>
  BY OwnFacts DEF AppPrimary, AppAt, Current, Walk, Step
<1>2. /\ r = Told(a, 0)
      /\ r \in Absence \/ (r = Cancelled /\ cancel) \/ Listing(r)
  BY <1>1, OwnFacts
<1>3. \/ r = Cancelled /\ cancel /\ Finish(a, "none")
      \/ r \in Absence /\ cancel /\ Finish(a, "none")
      \/ Listing(r) /\ Finish(a, "available")
      \/ Listing(r) /\ Turn(a, "lacking", 1)
      \/ r \in Absence /\ Turn(a, "batch", 1)
  BY <1>2, AnswerKinds DEF AppPrimary, Complete
<1>4. {"none", "available"} \subseteq Outcomes BY DEF Outcomes
<1>5. CASE cancel /\ ~IsAvailable(r) /\ Finish(a, "none")
  BY <1>1, <1>4, <1>5, FinishKeeps
<1>6. CASE Listing(r) /\ Finish(a, "available")
  BY <1>1, <1>2, <1>4, <1>6, AnswerKinds, OwnFacts, FinishKeeps
<1>7. /\ 1 \in 0..(M + 1) /\ Unasked(a, {n \in Markets : n >= 1})
      /\ Counted(a, 1)
  <2>1. {n \in Markets : n >= 1} = Others /\ \A n \in Others : ~(n < 1)
    BY OwnFacts
  <2>2. Unasked(a, Others) BY <1>1, OwnFacts DEF Walk
  <2>3. 1 \in 0..(M + 1) BY OwnFacts
  <2> QED BY <2>1, <2>2, <2>3 DEF Counted
<1>8. CASE Listing(r) /\ Turn(a, "lacking", 1)
  BY <1>1, <1>2, <1>7, <1>8, TurnKeeps
<1>9. CASE r \in Absence /\ Turn(a, "batch", 1)
  <2>1. \A n \in Others : ~(n < 1) BY OwnFacts
  <2> QED BY <1>1, <1>2, <1>7, <1>9, <2>1, TurnKeeps
<1> QED BY <1>3, <1>5, <1>6, <1>8, <1>9, AnswerKinds

LEMMA AppRaisesKeeps ==
  ASSUME IInv, NEW a \in Apps, AppRaises(a)
  PROVE  IInv' /\ Quiet
<1>1. /\ app[a] \in {"primary", "completing", "await"} /\ market[a] \in Markets
      /\ Step(a, market[a]) = "raised" /\ Finish(a, "error")
      /\ UNCHANGED <<control, slots, fetch, mainVars, late>>
  BY DEF AppRaises, Current, Step
<1>2. Step(a, 0) \in {"done", "raised"}
  BY <1>1, OwnFacts DEF Walk
<1>3. "error" \in Outcomes BY DEF Outcomes
<1> QED BY <1>1, <1>2, <1>3, FinishKeeps

LEMMA CompletionKeeps ==
  ASSUME IInv, NEW a \in Apps, CompleteNext(a) \/ CompleteAnswer(a)
  PROVE  IInv' /\ Quiet
<1>1. /\ app[a] \in {"lacking", "completing"} /\ UNCHANGED <<control, slots, mainVars, late>>
      /\ Step(a, 0) = "done" /\ Listing(Told(a, 0)) /\ market[a] >= 1
      /\ Unasked(a, {m \in Markets : m > market[a]})
  BY OwnFacts DEF CompleteNext, CompleteAnswer, AppAt, Walk
<1>2. CASE Finish(a, "available") /\ UNCHANGED fetch
  <2>1. "available" \in Outcomes BY DEF Outcomes
  <2> QED BY <1>1, <1>2, <2>1, AnswerKinds, OwnFacts, FinishKeeps
<1>3. CASE CompleteNext(a) /\ BeginFetch(a, market[a], "completing") /\ market[a] \in Others
  <2>1. app[a] = "lacking" /\ market[a] \in Markets
    BY <1>3, OwnFacts DEF CompleteNext, AppAt
  <2> QED BY <1>1, <1>3, <2>1, BeginFetchKeeps
<1>4. CASE CompleteAnswer(a) /\ Turn(a, "lacking", market[a] + 1) /\ UNCHANGED fetch
  <2>1. app[a] = "completing" /\ market[a] \in Others
    BY <1>4, OwnFacts DEF CompleteAnswer, AppAt, Walk
  <2>2. market[a] + 1 \in 0..(M + 1) /\ market[a] + 1 >= 1
    BY <2>1, OwnFacts
  <2>3. {m \in Markets : m >= market[a] + 1} = {m \in Markets : m > market[a]}
    <3>1. \A m \in Markets : m >= market[a] + 1 <=> m > market[a] BY OwnFacts
    <3> QED BY <3>1
  <2> QED BY <1>1, <1>4, <2>1, <2>2, <2>3, TurnKeeps
<1> QED BY <1>2, <1>3, <1>4 DEF CompleteNext, CompleteAnswer

LEMMA QueuedType ==
  ASSUME NEW m \in Markets
  PROVE  LET q == [Begun(m) EXCEPT !.step = "queued"] IN
         /\ q \in FetchStates
         /\ q.step = "queued" /\ q.preferred = NoAnswer /\ q.answer = NoAnswer
<1> DEFINE q == [Begun(m) EXCEPT !.step = "queued"]
<1>1. \E e \in BOOLEAN : q = [[NoFetch EXCEPT !.step = "gate", !.english = e] EXCEPT !.step = "queued"]
  <2>1. CASE m \in English
    <3>1. (m \in English) = TRUE BY <2>1
    <3> QED BY <3>1 DEF Begun
  <2>2. CASE m \notin English
    <3>1. (m \in English) = FALSE BY <2>2
    <3> QED BY <3>1 DEF Begun
  <2> QED BY <2>1, <2>2
<1> QED BY <1>1, NoFetchType DEF FetchStates, FetchSteps

LEMMA BatchSubmitKeeps ==
  ASSUME IInv, NEW a \in Apps, BatchSubmit(a)
  PROVE  IInv' /\ Quiet
<1>1. /\ app[a] = "batch" /\ market[a] \in Others /\ market[a] >= 1
      /\ UNCHANGED <<control, slots, mainVars, late>>
      /\ Step(a, 0) = "done" /\ Told(a, 0) \in Absence /\ Counted(a, market[a])
      /\ Unasked(a, {m \in Markets : m >= market[a]})
  BY OwnFacts DEF BatchSubmit, AppAt, Walk
<1>2. CASE cancel
  <2>1. Finish(a, "none") /\ UNCHANGED fetch BY <1>2 DEF BatchSubmit
  <2>2. "none" \in Outcomes BY DEF Outcomes
  <2> QED BY <1>1, <1>2, <2>1, <2>2, AnswerKinds, OwnFacts, FinishKeeps
<1>3. CASE ~cancel
  <2> DEFINE last == Lesser(market[a] + BatchSize - 1, M)
             q(m) == [Begun(m) EXCEPT !.step = "queued"]
  <2>1. last \in Markets /\ market[a] <= last /\ market[a]..last \subseteq Markets
    BY <1>1, OwnFacts, ConstantsAssumption DEF Lesser
  <2>2. /\ fetch' = [f \in Fetches |-> IF f[1] = a /\ f[2] \in market[a]..last
                                       THEN q(f[2]) ELSE fetch[f]]
        /\ app' = [app EXCEPT ![a] = "await"] /\ batchEnd' = [batchEnd EXCEPT ![a] = last]
        /\ UNCHANGED <<market, checked, failed, outcome>>
    BY <1>3 DEF BatchSubmit
  <2> HIDE DEF last
  <2>3. \A m \in Markets : /\ q(m) \in FetchStates
                           /\ q(m).step = "queued"
                           /\ q(m).preferred = NoAnswer /\ q(m).answer = NoAnswer
    BY QueuedType
  <2> HIDE DEF q
  <2>4. /\ \A m \in Markets : fetch'[<<a, m>>] = IF m \in market[a]..last THEN q(m) ELSE fetch[<<a, m>>]
        /\ \A b \in Apps \ {a}, m \in Markets : fetch'[<<b, m>>] = fetch[<<b, m>>]
    BY <2>2 DEF Fetches
  <2>5. fetch' \in [Fetches -> FetchStates]
    <3>1. \A f \in Fetches : fetch[f] \in FetchStates /\ f[2] \in Markets
      BY OwnFacts DEF Fetches
    <3> QED BY <2>2, <2>3, <3>1
  <2>6. TypeOK /\ app'[a] = "await" /\ batchEnd'[a] = last
    BY <2>2, OwnFacts DEF TypeOK
  <2>7. OwnStep(a)
    BY <1>1, <2>1, <2>2, <2>4, <2>5, <2>6 DEF OwnStep, TypeOK
  <2>8. \A m \in Markets : m \in market[a]..last => Step(a, m) = "idle"
    BY <1>1, OwnFacts DEF Unasked
  <2>9. \A m \in Markets : m \notin market[a]..last =>
          Step(a, m)' = Step(a, m) /\ Told(a, m)' = Told(a, m)
    BY <2>4 DEF Step, Told
  <2>10. Walk(a)'
    <3>1. \A m \in Markets : m < market[a] => m \notin market[a]..last
      BY OwnFacts
    <3>2. Others \subseteq Markets /\ 0 \in Markets /\ 0 < market[a]
      BY <1>1, OwnFacts
    <3>3. Counted(a, market[a])'
      BY <1>1, <2>2, <2>9, <3>1, <3>2 DEF Counted
    <3>4. \A m \in Markets : m > last => Step(a, m)' = "idle"
      <4>1. \A m \in Markets : m > last => m \notin market[a]..last /\ m >= market[a]
        BY <2>1, OwnFacts
      <4>2. \A m \in Markets : m >= market[a] => Step(a, m) = "idle"
        BY <1>1 DEF Unasked
      <4> QED BY <2>9, <4>1, <4>2
    <3>6. Unasked(a, {m \in Markets : m > batchEnd[a]})'
      BY <2>6, <3>4 DEF Unasked
    <3>5. market[a] <= last + 1
      BY <2>1, OwnFacts
    <3> QED BY <1>1, <2>2, <2>6, <2>9, <3>1, <3>2, <3>3, <3>5, <3>6 DEF Walk
  <2>11. Concluded(a)' /\ Grounded(a)'
    <3>1. outcome[a] = "none" BY <1>1, OwnFacts DEF Concluded
    <3> QED BY <2>2, <2>6, <3>1 DEF Concluded, Grounded
  <2>12. \A m \in Markets :
           LET f == <<a, m>> IN
           \/ fetch'[f] = fetch[f]
           \/ /\ fetch[f].step \in Idlers /\ fetch'[f].step \in Idlers
              /\ fetch'[f].preferred = NoAnswer /\ fetch'[f].answer = NoAnswer
    BY <2>3, <2>4, <2>8 DEF Step, Idlers
  <2> QED BY <2>6, <2>7, <2>10, <2>11, <2>12, AppFrame
<1> QED BY <1>2, <1>3

LEMMA BatchDoneKeeps ==
  ASSUME IInv, NEW a \in Apps, BatchDone(a)
  PROVE  IInv' /\ Quiet
<1>1. /\ app[a] = "await" /\ market[a] > batchEnd[a] /\ market[a] >= 1
      /\ market[a] <= batchEnd[a] + 1
      /\ UNCHANGED <<control, slots, fetch, mainVars, late>>
      /\ Step(a, 0) = "done" /\ Told(a, 0) \in Absence /\ Counted(a, market[a])
      /\ Unasked(a, {m \in Markets : m > batchEnd[a]})
  BY OwnFacts DEF BatchDone, AppAt, Walk
<1>2. CASE cancel
  <2>1. Finish(a, "none") BY <1>2 DEF BatchDone
  <2>2. "none" \in Outcomes BY DEF Outcomes
  <2> QED BY <1>1, <1>2, <2>1, <2>2, AnswerKinds, OwnFacts, FinishKeeps
<1>3. CASE ~cancel
  <2>1. Turn(a, "batch", market[a]) BY <1>3 DEF BatchDone
  <2>2. {m \in Markets : m >= market[a]} = {m \in Markets : m > batchEnd[a]}
    <3>1. \A m \in Markets : m >= market[a] <=> m > batchEnd[a]
      BY <1>1, OwnFacts
    <3> QED BY <3>1
  <2>3. \A m \in Others : Told(a, m) # Cancelled
    BY <1>3, OwnFacts, FetchesFinite
  <2> QED BY <1>1, <2>1, <2>2, <2>3, OwnFacts, TurnKeeps
<1> QED BY <1>2, <1>3

LEMMA JudgeKeeps ==
  ASSUME IInv, NEW a \in Apps, Judge(a)
  PROVE  IInv' /\ Quiet
<1>1. /\ app[a] = "batch" /\ market[a] \notin Others /\ market[a] >= 1
      /\ UNCHANGED <<control, slots, fetch, mainVars, late>>
      /\ Step(a, 0) = "done" /\ Told(a, 0) \in Absence /\ Counted(a, market[a])
      /\ \A m \in Others : m < market[a] => Told(a, m) # Cancelled
      /\ Finish(a, Verdict(a))
  BY OwnFacts DEF Judge, AppAt, Walk
<1>2. \A m \in Markets : m = 0 \/ (m \in Others /\ m < market[a])
  BY <1>1, OwnFacts
<1>3. AllDone(a, Markets) /\ \A m \in Markets : Told(a, m) \in Absence
  BY <1>1, <1>2 DEF AllDone, Counted
<1>4. Verdict(a) = "not_found" => \A m \in Markets : Told(a, m) = NotFound
  <2>1. \A m \in Others : Told(a, m) = Failed => m \in failed[a]
    BY <1>1, <1>2, FetchesFinite DEF Counted
  <2> QED BY <1>2, <1>3, <2>1, OwnFacts DEF Verdict, Absence
<1>5. Verdict(a) \in {"not_found", "inconclusive"} /\ Verdict(a) \in Outcomes
  BY DEF Verdict, Outcomes
<1>6. ~IsAvailable(Primary(a))
  BY <1>1, OwnFacts, AnswerKinds
<1> QED BY <1>1, <1>3, <1>4, <1>5, <1>6, FinishKeeps DEF Absence

LEMMA AwaitAnswerKeeps ==
  ASSUME IInv, NEW a \in Apps, AwaitAnswer(a)
  PROVE  IInv' /\ Quiet
<1> DEFINE k == market[a]
           r == Told(a, k)
<1>1. /\ app[a] = "await" /\ k <= batchEnd[a] /\ k >= 1 /\ k \in Markets /\ k \in Others
      /\ UNCHANGED <<control, slots, mainVars, late>>
      /\ Current(a).answer = r /\ Step(a, k) = "done"
      /\ Step(a, 0) = "done" /\ Told(a, 0) \in Absence /\ Counted(a, k)
      /\ Unasked(a, {m \in Markets : m > batchEnd[a]})
      /\ outcome[a] = "none"
  <2>1. /\ app[a] = "await" /\ k <= batchEnd[a] /\ UNCHANGED <<control, slots, mainVars, late>>
        /\ Current(a).answer = r /\ Step(a, k) = "done"
    BY DEF AwaitAnswer, AppAt, Current, Step, Told
  <2>2. /\ k >= 1 /\ Step(a, 0) = "done" /\ Told(a, 0) \in Absence /\ Counted(a, k)
        /\ Unasked(a, {m \in Markets : m > batchEnd[a]})
    BY <2>1, OwnFacts DEF Walk
  <2>3. k \in Markets /\ k \in Others
    BY <2>1, <2>2, OwnFacts
  <2>4. outcome[a] = "none"
    BY <2>1, OwnFacts DEF Concluded
  <2> QED BY <2>1, <2>2, <2>3, <2>4
<1>2. TypeOK /\ fetch \in [Fetches -> FetchStates] /\ Markets \subseteq Nat /\ 0 \in Markets
  BY OwnFacts, FetchesFinite
<1>3. CASE IsAvailable(r)
  <2> DEFINE o == IF Primary(a) = NotFound THEN "other_country" ELSE "available"
             gone == [NoFetch EXCEPT !.step = "revoked"]
  <2>1. /\ Finish(a, o)
        /\ fetch' = [f \in Fetches |-> IF f[1] = a /\ At(f, "queued") THEN gone ELSE fetch[f]]
    BY <1>1, <1>3 DEF AwaitAnswer
  <2>2. /\ gone \in FetchStates
        /\ gone.step = "revoked" /\ gone.preferred = NoAnswer /\ gone.answer = NoAnswer
    BY NoFetchType DEF FetchStates, FetchSteps
  <2> HIDE DEF gone
  <2>3. /\ fetch' \in [Fetches -> FetchStates]
        /\ \A m \in Markets : fetch'[<<a, m>>] = IF Step(a, m) = "queued" THEN gone ELSE fetch[<<a, m>>]
        /\ \A b \in Apps \ {a}, m \in Markets : fetch'[<<b, m>>] = fetch[<<b, m>>]
    BY <1>2, <2>1, <2>2 DEF Fetches, At, Step
  <2>4. o \in Outcomes /\ o \in {"other_country", "available"} BY DEF Outcomes
  <2>5. o = "other_country" => Told(a, 0) = NotFound BY OwnFacts
  <2> HIDE DEF o
  <2>6. /\ app' = [app EXCEPT ![a] = "finished"] /\ outcome' = [outcome EXCEPT ![a] = o]
        /\ app'[a] = "finished" /\ outcome'[a] = o
        /\ UNCHANGED <<market, batchEnd, checked, failed>>
    BY <1>2, <2>1 DEF Finish, TypeOK
  <2>7. OwnStep(a)
    BY <1>1, <1>2, <2>3, <2>4, <2>6 DEF OwnStep, TypeOK
  <2>8. \A m \in Markets : Step(a, m) = "done" => Step(a, m)' = "done" /\ Told(a, m)' = Told(a, m)
    BY <2>3 DEF Step, Told
  <2>9. Walk(a)' /\ Concluded(a)'
    BY <1>1, <1>2, <2>4, <2>6, <2>8 DEF Walk, Concluded
  <2>10. Grounded(a)'
    BY <1>1, <1>2, <1>3, <2>4, <2>5, <2>6, <2>8 DEF Grounded
  <2>11. ~IsAvailable(Primary(a)')
    <3>1. Primary(a)' = Told(a, 0)' BY DEF Primary, Told
    <3> QED BY <1>1, <1>2, <2>8, <3>1, AnswerKinds
  <2>12. \A m \in Markets :
           LET f == <<a, m>> IN
           \/ fetch'[f] = fetch[f]
           \/ /\ fetch[f].step \in Idlers /\ fetch'[f].step \in Idlers
              /\ fetch'[f].preferred = NoAnswer /\ fetch'[f].answer = NoAnswer
    BY <2>2, <2>3 DEF Step, Idlers
  <2> QED BY <2>7, <2>9, <2>10, <2>11, <2>12, AppFrame
<1>4. CASE ~IsAvailable(r)
  <2>1. /\ market' = [market EXCEPT ![a] = k + 1]
        /\ failed' = [failed EXCEPT ![a] = IF r = Failed THEN @ \cup {k} ELSE @]
        /\ checked' = [checked EXCEPT ![a] = IF r = Cancelled THEN @ ELSE @ \cup {k}]
        /\ UNCHANGED <<app, batchEnd, outcome, fetch>>
    BY <1>1, <1>4 DEF AwaitAnswer
  <2>2. r \in Absence \cup {Cancelled}
    BY <1>1, <1>4, OwnFacts DEF Listing
  <2>3. /\ market'[a] = k + 1 /\ k + 1 \in 0..(M + 1)
        /\ failed[a] \subseteq failed'[a] /\ (r = Failed => k \in failed'[a])
        /\ failed' \in [Apps -> SUBSET Others] /\ checked' \in [Apps -> SUBSET Others]
    BY <1>1, <1>2, <2>1, OwnFacts DEF TypeOK
  <2>4. OwnStep(a)
    BY <1>1, <1>2, <2>1, <2>3 DEF OwnStep, TypeOK
  <2>5. \A m \in Markets : Step(a, m)' = Step(a, m) /\ Told(a, m)' = Told(a, m)
    BY <2>1 DEF Step, Told
  <2>6. Counted(a, market[a])'
    <3>1. \A m \in Others : m < k + 1 => m < k \/ m = k
      BY <1>2, OwnFacts
    <3>2. Others \subseteq Markets BY FetchesFinite
    <3>3. \A m \in Others : m < k + 1 =>
            /\ Step(a, m) = "done" /\ Told(a, m) \in Absence \cup {Cancelled}
            /\ Told(a, m) = Failed => m \in failed'[a]
      BY <1>1, <2>2, <2>3, <3>1 DEF Counted
    <3> QED BY <2>3, <2>5, <3>2, <3>3 DEF Counted
  <2>7. Walk(a)'
    <3>1. market'[a] >= 1 /\ market'[a] <= batchEnd'[a] + 1 BY <1>1, <2>1, <2>3, OwnFacts
    <3>2. Unasked(a, {m \in Markets : m > batchEnd[a]})' BY <1>1, <2>1, <2>5 DEF Unasked
    <3>3. Step(a, 0)' = "done" /\ Told(a, 0)' \in Absence /\ app'[a] = "await"
      BY <1>1, <1>2, <2>1, <2>5
    <3> QED BY <2>6, <3>1, <3>2, <3>3 DEF Walk
  <2>8. Concluded(a)' /\ Grounded(a)'
    BY <1>1, <2>1 DEF Concluded, Grounded
  <2> QED BY <1>1, <2>1, <2>4, <2>7, <2>8, AppFrame
<1> QED BY <1>3, <1>4

LEMMA AppStepKeeps ==
  ASSUME IInv, NEW a \in Apps, AppStep(a)
  PROVE  IInv' /\ Quiet
BY AppStartKeeps, AppBeginKeeps, AppPrimaryKeeps, AppRaisesKeeps, CompletionKeeps,
   BatchSubmitKeeps, AwaitAnswerKeeps, BatchDoneKeeps, JudgeKeeps
DEF AppStep

-----------------------------------------------------------------------------
(* Steps of the main thread. *)

LEMMA LeastIsMember ==
  ASSUME NEW S \in SUBSET Apps, S # {}
  PROVE  Least(S) \in S
<1> DEFINE R == {ss \in Nat \X Nat : ss[1] < ss[2]}
<1>1. IsWellFoundedOn(R, Nat)
  BY NatLessThanWellFounded DEF OpToRel
<1>2. S \subseteq Nat
  BY FetchesFinite
<1>3. PICK x \in S : \A y \in S : ~(<<y, x>> \in R)
  <2> HIDE DEF R
  <2> QED BY <1>1, <1>2, WFMin
<1>4. \A y \in S : x <= y
  <2> SUFFICES ASSUME NEW y \in S PROVE x <= y
    OBVIOUS
  <2>1. x \in Nat /\ y \in Nat BY <1>2
  <2>2. ~(y < x) BY <1>3, <2>1
  <2> HIDE DEF R
  <2> QED BY <2>1, <2>2
<1> HIDE DEF R
<1> QED BY <1>4 DEF Least

(* A step that leaves fetches, slots and outcomes alone. *)
LEMMA MainFrame ==
  ASSUME IInv, UNCHANGED <<control, slots, fetch, market, batchEnd, checked, failed, outcome, late>>,
         app' \in [Apps -> {"new", "queued", "revoked", "begin", "primary", "lacking",
                            "completing", "batch", "await", "finished", "reported"}],
         main' \in {"fill", "wait", "report", "ended"},
         snapshot' \subseteq Apps, row' \in [Apps -> Outcomes],
         \A a \in Apps : \/ app'[a] = app[a] /\ row'[a] = row[a]
                         \/ /\ Walk(a)' /\ Concluded(a)' /\ Reported(a)'
                            /\ app'[a] \in {"finished", "reported"} => app[a] = "finished" \/ ~IsAvailable(Primary(a)),
         MainSound'
  PROVE  IInv'
<1>1. /\ TypeOK' /\ SlotsConserved' /\ LateBound' /\ FetchesSound'
      /\ UNCHANGED <<cancel, fetch, market, batchEnd, failed, outcome>>
  BY DEF IInv, TypeOK, SlotsConserved, Holding, Requests, LateBound, FetchesSound, SoundFetch, control
<1>2. ASSUME NEW a \in Apps PROVE Walk(a)' /\ Concluded(a)' /\ Reported(a)' /\ Grounded(a)'
  <2>1. Walk(a) /\ Concluded(a) /\ Reported(a) /\ Grounded(a)
    BY DEF IInv, Threads, VerdictSound
  <2>2. /\ \A m \in Markets : Step(a, m)' = Step(a, m) /\ Told(a, m)' = Told(a, m)
        /\ Others \subseteq Markets /\ 0 \in Markets
    BY <1>1, FetchesFinite DEF Step, Told
  <2>3. Grounded(a)'
    BY <1>1, <2>1, <2>2 DEF Grounded
  <2>4. CASE app'[a] = app[a] /\ row'[a] = row[a]
    <3>1. Walk(a)' BY <1>1, <2>1, <2>4 DEF Walk, Unasked, Counted, Step, Told
    <3>2. Concluded(a)' /\ Reported(a)'
      BY <1>1, <2>1, <2>2, <2>4 DEF Concluded, AllDone, Reported
    <3> QED BY <2>3, <3>1, <3>2
  <2> QED BY <2>3, <2>4
<1>3. PrimaryKept'
  BY <1>1 DEF IInv, PrimaryKept, Primary
<1> QED BY <1>1, <1>2, <1>3 DEF IInv, Threads, VerdictSound

LEMMA FillKeeps == IInv /\ Fill => IInv'
<1> SUFFICES ASSUME IInv, Fill PROVE IInv'
  OBVIOUS
<1>1. PICK a \in Apps : a = Least(Unstarted) /\ app[a] = "new"
  <2>1. Unstarted \in SUBSET Apps /\ Unstarted # {} BY DEF Fill, MayFill, Unstarted
  <2> QED BY <2>1, LeastIsMember DEF Unstarted
<1>2. TypeOK BY DEF IInv
<1>3. /\ app' = [app EXCEPT ![a] = "queued"] /\ main = "fill"
      /\ UNCHANGED <<control, slots, fetch, market, batchEnd, checked, failed, outcome, late>>
      /\ UNCHANGED <<main, snapshot, row>> /\ UNCHANGED <<cancel, fetch, outcome, market, row>>
  BY <1>1 DEF Fill, mainVars, control
<1>4. app'[a] = "queued" /\ \A b \in Apps \ {a} : app'[b] = app[b]
  BY <1>1, <1>2, <1>3 DEF TypeOK
<1>5. Walk(a)' /\ Concluded(a)' /\ Reported(a)'
  <2>1. Walk(a) /\ Concluded(a) /\ Reported(a) BY <1>1 DEF IInv, Threads
  <2>2. Walk(a)' BY <1>1, <1>3, <1>4, <2>1 DEF Walk, Unasked, Step
  <2>3. Concluded(a)' /\ Reported(a)' BY <1>1, <1>3, <1>4, <2>1 DEF Concluded, Reported
  <2> QED BY <2>2, <2>3
<1>6. MainSound'
  BY <1>3 DEF MainSound
<1> QED BY <1>1, <1>2, <1>3, <1>4, <1>5, <1>6, MainFrame DEF TypeOK

LEMMA FillDoneKeeps == IInv /\ FillDone => IInv'
<1> SUFFICES ASSUME IInv, FillDone PROVE IInv'
  OBVIOUS
<1>1. /\ main' = "wait" /\ ~MayFill
      /\ UNCHANGED <<control, slots, fetch, market, batchEnd, checked, failed, outcome, late>>
      /\ UNCHANGED <<app, snapshot, row>> /\ cancel' = cancel
  BY DEF FillDone, appVars, control
<1>2. Pending # {} \/ Unstarted = {} \/ cancel
  <2>1. Cardinality({}) = 0 /\ Workers \in Nat \ {0} BY FS_EmptySet, ConstantsAssumption
  <2> QED BY <1>1, <2>1 DEF MayFill
<1>3. MainSound'
  BY <1>1, <1>2 DEF MainSound, Pending, Unstarted
<1> QED BY <1>1, <1>3, MainFrame DEF IInv, TypeOK

LEMMA WaitReturnsKeeps == IInv /\ WaitReturns => IInv'
<1> SUFFICES ASSUME IInv, WaitReturns PROVE IInv'
  OBVIOUS
<1>1. /\ main' = "report" /\ snapshot' = Completed
      /\ UNCHANGED <<control, slots, fetch, market, batchEnd, checked, failed, outcome, late>>
      /\ UNCHANGED <<app, row>>
  BY DEF WaitReturns, appVars
<1>2. Completed \subseteq Apps /\ MainSound'
  BY <1>1 DEF MainSound, Completed, Pending
<1> QED BY <1>1, <1>2, MainFrame DEF IInv, TypeOK

LEMMA ReportKeeps == IInv /\ Report => IInv'
<1> SUFFICES ASSUME IInv, Report PROVE IInv'
  OBVIOUS
<1>1. TypeOK /\ snapshot \subseteq Apps
  BY DEF IInv, TypeOK
<1>2. PICK a \in Apps :
        a = Least(snapshot) /\ a \in snapshot /\ app[a] \in {"finished", "revoked"}
  BY <1>1, LeastIsMember DEF Report, IInv, MainSound
<1>3. /\ app' = [app EXCEPT ![a] = "reported"] /\ row' = [row EXCEPT ![a] = RowOf(a)]
      /\ snapshot' = snapshot \ {a} /\ main = "report" /\ main' = main
      /\ UNCHANGED <<control, slots, fetch, market, batchEnd, checked, failed, outcome, late>>
      /\ UNCHANGED <<cancel, fetch, outcome, market>>
  BY <1>2 DEF Report, control
<1>4. /\ app'[a] = "reported" /\ row'[a] = RowOf(a)
      /\ \A b \in Apps \ {a} : app'[b] = app[b] /\ row'[b] = row[b]
  BY <1>1, <1>2, <1>3 DEF TypeOK
<1>5. Walk(a) /\ Concluded(a) /\ Reported(a)
  BY <1>2 DEF IInv, Threads
<1>6. Walk(a)'
  BY <1>2, <1>3, <1>4, <1>5, FetchesFinite DEF Walk, Unasked, Step
<1>7. Concluded(a)'
  BY <1>2, <1>3, <1>4, <1>5 DEF Concluded, AllDone, Step
<1>8. Reported(a)'
  BY <1>2, <1>3, <1>4, <1>5 DEF Concluded, Reported, RowOf
<1>9. app[a] = "finished" \/ ~IsAvailable(Primary(a))
  BY <1>2, <1>5, OwnFacts, AnswerKinds DEF Walk, Unasked
<1>10. MainSound'
  BY <1>2, <1>3, <1>4 DEF IInv, MainSound, TypeOK
<1>11. RowOf(a) \in Outcomes
  BY <1>1, <1>2 DEF RowOf, TypeOK, Outcomes
<1> QED BY <1>1, <1>2, <1>3, <1>4, <1>6, <1>7, <1>8, <1>9, <1>10, <1>11, MainFrame DEF TypeOK

LEMMA ReportDoneKeeps == IInv /\ ReportDone => IInv'
<1> SUFFICES ASSUME IInv, ReportDone PROVE IInv'
  OBVIOUS
<1>1. TypeOK BY DEF IInv
<1>2. /\ UNCHANGED <<control, slots, fetch, market, batchEnd, checked, failed, outcome, late>>
      /\ UNCHANGED <<cancel, fetch, outcome, market, snapshot, row>>
  BY DEF ReportDone, control
<1>3. CASE cancel
  <2>1. /\ app' = [a \in Apps |-> IF app[a] = "queued" THEN "revoked" ELSE app[a]]
        /\ main' = "wait"
    BY <1>3 DEF ReportDone, AppAt
  <2>2. ASSUME NEW a \in Apps, app[a] = "queued" PROVE Walk(a)' /\ Concluded(a)' /\ Reported(a)'
    <3>1. Walk(a) /\ Concluded(a) /\ Reported(a) BY DEF IInv, Threads
    <3>2. app'[a] = "revoked" BY <2>1, <2>2
    <3>3. Walk(a)' BY <1>2, <2>2, <3>1, <3>2 DEF Walk, Unasked, Step
    <3>4. Concluded(a)' BY <1>2, <1>3, <2>2, <3>1, <3>2 DEF Concluded
    <3>5. Reported(a)' BY <1>2, <1>3, <2>2, <3>1, <3>2 DEF Reported
    <3> QED BY <3>3, <3>4, <3>5
  <2>3. MainSound' BY <1>2, <1>3, <2>1 DEF MainSound
  <2>4. \A a \in Apps : \/ app'[a] = app[a] /\ row'[a] = row[a]
                        \/ /\ Walk(a)' /\ Concluded(a)' /\ Reported(a)'
                           /\ app'[a] \notin {"finished", "reported"}
    BY <1>2, <2>1, <2>2
  <2> QED BY <1>1, <1>2, <2>1, <2>3, <2>4, MainFrame DEF TypeOK
<1>4. CASE ~cancel
  <2>1. main' = "fill" /\ app' = app BY <1>4 DEF ReportDone
  <2>2. MainSound' BY <2>1 DEF MainSound
  <2> QED BY <1>1, <1>2, <2>1, <2>2, MainFrame DEF TypeOK
<1> QED BY <1>3, <1>4

LEMMA EndKeeps == IInv /\ End => IInv'
<1> SUFFICES ASSUME IInv, End PROVE IInv'
  OBVIOUS
<1>1. /\ main' = "ended" /\ Pending = {} /\ main = "wait"
      /\ \A f \in Fetches : fetch[f].step \in {"idle", "done", "raised", "revoked"}
      /\ UNCHANGED <<control, slots, fetch, market, batchEnd, checked, failed, outcome, late>>
      /\ UNCHANGED <<app, snapshot, row, cancel, fetch>>
  BY DEF End, appVars, control
<1>2. MainSound'
  BY <1>1 DEF IInv, MainSound, Pending, Unstarted
<1> QED BY <1>1, <1>2, MainFrame DEF IInv, TypeOK

LEMMA MainStepKeeps == IInv /\ MainStep => IInv'
BY FillKeeps, FillDoneKeeps, WaitReturnsKeeps, ReportKeeps, ReportDoneKeeps, EndKeeps DEF MainStep

-----------------------------------------------------------------------------
(* The user, and the invariant of a whole audit. *)

LEMMA UserKeeps == IInv /\ (Pause \/ Resume \/ Stop) => IInv'
<1> SUFFICES ASSUME IInv, Pause \/ Resume \/ Stop PROVE IInv'
  OBVIOUS
<1>1. /\ UNCHANGED <<slots, fetch, appVars, mainVars, late>> /\ main # "ended"
      /\ cancel => cancel'
      /\ paused' \in BOOLEAN /\ cancel' \in BOOLEAN /\ pauses' \in 0..MaxPauses
  <2>1. paused \in BOOLEAN /\ cancel \in BOOLEAN /\ pauses \in 0..MaxPauses /\ MaxPauses \in Nat
    BY ConstantsAssumption DEF IInv, TypeOK
  <2>2. CASE Pause
    <3>1. paused' = TRUE /\ cancel' = cancel /\ pauses' = pauses + 1 /\ pauses < MaxPauses
          /\ UNCHANGED <<slots, fetch, appVars, mainVars, late>> /\ main # "ended"
      BY <2>2 DEF Pause
    <3>2. pauses' \in 0..MaxPauses BY <2>1, <3>1
    <3> QED BY <2>1, <3>1, <3>2, Zenon
  <2>3. CASE Resume BY <2>1, <2>3, Zenon DEF Resume
  <2>4. CASE Stop BY <2>1, <2>4, Zenon DEF Stop
  <2> QED BY <2>2, <2>3, <2>4
<1>2. /\ UNCHANGED <<app, market, batchEnd, checked, failed, outcome, main, snapshot, row>>
      /\ Holding' = Holding /\ Requests' = Requests
  BY <1>1 DEF appVars, mainVars, Holding, Requests
<1>3. TypeOK' /\ SlotsConserved' /\ FetchesSound'
  BY <1>1, <1>2 DEF IInv, TypeOK, SlotsConserved, FetchesSound, SoundFetch
<1>4. LateBound'
  <2>1. CASE cancel' = cancel BY <1>1, <1>2, <2>1 DEF IInv, LateBound
  <2>2. CASE cancel' # cancel
    <3>1. ~cancel /\ cancel' BY <1>1, <2>2 DEF IInv, TypeOK
    <3>2. late = 0 BY <3>1 DEF IInv, LateBound
    <3>3. Cardinality(Requests) <= Workers BY DEF IInv, SlotsConserved
    <3>4. Cardinality(Requests) \in Nat BY HoldingFacts
    <3> QED BY <1>1, <1>2, <3>1, <3>2, <3>3, <3>4 DEF LateBound
  <2> QED BY <2>1, <2>2
<1>5. ASSUME NEW a \in Apps PROVE Walk(a)' /\ Concluded(a)' /\ Reported(a)' /\ Grounded(a)'
  <2>1. Walk(a) /\ Concluded(a) /\ Reported(a) /\ Grounded(a)
    BY DEF IInv, Threads, VerdictSound
  <2>2. Walk(a)' BY <1>1, <1>2, <2>1 DEF Walk, Unasked, Counted, Step, Told
  <2>3. Concluded(a)' /\ Reported(a)'
    BY <1>1, <1>2, <2>1 DEF Concluded, AllDone, Step, Reported
  <2>4. Grounded(a)' BY <1>1, <1>2, <2>1 DEF Grounded, Told
  <2> QED BY <2>2, <2>3, <2>4
<1>6. PrimaryKept' BY <1>1, <1>2 DEF IInv, PrimaryKept, Primary
<1>7. MainSound' BY <1>1, <1>2 DEF IInv, MainSound, Pending, Unstarted
<1> QED BY <1>3, <1>4, <1>5, <1>6, <1>7 DEF IInv, Threads, VerdictSound

LEMMA StutterKeeps == IInv /\ UNCHANGED vars => IInv'
<1> SUFFICES ASSUME IInv, UNCHANGED vars PROVE IInv'
  OBVIOUS
<1>1. /\ UNCHANGED <<control, slots, fetch, market, batchEnd, checked, failed, outcome, late>>
      /\ UNCHANGED <<app, main, snapshot, row, cancel>>
  BY DEF vars, appVars, mainVars, control
<1>2. MainSound' BY <1>1 DEF IInv, MainSound, Pending, Unstarted
<1> QED BY <1>1, <1>2, MainFrame DEF IInv, TypeOK

LEMMA InitIInv == Init => IInv
<1> SUFFICES ASSUME Init PROVE IInv
  OBVIOUS
<1>1. /\ \A f \in Fetches : fetch[f] = NoFetch
      /\ \A a \in Apps : /\ app[a] = "new" /\ market[a] = 0 /\ outcome[a] = "none"
                         /\ row[a] = "none"
  BY DEF Init
<1>2. TypeOK
  <2>1. fetch \in [Fetches -> FetchStates] BY NoFetchType DEF Init
  <2>2. /\ pauses \in 0..MaxPauses /\ slots \in 0..Workers /\ late \in Nat
        /\ 0 \in 0..(M + 1) /\ 0 \in Markets /\ "none" \in Outcomes
    BY FetchesFinite, ConstantsAssumption DEF Init, Outcomes
  <2>3. paused \in BOOLEAN /\ cancel \in BOOLEAN BY DEF Init
  <2>4. /\ app \in [Apps -> {"new"}] /\ outcome \in [Apps -> Outcomes] /\ row \in [Apps -> Outcomes]
        /\ market \in [Apps -> 0..(M + 1)] /\ batchEnd \in [Apps -> Markets]
        /\ checked \in [Apps -> SUBSET Others] /\ failed \in [Apps -> SUBSET Others]
        /\ main = "fill" /\ snapshot = {}
    BY <2>2 DEF Init
  <2> QED BY <2>1, <2>2, <2>3, <2>4 DEF TypeOK, FetchStates
<1>3. SlotsConserved /\ LateBound
  <2>1. Holding = {} /\ Requests = {} BY <1>1, NoFetchType DEF Holding, Requests
  <2>2. Cardinality({}) = 0 BY FS_EmptySet
  <2> QED BY <2>1, <2>2, ConstantsAssumption DEF SlotsConserved, LateBound, Init
<1>4. FetchesSound
  BY <1>1, NoFetchType, AnswerIsReply DEF FetchesSound, SoundFetch
<1>5. Threads
  <2> SUFFICES ASSUME NEW a \in Apps PROVE Walk(a) /\ Concluded(a) /\ Reported(a)
    BY DEF Threads
  <2>1. \A m \in Markets : Step(a, m) = "idle" BY <1>1, NoFetchType DEF Step, Fetches
  <2> QED BY <1>1, <2>1 DEF Walk, Unasked, Concluded, Reported
<1>6. VerdictSound /\ PrimaryKept /\ MainSound
  BY <1>1 DEF VerdictSound, Grounded, PrimaryKept, MainSound, Init
<1> QED BY <1>2, <1>3, <1>4, <1>5, <1>6 DEF IInv

LEMMA Inductive == Spec => []IInv
<1>1. IInv /\ [Next]_vars => IInv'
  <2> SUFFICES ASSUME IInv, [Next]_vars PROVE IInv'
    OBVIOUS
  <2>1. CASE UNCHANGED vars BY <2>1, StutterKeeps
  <2>2. CASE \E f \in Fetches : FetchStep(f) \/ FallbackStart(f)
    BY <2>2, FetchStepKeeps, FallbackStartKeeps
  <2>3. CASE \E a \in Apps : AppStep(a) BY <2>3, AppStepKeeps
  <2>4. CASE MainStep BY <2>4, MainStepKeeps
  <2>5. CASE Pause \/ Resume \/ Stop BY <2>5, UserKeeps
  <2> QED BY <2>1, <2>2, <2>3, <2>4, <2>5 DEF Next, Ended
<1> QED BY <1>1, InitIInv, PTL DEF Spec

-----------------------------------------------------------------------------
(***************************************************************************)
(* Slots, verdicts and rows: request slots are neither leaked nor invented *)
(* on any path that gives one back, every verdict rests on the answers it  *)
(* claims, Stop erases no listing that was seen, and every app has its row *)
(* at the end unless Stop left it out.                                     *)
(***************************************************************************)
THEOREM AuditIsSound == Spec => []AuditInv
<1>1. IInv => RowsAccounted
  <2> SUFFICES ASSUME IInv, main = "ended", NEW a \in Apps
               PROVE  /\ outcome[a] \notin {"none", "error"} => row[a] = outcome[a]
                      /\ ~cancel => row[a] # "none"
    BY DEF RowsAccounted
  <2>1. app[a] \in {"new", "reported"} /\ (app[a] = "new" => cancel)
    BY DEF IInv, MainSound, Pending, Unstarted
  <2> QED BY <2>1 DEF IInv, Threads, Concluded, Reported
<1>2. IInv => AuditInv
  BY <1>1 DEF IInv, AuditInv
<1> QED BY <1>2, Inductive, PTL

(***************************************************************************)
(* After Stop only the requests in flight answer, at most one per worker:  *)
(* no package, retry, country or language request is started.              *)
(***************************************************************************)
THEOREM StopIsHonoured == Spec => []StopBoundsRequests
<1>1. IInv => StopBoundsRequests
  <2> SUFFICES ASSUME IInv PROVE late <= Workers
    BY DEF StopBoundsRequests
  <2>1. Cardinality(Requests) \in Nat /\ late \in Nat /\ Workers \in Nat
    BY HoldingFacts, ConstantsAssumption DEF IInv, TypeOK
  <2> QED BY <2>1 DEF IInv, LateBound
<1> QED BY <1>1, Inductive, PTL

(***************************************************************************)
(* While the audit is paused no market is asked anew, not even by a thread *)
(* that was waiting for a slot.                                            *)
(***************************************************************************)
THEOREM PauseIsHonoured == Spec => PauseAdmitsNoFetch
<1> USE DEF PauseKeepsOut
<1>1. ASSUME IInv, NEW f \in Fetches, FetchStep(f) PROVE PauseKeepsOut
  <2>1. PICK t : Moves(f, t)
    BY <1>1, FetchStepMoves DEF IInv
  <2>2. \A g \in Fetches : fetch'[g] = IF g = f THEN t ELSE fetch[g]
    BY <1>1, <2>1 DEF Moves, Becomes, IInv, TypeOK
  <2> QED BY <2>1, <2>2 DEF Moves, PauseRespected, Fetching, FetchingSteps
<1>2. ASSUME IInv, NEW f \in Fetches, FallbackStart(f) PROVE PauseKeepsOut
  <2>1. fetch' = [fetch EXCEPT ![f].step = "gate"]
    BY <1>2 DEF FallbackStart, Goto
  <2>2. \A g \in Fetches : g # f => fetch'[g] = fetch[g]
    BY <1>2, <2>1 DEF IInv, TypeOK
  <2>3. fetch'[f].step = "gate"
    BY <1>2, <2>1 DEF IInv, TypeOK
  <2> QED BY <2>2, <2>3 DEF Fetching
<1>3. ASSUME IInv, NEW a \in Apps, AppStep(a) PROVE PauseKeepsOut
  <2>1. Quiet BY <1>3, AppStepKeeps
  <2> QED BY <2>1 DEF Quiet, Idlers, Fetching
<1>4. ASSUME fetch' = fetch PROVE PauseKeepsOut
  BY <1>4 DEF Fetching
<1>5. ASSUME MainStep \/ Pause \/ Resume \/ Stop \/ UNCHANGED vars PROVE fetch' = fetch
  BY <1>5 DEF MainStep, Fill, FillDone, WaitReturns, Report, ReportDone, End, Pause, Resume, Stop, vars
<1>6. IInv /\ [Next]_vars => [PauseKeepsOut]_vars
  <2> HIDE DEF PauseKeepsOut
  <2> QED BY <1>1, <1>2, <1>3, <1>4, <1>5 DEF Next, Ended
<1> QED BY <1>6, Inductive, PTL DEF Spec, PauseAdmitsNoFetch

-----------------------------------------------------------------------------
(***************************************************************************)
(* The audit implements its promise: an answer that is not one of Stop is  *)
(* learnt, a reported row is a conclusion, and all else stutters.          *)
(***************************************************************************)
ToldBy(t) == IF t.answer = Cancelled THEN "none" ELSE t.answer.status
AllTold   == [f \in Fetches |-> IF fetch[f].answer = Cancelled THEN "none"
                                                            ELSE fetch[f].answer.status]

LEMMA StatusFacts ==
  /\ \A r : r = NotFound => r.status = "not_found"
  /\ \A r : r = Failed => r.status = "failed"
  /\ \A r : r = Cancelled => r.status = "cancelled"
  /\ \A r : r = NoAnswer => r.status = "none"
  /\ \A r : Listing(r) => r.status = "available"
BY DEF NotFound, Failed, Cancelled, NoAnswer, Answer, Listing, IsAvailable

LEMMA ToldFacts ==
  ASSUME IInv, NEW f \in Fetches
  PROVE  LET r == fetch[f].answer IN
         /\ r = NoAnswer \/ r \in Absence \cup {Cancelled} \/ Listing(r)
         /\ AllTold[f] = ToldBy(fetch[f])
         /\ AllTold[f] = "available" <=> IsAvailable(r)
         /\ AllTold[f] = "not_found" <=> r = NotFound
         /\ AllTold[f] = "failed" <=> r = Failed
         /\ r = NoAnswer => AllTold[f] = "none"
<1> DEFINE r == fetch[f].answer
<1>1. r = NoAnswer \/ r \in {NotFound, Failed, Cancelled} \/ Listing(r)
  BY DEF IInv, FetchesSound, SoundFetch, Absence
<1>2. AllTold[f] = IF r = Cancelled THEN "none" ELSE r.status
  BY DEF AllTold
<1>3. AllTold[f] = ToldBy(fetch[f])
  BY <1>2 DEF ToldBy
<1> HIDE DEF r
<1>4. /\ AllTold[f] = "available" <=> r.status = "available"
      /\ AllTold[f] = "not_found" <=> r = NotFound
      /\ AllTold[f] = "failed" <=> r = Failed
      /\ r = NoAnswer => AllTold[f] = "none"
  BY <1>1, <1>2, StatusFacts
<1> QED BY <1>1, <1>3, <1>4 DEF r, IsAvailable, Absence

LEMMA PromiseStutter ==
  ASSUME AllTold' = AllTold, row' = row, cancel' = cancel, main # "ended", main' # "ended"
  PROVE  UNCHANGED Promise!vars
BY DEF Promise!vars, AllTold

LEMMA PromiseLearn ==
  ASSUME NEW f \in Fetches, NEW s \in {"available", "not_found", "failed"},
         AllTold[f] = "none", AllTold' = [AllTold EXCEPT ![f] = s],
         row' = row, cancel' = cancel, main # "ended", main' # "ended"
  PROVE  Promise!Next
<1>1. Promise!Learn(f, s)
  BY DEF Promise!Learn, AllTold
<1> QED BY <1>1 DEF Promise!Next, Fetches

(* A fetch step: its answer is learnt once it has one. *)
LEMMA FetchImplements ==
  ASSUME IInv, NEW f \in Fetches, FetchStep(f)
  PROVE  Promise!Next \/ UNCHANGED Promise!vars
<1>1. PICK t : Moves(f, t) /\ UNCHANGED <<control, appVars, mainVars>>
  BY FetchStepMoves DEF IInv
<1>2. /\ fetch' = [fetch EXCEPT ![f] = t] /\ SoundFetch(t)
      /\ fetch[f].step \in InFlight
      /\ row' = row /\ cancel' = cancel /\ main' = main
  BY <1>1 DEF Moves, Becomes, control, mainVars
<1>3. fetch[f].answer = NoAnswer /\ main # "ended"
  BY <1>2 DEF IInv, FetchesSound, SoundFetch, MainSound, InFlight, HoldingSteps
<1>4. AllTold[f] = "none"
  BY <1>3, ToldFacts
<1>5. AllTold' = [AllTold EXCEPT ![f] = ToldBy(t)]
  <2>1. \A g \in Fetches : fetch'[g] = IF g = f THEN t ELSE fetch[g]
    BY <1>2 DEF IInv, TypeOK
  <2> QED BY <2>1 DEF AllTold, ToldBy
<1>6. t.answer \in {NoAnswer, NotFound, Failed, Cancelled} \/ Listing(t.answer)
  BY <1>2 DEF SoundFetch, Absence
<1>7. CASE t.answer \in {NoAnswer, Cancelled}
  <2>1. ToldBy(t) = "none" BY <1>7, StatusFacts DEF ToldBy
  <2>2. AllTold' = AllTold BY <1>4, <1>5, <2>1 DEF AllTold
  <2> QED BY <1>2, <1>3, <2>2, PromiseStutter
<1>8. CASE t.answer \notin {NoAnswer, Cancelled}
  <2>1. ToldBy(t) \in {"available", "not_found", "failed"}
    BY <1>6, <1>8, StatusFacts DEF ToldBy
  <2> QED BY <1>2, <1>3, <1>4, <1>5, <2>1, PromiseLearn
<1> QED BY <1>7, <1>8

(* An app's step, or the start of a fallback thread, tells nothing new. *)
LEMMA QuietImplements ==
  ASSUME IInv, main # "ended", UNCHANGED <<cancel, main, row>>,
         \A f \in Fetches : fetch'[f] = fetch[f] \/ (fetch'[f].answer = NoAnswer /\ fetch[f].answer = NoAnswer)
  PROVE  UNCHANGED Promise!vars
<1>1. AllTold' = AllTold
  BY DEF AllTold
<1> QED BY <1>1, PromiseStutter

LEMMA AppImplements ==
  ASSUME IInv, NEW a \in Apps, AppStep(a)
  PROVE  UNCHANGED Promise!vars
<1>1. UNCHANGED <<cancel, main, row>>
  BY DEF AppStep, AppStart, AppBegin, AppPrimary, AppRaises, CompleteNext, CompleteAnswer,
     BatchSubmit, AwaitAnswer, BatchDone, Judge, control, mainVars
<1>2. app[a] \notin {"new", "reported"}
  BY DEF AppStep, AppStart, AppBegin, AppPrimary, AppRaises, CompleteNext, CompleteAnswer,
     BatchSubmit, AwaitAnswer, BatchDone, Judge, AppAt
<1>3. main # "ended"
  BY <1>2 DEF IInv, MainSound, Pending
<1>4. \A f \in Fetches : fetch'[f] = fetch[f] \/ (fetch'[f].answer = NoAnswer /\ fetch[f].answer = NoAnswer)
  <2>1. Quiet BY AppStepKeeps
  <2> QED BY <2>1 DEF Quiet, Idlers, IInv, FetchesSound, SoundFetch
<1> QED BY <1>1, <1>3, <1>4, QuietImplements

LEMMA FallbackImplements ==
  ASSUME IInv, NEW f \in Fetches, FallbackStart(f)
  PROVE  UNCHANGED Promise!vars
<1>1. /\ fetch' = [fetch EXCEPT ![f].step = "gate"] /\ fetch[f].step = "queued"
      /\ UNCHANGED <<cancel, main, row>>
  BY DEF FallbackStart, Goto, At, control, mainVars
<1>2. fetch \in [Fetches -> FetchStates]
  BY DEF IInv, TypeOK, FetchStates
<1>3. \A g \in Fetches : fetch'[g].answer = fetch[g].answer
  BY <1>1, <1>2 DEF FetchStates
<1>4. AllTold' = AllTold
  BY <1>3 DEF AllTold
<1>5. main # "ended"
  BY <1>1 DEF IInv, MainSound
<1> QED BY <1>1, <1>4, <1>5, PromiseStutter

(* A row is justified by the answers that have arrived. *)
LEMMA RowIsJustified ==
  ASSUME IInv, NEW a \in Apps, app[a] \in {"finished", "revoked"}, RowOf(a) # "none"
  PROVE  Promise!Justified(a, RowOf(a))
<1>1. /\ Grounded(a) /\ Concluded(a) /\ RowOf(a) = outcome[a] /\ outcome[a] \in Outcomes
      /\ Others \subseteq Markets /\ 0 \in Markets /\ \A m \in Markets : <<a, m>> \in Fetches
  BY OwnFacts, FetchesFinite DEF RowOf, TypeOK
<1>2. \A m \in Markets :
        LET r == Told(a, m) IN
        /\ r = NoAnswer \/ r \in Absence \cup {Cancelled} \/ Listing(r)
        /\ AllTold[<<a, m>>] = "available" <=> IsAvailable(r)
        /\ AllTold[<<a, m>>] = "not_found" <=> r = NotFound
        /\ AllTold[<<a, m>>] = "failed" <=> r = Failed
        /\ r = NoAnswer => AllTold[<<a, m>>] = "none"
  BY <1>1, ToldFacts DEF Told
<1>3. CASE outcome[a] = "available"
  <2>1. \E m \in Markets : AllTold[<<a, m>>] = "available" BY <1>1, <1>2, <1>3 DEF Grounded
  <2> QED BY <1>1, <1>3, <2>1 DEF Promise!Justified, Promise!Seen, AllTold
<1>4. CASE outcome[a] = "other_country"
  <2>1. AllTold[<<a, 0>>] = "not_found" /\ \E m \in Markets : AllTold[<<a, m>>] = "available"
    BY <1>1, <1>2, <1>4 DEF Grounded
  <2> QED BY <1>1, <1>4, <2>1 DEF Promise!Justified, Promise!Seen, AllTold
<1>5. CASE outcome[a] = "not_found"
  <2>1. \A m \in Markets : AllTold[<<a, m>>] = "not_found" BY <1>1, <1>2, <1>5 DEF Grounded
  <2> QED BY <1>1, <1>5, <2>1 DEF Promise!Justified, Promise!Absent, AllTold
<1>6. CASE outcome[a] = "inconclusive"
  <2>1. \A m \in Markets : AllTold[<<a, m>>] \in {"not_found", "failed"} BY <1>1, <1>2, <1>6 DEF Grounded
  <2> QED BY <1>1, <1>6, <2>1 DEF Promise!Justified, Promise!Seen, Promise!AllAsked, AllTold
<1>7. CASE outcome[a] = "error"
  BY <1>1, <1>7 DEF Promise!Justified
<1> QED BY <1>1, <1>3, <1>4, <1>5, <1>6, <1>7 DEF Outcomes

LEMMA ReportImplements ==
  ASSUME IInv, Report
  PROVE  Promise!Next \/ UNCHANGED Promise!vars
<1>1. PICK a \in Apps :
        a = Least(snapshot) /\ app[a] \in {"finished", "revoked"}
  BY LeastIsMember DEF Report, IInv, MainSound, TypeOK
<1>2. /\ row' = [row EXCEPT ![a] = RowOf(a)] /\ main = "report" /\ main' = main
      /\ cancel' = cancel /\ fetch' = fetch
  BY <1>1 DEF Report, control
<1>3. row[a] = "none" /\ row \in [Apps -> Outcomes] /\ RowOf(a) \in Outcomes
  BY <1>1 DEF IInv, TypeOK, Threads, Reported, RowOf, Outcomes
<1>4. CASE RowOf(a) = "none"
  <2>1. row' = row /\ AllTold' = AllTold BY <1>2, <1>3, <1>4 DEF AllTold
  <2> QED BY <1>2, <2>1, PromiseStutter
<1>5. CASE RowOf(a) # "none"
  <2>1. Promise!Justified(a, RowOf(a)) BY <1>1, <1>5, RowIsJustified
  <2>2. Promise!Conclude(a, RowOf(a)) BY <1>2, <1>3, <2>1 DEF Promise!Conclude
  <2>3. RowOf(a) \in {"available", "other_country", "not_found", "inconclusive", "error"}
    BY <1>3, <1>5 DEF Outcomes
  <2> QED BY <2>2, <2>3 DEF Promise!Next
<1> QED BY <1>4, <1>5

LEMMA EndImplements ==
  ASSUME IInv, End
  PROVE  Promise!Next
<1>1. /\ Pending = {} /\ main = "wait" /\ main' = "ended" /\ UNCHANGED <<fetch, cancel, row>>
  BY DEF End, control
<1>2. cancel \/ \A a \in Apps : row[a] # "none"
  <2>1. cancel \/ \A a \in Apps : app[a] = "reported"
    BY <1>1 DEF IInv, MainSound, Pending, Unstarted
  <2> QED BY <2>1 DEF IInv, Threads, Reported
<1>3. Promise!End
  BY <1>1, <1>2 DEF Promise!End
<1> QED BY <1>3 DEF Promise!Next

LEMMA InitImplements == Init => Promise!Init
<1> SUFFICES ASSUME Init PROVE Promise!Init
  OBVIOUS
<1>1. \A f \in Fetches : fetch[f].answer = NoAnswer
  BY NoFetchType DEF Init
<1>2. NoAnswer # Cancelled /\ NoAnswer.status = "none"
  BY StatusFacts, AnswerIsReply
<1>3. AllTold = [f \in Fetches |-> "none"]
  BY <1>1, <1>2 DEF AllTold
<1> QED BY <1>3 DEF Promise!Init, Init, AllTold, Fetches

(***************************************************************************)
(* Whatever its pools, pauses, retries and failures, an audit does what    *)
(* AuditPromise says: at most one verdict per app, justified by answers    *)
(* that have arrived, and none left out unless Stop came.                  *)
(***************************************************************************)
THEOREM PromiseIsKept == Spec => ImplementsPromise
<1>1. IInv /\ [Next]_vars => [Promise!Next]_(Promise!vars)
  <2> SUFFICES ASSUME IInv, [Next]_vars PROVE Promise!Next \/ UNCHANGED Promise!vars
    OBVIOUS
  <2>1. CASE UNCHANGED vars
    BY <2>1 DEF vars, control, mainVars, Promise!vars
  <2>2. ASSUME NEW f \in Fetches, FetchStep(f) PROVE Promise!Next \/ UNCHANGED Promise!vars
    BY <2>2, FetchImplements
  <2>3. ASSUME NEW f \in Fetches, FallbackStart(f) PROVE UNCHANGED Promise!vars
    BY <2>3, FallbackImplements
  <2>4. ASSUME NEW a \in Apps, AppStep(a) PROVE UNCHANGED Promise!vars
    BY <2>4, AppImplements
  <2>5. CASE Report BY <2>5, ReportImplements
  <2>6. CASE End BY <2>6, EndImplements
  <2>7. CASE Fill \/ FillDone \/ WaitReturns \/ ReportDone \/ Pause \/ Resume
    <3>1. UNCHANGED <<fetch, cancel, row>> /\ main # "ended" /\ main' # "ended"
      BY <2>7 DEF Fill, FillDone, WaitReturns, ReportDone, Pause, Resume, control, mainVars
    <3>2. AllTold' = AllTold BY <3>1 DEF AllTold
    <3> QED BY <3>1, <3>2, PromiseStutter
  <2>8. CASE Stop
    <3>1. UNCHANGED <<fetch, row, main>> /\ main # "ended" /\ cancel' = TRUE
      BY <2>8 DEF Stop, mainVars
    <3>2. Promise!Stop BY <3>1 DEF Promise!Stop
    <3> QED BY <3>2 DEF Promise!Next
  <2> QED BY <2>1, <2>2, <2>3, <2>4, <2>5, <2>6, <2>7, <2>8 DEF Next, MainStep, Ended
<1> QED BY <1>1, InitImplements, Inductive, PTL DEF Spec, ImplementsPromise, Promise!Spec

=============================================================================
