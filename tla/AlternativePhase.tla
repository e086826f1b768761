--------------------------- MODULE AlternativePhase ---------------------------
(***************************************************************************)
(* The alternative distribution phase of an audit: apps that Google Play   *)
(* does not list are looked up at F-Droid and, where the user has          *)
(* configured one, in a store of Aptoide (run_alternative_distribution_-   *)
(* phase in services/alternative_distribution.py and the settings, the     *)
(* providers and the cache it uses).                                       *)
(*                                                                         *)
(* The phase ends when everything is answered, when its budget of active   *)
(* time is spent or when the audit is stopped, whatever requests are under *)
(* way.  A phase whose audit was given up may end beside that of the next. *)
(***************************************************************************)
EXTENDS Naturals, Sequences, FiniteSets

CONSTANTS
  Apps,       \* eligible apps of an audit
  Stores,     \* names of Aptoide stores
  Workers,    \* ALT_MAX_WORKERS
  MaxPhases,  \* bound: audits that reach the phase
  MaxTrouble  \* bound: changes of the store and failed writes of the cache

Phases == 1..MaxPhases
Off == "off"

VARIABLES
  store,      \* setting: the authorised Aptoide store, or Off
  trouble,    \* changes of the setting and failed writes
  file,       \* cache on disk: entries
  temporary,  \* {} or what the temporary file of a writer holds
  idle,       \* the window runs no audit
  started,    \* phases started
  step,       \* per phase: "no", "load", "loop", "submit", "submitting", "wait", "write", "replace" or "over"
  aptoide,    \* per phase, store its Aptoide provider was made for, or Off
  memory,     \* per phase, the cache it works on
  pending,    \* per phase, tasks that were not submitted
  active,     \* per phase, tasks under way and whether their request is over
  results,    \* per phase and task, its results
  running, cancelled,
  expired     \* per phase, whether its active time exceeds its budget

control == <<running, cancelled, expired>>
window  == <<idle, started>>
work    == <<pending, active, results>>
vars    == <<store, trouble, file, temporary, window, step, aptoide, memory, work, control>>

Fdroid == "fdroid_main"

\* A task is an app and the source it is looked up in, the F-Droid repository or a store.
Sources(a) == {Fdroid} \cup ({aptoide[a]} \ {Off})
Tasks == Apps \X ({Fdroid} \cup Stores)

CacheKey(task) == task

\* An answer is that of a source; all of the states a source may report are kept.
Live(source)   == [provenance |-> "live", by |-> source]
Hit(source)    == [provenance |-> "cache", by |-> source]
NotChecked     == [provenance |-> "not checked", by |-> Off]
Entry(task)    == [key |-> CacheKey(task), by |-> task[2]]

CacheResults(entries, tasks) ==
  {e \in entries : \A t \in tasks : e.key # CacheKey(t)} \cup {Entry(t) : t \in tasks}

Init ==
  /\ store \in Stores \cup {Off} /\ trouble = 0 /\ file = {} /\ temporary = {}
  /\ idle = TRUE /\ started = 0
  /\ step = [a \in Phases |-> "no"] /\ aptoide = [a \in Phases |-> Off]
  /\ memory = [a \in Phases |-> {}] /\ pending = [a \in Phases |-> {}]
  /\ active = [a \in Phases |-> {}] /\ results = [a \in Phases |-> [t \in Tasks |-> <<>>]]
  /\ running = [a \in Phases |-> TRUE] /\ cancelled = [a \in Phases |-> FALSE]
  /\ expired = [a \in Phases |-> FALSE]

Move(a, to) == step' = [step EXCEPT ![a] = to]
InLoop(a) == step[a] \in {"loop", "submit", "submitting", "wait"}

-----------------------------------------------------------------------------
(* The window. *)

\* configured_providers: F-Droid, and Aptoide when its store and its key can be used.
StartPhase ==
  /\ idle /\ started < MaxPhases
  /\ started' = started + 1 /\ idle' = FALSE
  /\ aptoide' = [aptoide EXCEPT ![started'] = store]
  /\ Move(started', "load")
  /\ UNCHANGED <<store, trouble, file, temporary, memory, work, control>>

\* The preferences choose another store, or take the credential away.
ChangeStore(s) ==
  /\ idle /\ s # store /\ trouble < MaxTrouble
  /\ store' = s /\ trouble' = trouble + 1
  /\ UNCHANGED <<file, temporary, window, step, aptoide, memory, work, control>>

ClearCache ==
  /\ idle /\ file # {} /\ file' = {}
  /\ UNCHANGED <<store, trouble, temporary, window, step, aptoide, memory, work, control>>

PauseOrResume ==
  /\ ~idle /\ ~cancelled[started] /\ step[started] # "over"
  /\ running' = [running EXCEPT ![started] = ~@]
  /\ UNCHANGED <<store, trouble, file, temporary, window, step, aptoide, memory, work, cancelled, expired>>

\* Stop wakes a paused phase; giving the audit up also frees the window.
Stop(givenUp) ==
  /\ ~idle /\ (givenUp \/ ~cancelled[started])
  /\ cancelled' = [cancelled EXCEPT ![started] = TRUE]
  /\ running' = [running EXCEPT ![started] = TRUE]
  /\ idle' = givenUp
  /\ UNCHANGED <<store, trouble, file, temporary, started, step, aptoide, memory, work, expired>>

Report ==
  /\ ~idle /\ step[started] = "over" /\ idle' = TRUE
  /\ UNCHANGED <<store, trouble, file, temporary, started, step, aptoide, memory, work, control>>

-----------------------------------------------------------------------------
(* The environment. *)

\* Only active time counts against the budget.
Spend(a) ==
  /\ InLoop(a) /\ running[a] /\ ~expired[a]
  /\ expired' = [expired EXCEPT ![a] = TRUE]
  /\ UNCHANGED <<store, trouble, file, temporary, window, step, aptoide, memory, work, running, cancelled>>

\* A provider's check ends, with an answer or with a failure that counts as one.
Check(a, t) ==
  /\ [task |-> t, done |-> FALSE] \in active[a]
  /\ active' = [active EXCEPT ![a] = (@ \ {[task |-> t, done |-> FALSE]}) \cup {[task |-> t, done |-> TRUE]}]
  /\ UNCHANGED <<store, trouble, file, temporary, window, step, aptoide, memory, pending, results, control>>

-----------------------------------------------------------------------------
(* The phase. *)

FreshCached(cache, t) == {e \in cache : e.key = CacheKey(t)}

\* The cache is read, and each source of each app is a hit or still to be asked; an audit
\* that refreshes, or a cache that aged, has no hit.
Load(a, stale) ==
  /\ step[a] = "load"
  /\ memory' = [memory EXCEPT ![a] = file]
  /\ LET tasks == Apps \X Sources(a)
         hits  == IF stale THEN {} ELSE {t \in tasks : FreshCached(file, t) # {}}
     IN /\ pending' = [pending EXCEPT ![a] = tasks \ hits]
        /\ results' = [results EXCEPT ![a] = [t \in Tasks |->
                         IF t \in hits
                           THEN <<Hit((CHOOSE e \in FreshCached(file, t) : TRUE).by)>> ELSE <<>>]]
  /\ Move(a, "loop")
  /\ UNCHANGED <<store, trouble, file, temporary, window, aptoide, active, control>>

Done(a)       == {f.task : f \in {g \in active[a] : g.done}}
Unfinished(a) == {f.task : f \in {g \in active[a] : ~g.done}}

\* As if the requests that end while the phase stops were not looked at again.
AnsweredNone(a) == {}

\* The active requests whose result is kept when the phase ends early.
Answered(a) == Done(a)

WithLive(a, tasks) == [t \in Tasks |->
  IF t \in tasks THEN Append(results[a][t], Live(t[2])) ELSE results[a][t]]

\* The head of the loop: nothing left, Stop and a spent budget end it; what is done by then
\* counts, and everything else is "not checked".
Finish(a) ==
  LET kept == Answered(a)
      lost == pending[a] \cup Unfinished(a)
  IN /\ results' = [results EXCEPT ![a] = [t \in Tasks |->
                      IF t \in lost THEN Append(@[t], NotChecked) ELSE WithLive(a, kept)[t]]]
     /\ memory' = [memory EXCEPT ![a] = CacheResults(@, kept)]
     /\ pending' = [pending EXCEPT ![a] = {}] /\ active' = [active EXCEPT ![a] = {}]
     /\ Move(a, "write")

Loop(a) ==
  /\ step[a] = "loop"
  /\ IF (pending[a] = {} /\ active[a] = {}) \/ cancelled[a] \/ expired[a]
       THEN Finish(a)
       ELSE Move(a, "submit") /\ UNCHANGED <<memory, work>>
  /\ UNCHANGED <<store, trouble, file, temporary, window, aptoide, control>>

MaySubmit(a) == running[a] /\ ~cancelled[a]

\* The condition of the inner loop and the submission are two steps.
TrySubmit(a) ==
  /\ step[a] = "submit"
  /\ Move(a, IF pending[a] # {} /\ Cardinality(active[a]) < Workers /\ MaySubmit(a)
               THEN "submitting"
               ELSE IF active[a] = {} THEN "loop" ELSE "wait")
  /\ UNCHANGED <<store, trouble, file, temporary, window, aptoide, memory, work, control>>

Submit(a, t) ==
  /\ step[a] = "submitting" /\ t \in pending[a]
  /\ pending' = [pending EXCEPT ![a] = @ \ {t}]
  /\ active' = [active EXCEPT ![a] = @ \cup {[task |-> t, done |-> FALSE]}]
  /\ Move(a, "submit")
  /\ UNCHANGED <<store, trouble, file, temporary, window, aptoide, memory, results, control>>

\* wait returns with whatever is done by then, which may be nothing.
Gather(a) ==
  /\ step[a] = "wait"
  /\ results' = [results EXCEPT ![a] = WithLive(a, Done(a))]
  /\ memory' = [memory EXCEPT ![a] = CacheResults(@, Done(a))]
  /\ active' = [active EXCEPT ![a] = {f \in @ : ~f.done}]
  /\ Move(a, "loop")
  /\ UNCHANGED <<store, trouble, file, temporary, window, aptoide, pending, control>>

\* _write_cache: the temporary name is the same for every writer, and the phase that moves
\* it second finds nothing there; neither failure is one of the phase.
WriteCache(a, fails) ==
  /\ step[a] = "write"
  /\ IF fails
       THEN trouble < MaxTrouble /\ trouble' = trouble + 1 /\ Move(a, "over") /\ UNCHANGED temporary
       ELSE temporary' = {memory[a]} /\ Move(a, "replace") /\ UNCHANGED trouble
  /\ memory' = [memory EXCEPT ![a] = {}] /\ expired' = [expired EXCEPT ![a] = FALSE]
  /\ UNCHANGED <<store, file, window, aptoide, work, running, cancelled>>

ReplaceCache(a) ==
  /\ step[a] = "replace" /\ Move(a, "over")
  /\ file' = IF temporary = {} THEN file ELSE UNION temporary
  /\ temporary' = {}
  /\ UNCHANGED <<store, trouble, window, aptoide, memory, work, control>>

Next ==
  \/ StartPhase \/ ClearCache \/ PauseOrResume \/ Report
  \/ \E s \in Stores \cup {Off} : ChangeStore(s)
  \/ \E b \in BOOLEAN : Stop(b)
  \/ \E a \in Phases :
       \/ Spend(a) \/ Loop(a) \/ TrySubmit(a) \/ Gather(a) \/ ReplaceCache(a)
       \/ \E b \in BOOLEAN : Load(a, b) \/ WriteCache(a, b)
       \/ \E t \in Tasks : Check(a, t) \/ Submit(a, t)

Spec == Init /\ [][Next]_vars

-----------------------------------------------------------------------------
(* Properties. *)

\* However the phase ends -- all answered, Stop, a spent budget, requests under way or
\* ending just then -- each source of each app has exactly one result in the app's row
\* (alternative_distribution.py:542-602).
EveryProviderAnswers ==
  \A a \in Phases : step[a] \in {"write", "replace", "over"} =>
    \A t \in Tasks : Len(results[a][t]) = IF t[2] \in Sources(a) THEN 1 ELSE 0

\* What a row says of a store was said by that store, although the setting changes and the
\* phases of two audits write one cache (alternative_distribution.py:414-442, 445-453).
AnswersAreOfTheStore ==
  \A a \in Phases, t \in Tasks : \A i \in DOMAIN results[a][t] :
    results[a][t][i].by \in {t[2], Off}

\* What a row says of an app is complete, and said by the sources it names.
RowsSayWhatSourcesSaid == EveryProviderAnswers /\ AnswersAreOfTheStore
=============================================================================
