----------------------------- MODULE StoreCache ------------------------------
(***************************************************************************)
(* The cache of Google Play results (services/state): one JSON file that   *)
(* the window's thread, audit workers - also those of abandoned audits -   *)
(* and audits of the command line read, change and write back, and the     *)
(* completion of missing metadata of the rows shown (ui/app_icon_backfill, *)
(* ui/table_window).                                                       *)
(*                                                                         *)
(* A write goes to a temporary name that is the same for all writers and   *)
(* then takes the place of the file.  A writer that still has the          *)
(* temporary file open when another puts it in place goes on writing into  *)
(* what is now the cache.  What is not valid JSON reads as an empty cache. *)
(* The age of an entry is the audit it comes from: later audits are        *)
(* younger.  Entries of 45 days are out of view.                           *)
(***************************************************************************)
EXTENDS Naturals, FiniteSets

CONSTANTS
  Packages,
  Markets,      \* pairs of a Store country and an effective language
  Audits,       \* bound: numbers of audits, of the window or the command line
  Window,       \* the window's thread
  Renewals,     \* bound: exchanges of the shown rows
  MaxTrouble    \* bound: writes that fail and changes of the market

Keys    == Markets \X Packages
Writers == Audits \cup {Window}
None    == [by |-> 0, meta |-> FALSE]
Empty   == [k \in Keys |-> None]

\* What a file may hold: a cache, a text that is not valid JSON, or there is no file.
Json(cache) == [is |-> "json", cache |-> cache]
Torn        == [is |-> "torn", cache |-> Empty]
NoFile      == [is |-> "none", cache |-> Empty]

VARIABLES
  file,        \* content of audit_cache.json
  temp,        \* content of its .tmp file
  pc,          \* of each writer
  job,         \* what it is about to do to the cache
  data,        \* what it will write
  out,         \* the name its open file has: "temp", "file", or "gone"
  audit,       \* audits: market, what became of each package, state
  market,      \* country and language in the window
  current,     \* the window's running audit, 0 for none
  rows,        \* shown rows: "none", "bare" (no metadata), "complete", or "other"
  generation,  \* of the shown rows
  fetching,    \* _attempted: metadata requested
  arrived,     \* completed signals not yet delivered
  trouble,     \* writes that failed and changes of the market
  disturbed,   \* history: another writer wrote since this one read
  filled       \* metadata remembered for a row: the generation that requested it

disk   == <<file, temp, pc, job, data, out, disturbed>>
shown  == <<rows, generation, fetching, arrived, filled>>
vars == <<disk, audit, market, current, shown, trouble>>

Readable(content) == content.cache   \* _read_json

\* _schedule_missing_metadata, whenever rows are set
Requests(shownRows, g) ==
  {[package |-> p, market |-> market, generation |-> g] : p \in {q \in Packages : shownRows[q] = "bare"}}

-----------------------------------------------------------------------------
(* What the operations make of the cache. *)

\* As if inconclusive rows were stored as well.
UpdatedWithUnknown(a, cache) ==
  [k \in Keys |->
     IF k[1] # audit[a].market THEN cache[k]
     ELSE CASE audit[a].found[k[2]] = "healthy"             -> [by |-> a, meta |-> TRUE]
            [] audit[a].found[k[2]] \in {"bare", "unknown"} -> [by |-> a, meta |-> FALSE]
            [] audit[a].found[k[2]] = "gone"                -> None
            [] OTHER                                        -> cache[k]]

\* update_cache with the live rows of audit a: healthy rows replace their entry, other
\* conclusive ones remove it, inconclusive and unfinished ones leave it.
Updated(a, cache) ==
  [k \in Keys |->
     IF k[1] # audit[a].market THEN cache[k]
     ELSE CASE audit[a].found[k[2]] = "healthy"  -> [by |-> a, meta |-> TRUE]
            [] audit[a].found[k[2]] = "bare"     -> [by |-> a, meta |-> FALSE]
            [] audit[a].found[k[2]] = "gone"     -> None
            [] OTHER                             -> cache[k]]

\* update_cached_store_metadata: an entry without metadata is completed, keeping its age.
Completable(key, cache) == cache[key] # None /\ ~cache[key].meta
Completed(key, cache) == [cache EXCEPT ![key].meta = TRUE]

Applied(w, cache) ==
  CASE job[w].kind = "update"   -> Updated(w, cache)
    [] job[w].kind = "complete" -> Completed(job[w].key, cache)
    [] OTHER                    -> Empty

-----------------------------------------------------------------------------
(* Reading and writing the file, one system call at a time. *)

\* As if the file were not read again before it is written.
StartJobLate(w, j) ==
  /\ job' = [job EXCEPT ![w] = j]
  /\ data' = [data EXCEPT ![w] = Empty]
  /\ pc' = [pc EXCEPT ![w] = "open"]
  /\ disturbed' = [disturbed EXCEPT ![w] = FALSE]

StartJob(w, j) ==
  /\ job' = [job EXCEPT ![w] = j]
  /\ pc' = [pc EXCEPT ![w] = IF j.kind = "clear" THEN "open" ELSE "read"]
  /\ data' = [data EXCEPT ![w] = Empty]
  /\ disturbed' = [disturbed EXCEPT ![w] = \E v \in Writers \ {w} : out[v] # "gone"]

Disturb(w) == disturbed' = [v \in Writers |-> (v = w) => disturbed[w]]

ReadCache(w) ==
  /\ pc[w] = "read"
  /\ IF job[w].kind = "complete" /\ ~Completable(job[w].key, Readable(file))
     THEN pc' = [pc EXCEPT ![w] = "idle"] /\ UNCHANGED data
     ELSE /\ data' = [data EXCEPT ![w] = Applied(w, Readable(file))]
          /\ pc' = [pc EXCEPT ![w] = "open"]
  /\ UNCHANGED <<file, temp, job, out, disturbed, audit, market, current, shown, trouble>>

OpenTemp(w) ==
  /\ pc[w] = "open"
  /\ temp' = Torn
  /\ out' = [out EXCEPT ![w] = "temp"]
  /\ pc' = [pc EXCEPT ![w] = "write"]
  /\ Disturb(w)
  /\ UNCHANGED <<file, job, data, audit, market, current, shown, trouble>>

\* Over the bytes of another writer only the longer text remains whole.
Written(w, content) ==
  content = Json(data[w]) \/ (content = Torn /\ \E v \in Writers \ {w} : out[v] = out[w])

WriteTemp(w) ==
  /\ pc[w] = "write"
  /\ \E content \in {Json(data[w]), Torn} :
       /\ Written(w, content)
       /\ CASE out[w] = "temp" -> temp' = content /\ UNCHANGED file
            [] out[w] = "file" -> file' = content /\ UNCHANGED temp
            [] OTHER           -> UNCHANGED <<file, temp>>
  /\ pc' = [pc EXCEPT ![w] = "replace"]
  /\ Disturb(w)
  /\ UNCHANGED <<job, data, out, audit, market, current, shown, trouble>>

\* The temporary file takes the place of the cache; what others have open moves with it.
ReplaceFile(w) ==
  /\ pc[w] = "replace" /\ temp # NoFile
  /\ file' = temp /\ temp' = NoFile
  /\ out' = [v \in Writers |-> IF v = w THEN "gone"
                               ELSE CASE out[v] = "temp" -> "file" [] OTHER -> "gone"]
  /\ pc' = [pc EXCEPT ![w] = "idle"]
  /\ Disturb(w)
  /\ UNCHANGED <<job, data, audit, market, current, shown, trouble>>

\* The disk is full, the name is gone or, on Windows, held open by another writer.  The
\* worker tries once more in its except branch; the others report and go on.
WriteFails(w) ==
  /\ \/ pc[w] = "write" /\ trouble < MaxTrouble
     \/ pc[w] = "replace" /\ (temp = NoFile \/ \E v \in Writers \ {w} : out[v] # "gone")
  /\ trouble' = IF pc[w] = "write" THEN trouble + 1 ELSE trouble
  /\ out' = [out EXCEPT ![w] = "gone"]
  /\ IF job[w].kind = "update" /\ ~job[w].again
     THEN /\ job' = [job EXCEPT ![w].again = TRUE]
          /\ pc' = [pc EXCEPT ![w] = "read"]
     ELSE pc' = [pc EXCEPT ![w] = "idle"] /\ UNCHANGED job
  /\ disturbed' = [disturbed EXCEPT ![w] = TRUE]
  /\ UNCHANGED <<file, temp, data, audit, market, current, shown>>

-----------------------------------------------------------------------------
(* Audits. *)

NewAudit == [market |-> market, found |-> [p \in Packages |-> "none"], state |-> "new"]

\* load_fresh_cache, with a time to live that reaches back to audit `since'
Reused(since) ==
  [p \in Packages |-> LET entry == Readable(file)[<<market, p>>]
                     IN  IF entry.by < since THEN "none"
                         ELSE IF entry.meta THEN "reused" ELSE "reused bare"]

\* _start_audit and run_audit: young enough entries are reused, none when ttl is 0, the
\* cache disabled or fresh results are asked for.
Begin(a) ==
  /\ audit[a].state = "new"
  /\ \A b \in Audits : b < a => audit[b].state # "new"
  /\ \E since \in Audits \cup {a + 1} :
       audit' = [audit EXCEPT ![a] = [market |-> market, found |-> Reused(since),
                                      state |-> "running"]]

Idle == current = 0 /\ pc[Window] = "idle"

\* Metadata of a reused row that was completed meanwhile is remembered in memory.
RowOf(found, p) ==
  CASE found \in {"reused", "healthy"} -> "complete"
    [] found = "bare"                 -> "bare"
    [] found = "reused bare"          -> IF filled[p] = generation /\ generation > 0 THEN "complete" ELSE "bare"
    [] OTHER                          -> "other"

NewGeneration ==
  /\ generation < Renewals
  /\ generation' = generation + 1
  /\ filled' = [p \in Packages |-> 0]

\* The window shows provisional rows.
StartAudit(a) ==
  /\ Idle /\ Begin(a)
  /\ current' = a
  /\ NewGeneration
  /\ rows' = [p \in Packages |-> RowOf(audit'[a].found[p], p)]
  /\ fetching' = Requests(rows', generation')
  /\ UNCHANGED <<disk, market, arrived, trouble>>

StartHeadless(a) ==
  /\ Begin(a)
  /\ UNCHANGED <<disk, market, current, shown, trouble>>

Found == {"healthy", "bare", "gone", "unknown"}

LookUp(a, p, found) ==
  /\ audit[a].state = "running"
  /\ audit[a].found[p] = "none"
  /\ audit' = [audit EXCEPT ![a].found[p] = found]
  /\ UNCHANGED <<disk, market, current, shown, trouble>>

\* All looked up, or stopped: the live rows go to the cache.
Persist(a) ==
  /\ audit[a].state = "running"
  /\ audit' = [audit EXCEPT ![a].state = "done"]
  /\ IF \E p \in Packages : audit[a].found[p] \in Found
     THEN StartJob(a, [kind |-> "update", again |-> FALSE]) /\ UNCHANGED <<file, temp, out>>
     ELSE UNCHANGED disk
  /\ UNCHANGED <<market, current, shown, trouble>>

\* A list is dropped: the worker goes on, nobody waits for it.
Abandon ==
  /\ current # 0 /\ pc[Window] = "idle"
  /\ current' = 0
  /\ NewGeneration
  /\ rows' = [p \in Packages |-> "none"]
  /\ fetching' = {}
  /\ UNCHANGED <<disk, audit, market, arrived, trouble>>

-----------------------------------------------------------------------------
(* Completion of metadata. *)

FinishAudit ==
  /\ current # 0 /\ audit[current].state = "done" /\ pc[current] = "idle"
  /\ pc[Window] = "idle"
  /\ current' = 0
  /\ rows' = [p \in Packages |-> RowOf(audit[current].found[p], p)]
  /\ fetching' = fetching \cup Requests(rows', generation)
  /\ UNCHANGED <<disk, audit, market, generation, arrived, filled, trouble>>

SetRowsAgain ==
  /\ Idle
  /\ fetching' = fetching \cup Requests(rows, generation) /\ fetching' # fetching
  /\ UNCHANGED <<disk, audit, market, current, rows, generation, arrived, filled, trouble>>

ChangeMarket(m) ==
  /\ Idle /\ m # market /\ trouble < MaxTrouble
  /\ market' = m /\ trouble' = trouble + 1
  /\ UNCHANGED <<disk, audit, current, shown>>

\* A request that is not cancelled may end with metadata; one that is, may be past its
\* last look at the cancel event.
Arrive(r) ==
  /\ r \notin arrived
  /\ arrived' = arrived \cup {r}
  /\ UNCHANGED <<disk, audit, market, current, rows, generation, fetching, filled, trouble>>

IsCurrentRequest(r) == r.generation = generation /\ r.market = market

\* _on_completed and _on_metadata_backfilled
Deliver(r) ==
  /\ r \in arrived /\ pc[Window] = "idle"
  /\ arrived' = arrived \ {r}
  /\ IF IsCurrentRequest(r) /\ rows[r.package] = "bare"
     THEN /\ rows' = [rows EXCEPT ![r.package] = "complete"]
          /\ filled' = [filled EXCEPT ![r.package] = r.generation]
          /\ StartJob(Window, [kind |-> "complete", key |-> <<r.market, r.package>>])
          /\ UNCHANGED <<file, temp, out>>
     ELSE UNCHANGED <<disk, rows, filled>>
  /\ UNCHANGED <<audit, market, current, generation, fetching, trouble>>

\* Data Maintenance, or changed fallback countries, while no audit is under way
ClearCache ==
  /\ Idle /\ Readable(file) # Empty
  /\ StartJob(Window, [kind |-> "clear"])
  /\ UNCHANGED <<file, temp, out, audit, market, current, shown, trouble>>

-----------------------------------------------------------------------------
Init ==
  /\ file = Json(Empty) /\ temp = NoFile
  /\ pc = [w \in Writers |-> "idle"]
  /\ job = [w \in Writers |-> [kind |-> "clear"]]
  /\ data = [w \in Writers |-> Empty]
  /\ out = [w \in Writers |-> "gone"]
  /\ market \in Markets
  /\ audit = [a \in Audits |-> NewAudit]
  /\ current = 0
  /\ rows = [p \in Packages |-> "none"] /\ generation = 0
  /\ fetching = {} /\ arrived = {}
  /\ trouble = 0
  /\ disturbed = [w \in Writers |-> FALSE]
  /\ filled = [p \in Packages |-> 0]

Access(w) == ReadCache(w) \/ OpenTemp(w) \/ WriteTemp(w) \/ ReplaceFile(w) \/ WriteFails(w)

Audit(a) ==
  \/ StartAudit(a) \/ StartHeadless(a) \/ Persist(a)
  \/ \E p \in Packages, found \in Found : LookUp(a, p, found)

Next ==
  \/ \E w \in Writers : Access(w)
  \/ \E a \in Audits : Audit(a)
  \/ Abandon \/ FinishAudit \/ SetRowsAgain \/ ClearCache
  \/ \E m \in Markets : ChangeMarket(m)
  \/ \E r \in fetching : Arrive(r)
  \/ \E r \in arrived : Deliver(r)

Spec == Init /\ [][Next]_vars

-----------------------------------------------------------------------------
(* Properties. *)

Contents == {Readable(file), Readable(temp)} \cup {data[w] : w \in Writers}

(***************************************************************************)
(* Whatever writers overlap, whichever fails: an entry of the cache, on    *)
(* disk or on its way there, was found healthy by the audit its age is     *)
(* taken from, in its own market.  Reuse and completion never renew it.    *)
(***************************************************************************)
EntriesWereLookedUp ==
  \A content \in Contents : \A k \in Keys :
    LET entry == content[k]
    IN  entry # None => /\ audit[entry.by].market = k[1]
                        /\ audit[entry.by].found[k[2]] \in {"healthy", "bare"}

(***************************************************************************)
(* An operation no other writer came between has exactly its effect on the *)
(* cache that was there when it is put in place: "uncompleted packages are *)
(* untouched" (state.py:407), completion keeps the rest.                   *)
(***************************************************************************)
ReplacedUndisturbed ==
  \A w \in Writers : pc[w] = "replace" /\ pc'[w] = "idle" /\ ~disturbed[w] =>
    file' = Json(Applied(w, Readable(file)))

UndisturbedOperationsHold == [][ReplacedUndisturbed]_vars

(***************************************************************************)
(* Metadata that completes a shown row was requested for these rows:       *)
(* requests outlive the rows they were made for.                           *)
(***************************************************************************)
CompletionsFitTheRows ==
  \A p \in Packages : filled[p] \in {0, generation}

\* What the audits share, the cache and the rows, holds what was looked up for it.
EntriesAndRowsFit == EntriesWereLookedUp /\ CompletionsFitTheRows
=============================================================================
