----------------------------- MODULE IconLoader -----------------------------
(***************************************************************************)
(* The app icons of the results table: AppIconLoader (ui/app_icon_loader)  *)
(* over the disk cache (services/app_icon_disk_cache).                     *)
(*                                                                         *)
(* A painted cell asks for its icon and never waits.  A missing icon is    *)
(* looked up on disk by a pool of one thread and, when that has none,      *)
(* downloaded; a downloaded icon is written to disk by the same thread.    *)
(* The UI thread handles one event at a time: a paint, a signal of the     *)
(* disk thread, a finished download, a zero timer or a user's command.  A  *)
(* replacement of the results starts a new generation, which retires the   *)
(* work of the old one; clearing the cache does that and then waits, for a *)
(* bounded time, for the disk thread.                                      *)
(***************************************************************************)
EXTENDS Naturals, Sequences, FiniteSets

CONSTANTS
  Keys,           \* _IconRequest.key: a package and its Store update, from 1
  MaxPending,     \* _max_pending
  MaxActive,      \* _max_active
  MaxCache,       \* _max_cache
  MaxDisk,        \* MAX_ICON_CACHE_ENTRIES
  MaxGeneration,  \* bound: generations begun
  MaxChecks       \* bound: zero timers pending at once

ASSUME ConstantsAssumption ==
  /\ IsFiniteSet(Keys) /\ \A k \in Keys : k = <<k[1], k[2]>> /\ k[2] \in Nat \ {0}
  /\ MaxGeneration \in Nat /\ MaxChecks \in Nat \ {0}
  /\ MaxPending \in Nat \ {0} /\ MaxActive \in Nat \ {0}
  /\ MaxCache \in Nat \ {0} /\ MaxDisk \in Nat \ {0}

Packages == {k[1] : k \in Keys}
Updates  == {k[2] : k \in Keys}
Items    == [key : Keys, gen : Nat]   \* _IconRequest
Item(k, g) == [key |-> k, gen |-> g]

VARIABLES
  generation,   \* _generation
  pending,      \* _pending with _request_generations: items, one per key
  failed,       \* _failed
  memory,       \* _cache: the items that brought its icons
  queued,       \* _queued, items waiting for a download
  replies,      \* _active_replies, items being downloaded
  active,       \* _active
  reported,     \* _reported_busy
  checks,       \* zero timers of _notify_busy_after_worker_return
  pool,         \* tasks waiting for the disk thread
  running,      \* task of the disk thread
  events,       \* its signals not yet delivered
  disk,         \* index entry of each package
  ui,           \* "free", or "waiting" inside clear_cache
  cleared       \* history: generation after the last successful clear

requests == <<pending, failed, queued, replies, active>>
thread   == <<pool, running>>
vars == <<generation, requests, memory, reported, checks, thread, events, disk, ui, cleared>>

-----------------------------------------------------------------------------
(* The disk pool: one thread, which takes a task as soon as it is free. *)

Idle == [kind |-> "none", step |-> "none"]
Task(kind, item) == [kind |-> kind, step |-> "run", item |-> item]

StartTask(task) ==
  IF running = Idle THEN running' = task /\ UNCHANGED pool
                    ELSE pool' = Append(pool, task) /\ UNCHANGED running

NoEntry == [update |-> 0, gen |-> 0]
Entry(item) == [update |-> item.key[2], gen |-> item.gen]

\* has_active_work
HasWork(q, p, r, t) == q # <<>> \/ p # {} \/ r # {} \/ t # Idle

Busy == HasWork(queued, pending, replies, running)

\* _notify_busy_if_changed, at the end of a handler
Notify == reported' = HasWork(queued', pending', replies', running')

-----------------------------------------------------------------------------
(* Handlers of the UI thread. *)

IsPending(k) == \E i \in pending : i.key = k
InMemory(k)  == \E i \in memory : i.key = k

MayAsk(k) ==
  /\ ~InMemory(k) /\ k \notin failed /\ ~IsPending(k)
  /\ Cardinality(pending) < MaxPending

\* A plausible mistake: the busy state is not reported when a request begins.
AskSilent(k) ==
  /\ ui = "free" /\ MayAsk(k)
  /\ pending' = pending \cup {Item(k, generation)}
  /\ StartTask(Task("load", Item(k, generation)))
  /\ UNCHANGED <<generation, failed, queued, replies, active, memory, checks, events,
                 disk, ui, cleared, reported>>

\* icon_for_row of an icon that is not in memory
Ask(k) ==
  /\ ui = "free" /\ MayAsk(k)
  /\ pending' = pending \cup {Item(k, generation)}
  /\ StartTask(Task("load", Item(k, generation)))
  /\ UNCHANGED <<generation, failed, queued, replies, active, memory, checks, events,
                 disk, ui, cleared>>
  /\ Notify

\* _remember_in_memory: icons used less recently make room.
Remember(item) ==
  \E kept \in SUBSET {i \in memory : i.key # item.key} :
    /\ kept # {i \in memory : i.key # item.key} => Cardinality(kept) = MaxCache - 1
    /\ Cardinality(kept) < MaxCache
    /\ memory' = kept \cup {item}

Lesser(x, y) == IF x <= y THEN x ELSE y

\* A plausible mistake: one place too few is filled.
PumpOneShort(q, r, a) ==
  LET n == IF a + 1 < MaxActive THEN Lesser(Len(q), MaxActive - a - 1) ELSE 0 IN
  /\ queued' = SubSeq(q, n + 1, Len(q))
  /\ replies' = r \cup {q[i] : i \in 1..n}
  /\ active' = a + n

\* _pump: downloads start in order while there is room.  The queue is emptied
\* with every generation, so it holds no retired item to skip.
Pump(q, r, a) ==
  LET n == Lesser(Len(q), MaxActive - a) IN
  /\ queued' = SubSeq(q, n + 1, Len(q))
  /\ replies' = r \cup {q[i] : i \in 1..n}
  /\ active' = a + n

\* _active, max(0, ...), after n replies have ended
Released(n) == IF active > n THEN active - n ELSE 0

Signal == Head(events)
Deliver(kind) == ui = "free" /\ events # <<>> /\ Signal.kind = kind /\ events' = Tail(events)
\* _notify_busy_after_worker_return
CheckLater == checks < MaxChecks /\ checks' = checks + 1
Signalled(kind, hit) == Append(events, [kind |-> kind, item |-> running.item, hit |-> hit])

\* A plausible mistake: a retired lookup is not told apart.
IsCurrentAlways(item) == TRUE

IsCurrent(item) == item.gen = generation /\ item \in pending

\* _on_disk_loaded of a retired lookup
LoadedStale ==
  /\ Deliver("loaded") /\ ~IsCurrent(Signal.item)
  /\ CheckLater
  /\ UNCHANGED <<generation, requests, memory, reported, thread, disk, ui, cleared>>

\* ... of an icon that was on disk and can be decoded
LoadedHit ==
  /\ Deliver("loaded") /\ IsCurrent(Signal.item) /\ Signal.hit
  /\ Remember(Signal.item)
  /\ pending' = pending \ {Signal.item}
  /\ CheckLater
  /\ UNCHANGED <<generation, failed, queued, replies, active, reported, thread, disk, ui,
                 cleared>>

\* ... of one that was not, or cannot: it is downloaded.
LoadedMiss ==
  /\ Deliver("loaded") /\ IsCurrent(Signal.item)
  /\ Pump(Append(queued, Signal.item), replies, active)
  /\ UNCHANGED <<generation, pending, failed, memory, checks, thread, disk, ui, cleared>>
  /\ Notify

\* _on_disk_store_finished
Stored ==
  /\ Deliver("stored")
  /\ CheckLater
  /\ UNCHANGED <<generation, requests, memory, reported, thread, disk, ui, cleared>>

CheckBusy ==
  /\ ui = "free" /\ checks > 0
  /\ checks' = checks - 1
  /\ UNCHANGED <<generation, requests, memory, thread, events, disk, ui, cleared>>
  /\ Notify

Settled(item) == pending \ {item}

\* _finish of a download that brought an icon
FinishIcon(item) ==
  /\ ui = "free" /\ item \in replies
  /\ IF item.gen # generation THEN UNCHANGED <<memory, thread>>
     ELSE Remember(item) /\ StartTask(Task("store", item))
  /\ pending' = Settled(item)
  /\ Pump(queued, replies \ {item}, Released(1))
  /\ UNCHANGED <<generation, failed, checks, events, disk, ui, cleared>>
  /\ Notify

\* ... of one that failed, timed out, was too large or cannot be decoded
FinishFailed(item) ==
  /\ ui = "free" /\ item \in replies
  /\ failed' = IF item.gen = generation THEN failed \cup {item.key} ELSE failed
  /\ pending' = Settled(item)
  /\ Pump(queued, replies \ {item}, Released(1))
  /\ UNCHANGED <<generation, memory, checks, thread, events, disk, ui, cleared>>
  /\ Notify

\* begin_generation: aborting a reply finishes it at once.
Retire ==
  /\ generation' = generation + 1
  /\ queued' = <<>> /\ pending' = {} /\ failed' = {}
  /\ pool' = <<>>
  /\ replies' = {} /\ active' = Released(Cardinality(replies))
  /\ UNCHANGED <<running, checks, events, disk, cleared>>
  /\ Notify

BeginGeneration ==
  /\ ui = "free" /\ generation < MaxGeneration
  /\ Retire
  /\ UNCHANGED <<memory, ui>>

\* clear_cache, up to the wait for the disk thread
ClearBegins ==
  /\ ui = "free" /\ generation < MaxGeneration
  /\ Retire
  /\ memory' = {}
  /\ ui' = "waiting"

Drained == running = Idle   \* waitForDone

ClearDone ==
  /\ ui = "waiting" /\ Drained
  /\ disk' = [p \in Packages |-> NoEntry]
  /\ cleared' = generation
  /\ ui' = "free"
  /\ UNCHANGED <<generation, requests, memory, checks, thread, events>>
  /\ Notify

\* The directory cannot be removed, or only in part.
ClearFails ==
  /\ ui = "waiting" /\ Drained
  /\ \E gone \in SUBSET Packages :
       disk' = [p \in Packages |-> IF p \in gone THEN NoEntry ELSE disk[p]]
  /\ ui' = "free"
  /\ UNCHANGED <<generation, requests, memory, reported, checks, thread, events, cleared>>

ClearTimesOut ==
  /\ ui = "waiting" /\ ~Drained
  /\ ui' = "free"
  /\ UNCHANGED <<generation, requests, memory, checks, thread, events, disk, cleared>>
  /\ Notify

-----------------------------------------------------------------------------
(* The disk thread. *)

Runs(kind, step) == running.kind = kind /\ running.step = step
Package == running.item.key[1]
Emitted == running' = [running EXCEPT !.step = "emitted"]

\* load_cached_icon_bytes: an entry of another update, or whose file cannot be
\* read, is removed if the index can be rewritten.
Load ==
  /\ Runs("load", "run")
  /\ \/ /\ disk[Package].update = running.item.key[2]
        /\ events' = Signalled("loaded", TRUE)
        /\ UNCHANGED disk
     \/ /\ events' = Signalled("loaded", FALSE)
        /\ disk' \in {disk, [disk EXCEPT ![Package] = NoEntry]}
  /\ Emitted
  /\ UNCHANGED <<generation, requests, memory, reported, checks, pool, ui, cleared>>

\* _DiskStoreTask: only for the generation that downloaded it ...
StoreCheck ==
  /\ Runs("store", "run")
  /\ IF running.item.gen = generation
     THEN running' = [running EXCEPT !.step = "writing"] /\ UNCHANGED events
     ELSE events' = Signalled("stored", FALSE) /\ Emitted
  /\ UNCHANGED <<generation, requests, memory, reported, checks, pool, disk, ui, cleared>>

InIndex(d) == {p \in Packages : d[p] # NoEntry}

Bounded(d) == Cardinality(InIndex(d)) <= MaxDisk

\* store_cached_icon_bytes: older entries make room; writing may fail.
StoreWrite ==
  /\ Runs("store", "writing")
  /\ \/ UNCHANGED disk
     \/ \E out \in SUBSET (Packages \ {Package}) :
          LET stored == [disk EXCEPT ![Package] = Entry(running.item)]
          IN  /\ disk' = [p \in Packages |-> IF p \in out THEN NoEntry ELSE stored[p]]
              /\ Bounded(disk')
  /\ events' = Signalled("stored", FALSE)
  /\ Emitted
  /\ UNCHANGED <<generation, requests, memory, reported, checks, pool, ui, cleared>>

\* Run returns after its signal was emitted; the thread takes the next task.
Return ==
  /\ running.step = "emitted"
  /\ IF pool = <<>> THEN running' = Idle /\ UNCHANGED pool
                    ELSE running' = Head(pool) /\ pool' = Tail(pool)
  /\ UNCHANGED <<generation, requests, memory, reported, checks, events, disk, ui, cleared>>

DiskThread == Load \/ StoreCheck \/ StoreWrite \/ Return

Handle == LoadedStale \/ LoadedHit \/ LoadedMiss \/ Stored \/ ClearDone \/ ClearTimesOut
Finish(item) == FinishIcon(item) \/ FinishFailed(item)

Init ==
  /\ generation = 0
  /\ pending = {} /\ failed = {} /\ queued = <<>> /\ replies = {} /\ active = 0
  /\ memory = {}
  /\ reported = FALSE /\ checks = 0
  /\ pool = <<>> /\ running = Idle /\ events = <<>>
  /\ \E update \in [Packages -> {0} \cup Updates] :
       disk = [p \in Packages |-> [update |-> update[p], gen |-> 0]]
  /\ Cardinality(InIndex(disk)) <= MaxDisk
  /\ ui = "free" /\ cleared = 0

Next ==
  \/ \E k \in Keys : Ask(k)
  \/ \E item \in replies : Finish(item)
  \/ Handle \/ ClearFails \/ CheckBusy \/ BeginGeneration \/ ClearBegins
  \/ DiskThread

Spec == Init /\ [][Next]_vars

\* The disk thread runs, downloads end or time out, the event loop goes on.
FairSpec ==
  /\ Spec
  /\ WF_vars(DiskThread) /\ WF_vars(Handle) /\ WF_vars(CheckBusy)
  /\ \A k \in Keys : \A g \in 0..MaxGeneration : WF_vars(Finish(Item(k, g)))

-----------------------------------------------------------------------------
(* Properties. *)

Tasks == [kind : {"load", "store"}, step : {"run", "writing", "emitted"}, item : Items]
NewTasks == {t \in Tasks : t.step = "run"}
Signals == [kind : {"loaded", "stored"}, item : Items, hit : BOOLEAN]

TypeOK ==
  /\ generation \in Nat /\ cleared \in Nat /\ active \in Nat /\ checks \in Nat
  /\ pending \subseteq Items /\ memory \subseteq Items /\ replies \subseteq Items
  /\ failed \subseteq Keys
  /\ queued \in Seq(Items) /\ pool \in Seq(NewTasks) /\ events \in Seq(Signals)
  /\ running \in Tasks \cup {Idle}
  /\ reported \in BOOLEAN /\ ui \in {"free", "waiting"}
  /\ disk \in [Packages -> [update : {0} \cup Updates, gen : Nat]]

(***************************************************************************)
(* Memory, disk, waiting requests and simultaneous downloads stay within   *)
(* their bounds, and the counter of active downloads is exact although     *)
(* replies end in three ways.                                              *)
(***************************************************************************)
WithinBounds ==
  /\ Cardinality(pending) <= MaxPending
  /\ Cardinality(memory) <= MaxCache
  /\ active = Cardinality(replies) /\ active <= MaxActive
  /\ Cardinality(InIndex(disk)) <= MaxDisk

(***************************************************************************)
(* Every waiting request is at exactly one place on its way - lookup,      *)
(* delivered lookup, queue or download - so none is stuck and none is      *)
(* loaded twice, whatever retired work of the same key is still around.    *)
(***************************************************************************)
Looking(i) == {n \in DOMAIN pool : pool[n] = Task("load", i)}
Told(i) == {n \in DOMAIN events : events[n].kind = "loaded" /\ events[n].item = i}
Waiting(i) == {n \in DOMAIN queued : queued[n] = i}

PendingInFlight ==
  /\ \A i, j \in pending : i.key = j.key => i = j
  /\ \A i \in pending :
       Cardinality(Looking(i)) + Cardinality(Told(i)) + Cardinality(Waiting(i))
         + (IF running = Task("load", i) THEN 1 ELSE 0) + (IF i \in replies THEN 1 ELSE 0) = 1

(***************************************************************************)
(* "Retire queued/stale icon work so an old disk/network completion cannot *)
(* repopulate the just-cleared cache" (DATA_MAINTENANCE_V2_ACCEPTANCE.md). *)
(***************************************************************************)
ClearedStaysClear ==
  /\ \A i \in memory : i.gen >= cleared
  /\ \A p \in Packages : disk[p] # NoEntry => disk[p].gen >= cleared

(***************************************************************************)
(* Whenever icon work is under way the window has been told, so that       *)
(* clearing is disabled (data_maintenance_action).                         *)
(***************************************************************************)
WorkIsReported == Busy => reported

(***************************************************************************)
(* A request ends, with an icon or without one, or is retired.             *)
(***************************************************************************)
RequestsEnd ==
  \A k \in Keys : \A g \in 0..MaxGeneration :
    Item(k, g) \in pending ~> Item(k, g) \notin pending

\* Requests are bounded, at one place each, and end.
RequestsSettle == [](WithinBounds /\ PendingInFlight) /\ RequestsEnd

(***************************************************************************)
(* The deferred check is there "so activeThreadCount() cannot leave the    *)
(* maintenance action stuck in a false-busy state" (comment in             *)
(* _notify_busy_after_worker_return).                                      *)
(***************************************************************************)
BusySettles == (reported /\ ~Busy) ~> (~reported \/ Busy)

=============================================================================
