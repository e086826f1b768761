-------------------------- MODULE IconLoaderProofs --------------------------
(***************************************************************************)
(* Proofs about IconLoader, for every finite set of icons and every bound. *)
(***************************************************************************)
EXTENDS IconLoader, SequenceTheorems, FiniteSetTheorems, TLAPS

-----------------------------------------------------------------------------
(***************************************************************************)
(* The inductive invariant.  What waits or is downloaded belongs to the    *)
(* generation of now, because every new generation empties those places;   *)
(* only the running task and delivered signals may be older.  A store that *)
(* has passed its check may be retired before it writes, but not across a  *)
(* clear, which waits for the thread.                                      *)
(***************************************************************************)
Counted ==
  /\ IsFiniteSet(replies)
  /\ active <= MaxActive

Generations ==
  /\ cleared <= generation
  /\ \A i \in memory : i.gen >= cleared
  /\ \A p \in Packages : disk[p] # NoEntry => disk[p].gen >= cleared
  /\ running.step = "writing" => running.item.gen >= cleared
  /\ ui = "waiting" => memory = {}

IInv == TypeOK /\ Counted /\ Generations

-----------------------------------------------------------------------------
(* The operators the handlers are built from. *)

LEMMA PumpFacts ==
  ASSUME NEW q \in Seq(Items), NEW r \in SUBSET Items, IsFiniteSet(r),
         NEW a \in Nat, a <= MaxActive, Pump(q, r, a)
  PROVE  /\ queued' \in Seq(Items)
         /\ replies' \in SUBSET Items /\ IsFiniteSet(replies')
         /\ active' \in Nat /\ active' <= MaxActive
<1> DEFINE n == Lesser(Len(q), MaxActive - a)
<1>1. n \in 0..Len(q) /\ a + n <= MaxActive /\ n \in Nat
  BY ConstantsAssumption, LenProperties DEF Lesser
<1>2. queued' = SubSeq(q, n + 1, Len(q))
  BY DEF Pump
<1>3. replies' = r \cup {q[i] : i \in 1..n}
  BY DEF Pump
<1>4. active' = a + n
  BY DEF Pump
<1> HIDE DEF n
<1>5. queued' \in Seq(Items)
  BY <1>1, <1>2, SubSeqProperties
<1>6. \A i \in 1..n : q[i] \in Items
  BY <1>1, ElementOfSeq
<1>7. IsFiniteSet({q[i] : i \in 1..n})
  <2> DEFINE T == {q[i] : i \in 1..n}
             f == [i \in 1..n |-> q[i]]
  <2>1. f \in Surjection(1..n, T)
    BY DEF Surjection
  <2>2. IsFiniteSet(1..n)
    BY <1>1, FS_Interval
  <2> HIDE DEF f, T
  <2>3. IsFiniteSet(T)
    BY <2>1, <2>2, FS_Surjection
  <2> QED BY <2>3 DEF T
<1>8. IsFiniteSet(replies')
  BY <1>3, <1>7, FS_Union
<1> QED BY <1>1, <1>3, <1>4, <1>5, <1>6, <1>8

LEMMA StartTaskFacts ==
  ASSUME TypeOK, NEW task \in NewTasks, StartTask(task)
  PROVE  /\ pool' \in Seq(NewTasks) /\ running' \in Tasks \cup {Idle}
         /\ running'.step = "writing" => UNCHANGED running
<1>1. pool \in Seq(NewTasks) /\ running \in Tasks \cup {Idle}
  BY DEF TypeOK
<1>2. CASE running = Idle
  BY <1>1, <1>2 DEF StartTask, NewTasks
<1>3. CASE running # Idle
  <2>1. pool' = Append(pool, task) /\ UNCHANGED running
    BY <1>3 DEF StartTask
  <2>2. pool' \in Seq(NewTasks)
    BY <1>1, <2>1, AppendProperties
  <2> QED BY <1>1, <2>1, <2>2
<1> QED BY <1>2, <1>3

LEMMA ReleasedFacts ==
  ASSUME TypeOK, Counted, NEW n \in Nat
  PROVE  Released(n) \in Nat /\ Released(n) <= MaxActive
BY ConstantsAssumption DEF TypeOK, Counted, Released

LEMMA NotifyType ==
  ASSUME Notify
  PROVE  reported' \in BOOLEAN
BY DEF Notify, HasWork

LEMMA RememberFacts ==
  ASSUME TypeOK, Generations, NEW item \in Items, item.gen = generation, Remember(item)
  PROVE  memory' \subseteq Items /\ \A i \in memory' : i.gen >= cleared
BY DEF TypeOK, Generations, Remember

LEMMA RunningFacts ==
  ASSUME TypeOK, running.step # "none"
  PROVE  running \in Tasks /\ Package \in Packages
BY DEF TypeOK, Idle, Package, Packages, Tasks, Items

LEMMA SignalFacts ==
  ASSUME TypeOK, events # <<>>
  PROVE  Signal \in Signals /\ Tail(events) \in Seq(Signals)
BY HeadTailProperties DEF TypeOK, Signal

-----------------------------------------------------------------------------
(* The invariant holds at first and no step breaks it. *)

LEMMA InitIInv == Init => IInv
<1> SUFFICES ASSUME Init PROVE IInv
  OBVIOUS
<1> USE DEF Init
<1>1. PICK update \in [Packages -> {0} \cup Updates] :
        disk = [p \in Packages |-> [update |-> update[p], gen |-> 0]]
  OBVIOUS
<1>2. TypeOK
  <2>1. disk \in [Packages -> [update : {0} \cup Updates, gen : Nat]]
    BY <1>1
  <2>2. queued \in Seq(Items) /\ pool \in Seq(NewTasks) /\ events \in Seq(Signals)
    BY EmptySeq
  <2> QED BY <2>1, <2>2 DEF TypeOK
<1>3. Counted
  BY ConstantsAssumption, FS_EmptySet DEF Counted
<1>4. Generations
  BY <1>1 DEF Generations, Idle
<1> QED BY <1>2, <1>3, <1>4 DEF IInv

LEMMA KeyFacts ==
  ASSUME NEW k \in Keys, TypeOK
  PROVE  /\ Item(k, generation) \in Items
         /\ Item(k, generation).gen = generation
         /\ Task("load", Item(k, generation)) \in NewTasks
BY DEF Item, Items, Task, Tasks, NewTasks, TypeOK

LEMMA AskKeeps ==
  ASSUME IInv, NEW k \in Keys, Ask(k)
  PROVE  IInv'
<1> USE DEF IInv
<1>1. pending' \in SUBSET Items
  BY KeyFacts DEF Ask, TypeOK
<1>2. /\ pool' \in Seq(NewTasks) /\ running' \in Tasks \cup {Idle}
      /\ running'.step = "writing" => UNCHANGED running
  BY KeyFacts, StartTaskFacts DEF Ask
<1>3. reported' \in BOOLEAN
  BY NotifyType DEF Ask
<1>4. TypeOK'
  BY <1>1, <1>2, <1>3 DEF Ask, TypeOK
<1>5. Counted' /\ Generations'
  BY <1>2 DEF Ask, Counted, Generations
<1> QED BY <1>4, <1>5

LEMMA LoadedStaleKeeps ==
  ASSUME IInv, LoadedStale
  PROVE  IInv'
BY SignalFacts DEF IInv, LoadedStale, Deliver, CheckLater, TypeOK, Counted, Generations,
   requests, thread

LEMMA StoredKeeps ==
  ASSUME IInv, Stored
  PROVE  IInv'
BY SignalFacts DEF IInv, Stored, Deliver, CheckLater, TypeOK, Counted, Generations,
   requests, thread

LEMMA LoadedHitKeeps ==
  ASSUME IInv, LoadedHit
  PROVE  IInv'
<1> USE DEF IInv
<1>1. Signal.item \in Items /\ Signal.item.gen = generation /\ events' \in Seq(Signals)
  BY SignalFacts DEF LoadedHit, Deliver, IsCurrent, TypeOK
<1>2. memory' \subseteq Items /\ \A i \in memory' : i.gen >= cleared
  BY <1>1, RememberFacts DEF LoadedHit
<1>3. TypeOK'
  BY <1>1, <1>2 DEF LoadedHit, CheckLater, TypeOK, thread
<1>4. Counted' /\ Generations'
  BY <1>2 DEF LoadedHit, Deliver, Counted, Generations, thread
<1> QED BY <1>3, <1>4

LEMMA LoadedMissKeeps ==
  ASSUME IInv, LoadedMiss
  PROVE  IInv'
<1> USE DEF IInv
<1>1. Signal.item \in Items /\ events' \in Seq(Signals)
  BY SignalFacts DEF LoadedMiss, Deliver, IsCurrent, TypeOK
<1>2. Append(queued, Signal.item) \in Seq(Items)
  BY <1>1, AppendProperties DEF TypeOK
<1>3. /\ queued' \in Seq(Items)
      /\ replies' \in SUBSET Items /\ IsFiniteSet(replies')
      /\ active' \in Nat /\ active' <= MaxActive
  BY <1>2, PumpFacts DEF LoadedMiss, TypeOK, Counted
<1>4. reported' \in BOOLEAN
  BY NotifyType DEF LoadedMiss
<1>5. TypeOK'
  BY <1>1, <1>3, <1>4 DEF LoadedMiss, TypeOK, thread
<1>6. Counted' /\ Generations'
  BY <1>3 DEF LoadedMiss, Counted, Generations, thread
<1> QED BY <1>5, <1>6

LEMMA CheckBusyKeeps ==
  ASSUME IInv, CheckBusy
  PROVE  IInv'
<1>1. reported' \in BOOLEAN
  BY NotifyType DEF CheckBusy
<1> QED BY <1>1 DEF IInv, CheckBusy, TypeOK, Counted, Generations, requests, thread

LEMMA FinishIconKeeps ==
  ASSUME IInv, NEW item \in replies, FinishIcon(item)
  PROVE  IInv'
<1> USE DEF IInv
<1>1. item \in Items /\ Task("store", item) \in NewTasks
  BY DEF TypeOK, Task, Tasks, NewTasks
<1>2. /\ memory' \subseteq Items /\ \A i \in memory' : i.gen >= cleared
      /\ pool' \in Seq(NewTasks) /\ running' \in Tasks \cup {Idle}
      /\ running'.step = "writing" => UNCHANGED running
  <2>1. CASE item.gen # generation
    BY <2>1 DEF FinishIcon, TypeOK, Generations, thread
  <2>2. CASE item.gen = generation
    <3>1. Remember(item) /\ StartTask(Task("store", item))
      BY <2>2 DEF FinishIcon
    <3> QED BY <1>1, <2>2, <3>1, RememberFacts, StartTaskFacts
  <2> QED BY <2>1, <2>2
<1>3. /\ queued' \in Seq(Items)
      /\ replies' \in SUBSET Items /\ IsFiniteSet(replies')
      /\ active' \in Nat /\ active' <= MaxActive
  BY ReleasedFacts, PumpFacts, FS_RemoveElement DEF FinishIcon, TypeOK, Counted
<1>4. pending' \subseteq Items /\ reported' \in BOOLEAN
  BY NotifyType DEF FinishIcon, Settled, TypeOK
<1>5. TypeOK'
  BY <1>2, <1>3, <1>4 DEF FinishIcon, TypeOK
<1>6. Counted' /\ Generations'
  BY <1>2, <1>3 DEF FinishIcon, Counted, Generations
<1> QED BY <1>5, <1>6

LEMMA FinishFailedKeeps ==
  ASSUME IInv, NEW item \in replies, FinishFailed(item)
  PROVE  IInv'
<1> USE DEF IInv
<1>1. failed' \subseteq Keys
  BY DEF FinishFailed, TypeOK, Items
<1>2. /\ queued' \in Seq(Items)
      /\ replies' \in SUBSET Items /\ IsFiniteSet(replies')
      /\ active' \in Nat /\ active' <= MaxActive
  BY ReleasedFacts, PumpFacts, FS_RemoveElement DEF FinishFailed, TypeOK, Counted
<1>3. pending' \subseteq Items /\ reported' \in BOOLEAN
  BY NotifyType DEF FinishFailed, Settled, TypeOK
<1>4. TypeOK'
  BY <1>1, <1>2, <1>3 DEF FinishFailed, TypeOK, thread
<1>5. Counted' /\ Generations'
  BY <1>2 DEF FinishFailed, Counted, Generations, thread
<1> QED BY <1>4, <1>5

(* What a new generation retires; memory and ui are left to its callers. *)
LEMMA RetireFacts ==
  ASSUME IInv, Retire, memory' \subseteq memory, ui' \in {"free", "waiting"},
         ui' = "waiting" => memory' = {}
  PROVE  IInv'
<1> USE DEF IInv
<1>1. Cardinality(replies) \in Nat
  BY FS_CardinalityType DEF Counted
<1>2. active' \in Nat /\ active' <= MaxActive
  BY <1>1, ReleasedFacts DEF Retire
<1>3. reported' \in BOOLEAN
  BY NotifyType DEF Retire
<1>4. queued' \in Seq(Items) /\ pool' \in Seq(NewTasks)
  BY EmptySeq DEF Retire
<1>5. TypeOK'
  BY <1>2, <1>3, <1>4 DEF Retire, TypeOK
<1>6. Counted'
  BY <1>2, FS_EmptySet DEF Retire, Counted
<1>7. Generations'
  BY DEF Retire, Generations, TypeOK
<1> QED BY <1>5, <1>6, <1>7

LEMMA BeginGenerationKeeps ==
  ASSUME IInv, BeginGeneration
  PROVE  IInv'
BY RetireFacts DEF BeginGeneration

LEMMA ClearBeginsKeeps ==
  ASSUME IInv, ClearBegins
  PROVE  IInv'
BY RetireFacts DEF ClearBegins

LEMMA ClearDoneKeeps ==
  ASSUME IInv, ClearDone
  PROVE  IInv'
<1> USE DEF IInv
<1>1. disk' \in [Packages -> [update : {0} \cup Updates, gen : Nat]]
  BY DEF ClearDone, NoEntry
<1>2. reported' \in BOOLEAN
  BY NotifyType DEF ClearDone
<1>3. TypeOK'
  BY <1>1, <1>2 DEF ClearDone, TypeOK, requests, thread
<1>4. Counted'
  BY DEF ClearDone, Counted, requests
<1>5. memory = {} /\ running = Idle
  BY DEF ClearDone, Drained, Generations
<1>6. Generations'
  BY <1>5 DEF ClearDone, Generations, Idle, TypeOK, thread
<1> QED BY <1>3, <1>4, <1>6

LEMMA ClearFailsKeeps ==
  ASSUME IInv, ClearFails
  PROVE  IInv'
<1> USE DEF IInv
<1>1. PICK gone \in SUBSET Packages :
        disk' = [p \in Packages |-> IF p \in gone THEN NoEntry ELSE disk[p]]
  BY DEF ClearFails
<1>2. disk' \in [Packages -> [update : {0} \cup Updates, gen : Nat]]
  BY <1>1 DEF TypeOK, NoEntry
<1>3. TypeOK'
  BY <1>2 DEF ClearFails, TypeOK, requests, thread
<1>4. Counted' /\ Generations'
  BY <1>1 DEF ClearFails, Counted, Generations, requests, thread
<1> QED BY <1>3, <1>4

LEMMA ClearTimesOutKeeps ==
  ASSUME IInv, ClearTimesOut
  PROVE  IInv'
<1>1. reported' \in BOOLEAN
  BY NotifyType DEF ClearTimesOut
<1> QED BY <1>1 DEF IInv, ClearTimesOut, TypeOK, Counted, Generations, requests, thread

(* The disk thread: its signals are about the task it runs. *)

LEMMA SignalledType ==
  ASSUME TypeOK, NEW kind \in {"loaded", "stored"}, NEW hit \in BOOLEAN,
         running.step # "none"
  PROVE  Signalled(kind, hit) \in Seq(Signals)
<1>1. [kind |-> kind, item |-> running.item, hit |-> hit] \in Signals
  BY RunningFacts DEF Signals, Tasks
<1> QED BY <1>1, AppendProperties DEF Signalled, TypeOK

LEMMA EmittedType ==
  ASSUME TypeOK, Emitted, running.step # "none"
  PROVE  running' \in Tasks /\ running'.step = "emitted"
BY RunningFacts DEF Emitted, Tasks

LEMMA LoadKeeps ==
  ASSUME IInv, Load
  PROVE  IInv'
<1> USE DEF IInv
<1>1. running.step = "run"
  BY DEF Load, Runs
<1>2. running \in Tasks /\ Package \in Packages /\ running' \in Tasks
      /\ running'.step = "emitted"
  BY <1>1, RunningFacts, EmittedType DEF Load
<1>3. events' \in Seq(Signals)
  BY <1>1, SignalledType DEF Load
<1>4. /\ disk' \in [Packages -> [update : {0} \cup Updates, gen : Nat]]
      /\ \A p \in Packages : disk'[p] = disk[p] \/ disk'[p] = NoEntry
  <2>1. disk' \in {disk, [disk EXCEPT ![Package] = NoEntry]}
    BY DEF Load
  <2>2. NoEntry \in [update : {0} \cup Updates, gen : Nat]
    BY DEF NoEntry
  <2>3. disk \in [Packages -> [update : {0} \cup Updates, gen : Nat]]
    BY DEF TypeOK
  <2> QED BY <1>2, <2>1, <2>2, <2>3
<1>5. TypeOK'
  BY <1>2, <1>3, <1>4 DEF Load, TypeOK, requests
<1>6. Counted' /\ Generations'
  BY <1>2, <1>4 DEF Load, Counted, Generations, requests
<1> QED BY <1>5, <1>6

LEMMA StoreCheckKeeps ==
  ASSUME IInv, StoreCheck
  PROVE  IInv'
<1> USE DEF IInv
<1>1. running.step = "run" /\ running \in Tasks
  BY RunningFacts DEF StoreCheck, Runs
<1>2. /\ running' \in Tasks /\ events' \in Seq(Signals)
      /\ running'.step = "writing" => running'.item.gen = generation
  <2>1. CASE running.item.gen = generation
    BY <1>1, <2>1 DEF StoreCheck, Tasks, TypeOK
  <2>2. CASE running.item.gen # generation
    BY <1>1, <2>2, SignalledType, EmittedType DEF StoreCheck
  <2> QED BY <2>1, <2>2
<1>3. TypeOK'
  BY <1>2 DEF StoreCheck, TypeOK, requests
<1>4. Counted' /\ Generations'
  BY <1>2 DEF StoreCheck, Counted, Generations, TypeOK, requests
<1> QED BY <1>3, <1>4

LEMMA StoreWriteKeeps ==
  ASSUME IInv, StoreWrite
  PROVE  IInv'
<1> USE DEF IInv
<1>1. running.step = "writing" /\ running \in Tasks /\ Package \in Packages
  BY RunningFacts DEF StoreWrite, Runs
<1>2. /\ running' \in Tasks /\ running'.step = "emitted"
      /\ events' \in Seq(Signals)
  BY <1>1, SignalledType, EmittedType DEF StoreWrite
<1>3. Entry(running.item) \in [update : {0} \cup Updates, gen : Nat]
      /\ Entry(running.item).gen >= cleared
  BY <1>1 DEF Entry, Tasks, Items, Updates, Generations
<1>4. /\ disk' \in [Packages -> [update : {0} \cup Updates, gen : Nat]]
      /\ \A p \in Packages : disk'[p] # NoEntry => disk'[p].gen >= cleared
  <2>1. CASE UNCHANGED disk
    BY <2>1 DEF TypeOK, Generations
  <2>2. ASSUME NEW out \in SUBSET (Packages \ {Package}),
               disk' = [p \in Packages |->
                          IF p \in out THEN NoEntry
                          ELSE [disk EXCEPT ![Package] = Entry(running.item)][p]]
        PROVE  <1>4!2 /\ <1>4!1
    <3>1. \A p \in Packages :
            disk'[p] \in {NoEntry, disk[p], Entry(running.item)}
      BY <2>2, <1>1 DEF TypeOK
    <3>2. NoEntry \in [update : {0} \cup Updates, gen : Nat]
      BY DEF NoEntry
    <3>3. \A p \in Packages : disk[p] \in [update : {0} \cup Updates, gen : Nat]
      BY DEF TypeOK
    <3>4. \A p \in Packages : disk'[p] \in [update : {0} \cup Updates, gen : Nat]
      BY <3>1, <3>2, <3>3, <1>3
    <3> QED BY <2>2, <3>1, <3>4, <1>3 DEF Generations
  <2> QED BY <2>1, <2>2 DEF StoreWrite
<1>5. TypeOK'
  BY <1>2, <1>4 DEF StoreWrite, TypeOK, requests
<1>6. Counted' /\ Generations'
  BY <1>2, <1>4 DEF StoreWrite, Counted, Generations, requests
<1> QED BY <1>5, <1>6

LEMMA ReturnKeeps ==
  ASSUME IInv, Return
  PROVE  IInv'
<1> USE DEF IInv
<1>1. /\ pool' \in Seq(NewTasks) /\ running' \in Tasks \cup {Idle}
      /\ running'.step # "writing"
  <2>1. CASE pool = <<>>
    BY <2>1 DEF Return, TypeOK, Idle
  <2>2. CASE pool # <<>>
    <3>1. pool \in Seq(NewTasks) /\ running' = Head(pool) /\ pool' = Tail(pool)
      BY <2>2 DEF Return, TypeOK
    <3>2. Head(pool) \in NewTasks /\ Tail(pool) \in Seq(NewTasks)
      BY <2>2, <3>1, HeadTailProperties
    <3> QED BY <3>1, <3>2 DEF NewTasks
  <2> QED BY <2>1, <2>2
<1>2. TypeOK'
  BY <1>1 DEF Return, TypeOK, requests
<1>3. Counted' /\ Generations'
  BY <1>1 DEF Return, Counted, Generations, requests
<1> QED BY <1>2, <1>3

-----------------------------------------------------------------------------
(* The theorems. *)

LEMMA NextKeeps == IInv /\ [Next]_vars => IInv'
<1> SUFFICES ASSUME IInv, [Next]_vars PROVE IInv'
  OBVIOUS
<1>1. ASSUME NEW k \in Keys, Ask(k) PROVE IInv'
  BY <1>1, AskKeeps
<1>2. ASSUME NEW item \in replies, Finish(item) PROVE IInv'
  BY <1>2, FinishIconKeeps, FinishFailedKeeps DEF Finish
<1>3. CASE Handle
  BY <1>3, LoadedStaleKeeps, LoadedHitKeeps, LoadedMissKeeps, StoredKeeps, ClearDoneKeeps,
     ClearTimesOutKeeps DEF Handle
<1>4. CASE ClearFails
  BY <1>4, ClearFailsKeeps
<1>5. CASE CheckBusy
  BY <1>5, CheckBusyKeeps
<1>6. CASE BeginGeneration
  BY <1>6, BeginGenerationKeeps
<1>7. CASE ClearBegins
  BY <1>7, ClearBeginsKeeps
<1>8. CASE DiskThread
  BY <1>8, LoadKeeps, StoreCheckKeeps, StoreWriteKeeps, ReturnKeeps DEF DiskThread
<1>9. CASE UNCHANGED vars
  BY <1>9 DEF vars, requests, thread, IInv, TypeOK, Counted, Generations
<1> QED BY <1>1, <1>2, <1>3, <1>4, <1>5, <1>6, <1>7, <1>8, <1>9 DEF Next

LEMMA Inductive == Spec => []IInv
<1>1. Init => IInv
  BY InitIInv
<1>2. IInv /\ [Next]_vars => IInv'
  BY NextKeeps
<1> QED BY <1>1, <1>2, PTL DEF Spec

(* Every variable of the loader keeps its type, the count of downloads and *)
(* the steps of the tasks included.                                        *)
THEOREM TypeCorrect == Spec => []TypeOK
BY Inductive, PTL DEF IInv

(* No lookup, download or store of a retired generation fills the memory   *)
(* or the disk cache after clear_cache has succeeded.                      *)
THEOREM OldWorkStaysOut == Spec => []ClearedStaysClear
<1>1. IInv => ClearedStaysClear
  BY DEF IInv, Generations, ClearedStaysClear
<1> QED BY <1>1, Inductive, PTL

(* Whenever a request, a download or the disk thread is at work, the       *)
(* window has been told so.                                                *)
THEOREM BusyIsReported == Spec => []WorkIsReported
<1> USE DEF WorkIsReported, Busy
<1>1. Init => WorkIsReported
  BY DEF Init, HasWork
<1>2. WorkIsReported /\ [Next]_vars => WorkIsReported'
  <2> SUFFICES ASSUME WorkIsReported, [Next]_vars PROVE WorkIsReported'
    OBVIOUS
  <2>1. CASE Notify
    BY <2>1 DEF Notify, HasWork
  <2>2. CASE LoadedStale \/ Stored \/ ClearFails
    BY <2>2 DEF LoadedStale, Stored, ClearFails, HasWork, requests, thread
  <2>3. CASE LoadedHit
    <3>1. /\ pending' \subseteq pending
          /\ UNCHANGED <<queued, replies, reported, running>>
      BY <2>3 DEF LoadedHit, thread
    <3> QED BY <3>1 DEF HasWork
  <2>4. CASE DiskThread
    <3>1. running.step \in {"run", "writing", "emitted"} /\ UNCHANGED reported
      BY <2>4 DEF DiskThread, Load, StoreCheck, StoreWrite, Return, Runs
    <3>2. running # Idle
      BY <3>1 DEF Idle
    <3> QED BY <3>1, <3>2 DEF HasWork
  <2>5. CASE UNCHANGED vars
    BY <2>5 DEF vars, requests, thread, HasWork
  <2> QED BY <2>1, <2>2, <2>3, <2>4, <2>5 DEF Next, Ask, Finish, FinishIcon, FinishFailed,
             Handle, LoadedMiss, ClearDone, ClearTimesOut, CheckBusy, BeginGeneration,
             ClearBegins, Retire
<1> QED BY <1>1, <1>2, PTL DEF Spec

-----------------------------------------------------------------------------
(***************************************************************************)
(* Where a request is.  Each item of the current generation is at one      *)
(* place if it is pending and at none if it is not; what is older is in    *)
(* the running task and in signals only.  That two icons asked for one     *)
(* after the other may be the same item is why nothing of it may be left   *)
(* behind when it stops to be pending.                                     *)
(***************************************************************************)
InPool(i)   == \E n \in DOMAIN pool : pool[n] = Task("load", i)
OnThread(i) == running = Task("load", i)
InEvents(i) == \E n \in DOMAIN events : events[n].kind = "loaded" /\ events[n].item = i
InQueue(i)  == \E n \in DOMAIN queued : queued[n] = i
One(b)      == IF b THEN 1 ELSE 0
Places(i)   == One(InPool(i)) + One(OnThread(i)) + One(InEvents(i)) + One(InQueue(i))
                 + One(i \in replies)

Ages ==
  /\ \A i \in pending \cup replies : i.gen = generation
  /\ \A n \in DOMAIN queued : queued[n].gen = generation
  /\ \A n \in DOMAIN pool : pool[n].kind = "load" => pool[n].item.gen = generation
  /\ \A n \in DOMAIN events : events[n].kind = "loaded" => events[n].item.gen <= generation
  /\ running.kind = "load" => running.item.gen <= generation

Current == {Item(k, generation) : k \in Keys}
Placed  == \A i \in Current : Places(i) = One(i \in pending)

Distinct ==
  /\ \A i, j \in pending : i.key = j.key => i = j
  /\ \A m, n \in DOMAIN pool : pool[m].kind = "load" /\ pool[m] = pool[n] => m = n
  /\ \A m, n \in DOMAIN queued : queued[m] = queued[n] => m = n
  /\ \A m, n \in DOMAIN events :
       /\ events[m].kind = "loaded" /\ events[n].kind = "loaded"
       /\ events[m].item = events[n].item /\ events[m].item.gen = generation
       => m = n

Bounds ==
  /\ IsFiniteSet(pending) /\ Cardinality(pending) <= MaxPending
  /\ IsFiniteSet(memory) /\ Cardinality(memory) <= MaxCache
  /\ active = Cardinality(replies)
  /\ Cardinality(InIndex(disk)) <= MaxDisk

PlaceInv == Ages /\ Placed /\ Distinct /\ Bounds

LEMMA CurrentFacts ==
  ASSUME TypeOK
  PROVE  Current \subseteq Items /\ \A i \in Items : i \in Current <=> i.gen = generation
BY DEF TypeOK, Current, Item, Items

LEMMA Longer ==
  ASSUME NEW S, NEW s \in Seq(S), NEW e \in S
  PROVE  /\ Len(s) \in Nat /\ DOMAIN s = 1..Len(s)
         /\ DOMAIN Append(s, e) = 1..(Len(s) + 1)
         /\ \A n \in 1..Len(s) : Append(s, e)[n] = s[n]
         /\ Append(s, e)[Len(s) + 1] = e
BY LenProperties, AppendProperties

LEMMA Shorter ==
  ASSUME NEW S, NEW s \in Seq(S), s # <<>>
  PROVE  /\ Len(s) \in Nat \ {0} /\ DOMAIN s = 1..Len(s)
         /\ DOMAIN Tail(s) = 1..(Len(s) - 1)
         /\ \A n \in 1..(Len(s) - 1) : Tail(s)[n] = s[n + 1]
         /\ Head(s) = s[1]
BY LenProperties, HeadTailProperties, EmptySeq

(* An item of now that is at one place is at no other. *)
LEMMA OneAtMost ==
  ASSUME TypeOK, Placed, NEW i \in Items, i.gen = generation
  PROVE  /\ i \notin pending =>
              ~InPool(i) /\ ~OnThread(i) /\ ~InEvents(i) /\ ~InQueue(i) /\ i \notin replies
         /\ InPool(i) =>
              i \in pending /\ ~OnThread(i) /\ ~InEvents(i) /\ ~InQueue(i) /\ i \notin replies
         /\ OnThread(i) =>
              i \in pending /\ ~InPool(i) /\ ~InEvents(i) /\ ~InQueue(i) /\ i \notin replies
         /\ InEvents(i) =>
              i \in pending /\ ~InPool(i) /\ ~OnThread(i) /\ ~InQueue(i) /\ i \notin replies
         /\ InQueue(i) =>
              i \in pending /\ ~InPool(i) /\ ~OnThread(i) /\ ~InEvents(i) /\ i \notin replies
         /\ i \in replies =>
              i \in pending /\ ~InPool(i) /\ ~OnThread(i) /\ ~InEvents(i) /\ ~InQueue(i)
<1>1. Places(i) = One(i \in pending)
  BY CurrentFacts DEF Placed
<1> QED BY <1>1 DEF Places, One

(* A task that is started is at one place, if its item was at none. *)
LEMMA TaskStarted ==
  ASSUME TypeOK, NEW task \in NewTasks, StartTask(task)
  PROVE  /\ \A i \in Items : task # Task("load", i) =>
              (InPool(i)' <=> InPool(i)) /\ (OnThread(i)' <=> OnThread(i))
         /\ \A i \in Items : task = Task("load", i) /\ ~InPool(i) /\ ~OnThread(i) =>
              (InPool(i)' <=> ~OnThread(i)')
         /\ running' = running \/ running' = task
         /\ \A n \in DOMAIN pool' : pool'[n] = task \/ \E m \in DOMAIN pool : pool'[n] = pool[m]
<1>1. CASE running = Idle
  BY <1>1 DEF StartTask, InPool, OnThread, Idle, Task
<1>2. CASE running # Idle
  <2>1. pool' = Append(pool, task) /\ running' = running
    BY <1>2 DEF StartTask
  <2>2. /\ Len(pool) \in Nat /\ DOMAIN pool = 1..Len(pool) /\ DOMAIN pool' = 1..(Len(pool) + 1)
        /\ \A n \in 1..Len(pool) : pool'[n] = pool[n]
        /\ pool'[Len(pool) + 1] = task
    BY <2>1, Longer DEF TypeOK
  <2>3. \A i : InPool(i)' <=> InPool(i) \/ task = Task("load", i)
    BY <2>2 DEF InPool
  <2>4. \A i : OnThread(i)' <=> OnThread(i)
    BY <2>1 DEF OnThread
  <2> QED BY <2>1, <2>2, <2>3, <2>4
<1> QED BY <1>1, <1>2

LEMMA StartedDistinct ==
  ASSUME TypeOK, Distinct, NEW task \in NewTasks, StartTask(task),
         task.kind = "load" => ~InPool(task.item)
  PROVE  \A m, n \in DOMAIN pool' : pool'[m].kind = "load" /\ pool'[m] = pool'[n] => m = n
<1>1. CASE running = Idle
  BY <1>1 DEF StartTask, Distinct
<1>2. CASE running # Idle
  <2>1. pool' = Append(pool, task)
    BY <1>2 DEF StartTask
  <2>2. /\ Len(pool) \in Nat /\ DOMAIN pool = 1..Len(pool) /\ DOMAIN pool' = 1..(Len(pool) + 1)
        /\ \A n \in 1..Len(pool) : pool'[n] = pool[n]
        /\ pool'[Len(pool) + 1] = task
    BY <2>1, Longer DEF TypeOK
  <2>3. task.kind = "load" => \A n \in 1..Len(pool) : pool[n] # task
    <3>1. task.kind = "load" => task = Task("load", task.item)
      BY DEF NewTasks, Tasks, Task
    <3> QED BY <3>1, <2>2 DEF InPool
  <2>4. \A m, n \in 1..Len(pool) : pool[m].kind = "load" /\ pool[m] = pool[n] => m = n
    BY <2>2 DEF Distinct
  <2> QED BY <2>2, <2>3, <2>4
<1> QED BY <1>1, <1>2

LEMMA AskPlaces ==
  ASSUME TypeOK, Ages, Placed, Distinct, NEW k \in Keys, Ask(k)
  PROVE  (Ages /\ Placed /\ Distinct)'
<1> DEFINE new == Item(k, generation)
<1>1. /\ new \in Items /\ new.gen = generation /\ new.key = k
      /\ Task("load", new) \in NewTasks /\ Task("load", new).item = new
      /\ \A i : Task("load", new) = Task("load", i) <=> i = new
  BY KeyFacts DEF Item, Task
<1>2. /\ pending' = pending \cup {new} /\ StartTask(Task("load", new))
      /\ UNCHANGED <<generation, queued, replies, events>>
      /\ \A i \in pending : i.key # k
  BY DEF Ask, MayAsk, IsPending
<1> HIDE DEF new
<1>3. new \notin pending
  BY <1>1, <1>2
<1>4. ~InPool(new) /\ ~OnThread(new) /\ ~InEvents(new) /\ ~InQueue(new) /\ new \notin replies
  BY <1>1, <1>3, OneAtMost
<1>5. Ages'
  <2>1. running'.kind = "load" => running'.item.gen <= generation'
    BY <1>1, <1>2, TaskStarted DEF Ages, TypeOK
  <2>2. \A n \in DOMAIN pool' : pool'[n].kind = "load" => pool'[n].item.gen = generation'
    BY <1>1, <1>2, TaskStarted DEF Ages
  <2> QED BY <1>1, <1>2, <2>1, <2>2 DEF Ages
<1>6. Placed'
  <2> SUFFICES ASSUME NEW i \in Current PROVE Places(i)' = One(i \in pending)'
    BY <1>2 DEF Placed, Current
  <2>1. i \in Items /\ i.gen = generation
    BY CurrentFacts
  <2>2. /\ InEvents(i)' <=> InEvents(i)
        /\ InQueue(i)' <=> InQueue(i)
        /\ i \in replies' <=> i \in replies
    BY <1>2 DEF InEvents, InQueue
  <2>3. CASE i = new
    <3>1. InPool(i)' <=> ~OnThread(i)'
      BY <1>1, <1>2, <1>4, <2>3, TaskStarted
    <3> QED BY <3>1, <1>2, <1>4, <2>2, <2>3 DEF Places, One
  <2>4. CASE i # new
    <3>1. (InPool(i)' <=> InPool(i)) /\ (OnThread(i)' <=> OnThread(i))
      BY <1>1, <1>2, <2>1, <2>4, TaskStarted
    <3>2. Places(i) = One(i \in pending)
      BY DEF Placed
    <3> QED BY <3>1, <3>2, <1>2, <2>2, <2>4 DEF Places, One
  <2> QED BY <2>3, <2>4
<1>7. Distinct'
  <2>1. \A m, n \in DOMAIN pool' : pool'[m].kind = "load" /\ pool'[m] = pool'[n] => m = n
    BY <1>1, <1>2, <1>4, StartedDistinct
  <2>2. \A i, j \in pending' : i.key = j.key => i = j
    BY <1>1, <1>2 DEF Distinct
  <2> QED BY <1>2, <2>1, <2>2 DEF Distinct
<1> QED BY <1>5, <1>6, <1>7

(* Signals: the first is taken, or one is added. *)
LEMMA SignalTaken ==
  ASSUME TypeOK, Distinct, events # <<>>, events' = Tail(events)
  PROVE  /\ Signal \in Signals
         /\ \A i : InEvents(i) <=> InEvents(i)' \/ (Signal.kind = "loaded" /\ Signal.item = i)
         /\ \A n \in DOMAIN events' : \E m \in DOMAIN events : events'[n] = events[m]
         /\ \A i : Signal.kind = "loaded" /\ Signal.item = i /\ i.gen = generation
              => ~InEvents(i)'
         /\ Signal.kind = "loaded" => InEvents(Signal.item)
         /\ \A m, n \in DOMAIN events' :
              /\ events'[m].kind = "loaded" /\ events'[n].kind = "loaded"
              /\ events'[m].item = events'[n].item /\ events'[m].item.gen = generation
              => m = n
<1>1. /\ Len(events) \in Nat \ {0} /\ DOMAIN events = 1..Len(events)
      /\ DOMAIN events' = 1..(Len(events) - 1)
      /\ \A n \in 1..(Len(events) - 1) : events'[n] = events[n + 1]
      /\ Signal = events[1]
  BY Shorter DEF TypeOK, Signal
<1>2. Signal \in Signals
  BY SignalFacts
<1>3. \A i : InEvents(i) <=> InEvents(i)' \/ (Signal.kind = "loaded" /\ Signal.item = i)
  <2> SUFFICES ASSUME NEW i
               PROVE  InEvents(i) <=>
                        InEvents(i)' \/ (Signal.kind = "loaded" /\ Signal.item = i)
    OBVIOUS
  <2>1. ASSUME InEvents(i) PROVE InEvents(i)' \/ (Signal.kind = "loaded" /\ Signal.item = i)
    <3>1. PICK n \in 1..Len(events) : events[n].kind = "loaded" /\ events[n].item = i
      BY <1>1, <2>1 DEF InEvents
    <3>2. CASE n = 1
      BY <1>1, <3>1, <3>2
    <3>3. CASE n # 1
      <4>1. n - 1 \in 1..(Len(events) - 1) /\ events'[n - 1] = events[n]
        BY <1>1, <3>3
      <4> QED BY <1>1, <3>1, <4>1 DEF InEvents
    <3> QED BY <3>2, <3>3
  <2>2. ASSUME InEvents(i)' PROVE InEvents(i)
    BY <1>1, <2>2 DEF InEvents
  <2>3. ASSUME Signal.kind = "loaded" /\ Signal.item = i PROVE InEvents(i)
    BY <1>1, <2>3 DEF InEvents
  <2> QED BY <2>1, <2>2, <2>3
<1>4. \A m, n \in 1..Len(events) :
        /\ events[m].kind = "loaded" /\ events[n].kind = "loaded"
        /\ events[m].item = events[n].item /\ events[m].item.gen = generation
        => m = n
  BY <1>1 DEF Distinct
<1>5. \A i : Signal.kind = "loaded" /\ Signal.item = i /\ i.gen = generation => ~InEvents(i)'
  <2>1. ASSUME Signal.kind = "loaded", Signal.item.gen = generation,
               NEW n \in DOMAIN events', events'[n].kind = "loaded",
               events'[n].item = Signal.item
        PROVE  FALSE
    <3>1. /\ n + 1 \in 1..Len(events) /\ 1 \in 1..Len(events) /\ n + 1 # 1
          /\ events[n + 1] = events'[n]
      BY <1>1, <2>1
    <3> QED BY <1>1, <1>4, <2>1, <3>1
  <2> QED BY <2>1 DEF InEvents
<1>6. \A m, n \in DOMAIN events' :
        /\ events'[m].kind = "loaded" /\ events'[n].kind = "loaded"
        /\ events'[m].item = events'[n].item /\ events'[m].item.gen = generation
        => m = n
  BY <1>1, <1>4
<1>7. \A n \in DOMAIN events' : \E m \in DOMAIN events : events'[n] = events[m]
  BY <1>1
<1> QED BY <1>2, <1>3, <1>5, <1>6, <1>7

LEMMA SignalAdded ==
  ASSUME TypeOK, Distinct, NEW signal \in Signals, events' = Append(events, signal),
         signal.kind = "loaded" /\ signal.item.gen = generation => ~InEvents(signal.item)
  PROVE  /\ \A i : InEvents(i)' <=> InEvents(i) \/ (signal.kind = "loaded" /\ signal.item = i)
         /\ \A n \in DOMAIN events' :
              events'[n] = signal \/ \E m \in DOMAIN events : events'[n] = events[m]
         /\ \A m, n \in DOMAIN events' :
              /\ events'[m].kind = "loaded" /\ events'[n].kind = "loaded"
              /\ events'[m].item = events'[n].item /\ events'[m].item.gen = generation
              => m = n
<1>1. /\ Len(events) \in Nat /\ DOMAIN events = 1..Len(events)
      /\ DOMAIN events' = 1..(Len(events) + 1)
      /\ \A n \in 1..Len(events) : events'[n] = events[n]
      /\ events'[Len(events) + 1] = signal
  BY Longer DEF TypeOK
<1>2. \A i : InEvents(i)' <=> InEvents(i) \/ (signal.kind = "loaded" /\ signal.item = i)
  BY <1>1 DEF InEvents
<1>3. \A m, n \in 1..Len(events) :
        /\ events[m].kind = "loaded" /\ events[n].kind = "loaded"
        /\ events[m].item = events[n].item /\ events[m].item.gen = generation
        => m = n
  BY <1>1 DEF Distinct
<1>4. signal.kind = "loaded" /\ signal.item.gen = generation =>
        \A n \in 1..Len(events) : events[n].kind = "loaded" => events[n].item # signal.item
  BY <1>1 DEF InEvents
<1>5. ASSUME NEW m \in DOMAIN events', NEW n \in DOMAIN events',
             events'[m].kind = "loaded", events'[n].kind = "loaded",
             events'[m].item = events'[n].item, events'[m].item.gen = generation
      PROVE  m = n
  <2>1. CASE m = Len(events) + 1 /\ n # Len(events) + 1
    BY <1>1, <1>4, <1>5, <2>1
  <2>2. CASE n = Len(events) + 1 /\ m # Len(events) + 1
    BY <1>1, <1>4, <1>5, <2>2
  <2>3. CASE m # Len(events) + 1 /\ n # Len(events) + 1
    BY <1>1, <1>3, <1>5, <2>3
  <2> QED BY <2>1, <2>2, <2>3
<1> QED BY <1>1, <1>2, <1>5

(* Downloads that start: they leave the queue, and the count counts them. *)
LEMMA PumpPlaces ==
  ASSUME NEW q \in Seq(Items), NEW r \in SUBSET Items, IsFiniteSet(r), NEW a \in Nat,
         a = Cardinality(r), a <= MaxActive, Pump(q, r, a),
         \A m, n \in DOMAIN q : q[m] = q[n] => m = n,
         \A n \in DOMAIN q : q[n] \notin r
  PROVE  /\ \A i : (\E n \in DOMAIN q : q[n] = i) \/ i \in r <=> InQueue(i)' \/ i \in replies'
         /\ \A i : ~(InQueue(i)' /\ i \in replies')
         /\ \A m, n \in DOMAIN queued' : queued'[m] = queued'[n] => m = n
         /\ active' = Cardinality(replies')
<1> DEFINE taken == Lesser(Len(q), MaxActive - a)
           T == {q[i] : i \in 1..taken}
<1>1. /\ taken \in 0..Len(q) /\ taken \in Nat /\ Len(q) \in Nat /\ DOMAIN q = 1..Len(q)
  BY ConstantsAssumption, LenProperties DEF Lesser
<1>2. queued' = SubSeq(q, taken + 1, Len(q)) /\ replies' = r \cup T /\ active' = a + taken
  BY DEF Pump
<1> HIDE DEF taken
<1>3. /\ DOMAIN queued' = 1..(Len(q) - taken)
      /\ \A m \in 1..(Len(q) - taken) : queued'[m] = q[taken + m]
  <2>1. queued' \in Seq(Items) /\ Len(queued') = Len(q) - taken
        /\ \A m \in 1..(Len(q) - taken) : queued'[m] = q[taken + m]
    <3>1. taken + 1 \in Int /\ Len(q) \in Int /\ \A i \in taken + 1..Len(q) : q[i] \in Items
      BY <1>1, ElementOfSeq
    <3>2. /\ SubSeq(q, taken + 1, Len(q)) \in Seq(Items)
          /\ Len(SubSeq(q, taken + 1, Len(q))) =
               IF taken + 1 <= Len(q) THEN Len(q) - (taken + 1) + 1 ELSE 0
          /\ \A i \in 1..(Len(q) - (taken + 1) + 1) :
               SubSeq(q, taken + 1, Len(q))[i] = q[taken + 1 + i - 1]
      BY <3>1, SubSeqProperties
    <3> DEFINE rest == SubSeq(q, taken + 1, Len(q))
    <3> HIDE DEF rest
    <3>3. queued' \in Seq(Items) /\ Len(queued') = Len(q) - taken
      <4>1. /\ rest \in Seq(Items)
            /\ Len(rest) = IF taken + 1 <= Len(q) THEN Len(q) - (taken + 1) + 1 ELSE 0
        BY <3>2 DEF rest
      <4>2. queued' = rest
        BY <1>2 DEF rest
      <4>3. Len(rest) = Len(q) - taken
        <5>1. CASE taken < Len(q)
          <6>1. taken + 1 <= Len(q) /\ Len(q) - (taken + 1) + 1 = Len(q) - taken
            BY <1>1, <5>1
          <6> QED BY <4>1, <6>1
        <5>2. CASE taken = Len(q)
          <6>1. ~(taken + 1 <= Len(q)) /\ Len(q) - taken = 0
            BY <1>1, <5>2
          <6> QED BY <4>1, <6>1
        <5>3. taken \in Nat /\ Len(q) \in Nat /\ taken <= Len(q)
          BY <1>1
        <5>4. taken < Len(q) \/ taken = Len(q)
          BY <5>3
        <5> QED BY <5>1, <5>2, <5>4
      <4> QED BY <4>1, <4>2, <4>3
    <3>4. ASSUME NEW i \in 1..(Len(q) - taken) PROVE queued'[i] = q[taken + i]
      <4>1. i \in 1..(Len(q) - (taken + 1) + 1) /\ taken + 1 + i - 1 = taken + i
        BY <1>1, <3>4
      <4> QED BY <1>2, <3>2, <4>1
    <3> QED BY <3>3, <3>4
  <2> QED BY <1>1, <2>1, LenProperties
<1>4. IsFiniteSet(T) /\ Cardinality(T) = taken
  <2> DEFINE f == [i \in 1..taken |-> q[i]]
  <2>1. f \in Surjection(1..taken, T)
    BY DEF Surjection
  <2>2. f \in Injection(1..taken, T)
    <3>1. \A l, m \in 1..taken : q[l] = q[m] => l = m
      BY <1>1
    <3> QED BY <3>1 DEF Injection, IsInjective
  <2>3. IsFiniteSet(1..taken) /\ Cardinality(1..taken) = taken
    BY <1>1, FS_Interval
  <2> HIDE DEF f, T
  <2> QED BY <2>1, <2>2, <2>3, FS_Surjection
<1>5. r \cap T = {}
  BY <1>1
<1>6. active' = Cardinality(replies')
  <2> HIDE DEF T
  <2>1. Cardinality(r \cup T) = Cardinality(r) + Cardinality(T) - Cardinality({})
    BY <1>4, <1>5, FS_Union
  <2> QED BY <1>1, <1>2, <1>4, <2>1, FS_EmptySet, FS_CardinalityType
<1>7. \A i : (\E m \in DOMAIN q : q[m] = i) <=> InQueue(i)' \/ i \in T
  <2> SUFFICES ASSUME NEW i
               PROVE  (\E m \in DOMAIN q : q[m] = i) <=> InQueue(i)' \/ i \in T
    OBVIOUS
  <2>1. ASSUME NEW m \in DOMAIN q, q[m] = i PROVE InQueue(i)' \/ i \in T
    <3>1. CASE m <= taken
      BY <1>1, <2>1, <3>1
    <3>2. CASE m > taken
      <4>1. m - taken \in 1..(Len(q) - taken) /\ queued'[m - taken] = q[m]
        BY <1>1, <1>3, <3>2
      <4> QED BY <1>3, <2>1, <4>1 DEF InQueue
    <3> QED BY <1>1, <3>1, <3>2
  <2>2. ASSUME InQueue(i)' PROVE \E m \in DOMAIN q : q[m] = i
    BY <1>1, <1>3, <2>2 DEF InQueue
  <2>3. ASSUME i \in T PROVE \E m \in DOMAIN q : q[m] = i
    BY <1>1, <2>3
  <2> QED BY <2>1, <2>2, <2>3
<1>8. \A i : ~(InQueue(i)' /\ i \in r \cup T)
  <2>1. ASSUME NEW m \in 1..(Len(q) - taken) PROVE q[taken + m] \notin r \cup T
    <3>1. taken + m \in DOMAIN q /\ \A l \in 1..taken : l \in DOMAIN q /\ l # taken + m
      BY <1>1, <2>1
    <3>2. \A l \in 1..taken : q[l] # q[taken + m]
      BY <3>1
    <3> QED BY <3>1, <3>2
  <2> QED BY <1>3, <2>1 DEF InQueue
<1>9. \A l, m \in DOMAIN queued' : queued'[l] = queued'[m] => l = m
  BY <1>1, <1>3
<1> QED BY <1>2, <1>6, <1>7, <1>8, <1>9

LEMMA UntouchedPlaces ==
  ASSUME Ages, Placed, Distinct,
         UNCHANGED <<generation, pending, queued, replies, pool, running, events>>
  PROVE  (Ages /\ Placed /\ Distinct)'
<1>1. Ages' /\ Distinct'
  BY DEF Ages, Distinct
<1>2. Placed'
  <2> SUFFICES ASSUME NEW i \in Current PROVE Places(i)' = One(i \in pending)'
    BY DEF Placed, Current
  <2> QED BY DEF Placed, Places, InPool, OnThread, InEvents, InQueue, One
<1> QED BY <1>1, <1>2

(* A signal nobody waits for, or one that a store has ended. *)
LEMMA IgnoredPlaces ==
  ASSUME TypeOK, Ages, Placed, Distinct, LoadedStale \/ Stored
  PROVE  (Ages /\ Placed /\ Distinct)'
<1>1. /\ UNCHANGED <<generation, pending, queued, replies, pool, running>>
      /\ events # <<>> /\ events' = Tail(events)
  BY DEF LoadedStale, Stored, Deliver, requests, thread
<1>2. \A i \in Items : Signal.kind = "loaded" /\ Signal.item = i => i.gen # generation
  <2>1. ASSUME NEW i \in Items, Signal.kind = "loaded", Signal.item = i, i.gen = generation
        PROVE  FALSE
    <3>1. LoadedStale /\ i \notin pending
      BY <2>1 DEF LoadedStale, Stored, Deliver, IsCurrent
    <3>2. InEvents(i)
      BY <1>1, <2>1, SignalTaken
    <3> QED BY <2>1, <3>1, <3>2, OneAtMost
  <2> QED BY <2>1
<1>3. Ages'
  BY <1>1, SignalTaken DEF Ages
<1>4. Placed'
  <2> SUFFICES ASSUME NEW i \in Current PROVE Places(i)' = One(i \in pending)'
    BY <1>1 DEF Placed, Current
  <2>1. i \in Items /\ i.gen = generation /\ Places(i) = One(i \in pending)
    BY CurrentFacts DEF Placed
  <2>2. InEvents(i)' <=> InEvents(i)
    BY <1>1, <1>2, <2>1, SignalTaken
  <2> QED BY <1>1, <2>1, <2>2 DEF Places, InPool, OnThread, InQueue, One
<1>5. Distinct'
  BY <1>1, SignalTaken DEF Distinct
<1> QED BY <1>3, <1>4, <1>5

LEMMA LoadedHitPlaces ==
  ASSUME TypeOK, Ages, Placed, Distinct, LoadedHit
  PROVE  (Ages /\ Placed /\ Distinct)'
<1> DEFINE it == Signal.item
<1>1. /\ UNCHANGED <<generation, queued, replies, pool, running>>
      /\ events # <<>> /\ events' = Tail(events) /\ pending' = pending \ {it}
      /\ Signal.kind = "loaded" /\ it.gen = generation /\ it \in pending
  BY DEF LoadedHit, Deliver, IsCurrent, thread
<1>2. it \in Items
  BY <1>1 DEF TypeOK
<1> HIDE DEF it
<1>3. Signal.item = it
  BY DEF it
<1>4. Ages'
  BY <1>1, SignalTaken DEF Ages
<1>5. Placed'
  <2> SUFFICES ASSUME NEW i \in Current PROVE Places(i)' = One(i \in pending)'
    BY <1>1 DEF Placed, Current
  <2>1. i \in Items /\ i.gen = generation /\ Places(i) = One(i \in pending)
    BY CurrentFacts DEF Placed
  <2>2. /\ InPool(i)' <=> InPool(i)
        /\ OnThread(i)' <=> OnThread(i)
        /\ InQueue(i)' <=> InQueue(i)
        /\ i \in replies' <=> i \in replies
    BY <1>1 DEF InPool, OnThread, InQueue
  <2>3. CASE i = it
    <3>1. InEvents(i) /\ ~InEvents(i)'
      BY <1>1, <1>3, <2>1, <2>3, SignalTaken
    <3>2. ~InPool(i) /\ ~OnThread(i) /\ ~InQueue(i) /\ i \notin replies
      BY <2>1, <3>1, OneAtMost
    <3> QED BY <1>1, <2>2, <2>3, <3>1, <3>2 DEF Places, One
  <2>4. CASE i # it
    <3>1. InEvents(i)' <=> InEvents(i)
      BY <1>1, <1>3, <2>4, SignalTaken
    <3> QED BY <1>1, <2>1, <2>2, <2>4, <3>1 DEF Places, One
  <2> QED BY <2>3, <2>4
<1>6. Distinct'
  BY <1>1, SignalTaken DEF Distinct
<1> QED BY <1>4, <1>5, <1>6

LEMMA LoadedMissPlaces ==
  ASSUME TypeOK, Counted, Ages, Placed, Distinct, active = Cardinality(replies), LoadedMiss
  PROVE  (Ages /\ Placed /\ Distinct)' /\ active' = Cardinality(replies')
<1> DEFINE it == Signal.item
           q  == Append(queued, it)
<1>1. /\ UNCHANGED <<generation, pending, pool, running>>
      /\ events # <<>> /\ events' = Tail(events) /\ Pump(q, replies, active)
      /\ Signal.kind = "loaded" /\ it.gen = generation /\ it \in pending
  BY DEF LoadedMiss, Deliver, IsCurrent, thread
<1>2. it \in Items
  BY <1>1 DEF TypeOK
<1> HIDE DEF it
<1>3. Signal.item = it
  BY DEF it
<1>4. InEvents(it)
  BY <1>1, <1>3, SignalTaken
<1>5. ~InPool(it) /\ ~OnThread(it) /\ ~InQueue(it) /\ it \notin replies
  BY <1>1, <1>2, <1>4, OneAtMost
<1>6. /\ Len(queued) \in Nat /\ DOMAIN queued = 1..Len(queued)
      /\ DOMAIN q = 1..(Len(queued) + 1)
      /\ \A n \in 1..Len(queued) : q[n] = queued[n]
      /\ q[Len(queued) + 1] = it
  BY <1>2, Longer DEF TypeOK
<1>7. q \in Seq(Items)
  BY <1>2, AppendProperties DEF TypeOK
<1> HIDE DEF q
<1>8. \A i : (\E n \in DOMAIN q : q[n] = i) <=> InQueue(i) \/ i = it
  BY <1>6 DEF InQueue
<1>9. \A m, n \in DOMAIN q : q[m] = q[n] => m = n
  <2>1. \A n \in 1..Len(queued) : queued[n] # it
    BY <1>5, <1>6 DEF InQueue
  <2>2. \A m, n \in 1..Len(queued) : queued[m] = queued[n] => m = n
    BY <1>6 DEF Distinct
  <2> QED BY <1>6, <2>1, <2>2
<1>10. \A n \in DOMAIN q : q[n] \notin replies
  <2> SUFFICES ASSUME NEW n \in DOMAIN q, q[n] \in replies PROVE FALSE
    OBVIOUS
  <2>1. q[n] \in Items /\ q[n].gen = generation
    BY DEF TypeOK, Ages
  <2>2. InQueue(q[n])
    BY <1>5, <1>8
  <2> QED BY <2>1, <2>2, OneAtMost
<1>11. /\ \A i : InQueue(i) \/ i = it \/ i \in replies <=> InQueue(i)' \/ i \in replies'
       /\ \A i : ~(InQueue(i)' /\ i \in replies')
       /\ \A m, n \in DOMAIN queued' : queued'[m] = queued'[n] => m = n
       /\ active' = Cardinality(replies')
  <2>1. /\ replies \in SUBSET Items /\ IsFiniteSet(replies)
        /\ active \in Nat /\ active <= MaxActive
    BY DEF TypeOK, Counted
  <2>2. /\ \A i : (\E n \in DOMAIN q : q[n] = i) \/ i \in replies
               <=> InQueue(i)' \/ i \in replies'
        /\ \A i : ~(InQueue(i)' /\ i \in replies')
        /\ \A m, n \in DOMAIN queued' : queued'[m] = queued'[n] => m = n
        /\ active' = Cardinality(replies')
    BY <1>1, <1>7, <1>9, <1>10, <2>1, PumpPlaces
  <2> QED BY <1>8, <2>2
<1>12. Ages'
  <2>1. \A i : InQueue(i) => i.gen = generation
    BY DEF InQueue, Ages
  <2>2. \A i : InQueue(i)' \/ i \in replies' => i.gen = generation
    BY <1>1, <1>11, <2>1 DEF Ages
  <2>3. \A n \in DOMAIN queued' : queued'[n].gen = generation
    BY <2>2 DEF InQueue
  <2> QED BY <1>1, <2>2, <2>3, SignalTaken DEF Ages
<1>13. Placed'
  <2> SUFFICES ASSUME NEW i \in Current PROVE Places(i)' = One(i \in pending)'
    BY <1>1 DEF Placed, Current
  <2>1. i \in Items /\ i.gen = generation /\ Places(i) = One(i \in pending)
    BY CurrentFacts DEF Placed
  <2>2. (InPool(i)' <=> InPool(i)) /\ (OnThread(i)' <=> OnThread(i))
    BY <1>1 DEF InPool, OnThread
  <2>3. CASE i = it
    <3>1. ~InEvents(i)'
      BY <1>1, <1>3, <2>1, <2>3, SignalTaken
    <3>2. (InQueue(i)' \/ i \in replies') /\ ~(InQueue(i)' /\ i \in replies')
      BY <1>11, <2>3
    <3> QED BY <1>1, <1>5, <2>2, <2>3, <3>1, <3>2 DEF Places, One
  <2>4. CASE i # it
    <3>1. InEvents(i)' <=> InEvents(i)
      BY <1>1, <1>3, <2>4, SignalTaken
    <3>2. ~(InQueue(i) /\ i \in replies)
      BY <2>1, OneAtMost
    <3>3. (InQueue(i) \/ i \in replies <=> InQueue(i)' \/ i \in replies')
          /\ ~(InQueue(i)' /\ i \in replies')
      BY <1>11, <2>4
    <3> QED BY <1>1, <2>1, <2>2, <3>1, <3>2, <3>3 DEF Places, One
  <2> QED BY <2>3, <2>4
<1>14. Distinct'
  BY <1>1, <1>11, SignalTaken DEF Distinct
<1> QED BY <1>11, <1>12, <1>13, <1>14

(* The end of a download, with or without an icon. *)
LEMMA FinishPlaces ==
  ASSUME TypeOK, Counted, Ages, Placed, Distinct, active = Cardinality(replies),
         NEW item \in replies, FinishIcon(item) \/ FinishFailed(item)
  PROVE  (Ages /\ Placed /\ Distinct)' /\ active' = Cardinality(replies')
<1> DEFINE r == replies \ {item}
<1>1. /\ UNCHANGED <<generation, events>> /\ pending' = pending \ {item}
      /\ Pump(queued, r, Released(1))
      /\ UNCHANGED <<pool, running>> \/ StartTask(Task("store", item))
  BY DEF FinishIcon, FinishFailed, Settled, thread
<1>2. /\ item \in Items /\ item.gen = generation /\ item \in pending
      /\ ~InPool(item) /\ ~OnThread(item) /\ ~InEvents(item) /\ ~InQueue(item)
  <2>1. item \in Items /\ item.gen = generation
    BY DEF TypeOK, Ages
  <2> QED BY <2>1, OneAtMost
<1>3. IsFiniteSet(r) /\ Cardinality(r) = Cardinality(replies) - 1
  BY FS_RemoveElement DEF Counted
<1>4. Cardinality(r) \in Nat /\ r \in SUBSET Items
  BY <1>3, FS_CardinalityType DEF TypeOK
<1> HIDE DEF r
<1>5. Released(1) = Cardinality(r) /\ Released(1) <= MaxActive
  BY <1>3, <1>4, ConstantsAssumption DEF Released, TypeOK, Counted
<1>6. \A n \in DOMAIN queued : queued[n] \notin r
  <2> SUFFICES ASSUME NEW n \in DOMAIN queued, queued[n] \in replies PROVE FALSE
    BY DEF r
  <2>1. queued[n] \in Items /\ queued[n].gen = generation
    BY DEF TypeOK, Ages
  <2>2. InQueue(queued[n])
    BY DEF InQueue
  <2> QED BY <2>1, <2>2, OneAtMost
<1>7. /\ \A i : InQueue(i) \/ i \in r <=> InQueue(i)' \/ i \in replies'
      /\ \A i : ~(InQueue(i)' /\ i \in replies')
      /\ \A m, n \in DOMAIN queued' : queued'[m] = queued'[n] => m = n
      /\ active' = Cardinality(replies')
  <2>1. queued \in Seq(Items) /\ \A m, n \in DOMAIN queued : queued[m] = queued[n] => m = n
    BY DEF TypeOK, Distinct
  <2>2. /\ \A i : (\E n \in DOMAIN queued : queued[n] = i) \/ i \in r
               <=> InQueue(i)' \/ i \in replies'
        /\ \A i : ~(InQueue(i)' /\ i \in replies')
        /\ \A m, n \in DOMAIN queued' : queued'[m] = queued'[n] => m = n
        /\ active' = Cardinality(replies')
    BY <1>1, <1>3, <1>4, <1>5, <1>6, <2>1, PumpPlaces
  <2> QED BY <2>2 DEF InQueue
<1>8. /\ \A i \in Items : (InPool(i)' <=> InPool(i)) /\ (OnThread(i)' <=> OnThread(i))
      /\ \A m, n \in DOMAIN pool' : pool'[m].kind = "load" /\ pool'[m] = pool'[n] => m = n
      /\ \A n \in DOMAIN pool' : pool'[n].kind = "load" => pool'[n].item.gen = generation
      /\ running'.kind = "load" => running'.item.gen <= generation
  <2>1. CASE UNCHANGED <<pool, running>>
    BY <2>1 DEF InPool, OnThread, Distinct, Ages
  <2>2. CASE StartTask(Task("store", item))
    <3>1. /\ Task("store", item) \in NewTasks /\ Task("store", item).kind = "store"
          /\ \A i : Task("store", item) # Task("load", i)
      BY <1>2 DEF Task, Tasks, NewTasks
    <3>2. \A m, n \in DOMAIN pool' : pool'[m].kind = "load" /\ pool'[m] = pool'[n] => m = n
      BY <2>2, <3>1, StartedDistinct
    <3>3. \A i \in Items : (InPool(i)' <=> InPool(i)) /\ (OnThread(i)' <=> OnThread(i))
      BY <2>2, <3>1, TaskStarted
    <3>4. /\ running' = running \/ running' = Task("store", item)
          /\ \A n \in DOMAIN pool' :
               pool'[n] = Task("store", item) \/ \E m \in DOMAIN pool : pool'[n] = pool[m]
      BY <2>2, <3>1, TaskStarted
    <3> QED BY <3>1, <3>2, <3>3, <3>4 DEF Ages
  <2> QED BY <1>1, <2>1, <2>2
<1>9. Ages'
  <2>1. \A i : InQueue(i) => i.gen = generation
    BY DEF InQueue, Ages
  <2>2. \A i : InQueue(i)' \/ i \in replies' => i.gen = generation
    BY <1>7, <2>1 DEF Ages, r
  <2>3. \A n \in DOMAIN queued' : queued'[n].gen = generation
    BY <2>2 DEF InQueue
  <2> QED BY <1>1, <1>8, <2>2, <2>3 DEF Ages
<1>10. Placed'
  <2> SUFFICES ASSUME NEW i \in Current PROVE Places(i)' = One(i \in pending)'
    BY <1>1 DEF Placed, Current
  <2>1. i \in Items /\ i.gen = generation /\ Places(i) = One(i \in pending)
    BY CurrentFacts DEF Placed
  <2>2. InEvents(i)' <=> InEvents(i)
    BY <1>1 DEF InEvents
  <2>3. CASE i = item
    <3>1. ~InQueue(i)' /\ i \notin replies'
      BY <1>2, <1>7, <2>3 DEF r
    <3> QED BY <1>1, <1>2, <1>8, <2>1, <2>2, <2>3, <3>1 DEF Places, One
  <2>4. CASE i # item
    <3>1. ~(InQueue(i) /\ i \in replies)
      BY <2>1, OneAtMost
    <3>2. (InQueue(i) \/ i \in replies <=> InQueue(i)' \/ i \in replies')
          /\ ~(InQueue(i)' /\ i \in replies')
      BY <1>7, <2>4 DEF r
    <3> QED BY <1>1, <1>8, <2>1, <2>2, <2>4, <3>1, <3>2 DEF Places, One
  <2> QED BY <2>3, <2>4
<1>11. Distinct'
  <2>1. \A i, j \in pending' : i.key = j.key => i = j
    BY <1>1 DEF Distinct
  <2> QED BY <1>1, <1>7, <1>8, <2>1 DEF Distinct
<1> QED BY <1>7, <1>9, <1>10, <1>11

(* The disk thread: a lookup moves from the thread into its signal. *)
LEMMA LoadPlaces ==
  ASSUME TypeOK, Ages, Placed, Distinct, Load
  PROVE  (Ages /\ Placed /\ Distinct)'
<1> DEFINE it == running.item
<1>1. /\ UNCHANGED <<generation, pending, queued, replies, pool>>
      /\ running.step = "run" /\ running.kind = "load"
      /\ running' = [running EXCEPT !.step = "emitted"]
      /\ running \in Tasks
  BY RunningFacts DEF Load, Runs, Emitted, requests
<1>2. it \in Items /\ it.gen <= generation
  BY <1>1 DEF Tasks, Ages
<1>3. PICK hit \in BOOLEAN :
        events' = Append(events, [kind |-> "loaded", item |-> it, hit |-> hit])
  BY DEF Load, Signalled
<1>4. running = Task("load", it) /\ \A i : running = Task("load", i) => i = it
  BY <1>1 DEF Tasks, Task
<1> HIDE DEF it
<1> DEFINE signal == [kind |-> "loaded", item |-> it, hit |-> hit]
<1>5. signal \in Signals /\ signal.kind = "loaded" /\ signal.item = it
  BY <1>2 DEF Signals
<1> HIDE DEF signal
<1>6. events' = Append(events, signal)
  BY <1>3 DEF signal
<1>7. it.gen = generation => it \in pending /\ ~InPool(it) /\ ~InEvents(it) /\ ~InQueue(it)
                               /\ it \notin replies
  <2>1. OnThread(it)
    BY <1>4 DEF OnThread
  <2> QED BY <1>2, <2>1, OneAtMost
<1>8. /\ \A i : InEvents(i)' <=> InEvents(i) \/ it = i
      /\ \A n \in DOMAIN events' :
           events'[n] = signal \/ \E m \in DOMAIN events : events'[n] = events[m]
      /\ \A m, n \in DOMAIN events' :
           /\ events'[m].kind = "loaded" /\ events'[n].kind = "loaded"
           /\ events'[m].item = events'[n].item /\ events'[m].item.gen = generation
           => m = n
  BY <1>5, <1>6, <1>7, SignalAdded
<1>9. \A i : ~OnThread(i)'
  BY <1>1 DEF OnThread, Task, Tasks
<1>10. Ages'
  <2>1. running'.kind = "load" => running'.item.gen <= generation
    BY <1>1 DEF Ages, Tasks
  <2> QED BY <1>1, <1>2, <1>5, <1>8, <2>1 DEF Ages
<1>11. Placed'
  <2> SUFFICES ASSUME NEW i \in Current PROVE Places(i)' = One(i \in pending)'
    BY <1>1 DEF Placed, Current
  <2>1. i \in Items /\ i.gen = generation /\ Places(i) = One(i \in pending)
    BY CurrentFacts DEF Placed
  <2>2. OnThread(i) <=> i = it
    BY <1>4 DEF OnThread
  <2>3. /\ InPool(i)' <=> InPool(i)
        /\ InQueue(i)' <=> InQueue(i)
        /\ i \in replies' <=> i \in replies
        /\ i \in pending' <=> i \in pending
    BY <1>1 DEF InPool, InQueue
  <2>4. CASE i = it
    BY <1>7, <1>8, <1>9, <2>1, <2>3, <2>4 DEF Places, One
  <2>5. CASE i # it
    BY <1>8, <1>9, <2>1, <2>2, <2>3, <2>5 DEF Places, One
  <2> QED BY <2>4, <2>5
<1>12. Distinct'
  BY <1>1, <1>8 DEF Distinct
<1> QED BY <1>10, <1>11, <1>12

LEMMA StorePlaces ==
  ASSUME TypeOK, Ages, Placed, Distinct, StoreCheck \/ StoreWrite
  PROVE  (Ages /\ Placed /\ Distinct)'
<1>1. /\ UNCHANGED <<generation, pending, queued, replies, pool>>
      /\ running.kind = "store" /\ running \in Tasks
      /\ running' \in {[running EXCEPT !.step = "writing"], [running EXCEPT !.step = "emitted"]}
      /\ events' \in {events, Signalled("stored", FALSE)}
  <2>1. running.step # "none"
    BY DEF StoreCheck, StoreWrite, Runs
  <2> QED BY <2>1, RunningFacts DEF StoreCheck, StoreWrite, Runs, Emitted, requests
<1>2. running'.kind = "store"
  BY <1>1 DEF Tasks
<1>3. /\ \A i : InEvents(i)' <=> InEvents(i)
      /\ \A n \in DOMAIN events' : events'[n].kind = "loaded" =>
           \E m \in DOMAIN events : events'[n] = events[m]
      /\ \A m, n \in DOMAIN events' :
           /\ events'[m].kind = "loaded" /\ events'[n].kind = "loaded"
           /\ events'[m].item = events'[n].item /\ events'[m].item.gen = generation
           => m = n
  <2>1. CASE events' = events
    BY <2>1 DEF InEvents, Distinct
  <2>2. CASE events' = Signalled("stored", FALSE)
    <3> DEFINE signal == [kind |-> "stored", item |-> running.item, hit |-> FALSE]
    <3>1. signal \in Signals /\ signal.kind = "stored" /\ events' = Append(events, signal)
      BY <1>1, <2>2 DEF Signals, Tasks, Signalled
    <3> HIDE DEF signal
    <3> QED BY <3>1, SignalAdded
  <2> QED BY <1>1, <2>1, <2>2
<1>4. Ages'
  BY <1>1, <1>2, <1>3 DEF Ages
<1>5. Placed'
  <2> SUFFICES ASSUME NEW i \in Current PROVE Places(i)' = One(i \in pending)'
    BY <1>1 DEF Placed, Current
  <2>1. ~OnThread(i) /\ ~OnThread(i)'
    BY <1>1, <1>2 DEF OnThread, Task
  <2>2. Places(i) = One(i \in pending)
    BY DEF Placed
  <2> QED BY <1>1, <1>3, <2>1, <2>2 DEF Places, InPool, InQueue, One
<1>6. Distinct'
  BY <1>1, <1>3 DEF Distinct
<1> QED BY <1>4, <1>5, <1>6

LEMMA ReturnPlaces ==
  ASSUME TypeOK, Ages, Placed, Distinct, Return
  PROVE  (Ages /\ Placed /\ Distinct)'
<1>1. UNCHANGED <<generation, pending, queued, replies, events>> /\ running.step = "emitted"
  BY DEF Return, requests
<1>2. \A i : ~OnThread(i)
  BY <1>1 DEF OnThread, Task
<1>3. CASE pool = <<>>
  <2>1. running' = Idle /\ pool' = pool
    BY <1>3 DEF Return
  <2>2. \A i : ~OnThread(i)'
    BY <2>1 DEF OnThread, Task, Idle
  <2>3. Ages'
    BY <1>1, <2>1 DEF Ages, Idle
  <2>4. Distinct'
    BY <1>1, <2>1 DEF Distinct
  <2>5. Placed'
    <3> SUFFICES ASSUME NEW i \in Current PROVE Places(i)' = One(i \in pending)'
      BY <1>1 DEF Placed, Current
    <3>1. Places(i) = One(i \in pending)
      BY DEF Placed
    <3> QED BY <1>1, <1>2, <2>1, <2>2, <3>1 DEF Places, InPool, InQueue, InEvents, One
  <2> QED BY <2>3, <2>4, <2>5
<1>4. CASE pool # <<>>
  <2>1. /\ running' = Head(pool) /\ pool' = Tail(pool) /\ pool \in Seq(NewTasks)
    BY <1>4 DEF Return, TypeOK
  <2>2. /\ Len(pool) \in Nat \ {0} /\ DOMAIN pool = 1..Len(pool)
        /\ DOMAIN pool' = 1..(Len(pool) - 1)
        /\ \A n \in 1..(Len(pool) - 1) : pool'[n] = pool[n + 1]
        /\ running' = pool[1]
    BY <1>4, <2>1, Shorter
  <2>3. \A m, n \in 1..Len(pool) : pool[m].kind = "load" /\ pool[m] = pool[n] => m = n
    BY <2>2 DEF Distinct
  <2>4. \A i : InPool(i) <=> InPool(i)' \/ OnThread(i)'
    <3> SUFFICES ASSUME NEW i PROVE InPool(i) <=> InPool(i)' \/ OnThread(i)'
      OBVIOUS
    <3>1. ASSUME NEW n \in 1..Len(pool), pool[n] = Task("load", i)
          PROVE  InPool(i)' \/ OnThread(i)'
      <4>1. CASE n = 1
        BY <2>2, <3>1, <4>1 DEF OnThread
      <4>2. CASE n # 1
        <5>1. n - 1 \in 1..(Len(pool) - 1) /\ pool'[n - 1] = pool[n]
          BY <2>2, <3>1, <4>2
        <5> QED BY <2>2, <3>1, <5>1 DEF InPool
      <4> QED BY <4>1, <4>2
    <3>2. InPool(i) => InPool(i)' \/ OnThread(i)'
      BY <2>2, <3>1 DEF InPool
    <3>3. InPool(i)' => InPool(i)
      BY <2>2 DEF InPool
    <3>4. OnThread(i)' => InPool(i)
      <4>1. 1 \in DOMAIN pool
        BY <2>2
      <4> QED BY <2>2, <4>1 DEF InPool, OnThread
    <3> QED BY <3>2, <3>3, <3>4
  <2>5. \A i : ~(InPool(i)' /\ OnThread(i)')
    <3> SUFFICES ASSUME NEW i, NEW n \in 1..(Len(pool) - 1), pool'[n] = Task("load", i),
                        running' = Task("load", i)
                 PROVE  FALSE
      BY <2>2 DEF InPool, OnThread
    <3>1. n + 1 \in 1..Len(pool) /\ 1 \in 1..Len(pool) /\ n + 1 # 1 /\ pool[n + 1] = pool[1]
      BY <2>2
    <3>2. pool[1].kind = "load"
      BY <2>2 DEF Task
    <3> QED BY <2>3, <3>1, <3>2
  <2>6. Ages'
    <3>1. \A n \in 1..Len(pool) : pool[n].kind = "load" => pool[n].item.gen = generation
      BY <2>2 DEF Ages
    <3>2. running'.kind = "load" => running'.item.gen <= generation
      BY <2>2, <3>1 DEF TypeOK
    <3>3. \A n \in DOMAIN pool' : pool'[n].kind = "load" => pool'[n].item.gen = generation
      BY <2>2, <3>1
    <3> QED BY <1>1, <3>2, <3>3 DEF Ages
  <2>7. Placed'
    <3> SUFFICES ASSUME NEW i \in Current PROVE Places(i)' = One(i \in pending)'
      BY <1>1 DEF Placed, Current
    <3>1. Places(i) = One(i \in pending)
      BY DEF Placed
    <3>2. /\ InQueue(i)' <=> InQueue(i)
          /\ InEvents(i)' <=> InEvents(i)
          /\ i \in replies' <=> i \in replies
      BY <1>1 DEF InQueue, InEvents
    <3>3. /\ InPool(i) <=> InPool(i)' \/ OnThread(i)'
          /\ ~(InPool(i)' /\ OnThread(i)') /\ ~OnThread(i)
      BY <1>2, <2>4, <2>5
    <3> QED BY <1>1, <3>1, <3>2, <3>3 DEF Places, One
  <2>8. Distinct'
    <3>1. \A m, n \in DOMAIN pool' : pool'[m].kind = "load" /\ pool'[m] = pool'[n] => m = n
      <4> SUFFICES ASSUME NEW m \in 1..(Len(pool) - 1), NEW n \in 1..(Len(pool) - 1),
                          pool'[m].kind = "load", pool'[m] = pool'[n]
                   PROVE  m = n
        BY <2>2
      <4>1. m + 1 \in 1..Len(pool) /\ n + 1 \in 1..Len(pool)
        BY <2>2
      <4>2. pool[m + 1].kind = "load" /\ pool[m + 1] = pool[n + 1]
        BY <2>2
      <4> QED BY <2>3, <4>1, <4>2
    <3> QED BY <1>1, <3>1 DEF Distinct
  <2> QED BY <2>6, <2>7, <2>8
<1> QED BY <1>3, <1>4

(* What a new generation retires is nowhere; the rest is older than it. *)
LEMMA RetirePlaces ==
  ASSUME TypeOK, Counted, Ages, active = Cardinality(replies), Retire
  PROVE  (Ages /\ Placed /\ Distinct)' /\ active' = Cardinality(replies')
<1>1. /\ generation' = generation + 1 /\ queued' = <<>> /\ pending' = {} /\ pool' = <<>>
      /\ replies' = {} /\ active' = Released(Cardinality(replies))
      /\ UNCHANGED <<running, events>> /\ generation \in Nat
  BY DEF Retire, TypeOK
<1>2. active' = Cardinality(replies')
  <2>1. Cardinality(replies) \in Nat
    BY FS_CardinalityType DEF Counted
  <2> QED BY <1>1, <2>1, FS_EmptySet DEF Released
<1>3. /\ \A n \in DOMAIN events : events[n].kind = "loaded" =>
           events[n].item.gen \in Nat /\ events[n].item.gen <= generation
      /\ running.kind = "load" => running.item.gen \in Nat /\ running.item.gen <= generation
  <2>1. \A n \in DOMAIN events : events[n] \in Signals
    BY ElementOfSeq, LenProperties DEF TypeOK
  <2>2. running.kind = "load" => running \in Tasks
    BY DEF TypeOK, Idle
  <2> QED BY <2>1, <2>2 DEF Ages, Signals, Tasks, Items
<1>4. DOMAIN queued' = {} /\ DOMAIN pool' = {}
  BY <1>1
<1>5. Ages'
  BY <1>1, <1>3, <1>4 DEF Ages
<1>6. Placed'
  <2> SUFFICES ASSUME NEW i, i.gen = generation + 1 PROVE Places(i)' = 0
    BY <1>1 DEF Placed, Current, Item, One
  <2>1. ~InPool(i)' /\ ~InQueue(i)' /\ i \notin replies'
    BY <1>1, <1>4 DEF InPool, InQueue
  <2>2. ~InEvents(i)'
    BY <1>1, <1>3 DEF InEvents
  <2>3. ~OnThread(i)'
    BY <1>1, <1>3 DEF OnThread, Task
  <2> QED BY <2>1, <2>2, <2>3 DEF Places, One
<1>7. Distinct'
  <2>1. \A n \in DOMAIN events :
          events[n].kind = "loaded" => events[n].item.gen # generation + 1
    BY <1>1, <1>3
  <2> QED BY <1>1, <1>4, <2>1 DEF Distinct
<1> QED BY <1>2, <1>5, <1>6, <1>7

(* The bounds. *)
LEMMA PackagesAreFinite == IsFiniteSet(Packages)
<1> DEFINE f == [k \in Keys |-> k[1]]
<1>1. f \in Surjection(Keys, Packages)
  BY DEF Surjection, Packages
<1>2. IsFiniteSet(Keys)
  BY ConstantsAssumption
<1> HIDE DEF f
<1> QED BY <1>1, <1>2, FS_Surjection

LEMMA IndexShrinks ==
  ASSUME Bounds, \A p \in Packages : disk'[p] = disk[p] \/ disk'[p] = NoEntry
  PROVE  Cardinality(InIndex(disk)') <= MaxDisk
<1>1. InIndex(disk)' \subseteq InIndex(disk) /\ InIndex(disk) \subseteq Packages
  BY DEF InIndex
<1>2. IsFiniteSet(InIndex(disk))
  BY <1>1, PackagesAreFinite, FS_Subset
<1>3. Cardinality(InIndex(disk)') <= Cardinality(InIndex(disk))
  BY <1>1, <1>2, FS_Subset
<1>4. Cardinality(InIndex(disk)) \in Nat /\ Cardinality(InIndex(disk)') \in Nat
  BY <1>1, <1>2, FS_Subset, FS_CardinalityType
<1> QED BY <1>3, <1>4, ConstantsAssumption DEF Bounds

LEMMA RememberBounds ==
  ASSUME Bounds, NEW item, Remember(item)
  PROVE  IsFiniteSet(memory') /\ Cardinality(memory') <= MaxCache
<1>1. PICK kept \in SUBSET memory : Cardinality(kept) < MaxCache /\ memory' = kept \cup {item}
  BY DEF Remember
<1>2. IsFiniteSet(kept) /\ Cardinality(kept) \in Nat
  BY FS_Subset, FS_CardinalityType DEF Bounds
<1>3. IsFiniteSet(memory') /\ Cardinality(memory') <= Cardinality(kept) + 1
  BY <1>1, <1>2, FS_AddElement
<1>4. Cardinality(memory') \in Nat
  BY <1>3, FS_CardinalityType
<1> QED BY <1>1, <1>2, <1>3, <1>4, ConstantsAssumption

LEMMA FewerPending ==
  ASSUME Bounds, NEW item
  PROVE  IsFiniteSet(pending \ {item}) /\ Cardinality(pending \ {item}) <= MaxPending
<1>1. IsFiniteSet(pending \ {item}) /\ Cardinality(pending \ {item}) <= Cardinality(pending)
  BY FS_Subset DEF Bounds
<1>2. Cardinality(pending) \in Nat /\ Cardinality(pending \ {item}) \in Nat
  BY <1>1, FS_CardinalityType DEF Bounds
<1> QED BY <1>1, <1>2, ConstantsAssumption DEF Bounds

LEMMA AskBounds ==
  ASSUME Bounds, NEW k \in Keys, Ask(k)
  PROVE  Bounds'
<1>1. /\ pending' = pending \cup {Item(k, generation)} /\ Cardinality(pending) < MaxPending
      /\ UNCHANGED <<memory, active, replies, disk>>
  BY DEF Ask, MayAsk
<1>2. /\ IsFiniteSet(pending') /\ Cardinality(pending') <= Cardinality(pending) + 1
      /\ Cardinality(pending) \in Nat
  BY <1>1, FS_AddElement, FS_CardinalityType DEF Bounds
<1>3. Cardinality(pending') \in Nat
  BY <1>2, FS_CardinalityType
<1>4. Cardinality(pending') <= MaxPending
  BY <1>1, <1>2, <1>3, ConstantsAssumption
<1> QED BY <1>1, <1>2, <1>4 DEF Bounds, InIndex

LEMMA LoadedHitBounds ==
  ASSUME Bounds, LoadedHit
  PROVE  Bounds'
BY RememberBounds, FewerPending DEF LoadedHit, Bounds, InIndex

LEMMA FinishBounds ==
  ASSUME Bounds, NEW item \in replies, FinishIcon(item) \/ FinishFailed(item),
         active' = Cardinality(replies')
  PROVE  Bounds'
<1>1. pending' = pending \ {item} /\ disk' = disk /\ (memory' = memory \/ Remember(item))
  BY DEF FinishIcon, FinishFailed, Settled
<1>2. IsFiniteSet(memory') /\ Cardinality(memory') <= MaxCache
  BY <1>1, RememberBounds DEF Bounds
<1> QED BY <1>1, <1>2, FewerPending DEF Bounds, InIndex

LEMMA RetireBounds ==
  ASSUME Bounds, Retire, memory' = memory \/ memory' = {}, active' = Cardinality(replies')
  PROVE  Bounds'
<1>1. pending' = {} /\ disk' = disk
  BY DEF Retire
<1>2. Cardinality({}) <= MaxPending /\ Cardinality({}) <= MaxCache /\ IsFiniteSet({})
  BY FS_EmptySet, ConstantsAssumption
<1> QED BY <1>1, <1>2 DEF Bounds, InIndex

LEMMA DiskBounds ==
  ASSUME TypeOK, Bounds, DiskThread \/ ClearDone \/ ClearFails
  PROVE  Bounds'
<1>1. UNCHANGED <<pending, memory, active, replies>>
  BY DEF DiskThread, Load, StoreCheck, StoreWrite, Return, ClearDone, ClearFails, requests
<1>2. Cardinality(InIndex(disk)') <= MaxDisk
  <2>1. CASE Bounded(disk')
    BY <2>1 DEF Bounded, InIndex
  <2>2. CASE UNCHANGED disk
    BY <2>2 DEF Bounds, InIndex
  <2>3. CASE Load
    BY <2>3, IndexShrinks DEF Load, TypeOK
  <2>4. CASE ClearDone
    BY <2>4, IndexShrinks DEF ClearDone
  <2>5. CASE ClearFails
    BY <2>5, IndexShrinks DEF ClearFails
  <2>6. StoreWrite => UNCHANGED disk \/ Bounded(disk')
    BY DEF StoreWrite
  <2>7. StoreCheck \/ Return => UNCHANGED disk
    BY DEF StoreCheck, Return
  <2> QED BY <2>1, <2>2, <2>3, <2>4, <2>5, <2>6, <2>7 DEF DiskThread
<1> QED BY <1>1, <1>2 DEF Bounds

LEMMA PlacesStart == Init => PlaceInv
<1> SUFFICES ASSUME Init PROVE PlaceInv
  OBVIOUS
<1>1. DOMAIN pool = {} /\ DOMAIN queued = {} /\ DOMAIN events = {}
  BY DEF Init
<1>2. Ages /\ Distinct
  BY <1>1 DEF Init, Ages, Distinct, Idle
<1>3. Placed
  BY <1>1 DEF Init, Placed, Places, InPool, OnThread, InEvents, InQueue, One, Idle, Task
<1>4. Bounds
  BY FS_EmptySet, ConstantsAssumption DEF Init, Bounds
<1> QED BY <1>2, <1>3, <1>4 DEF PlaceInv

LEMMA PlacesKeep == IInv /\ PlaceInv /\ [Next]_vars => PlaceInv'
<1> SUFFICES ASSUME IInv, PlaceInv, [Next]_vars PROVE PlaceInv'
  OBVIOUS
<1>1. TypeOK /\ Counted /\ Ages /\ Placed /\ Distinct /\ Bounds /\ active = Cardinality(replies)
  BY DEF IInv, PlaceInv, Bounds
<1>2. ASSUME NEW k \in Keys, Ask(k) PROVE PlaceInv'
  BY <1>1, <1>2, AskPlaces, AskBounds DEF PlaceInv
<1>3. ASSUME NEW item \in replies, Finish(item) PROVE PlaceInv'
  BY <1>1, <1>3, FinishPlaces, FinishBounds DEF Finish, PlaceInv
<1>4. CASE LoadedStale \/ Stored
  <2>1. Bounds'
    BY <1>1, <1>4 DEF LoadedStale, Stored, Bounds, InIndex, requests
  <2> QED BY <1>1, <1>4, <2>1, IgnoredPlaces DEF PlaceInv
<1>5. CASE LoadedHit
  BY <1>1, <1>5, LoadedHitPlaces, LoadedHitBounds DEF PlaceInv
<1>6. CASE LoadedMiss
  <2>1. (Ages /\ Placed /\ Distinct)' /\ active' = Cardinality(replies')
    BY <1>1, <1>6, LoadedMissPlaces
  <2>2. Bounds'
    BY <1>1, <1>6, <2>1 DEF LoadedMiss, Bounds, InIndex
  <2> QED BY <2>1, <2>2 DEF PlaceInv
<1>7. CASE BeginGeneration \/ ClearBegins
  <2>1. Retire /\ (memory' = memory \/ memory' = {})
    BY <1>7 DEF BeginGeneration, ClearBegins
  <2> QED BY <1>1, <2>1, RetirePlaces, RetireBounds DEF PlaceInv
<1>8. CASE DiskThread
  BY <1>1, <1>8, LoadPlaces, StorePlaces, ReturnPlaces, DiskBounds DEF DiskThread, PlaceInv
<1>9. CASE ClearDone \/ ClearFails
  <2>1. UNCHANGED <<generation, pending, queued, replies, pool, running, events>>
    BY <1>9 DEF ClearDone, ClearFails, requests, thread
  <2> QED BY <1>1, <1>9, <2>1, UntouchedPlaces, DiskBounds DEF PlaceInv
<1>10. CASE ClearTimesOut \/ CheckBusy \/ UNCHANGED vars
  <2>1. /\ UNCHANGED <<generation, pending, queued, replies, pool, running, events>>
        /\ UNCHANGED <<memory, active, disk>>
    BY <1>10 DEF ClearTimesOut, CheckBusy, vars, requests, thread
  <2>2. Bounds'
    BY <1>1, <2>1 DEF Bounds, InIndex
  <2> QED BY <1>1, <2>1, <2>2, UntouchedPlaces DEF PlaceInv
<1> QED BY <1>2, <1>3, <1>4, <1>5, <1>6, <1>7, <1>8, <1>9, <1>10 DEF Next, Handle

(* A set of one element at most is counted by whether it has one. *)
LEMMA CountOne ==
  ASSUME NEW T, \A m, n \in T : m = n
  PROVE  Cardinality(T) = One(T # {})
<1>1. CASE T = {}
  BY <1>1, FS_EmptySet DEF One
<1>2. CASE T # {}
  <2>1. PICK n \in T : TRUE
    BY <1>2
  <2>2. T = {n}
    BY <2>1
  <2> QED BY <1>2, <2>2, FS_Singleton DEF One
<1> QED BY <1>1, <1>2

LEMMA PlacesMean == IInv /\ PlaceInv => WithinBounds /\ PendingInFlight
<1> SUFFICES ASSUME IInv, PlaceInv PROVE WithinBounds /\ PendingInFlight
  OBVIOUS
<1> USE DEF PlaceInv
<1>1. WithinBounds
  BY DEF IInv, Counted, Bounds, WithinBounds
<1>2. ASSUME NEW i \in pending
      PROVE  Cardinality(Looking(i)) + Cardinality(Told(i)) + Cardinality(Waiting(i))
               + (IF running = Task("load", i) THEN 1 ELSE 0)
               + (IF i \in replies THEN 1 ELSE 0) = 1
  <2>1. i \in Items /\ i.gen = generation
    BY DEF IInv, TypeOK, Ages
  <2>2. Places(i) = 1
    BY <2>1, CurrentFacts DEF IInv, Placed, One
  <2>3. \A m, n \in Looking(i) : m = n
    BY DEF Looking, Distinct, Task
  <2>4. \A m, n \in Told(i) : m = n
    BY <2>1 DEF Told, Distinct
  <2>5. \A m, n \in Waiting(i) : m = n
    BY DEF Waiting, Distinct
  <2>6. /\ Cardinality(Looking(i)) = One(Looking(i) # {})
        /\ Cardinality(Told(i)) = One(Told(i) # {})
        /\ Cardinality(Waiting(i)) = One(Waiting(i) # {})
    BY <2>3, <2>4, <2>5, CountOne
  <2>7. /\ Looking(i) # {} <=> InPool(i)
        /\ Told(i) # {} <=> InEvents(i)
        /\ Waiting(i) # {} <=> InQueue(i)
    BY DEF Looking, Told, Waiting, InPool, InEvents, InQueue
  <2> QED BY <2>2, <2>6, <2>7 DEF Places, OnThread, One
<1>3. PendingInFlight
  BY <1>2 DEF PendingInFlight, Distinct
<1> QED BY <1>1, <1>3

(* Requests, icons in memory and on disk, and downloads stay within their  *)
(* bounds, the counter of downloads is the number of replies, and every    *)
(* waiting request is at exactly one place on its way, for any bounds and  *)
(* however replies end, generations begin and the cache is cleared         *)
(* (AppIconLoader._pending, _queued, _active_replies).                     *)
THEOREM RequestsAreInFlight == Spec => [](WithinBounds /\ PendingInFlight)
<1>1. Init => PlaceInv
  BY PlacesStart
<1>2. IInv /\ PlaceInv /\ [Next]_vars => PlaceInv'
  BY PlacesKeep
<1> QED BY <1>1, <1>2, Inductive, PlacesMean, PTL DEF Spec
=============================================================================
