---------------------------- MODULE SourcesProofs ----------------------------
(***************************************************************************)
(* Theorems about Sources, for any number of choices.  Both rest on one    *)
(* fact: while a phone scan is awaited in any form - by its request, by    *)
(* the download it waits for, or by the question whether to download - no  *)
(* folder is being discovered and the user's newest choice is that phone.  *)
(* The boxes stand above the file dialogs, which open on the bare window,  *)
(* so that a choice made in a file dialog leaves no question open.         *)
(***************************************************************************)
EXTENDS Sources, SequenceTheorems, TLAPS

Dialogs == {"packages", "folder", "install?", "installed"}
Kinds   == {"adb", "install", "folder", "scan", "second scan"}
Reports == {"adb found", "adb missing", "scan failed", "scan done", "installed",
            "install failed", "folder done", "folder failed"}
AdbWork == {"adb found", "adb missing", "scan failed", "scan done"}
AdbThreads == {"adb", "scan", "second scan"}

Choices == [kind : {"none", "file", "local", "device"}, id : Nat]
Threads == [kind : Kinds, id : Nat]
Queued  == [kind : Reports, id : Nat]

TypeOK ==
  /\ source \in Choices /\ auditing \in Choices /\ newest \in Choices
  /\ sequence \in Nat /\ active \in Nat /\ generation \in Nat /\ rejected \in Nat
  /\ pending \in BOOLEAN /\ parsing \in BOOLEAN /\ busy \in BOOLEAN
  /\ buttons \in BOOLEAN /\ due \in BOOLEAN
  /\ dialogs \in Seq(Dialogs)
  /\ threads \subseteq Threads
  /\ queue \in Seq(Queued)

(* Requests are numbered from 1, so that none is mistaken for None. *)
ThreadsNumbered == \A t \in threads : t.kind \in AdbThreads => t.id # 0
QueueNumbered == \A n \in DOMAIN queue : queue[n].kind \in AdbWork => queue[n].id # 0
Numbered == active \in {0, sequence} /\ ThreadsNumbered /\ QueueNumbered

Asked == \E n \in DOMAIN dialogs : dialogs[n] = "install?"

FileDialogsBelow ==
  \A n \in DOMAIN dialogs : dialogs[n] \in {"packages", "folder"} => n = 1

PhoneAwaited == active # 0 \/ pending \/ Asked

OneAwaited ==
  /\ PhoneAwaited => ~parsing /\ newest.kind = "device" /\ newest.id <= sequence
  /\ parsing => newest.kind = "local" /\ newest.id <= generation

IInv == TypeOK /\ Numbered /\ FileDialogsBelow /\ OneAwaited

-----------------------------------------------------------------------------
LEMMA InitIInv == Init => IInv
<1> SUFFICES ASSUME Init PROVE IInv
  OBVIOUS
<1>1. dialogs \in Seq(Dialogs) /\ queue \in Seq(Queued)
  BY EmptySeq DEF Init
<1>2. DOMAIN dialogs = {} /\ DOMAIN queue = {}
  BY SMT DEF Init
<1>3. TypeOK
  BY <1>1 DEF Init, TypeOK, NoSource, Source, Choices
<1> QED
  BY <1>2, <1>3 DEF Init, IInv, Numbered, FileDialogsBelow, OneAwaited, PhoneAwaited, Asked,
     ThreadsNumbered, QueueNumbered

(* Closing the topmost box. *)
LEMMA ClosedFacts ==
  ASSUME dialogs \in Seq(Dialogs), dialogs # <<>>
  PROVE  /\ Closed \in Seq(Dialogs)
         /\ Len(Closed) = Len(dialogs) - 1
         /\ \A n \in DOMAIN Closed : n \in DOMAIN dialogs /\ Closed[n] = dialogs[n]
<1>1. Len(dialogs) \in Nat \ {0} /\ DOMAIN dialogs = 1..Len(dialogs)
  BY EmptySeq, LenProperties
<1>2. \A i \in 1..(Len(dialogs) - 1) : dialogs[i] \in Dialogs
  BY <1>1, ElementOfSeq
<1>3. /\ Closed \in Seq(Dialogs) /\ Len(Closed) = Len(dialogs) - 1
      /\ \A n \in 1..(Len(dialogs) - 1) : Closed[n] = dialogs[n]
  <2> DEFINE last == Len(dialogs) - 1
  <2>1. last \in Int /\ 1 \in Int /\ \A i \in 1..last : dialogs[i] \in Dialogs
    BY <1>1, <1>2
  <2>2. Closed = SubSeq(dialogs, 1, last) BY DEF Closed
  <2> HIDE DEF last
  <2>3. /\ Closed \in Seq(Dialogs)
        /\ Len(Closed) = IF 1 <= last THEN last - 1 + 1 ELSE 0
        /\ \A n \in 1..(last - 1 + 1) : Closed[n] = dialogs[1 + n - 1]
    BY <2>1, <2>2, SubSeqProperties
  <2>4. last \in Nat /\ last = Len(dialogs) - 1 BY <1>1 DEF last
  <2>5. Len(Closed) = last BY <2>3, <2>4
  <2>6. ASSUME NEW n \in 1..last PROVE Closed[n] = dialogs[n]
    <3>1. last - 1 + 1 = last /\ 1 + n - 1 = n BY <2>4
    <3> QED BY <2>3, <3>1
  <2> QED BY <2>3, <2>4, <2>5, <2>6
<1>4. DOMAIN Closed = 1..(Len(dialogs) - 1)
  BY <1>3, LenProperties
<1> QED BY <1>1, <1>3, <1>4

(* A file dialog at the top is the only one. *)
LEMMA ChoiceClosesAll ==
  ASSUME IInv, Top("packages") \/ Top("folder")
  PROVE  Closed = <<>>
<1>1. dialogs \in Seq(Dialogs) /\ dialogs # <<>>
  BY DEF IInv, TypeOK, Top
<1>2. Len(dialogs) \in Nat \ {0} /\ DOMAIN dialogs = 1..Len(dialogs)
  BY <1>1, EmptySeq, LenProperties
<1>3. Len(dialogs) = 1
  BY <1>2 DEF IInv, FileDialogsBelow, Top
<1>4. Len(Closed) = 0 /\ Closed \in Seq(Dialogs)
  BY <1>1, <1>3, ClosedFacts
<1> QED BY <1>4, EmptySeq

(* Closing a box asks nothing new. *)
LEMMA ClosedKeeps ==
  ASSUME IInv, dialogs # <<>>, dialogs' = Closed
  PROVE  dialogs' \in Seq(Dialogs) /\ FileDialogsBelow' /\ (Asked' => Asked)
<1>1. dialogs \in Seq(Dialogs) BY DEF IInv, TypeOK
<1>2. \A n \in DOMAIN dialogs' : n \in DOMAIN dialogs /\ dialogs'[n] = dialogs[n]
  BY <1>1, ClosedFacts
<1>3. dialogs' \in Seq(Dialogs) BY <1>1, ClosedFacts
<1>4. FileDialogsBelow' BY <1>2 DEF IInv, FileDialogsBelow
<1>5. Asked' => Asked BY <1>2 DEF Asked
<1> QED BY <1>3, <1>4, <1>5

(* A new box stands above the others. *)
LEMMA AppendKeeps ==
  ASSUME IInv, NEW d \in {"install?", "installed"}, dialogs' = Append(dialogs, d)
  PROVE  dialogs' \in Seq(Dialogs) /\ FileDialogsBelow' /\ (Asked' => Asked \/ d = "install?")
<1>1. dialogs \in Seq(Dialogs) /\ d \in Dialogs BY DEF IInv, TypeOK, Dialogs
<1>2. /\ dialogs' \in Seq(Dialogs) /\ Len(dialogs') = Len(dialogs) + 1
      /\ \A n \in 1..Len(dialogs) : dialogs'[n] = dialogs[n]
      /\ dialogs'[Len(dialogs) + 1] = d
  BY <1>1, AppendProperties
<1>3. /\ DOMAIN dialogs = 1..Len(dialogs) /\ DOMAIN dialogs' = 1..(Len(dialogs) + 1)
      /\ Len(dialogs) \in Nat
  BY <1>1, <1>2, LenProperties
<1>4. FileDialogsBelow' BY <1>2, <1>3 DEF IInv, FileDialogsBelow
<1>5. Asked' => Asked \/ d = "install?" BY <1>2, <1>3 DEF Asked
<1> QED BY <1>2, <1>4, <1>5

(* The signal taken next. *)
LEMMA SignalFacts ==
  ASSUME IInv, NEW k, Take(k)
  PROVE  /\ queue' \in Seq(Queued) /\ Signal \in Queued
         /\ QueueNumbered'
         /\ k \in AdbWork => Signal.id # 0
<1>1. queue \in Seq(Queued) /\ queue # <<>> BY DEF IInv, TypeOK, Take
<1>2. /\ queue' = Tail(queue) /\ Signal = Head(queue) /\ Signal.kind = k
  BY DEF Take, Signal
<1>3. /\ Head(queue) = queue[1] /\ 1 \in DOMAIN queue /\ Head(queue) \in Queued
      /\ Tail(queue) \in Seq(Queued)
      /\ \A n \in DOMAIN Tail(queue) : n + 1 \in DOMAIN queue /\ Tail(queue)[n] = queue[n + 1]
  <2>1. /\ Len(queue) \in Nat \ {0} /\ DOMAIN queue = 1..Len(queue)
    BY <1>1, EmptySeq, LenProperties
  <2>2. /\ Head(queue) \in Queued /\ Tail(queue) \in Seq(Queued)
        /\ Len(Tail(queue)) = Len(queue) - 1
        /\ \A n \in 1..Len(Tail(queue)) : Tail(queue)[n] = queue[n + 1]
    BY <1>1, HeadTailProperties
  <2>3. DOMAIN Tail(queue) = 1..(Len(queue) - 1) BY <2>1, <2>2, LenProperties
  <2> QED BY <1>1, <2>1, <2>2, <2>3, HeadTailProperties
<1> QED BY <1>1, <1>2, <1>3 DEF IInv, Numbered, QueueNumbered

(* A thread's report, put into the queue. *)
LEMMA ReportFacts ==
  ASSUME IInv, NEW t \in threads, ThreadEnds(t)
  PROVE  /\ queue' \in Seq(Queued)
         /\ QueueNumbered'
<1>1. queue \in Seq(Queued) /\ t \in Threads BY DEF IInv, TypeOK
<1>2. CASE queue' = queue
  BY <1>1, <1>2 DEF IInv, Numbered, QueueNumbered
<1>3. ASSUME NEW s \in Signals(t), queue' = Append(queue, [kind |-> s, id |-> t.id])
      PROVE  /\ queue' \in Seq(Queued)
             /\ QueueNumbered'
  <2> DEFINE e == [kind |-> s, id |-> t.id]
  <2>1. t.kind \in Kinds /\ t.id \in Nat BY <1>1 DEF Threads
  <2>2. s \in Reports /\ (s \in AdbWork => t.kind \in AdbThreads)
    BY <1>3, <2>1 DEF Signals, Reports, AdbWork, AdbThreads, Kinds
  <2>3. e \in Queued BY <2>1, <2>2 DEF Queued
  <2>4. e.kind \in AdbWork => e.id # 0 BY <2>2 DEF IInv, Numbered, ThreadsNumbered
  <2>5. queue' = Append(queue, e) BY <1>3
  <2> HIDE DEF e
  <2>6. /\ queue' \in Seq(Queued) /\ Len(queue') = Len(queue) + 1
        /\ \A n \in 1..Len(queue) : queue'[n] = queue[n]
        /\ queue'[Len(queue) + 1] = e
    BY <1>1, <2>3, <2>5, AppendProperties
  <2>7. /\ DOMAIN queue = 1..Len(queue) /\ DOMAIN queue' = 1..(Len(queue) + 1)
        /\ Len(queue) \in Nat
    BY <1>1, <2>6, LenProperties
  <2> QED BY <2>4, <2>6, <2>7 DEF IInv, Numbered, QueueNumbered
<1> QED BY <1>2, <1>3 DEF ThreadEnds

-----------------------------------------------------------------------------
(* What the choices of the user keep. *)

(* Forgetting the phone: a choice of another source. *)
LEMMA OtherSource ==
  ASSUME IInv, InvalidateScan, dialogs' = <<>>,
         generation' = generation + 1, newest' = Source("local", generation') \/ ~parsing',
         newest' \in Choices, parsing' \in BOOLEAN,
         source' \in Choices, auditing' \in Choices, busy' \in BOOLEAN, buttons' \in BOOLEAN,
         due' \in BOOLEAN, rejected' \in Nat, queue' = queue,
         \/ threads' = threads
         \/ threads' = threads \cup {Thread("folder", generation')}
  PROVE  IInv'
<1>1. dialogs' \in Seq(Dialogs) /\ DOMAIN dialogs' = {}
  BY EmptySeq
<1>2. /\ threads' \subseteq Threads
      /\ ThreadsNumbered'
  <2>1. generation' \in Nat BY DEF IInv, TypeOK
  <2>2. /\ Thread("folder", generation') \in Threads
        /\ Thread("folder", generation').kind \notin AdbThreads
    BY <2>1 DEF Thread, Threads, Kinds, AdbThreads
  <2> QED BY <2>2 DEF IInv, TypeOK, Numbered, ThreadsNumbered
<1>3. TypeOK' /\ Numbered'
  <2>1. sequence' \in Nat /\ active' = 0 /\ pending' = FALSE /\ generation' \in Nat
    BY DEF IInv, TypeOK, InvalidateScan
  <2>2. queue' \in Seq(Queued) BY DEF IInv, TypeOK
  <2>3. TypeOK' BY <1>1, <1>2, <2>1, <2>2 DEF TypeOK
  <2> QED BY <1>2, <2>1, <2>3 DEF IInv, Numbered, QueueNumbered
<1>4. FileDialogsBelow' /\ ~PhoneAwaited'
  BY <1>1 DEF FileDialogsBelow, PhoneAwaited, Asked, InvalidateScan
<1>5. OneAwaited'
  BY <1>4 DEF IInv, TypeOK, OneAwaited, Source
<1> QED BY <1>3, <1>4, <1>5 DEF IInv

LEMMA Choose ==
  ASSUME IInv,
         LoadFile \/ BeginFolder \/ \E found \in BOOLEAN : ChoosePackages(found)
  PROVE  IInv'
<1>0. /\ generation' = generation + 1 => generation' \in Nat
      /\ TypeOK
  BY DEF IInv, TypeOK
<1>1. CASE LoadFile
  <2>1. /\ InvalidateScan /\ dialogs' = <<>> /\ generation' = generation + 1
        /\ ~parsing' /\ parsing' \in BOOLEAN /\ queue' = queue /\ threads' = threads
        /\ rejected' \in Nat /\ due' \in BOOLEAN /\ busy' \in BOOLEAN /\ buttons' \in BOOLEAN
    BY <1>0, <1>1 DEF TypeOK, LoadFile, User, InvalidateParse, SetBusy, work
  <2>2. source' \in Choices /\ newest' \in Choices /\ auditing' \in Choices
    BY <1>0, <1>1, <2>1 DEF LoadFile, Source, NoSource, Choices
  <2> QED BY <2>1, <2>2, OtherSource
<1>2. CASE BeginFolder
  <2>1. dialogs' = <<>> BY <1>2, ChoiceClosesAll DEF BeginFolder
  <2>2. /\ InvalidateScan /\ generation' = generation + 1
        /\ newest' = Source("local", generation') /\ parsing' \in BOOLEAN /\ queue' = queue
        /\ threads' = threads \cup {Thread("folder", generation')}
        /\ rejected' \in Nat /\ due' \in BOOLEAN /\ busy' \in BOOLEAN /\ buttons' \in BOOLEAN
    BY <1>0, <1>2 DEF TypeOK, BeginFolder, SetBusy
  <2>3. source' \in Choices /\ newest' \in Choices /\ auditing' \in Choices
    BY <1>0, <1>2, <2>2 DEF TypeOK, BeginFolder, Source, NoSource, Choices
  <2> QED BY <2>1, <2>2, <2>3, OtherSource
<1>3. ASSUME NEW found \in BOOLEAN, ChoosePackages(found) PROVE IInv'
  <2>1. dialogs' = <<>> BY <1>3, ChoiceClosesAll DEF ChoosePackages
  <2>2. /\ InvalidateScan /\ generation' = generation + 1
        /\ ~parsing' /\ parsing' \in BOOLEAN /\ queue' = queue /\ threads' = threads
        /\ rejected' \in Nat /\ due' \in BOOLEAN /\ busy' \in BOOLEAN /\ buttons' \in BOOLEAN
    BY <1>0, <1>3 DEF TypeOK, ChoosePackages, Establish, InvalidateParse, SetBusy, work
  <2>3. source' \in Choices /\ newest' \in Choices /\ auditing' \in Choices
    BY <1>0, <1>3, <2>2 DEF ChoosePackages, Establish, Source, NoSource, Choices
  <2> QED BY <2>1, <2>2, <2>3, OtherSource
<1> QED BY <1>1, <1>2, <1>3

(* A step that awaits no more than before. *)
LEMMA Quieter ==
  ASSUME IInv, TypeOK', sequence' >= sequence, generation' >= generation,
         active' \in {0, sequence'}, ThreadsNumbered', QueueNumbered', FileDialogsBelow',
         PhoneAwaited' => PhoneAwaited /\ newest' = newest /\ ~parsing',
         parsing' => parsing /\ newest' = newest
  PROVE  IInv'
<1>1. /\ PhoneAwaited' => newest'.kind = "device" /\ newest'.id <= sequence'
      /\ parsing' => newest'.kind = "local" /\ newest'.id <= generation'
  BY DEF IInv, TypeOK, Choices, OneAwaited
<1> QED BY <1>1 DEF IInv, Numbered, OneAwaited

(* Most steps leave the numbers and the boxes alone. *)
LEMMA Same ==
  ASSUME IInv
  PROVE  /\ threads' = threads => ThreadsNumbered'
         /\ queue' = queue => QueueNumbered'
         /\ dialogs' = dialogs => FileDialogsBelow' /\ (Asked' => Asked)
  BY DEF IInv, Numbered, ThreadsNumbered, QueueNumbered, FileDialogsBelow, Asked

LEMMA TopIsOpen ==
  ASSUME IInv, NEW d, Top(d)
  PROVE  dialogs # <<>> /\ (d = "install?" => Asked)
<1>1. Len(dialogs) \in Nat \ {0} /\ DOMAIN dialogs = 1..Len(dialogs)
  BY EmptySeq, LenProperties DEF IInv, TypeOK, Top
<1> QED BY <1>1 DEF Top, Asked

-----------------------------------------------------------------------------
(* Commands and answers. *)

LEMMA RejectFileKeeps == IInv /\ RejectFile => IInv'
<1> SUFFICES ASSUME IInv, RejectFile PROVE IInv'
  OBVIOUS
<1>1. /\ UNCHANGED <<source, sequence, active, pending, busy, buttons, due, auditing, dialogs,
                      threads, queue, newest>>
      /\ generation' = generation + 1 /\ parsing' = FALSE /\ rejected' = rejected + 1
  BY DEF RejectFile, InvalidateParse, scan, control, work
<1>2. /\ generation' \in Nat /\ rejected' \in Nat
      /\ generation' >= generation /\ sequence' >= sequence /\ active' \in {0, sequence'}
  BY <1>1 DEF IInv, TypeOK, Numbered
<1>3. TypeOK'
  <2>1. parsing' \in BOOLEAN BY <1>1, Zenon
  <2> QED BY <1>1, <1>2, <2>1, Zenon DEF IInv, TypeOK
<1>4. PhoneAwaited' => PhoneAwaited
  BY <1>1, Same DEF PhoneAwaited
<1> QED BY <1>1, <1>2, <1>3, <1>4, Same, Quieter

LEMMA OpenDialogKeeps ==
  ASSUME IInv, NEW d \in {"packages", "folder"}, OpenDialog(d)
  PROVE  IInv'
<1>1. /\ UNCHANGED <<source, sequence, active, pending, generation, parsing, busy, buttons, due,
                      auditing, threads, queue, newest, rejected>>
      /\ dialogs' = <<d>>
  BY DEF OpenDialog, scan, folder, control, work
<1>2. dialogs' \in Seq(Dialogs) /\ DOMAIN dialogs' = {1} /\ dialogs'[1] = d
  BY <1>1 DEF Dialogs
<1>3. FileDialogsBelow' /\ ~Asked'
  BY <1>2 DEF FileDialogsBelow, Asked
<1>4. TypeOK' /\ generation' >= generation /\ sequence' >= sequence /\ active' \in {0, sequence'}
  BY <1>1, <1>2 DEF IInv, TypeOK, Numbered
<1>5. PhoneAwaited' => PhoneAwaited /\ ~parsing'
  BY <1>1, <1>3 DEF IInv, OneAwaited, PhoneAwaited
<1> QED BY <1>1, <1>3, <1>4, <1>5, Same, Quieter

LEMMA DismissDialogKeeps == IInv /\ DismissDialog => IInv'
<1> SUFFICES ASSUME IInv, DismissDialog PROVE IInv'
  OBVIOUS
<1>1. /\ UNCHANGED <<source, sequence, active, pending, generation, parsing, busy, buttons, due,
                      auditing, threads, queue, newest, rejected>>
      /\ dialogs' = Closed /\ dialogs # <<>>
  BY DEF DismissDialog, Top, scan, folder, control, work
<1>2. dialogs' \in Seq(Dialogs) /\ FileDialogsBelow' /\ (Asked' => Asked)
  BY <1>1, ClosedKeeps
<1>3. TypeOK' /\ generation' >= generation /\ sequence' >= sequence /\ active' \in {0, sequence'}
  BY <1>1, <1>2 DEF IInv, TypeOK, Numbered
<1>4. PhoneAwaited' => PhoneAwaited /\ ~parsing'
  BY <1>1, <1>2 DEF IInv, OneAwaited, PhoneAwaited
<1> QED BY <1>1, <1>2, <1>3, <1>4, Same, Quieter

LEMMA StopFolderKeeps == IInv /\ StopFolder => IInv'
<1> SUFFICES ASSUME IInv, StopFolder PROVE IInv'
  OBVIOUS
<1>1. /\ UNCHANGED <<sequence, active, pending, due, auditing, dialogs, threads, queue, rejected>>
      /\ generation' = generation + 1 /\ parsing' = FALSE
      /\ busy' = FALSE /\ buttons' = TRUE /\ source' = NoSource /\ newest' = NoSource
  BY DEF StopFolder, InvalidateParse, SetBusy, scan, work
<1>2. /\ generation' \in Nat
      /\ generation' >= generation /\ sequence' >= sequence /\ active' \in {0, sequence'}
  BY <1>1 DEF IInv, TypeOK, Numbered
<1>3. NoSource \in Choices
  BY DEF NoSource, Source, Choices
<1>4. TypeOK'
  <2>1. parsing' \in BOOLEAN /\ busy' \in BOOLEAN /\ buttons' \in BOOLEAN BY <1>1, Zenon
  <2> QED BY <1>1, <1>2, <1>3, <2>1, Zenon DEF IInv, TypeOK
<1>5. ~PhoneAwaited /\ ~PhoneAwaited'
  BY <1>1, Same DEF StopFolder, IInv, OneAwaited, PhoneAwaited
<1> QED BY <1>1, <1>2, <1>4, <1>5, Same, Quieter

LEMMA ScanPhoneKeeps == IInv /\ ScanPhone => IInv'
<1> SUFFICES ASSUME IInv, ScanPhone PROVE IInv'
  OBVIOUS
<1>1. /\ UNCHANGED <<pending, due, auditing, dialogs, queue, rejected>>
      /\ generation' = generation + 1 /\ parsing' = FALSE
      /\ sequence' = sequence + 1 /\ active' = sequence'
      /\ busy' = TRUE /\ buttons' = FALSE /\ source' \in {NoSource, source}
      /\ threads' = threads \cup {Thread("adb", active')}
      /\ newest' = Source("device", active')
  BY DEF ScanPhone, InvalidateParse, BeginRequest, SetBusy
<1>2. sequence' \in Nat /\ sequence' # 0
  BY <1>1 DEF IInv, TypeOK
<1>3. /\ Thread("adb", active') \in Threads /\ Thread("adb", active').id # 0
  BY <1>1, <1>2 DEF Thread, Threads, Kinds
<1>4. threads' \subseteq Threads /\ ThreadsNumbered'
  BY <1>1, <1>3 DEF IInv, TypeOK, Numbered, ThreadsNumbered
<1>5. /\ newest' \in Choices /\ source' \in Choices
      /\ newest'.kind = "device" /\ newest'.id = sequence'
  BY <1>1, <1>2 DEF IInv, TypeOK, NoSource, Source, Choices
<1>6. TypeOK'
  <2>1. active' \in Nat /\ generation' \in Nat
    BY <1>1, <1>2 DEF IInv, TypeOK
  <2>2. parsing' \in BOOLEAN /\ busy' \in BOOLEAN /\ buttons' \in BOOLEAN
    BY <1>1, Zenon
  <2> QED BY <1>1, <1>2, <1>4, <1>5, <2>1, <2>2, Zenon DEF IInv, TypeOK
<1>7. Numbered' /\ FileDialogsBelow' /\ OneAwaited'
  BY <1>1, <1>2, <1>4, <1>5, Same DEF Numbered, OneAwaited
<1> QED BY <1>6, <1>7 DEF IInv

(* Steps that leave requests, boxes and choices, or only give something up. *)
LEMMA Calm ==
  ASSUME IInv, TypeOK', UNCHANGED <<sequence, generation, newest, dialogs>>,
         active' \in {0, active}, ThreadsNumbered', QueueNumbered',
         pending' => pending, parsing' => parsing
  PROVE  IInv'
<1>1. /\ sequence' >= sequence /\ generation' >= generation /\ active' \in {0, sequence'}
      /\ newest' = newest
  BY DEF IInv, TypeOK, Numbered
<1>2. PhoneAwaited' => PhoneAwaited
  BY Same DEF PhoneAwaited
<1>3. PhoneAwaited => ~parsing
  BY DEF IInv, OneAwaited
<1> QED BY <1>1, <1>2, <1>3, Same, Quieter

LEMMA StartScanFacts ==
  ASSUME IInv, NEW r \in Nat \ {0}, StartScan(r)
  PROVE  /\ threads' \subseteq Threads /\ ThreadsNumbered'
         /\ busy' \in BOOLEAN /\ buttons' \in BOOLEAN
<1>1. busy' = TRUE /\ buttons' = FALSE BY DEF StartScan, SetBusy
<1>2. PICK k \in {"scan", "second scan"} : threads' = threads \cup {Thread(k, r)}
  BY DEF StartScan
<1>3. Thread(k, r) \in Threads /\ Thread(k, r).id # 0 BY DEF Thread, Threads, Kinds
<1>4. threads' \subseteq Threads /\ ThreadsNumbered'
  BY <1>2, <1>3 DEF IInv, TypeOK, Numbered, ThreadsNumbered
<1> QED BY <1>1, <1>4, Zenon

LEMMA AnswerNoKeeps == IInv /\ AnswerNo => IInv'
<1> SUFFICES ASSUME IInv, AnswerNo PROVE IInv'
  OBVIOUS
<1>1. /\ UNCHANGED <<source, sequence, pending, generation, parsing, busy, buttons, due,
                      auditing, threads, queue, newest, rejected>>
      /\ dialogs' = Closed /\ dialogs # <<>> /\ active' = 0
  BY DEF AnswerNo, Top, folder, control, work
<1>2. dialogs' \in Seq(Dialogs) /\ FileDialogsBelow' /\ (Asked' => Asked)
  BY <1>1, ClosedKeeps
<1>3. TypeOK' /\ generation' >= generation /\ sequence' >= sequence /\ active' \in {0, sequence'}
  BY <1>1, <1>2 DEF IInv, TypeOK
<1>4. PhoneAwaited' => PhoneAwaited /\ ~parsing'
  BY <1>1, <1>2 DEF IInv, OneAwaited, PhoneAwaited
<1> QED BY <1>1, <1>2, <1>3, <1>4, Same, Quieter

LEMMA AnswerYesKeeps == IInv /\ AnswerYes => IInv'
<1> SUFFICES ASSUME IInv, AnswerYes PROVE IInv'
  OBVIOUS
<1>1. /\ UNCHANGED <<source, sequence, active, generation, parsing, due, auditing, queue, newest,
                      rejected>>
      /\ dialogs' = Closed /\ pending' = TRUE /\ busy' = TRUE /\ buttons' = FALSE
      /\ threads' = threads \cup {Thread("install", sequence)}
  BY DEF AnswerYes, SetBusy, folder
<1>2. dialogs # <<>> /\ Asked
  BY TopIsOpen DEF AnswerYes
<1>3. dialogs' \in Seq(Dialogs) /\ FileDialogsBelow' /\ (Asked' => Asked)
  BY <1>1, <1>2, ClosedKeeps
<1>4. threads' \subseteq Threads /\ ThreadsNumbered'
  <2>1. /\ Thread("install", sequence) \in Threads
        /\ Thread("install", sequence).kind \notin AdbThreads
    BY DEF IInv, TypeOK, Thread, Threads, Kinds, AdbThreads
  <2> QED BY <1>1, <2>1 DEF IInv, TypeOK, Numbered, ThreadsNumbered
<1>5. TypeOK'
  <2>1. pending' \in BOOLEAN /\ busy' \in BOOLEAN /\ buttons' \in BOOLEAN BY <1>1, Zenon
  <2> QED BY <1>1, <1>3, <1>4, <2>1, Zenon DEF IInv, TypeOK
<1>6. generation' >= generation /\ sequence' >= sequence /\ active' \in {0, sequence'}
  BY <1>1 DEF IInv, TypeOK, Numbered
<1>7. PhoneAwaited /\ ~parsing'
  BY <1>1, <1>2 DEF IInv, OneAwaited, PhoneAwaited
<1> QED BY <1>1, <1>3, <1>4, <1>5, <1>6, <1>7, Same, Quieter

LEMMA CloseInstalledKeeps == IInv /\ CloseInstalled => IInv'
<1> SUFFICES ASSUME IInv, CloseInstalled PROVE IInv'
  OBVIOUS
<1>1. /\ UNCHANGED <<source, generation, parsing, due, auditing, queue, newest, rejected>>
      /\ dialogs' = Closed /\ dialogs # <<>>
  BY DEF CloseInstalled, Top, folder
<1>2. dialogs' \in Seq(Dialogs) /\ FileDialogsBelow' /\ (Asked' => Asked)
  BY <1>1, ClosedKeeps
<1>3. CASE ~pending
  <2>1. UNCHANGED <<sequence, active, pending, busy, buttons, threads>>
    BY <1>3 DEF CloseInstalled, scan, control
  <2>2. TypeOK' /\ generation' >= generation /\ sequence' >= sequence /\ active' \in {0, sequence'}
    BY <1>1, <1>2, <2>1 DEF IInv, TypeOK, Numbered
  <2>3. PhoneAwaited' => PhoneAwaited /\ ~parsing'
    BY <1>1, <1>2, <2>1 DEF IInv, OneAwaited, PhoneAwaited
  <2> QED BY <1>1, <1>2, <2>1, <2>2, <2>3, Same, Quieter
<1>4. CASE pending
  <2>1. /\ pending' = FALSE /\ StartScan(active')
        /\ IF active = 0 THEN BeginRequest ELSE UNCHANGED <<sequence, active>>
    BY <1>4 DEF CloseInstalled
  <2>2. active' \in Nat \ {0} /\ sequence' \in Nat /\ sequence' >= sequence /\ active' = sequence'
    BY <2>1 DEF IInv, TypeOK, Numbered, BeginRequest
  <2>3. threads' \subseteq Threads /\ ThreadsNumbered' /\ busy' \in BOOLEAN /\ buttons' \in BOOLEAN
    BY <2>1, <2>2, StartScanFacts
  <2>4. TypeOK'
    <3>1. pending' \in BOOLEAN BY <2>1, Zenon
    <3> QED BY <1>1, <1>2, <2>2, <2>3, <3>1, Zenon DEF IInv, TypeOK
  <2>5. PhoneAwaited /\ ~parsing' /\ generation' >= generation
    BY <1>1, <1>4 DEF IInv, TypeOK, OneAwaited, PhoneAwaited
  <2> QED BY <1>1, <1>2, <2>2, <2>3, <2>4, <2>5, Same, Quieter
<1> QED BY <1>3, <1>4

-----------------------------------------------------------------------------
(* Threads and audits. *)

LEMMA ThreadEndsKeeps ==
  ASSUME IInv, NEW t \in threads, ThreadEnds(t)
  PROVE  IInv'
<1>1. /\ UNCHANGED <<source, sequence, active, pending, generation, parsing, busy, buttons, due,
                      auditing, dialogs, newest, rejected>>
      /\ threads' = threads \ {t}
  BY DEF ThreadEnds, scan, folder, control
<1>2. queue' \in Seq(Queued) /\ QueueNumbered'
  BY ReportFacts
<1>3. threads' \subseteq Threads /\ ThreadsNumbered'
  BY <1>1 DEF IInv, TypeOK, Numbered, ThreadsNumbered
<1>4. TypeOK' BY <1>1, <1>2, <1>3 DEF IInv, TypeOK
<1> QED BY <1>1, <1>2, <1>3, <1>4, Calm

LEMMA AuditKeeps ==
  ASSUME IInv, StartTimer \/ Run \/ AuditEnds
  PROVE  IInv' /\ source' = source
<1>1. UNCHANGED <<source, sequence, active, pending, generation, parsing, busy, dialogs,
                  threads, queue, newest, rejected>>
  BY DEF StartTimer, Run, AuditEnds, StartAudit, scan, folder, control, work
<1>2. auditing' \in {auditing, source, NoSource} /\ NoSource \in Choices
  BY DEF StartTimer, Run, AuditEnds, StartAudit, NoSource, Source, Choices
<1>3. due' \in {due, FALSE} /\ buttons' \in {buttons, TRUE, FALSE}
  BY Zenon DEF StartTimer, Run, AuditEnds, StartAudit, control
<1>4. TypeOK'
  <2>1. due' \in BOOLEAN /\ buttons' \in BOOLEAN BY <1>3, Zenon DEF IInv, TypeOK
  <2>2. auditing' \in Choices BY <1>2 DEF IInv, TypeOK
  <2> QED BY <1>1, <2>1, <2>2, Zenon DEF IInv, TypeOK
<1>5. active' \in {0, active} BY <1>1
<1>6. IInv' BY <1>1, <1>4, <1>5, Same, Calm
<1> QED BY <1>1, <1>6

-----------------------------------------------------------------------------
(* Signals. *)

LEMMA StaleKeeps == IInv /\ Stale => IInv'
<1> SUFFICES ASSUME IInv, NEW k, NEW c, Ignored(k, c) PROVE IInv'
  BY DEF Stale
<1>1. UNCHANGED <<source, sequence, active, pending, generation, parsing, busy, buttons, due,
                  auditing, dialogs, threads, newest, rejected>>
  BY DEF Ignored, scan, folder, control
<1>2. queue' \in Seq(Queued) /\ QueueNumbered'
  BY SignalFacts DEF Ignored
<1>3. TypeOK' BY <1>1, <1>2 DEF IInv, TypeOK
<1> QED BY <1>1, <1>2, <1>3, Same, Calm

LEMMA AdbFoundKeeps == IInv /\ AdbFound => IInv'
<1> SUFFICES ASSUME IInv, AdbFound PROVE IInv'
  OBVIOUS
<1>1. UNCHANGED <<source, sequence, active, pending, generation, parsing, due, auditing, dialogs,
                  newest, rejected>>
  BY DEF AdbFound, scan, folder
<1>2. queue' \in Seq(Queued) /\ QueueNumbered' /\ active # 0
  BY SignalFacts DEF AdbFound, IsCurrent, AdbWork
<1>3. active \in Nat \ {0} BY <1>2 DEF IInv, TypeOK
<1>4. threads' \subseteq Threads /\ ThreadsNumbered' /\ busy' \in BOOLEAN /\ buttons' \in BOOLEAN
  BY <1>3, StartScanFacts DEF AdbFound
<1>5. TypeOK' BY <1>1, <1>2, <1>4, Zenon DEF IInv, TypeOK
<1> QED BY <1>1, <1>2, <1>4, <1>5, Calm

LEMMA AdbMissingKeeps == IInv /\ AdbMissing => IInv'
<1> SUFFICES ASSUME IInv, AdbMissing PROVE IInv'
  OBVIOUS
<1>1. /\ UNCHANGED <<source, sequence, pending, generation, parsing, due, auditing, threads,
                      newest, rejected>>
      /\ busy' = FALSE /\ buttons' = TRUE
  BY DEF AdbMissing, SetBusy, folder
<1>2. queue' \in Seq(Queued) /\ QueueNumbered' /\ active # 0
  BY SignalFacts DEF AdbMissing, IsCurrent, AdbWork
<1>3. busy' \in BOOLEAN /\ buttons' \in BOOLEAN BY <1>1, Zenon
<1>4. CASE active' = 0 /\ UNCHANGED dialogs
  <2>1. active' \in Nat BY <1>4
  <2>2. TypeOK' BY <1>1, <1>2, <1>3, <1>4, <2>1, Zenon DEF IInv, TypeOK
  <2> QED BY <1>1, <1>2, <1>4, <2>2, Same, Calm
<1>5. CASE dialogs' = Append(dialogs, "install?") /\ UNCHANGED active
  <2>1. dialogs' \in Seq(Dialogs) /\ FileDialogsBelow'
    BY <1>5, AppendKeeps
  <2>2. TypeOK' BY <1>1, <1>2, <1>3, <1>5, <2>1, Zenon DEF IInv, TypeOK
  <2>3. PhoneAwaited /\ ~parsing'
    BY <1>1, <1>2 DEF IInv, OneAwaited, PhoneAwaited
  <2>4. generation' >= generation /\ sequence' >= sequence /\ active' \in {0, sequence'}
    BY <1>1, <1>5 DEF IInv, TypeOK, Numbered
  <2> QED BY <1>1, <1>2, <2>1, <2>2, <2>3, <2>4, Same, Quieter
<1> QED BY <1>4, <1>5 DEF AdbMissing

LEMMA InstalledKeeps == IInv /\ Installed => IInv'
<1> SUFFICES ASSUME IInv, Installed PROVE IInv'
  OBVIOUS
<1>1. /\ UNCHANGED <<source, sequence, active, pending, generation, parsing, due, auditing,
                      threads, newest, rejected>>
      /\ busy' = FALSE /\ buttons' = TRUE /\ dialogs' = Append(dialogs, "installed")
  BY DEF Installed, SetBusy, scan, folder
<1>2. queue' \in Seq(Queued) /\ QueueNumbered'
  BY SignalFacts DEF Installed
<1>3. dialogs' \in Seq(Dialogs) /\ FileDialogsBelow' /\ (Asked' => Asked)
  BY <1>1, AppendKeeps
<1>4. TypeOK'
  <2>1. busy' \in BOOLEAN /\ buttons' \in BOOLEAN BY <1>1, Zenon
  <2> QED BY <1>1, <1>2, <1>3, <2>1, Zenon DEF IInv, TypeOK
<1>5. PhoneAwaited' => PhoneAwaited /\ ~parsing'
  BY <1>1, <1>3 DEF IInv, OneAwaited, PhoneAwaited
<1>6. generation' >= generation /\ sequence' >= sequence /\ active' \in {0, sequence'}
  BY <1>1 DEF IInv, TypeOK, Numbered
<1> QED BY <1>1, <1>2, <1>3, <1>4, <1>5, <1>6, Same, Quieter

(* A failed download, and the two ends of a current scan. *)
LEMMA EndKeeps ==
  ASSUME IInv, NEW k \in Reports, Take(k), active' = 0, SetBusy(FALSE),
         UNCHANGED <<sequence, folder, auditing, dialogs, threads, newest, rejected>>,
         pending' \in {pending, FALSE}, due' \in BOOLEAN, source' \in Choices
  PROVE  IInv'
<1>1. UNCHANGED <<sequence, generation, parsing, auditing, dialogs, threads, newest, rejected>>
  BY DEF folder
<1>2. queue' \in Seq(Queued) /\ QueueNumbered'
  BY SignalFacts
<1>3. TypeOK'
  <2>1. busy' \in BOOLEAN /\ buttons' \in BOOLEAN /\ pending' \in BOOLEAN
    BY Zenon DEF SetBusy, IInv, TypeOK
  <2>2. active' \in Nat BY SMT
  <2> QED BY <1>1, <1>2, <2>1, <2>2, Zenon DEF IInv, TypeOK
<1>4. pending' => pending
  BY Zenon
<1>5. parsing' => parsing
  BY <1>1, Zenon
<1> QED BY <1>1, <1>2, <1>3, <1>4, <1>5, Same, Calm

LEMMA InstallFailedKeeps == IInv /\ InstallFailed => IInv'
<1> SUFFICES ASSUME IInv, InstallFailed PROVE IInv'
  OBVIOUS
<1>1. /\ Take("install failed") /\ active' = 0 /\ pending' = FALSE /\ SetBusy(FALSE)
      /\ UNCHANGED <<source, sequence, folder, due, auditing, dialogs, threads, newest, rejected>>
  BY DEF InstallFailed
<1>2. due' \in BOOLEAN /\ source' \in Choices
  BY <1>1 DEF IInv, TypeOK
<1> QED BY <1>1, <1>2, EndKeeps DEF Reports

LEMMA ScanFailedKeeps == IInv /\ ScanFailed => IInv'
<1> SUFFICES ASSUME IInv, ScanFailed PROVE IInv'
  OBVIOUS
<1>1. /\ Take("scan failed") /\ active' = 0 /\ SetBusy(FALSE)
      /\ UNCHANGED <<source, sequence, pending, folder, due, auditing, dialogs, threads, newest,
                      rejected>>
  BY DEF ScanFailed
<1>2. due' \in BOOLEAN /\ source' \in Choices
  BY <1>1 DEF IInv, TypeOK
<1> QED BY <1>1, <1>2, EndKeeps DEF Reports

LEMMA ScanDoneKeeps ==
  ASSUME IInv, ScanDone
  PROVE  IInv' /\ source'.kind = newest'.kind /\ source'.id >= newest'.id
<1>1. /\ Take("scan done") /\ Signal.id = active /\ active' = 0 /\ SetBusy(FALSE)
      /\ UNCHANGED <<sequence, pending, folder, auditing, dialogs, threads, newest, rejected>>
      /\ source' = Source("device", Signal.id)
      /\ due' = (due \/ auditing = NoSource)
  BY DEF ScanDone, IsCurrent, DeviceScanned
<1>2. active # 0 /\ active \in Nat
  BY <1>1, SignalFacts DEF AdbWork, IInv, TypeOK
<1>3. due' \in BOOLEAN
  BY <1>1, Zenon DEF IInv, TypeOK
<1>4. source' \in Choices /\ source'.kind = "device" /\ source'.id = active
  BY <1>1, <1>2 DEF Source, Choices
<1>5. IInv'
  BY <1>1, <1>3, <1>4, EndKeeps DEF Reports
<1>6. newest.kind = "device" /\ newest.id <= active
  BY <1>2 DEF IInv, OneAwaited, PhoneAwaited, Numbered
<1>7. newest' = newest BY <1>1
<1>8. newest.id \in Nat BY DEF IInv, TypeOK, Choices
<1> QED BY <1>2, <1>4, <1>5, <1>6, <1>7, <1>8

(* The end of the folder being discovered: no phone is awaited. *)
LEMMA FolderEnds ==
  ASSUME IInv, NEW k \in Reports, Take(k), parsing, parsing' = FALSE, SetBusy(FALSE),
         generation' >= generation, generation' \in Nat, active' = 0, pending' \in {pending, FALSE},
         sequence' >= sequence, sequence' \in Nat,
         UNCHANGED <<dialogs, threads, newest, rejected>>,
         due' \in BOOLEAN, source' \in Choices, auditing' \in Choices
  PROVE  IInv'
<1>1. queue' \in Seq(Queued) /\ QueueNumbered'
  BY SignalFacts
<1>2. ~PhoneAwaited
  BY DEF IInv, OneAwaited
<1>3. ~PhoneAwaited'
  BY <1>2, Same DEF PhoneAwaited
<1>4. TypeOK'
  <2>1. /\ busy' \in BOOLEAN /\ buttons' \in BOOLEAN /\ pending' \in BOOLEAN
        /\ parsing' \in BOOLEAN
    BY Zenon DEF SetBusy, IInv, TypeOK
  <2>2. active' \in Nat BY SMT
  <2> QED BY <1>1, <2>1, <2>2, Zenon DEF IInv, TypeOK
<1>5. threads' = threads /\ dialogs' = dialogs OBVIOUS
<1> QED BY <1>1, <1>3, <1>4, <1>5, Same, Quieter

LEMMA FolderFailedKeeps == IInv /\ FolderFailed => IInv' /\ source' = NoSource
<1> SUFFICES ASSUME IInv, FolderFailed PROVE IInv' /\ source' = NoSource
  OBVIOUS
<1>1. /\ Take("folder failed") /\ parsing /\ parsing' = FALSE /\ SetBusy(FALSE)
      /\ UNCHANGED <<sequence, active, pending, generation, due, auditing, dialogs, threads,
                      newest, rejected>>
      /\ source' = NoSource
  BY DEF FolderFailed, IsCurrentFolder, scan
<1>2. active = 0
  BY <1>1 DEF IInv, OneAwaited, PhoneAwaited
<1>3. /\ generation' >= generation /\ generation' \in Nat
      /\ sequence' >= sequence /\ sequence' \in Nat
  <2>1. generation' = generation /\ sequence' = sequence
    BY <1>1, Zenon
  <2>2. generation \in Nat /\ sequence \in Nat
    BY Zenon DEF IInv, TypeOK
  <2> QED BY ONLY <2>1, <2>2
<1>4. due' \in BOOLEAN /\ source' \in Choices /\ auditing' \in Choices
  BY <1>1 DEF IInv, TypeOK, NoSource, Source, Choices
<1> QED BY <1>1, <1>2, <1>3, <1>4, FolderEnds DEF Reports

LEMMA FolderDoneKeeps ==
  ASSUME IInv, NEW found \in BOOLEAN, FolderDone(found)
  PROVE  /\ IInv'
         /\ source' # NoSource => source'.kind = newest'.kind /\ source'.id >= newest'.id
<1>1. /\ Take("folder done") /\ parsing /\ parsing' = FALSE /\ SetBusy(FALSE)
      /\ generation' = generation + 1 /\ sequence' = sequence + 1
      /\ active' = 0 /\ pending' = FALSE /\ auditing' = NoSource /\ due' = found
      /\ source' = (IF found THEN Source("local", generation') ELSE NoSource)
      /\ UNCHANGED <<dialogs, threads, newest, rejected>>
  BY DEF FolderDone, IsCurrentFolder, Establish, InvalidateParse, InvalidateScan
<1>2. /\ generation' >= generation /\ generation' \in Nat
      /\ sequence' >= sequence /\ sequence' \in Nat
  <2>1. generation' = generation + 1 /\ sequence' = sequence + 1
    BY <1>1, Zenon
  <2>2. generation \in Nat /\ sequence \in Nat
    BY Zenon DEF IInv, TypeOK
  <2> QED BY ONLY <2>1, <2>2
<1>3. source' \in Choices /\ auditing' \in Choices
  BY <1>1, <1>2 DEF NoSource, Source, Choices
<1>4. IInv'
  BY <1>1, <1>2, <1>3, FolderEnds DEF Reports
<1>5. newest.kind = "local" /\ newest.id <= generation /\ newest.id \in Nat
  BY <1>1 DEF IInv, TypeOK, Choices, OneAwaited
<1>6. source' # NoSource => source'.kind = "local" /\ source'.id = generation + 1
  BY <1>1 DEF Source
<1>7. newest' = newest /\ generation \in Nat
  BY <1>1 DEF IInv, TypeOK
<1> QED BY <1>4, <1>5, <1>6, <1>7

-----------------------------------------------------------------------------
LEMMA NextKeeps == IInv /\ [Next]_vars => IInv'
<1> SUFFICES ASSUME IInv, [Next]_vars PROVE IInv'
  OBVIOUS
<1>1. CASE Command
  BY <1>1, Choose, RejectFileKeeps, StopFolderKeeps, ScanPhoneKeeps, AuditKeeps, OpenDialogKeeps
     DEF Command
<1>2. CASE Answer
  BY <1>2, Choose, DismissDialogKeeps, AnswerNoKeeps, AnswerYesKeeps, CloseInstalledKeeps
     DEF Answer
<1>3. CASE TakeSignal
  BY <1>3, StaleKeeps, AdbFoundKeeps, AdbMissingKeeps, InstalledKeeps, InstallFailedKeeps,
     ScanDoneKeeps, ScanFailedKeeps, FolderDoneKeeps, FolderFailedKeeps
     DEF TakeSignal
<1>4. CASE StartTimer \/ AuditEnds
  BY <1>4, AuditKeeps
<1>5. ASSUME NEW t \in threads, ThreadEnds(t) PROVE IInv'
  BY <1>5, ThreadEndsKeeps
<1>6. CASE UNCHANGED vars
  <2>1. UNCHANGED <<source, sequence, active, pending, generation, parsing, busy, buttons, due,
                    auditing, dialogs, threads, queue, newest, rejected>>
    BY <1>6 DEF vars, scan, folder, control, work
  <2> QED BY <2>1 DEF IInv, TypeOK, Numbered, ThreadsNumbered, QueueNumbered, FileDialogsBelow,
    OneAwaited, PhoneAwaited, Asked
<1> QED BY <1>1, <1>2, <1>3, <1>4, <1>5, <1>6 DEF Next

LEMMA Inductive == Spec => []IInv
<1>1. Init => IInv BY InitIInv
<1>2. IInv /\ [Next]_vars => IInv' BY NextKeeps
<1> QED BY <1>1, <1>2, PTL DEF Spec

(***************************************************************************)
(* However choices, downloads, boxes and late reports overlap, a phone     *)
(* scan and a folder discovery are never both awaited.                     *)
(***************************************************************************)
THEOREM OneIsAwaited == Spec => []OneSourceOperation
<1>1. IInv => OneSourceOperation
  BY DEF IInv, OneAwaited, PhoneAwaited, OneSourceOperation
<1> QED BY <1>1, Inductive, PTL

(***************************************************************************)
(* A report of a thread only ever establishes the user's newest choice.    *)
(***************************************************************************)
THEOREM NewestChoiceWins == Spec => NewestWins
<1> DEFINE Wins == source' # source /\ source' # NoSource =>
                     source'.kind = newest'.kind /\ source'.id >= newest'.id
<1>1. IInv /\ [Next]_vars => [Wins]_vars
  <2> SUFFICES ASSUME IInv, Next PROVE Wins
    BY DEF vars
  <2>1. CASE LoadFile \/ \E found \in BOOLEAN : ChoosePackages(found)
    <3>1. generation' = generation + 1
      BY <2>1, Zenon DEF LoadFile, ChoosePackages, Establish, InvalidateParse
    <3>2. generation' \in Nat
      <4>1. generation \in Nat BY Zenon DEF IInv, TypeOK
      <4> QED BY ONLY <3>1, <4>1
    <3>3. newest' = Source("file", generation') \/ newest' = Source("local", generation')
      BY <2>1, Zenon DEF LoadFile, ChoosePackages
    <3>4. newest'.id = generation'
      BY ONLY <3>3 DEF Source
    <3>5. source' # NoSource => source' = newest'
      BY <2>1 DEF LoadFile, ChoosePackages, Establish
    <3> QED BY <3>2, <3>4, <3>5
  <2>2. CASE ScanDone
    BY <2>2, ScanDoneKeeps
  <2>3. ASSUME NEW found \in BOOLEAN, FolderDone(found) PROVE Wins
    BY <2>3, FolderDoneKeeps
  <2>4. CASE BeginFolder \/ ScanPhone \/ StopFolder \/ FolderFailed
    BY <2>4 DEF BeginFolder, ScanPhone, StopFolder, FolderFailed
  <2>5. CASE StartTimer \/ Run \/ AuditEnds
    BY <2>5, AuditKeeps
  <2>6. CASE \/ RejectFile \/ DismissDialog \/ AnswerNo \/ AnswerYes \/ CloseInstalled
             \/ OpenDialog("packages") \/ OpenDialog("folder")
             \/ \E t \in threads : ThreadEnds(t)
    BY <2>6 DEF RejectFile, DismissDialog, AnswerNo, AnswerYes, CloseInstalled, OpenDialog,
      ThreadEnds
  <2>7. CASE Stale \/ AdbFound \/ AdbMissing \/ Installed \/ InstallFailed \/ ScanFailed
    BY <2>7 DEF Stale, Ignored, AdbFound, AdbMissing, Installed, InstallFailed, ScanFailed
  <2> QED BY <2>1, <2>2, <2>3, <2>4, <2>5, <2>6, <2>7 DEF Next, Command, Answer, TakeSignal
<1>2. NewestWins <=> [][Wins]_vars
  BY DEF NewestWins
<1> QED BY <1>1, <1>2, Inductive, PTL DEF Spec
=============================================================================
