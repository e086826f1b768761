---------------------------- MODULE LocalLibrary -----------------------------
(***************************************************************************)
(* The Library of local APK files (services/local_apk_library): registered *)
(* roots, the artifacts met under them by the hash of their bytes, and     *)
(* where each was met.  A rescan walks the roots one entry at a time while *)
(* other programs change files, folders and files refuse to be read, and   *)
(* the caller may cancel; the library it returns replaces the old one and  *)
(* is saved to a file that is loaded later.                                *)
(*                                                                         *)
(* Entries of a folder are taken in any order.  The clock of the computer  *)
(* may be set back.                                                        *)
(***************************************************************************)
EXTENDS Naturals, FiniteSets

CONSTANTS
  Folders,
  Roots,       \* folders one may register
  Paths,       \* of files named *.apk
  In,          \* the folder of each path and of each folder that is not outermost
  Contents,    \* of files that parse, known by their hash
  MaxTime,     \* bound of the clock
  MaxScans,    \* bound: rescans
  MaxTrouble,  \* bound: changes by other programs, and refused or failed accesses
  MaxSaves     \* bound: writes of the library

VARIABLES
  files,       \* of each path: a content, "link" or "none"
  clock,       \* latest time a rescan read
  setback,     \* history: a rescan read an earlier time than one before
  scans,
  trouble,     \* their number
  library,     \* what the caller holds
  scan,        \* the rescan under way
  cancelled,
  disk,        \* local_apk_library.json: what it holds, and whether it would load
  saves

vars == <<files, clock, setback, scans, trouble, library, scan, cancelled, disk, saves>>

-----------------------------------------------------------------------------
(* Libraries. *)

Keys     == Contents \X Paths           \* _location_key
Unknown  == [root |-> "none", present |-> FALSE, first |-> 0, last |-> 0]

\* parsed (history): what the latest attempt to parse each path gave.  The times and
\* results of scans that a root shows are left out.
EmptyLibrary ==
  [roots |-> {}, artifacts |-> {},
   locations |-> [k \in Keys |-> Unknown], parsed |-> [p \in Paths |-> "nothing"]]

Known(lib)   == {k \in Keys : lib.locations[k] # Unknown}
Present(lib) == {k \in Keys : lib.locations[k].present}

\* os.path.commonpath of a path and a folder is the folder
Holders[e \in Folders \cup Paths] ==
  {In[e]} \cup IF In[e] \in Folders THEN Holders[In[e]] ELSE {}
Under(e, folder) == folder \in Holders[e]

\* _validate_library_relationships
Valid(lib) ==
  /\ \A k \in Known(lib) :
       /\ k[1] \in lib.artifacts
       /\ lib.locations[k].root \in lib.roots
       /\ Under(k[2], lib.locations[k].root)
       /\ lib.locations[k].first <= lib.locations[k].last
  /\ \A k, l \in Present(lib) : k[2] = l[2] => k = l

Register(lib, roots) == [lib EXCEPT !.roots = @ \cup roots]

Remove(lib, root) ==
  [lib EXCEPT !.roots = @ \ {root},
              !.locations = [k \in Keys |-> IF @[k].root = root THEN Unknown ELSE @[k]]]

\* _invalidate_present_location
Invalidated(lib, p) ==
  [lib EXCEPT !.locations = [k \in Keys |-> IF k[2] = p THEN [@[k] EXCEPT !.present = FALSE] ELSE @[k]]]

\* _merge_artifact
Merged(lib, c, p, root, now) ==
  LET old == lib.locations[<<c, p>>]
  IN  [Invalidated(lib, p) EXCEPT !.artifacts = @ \cup {c}, !.parsed[p] = c,
         !.locations[<<c, p>>] = [root |-> root, present |-> TRUE,
            first |-> IF old = Unknown THEN now ELSE old.first, last |-> now]]

\* A plausible mistake: a file that no longer parses stays present as what it was.
UnparsedStays(lib, p) == [lib EXCEPT !.parsed[p] = "failure"]

Unparsed(lib, p) == [Invalidated(lib, p) EXCEPT !.parsed[p] = "failure"]

\* The end of a root's scan: what a complete one did not meet is absent.
Swept(lib, root, seen) ==
  [lib EXCEPT !.locations = [k \in Keys |->
     IF @[k].root = root /\ k[2] \notin seen THEN [@[k] EXCEPT !.present = FALSE] ELSE @[k]]]

-----------------------------------------------------------------------------
(* The rescan. *)

NoScan == [active |-> FALSE, left |-> {}, root |-> "none", folders |-> {}, entries |-> {},
           seen |-> {}, trouble |-> FALSE, now |-> 0, work |-> EmptyLibrary,
           disturbed |-> {}]

FilesIn(folder)   == {p \in Paths : In[p] = folder /\ files[p] # "none"}
FoldersIn(folder) == {f \in Folders : In[f] = folder}

\* Every selected root has to be registered.  The clock is read once.
Rescan(roots, now) ==
  /\ ~scan.active /\ roots \subseteq library.roots
  /\ scans < MaxScans /\ scans' = scans + 1
  /\ scan' = [NoScan EXCEPT !.active = TRUE, !.left = roots, !.now = now, !.work = library]
  /\ clock' = now
  /\ setback' = (setback \/ now < clock)
  /\ UNCHANGED <<files, trouble, library, cancelled, disk, saves>>

Scanning == scan.active /\ scan.root # "none"

RootDone(status, lib) ==
  scan' = [scan EXCEPT !.root = "none", !.folders = {}, !.entries = {},
             !.work = lib,
             !.left = IF status = "cancelled" THEN {} ELSE @]

Suffers(when) ==
  /\ when => trouble < MaxTrouble
  /\ trouble' = IF when THEN trouble + 1 ELSE trouble

\* The head of _scan_root: a cancelled scan does not look at the root; a root that is
\* gone or a link fails.
OpenRoot(root, usable) ==
  /\ scan.active /\ scan.root = "none" /\ root \in scan.left
  /\ IF cancelled \/ ~usable
     THEN scan' = [scan EXCEPT !.left = IF cancelled THEN {} ELSE @ \ {root}]
     ELSE scan' = [scan EXCEPT !.left = @ \ {root}, !.root = root, !.folders = {root},
                     !.seen = {}, !.trouble = FALSE]
  /\ Suffers(~usable)
  /\ UNCHANGED <<files, clock, setback, scans, library, cancelled, disk, saves>>

\* The listing of a folder is taken at once; its entries are looked at later.
ListFolder(folder, readable) ==
  /\ Scanning /\ ~cancelled /\ scan.entries = {} /\ folder \in scan.folders
  /\ scan' = [scan EXCEPT !.folders = @ \ {folder},
                !.entries = IF readable THEN FilesIn(folder) \cup FoldersIn(folder) ELSE {},
                !.trouble = @ \/ ~readable]
  /\ Suffers(~readable)
  /\ UNCHANGED <<files, clock, setback, scans, library, cancelled, disk, saves>>

TakeEntry(e, lib, isSeen, failed, folders, disturbed) ==
  scan' = [scan EXCEPT !.entries = @ \ {e}, !.work = lib, !.seen = IF isSeen THEN @ \cup {e} ELSE @,
             !.trouble = @ \/ failed, !.folders = @ \cup folders, !.disturbed = @ \cup disturbed]

Gone(e) == e \in Paths /\ files[e] = "none"

\* What cannot be inspected, or is gone, is trouble; a name *.apk counts as seen.
InaccessibleEntry(e) ==
  /\ Scanning /\ ~cancelled /\ e \in scan.entries
  /\ TakeEntry(e, scan.work, e \in Paths, TRUE, {}, {})
  /\ Suffers(~Gone(e))
  /\ UNCHANGED <<files, clock, setback, scans, library, cancelled, disk, saves>>

FolderEntry(e) ==
  /\ Scanning /\ ~cancelled /\ e \in scan.entries \cap Folders
  /\ TakeEntry(e, scan.work, FALSE, FALSE, {e}, {})
  /\ UNCHANGED <<files, clock, setback, scans, trouble, library, cancelled, disk, saves>>

\* A link is passed over; a file is parsed as it is then, by a parser that may fail.
FileEntry(e, fails) ==
  /\ Scanning /\ ~cancelled /\ e \in scan.entries \cap Paths /\ ~Gone(e)
  /\ IF files[e] = "link" THEN TakeEntry(e, scan.work, FALSE, FALSE, {}, {})
     ELSE IF fails THEN TakeEntry(e, Unparsed(scan.work, e), TRUE, FALSE, {}, {e})
     ELSE TakeEntry(e, Merged(scan.work, files[e], e, scan.root, scan.now), TRUE, FALSE, {}, {})
  /\ Suffers(fails)
  /\ UNCHANGED <<files, clock, setback, scans, library, cancelled, disk, saves>>

\* A plausible mistake: folders that could not be read do not matter.
StatusAtEndOfAny == IF cancelled THEN "cancelled" ELSE "completed"

StatusAtEnd ==
  IF cancelled THEN "cancelled" ELSE IF scan.trouble THEN "partial" ELSE "completed"

FinishRoot ==
  /\ Scanning
  /\ cancelled \/ (scan.folders = {} /\ scan.entries = {})
  /\ RootDone(StatusAtEnd, IF StatusAtEnd = "completed" THEN Swept(scan.work, scan.root, scan.seen)
                           ELSE scan.work)
  /\ UNCHANGED <<files, clock, setback, scans, trouble, library, cancelled, disk, saves>>

\* rescan returns; its library takes the place of the caller's.
EndRescan ==
  /\ scan.active /\ scan.root = "none" /\ scan.left = {}
  /\ library' = scan.work
  /\ scan' = NoScan
  /\ cancelled' = FALSE
  /\ UNCHANGED <<files, clock, setback, scans, trouble, disk, saves>>

Cancel ==
  /\ scan.active /\ ~cancelled
  /\ cancelled' = TRUE
  /\ UNCHANGED <<files, clock, setback, scans, trouble, library, scan, disk, saves>>

-----------------------------------------------------------------------------
(* The other operations of the caller. *)

RegisterRoots(roots) ==
  /\ ~scan.active
  /\ library' = Register(library, roots) /\ library' # library
  /\ UNCHANGED <<files, clock, setback, scans, trouble, scan, cancelled, disk, saves>>

RemoveRoot(root) ==
  /\ ~scan.active /\ root \in library.roots
  /\ library' = Remove(library, root)
  /\ UNCHANGED <<files, clock, setback, scans, trouble, scan, cancelled, disk, saves>>

Document(lib)     == [loads |-> TRUE, of |-> lib]        \* _library_to_document
Library(document) == document.of                         \* _library_from_document

\* A document that would not load is refused before anything is written.  A write that
\* fails, or a program that ends, before the replacement leaves the file alone.
Save ==
  /\ ~scan.active /\ saves < MaxSaves /\ Valid(library)
  /\ disk' = Document(library)
  /\ saves' = saves + 1
  /\ UNCHANGED <<files, clock, setback, scans, trouble, library, scan, cancelled>>

\* No file is an empty library.  One that cannot be read, is not JSON, has another schema
\* or is no valid document stays as it is, and gives no library.
Load ==
  /\ ~scan.active /\ disk.loads
  /\ library' = Library(disk)
  /\ UNCHANGED <<files, clock, setback, scans, trouble, scan, cancelled, disk, saves>>

-----------------------------------------------------------------------------
(* The world. *)

ChangeFile(p, content) ==
  /\ trouble < MaxTrouble /\ files[p] # content
  /\ files' = [files EXCEPT ![p] = content]
  /\ trouble' = trouble + 1
  /\ scan' = [scan EXCEPT !.disturbed = IF scan.active THEN @ \cup {p} ELSE @]
  /\ UNCHANGED <<clock, setback, scans, library, cancelled, disk, saves>>

DamageDocument ==
  /\ disk.loads /\ trouble < MaxTrouble /\ trouble' = trouble + 1
  /\ disk' = [disk EXCEPT !.loads = FALSE]
  /\ UNCHANGED <<files, clock, setback, scans, library, scan, cancelled, saves>>

Init ==
  /\ files \in [Paths -> Contents \cup {"none"}] /\ clock = 1 /\ setback = FALSE /\ scans = 0 /\ trouble = 0
  /\ library = EmptyLibrary /\ scan = NoScan /\ cancelled = FALSE
  /\ disk = Document(EmptyLibrary) /\ saves = 0

Next ==
  \/ \E roots \in SUBSET Roots : RegisterRoots(roots) \/ (\E now \in 1..MaxTime : Rescan(roots, now))
  \/ \E root \in Roots : RemoveRoot(root) \/ OpenRoot(root, TRUE) \/ OpenRoot(root, FALSE)
  \/ \E f \in Folders : ListFolder(f, TRUE) \/ ListFolder(f, FALSE)
  \/ \E e \in scan.entries : InaccessibleEntry(e) \/ FolderEntry(e) \/ FileEntry(e, TRUE) \/ FileEntry(e, FALSE)
  \/ FinishRoot \/ EndRescan \/ Cancel
  \/ Save \/ Load
  \/ \E p \in Paths, content \in Contents \cup {"link", "none"} : ChangeFile(p, content)
  \/ DamageDocument

Spec == Init /\ [][Next]_vars

-----------------------------------------------------------------------------
(* Properties. *)

(***************************************************************************)
(* What is present is what the latest parse of its path gave, over any     *)
(* rescans of nested roots, cancelled ones, removals, loads and saves.     *)
(***************************************************************************)
PresentIsWhatWasParsed ==
  \A lib \in {library, scan.work} : \A k \in Present(lib) : lib.parsed[k[2]] = k[1]

(***************************************************************************)
(* A file that nobody changed during a rescan and that parses is not       *)
(* declared absent, whatever folders or entries could not be read, whether *)
(* the rescan is cancelled, and whichever of two nested roots is scanned.  *)
(***************************************************************************)
UntouchedStaysPresent ==
  scan.active =>
    \A k \in Present(library) :
      files[k[2]] = k[1] /\ k[2] \notin scan.disturbed => k \in Present(scan.work)

(***************************************************************************)
(* What the operations make of a library can be saved and loaded again:    *)
(* one present artifact by path, known artifacts, registered roots that    *)
(* hold their locations.  Only a clock that was set back spoils it.        *)
(***************************************************************************)
LibrariesCanBeSaved ==
  /\ ~setback => Valid(library) /\ Valid(scan.work)
  /\ Valid(disk.of)

\* A library is right, and can be kept.
LibraryIsSound == PresentIsWhatWasParsed /\ LibrariesCanBeSaved
=============================================================================
