\* Two files, four names of which two differ only in case on a file system that
\* identifies them, and two interventions of other programs: every plan, every
\* failing call and a crash anywhere.
SPECIFICATION FairSpec
CONSTANTS
  N = 2
  Names = {a, b, c, A}
  a = a
  b = b
  c = c
  A = A
  PortableKey <- CaseKey
  FoldsCase = TRUE
  Unrendered = Unrendered
  Free = Free
  Partial = Partial
  NoReport = NoReport
  Missing = Missing
  MaxExternal = 2
INVARIANTS NothingLost BatchInv
PROPERTIES NeverOverwrites BatchEnds ImplementsBatch
\* A batch ends; the dialog is closed afterwards.
CHECK_DEADLOCK FALSE
