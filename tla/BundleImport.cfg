CONSTANTS
  None = None
  i1 = i1
  i2 = i2
  Importers = {i1, i2}
  Requests <- MCRequests
  Collections <- MCCollections
  Before <- MCBefore
  Unreadable = {"malware"}
  MaxJobs = 1
  MaxOthers = 1
CONSTRAINT OneOther
SYMMETRY Symmetry
SPECIFICATION Spec
INVARIANTS ContentsAccounted NoHalfImport
PROPERTIES SharedKept HistoryKept
CHECK_DEADLOCK FALSE
