CONSTANTS
  a = a
  b = b
  g = g
  Objects = {a, b, c}
  Others = {g}
  InitDocs <- MCInitDocs
  InitRels <- MCInitRels
  Requests = {r1}
  MaxDocs = 5
  MaxRels = 7
  Failures = TRUE
SPECIFICATION Spec
INVARIANTS SuccessorRecorded ActiveIdsDistinct OneParent RevocationSettles TransferComplete
PROPERTIES StaysRevoked
CHECK_DEADLOCK FALSE
