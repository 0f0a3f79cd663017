CONSTANTS
  a = a
  Requests = {r1, r2}
  Versions <- MCVersions
  Configs = {}
  InitBodies <- MCInitBodies
  Ops = {"add", "withdraw", "bump", "delete"}
  ByModified = {"bump"}
  Explicit <- MCExplicit
  MaxTime = 3
  Failures = TRUE
SPECIFICATION Spec
INVARIANTS HistoryTruthful HistoryIncreasing ReleaseSealed
PROPERTIES LogSpec
SYMMETRY MCSymmetry
VIEW MCView
CHECK_DEADLOCK FALSE
CONSTRAINT MCConstraint
