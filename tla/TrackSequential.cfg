CONSTANTS
  a = a
  Requests = {r1}
  Versions <- MCVersions
  Configs = {}
  InitBodies <- MCInitBodies
  Ops = {"metadata", "add", "bump", "delete"}
  ByModified = {}
  Explicit <- MCExplicit
  MaxTime = 4
  Failures = FALSE
SPECIFICATION Spec
INVARIANTS RegistryCurrent
CHECK_DEADLOCK FALSE
