CONSTANTS
  None = None
  s1 = s1
  a1 = a1
  c = c
  d = d
  Strategies = {s1, s2}
  Analytics = {a1, a2}
  Components = {c}
  Sources = {d}
  InitDocs <- MCInitDocs
  Requests = {r1}
  MaxDocs = 6
  MaxMishaps = 1
SPECIFICATION Spec
INVARIANTS ReferencedKnows BackReferenceHolds UrlLeadsToParent
PROPERTIES RepostHeals
CHECK_DEADLOCK FALSE
