CONSTANTS
  None = None
  a = a
  b = b
  S1 = S1
  S2 = S2
  V = V
  New = New
  r1 = r1
  r2 = r2
  Requests = {r1, r2}
  Ops = {"create", "clone", "import", "delete", "compose", "preview", "recompose", "export"}
  Tracks = {S1, S2, V, New}
  TypeOf <- MCTypeOf
  InitColls <- MCInitColls
  Lists <- MCLists
  Compositions <- MCCompositions
  Bundles <- MCBundles
  InitStore <- MCInitStore
  Objects <- MCObjects
  Types = {"attack-pattern"}
  MaxTime = 4
  MaxRequests = 2
  MaxEdits = 2
  Failures = TRUE
SPECIFICATION Spec
SYMMETRY MCSymmetry
INVARIANTS CompositionSound FreshWhenAsked CatalogAgrees ExportFaithful
CONSTRAINT MCBound
CHECK_DEADLOCK FALSE
