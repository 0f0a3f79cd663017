CONSTANTS
  Null = Null
  e1 = e1
  Ids <- MCIds
  Documents <- MCDb
  Orders <- MCOrders
  Options <- MCOptions
  Exports = {e1, e2}
CONSTRAINT OneService
SPECIFICATION ExportSpec
INVARIANTS Complete OnlyWanted DomainsAsStored DetectionsDerived
CHECK_DEADLOCK FALSE
