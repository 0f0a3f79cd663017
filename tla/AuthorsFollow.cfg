CONSTANTS
  None = None
  r1 = r1
  r2 = r2
  o1 = o1
  o2 = o2
  mitre = mitre
  org = org
  p1 = p1
  p2 = p2
  Requests = {r1}
  Boot = Boot
  Ops = {"identity", "create"}
  Identities = {mitre, org, p1, p2}
  Mitre = mitre
  Placeholders = {p1, p2}
  Objects = {o1, o2}
  TypeOf <- MCTypeOf
  Types = {"technique", "group"}
  Static <- MCStatic
  InitDocs <- MCInitDocs
  MaxDocs = 3
  MaxChanges = 2
  MaxPasses = 0
  MaxStops = 0
SPECIFICATION Spec
INVARIANTS AuthorsFollow
CHECK_DEADLOCK FALSE
