CONSTANTS
  None = None
  r1 = r1
  r2 = r2
  o1 = o1
  o2 = o2
  mitre = mitre
  org = org
  p1 = p1
  p2 = p2
  Requests = {r1, r2}
  Boot = Boot
  Ops = {"identity", "namespace", "markings", "create", "import", "put", "delete", "forget", "allow", "disallow"}
  Identities = {mitre, org, p1, p2}
  Mitre = mitre
  Placeholders = {p1, p2}
  Objects = {o1, o2}
  TypeOf <- MCTypeOf
  Types = {"technique", "group"}
  Static <- MCStatic
  InitDocs <- MCInitDocs
  MaxDocs = 3
  MaxChanges = 2
  MaxPasses = 1
  MaxStops = 1
SPECIFICATION Spec
SYMMETRY MCSymmetry
INVARIANTS SettingsKept RulesFollowSettings PassSettles
CHECK_DEADLOCK FALSE
