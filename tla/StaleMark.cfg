CONSTANTS
  x = x
  y = y
  c = c
  d = d
  Order <- MCOrder
  Publications <- MCPublications
  Passes = {p, q}
  Collections = {c, d}
  MaxSubscriptions = 2
  Subscribed <- MCSubscribed
  MaxEdits = 1
  MaxFaults = 1
SPECIFICATION Spec
INVARIANT MarkedIsChecked
