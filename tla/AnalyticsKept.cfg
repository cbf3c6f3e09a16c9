SPECIFICATION Spec
CONSTANTS
  Clicks = {n1, n2, n3}
  BatchSize = 2
  Codes = {c, d}
  NoCode = none
  MaxId = 2
  RecentLimit = 2
  Faults = {}
SYMMETRY Symmetry
INVARIANT
  ClicksKept
