SPECIFICATION Spec
CONSTANTS
  u1 = u1  u2 = u2  lo = lo  up = up  res = res  none = none
  Workers = {w1, w2}
  Users = {u1}
  Codes = {lo, up}
  Reserved = {}
  NoCode = none
  NoUser = none
  Lower <- MCLower
  MaxId = 2
  Encode <- MCEncode
  MaxLife = 1
  DayTTL = 2
  MaxLag = 1
  Faults = {}
SYMMETRY MCSymmetry
INVARIANTS
  DeletedLinkNotServed
