SPECIFICATION Spec
CONSTANTS
  u1 = u1  u2 = u2  lo = lo  up = up  res = res  none = none
  Workers = {w1, w2}
  Users = {u1, u2}
  Codes = {lo, up, res}
  Reserved = {res}
  NoCode = none
  NoUser = none
  Lower <- MCLower
  MaxId = 2
  Encode <- MCEncode
  MaxLife = 0
  DayTTL = 1
  MaxLag = 0
  Faults = {"redis", "db", "geo"}
SYMMETRY MCSymmetry
INVARIANTS
  TypeOK
  UniqueLiveCode
  AliasRules
  AnswersGenuine
PROPERTIES
  OwnerOnlyDelete
  ImplementsLinkTable
