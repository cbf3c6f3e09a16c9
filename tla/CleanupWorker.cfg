SPECIFICATION WorkerSpec
CONSTANTS
  u1 = u1  u2 = u2  lo = lo  up = lo  res = res  none = none
  Workers = {w1, w2}
  Users = {u1}
  Codes = {lo}
  Reserved = {}
  NoCode = none
  NoUser = none
  Lower <- MCLower
  MaxId = 1
  Encode <- MCEncode
  MaxLife = 1
  DayTTL = 2
  MaxLag = 1
  Faults = {"redis", "db", "geo"}
PROPERTIES
  DeletedEventuallyGone
  ExpiredEventuallyRemoved
  RequestsAnswered
