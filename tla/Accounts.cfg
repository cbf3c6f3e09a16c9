SPECIFICATION Spec
CONSTANTS
  a = a  A = A  b = b  n = n  p = p  q = q  long = long  none = none
  Workers = {w1, w2}
  Emails = {a, A, b, n}
  Clean <- MCClean
  Citext <- MCCitext
  Passwords = {p, q, long}
  Digest <- MCDigest
  TooLong = {long}
  MaxId = 2
  Sessions = {s1}
  NoSession = none
  AccessTTL = 1
  RefreshTTL = 2
  MaxLag = 1
  Faults = {"redis", "db"}
SYMMETRY MCSymmetry
INVARIANTS
  TypeOK
  UniqueEmail
  RegisterAnswersTrue
  KnownUserLogsIn
  AdmittedAsOpened
PROPERTIES
  SessionBounded
