CONSTANTS
  Handlers = {h1, h2}
  Addresses = {i1, i2}
  Passwords = {p1, p2}
  Tokens = {t1, t2}
  None = None
  MaxFailures = 2
  Window = 2
  Lockout = 2
  MaxTracked = 1
  SessionTtl = 1
SPECIFICATION Spec
SYMMETRY Symmetry
INVARIANTS TypeOK GuessesBounded OldSessionsEnd
PROPERTIES LockHolds
