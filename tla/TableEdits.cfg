CONSTANTS
  Ports = {1, 2}
  Hosts = {1, 2, 3}
  Networks = {{1}, {2}, {3}, {1, 2}, {2, 3}}
  Names = {a, b}
  Keys = {k1, k2}
  Spellings = {s1, s2}
  NoName = NoName
  NoHost = NoHost
  NoConfig = NoConfig
  NoSnapshot = NoSnapshot
  Handlers = {h1, h2}
  MaxId = 2
  MaxWrites <- Writes
SPECIFICATION Spec
SYMMETRY Symmetry
INVARIANTS TypeOK NoHiddenCollision RowsFitConfig ServedIsAccepted
