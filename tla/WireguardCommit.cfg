CONSTANTS
  Ifaces = {w0, w1}
  Addrs = {a1, a2}
  Nets = {p1, p2}
  NoAddr = NoAddr
  NoIface = NoIface
  Off = Off
  Absent = Absent
  Torn = Torn
  NoCmd = NoCmd
  MaxEdits = 2
  MaxMishaps = 2
SPECIFICATION Spec
SYMMETRY Symmetry
INVARIANTS TypeOK SuccessIsLive FailureRestores UndoReachesLive
