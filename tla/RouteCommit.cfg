SPECIFICATION Spec
CONSTANTS
  Keys = {k1, k2}
  Hops = {h1, h2}
  NoHop = NoHop
  Absent = Absent
  Torn = Torn
  MaxEdits = 2
  MaxFaults = 1
  MaxDrops = 1
  MaxRestarts = 1
INVARIANTS SuccessIsLive KernelIsCurrent
