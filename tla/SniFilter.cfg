CONSTANTS
  Conns = {c1, c2}
  Space = 16
  FirstSeqs = {0, 14}
  Hellos <- HelloSet
  Policies <- PolicySet
  MaxBuffer = 2
  MaxDataPackets = 2
  MaxFlows = 1
  SweepEvery = 1
  IdleTime = 1
  Unset = Unset
  MaxTime = 1
  MaxPackets = 4
SPECIFICATION Spec
SYMMETRY Symmetry
INVARIANTS TypeOK FlowsBounded BlockedStaysOut AllowedStaysIn
