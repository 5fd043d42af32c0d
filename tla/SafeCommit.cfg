SPECIFICATION Spec
CONSTANTS
  Configs = {c1, c2}
  NoConfig = NoConfig
  Torn = Torn
  Requests = {r1, r2}
  Timer = Timer
  Boot = Boot
  Other = Other
  NoTask = NoTask
  MaxWindows = 2
  MaxFaults = 1
  MaxDrops = 1
  MaxRestarts = 1
INVARIANTS PendingDurable ConfirmedSticks PromiseKept
