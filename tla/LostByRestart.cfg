SPECIFICATION Spec
CONSTANTS
  Configs = {c1, c2}
  NoConfig = NoConfig
  Torn = Torn
  Requests = {r1, r2}
  Timer = Timer
  Boot = Boot
  Other = Other
  NoTask = NoTask
  MaxWindows = 1
  MaxFaults = 0
  MaxDrops = 0
  MaxRestarts = 1
INVARIANT PromiseSurvives
