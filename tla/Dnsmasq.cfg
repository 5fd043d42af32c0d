SPECIFICATION Spec
CONSTANTS
  Enabled = {a}
  Disabled = off
  Absent = Absent
  Torn = Torn
  Stopped = Stopped
  MaxEdits = 2
  MaxMishaps = 2
INVARIANTS SuccessIsLive UndoReachesLive FailureRestores
