SPECIFICATION Spec
CONSTANTS
  Values = {noRules, a}
  EmptyList = noRules
  Absent = Absent
  Torn = Torn
  MaxEdits = 2
  MaxFaults = 1
  MaxRestarts = 1
INVARIANTS SuccessIsSaved HistoryCoherent TablesFollowKernel
PROPERTIES ImplementsHistory
