\* The admin completes a group while a ring rebuild is between its two writes.
SPECIFICATION Spec

CONSTANTS
  a1 = a1
  a2 = a2
  a3 = a3
  Account = {a1, a2, a3}
  Comm = {1}
  PlanOf <- RingPlan
  Loop = Loop
  NoProc = NoProc
  Cooldowns <- TwoStrikes
  CyclesPerPair = 1
  DayLength = 8
  WindowStart = 0
  WindowEnd = 6
  MinGap = 1
  MaxGap = 1
  BatchSize = 2
  MaxTime = 1
  MaxReports = 0
  MaxFaults = 0
  MaxErrors = 1
  MaxCrashes = 0

INVARIANTS
  CompletedMeansCancelled
