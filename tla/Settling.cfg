\* Everything may go wrong once, but time passes and the goroutines run.
SPECIFICATION FairSpec

CONSTANTS
  a1 = a1
  a2 = a2
  a3 = a3
  Account = {a1, a2}
  Comm = {1}
  PlanOf <- PairPlan
  Loop = Loop
  NoProc = NoProc
  Cooldowns <- TwoStrikes
  CyclesPerPair = 1
  DayLength = 4
  WindowStart = 0
  WindowEnd = 2
  MinGap = 1
  MaxGap = 1
  BatchSize = 2
  MaxTime = 2
  MaxReports = 1
  MaxFaults = 1
  MaxErrors = 1
  MaxCrashes = 0

PROPERTIES
  EveryJobSettles
  LogoutHandled
