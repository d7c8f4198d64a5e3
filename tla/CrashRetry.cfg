\* The daemon crashes anywhere, one statement and one send fail, an account
\* reports a change of its connection.
SPECIFICATION Spec

CONSTANTS
  a1 = a1
  a2 = a2
  a3 = a3
  Account = {a1, a2}
  Comm = {1}
  PlanOf <- PairPlan
  Loop = Loop
  NoProc = NoProc
  Cooldowns <- TwoStrikes
  CyclesPerPair = 1
  DayLength = 4
  WindowStart = 1
  WindowEnd = 3
  MinGap = 1
  MaxGap = 2
  BatchSize = 2
  MaxTime = 4
  MaxReports = 1
  MaxFaults = 1
  MaxErrors = 1
  MaxCrashes = 1

INVARIANTS
  AtMostOncePerRun
  SentOnItsDay

PROPERTIES
  OutcomeIsFinal
  KeepsLedger
