\* A ring of three, planned for two days, loses accounts to a logout and to
\* failing sends: two rebuilds, by the loop and by an event goroutine, before
\* the window opens and inside it, in every interleaving with the loop, the bot
\* and the clock.
SPECIFICATION Spec

CONSTANTS
  a1 = a1
  a2 = a2
  a3 = a3
  Account = {a1, a2, a3}
  Comm = {1}
  PlanOf <- TwoDayRingPlan
  Loop = Loop
  NoProc = NoProc
  Cooldowns <- TwoStrikes
  CyclesPerPair = 1
  DayLength = 9
  WindowStart = 2
  WindowEnd = 8
  MinGap = 1
  MaxGap = 1
  BatchSize = 2
  MaxTime = 4
  MaxReports = 1
  MaxFaults = 0
  MaxErrors = 2
  MaxCrashes = 0

INVARIANTS
  TypeOK
  OneRingPerDay
  DropTakesEffect
  NothingStranded
  PlannedInWindow

PROPERTIES
  DialogueResumes
  StrikesArePaced
