\* Groups of two or three of three accounts, on one or two days, saved, deleted,
\* completed and finished by two handlers at a time, with one failure or restart
\* and one account deleted.
SPECIFICATION Spec

CONSTANTS
  Account = {x1, x2, x3}
  Admin = {ann}
  Task = {t1, t2}
  Instant <- TwoDays
  StartTime <- LateStart
  MaxGroupSize = 3
  MaxDays = 2
  MaxGroups = 2
  MaxFaults = 1
  CyclesPerPair = 1
  DayLength = 6
  WindowStart = 0
  WindowEnd = 6
  MinGap = 1
  MaxGap = 1

INVARIANTS
  GroupsTypeOK
  FullPlan
  Stoppable

PROPERTIES
  FinishedIsOver

SYMMETRY Symmetry
