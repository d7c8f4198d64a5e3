\* Groups of up to six accounts picked in any order, every accepted start in a
\* window that the longest dialogue nearly fills, and the drops, in any order,
\* until nobody is left, with the size and the cycles of the code.
SPECIFICATION Spec

CONSTANTS
  Account = {a1, a2, a3, a4, a5, a6}
  MaxGroupSize = 6
  CyclesPerPair = 3
  DayLength = 40
  WindowStart = 2
  WindowEnd = 39
  MinGap = 1
  MaxGap = 1

INVARIANTS
  BalancedDialogue
  AcceptedStartFits

PROPERTIES
  DropBridges

SYMMETRY Symmetry

CHECK_DEADLOCK FALSE
