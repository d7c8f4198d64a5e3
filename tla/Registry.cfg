\* Two accounts and two phones, two handlers of the bot and two connection events
\* at a time, and an administrator added and removed; three times somebody does
\* something, a process restarts or Google refuses.
SPECIFICATION FairSpec

CONSTANTS
  p1 = p1
  p2 = p2
  Phone = {p1, p2}
  InitialRows <- TwoAccounts
  Writer = {w1, w2}
  Listener = {g1, g2}
  Retries = 2
  MaxMoves = 3
  Person = {bob}
  Change = {c1, c2}

INVARIANTS
  RosterTypeOK
  SheetMatches
  StatusIsLastEvent
  AccessMatchesTable

PROPERTIES
  CaughtUp

CHECK_DEADLOCK FALSE
