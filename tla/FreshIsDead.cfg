\* A second account is authorized, connects, is saved, synced and imported.
SPECIFICATION Spec

CONSTANTS
  p1 = p1
  p2 = p2
  Phone = {p1, p2}
  InitialRows <- OneAccount
  Writer = {w1}
  Listener = {g1, g2}
  Retries = 2
  MaxMoves = 1
  Person = {bob}
  Change = {c1}

INVARIANT
  ConnectedIsAvailable

CHECK_DEADLOCK FALSE
