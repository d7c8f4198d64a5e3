\* Two admins authorize, cancel and delete one account while its owner unlinks a
\* device, a stranger scans a code and the daemon restarts.
SPECIFICATION Spec

CONSTANTS
  ann = ann
  bob = bob
  Remover = Remover
  Admin = {ann, bob}
  Request <- Handlers
  Phone = {p1, p2}
  Device = {d1, d2}
  Number = {p1}
  Proxy = {}
  NoAdmin = NoAdmin
  NoPhone = NoPhone
  NoDevice = NoDevice
  NoProxy = NoProxy
  MaxUnlinks = 1
  MaxRestarts = 1

INVARIANTS
  TypeOK
  BusyHasOwner
  OneStream

PROPERTIES
  OnlyOwnerSaves

SYMMETRY Symmetry
