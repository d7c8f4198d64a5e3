\* Two admins authorize two accounts with one proxy.
SPECIFICATION Spec

CONSTANTS
  ann = ann
  bob = bob
  Remover = Remover
  Admin = {ann, bob}
  Request <- Handlers
  Phone = {p1, p2}
  Device = {d1, d2}
  Number = {p1, p2}
  Proxy = {x1}
  NoAdmin = NoAdmin
  NoPhone = NoPhone
  NoDevice = NoDevice
  NoProxy = NoProxy
  MaxUnlinks = 0
  MaxRestarts = 0

INVARIANTS
  OneProxyPerAccount

SYMMETRY Symmetry
