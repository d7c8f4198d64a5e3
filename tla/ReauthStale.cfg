\* One admin authorizes an account anew after WhatsApp logged it out.
SPECIFICATION Spec

CONSTANTS
  ann = ann
  bob = bob
  Remover = Remover
  Admin = {ann}
  Request <- AnnsHandlers
  Phone = {p1}
  Device = {d1, d2}
  Number = {p1}
  Proxy = {}
  NoAdmin = NoAdmin
  NoPhone = NoPhone
  NoDevice = NoDevice
  NoProxy = NoProxy
  MaxUnlinks = 1
  MaxRestarts = 0

PROPERTIES
  SuccessIsConnected
