SPECIFICATION Spec
CONSTANTS
  Messages = {rcvd, snt}
  Sent = {snt}
  Files = {rcvd}
  NoRow = NoRow
  None = None
  Items <- MCItems
  Settings <- Poisoned
  MaxFaults = 0
  MaxOps = 0
PROPERTIES ExitKeeps
