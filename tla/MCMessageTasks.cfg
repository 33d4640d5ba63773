SPECIFICATION FairSpec
CONSTANTS
  Messages = {rcvd, snt}
  Sent = {snt}
  Files = {rcvd}
  NoRow = NoRow
  None = None
  Items <- MCItems
  Settings <- Sound
  MaxFaults = 1
  MaxOps = 1
INVARIANTS ErasedStaysErased MarksKept Visible
PROPERTIES ContentOnlyErased ListArrives ReportsTrue
