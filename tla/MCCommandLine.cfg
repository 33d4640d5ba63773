SPECIFICATION FairSpec
CONSTANTS
  rcvd = rcvd
  snt = snt
  Messages = {rcvd, snt}
  Recipients = {"a", "b"}
  Type <- MCType
  Requests <- MCRequests
  Characters <- MCCharacters
  Scraps <- MCScraps
  Items <- MCItems
  None = None
  Null = Null
  MaxOptions = 2
  MaxCharacters = 4
  MaxScrap = 6
  MaxFaults = 1
INVARIANTS ReadersRight PrintedTold FilesTell
PROPERTIES ComposeSurvives CommandEnds
CHECK_DEADLOCK FALSE
