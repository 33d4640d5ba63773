SPECIFICATION FairSpec
CONSTANTS
  Items <- MCItems
  None = None
  Files = {"zfo1", "zfo2"}
  NumAccounts = 2
  Recipients <- MCRecipients
  MaxOps = 2
  MaxDepth = 4
INVARIANTS ReadyWhenQuiet AllTold NothingDropped
PROPERTIES CloseEnds
CHECK_DEADLOCK FALSE
