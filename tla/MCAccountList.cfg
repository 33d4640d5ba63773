SPECIFICATION Spec
CONSTANTS
  Users = {"a", "b"}
  Years <- MCYears
  None = None
  Slots <- MCSlots
  Recent = {2}
  Starting <- MCStarting
  MaxOps = 4
  MaxDepth = 2
  MaxReports = 1
INVARIANTS TreeSound CountsShown
PROPERTY ImplementsTree
CHECK_DEADLOCK FALSE
