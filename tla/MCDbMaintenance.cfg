SPECIFICATION Spec
CHECK_DEADLOCK FALSE
SYMMETRY MCSymmetry
CONSTANTS
  home = home
  other = other
  y1 = y1
  y2 = y2
  m1 = m1
  m2 = m2
  m3 = m3
  Dirs = {home, other}
  Years = {y1, y2}
  Messages = {m1, m2, m3}
  YearOf <- MCYearOf
  Single = single
  None = None
  Faults = {"copy", "create", "insert", "erase", "delete", "crash"}
  StartOrg = "SINGLE_FILE"
  MaxOps = 2
INVARIANTS
  NothingForgotten
  Served
  Recoverable
