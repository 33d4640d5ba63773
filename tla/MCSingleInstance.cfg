SPECIFICATION FairSpec
CONSTANTS
  Processes = {p1, p2, p3}
  Nobody = Nobody
  Modes = {"RM_GUI", "RM_CLI", "main_cli"}
  Capacity = 1
INVARIANTS OwnersSegment AcceptedOnce
PROPERTIES NobodyBlocked
CHECK_DEADLOCK FALSE
