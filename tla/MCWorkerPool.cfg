SPECIFICATION Spec
CONSTANTS
  Workers = {w1, w2}
  Callers = {main, other}
  Owners = {main}
  Tasks = {a1, a2, a3}
  Null = Null
  MaxTasks = 4
  AddressReuse = FALSE
SYMMETRY PoolSymmetry
INVARIANTS TypeOK RunningCount Bookkeeping NoLostWakeup DrainAnnounced
PROPERTIES ImplementsService
CHECK_DEADLOCK FALSE
