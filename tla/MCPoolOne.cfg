SPECIFICATION FairSpec
CONSTANTS
  Workers = {w1}
  Callers = {main, other}
  Owners = {main}
  Tasks = {a1, a2, a3}
  Null = Null
  MaxTasks = 3
  AddressReuse = FALSE
PROPERTIES ImplementsQueue CallsReturn
CHECK_DEADLOCK FALSE
