SPECIFICATION Spec
CONSTANTS
  NR = 5
  priority <- MCpriority
  Idle = {2}
  Drivers = {0}
  Manager = 1
  Users = {3, 4}
  Slots = {4}
  MaxPriority = 2
  MaxDebt = 0
  Watched = {2}
INVARIANTS RunsRunnable BoundedWait RefillOnlyWhenSpent
PROPERTIES NoStarvation
