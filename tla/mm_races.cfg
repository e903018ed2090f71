CONSTANTS
  NSLOT = 3
  Types = {"FORK", "WAIT", "EXIT", "EXEC"}
  Execs = {2}
SPECIFICATION Spec
INVARIANTS TypeOK FamiliesWhole
PROPERTY ReleasedToWaiter ImplementsFamily
CHECK_DEADLOCK FALSE
