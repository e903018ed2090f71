CONSTANTS
  NSLOT = 2
  Types = {"FORK"}
  Execs = {}
SPECIFICATION Spec
INVARIANTS ChildBlockedUntilReply
CHECK_DEADLOCK FALSE
