CONSTANTS
  COUNTS = 2
  NR_PART_PER_DIV = 2
  NR_SUB_PER_PART = 3
  Drives <- SomeDrives
  Positions = {0, 1}
  Lengths = {1, 2, 3}
SPECIFICATION Spec
INVARIANTS TypeOK TransferExact InStep
PROPERTY Answered
CHECK_DEADLOCK FALSE
