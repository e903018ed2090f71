SPECIFICATION Spec
CONSTANTS
  tty = tty  a = a  b = b  idle = idle
  ANY = ANY  INTERRUPT = INTERRUPT  NO_TASK = NO_TASK
  Proc <- MCProc
  Drivers <- MCDrivers
  Idle <- MCIdle
INVARIANTS TypeOK Consistent SendQueueExact NoSendCycle WalkAgrees
PROPERTIES Delivered SendsTaken
\* A panic or a failed assert stops the machine.
CHECK_DEADLOCK FALSE
