SPECIFICATION QuietSpec
CONSTANTS
  tty = tty  a = a  b = b  idle = idle
  ANY = ANY  INTERRUPT = INTERRUPT  NO_TASK = NO_TASK
  Proc <- MCProc
  Drivers <- MCDrivers
  Idle <- MCIdle
INVARIANTS NoAssertFails NoLostWakeup
PROPERTIES ImplementsRendezvous
\* A panic stops the machine.
CHECK_DEADLOCK FALSE
