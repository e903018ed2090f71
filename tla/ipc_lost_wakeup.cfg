SPECIFICATION Spec
CONSTANTS
  tty = tty  a = a  b = b  idle = idle
  ANY = ANY  INTERRUPT = INTERRUPT  NO_TASK = NO_TASK
  Proc <- MCProc
  Drivers <- MCDrivers
  Idle <- MCIdle
INVARIANT NoLostWakeup
\* A panic or a failed assert stops the machine.
CHECK_DEADLOCK FALSE
