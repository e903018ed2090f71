CONSTANTS
  Proc = {"a", "b"}
  KB_SIZE = 2
  LINE = 2
SPECIFICATION Spec
INVARIANT NoPanic
