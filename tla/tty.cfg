CONSTANTS
  Proc = {"a", "b"}
  KB_SIZE = 2
  LINE = 2
SPECIFICATION OneUserSpec
INVARIANTS TypeOK AnswersOnlyCallers
PROPERTIES KeysInOrder CallsReturn PressNoticed
