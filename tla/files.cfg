CONSTANTS
  p1 = p1 p2 = p2
  Proc <- TwoProcs
  FIRST = p1
  NR_FILES = 2
  NR_FILE_DESC = 2
  NR_INODES = 3
  ENTS = 5
  Paths <- SomePaths
  CNT_BOUND = 2
SPECIFICATION CarefulSpec
INVARIANTS HandlesCounted OpenFilesExist DirectoryWhole
PROPERTY ImplementsNamespace
CHECK_DEADLOCK FALSE
