CONSTANTS
  Archive <- MCArchive
  Pieces <- MCPieces
  NR_FREE = 6
  MAX_CRASHES = 3
SPECIFICATION Spec
INVARIANTS InstalledWhenCleared MapsCoverFiles
PROPERTY EventuallyInstalled
\* The extraction ends.
CHECK_DEADLOCK FALSE
