\* A read resolved before a server copy is answered with the new copy's
\* file at the same index.
CONSTANTS
  FileLists <- FuseLists
  MaxCopies = 2
  MaxPastes = 2
  MaxFuseOps = 3
  MaxIds = 3
  AllocCanFail = TRUE
SPECIFICATION Spec
INVARIANT ReadGetsItsFile
CHECK_DEADLOCK FALSE
