\* A lookup's SIZE response writes st_size through an inode freed by a
\* clear in between.
CONSTANTS
  FileLists <- FuseLists
  MaxCopies = 2
  MaxPastes = 2
  MaxFuseOps = 3
  MaxIds = 3
  AllocCanFail = TRUE
SPECIFICATION Spec
INVARIANT NoUseAfterFree
CHECK_DEADLOCK FALSE
