\* A stream registered by the FUSE thread between the unlock and the
\* ArrayList_Clear of clear_cached_data is freed unanswered.
CONSTANTS
  FileLists <- FuseLists
  MaxCopies = 2
  MaxPastes = 2
  MaxFuseOps = 3
  MaxIds = 3
  AllocCanFail = TRUE
SPECIFICATION Spec
PROPERTY EveryRequestReplied
CHECK_DEADLOCK FALSE
