\* The X thread and the channel thread both run clear_cached_data and
\* both reply EIO to the same streams.
CONSTANTS
  FileLists <- FuseLists
  MaxCopies = 2
  MaxPastes = 2
  MaxFuseOps = 3
  MaxIds = 3
  AllocCanFail = TRUE
SPECIFICATION Spec
INVARIANT RepliedOnce
CHECK_DEADLOCK FALSE
