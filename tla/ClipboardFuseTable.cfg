\* The file lists generate_list meets, with allocations failing, against
\* FUSE lookups and reads, server copies and local pastes.
CONSTANTS
  FileLists <- FuseLists
  MaxCopies = 2
  MaxPastes = 2
  MaxFuseOps = 3
  MaxIds = 3
  AllocCanFail = TRUE
SPECIFICATION Spec
INVARIANT InodeTableWellFormed
CHECK_DEADLOCK FALSE
