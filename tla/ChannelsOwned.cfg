\* Each thread writes to its own channel; sends and allocations succeed.
CONSTANTS
  Channels = {"rdpdbg", "cliprdr", "unjoined"}
  Joined = {"rdpdbg", "cliprdr"}
  ShowProtocol = {"cliprdr"}
  Threads = {"t1", "t2"}
  Uses <- UsesOwn
  KeepsHandle = FALSE
  NumAddrs = 2
  ChunkSize = 2
  Lengths = {0, 1, 2, 3}
  MaxWrites = 3
  MayFail = FALSE
SPECIFICATION Spec
INVARIANT TypeOK
INVARIANT WritesFollowSplit
INVARIANT NoSequenceError
INVARIANT MessagesIntact
INVARIANT NoUseAfterFree
PROPERTY WritesDelivered
