\* Both threads open the same channel and close it when done.
CONSTANTS
  Channels = {"rdpdbg", "cliprdr", "unjoined"}
  Joined = {"rdpdbg", "cliprdr"}
  ShowProtocol = {"cliprdr"}
  Threads = {"t1", "t2"}
  KeepsHandle = FALSE
  NumAddrs = 2
  ChunkSize = 2
  Lengths = {0, 1, 2, 3}
  Uses <- UsesShared
  MaxWrites = 2
  MayFail = FALSE
SPECIFICATION Spec
INVARIANT NoUseAfterFree
