\* A write fails after its first chunk; the next write starts again.
CONSTANTS
  Channels = {"rdpdbg", "cliprdr", "unjoined"}
  Joined = {"rdpdbg", "cliprdr"}
  ShowProtocol = {"cliprdr"}
  Threads = {"t1", "t2"}
  KeepsHandle = FALSE
  NumAddrs = 2
  ChunkSize = 2
  Lengths = {0, 1, 2, 3}
  Uses <- UsesOwn
  MaxWrites = 2
  MayFail = TRUE
SPECIFICATION Spec
INVARIANT NoSequenceError
