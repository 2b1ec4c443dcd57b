\* The owner answers with INCR and exits before the end of the transfer:
\* incr_starts stays set and the server's request is never answered.
CONSTANTS
  Formats <- ClipFormats
  Pastes <- ClipPastes
  MaxCopies = 2
  MaxServerPastes = 1
  MaxChunks = 1
  ServerMayFail = FALSE
  AppMayAbandon = TRUE
SPECIFICATION Spec
PROPERTY ServerRequestAnswered
CHECK_DEADLOCK FALSE
