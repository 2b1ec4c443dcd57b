CONSTANTS
  Formats <- ClipFormats
  Pastes <- ClipPastes
  MaxCopies = 2
  MaxServerPastes = 1
  MaxChunks = 1
  ServerMayFail = TRUE
  AppMayAbandon = FALSE
SPECIFICATION Spec
PROPERTY PasteAnswered
CHECK_DEADLOCK FALSE
