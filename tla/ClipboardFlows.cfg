CONSTANTS
  Formats <- ClipFormats
  Pastes <- ClipPastes
  MaxCopies = 2
  MaxServerPastes = 1
  MaxChunks = 1
  ServerMayFail = TRUE
  AppMayAbandon = TRUE
SPECIFICATION Spec
INVARIANTS TypeOK PasteDataFresh ServerDataConsistent
PROPERTIES ServerCopyPropagates
CHECK_DEADLOCK FALSE
