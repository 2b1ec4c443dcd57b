\* Copies and pastes on both sides, TARGETS and data conversions sharing
\* the property, INCR transfers run to their end: every Format Data
\* Request of the server is answered.
CONSTANTS
  Formats <- ClipFormats
  Pastes <- ClipPastes
  MaxCopies = 2
  MaxServerPastes = 1
  MaxChunks = 1
  ServerMayFail = FALSE
  AppMayAbandon = FALSE
SPECIFICATION Spec
PROPERTY ServerRequestAnswered
CHECK_DEADLOCK FALSE
