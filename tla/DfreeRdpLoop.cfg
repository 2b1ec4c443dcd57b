\* A conforming server, user input, VT switches and a wall clock set back, in the buffered and the direct modes.
CONSTANTS
  Modes <- DfModesNoDirectVt
  Regions <- DfRegions
  UpdateRegions <- DfUpdateRegions
  MaxUpdates = 2
  MaxInputs = 1
  MaxVtSwitches = 2
  BusyThreshold = 2
  FramedropInterval = 1
  InputDeferInterval = 2
  MaxClockSteps = 2
  ClockBack = 2
SPECIFICATION Spec
INVARIANTS TypeOK LocksBalanced ScreenCurrentWhenIdle
CHECK_DEADLOCK FALSE
PROPERTIES InputDelivered MainExits
