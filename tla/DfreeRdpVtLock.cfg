\* Direct fullscreen surface on a VT: a VT switch while the PAINT lock is held.
CONSTANTS
  Modes <- DfModesDirectVt
  Regions <- DfRegions
  UpdateRegions <- DfUpdateRegions
  MaxUpdates = 2
  MaxInputs = 0
  MaxVtSwitches = 1
  BusyThreshold = 2
  FramedropInterval = 1
  InputDeferInterval = 2
  MaxClockSteps = 0
  ClockBack = 1
SPECIFICATION Spec
INVARIANT LocksBalanced
CHECK_DEADLOCK FALSE
