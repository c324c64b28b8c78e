CONSTANTS
  Width32 = 3
  UsPerSecond = 5
  Callbacks <- MCCallbacks
  NoCallback = NoCallback
  MaxCalls = 2
  ByteBits = 2
  BaseFrequency = 12
  PitUsPerSecond = 10
  DelayUs = 11
  LeftoverCounts = {0, 3}

SPECIFICATION Spec
CHECK_DEADLOCK FALSE

INVARIANT TypeOK
INVARIANT CalibrationWindowExact
PROPERTY PeriodicKeepsFiring
