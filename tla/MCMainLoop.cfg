CONSTANTS
  ApCount <- MCApCount
  TickTarget = 2
  RefreshTarget = 2
  PrintIterations <- MCPrintIterations
  MaxInput = 3
  NoCore = NoCore

SPECIFICATION Spec

INVARIANT TypeOK
INVARIANT BarrierPhases
 
INVARIANT NoTimerPanic
INVARIANT UartProgrammed
 
INVARIANT CorruptFlagged
PROPERTY FramesKeepComing
