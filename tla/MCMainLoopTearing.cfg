CONSTANTS
  ApCount <- MCApCount
  TickTarget = 1
  RefreshTarget = 2
  PrintIterations <- MCPrintIterations
  MaxInput = 2
  NoCore = NoCore

SPECIFICATION Spec

INVARIANT NoTearing
