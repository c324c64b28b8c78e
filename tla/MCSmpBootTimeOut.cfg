CONSTANTS
  BSP = BSP
  APs = {a1, a2}
  ApCount <- MCApCount
  TimeOut = 3
  NoCore = NoCore

SPECIFICATION Spec

\* Bring-up stops: the cores reach common_main::main (outside this model)
\* or the BSP halts in the panic handler with the APs at the barrier.
CHECK_DEADLOCK FALSE

PROPERTY TimeOutMeansMissingAp
