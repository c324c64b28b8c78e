CONSTANTS
  Page = 4
  Order = 8
  HeapBase <- MCHeapBase
  Layouts <- MCLayouts
  FreeFrames = 12
  MaxOps = 6

SPECIFICATION Spec
CHECK_DEADLOCK FALSE

INVARIANT TypeOK
INVARIANT HeapExact
INVARIANT RescueSuffices
