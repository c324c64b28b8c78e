CONSTANTS
  PAGE = 4
  Regions <- MCRegions
  RamdiskFrames <- MCRamdiskFrames
  NoFrame = NoFrame
  Cores = {c1, c2}
  KernelAS <- MCKernelAS
  KernelIdx <- MCKernelIdx
  UserIdx <- MCUserIdx
  BootTable <- MCBootTable
  KernelPages = {"heap0"}
  UserPages = {"code", "stack"}
  PageIdx <- MCPageIdx
  TrampolinePage = "page0"
  TrampolineFrame = 0
  UserFlagChoices <- MCUserFlagChoices
  NoTable = NoTable
  NoMapping = NoMapping

SYMMETRY CoreSymmetry
SPECIFICATION Spec

\* A panic leaves MEMORY locked for good: every core stops calling into it.
CHECK_DEADLOCK FALSE

INVARIANT TypeOK
INVARIANT FrameOwnership
INVARIANT UserHalvesPrivate
