CONSTANTS
  PAGE = 1
  Regions <- MCRegions
  RamdiskFrames <- MCRamdiskFrames
  NoFrame = NoFrame
  Cores = {c1, c2}
  KernelAS = 100
  KernelIdx <- MCKernelIdx
  UserIdx <- MCUserIdx
  BootTable <- MCBootTable
  KernelPages = {"k0"}
  UserPages = {"code", "data", "stack", "heap"}
  PageIdx <- MCPageIdx
  TrampolinePage = "page0"
  TrampolineFrame = 0
  UserFlagChoices <- MCUserFlagChoices
  NoTable = NoTable
  NoMapping = NoMapping
  Apps = {A, B}
  AppA = A
  AppB = B
  NoApp = NoApp

SPECIFICATION Spec
VIEW FrameRenamingView

\* app_test ends on every core; the cores go on to code outside this model.
CHECK_DEADLOCK FALSE

INVARIANT TypeOK
INVARIANT AppTestPasses
INVARIANT WXorX
