CONSTANTS
  PAGE = 4
  Regions <- MCRegions
  RamdiskFrames <- MCRamdiskFrames
  NoFrame = NoFrame

SPECIFICATION FASpec

INVARIANT FATypeOK
INVARIANT FramesConserved
PROPERTY ImplementsFramePool
