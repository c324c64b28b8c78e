CONSTANTS
  FileChoices <- MCFileChoices
  MinFiles = 1
  MaxFiles = 3
  FlipValues = {0, 1, 255}

SPECIFICATION Spec

\* The reader stops after the slices it reads or after a panic.
CHECK_DEADLOCK FALSE

INVARIANT TypeOK
INVARIANT RoundTrip
INVARIANT SoundIffIntact
