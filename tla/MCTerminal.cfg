CONSTANTS
  ApCount = 2
  FbWidth = 8
  FbHeight = 4
  CharWidth <- MCCharWidth
  LineHeight <- MCLineHeight
  MsgChars = 2
  PixelPrints <- MCPixelPrints
  TimeOut = 1
  NoCore = NoCore

SPECIFICATION Spec

\* After a panic the panicking core spins in loop {} and the others can wait
\* for ever on the locks it holds: the system really stops.
CHECK_DEADLOCK FALSE

INVARIANT TypeOK
INVARIANT CursorFitsWindow
PROPERTY PanicLogged
