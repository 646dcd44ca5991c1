\* Two parts of the stream, three tokens read ahead, two timer threads; strings of three characters.
SPECIFICATION FairSpec
CONSTANTS
  ReadAhead = 3
  MaxParts = 2
  Timers = {1, 2}
  Length = 3
INVARIANT ScannerConsistent
PROPERTIES FramesKept NeverBack LastIsTold
\* The program ends with the stream.
CHECK_DEADLOCK FALSE
