SPECIFICATION Spec
CONSTANTS
  Threads = {stream, timer, cycle}
  Interfaces <- TheRequests
  Created <- TheUsed
  None = None
  stream = stream
  timer = timer
  cycle = cycle
SYMMETRY Symmetry
INVARIANTS NoSelfWait Exclusive
CHECK_DEADLOCK FALSE
