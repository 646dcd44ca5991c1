SPECIFICATION Spec
CONSTANTS
  Threads = {stream, timer}
  Interfaces <- TheRequests
  Created <- TheUsed
  None = None
  stream = stream
  timer = timer
INVARIANT NoCircularWait
CHECK_DEADLOCK FALSE
