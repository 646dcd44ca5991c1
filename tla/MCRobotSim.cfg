SPECIFICATION FairSpec
CONSTANTS
  LastCycle = 3
  MayFail = {"closeChuck", "openDoor"}
INVARIANT CycleStartsShut
PROPERTIES DevicesMoveInExchange ExchangesEnd
CHECK_DEADLOCK FALSE
