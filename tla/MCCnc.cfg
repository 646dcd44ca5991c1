SPECIFICATION Spec
CONSTANTS
  FinishesEntries = TRUE
  PolitePeer = FALSE
  Interruptions = {"robot", "fault", "operator"}
  Asked = {"openChuck", "closeChuck"}
  FailNext = {}
  MaxThreads = 1
  MaxAsleep = 2
INVARIANTS CompleteMeansThere DisabledIsQuiet TransferOwned OneExchange LimitedRequests
