SPECIFICATION FairSpec
CONSTANTS
  FinishesEntries = FALSE
  PolitePeer = TRUE
  Interruptions = {"robot"}
  Asked = {"openDoor", "closeDoor", "openChuck", "closeChuck"}
  FailNext = {}
  MaxThreads = 1
  MaxAsleep = 11
INVARIANTS OnOffer CycleBehindClosedDoor
PROPERTY NothingLasts
