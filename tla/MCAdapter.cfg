\* Two topics of one member each, two values besides UNAVAILABLE, a condition of two codes, a client.
SPECIFICATION FairSpec
CONSTANTS
  Codes = {"123", "124"}
  Events = {"avail", "c_unclamp"}
  Values = {"unavailable", "ACTIVE", "READY"}
  Gatherers = {"states", "spindle"}
  Clients = {"a1"}
INVARIANT Faithful
PROPERTIES GoneAreRemoved AllSubscribed
