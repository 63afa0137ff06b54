CONSTANTS
  MaxFaults = 2
  Self = s
  Others = {k}
  MaxLog = 1
  ClientFails = TRUE
  WatchEnds = TRUE
SPECIFICATION FairServices
INVARIANTS ServicesTypeOK NoChangeMissed
PROPERTIES FoundAgain Forgotten
CHECK_DEADLOCK FALSE
