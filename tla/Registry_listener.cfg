CONSTANTS
  MaxFaults = 1
SPECIFICATION FairSpec
PROPERTY CloseEndsListener
CHECK_DEADLOCK FALSE
