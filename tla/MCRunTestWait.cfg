SPECIFICATION FairSpec
CONSTANTS
  Tests <- MCWait
  Patterns = {"core"}
  Faults = {}
  Interrupts = {}
PROPERTY WaitEnds
CHECK_DEADLOCK FALSE
