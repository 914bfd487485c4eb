SPECIFICATION FairSpec
CONSTANTS
  Tests <- MCTests
  Patterns = {"core", "|handler"}
  Faults = {"insmod", "userdel"}
  Interrupts <- Place
INVARIANTS
  TypeOK
  VerdictIsExact
  HostRestored
  DriverServes
PROPERTY RunEnds
