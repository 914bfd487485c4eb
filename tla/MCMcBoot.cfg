SPECIFICATION FairSpec
CONSTANTS
  Scripts = {"run", "stop", "reboot"}
  Dry = {FALSE}
  Faults <- MCFaults
  Interrupts <- MCInterrupts
  MaxLayers = 2
INVARIANTS
  TypeOK
  RmIsSafe
  StopIsClean
  BootIsReal
PROPERTY ScriptsEnd
