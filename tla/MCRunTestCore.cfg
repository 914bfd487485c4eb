SPECIFICATION Spec
CONSTANTS
  Tests = {"getppid"}
  Patterns = {"|handler"}
  Faults = {}
  Interrupts = {}
INVARIANT CoreRestored
