SPECIFICATION Spec
CONSTANTS
  Scripts = {"run", "stop"}
  Dry = {FALSE}
  Faults = {"insmod_overlay"}
  Interrupts = {}
  MaxLayers = 2
INVARIANT RmMeetsNoMount
