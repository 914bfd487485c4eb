SPECIFICATION Spec
CONSTANTS
  NDev = 3
  BufDev <- MCBufDev
  NoDev <- MCNoDev
  User = {u1}
  Faults <- MCClassFault
INVARIANT LiveIsComplete
