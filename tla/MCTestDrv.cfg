SPECIFICATION Spec
CONSTANTS
  NDev = 3
  BufDev <- MCBufDev
  NoDev <- MCNoDev
  User = {u1, u2}
  Faults <- MCFaults
SYMMETRY UserSymmetry
INVARIANTS
  TypeOK
  NothingLeaks
  LiveIsWhole
  CleanedOnce
  UsersAreServed
  DevFilesWork
