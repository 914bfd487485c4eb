SPECIFICATION Spec
CONSTANTS
  LONG = 2
  ROUNDS = 2
  MaxCpus = 3
  Cases <- MCCases
INVARIANTS
  TypeOK
  SignalsAreCaught
  Alternates
  FreedLast
PROPERTIES
  Promise
  NothingLeft
