SPECIFICATION FairSpec
CONSTANT Cases <- MCCases
INVARIANTS
  TypeOK
  NoFlake
  VerdictIsSound
  OkMeansChildDone
  RequestsMeetStoppedChild
PROPERTY Ends
CHECK_DEADLOCK FALSE
