SPECIFICATION Spec
CONSTANT Cases <- MCForkRace
INVARIANT NoFlake
