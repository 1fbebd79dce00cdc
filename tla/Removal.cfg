SPECIFICATION RemovalSpec
CONSTANTS
  MaxSize = 7
  SizeMax = 15
INVARIANT RemovalTypeOK
INVARIANT CheckPasses
INVARIANT KeptOnce
PROPERTY RemovalEnds
