SPECIFICATION FairSpec
CONSTANTS
  NoCall <- MCNone
  MaxLen = 0
  Func <- MCFunc
  Body <- MCBody
  Roots <- LastIsNestedRoots
PROPERTY Terminates
