SPECIFICATION FairSpec
CONSTANTS
  NoCall <- MCNone
  MaxLen = 3
  Func <- MCFunc
  Body <- MCBody
  Roots <- AllRoots
INVARIANT TypeOK
INVARIANT OwnLevel
INVARIANT OneStagePerCall
INVARIANT OnlyNestedCalls
PROPERTY StagesInOrder
PROPERTY Terminates
