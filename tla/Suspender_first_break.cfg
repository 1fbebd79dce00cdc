SPECIFICATION Spec
CONSTANTS
  NoCall <- MCNone
  MaxLen = 0
  Func <- MCFunc
  Body <- MCBody
  Roots <- FirstBreaksRoots
PROPERTY StagesInOrder
