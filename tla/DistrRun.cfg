SPECIFICATION Spec
CONSTANTS
  nranks = 2
  nblocks = 2
  Id <- MCId
  Setups <- MCSetups
  MaxRuns = 1
INVARIANT TypeOK
INVARIANT InStep
INVARIANT ResultsRight
PROPERTY Terminates
