SPECIFICATION Spec
CONSTANTS
  nprocs <- Row3
  nblocks <- Two
  blocksize <- Size
  Stencils <- AllStencils
INVARIANT TypeOK
INVARIANT TasksMatch
INVARIANT HalosCovered
PROPERTY Terminates
