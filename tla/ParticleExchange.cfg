SPECIFICATION Spec
CONSTANTS
  nprocs <- Ring
  nblocks <- TwoRows
  blocksize <- Lengths
  is_periodic <- RingWalls
  halorad = 1
  Particle = {p1}
  nreq = 2
  Starts <- Seeds
  Moves <- Drifts
  Excluded <- UpperCell
  Steps = 2
INVARIANT TypeOK
INVARIANT SameRequest
INVARIANT CopiesComplete
INVARIANT KeptParticlesStay
PROPERTY Terminates
