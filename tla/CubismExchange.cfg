SPECIFICATION CubismSpec
CONSTANTS
  nprocs <- Row3
  nblocks <- Blocks3
  blocksize <- Unit
  Field = {"u", "v"}
  Stages <- Alternating
  Timestamps = 2
  NotLoaded = NotLoaded
INVARIANT CubismTypeOK
INVARIANT LabsCurrent
INVARIANT NothingLeft
PROPERTY AllFinish
