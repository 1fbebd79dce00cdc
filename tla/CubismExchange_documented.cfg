SPECIFICATION CubismSpec
CONSTANTS
  nprocs <- Row2
  nblocks <- Blocks3
  blocksize <- Unit
  Field = {"u", "v"}
  Stages <- Documented
  Timestamps = 8
  NotLoaded = NotLoaded
INVARIANT LabsCurrent
