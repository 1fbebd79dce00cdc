SPECIFICATION Spec
CONSTANTS
  nblocks = 2
  width = 2
  ncells = 4
  First <- MCFirst
  nlayers = 2
  Color = {1, 2, 3}
  Full = 2
  Clipth = 1
  Filterth = 2
  Velocities <- MCVelocities
  Starts <- MCStarts
  MaxSteps = 2
INVARIANT TypeOK
INVARIANT OneLayer
PROPERTY ColorsMove
