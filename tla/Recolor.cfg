SPECIFICATION Spec
CONSTANTS
  Columns = 4
  Rows = 4
  Width = 2
  Height = 1
  ncells <- MCncells
  nblocks <- MCnblocks
  nlayers = 2
  Owner <- MCOwner
  Stencil <- MCStencil
  FaceCells <- MCFaceCells
  Corner <- MCCorner
  Sampled <- MCSampled
  Inputs <- MCInputs
INVARIANT TypeOK
INVARIANT LabelsStay
INVARIANT Settled
INVARIANT Separate
INVARIANT KnownColorsKept
PROPERTY LabelsFall
PROPERTY Terminates
