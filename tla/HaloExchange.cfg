SPECIFICATION Spec
CONSTANTS
  nprocs <- Line3
  nblocks <- Two
  blocksize <- One
  Exchanges <- MCExchanges
  NoData = NoData
INVARIANT TypeOK
INVARIANT HalosCurrent
PROPERTY Terminates
