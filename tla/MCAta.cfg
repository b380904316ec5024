CONSTANTS
  Lbas <- MCLbas
  Old <- MCOld
  LOW = 2
  HEADS = 2
  Data = {"x", "y"}
  Identity = "identity"
  Noise = "noise"
  POLLS = 2
SPECIFICATION FairSpec
INVARIANTS TypeOK InStep
PROPERTIES ImplementsDisk EveryTransferEnds
