CONSTANTS
  Address <- TwoAddresses
  ViewKey <- NoViewKey
  TxId <- Ids
  Tx <- Txs
  MAX_COIN = 24
  Own <- OwnA
  Inputs <- Pointers
  UnbondValues = {1, 2}
  MinFee <- Fees
  UnbondingPeriod = 2
  MaxOps = 3
  MaxTime = 4
SPECIFICATION Spec
INVARIANTS
  OneExecutionPerNonce
  WithdrawsAll
PROPERTIES
  WithdrawRefusedForCause
CHECK_DEADLOCK FALSE
