SPECIFICATION RpcSpec
CONSTANTS
  Wallet <- mc_Wallet
  Address = {"a"}
  StakedStateAddress = {"sa"}
  TxId <- mc_TxId
  Transaction <- mc_Transaction
  Block <- mc_Block
  FalsePositive <- mc_FalsePositive
  transfer_addresses <- mc_transfer_addresses
  first_staking <- none_staking
  all_staking <- mc_all_staking
  Mock = FALSE
  local_addresses = {"a"}
  Faults = {"rpc", "kill", "disconnect"}
  Thread = {"core", "http"}
  MAX_COIN = 10
  BatchSize = 1
  MaxRequests = 1
  MaxUnlocks = 1
INVARIANTS
  BalanceIsUnspent
  SpentOutputsGone
  ReceivedOutputsKnown
  StatusAwaited
