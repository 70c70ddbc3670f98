SPECIFICATION Spec
CONSTANTS
  Address <- mc_Address
  ViewKey <- mc_ViewKey
  Tx <- stake_Tx
  TxId <- stake_TxId
  MAX_COIN = 15
  NETWORK_HEX_ID = 1
  chain_hex_id = 1
  council_nodes = {"val"}
  required_council_node_stake = 6
  unbonding_period = 2
  MAX_COIN_DECIMALS = 1
  genesis_accounts <- mc_genesis_accounts
  genesis_rewards = 2
  genesis_time = 0
  RestartPhases = {"down", "fresh", "idle"}
  MaxHeight = 3
  MaxBlockTxs = 2
  MaxTime = 4
INVARIANTS
  SupplyConserved
  SpendInvariant
  UnbondingPeriodHeld
  NoCoinPanic
  PowerBackedAfterSingleChanges
