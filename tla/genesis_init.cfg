CHECK_DEADLOCK FALSE
SPECIFICATION Spec
CONSTANTS
  MAX_COIN = 80
  Word = 148
  MAX_COIN_DECIMALS = 10
  MANTISSA = 4
  ValidKey = {"k1", "k2", "k3", "k4"}
  ChainId = {"test-ab", "test-cd", "dev-ab"}
  DefaultId = "test-chain-xy"
  WellFormed = {"test-ab", "test-cd"}
  NetworkIds = {"test-ab"}
  Accounts <- MCAccounts
  DefaultAddress = "zero"
  TypedAddress = {"w1"}
  TypedAmount = {29}
  DefaultCoins <- MCDefaultCoins
  STAKE = 10
  Time = {1}
  TmKey = "k1"
  HandWritten <- MCHandWritten
  MaxInits = 2
  MaxWallets = 5
  IoFails = FALSE
INVARIANTS
  GenesisBalanced
  
  
