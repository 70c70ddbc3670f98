CONSTANTS
  Address <- OneAddress
  ViewKey <- Keys
  TxId <- Ids
  Tx <- Txs
  MAX_COIN = 1
  NETWORK_HEX_ID = 0
  Token = {1}
  MaxCrashes = 1
  Client = {"bob"}
  Queries <- EdgeQueries
  SealedLen <- Sealed
  PLAIN_LEN = 200
  TX_BUF = 100
  Day = 1
  MaxTime = 1
SPECIFICATION Spec
INVARIANTS
  QueryExact
  RefusedForCause
  CertCurrent
  
  RequestsAccountedFor
  
\* A server that dies with both requests leaves both callers blocked for good.
CHECK_DEADLOCK FALSE
