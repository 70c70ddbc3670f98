CONSTANTS
  alice = alice
  bob = bob
  Signer <- Two
  Concurrent = FALSE
SPECIFICATION FairSession
INVARIANTS
  NonceAfterCommitments
  SignaturesValid
PROPERTIES
  EventuallySigned
