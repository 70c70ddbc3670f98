CONSTANTS
  MAX_COIN = 32
  Word = 65536
  Funds <- FewFunds
  Amounts <- FewAmounts
  Policies <- FewPolicies
  BaseSize = 0
  InputSize = 1
  OutputSize = 1
  MaxSends = 3
SPECIFICATION Spec
INVARIANTS
  FeeFitsTransaction
  FundedBuildsSucceed
  RefusedOnlyIfStaleOrLocked
