CONSTANTS
  Keys <- FiveKeys
  KeyLists <- Lists
  MaxN = 5
SPECIFICATION Spec
INVARIANTS
  ProofsVerify
  TreeIsReference
CHECK_DEADLOCK FALSE
