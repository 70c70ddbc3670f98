CONSTANTS
  t1 = t1
  t2 = t2
  wallet = wallet
  good = good
  bad = bad
  e1 = e1
  e2 = e2
  Thread <- Two
  Key <- One
  Passphrase <- Passphrases
  Elem <- Elems
  Backends <- AllBackends
  MaxCalls = 2
SPECIFICATION FairStorage
PROPERTIES
  ImplementsStore
  CallsReturn
CHECK_DEADLOCK FALSE
