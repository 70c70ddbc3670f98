CONSTANTS
  t1 = t1
  t2 = t2
  savings = savings
  spending = spending
  p1 = p1
  p2 = p2
  k1 = k1
  k2 = k2
  k3 = k3
  k4 = k4
  cosigner = cosigner
  Thread <- TwoThreads
  Name <- OneName
  Passphrase <- TwoPass
  PublicKey <- ThreeKeys
  Cosigner <- Cosigners
  Shared <- WithCosigner
  Concurrent = TRUE
SPECIFICATION Spec
INVARIANTS
  KeysUsable
  
CHECK_DEADLOCK FALSE
