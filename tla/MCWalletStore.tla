---------------------------- MODULE MCWalletStore ---------------------------
EXTENDS WalletStore, TLC

CONSTANTS t1, t2, savings, spending, p1, p2, k1, k2, k3, k4, cosigner

OneThread == {t1}
TwoThreads == {t1, t2}
OneName == {savings}
TwoNames == {savings, spending}
OnePass == {p1}
TwoPass == {p1, p2}
ThreeKeys == {k1, k2, k3}
FourKeys == {k1, k2, k3, k4}
Cosigners == {cosigner}

\* Addresses with a cosigner, of keys that the wallets may share.
WithCosigner == {[keys |-> {k1, k2}, m |-> 1], [keys |-> {k1, cosigner}, m |-> 2],
                 [keys |-> {k2, cosigner}, m |-> 3]}
=============================================================================
