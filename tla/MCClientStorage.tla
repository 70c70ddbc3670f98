--------------------------- MODULE MCClientStorage --------------------------
EXTENDS ClientStorage

CONSTANTS t1, t2, wallet, good, bad, e1, e2

One == {wallet}
Two == {t1, t2}
Passphrases == {good, bad}
OnePassphrase == {good}
Elems == {e1, e2}
AllBackends == {"memory", "sled", "unauthorized"}
Sled == {"sled"}
=============================================================================
