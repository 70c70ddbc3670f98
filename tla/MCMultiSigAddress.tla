-------------------------- MODULE MCMultiSigAddress -------------------------
EXTENDS MultiSigAddress

FiveKeys == 1..5

\* Every list of different keys, and short lists in which keys repeat.
Lists ==
  {s \in BoundedSeq(FiveKeys, 5) : \A i, j \in 1..Len(s) : i # j => s[i] # s[j]}
    \union BoundedSeq(1..3, 4)
=============================================================================
