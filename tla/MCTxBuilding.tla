---------------------------- MODULE MCTxBuilding ----------------------------
EXTENDS TxBuilding

\* Outputs with the given values; the one before the last needs two cosigners.
Outputs(values, joint) ==
  [i \in 1..Len(values) |-> [id |-> <<"genesis", i>>, value |-> values[i],
                             signers |-> IF i \in joint THEN 2 ELSE 1]]

FewFunds ==
  {Outputs(v, {}) : v \in {<<9, 4, 3>>, <<3, 3, 3, 3>>, <<12>>, <<5, 6>>, <<2, 1, 20>>}}
    \union {Outputs(<<8, 2, 7>>, {3}), Outputs(<<1, 6>>, {1})}
FewAmounts == {<<2>>, <<5>>, <<7>>, <<3, 4>>, <<20, 13>>}

FewPolicies == {[constant |-> 1000, coefficient |-> 1000],
                [constant |-> milli_new(0, 100), coefficient |-> milli_new(0, 1250)],
                [constant |-> 0, coefficient |-> 0]}
=============================================================================
