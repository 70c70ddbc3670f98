---------------------------- MODULE MCStakingOps ----------------------------
EXTENDS StakingOps

TwoAddresses == {"a", "b"}
OwnA == {"a"}
NoViewKey == {}

Ids == {"t1"}
Outs == <<[value |-> 3, valid_from |-> {}], [value |-> 1, valid_from |-> {}],
          [value |-> 4, valid_from |-> {1}]>>
Txs == [id \in Ids |->
          [kind |-> "TransferTx", inputs |-> <<>>, outputs |-> Outs, address |-> "a",
           nonce |-> 0, value |-> 0, chain_hex_id |-> 0, witness |-> <<>>, min_fee |-> 0,
           allowed_view |-> {}]]
Pointers == {<<[id |-> "t1", index |-> 0]>>, <<[id |-> "t1", index |-> 1], [id |-> "t1", index |-> 2]>>}
Fees == [k \in Kind |-> 1]
=============================================================================
