----------------------------- MODULE MCTxQuery -----------------------------
EXTENDS TxQuery

OneAddress == {"a"}
Keys == {"alice", "bob"}
Ids == {"t", "w"}

Aux(kind, view) ==
  [kind |-> kind, inputs |-> <<>>, outputs |-> <<>>, address |-> "a", nonce |-> 0, value |-> 0,
   chain_hex_id |-> 0, witness |-> <<>>, min_fee |-> 0, allowed_view |-> view]
Txs == [id \in Ids |->
          CASE id = "t" -> Aux("TransferTx", {"alice"})
            [] id = "w" -> Aux("WithdrawUnbondedStakeTx", {"alice", "bob"})]

\* "w" fills exactly the share of the buffer it is given, "t" is smaller.
Sealed == [id \in Ids |-> IF id = "w" THEN 97 ELSE 90]

\* The last one does not fit in PLAIN_LEN.
EdgeQueries == {<<"w">>, <<"t", "w">>, <<"w", "t", "w">>}
=============================================================================
