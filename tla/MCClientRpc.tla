---------------------------- MODULE MCClientRpc -----------------------------
(* Small instances of ClientRpc. *)
EXTENDS ClientRpc

TxOf(kind, ins, outs, staked, views) ==
  [kind |-> kind, inputs |-> ins, outputs |-> outs, staked |-> staked, views |-> views]
Out(a, v) == [address |-> a, value |-> v]

\* alice withdraws and pays part of it to themselves.
mc_Transaction ==
  [id \in {"w", "t"} |->
     CASE id = "w" -> TxOf("WithdrawUnbondedStake", <<>>, <<Out("a", 5)>>, "sa", {"alice"})
       [] id = "t" -> TxOf("Transfer", <<[id |-> "w", index |-> 0]>>, <<Out("a", 3)>>, "sa", {"alice"})]
mc_TxId == DOMAIN mc_Transaction

\* alice deposits it instead.
deposit_Transaction ==
  [mc_Transaction EXCEPT !["t"] =
     TxOf("DepositStake", <<[id |-> "w", index |-> 0]>>, <<>>, "sa", {})]

OneTx(id) == [txs |-> <<id>>, valid |-> <<id>>]
mc_Block == << OneTx("w"), [txs |-> <<>>, valid |-> <<>>], OneTx("t") >>
mc_FalsePositive == [h \in DOMAIN mc_Block |-> {}]
mc_Wallet == {"alice"}
mc_transfer_addresses == [w \in mc_Wallet |-> {"a"}]
mc_all_staking == [w \in mc_Wallet |-> {"sa"}]
none_staking == [w \in mc_Wallet |-> {}]
=============================================================================
