---------------------------- MODULE MCChainNode -----------------------------
(* Small instances of ChainNode. *)
EXTENDS ChainNodeRefinement

mc_Address == {"val", "acc", "new"}
mc_ViewKey == {"view"}

\* val is a council node with exactly the required stake, acc holds coins that
\* were never bonded, new has no account yet.
mc_genesis_accounts ==
  [a \in mc_Address |->
     CASE a = "val" -> new_init(6, 0, TRUE)
       [] a = "acc" -> new_init(7, 0, FALSE)
       [] a = "new" -> NoAccount]

Base(kind) == [kind |-> kind, inputs |-> <<>>, outputs |-> <<>>, address |-> "acc",
               nonce |-> 0, value |-> 0, chain_hex_id |-> 1, witness |-> <<>>,
               min_fee |-> 1, allowed_view |-> {}]
In(id, i) == [id |-> id, index |-> i]
Out(v, from) == [value |-> v, valid_from |-> from]
Transfer(ins, outs) ==
  [Base("TransferTx") EXCEPT !.inputs = ins, !.outputs = outs,
     !.witness = [k \in DOMAIN ins |-> TRUE], !.allowed_view = {"view"}]
Deposit(ins, a) ==
  [Base("DepositStakeTx") EXCEPT !.inputs = ins, !.address = a,
     !.witness = [k \in DOMAIN ins |-> TRUE]]
Unbond(a, n, v) ==
  [Base("UnbondStakeTx") EXCEPT !.address = a, !.nonce = n, !.value = v, !.witness = <<TRUE>>]
Withdraw(a, n, outs) ==
  [Base("WithdrawUnbondedStakeTx") EXCEPT !.address = a, !.nonce = n, !.outputs = outs,
     !.witness = <<TRUE>>, !.allowed_view = {"view"}]

\* Two transfers and a deposit compete for the two outputs of a withdrawal.
utxo_Tx ==
  [id \in {"w", "t1", "t2", "d", "pad"} |->
     CASE id = "w" -> Withdraw("acc", 0, <<Out(3, {0}), Out(3, {0})>>)
       [] id = "t1" -> Transfer(<<In("w", 0)>>, <<Out(2, {})>>)
       [] id = "t2" -> Transfer(<<In("w", 0), In("w", 1)>>, <<Out(4, {2})>>)
       [] id = "d" -> Deposit(<<In("w", 1)>>, "new")
       [] id = "pad" -> Transfer(<<In("w", 7)>>, <<Out(1, {})>>)]
utxo_TxId == DOMAIN utxo_Tx

\* The council node's stake is topped up, unbonded and withdrawn.
stake_Tx ==
  [id \in {"w", "dv", "u0", "u1", "x1", "x2"} |->
     CASE id = "w" -> Withdraw("acc", 0, <<Out(4, {0})>>)
       [] id = "dv" -> Deposit(<<In("w", 0)>>, "val")
       [] id = "u0" -> Unbond("val", 0, 4)
       [] id = "u1" -> Unbond("val", 1, 2)
       [] id = "x1" -> Withdraw("val", 1, <<Out(3, {3})>>)
       [] id = "x2" -> Withdraw("val", 2, <<Out(1, {4})>>)]
stake_TxId == DOMAIN stake_Tx
=============================================================================
