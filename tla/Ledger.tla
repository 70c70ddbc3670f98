------------------------------- MODULE Ledger -------------------------------
(***************************************************************************)
(* What a node promises: a ledger of unspent outputs, staking accounts and *)
(* a rewards pool that moves from block to block in one step.  There is no *)
(* memory and disk here, no bit vector, no enclave and no crash: the state *)
(* after a block is a function of the state before it and of the block's   *)
(* time and transactions.                                                  *)
(***************************************************************************)
EXTENDS TxValidation

CONSTANTS chain_hex_id, unbonding_period, genesis_accounts, genesis_rewards, genesis_time

VARIABLES
  ledger,   \* the ledger, if the chain has been initialised
  decided   \* the last block the consensus has decided, as far as it is known

ChainInfoAt(time, tx) ==
  [min_fee_computed |-> tx.min_fee, chain_hex_id |-> chain_hex_id,
   previous_block_time |-> time, unbonding_period |-> unbonding_period]

Consumed(tx) == IF tx.kind \in {"TransferTx", "DepositStakeTx"} THEN Range(tx.inputs) ELSE {}

Produced(id) ==
  IF Tx[id].kind \in {"TransferTx", "WithdrawUnbondedStakeTx"}
  THEN [id : {id}, index : 0 .. Len(Tx[id].outputs) - 1] ELSE {}

\* A transaction is valid against the ledger l inside a block at a time.
Accepts(l, time, id) ==
  LET tx == Tx[id]
      info == ChainInfoAt(time, tx)
      account == l.accounts[tx.address]
  IN  /\ Consumed(tx) \subseteq l.unspent
      /\ CASE tx.kind = "TransferTx" -> verify_transfer(tx, info)
           [] tx.kind = "DepositStakeTx" -> verify_bonded_deposit_core(tx, info)
           [] tx.kind = "UnbondStakeTx" ->
                account.exists /\ FALSE \notin Range(tx.witness) /\ verify_unbonding(tx, info, account)
           [] tx.kind = "WithdrawUnbondedStakeTx" ->
                /\ account.exists
                /\ FALSE \notin Range(tx.witness)
                /\ verify_unbonded_withdraw_core(tx, info, account)

\* New outputs wait in created: they can be spent from the next block on.
Apply(l, time, id) ==
  LET tx == Tx[id]
      info == ChainInfoAt(time, tx)
      account == l.accounts[tx.address]
  IN  IF ~ Accepts(l, time, id) THEN l ELSE
      [l EXCEPT !.unspent = @ \ Consumed(tx),
                !.created = @ \cup Produced(id),
                !.accounts = [@ EXCEPT ![tx.address] = UpdatedAccount(tx, info, account)],
                !.pool = @ + PaidFee(tx, info, account)]

\* The ledger after each number of the transactions.
Run(l, time, txs) ==
  LET run[n \in 0 .. Len(txs)] == IF n = 0 THEN l ELSE Apply(run[n - 1], time, txs[n])
  IN  run

ApplyBlock(l, time, txs) ==
  LET after == Run(l, time, txs)[Len(txs)]
  IN  [after EXCEPT !.unspent = @ \cup after.created, !.created = {},
                    !.height = @ + 1, !.time = time]

Genesis ==
  /\ ledger = {}
  /\ ledger' = {[height |-> 0, time |-> genesis_time, unspent |-> {}, created |-> {},
                 accounts |-> genesis_accounts, pool |-> genesis_rewards]}

\* The decided block is applied once, as a whole, to the ledger of the height
\* before it.
Block ==
  /\ decided.complete
  /\ \E l \in ledger :
       /\ decided.height = l.height + 1
       /\ ledger' = {ApplyBlock(l, decided.time, decided.txs)}

\* The consensus decides freely; it never moves the ledger by itself.
LedgerSpec == ledger = {} /\ [][Genesis \/ Block]_ledger
=============================================================================
