----------------------------- MODULE StakingOps -----------------------------
(***************************************************************************)
(* The staking operations of a client (DefaultNetworkOpsClient, called by  *)
(* StakingRpc and by the CLI) composed with the node's checks.  An         *)
(* operation queries the account one or more times, builds a transaction   *)
(* on what it read and broadcasts it; between any two of these steps       *)
(* blocks may change the account and the time.                             *)
(***************************************************************************)
EXTENDS TxValidation, FiniteSets, TLC

CONSTANTS
  Own,               \* staking addresses the wallet has the key of
  Inputs,            \* lists of pointers a deposit may be asked for
  UnbondValues,      \* amounts an unbonding may be asked for
  MinFee,            \* MinFee[kind]: what the policy computes from the length
  UnbondingPeriod,
  MaxOps,            \* operations started
  MaxTime

Op == {"deposit", "unbond", "withdraw", "state"}

VARIABLES
  account,           \* the committed account of every address
  now,               \* time of the last block
  unspent,           \* unspent pointers
  mempool,
  call,              \* the operation in progress: a set
  ops,               \* operations started
  last,              \* how the last operation ended
  committed          \* what blocks executed: the transaction and the account before it

vars == <<account, now, unspent, mempool, call, ops, last, committed>>
chain == <<account, now, unspent, committed>>

\* The sum and the fee are compared as amounts; what the checks need beside them.
info(kind) == [min_fee_computed |-> MinFee[kind], chain_hex_id |-> 0,
               previous_block_time |-> now, unbonding_period |-> UnbondingPeriod]

NewTx(kind, address) ==
  [kind |-> kind, inputs |-> <<>>, outputs |-> <<>>, address |-> address, nonce |-> 0,
   value |-> 0, chain_hex_id |-> 0, witness |-> <<>>, min_fee |-> MinFee[kind],
   allowed_view |-> {}]

\* What the node checks, in CheckTx and again in DeliverTx.
Valid(tx) ==
  LET a == account[tx.address]
  IN CASE tx.kind = "DepositStakeTx" ->
            /\ verify_bonded_deposit_core(tx, info(tx.kind))
            /\ {tx.inputs[k] : k \in DOMAIN tx.inputs} \subseteq unspent
       [] tx.kind = "UnbondStakeTx" ->
            a.exists /\ verify_unbonding(tx, info(tx.kind), a)
       [] tx.kind = "WithdrawUnbondedStakeTx" ->
            a.exists /\ verify_unbonded_withdraw_core(tx, info(tx.kind), a)

-----------------------------------------------------------------------------
(* The client *)

Ended(c, result, txs) ==
  call' = {} /\ last' = [op |-> c.op, address |-> c.address, result |-> result, tx |-> txs]

\* The broadcast that ends every operation answers with the result of CheckTx.
broadcast_transaction(c, tx) ==
  IF Valid(tx)
  THEN Ended(c, "ok", {tx}) /\ mempool' = mempool \union {[id |-> ops, tx |-> tx]}
  ELSE Ended(c, "TransactionValidationFailed", {tx}) /\ UNCHANGED mempool

\* get_staked_state looks up the key of the address and goes on without one.  An
\* address without an account has an empty answer, which is no StakedState.
get_staked_state(c) ==
  IF account[c.address].exists
  THEN /\ call' = {[c EXCEPT !.reads = Append(@, account[c.address])]}
       /\ UNCHANGED <<mempool, last>>
  ELSE Ended(c, "DeserializationError", {}) /\ UNCHANGED mempool

create_deposit_bonded_stake_transaction(c) ==
  broadcast_transaction(c,
    [NewTx("DepositStakeTx", c.address) EXCEPT !.inputs = c.inputs,
                                              !.witness = [k \in DOMAIN c.inputs |-> TRUE]])

\* find_public_key fails for an address that is not of the wallet.
create_unbond_stake_transaction(c) ==
  IF c.address \notin Own THEN Ended(c, "AddressNotFound", {}) /\ UNCHANGED mempool
  ELSE broadcast_transaction(c,
         [NewTx("UnbondStakeTx", c.address) EXCEPT !.nonce = c.reads[1].nonce,
                                                  !.value = c.value])

\* Mutant: the fee is not taken off.
WithdrawNoFee(c) ==
  IF c.address \notin Own THEN Ended(c, "AddressNotFound", {}) /\ UNCHANGED mempool
  ELSE broadcast_transaction(c,
         [NewTx("WithdrawUnbondedStakeTx", c.address) EXCEPT
            !.nonce = c.reads[3].nonce,
            !.outputs = <<[value |-> c.reads[1].unbonded,
                           valid_from |-> {c.reads[1].unbonded_from}]>>])

\* The first query gives the amount and the timelock, the second one the
\* transaction whose length the fee is computed from, the third one the nonce.
create_withdraw_all_unbonded_stake_transaction(c) ==
  IF c.address \notin Own THEN Ended(c, "AddressNotFound", {}) /\ UNCHANGED mempool
  ELSE IF c.reads[1].unbonded < MinFee["WithdrawUnbondedStakeTx"]
  THEN Ended(c, "BalanceAdditionError", {}) /\ UNCHANGED mempool
  ELSE broadcast_transaction(c,
         [NewTx("WithdrawUnbondedStakeTx", c.address) EXCEPT
            !.nonce = c.reads[3].nonce,
            !.outputs = <<[value |-> c.reads[1].unbonded - MinFee["WithdrawUnbondedStakeTx"],
                           valid_from |-> {c.reads[1].unbonded_from}]>>])

Start ==
  /\ call = {} /\ ops < MaxOps
  /\ ops' = ops + 1
  /\ \E op \in Op, address \in Address :
       \E inputs \in IF op = "deposit" THEN Inputs ELSE {<<>>},
          value \in IF op = "unbond" THEN UnbondValues ELSE {0} :
         call' = {[op |-> op, address |-> address, inputs |-> inputs, value |-> value,
                   reads |-> <<>>, since |-> now]}
  /\ UNCHANGED <<chain, mempool, last>>

Queries == [deposit |-> 0, unbond |-> 1, withdraw |-> 3, state |-> 1]

Step(c) ==
  IF Len(c.reads) < Queries[c.op] THEN get_staked_state(c)
  ELSE CASE c.op = "deposit" -> create_deposit_bonded_stake_transaction(c)
         [] c.op = "unbond" -> create_unbond_stake_transaction(c)
         [] c.op = "withdraw" -> create_withdraw_all_unbonded_stake_transaction(c)
         [] c.op = "state" -> Ended(c, "ok", {}) /\ UNCHANGED mempool

Client == (\E c \in call : Step(c)) /\ UNCHANGED <<chain, ops>>

-----------------------------------------------------------------------------
(* The chain *)

\* A block executes a transaction of the mempool, or drops it.
deliver_tx ==
  \E p \in mempool :
    /\ mempool' = mempool \ {p}
    /\ IF Valid(p.tx)
       THEN /\ account' = [account EXCEPT ![p.tx.address] =
                             UpdatedAccount(p.tx, info(p.tx.kind), @)]
            /\ unspent' = unspent \ {p.tx.inputs[k] : k \in DOMAIN p.tx.inputs}
            /\ committed' = Append(committed,
                 [tx |-> p.tx, before |-> account[p.tx.address],
                  fee |-> PaidFee(p.tx, info(p.tx.kind), account[p.tx.address])])
       ELSE UNCHANGED <<account, unspent, committed>>
    /\ UNCHANGED <<now, call, ops, last>>

\* A block with a later time; blocks may follow each other within a second.  An
\* operation is a few requests, so it is over before the unbonding period is.
begin_block ==
  /\ now < MaxTime
  /\ \A c \in call : now + 1 < c.since + UnbondingPeriod
  /\ now' = now + 1
  /\ UNCHANGED <<account, unspent, mempool, call, ops, last, committed>>

Init ==
  /\ account \in [Address -> {NoAccount, new_init(MAX_COIN \div 4, 0, TRUE)}]
  /\ now = 0
  /\ unspent = UNION {{[id |-> id, index |-> i - 1] : i \in DOMAIN Tx[id].outputs} : id \in TxId}
  /\ mempool = {} /\ call = {} /\ ops = 0
  /\ last = [op |-> "none", address |-> "none", result |-> "none", tx |-> {}]
  /\ committed = <<>>

Next == Start \/ Client \/ deliver_tx \/ begin_block

Spec == Init /\ [][Next]_vars

-----------------------------------------------------------------------------
(* Properties *)

\* An operation on one address that was read once is executed once: of the
\* transactions a client builds on the same nonce, blocks execute one.
OneExecutionPerNonce ==
  \A i, j \in DOMAIN committed :
    /\ committed[i].tx.kind # "DepositStakeTx" /\ committed[j].tx.kind # "DepositStakeTx"
    /\ committed[i].tx.address = committed[j].tx.address
    /\ committed[i].tx.nonce = committed[j].tx.nonce
    => i = j

\* "withdrawing all unbonded stake": the account is read three times, and what a
\* block executes still pays out everything but the fee of its length.
WithdrawsAll ==
  \A i \in DOMAIN committed :
    committed[i].tx.kind = "WithdrawUnbondedStakeTx" =>
      committed[i].fee = MinFee["WithdrawUnbondedStakeTx"]

\* A withdrawal the node refuses at once is refused for what the user can see: it
\* is early, there is nothing beyond the fee, or the account changed meanwhile.
WithdrawRefusedForCause ==
  [][\A c \in call :
       (/\ c.op = "withdraw" /\ call' = {}
        /\ last'.result = "TransactionValidationFailed"
        /\ account[c.address] = c.reads[1])
       => \/ account[c.address].unbonded_from > now
          \/ account[c.address].unbonded = MinFee["WithdrawUnbondedStakeTx"]]_vars

\* get_staked_state answers for addresses of the wallet only.
StateOfOwnAddress ==
  last.op = "state" /\ last.result = "ok" => last.address \in Own
=============================================================================
