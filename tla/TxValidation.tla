---------------------------- MODULE TxValidation ----------------------------
(***************************************************************************)
(* The stateless checks of chain-tx-validation and the staked-state        *)
(* arithmetic of chain-core: what makes a transaction valid against its    *)
(* input transactions, an account and the chain info, what fee it pays and *)
(* what it does to the account.  Everything here is a function of its      *)
(* arguments, as in the code ("all validation is pure functions").         *)
(*                                                                         *)
(* A transaction is named by its id (a collision-free hash), and the       *)
(* constant Tx maps every id to the content it is the hash of.  Signatures *)
(* are abstracted to whether they verify, the byte length of a transaction *)
(* to the minimal fee the fee policy computes from it, an Option to a set  *)
(* with at most one element.                                               *)
(***************************************************************************)
EXTENDS Integers, Sequences, Functions, FiniteSets

CONSTANTS
  Address,        \* staking (redeem) addresses
  ViewKey,        \* view keys a transaction may name
  TxId,           \* transaction ids
  Tx,             \* Tx[id]: the transaction with that id
  MAX_COIN        \* total supply

Coin == 0 .. MAX_COIN

Kind == {"TransferTx", "DepositStakeTx", "UnbondStakeTx", "WithdrawUnbondedStakeTx"}

TxoPointer == [id : TxId, index : Nat]

TxOut == [value : Coin, valid_from : SUBSET Nat]

\* The four variants of TxAux in one record; a field a variant lacks is empty or zero.
TxAux == [kind : Kind, inputs : Seq(TxoPointer), outputs : Seq(TxOut),
          address : Address, nonce : Nat, value : Coin, chain_hex_id : Nat,
          witness : Seq(BOOLEAN), min_fee : Coin, allowed_view : SUBSET ViewKey]

ASSUME AddressAssumption == IsFiniteSet(Address)   \* 20-byte hashes
ASSUME CoinAssumption == MAX_COIN \in Nat
ASSUME TxAssumption == Tx \in [TxId -> TxAux]

\* exists = FALSE is an address the account trie has no leaf for.
StakedState == [exists : BOOLEAN, nonce : Nat, bonded : Coin, unbonded : Coin,
                unbonded_from : Nat]

NoAccount == [exists |-> FALSE, nonce |-> 0, bonded |-> 0, unbonded |-> 0,
              unbonded_from |-> 0]

ChainInfo == [min_fee_computed : Coin, chain_hex_id : Nat,
              previous_block_time : Nat, unbonding_period : Nat]

-----------------------------------------------------------------------------
(* StakedState *)

new_init(amount, genesis_time, bonded) ==
  [exists |-> TRUE, nonce |-> 0,
   bonded |-> IF bonded THEN amount ELSE 0,
   unbonded |-> IF bonded THEN 0 ELSE amount,
   unbonded_from |-> genesis_time]

deposit(account, amount) ==
  [account EXCEPT !.nonce = @ + 1, !.bonded = @ + amount]

\* Mutant: the fee is not taken from the bonded amount.
UnbondWithoutFee(account, amount, fee, unbonded_from) ==
  [account EXCEPT !.nonce = @ + 1, !.unbonded_from = unbonded_from,
                  !.bonded = @ - amount, !.unbonded = @ + amount]

unbond(account, amount, fee, unbonded_from) ==
  [account EXCEPT !.nonce = @ + 1, !.unbonded_from = unbonded_from,
                  !.bonded = @ - amount - fee, !.unbonded = @ + amount]

withdraw(account) ==
  [account EXCEPT !.nonce = @ + 1, !.unbonded = 0]

-----------------------------------------------------------------------------
(* The checks *)

Values(outputs) == [i \in DOMAIN outputs |-> outputs[i].value]

get_output_total(tx) == SumFunction(Values(tx.outputs))

\* The outputs the inputs of tx point to, in the order of the inputs.
InputTxOuts(tx) ==
  [k \in DOMAIN tx.inputs |-> Tx[tx.inputs[k].id].outputs[tx.inputs[k].index + 1]]

InCoins(tx) == SumFunction(Values(InputTxOuts(tx)))

check_attributes(tx, info) == tx.chain_hex_id = info.chain_hex_id

check_inputs_basic(tx) ==
  /\ tx.inputs # <<>>
  /\ IsInjective(tx.inputs)
  /\ Len(tx.inputs) = Len(tx.witness)

check_inputs(tx, info) ==
  /\ \A k \in DOMAIN tx.inputs :
        /\ tx.inputs[k].index < Len(Tx[tx.inputs[k].id].outputs)
        /\ \A valid_from \in InputTxOuts(tx)[k].valid_from :
              valid_from <= info.previous_block_time
        /\ tx.witness[k]
  /\ InCoins(tx) <= MAX_COIN

check_outputs_basic(tx) ==
  /\ tx.outputs # <<>>
  /\ \A i \in DOMAIN tx.outputs : tx.outputs[i].value > 0

check_input_output_sums(incoins, outcoins, info) ==
  /\ outcoins + info.min_fee_computed <= MAX_COIN
  /\ incoins >= outcoins + info.min_fee_computed

verify_transfer(tx, info) ==
  /\ check_attributes(tx, info)
  /\ check_inputs_basic(tx)
  /\ check_outputs_basic(tx)
  /\ check_inputs(tx, info)
  /\ get_output_total(tx) <= MAX_COIN
  /\ check_input_output_sums(InCoins(tx), get_output_total(tx), info)

verify_bonded_deposit_core(tx, info) ==
  /\ check_attributes(tx, info)
  /\ check_inputs_basic(tx)
  /\ check_inputs(tx, info)
  /\ InCoins(tx) > info.min_fee_computed

\* The account a valid deposit leaves behind: the old one topped up, or a new one.
bonded_deposit_account(tx, info, account) ==
  LET deposit_amount == InCoins(tx) - info.min_fee_computed
  IN  IF account.exists
      THEN deposit(account, deposit_amount)
      ELSE new_init(deposit_amount, info.previous_block_time, TRUE)

\* Mutants of verify_unbonding: without the nonce check, without the sum check.
UnbondingAnyNonce(tx, info, account) ==
  /\ check_attributes(tx, info)
  /\ tx.value # 0
  /\ check_input_output_sums(account.bonded, tx.value, info)
UnbondingAnySum(tx, info, account) ==
  /\ check_attributes(tx, info)
  /\ tx.nonce = account.nonce
  /\ tx.value # 0

verify_unbonding(tx, info, account) ==
  /\ check_attributes(tx, info)
  /\ tx.nonce = account.nonce
  /\ tx.value # 0
  /\ check_input_output_sums(account.bonded, tx.value, info)

unbonding_account(tx, info, account) ==
  unbond(account, tx.value, info.min_fee_computed,
         info.previous_block_time + info.unbonding_period)

\* Mutant: the check that the unbonding period is over is missing.
WithdrawAnyTime(tx, info, account) ==
  /\ check_attributes(tx, info)
  /\ check_outputs_basic(tx)
  /\ tx.nonce = account.nonce
  /\ account.unbonded # 0
  /\ \A i \in DOMAIN tx.outputs : tx.outputs[i].valid_from = {account.unbonded_from}
  /\ get_output_total(tx) <= MAX_COIN
  /\ check_input_output_sums(account.unbonded, get_output_total(tx), info)

verify_unbonded_withdraw_core(tx, info, account) ==
  /\ check_attributes(tx, info)
  /\ check_outputs_basic(tx)
  /\ tx.nonce = account.nonce
  /\ account.unbonded_from <= info.previous_block_time
  /\ account.unbonded # 0
  /\ \A i \in DOMAIN tx.outputs : tx.outputs[i].valid_from = {account.unbonded_from}
  /\ get_output_total(tx) <= MAX_COIN
  /\ check_input_output_sums(account.unbonded, get_output_total(tx), info)

-----------------------------------------------------------------------------
(* What the four kinds share, for a transaction the checks accept *)

\* The fee a valid transaction pays: the whole surplus of a transfer or a
\* withdrawal, the minimal fee of a deposit or an unbonding.
PaidFee(tx, info, account) ==
  CASE tx.kind = "TransferTx" -> InCoins(tx) - get_output_total(tx)
    [] tx.kind = "WithdrawUnbondedStakeTx" -> account.unbonded - get_output_total(tx)
    [] OTHER -> info.min_fee_computed

UpdatedAccount(tx, info, account) ==
  CASE tx.kind = "DepositStakeTx" -> bonded_deposit_account(tx, info, account)
    [] tx.kind = "UnbondStakeTx" -> unbonding_account(tx, info, account)
    [] tx.kind = "WithdrawUnbondedStakeTx" -> withdraw(account)
    [] OTHER -> account
=============================================================================
