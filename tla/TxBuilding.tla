----------------------------- MODULE TxBuilding -----------------------------
(***************************************************************************)
(* How a wallet pays (DefaultWalletClient::create_transaction, the         *)
(* transaction builder, input selection, the signer, send_to_address),     *)
(* composed with what a node does with the payment.  The unspent outputs   *)
(* the wallet selects from are those its index holds, which only a sync    *)
(* makes equal to the chain's; a payment that is broadcast waits in the    *)
(* mempool until a block takes it.                                         *)
(***************************************************************************)
EXTENDS CoinFee, FiniteSets

CONSTANTS
  Funds,         \* lists of outputs a wallet may start with
  Amounts,       \* lists of output values a payment may ask for
  Policies,      \* fee policies
  BaseSize, InputSize, OutputSize,  \* encoded length of a transaction
  MaxSends       \* payments tried

Strategies == {"HighestValueFirst", "LowestValueFirst", "Random"}

VARIABLES
  utxos,         \* the chain's unspent outputs of the wallet: a list of records
  locked,        \* ids of those with a timelock that has not passed
  index,         \* the unspent outputs the wallet's index knows
  policy,
  mempool,       \* broadcast and not yet in a block
  call,          \* the payment being built, or none: a set
  last,          \* how the last call ended, and what it was about
  sends          \* calls made

vars == <<utxos, locked, index, policy, mempool, call, last, sends>>

Values(s) == [i \in 1..Len(s) |-> s[i].value]
SumOf(values) ==
  LET sum[i \in 0..Len(values)] == IF i = 0 THEN 0 ELSE sum[i - 1] + values[i]
  IN sum[Len(values)]
Total(s) == SumOf(Values(s))

size(inputs, outputs) == BaseSize + InputSize * inputs + OutputSize * outputs

-----------------------------------------------------------------------------
(* Input selection *)

\* as_ref: the operations of a strategy; Random has none.
operations(strategy) ==
  IF strategy = "Random" THEN <<>> ELSE <<strategy>>

sort(unspent, sorter) ==
  IF sorter = "HighestValueFirst" THEN SortSeq(unspent, LAMBDA a, b : a.value > b.value)
  ELSE SortSeq(unspent, LAMBDA a, b : a.value < b.value)

apply_all(unspent, ops) == FoldLeft(sort, unspent, ops)

\* Mutant: what is selected has to exceed the amount.
SelectMore(unspent, amount) ==
  LET enough == {i \in 1..Len(unspent) : Total(SubSeq(unspent, 1, i)) > amount}
      i == CHOOSE i \in enough : \A j \in enough : i <= j
  IN IF enough = {} THEN {} ELSE {[selected |-> SubSeq(unspent, 1, i),
                                   difference |-> Total(SubSeq(unspent, 1, i)) - amount]}

\* The shortest prefix that covers the amount; nothing if there is none, or if a
\* sum on the way is no Coin.
select(unspent, amount) ==
  LET enough == {i \in 1..Len(unspent) : Total(SubSeq(unspent, 1, i)) >= amount}
      i == CHOOSE i \in enough : \A j \in enough : i <= j
  IN IF enough = {} \/ sum_coins(Values(SubSeq(unspent, 1, i))) = {} THEN {}
     ELSE {[selected |-> SubSeq(unspent, 1, i),
            difference |-> Total(SubSeq(unspent, 1, i)) - amount]}

\* The change is an output unless there is none.
build_transaction(choice, outputs) ==
  [inputs |-> choice.selected,
   outputs |-> IF choice.difference = 0 THEN outputs ELSE Append(outputs, choice.difference),
   change |-> choice.difference]

\* DefaultSigner signs for outputs one cosigner may spend.
CanSign(inputs) == \A i \in 1..Len(inputs) : inputs[i].signers = 1

-----------------------------------------------------------------------------
(* The node *)

Paid(tx) == Total(tx.inputs) - SumOf(tx.outputs)

Spendable(tx) == ToSet(tx.inputs) \subseteq ToSet(utxos)
Unlocked(tx) == \A i \in 1..Len(tx.inputs) : tx.inputs[i].id \notin locked

\* verify_transfer, without what the wallet cannot get wrong (chain id, keys).
verify_transfer(tx) ==
  /\ tx.inputs # <<>> /\ IsInjective(tx.inputs)
  /\ tx.outputs # <<>> /\ \A i \in 1..Len(tx.outputs) : tx.outputs[i] > 0
  /\ Spendable(tx) /\ Unlocked(tx)
  /\ \A fee \in estimate(policy, size(Len(tx.inputs), Len(tx.outputs))) : Paid(tx) >= fee

-----------------------------------------------------------------------------
(* Steps *)

Ended(result, c, tx) == call' = {} /\ last' = [result |-> result, call |-> c, tx |-> tx]

create_transaction ==
  /\ call = {} /\ sends < MaxSends
  /\ sends' = sends + 1
  /\ \E outputs \in Amounts, strategy \in Strategies :
        IF sum_coins(outputs) = {}
        THEN Ended("BalanceAdditionError", {}, {}) /\ UNCHANGED <<utxos, locked, index, policy, mempool>>
        ELSE /\ call' = {[unspent |-> apply_all(index, operations(strategy)), outputs |-> outputs, fees |-> 0]}
             /\ UNCHANGED <<utxos, locked, index, policy, mempool, last>>

\* broadcast_tx_sync answers with the result of CheckTx.
broadcast_transaction(c, tx) ==
  IF verify_transfer(tx)
  THEN Ended("sent", {c}, {tx}) /\ mempool' = mempool \union {[id |-> sends, tx |-> tx]}
  ELSE Ended("TransactionValidationFailed", {c}, {tx}) /\ UNCHANGED mempool

\* Mutant: the transaction is returned as soon as it is built.
BuildOnce(c) ==
  LET choices == select(c.unspent, SumOf(c.outputs) + c.fees)
  IN IF choices = {} THEN Ended("InsufficientBalance", {c}, {}) /\ UNCHANGED mempool
     ELSE \E choice \in choices : broadcast_transaction(c, build_transaction(choice, c.outputs))

\* An iteration of the loop of build, and the broadcast after the last one.
build(c) ==
  LET amounts == add(SumOf(c.outputs), c.fees)
      choices == UNION {select(c.unspent, amount) : amount \in amounts}
  IN IF amounts = {} THEN Ended("BalanceAdditionError", {c}, {}) /\ UNCHANGED mempool
     ELSE IF choices = {} THEN Ended("InsufficientBalance", {c}, {}) /\ UNCHANGED mempool
     ELSE \E choice \in choices :
            LET tx == build_transaction(choice, c.outputs)
                new_fees == estimate(policy, size(Len(tx.inputs), Len(tx.outputs)))
            IN CASE ~ CanSign(tx.inputs) -> Ended("InvalidTransaction", {c}, {tx}) /\ UNCHANGED mempool
                 [] CanSign(tx.inputs) /\ new_fees = {} ->
                      Ended("BalanceAdditionError", {c}, {}) /\ UNCHANGED mempool
                 [] OTHER ->
                      \E fee \in new_fees :
                        IF fee > c.fees
                        THEN call' = {[c EXCEPT !.fees = fee]} /\ UNCHANGED <<mempool, last>>
                        ELSE broadcast_transaction(c, tx)

Build == (\E c \in call : build(c)) /\ UNCHANGED <<utxos, locked, index, policy, sends>>

\* A block takes a transaction of the mempool, or drops it.
deliver_tx ==
  \E p \in mempool :
    /\ mempool' = mempool \ {p}
    /\ utxos' = IF ~ verify_transfer(p.tx) THEN utxos
                ELSE LET kept == SelectSeq(utxos, LAMBDA u : u \notin ToSet(p.tx.inputs))
                     IN IF p.tx.change = 0 THEN kept
                        ELSE Append(kept, [id |-> <<"tx", p.id>>, value |-> p.tx.change,
                                           signers |-> 1])
    /\ UNCHANGED <<locked, index, policy, call, last, sends>>

\* A timelock ends.
unlock ==
  /\ \E id \in locked : locked' = locked \ {id}
  /\ UNCHANGED <<utxos, index, policy, call, mempool, last, sends>>

sync == index' = utxos /\ UNCHANGED <<utxos, locked, policy, mempool, call, last, sends>>

Init ==
  /\ utxos \in Funds /\ index = utxos
  /\ locked \in SUBSET {utxos[i].id : i \in 1..Len(utxos)}
  /\ policy \in Policies
  /\ mempool = {} /\ call = {} /\ sends = 0
  /\ last = [result |-> "none", call |-> {}, tx |-> {}]

Next == create_transaction \/ Build \/ deliver_tx \/ unlock \/ sync

Spec == Init /\ [][Next]_vars
-----------------------------------------------------------------------------
(* Properties *)

Returned == IF last.result \in {"sent", "TransactionValidationFailed"} THEN last.tx ELSE {}

\* What build returns pays for itself: at least the fee of its own length (which
\* is only known once it is signed and encrypted), and no more than that of the
\* same transaction with a change output.
FeeFitsTransaction ==
  \A tx \in Returned :
    LET ins == Len(tx.inputs) outs == Len(tx.outputs)
    IN /\ Paid(tx) >= ReferenceFee(policy, size(ins, outs))
       /\ Paid(tx) <= ReferenceFee(policy, size(ins, IF tx.change = 0 THEN outs + 1 ELSE outs))

\* A payment the wallet could make with all its outputs and change is made: the
\* loop raises the fee in steps, but never to more than that.
FundedBuildsSucceed ==
  last.result = "InsufficientBalance" =>
    \A c \in last.call :
      Total(c.unspent) < SumOf(c.outputs)
                           + ReferenceFee(policy, size(Len(c.unspent), Len(c.outputs) + 1))

\* A payment the builder returns is only refused by the node for what the builder
\* does not know or does not look at: the index is stale, or an output is locked.
RefusedOnlyIfStaleOrLocked ==
  \A tx \in Returned : Spendable(tx) /\ Unlocked(tx) => verify_transfer(tx)
=============================================================================
