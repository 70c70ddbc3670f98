---------------------------- MODULE ClientIndex -----------------------------
(***************************************************************************)
(* The transaction index of a client (client-index): what is stored about  *)
(* transactions, addresses and wallets, and how a block is applied to it.  *)
(*                                                                         *)
(* A thread applies one block at a time for one wallet (a wallet is its    *)
(* view key).  Every access to the storage is a step of its own, as other  *)
(* threads use the same storage and the process may be killed in between:  *)
(* storing a transaction and looking up what it spends, applying it to one *)
(* address (an atomic fetch_and_update), and recording the block as done.  *)
(***************************************************************************)
EXTENDS Integers, Sequences, FiniteSets, FiniteSetsExt, SequencesExt

CONSTANTS
  Wallet,                \* view keys
  Address,               \* transfer addresses
  StakedStateAddress,
  TxId,
  Transaction,           \* TxId -> the transaction
  Block,                 \* the chain: height -> [txs, valid]
  FalsePositive,         \* height -> keys and addresses the bloom filter also matches
  transfer_addresses,    \* Wallet -> its transfer addresses
  first_staking, all_staking,   \* Wallet -> its staking addresses, at first and in the end
  Mock,                  \* decryption by the node's mock query, not by the enclave
  local_addresses,       \* addresses only this client spends from
  Faults,                \* what may go wrong: some of FaultKinds
  Thread,
  MAX_COIN

VARIABLES
  tip,                   \* height of the chain
  staking_addresses,     \* the wallets' staking addresses so far
  transactions,          \* keyspace index_transaction: ids of the stored transactions
  address_details,       \* keyspace index_address
  global_state,          \* keyspace index_global_state
  job                    \* the block each thread is applying

indexVars == <<tip, staking_addresses, transactions, address_details, global_state, job>>

TxoPointer == [id : TxId, index : Nat]
FaultKinds == {"rpc", "disconnect", "kill"}
Kinds == {"Transfer", "DepositStake", "UnbondStake", "WithdrawUnbondedStake"}

ASSUME ChainAssumption ==
  /\ \A id \in TxId :
       /\ Transaction[id].kind \in Kinds
       /\ Transaction[id].inputs \in Seq(TxoPointer)
       /\ Transaction[id].outputs \in Seq([address : Address, value : 0 .. MAX_COIN])
       /\ Transaction[id].staked \in StakedStateAddress
       /\ Transaction[id].views \subseteq Wallet
  /\ \A h \in DOMAIN Block : /\ Block[h].txs \in Seq(TxId)
                             /\ Block[h].valid \in Seq(TxId)
  /\ \A w \in Wallet : first_staking[w] \subseteq all_staking[w]
                       /\ all_staking[w] \subseteq StakedStateAddress
  /\ Mock \in BOOLEAN /\ Faults \subseteq FaultKinds

-----------------------------------------------------------------------------
(* What Tendermint answers about a block *)

Output(ptr) == Transaction[ptr.id].outputs[ptr.index + 1]
Inputs(id) == Range(Transaction[id].inputs)
OutputsOf(id) == {[id |-> id, index |-> k - 1] : k \in DOMAIN Transaction[id].outputs}

\* The app hash in the header of block h is the one of the last block before h
\* that committed a transaction; "" is what an unsynchronised wallet has.
NoHash == -1
app_hash(h) == Max({0} \cup {k \in 1 .. h - 1 : Block[k].valid # <<>>})

\* transaction_ids and block_filter of the block results.
transaction_ids(h) == Block[h].valid
block_filter(h) ==
  FalsePositive[h] \cup
  UNION {Transaction[id].views \cup
           (IF Transaction[id].kind = "Transfer" THEN {} ELSE {Transaction[id].staked})
         : id \in Range(Block[h].valid)}

\* Deposits and unbondings are not encrypted; the block has the invalid ones too.
unencrypted_transactions(h) ==
  SelectSeq(Block[h].txs, LAMBDA id : Transaction[id].kind \in {"DepositStake", "UnbondStake"})

check_unencrypted_transactions(h, staked) ==
  IF \E a \in staked : a \in block_filter(h) THEN unencrypted_transactions(h) ELSE <<>>

\* The transactions decrypted with a view key: the mock returns all transfers
\* and withdrawals it is asked for, the query enclave those the key may see.
decrypted_transactions(h, w) ==
  SelectSeq(Block[h].valid,
            LAMBDA id : /\ Transaction[id].kind \in {"Transfer", "WithdrawUnbondedStake"}
                        /\ Mock \/ w \in Transaction[id].views)

-----------------------------------------------------------------------------
(* Storage services *)

NoDetails == [unspent_transactions |-> {}, transaction_history |-> <<>>, balance |-> 0,
              transaction_ids |-> {}]
NoState == [last_block_height |-> 0, last_app_hash |-> NoHash]

last_block_height(w) == global_state[w].last_block_height
last_app_hash(w) == global_state[w].last_app_hash

Value(ptrs) == MapThenSumSet(LAMBDA ptr : Output(ptr).value, ptrs)

\* handle_transaction_input: an input counts only if the transaction it spends
\* is stored.
KnownInputs(id, stored) == {ptr \in Inputs(id) : ptr.id \in stored}

\* The addresses of the memento of a transaction, and its operations for one.
MementoAddresses(id, spent) == {Output(ptr).address : ptr \in spent \cup OutputsOf(id)}
Outgoing(a, spent) == {ptr \in spent : Output(ptr).address = a}
Incoming(a, id) == {ptr \in OutputsOf(id) : Output(ptr).address = a}

\* The balance goes through Coin additions and subtractions, outgoing first.
BalanceFits(d, out, in) == Value(out) <= d.balance /\ d.balance - Value(out) + Value(in) <= MAX_COIN

\* The transaction changes of a memento for one address, in the order they were
\* added: one for each output the transaction spends, then one for each it makes.
Changes(id, out, in) ==
  LET spends == SelectSeq(Transaction[id].inputs, LAMBDA ptr : ptr \in out)
      made == SelectSeq([k \in DOMAIN Transaction[id].outputs |-> [id |-> id, index |-> k - 1]],
                        LAMBDA ptr : ptr \in in)
  IN  [k \in DOMAIN spends |-> [id |-> id, change |-> - Output(spends[k]).value]] \o
      [k \in DOMAIN made |-> [id |-> id, change |-> Output(made[k]).value]]

\* Mutant: a memento is applied again for the same transaction.
AppliedAgain(d, id, out, in) ==
  [unspent_transactions |-> (d.unspent_transactions \ out) \cup in,
   transaction_history |-> d.transaction_history \o Changes(id, out, in),
   balance |-> d.balance - Value(out) + Value(in),
   transaction_ids |-> d.transaction_ids \cup {id}]
\* Mutant: a spent output is kept.
SpentKept(d, id, out, in) ==
  IF id \in d.transaction_ids THEN d ELSE
  [AppliedAgain(d, id, out, in) EXCEPT !.unspent_transactions = d.unspent_transactions \cup in]

\* Nothing is applied twice for the same transaction.
apply_memento_operations(d, id, out, in) ==
  IF id \in d.transaction_ids THEN d ELSE
  [unspent_transactions |-> (d.unspent_transactions \ out) \cup in,
   transaction_history |-> d.transaction_history \o Changes(id, out, in),
   balance |-> d.balance - Value(out) + Value(in),
   transaction_ids |-> d.transaction_ids \cup {id}]

-----------------------------------------------------------------------------
(* Applying a block *)

NoJob == [running |-> FALSE]

\* DefaultBlockHandler::on_next is called with the header of block h.
on_next(t, h, w, staked) ==
  job' = [job EXCEPT ![t] =
            [running |-> TRUE, wallet |-> w, height |-> h,
             todo |-> SelectSeq(check_unencrypted_transactions(h, staked),
                                LAMBDA id : Contains(transaction_ids(h), id)),
             decrypted |-> FALSE, tx |-> {}, spent |-> {}, addresses |-> {}]]

\* Nothing is left of the transaction the thread is at.
AtTransaction(t) == job[t].running /\ job[t].addresses = {}

\* Store the next transaction (done twice, with the same value), look up the
\* outputs it spends, and prepare the memento.  The lookups and the store are
\* one step: no two transactions spend outputs of each other.
on_transaction(t) ==
  /\ AtTransaction(t)
  /\ job[t].todo # <<>>
  /\ LET id == Head(job[t].todo)
         spent == IF Transaction[id].kind \in {"Transfer", "DepositStake"}
                  THEN KnownInputs(id, transactions \cup {id}) ELSE {}
     IN /\ transactions' = transactions \cup {id}
        /\ job' = [job EXCEPT ![t].todo = Tail(@), ![t].tx = {id}, ![t].spent = spent,
                              ![t].addresses = MementoAddresses(id, spent)]
  /\ UNCHANGED <<tip, staking_addresses, address_details, global_state>>

MementoFits(t, id, a) ==
  \/ id \in address_details[a].transaction_ids
  \/ BalanceFits(address_details[a], Outgoing(a, job[t].spent), Incoming(a, id))

\* One fetch_and_update of apply_memento; the order of addresses is arbitrary.
apply_memento(t, a) ==
  /\ job[t].running
  /\ a \in job[t].addresses
  /\ \E id \in job[t].tx :
       /\ MementoFits(t, id, a)
       /\ address_details' = [address_details EXCEPT ![a] =
            apply_memento_operations(@, id, Outgoing(a, job[t].spent), Incoming(a, id))]
  /\ job' = [job EXCEPT ![t].addresses = @ \ {a}]
  /\ UNCHANGED <<tip, staking_addresses, transactions, global_state>>

\* After the unencrypted transactions: decrypt, if the filter has the view key.
decrypt(t) ==
  /\ AtTransaction(t)
  /\ job[t].todo = <<>>
  /\ ~ job[t].decrypted
  /\ job' = [job EXCEPT ![t].decrypted = TRUE,
                        ![t].todo = IF job[t].wallet \in block_filter(job[t].height)
                                    THEN decrypted_transactions(job[t].height, job[t].wallet)
                                    ELSE <<>>]
  /\ UNCHANGED <<tip, staking_addresses, transactions, address_details, global_state>>

\* Record the block, with the app hash of its header, and return.
set_global_state(t) ==
  /\ AtTransaction(t)
  /\ job[t].todo = <<>>
  /\ job[t].decrypted
  /\ global_state' = [global_state EXCEPT ![job[t].wallet] =
       [last_block_height |-> job[t].height, last_app_hash |-> app_hash(job[t].height)]]
  /\ job' = [job EXCEPT ![t] = NoJob]
  /\ UNCHANGED <<tip, staking_addresses, transactions, address_details>>

\* on_next returns an error: decryption failed or a balance does not fit.
on_next_fails(t) ==
  /\ job[t].running
  /\ \/ /\ "rpc" \in Faults /\ AtTransaction(t) /\ job[t].todo = <<>> /\ ~ job[t].decrypted
        /\ job[t].wallet \in block_filter(job[t].height)
     \/ \E a \in job[t].addresses : \E id \in job[t].tx : ~ MementoFits(t, id, a)
  /\ job' = [job EXCEPT ![t] = NoJob]
  /\ UNCHANGED <<tip, staking_addresses, transactions, address_details, global_state>>

\* The steps inside on_next.
HandleBlock(t) ==
  \/ on_transaction(t)
  \/ \E a \in Address : apply_memento(t, a)
  \/ decrypt(t)

\* A wallet gets another staking address.
new_staking_address(w) ==
  /\ \E a \in all_staking[w] \ staking_addresses[w] :
       staking_addresses' = [staking_addresses EXCEPT ![w] = @ \cup {a}]
  /\ UNCHANGED <<tip, transactions, address_details, global_state, job>>

\* The chain grows.  Nobody can use a staking address before it exists, and this
\* client builds transactions from outputs its index has.
NewBlock ==
  /\ tip + 1 \in DOMAIN Block
  /\ \A w \in Wallet : \A id \in Range(Block[tip + 1].txs) :
       Transaction[id].staked \in all_staking[w] => Transaction[id].staked \in staking_addresses[w]
  /\ \A id \in Range(Block[tip + 1].valid) : \A ptr \in Inputs(id) :
       Output(ptr).address \in local_addresses =>
         ptr \in address_details[Output(ptr).address].unspent_transactions
  /\ tip' = tip + 1
  /\ UNCHANGED <<staking_addresses, transactions, address_details, global_state, job>>

IndexInit ==
  /\ tip = 0
  /\ staking_addresses = first_staking
  /\ transactions = {}
  /\ address_details = [a \in Address |-> NoDetails]
  /\ global_state = [w \in Wallet |-> NoState]
  /\ job = [t \in Thread |-> NoJob]

-----------------------------------------------------------------------------
(* Properties *)

\* The three records of an address agree at every moment, also when a block is
\* applied again after an error or a crash, or by two threads at once: the
\* balance is the value of the unspent outputs and the sum of the history.
BalanceIsUnspent ==
  \A a \in Address :
    LET d == address_details[a]
    IN /\ d.balance = Value(d.unspent_transactions)
       /\ d.balance = FoldLeft(LAMBDA sum, entry : sum + entry.change, 0, d.transaction_history)

\* The chain up to the height a wallet is synchronised to.
SyncedTxs(w) == UNION {Range(Block[h].valid) : h \in 1 .. last_block_height(w)}

\* An output of a wallet that is spent on the chain, at or below the height the
\* wallet is synchronised to, is not among the address's unspent transactions
\* ("Unpent transactions corresponding to an address").
SpentOutputsGone ==
  \A w \in Wallet : \A a \in transfer_addresses[w] : \A id \in SyncedTxs(w) :
    address_details[a].unspent_transactions \cap Inputs(id) = {}

\* An output that pays an address of a wallet in a transaction its view key may
\* see is known once the wallet is synchronised past it: it is unspent, or some
\* transaction of the chain spends it.  Fast-forwarding and batches skip only
\* blocks that have nothing.
ReceivedOutputsKnown ==
  \A w \in Wallet : \A id \in SyncedTxs(w) : w \in Transaction[id].views =>
    \A ptr \in OutputsOf(id) : Output(ptr).address \in transfer_addresses[w] =>
      \/ ptr \in address_details[Output(ptr).address].unspent_transactions
      \/ \E h \in 1 .. tip : \E spender \in Range(Block[h].valid) : ptr \in Inputs(spender)
=============================================================================
