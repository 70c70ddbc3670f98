----------------------------- MODULE ChainNode ------------------------------
(***************************************************************************)
(* A chain-abci node: the ABCI application (chain-abci/src/app) over its   *)
(* two stores, composed with the transaction validation server it calls    *)
(* and with Tendermint, which calls it.                                    *)
(*                                                                         *)
(* Every ABCI handler is one action: Tendermint's connections share the    *)
(* application behind one lock, and a handler waits for each reply of the  *)
(* validation server.  The node process may crash between two calls and    *)
(* inside Commit, between the server's commit and the database write.      *)
(*                                                                         *)
(* The node database (kvdb) has an in-memory overlay: write_buffered puts  *)
(* entries there, get reads through it, and write stores a batch durably   *)
(* and drops the buffered entries of the keys it writes.  The account trie *)
(* (starling) is content addressed: a root stands for the whole map of     *)
(* accounts, and an insert stores the new root beside the old ones.        *)
(***************************************************************************)
EXTENDS TxValidationServer

CONSTANTS
  chain_hex_id,                 \* from the chain id the node is started with
  council_nodes,                \* staking addresses of the council nodes
  required_council_node_stake,
  unbonding_period,
  MAX_COIN_DECIMALS,            \* coins per unit of voting power
  genesis_accounts,             \* the account map of the genesis distribution
  genesis_rewards,              \* what the distribution leaves in the rewards pool
  genesis_time,
  RestartPhases,                \* phases in which the validation server may restart
  MaxHeight, MaxBlockTxs, MaxTime   \* bounds on what Tendermint decides

Phase == {"down", "fresh", "idle", "deliver", "ended"}

VARIABLES
  phase,                   \* where the node is in the ABCI protocol
  last_state,              \* app: ChainNodeState in memory
  uncommitted_account_root_hash,
  delivered_txs,           \* app: ids of the valid transactions of this block
  filter,                  \* app: addresses and view keys added to the block filter
  validator_voting_power,
  power_changed_in_block,
  overlay,                 \* kvdb: buffered COL_TX_META entries
  stored_state,            \* kvdb: COL_NODE_INFO / LAST_STATE_KEY
  tx_meta,                 \* kvdb: COL_TX_META
  bodies,                  \* kvdb: keys of COL_BODIES
  app_states,              \* kvdb: COL_APP_STATES, by height
  merkle_proofs,           \* kvdb: keys of COL_MERKLE_PROOFS
  account_roots,           \* trie: the roots that can be resolved
  headers,                 \* Tendermint: header times of the blocks decided so far
  block,                   \* Tendermint: what is known of the last of them
  cursor,                  \* Tendermint: transactions of block already delivered
  response,                \* Tendermint: the EndBlock response it holds
  tm_power                 \* Tendermint: voting powers of the validators

memVars == <<last_state, uncommitted_account_root_hash, delivered_txs, filter,
             validator_voting_power, power_changed_in_block, overlay>>
dbVars == <<stored_state, tx_meta, bodies, app_states, merkle_proofs>>
tmVars == <<headers, block, cursor, response, tm_power>>
vars == <<phase, memVars, dbVars, account_roots, tmVars, serverVars>>

-----------------------------------------------------------------------------
(* Types and values *)

Root == [Address -> StakedState]
RewardsPool == [remaining : Coin, last_block_height : Nat]
AppHash == [txs : Seq(TxId), root : Root, pool : RewardsPool]
ChainNodeState == [last_block_height : Nat, last_apphash : AppHash, block_time : Nat,
                   last_account_root_hash : Root, rewards_pool : RewardsPool]

\* An entry of COL_TX_META: the set bits of the output bit vector.
Meta == [present : BOOLEAN, spent : SUBSET Nat]
NoMeta == [present |-> FALSE, spent |-> {}]
NoBuffer == [id \in TxId |-> NoMeta]

\* A map from some council nodes to their voting power.
IsPowerMap(f) == f \in [DOMAIN f -> Nat] /\ DOMAIN f \subseteq council_nodes
NoPower == [a \in {} |-> 0]
NoResponse == [validator_updates |-> NoPower, block_filter |-> {}]

\* compute_app_hash is a collision-free hash of its three parts.
compute_app_hash(ids, root, pool) == [txs |-> ids, root |-> root, pool |-> pool]

genesis_pool == [remaining |-> genesis_rewards, last_block_height |-> 0]
genesis_app_hash == compute_app_hash(<<>>, genesis_accounts, genesis_pool)
genesis_state ==
  [last_block_height |-> 0, last_apphash |-> genesis_app_hash,
   block_time |-> genesis_time, last_account_root_hash |-> genesis_accounts,
   rewards_pool |-> genesis_pool]
\* The root of a node that has no state ([0u8; 32]).
ZeroRoot == [a \in Address |-> NoAccount]

ASSUME GenesisAssumption ==
  /\ genesis_accounts \in Root
  /\ genesis_rewards \in Coin
  /\ genesis_time \in Nat
  /\ council_nodes \subseteq {a \in Address : genesis_accounts[a].exists}
  /\ required_council_node_stake \in Coin
  /\ unbonding_period \in Nat
  /\ MAX_COIN_DECIMALS \in Nat \ {0}
  /\ chain_hex_id \in Nat
  /\ NETWORK_HEX_ID \in Nat
  /\ RestartPhases \subseteq Phase
  /\ MaxHeight \in Nat /\ MaxBlockTxs \in Nat /\ MaxTime \in Nat

TendermintVotePower(coin) == coin \div MAX_COIN_DECIMALS

Insert(f, a, v) == [x \in DOMAIN f \cup {a} |-> IF x = a THEN v ELSE f[x]]

-----------------------------------------------------------------------------
(* Storage *)

\* kvdb get on COL_TX_META: the overlay first, then the database.
GetMeta(id) == IF overlay[id].present THEN overlay[id] ELSE tx_meta[id]

\* A bit vector goes through to_bytes and from_bytes: its length is a multiple of 8.
BitVecLen(no_of_outputs) == 8 * ((no_of_outputs + 7) \div 8)

\* The transaction outputs a transfer or a deposit spends.
Spends(tx) ==
  IF tx.kind \in {"TransferTx", "DepositStakeTx"}
  THEN {tx.inputs[k] : k \in DOMAIN tx.inputs}
  ELSE {}

\* Mutant: the spent bits start from an empty vector.
SpendFromEmpty(tx, id) ==
  [present |-> TRUE, spent |-> {txin.index : txin \in {t \in Spends(tx) : t.id = id}}]

\* The bit vectors spend_utxos puts into a batch: read through the overlay,
\* never through the batch itself.
spend_utxos(tx, id) ==
  [present |-> TRUE,
   spent |-> GetMeta(id).spent \cup {txin.index : txin \in {t \in Spends(tx) : t.id = id}}]

check_spent_input_lookup(tx) ==
  /\ tx.inputs # <<>>
  /\ \A k \in DOMAIN tx.inputs :
        LET txin == tx.inputs[k] IN
        /\ GetMeta(txin.id).present
        /\ txin.index < BitVecLen(Len(Tx[txin.id].outputs))
        /\ txin.index \notin GetMeta(txin.id).spent

\* An insert into the account trie stores the new root beside the old ones.
insert(root) == account_roots \cup {root}

\* The account trie resolves the root, and the address has a leaf there.
RootFound(root) == root \in account_roots
get_account(root, address) == root[address]

-----------------------------------------------------------------------------
(* Transaction validation (storage/tx.rs and app/validate_tx.rs) *)

Info(tx) ==
  [min_fee_computed |-> tx.min_fee, chain_hex_id |-> chain_hex_id,
   previous_block_time |-> last_state.block_time, unbonding_period |-> unbonding_period]

AccountOf(tx) == get_account(uncommitted_account_root_hash, tx.address)

verify(id) ==
  LET tx == Tx[id] IN
  CASE tx.kind = "TransferTx" ->
         check_spent_input_lookup(tx) /\ VerifyTx(id, NoAccount, Info(tx))
    [] tx.kind = "DepositStakeTx" ->
         /\ RootFound(uncommitted_account_root_hash)
         /\ check_spent_input_lookup(tx)
         /\ VerifyTx(id, AccountOf(tx), Info(tx))
    [] tx.kind = "UnbondStakeTx" ->
         /\ \A k \in DOMAIN tx.witness : tx.witness[k]
         /\ RootFound(uncommitted_account_root_hash)
         /\ AccountOf(tx).exists
         /\ verify_unbonding(tx, Info(tx), AccountOf(tx))
    [] tx.kind = "WithdrawUnbondedStakeTx" ->
         /\ \A k \in DOMAIN tx.witness : tx.witness[k]
         /\ RootFound(uncommitted_account_root_hash)
         /\ AccountOf(tx).exists
         /\ VerifyTx(id, AccountOf(tx), Info(tx))

\* The requests verify sends on the way: a transfer, a deposit or a withdrawal
\* that reaches the server and is accepted is sealed there.
validate_tx_req(id) ==
  IF verify(id) /\ Tx[id].kind # "UnbondStakeTx"
  THEN InsertSealed(id)
  ELSE UNCHANGED serverVars

-----------------------------------------------------------------------------
(* Process start and InitChain (app/app_init.rs) *)

get_validator_mapping(state) ==
  [a \in council_nodes |->
     LET bonded == state.last_account_root_hash[a].bonded IN
     IF bonded < required_council_node_stake THEN 0 ELSE TendermintVotePower(bonded)]

\* What a stopped process leaves of its memory: nothing.
MemoryLost ==
  /\ phase' = "down"
  /\ last_state' = genesis_state
  /\ uncommitted_account_root_hash' = ZeroRoot
  /\ delivered_txs' = <<>>
  /\ filter' = {}
  /\ validator_voting_power' = NoPower
  /\ power_changed_in_block' = NoPower
  /\ overlay' = NoBuffer
  /\ cursor' = 0
  /\ response' = NoResponse

\* The hash new_with_storage sends in CheckChain: the stored state's, if there is one.
StoredHash == {state.last_apphash : state \in stored_state}

\* new_with_storage when the validation server agrees.
NewWithStorage ==
  /\ phase = "down"
  /\ CheckChain(chain_hex_id, StoredHash)
  /\ \/ /\ stored_state = {}
        /\ phase' = "fresh"
        /\ UNCHANGED memVars
     \/ \E state \in stored_state :
        /\ RootFound(state.last_account_root_hash)
        /\ phase' = "idle"
        /\ last_state' = state
        /\ uncommitted_account_root_hash' = state.last_account_root_hash
        /\ validator_voting_power' = get_validator_mapping(state)
        /\ UNCHANGED <<delivered_txs, filter, power_changed_in_block, overlay>>
  /\ UNCHANGED <<dbVars, account_roots, tmVars, serverVars>>

\* new_with_storage when it does not: the process panics and stays down.
NewWithStoragePanics ==
  /\ phase = "down"
  /\ ~ CheckChain(chain_hex_id, StoredHash)
  /\ UNCHANGED vars

\* validator_pubkeys is filled here, validator_voting_power is not.
InitChain ==
  /\ phase = "fresh"
  /\ phase' = "idle"
  /\ account_roots' = insert(genesis_accounts)
  /\ stored_state' = {genesis_state}
  /\ last_state' = genesis_state
  /\ uncommitted_account_root_hash' = genesis_accounts
  /\ tm_power' = [a \in council_nodes |->
                    TendermintVotePower(genesis_accounts[a].bonded + genesis_accounts[a].unbonded)]
  /\ UNCHANGED <<delivered_txs, filter, validator_voting_power, power_changed_in_block,
                 overlay, tx_meta, bodies, app_states, merkle_proofs, headers, block,
                 cursor, response, serverVars>>

-----------------------------------------------------------------------------
(* The blocks (app/mod.rs, app/commit.rs) *)

HeaderTime(height) == IF height = 0 THEN genesis_time ELSE headers[height]

\* Tendermint opens the next height with a later time, or the block it had
\* already decided when the node went down.
BeginBlock ==
  /\ phase = "idle"
  /\ \/ /\ Len(headers) = last_state.last_block_height
        /\ Len(headers) < MaxHeight
        /\ \E time \in (HeaderTime(Len(headers)) + 1) .. MaxTime : headers' = Append(headers, time)
        /\ block' = [txs |-> <<>>, complete |-> FALSE]
     \/ /\ Len(headers) = last_state.last_block_height + 1
        /\ UNCHANGED <<headers, block>>
  /\ phase' = "deliver"
  /\ last_state' = [last_state EXCEPT !.block_time = headers'[Len(headers')]]
  /\ UNCHANGED <<uncommitted_account_root_hash, delivered_txs, filter,
                 validator_voting_power, power_changed_in_block, overlay, dbVars,
                 account_roots, cursor, response, tm_power, serverVars>>

\* The next transaction of the block.  What the rest of a block holds is left
\* open until it is delivered; a replayed block repeats what is known of it.
NextOfBlock(id) ==
  /\ cursor' = cursor + 1
  /\ \/ /\ cursor < Len(block.txs)
        /\ id = block.txs[cursor + 1]
        /\ UNCHANGED block
     \/ /\ cursor = Len(block.txs)
        /\ ~ block.complete
        /\ cursor < MaxBlockTxs
        /\ block' = [block EXCEPT !.txs = Append(@, id)]

CheckTx(id) ==
  /\ phase \in {"idle", "deliver", "ended"}
  /\ validate_tx_req(id)
  /\ UNCHANGED <<phase, memVars, dbVars, account_roots, tmVars>>

NewAccount(tx) == UpdatedAccount(tx, Info(tx), AccountOf(tx))
NewRemaining(tx) ==
  last_state.rewards_pool.remaining + PaidFee(tx, Info(tx), AccountOf(tx))

\* The checked Coin additions a valid transaction goes through; the process
\* panics where one overflows.
CoinsFit(tx) ==
  /\ NewAccount(tx).bonded \in Coin
  /\ NewAccount(tx).unbonded \in Coin
  /\ NewRemaining(tx) \in Coin

\* Mutant: a decrease of the stake is not announced.
OnlyIncreases(tx) ==
  LET new_power == TendermintVotePower(NewAccount(tx).bonded)
  IN  IF /\ tx.kind # "TransferTx"
         /\ tx.address \in DOMAIN validator_voting_power
         /\ new_power > validator_voting_power[tx.address]
         /\ new_power >= TendermintVotePower(required_council_node_stake)
      THEN Insert(power_changed_in_block, tx.address, new_power)
      ELSE power_changed_in_block

power_change(tx) ==
  LET min_power == TendermintVotePower(required_council_node_stake)
      new_power == TendermintVotePower(NewAccount(tx).bonded)
      old_power == validator_voting_power[tx.address]
  IN  IF tx.kind = "TransferTx" \/ tx.address \notin DOMAIN validator_voting_power
      THEN power_changed_in_block
      ELSE IF new_power > old_power /\ new_power >= min_power
      THEN Insert(power_changed_in_block, tx.address, new_power)
      ELSE IF old_power >= min_power /\ new_power < old_power
      THEN Insert(power_changed_in_block, tx.address, 0)
      ELSE power_changed_in_block

update_account(tx) == [uncommitted_account_root_hash EXCEPT ![tx.address] = NewAccount(tx)]

\* Mutant: the spends of the block are not buffered.
NothingBuffered(tx) == overlay

\* The spends of a transaction join the overlay.
write_buffered(tx) ==
  [i \in TxId |-> IF \E txin \in Spends(tx) : txin.id = i THEN spend_utxos(tx, i) ELSE overlay[i]]

DeliverValid(id) ==
  LET tx == Tx[id] IN
  /\ verify(id)
  /\ CoinsFit(tx)
  /\ overlay' = write_buffered(tx)
  /\ IF tx.kind = "TransferTx"
     THEN UNCHANGED <<uncommitted_account_root_hash, account_roots, filter>>
     ELSE /\ uncommitted_account_root_hash' = update_account(tx)
          /\ account_roots' = insert(update_account(tx))
          /\ filter' = filter \cup {tx.address}
  /\ power_changed_in_block' = power_change(tx)
  /\ delivered_txs' = Append(delivered_txs, id)
  /\ last_state' = [last_state EXCEPT !.rewards_pool.remaining = NewRemaining(tx)]

DeliverInvalid(id) ==
  /\ ~ verify(id)
  /\ UNCHANGED <<overlay, uncommitted_account_root_hash, account_roots, filter,
                 power_changed_in_block, delivered_txs, last_state>>

DeliverTx(id) ==
  /\ phase = "deliver"
  /\ NextOfBlock(id)
  /\ validate_tx_req(id)
  /\ DeliverValid(id) \/ DeliverInvalid(id)
  /\ UNCHANGED <<phase, validator_voting_power, dbVars, headers, response, tm_power>>

\* Mutant: the view keys of withdrawals are forgotten.
FilterWithoutWithdrawals ==
  filter \cup UNION {Tx[delivered_txs[k]].allowed_view :
                       k \in {j \in DOMAIN delivered_txs :
                                Tx[delivered_txs[j]].kind = "TransferTx"}}

\* The view keys of the delivered transfers and withdrawals join the filter
\* before it is emitted.
EmittedFilter ==
  filter \cup UNION {Tx[delivered_txs[k]].allowed_view :
                       k \in {j \in DOMAIN delivered_txs : HasOutputs(delivered_txs[j])}}

EndBlock ==
  /\ phase = "deliver"
  /\ cursor = Len(block.txs)
  /\ phase' = "ended"
  /\ block' = [block EXCEPT !.complete = TRUE]
  /\ response' =
       [validator_updates |->
          [a \in {b \in DOMAIN power_changed_in_block :
                    validator_voting_power[b] # power_changed_in_block[b]}
             |-> power_changed_in_block[a]],
        block_filter |-> EmittedFilter]
  /\ filter' = {}
  /\ validator_voting_power' =
       [a \in DOMAIN validator_voting_power |->
          IF a \in DOMAIN power_changed_in_block
          THEN power_changed_in_block[a] ELSE validator_voting_power[a]]
  /\ power_changed_in_block' = NoPower
  /\ last_state' = [last_state EXCEPT !.last_block_height = Len(headers)]
  /\ UNCHANGED <<uncommitted_account_root_hash, delivered_txs, overlay, dbVars,
                 account_roots, headers, cursor, tm_power, serverVars>>

\* Mutant: the spends are not written again at commit, as they were delivered.
OnlyOwnOutputs(id) == {k \in DOMAIN delivered_txs : delivered_txs[k] = id /\ HasOutputs(id)}

\* The delivered transactions whose commit puts an entry for id in COL_TX_META.
MetaWriters(id) ==
  {k \in DOMAIN delivered_txs :
     \/ delivered_txs[k] = id /\ HasOutputs(id)
     \/ \E txin \in Spends(Tx[delivered_txs[k]]) : txin.id = id}

\* What one of them puts: its own outputs all unspent, or its inputs spent.
MetaPut(k, id) ==
  IF delivered_txs[k] = id /\ HasOutputs(id)
  THEN [present |-> TRUE, spent |-> {}]
  ELSE spend_utxos(Tx[delivered_txs[k]], id)

\* The batch is applied in order: the last put of a key wins.
update_utxos_commit(id) ==
  IF MetaWriters(id) = {}
  THEN tx_meta[id]
  ELSE MetaPut(CHOOSE k \in MetaWriters(id) : \A j \in MetaWriters(id) : j <= k, id)

\* Mutant: an empty block gets an app hash of its own.
HashOfEveryBlock ==
  LET pool == [last_state.rewards_pool EXCEPT
                 !.last_block_height = last_state.last_block_height]
  IN  [last_state EXCEPT
         !.rewards_pool = pool,
         !.last_account_root_hash = uncommitted_account_root_hash,
         !.last_apphash = compute_app_hash(delivered_txs, uncommitted_account_root_hash, pool)]

\* new_state of commit_handler; an empty block keeps the app hash.
CommittedState ==
  LET pool == [last_state.rewards_pool EXCEPT
                 !.last_block_height = last_state.last_block_height]
  IN  IF delivered_txs = <<>>
      THEN last_state
      ELSE [last_state EXCEPT
              !.rewards_pool = pool,
              !.last_account_root_hash = uncommitted_account_root_hash,
              !.last_apphash = compute_app_hash(delivered_txs, uncommitted_account_root_hash,
                                                pool)]

\* Mutant: the hash of the previous block is sent.
CommitPreviousHash ==
  IF delivered_txs = <<>>
  THEN UNCHANGED serverVars
  ELSE CommitBlock(last_state.last_apphash)

CommitRequest ==
  IF delivered_txs = <<>>
  THEN UNCHANGED serverVars
  ELSE CommitBlock(CommittedState.last_apphash)

\* The validation server commits first, then the batch is written in one go.
Commit ==
  /\ phase = "ended"
  /\ phase' = "idle"
  /\ CommitRequest
  /\ bodies' = bodies \cup {delivered_txs[k] : k \in DOMAIN delivered_txs}
  /\ tx_meta' = [id \in TxId |-> update_utxos_commit(id)]
  /\ overlay' = [id \in TxId |-> IF MetaWriters(id) = {} THEN overlay[id] ELSE NoMeta]
  /\ merkle_proofs' = merkle_proofs \cup
                        (IF delivered_txs = <<>> THEN {} ELSE {CommittedState.last_apphash})
  /\ app_states' = Insert(app_states, CommittedState.last_block_height,
                          CommittedState.last_apphash)
  /\ stored_state' = {CommittedState}
  /\ last_state' = CommittedState
  /\ delivered_txs' = <<>>
  /\ cursor' = 0
  /\ response' = NoResponse
  /\ tm_power' = [a \in DOMAIN tm_power |->
                    IF a \in DOMAIN response.validator_updates
                    THEN response.validator_updates[a] ELSE tm_power[a]]
  /\ UNCHANGED <<uncommitted_account_root_hash, filter, validator_voting_power,
                 power_changed_in_block, account_roots, headers, block>>

-----------------------------------------------------------------------------
(* Failures *)

\* The node process stops between two ABCI calls, or panics in one.
Crash ==
  /\ phase # "down"
  /\ MemoryLost
  /\ UNCHANGED <<dbVars, account_roots, headers, block, tm_power, serverVars>>

\* It stops inside Commit, after the server's reply and before the database write.
CrashInCommit ==
  /\ phase = "ended"
  /\ delivered_txs # <<>>
  /\ CommitRequest
  /\ MemoryLost
  /\ UNCHANGED <<dbVars, account_roots, headers, block, tm_power>>

\* The node's REQ socket reconnects to a restarted server without a CheckChain.
RestartServer ==
  /\ phase \in RestartPhases
  /\ ServerRestart
  /\ UNCHANGED <<phase, memVars, dbVars, account_roots, tmVars>>

-----------------------------------------------------------------------------
Init ==
  /\ phase = "down"
  /\ last_state = genesis_state
  /\ uncommitted_account_root_hash = ZeroRoot
  /\ delivered_txs = <<>>
  /\ filter = {}
  /\ validator_voting_power = NoPower
  /\ power_changed_in_block = NoPower
  /\ overlay = NoBuffer
  /\ stored_state = {}
  /\ tx_meta = NoBuffer
  /\ bodies = {}
  /\ app_states = [h \in {} |-> genesis_app_hash]
  /\ merkle_proofs = {}
  /\ account_roots = {}
  /\ headers = <<>>
  /\ block = [txs |-> <<>>, complete |-> TRUE]
  /\ cursor = 0
  /\ response = NoResponse
  /\ tm_power = NoPower
  /\ ServerInit

Next ==
  \/ NewWithStorage
  \/ NewWithStoragePanics
  \/ InitChain
  \/ BeginBlock
  \/ \E id \in TxId : CheckTx(id)
  \/ \E id \in TxId : DeliverTx(id)
  \/ EndBlock
  \/ Commit
  \/ Crash
  \/ CrashInCommit
  \/ RestartServer

Spec == Init /\ [][Next]_vars

-----------------------------------------------------------------------------
(* Properties *)

Delivered == {delivered_txs[k] : k \in DOMAIN delivered_txs}
\* The transactions that count at this point: committed, or valid in this block.
Chain == bodies \cup Delivered
SpentBy(txs, id) == {txin.index : txin \in {t \in UNION {Spends(Tx[i]) : i \in txs} : t.id = id}}
Running == phase \in {"idle", "deliver", "ended"}

\* Every variable holds a value of the type the code gives it; the coins are
\* within MAX_COIN and no undecided root, hash or voting power appears.
TypeOK ==
  /\ phase \in Phase
  /\ last_state \in ChainNodeState
  /\ uncommitted_account_root_hash \in Root
  /\ delivered_txs \in Seq(TxId)
  /\ filter \subseteq Address \cup ViewKey
  /\ IsPowerMap(validator_voting_power)
  /\ IsPowerMap(power_changed_in_block)
  /\ overlay \in [TxId -> Meta]
  /\ stored_state \subseteq ChainNodeState
  /\ tx_meta \in [TxId -> Meta]
  /\ bodies \subseteq TxId
  /\ app_states \in [DOMAIN app_states -> AppHash] /\ DOMAIN app_states \subseteq Nat
  /\ merkle_proofs \subseteq AppHash
  /\ account_roots \subseteq Root
  /\ headers \in Seq(Nat)
  /\ block \in [txs : Seq(TxId), complete : BOOLEAN]
  /\ cursor \in Nat
  /\ response = [validator_updates |-> response.validator_updates,
                 block_filter |-> response.block_filter]
  /\ IsPowerMap(response.validator_updates)
  /\ response.block_filter \subseteq Address \cup ViewKey
  /\ IsPowerMap(tm_power)
  /\ txdb \subseteq TxId
  /\ txdb_disk \subseteq TxId
  /\ last_apphash \subseteq AppHash

\* No output is spent by two transactions of the chain, neither across blocks
\* and crashes nor inside the block being delivered: spend_utxos in deliver_tx
\* and in commit, and the lookup through the overlay, have to work together.
NoDoubleSpend ==
  \A s, t \in Chain : s # t => Spends(Tx[s]) \cap Spends(Tx[t]) = {}

\* The entry COL_TX_META should have for a transaction.
MetaOf(committed, spenders, id) ==
  [present |-> id \in committed /\ HasOutputs(id), spent |-> SpentBy(spenders, id)]

\* The bit vectors say exactly which outputs are spent: the stored ones by the
\* committed transactions, the ones read through the overlay by those and the
\* delivered ones.  The batch of a commit rewrites whole vectors, and the last
\* put of a key wins, so a bit set by another transaction must not get lost.
SpentBitsExact ==
  \A id \in TxId :
    /\ tx_meta[id] = MetaOf(bodies, bodies, id)
    /\ GetMeta(id) = MetaOf(bodies, Chain, id)

\* No transaction enters the chain twice: inputs stop a transfer or a deposit,
\* the account nonce an unbonding or a withdrawal.  A second commit of a
\* transaction would mark all its outputs unspent again.
TxDeliveredOnce ==
  /\ IsInjective(delivered_txs)
  /\ Delivered \cap bodies = {}

\* Every spent output is one a committed transaction really has.  The bit
\* vector lookup alone accepts indexes in the padding of its last byte; the
\* validation server's check against the sealed transaction rejects them.
InputsAreCommittedOutputs ==
  \A t \in Chain : \A txin \in Spends(Tx[t]) :
    /\ txin.id \in bodies
    /\ HasOutputs(txin.id)
    /\ txin.index < Len(Tx[txin.id].outputs)

NonceUsed(t, root) ==
  Tx[t].kind \in {"UnbondStakeTx", "WithdrawUnbondedStakeTx"} =>
    /\ root[Tx[t].address].exists
    /\ Tx[t].nonce < root[Tx[t].address].nonce

\* The nonce of every unbonding and withdrawal in the chain is used up in each
\* account map the node may validate against, now or after a restart.
NoncesUsed ==
  /\ \A state \in stored_state : \A t \in bodies : NonceUsed(t, state.last_account_root_hash)
  /\ Running => /\ \A t \in bodies : NonceUsed(t, last_state.last_account_root_hash)
                /\ \A t \in Chain : NonceUsed(t, uncommitted_account_root_hash)

\* The inductive invariant behind the four properties above: they hold together
\* with the nonces, and a node that is not running has delivered nothing.
SpendInvariant ==
  /\ NoDoubleSpend
  /\ SpentBitsExact
  /\ TxDeliveredOnce
  /\ InputsAreCommittedOutputs
  /\ NoncesUsed
  /\ stored_state = {} => bodies = {}
  /\ phase = "fresh" => stored_state = {}
  /\ ~ Running => delivered_txs = <<>>

OutputsOf(txs) ==
  UNION {[id : {t}, index : 0 .. Len(Tx[t].outputs) - 1] : t \in {s \in txs : HasOutputs(s)}}
UtxoValue(txos) == SumFunction([txo \in txos |-> Tx[txo.id].outputs[txo.index + 1].value])
StakeValue(root) == SumFunction([a \in Address |-> root[a].bonded + root[a].unbonded])

\* The genesis distribution adds up to the supply (validate_distribution), and
\* an address it does not list holds nothing.
ASSUME SupplyAssumption ==
  /\ StakeValue(genesis_accounts) + genesis_rewards = MAX_COIN
  /\ \A a \in Address : ~ genesis_accounts[a].exists => genesis_accounts[a] = NoAccount

\* Coins are neither created nor lost: unspent outputs, bonded and unbonded
\* stake and the rewards pool add up to the supply, in the database at all
\* times and in memory after every DeliverTx.
SupplyConserved ==
  /\ \A state \in stored_state :
       UtxoValue({o \in OutputsOf(bodies) : o.index \notin tx_meta[o.id].spent})
         + StakeValue(state.last_account_root_hash) + state.rewards_pool.remaining = MAX_COIN
  /\ Running =>
       UtxoValue({o \in OutputsOf(Chain) : o.index \notin GetMeta(o.id).spent})
         + StakeValue(uncommitted_account_root_hash) + last_state.rewards_pool.remaining = MAX_COIN

\* The expect() calls on Coin additions in deliver_tx, deposit and unbond never
\* fire: a transaction that verifies also fits.
NoCoinPanic ==
  phase = "deliver" => \A id \in TxId : verify(id) => CoinsFit(Tx[id])

\* Answer to the question in deliver_tx's comment: the intermediate roots a
\* crashed block leaves in the account storage do no harm, and every root the
\* node works from or would restart from can be resolved.
RootsResolvable ==
  /\ Running => {uncommitted_account_root_hash, last_state.last_account_root_hash}
                  \subseteq account_roots
  /\ \A state \in stored_state : state.last_account_root_hash \in account_roots

\* The validation server is never behind the node's database, and ahead of it
\* only after a crash inside Commit, by the block Tendermint will replay.
ServerHashTracksNode ==
  \/ last_apphash = {} /\ StoredHash \subseteq {genesis_app_hash}
  \/ last_apphash = StoredHash
  \/ /\ phase = "down"
     /\ \A h \in last_apphash : \A state \in stored_state :
          /\ h.pool.last_block_height = state.last_block_height + 1
          /\ Len(headers) = state.last_block_height + 1
          /\ block.complete

\* The sealed outputs of every committed transaction are in the server's
\* storage, durably: what an Ok reply to CommitBlock says.
CommittedTxsPersisted ==
  \A t \in bodies : HasOutputs(t) => t \in txdb_disk

\* Committed outputs are persisted and delivered ones can be looked up, as long
\* as the server restarts only while no block is being delivered.
CommittedTxsSealed ==
  /\ CommittedTxsPersisted
  /\ \A t \in Delivered : HasOutputs(t) => t \in txdb

\* The emitted filter holds the staking addresses and view keys of exactly the
\* block it is emitted for, also when the block is replayed after a crash.
FilterOfThisBlock ==
  phase = "ended" =>
    response.block_filter =
      {Tx[t].address : t \in {s \in Delivered : Tx[s].kind # "TransferTx"}}
        \cup UNION {Tx[t].allowed_view : t \in {s \in Delivered : HasOutputs(s)}}

\* What is committed stays committed: no block, not even a replayed one,
\* removes a transaction, frees a spent output or changes an app hash that was
\* returned for an earlier height.
CommittedForever ==
  [][/\ bodies \subseteq bodies'
     /\ \A id \in TxId : tx_meta[id].spent \subseteq tx_meta'[id].spent
     /\ \A h \in DOMAIN app_states : h \in DOMAIN app_states' /\ app_states'[h] = app_states[h]]_vars

-----------------------------------------------------------------------------
(* Queries (app/query.rs) and what they can be answered from *)

\* The height "store" proves against: 0 or a future height is the last one.
QueryHeight(height) ==
  IF height = 0 \/ height > last_state.last_block_height
  THEN last_state.last_block_height ELSE height

\* A "store" query with proof unwraps the app hash of the height and the
\* transaction tree of that hash.
QueryPanics(id, height) ==
  /\ id \in bodies
  /\ Tx[id].kind # "DepositStakeTx"    \* answered "witness not found"
  /\ ~ /\ QueryHeight(height) \in DOMAIN app_states
       /\ app_states[QueryHeight(height)] \in merkle_proofs

\* Except between EndBlock and Commit, a committed transaction can be proved:
\* some height's tree holds it, and a query at that height, at any later one or
\* at the default height finds the entries it unwraps.
ProofServable ==
  phase \in {"idle", "deliver"} =>
    \A id \in bodies :
      /\ ~ QueryPanics(id, 0)
      /\ \E h \in DOMAIN app_states :
           /\ \E k \in DOMAIN app_states[h].txs : app_states[h].txs[k] = id
           /\ \A g \in h .. Len(headers) : ~ QueryPanics(id, g)

\* A committed transaction can be queried with proof whenever the node runs, as
\* the test query_should_return_proof_for_committed_tx expects.
ProofAlwaysServable == Running => \A id \in bodies : ~ QueryPanics(id, 0)

-----------------------------------------------------------------------------
(* Stake and time *)

\* The transactions height h really committed (an empty block repeats a hash).
TxsAt(h) == IF app_states[h].pool.last_block_height = h
            THEN {app_states[h].txs[k] : k \in DOMAIN app_states[h].txs} ELSE {}

\* Stake does not leave an account before the unbonding period after every
\* earlier unbonding of that account has passed, measured by header times.
UnbondingPeriodHeld ==
  \A g, h \in DOMAIN app_states : g < h =>
    \A u \in TxsAt(g), w \in TxsAt(h) :
      /\ Tx[u].kind = "UnbondStakeTx"
      /\ Tx[w].kind = "WithdrawUnbondedStakeTx"
      /\ Tx[u].address = Tx[w].address
      => headers[g] + unbonding_period <= headers[h]

PowerBacked(a) ==
  validator_voting_power[a] <= TendermintVotePower(last_state.last_account_root_hash[a].bonded)

\* The voting power the node has announced for a council node is never more
\* than the bonded stake backs, also when "multiple transactions/events may have
\* cancelled out the vote power change" inside a block.
PowerBackedByStake ==
  phase = "idle" => \A a \in DOMAIN validator_voting_power : PowerBacked(a)

\* The same for a council node no block has changed the account of twice.
PowerBackedAfterSingleChanges ==
  phase = "idle" =>
    \A a \in DOMAIN validator_voting_power :
      \/ PowerBacked(a)
      \/ \E h \in DOMAIN app_states : \E s, t \in TxsAt(h) :
           /\ s # t
           /\ \A u \in {s, t} : Tx[u].kind # "TransferTx" /\ Tx[u].address = a

\* Tendermint gives voting power only to council nodes with the required stake
\* ("amount required to be bonded in validator-associated accounts").
ValidatorsBondRequiredStake ==
  phase = "idle" =>
    \A a \in DOMAIN tm_power :
      tm_power[a] > 0 =>
        last_state.last_account_root_hash[a].bonded >= required_council_node_stake

\* Transactions are validated against the "time in the previous committed block".
PreviousBlockTime ==
  phase \in {"deliver", "ended"} => last_state.block_time = HeaderTime(Len(headers) - 1)

-----------------------------------------------------------------------------
(* Recovery *)

\* A stopped node can be started again from its storage: the last app hash it
\* recovers is one the validation server agrees with.
RestartRecovers ==
  phase = "down" => CheckChain(chain_hex_id, StoredHash)

\* The same once the validation server has committed a block.
RestartRecoversAfterCommit ==
  last_apphash # {} => RestartRecovers
=============================================================================
