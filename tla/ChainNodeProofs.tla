-------------------------- MODULE ChainNodeProofs ---------------------------
(***************************************************************************)
(* Theorems about ChainNode for every choice of its constants: any set of  *)
(* addresses and transactions, any genesis, any bound on the blocks.       *)
(*                                                                         *)
(* Types come first, then the spends: SpendInvariant is inductive, so no   *)
(* output is ever spent twice.  The bit vectors alone do not carry that    *)
(* induction.  A transaction that was committed a second time would reset  *)
(* the vector of its own outputs, so the invariant also says that none is: *)
(* a transfer or a deposit has an input whose bit is set, and the nonce of *)
(* an unbonding or a withdrawal is used up in the account map of every     *)
(* state the node goes on from.                                            *)
(***************************************************************************)
EXTENDS ChainNode, WellFoundedInduction, TLAPS

-----------------------------------------------------------------------------
(* Types *)

\* Voting power is a natural number of whole units.
LEMMA VotePowerType ==
  ASSUME NEW coin \in Nat
  PROVE  TendermintVotePower(coin) \in Nat
BY GenesisAssumption DEF TendermintVotePower

\* BTreeMap::insert on a map of voting powers.
LEMMA InsertPowerType ==
  ASSUME NEW f, IsPowerMap(f), NEW a \in council_nodes, NEW v \in Nat
  PROVE  IsPowerMap(Insert(f, a, v))
BY DEF IsPowerMap, Insert

LEMMA NoPowerType == IsPowerMap(NoPower)
BY DEF IsPowerMap, NoPower

\* The constants a node starts from have their types.
LEMMA GenesisTypes ==
  /\ genesis_state \in ChainNodeState
  /\ genesis_app_hash \in AppHash
  /\ ZeroRoot \in Root
  /\ NoBuffer \in [TxId -> Meta]
<1>1. genesis_pool \in RewardsPool
  BY GenesisAssumption DEF genesis_pool, RewardsPool
<1>2. genesis_app_hash \in AppHash
  BY <1>1, GenesisAssumption DEF genesis_app_hash, compute_app_hash, AppHash
<1>3. genesis_state \in ChainNodeState
  BY <1>1, <1>2, GenesisAssumption DEF genesis_state, ChainNodeState
<1>4. NoAccount \in StakedState
  BY CoinAssumption DEF NoAccount, StakedState, Coin
<1>5. ZeroRoot \in Root
  BY <1>4 DEF ZeroRoot, Root
<1>6. NoBuffer \in [TxId -> Meta]
  BY DEF NoBuffer, NoMeta, Meta
<1> QED
  BY <1>2, <1>3, <1>5, <1>6

\* The three account updates keep the type of an account when the amounts fit.
LEMMA DepositType ==
  ASSUME NEW account \in StakedState, NEW amount,
         deposit(account, amount).bonded \in Coin
  PROVE  deposit(account, amount) \in StakedState
<1> DEFINE n == account.nonce + 1
           b == account.bonded + amount
<1>1. n \in Nat /\ b \in Coin
  BY DEF deposit, StakedState
<1>2. deposit(account, amount) = [account EXCEPT !.nonce = n, !.bonded = b]
  BY DEF deposit
<1> HIDE DEF n, b
<1> QED
  BY <1>1, <1>2, Zenon DEF StakedState

LEMMA UnbondType ==
  ASSUME NEW account \in StakedState, NEW amount, NEW fee, NEW from \in Nat,
         unbond(account, amount, fee, from).bonded \in Coin,
         unbond(account, amount, fee, from).unbonded \in Coin
  PROVE  unbond(account, amount, fee, from) \in StakedState
<1> DEFINE n == account.nonce + 1
           b == account.bonded - amount - fee
           u == account.unbonded + amount
<1>1. n \in Nat /\ b \in Coin /\ u \in Coin
  BY DEF unbond, StakedState
<1>2. unbond(account, amount, fee, from) =
        [account EXCEPT !.nonce = n, !.unbonded_from = from, !.bonded = b, !.unbonded = u]
  BY DEF unbond
<1> HIDE DEF n, b, u
<1> QED
  BY <1>1, <1>2, Zenon DEF StakedState

LEMMA WithdrawType ==
  ASSUME NEW account \in StakedState
  PROVE  withdraw(account) \in StakedState
<1> DEFINE n == account.nonce + 1
<1>1. n \in Nat /\ 0 \in Coin
  BY CoinAssumption DEF StakedState, Coin
<1>2. withdraw(account) = [account EXCEPT !.nonce = n, !.unbonded = 0]
  BY DEF withdraw
<1> HIDE DEF n
<1> QED
  BY <1>1, <1>2, Zenon DEF StakedState

\* A transaction whose Coin additions succeed leaves a well-typed account.
LEMMA NewAccountType ==
  ASSUME TypeOK, NEW id \in TxId, CoinsFit(Tx[id])
  PROVE  NewAccount(Tx[id]) \in StakedState
<1> DEFINE tx == Tx[id]
           account == AccountOf(tx)
<1>1. tx \in TxAux
  BY TxAssumption
<1>2. account \in StakedState
  BY <1>1 DEF TypeOK, Root, AccountOf, get_account, TxAux
<1>3. /\ Info(tx).previous_block_time \in Nat
      /\ Info(tx).unbonding_period \in Nat
  BY GenesisAssumption DEF TypeOK, ChainNodeState, Info
<1>4. /\ UpdatedAccount(tx, Info(tx), account).bonded \in Coin
      /\ UpdatedAccount(tx, Info(tx), account).unbonded \in Coin
  BY DEF CoinsFit, NewAccount
<1> SUFFICES UpdatedAccount(tx, Info(tx), account) \in StakedState
  BY DEF NewAccount
<1> HIDE DEF tx, account
<1>5. CASE tx.kind = "DepositStakeTx" /\ account.exists
  BY <1>2, <1>4, <1>5, DepositType DEF UpdatedAccount, bonded_deposit_account
<1>6. CASE tx.kind = "DepositStakeTx" /\ ~ account.exists
  BY <1>2, <1>3, <1>4, <1>6 DEF UpdatedAccount, bonded_deposit_account, new_init, StakedState
<1>7. CASE tx.kind = "UnbondStakeTx"
  <2>1. Info(tx).previous_block_time + Info(tx).unbonding_period \in Nat
    BY <1>3
  <2> QED
    BY <2>1, <1>2, <1>4, <1>7, UnbondType DEF UpdatedAccount, unbonding_account
<1>8. CASE tx.kind = "WithdrawUnbondedStakeTx"
  BY <1>2, <1>8, WithdrawType DEF UpdatedAccount
<1>9. CASE tx.kind = "TransferTx"
  BY <1>2, <1>9 DEF UpdatedAccount
<1> QED
  BY <1>1, <1>5, <1>6, <1>7, <1>8, <1>9 DEF TxAux, Kind

\* What a valid transaction does to the voting powers keeps them a power map.
LEMMA PowerChangeType ==
  ASSUME TypeOK, NEW id \in TxId, CoinsFit(Tx[id])
  PROVE  IsPowerMap(power_change(Tx[id]))
<1> DEFINE new_power == TendermintVotePower(NewAccount(Tx[id]).bonded)
<1>1. new_power \in Nat
  BY VotePowerType, NewAccountType, CoinAssumption DEF StakedState, Coin
<1>2. IsPowerMap(power_changed_in_block) /\ IsPowerMap(validator_voting_power)
  BY DEF TypeOK
<1>3. ASSUME Tx[id].address \in DOMAIN validator_voting_power
      PROVE  /\ IsPowerMap(Insert(power_changed_in_block, Tx[id].address, new_power))
             /\ IsPowerMap(Insert(power_changed_in_block, Tx[id].address, 0))
  <2>1. Tx[id].address \in council_nodes
    BY <1>2, <1>3 DEF IsPowerMap
  <2> HIDE DEF new_power
  <2> QED
    BY <1>1, <1>2, <2>1, InsertPowerType
<1> QED
  BY <1>2, <1>3 DEF power_change

\* The ChainNodeState DeliverTx leaves: only the pool's coins change.
LEMMA DeliveredStateType ==
  ASSUME TypeOK, NEW r \in Coin
  PROVE  [last_state EXCEPT !.rewards_pool.remaining = r] \in ChainNodeState
<1>1. last_state \in ChainNodeState
  BY DEF TypeOK
<1>2. [last_state.rewards_pool EXCEPT !.remaining = r] \in RewardsPool
  BY <1>1 DEF ChainNodeState, RewardsPool
<1>3. [last_state EXCEPT !.rewards_pool.remaining = r] =
        [last_state EXCEPT !.rewards_pool = [last_state.rewards_pool EXCEPT !.remaining = r]]
  BY <1>1 DEF ChainNodeState
<1> QED
  BY <1>1, <1>2, <1>3 DEF ChainNodeState

LEMMA CommittedStateType ==
  ASSUME TypeOK
  PROVE  CommittedState \in ChainNodeState
<1> DEFINE pool == [last_state.rewards_pool EXCEPT
                      !.last_block_height = last_state.last_block_height]
           root == uncommitted_account_root_hash
           hash == compute_app_hash(delivered_txs, root, pool)
<1>1. last_state \in ChainNodeState /\ root \in Root
  BY DEF TypeOK
<1>2. pool \in RewardsPool
  BY <1>1 DEF ChainNodeState, RewardsPool
<1>3. hash \in AppHash
  BY <1>1, <1>2 DEF compute_app_hash, AppHash, TypeOK
<1>4. CommittedState = IF delivered_txs = <<>> THEN last_state
                       ELSE [last_state EXCEPT !.rewards_pool = pool,
                                               !.last_account_root_hash = root,
                                               !.last_apphash = hash]
  BY DEF CommittedState
<1> HIDE DEF pool, root, hash
<1> QED
  BY <1>1, <1>2, <1>3, <1>4, Zenon DEF ChainNodeState

\* What a transaction spends are pointers to transaction outputs.
LEMMA SpendsType ==
  ASSUME NEW t \in TxId, NEW txin \in Spends(Tx[t])
  PROVE  txin \in TxoPointer
<1>1. Tx[t].inputs \in Seq(TxoPointer)
  BY TxAssumption DEF TxAux
<1>2. PICK k \in DOMAIN Tx[t].inputs : txin = Tx[t].inputs[k]
  BY DEF Spends
<1> QED
  BY <1>1, <1>2

\* Every bit vector spend_utxos writes is one.
LEMMA SpendType ==
  ASSUME TypeOK, NEW t \in TxId, NEW id \in TxId
  PROVE  spend_utxos(Tx[t], id) \in Meta
<1>1. \A txin \in Spends(Tx[t]) : txin.index \in Nat
  BY SpendsType DEF TxoPointer
<1>2. GetMeta(id).spent \subseteq Nat
  BY DEF TypeOK, GetMeta, Meta
<1> QED
  BY <1>1, <1>2 DEF spend_utxos, Meta

\* Finitely many writers have a last one: the put that wins in the batch.
LEMMA LastExists ==
  ASSUME NEW n \in Nat, NEW S \in SUBSET (1 .. n), S # {}
  PROVE  \E k \in S : \A j \in S : j <= k
<1> DEFINE D == {n - k : k \in S}
<1>1. D \subseteq Nat /\ D # {}
  <2>1. \A k \in S : n - k \in Nat
    OBVIOUS
  <2>2. PICK k \in S : TRUE
    BY Zenon
  <2>3. n - k \in D
    BY <2>2
  <2> QED
    BY <2>1, <2>3
<1>2. \E x \in D : \A y \in D : ~ (<<y, x>> \in OpToRel(<, Nat))
  BY <1>1, NatLessThanWellFounded, WFMin, Zenon
<1>3. PICK x \in D : \A y \in D : ~ (y < x)
  BY <1>1, <1>2, Zenon DEF OpToRel
<1>4. PICK k \in S : x = n - k
  BY <1>3
<1>5. \A j \in S : ~ (n - j < n - k)
  BY <1>3, <1>4
<1> QED
  BY <1>5

\* What Commit stores for a written key is what one of its writers puts.
LEMMA CommitPut ==
  ASSUME TypeOK, NEW id \in TxId, MetaWriters(id) # {}
  PROVE  \E k \in MetaWriters(id) : update_utxos_commit(id) = MetaPut(k, id)
<1>1. MetaWriters(id) \in SUBSET (1 .. Len(delivered_txs)) /\ Len(delivered_txs) \in Nat
  BY DEF MetaWriters, TypeOK
<1>2. \E k \in MetaWriters(id) : \A j \in MetaWriters(id) : j <= k
  BY <1>1, LastExists, Zenon
<1> DEFINE last == CHOOSE k \in MetaWriters(id) : \A j \in MetaWriters(id) : j <= k
<1>3. last \in MetaWriters(id)
  BY <1>2
<1> QED
  BY <1>3, Zenon DEF update_utxos_commit

LEMMA CommitMetaType ==
  ASSUME TypeOK, NEW id \in TxId
  PROVE  update_utxos_commit(id) \in Meta
<1>1. CASE MetaWriters(id) = {}
  BY <1>1 DEF update_utxos_commit, TypeOK
<1>2. CASE MetaWriters(id) # {}
  <2>1. PICK k \in MetaWriters(id) : update_utxos_commit(id) = MetaPut(k, id)
    BY <1>2, CommitPut
  <2>2. delivered_txs[k] \in TxId
    BY DEF MetaWriters, TypeOK
  <2>3. spend_utxos(Tx[delivered_txs[k]], id) \in Meta
    BY <2>2, SpendType
  <2>4. [present |-> TRUE, spent |-> {}] \in Meta
    BY DEF Meta
  <2> QED
    BY <2>1, <2>3, <2>4 DEF MetaPut
<1> QED
  BY <1>1, <1>2

LEMMA InitType == Init => TypeOK
<1> SUFFICES ASSUME Init PROVE TypeOK
  OBVIOUS
<1>1. IsPowerMap(NoPower)
  BY NoPowerType
<1>2. NoResponse = [validator_updates |-> NoPower, block_filter |-> {}]
  BY DEF NoResponse
<1> QED
  BY <1>1, <1>2, GenesisTypes DEF Init, ServerInit, TypeOK, Phase

LEMMA NewWithStorageType ==
  TypeOK /\ NewWithStorage => TypeOK'
<1> SUFFICES ASSUME TypeOK, NewWithStorage PROVE TypeOK'
  OBVIOUS
<1>1. CASE phase' = "fresh" /\ UNCHANGED memVars
  BY <1>1 DEF NewWithStorage, memVars, dbVars, tmVars, serverVars, TypeOK, Phase, IsPowerMap
<1>2. ASSUME NEW state \in stored_state,
             phase' = "idle",
             last_state' = state,
             uncommitted_account_root_hash' = state.last_account_root_hash,
             validator_voting_power' = get_validator_mapping(state),
             UNCHANGED <<delivered_txs, filter, power_changed_in_block, overlay>>
      PROVE  TypeOK'
  <2>1. state \in ChainNodeState
    BY DEF TypeOK
  <2>2. \A a \in council_nodes : state.last_account_root_hash[a].bonded \in Nat
    BY <2>1, GenesisAssumption, CoinAssumption DEF ChainNodeState, Root, StakedState, Coin
  <2>3. IsPowerMap(get_validator_mapping(state))
    BY <2>2, VotePowerType DEF get_validator_mapping, IsPowerMap
  <2>4. state.last_account_root_hash \in Root
    BY <2>1 DEF ChainNodeState
  <2> QED
    BY <1>2, <2>1, <2>3, <2>4
    DEF NewWithStorage, dbVars, tmVars, serverVars, TypeOK, Phase, IsPowerMap
<1> QED
  BY <1>1, <1>2 DEF NewWithStorage

LEMMA InitChainType ==
  TypeOK /\ InitChain => TypeOK'
<1> SUFFICES ASSUME TypeOK, InitChain PROVE TypeOK'
  OBVIOUS
<1> DEFINE power == [a \in council_nodes |->
             TendermintVotePower(genesis_accounts[a].bonded + genesis_accounts[a].unbonded)]
<1>1. \A a \in council_nodes : genesis_accounts[a].bonded + genesis_accounts[a].unbonded \in Nat
  BY GenesisAssumption, CoinAssumption DEF Root, StakedState, Coin
<1>2. IsPowerMap(power)
  BY <1>1, VotePowerType DEF IsPowerMap
<1> QED
  BY <1>2, GenesisTypes, GenesisAssumption, Zenon
  DEF InitChain, insert, serverVars, TypeOK, Phase, IsPowerMap

LEMMA BeginBlockType ==
  TypeOK /\ BeginBlock => TypeOK'
<1> SUFFICES ASSUME TypeOK, BeginBlock PROVE TypeOK'
  OBVIOUS
<1>1. /\ headers' \in Seq(Nat)
      /\ headers'[Len(headers')] \in Nat
      /\ block' \in [txs : Seq(TxId), complete : BOOLEAN]
  <2>1. CASE /\ \E time \in (HeaderTime(Len(headers)) + 1) .. MaxTime :
                  headers' = Append(headers, time)
             /\ block' = [txs |-> <<>>, complete |-> FALSE]
    <3>1. HeaderTime(Len(headers)) \in Nat
      <4>1. headers \in Seq(Nat) /\ genesis_time \in Nat
        BY GenesisAssumption DEF TypeOK
      <4> QED
        BY <4>1 DEF HeaderTime
    <3>2. PICK time \in Nat : headers' = Append(headers, time)
      BY <2>1, <3>1, GenesisAssumption
    <3> QED
      BY <2>1, <3>2 DEF TypeOK
  <2>2. CASE /\ Len(headers) = last_state.last_block_height + 1
             /\ UNCHANGED <<headers, block>>
    BY <2>2 DEF TypeOK, ChainNodeState
  <2> QED
    BY <2>1, <2>2 DEF BeginBlock
<1>2. last_state' \in ChainNodeState
  BY <1>1, Zenon DEF BeginBlock, TypeOK, ChainNodeState
<1> QED
  BY <1>1, <1>2 DEF BeginBlock, dbVars, serverVars, TypeOK, Phase, IsPowerMap

\* The server keeps its types over every request of validate_tx_req.
LEMMA ValidateType ==
  ASSUME TypeOK, NEW id \in TxId, validate_tx_req(id)
  PROVE  txdb' \subseteq TxId /\ txdb_disk' \subseteq TxId /\ last_apphash' \subseteq AppHash
BY DEF validate_tx_req, InsertSealed, serverVars, TypeOK

LEMMA DeliverTxType ==
  ASSUME TypeOK, NEW id \in TxId, DeliverTx(id)
  PROVE  TypeOK'
<1>1. txdb' \subseteq TxId /\ txdb_disk' \subseteq TxId /\ last_apphash' \subseteq AppHash
  BY ValidateType DEF DeliverTx
<1>2. block' \in [txs : Seq(TxId), complete : BOOLEAN] /\ cursor' \in Nat
  <2>1. block \in [txs : Seq(TxId), complete : BOOLEAN] /\ cursor \in Nat
    BY DEF TypeOK
  <2>2. Append(block.txs, id) \in Seq(TxId)
    BY <2>1
  <2>3. block' = block \/ block' = [block EXCEPT !.txs = Append(block.txs, id)]
    BY DEF DeliverTx, NextOfBlock
  <2>4. cursor' = cursor + 1
    BY DEF DeliverTx, NextOfBlock
  <2>5. cursor' \in Nat
    BY <2>1, <2>4
  <2>6. CASE block' = block
    BY <2>1, <2>5, <2>6
  <2>7. CASE block' = [block EXCEPT !.txs = Append(block.txs, id)]
    <3> DEFINE txs == Append(block.txs, id)
    <3>1. txs \in Seq(TxId)
      BY <2>2
    <3> HIDE DEF txs
    <3>2. [block EXCEPT !.txs = txs] \in [txs : Seq(TxId), complete : BOOLEAN]
      BY <2>1, <3>1
    <3> QED
      BY <2>5, <2>7, <3>2 DEF txs
  <2> QED
    BY <2>3, <2>6, <2>7
<1>3. CASE DeliverInvalid(id)
  BY <1>1, <1>2, <1>3 DEF DeliverTx, DeliverInvalid, dbVars, TypeOK, IsPowerMap
<1>4. CASE DeliverValid(id)
  <2>1. CoinsFit(Tx[id])
    BY <1>4 DEF DeliverValid
  <2>2. last_state' \in ChainNodeState
    BY <1>4, <2>1, DeliveredStateType DEF DeliverValid, CoinsFit
  <2>3. IsPowerMap(power_changed_in_block')
    BY <1>4, <2>1, PowerChangeType DEF DeliverValid
  <2>4. overlay' \in [TxId -> Meta]
    BY <1>4, SpendType DEF DeliverValid, write_buffered, TypeOK
  <2>5. delivered_txs' \in Seq(TxId)
    BY <1>4 DEF DeliverValid, TypeOK
  <2>6. update_account(Tx[id]) \in Root /\ Tx[id].address \in Address
    BY <2>1, NewAccountType, TxAssumption DEF update_account, TypeOK, Root, TxAux
  <2>7. /\ uncommitted_account_root_hash' \in Root
        /\ account_roots' \subseteq Root
        /\ filter' \subseteq Address \cup ViewKey
    BY <1>4, <2>6 DEF DeliverValid, insert, TypeOK
  <2> QED
    BY <1>1, <1>2, <2>2, <2>3, <2>4, <2>5, <2>7 DEF DeliverTx, dbVars, TypeOK, IsPowerMap
<1> QED
  BY <1>3, <1>4 DEF DeliverTx

LEMMA EndBlockType ==
  TypeOK /\ EndBlock => TypeOK'
<1> SUFFICES ASSUME TypeOK, EndBlock PROVE TypeOK'
  OBVIOUS
<1>1. IsPowerMap(power_changed_in_block) /\ IsPowerMap(validator_voting_power)
  BY DEF TypeOK
<1>2. IsPowerMap(response'.validator_updates)
  BY <1>1 DEF EndBlock, IsPowerMap
<1>3. IsPowerMap(validator_voting_power')
  BY <1>1 DEF EndBlock, IsPowerMap
<1>4. EmittedFilter \subseteq Address \cup ViewKey
  <2>1. \A k \in DOMAIN delivered_txs : Tx[delivered_txs[k]].allowed_view \subseteq ViewKey
    BY TxAssumption DEF TypeOK, TxAux
  <2> QED
    BY <2>1 DEF EmittedFilter, TypeOK
<1>5. last_state' \in ChainNodeState
  <2>1. last_state \in ChainNodeState /\ Len(headers) \in Nat
    BY DEF TypeOK
  <2>2. last_state' = [last_state EXCEPT !.last_block_height = Len(headers)]
    BY DEF EndBlock
  <2> QED
    BY <2>1, <2>2 DEF ChainNodeState
<1>6. /\ response' = [validator_updates |-> response'.validator_updates,
                      block_filter |-> response'.block_filter]
      /\ response'.block_filter = EmittedFilter
  BY DEF EndBlock
<1> QED
  BY <1>2, <1>3, <1>4, <1>5, <1>6, NoPowerType, Zenon
  DEF EndBlock, dbVars, serverVars, TypeOK, Phase, IsPowerMap

LEMMA CommitRequestType ==
  ASSUME TypeOK, CommitRequest
  PROVE  txdb' \subseteq TxId /\ txdb_disk' \subseteq TxId /\ last_apphash' \subseteq AppHash
BY CommittedStateType DEF CommitRequest, CommitBlock, serverVars, TypeOK, ChainNodeState

LEMMA CommitType ==
  TypeOK /\ Commit => TypeOK'
<1> SUFFICES ASSUME TypeOK, Commit PROVE TypeOK'
  OBVIOUS
<1>1. txdb' \subseteq TxId /\ txdb_disk' \subseteq TxId /\ last_apphash' \subseteq AppHash
  BY CommitRequestType DEF Commit
<1>2. /\ CommittedState \in ChainNodeState
      /\ CommittedState.last_block_height \in Nat
      /\ CommittedState.last_apphash \in AppHash
  BY CommittedStateType DEF ChainNodeState
<1>3. /\ app_states' \in [DOMAIN app_states' -> AppHash]
      /\ DOMAIN app_states' \subseteq Nat
  BY <1>2 DEF Commit, Insert, TypeOK
<1>4. merkle_proofs' \subseteq AppHash
  BY <1>2 DEF Commit, TypeOK
<1>5. tx_meta' \in [TxId -> Meta]
  BY CommitMetaType DEF Commit
<1>6. overlay' \in [TxId -> Meta]
  BY DEF Commit, TypeOK, NoMeta, Meta
<1>7. bodies' \subseteq TxId
  <2>1. {delivered_txs[k] : k \in DOMAIN delivered_txs} \subseteq TxId /\ bodies \subseteq TxId
    BY DEF TypeOK
  <2> QED
    BY <2>1 DEF Commit
<1>8. IsPowerMap(tm_power')
  BY DEF Commit, TypeOK, IsPowerMap
<1>9. /\ response' = [validator_updates |-> response'.validator_updates,
                      block_filter |-> response'.block_filter]
      /\ IsPowerMap(response'.validator_updates)
      /\ response'.block_filter = {}
  BY NoPowerType DEF Commit, NoResponse
<1>10. /\ phase' \in Phase
       /\ last_state' \in ChainNodeState
       /\ stored_state' \subseteq ChainNodeState
       /\ delivered_txs' \in Seq(TxId)
       /\ cursor' \in Nat
  <2>1. /\ phase' = "idle"
        /\ last_state' = CommittedState
        /\ stored_state' = {CommittedState}
        /\ delivered_txs' = <<>>
        /\ cursor' = 0
    BY DEF Commit
  <2> QED
    BY <1>2, <2>1 DEF Phase
<1>11. /\ uncommitted_account_root_hash' \in Root
       /\ filter' \subseteq Address \cup ViewKey
       /\ account_roots' \subseteq Root
       /\ headers' \in Seq(Nat)
       /\ block' \in [txs : Seq(TxId), complete : BOOLEAN]
  BY DEF Commit, TypeOK
<1>12. IsPowerMap(validator_voting_power') /\ IsPowerMap(power_changed_in_block')
  BY DEF Commit, TypeOK, IsPowerMap
<1> QED
  BY <1>1, <1>3, <1>4, <1>5, <1>6, <1>7, <1>8, <1>9, <1>10, <1>11, <1>12
  DEF TypeOK, IsPowerMap

\* What MemoryLost assigns has its type.
LEMMA MemoryLostType ==
  ASSUME MemoryLost, TypeOK,
         UNCHANGED <<dbVars, account_roots, headers, block, tm_power>>,
         txdb' \subseteq TxId, txdb_disk' \subseteq TxId, last_apphash' \subseteq AppHash
  PROVE  TypeOK'
<1>1. IsPowerMap(NoPower)
  BY NoPowerType
<1>2. NoResponse = [validator_updates |-> NoPower, block_filter |-> {}]
  BY DEF NoResponse
<1>3. IsPowerMap(tm_power')
  BY DEF TypeOK, IsPowerMap
<1>4. /\ phase' \in Phase
      /\ last_state' \in ChainNodeState
      /\ uncommitted_account_root_hash' \in Root
      /\ delivered_txs' \in Seq(TxId)
      /\ overlay' \in [TxId -> Meta]
      /\ cursor' \in Nat
  BY GenesisTypes DEF MemoryLost, Phase
<1>5. /\ filter' = {}
      /\ IsPowerMap(validator_voting_power')
      /\ IsPowerMap(power_changed_in_block')
      /\ response' = NoResponse
  BY <1>1 DEF MemoryLost, IsPowerMap
<1> QED
  BY <1>1, <1>2, <1>3, <1>4, <1>5 DEF dbVars, TypeOK

\* Every action keeps the types.
LEMMA NextType == TypeOK /\ [Next]_vars => TypeOK'
<1> SUFFICES ASSUME TypeOK, [Next]_vars PROVE TypeOK'
  OBVIOUS
<1>1. CASE NewWithStorage
  BY <1>1, NewWithStorageType
<1>2. CASE InitChain
  BY <1>2, InitChainType
<1>3. CASE BeginBlock
  BY <1>3, BeginBlockType
<1>4. ASSUME NEW id \in TxId, CheckTx(id) PROVE TypeOK'
  BY <1>4, ValidateType DEF CheckTx, memVars, dbVars, tmVars, TypeOK, IsPowerMap
<1>5. ASSUME NEW id \in TxId, DeliverTx(id) PROVE TypeOK'
  BY <1>5, DeliverTxType
<1>6. CASE EndBlock
  BY <1>6, EndBlockType
<1>7. CASE Commit
  BY <1>7, CommitType
<1>8. CASE Crash
  BY <1>8, MemoryLostType DEF Crash, serverVars, TypeOK
<1>9. CASE CrashInCommit
  BY <1>9, MemoryLostType, CommitRequestType DEF CrashInCommit
<1>10. CASE RestartServer
  BY <1>10 DEF RestartServer, ServerRestart, memVars, dbVars, tmVars, TypeOK, IsPowerMap
<1>11. CASE UNCHANGED vars
  BY <1>11 DEF vars, memVars, dbVars, tmVars, serverVars, TypeOK, IsPowerMap
<1> QED
  BY <1>1, <1>2, <1>3, <1>4, <1>5, <1>6, <1>7, <1>8, <1>9, <1>10, <1>11
  DEF Next, NewWithStoragePanics

\* Every reachable state is well typed: every coin amount in an account, in the
\* pool and in a stored state lies within MAX_COIN, whatever transactions are
\* delivered and wherever the node or the server stops.
THEOREM TypeCorrect == Spec => []TypeOK
BY InitType, NextType, PTL DEF Spec

-----------------------------------------------------------------------------
(* What the handlers do to the state in memory *)

LEMMA BeginState ==
  ASSUME TypeOK, BeginBlock
  PROVE  /\ last_state'.last_account_root_hash = last_state.last_account_root_hash
         /\ last_state'.last_apphash = last_state.last_apphash
         /\ last_state'.last_block_height = last_state.last_block_height
         /\ last_state'.rewards_pool = last_state.rewards_pool
BY DEF BeginBlock, TypeOK, ChainNodeState

LEMMA DeliverState ==
  ASSUME TypeOK, NEW id \in TxId, DeliverTx(id)
  PROVE  /\ last_state'.last_account_root_hash = last_state.last_account_root_hash
         /\ last_state'.last_apphash = last_state.last_apphash
         /\ last_state'.last_block_height = last_state.last_block_height
BY DEF DeliverTx, DeliverValid, DeliverInvalid, TypeOK, ChainNodeState

LEMMA EndState ==
  ASSUME TypeOK, EndBlock
  PROVE  /\ last_state'.last_account_root_hash = last_state.last_account_root_hash
         /\ last_state'.last_apphash = last_state.last_apphash
         /\ last_state'.last_block_height = Len(headers)
         /\ last_state'.rewards_pool = last_state.rewards_pool
BY DEF EndBlock, TypeOK, ChainNodeState

\* The height is the block's; an empty block keeps root and hash, another one
\* takes the root of the block and a hash that names its height.
LEMMA CommittedFields ==
  ASSUME TypeOK
  PROVE  /\ CommittedState.last_block_height = last_state.last_block_height
         /\ CommittedState.rewards_pool.remaining = last_state.rewards_pool.remaining
         /\ delivered_txs = <<>> => CommittedState = last_state
         /\ delivered_txs # <<>> =>
              /\ CommittedState.last_account_root_hash = uncommitted_account_root_hash
              /\ CommittedState.last_apphash.txs = delivered_txs
              /\ CommittedState.last_apphash.pool.last_block_height
                   = last_state.last_block_height
<1> DEFINE pool == [last_state.rewards_pool EXCEPT
                      !.last_block_height = last_state.last_block_height]
           hash == compute_app_hash(delivered_txs, uncommitted_account_root_hash, pool)
<1>1. last_state \in ChainNodeState /\ last_state.rewards_pool \in RewardsPool
  BY DEF TypeOK, ChainNodeState
<1>2. /\ pool.last_block_height = last_state.last_block_height
      /\ pool.remaining = last_state.rewards_pool.remaining
  BY <1>1 DEF RewardsPool
<1>3. hash.pool = pool /\ hash.txs = delivered_txs
  BY DEF compute_app_hash
<1>4. CommittedState = IF delivered_txs = <<>> THEN last_state
                       ELSE [last_state EXCEPT !.rewards_pool = pool,
                               !.last_account_root_hash = uncommitted_account_root_hash,
                               !.last_apphash = hash]
  BY DEF CommittedState
<1> HIDE DEF pool, hash
<1> QED
  BY <1>1, <1>2, <1>3, <1>4 DEF ChainNodeState

-----------------------------------------------------------------------------
(* What the transactions of the chain have spent *)

LEMMA SpentByMember ==
  ASSUME NEW txs, NEW id, NEW i
  PROVE  i \in SpentBy(txs, id) <=>
           \E t \in txs : \E txin \in Spends(Tx[t]) : txin.id = id /\ txin.index = i
BY DEF SpentBy

LEMMA SpentByUnion ==
  ASSUME NEW txs, NEW more, NEW id
  PROVE  SpentBy(txs \cup more, id) = SpentBy(txs, id) \cup SpentBy(more, id)
<1> SUFFICES ASSUME NEW i
             PROVE  i \in SpentBy(txs \cup more, id) <=>
                      i \in SpentBy(txs, id) \/ i \in SpentBy(more, id)
  BY Zenon
<1> QED
  BY SpentByMember

\* The fields of MetaOf, and an entry with those fields.
LEMMA MetaOfFields ==
  ASSUME NEW committed, NEW spenders, NEW id
  PROVE  /\ MetaOf(committed, spenders, id).present <=> id \in committed /\ HasOutputs(id)
         /\ MetaOf(committed, spenders, id).spent = SpentBy(spenders, id)
<1> DEFINE p == id \in committed /\ HasOutputs(id)
<1>1. MetaOf(committed, spenders, id) = [present |-> p, spent |-> SpentBy(spenders, id)]
  BY DEF MetaOf
<1> HIDE DEF p
<1>2. /\ MetaOf(committed, spenders, id).present = p
      /\ MetaOf(committed, spenders, id).spent = SpentBy(spenders, id)
  BY <1>1
<1> QED
  BY <1>2, Zenon DEF p

LEMMA MetaOfPresent ==
  ASSUME NEW committed, NEW spenders, NEW id, id \in committed, HasOutputs(id)
  PROVE  MetaOf(committed, spenders, id) = [present |-> TRUE, spent |-> SpentBy(spenders, id)]
<1> DEFINE p == id \in committed /\ HasOutputs(id)
<1>1. MetaOf(committed, spenders, id) = [present |-> p, spent |-> SpentBy(spenders, id)]
  BY DEF MetaOf
<1>2. p = TRUE
  BY DEF HasOutputs
<1> HIDE DEF p
<1> QED
  BY <1>1, <1>2

\* A pointer is determined by its transaction and its index.
LEMMA SamePointer ==
  ASSUME NEW a \in TxoPointer, NEW b \in TxoPointer, a.id = b.id, a.index = b.index
  PROVE  a = b
BY DEF TxoPointer

\* An output is marked spent when a transaction has it among its inputs.
LEMMA SpentPointer ==
  ASSUME NEW o \in TxoPointer, NEW txs \in SUBSET TxId
  PROVE  o.index \in SpentBy(txs, o.id) <=> \E t \in txs : o \in Spends(Tx[t])
<1>1. o.index \in SpentBy(txs, o.id) <=>
        \E t \in txs : \E txin \in Spends(Tx[t]) : txin.id = o.id /\ txin.index = o.index
  BY SpentByMember
<1>2. \A t \in txs : \A txin \in Spends(Tx[t]) : txin \in TxoPointer
  BY SpendsType
<1>3. \A t \in txs : \A txin \in Spends(Tx[t]) :
        txin.id = o.id /\ txin.index = o.index => txin = o
  BY <1>2, SamePointer
<1> QED
  BY <1>1, <1>3

\* The outputs a set of transactions has.
LEMMA OutputsMember ==
  ASSUME NEW txs \in SUBSET TxId, NEW o
  PROVE  o \in OutputsOf(txs) <=>
           /\ o \in TxoPointer
           /\ o.id \in txs
           /\ HasOutputs(o.id)
           /\ o.index < Len(Tx[o.id].outputs)
<1>1. \A t \in TxId : Len(Tx[t].outputs) \in Nat
  BY TxAssumption DEF TxAux
<1>2. ASSUME o \in OutputsOf(txs)
      PROVE  /\ o \in TxoPointer
             /\ o.id \in txs
             /\ HasOutputs(o.id)
             /\ o.index < Len(Tx[o.id].outputs)
  <2>1. PICK t \in txs : HasOutputs(t) /\ o \in [id : {t}, index : 0 .. Len(Tx[t].outputs) - 1]
    BY <1>2 DEF OutputsOf
  <2> QED
    BY <1>1, <2>1 DEF TxoPointer
<1>3. ASSUME o \in TxoPointer, o.id \in txs, HasOutputs(o.id), o.index < Len(Tx[o.id].outputs)
      PROVE  o \in OutputsOf(txs)
  <2>1. o \in [id : {o.id}, index : 0 .. Len(Tx[o.id].outputs) - 1]
    BY <1>1, <1>3 DEF TxoPointer
  <2> QED
    BY <1>3, <2>1 DEF OutputsOf
<1> QED
  BY <1>2, <1>3

LEMMA OutputsUnion ==
  ASSUME NEW txs \in SUBSET TxId, NEW more \in SUBSET TxId
  PROVE  OutputsOf(txs \cup more) = OutputsOf(txs) \cup OutputsOf(more)
<1>1. \A o : o \in OutputsOf(txs \cup more) <=> o \in OutputsOf(txs) \/ o \in OutputsOf(more)
  BY OutputsMember
<1> QED
  BY <1>1

\* Transactions with inputs that pass the lookup spend fresh, committed outputs.
LEMMA LookupFresh ==
  ASSUME TypeOK, SpentBitsExact, NEW id \in TxId,
         check_spent_input_lookup(Tx[id]), check_inputs(Tx[id], Info(Tx[id])),
         NEW txin \in Spends(Tx[id])
  PROVE  /\ txin.id \in bodies
         /\ HasOutputs(txin.id)
         /\ txin.index < Len(Tx[txin.id].outputs)
         /\ \A t \in Chain : txin \notin Spends(Tx[t])
<1>1. PICK k \in DOMAIN Tx[id].inputs : txin = Tx[id].inputs[k]
  BY DEF Spends
<1>2. txin \in TxoPointer
  BY SpendsType
<1>3. GetMeta(txin.id).present /\ txin.index \notin GetMeta(txin.id).spent
  BY <1>1 DEF check_spent_input_lookup
<1>4. GetMeta(txin.id) = MetaOf(bodies, Chain, txin.id)
  BY <1>2 DEF SpentBitsExact, TxoPointer
<1>5. txin.index < Len(Tx[txin.id].outputs)
  BY <1>1 DEF check_inputs
<1>6. txin.index \notin SpentBy(Chain, txin.id)
  BY <1>3, <1>4, MetaOfFields
<1>7. txin.id \in bodies /\ HasOutputs(txin.id)
  BY <1>3, <1>4, MetaOfFields
<1>8. \A t \in Chain : txin \notin Spends(Tx[t])
  BY <1>6, SpentByMember
<1> QED
  BY <1>5, <1>7, <1>8

\* A transaction that verifies is not in the chain yet, and its inputs are fresh.
LEMMA VerifiedFresh ==
  ASSUME TypeOK, SpendInvariant, Running, NEW id \in TxId, verify(id)
  PROVE  /\ id \notin Chain
         /\ \A txin \in Spends(Tx[id]) :
              /\ txin.id \in bodies
              /\ HasOutputs(txin.id)
              /\ txin.index < Len(Tx[txin.id].outputs)
              /\ \A t \in Chain : txin \notin Spends(Tx[t])
<1>1. Tx[id].kind \in Kind /\ Tx[id].inputs \in Seq(TxoPointer) /\ Tx[id].address \in Address
  BY TxAssumption DEF TxAux
<1>2. CASE Tx[id].kind \in {"TransferTx", "DepositStakeTx"}
  <2>1. check_spent_input_lookup(Tx[id]) /\ check_inputs(Tx[id], Info(Tx[id]))
    BY <1>2, Zenon DEF verify, VerifyTx, verify_transfer, verify_bonded_deposit_core
  <2>2. 1 \in DOMAIN Tx[id].inputs
    <3>1. Tx[id].inputs # <<>>
      BY <2>1 DEF check_spent_input_lookup
    <3> QED
      BY <1>1, <3>1
  <2>3. Tx[id].inputs[1] \in Spends(Tx[id])
    BY <1>2, <2>2 DEF Spends
  <2> QED
    BY <2>1, <2>3, LookupFresh DEF SpendInvariant
<1>3. CASE Tx[id].kind \in {"UnbondStakeTx", "WithdrawUnbondedStakeTx"}
  <2>1. Tx[id].nonce = uncommitted_account_root_hash[Tx[id].address].nonce
    BY <1>3, Zenon DEF verify, VerifyTx, verify_unbonding, verify_unbonded_withdraw_core,
                AccountOf, get_account
  <2>2. uncommitted_account_root_hash[Tx[id].address].nonce \in Nat
    BY <1>1 DEF TypeOK, Root, StakedState
  <2>3. id \notin Chain
    <3>1. SUFFICES ASSUME id \in Chain PROVE FALSE
      OBVIOUS
    <3>2. NonceUsed(id, uncommitted_account_root_hash)
      BY <3>1 DEF SpendInvariant, NoncesUsed
    <3>3. Tx[id].nonce < uncommitted_account_root_hash[Tx[id].address].nonce
      BY <1>3, <3>2 DEF NonceUsed
    <3> QED
      BY <2>1, <2>2, <3>3
  <2>4. Spends(Tx[id]) = {}
    BY <1>3 DEF Spends
  <2> QED
    BY <2>3, <2>4
<1> QED
  BY <1>1, <1>2, <1>3 DEF Kind

-----------------------------------------------------------------------------
(* DeliverTx *)

LEMMA DeliverChain ==
  ASSUME TypeOK, NEW id \in TxId, DeliverTx(id), DeliverValid(id)
  PROVE  /\ delivered_txs' = Append(delivered_txs, id)
         /\ Delivered' = Delivered \cup {id}
         /\ bodies' = bodies
         /\ Chain' = Chain \cup {id}
<1>1. delivered_txs' = Append(delivered_txs, id) /\ delivered_txs \in Seq(TxId)
  BY DEF DeliverValid, TypeOK
<1>2. Delivered' = Delivered \cup {id}
  BY <1>1 DEF Delivered
<1> QED
  BY <1>1, <1>2 DEF Chain, DeliverTx, dbVars

\* The overlay keeps the lookup exact: the bits of the new transaction are
\* added to the vectors of its inputs, and no other vector changes.
LEMMA DeliverBits ==
  ASSUME TypeOK, SpendInvariant, Running, NEW id \in TxId, DeliverTx(id), DeliverValid(id)
  PROVE  SpentBitsExact'
<1>1. SpentBitsExact /\ verify(id)
  BY DEF SpendInvariant, DeliverValid
<1>2. bodies' = bodies /\ Chain' = Chain \cup {id} /\ tx_meta' = tx_meta
  BY DeliverChain DEF DeliverTx, dbVars
<1> SUFFICES ASSUME NEW i \in TxId
             PROVE  /\ tx_meta'[i] = MetaOf(bodies', bodies', i)
                    /\ GetMeta(i)' = MetaOf(bodies', Chain', i)
  BY DEF SpentBitsExact, MetaOf, SpentBy, HasOutputs, Spends
<1>3. tx_meta'[i] = MetaOf(bodies', bodies', i)
  BY <1>1, <1>2 DEF SpentBitsExact
<1>4. GetMeta(i) = MetaOf(bodies, Chain, i)
  BY <1>1 DEF SpentBitsExact
<1>5. SpentBy(Chain', i) = SpentBy(Chain, i) \cup SpentBy({id}, i)
  BY <1>2, SpentByUnion
<1>6. CASE \E txin \in Spends(Tx[id]) : txin.id = i
  <2>1. i \in bodies /\ HasOutputs(i)
    BY <1>1, <1>6, VerifiedFresh
  <2>2. overlay'[i] = spend_utxos(Tx[id], i)
    BY <1>6 DEF DeliverValid, write_buffered
  <2>3. GetMeta(i)' = spend_utxos(Tx[id], i)
    BY <2>2 DEF GetMeta, spend_utxos
  <2>4. SpentBy({id}, i) = {txin.index : txin \in {t \in Spends(Tx[id]) : t.id = i}}
    BY DEF SpentBy
  <2>5. GetMeta(i).spent = SpentBy(Chain, i)
    BY <1>4, MetaOfFields
  <2>6. spend_utxos(Tx[id], i) = [present |-> TRUE, spent |-> SpentBy(Chain', i)]
    BY <1>5, <2>4, <2>5, Zenon DEF spend_utxos
  <2> QED
    BY <1>2, <1>3, <2>1, <2>3, <2>6, MetaOfPresent, Zenon
<1>7. CASE ~ \E txin \in Spends(Tx[id]) : txin.id = i
  <2>1. overlay'[i] = overlay[i]
    BY <1>7 DEF DeliverValid, write_buffered
  <2>2. GetMeta(i)' = GetMeta(i)
    BY <1>2, <2>1 DEF GetMeta
  <2>3. SpentBy({id}, i) = {}
    BY <1>7, SpentByMember
  <2>4. SpentBy(Chain', i) = SpentBy(Chain, i)
    BY <1>5, <2>3
  <2> QED
    BY <1>2, <1>3, <1>4, <2>2, <2>4 DEF MetaOf
<1> QED
  BY <1>6, <1>7

\* Every staking transaction moves the nonce of an existing account on by one.
LEMMA NewAccountNonce ==
  ASSUME TypeOK, NEW id \in TxId, Tx[id].kind # "TransferTx", AccountOf(Tx[id]).exists
  PROVE  /\ NewAccount(Tx[id]).exists
         /\ NewAccount(Tx[id]).nonce = AccountOf(Tx[id]).nonce + 1
<1> DEFINE account == AccountOf(Tx[id])
<1>1. account \in StakedState
  BY TxAssumption DEF TypeOK, Root, AccountOf, get_account, TxAux
<1>2. Tx[id].kind \in Kind
  BY TxAssumption DEF TxAux
<1>3. NewAccount(Tx[id]) = UpdatedAccount(Tx[id], Info(Tx[id]), account)
  BY DEF NewAccount
<1> HIDE DEF account
<1>4. \A amount : /\ deposit(account, amount).exists = account.exists
                  /\ deposit(account, amount).nonce = account.nonce + 1
  BY <1>1 DEF deposit, StakedState
<1>5. \A amount, fee, from :
        /\ unbond(account, amount, fee, from).exists = account.exists
        /\ unbond(account, amount, fee, from).nonce = account.nonce + 1
  BY <1>1 DEF unbond, StakedState
<1>6. /\ withdraw(account).exists = account.exists
      /\ withdraw(account).nonce = account.nonce + 1
  BY <1>1 DEF withdraw, StakedState
<1>7. account.exists
  BY DEF account
<1>8. CASE Tx[id].kind = "DepositStakeTx"
  BY <1>3, <1>4, <1>7, <1>8, Zenon DEF UpdatedAccount, bonded_deposit_account, account
<1>9. CASE Tx[id].kind = "UnbondStakeTx"
  <2>1. \E amount, fee, from : NewAccount(Tx[id]) = unbond(account, amount, fee, from)
    BY <1>3, <1>9 DEF UpdatedAccount, unbonding_account
  <2> QED
    BY <1>5, <1>7, <2>1, Zenon DEF account
<1>10. CASE Tx[id].kind = "WithdrawUnbondedStakeTx"
  BY <1>3, <1>6, <1>7, <1>10, Zenon DEF UpdatedAccount, account
<1> QED
  BY <1>2, <1>8, <1>9, <1>10 DEF Kind

\* The nonces stay used up, and the delivered transaction uses up its own.
LEMMA DeliverNonces ==
  ASSUME TypeOK, SpendInvariant, Running, NEW id \in TxId, DeliverTx(id), DeliverValid(id)
  PROVE  NoncesUsed'
<1> DEFINE tx == Tx[id]
           old == uncommitted_account_root_hash
<1>1. /\ NoncesUsed /\ verify(id)
      /\ \A t \in Chain : NonceUsed(t, old)
      /\ \A t \in bodies : NonceUsed(t, last_state.last_account_root_hash)
  BY DEF SpendInvariant, NoncesUsed, DeliverValid
<1>2. bodies' = bodies /\ Chain' = Chain \cup {id} /\ stored_state' = stored_state
  BY DeliverChain DEF DeliverTx, dbVars
<1>3. last_state'.last_account_root_hash = last_state.last_account_root_hash
  BY DEF DeliverValid, TypeOK, ChainNodeState
<1>4. tx \in TxAux /\ old \in Root /\ Chain \subseteq TxId
  BY TxAssumption DEF TypeOK, Chain, Delivered
<1>5. \A t \in Chain' : NonceUsed(t, uncommitted_account_root_hash')
  <2>1. CASE tx.kind = "TransferTx"
    <3>1. uncommitted_account_root_hash' = old
      BY <2>1 DEF DeliverValid
    <3>2. NonceUsed(id, old)
      BY <2>1 DEF NonceUsed
    <3> QED
      BY <1>1, <1>2, <3>1, <3>2
  <2>2. CASE tx.kind # "TransferTx"
    <3>1. uncommitted_account_root_hash' = [old EXCEPT ![tx.address] = NewAccount(tx)]
      BY <2>2 DEF DeliverValid, update_account
    <3>2. old[tx.address] = AccountOf(tx) /\ AccountOf(tx).nonce \in Nat
      BY <1>4 DEF AccountOf, get_account, Root, StakedState, TxAux
    <3>3. AccountOf(tx).exists => /\ NewAccount(tx).exists
                                  /\ NewAccount(tx).nonce = AccountOf(tx).nonce + 1
      BY <2>2, NewAccountNonce
    <3>4. /\ uncommitted_account_root_hash'[tx.address] = NewAccount(tx)
          /\ \A a \in Address : a # tx.address => uncommitted_account_root_hash'[a] = old[a]
      BY <1>4, <3>1 DEF Root, TxAux
    <3>5. ASSUME NEW t \in Chain
          PROVE  NonceUsed(t, uncommitted_account_root_hash')
      <4>1. NonceUsed(t, old) /\ Tx[t].nonce \in Nat /\ Tx[t].address \in Address
        BY <1>1, <1>4, TxAssumption DEF TxAux
      <4> HIDE DEF tx, old
      <4>2. CASE Tx[t].address = tx.address
        <5>1. SUFFICES ASSUME Tx[t].kind \in {"UnbondStakeTx", "WithdrawUnbondedStakeTx"}
                       PROVE  /\ uncommitted_account_root_hash'[Tx[t].address].exists
                              /\ Tx[t].nonce < uncommitted_account_root_hash'[Tx[t].address].nonce
          BY DEF NonceUsed
        <5>2. AccountOf(tx).exists /\ Tx[t].nonce < AccountOf(tx).nonce
          BY <3>2, <4>1, <4>2, <5>1 DEF NonceUsed
        <5>3. NewAccount(tx).exists /\ Tx[t].nonce < NewAccount(tx).nonce
          BY <3>2, <3>3, <4>1, <5>2
        <5> QED
          BY <3>4, <4>2, <5>3
      <4>3. CASE Tx[t].address # tx.address
        BY <3>4, <4>1, <4>3 DEF NonceUsed
      <4> QED
        BY <4>2, <4>3
    <3>6. NonceUsed(id, uncommitted_account_root_hash')
      <4>1. CASE tx.kind \in {"UnbondStakeTx", "WithdrawUnbondedStakeTx"}
        <5>1. AccountOf(tx).exists /\ tx.nonce = AccountOf(tx).nonce
          BY <1>1, <4>1, Zenon DEF verify, VerifyTx, verify_unbonding, verify_unbonded_withdraw_core
        <5> HIDE DEF tx
        <5>2. NewAccount(tx).exists /\ tx.nonce < NewAccount(tx).nonce
          BY <3>2, <3>3, <5>1
        <5> USE DEF tx
        <5> QED
          BY <3>4, <5>2 DEF NonceUsed
      <4> QED
        BY <4>1 DEF NonceUsed
    <3> QED
      BY <1>2, <3>5, <3>6
  <2> QED
    BY <2>1, <2>2
<1> QED
  BY <1>1, <1>2, <1>3, <1>5, Zenon DEF NoncesUsed, NonceUsed

LEMMA DeliverValidSpends ==
  ASSUME TypeOK, SpendInvariant, NEW id \in TxId, DeliverTx(id), DeliverValid(id)
  PROVE  SpendInvariant'
<1>1. Running /\ phase' = phase /\ stored_state' = stored_state /\ verify(id)
  BY DEF Running, DeliverTx, DeliverValid, dbVars
<1>2. /\ delivered_txs' = Append(delivered_txs, id)
      /\ Delivered' = Delivered \cup {id}
      /\ bodies' = bodies
      /\ Chain' = Chain \cup {id}
  BY DeliverChain
<1>3. /\ id \notin Chain
      /\ \A txin \in Spends(Tx[id]) :
           /\ txin.id \in bodies
           /\ HasOutputs(txin.id)
           /\ txin.index < Len(Tx[txin.id].outputs)
           /\ \A t \in Chain : txin \notin Spends(Tx[t])
  BY <1>1, VerifiedFresh
<1>4. SpentBitsExact' /\ NoncesUsed'
  BY <1>1, DeliverBits, DeliverNonces
<1>5. NoDoubleSpend'
  BY <1>2, <1>3 DEF SpendInvariant, NoDoubleSpend
<1>6. TxDeliveredOnce'
  <2>1. delivered_txs \in Seq(TxId) /\ IsInjective(delivered_txs) /\ Delivered \cap bodies = {}
    BY DEF TypeOK, SpendInvariant, TxDeliveredOnce
  <2>2. \A k \in DOMAIN delivered_txs : delivered_txs[k] # id
    BY <1>3 DEF Chain, Delivered
  <2>3. IsInjective(Append(delivered_txs, id))
    BY <2>1, <2>2 DEF IsInjective
  <2> QED
    BY <1>2, <1>3, <2>1, <2>3 DEF TxDeliveredOnce, Chain
<1>7. InputsAreCommittedOutputs'
  BY <1>2, <1>3 DEF SpendInvariant, InputsAreCommittedOutputs
<1> QED
  BY <1>1, <1>2, <1>4, <1>5, <1>6, <1>7 DEF SpendInvariant, Running

-----------------------------------------------------------------------------
(* Steps that leave the chain alone *)

LEMMA SameSpends ==
  ASSUME SpendInvariant,
         UNCHANGED <<bodies, delivered_txs, overlay, tx_meta, stored_state,
                     uncommitted_account_root_hash>>,
         last_state'.last_account_root_hash = last_state.last_account_root_hash,
         Running' <=> Running,
         phase' = "fresh" => phase = "fresh"
  PROVE  SpendInvariant'
<1>1. Delivered' = Delivered /\ Chain' = Chain
  BY DEF Delivered, Chain
<1>2. NoDoubleSpend' /\ TxDeliveredOnce' /\ InputsAreCommittedOutputs'
  BY <1>1, Zenon DEF SpendInvariant, NoDoubleSpend, TxDeliveredOnce, InputsAreCommittedOutputs
<1>3. SpentBitsExact'
  BY <1>1 DEF SpendInvariant, SpentBitsExact, GetMeta
<1>4. NoncesUsed'
  BY <1>1 DEF SpendInvariant, NoncesUsed
<1> QED
  BY <1>2, <1>3, <1>4 DEF SpendInvariant

\* A start from storage: nothing is pending, and the recovered account map has
\* used up the nonces of the committed transactions.
LEMMA NewWithStorageSpends ==
  SpendInvariant /\ NewWithStorage => SpendInvariant'
<1> SUFFICES ASSUME SpendInvariant, NewWithStorage PROVE SpendInvariant'
  OBVIOUS
<1>1. /\ UNCHANGED <<bodies, delivered_txs, overlay, tx_meta, stored_state>>
      /\ delivered_txs = <<>>
  BY DEF NewWithStorage, memVars, dbVars, SpendInvariant, Running
<1>2. Delivered' = Delivered /\ Chain' = Chain /\ Chain = bodies
  BY <1>1 DEF Delivered, Chain
<1>3. NoDoubleSpend' /\ TxDeliveredOnce' /\ InputsAreCommittedOutputs'
  BY <1>1, <1>2, Zenon DEF SpendInvariant, NoDoubleSpend, TxDeliveredOnce, InputsAreCommittedOutputs
<1>4. SpentBitsExact'
  BY <1>1, <1>2 DEF SpendInvariant, SpentBitsExact, GetMeta
<1>5. CASE phase' = "fresh" /\ stored_state = {}
  BY <1>1, <1>2, <1>3, <1>4, <1>5 DEF SpendInvariant, NoncesUsed, Running
<1>6. ASSUME NEW state \in stored_state,
             phase' = "idle", last_state' = state,
             uncommitted_account_root_hash' = state.last_account_root_hash
      PROVE  SpendInvariant'
  <2>1. NoncesUsed'
    BY <1>1, <1>2, <1>6 DEF SpendInvariant, NoncesUsed
  <2> QED
    BY <1>1, <1>3, <1>4, <1>6, <2>1 DEF SpendInvariant, Running
<1> QED
  BY <1>5, <1>6 DEF NewWithStorage

\* InitChain happens to an empty database only.
LEMMA InitChainSpends ==
  SpendInvariant /\ InitChain => SpendInvariant'
<1> SUFFICES ASSUME SpendInvariant, InitChain PROVE SpendInvariant'
  OBVIOUS
<1>1. bodies = {} /\ delivered_txs = <<>>
  BY Zenon DEF InitChain, SpendInvariant, Running
<1>2. UNCHANGED <<bodies, delivered_txs, overlay, tx_meta>>
  BY DEF InitChain
<1>3. Delivered' = Delivered /\ Chain' = Chain /\ Chain = {}
  BY <1>1, <1>2 DEF Delivered, Chain
<1>4. NoDoubleSpend' /\ TxDeliveredOnce' /\ InputsAreCommittedOutputs'
  BY <1>2, <1>3 DEF SpendInvariant, NoDoubleSpend, TxDeliveredOnce, InputsAreCommittedOutputs
<1>5. SpentBitsExact'
  BY <1>2, <1>3 DEF SpendInvariant, SpentBitsExact, GetMeta
<1>6. NoncesUsed'
  BY <1>1, <1>2, <1>3 DEF NoncesUsed
<1> QED
  BY <1>1, <1>2, <1>4, <1>5, <1>6 DEF SpendInvariant, InitChain, Running

-----------------------------------------------------------------------------
(* Commit and failures *)

LEMMA CommitChain ==
  ASSUME Commit
  PROVE  bodies' = Chain /\ Delivered' = {} /\ Chain' = Chain
<1>1. bodies' = bodies \cup Delivered /\ delivered_txs' = <<>>
  BY DEF Commit, Delivered
<1>2. Delivered' = {}
  BY <1>1 DEF Delivered
<1> QED
  BY <1>1, <1>2 DEF Chain

\* The batch leaves every vector exact: a transaction's own outputs are unspent
\* because nothing can spend them in the block that creates them, and every
\* other writer puts the vector it reads through the overlay, which has all the
\* spends of the block.
LEMMA CommitBits ==
  ASSUME TypeOK, SpendInvariant, Commit
  PROVE  SpentBitsExact'
<1>1. SpentBitsExact /\ TxDeliveredOnce /\ InputsAreCommittedOutputs
  BY DEF SpendInvariant
<1>2. bodies' = Chain /\ Chain' = Chain
  BY CommitChain
<1> SUFFICES ASSUME NEW id \in TxId
             PROVE  /\ tx_meta'[id] = MetaOf(Chain, Chain, id)
                    /\ GetMeta(id)' = MetaOf(Chain, Chain, id)
  BY <1>2, Zenon DEF SpentBitsExact, MetaOf, SpentBy, HasOutputs, Spends
<1>3. tx_meta'[id] = update_utxos_commit(id)
  BY DEF Commit
<1>4. /\ tx_meta[id] = MetaOf(bodies, bodies, id)
      /\ GetMeta(id) = MetaOf(bodies, Chain, id)
  BY <1>1 DEF SpentBitsExact
<1>5. CASE MetaWriters(id) = {}
  <2>1. /\ tx_meta'[id] = tx_meta[id]
        /\ overlay'[id] = overlay[id]
    BY <1>3, <1>5 DEF update_utxos_commit, Commit
  <2>2. GetMeta(id)' = GetMeta(id)
    BY <2>1 DEF GetMeta
  <2>3. \A t \in Delivered : /\ ~ (t = id /\ HasOutputs(id))
                             /\ \A txin \in Spends(Tx[t]) : txin.id # id
    BY <1>5 DEF MetaWriters, Delivered
  <2>4. SpentBy(Delivered, id) = {}
    BY <2>3, SpentByMember
  <2>5. SpentBy(Chain, id) = SpentBy(bodies, id)
    <3>1. SpentBy(bodies \cup Delivered, id) = SpentBy(bodies, id) \cup SpentBy(Delivered, id)
      BY SpentByUnion
    <3> QED
      BY <2>4, <3>1 DEF Chain
  <2>6. (id \in Chain /\ HasOutputs(id)) = (id \in bodies /\ HasOutputs(id))
    BY <2>3 DEF Chain
  <2>7. /\ MetaOf(Chain, Chain, id) = MetaOf(bodies, bodies, id)
        /\ MetaOf(Chain, Chain, id) = MetaOf(bodies, Chain, id)
    BY <2>5, <2>6 DEF MetaOf
  <2> QED
    BY <1>4, <2>1, <2>2, <2>7
<1>6. CASE MetaWriters(id) # {}
  <2>1. PICK k \in MetaWriters(id) : tx_meta'[id] = MetaPut(k, id)
    BY <1>3, <1>6, CommitPut
  <2>2. /\ k \in DOMAIN delivered_txs
        /\ delivered_txs[k] \in Delivered
        /\ \/ delivered_txs[k] = id /\ HasOutputs(id)
           \/ \E txin \in Spends(Tx[delivered_txs[k]]) : txin.id = id
    BY <2>1 DEF MetaWriters, Delivered
  <2>3. GetMeta(id)' = tx_meta'[id]
    BY <1>6 DEF GetMeta, Commit, NoMeta
  <2>4. CASE delivered_txs[k] = id /\ HasOutputs(id)
    <3>1. id \in Chain /\ id \notin bodies
      BY <1>1, <2>2, <2>4 DEF TxDeliveredOnce, Chain
    <3>2. SpentBy(Chain, id) = {}
      <4>1. \A t \in Chain : \A txin \in Spends(Tx[t]) : txin.id # id
        BY <1>1, <3>1 DEF InputsAreCommittedOutputs
      <4>2. \A i : i \notin SpentBy(Chain, id)
        BY <4>1, SpentByMember
      <4> QED
        BY <4>2
    <3>3. tx_meta'[id] = [present |-> TRUE, spent |-> {}]
      BY <2>1, <2>4 DEF MetaPut
    <3>4. MetaOf(Chain, Chain, id) = [present |-> TRUE, spent |-> {}]
      BY <2>4, <3>1, <3>2, MetaOfPresent
    <3> QED
      BY <2>3, <3>3, <3>4
  <2>5. CASE ~ (delivered_txs[k] = id /\ HasOutputs(id))
    <3>1. PICK own \in Spends(Tx[delivered_txs[k]]) : own.id = id
      BY <2>2, <2>5
    <3>2. delivered_txs[k] \in Chain
      BY <2>2 DEF Chain
    <3>3. id \in bodies /\ HasOutputs(id)
      BY <1>1, <3>1, <3>2 DEF InputsAreCommittedOutputs
    <3>4. tx_meta'[id] = spend_utxos(Tx[delivered_txs[k]], id)
      BY <2>1, <2>5 DEF MetaPut
    <3>5. GetMeta(id).spent = SpentBy(Chain, id)
      BY <1>4, MetaOfFields
    <3>6. \A txin \in Spends(Tx[delivered_txs[k]]) : txin.id = id => txin.index \in SpentBy(Chain, id)
      BY <3>2, SpentByMember
    <3>7. spend_utxos(Tx[delivered_txs[k]], id) = [present |-> TRUE, spent |-> SpentBy(Chain, id)]
      BY <3>5, <3>6, Zenon DEF spend_utxos
    <3>8. id \in Chain
      BY <3>3 DEF Chain
    <3> QED
      BY <2>3, <3>3, <3>4, <3>7, <3>8, MetaOfPresent
  <2> QED
    BY <2>4, <2>5
<1> QED
  BY <1>5, <1>6

LEMMA CommitSpends ==
  ASSUME TypeOK, SpendInvariant, Commit
  PROVE  SpendInvariant'
<1>1. bodies' = Chain /\ Delivered' = {} /\ Chain' = Chain /\ bodies \subseteq Chain
  BY CommitChain DEF Chain
<1>2. SpentBitsExact'
  BY CommitBits
<1>3. delivered_txs' = <<>> /\ stored_state' = {CommittedState} /\ last_state' = CommittedState
  BY DEF Commit
<1>4. NoDoubleSpend' /\ InputsAreCommittedOutputs'
  BY <1>1 DEF SpendInvariant, NoDoubleSpend, InputsAreCommittedOutputs
<1>5. TxDeliveredOnce'
  BY <1>1, <1>3 DEF TxDeliveredOnce, IsInjective
<1>6. \A t \in Chain : NonceUsed(t, uncommitted_account_root_hash)
  BY DEF SpendInvariant, NoncesUsed, Commit, Running
<1>7. \A t \in Chain : NonceUsed(t, CommittedState.last_account_root_hash)
  <2>1. CASE delivered_txs = <<>>
    <3>1. Chain = bodies /\ CommittedState = last_state
      BY <2>1 DEF Chain, Delivered, CommittedState
    <3> QED
      BY <3>1 DEF SpendInvariant, NoncesUsed, Commit, Running
  <2>2. CASE delivered_txs # <<>>
    <3>1. CommittedState.last_account_root_hash = uncommitted_account_root_hash
      BY <2>2 DEF CommittedState, TypeOK, ChainNodeState
    <3> QED
      BY <1>6, <3>1
  <2> QED
    BY <2>1, <2>2
<1>8. uncommitted_account_root_hash' = uncommitted_account_root_hash /\ phase' = "idle"
  BY DEF Commit
<1>9. NoncesUsed'
  BY <1>1, <1>3, <1>6, <1>7, <1>8 DEF NoncesUsed
<1> QED
  BY <1>2, <1>3, <1>4, <1>5, <1>8, <1>9 DEF SpendInvariant, Running

\* A crash drops what is pending: the stored vectors are exact by themselves.
LEMMA MemoryLostSpends ==
  ASSUME TypeOK, SpendInvariant, MemoryLost, UNCHANGED dbVars
  PROVE  SpendInvariant'
<1>1. /\ delivered_txs' = <<>> /\ overlay' = NoBuffer /\ phase' = "down"
      /\ UNCHANGED <<bodies, tx_meta, stored_state>>
  BY DEF MemoryLost, dbVars
<1>2. Delivered' = {} /\ Chain' = bodies /\ bodies \subseteq Chain
  BY <1>1 DEF Delivered, Chain
<1>3. NoDoubleSpend' /\ InputsAreCommittedOutputs'
  BY <1>1, <1>2 DEF SpendInvariant, NoDoubleSpend, InputsAreCommittedOutputs
<1>4. TxDeliveredOnce'
  BY <1>1, <1>2 DEF TxDeliveredOnce, IsInjective
<1>5. \A id \in TxId : GetMeta(id)' = tx_meta[id]
  BY <1>1 DEF GetMeta, NoBuffer, NoMeta
<1>6. SpentBitsExact'
  BY <1>1, <1>2, <1>5 DEF SpendInvariant, SpentBitsExact
<1>7. NoncesUsed'
  BY <1>1 DEF SpendInvariant, NoncesUsed, Running
<1> QED
  BY <1>1, <1>3, <1>4, <1>6, <1>7 DEF SpendInvariant

LEMMA InitSpends == Init => SpendInvariant
<1> SUFFICES ASSUME Init PROVE SpendInvariant
  OBVIOUS
<1>1. Delivered = {} /\ Chain = {} /\ bodies = {} /\ delivered_txs = <<>>
  BY DEF Init, Delivered, Chain
<1>2. \A id \in TxId : SpentBy({}, id) = {}
  BY DEF SpentBy
<1>3. \A id \in TxId : MetaOf({}, {}, id) = NoMeta
  BY <1>2, Zenon DEF MetaOf, NoMeta
<1>4. \A id \in TxId : tx_meta[id] = NoMeta /\ GetMeta(id) = NoMeta
  BY DEF Init, GetMeta, NoBuffer
<1>5. SpentBitsExact
  BY <1>1, <1>3, <1>4 DEF SpentBitsExact
<1>6. NoDoubleSpend /\ InputsAreCommittedOutputs
  BY <1>1 DEF NoDoubleSpend, InputsAreCommittedOutputs
<1>7. TxDeliveredOnce
  BY <1>1 DEF TxDeliveredOnce, IsInjective
<1>8. phase = "down" /\ stored_state = {} /\ ~ Running
  BY DEF Init, Running
<1>9. NoncesUsed
  BY <1>8 DEF NoncesUsed
<1> QED
  BY <1>1, <1>5, <1>6, <1>7, <1>8, <1>9 DEF SpendInvariant

LEMMA NextSpends == TypeOK /\ SpendInvariant /\ [Next]_vars => SpendInvariant'
<1> SUFFICES ASSUME TypeOK, SpendInvariant, [Next]_vars PROVE SpendInvariant'
  OBVIOUS
<1>1. CASE NewWithStorage
  BY <1>1, NewWithStorageSpends
<1>2. CASE InitChain
  BY <1>2, InitChainSpends
<1>3. CASE BeginBlock
  BY <1>3, SameSpends DEF BeginBlock, dbVars, Running, TypeOK, ChainNodeState
<1>4. ASSUME NEW id \in TxId, CheckTx(id) PROVE SpendInvariant'
  BY <1>4, SameSpends DEF CheckTx, memVars, dbVars, Running
<1>5. ASSUME NEW id \in TxId, DeliverTx(id) PROVE SpendInvariant'
  <2>1. CASE DeliverValid(id)
    BY <1>5, <2>1, DeliverValidSpends
  <2>2. CASE DeliverInvalid(id)
    BY <1>5, <2>2, SameSpends DEF DeliverTx, DeliverInvalid, dbVars, Running
  <2> QED
    BY <1>5, <2>1, <2>2 DEF DeliverTx
<1>6. CASE EndBlock
  BY <1>6, SameSpends DEF EndBlock, dbVars, Running, TypeOK, ChainNodeState
<1>7. CASE Commit
  BY <1>7, CommitSpends
<1>8. CASE Crash
  BY <1>8, MemoryLostSpends DEF Crash
<1>9. CASE CrashInCommit
  BY <1>9, MemoryLostSpends DEF CrashInCommit
<1>10. CASE RestartServer
  BY <1>10, SameSpends DEF RestartServer, memVars, dbVars, Running
<1>11. CASE UNCHANGED vars
  BY <1>11, SameSpends DEF vars, memVars, dbVars, Running
<1> QED
  BY <1>1, <1>2, <1>3, <1>4, <1>5, <1>6, <1>7, <1>8, <1>9, <1>10, <1>11
  DEF Next, NewWithStoragePanics

-----------------------------------------------------------------------------
(* The theorems *)

\* The whole inductive invariant holds in every reachable state.
THEOREM SpendsCorrect == Spec => []SpendInvariant
BY InitType, NextType, InitSpends, NextSpends, PTL DEF Spec

\* No two transactions of the chain, committed or delivered in the current
\* block, spend the same output, across any crashes, restarts and replays.
THEOREM NeverDoubleSpent == Spec => []NoDoubleSpend
<1>1. SpendInvariant => NoDoubleSpend
  BY DEF SpendInvariant
<1> QED
  BY <1>1, SpendsCorrect, PTL

\* The bit vectors stored and buffered by spend_utxos and commit say exactly
\* which outputs of which committed transactions are spent.
THEOREM BitsAlwaysExact == Spec => []SpentBitsExact
<1>1. SpendInvariant => SpentBitsExact
  BY DEF SpendInvariant
<1> QED
  BY <1>1, SpendsCorrect, PTL

\* No transaction enters the chain twice, not even when a block is replayed.
THEOREM NeverDeliveredTwice == Spec => []TxDeliveredOnce
<1>1. SpendInvariant => TxDeliveredOnce
  BY DEF SpendInvariant
<1> QED
  BY <1>1, SpendsCorrect, PTL

\* What a transaction of the chain spends is an existing output of a
\* transaction committed in an earlier block.
THEOREM OnlyCommittedOutputsSpent == Spec => []InputsAreCommittedOutputs
<1>1. SpendInvariant => InputsAreCommittedOutputs
  BY DEF SpendInvariant
<1> QED
  BY <1>1, SpendsCorrect, PTL
=============================================================================
