----------------------------- MODULE NodeProofs -----------------------------
(***************************************************************************)
(* What the node keeps right around its blocks, for every choice of the    *)
(* constants: roots, the validation server's hash and sealed transactions, *)
(* the block filter, and that committed data stays.  All of it rests on    *)
(* BlockInvariant, which ties the phase of the ABCI protocol to the stored *)
(* state, to Tendermint's headers and to the app hashes.                   *)
(***************************************************************************)
EXTENDS ChainNodeProofs

InBlock == phase \in {"deliver", "ended"}

\* The stored state is the one the open block builds on: the memory agrees with
\* it between blocks, the open block is the next height, and no app hash is
\* stored for that height yet.
BlockInvariant ==
  /\ ~ InBlock => delivered_txs = <<>>
  /\ phase = "fresh" => stored_state = {}
  /\ stored_state = {} => DOMAIN app_states = {}
  /\ Running => stored_state # {}
  /\ phase = "ended" => last_state.last_block_height = Len(headers) /\ block.complete
  /\ \A s, t \in stored_state : s = t
  /\ \A state \in stored_state :
       /\ Running => last_state.last_apphash = state.last_apphash
       /\ phase \in {"idle", "deliver"} =>
            last_state.last_block_height = state.last_block_height
       /\ InBlock => Len(headers) = state.last_block_height + 1
       /\ \A h \in DOMAIN app_states : h <= state.last_block_height

\* The filter holds the staking addresses of the block that is being delivered,
\* and is empty again once it is emitted.
FilterInvariant ==
  /\ phase = "deliver" =>
       filter = {Tx[t].address : t \in {s \in Delivered : Tx[s].kind # "TransferTx"}}
  /\ phase # "deliver" => filter = {}
  /\ FilterOfThisBlock

\* Every height up to the stored one has an app hash, the last one the stored
\* state's; from the height that committed a transaction on, the trees of the
\* app hashes are stored.
ProofInvariant ==
  /\ \A state \in stored_state :
       /\ DOMAIN app_states = 1 .. state.last_block_height
       /\ state.last_block_height > 0 =>
            app_states[state.last_block_height] = state.last_apphash
  /\ \A id \in bodies : \E h \in DOMAIN app_states :
       /\ \E k \in DOMAIN app_states[h].txs : app_states[h].txs[k] = id
       /\ \A g \in DOMAIN app_states : g >= h => app_states[g] \in merkle_proofs

\* What is flushed can be looked up; see CommittedTxsSealed.
SealInvariant == txdb_disk \subseteq txdb /\ CommittedTxsSealed

\* While the node runs, the server is not ahead of it.
HashInvariant ==
  /\ ServerHashTracksNode
  /\ phase # "down" => \/ last_apphash = {} /\ StoredHash \subseteq {genesis_app_hash}
                       \/ last_apphash = StoredHash

-----------------------------------------------------------------------------
(* Roots *)

LEMMA InitRoots == Init => RootsResolvable
BY DEF Init, RootsResolvable, Running

LEMMA NextRoots == TypeOK /\ RootsResolvable /\ [Next]_vars => RootsResolvable'
<1> SUFFICES ASSUME TypeOK, RootsResolvable, [Next]_vars PROVE RootsResolvable'
  OBVIOUS
<1>1. CASE NewWithStorage
  BY <1>1 DEF NewWithStorage, RootsResolvable, Running, memVars, dbVars
<1>2. CASE InitChain
  BY <1>2 DEF InitChain, insert, genesis_state, RootsResolvable, Running
<1>3. CASE BeginBlock
  BY <1>3, BeginState DEF BeginBlock, dbVars, RootsResolvable, Running
<1>4. ASSUME NEW id \in TxId, CheckTx(id) PROVE RootsResolvable'
  BY <1>4 DEF CheckTx, memVars, dbVars, RootsResolvable, Running
<1>5. ASSUME NEW id \in TxId, DeliverTx(id) PROVE RootsResolvable'
  <2>1. last_state'.last_account_root_hash = last_state.last_account_root_hash
    BY <1>5, DeliverState
  <2>2. Running /\ stored_state' = stored_state
    BY <1>5 DEF DeliverTx, dbVars, Running
  <2>3. account_roots \subseteq account_roots' /\ uncommitted_account_root_hash' \in account_roots'
    BY <1>5, <2>2 DEF DeliverTx, DeliverValid, DeliverInvalid, insert, RootsResolvable
  <2> QED
    BY <2>1, <2>2, <2>3 DEF RootsResolvable
<1>6. CASE EndBlock
  BY <1>6, EndState DEF EndBlock, dbVars, RootsResolvable, Running
<1>7. CASE Commit
  <2>1. CommittedState.last_account_root_hash
          \in {uncommitted_account_root_hash, last_state.last_account_root_hash}
    BY CommittedFields
  <2>2. CommittedState.last_account_root_hash \in account_roots
    BY <1>7, <2>1 DEF Commit, RootsResolvable, Running
  <2> QED
    BY <1>7, <2>2 DEF Commit, RootsResolvable, Running
<1>8. CASE Crash
  BY <1>8 DEF Crash, MemoryLost, dbVars, RootsResolvable, Running
<1>9. CASE CrashInCommit
  BY <1>9 DEF CrashInCommit, MemoryLost, dbVars, RootsResolvable, Running
<1>10. CASE RestartServer
  BY <1>10 DEF RestartServer, memVars, dbVars, RootsResolvable, Running
<1>11. CASE UNCHANGED vars
  BY <1>11 DEF vars, memVars, dbVars, RootsResolvable, Running
<1> QED
  BY <1>1, <1>2, <1>3, <1>4, <1>5, <1>6, <1>7, <1>8, <1>9, <1>10, <1>11
  DEF Next, NewWithStoragePanics

\* Every account root the node works from, or would restart from, is in the
\* account storage: the roots left by a block that crashed do no harm.
THEOREM RootsAlwaysResolve == Spec => []RootsResolvable
BY InitType, NextType, InitRoots, NextRoots, PTL DEF Spec
-----------------------------------------------------------------------------
(* Blocks *)

LEMMA InitBlocks == Init => BlockInvariant
BY DEF Init, BlockInvariant, InBlock, Running

\* Steps that leave the block and the database alone.
LEMMA SameBlock ==
  ASSUME BlockInvariant,
         UNCHANGED <<phase, delivered_txs, stored_state, app_states, headers, block>>,
         last_state'.last_apphash = last_state.last_apphash,
         last_state'.last_block_height = last_state.last_block_height
  PROVE  BlockInvariant'
BY DEF BlockInvariant, InBlock, Running

LEMMA NewWithStorageBlock ==
  BlockInvariant /\ NewWithStorage => BlockInvariant'
<1> SUFFICES ASSUME BlockInvariant, NewWithStorage PROVE BlockInvariant'
  OBVIOUS
<1>1. /\ UNCHANGED <<delivered_txs, stored_state, app_states, headers>>
      /\ delivered_txs = <<>>
  BY DEF NewWithStorage, memVars, dbVars, tmVars, BlockInvariant, InBlock
<1>2. CASE stored_state = {} /\ phase' = "fresh"
  BY <1>1, <1>2 DEF BlockInvariant, InBlock, Running
<1>3. ASSUME NEW state \in stored_state, phase' = "idle", last_state' = state
      PROVE  BlockInvariant'
  <2>1. \A s \in stored_state : s = state
    BY <1>3 DEF BlockInvariant
  <2> QED
    BY <1>1, <1>3, <2>1 DEF BlockInvariant, InBlock, Running
<1> QED
  BY <1>2, <1>3 DEF NewWithStorage

LEMMA BeginBlockBlock ==
  ASSUME TypeOK, BlockInvariant, BeginBlock
  PROVE  BlockInvariant'
<1>1. /\ last_state'.last_apphash = last_state.last_apphash
      /\ last_state'.last_block_height = last_state.last_block_height
      /\ UNCHANGED <<delivered_txs, stored_state, app_states>>
      /\ phase = "idle" /\ phase' = "deliver"
  BY BeginState DEF BeginBlock, dbVars
<1>2. Len(headers') = last_state.last_block_height + 1
  BY DEF BeginBlock, TypeOK
<1> QED
  BY <1>1, <1>2 DEF BlockInvariant, InBlock, Running

\* The committed height is the next one: above the stored state's, and above
\* every height that has an app hash.
LEMMA CommitHeight ==
  ASSUME TypeOK, BlockInvariant, Commit
  PROVE  /\ CommittedState.last_block_height \in Nat
         /\ CommittedState.last_block_height = Len(headers)
         /\ \A h \in DOMAIN app_states : h \in Nat /\ h < CommittedState.last_block_height
<1>1. CommittedState.last_block_height = Len(headers) /\ Len(headers) \in Nat
  BY CommittedFields DEF Commit, BlockInvariant, TypeOK
<1>2. PICK state \in stored_state : TRUE
  BY DEF Commit, BlockInvariant, Running
<1>3. Len(headers) = state.last_block_height + 1 /\ state.last_block_height \in Nat
  BY <1>2 DEF Commit, BlockInvariant, InBlock, TypeOK, ChainNodeState
<1>4. \A h \in DOMAIN app_states : h \in Nat /\ h <= state.last_block_height
  BY <1>2 DEF BlockInvariant, TypeOK
<1> QED
  BY <1>1, <1>3, <1>4

LEMMA CommitBlockInvariant ==
  ASSUME TypeOK, BlockInvariant, Commit
  PROVE  BlockInvariant'
<1>1. /\ phase' = "idle" /\ delivered_txs' = <<>>
      /\ stored_state' = {CommittedState} /\ last_state' = CommittedState
      /\ DOMAIN app_states' = DOMAIN app_states \cup {CommittedState.last_block_height}
  BY DEF Commit, Insert
<1>2. \A h \in DOMAIN app_states' : h <= CommittedState.last_block_height
  BY <1>1, CommitHeight
<1> QED
  BY <1>1, <1>2 DEF BlockInvariant, InBlock, Running

LEMMA MemoryLostBlock ==
  ASSUME BlockInvariant, MemoryLost, UNCHANGED dbVars
  PROVE  BlockInvariant'
BY DEF BlockInvariant, MemoryLost, dbVars, InBlock, Running

LEMMA NextBlocks == TypeOK /\ BlockInvariant /\ [Next]_vars => BlockInvariant'
<1> SUFFICES ASSUME TypeOK, BlockInvariant, [Next]_vars PROVE BlockInvariant'
  OBVIOUS
<1>1. CASE NewWithStorage
  BY <1>1, NewWithStorageBlock
<1>2. CASE InitChain
  BY <1>2 DEF InitChain, BlockInvariant, InBlock, Running
<1>3. CASE BeginBlock
  BY <1>3, BeginBlockBlock
<1>4. ASSUME NEW id \in TxId, CheckTx(id) PROVE BlockInvariant'
  BY <1>4, SameBlock DEF CheckTx, memVars, dbVars, tmVars
<1>5. ASSUME NEW id \in TxId, DeliverTx(id) PROVE BlockInvariant'
  <2>1. /\ last_state'.last_apphash = last_state.last_apphash
        /\ last_state'.last_block_height = last_state.last_block_height
        /\ UNCHANGED <<phase, stored_state, app_states, headers>>
        /\ phase = "deliver"
    BY <1>5, DeliverState DEF DeliverTx, dbVars
  <2> QED
    BY <2>1 DEF BlockInvariant, InBlock, Running
<1>6. CASE EndBlock
  <2>1. /\ last_state'.last_apphash = last_state.last_apphash
        /\ last_state'.last_block_height = Len(headers)
        /\ UNCHANGED <<delivered_txs, stored_state, app_states, headers>>
        /\ phase = "deliver" /\ phase' = "ended"
    BY <1>6, EndState DEF EndBlock, dbVars
  <2>2. block'.complete
    BY <1>6 DEF EndBlock, TypeOK
  <2> QED
    BY <2>1, <2>2 DEF BlockInvariant, InBlock, Running
<1>7. CASE Commit
  BY <1>7, CommitBlockInvariant
<1>8. CASE Crash
  BY <1>8, MemoryLostBlock DEF Crash
<1>9. CASE CrashInCommit
  BY <1>9, MemoryLostBlock DEF CrashInCommit
<1>10. CASE RestartServer
  BY <1>10, SameBlock DEF RestartServer, memVars, dbVars, tmVars
<1>11. CASE UNCHANGED vars
  BY <1>11, SameBlock DEF vars, memVars, dbVars, tmVars
<1> QED
  BY <1>1, <1>2, <1>3, <1>4, <1>5, <1>6, <1>7, <1>8, <1>9, <1>10, <1>11
  DEF Next, NewWithStoragePanics

\* The phase of the ABCI protocol, the stored state and the heights agree.
THEOREM BlocksInStep == Spec => []BlockInvariant
BY InitType, NextType, InitBlocks, NextBlocks, PTL DEF Spec
-----------------------------------------------------------------------------
(* The validation server's app hash *)

LEMMA InitHash == Init => HashInvariant
BY DEF Init, ServerInit, HashInvariant, ServerHashTracksNode, StoredHash

\* The requests that validate a transaction keep the server's hash.
LEMMA ValidateHash ==
  ASSUME NEW id \in TxId, validate_tx_req(id)
  PROVE  last_apphash' = last_apphash
BY DEF validate_tx_req, InsertSealed, serverVars

\* A step of a running node that leaves both hashes alone.
LEMMA SameHash ==
  ASSUME HashInvariant, phase # "down", last_apphash' = last_apphash,
         stored_state' = stored_state
  PROVE  HashInvariant'
<1>1. StoredHash' = StoredHash
  BY DEF StoredHash
<1> QED
  BY <1>1 DEF HashInvariant, ServerHashTracksNode

\* Once the server has answered CommitBlock, its hash is the new one; the node's
\* own is one block behind if it stops before the database write.
LEMMA CommitHash ==
  ASSUME TypeOK, BlockInvariant, HashInvariant, Commit
  PROVE  HashInvariant'
<1>1. StoredHash' = {CommittedState.last_apphash}
  BY DEF Commit, StoredHash
<1>2. CASE delivered_txs = <<>>
  <2>1. CommittedState = last_state /\ last_apphash' = last_apphash
    BY <1>2, CommittedFields DEF Commit, CommitRequest, serverVars
  <2>2. StoredHash = {last_state.last_apphash}
    BY DEF Commit, StoredHash, BlockInvariant, Running
  <2> QED
    BY <1>1, <2>1, <2>2 DEF Commit, HashInvariant, ServerHashTracksNode
<1>3. CASE delivered_txs # <<>>
  <2>1. last_apphash' = {CommittedState.last_apphash}
    BY <1>3 DEF Commit, CommitRequest, CommitBlock
  <2> QED
    BY <1>1, <2>1 DEF HashInvariant, ServerHashTracksNode
<1> QED
  BY <1>2, <1>3

LEMMA CrashInCommitHash ==
  ASSUME TypeOK, BlockInvariant, CrashInCommit
  PROVE  HashInvariant'
<1>1. last_apphash' = {CommittedState.last_apphash}
  BY DEF CrashInCommit, CommitRequest, CommitBlock
<1>2. /\ phase' = "down"
      /\ UNCHANGED <<stored_state, headers, block>>
  BY DEF CrashInCommit, MemoryLost, dbVars
<1>3. CommittedState.last_apphash.pool.last_block_height = Len(headers) /\ block.complete
  BY CommittedFields DEF CrashInCommit, BlockInvariant
<1>4. \A state \in stored_state : Len(headers) = state.last_block_height + 1
  BY DEF CrashInCommit, BlockInvariant, InBlock
<1> QED
  BY <1>1, <1>2, <1>3, <1>4 DEF HashInvariant, ServerHashTracksNode

LEMMA NextHash == TypeOK /\ BlockInvariant /\ HashInvariant /\ [Next]_vars => HashInvariant'
<1> SUFFICES ASSUME TypeOK, BlockInvariant, HashInvariant, [Next]_vars PROVE HashInvariant'
  OBVIOUS
<1>1. CASE NewWithStorage
  <2>1. last_apphash = StoredHash /\ UNCHANGED <<stored_state, last_apphash>>
    BY <1>1 DEF NewWithStorage, CheckChain, dbVars, serverVars
  <2> QED
    BY <2>1 DEF HashInvariant, ServerHashTracksNode, StoredHash
<1>2. CASE InitChain
  <2>1. last_apphash = {}
    BY <1>2 DEF InitChain, HashInvariant, BlockInvariant, StoredHash
  <2>2. last_apphash' = last_apphash /\ StoredHash' = {genesis_app_hash}
    BY <1>2 DEF InitChain, serverVars, StoredHash, genesis_state
  <2> QED
    BY <2>1, <2>2 DEF HashInvariant, ServerHashTracksNode
<1>3. CASE BeginBlock
  BY <1>3, SameHash DEF BeginBlock, dbVars, serverVars
<1>4. ASSUME NEW id \in TxId, CheckTx(id) PROVE HashInvariant'
  BY <1>4, ValidateHash, SameHash DEF CheckTx, dbVars
<1>5. ASSUME NEW id \in TxId, DeliverTx(id) PROVE HashInvariant'
  BY <1>5, ValidateHash, SameHash DEF DeliverTx, dbVars
<1>6. CASE EndBlock
  BY <1>6, SameHash DEF EndBlock, dbVars, serverVars
<1>7. CASE Commit
  BY <1>7, CommitHash
<1>8. CASE Crash
  BY <1>8, SameHash DEF Crash, dbVars, serverVars
<1>9. CASE CrashInCommit
  BY <1>9, CrashInCommitHash
<1>10. CASE RestartServer
  <2>1. UNCHANGED <<phase, last_apphash, stored_state, headers, block>>
    BY <1>10 DEF RestartServer, ServerRestart, dbVars, tmVars
  <2> QED
    BY <2>1, Zenon DEF HashInvariant, ServerHashTracksNode, StoredHash
<1>11. CASE UNCHANGED vars
  BY <1>11, Zenon DEF vars, dbVars, tmVars, serverVars, HashInvariant, ServerHashTracksNode, StoredHash
<1> QED
  BY <1>1, <1>2, <1>3, <1>4, <1>5, <1>6, <1>7, <1>8, <1>9, <1>10, <1>11
  DEF Next, NewWithStoragePanics

\* The validation server is never behind the node's database, and ahead of it
\* only while the node is down after a crash inside Commit, by one block, which
\* Tendermint has complete and will replay.
THEOREM ServerTracksNode == Spec => []ServerHashTracksNode
<1>1. HashInvariant => ServerHashTracksNode
  BY DEF HashInvariant
<1> QED
  BY <1>1, InitType, NextType, InitBlocks, NextBlocks, InitHash, NextHash, PTL DEF Spec

-----------------------------------------------------------------------------
(* Sealed transactions *)

LEMMA InitSeal == Init => SealInvariant
BY DEF Init, ServerInit, SealInvariant, CommittedTxsSealed, CommittedTxsPersisted, Delivered

\* Steps that only add sealed transactions.
LEMMA MoreSealed ==
  ASSUME SealInvariant, bodies' = bodies, txdb \subseteq txdb', txdb_disk' = txdb_disk,
         Delivered' \subseteq Delivered
  PROVE  SealInvariant'
BY DEF SealInvariant, CommittedTxsSealed, CommittedTxsPersisted, HasOutputs

LEMMA ValidateSeal ==
  ASSUME NEW id \in TxId, validate_tx_req(id)
  PROVE  txdb \subseteq txdb' /\ txdb_disk' = txdb_disk
BY DEF validate_tx_req, InsertSealed, serverVars

\* A delivered transaction with outputs was sealed when it was verified.
LEMMA DeliverSeal ==
  ASSUME TypeOK, SealInvariant, NEW id \in TxId, DeliverTx(id), DeliverValid(id)
  PROVE  SealInvariant'
<1>1. txdb \subseteq txdb' /\ txdb_disk' = txdb_disk
  BY ValidateSeal DEF DeliverTx
<1>2. HasOutputs(id) => id \in txdb'
  BY DEF DeliverTx, DeliverValid, validate_tx_req, InsertSealed, HasOutputs
<1>3. bodies' = bodies /\ Delivered' = Delivered \cup {id}
  BY DeliverChain
<1> QED
  BY <1>1, <1>2, <1>3 DEF SealInvariant, CommittedTxsSealed, CommittedTxsPersisted, HasOutputs

\* CommitBlock flushes what the block has sealed before the node stores it.
LEMMA CommitSeal ==
  ASSUME SealInvariant, CommitRequest
  PROVE  /\ txdb_disk' \subseteq txdb'
         /\ \A t \in Chain : HasOutputs(t) => t \in txdb_disk'
<1>1. CASE delivered_txs = <<>>
  <2>1. Chain = bodies /\ UNCHANGED <<txdb, txdb_disk>>
    BY <1>1 DEF CommitRequest, serverVars, Chain, Delivered
  <2> QED
    BY <2>1 DEF SealInvariant, CommittedTxsSealed, CommittedTxsPersisted
<1>2. CASE delivered_txs # <<>>
  <2>1. txdb' = txdb /\ txdb_disk' = txdb
    BY <1>2 DEF CommitRequest, CommitBlock
  <2> QED
    BY <2>1 DEF SealInvariant, CommittedTxsSealed, CommittedTxsPersisted, Chain
<1> QED
  BY <1>1, <1>2

LEMMA NextSeal ==
  ASSUME RestartPhases \cap {"deliver", "ended"} = {}
  PROVE  TypeOK /\ BlockInvariant /\ SealInvariant /\ [Next]_vars => SealInvariant'
<1> SUFFICES ASSUME TypeOK, BlockInvariant, SealInvariant, [Next]_vars PROVE SealInvariant'
  OBVIOUS
<1>1. CASE NewWithStorage
  BY <1>1, MoreSealed DEF NewWithStorage, memVars, dbVars, serverVars, Delivered
<1>2. CASE InitChain
  BY <1>2, MoreSealed DEF InitChain, serverVars, Delivered
<1>3. CASE BeginBlock
  BY <1>3, MoreSealed DEF BeginBlock, dbVars, serverVars, Delivered
<1>4. ASSUME NEW id \in TxId, CheckTx(id) PROVE SealInvariant'
  BY <1>4, ValidateSeal, MoreSealed DEF CheckTx, memVars, dbVars, Delivered
<1>5. ASSUME NEW id \in TxId, DeliverTx(id) PROVE SealInvariant'
  <2>1. CASE DeliverValid(id)
    BY <1>5, <2>1, DeliverSeal
  <2>2. CASE DeliverInvalid(id)
    BY <1>5, <2>2, ValidateSeal, MoreSealed DEF DeliverTx, DeliverInvalid, dbVars, Delivered
  <2> QED
    BY <1>5, <2>1, <2>2 DEF DeliverTx
<1>6. CASE EndBlock
  BY <1>6, MoreSealed DEF EndBlock, dbVars, serverVars, Delivered
<1>7. CASE Commit
  <2>1. bodies' = Chain /\ Delivered' = {}
    BY <1>7, CommitChain
  <2>2. txdb_disk' \subseteq txdb' /\ \A t \in Chain : HasOutputs(t) => t \in txdb_disk'
    BY <1>7, CommitSeal DEF Commit
  <2> QED
    BY <2>1, <2>2 DEF SealInvariant, CommittedTxsSealed, CommittedTxsPersisted, HasOutputs
<1>8. CASE Crash
  BY <1>8, MoreSealed DEF Crash, MemoryLost, dbVars, serverVars, Delivered
<1>9. CASE CrashInCommit
  <2>1. bodies' = bodies /\ Delivered' = {} /\ bodies \subseteq Chain
    BY <1>9 DEF CrashInCommit, MemoryLost, dbVars, Delivered, Chain
  <2> QED
    BY <1>9, <2>1, CommitSeal
    DEF CrashInCommit, SealInvariant, CommittedTxsSealed, CommittedTxsPersisted, HasOutputs
<1>10. CASE RestartServer
  <2>1. Delivered' = {} /\ bodies' = bodies
    BY <1>10 DEF RestartServer, memVars, dbVars, BlockInvariant, InBlock, Delivered
  <2>2. txdb_disk' = txdb' /\ txdb_disk \subseteq txdb'
    BY <1>10 DEF RestartServer, ServerRestart, SealInvariant
  <2> QED
    BY <2>1, <2>2 DEF SealInvariant, CommittedTxsSealed, CommittedTxsPersisted, HasOutputs
<1>11. CASE UNCHANGED vars
  BY <1>11, MoreSealed DEF vars, memVars, dbVars, serverVars, Delivered
<1> QED
  BY <1>1, <1>2, <1>3, <1>4, <1>5, <1>6, <1>7, <1>8, <1>9, <1>10, <1>11
  DEF Next, NewWithStoragePanics

\* If the server restarts only while no block is being delivered, the sealed
\* outputs of every committed transaction are in its storage, durably, and
\* those of the delivered ones can be looked up.
THEOREM SealedWithoutRestarts ==
  ASSUME RestartPhases \cap {"deliver", "ended"} = {}
  PROVE  Spec => []CommittedTxsSealed
<1>1. SealInvariant => CommittedTxsSealed
  BY DEF SealInvariant
<1>2. TypeOK /\ BlockInvariant /\ SealInvariant /\ [Next]_vars => SealInvariant'
  BY NextSeal
<1> QED
  BY <1>1, <1>2, InitType, NextType, InitBlocks, NextBlocks, InitSeal, PTL DEF Spec
-----------------------------------------------------------------------------
(* The block filter *)

LEMMA InitFilter == Init => FilterInvariant
BY DEF Init, FilterInvariant, FilterOfThisBlock

\* Steps outside the delivery of a block that keep the filter and the response.
LEMMA SameFilter ==
  ASSUME FilterInvariant, UNCHANGED <<phase, filter, response, delivered_txs>>
  PROVE  FilterInvariant'
<1>1. Delivered' = Delivered
  BY DEF Delivered
<1>2. FilterOfThisBlock'
  BY <1>1 DEF FilterInvariant, FilterOfThisBlock, HasOutputs
<1> QED
  BY <1>1, <1>2 DEF FilterInvariant

LEMMA NextFilter ==
  TypeOK /\ BlockInvariant /\ FilterInvariant /\ [Next]_vars => FilterInvariant'
<1> SUFFICES ASSUME TypeOK, BlockInvariant, FilterInvariant, [Next]_vars PROVE FilterInvariant'
  OBVIOUS
<1>1. CASE NewWithStorage
  BY <1>1 DEF NewWithStorage, memVars, FilterInvariant, FilterOfThisBlock
<1>2. CASE InitChain
  BY <1>2 DEF InitChain, FilterInvariant, FilterOfThisBlock
<1>3. CASE BeginBlock
  <2>1. /\ phase' = "deliver" /\ filter' = {} /\ Delivered' = {}
    BY <1>3 DEF BeginBlock, FilterInvariant, BlockInvariant, InBlock, Delivered
  <2> QED
    BY <2>1 DEF FilterInvariant, FilterOfThisBlock
<1>4. ASSUME NEW id \in TxId, CheckTx(id) PROVE FilterInvariant'
  BY <1>4, SameFilter DEF CheckTx, memVars, tmVars
<1>5. ASSUME NEW id \in TxId, DeliverTx(id) PROVE FilterInvariant'
  <2>1. CASE DeliverInvalid(id)
    BY <1>5, <2>1, SameFilter DEF DeliverTx, DeliverInvalid
  <2>2. CASE DeliverValid(id)
    <3> DEFINE staking(txs) == {Tx[t].address : t \in {s \in txs : Tx[s].kind # "TransferTx"}}
    <3>1. Delivered' = Delivered \cup {id}
      BY <1>5, <2>2, DeliverChain
    <3>2. phase = "deliver" /\ phase' = "deliver" /\ filter = staking(Delivered)
      BY <1>5 DEF DeliverTx, FilterInvariant
    <3>3. CASE Tx[id].kind = "TransferTx"
      <4>1. filter' = filter
        BY <2>2, <3>3 DEF DeliverValid
      <4>2. staking(Delivered \cup {id}) = staking(Delivered)
        BY <3>3
      <4> QED
        BY <3>1, <3>2, <4>1, <4>2 DEF FilterInvariant, FilterOfThisBlock
    <3>4. CASE Tx[id].kind # "TransferTx"
      <4>1. filter' = filter \cup {Tx[id].address}
        BY <2>2, <3>4 DEF DeliverValid
      <4>2. staking(Delivered \cup {id}) = staking(Delivered) \cup {Tx[id].address}
        BY <3>4
      <4> QED
        BY <3>1, <3>2, <4>1, <4>2 DEF FilterInvariant, FilterOfThisBlock
    <3> QED
      BY <3>3, <3>4
  <2> QED
    BY <1>5, <2>1, <2>2 DEF DeliverTx
<1>6. CASE EndBlock
  <2>1. /\ phase = "deliver" /\ phase' = "ended" /\ filter' = {}
        /\ delivered_txs' = delivered_txs /\ response'.block_filter = EmittedFilter
    BY <1>6 DEF EndBlock
  <2>2. Delivered' = Delivered
    BY <2>1 DEF Delivered
  <2>3. {Tx[delivered_txs[k]].allowed_view :
           k \in {j \in DOMAIN delivered_txs : HasOutputs(delivered_txs[j])}}
          = {Tx[t].allowed_view : t \in {s \in Delivered : HasOutputs(s)}}
    BY DEF Delivered
  <2>4. EmittedFilter = filter \cup UNION {Tx[t].allowed_view : t \in {s \in Delivered : HasOutputs(s)}}
    BY <2>3, Zenon DEF EmittedFilter
  <2> QED
    BY <2>1, <2>2, <2>4 DEF FilterInvariant, FilterOfThisBlock, HasOutputs
<1>7. CASE Commit
  BY <1>7 DEF Commit, FilterInvariant, FilterOfThisBlock
<1>8. CASE Crash
  BY <1>8 DEF Crash, MemoryLost, FilterInvariant, FilterOfThisBlock
<1>9. CASE CrashInCommit
  BY <1>9 DEF CrashInCommit, MemoryLost, FilterInvariant, FilterOfThisBlock
<1>10. CASE RestartServer
  BY <1>10, SameFilter DEF RestartServer, memVars, tmVars
<1>11. CASE UNCHANGED vars
  BY <1>11, SameFilter DEF vars, memVars, tmVars
<1> QED
  BY <1>1, <1>2, <1>3, <1>4, <1>5, <1>6, <1>7, <1>8, <1>9, <1>10, <1>11
  DEF Next, NewWithStoragePanics

\* The filter EndBlock emits holds the staking addresses and view keys of
\* exactly its block, also when the block is delivered again after a crash.
THEOREM FilterIsOfItsBlock == Spec => []FilterOfThisBlock
<1>1. FilterInvariant => FilterOfThisBlock
  BY DEF FilterInvariant
<1> QED
  BY <1>1, InitType, NextType, InitBlocks, NextBlocks, InitFilter, NextFilter, PTL DEF Spec

-----------------------------------------------------------------------------
(* Committed data *)

\* A step keeps what is committed.
Kept ==
  /\ bodies \subseteq bodies'
  /\ \A id \in TxId : tx_meta[id].spent \subseteq tx_meta'[id].spent
  /\ \A h \in DOMAIN app_states : h \in DOMAIN app_states' /\ app_states'[h] = app_states[h]

LEMMA CommitKeeps ==
  ASSUME TypeOK, SpendInvariant, BlockInvariant, Commit
  PROVE  Kept
<1>1. bodies' = Chain /\ bodies \subseteq bodies'
  BY CommitChain DEF Chain
<1>2. ASSUME NEW id \in TxId
      PROVE  tx_meta[id].spent \subseteq tx_meta'[id].spent
  <2>1. tx_meta[id].spent = SpentBy(bodies, id)
    BY MetaOfFields DEF SpendInvariant, SpentBitsExact
  <2>2. tx_meta'[id].spent = SpentBy(bodies', id)
    <3>1. tx_meta'[id] = MetaOf(bodies', bodies', id)
      BY CommitBits DEF SpentBitsExact, MetaOf, SpentBy, HasOutputs, Spends
    <3> QED
      BY <3>1, MetaOfFields
  <2>3. SpentBy(bodies, id) \subseteq SpentBy(bodies', id)
    BY <1>1, SpentByMember
  <2> QED
    BY <2>1, <2>2, <2>3
<1>3. ASSUME NEW h \in DOMAIN app_states
      PROVE  h \in DOMAIN app_states' /\ app_states'[h] = app_states[h]
  <2>1. h # CommittedState.last_block_height
    BY CommitHeight
  <2> QED
    BY <2>1 DEF Commit, Insert
<1> QED
  BY <1>1, <1>2, <1>3 DEF Kept

LEMMA NextKeeps == TypeOK /\ SpendInvariant /\ BlockInvariant /\ [Next]_vars => Kept
<1> SUFFICES ASSUME TypeOK, SpendInvariant, BlockInvariant, [Next]_vars PROVE Kept
  OBVIOUS
<1>1. CASE Commit
  BY <1>1, CommitKeeps
<1>2. CASE ~ Commit
  <2>1. UNCHANGED <<bodies, tx_meta, app_states>>
    BY <1>2 DEF Next, NewWithStorage, NewWithStoragePanics, InitChain, BeginBlock, CheckTx,
                DeliverTx, EndBlock, Crash, CrashInCommit, RestartServer, dbVars, vars
  <2> QED
    BY <2>1 DEF Kept
<1> QED
  BY <1>1, <1>2

\* No block, not even a replayed one, removes a committed transaction, frees a
\* spent output or changes an app hash that was returned for an earlier height.
THEOREM CommittedStays == Spec => CommittedForever
<1>1. TypeOK /\ SpendInvariant /\ BlockInvariant /\ [Next]_vars => [Kept]_vars
  BY NextKeeps
<1>2. CommittedForever <=> [][Kept]_vars
  BY DEF CommittedForever, Kept
<1> QED
  BY <1>1, <1>2, InitType, NextType, InitSpends, NextSpends, InitBlocks, NextBlocks, PTL DEF Spec
-----------------------------------------------------------------------------
(* Proofs of committed transactions *)

LEMMA InitProofs == Init => ProofInvariant
BY DEF Init, ProofInvariant

LEMMA SameProofs ==
  ASSUME ProofInvariant, UNCHANGED dbVars
  PROVE  ProofInvariant'
BY DEF ProofInvariant, dbVars

\* A block stores the tree of its hash; an empty one repeats the hash before it.
LEMMA CommitProofs ==
  ASSUME TypeOK, BlockInvariant, ProofInvariant, Commit
  PROVE  ProofInvariant'
<1> DEFINE H == CommittedState.last_block_height
<1>1. PICK state \in stored_state : TRUE
  BY DEF Commit, BlockInvariant, Running
<1>2. /\ H = state.last_block_height + 1
      /\ state.last_block_height \in Nat
      /\ DOMAIN app_states = 1 .. state.last_block_height
      /\ state.last_block_height > 0 =>
           app_states[state.last_block_height] = last_state.last_apphash
  BY <1>1, CommitHeight, Zenon
  DEF Commit, BlockInvariant, ProofInvariant, InBlock, Running, TypeOK, ChainNodeState
<1>3. /\ app_states' = Insert(app_states, H, CommittedState.last_apphash)
      /\ stored_state' = {CommittedState}
      /\ merkle_proofs \subseteq merkle_proofs'
      /\ delivered_txs # <<>> => CommittedState.last_apphash \in merkle_proofs'
  BY Zenon DEF Commit
<1>4. /\ DOMAIN app_states' = 1 .. H
      /\ app_states'[H] = CommittedState.last_apphash
      /\ \A g \in DOMAIN app_states : g # H /\ app_states'[g] = app_states[g]
  <2>1. /\ DOMAIN app_states' = DOMAIN app_states \cup {H}
        /\ app_states'[H] = CommittedState.last_apphash
        /\ \A g \in DOMAIN app_states : g # H => app_states'[g] = app_states[g]
    BY <1>3 DEF Insert
  <2>2. \A n \in Nat : (1 .. n) \cup {n + 1} = 1 .. n + 1 /\ \A g \in 1 .. n : g # n + 1
    OBVIOUS
  <2> HIDE DEF H
  <2>3. DOMAIN app_states \cup {H} = 1 .. H /\ \A g \in DOMAIN app_states : g # H
    BY <1>2, <2>2
  <2> QED
    BY <2>1, <2>3
<1> HIDE DEF H
<1>5. ASSUME NEW id \in bodies
      PROVE  \E h \in DOMAIN app_states' :
               /\ \E k \in DOMAIN app_states'[h].txs : app_states'[h].txs[k] = id
               /\ \A g \in DOMAIN app_states' : g >= h => app_states'[g] \in merkle_proofs'
  <2>1. PICK h \in DOMAIN app_states :
          /\ \E k \in DOMAIN app_states[h].txs : app_states[h].txs[k] = id
          /\ \A g \in DOMAIN app_states : g >= h => app_states[g] \in merkle_proofs
    BY DEF ProofInvariant
  <2>2. app_states'[H] \in merkle_proofs'
    <3>1. CASE delivered_txs # <<>>
      BY <1>3, <1>4, <3>1
    <3>2. CASE delivered_txs = <<>>
      <4>1. CommittedState = last_state
        BY <3>2, CommittedFields
      <4>2. h \in 1 .. state.last_block_height /\ state.last_block_height > 0
        BY <1>2, <2>1
      <4>3. app_states[state.last_block_height] \in merkle_proofs
        BY <1>2, <2>1, <4>2
      <4>4. app_states'[H] = app_states[state.last_block_height]
        BY <1>2, <1>4, <4>1, <4>2
      <4> QED
        BY <1>3, <4>3, <4>4
    <3> QED
      BY <3>1, <3>2
  <2>3. h \in DOMAIN app_states' /\ app_states'[h] = app_states[h]
    BY <1>2, <1>4
  <2>4. ASSUME NEW g \in DOMAIN app_states', g >= h
        PROVE  app_states'[g] \in merkle_proofs'
    <3>1. g = H \/ g \in DOMAIN app_states
      BY <1>2, <1>4
    <3> QED
      BY <1>3, <1>4, <2>1, <2>2, <2>4, <3>1
  <2> QED
    BY <2>1, <2>3, <2>4
<1>6. ASSUME NEW id \in Delivered
      PROVE  \E h \in DOMAIN app_states' :
               /\ \E k \in DOMAIN app_states'[h].txs : app_states'[h].txs[k] = id
               /\ \A g \in DOMAIN app_states' : g >= h => app_states'[g] \in merkle_proofs'
  <2>1. delivered_txs # <<>> /\ \E k \in DOMAIN delivered_txs : delivered_txs[k] = id
    BY DEF Delivered
  <2>2. app_states'[H].txs = delivered_txs
    BY <1>4, <2>1, CommittedFields
  <2>3. H \in DOMAIN app_states' /\ \A g \in DOMAIN app_states' : g >= H => g = H
    <3>1. H \in Nat /\ H > 0
      BY <1>2
    <3>2. \A g \in 1 .. H : g >= H => g = H
      BY <3>1
    <3> QED
      BY <1>4, <3>1, <3>2
  <2> QED
    BY <1>3, <1>4, <2>1, <2>2, <2>3
<1>7. bodies' = bodies \cup Delivered
  BY CommitChain DEF Chain
<1>8. \A s \in stored_state' :
        DOMAIN app_states' = 1 .. s.last_block_height
          /\ app_states'[s.last_block_height] = s.last_apphash
  BY <1>3, <1>4 DEF H
<1> QED
  BY <1>5, <1>6, <1>7, <1>8 DEF ProofInvariant

LEMMA NextProofs == TypeOK /\ BlockInvariant /\ SpendInvariant /\ ProofInvariant /\ [Next]_vars
                      => ProofInvariant'
<1> SUFFICES ASSUME TypeOK, BlockInvariant, SpendInvariant, ProofInvariant, [Next]_vars
             PROVE  ProofInvariant'
  OBVIOUS
<1>1. CASE Commit
  BY <1>1, CommitProofs
<1>2. CASE InitChain
  <2>1. stored_state = {} /\ bodies = {} /\ DOMAIN app_states = {}
    BY <1>2 DEF InitChain, BlockInvariant, SpendInvariant
  <2>2. stored_state' = {genesis_state} /\ bodies' = bodies /\ app_states' = app_states
    BY <1>2 DEF InitChain
  <2>3. genesis_state.last_block_height = 0
    BY DEF genesis_state
  <2> QED
    BY <2>1, <2>2, <2>3 DEF ProofInvariant
<1>3. CASE ~ Commit /\ ~ InitChain
  <2>1. UNCHANGED dbVars
    BY <1>3 DEF Next, NewWithStorage, NewWithStoragePanics, BeginBlock, CheckTx,
                DeliverTx, EndBlock, Crash, CrashInCommit, RestartServer, vars
  <2> QED
    BY <2>1, SameProofs
<1> QED
  BY <1>1, <1>2, <1>3

\* The heights a query is answered from have the entries it unwraps.
LEMMA ProofsServe ==
  TypeOK /\ BlockInvariant /\ ProofInvariant => ProofServable
<1> SUFFICES ASSUME TypeOK, BlockInvariant, ProofInvariant, phase \in {"idle", "deliver"},
                    NEW id \in bodies
             PROVE  /\ ~ QueryPanics(id, 0)
                    /\ \E h \in DOMAIN app_states :
                         /\ \E k \in DOMAIN app_states[h].txs : app_states[h].txs[k] = id
                         /\ \A g \in h .. Len(headers) : ~ QueryPanics(id, g)
  BY DEF ProofServable
<1>1. PICK state \in stored_state : TRUE
  BY DEF BlockInvariant, Running
<1>2. /\ last_state.last_block_height = state.last_block_height
      /\ state.last_block_height \in Nat
      /\ DOMAIN app_states = 1 .. state.last_block_height
  BY <1>1 DEF BlockInvariant, ProofInvariant, TypeOK, ChainNodeState
<1>3. PICK h \in DOMAIN app_states :
        /\ \E k \in DOMAIN app_states[h].txs : app_states[h].txs[k] = id
        /\ \A g \in DOMAIN app_states : g >= h => app_states[g] \in merkle_proofs
  BY DEF ProofInvariant
<1>4. ASSUME NEW g \in Nat, g = 0 \/ g >= h
      PROVE  ~ QueryPanics(id, g)
  <2>1. QueryHeight(g) \in DOMAIN app_states /\ QueryHeight(g) >= h
    BY <1>2, <1>3, <1>4 DEF QueryHeight
  <2> QED
    BY <1>3, <2>1 DEF QueryPanics
<1>5. \A g \in h .. Len(headers) : g \in Nat /\ g >= h
  <2>1. h \in Nat
    BY <1>2, <1>3
  <2> QED
    BY <2>1
<1> QED
  BY <1>3, <1>4, <1>5

\* Except between EndBlock and Commit, a store query with proof finds the app
\* hash and the tree it unwraps, for every committed transaction, over crashes,
\* replays and empty blocks.
THEOREM ProofsServable == Spec => []ProofServable
BY InitType, NextType, InitSpends, NextSpends, InitBlocks, NextBlocks, InitProofs, NextProofs,
   ProofsServe, PTL DEF Spec
=============================================================================
