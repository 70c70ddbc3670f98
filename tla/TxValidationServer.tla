------------------------- MODULE TxValidationServer -------------------------
(***************************************************************************)
(* The transaction validation enclave's server (tx-validation/app): one    *)
(* ZMQ REP loop that answers one request at a time from a sled tree, txdb, *)
(* holding the sealed transactions and the last committed app hash.        *)
(*                                                                         *)
(* sled buffers inserts and writes them out in the background or on flush, *)
(* so after a crash any of the inserts since the last flush may be gone.   *)
(* txdb is what the running server reads, txdb_disk what a flush has made  *)
(* durable.  A sealed transaction is determined by its id, so the tree is  *)
(* the set of its keys.                                                    *)
(***************************************************************************)
EXTENDS TxValidation

CONSTANTS
  NETWORK_HEX_ID  \* the chain id byte compiled into the enclave

VARIABLES
  txdb,           \* ids of the sealed transactions the server can look up
  txdb_disk,      \* those of them that are flushed
  last_apphash    \* the value under the key "last_apphash", if any

serverVars == <<txdb, txdb_disk, last_apphash>>

ServerInit ==
  /\ txdb = {}
  /\ txdb_disk = {}
  /\ last_apphash = {}

-----------------------------------------------------------------------------
(* Requests.  A request is evaluated by a predicate saying that the reply  *)
(* is Ok and, where the handler writes, by an action.                      *)

\* Ok iff the caller's last app hash is the stored one and the chain id is the enclave's.
CheckChain(chain_hex_id, last_app_hash) ==
  /\ last_app_hash = last_apphash
  /\ chain_hex_id = NETWORK_HEX_ID

\* Mutant: the hash is inserted and nothing is flushed.
CommitBlockNoFlush(app_hash) ==
  /\ last_apphash' = {app_hash}
  /\ UNCHANGED <<txdb, txdb_disk>>

\* Inserts the hash and flushes the tree, every earlier insert included.
CommitBlock(app_hash) ==
  /\ last_apphash' = {app_hash}
  /\ txdb_disk' = txdb
  /\ UNCHANGED txdb

lookup(tx) == \A k \in DOMAIN tx.inputs : tx.inputs[k].id \in txdb

check_chain_info(info) == info.chain_hex_id = NETWORK_HEX_ID

\* Ok iff the enclave accepts the transaction (an unbonding is never sent to it).
VerifyTx(id, account, info) ==
  LET tx == Tx[id] IN
  /\ check_chain_info(info)
  /\ \/ /\ tx.kind = "TransferTx"
        /\ lookup(tx)
        /\ verify_transfer(tx, info)
     \/ /\ tx.kind = "DepositStakeTx"
        /\ lookup(tx)
        /\ verify_bonded_deposit_core(tx, info)
     \/ /\ tx.kind = "WithdrawUnbondedStakeTx"
        /\ verify_unbonded_withdraw_core(tx, info, account)

\* The transactions with outputs are sealed and inserted once they are verified.
HasOutputs(id) == Tx[id].kind \in {"TransferTx", "WithdrawUnbondedStakeTx"}

InsertSealed(id) ==
  /\ txdb' = IF HasOutputs(id) THEN txdb \cup {id} ELSE txdb
  /\ UNCHANGED <<txdb_disk, last_apphash>>

\* The server crashes between two requests and is started again: the flushed
\* entries are there, each of the others may or may not be.
ServerRestart ==
  /\ \E lost \in SUBSET (txdb \ txdb_disk) : txdb' = txdb \ lost
  /\ txdb_disk' = txdb'
  /\ UNCHANGED last_apphash
=============================================================================
