------------------------ MODULE ChainNodeRefinement -------------------------
(***************************************************************************)
(* ChainNode implements Ledger: the abstract ledger is read off the node's *)
(* database, and every handler, crash, restart and replay either leaves it *)
(* alone or moves it by one whole block.                                   *)
(***************************************************************************)
EXTENDS ChainNode

StoredLedger(state) ==
  [height |-> state.last_block_height,
   time |-> state.block_time,
   unspent |-> {o \in OutputsOf(bodies) : o.index \notin tx_meta[o.id].spent},
   created |-> {},
   accounts |-> state.last_account_root_hash,
   pool |-> state.rewards_pool.remaining]

L == INSTANCE Ledger WITH
       ledger <- {StoredLedger(state) : state \in stored_state},
       decided <- [height |-> Len(headers), time |-> HeaderTime(Len(headers)),
                   txs |-> block.txs, complete |-> block.complete]

\* The node's database always holds the ledger after some number of whole
\* blocks, each the one Tendermint decided, applied to the one before by the
\* pure rules: the overlay, the batch written in Commit, the enclave's sealed
\* copies, crashes between any two calls and the replay of an interrupted
\* block leave no trace in it.
ImplementsLedger == L!LedgerSpec
=============================================================================
