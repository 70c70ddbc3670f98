---------------------------- MODULE Synchronizer ----------------------------
(***************************************************************************)
(* ManualSynchronizer: sync and sync_all, as the RPC server's HTTP thread  *)
(* runs them.  The range of blocks is fixed when sync starts; the stored   *)
(* app hash is read again before every chunk, batch and block.             *)
(***************************************************************************)
EXTENDS ClientIndex

CONSTANT BatchSize

ASSUME BatchAssumption == BatchSize \in Nat \ {0}

VARIABLE sync    \* the sync call in progress

NoSync == [pc |-> "idle"]
HTTP == "http"

At(pc) == sync.pc = pc

\* The sync RPCs: parameters are read from the wallet; sync_all forgets the
\* height first.
StartSync(w, all) ==
  /\ At("idle")
  /\ sync' = [pc |-> "status", wallet |-> w, all |-> all, staked |-> staking_addresses[w],
              height |-> 0, next |-> 0, last |-> 0]
  /\ global_state' = IF all THEN [global_state EXCEPT ![w] = NoState] ELSE global_state
  /\ UNCHANGED <<tip, staking_addresses, transactions, address_details, job>>

\* The node's status and the last known height.
ReadStatus ==
  /\ At("status")
  /\ sync' = [sync EXCEPT !.pc = "chunk", !.height = tip,
                          !.next = last_block_height(sync.wallet) + 1]
  /\ UNCHANGED indexVars

\* on_next for block h, after which sync goes on at pc.
Handle(h, pc) ==
  /\ on_next(HTTP, h, sync.wallet, sync.staked)
  /\ sync' = [sync EXCEPT !.pc = pc]
  /\ UNCHANGED <<tip, staking_addresses, transactions, address_details, global_state>>

\* The app hash of block h is the stored one: nothing was committed since.
SameAppHash(h) == last_app_hash(sync.wallet) = app_hash(h)

\* The last block of a chunk: the range of the chunk ends with the height.
ChunkEnd == IF sync.next + BatchSize - 1 < sync.height THEN sync.next + BatchSize - 1 ELSE sync.height

\* fast_forward_status at the start of a chunk; otherwise fetch its blocks.
ForwardToStatus == At("chunk") /\ sync.next <= sync.height /\ SameAppHash(sync.height)
                   /\ Handle(sync.height, "last")
FetchChunk ==
  /\ At("chunk")
  /\ sync.next <= sync.height
  /\ ~ SameAppHash(sync.height)
  /\ sync' = [sync EXCEPT !.pc = "batch", !.last = ChunkEnd]
  /\ UNCHANGED indexVars
SyncDone ==
  /\ At("chunk")
  /\ sync.next > sync.height
  /\ sync' = NoSync
  /\ UNCHANGED indexVars

\* fast_forward_block to the last block of the chunk; otherwise fetch results.
ForwardBatch == At("batch") /\ SameAppHash(sync.last) /\ Handle(sync.last, "skip")
FetchResults ==
  /\ At("batch")
  /\ ~ SameAppHash(sync.last)
  /\ sync' = [sync EXCEPT !.pc = "each"]
  /\ UNCHANGED indexVars

\* The blocks of a chunk, one by one, with fast_forward_status before each.
ForwardFromBlock == At("each") /\ sync.next <= sync.last /\ SameAppHash(sync.height)
                    /\ Handle(sync.height, "last")
NextBlock == At("each") /\ sync.next <= sync.last /\ ~ SameAppHash(sync.height)
             /\ Handle(sync.next, "one")
ChunkDone ==
  /\ At("each")
  /\ sync.next > sync.last
  /\ sync' = [sync EXCEPT !.pc = "chunk"]
  /\ UNCHANGED indexVars

\* on_next has returned: sync returns, goes to the next chunk or the next block.
BlockHandled ==
  /\ set_global_state(HTTP)
  /\ sync' = CASE At("last") -> NoSync
               [] At("skip") -> [sync EXCEPT !.pc = "chunk", !.next = sync.last + 1]
               [] At("one") -> [sync EXCEPT !.pc = "each", !.next = @ + 1]

\* A call to Tendermint, or on_next, fails: sync returns the error.
CallsTendermint ==
  \/ sync.pc \in {"status", "batch"}
  \/ At("chunk") /\ sync.next <= sync.height
  \/ At("each") /\ sync.next <= sync.last /\ SameAppHash(sync.height)
SyncFails ==
  \/ "rpc" \in Faults /\ CallsTendermint /\ sync' = NoSync /\ UNCHANGED indexVars
  \/ on_next_fails(HTTP) /\ sync' = NoSync

SyncStep ==
  \/ ReadStatus \/ ForwardToStatus \/ FetchChunk \/ SyncDone
  \/ ForwardBatch \/ FetchResults \/ ForwardFromBlock \/ NextBlock \/ ChunkDone
  \/ HandleBlock(HTTP) /\ UNCHANGED sync
  \/ BlockHandled

SyncInit == IndexInit /\ sync = NoSync
=============================================================================
