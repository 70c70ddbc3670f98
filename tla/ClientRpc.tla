----------------------------- MODULE ClientRpc ------------------------------
(***************************************************************************)
(* The client RPC server: the HTTP thread, which serves one call at a time *)
(* (Synchronizer), and the core and network threads of the background      *)
(* synchronisation (AutoSync), over one storage.                           *)
(***************************************************************************)
EXTENDS Synchronizer, AutoSync

rpcVars == <<indexVars, sync, autoVars>>

HttpStep == (SyncStep \/ SyncFails) /\ UNCHANGED autoVars

\* Calls that start when the HTTP thread is free.
HttpCall ==
  \E w \in Wallet :
    \/ \E all \in BOOLEAN : StartSync(w, all) /\ UNCHANGED autoVars
    \/ At("idle") /\ new_staking_address(w) /\ UNCHANGED <<sync, autoVars>>
    \/ At("idle") /\ sync_unlock_wallet(w) /\ UNCHANGED sync

Background == (CoreStep \/ core_panics \/ connect \/ Reply \/ new_block \/ disconnect) /\ UNCHANGED sync

\* The process is killed and started again.
Killed == AutoKilled /\ sync' = NoSync

RpcInit == SyncInit /\ AutoInit
RpcNext == HttpStep \/ HttpCall \/ Background \/ Killed
RpcSpec == RpcInit /\ [][RpcNext]_rpcVars

-----------------------------------------------------------------------------

\* sync_all synchronises "from genesis": it starts at the first block.
SyncAllFromGenesis == [][ReadStatus /\ sync.all => sync'.next = 1]_rpcVars
=============================================================================
