------------------------------ MODULE AutoSync ------------------------------
(***************************************************************************)
(* The background synchronisation of unlocked wallets: the state machine   *)
(* of websocket_core, in a thread of its own, and the websocket of         *)
(* websocket_rpc, in another.  The network thread forwards what Tendermint *)
(* sends to the core's queue, and the core's requests to Tendermint.       *)
(***************************************************************************)
EXTENDS ClientIndex

CONSTANTS
  MaxRequests,   \* requests and replies under way at once
  MaxUnlocks     \* wallets in the core's list

ASSUME AutoAssumption == MaxRequests \in Nat \ {0} /\ MaxUnlocks \in Nat

VARIABLES
  core,          \* the core thread
  inbox,         \* its queue (my_receiver)
  wire,          \* requests on their way to Tendermint
  conn           \* the websocket, and whether the subscription is in place

autoVars == <<core, inbox, wire, conn>>

CORE == "core"

Status == [id |-> "status"]
BlockRequest(h) == [id |-> "block", height |-> h]
Subscribe == [id |-> "subscribe"]

AddWallet(w) == [id |-> "add_wallet", wallet |-> w]
Event(h) == [id |-> "event", height |-> h]
StatusReply(h) == [id |-> "status_reply", height |-> h]
BlockReply(h) == [id |-> "block_reply", height |-> h]
NullReply == [id |-> "null_block_reply"]

Fresh == [state |-> "ReadyProcess", max_height |-> 0, wallets |-> <<>>, current |-> 1,
          pc |-> "recv", reply |-> FALSE]

get_current_wallet == core.wallets[core.current].wallet
get_current_height == last_block_height(get_current_wallet)

-----------------------------------------------------------------------------
(* Handling a message; pc is where the loop goes on *)

Receive(id) == core.pc = "recv" /\ inbox # <<>> /\ Head(inbox).id = id

Handled(c) == core' = c /\ inbox' = Tail(inbox) /\ UNCHANGED <<wire, conn>>

\* The staking addresses are read once, here.
add_wallet ==
  /\ Receive("add_wallet")
  /\ LET w == Head(inbox).wallet
     IN Handled([core EXCEPT !.pc = "poll",
                             !.wallets = Append(@, [wallet |-> w, staked |-> staking_addresses[w]])])
  /\ UNCHANGED indexVars

change_to_wait(c) == [c EXCEPT !.state = "WaitProcess"]
change_wallet(c) == [c EXCEPT !.current = (@ % Len(c.wallets)) + 1]

\* Mutant: a block above the next one is saved too.
AnyLaterBlock(h) == core.wallets # <<>> /\ h > get_current_height

\* do_save_block_to_chain drops every block but the next one.
Saves(h) == core.wallets # <<>> /\ h = get_current_height + 1

write_block(h) ==
  /\ on_next(CORE, h, get_current_wallet, core.wallets[core.current].staked)
  /\ UNCHANGED <<tip, staking_addresses, transactions, address_details, global_state>>

\* A new block event, and a block the core has asked for.
do_save_block_to_chain(id, next) ==
  /\ Receive(id)
  /\ LET h == Head(inbox).height
     IN \/ /\ Saves(h)
           /\ Handled([core EXCEPT !.pc = "save", !.reply = (id = "block_reply")])
           /\ write_block(h)
        \/ /\ ~ Saves(h)
           /\ Handled([core EXCEPT !.pc = next])
           /\ UNCHANGED indexVars

\* write_block has returned.
BlockSaved ==
  /\ set_global_state(CORE)
  /\ core' = [core EXCEPT !.pc = IF core.reply THEN "check" ELSE "poll"]
  /\ UNCHANGED <<inbox, wire, conn>>

\* After a requested block: is the wallet at the height of the status?
all_synced ==
  /\ core.pc = "check"
  /\ core' = [(IF get_current_height >= core.max_height THEN change_to_wait(core) ELSE core)
              EXCEPT !.pc = "poll"]
  /\ UNCHANGED <<indexVars, inbox, wire, conn>>

\* Tendermint has no such block, or answers with an error.
null_block == Receive("null_block_reply") /\ Handled([change_to_wait(core) EXCEPT !.pc = "poll"])
              /\ UNCHANGED indexVars

\* Get the blocks up to the node's height, or wait and take the next wallet.
prepare_get_blocks ==
  /\ Receive("status_reply")
  /\ LET c == [core EXCEPT !.max_height = Head(inbox).height, !.pc = "poll"]
     IN Handled(IF get_current_height < c.max_height THEN [c EXCEPT !.state = "GetBlocks"]
                ELSE change_wallet(change_to_wait(c)))
  /\ UNCHANGED indexVars

receive_timeout ==
  /\ core.pc = "recv"
  /\ inbox = <<>>
  /\ core' = [core EXCEPT !.pc = "poll"]
  /\ UNCHANGED <<indexVars, inbox, wire, conn>>

-----------------------------------------------------------------------------
(* Polling *)

Polled(state) == core' = [core EXCEPT !.pc = "recv", !.state = state]

\* A request is lost, and polling returns an error, when the network thread is gone.
Room == Len(wire) + Len(SelectSeq(inbox, LAMBDA m : m.id \notin {"event", "add_wallet"})) < MaxRequests

\* Nothing to do: no wallet, waiting, waiting for the status, or too early.
poll_idle ==
  /\ core.pc = "poll"
  /\ core.state = "ReadyProcess" => core.wallets = <<>> \/ conn.state = "down"
  /\ Polled(core.state)
  /\ UNCHANGED <<indexVars, inbox, wire, conn>>

check_status ==
  /\ core.pc = "poll" /\ core.state = "ReadyProcess" /\ core.wallets # <<>> /\ conn.state # "down"
  /\ Polled("GetStatus")
  /\ wire' = Append(wire, Status)
  /\ UNCHANGED <<indexVars, inbox, conn>>

\* WAIT_PROCESS_TIME is over.
wait_over ==
  /\ core.pc = "poll" /\ core.state = "WaitProcess"
  /\ Polled("ReadyProcess")
  /\ UNCHANGED <<indexVars, inbox, wire, conn>>

\* BLOCK_REQUEST_TIME is over.
send_request_block ==
  /\ core.pc = "poll" /\ core.state = "GetBlocks" /\ conn.state # "down" /\ Room
  /\ Polled(core.state)
  /\ wire' = Append(wire, BlockRequest(get_current_height + 1))
  /\ UNCHANGED <<indexVars, inbox, conn>>

-----------------------------------------------------------------------------
(* The core thread *)

\* parse(..).expect("correct parsing"): an error of Tendermint, in its reply, in
\* the call for the block results or in the decryption, ends the thread.
core_panics ==
  /\ \/ on_next_fails(CORE) /\ UNCHANGED inbox
     \/ /\ "rpc" \in Faults
        /\ core.pc = "recv" /\ inbox # <<>>
        /\ \/ Head(inbox).id = "status_reply"
           \/ Head(inbox).id \in {"event", "block_reply"} /\ Saves(Head(inbox).height)
        /\ UNCHANGED indexVars
        /\ inbox' = Tail(inbox)
  /\ core' = [core EXCEPT !.pc = "dead"]
  /\ UNCHANGED <<wire, conn>>

CoreStep ==
  \/ add_wallet \/ do_save_block_to_chain("event", "poll")
  \/ do_save_block_to_chain("block_reply", "check")
  \/ HandleBlock(CORE) /\ UNCHANGED autoVars
  \/ BlockSaved \/ all_synced \/ null_block \/ prepare_get_blocks \/ receive_timeout
  \/ poll_idle \/ check_status \/ wait_over \/ send_request_block

-----------------------------------------------------------------------------
(* The network thread and Tendermint *)

\* Mutant: what was sent before the connection is open is dropped.
ConnectAfresh ==
  /\ conn.state = "connecting"
  /\ conn' = [conn EXCEPT !.state = "up"]
  /\ wire' = <<Subscribe>>
  /\ UNCHANGED <<indexVars, core, inbox>>

connect ==
  /\ conn.state = "connecting"
  /\ conn' = [conn EXCEPT !.state = "up"]
  /\ wire' = Append(wire, Subscribe)
  /\ UNCHANGED <<indexVars, core, inbox>>

\* Tendermint answers a request.  core.send(..).expect("core send") ends the
\* network thread when the core thread is gone.
Answer(m) ==
  IF core.pc = "dead" THEN conn' = [state |-> "down", subscribed |-> FALSE] /\ UNCHANGED inbox
  ELSE inbox' = Append(inbox, m) /\ UNCHANGED conn

\* An error has no block in it.
BlockAnswers(h) == IF h > tip THEN {NullReply}
                   ELSE {BlockReply(h)} \cup (IF "rpc" \in Faults THEN {NullReply} ELSE {})

Reply ==
  /\ conn.state = "up" /\ wire # <<>>
  /\ wire' = Tail(wire)
  /\ LET r == Head(wire)
     IN CASE r.id = "subscribe" -> conn' = [conn EXCEPT !.subscribed = TRUE] /\ UNCHANGED inbox
          [] r.id = "status" -> Answer(StatusReply(tip))
          [] r.id = "block" -> \E m \in BlockAnswers(r.height) : Answer(m)
  /\ UNCHANGED <<indexVars, core>>

\* A new block, and its event if the subscription is in place.
new_block ==
  /\ NewBlock
  /\ IF conn.subscribed THEN Answer(Event(tip + 1)) ELSE UNCHANGED <<inbox, conn>>
  /\ UNCHANGED <<core, wire>>

\* The connection cannot be made or is closed: block_on(..).expect ends the
\* network thread, and nothing starts it again.
disconnect ==
  /\ "disconnect" \in Faults /\ conn.state # "down"
  /\ conn' = [state |-> "down", subscribed |-> FALSE]
  /\ wire' = <<>>
  /\ UNCHANGED <<indexVars, core, inbox>>

-----------------------------------------------------------------------------

\* sync_unlock_wallet puts the wallet in the core's queue; it panics when the
\* core thread is gone.
Queued == SelectSeq(inbox, LAMBDA m : m.id = "add_wallet")
sync_unlock_wallet(w) ==
  /\ core.pc # "dead"
  /\ Len(core.wallets) + Len(Queued) < MaxUnlocks
  /\ inbox' = Append(inbox, AddWallet(w))
  /\ UNCHANGED <<indexVars, core, wire, conn>>

AutoStart ==
  /\ core' = Fresh
  /\ inbox' = <<>>
  /\ wire' = <<>>
  /\ conn' = [state |-> "connecting", subscribed |-> FALSE]

\* The process is killed and started again: no wallet is unlocked.
AutoKilled ==
  /\ "kill" \in Faults
  /\ AutoStart
  /\ job' = [t \in Thread |-> NoJob]
  /\ UNCHANGED <<tip, staking_addresses, transactions, address_details, global_state>>

AutoInit ==
  /\ IndexInit
  /\ core = Fresh
  /\ inbox = <<>>
  /\ wire = <<>>
  /\ conn = [state |-> "connecting", subscribed |-> FALSE]

-----------------------------------------------------------------------------

\* A core that waits for the node's status has a request for it, or the reply,
\* under way: websocket_core asks once and has no timeout in GetStatus, so that
\* it would wait for good.  Only a lost connection loses the request.
StatusAwaited ==
  core.state = "GetStatus" /\ core.pc # "dead" /\ conn.state # "down" =>
    \/ \E k \in DOMAIN wire : wire[k] = Status
    \/ \E k \in DOMAIN inbox : inbox[k].id = "status_reply"
=============================================================================
