---------------------------- MODULE GenesisSetup ----------------------------
(***************************************************************************)
(* Setting up a chain: the init and run commands of dev-utils, the files   *)
(* they leave, and what chain-abci makes of them when it is started.       *)
(*                                                                         *)
(* init asks the operator a series of questions, computes the genesis app  *)
(* hash and writes it to Tendermint's genesis.json and to a Procfile; the  *)
(* process may be killed at any question or between two writes.  Nodes are *)
(* not running while init is.                                              *)
(***************************************************************************)
EXTENDS InitConfig, TLC

CONSTANTS
  MANTISSA,        \* bits of an f64's mantissa
  ChainId,         \* chain ids the operator may type
  DefaultId,       \* the one tendermint init makes up
  WellFormed,      \* ids with a known prefix and two hex digits at the end
  NetworkIds,      \* of these, the ones of the network the enclave is built for
  Accounts,        \* the staking addresses new_staking_address returns, per init
  DefaultAddress,  \* RedeemAddress::default()
  TypedAddress,    \* further addresses the operator may type
  TypedAmount,     \* amounts the operator may type, in base units
  DefaultCoins,    \* amounts offered for the first wallets
  STAKE,           \* the amount of the validator's wallet and the required stake
  Time, TmKey,     \* genesis times; the key of Tendermint's validator
  HandWritten,     \* configurations an operator may install by hand
  MaxInits, MaxWallets, IoFails

VARIABLES
  genesis,         \* Tendermint's genesis.json
  procfile,
  storage,         \* chain-abci's data directory
  cmd,             \* the running init
  reported,        \* what the latest init ended with
  inits,           \* inits begun
  node,            \* chain-abci
  voting,          \* its validator_voting_power after a restart, if restarted
  tm_validators    \* the validators Tendermint was told of

vars == <<genesis, procfile, storage, cmd, reported, inits, node, voting, tm_validators>>

NoGenesis == [kind |-> "absent"]
Torn == [kind |-> "torn"]     \* created or truncated, and not yet written
NoStorage == [app_hash |-> {}, chain_id |-> {}, last_state |-> {}]
Idle == [pc |-> "idle"]

-----------------------------------------------------------------------------
(* Amounts typed in coins and read as an f64 *)

\* The float nearest to p / q, ties to even, as a fraction.
Float(p, q) ==
  IF p = 0 THEN <<0, 1>> ELSE
  LET Num(e) == IF e < 0 THEN p * 2^(-e) ELSE p
      Den(e) == IF e > 0 THEN q * 2^e ELSE q
      e == CHOOSE x \in -(2 * MANTISSA)..(2 * MANTISSA) :
             2^(MANTISSA - 1) * Den(x) <= Num(x) /\ Num(x) < 2^MANTISSA * Den(x)
      m == Num(e) \div Den(e)
      r == 2 * (Num(e) % Den(e))
      n == IF r > Den(e) \/ (r = Den(e) /\ m % 2 = 1) THEN m + 1 ELSE m
  IN  IF e < 0 THEN <<n, 2^(-e)>> ELSE <<n * 2^e, 1>>

\* parse::<f64>(), times the units of a coin, cut off to an integer.
amount_u64(n) ==
  LET x == Float(n, MAX_COIN_DECIMALS)
      y == Float(x[1] * MAX_COIN_DECIMALS, x[2])
  IN  y[1] \div y[2]

-----------------------------------------------------------------------------
(* dev-utils init *)

End(result) == /\ cmd' = Idle
               /\ reported' = result
Go(c) == /\ cmd' = c
         /\ UNCHANGED reported
NodeUnchanged == UNCHANGED <<inits, node, voting, tm_validators>>
FilesUnchanged == UNCHANGED <<genesis, procfile, storage>>

\* The directories are removed; a failure to remove one is ignored.
clear_disk ==
  /\ cmd = Idle /\ node # "up" /\ inits < MaxInits
  /\ cmd' = [pc |-> "prepare_tendermint"]
  /\ reported' = "none"
  /\ inits' = inits + 1
  /\ storage' \in {NoStorage} \cup (IF IoFails THEN {storage} ELSE {})
  /\ node' = "down"
  /\ voting' = {}
  /\ tm_validators' = {}
  /\ UNCHANGED <<genesis, procfile>>

\* tendermint init, if there is no genesis.json, then unsafe_reset_all.
prepare_tendermint ==
  /\ cmd.pc = "prepare_tendermint"
  /\ genesis' = IF genesis # NoGenesis THEN genesis ELSE
                [kind |-> "json", key |-> TmKey, chain_id |-> DefaultId, time |-> 0,
                 app_hash |-> {}, app_state |-> {}]
  /\ Go([pc |-> "read_tendermint_genesis"])
  /\ UNCHANGED <<procfile, storage>>
  /\ NodeUnchanged

read_tendermint_genesis ==
  /\ cmd.pc = "read_tendermint_genesis"
  /\ IF genesis = Torn THEN End("panic")
     ELSE Go([pc |-> "read_chainid", chainid |-> genesis.chain_id, key |-> genesis.key])
  /\ FilesUnchanged /\ NodeUnchanged

check_chainid(id) == id \in WellFormed

read_chainid ==
  /\ cmd.pc = "read_chainid"
  /\ \E id \in ChainId \cup {cmd.chainid} :
       IF check_chainid(id) THEN Go([cmd EXCEPT !.pc = "read_staking_address", !.chainid = id])
                            ELSE End("Err")
  /\ FilesUnchanged /\ NodeUnchanged

\* Insert or overwrite the address; the panics leave the loop.
do_read_wallet(c, address, typed) ==
  LET amount == amount_u64(typed)
  IN  IF new_coin(amount) = {} \/ sub(c.remain_coin, amount) = {} THEN End("panic")
      ELSE Go([c EXCEPT !.pc = "read_wallets",
                        !.distribution = (address :> ExternallyOwned(amount)) @@ @,
                        !.remain_coin = @ - amount,
                        !.addresses = Append(@, address)])

\* A wallet with new staking addresses, the first of them the validator's.
read_staking_address ==
  /\ cmd.pc = "read_staking_address"
  /\ do_read_wallet([pc |-> "read_wallets", chainid |-> cmd.chainid, key |-> cmd.key,
                     distribution |-> << >>, remain_coin |-> MAX_COIN, addresses |-> <<>>],
                    Head(Accounts[inits]), STAKE)
  /\ FilesUnchanged /\ NodeUnchanged

ReadWalletsDone == cmd.remain_coin = 0 /\ Len(cmd.addresses) >= 4

\* One round of the loop: the address and the amount typed, or the ones offered.
read_wallets ==
  /\ cmd.pc = "read_wallets" /\ ~ReadWalletsDone
  /\ Len(cmd.addresses) < MaxWallets
  /\ LET j == Len(cmd.addresses)
         others == Tail(Accounts[inits])
         this_address == IF j <= Len(others) THEN others[j] ELSE DefaultAddress
         this_coin == IF j <= Len(DefaultCoins) THEN DefaultCoins[j] ELSE cmd.remain_coin
     IN  \E a \in TypedAddress \cup {this_address}, n \in TypedAmount \cup {this_coin} :
           do_read_wallet(cmd, a, n)
  /\ FilesUnchanged /\ NodeUnchanged

\* Genesis time, council node and incentive addresses; each question offers an answer.
read_incentives ==
  /\ cmd.pc = "read_wallets" /\ ReadWalletsDone
  /\ \E t \in Time, from \in TypedAddress \cup {cmd.addresses[2]},
        to \in TypedAddress \cup {cmd.addresses[3]}, long \in TypedAddress \cup {cmd.addresses[4]} :
       Go([pc |-> "generate_app_info", chainid |-> cmd.chainid, key |-> cmd.key, time |-> t,
           conf |-> [distribution |-> cmd.distribution, launch_incentive_from |-> from,
                     launch_incentive_to |-> to, long_term_incentive |-> long,
                     required_council_node_stake |-> STAKE,
                     council_nodes |-> <<[address |-> Head(Accounts[inits]), key |-> cmd.key]>>]])
  /\ FilesUnchanged /\ NodeUnchanged

\* The genesis app hash of a configuration; empty if it is not valid.
do_generate(conf, time) == {compute_app_hash(g.state) : g \in validate_config_get_genesis(conf, time)}

generate_app_info ==
  /\ cmd.pc = "generate_app_info"
  /\ LET app_hash == do_generate(cmd.conf, cmd.time)
     IN  IF app_hash = {} THEN End("panic")
         ELSE Go([pc |-> "write_tendermint_genesis", chainid |-> cmd.chainid, time |-> cmd.time,
                  app_hash |-> app_hash, app_state |-> {cmd.conf}])
  /\ FilesUnchanged /\ NodeUnchanged

\* File::create truncates the file that was read.
write_tendermint_genesis ==
  /\ cmd.pc = "write_tendermint_genesis"
  /\ genesis' = Torn
  /\ Go([pc |-> "write_all", chainid |-> cmd.chainid, app_hash |-> cmd.app_hash,
         json |-> [genesis EXCEPT !.app_hash = cmd.app_hash, !.app_state = cmd.app_state,
                                  !.time = cmd.time, !.chain_id = cmd.chainid]])
  /\ UNCHANGED <<procfile, storage>>
  /\ NodeUnchanged

\* Mutant: the chain id of genesis.json is left as it was.
WriteOldId ==
  /\ cmd.pc = "write_all"
  /\ genesis' = [cmd.json EXCEPT !.chain_id = DefaultId]
  /\ Go([pc |-> "write_overmind_procfile", chainid |-> cmd.chainid, app_hash |-> cmd.app_hash])
  /\ UNCHANGED <<procfile, storage>>
  /\ NodeUnchanged

\* The result of the write is dropped.
write_all ==
  /\ cmd.pc = "write_all"
  /\ genesis' \in {cmd.json} \cup (IF IoFails THEN {Torn} ELSE {})
  /\ Go([pc |-> "write_overmind_procfile", chainid |-> cmd.chainid, app_hash |-> cmd.app_hash])
  /\ UNCHANGED <<procfile, storage>>
  /\ NodeUnchanged

\* Created, then written; a failure is reported.
write_overmind_procfile ==
  /\ cmd.pc = "write_overmind_procfile"
  /\ \/ /\ procfile # Torn
        /\ procfile' = Torn
        /\ UNCHANGED <<cmd, reported>>
     \/ /\ procfile = Torn
        /\ procfile' = [kind |-> "procfile", chain_id |-> cmd.chainid, app_hash |-> cmd.app_hash]
        /\ End("Ok")
     \/ /\ IoFails
        /\ End("Err")
        /\ UNCHANGED procfile
  /\ UNCHANGED <<genesis, storage>>
  /\ NodeUnchanged

\* The operator interrupts init, or the machine stops.
killed ==
  /\ cmd # Idle
  /\ End("killed")
  /\ FilesUnchanged /\ NodeUnchanged

\* The documented way without init: parameters from `genesis generate`, or from
\* elsewhere, copied to the files by hand.
configure ==
  /\ cmd = Idle /\ storage = NoStorage /\ node = "down"
  /\ genesis.kind = "json"
  /\ \E h \in HandWritten :
       LET app_hash == do_generate(h.conf, h.time)
       IN  /\ genesis' = [genesis EXCEPT !.app_hash = app_hash, !.app_state = {h.conf},
                                         !.time = h.time, !.chain_id = h.chain_id]
           /\ procfile' = [kind |-> "procfile", chain_id |-> h.chain_id, app_hash |-> app_hash]
  /\ reported' = "none"
  /\ UNCHANGED <<storage, cmd, inits, node, voting, tm_validators>>

-----------------------------------------------------------------------------
(* chain-abci *)

\* Power by council node; empty if a node's account is not in the trie.
get_validator_mapping(last) ==
  LET staking == {last.council_nodes[i].address : i \in DOMAIN last.council_nodes}
  IN  IF ~ staking \subseteq DOMAIN last.accounts THEN {}
      ELSE {[a \in staking |->
               IF last.accounts[a].bonded < last.required_council_node_stake THEN 0
               ELSE TendermintVotePower(last.accounts[a].bonded)]}

new_with_storage(chain_id, app_hash) ==
  /\ cmd = Idle /\ node # "up"
  /\ UNCHANGED <<genesis, procfile, cmd, reported, inits, tm_validators>>
  /\ IF chain_id \notin NetworkIds \/ app_hash = {}
     THEN /\ node' = "panic"
          /\ UNCHANGED <<storage, voting>>
     ELSE IF storage.last_state = {}
     THEN /\ storage' = [storage EXCEPT !.app_hash = app_hash, !.chain_id = {chain_id}]
          /\ node' = "up"
          /\ UNCHANGED voting
     ELSE LET mapping == UNION {get_validator_mapping(last) : last \in storage.last_state}
              refused == storage.app_hash # app_hash \/ storage.chain_id # {chain_id}
          IN  /\ node' = IF refused THEN "panic" ELSE IF mapping = {} THEN "no account" ELSE "up"
              /\ voting' = IF refused THEN voting ELSE mapping
              /\ UNCHANGED storage

\* dev-utils run takes the arguments from genesis.json, overmind from the Procfile.
run == /\ genesis.kind = "json"
       /\ new_with_storage(genesis.chain_id, genesis.app_hash)
overmind == /\ procfile.kind = "procfile"
            /\ new_with_storage(procfile.chain_id, procfile.app_hash)

stop == /\ node = "up"
        /\ node' = "down"
        /\ voting' = {}
        /\ UNCHANGED <<genesis, procfile, storage, cmd, reported, inits, tm_validators>>

get_voting_power(distribution, a) == TendermintVotePower(distribution[a].amount)

\* Tendermint, started on genesis.json, finds the application at height 0.
init_chain_handler ==
  /\ node = "up" /\ storage.last_state = {} /\ genesis.kind = "json"
  /\ LET result == UNION {validate_config_get_genesis(conf, genesis.time) : conf \in genesis.app_state}
     IN  IF \E g \in result : /\ storage.chain_id = {genesis.chain_id}
                             /\ storage.app_hash = {compute_app_hash(g.state)}
         THEN \E g \in result, conf \in genesis.app_state :
                /\ tm_validators' = {[a \in {g.nodes[i].address : i \in DOMAIN g.nodes} |->
                                       get_voting_power(conf.distribution, a)]}
                /\ storage' = [storage EXCEPT !.last_state =
                     {[accounts |-> g.state.accounts, rewards_pool |-> g.state.rewards_pool,
                       council_nodes |-> g.nodes,
                       required_council_node_stake |-> conf.required_council_node_stake]}]
                /\ UNCHANGED node
         ELSE /\ node' = "panic"
              /\ UNCHANGED <<storage, tm_validators>>
  /\ UNCHANGED <<genesis, procfile, cmd, reported, inits, voting>>

-----------------------------------------------------------------------------
Init ==
  /\ genesis = NoGenesis
  /\ procfile = [kind |-> "absent"]
  /\ storage = NoStorage
  /\ cmd = Idle
  /\ reported = "none"
  /\ inits = 0
  /\ node = "down"
  /\ voting = {}
  /\ tm_validators = {}

Next == \/ clear_disk \/ prepare_tendermint \/ read_tendermint_genesis \/ read_chainid
        \/ read_staking_address \/ read_wallets \/ read_incentives \/ generate_app_info
        \/ write_tendermint_genesis \/ write_all \/ write_overmind_procfile \/ killed
        \/ configure \/ run \/ overmind \/ stop \/ init_chain_handler

Spec == Init /\ [][Next]_vars

-----------------------------------------------------------------------------
(* Properties *)

\* The genesis state a node keeps adds up: staked accounts and rewards pool hold
\* the whole supply, and the validators' bonded stake is what every council node
\* was required to bring (validate_config_get_genesis and get_genesis_state),
\* whichever wallets, repeated addresses and rounded amounts init was given.
GenesisBalanced ==
  \A last \in storage.last_state :
    LET Total(f(_)) == FoldSet(LAMBDA a, sum : sum + f(last.accounts[a]), 0, DOMAIN last.accounts)
    IN  /\ Total(LAMBDA s : s.bonded + s.unbonded) + last.rewards_pool = MAX_COIN
        /\ Total(LAMBDA s : s.bonded) =
             last.required_council_node_stake * Len(last.council_nodes)

\* A node that restarts finds an account for every council node and gives it the
\* voting power that init_chain_handler announced to Tendermint
\* (get_validator_mapping against get_voting_power).
RestartKeepsPower ==
  /\ node # "no account"
  /\ voting \subseteq tm_validators

\* After an init that ended with Ok there is a genesis.json for Tendermint to read,
\* and chain-abci starts and accepts what Tendermint sends it, whether it was
\* started by run or from the Procfile.
InitOkStarts ==
  (reported = "Ok" /\ procfile.chain_id \in NetworkIds) => genesis.kind = "json" /\ node # "panic"
=============================================================================
