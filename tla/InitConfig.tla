----------------------------- MODULE InitConfig -----------------------------
(***************************************************************************)
(* The initial configuration of a chain (chain-core: init/config.rs): what *)
(* is accepted, and the genesis state it stands for.                       *)
(***************************************************************************)
EXTENDS CoinFee, FiniteSets

CONSTANTS
  MAX_COIN_DECIMALS,   \* base units in a coin
  ValidKey             \* encoded consensus keys that decode to 32 bytes

ASSUME DecimalsAssumption == MAX_COIN_DECIMALS \in Nat \ {0}

TendermintVotePower(c) == c \div MAX_COIN_DECIMALS

ExternallyOwned(amount) == [amount |-> amount, type |-> "ExternallyOwnedAccount"]
Contract(amount) == [amount |-> amount, type |-> "Contract"]

\* The amounts of a distribution, in the order of its iterator.
Amounts(distribution) ==
  FoldSet(LAMBDA a, s : Append(s, distribution[a].amount), <<>>, DOMAIN distribution)

check_address(conf, a) == a \in DOMAIN conf.distribution

\* Mutant: a contract account may back a validator.
AnyAccountOfAmount(conf, a) ==
  check_address(conf, a) /\ conf.distribution[a].amount = conf.required_council_node_stake

check_address_expected_amount(conf, a) ==
  /\ check_address(conf, a)
  /\ conf.distribution[a] = ExternallyOwned(conf.required_council_node_stake)

check_validator_key(key) == key \in ValidKey

is_rewards_pool_address(conf, a) ==
  a \in {conf.launch_incentive_from, conf.launch_incentive_to, conf.long_term_incentive}

new_init(amount, time, bonded) ==
  [nonce |-> 0, bonded |-> IF bonded THEN amount ELSE 0,
   unbonded |-> IF bonded THEN 0 ELSE amount, unbonded_from |-> time]

\* Addresses whose amount starts in the rewards pool.
Pooled(conf) ==
  {a \in DOMAIN conf.distribution :
     is_rewards_pool_address(conf, a) \/ conf.distribution[a].type = "Contract"}

get_genesis_state(conf, time, validators) ==
  [accounts |-> [a \in DOMAIN conf.distribution \ Pooled(conf) |->
                   new_init(conf.distribution[a].amount, time, a \in validators)],
   rewards_pool |-> FoldSet(LAMBDA a, sum : (sum + conf.distribution[a].amount) % Word, 0,
                            Pooled(conf))]

council_nodes_valid(conf) ==
  /\ conf.council_nodes # <<>>
  /\ \A i \in DOMAIN conf.council_nodes :
       LET node == conf.council_nodes[i]
       IN  /\ ~is_rewards_pool_address(conf, node.address)
           /\ check_address_expected_amount(conf, node.address)
           /\ check_validator_key(node.key)
           /\ \A j \in 1..(i - 1) : /\ conf.council_nodes[j].address # node.address
                                    /\ conf.council_nodes[j].key # node.key

\* Mutant: a distribution below the supply is let through.
AtMostSupply(conf) == sum_coins(Amounts(conf.distribution)) # {}

sum_is_max_supply(conf) == sum_coins(Amounts(conf.distribution)) = {MAX_COIN}

\* The genesis state of a valid configuration; empty for an error.  The product
\* of the stake wraps in a release build.
validate_config_get_genesis(conf, time) ==
  LET nodes == conf.council_nodes
      stake == (conf.required_council_node_stake * Len(nodes)) % Word
  IN  IF /\ check_address(conf, conf.launch_incentive_from)
         /\ check_address(conf, conf.launch_incentive_to)
         /\ check_address(conf, conf.long_term_incentive)
         /\ council_nodes_valid(conf)
         /\ new_coin(stake) # {}
         /\ sum_is_max_supply(conf)
      THEN {[state |-> get_genesis_state(conf, time, {nodes[i].address : i \in DOMAIN nodes}),
             nodes |-> nodes]}
      ELSE {}

\* compute_app_hash over an empty transaction tree: the account trie and the
\* rewards pool determine it.
compute_app_hash(state) == <<state.accounts, state.rewards_pool>>
=============================================================================
