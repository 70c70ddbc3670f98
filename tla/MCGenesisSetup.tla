--------------------------- MODULE MCGenesisSetup ---------------------------
(* Instance of GenesisSetup: a supply of 80 base units, 10 to a coin, read   *)
(* through floats of four bits.                                              *)
EXTENDS GenesisSetup

MCAccounts == <<<<"v1", "w1", "w2", "w3">>, <<"v2", "w1", "w2", "w3">>>>
MCDefaultCoins == <<10, 10>>

Config(distribution, nodes) ==
  [distribution |-> distribution, launch_incentive_from |-> "w1", launch_incentive_to |-> "w2",
   long_term_incentive |-> "w3", required_council_node_stake |-> 40, council_nodes |-> nodes]
Incentives(n) == ("w1" :> ExternallyOwned(n)) @@ ("w2" :> ExternallyOwned(0)) @@ ("w3" :> Contract(0))
Node(a, k) == [address |-> a, key |-> k]

\* One validator; two of them; a contract's amount as a stake; one key for two;
\* four stakes of 40, whose sum wraps to 12.
MCHandWritten ==
  {[time |-> 1, chain_id |-> "test-ab", conf |-> c] : c \in
     {Config(("v1" :> ExternallyOwned(40)) @@ ("c" :> Contract(20)) @@ Incentives(20), <<Node("v1", "k1")>>),
      Config(("v1" :> ExternallyOwned(40)) @@ ("v2" :> ExternallyOwned(40)) @@ Incentives(0),
             <<Node("v1", "k1"), Node("v2", "k2")>>),
      Config(("v1" :> ExternallyOwned(40)) @@ ("v2" :> Contract(40)) @@ Incentives(0),
             <<Node("v1", "k1"), Node("v2", "k2")>>),
      Config(("v1" :> ExternallyOwned(40)) @@ ("v2" :> ExternallyOwned(40)) @@ Incentives(0),
             <<Node("v1", "k1"), Node("v2", "k1")>>),
      Config(("v1" :> ExternallyOwned(40)) @@ ("v2" :> ExternallyOwned(40)) @@
               ("v3" :> ExternallyOwned(40)) @@ ("v4" :> ExternallyOwned(40)) @@ Incentives(0),
             <<Node("v1", "k1"), Node("v2", "k2"), Node("v3", "k3"), Node("v4", "k4")>>)}}
=============================================================================
