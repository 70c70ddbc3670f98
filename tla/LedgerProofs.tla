---------------------------- MODULE LedgerProofs ----------------------------
(***************************************************************************)
(* The node implements Ledger, for every choice of the constants.          *)
(*                                                                         *)
(* LedgerInvariant says that in an open block the memory (overlay,         *)
(* uncommitted root, rewards pool) is the stored ledger after the          *)
(* transactions delivered so far.  DeliverTx keeps it because verify       *)
(* accepts exactly what the ledger's rules accept, and Commit writes it    *)
(* down.                                                                   *)
(***************************************************************************)
EXTENDS NodeProofs, ChainNodeRefinement

\* The outputs of committed transactions that no transaction in spenders spends.
Left(committed, spenders) ==
  {o \in OutputsOf(committed) : o.index \notin SpentBy(spenders, o.id)}

LedgerRecord(height, time, unspent, created, accounts, pool) ==
  [height |-> height, time |-> time, unspent |-> unspent, created |-> created,
   accounts |-> accounts, pool |-> pool]

\* The ledger in the node's memory, on top of the stored state.
OpenLedger(state) ==
  LedgerRecord(state.last_block_height, state.block_time, Left(bodies, Chain),
               OutputsOf(Delivered), uncommitted_account_root_hash,
               last_state.rewards_pool.remaining)

\* While a block is open, the memory holds what the rules make of the stored
\* ledger and the transactions delivered so far; see OpenLedger.
LedgerInvariant ==
  /\ phase # "down" => chain_hex_id = NETWORK_HEX_ID
  /\ ~ InBlock => cursor = 0
  /\ phase = "idle" =>
       /\ stored_state = {last_state}
       /\ uncommitted_account_root_hash = last_state.last_account_root_hash
  /\ InBlock =>
       /\ last_state.block_time = headers[Len(headers)]
       /\ cursor <= Len(block.txs)
       /\ delivered_txs = <<>> =>
            uncommitted_account_root_hash = last_state.last_account_root_hash
       /\ \A state \in stored_state :
            L!Run(StoredLedger(state), last_state.block_time, block.txs)[cursor]
              = OpenLedger(state)
  /\ phase = "ended" => cursor = Len(block.txs)

-----------------------------------------------------------------------------
(* Ledger!Run folds a block over the ledger; RunStep is the fold's step,   *)
(* and a recursive function has to be shown to exist first.                *)

\* An induction over the natural numbers, the property given as a set.
LEMMA NatSetInduction ==
  ASSUME NEW F, 0 \in F, \A n \in Nat : n \in F => n + 1 \in F
  PROVE  Nat \subseteq F
<1> DEFINE D == Nat \ F
<1> SUFFICES ASSUME D # {} PROVE FALSE
  OBVIOUS
<1>1. \E x \in D : \A y \in D : ~ (<<y, x>> \in OpToRel(<, Nat))
  BY NatLessThanWellFounded, WFMin, Zenon
<1>2. PICK x \in D : \A y \in D : ~ (y < x)
  BY <1>1, Zenon DEF OpToRel
<1>3. x - 1 \in Nat /\ x - 1 \in F
  BY <1>2
<1> QED
  BY <1>2, <1>3

\* What the recursive function of Ledger!Run satisfies.
IsRun(f, l, time, txs, n) ==
  f = [k \in 0 .. n |-> IF k = 0 THEN l ELSE L!Apply(f[k - 1], time, txs[k])]

\* Two blocks that begin with the same n transactions.
Agree(s, t, n) == \A i \in 1 .. n : s[i] = t[i]

LEMMA RunUnfold ==
  ASSUME NEW l, NEW time, NEW txs
  PROVE  L!Run(l, time, txs) = CHOOSE f : IsRun(f, l, time, txs, Len(txs))
BY DEF L!Run, IsRun

LEMMA RunValue ==
  ASSUME NEW l, NEW time, NEW txs, NEW n \in Nat, NEW f, IsRun(f, l, time, txs, n)
  PROVE  /\ f[0] = l
         /\ \A k \in 1 .. n : f[k] = L!Apply(f[k - 1], time, txs[k])
BY DEF IsRun

LEMMA RunExists ==
  ASSUME NEW l, NEW time, NEW txs, NEW n \in Nat
  PROVE  \E f : IsRun(f, l, time, txs, n)
<1> DEFINE F == {m \in Nat : \E f : IsRun(f, l, time, txs, m)}
<1>1. 0 \in F
  <2> DEFINE f == [k \in 0 .. 0 |-> l]
  <2>1. f = [k \in 0 .. 0 |-> IF k = 0 THEN l ELSE L!Apply(f[k - 1], time, txs[k])]
    OBVIOUS
  <2> HIDE DEF f
  <2> QED
    BY <2>1 DEF IsRun
<1>2. ASSUME NEW m \in Nat, m \in F PROVE m + 1 \in F
  <2>1. PICK f : IsRun(f, l, time, txs, m)
    BY <1>2
  <2> DEFINE g == [k \in 0 .. m + 1 |-> IF k <= m THEN f[k] ELSE L!Apply(f[m], time, txs[m + 1])]
  <2>2. f[0] = l /\ \A k \in 1 .. m : f[k] = L!Apply(f[k - 1], time, txs[k])
    BY <2>1, RunValue
  <2>3. ASSUME NEW k \in 0 .. m + 1
        PROVE  g[k] = IF k = 0 THEN l ELSE L!Apply(g[k - 1], time, txs[k])
    <3>1. CASE k = 0
      BY <2>2, <3>1
    <3>2. CASE k \in 1 .. m
      <4>1. g[k] = f[k] /\ g[k - 1] = f[k - 1]
        BY <3>2
      <4> QED
        BY <2>2, <3>2, <4>1
    <3>3. CASE k = m + 1
      <4>1. g[k] = L!Apply(f[m], time, txs[m + 1]) /\ g[k - 1] = f[m]
        BY <3>3
      <4> QED
        BY <3>3, <4>1
    <3> QED
      BY <3>1, <3>2, <3>3
  <2>4. g = [k \in 0 .. m + 1 |-> g[k]]
    OBVIOUS
  <2> HIDE DEF g
  <2>5. g = [k \in 0 .. m + 1 |-> IF k = 0 THEN l ELSE L!Apply(g[k - 1], time, txs[k])]
    BY <2>3, <2>4, Zenon
  <2> QED
    BY <2>5 DEF IsRun
<1> HIDE DEF F
<1>3. Nat \subseteq F
  BY <1>1, <1>2, NatSetInduction
<1> QED
  BY <1>3 DEF F

\* The ledger after a number of transactions depends on those alone.
LEMMA RunsAgree ==
  ASSUME NEW l, NEW time, NEW s, NEW t, NEW m \in Nat, NEW n \in Nat, NEW f, NEW g,
         IsRun(f, l, time, s, m), IsRun(g, l, time, t, n),
         NEW k \in Nat, k <= m, k <= n, Agree(s, t, k)
  PROVE  f[k] = g[k]
<1> DEFINE F == {i \in Nat : i <= k => f[i] = g[i]}
<1>1. /\ f[0] = l /\ \A i \in 1 .. m : f[i] = L!Apply(f[i - 1], time, s[i])
      /\ g[0] = l /\ \A i \in 1 .. n : g[i] = L!Apply(g[i - 1], time, t[i])
  BY RunValue
<1>2. 0 \in F
  BY <1>1
<1>3. ASSUME NEW i \in Nat, i \in F PROVE i + 1 \in F
  <2> SUFFICES ASSUME i + 1 <= k PROVE f[i + 1] = g[i + 1]
    OBVIOUS
  <2>1. f[i] = g[i]
    BY <1>3
  <2>2. i + 1 \in 1 .. m /\ i + 1 \in 1 .. n /\ i + 1 \in 1 .. k /\ (i + 1) - 1 = i
    OBVIOUS
  <2>3. f[i + 1] = L!Apply(f[i], time, s[i + 1]) /\ g[i + 1] = L!Apply(g[i], time, t[i + 1])
    BY <1>1, <2>2
  <2> QED
    BY <2>1, <2>2, <2>3 DEF Agree
<1> HIDE DEF F
<1>4. Nat \subseteq F
  BY <1>2, <1>3, NatSetInduction
<1> QED
  BY <1>4 DEF F

LEMMA RunIsRun ==
  ASSUME NEW l, NEW time, NEW txs \in Seq(TxId)
  PROVE  IsRun(L!Run(l, time, txs), l, time, txs, Len(txs))
<1>1. Len(txs) \in Nat
  OBVIOUS
<1>2. \E f : IsRun(f, l, time, txs, Len(txs))
  BY <1>1, RunExists, Zenon
<1> QED
  BY <1>2, RunUnfold

\* One more transaction, and a block that is extended.
LEMMA RunStep ==
  ASSUME NEW l, NEW time, NEW txs \in Seq(TxId), NEW more \in Seq(TxId), NEW n \in Nat,
         n <= Len(txs), n + 1 <= Len(more), Agree(more, txs, n)
  PROVE  L!Run(l, time, more)[n + 1] = L!Apply(L!Run(l, time, txs)[n], time, more[n + 1])
<1> DEFINE f == L!Run(l, time, more)
           g == L!Run(l, time, txs)
<1>1. IsRun(f, l, time, more, Len(more)) /\ IsRun(g, l, time, txs, Len(txs))
  BY RunIsRun
<1>2. Len(more) \in Nat /\ Len(txs) \in Nat /\ n <= Len(more)
  OBVIOUS
<1> HIDE DEF f, g
<1>3. f[n] = g[n]
  <2> DEFINE m == Len(more)
             k == Len(txs)
  <2>1. m \in Nat /\ k \in Nat /\ n <= m /\ n <= k
    BY <1>2
  <2>2. IsRun(f, l, time, more, m) /\ IsRun(g, l, time, txs, k)
    BY <1>1
  <2> HIDE DEF m, k
  <2> QED
    BY <2>1, <2>2, RunsAgree
<1>4. n + 1 \in 1 .. Len(more) /\ (n + 1) - 1 = n
  BY <1>2
<1>5. f[n + 1] = L!Apply(f[n], time, more[n + 1])
  BY <1>1, <1>2, <1>4, RunValue
<1> QED
  BY <1>3, <1>5 DEF f, g

LEMMA RunStart ==
  ASSUME NEW l, NEW time, NEW txs \in Seq(TxId)
  PROVE  L!Run(l, time, txs)[0] = l
<1>1. Len(txs) \in Nat
  OBVIOUS
<1> QED
  BY <1>1, RunIsRun, RunValue

-----------------------------------------------------------------------------
(* Ledger's copies of the rules are the rules *)

LEMMA SameSum ==
  ASSUME NEW f
  PROVE  L!SumFunction(f) = SumFunction(f)
BY DEF L!SumFunction, SumFunction, L!SumFunctionOnSet, SumFunctionOnSet,
       L!FoldFunctionOnSet, FoldFunctionOnSet, L!MapThenFoldSet, MapThenFoldSet

LEMMA SameCoins ==
  ASSUME NEW tx
  PROVE  L!InCoins(tx) = InCoins(tx) /\ L!get_output_total(tx) = get_output_total(tx)
BY SameSum, Zenon DEF L!InCoins, InCoins, L!get_output_total, get_output_total, L!InputTxOuts,
               InputTxOuts, L!Values, Values

LEMMA SameChecks ==
  ASSUME NEW tx, NEW info
  PROVE  /\ L!check_attributes(tx, info) <=> check_attributes(tx, info)
         /\ L!check_inputs_basic(tx) <=> check_inputs_basic(tx)
         /\ L!check_inputs(tx, info) <=> check_inputs(tx, info)
         /\ L!check_outputs_basic(tx) <=> check_outputs_basic(tx)
<1>1. L!check_attributes(tx, info) <=> check_attributes(tx, info)
  BY DEF L!check_attributes, check_attributes
<1>2. L!check_inputs_basic(tx) <=> check_inputs_basic(tx)
  BY DEF L!check_inputs_basic, check_inputs_basic, L!IsInjective, IsInjective
<1>3. L!check_inputs(tx, info) <=> check_inputs(tx, info)
  BY SameCoins, Zenon DEF L!check_inputs, check_inputs, L!InputTxOuts, InputTxOuts
<1>4. L!check_outputs_basic(tx) <=> check_outputs_basic(tx)
  BY DEF L!check_outputs_basic, check_outputs_basic
<1> QED
  BY <1>1, <1>2, <1>3, <1>4

LEMMA SameSums ==
  ASSUME NEW incoins, NEW outcoins, NEW info
  PROVE  L!check_input_output_sums(incoins, outcoins, info)
           <=> check_input_output_sums(incoins, outcoins, info)
BY DEF L!check_input_output_sums, check_input_output_sums

LEMMA SameRules ==
  ASSUME NEW tx, NEW info, NEW account
  PROVE  /\ L!verify_transfer(tx, info) <=> verify_transfer(tx, info)
         /\ L!verify_bonded_deposit_core(tx, info) <=> verify_bonded_deposit_core(tx, info)
         /\ L!verify_unbonding(tx, info, account) <=> verify_unbonding(tx, info, account)
         /\ L!verify_unbonded_withdraw_core(tx, info, account)
              <=> verify_unbonded_withdraw_core(tx, info, account)
<1>1. L!verify_transfer(tx, info) <=> verify_transfer(tx, info)
  BY SameCoins, SameChecks, SameSums DEF L!verify_transfer, verify_transfer
<1>2. L!verify_bonded_deposit_core(tx, info) <=> verify_bonded_deposit_core(tx, info)
  BY SameCoins, SameChecks DEF L!verify_bonded_deposit_core, verify_bonded_deposit_core
<1>3. L!verify_unbonding(tx, info, account) <=> verify_unbonding(tx, info, account)
  BY SameChecks, SameSums, Zenon DEF L!verify_unbonding, verify_unbonding
<1>4. L!verify_unbonded_withdraw_core(tx, info, account)
        <=> verify_unbonded_withdraw_core(tx, info, account)
  BY SameCoins, SameChecks, SameSums, Zenon
  DEF L!verify_unbonded_withdraw_core, verify_unbonded_withdraw_core
<1> QED
  BY <1>1, <1>2, <1>3, <1>4

LEMMA SameEffects ==
  ASSUME NEW tx, NEW info, NEW account
  PROVE  /\ L!PaidFee(tx, info, account) = PaidFee(tx, info, account)
         /\ L!UpdatedAccount(tx, info, account) = UpdatedAccount(tx, info, account)
<1>1. L!PaidFee(tx, info, account) = PaidFee(tx, info, account)
  BY SameCoins DEF L!PaidFee, PaidFee
<1>2. L!bonded_deposit_account(tx, info, account) = bonded_deposit_account(tx, info, account)
  BY SameCoins, Zenon DEF L!bonded_deposit_account, bonded_deposit_account, L!deposit, deposit,
                   L!new_init, new_init
<1>3. L!unbonding_account(tx, info, account) = unbonding_account(tx, info, account)
  BY DEF L!unbonding_account, unbonding_account, L!unbond, unbond
<1>4. L!withdraw(account) = withdraw(account)
  BY DEF L!withdraw, withdraw
<1>5. L!UpdatedAccount(tx, info, account) = UpdatedAccount(tx, info, account)
  BY <1>2, <1>3, <1>4 DEF L!UpdatedAccount, UpdatedAccount
<1> QED
  BY <1>1, <1>5

LEMMA SameSpending ==
  ASSUME NEW id \in TxId
  PROVE  /\ L!Consumed(Tx[id]) = Spends(Tx[id])
         /\ L!Produced(id) = OutputsOf({id})
         /\ L!ChainInfoAt(last_state.block_time, Tx[id]) = Info(Tx[id])
<1>1. L!Consumed(Tx[id]) = Spends(Tx[id])
  BY DEF L!Consumed, Spends, L!Range
<1>2. L!Produced(id) = OutputsOf({id})
  BY DEF L!Produced, OutputsOf, HasOutputs
<1>3. L!ChainInfoAt(last_state.block_time, Tx[id]) = Info(Tx[id])
  BY DEF L!ChainInfoAt, Info
<1> QED
  BY <1>1, <1>2, <1>3

-----------------------------------------------------------------------------
(* The node decides as the ledger does *)

LEMMA LeftMember ==
  ASSUME NEW committed \in SUBSET TxId, NEW spenders \in SUBSET TxId, NEW o
  PROVE  o \in Left(committed, spenders) <=>
           /\ o \in TxoPointer
           /\ o.id \in committed
           /\ HasOutputs(o.id)
           /\ o.index < Len(Tx[o.id].outputs)
           /\ \A t \in spenders : o \notin Spends(Tx[t])
<1>1. o \in OutputsOf(committed) <=>
        /\ o \in TxoPointer
        /\ o.id \in committed
        /\ HasOutputs(o.id)
        /\ o.index < Len(Tx[o.id].outputs)
  BY OutputsMember
<1>2. o \in TxoPointer =>
        (o.index \in SpentBy(spenders, o.id) <=> \E t \in spenders : o \in Spends(Tx[t]))
  BY SpentPointer
<1> QED
  BY <1>1, <1>2 DEF Left

\* An output of the ledger passes the lookup in the bit vectors.
LEMMA LeftPasses ==
  ASSUME TypeOK, SpentBitsExact, NEW id \in TxId, Tx[id].inputs # <<>>,
         Tx[id].kind \in {"TransferTx", "DepositStakeTx"},
         Spends(Tx[id]) \subseteq Left(bodies, Chain)
  PROVE  check_spent_input_lookup(Tx[id])
<1>1. Chain \in SUBSET TxId /\ bodies \in SUBSET TxId
  BY DEF TypeOK, Chain, Delivered
<1>2. SUFFICES ASSUME NEW k \in DOMAIN Tx[id].inputs, NEW txin, txin = Tx[id].inputs[k]
               PROVE  /\ GetMeta(txin.id).present
                      /\ txin.index < BitVecLen(Len(Tx[txin.id].outputs))
                      /\ txin.index \notin GetMeta(txin.id).spent
  BY DEF check_spent_input_lookup
<1>3. txin \in Left(bodies, Chain)
  BY <1>2 DEF Spends
<1>4. /\ txin \in TxoPointer /\ txin.id \in bodies /\ HasOutputs(txin.id)
      /\ txin.index < Len(Tx[txin.id].outputs)
  BY <1>1, <1>3, LeftMember
<1>5. txin.index \notin SpentBy(Chain, txin.id)
  BY <1>3 DEF Left
<1>6. GetMeta(txin.id) = MetaOf(bodies, Chain, txin.id)
  BY <1>4 DEF SpentBitsExact, TxoPointer
<1>7. GetMeta(txin.id).present /\ txin.index \notin GetMeta(txin.id).spent
  BY <1>4, <1>5, <1>6, MetaOfFields
<1>8. txin.index < BitVecLen(Len(Tx[txin.id].outputs))
  <2> DEFINE n == Len(Tx[txin.id].outputs)
  <2>1. txin.index \in Nat /\ n \in Nat /\ txin.index < n
    BY <1>4, TxAssumption DEF TxoPointer, TxAux
  <2> HIDE DEF n
  <2>2. n <= 8 * ((n + 7) \div 8)
    BY <2>1
  <2>3. txin.index < BitVecLen(n)
    BY <2>1, <2>2 DEF BitVecLen
  <2> QED
    BY <2>3 DEF n
<1> QED
  BY <1>7, <1>8

\* A ledger in which the node's memory and the validation server decide.
LEMMA InputsLookedUp ==
  ASSUME TypeOK, SealInvariant, NEW id \in TxId,
         Tx[id].kind \in {"TransferTx", "DepositStakeTx"},
         Spends(Tx[id]) \subseteq Left(bodies, Chain)
  PROVE  lookup(Tx[id])
<1>1. Chain \in SUBSET TxId /\ bodies \in SUBSET TxId
  BY DEF TypeOK, Chain, Delivered
<1>2. \A txin \in Spends(Tx[id]) : txin.id \in bodies /\ HasOutputs(txin.id)
  BY <1>1, LeftMember
<1>3. \A k \in DOMAIN Tx[id].inputs : Tx[id].inputs[k] \in Spends(Tx[id])
  BY DEF Spends
<1> QED
  BY <1>2, <1>3 DEF SealInvariant, CommittedTxsSealed, CommittedTxsPersisted, lookup

\* The node accepts in DeliverTx what the rules accept against the ledger in
\* its memory: the bit vectors, the account root and the sealed copies the
\* enclave looks up say the same.
LEMMA VerifyIsAccepts ==
  ASSUME TypeOK, SpendInvariant, RootsResolvable, SealInvariant, Running,
         chain_hex_id = NETWORK_HEX_ID, NEW id \in TxId, NEW l,
         l.unspent = Left(bodies, Chain), l.accounts = uncommitted_account_root_hash
  PROVE  verify(id) <=> L!Accepts(l, last_state.block_time, id)
<1> DEFINE tx == Tx[id]
           info == Info(tx)
           account == AccountOf(tx)
<1>1. tx \in TxAux
  BY TxAssumption
<1>2. RootFound(uncommitted_account_root_hash)
  BY DEF RootsResolvable, RootFound
<1>3. check_chain_info(info)
  BY DEF check_chain_info, Info
<1>4. /\ L!Consumed(tx) = Spends(tx)
      /\ L!ChainInfoAt(last_state.block_time, tx) = info
      /\ l.accounts[tx.address] = account
  BY SameSpending, Zenon DEF AccountOf, get_account
<1>a. /\ L!verify_transfer(tx, info) <=> verify_transfer(tx, info)
      /\ L!verify_bonded_deposit_core(tx, info) <=> verify_bonded_deposit_core(tx, info)
      /\ L!verify_unbonding(tx, info, account) <=> verify_unbonding(tx, info, account)
      /\ L!verify_unbonded_withdraw_core(tx, info, account)
           <=> verify_unbonded_withdraw_core(tx, info, account)
  BY SameRules
<1>5. FALSE \notin L!Range(tx.witness) <=> \A k \in DOMAIN tx.witness : tx.witness[k]
  <2>1. \A k \in DOMAIN tx.witness : tx.witness[k] \in BOOLEAN
    BY <1>1 DEF TxAux
  <2> QED
    BY <2>1, Zenon DEF L!Range
<1>6. Chain \in SUBSET TxId /\ bodies \in SUBSET TxId
  BY DEF TypeOK, Chain, Delivered
<1>7. verify(id) => Spends(tx) \subseteq Left(bodies, Chain)
  <2> SUFFICES ASSUME verify(id), NEW txin \in Spends(tx) PROVE txin \in Left(bodies, Chain)
    OBVIOUS
  <2>1. /\ txin.id \in bodies
        /\ HasOutputs(txin.id)
        /\ txin.index < Len(Tx[txin.id].outputs)
        /\ \A t \in Chain : txin \notin Spends(Tx[t])
    BY VerifiedFresh
  <2>2. txin \in TxoPointer
    BY SpendsType
  <2> QED
    BY <1>6, <2>1, <2>2, LeftMember
<1>8. Spends(tx) \subseteq Left(bodies, Chain)
        /\ tx.inputs # <<>> /\ tx.kind \in {"TransferTx", "DepositStakeTx"}
        => check_spent_input_lookup(tx) /\ lookup(tx)
  BY LeftPasses, InputsLookedUp DEF SpendInvariant
<1>9. CASE tx.kind = "TransferTx"
  <2>1. L!Accepts(l, last_state.block_time, id) <=>
          Spends(tx) \subseteq Left(bodies, Chain) /\ verify_transfer(tx, info)
    BY <1>4, <1>a, <1>9 DEF L!Accepts
  <2>2. verify(id) <=> check_spent_input_lookup(tx) /\ lookup(tx) /\ verify_transfer(tx, info)
    BY <1>3, <1>9 DEF verify, VerifyTx
  <2>3. verify_transfer(tx, info) => tx.inputs # <<>>
    BY DEF verify_transfer, check_inputs_basic
  <2> QED
    BY <1>7, <1>8, <1>9, <2>1, <2>2, <2>3, Zenon
<1>10. CASE tx.kind = "DepositStakeTx"
  <2>1. L!Accepts(l, last_state.block_time, id) <=>
          Spends(tx) \subseteq Left(bodies, Chain) /\ verify_bonded_deposit_core(tx, info)
    BY <1>4, <1>a, <1>10 DEF L!Accepts
  <2>2. verify(id) <=>
          check_spent_input_lookup(tx) /\ lookup(tx) /\ verify_bonded_deposit_core(tx, info)
    BY <1>2, <1>3, <1>10 DEF verify, VerifyTx
  <2>3. verify_bonded_deposit_core(tx, info) => tx.inputs # <<>>
    BY DEF verify_bonded_deposit_core, check_inputs_basic
  <2> QED
    BY <1>7, <1>8, <1>10, <2>1, <2>2, <2>3, Zenon
<1>11. CASE tx.kind = "UnbondStakeTx"
  <2>1. L!Accepts(l, last_state.block_time, id) <=>
          /\ Spends(tx) \subseteq Left(bodies, Chain)
          /\ account.exists
          /\ FALSE \notin L!Range(tx.witness)
          /\ verify_unbonding(tx, info, account)
    BY <1>4, <1>a, <1>11, Zenon DEF L!Accepts
  <2>2. verify(id) <=> /\ \A k \in DOMAIN tx.witness : tx.witness[k]
                       /\ account.exists
                       /\ verify_unbonding(tx, info, account)
    BY <1>2, <1>11 DEF verify
  <2> QED
    BY <1>5, <1>7, <2>1, <2>2, Zenon
<1>12. CASE tx.kind = "WithdrawUnbondedStakeTx"
  <2>1. L!Accepts(l, last_state.block_time, id) <=>
          /\ Spends(tx) \subseteq Left(bodies, Chain)
          /\ account.exists
          /\ FALSE \notin L!Range(tx.witness)
          /\ verify_unbonded_withdraw_core(tx, info, account)
    BY <1>4, <1>a, <1>12, Zenon DEF L!Accepts
  <2>2. verify(id) <=> /\ \A k \in DOMAIN tx.witness : tx.witness[k]
                       /\ account.exists
                       /\ verify_unbonded_withdraw_core(tx, info, account)
    BY <1>2, <1>3, <1>12 DEF verify, VerifyTx
  <2> QED
    BY <1>5, <1>7, <2>1, <2>2, Zenon
<1> QED
  BY <1>1, <1>9, <1>10, <1>11, <1>12, Zenon DEF TxAux, Kind

-----------------------------------------------------------------------------
(* Transactions and blocks *)

\* Exact bit vectors say what is left.
LEMMA LeftByBits ==
  ASSUME NEW committed \in SUBSET TxId, NEW meta,
         \A id \in TxId : meta[id] = MetaOf(committed, committed, id)
  PROVE  {o \in OutputsOf(committed) : o.index \notin meta[o.id].spent}
           = Left(committed, committed)
<1>1. \A o \in OutputsOf(committed) : meta[o.id].spent = SpentBy(committed, o.id)
  <2> TAKE o \in OutputsOf(committed)
  <2>1. o.id \in TxId
    BY OutputsMember DEF TxoPointer
  <2>2. meta[o.id] = MetaOf(committed, committed, o.id)
    BY <2>1
  <2> QED
    BY <2>2, MetaOfFields
<1> QED
  BY <1>1 DEF Left

LEMMA StoredRecord ==
  ASSUME TypeOK, SpentBitsExact, NEW state
  PROVE  StoredLedger(state) =
           LedgerRecord(state.last_block_height, state.block_time, Left(bodies, bodies), {},
                        state.last_account_root_hash, state.rewards_pool.remaining)
<1>1. bodies \in SUBSET TxId /\ \A id \in TxId : tx_meta[id] = MetaOf(bodies, bodies, id)
  BY DEF TypeOK, SpentBitsExact
<1>2. {o \in OutputsOf(bodies) : o.index \notin tx_meta[o.id].spent} = Left(bodies, bodies)
  BY <1>1, LeftByBits
<1> QED
  BY <1>2, Zenon DEF StoredLedger, LedgerRecord

\* What the spends of one more transaction leave.
LEMMA LeftStep ==
  ASSUME NEW committed \in SUBSET TxId, NEW spenders \in SUBSET TxId, NEW id \in TxId
  PROVE  Left(committed, spenders \cup {id}) = Left(committed, spenders) \ Spends(Tx[id])
<1> DEFINE more == spenders \cup {id}
<1>1. more \in SUBSET TxId /\ \A t : t \in more <=> t \in spenders \/ t = id
  OBVIOUS
<1> HIDE DEF more
<1>2. ASSUME NEW o
      PROVE  o \in Left(committed, more) <=>
               o \in Left(committed, spenders) /\ o \notin Spends(Tx[id])
  BY <1>1, LeftMember
<1>3. Left(committed, more) = Left(committed, spenders) \ Spends(Tx[id])
  BY <1>2
<1> QED
  BY <1>3 DEF more

\* Nothing spends the outputs of the block that creates them.
LEMMA LeftCommitted ==
  ASSUME TypeOK, SpendInvariant
  PROVE  Left(Chain, Chain) = Left(bodies, Chain) \cup OutputsOf(Delivered)
<1>1. Chain \in SUBSET TxId /\ bodies \in SUBSET TxId /\ Delivered \in SUBSET TxId
  BY DEF TypeOK, Chain, Delivered
<1>2. Chain = bodies \cup Delivered /\ Delivered \cap bodies = {}
  BY DEF Chain, SpendInvariant, TxDeliveredOnce
<1>3. \A t \in Chain : \A txin \in Spends(Tx[t]) : txin.id \in bodies
  BY DEF SpendInvariant, InputsAreCommittedOutputs
<1>4. ASSUME NEW o
      PROVE  o \in Left(Chain, Chain) <=> o \in Left(bodies, Chain) \/ o \in OutputsOf(Delivered)
  <2>1. o \in Left(Chain, Chain) <=>
          /\ o \in TxoPointer /\ o.id \in Chain /\ HasOutputs(o.id)
          /\ o.index < Len(Tx[o.id].outputs)
          /\ \A t \in Chain : o \notin Spends(Tx[t])
    BY <1>1, LeftMember
  <2>2. o \in Left(bodies, Chain) <=>
          /\ o \in TxoPointer /\ o.id \in bodies /\ HasOutputs(o.id)
          /\ o.index < Len(Tx[o.id].outputs)
          /\ \A t \in Chain : o \notin Spends(Tx[t])
    BY <1>1, LeftMember
  <2>3. o \in OutputsOf(Delivered) <=>
          /\ o \in TxoPointer /\ o.id \in Delivered /\ HasOutputs(o.id)
          /\ o.index < Len(Tx[o.id].outputs)
    BY <1>1, OutputsMember
  <2> QED
    BY <1>2, <1>3, <2>1, <2>2, <2>3
<1> QED
  BY <1>4

\* What Tendermint delivers next.
LEMMA NextTx ==
  ASSUME TypeOK, cursor <= Len(block.txs), NEW id \in TxId, NextOfBlock(id)
  PROVE  /\ cursor' = cursor + 1 /\ cursor' <= Len(block'.txs)
         /\ block'.txs \in Seq(TxId)
         /\ block'.txs[cursor + 1] = id
         /\ Agree(block'.txs, block.txs, cursor)
<1>1. block \in [txs : Seq(TxId), complete : BOOLEAN] /\ cursor \in Nat
  BY DEF TypeOK
<1>2. CASE cursor < Len(block.txs) /\ id = block.txs[cursor + 1] /\ UNCHANGED block
  BY <1>1, <1>2 DEF NextOfBlock, Agree
<1>3. CASE cursor = Len(block.txs) /\ block' = [block EXCEPT !.txs = Append(@, id)]
  <2>1. block'.txs = Append(block.txs, id)
    BY <1>1, <1>3
  <2> QED
    BY <1>1, <1>3, <2>1 DEF NextOfBlock, Agree
<1> QED
  BY <1>2, <1>3 DEF NextOfBlock

\* What the rules make of the ledger in memory and one transaction.
LEMMA OpenApply ==
  ASSUME NEW id \in TxId, NEW state
  PROVE  L!Apply(OpenLedger(state), last_state.block_time, id) =
           IF L!Accepts(OpenLedger(state), last_state.block_time, id)
           THEN LedgerRecord(state.last_block_height, state.block_time,
                  Left(bodies, Chain) \ Spends(Tx[id]),
                  OutputsOf(Delivered) \cup OutputsOf({id}),
                  [uncommitted_account_root_hash EXCEPT ![Tx[id].address] = NewAccount(Tx[id])],
                  NewRemaining(Tx[id]))
           ELSE OpenLedger(state)
<1> DEFINE tx == Tx[id]
           l == OpenLedger(state)
           h == state.last_block_height
           t == state.block_time
           u == Left(bodies, Chain)
           c == OutputsOf(Delivered)
           a == uncommitted_account_root_hash
           p == last_state.rewards_pool.remaining
           info == Info(tx)
           account == a[tx.address]
           accepted == L!Accepts(l, last_state.block_time, id)
           unspent == u \ L!Consumed(tx)
           created == c \cup L!Produced(id)
           accounts == [a EXCEPT ![tx.address] = L!UpdatedAccount(tx, info, account)]
           pool == p + L!PaidFee(tx, info, account)
<1>1. l = LedgerRecord(h, t, u, c, a, p)
  BY DEF OpenLedger
<1>2. l.unspent = u /\ l.created = c /\ l.accounts = a /\ l.pool = p
  BY DEF OpenLedger, LedgerRecord
<1>3. /\ L!Consumed(tx) = Spends(tx) /\ L!Produced(id) = OutputsOf({id})
      /\ L!ChainInfoAt(last_state.block_time, tx) = info
  BY SameSpending
<1>4. /\ L!PaidFee(tx, info, account) = PaidFee(tx, info, account)
      /\ L!UpdatedAccount(tx, info, account) = UpdatedAccount(tx, info, account)
  BY SameEffects, Zenon
<1>5. /\ NewAccount(tx) = UpdatedAccount(tx, info, account)
      /\ NewRemaining(tx) = p + PaidFee(tx, info, account)
  BY DEF NewAccount, NewRemaining, AccountOf, get_account
<1>6. /\ unspent = u \ Spends(tx) /\ created = c \cup OutputsOf({id})
      /\ accounts = [a EXCEPT ![tx.address] = NewAccount(tx)]
      /\ pool = NewRemaining(tx)
  BY <1>3, <1>4, <1>5, Zenon
<1> HIDE DEF h, t, u, c, a, p, l
<1>7. L!Apply(l, last_state.block_time, id) =
        IF ~ accepted THEN l
        ELSE [l EXCEPT !.unspent = unspent, !.created = created, !.accounts = accounts,
                       !.pool = pool]
  BY <1>2, <1>3 DEF L!Apply
<1> HIDE DEF unspent, created, accounts, pool
<1>8. [l EXCEPT !.unspent = unspent, !.created = created, !.accounts = accounts, !.pool = pool]
        = LedgerRecord(h, t, unspent, created, accounts, pool)
  <2>1. [l EXCEPT !.unspent = unspent] = LedgerRecord(h, t, unspent, c, a, p)
    BY <1>1 DEF LedgerRecord
  <2>2. \A r : r = LedgerRecord(h, t, unspent, c, a, p) =>
          [r EXCEPT !.created = created] = LedgerRecord(h, t, unspent, created, a, p)
    BY DEF LedgerRecord
  <2>3. \A r : r = LedgerRecord(h, t, unspent, created, a, p) =>
          [r EXCEPT !.accounts = accounts] = LedgerRecord(h, t, unspent, created, accounts, p)
    BY DEF LedgerRecord
  <2>4. \A r : r = LedgerRecord(h, t, unspent, created, accounts, p) =>
          [r EXCEPT !.pool = pool] = LedgerRecord(h, t, unspent, created, accounts, pool)
    BY DEF LedgerRecord
  <2> QED
    BY <2>1, <2>2, <2>3, <2>4, Zenon
<1> QED
  BY <1>6, <1>7, <1>8, Zenon DEF h, t, u, c, a, p, l

\* Steps that leave the transactions, the accounts and the pool alone.
LEMMA SameOpenLedger ==
  ASSUME UNCHANGED <<bodies, delivered_txs, uncommitted_account_root_hash, last_state>>,
         NEW state
  PROVE  OpenLedger(state)' = OpenLedger(state)
BY Zenon DEF OpenLedger, LedgerRecord, Left, Chain, Delivered

\* DeliverTx applies one transaction to the ledger in memory.
LEMMA DeliverLedger ==
  ASSUME TypeOK, SpendInvariant, RootsResolvable, SealInvariant, LedgerInvariant,
         NEW id \in TxId, DeliverTx(id), NEW state
  PROVE  OpenLedger(state)' = L!Apply(OpenLedger(state), last_state.block_time, id)
<1> DEFINE tx == Tx[id]
           l == OpenLedger(state)
           accepted == L!Accepts(l, last_state.block_time, id)
<1>1. Running /\ InBlock /\ chain_hex_id = NETWORK_HEX_ID
  BY DEF DeliverTx, Running, InBlock, LedgerInvariant
<1>2. verify(id) <=> accepted
  <2>1. l.unspent = Left(bodies, Chain) /\ l.accounts = uncommitted_account_root_hash
    BY DEF OpenLedger, LedgerRecord
  <2> QED
    BY <1>1, <2>1, VerifyIsAccepts
<1>3. L!Apply(l, last_state.block_time, id) =
        IF accepted
        THEN LedgerRecord(state.last_block_height, state.block_time,
               Left(bodies, Chain) \ Spends(tx), OutputsOf(Delivered) \cup OutputsOf({id}),
               [uncommitted_account_root_hash EXCEPT ![tx.address] = NewAccount(tx)],
               NewRemaining(tx))
        ELSE l
  BY OpenApply, Zenon
<1> HIDE DEF accepted
<1>4. CASE DeliverValid(id)
  <2>1. accepted
    BY <1>2, <1>4 DEF DeliverValid
  <2>2. bodies' = bodies /\ Delivered' = Delivered \cup {id} /\ Chain' = Chain \cup {id}
    BY <1>4, DeliverChain
  <2>3. Chain \in SUBSET TxId /\ bodies \in SUBSET TxId /\ Delivered \in SUBSET TxId
    BY DEF TypeOK, Chain, Delivered
  <2>4. Left(bodies, Chain)' = Left(bodies, Chain) \ Spends(tx)
    <3>1. Left(bodies, Chain)' = Left(bodies, Chain \cup {id})
      BY <2>2 DEF Left, OutputsOf, HasOutputs, SpentBy, Spends
    <3> QED
      BY <2>3, <3>1, LeftStep
  <2>5. OutputsOf(Delivered)' = OutputsOf(Delivered) \cup OutputsOf({id})
    <3>1. OutputsOf(Delivered)' = OutputsOf(Delivered \cup {id})
      BY <2>2 DEF OutputsOf, HasOutputs
    <3> QED
      BY <2>3, <3>1, OutputsUnion
  <2>6. uncommitted_account_root_hash'
          = [uncommitted_account_root_hash EXCEPT ![tx.address] = NewAccount(tx)]
    <3>1. CASE tx.kind = "TransferTx"
      <4>1. NewAccount(tx) = uncommitted_account_root_hash[tx.address]
        BY <3>1 DEF NewAccount, UpdatedAccount, AccountOf, get_account
      <4>2. uncommitted_account_root_hash' = uncommitted_account_root_hash
        BY <1>4, <3>1 DEF DeliverValid
      <4> QED
        BY <4>1, <4>2 DEF TypeOK, Root
    <3>2. CASE tx.kind # "TransferTx"
      BY <1>4, <3>2 DEF DeliverValid, update_account
    <3> QED
      BY <3>1, <3>2
  <2>7. last_state'.rewards_pool.remaining = NewRemaining(tx)
    BY <1>4 DEF DeliverValid, TypeOK, ChainNodeState, RewardsPool
  <2>8. OpenLedger(state)' =
          LedgerRecord(state.last_block_height, state.block_time,
            Left(bodies, Chain)', OutputsOf(Delivered)', uncommitted_account_root_hash',
            last_state'.rewards_pool.remaining)
    BY DEF OpenLedger, LedgerRecord
  <2> QED
    BY <1>3, <2>1, <2>4, <2>5, <2>6, <2>7, <2>8
<1>5. CASE DeliverInvalid(id)
  <2>1. ~ accepted
    BY <1>2, <1>5 DEF DeliverInvalid
  <2>2. UNCHANGED <<bodies, delivered_txs, uncommitted_account_root_hash, last_state>>
    BY <1>5, Zenon DEF DeliverInvalid, DeliverTx, dbVars
  <2>3. OpenLedger(state)' = l
    BY <2>2, SameOpenLedger, Zenon
  <2> QED
    BY <1>3, <2>1, <2>3
<1> QED
  BY <1>4, <1>5 DEF DeliverTx

\* Steps that leave the database alone leave the stored ledger alone.
LEMMA SameStoredLedger ==
  ASSUME UNCHANGED dbVars, NEW state
  PROVE  StoredLedger(state)' = StoredLedger(state)
BY Zenon DEF dbVars, StoredLedger, OutputsOf, HasOutputs

LEMMA DeliverRun ==
  ASSUME TypeOK, SpendInvariant, RootsResolvable, SealInvariant, LedgerInvariant,
         NEW id \in TxId, DeliverTx(id), NEW state \in stored_state
  PROVE  L!Run(StoredLedger(state), last_state.block_time, block'.txs)[cursor']
           = OpenLedger(state)'
<1> DEFINE l == StoredLedger(state)
           time == last_state.block_time
<1>1. InBlock
  BY DEF DeliverTx, InBlock
<1>2. /\ cursor \in Nat /\ cursor <= Len(block.txs) /\ block.txs \in Seq(TxId)
      /\ L!Run(l, time, block.txs)[cursor] = OpenLedger(state)
  BY <1>1 DEF LedgerInvariant, TypeOK
<1>3. /\ cursor' = cursor + 1 /\ cursor' <= Len(block'.txs)
      /\ block'.txs \in Seq(TxId)
      /\ block'.txs[cursor + 1] = id
      /\ Agree(block'.txs, block.txs, cursor)
  BY <1>2, NextTx, Zenon DEF DeliverTx
<1> DEFINE txs == block.txs
           more == block'.txs
<1> HIDE DEF l, time, txs, more
<1>4. L!Run(l, time, more)[cursor + 1]
        = L!Apply(L!Run(l, time, txs)[cursor], time, more[cursor + 1])
  BY <1>2, <1>3, RunStep DEF txs, more
<1>5. L!Run(l, time, more)[cursor'] = L!Apply(OpenLedger(state), time, id)
  BY <1>2, <1>3, <1>4, Zenon DEF txs, more
<1> QED
  BY <1>5, DeliverLedger DEF time, more, l

\* The end of a block: the new outputs can be spent.
LEMMA ApplyBlockRecord ==
  ASSUME NEW h, NEW t, NEW u, NEW c, NEW a, NEW p, NEW l, NEW time, NEW txs,
         L!Run(l, time, txs)[Len(txs)] = LedgerRecord(h, t, u, c, a, p)
  PROVE  L!ApplyBlock(l, time, txs) = LedgerRecord(h + 1, time, u \cup c, {}, a, p)
<1> DEFINE after == L!Run(l, time, txs)[Len(txs)]
           unspent == u \cup c
           height == h + 1
           none == {}
<1>1. after = LedgerRecord(h, t, u, c, a, p)
  OBVIOUS
<1>2. L!ApplyBlock(l, time, txs) =
        [after EXCEPT !.unspent = @ \cup after.created, !.created = {}, !.height = @ + 1,
                      !.time = time]
  BY DEF L!ApplyBlock
<1> HIDE DEF after
<1>3. after.unspent = u /\ after.created = c /\ after.height = h
  BY <1>1 DEF LedgerRecord
<1>4. L!ApplyBlock(l, time, txs) =
        [after EXCEPT !.unspent = unspent, !.created = none, !.height = height, !.time = time]
  BY <1>2, <1>3
<1> HIDE DEF unspent, height, none
<1>5. [after EXCEPT !.unspent = unspent] = LedgerRecord(h, t, unspent, c, a, p)
  BY <1>1 DEF LedgerRecord
<1>6. \A r : r = LedgerRecord(h, t, unspent, c, a, p) =>
        [r EXCEPT !.created = none] = LedgerRecord(h, t, unspent, none, a, p)
  BY DEF LedgerRecord
<1>7. \A r : r = LedgerRecord(h, t, unspent, none, a, p) =>
        [r EXCEPT !.height = height] = LedgerRecord(height, t, unspent, none, a, p)
  BY DEF LedgerRecord
<1>8. \A r : r = LedgerRecord(height, t, unspent, none, a, p) =>
        [r EXCEPT !.time = time] = LedgerRecord(height, time, unspent, none, a, p)
  BY DEF LedgerRecord
<1> QED
  BY <1>4, <1>5, <1>6, <1>7, <1>8, Zenon DEF unspent, height, none

\* The root and the time Commit stores.
LEMMA CommittedRoot ==
  ASSUME TypeOK, LedgerInvariant, Commit
  PROVE  /\ CommittedState.last_account_root_hash = uncommitted_account_root_hash
         /\ CommittedState.block_time = last_state.block_time
<1>1. InBlock
  BY DEF Commit, InBlock
<1>2. CommittedState.last_account_root_hash = uncommitted_account_root_hash
  BY <1>1, CommittedFields DEF LedgerInvariant
<1>3. CommittedState.block_time = last_state.block_time
  BY DEF CommittedState, TypeOK, ChainNodeState
<1> QED
  BY <1>2, <1>3

\* Commit writes the ledger of the block.
LEMMA CommitLedger ==
  ASSUME TypeOK, SpendInvariant, BlockInvariant, LedgerInvariant, Commit
  PROVE  L!Block
<1> PICK new : new = CommittedState
  OBVIOUS
<1>1. phase = "ended" /\ InBlock /\ stored_state' = {new}
  BY Zenon DEF Commit, InBlock
<1>2. PICK state \in stored_state : Len(headers) = state.last_block_height + 1
  BY <1>1 DEF BlockInvariant, Running
<1>3. /\ block.complete /\ last_state.last_block_height = Len(headers)
      /\ cursor = Len(block.txs)
      /\ last_state.block_time = headers[Len(headers)]
      /\ L!Run(StoredLedger(state), last_state.block_time, block.txs)[cursor] = OpenLedger(state)
  BY <1>1, <1>2 DEF BlockInvariant, LedgerInvariant
<1>4. state.last_block_height \in Nat
  BY <1>2 DEF TypeOK, ChainNodeState
<1>5. HeaderTime(Len(headers)) = last_state.block_time
  BY <1>2, <1>3, <1>4 DEF HeaderTime
<1>6. L!ApplyBlock(StoredLedger(state), last_state.block_time, block.txs)
        = LedgerRecord(state.last_block_height + 1, last_state.block_time,
                       Left(bodies, Chain) \cup OutputsOf(Delivered), {},
                       uncommitted_account_root_hash, last_state.rewards_pool.remaining)
  BY <1>3, ApplyBlockRecord DEF OpenLedger
<1>7. /\ new.last_block_height = state.last_block_height + 1
      /\ new.block_time = last_state.block_time
      /\ new.last_account_root_hash = uncommitted_account_root_hash
      /\ new.rewards_pool.remaining = last_state.rewards_pool.remaining
  BY <1>2, <1>3, CommittedFields, CommittedRoot
<1>8. {o \in OutputsOf(Chain) : o.index \notin tx_meta'[o.id].spent}
        = Left(bodies, Chain) \cup OutputsOf(Delivered)
  <2>1. Chain \in SUBSET TxId
    BY DEF TypeOK, Chain, Delivered
  <2>2. \A id \in TxId : tx_meta'[id] = MetaOf(Chain, Chain, id)
    BY CommitBits, CommitChain DEF SpentBitsExact, MetaOf, SpentBy, HasOutputs, Spends
  <2> QED
    BY <2>1, <2>2, LeftByBits, LeftCommitted
<1>9. StoredLedger(new)' =
        LedgerRecord(new.last_block_height, new.block_time,
                     {o \in OutputsOf(Chain) : o.index \notin tx_meta'[o.id].spent}, {},
                     new.last_account_root_hash, new.rewards_pool.remaining)
  BY CommitChain, Zenon DEF StoredLedger, LedgerRecord, OutputsOf, HasOutputs
<1>10. {StoredLedger(s) : s \in stored_state}'
         = {L!ApplyBlock(StoredLedger(state), last_state.block_time, block.txs)}
  <2>1. StoredLedger(new)' = L!ApplyBlock(StoredLedger(state), last_state.block_time, block.txs)
    BY <1>6, <1>7, <1>8, <1>9, Zenon
  <2>2. {StoredLedger(s) : s \in stored_state}' = {StoredLedger(new)'}
    BY <1>1
  <2> QED
    BY <2>1, <2>2
<1>11. StoredLedger(state).height = state.last_block_height
  BY DEF StoredLedger
<1> QED
  BY <1>2, <1>3, <1>5, <1>10, <1>11, Zenon DEF L!Block

-----------------------------------------------------------------------------
(* The inductive invariant and the refinement *)

\* Steps that change no state the ledger is read from.
LEMMA SameLedger ==
  ASSUME LedgerInvariant, UNCHANGED <<phase, memVars, dbVars, tmVars>>
  PROVE  LedgerInvariant'
<1>1. /\ UNCHANGED <<phase, last_state, uncommitted_account_root_hash, delivered_txs, headers,
                     block, cursor, stored_state, bodies>>
      /\ UNCHANGED dbVars
  BY DEF memVars, dbVars, tmVars
<1>2. \A state \in stored_state :
        StoredLedger(state)' = StoredLedger(state) /\ OpenLedger(state)' = OpenLedger(state)
  <2> TAKE state \in stored_state
  <2>1. StoredLedger(state)' = StoredLedger(state)
    BY <1>1, SameStoredLedger
  <2>2. OpenLedger(state)' = OpenLedger(state)
    BY <1>1, SameOpenLedger, Zenon
  <2> QED
    BY <2>1, <2>2
<1> QED
  BY <1>1, <1>2 DEF LedgerInvariant, InBlock

LEMMA InitLedger == Init => LedgerInvariant
BY DEF Init, LedgerInvariant, InBlock

\* Steps after which no block is open.
LEMMA ClosedLedger ==
  ASSUME phase' \in {"down", "fresh", "idle"}, cursor' = 0,
         phase' # "down" => chain_hex_id = NETWORK_HEX_ID,
         phase' = "idle" =>
           /\ stored_state' = {last_state'}
           /\ uncommitted_account_root_hash' = last_state'.last_account_root_hash
  PROVE  LedgerInvariant'
BY DEF LedgerInvariant, InBlock

LEMMA NewWithStorageLedger ==
  ASSUME BlockInvariant, LedgerInvariant, NewWithStorage
  PROVE  LedgerInvariant'
<1>1. phase = "down" /\ cursor' = 0 /\ chain_hex_id = NETWORK_HEX_ID /\ stored_state' = stored_state
  BY DEF NewWithStorage, CheckChain, tmVars, dbVars, LedgerInvariant, InBlock
<1>2. CASE phase' = "fresh"
  BY <1>1, <1>2, ClosedLedger
<1>3. CASE \E state \in stored_state :
             /\ phase' = "idle"
             /\ last_state' = state
             /\ uncommitted_account_root_hash' = state.last_account_root_hash
  <2>1. stored_state' = {last_state'}
    BY <1>1, <1>3 DEF BlockInvariant
  <2> QED
    BY <1>1, <1>3, <2>1, ClosedLedger
<1> QED
  BY <1>2, <1>3 DEF NewWithStorage

LEMMA InitChainLedger ==
  ASSUME LedgerInvariant, InitChain
  PROVE  LedgerInvariant'
<1>1. phase = "fresh" /\ phase' = "idle" /\ cursor' = 0 /\ chain_hex_id = NETWORK_HEX_ID
  BY DEF InitChain, LedgerInvariant, InBlock
<1>2. /\ stored_state' = {last_state'}
      /\ uncommitted_account_root_hash' = last_state'.last_account_root_hash
  BY DEF InitChain, genesis_state
<1> QED
  BY <1>1, <1>2, ClosedLedger

\* The block opens with the stored ledger in memory.
LEMMA BeginBlockLedger ==
  ASSUME TypeOK, TypeOK', SpendInvariant, BlockInvariant, LedgerInvariant, BeginBlock
  PROVE  LedgerInvariant'
<1>1. /\ phase = "idle" /\ phase' = "deliver" /\ UNCHANGED dbVars
      /\ UNCHANGED <<uncommitted_account_root_hash, delivered_txs, cursor, bodies, stored_state>>
  BY DEF BeginBlock, dbVars
<1>2. /\ delivered_txs = <<>> /\ cursor = 0 /\ stored_state = {last_state}
      /\ uncommitted_account_root_hash = last_state.last_account_root_hash
      /\ chain_hex_id = NETWORK_HEX_ID
  BY <1>1, Zenon DEF BlockInvariant, LedgerInvariant, InBlock
<1>3. last_state'.block_time = headers'[Len(headers')]
  BY DEF BeginBlock, TypeOK, ChainNodeState
<1>4. /\ last_state'.last_account_root_hash = last_state.last_account_root_hash
      /\ last_state'.rewards_pool = last_state.rewards_pool
  BY BeginState
<1>5. block'.txs \in Seq(TxId) /\ 0 <= Len(block'.txs)
  BY DEF TypeOK
<1>6. ASSUME NEW state \in stored_state
      PROVE  L!Run(StoredLedger(state)', last_state'.block_time, block'.txs)[cursor']
               = OpenLedger(state)'
  <2>1. L!Run(StoredLedger(state), last_state'.block_time, block'.txs)[0] = StoredLedger(state)
    BY <1>5, RunStart
  <2>2. StoredLedger(state)' = StoredLedger(state)
    BY <1>1, SameStoredLedger
  <2>3. StoredLedger(state) =
          LedgerRecord(state.last_block_height, state.block_time, Left(bodies, bodies), {},
                       state.last_account_root_hash, state.rewards_pool.remaining)
    BY StoredRecord DEF SpendInvariant
  <2>4. Delivered = {} /\ Delivered' = {} /\ Chain' = bodies /\ OutputsOf({}) = {}
    BY <1>1, <1>2 DEF Delivered, Chain, OutputsOf
  <2>5. OpenLedger(state)' =
          LedgerRecord(state.last_block_height, state.block_time, Left(bodies, bodies), {},
                       uncommitted_account_root_hash, last_state'.rewards_pool.remaining)
    BY <1>1, <2>4 DEF OpenLedger
  <2>6. state = last_state
    BY <1>2, <1>6
  <2> QED
    BY <1>1, <1>2, <1>4, <2>1, <2>2, <2>3, <2>5, <2>6, Zenon
<1> QED
  BY <1>1, <1>2, <1>3, <1>4, <1>5, <1>6 DEF LedgerInvariant, InBlock

LEMMA DeliverTxLedger ==
  ASSUME TypeOK, SpendInvariant, RootsResolvable, SealInvariant, LedgerInvariant,
         NEW id \in TxId, DeliverTx(id)
  PROVE  LedgerInvariant'
<1>1. /\ phase = "deliver" /\ phase' = "deliver" /\ UNCHANGED <<headers, stored_state>>
      /\ UNCHANGED dbVars
  BY DEF DeliverTx, dbVars
<1>2. cursor' <= Len(block'.txs)
  BY <1>1, NextTx, Zenon DEF DeliverTx, LedgerInvariant, InBlock
<1>3. last_state'.block_time = last_state.block_time
  BY DEF DeliverTx, DeliverValid, DeliverInvalid, TypeOK, ChainNodeState
<1>4. last_state'.last_account_root_hash = last_state.last_account_root_hash
  BY DeliverState
<1>5. delivered_txs' = <<>> =>
        uncommitted_account_root_hash' = last_state.last_account_root_hash
  <2>1. CASE DeliverValid(id)
    <3>1. delivered_txs' = Append(delivered_txs, id) /\ delivered_txs \in Seq(TxId)
      BY <2>1 DEF DeliverValid, TypeOK
    <3>2. Len(Append(delivered_txs, id)) = Len(delivered_txs) + 1 /\ Len(delivered_txs) \in Nat
      BY <3>1
    <3>3. Append(delivered_txs, id) # <<>>
      BY <3>2
    <3> QED
      BY <3>1, <3>3
  <2>2. CASE DeliverInvalid(id)
    BY <1>1, <2>2 DEF DeliverInvalid, LedgerInvariant, InBlock
  <2> QED
    BY <2>1, <2>2 DEF DeliverTx
<1>6. ASSUME NEW state \in stored_state
      PROVE  L!Run(StoredLedger(state)', last_state'.block_time, block'.txs)[cursor']
               = OpenLedger(state)'
  BY <1>1, <1>3, <1>6, SameStoredLedger, DeliverRun
<1>7. chain_hex_id = NETWORK_HEX_ID /\ last_state.block_time = headers[Len(headers)]
  BY <1>1 DEF LedgerInvariant, InBlock
<1> QED
  BY <1>1, <1>2, <1>3, <1>4, <1>5, <1>6, <1>7, Zenon DEF LedgerInvariant, InBlock

LEMMA EndBlockLedger ==
  ASSUME TypeOK, LedgerInvariant, EndBlock
  PROVE  LedgerInvariant'
<1>1. /\ phase = "deliver" /\ phase' = "ended" /\ UNCHANGED dbVars /\ cursor = Len(block.txs)
      /\ UNCHANGED <<uncommitted_account_root_hash, delivered_txs, cursor, headers, bodies,
                     stored_state>>
  BY DEF EndBlock, dbVars
<1>2. block'.txs = block.txs
  BY DEF EndBlock, TypeOK
<1>3. /\ last_state'.last_account_root_hash = last_state.last_account_root_hash
      /\ last_state'.rewards_pool = last_state.rewards_pool
  BY EndState
<1>4. last_state'.block_time = last_state.block_time
  BY DEF EndBlock, TypeOK, ChainNodeState
<1>5. ASSUME NEW state \in stored_state
      PROVE  StoredLedger(state)' = StoredLedger(state) /\ OpenLedger(state)' = OpenLedger(state)
  <2>1. StoredLedger(state)' = StoredLedger(state)
    BY <1>1, SameStoredLedger
  <2>2. OpenLedger(state)' = OpenLedger(state)
    BY <1>1, <1>3, Zenon DEF OpenLedger, Chain, Delivered
  <2> QED
    BY <2>1, <2>2
<1> QED
  BY <1>1, <1>2, <1>3, <1>4, <1>5, Zenon DEF LedgerInvariant, InBlock

LEMMA CommitLedgerInvariant ==
  ASSUME TypeOK, LedgerInvariant, Commit
  PROVE  LedgerInvariant'
<1>1. phase = "ended" /\ phase' = "idle" /\ cursor' = 0 /\ chain_hex_id = NETWORK_HEX_ID
  BY DEF Commit, LedgerInvariant
<1>2. /\ stored_state' = {last_state'} /\ last_state' = CommittedState
      /\ uncommitted_account_root_hash' = uncommitted_account_root_hash
  BY Zenon DEF Commit
<1> QED
  BY <1>1, <1>2, CommittedRoot, ClosedLedger

LEMMA NextLedger ==
  TypeOK /\ TypeOK' /\ SpendInvariant /\ RootsResolvable /\ BlockInvariant /\ SealInvariant
    /\ LedgerInvariant /\ [Next]_vars => LedgerInvariant'
<1> SUFFICES ASSUME TypeOK, TypeOK', SpendInvariant, RootsResolvable, BlockInvariant,
                    SealInvariant, LedgerInvariant, [Next]_vars
             PROVE  LedgerInvariant'
  OBVIOUS
<1>1. ASSUME NEW id \in TxId, CheckTx(id) PROVE LedgerInvariant'
  BY <1>1, SameLedger DEF CheckTx
<1>2. CASE Crash
  BY <1>2, ClosedLedger DEF Crash, MemoryLost
<1>3. CASE CrashInCommit
  BY <1>3, ClosedLedger DEF CrashInCommit, MemoryLost
<1>4. CASE RestartServer
  BY <1>4, SameLedger DEF RestartServer
<1>5. CASE UNCHANGED vars
  BY <1>5, SameLedger DEF vars
<1> QED
  BY <1>1, <1>2, <1>3, <1>4, <1>5, NewWithStorageLedger, InitChainLedger, BeginBlockLedger,
     DeliverTxLedger, EndBlockLedger, CommitLedgerInvariant
  DEF Next, NewWithStoragePanics

-----------------------------------------------------------------------------

\* Every step of the node is a step of the ledger or leaves it alone.
LEMMA LedgerStep ==
  TypeOK /\ SpendInvariant /\ BlockInvariant /\ LedgerInvariant /\ [Next]_vars
    => [L!Genesis \/ L!Block]_{StoredLedger(state) : state \in stored_state}
<1> DEFINE stored == {StoredLedger(state) : state \in stored_state}
<1> SUFFICES ASSUME TypeOK, SpendInvariant, BlockInvariant, LedgerInvariant, [Next]_vars
             PROVE  L!Genesis \/ L!Block \/ stored' = stored
  OBVIOUS
<1>1. ASSUME UNCHANGED dbVars PROVE stored' = stored
  BY <1>1, SameStoredLedger DEF dbVars
<1>2. CASE InitChain
  <2>1. stored_state = {} /\ bodies = {} /\ bodies' = {} /\ stored_state' = {genesis_state}
    BY <1>2 DEF InitChain, SpendInvariant
  <2>2. StoredLedger(genesis_state)' =
          [height |-> 0, time |-> genesis_time, unspent |-> {}, created |-> {},
           accounts |-> genesis_accounts, pool |-> genesis_rewards]
    <3>1. OutputsOf({}) = {}
      BY DEF OutputsOf
    <3> QED
      BY <2>1, <3>1, Zenon DEF StoredLedger, genesis_state, genesis_pool
  <2> QED
    BY <2>1, <2>2, Zenon DEF L!Genesis
<1>3. CASE Commit
  BY <1>3, CommitLedger
<1>4. CASE NewWithStorage \/ BeginBlock \/ EndBlock \/ Crash \/ CrashInCommit \/ RestartServer
  BY <1>1, <1>4, Zenon DEF NewWithStorage, BeginBlock, EndBlock, Crash, CrashInCommit, RestartServer
<1>5. CASE \E id \in TxId : CheckTx(id) \/ DeliverTx(id)
  BY <1>1, <1>5 DEF CheckTx, DeliverTx
<1>6. CASE NewWithStoragePanics \/ UNCHANGED vars
  BY <1>1, <1>6 DEF NewWithStoragePanics, vars
<1> QED
  BY <1>2, <1>3, <1>4, <1>5, <1>6 DEF Next

\* If the server restarts only while no block is being delivered, the database
\* of the node is at all times the ledger after some number of whole blocks,
\* each the decided one, applied by the pure rules.
THEOREM NodeImplementsLedger ==
  ASSUME RestartPhases \cap {"deliver", "ended"} = {}
  PROVE  Spec => ImplementsLedger
<1>1. Init => {StoredLedger(state) : state \in stored_state} = {}
  BY DEF Init
<1>2. TypeOK /\ BlockInvariant /\ SealInvariant /\ [Next]_vars => SealInvariant'
  BY NextSeal
<1> QED
  BY <1>1, <1>2, InitType, NextType, InitSpends, NextSpends, InitRoots, NextRoots, InitBlocks,
     NextBlocks, InitSeal, InitLedger, NextLedger, LedgerStep, PTL
  DEF Spec, ImplementsLedger, L!LedgerSpec
=============================================================================
