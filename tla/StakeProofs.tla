---------------------------- MODULE StakeProofs -----------------------------
(***************************************************************************)
(* The unbonding period and the backing of the voting power hold for every *)
(* choice of the constants.                                                *)
(*                                                                         *)
(* UnbondingPeriodHeld relates app hashes of two heights and says nothing  *)
(* of the accounts in between.  The induction needs that the account of an *)
(* unbonding, in every account map the node may go on from, keeps a date   *)
(* that lies a period after it, and that the open block, whose withdrawals *)
(* have not reached an app hash yet, already respects the earlier ones.    *)
(*                                                                         *)
(* PowerBackedAfterSingleChanges speaks of the idle node only.  Its        *)
(* induction follows the power the open block will leave (NextPower).      *)
(***************************************************************************)
EXTENDS NodeProofs

\* The unbondings that app hashes name: whose stake, and the time of the block.
Unbondings(txs, time) ==
  {[address |-> Tx[u].address, time |-> time] : u \in {t \in txs : Tx[t].kind = "UnbondStakeTx"}}
Unbonded == UNION {Unbondings(TxsAt(g), headers[g]) : g \in DOMAIN app_states}

\* After an unbonding the account is held back for the period.
Held(p, root) ==
  /\ root[p.address].exists
  /\ p.time + unbonding_period <= root[p.address].unbonded_from
AllHeld(root) == \A p \in Unbonded : Held(p, root)

\* A withdrawal w in the block of the given time leaves a period after every
\* committed unbonding of its account.
LateEnough(w, time) ==
  Tx[w].kind = "WithdrawUnbondedStakeTx" =>
    \A p \in Unbonded : p.address = Tx[w].address => p.time + unbonding_period <= time

HeadersIncrease == \A i, j \in DOMAIN headers : i < j => headers[i] < headers[j]

\* The account map the node would restart from keeps the date of every committed
\* unbonding, and header times increase.
StoredInvariant ==
  /\ UnbondingPeriodHeld
  /\ HeadersIncrease
  /\ \A state \in stored_state :
       /\ state.last_apphash.pool.last_block_height <= state.last_block_height
       /\ state.last_block_height <= Len(headers)
       /\ AllHeld(state.last_account_root_hash)

\* So do the account maps in memory, the open block's with the block's own
\* unbondings; the block's withdrawals respect the earlier ones.
UnbondInvariant ==
  /\ StoredInvariant
  /\ Running => AllHeld(last_state.last_account_root_hash)
                  /\ AllHeld(uncommitted_account_root_hash)
  /\ InBlock =>
       /\ last_state.block_time = headers[Len(headers)]
       /\ \A p \in Unbondings(Delivered, headers[Len(headers)]) :
            Held(p, uncommitted_account_root_hash)
       /\ \A t \in Delivered : LateEnough(t, headers[Len(headers)])

\* Every height with an app hash has a header.
LEMMA HeightsHaveHeaders ==
  ASSUME TypeOK, BlockInvariant, ProofInvariant, UnbondInvariant, NEW g \in DOMAIN app_states
  PROVE  /\ g \in DOMAIN headers
         /\ headers[g] \in Nat
         /\ Len(headers) \in DOMAIN headers
         /\ headers[Len(headers)] \in Nat
         /\ headers[g] <= headers[Len(headers)]
<1>1. PICK state \in stored_state : TRUE
  BY DEF BlockInvariant
<1>2. g \in 1 .. state.last_block_height /\ state.last_block_height <= Len(headers)
  BY <1>1, Zenon DEF ProofInvariant, UnbondInvariant, StoredInvariant
<1>3. headers \in Seq(Nat) /\ state.last_block_height \in Nat
  BY <1>1 DEF TypeOK, ChainNodeState
<1>4. g \in DOMAIN headers /\ Len(headers) \in DOMAIN headers
  BY <1>2, <1>3
<1>5. g = Len(headers) \/ g < Len(headers)
  BY <1>2, <1>3
<1>6. headers[g] \in Nat /\ headers[Len(headers)] \in Nat
  BY <1>3, <1>4
<1> QED
  BY <1>4, <1>5, <1>6 DEF UnbondInvariant, StoredInvariant, HeadersIncrease

\* An unbonding of an earlier block is of an address and not later than the last
\* header.
LEMMA UnbondedType ==
  ASSUME TypeOK, BlockInvariant, ProofInvariant, UnbondInvariant, NEW p \in Unbonded
  PROVE  p.address \in Address /\ p.time \in Nat /\ p.time <= headers[Len(headers)]
<1>1. PICK g \in DOMAIN app_states : p \in Unbondings(TxsAt(g), headers[g])
  BY DEF Unbonded
<1>2. PICK u \in TxsAt(g) : p = [address |-> Tx[u].address, time |-> headers[g]]
  BY <1>1 DEF Unbondings
<1>3. u \in TxId
  BY <1>1, <1>2 DEF TxsAt, TypeOK, AppHash
<1>4. Tx[u].address \in Address
  BY <1>3, TxAssumption DEF TxAux
<1> QED
  BY <1>1, <1>2, <1>4, HeightsHaveHeaders

LEMMA InitUnbond == Init => UnbondInvariant
BY DEF Init, UnbondInvariant, StoredInvariant, UnbondingPeriodHeld, HeadersIncrease, Running,
       InBlock

\* Steps that leave the database and the headers alone.
LEMMA SameStored ==
  ASSUME StoredInvariant, UNCHANGED <<stored_state, app_states, headers>>
  PROVE  Unbonded' = Unbonded /\ StoredInvariant'
<1>1. \A g : TxsAt(g)' = TxsAt(g)
  BY DEF TxsAt
<1>2. Unbonded' = Unbonded
  BY <1>1 DEF Unbonded, Unbondings
<1>3. UnbondingPeriodHeld'
  BY <1>1 DEF StoredInvariant, UnbondingPeriodHeld
<1>4. HeadersIncrease'
  BY DEF StoredInvariant, HeadersIncrease
<1>5. \A state \in stored_state' : AllHeld(state.last_account_root_hash)'
  BY <1>2 DEF StoredInvariant, AllHeld, Held
<1>6. \A state \in stored_state' :
        /\ state.last_apphash.pool.last_block_height <= state.last_block_height
        /\ state.last_block_height <= Len(headers')
  BY DEF StoredInvariant
<1> QED
  BY <1>2, <1>3, <1>4, <1>5, <1>6 DEF StoredInvariant

\* Steps that leave the accounts alone, too.
LEMMA SameUnbond ==
  ASSUME UnbondInvariant,
         UNCHANGED <<stored_state, app_states, headers, delivered_txs>>,
         Running' => /\ Running
                     /\ last_state'.last_account_root_hash = last_state.last_account_root_hash
                     /\ UNCHANGED uncommitted_account_root_hash,
         InBlock' => InBlock /\ last_state'.block_time = last_state.block_time
  PROVE  UnbondInvariant'
<1>1. StoredInvariant' /\ Unbonded' = Unbonded
  BY SameStored DEF UnbondInvariant
<1>2. Running' => /\ AllHeld(last_state.last_account_root_hash)'
                  /\ AllHeld(uncommitted_account_root_hash)'
  BY <1>1 DEF UnbondInvariant, AllHeld, Held
<1>3. CASE InBlock'
  <2>1. /\ InBlock /\ UNCHANGED uncommitted_account_root_hash
        /\ last_state'.block_time = last_state.block_time
    BY <1>3 DEF InBlock, Running
  <2>2. Delivered' = Delivered
    BY DEF Delivered
  <2>3. \A p \in Unbondings(Delivered, headers[Len(headers)])' :
          Held(p, uncommitted_account_root_hash)'
    BY <2>1, <2>2 DEF UnbondInvariant, Unbondings, Held
  <2>4. \A t \in Delivered' : LateEnough(t, headers[Len(headers)])'
    BY <1>1, <2>1, <2>2 DEF UnbondInvariant, LateEnough
  <2>5. last_state'.block_time = headers'[Len(headers')]
    BY <2>1 DEF UnbondInvariant
  <2> QED
    BY <1>1, <1>2, <2>3, <2>4, <2>5 DEF UnbondInvariant
<1> QED
  BY <1>1, <1>2, <1>3 DEF UnbondInvariant

\* A start from storage works from the stored account map.
LEMMA NewWithStorageUnbond ==
  ASSUME BlockInvariant, UnbondInvariant, NewWithStorage
  PROVE  UnbondInvariant'
<1>1. UNCHANGED <<stored_state, app_states, headers, delivered_txs>> /\ ~ InBlock'
  BY DEF NewWithStorage, memVars, dbVars, tmVars, InBlock
<1>2. CASE phase' = "fresh"
  BY <1>1, <1>2, SameUnbond DEF Running
<1>3. ASSUME NEW state \in stored_state, last_state' = state,
             uncommitted_account_root_hash' = state.last_account_root_hash
      PROVE  UnbondInvariant'
  <2>1. StoredInvariant' /\ Unbonded' = Unbonded
    BY <1>1, SameStored DEF UnbondInvariant
  <2>2. AllHeld(state.last_account_root_hash)
    BY <1>3 DEF UnbondInvariant, StoredInvariant
  <2>3. AllHeld(last_state.last_account_root_hash)' /\ AllHeld(uncommitted_account_root_hash)'
    BY <1>3, <2>1, <2>2 DEF AllHeld, Held
  <2> QED
    BY <1>1, <2>1, <2>3 DEF UnbondInvariant
<1> QED
  BY <1>2, <1>3 DEF NewWithStorage

LEMMA InitChainUnbond ==
  ASSUME TypeOK, BlockInvariant, UnbondInvariant, InitChain
  PROVE  UnbondInvariant'
<1>1. DOMAIN app_states = {} /\ UNCHANGED <<app_states, headers>> /\ ~ InBlock'
  BY DEF InitChain, BlockInvariant, InBlock
<1>2. Unbonded' = {}
  BY <1>1 DEF Unbonded
<1>3. UnbondingPeriodHeld'
  BY <1>1 DEF UnbondingPeriodHeld
<1>4. HeadersIncrease'
  BY <1>1 DEF UnbondInvariant, StoredInvariant, HeadersIncrease
<1>5. \A state \in stored_state' :
        /\ state.last_apphash.pool.last_block_height <= state.last_block_height
        /\ state.last_block_height <= Len(headers')
  <2>1. stored_state' = {genesis_state} /\ Len(headers') \in Nat
    BY <1>1 DEF InitChain, TypeOK
  <2>2. /\ genesis_state.last_block_height = 0
        /\ genesis_state.last_apphash.pool.last_block_height = 0
    BY DEF genesis_state, genesis_app_hash, compute_app_hash, genesis_pool
  <2> QED
    BY <2>1, <2>2
<1> QED
  BY <1>1, <1>2, <1>3, <1>4, <1>5 DEF UnbondInvariant, StoredInvariant, AllHeld

\* A new header has a later time than every earlier one.
LEMMA BeginHeaders ==
  ASSUME TypeOK, HeadersIncrease, BeginBlock
  PROVE  /\ HeadersIncrease'
         /\ Len(headers) <= Len(headers')
         /\ \A g \in DOMAIN headers : headers'[g] = headers[g]
<1>1. headers \in Seq(Nat) /\ genesis_time \in Nat /\ MaxTime \in Nat
  BY GenesisAssumption DEF TypeOK
<1>2. CASE UNCHANGED headers
  BY <1>1, <1>2 DEF HeadersIncrease
<1>3. ASSUME NEW time \in (HeaderTime(Len(headers)) + 1) .. MaxTime,
             headers' = Append(headers, time)
      PROVE  /\ HeadersIncrease'
             /\ Len(headers) <= Len(headers')
             /\ \A g \in DOMAIN headers : headers'[g] = headers[g]
  <2>1. HeaderTime(Len(headers)) \in Nat
    BY <1>1 DEF HeaderTime
  <2>2. time \in Nat /\ HeaderTime(Len(headers)) < time
    BY <1>1, <2>1
  <2>3. /\ Len(headers') = Len(headers) + 1
        /\ DOMAIN headers' = 1 .. (Len(headers) + 1)
        /\ headers'[Len(headers) + 1] = time
        /\ \A g \in DOMAIN headers : headers'[g] = headers[g]
    BY <1>1, <1>3, <2>2
  <2>4. \A g \in DOMAIN headers : headers[g] \in Nat /\ headers[g] < time
    <3>1. SUFFICES ASSUME NEW g \in DOMAIN headers PROVE headers[g] \in Nat /\ headers[g] < time
      OBVIOUS
    <3>2. g \in 1 .. Len(headers) /\ Len(headers) \in Nat /\ headers[g] \in Nat
      BY <1>1
    <3>3. HeaderTime(Len(headers)) = headers[Len(headers)] /\ Len(headers) \in DOMAIN headers
      BY <1>1, <3>2 DEF HeaderTime
    <3>4. CASE g = Len(headers)
      BY <2>2, <3>2, <3>3, <3>4
    <3>5. CASE g < Len(headers)
      <4>1. headers[g] < headers[Len(headers)]
        BY <3>3, <3>5 DEF HeadersIncrease
      <4> QED
        BY <2>1, <2>2, <3>2, <3>3, <4>1
    <3> QED
      BY <3>2, <3>4, <3>5
  <2>5. HeadersIncrease'
    <3>1. SUFFICES ASSUME NEW i \in DOMAIN headers', NEW j \in DOMAIN headers', i < j
                   PROVE  headers'[i] < headers'[j]
      BY DEF HeadersIncrease
    <3>2. i \in DOMAIN headers
      BY <1>1, <2>3, <3>1
    <3>3. j \in DOMAIN headers \/ j = Len(headers) + 1
      BY <1>1, <2>3
    <3> QED
      BY <2>3, <2>4, <3>1, <3>2, <3>3 DEF HeadersIncrease
  <2> QED
    BY <1>1, <2>3, <2>5
<1> QED
  BY <1>2, <1>3 DEF BeginBlock

LEMMA BeginBlockUnbond ==
  ASSUME TypeOK, BlockInvariant, ProofInvariant, UnbondInvariant, BeginBlock
  PROVE  UnbondInvariant'
<1>1. /\ UNCHANGED <<stored_state, app_states, uncommitted_account_root_hash>>
      /\ last_state'.last_account_root_hash = last_state.last_account_root_hash
      /\ Running
      /\ Delivered' = {}
  BY BeginState DEF BeginBlock, dbVars, BlockInvariant, InBlock, Running, Delivered
<1>2. /\ HeadersIncrease'
      /\ Len(headers) <= Len(headers')
      /\ \A g \in DOMAIN app_states : headers'[g] = headers[g]
  BY BeginHeaders, HeightsHaveHeaders DEF UnbondInvariant, StoredInvariant
<1>3. \A g : TxsAt(g)' = TxsAt(g)
  BY <1>1 DEF TxsAt
<1>4. Unbonded' = Unbonded
  BY <1>1, <1>2, <1>3 DEF Unbonded, Unbondings
<1>5. UnbondingPeriodHeld'
  BY <1>1, <1>2, <1>3 DEF UnbondInvariant, StoredInvariant, UnbondingPeriodHeld
<1>6. ASSUME NEW state \in stored_state
      PROVE  /\ state.last_apphash.pool.last_block_height <= state.last_block_height
             /\ state.last_block_height <= Len(headers')
  <2>1. state.last_block_height \in Nat
    BY <1>6 DEF TypeOK, ChainNodeState
  <2>2. Len(headers) \in Nat /\ Len(headers') \in Nat
    BY BeginBlockType DEF TypeOK
  <2>3. /\ state.last_block_height <= Len(headers)
        /\ state.last_apphash.pool.last_block_height <= state.last_block_height
    BY <1>6 DEF UnbondInvariant, StoredInvariant
  <2> QED
    BY <1>2, <2>1, <2>2, <2>3
<1>7. \A state \in stored_state' : AllHeld(state.last_account_root_hash)'
  BY <1>1, <1>4 DEF UnbondInvariant, StoredInvariant, AllHeld, Held
<1>8. AllHeld(last_state.last_account_root_hash)' /\ AllHeld(uncommitted_account_root_hash)'
  BY <1>1, <1>4 DEF UnbondInvariant, AllHeld, Held
<1>9. last_state'.block_time = headers'[Len(headers')]
  BY DEF BeginBlock, TypeOK, ChainNodeState
<1>10. Unbondings(Delivered, headers[Len(headers)])' = {}
  BY <1>1 DEF Unbondings
<1>11. StoredInvariant'
  BY <1>1, <1>2, <1>5, <1>6, <1>7 DEF StoredInvariant
<1> QED
  BY <1>1, <1>8, <1>9, <1>10, <1>11 DEF UnbondInvariant

\* An account stays, and only an unbonding moves its date, to a period after the
\* time of the block.
LEMMA AccountDate ==
  ASSUME TypeOK, NEW id \in TxId, AccountOf(Tx[id]).exists
  PROVE  /\ NewAccount(Tx[id]).exists
         /\ NewAccount(Tx[id]).unbonded_from =
              IF Tx[id].kind = "UnbondStakeTx"
              THEN last_state.block_time + unbonding_period
              ELSE AccountOf(Tx[id]).unbonded_from
<1> DEFINE tx == Tx[id]
           account == AccountOf(tx)
<1>1. tx \in TxAux /\ account \in StakedState
  BY TxAssumption DEF TypeOK, AccountOf, get_account, Root, TxAux
<1>2. tx.kind \in Kind
  BY <1>1 DEF TxAux
<1>3. account.exists
  OBVIOUS
<1> HIDE DEF tx, account
<1>4. CASE tx.kind = "DepositStakeTx"
  BY <1>1, <1>3, <1>4, Zenon
  DEF NewAccount, UpdatedAccount, bonded_deposit_account, deposit, StakedState, tx, account
<1>5. CASE tx.kind = "UnbondStakeTx"
  BY <1>1, <1>3, <1>5, Zenon
  DEF NewAccount, UpdatedAccount, unbonding_account, unbond, Info, StakedState, tx, account
<1>6. CASE tx.kind = "WithdrawUnbondedStakeTx"
  BY <1>1, <1>3, <1>6, Zenon
  DEF NewAccount, UpdatedAccount, withdraw, StakedState, tx, account
<1>7. CASE tx.kind = "TransferTx"
  BY <1>1, <1>3, <1>7 DEF NewAccount, UpdatedAccount, tx, account
<1> QED
  BY <1>2, <1>4, <1>5, <1>6, <1>7 DEF Kind, tx, account

\* What verify establishes of the account of an unbonding and of a withdrawal.
LEMMA VerifiedAccount ==
  ASSUME NEW id \in TxId, verify(id)
  PROVE  /\ Tx[id].kind = "UnbondStakeTx" => AccountOf(Tx[id]).exists
         /\ Tx[id].kind = "WithdrawUnbondedStakeTx" =>
              AccountOf(Tx[id]).unbonded_from <= last_state.block_time
<1>1. CASE Tx[id].kind = "UnbondStakeTx"
  BY <1>1 DEF verify
<1>2. CASE Tx[id].kind = "WithdrawUnbondedStakeTx"
  <2>1. VerifyTx(id, AccountOf(Tx[id]), Info(Tx[id]))
    BY <1>2 DEF verify
  <2>2. verify_unbonded_withdraw_core(Tx[id], Info(Tx[id]), AccountOf(Tx[id]))
    BY <1>2, <2>1 DEF VerifyTx
  <2> QED
    BY <1>2, <2>2 DEF verify_unbonded_withdraw_core, Info
<1> QED
  BY <1>1, <1>2

\* A delivered transaction keeps every account held back that was, for an
\* unbonding not later than the block.
LEMMA DeliverHeld ==
  ASSUME TypeOK, NEW id \in TxId, NEW p, p.address \in Address, p.time \in Nat,
         p.time <= last_state.block_time,
         Held(p, uncommitted_account_root_hash)
  PROVE  Held(p, update_account(Tx[id]))
<1> DEFINE root == uncommitted_account_root_hash
           new == update_account(Tx[id])
<1>1. root[p.address].exists /\ p.time + unbonding_period <= root[p.address].unbonded_from
  BY DEF Held
<1>2. /\ Tx[id].address \in Address /\ root \in Root
      /\ unbonding_period \in Nat /\ last_state.block_time \in Nat
  BY TxAssumption, GenesisAssumption DEF TxAux, TypeOK, ChainNodeState
<1>3. new = [root EXCEPT ![Tx[id].address] = NewAccount(Tx[id])]
  BY DEF update_account
<1> HIDE DEF new
<1>4. CASE p.address # Tx[id].address
  <2>1. new[p.address] = root[p.address]
    BY <1>2, <1>3, <1>4 DEF Root
  <2> QED
    BY <1>1, <2>1 DEF Held, new
<1>5. CASE p.address = Tx[id].address
  <2>1. new[p.address] = NewAccount(Tx[id])
    BY <1>2, <1>3, <1>5 DEF Root
  <2>2. AccountOf(Tx[id]) = root[p.address]
    BY <1>5 DEF AccountOf, get_account
  <2>3. /\ NewAccount(Tx[id]).exists
        /\ NewAccount(Tx[id]).unbonded_from =
             IF Tx[id].kind = "UnbondStakeTx"
             THEN last_state.block_time + unbonding_period
             ELSE root[p.address].unbonded_from
    BY <1>1, <2>2, AccountDate
  <2>4. p.time + unbonding_period <= NewAccount(Tx[id]).unbonded_from
    BY <1>1, <1>2, <2>3
  <2> QED
    BY <2>1, <2>3, <2>4 DEF Held, new
<1> QED
  BY <1>4, <1>5

LEMMA DeliverUnbond ==
  ASSUME TypeOK, BlockInvariant, ProofInvariant, UnbondInvariant,
         NEW id \in TxId, DeliverTx(id), DeliverValid(id)
  PROVE  UnbondInvariant'
<1> DEFINE now == headers[Len(headers)]
           old == uncommitted_account_root_hash
           new == uncommitted_account_root_hash'
<1>1. /\ UNCHANGED <<stored_state, app_states, headers, phase>>
      /\ phase = "deliver" /\ verify(id)
      /\ last_state'.last_account_root_hash = last_state.last_account_root_hash
  BY DeliverState DEF DeliverTx, DeliverValid, dbVars
<1>2. last_state.block_time = now /\ last_state'.block_time = now
  BY <1>1 DEF DeliverValid, UnbondInvariant, InBlock, TypeOK, ChainNodeState
<1>3. now \in Nat
  BY <1>2 DEF TypeOK, ChainNodeState
<1>4. /\ Running /\ InBlock /\ AllHeld(last_state.last_account_root_hash) /\ AllHeld(old)
      /\ \A p \in Unbondings(Delivered, now) : Held(p, old)
      /\ \A t \in Delivered : LateEnough(t, now)
  BY <1>1 DEF UnbondInvariant, Running, InBlock
<1>5. new = IF Tx[id].kind = "TransferTx" THEN old ELSE update_account(Tx[id])
  BY DEF DeliverValid
<1>6. Delivered' = Delivered \cup {id}
  BY DeliverChain
<1>7. StoredInvariant' /\ Unbonded' = Unbonded
  BY <1>1, SameStored DEF UnbondInvariant
<1> HIDE DEF now, new, old
<1>8. ASSUME NEW p, p.address \in Address, p.time \in Nat, p.time <= now, Held(p, old)
      PROVE  Held(p, new)
  BY <1>2, <1>5, <1>8, DeliverHeld DEF old
<1>9. \A p \in Unbonded : Held(p, new)
  BY <1>4, <1>8, UnbondedType DEF AllHeld, now
<1>10. Tx[id].kind = "UnbondStakeTx" => Held([address |-> Tx[id].address, time |-> now], new)
  <2>1. SUFFICES ASSUME Tx[id].kind = "UnbondStakeTx"
                 PROVE  /\ new[Tx[id].address].exists
                        /\ now + unbonding_period <= new[Tx[id].address].unbonded_from
    BY DEF Held
  <2>2. Tx[id].address \in Address /\ old \in Root /\ unbonding_period \in Nat
    BY TxAssumption, GenesisAssumption DEF TxAux, TypeOK, old
  <2>3. new[Tx[id].address] = NewAccount(Tx[id])
    BY <1>5, <2>1, <2>2 DEF update_account, Root, old
  <2>4. AccountOf(Tx[id]).exists
    BY <1>1, <2>1, VerifiedAccount
  <2> QED
    BY <1>2, <1>3, <2>1, <2>2, <2>3, <2>4, AccountDate
<1>11. LateEnough(id, now)
  <2>1. SUFFICES ASSUME Tx[id].kind = "WithdrawUnbondedStakeTx",
                        NEW p \in Unbonded, p.address = Tx[id].address
                 PROVE  p.time + unbonding_period <= now
    BY DEF LateEnough
  <2>2. p.time + unbonding_period <= AccountOf(Tx[id]).unbonded_from
    BY <1>4, <2>1 DEF AllHeld, Held, AccountOf, get_account, old
  <2>3. AccountOf(Tx[id]).unbonded_from <= now
    BY <1>1, <1>2, <2>1, VerifiedAccount
  <2>4. AccountOf(Tx[id]) \in StakedState
    BY TxAssumption DEF TxAux, TypeOK, Root, AccountOf, get_account
  <2>5. AccountOf(Tx[id]).unbonded_from \in Nat
    BY <2>4 DEF StakedState
  <2>6. p.time \in Nat /\ unbonding_period \in Nat
    BY <2>1, UnbondedType, GenesisAssumption
  <2> QED
    BY <1>3, <2>2, <2>3, <2>5, <2>6
<1>12. \A p \in Unbondings(Delivered', now) : Held(p, new)
  <2>1. ASSUME NEW t \in Delivered, Tx[t].kind = "UnbondStakeTx"
        PROVE  Held([address |-> Tx[t].address, time |-> now], new)
    <3> DEFINE p == [address |-> Tx[t].address, time |-> now]
    <3>1. t \in TxId
      BY <2>1 DEF Delivered, TypeOK
    <3>2. p.address \in Address /\ p.time \in Nat /\ p.time <= now
      BY <1>3, <3>1, TxAssumption DEF TxAux
    <3>3. p \in Unbondings(Delivered, now)
      BY <2>1 DEF Unbondings
    <3> HIDE DEF p
    <3>4. Held(p, new)
      BY <1>4, <1>8, <3>2, <3>3
    <3> QED
      BY <3>4 DEF p
  <2> QED
    BY <1>6, <1>10, <2>1 DEF Unbondings
<1>13. \A t \in Delivered' : LateEnough(t, now)
  BY <1>4, <1>6, <1>11
<1>14. \A p \in Unbondings(Delivered, headers[Len(headers)])' :
         Held(p, uncommitted_account_root_hash)'
  BY <1>1, <1>12 DEF Unbondings, Held, now, new
<1>15. \A t \in Delivered' : LateEnough(t, headers[Len(headers)])'
  BY <1>1, <1>7, <1>13 DEF LateEnough, now
<1>16. AllHeld(last_state.last_account_root_hash)'
  BY <1>1, <1>4, <1>7 DEF AllHeld, Held
<1>17. AllHeld(uncommitted_account_root_hash)'
  BY <1>7, <1>9 DEF AllHeld, Held, new
<1>18. last_state'.block_time = headers'[Len(headers')]
  BY <1>1, <1>2 DEF now
<1> QED
  BY <1>7, <1>14, <1>15, <1>16, <1>17, <1>18 DEF UnbondInvariant

\* The delivered transactions of the block become those of its height; an empty
\* block repeats an older hash, whose transactions are not its own.
LEMMA CommitTxs ==
  ASSUME TypeOK, BlockInvariant, ProofInvariant, UnbondInvariant, Commit,
         NEW H \in Nat, H = CommittedState.last_block_height
  PROVE  /\ H = Len(headers) /\ headers' = headers
         /\ CommittedState.last_apphash.pool.last_block_height <= H
         /\ \A g \in DOMAIN app_states : g \in Nat /\ g < H /\ TxsAt(g)' = TxsAt(g)
         /\ DOMAIN app_states' = DOMAIN app_states \cup {H}
         /\ TxsAt(H)' = Delivered
<1>1. PICK state \in stored_state : TRUE
  BY DEF Commit, BlockInvariant, Running
<1>2. /\ H = Len(headers) /\ H = last_state.last_block_height
      /\ \A g \in DOMAIN app_states : g \in Nat /\ g < H
  BY CommitHeight, CommittedFields
<1>3. H = state.last_block_height + 1 /\ last_state.last_apphash = state.last_apphash
  BY <1>1, <1>2 DEF Commit, BlockInvariant, InBlock, Running
<1>4. app_states' = Insert(app_states, H, CommittedState.last_apphash) /\ headers' = headers
  BY DEF Commit
<1>5. /\ DOMAIN app_states' = DOMAIN app_states \cup {H}
      /\ app_states'[H] = CommittedState.last_apphash
      /\ \A g \in DOMAIN app_states : app_states'[g] = app_states[g]
  BY <1>2, <1>4 DEF Insert
<1>6. \A g \in DOMAIN app_states : TxsAt(g)' = TxsAt(g)
  BY <1>5 DEF TxsAt
<1>7. CASE delivered_txs = <<>>
  <2>1. CommittedState = last_state
    BY <1>7, CommittedFields
  <2>2. state.last_apphash.pool.last_block_height <= state.last_block_height
    BY <1>1 DEF UnbondInvariant, StoredInvariant
  <2>3. state.last_block_height \in Nat /\ state.last_apphash \in AppHash
    BY <1>1 DEF TypeOK, ChainNodeState
  <2>4. state.last_apphash.pool.last_block_height \in Nat
    BY <2>3 DEF AppHash, RewardsPool
  <2>5. app_states'[H].pool.last_block_height # H
    BY <1>3, <1>5, <2>1, <2>2, <2>3, <2>4
  <2>6. TxsAt(H)' = {} /\ Delivered = {}
    BY <1>7, <2>5 DEF TxsAt, Delivered
  <2>7. CommittedState.last_apphash.pool.last_block_height <= H
    BY <1>3, <2>1, <2>2, <2>3, <2>4
  <2> QED
    BY <1>2, <1>4, <1>5, <1>6, <2>6, <2>7
<1>8. CASE delivered_txs # <<>>
  <2>1. /\ CommittedState.last_apphash.txs = delivered_txs
        /\ CommittedState.last_apphash.pool.last_block_height = H
    BY <1>2, <1>8, CommittedFields
  <2>2. TxsAt(H)' = Delivered
    BY <1>5, <2>1 DEF TxsAt, Delivered
  <2>3. CommittedState.last_apphash.pool.last_block_height <= H
    BY <2>1
  <2> QED
    BY <1>2, <1>4, <1>5, <1>6, <2>2, <2>3
<1> QED
  BY <1>7, <1>8

LEMMA CommitUnbond ==
  ASSUME TypeOK, BlockInvariant, ProofInvariant, UnbondInvariant, Commit
  PROVE  UnbondInvariant'
<1> DEFINE now == headers[Len(headers)]
           root == uncommitted_account_root_hash
<1>1. PICK H \in Nat : H = CommittedState.last_block_height
  BY CommitHeight
<1>2. /\ H = Len(headers) /\ headers' = headers
      /\ CommittedState.last_apphash.pool.last_block_height <= H
      /\ \A g \in DOMAIN app_states : g \in Nat /\ g < H /\ TxsAt(g)' = TxsAt(g)
      /\ DOMAIN app_states' = DOMAIN app_states \cup {H}
      /\ TxsAt(H)' = Delivered
  BY <1>1, CommitTxs, Zenon
<1>3. /\ stored_state' = {CommittedState} /\ last_state' = CommittedState
      /\ uncommitted_account_root_hash' = root
      /\ ~ InBlock'
  BY DEF Commit, InBlock
<1>4. /\ AllHeld(last_state.last_account_root_hash) /\ AllHeld(root)
      /\ \A p \in Unbondings(Delivered, now) : Held(p, root)
      /\ \A t \in Delivered : LateEnough(t, now)
  BY DEF Commit, UnbondInvariant, Running, InBlock
<1>5. Unbonded' \subseteq Unbonded \cup Unbondings(Delivered, now)
  <2>1. SUFFICES ASSUME NEW p \in Unbonded'
                 PROVE  p \in Unbonded \cup Unbondings(Delivered, now)
    OBVIOUS
  <2>2. PICK g \in DOMAIN app_states' : p \in Unbondings(TxsAt(g)', headers[g])
    BY <1>2, <2>1 DEF Unbonded, Unbondings
  <2>3. CASE g = H
    BY <1>2, <2>2, <2>3
  <2>4. CASE g \in DOMAIN app_states
    BY <1>2, <2>2, <2>4 DEF Unbonded
  <2> QED
    BY <1>2, <2>2, <2>3, <2>4
<1>6. \A p \in Unbonded' : Held(p, root)
  BY <1>4, <1>5 DEF AllHeld
<1>7. \A p \in Unbonded' : Held(p, CommittedState.last_account_root_hash)
  <2>1. CASE delivered_txs = <<>>
    <3>1. CommittedState = last_state /\ Delivered = {}
      BY <2>1, CommittedFields DEF Delivered
    <3>2. Unbondings(Delivered, now) = {}
      BY <3>1 DEF Unbondings
    <3> QED
      BY <1>4, <1>5, <3>1, <3>2 DEF AllHeld
  <2>2. CASE delivered_txs # <<>>
    BY <1>6, <2>2, CommittedFields
  <2> QED
    BY <2>1, <2>2
<1>8. UnbondingPeriodHeld'
  <2>1. SUFFICES ASSUME NEW g \in DOMAIN app_states', NEW h \in DOMAIN app_states', g < h,
                        NEW u \in TxsAt(g)', NEW w \in TxsAt(h)',
                        Tx[u].kind = "UnbondStakeTx",
                        Tx[w].kind = "WithdrawUnbondedStakeTx",
                        Tx[u].address = Tx[w].address
                 PROVE  headers[g] + unbonding_period <= headers[h]
    BY <1>2 DEF UnbondingPeriodHeld
  <2>2. g \in DOMAIN app_states /\ u \in TxsAt(g)
    BY <1>2, <2>1
  <2>3. CASE h = H
    <3> DEFINE p == [address |-> Tx[u].address, time |-> headers[g]]
    <3>1. p \in Unbondings(TxsAt(g), headers[g])
      BY <2>1, <2>2 DEF Unbondings
    <3>2. p \in Unbonded
      BY <2>2, <3>1 DEF Unbonded
    <3>3. LateEnough(w, now) /\ now = headers[h]
      BY <1>2, <1>4, <2>1, <2>3
    <3>4. p.address = Tx[w].address /\ p.time = headers[g]
      BY <2>1
    <3> HIDE DEF p, now
    <3> QED
      BY <2>1, <3>2, <3>3, <3>4 DEF LateEnough
  <2>4. CASE h \in DOMAIN app_states
    <3>1. w \in TxsAt(h)
      BY <1>2, <2>1, <2>4
    <3> QED
      BY <2>1, <2>2, <2>4, <3>1 DEF UnbondInvariant, StoredInvariant, UnbondingPeriodHeld
  <2> QED
    BY <1>2, <2>3, <2>4
<1>9. HeadersIncrease'
  BY <1>2 DEF UnbondInvariant, StoredInvariant, HeadersIncrease
<1>10. AllHeld(last_state.last_account_root_hash)' /\ AllHeld(uncommitted_account_root_hash)'
  BY <1>3, <1>6, <1>7 DEF AllHeld, Held
<1>11. \A s \in stored_state' : AllHeld(s.last_account_root_hash)'
  BY <1>3, <1>7 DEF AllHeld, Held
<1>12. /\ CommittedState.last_apphash.pool.last_block_height <= CommittedState.last_block_height
       /\ CommittedState.last_block_height <= Len(headers')
  <2>1. CommittedState.last_block_height \in Nat
    BY <1>1
  <2>2. CommittedState.last_block_height = Len(headers')
    BY <1>1, <1>2
  <2> QED
    BY <1>1, <1>2, <2>1, <2>2
<1>13. StoredInvariant'
  BY <1>3, <1>8, <1>9, <1>11, <1>12 DEF StoredInvariant
<1> QED
  BY <1>3, <1>10, <1>13 DEF UnbondInvariant

LEMMA NextUnbond ==
  TypeOK /\ BlockInvariant /\ ProofInvariant /\ UnbondInvariant /\ [Next]_vars
    => UnbondInvariant'
<1> SUFFICES ASSUME TypeOK, BlockInvariant, ProofInvariant, UnbondInvariant, [Next]_vars
             PROVE  UnbondInvariant'
  OBVIOUS
<1>1. CASE NewWithStorage
  BY <1>1, NewWithStorageUnbond
<1>2. CASE InitChain
  BY <1>2, InitChainUnbond
<1>3. CASE BeginBlock
  BY <1>3, BeginBlockUnbond
<1>4. ASSUME NEW id \in TxId, CheckTx(id)
      PROVE  UnbondInvariant'
  BY <1>4, SameUnbond DEF CheckTx, memVars, dbVars, tmVars, Running, InBlock
<1>5. ASSUME NEW id \in TxId, DeliverTx(id)
      PROVE  UnbondInvariant'
  <2>1. CASE DeliverValid(id)
    BY <1>5, <2>1, DeliverUnbond
  <2>2. CASE DeliverInvalid(id)
    BY <1>5, <2>2, SameUnbond DEF DeliverTx, DeliverInvalid, dbVars, Running, InBlock
  <2> QED
    BY <1>5, <2>1, <2>2 DEF DeliverTx
<1>6. CASE EndBlock
  <2>1. /\ last_state'.last_account_root_hash = last_state.last_account_root_hash
        /\ last_state'.block_time = last_state.block_time
    BY <1>6 DEF EndBlock, TypeOK, ChainNodeState
  <2> QED
    BY <1>6, <2>1, SameUnbond DEF EndBlock, dbVars, Running, InBlock
<1>7. CASE Commit
  BY <1>7, CommitUnbond
<1>8. ASSUME MemoryLost, UNCHANGED <<dbVars, headers>>
      PROVE  UnbondInvariant'
  <2>1. ~ Running' /\ ~ InBlock'
    BY <1>8 DEF MemoryLost, Running, InBlock
  <2>2. StoredInvariant'
    BY <1>8, SameStored DEF UnbondInvariant, dbVars
  <2> QED
    BY <2>1, <2>2 DEF UnbondInvariant
<1>9. CASE Crash \/ CrashInCommit
  BY <1>8, <1>9 DEF Crash, CrashInCommit
<1>10. CASE RestartServer
  BY <1>10, SameUnbond DEF RestartServer, memVars, dbVars, tmVars, Running, InBlock
<1>11. CASE NewWithStoragePanics \/ UNCHANGED vars
  BY <1>11, SameUnbond DEF NewWithStoragePanics, vars, memVars, dbVars, tmVars, Running, InBlock
<1> QED
  BY <1>1, <1>2, <1>3, <1>4, <1>5, <1>6, <1>7, <1>9, <1>10, <1>11 DEF Next

\* Withdrawals wait for the unbonding period: for all transactions, block times
\* and failures, stake that was unbonded in a block leaves the account in a
\* block at least the period later (verify_unbonded_withdraw_core compares the
\* account's date with the block time; unbond sets it; deposits keep it).
THEOREM UnbondingPeriodKept == Spec => []UnbondingPeriodHeld
<1>1. UnbondInvariant => UnbondingPeriodHeld
  BY DEF UnbondInvariant, StoredInvariant
<1> QED
  BY <1>1, InitType, NextType, InitSpends, NextSpends, InitBlocks, NextBlocks, InitProofs,
     NextProofs, InitUnbond, NextUnbond, PTL DEF Spec

-----------------------------------------------------------------------------
(* Voting power *)

\* The transactions that change the account of a.
Changes(txs, a) == {t \in txs : Tx[t].kind # "TransferTx" /\ Tx[t].address = a}
Twice(txs, a) == \E s, t \in Changes(txs, a) : s # t
ChangedTwice(a) == Twice(Delivered, a) \/ \E h \in DOMAIN app_states : Twice(TxsAt(h), a)

\* The power EndBlock will leave the council node with.
NextPower(a) ==
  IF a \in DOMAIN power_changed_in_block
  THEN power_changed_in_block[a] ELSE validator_voting_power[a]

\* None, or at least what the required stake gives.
IsVotingPower(p) == p = 0 \/ p >= TendermintVotePower(required_council_node_stake)

\* Inside a block the power to come, not the announced one, is what the accounts
\* back; an account the block has not touched has no pending change; the block's
\* own transactions count before any app hash names them.
PowerInvariant ==
  /\ phase # "deliver" => power_changed_in_block = NoPower
  /\ ~ Running => validator_voting_power = NoPower
  /\ Running =>
       /\ delivered_txs = <<>> =>
            last_state.last_account_root_hash = uncommitted_account_root_hash
       /\ \A a \in DOMAIN validator_voting_power :
            /\ IsVotingPower(validator_voting_power[a])
            /\ IsVotingPower(NextPower(a))
            /\ Changes(Delivered, a) = {} => a \notin DOMAIN power_changed_in_block
            /\ \/ ChangedTwice(a)
               \/ NextPower(a) <= TendermintVotePower(uncommitted_account_root_hash[a].bonded)

\* More stake never gives less power.
LEMMA VotePowerMonotone ==
  ASSUME NEW m \in Nat, NEW n \in Nat, m <= n
  PROVE  TendermintVotePower(m) <= TendermintVotePower(n)
<1> DEFINE d == MAX_COIN_DECIMALS
           p == m \div d
           q == n \div d
<1>1. d \in Nat /\ d > 0
  BY GenesisAssumption
<1> HIDE DEF d
<1>2. /\ p \in Int /\ q \in Int
      /\ d * p <= m /\ n < d * (q + 1)
  BY <1>1
<1> HIDE DEF p, q
<1>3. ASSUME p > q
      PROVE  FALSE
  <2>1. p >= q + 1
    BY <1>2, <1>3
  <2>2. d * p >= d * (q + 1)
    BY <1>1, <1>2, <2>1
  <2> QED
    BY <1>1, <1>2, <2>2
<1>4. p <= q
  BY <1>2, <1>3
<1> QED
  BY <1>4 DEF TendermintVotePower, p, q, d

\* No block is open before the node runs.
LEMMA InitPower == Init => PowerInvariant
BY DEF Init, PowerInvariant, Running

\* A step that keeps accounts, powers and blocks keeps the invariant.
LEMMA SamePower ==
  ASSUME PowerInvariant,
         UNCHANGED <<delivered_txs, app_states, uncommitted_account_root_hash,
                     validator_voting_power, power_changed_in_block>>,
         last_state'.last_account_root_hash = last_state.last_account_root_hash,
         Running' <=> Running,
         phase' # "deliver" => phase # "deliver"
  PROVE  PowerInvariant'
<1>1. /\ \A a : NextPower(a)' = NextPower(a)
      /\ Delivered' = Delivered
  BY DEF NextPower, Delivered
<1>2. \A a : ChangedTwice(a)' <=> ChangedTwice(a)
  <2>1. \A h : TxsAt(h)' = TxsAt(h)
    BY DEF TxsAt
  <2> QED
    BY <1>1, <2>1 DEF ChangedTwice
<1> QED
  BY <1>1, <1>2, Zenon DEF PowerInvariant

\* A restart restores the powers of the stored accounts.
LEMMA NewWithStoragePower ==
  ASSUME TypeOK, BlockInvariant, PowerInvariant, NewWithStorage
  PROVE  PowerInvariant'
<1>1. power_changed_in_block = NoPower /\ power_changed_in_block' = NoPower
  BY DEF NewWithStorage, PowerInvariant, memVars
<1>2. CASE phase' = "fresh"
  BY <1>1, <1>2, Zenon DEF NewWithStorage, PowerInvariant, Running, memVars
<1>3. CASE phase' # "fresh"
  <2>1. PICK state \in stored_state :
          /\ phase' = "idle"
          /\ last_state' = state
          /\ uncommitted_account_root_hash' = state.last_account_root_hash
          /\ validator_voting_power' = get_validator_mapping(state)
    BY <1>3 DEF NewWithStorage
  <2> DEFINE root == state.last_account_root_hash
  <2>2. root \in Root
    BY <2>1 DEF TypeOK, ChainNodeState
  <2>3. required_council_node_stake \in Nat
    BY GenesisAssumption, CoinAssumption DEF Coin
  <2>4. DOMAIN validator_voting_power' = council_nodes
    BY <2>1 DEF get_validator_mapping
  <2>5. ASSUME NEW a \in council_nodes
        PROVE  /\ IsVotingPower(validator_voting_power'[a])
               /\ NextPower(a)' = validator_voting_power'[a]
               /\ a \notin DOMAIN power_changed_in_block'
               /\ validator_voting_power'[a] <= TendermintVotePower(root[a].bonded)
    <3> DEFINE bonded == root[a].bonded
               power == validator_voting_power'[a]
    <3>1. bonded \in Nat
      BY <2>2, <2>5, GenesisAssumption, CoinAssumption DEF Root, StakedState, Coin
    <3>2. power = IF bonded < required_council_node_stake THEN 0 ELSE TendermintVotePower(bonded)
      BY <2>1 DEF get_validator_mapping
    <3>3. TendermintVotePower(bonded) \in Nat
      BY <3>1, VotePowerType
    <3> HIDE DEF bonded, power
    <3>4. power <= TendermintVotePower(bonded)
      BY <3>2, <3>3
    <3>5. IsVotingPower(power)
      <4>1. CASE bonded < required_council_node_stake
        BY <3>2, <4>1 DEF IsVotingPower
      <4>2. CASE required_council_node_stake <= bonded
        <5>1. TendermintVotePower(required_council_node_stake) <= TendermintVotePower(bonded)
          BY <2>3, <3>1, <4>2, VotePowerMonotone
        <5>2. TendermintVotePower(required_council_node_stake) \in Nat
          BY <2>3, VotePowerType
        <5>3. power = TendermintVotePower(bonded)
          BY <2>3, <3>1, <3>2, <4>2
        <5> QED
          BY <3>3, <5>1, <5>2, <5>3 DEF IsVotingPower
      <4> QED
        BY <2>3, <3>1, <4>1, <4>2
    <3>6. a \notin DOMAIN power_changed_in_block'
      BY <1>1 DEF NoPower
    <3>7. NextPower(a)' = power
      BY <3>6 DEF NextPower, power
    <3> QED
      BY <3>4, <3>5, <3>6, <3>7 DEF bonded, power
  <2>6. Running'
    BY <2>1 DEF Running
  <2> QED
    BY <1>1, <2>1, <2>4, <2>5, <2>6 DEF PowerInvariant
<1> QED
  BY <1>2, <1>3

\* Genesis gives every council node the power of its bonded stake.
LEMMA InitChainPower ==
  ASSUME PowerInvariant, InitChain
  PROVE  PowerInvariant'
<1>1. validator_voting_power' = NoPower /\ power_changed_in_block' = NoPower
  BY DEF InitChain, PowerInvariant, Running
<1>2. DOMAIN NoPower = {}
  BY DEF NoPower
<1>3. last_state'.last_account_root_hash = uncommitted_account_root_hash'
  BY DEF InitChain, genesis_state
<1> QED
  BY <1>1, <1>2, <1>3 DEF PowerInvariant, InitChain, Running

\* A delivered transaction changes one account: the first change of the block
\* leaves a backed power, a second one makes the account ChangedTwice.
LEMMA DeliverPower ==
  ASSUME TypeOK, SpendInvariant, PowerInvariant, NEW id \in TxId, DeliverTx(id), DeliverValid(id)
  PROVE  PowerInvariant'
<1> DEFINE tx == Tx[id]
           root == uncommitted_account_root_hash
           powers == validator_voting_power
           changed == power_changed_in_block
           new == TendermintVotePower(NewAccount(tx).bonded)
           min == TendermintVotePower(required_council_node_stake)
<1>1. /\ phase = "deliver" /\ phase' = "deliver" /\ Running /\ Running'
      /\ verify(id) /\ CoinsFit(tx)
      /\ powers' = powers /\ app_states' = app_states
      /\ changed' = power_change(tx)
  BY DEF DeliverTx, DeliverValid, Running, dbVars
<1>2. /\ Delivered' = Delivered \cup {id} /\ delivered_txs' = Append(delivered_txs, id)
      /\ id \notin Delivered
  BY <1>1, DeliverChain, VerifiedFresh DEF Chain
<1>3. delivered_txs' # <<>>
  <2>1. delivered_txs \in Seq(TxId)
    BY DEF TypeOK
  <2> QED
    BY <1>2, <2>1
<1>4. /\ root \in Root /\ tx.address \in Address
      /\ IsPowerMap(powers) /\ IsPowerMap(changed)
  BY TxAssumption DEF TypeOK, TxAux
<1>5. NewAccount(tx).bonded \in Nat /\ new \in Nat /\ min \in Nat
  <2>1. NewAccount(tx).bonded \in Nat /\ required_council_node_stake \in Nat
    BY <1>1, GenesisAssumption, CoinAssumption DEF CoinsFit, Coin
  <2> QED
    BY <2>1, VotePowerType
<1>6. \A h \in DOMAIN app_states : TxsAt(h)' = TxsAt(h)
  BY <1>1 DEF TxsAt
<1>7. \A a : Changes(Delivered, a) \subseteq Changes(Delivered', a)
  BY <1>2 DEF Changes
<1>8. \A a : ChangedTwice(a) => ChangedTwice(a)'
  <2> SUFFICES ASSUME NEW a, ChangedTwice(a)
               PROVE  ChangedTwice(a)'
    OBVIOUS
  <2>1. CASE Twice(Delivered, a)
    BY <1>7, <2>1 DEF ChangedTwice, Twice
  <2>2. CASE \E h \in DOMAIN app_states : Twice(TxsAt(h), a)
    BY <1>1, <1>6, <2>2 DEF ChangedTwice
  <2> QED
    BY <2>1, <2>2 DEF ChangedTwice
<1>9. ASSUME NEW a \in DOMAIN powers
      PROVE  /\ IsVotingPower(powers[a])
             /\ IsVotingPower(NextPower(a))
             /\ Changes(Delivered, a) = {} => a \notin DOMAIN changed
             /\ \/ ChangedTwice(a)
                \/ NextPower(a) <= TendermintVotePower(root[a].bonded)
             /\ powers[a] \in Nat
             /\ a \in Address
  <2>1. a \in Address /\ powers[a] \in Nat
    BY <1>4, GenesisAssumption DEF IsPowerMap
  <2> QED
    BY <1>1, <2>1, Zenon DEF PowerInvariant
<1>10. ASSUME NEW a \in DOMAIN powers, tx.kind = "TransferTx" \/ tx.address # a
       PROVE  /\ NextPower(a)' = NextPower(a)
              /\ root'[a] = root[a]
              /\ a \in DOMAIN changed' => a \in DOMAIN changed
  <2>1. /\ a \in DOMAIN changed' <=> a \in DOMAIN changed
        /\ a \in DOMAIN changed => changed'[a] = changed[a]
    BY <1>1, <1>10 DEF power_change, Insert
  <2>2. root'[a] = root[a]
    BY <1>4, <1>9, <1>10 DEF DeliverValid, update_account, Root
  <2> QED
    BY <1>1, <2>1, <2>2 DEF NextPower
<1>11. ASSUME NEW a \in DOMAIN powers, tx.kind # "TransferTx", tx.address = a
       PROVE  /\ IsVotingPower(NextPower(a)')
              /\ Changes(Delivered', a) # {}
              /\ \/ ChangedTwice(a)'
                 \/ NextPower(a)' <= TendermintVotePower(root'[a].bonded)
  <2>1. id \in Changes(Delivered', a)
    BY <1>2, <1>11 DEF Changes
  <2>2. root'[a].bonded = NewAccount(tx).bonded
    BY <1>4, <1>11 DEF DeliverValid, update_account, Root
  <2> DEFINE old == powers[a]
             next == IF new > old /\ new >= min THEN new
                     ELSE IF old >= min /\ new < old THEN 0 ELSE NextPower(a)
  <2>3. NextPower(a)' = next
    BY <1>1, <1>11 DEF NextPower, power_change, Insert
  <2>4. IsVotingPower(next)
    BY <1>5, <1>9, Zenon DEF IsVotingPower
  <2>5. CASE Changes(Delivered, a) # {}
    <3>1. PICK s \in Changes(Delivered, a) : TRUE
      BY <2>5
    <3>2. s \in Changes(Delivered', a) /\ s # id
      BY <1>2, <1>7, <3>1 DEF Changes
    <3>3. ChangedTwice(a)'
      BY <2>1, <3>2 DEF ChangedTwice, Twice
    <3> QED
      BY <2>1, <2>3, <2>4, <3>3, Zenon
  <2>6. CASE Changes(Delivered, a) = {}
    <3>1. NextPower(a) = old
      BY <1>9, <2>6 DEF NextPower
    <3>2. old \in Nat /\ (old = 0 \/ old >= min)
      BY <1>9 DEF IsVotingPower
    <3> HIDE DEF old, new, min
    <3>3. next <= new
      BY <1>5, <3>1, <3>2
    <3> QED
      BY <2>1, <2>2, <2>3, <2>4, <3>3, Zenon DEF new
  <2> QED
    BY <2>5, <2>6
<1>12. ASSUME NEW a \in DOMAIN powers'
       PROVE  /\ IsVotingPower(powers'[a])
              /\ IsVotingPower(NextPower(a)')
              /\ Changes(Delivered', a) = {} => a \notin DOMAIN changed'
              /\ \/ ChangedTwice(a)'
                 \/ NextPower(a)' <= TendermintVotePower(root'[a].bonded)
  <2>1. a \in DOMAIN powers /\ powers'[a] = powers[a]
    BY <1>1, <1>12
  <2>2. CASE tx.kind = "TransferTx" \/ tx.address # a
    <3> HIDE DEF tx, root, powers, changed
    <3>1. Changes(Delivered', a) = {} => Changes(Delivered, a) = {}
      BY <1>7
    <3> QED
      BY <1>8, <1>9, <1>10, <2>1, <2>2, <3>1, Zenon
  <2>3. CASE tx.kind # "TransferTx" /\ tx.address = a
    BY <1>9, <1>11, <2>1, <2>3, Zenon
  <2> QED
    BY <2>2, <2>3, Zenon
<1> HIDE DEF tx, root, powers, changed, new, min
<1> QED
  BY <1>1, <1>3, <1>12, Zenon DEF PowerInvariant, root, powers, changed

\* EndBlock moves the changed powers into validator_voting_power.
LEMMA EndBlockPower ==
  ASSUME TypeOK, PowerInvariant, EndBlock
  PROVE  PowerInvariant'
<1>1. /\ Running /\ Running' /\ power_changed_in_block' = NoPower
      /\ DOMAIN validator_voting_power' = DOMAIN validator_voting_power
      /\ UNCHANGED <<delivered_txs, app_states, uncommitted_account_root_hash>>
      /\ last_state'.last_account_root_hash = last_state.last_account_root_hash
  BY EndState DEF EndBlock, Running, dbVars
<1>2. DOMAIN NoPower = {}
  BY DEF NoPower
<1>3. ASSUME NEW a \in DOMAIN validator_voting_power
      PROVE  /\ validator_voting_power'[a] = NextPower(a)
             /\ NextPower(a)' = NextPower(a)
             /\ a \notin DOMAIN power_changed_in_block'
  BY <1>1, <1>2, <1>3 DEF EndBlock, NextPower
<1>4. Delivered' = Delivered
  BY <1>1, Zenon DEF Delivered
<1>5. \A a : ChangedTwice(a)' <=> ChangedTwice(a)
  <2>1. \A h : TxsAt(h)' = TxsAt(h)
    BY <1>1 DEF TxsAt
  <2> QED
    BY <1>1, <1>4, <2>1 DEF ChangedTwice
<1> QED
  BY <1>1, <1>3, <1>4, <1>5, Zenon DEF PowerInvariant

\* Commit moves the delivered transactions under the new app hash.
LEMMA CommitPower ==
  ASSUME TypeOK, BlockInvariant, ProofInvariant, UnbondInvariant, PowerInvariant, Commit
  PROVE  PowerInvariant'
<1>1. PICK H \in Nat : H = CommittedState.last_block_height
  BY CommitHeight
<1>2. /\ \A g \in DOMAIN app_states : TxsAt(g)' = TxsAt(g)
      /\ DOMAIN app_states' = DOMAIN app_states \cup {H}
      /\ TxsAt(H)' = Delivered
  BY <1>1, CommitTxs, Zenon
<1>3. /\ Running /\ Running' /\ phase # "deliver" /\ phase' # "deliver"
      /\ UNCHANGED <<uncommitted_account_root_hash, validator_voting_power,
                     power_changed_in_block>>
      /\ last_state' = CommittedState
  BY DEF Commit, Running
<1>4. CommittedState.last_account_root_hash = uncommitted_account_root_hash
  BY <1>3, CommittedFields DEF PowerInvariant
<1>5. power_changed_in_block = NoPower /\ DOMAIN NoPower = {}
  BY <1>3 DEF PowerInvariant, NoPower
<1>6. \A a : NextPower(a)' = NextPower(a)
  BY <1>3 DEF NextPower
<1>7. \A a : ChangedTwice(a) => ChangedTwice(a)'
  <2> SUFFICES ASSUME NEW a, ChangedTwice(a)
               PROVE  ChangedTwice(a)'
    OBVIOUS
  <2>1. CASE Twice(Delivered, a)
    <3>1. Twice(TxsAt(H)', a)
      BY <1>2, <2>1
    <3> QED
      BY <1>2, <3>1 DEF ChangedTwice
  <2>2. CASE \E h \in DOMAIN app_states : Twice(TxsAt(h), a)
    <3>1. PICK h \in DOMAIN app_states : Twice(TxsAt(h), a)
      BY <2>2
    <3>2. h \in DOMAIN app_states' /\ Twice(TxsAt(h)', a)
      BY <1>2, <3>1
    <3> QED
      BY <3>2 DEF ChangedTwice
  <2> QED
    BY <2>1, <2>2 DEF ChangedTwice
<1> QED
  BY <1>3, <1>4, <1>5, <1>6, <1>7, Zenon DEF PowerInvariant

\* Every step of the node keeps PowerInvariant.
LEMMA NextPowers ==
  TypeOK /\ SpendInvariant /\ BlockInvariant /\ ProofInvariant /\ UnbondInvariant
    /\ PowerInvariant /\ [Next]_vars => PowerInvariant'
<1> SUFFICES ASSUME TypeOK, SpendInvariant, BlockInvariant, ProofInvariant, UnbondInvariant,
                    PowerInvariant, [Next]_vars
             PROVE  PowerInvariant'
  OBVIOUS
<1>1. CASE NewWithStorage
  BY <1>1, NewWithStoragePower
<1>2. CASE InitChain
  BY <1>2, InitChainPower
<1>3. CASE BeginBlock
  BY <1>3, BeginState, SamePower DEF BeginBlock, dbVars, Running
<1>4. ASSUME NEW id \in TxId, CheckTx(id)
      PROVE  PowerInvariant'
  BY <1>4, SamePower DEF CheckTx, memVars, dbVars, Running
<1>5. ASSUME NEW id \in TxId, DeliverTx(id)
      PROVE  PowerInvariant'
  <2>1. CASE DeliverValid(id)
    BY <1>5, <2>1, DeliverPower
  <2>2. CASE DeliverInvalid(id)
    BY <1>5, <2>2, SamePower DEF DeliverTx, DeliverInvalid, dbVars, Running
  <2> QED
    BY <1>5, <2>1, <2>2 DEF DeliverTx
<1>6. CASE EndBlock
  BY <1>6, EndBlockPower
<1>7. CASE Commit
  BY <1>7, CommitPower
<1>8. ASSUME MemoryLost
      PROVE  PowerInvariant'
  BY <1>8, Zenon DEF MemoryLost, PowerInvariant, Running
<1>9. CASE Crash \/ CrashInCommit
  BY <1>8, <1>9 DEF Crash, CrashInCommit
<1>10. CASE RestartServer
  BY <1>10, SamePower DEF RestartServer, memVars, dbVars, Running
<1>11. CASE NewWithStoragePanics \/ UNCHANGED vars
  BY <1>11, SamePower DEF NewWithStoragePanics, vars, memVars, dbVars, Running
<1> QED
  BY <1>1, <1>2, <1>3, <1>4, <1>5, <1>6, <1>7, <1>9, <1>10, <1>11 DEF Next

\* The voting power the node has announced is backed by bonded stake, unless a
\* block changed the account of the council node twice (power_change compares
\* with the power at the start of the block and forgets a change that is undone).
THEOREM PowerIsBacked == Spec => []PowerBackedAfterSingleChanges
<1>1. BlockInvariant /\ PowerInvariant => PowerBackedAfterSingleChanges
  <2> SUFFICES ASSUME BlockInvariant, PowerInvariant, phase = "idle",
                      NEW a \in DOMAIN validator_voting_power
               PROVE  \/ PowerBacked(a)
                      \/ \E h \in DOMAIN app_states : \E s, t \in TxsAt(h) :
                           /\ s # t
                           /\ \A u \in {s, t} : Tx[u].kind # "TransferTx" /\ Tx[u].address = a
    BY DEF PowerBackedAfterSingleChanges
  <2>1. delivered_txs = <<>> /\ Running /\ power_changed_in_block = NoPower
    BY DEF BlockInvariant, InBlock, Running, PowerInvariant
  <2>2. Delivered = {} /\ a \notin DOMAIN power_changed_in_block
    BY <2>1 DEF Delivered, NoPower
  <2>3. NextPower(a) = validator_voting_power[a]
    BY <2>2 DEF NextPower
  <2>4. last_state.last_account_root_hash = uncommitted_account_root_hash
    BY <2>1 DEF PowerInvariant
  <2>5. CASE ChangedTwice(a)
    <3>1. PICK h \in DOMAIN app_states : Twice(TxsAt(h), a)
      BY <2>2, <2>5 DEF ChangedTwice, Twice, Changes
    <3> QED
      BY <3>1 DEF Twice, Changes
  <2>6. CASE NextPower(a) <= TendermintVotePower(uncommitted_account_root_hash[a].bonded)
    BY <2>3, <2>4, <2>6 DEF PowerBacked
  <2> QED
    BY <2>1, <2>5, <2>6 DEF PowerInvariant
<1> QED
  BY <1>1, InitType, NextType, InitSpends, NextSpends, InitBlocks, NextBlocks, InitProofs,
     NextProofs, InitUnbond, NextUnbond, InitPower, NextPowers, PTL DEF Spec
=============================================================================
