----------------------------- MODULE WalletStore ----------------------------
(***************************************************************************)
(* Wallets, keys and multi-signature addresses in client storage           *)
(* (client-core: key_service, wallet_service, root_hash_service and the    *)
(* operations of DefaultWalletClient and WalletRpc that create them).      *)
(*                                                                         *)
(* An operation is a program of storage steps, run by a thread; it stops   *)
(* at the first step that fails, and the process may be killed between any *)
(* two.  If Concurrent, the operations of threads interleave.              *)
(***************************************************************************)
EXTENDS Integers, Sequences, FiniteSets

CONSTANTS
  Thread, Name, Passphrase,
  PublicKey,       \* key pairs this client may generate
  Cosigner,        \* public keys of others
  Shared,          \* multi-signature addresses asked for, as root hashes
  Concurrent

\* The root hash of an m-of-n address: the Merkle root over the combinations of
\* m of its sorted keys, so the keys and m.
RootHash == [keys : SUBSET (PublicKey \cup Cosigner), m : 0..Cardinality(PublicKey \cup Cosigner)]

ASSUME SharedAssumption == Shared \subseteq RootHash

VARIABLES
  core_key,        \* passphrase the private key of a public key is stored under
  core_wallet,     \* wallets by name
  core_root_hash,  \* stored multi-signature addresses, by root hash
  thread           \* what each thread is doing

vars == <<core_key, core_wallet, core_root_hash, thread>>

Option(S) == {{}} \cup {{v} : v \in S}
Wallet == [pass : Passphrase, view_key : PublicKey,
           public_keys : SUBSET PublicKey, root_hashes : SUBSET RootHash]
MultiSigAddress == [pass : Passphrase, self_public_key : PublicKey]

-----------------------------------------------------------------------------
(* The operations, as programs *)

new_wallet == <<"generate_keypair", "contains_key", "set_wallet", "write_wallet">>
new_public_key == <<"generate_keypair", "add_public_key">>

\* Mutant: the address is listed in the wallet before it is stored.
ListedFirst == <<"public_keys", "add_root_hash", "new_root_hash", "write_root_hash">>

new_multisig_transfer_address == <<"public_keys", "new_root_hash", "write_root_hash", "add_root_hash">>
new_staking_address == new_public_key
new_transfer_address == new_public_key \o new_multisig_transfer_address

\* WalletRpc::create
create == new_wallet \o new_staking_address \o new_transfer_address

-----------------------------------------------------------------------------
(* The steps *)

Opens(cell, p) == \A c \in cell : c.pass = p

\* A thread with nothing to do; its other fields mean nothing.
NoRoot == [keys |-> {}, m |-> 0]
Blank == [program |-> <<>>, name |-> CHOOSE n \in Name : TRUE, pass |-> CHOOSE p \in Passphrase : TRUE,
          self |-> CHOOSE k \in PublicKey : TRUE, root |-> NoRoot]

Running(x, step) == x.program # <<>> /\ Head(x.program) = step
Advance(t, x) ==
  thread' = [thread EXCEPT ![t] = IF Len(x.program) = 1 THEN Blank ELSE [x EXCEPT !.program = Tail(@)]]
Fail(t, x) == thread' = [thread EXCEPT ![t] = Blank]

\* Mutant: only the public key is kept.
KeyNotStored(t, x) ==
  /\ Running(x, "generate_keypair")
  /\ \E k \in PublicKey :
       /\ core_key[k] = {}
       /\ thread' = [thread EXCEPT ![t] = [x EXCEPT !.program = Tail(@), !.self = k,
                                                    !.root = [keys |-> {k}, m |-> 1]]]
  /\ UNCHANGED <<core_key, core_wallet, core_root_hash>>

\* KeyService::generate_keypair makes a key no one has, and stores it.  What
\* follows, if anything does, is about this key and its 1-of-1 address.
generate_keypair(t, x) ==
  /\ Running(x, "generate_keypair")
  /\ \E k \in PublicKey :
       /\ core_key[k] = {}
       /\ core_key' = [core_key EXCEPT ![k] = {x.pass}]
       /\ thread' = [thread EXCEPT ![t] = [x EXCEPT !.program = Tail(@), !.self = k,
                                                    !.root = [keys |-> {k}, m |-> 1]]]
  /\ UNCHANGED <<core_wallet, core_root_hash>>

\* WalletService::create first checks that there is no such wallet.
contains_key(t, x) ==
  /\ Running(x, "contains_key")
  /\ IF core_wallet[x.name] = {} THEN Advance(t, x) ELSE Fail(t, x)
  /\ UNCHANGED <<core_key, core_wallet, core_root_hash>>

\* set_wallet writes with set_secure, which reads first.
set_wallet(t, x) ==
  /\ Running(x, "set_wallet")
  /\ IF Opens(core_wallet[x.name], x.pass) THEN Advance(t, x) ELSE Fail(t, x)
  /\ UNCHANGED <<core_key, core_wallet, core_root_hash>>

write_wallet(t, x) ==
  /\ Running(x, "write_wallet")
  /\ core_wallet' = [core_wallet EXCEPT ![x.name] =
       {[pass |-> x.pass, view_key |-> x.self, public_keys |-> {}, root_hashes |-> {}]}]
  /\ Advance(t, x)
  /\ UNCHANGED <<core_key, core_root_hash>>

Found(x) == core_wallet[x.name] # {} /\ Opens(core_wallet[x.name], x.pass)

\* WalletService::add_public_key and add_root_hash are one fetch_and_update.
add_public_key(t, x) ==
  /\ Running(x, "add_public_key")
  /\ IF Found(x)
     THEN /\ core_wallet' = [core_wallet EXCEPT ![x.name] =
                              {[w EXCEPT !.public_keys = @ \cup {x.self}] : w \in @}]
          /\ Advance(t, x)
     ELSE Fail(t, x) /\ UNCHANGED core_wallet
  /\ UNCHANGED <<core_key, core_root_hash>>

add_root_hash(t, x) ==
  /\ Running(x, "add_root_hash")
  /\ IF Found(x)
     THEN /\ core_wallet' = [core_wallet EXCEPT ![x.name] =
                              {[w EXCEPT !.root_hashes = @ \cup {x.root}] : w \in @}]
          /\ Advance(t, x)
     ELSE Fail(t, x) /\ UNCHANGED core_wallet
  /\ UNCHANGED <<core_key, core_root_hash>>

\* new_multisig_transfer_address wants the signer's key in the wallet.
public_keys(t, x) ==
  /\ Running(x, "public_keys")
  /\ IF Found(x) /\ \A w \in core_wallet[x.name] : x.self \in w.public_keys
     THEN Advance(t, x) ELSE Fail(t, x)
  /\ UNCHANGED <<core_key, core_wallet, core_root_hash>>

\* RootHashService::new_root_hash checks its input and that what is stored
\* under the root hash opens.
new_root_hash(t, x) ==
  /\ Running(x, "new_root_hash")
  /\ IF /\ x.root.m <= Cardinality(x.root.keys) /\ x.root.m # 0 /\ x.self \in x.root.keys
        /\ Opens(core_root_hash[x.root], x.pass)
     THEN Advance(t, x) ELSE Fail(t, x)
  /\ UNCHANGED <<core_key, core_wallet, core_root_hash>>

write_root_hash(t, x) ==
  /\ Running(x, "write_root_hash")
  /\ core_root_hash' = [core_root_hash EXCEPT ![x.root] = {[pass |-> x.pass, self_public_key |-> x.self]}]
  /\ Advance(t, x)
  /\ UNCHANGED <<core_key, core_wallet>>

\* DefaultSigner::sign_with_root_hash: whether a 1-of-n address can be signed
\* for, under a passphrase.
sign_with_root_hash(root, p) ==
  /\ root.m = 1
  /\ core_root_hash[root] # {} /\ Opens(core_root_hash[root], p)
  /\ \A a \in core_root_hash[root] : core_key[a.self_public_key] = {p} /\ a.self_public_key \in root.keys

-----------------------------------------------------------------------------

Idle(t) == thread[t].program = <<>>

\* A thread begins an operation; a caller of new_multisig_transfer_address
\* gives the address and a key to sign with.
Begin(t, program, n, p, k, root) ==
  /\ Idle(t)
  /\ Concurrent \/ \A u \in Thread : Idle(u)
  /\ thread' = [thread EXCEPT ![t] = [program |-> program, name |-> n, pass |-> p, self |-> k, root |-> root]]
  /\ UNCHANGED <<core_key, core_wallet, core_root_hash>>

Request(t, n, p) ==
  \/ \E program \in {create, new_staking_address, new_transfer_address} :
       Begin(t, program, n, p, Blank.self, NoRoot)
  \/ \E k \in PublicKey, root \in Shared :
       core_key[k] # {} /\ Begin(t, new_multisig_transfer_address, n, p, k, root)

Step(t) ==
  LET x == thread[t]
  IN \/ generate_keypair(t, x) \/ contains_key(t, x) \/ set_wallet(t, x) \/ write_wallet(t, x)
     \/ add_public_key(t, x) \/ add_root_hash(t, x) \/ public_keys(t, x)
     \/ new_root_hash(t, x) \/ write_root_hash(t, x)

Killed ==
  /\ \E t \in Thread : ~ Idle(t)
  /\ thread' = [t \in Thread |-> Blank]
  /\ UNCHANGED <<core_key, core_wallet, core_root_hash>>

Init ==
  /\ core_key = [k \in PublicKey |-> {}]
  /\ core_wallet = [n \in Name |-> {}]
  /\ core_root_hash = [r \in RootHash |-> {}]
  /\ thread = [t \in Thread |-> Blank]

Next ==
  \/ \E t \in Thread : Step(t) \/ \E n \in Name, p \in Passphrase : Request(t, n, p)
  \/ Killed

Spec == Init /\ [][Next]_vars

-----------------------------------------------------------------------------
(* Properties *)

\* The private key of every key of a wallet is stored under the wallet's
\* passphrase: wallet_service::add_public_key comes after
\* key_service::generate_keypair, whatever is killed or overlaps.
KeysUsable ==
  \A n \in Name : \A w \in core_wallet[n] :
    \A k \in w.public_keys \cup {w.view_key} : core_key[k] = {w.pass}

\* An address of a wallet can be signed for: its Merkle tree is stored, opens
\* under the wallet's passphrase and names a key whose private key does.
AddressesUsable ==
  \A n \in Name : \A w \in core_wallet[n] : \A root \in w.root_hashes :
    /\ root.m = 1 => sign_with_root_hash(root, w.pass)
    /\ \E a \in core_root_hash[root] :
         a.pass = w.pass /\ a.self_public_key \in root.keys /\ core_key[a.self_public_key] = {w.pass}

\* A wallet is never replaced or emptied, and keeps its passphrase.
WalletsGrow ==
  [][\A n \in Name : \A w \in core_wallet[n] : \E v \in core_wallet'[n] :
       /\ v.pass = w.pass /\ v.view_key = w.view_key
       /\ w.public_keys \subseteq v.public_keys /\ w.root_hashes \subseteq v.root_hashes]_vars

\* What is stored for an address names a key of each wallet that has the
\* address (MultiSigAddress: "Public key of current signer").
SelfKeyOwn ==
  \A n \in Name : \A w \in core_wallet[n] : \A root \in w.root_hashes :
    \A a \in core_root_hash[root] : a.self_public_key \in w.public_keys
=============================================================================
