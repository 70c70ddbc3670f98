--------------------------- MODULE MultiSigAddress --------------------------
(***************************************************************************)
(* How an m-of-n address is made and proved (root_hash_service): the       *)
(* combinations of m of the n public keys, sorted, are the leaves of a     *)
(* Merkle tree, built round by round.                                      *)
(***************************************************************************)
EXTENDS MerkleTree, FiniteSetsExt

CONSTANTS
  Keys,            \* public keys; numbers, for their order
  KeyLists,        \* lists of keys given to new_root_hash and to generate_proof
  MaxN             \* largest m and n asked for

VARIABLES
  public_keys, self_public_key, m, n,  \* what new_root_hash is called with
  trees,           \* trees of the current round
  height,
  outcome          \* "start", "building", "stored", "invalid"

vars == <<public_keys, self_public_key, m, n, trees, height, outcome>>
input == <<public_keys, self_public_key, m, n>>

Before(a, b) ==
  \E i \in 1..Len(a) : /\ \A j \in 1..(i - 1) : a[j] = b[j]
                       /\ a[i] < b[i]

Listed(S) == FoldSet(LAMBDA x, s : Append(s, x), <<>>, S)

\* raw_public_key after the sort both callers do: which key a combination of keys
\* becomes depends on the bag of them, a sorted list.
raw_public_key(keys) == SortSeq(keys, <)

\* Mutant: combinations are left in the order they are enumerated in.
AsEnumerated(keys, k) ==
  LET picks == Listed(kSubset(k, 1..Len(keys)))
  IN [i \in 1..Len(picks) |->
        raw_public_key([j \in 1..k |-> keys[SortSeq(Listed(picks[i]), <)[j]]])]

\* combinations: of the positions, so a key given twice is used twice.
combinations(keys, k) ==
  LET picks == Listed(kSubset(k, 1..Len(keys)))
  IN SortSeq([i \in 1..Len(picks) |->
                raw_public_key([j \in 1..k |-> keys[SortSeq(Listed(picks[i]), <)[j]]])], Before)

-----------------------------------------------------------------------------

\* new_root_hash checks its input and makes the leaves.
new_root_hash ==
  /\ outcome = "start"
  /\ IF \/ m > n \/ public_keys = <<>> \/ Len(public_keys) # n \/ m = 0
        \/ self_public_key \notin ToSet(public_keys)
     THEN outcome' = "invalid" /\ UNCHANGED trees
     ELSE /\ outcome' = "building"
          /\ LET c == combinations(public_keys, m)
             IN trees' = [i \in 1..Len(c) |-> leaf(c[i])]
  /\ UNCHANGED <<input, height>>

\* A round of the loop of MerkleTree::new.
pair ==
  /\ outcome = "building" /\ Len(trees) > 1
  /\ trees' = PairIter(trees)
  /\ height' = height + 1
  /\ UNCHANGED <<input, outcome>>

set_secure ==
  /\ outcome = "building" /\ Len(trees) = 1
  /\ outcome' = "stored"
  /\ UNCHANGED <<input, trees, height>>

Root == trees[1]

\* RootHashService::generate_proof.
address_proof(keys) ==
  IF Len(keys) # m THEN {} ELSE generate_proof(Root, raw_public_key(keys))

Init ==
  /\ public_keys \in KeyLists
  /\ self_public_key \in Keys
  /\ m \in 0..MaxN /\ n \in 0..MaxN
  /\ trees = <<>>
  /\ height = 0
  /\ outcome = "start"

Next == new_root_hash \/ pair \/ set_secure

Spec == Init /\ [][Next]_vars

-----------------------------------------------------------------------------
(* Properties *)

Occurrences(keys, k) == Cardinality({i \in 1..Len(keys) : keys[i] = k})

\* Cosigners can spend from the address: any m of its keys, in any order, have a
\* proof (generate_proof) and verify_tx_address accepts it; m keys of which one is
\* not of the address, or is used more often than it was given, have none.
ProofsVerify ==
  outcome = "stored" =>
    \A keys \in {s \in KeyLists : Len(s) = m} :
      LET proofs == address_proof(keys)
      IN IF \A k \in Keys : Occurrences(keys, k) <= Occurrences(public_keys, k)
         THEN proofs # {} /\ \A p \in proofs : verify(p, Root)
         ELSE proofs = {}

\* Whoever gives the same keys gets the same address, whatever the order: the
\* rounds build the tree of the reference definition over the sorted
\* combinations.  Its height is the logarithm of their number.
TreeIsReference ==
  outcome = "stored" =>
    LET picks == Listed(kSubset(m, 1..n))
        given == SortSeq(public_keys, <)
        c == SortSeq([i \in 1..Len(picks) |->
                        [j \in 1..m |-> given[SortSeq(Listed(picks[i]), <)[j]]]], Before)
    IN /\ Root = Reference(c)
       /\ 2 ^ height >= Len(c) /\ (height > 0 => 2 ^ (height - 1) < Len(c))
=============================================================================
