----------------------------- MODULE MerkleTree -----------------------------
(***************************************************************************)
(* Merkle trees and inclusion proofs (chain-core/common/merkle_tree).      *)
(* Hashes are collision free, so a hash is what was hashed, and a tree is  *)
(* known by its hash: an inner node's hash holds those of its children.    *)
(***************************************************************************)
EXTENDS Integers, Sequences, SequencesExt

EMPTY_HASH == <<"empty">>
leaf(v) == <<"leaf", v>>
combined_hash(left, right) == <<"node", left, right>>

\* One round of the loop of MerkleTree::new: neighbours are paired, and the last
\* of an odd number is taken over.
PairIter(trees) ==
  [i \in 1..((Len(trees) + 1) \div 2) |->
     IF 2 * i <= Len(trees) THEN combined_hash(trees[2 * i - 1], trees[2 * i]) ELSE trees[2 * i - 1]]

\* Tree::generate_path searches the left subtree, then the right one.  A path
\* is the siblings from the leaf up, with the side they are on; a search that
\* finds nothing is the empty set.
RECURSIVE generate_path(_, _)
generate_path(tree, v) ==
  CASE tree[1] = "empty" -> {}
    [] tree[1] = "leaf" -> IF tree = leaf(v) THEN {<<>>} ELSE {}
    [] tree[1] = "node" ->
         LET left == generate_path(tree[2], v)
         IN IF left # {} THEN {Append(p, <<"right", tree[3]>>) : p \in left}
            ELSE {Append(p, <<"left", tree[2]>>) : p \in generate_path(tree[3], v)}

\* Mutant: siblings are combined on the other side.
HashSwapped(node_hash, path) ==
  FoldLeft(LAMBDA h, s : IF s[1] = "left" THEN combined_hash(h, s[2]) ELSE combined_hash(s[2], h),
           node_hash, path)

\* Path::calculate_hash, from the hash of the leaf.
calculate_hash(node_hash, path) ==
  FoldLeft(LAMBDA h, s : IF s[1] = "left" THEN combined_hash(s[2], h) ELSE combined_hash(h, s[2]),
           node_hash, path)

\* MerkleTree::generate_proof.  The path of a proof starts at a leaf's hash.
generate_proof(tree, v) ==
  {[root_hash |-> tree, leaf |-> leaf(v), path |-> p, value |-> v] : p \in generate_path(tree, v)}

\* Proof::verify compares hashes; it does not look at the value.
verify(proof, root_hash) ==
  /\ proof.root_hash = root_hash
  /\ calculate_hash(proof.leaf, proof.path) = root_hash

\* A reference definition of the tree: its left part is the largest complete
\* tree that is not everything.
RECURSIVE Reference(_)
Reference(values) ==
  IF values = <<>> THEN EMPTY_HASH
  ELSE IF Len(values) = 1 THEN leaf(values[1])
  ELSE LET k == CHOOSE k \in 1..(Len(values) - 1) :
                  /\ \E e \in 0..Len(values) : k = 2 ^ e
                  /\ 2 * k >= Len(values)
       IN combined_hash(Reference(SubSeq(values, 1, k)), Reference(SubSeq(values, k + 1, Len(values))))
=============================================================================
