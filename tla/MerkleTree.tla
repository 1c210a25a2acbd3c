----------------------------- MODULE MerkleTree -----------------------------
(***************************************************************************)
(* The Merkle tree of the Manifest Registry (oracle/registry/app.js), over *)
(* an ideal hash: a digest is the term that was hashed, so two digests are *)
(* equal exactly when their inputs are.  A leaf hashes 48 bytes and a node *)
(* 64, hence the tags.  Positions count from 0, as in the code.            *)
(***************************************************************************)
EXTENDS Integers, Sequences

\* SHA-256(left || right).
MerkleHash(left, right) == <<"node", left, right>>

\* SHA-256(manifest_id || content_hash).
LeafHash(id, content) == <<"leaf", id, content>>

\* Mutant: an odd last node moves up unpaired.
NextLevelUnpaired(level) ==
  [i \in 1..(Len(level) + 1) \div 2 |->
     IF 2 * i <= Len(level) THEN MerkleHash(level[2 * i - 1], level[2 * i]) ELSE level[2 * i - 1]]

\* One round of buildMerkleTree: an odd last node is paired with itself.
NextLevel(level) ==
  [i \in 1..(Len(level) + 1) \div 2 |->
     MerkleHash(level[2 * i - 1], IF 2 * i <= Len(level) THEN level[2 * i] ELSE level[2 * i - 1])]

\* levels.push(next), for as long as there is more than one node, and beyond.
Levels(leaves) ==
  LET level[k \in Nat] == IF k = 0 THEN leaves ELSE NextLevel(level[k - 1])
  IN level

\* The levels of the tree, leaves first, up to the one that holds the root alone.
BuildMerkleTree(leaves) ==
  LET level == Levels(leaves)
      height == CHOOSE k \in 0..Len(leaves) :
                  Len(level[k]) = 1 /\ \A j \in 0..(k - 1) : Len(level[j]) > 1
  IN [k \in 1..(height + 1) |-> level[k - 1]]

Root(tree) == tree[Len(tree)][1]

\* The sibling of a node on its way to the root: itself where it has none.
Sibling(level, index) ==
  LET sibling == IF index % 2 = 1 THEN index - 1 ELSE index + 1
  IN IF sibling < Len(level) THEN level[sibling + 1] ELSE level[index + 1]

\* The node's index on every level: idx = Math.floor(idx / 2).
Halved(index) ==
  LET idx[k \in Nat] == IF k = 0 THEN index ELSE idx[k - 1] \div 2
  IN idx

GetProof(tree, index) ==
  [k \in 1..(Len(tree) - 1) |-> Sibling(tree[k], Halved(index)[k - 1])]

\* The verifier (the on-chain compute_merkle_root, mirrored by the registry's
\* test): each bit of the position says on which side the sibling goes.
Folded(leaf, proof, position) ==
  LET current[k \in Nat] ==
        IF k = 0 THEN leaf
        ELSE IF Halved(position)[k - 1] % 2 = 0 THEN MerkleHash(current[k - 1], proof[k])
        ELSE MerkleHash(proof[k], current[k - 1])
  IN current

VerifyMerkleProof(leaf, proof, position, root) ==
  root = Folded(leaf, proof, position)[Len(proof)]
=============================================================================
