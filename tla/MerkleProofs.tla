---------------------------- MODULE MerkleProofs ----------------------------
(***************************************************************************)
(* The Merkle tree of any number of leaves: the proof it gives of a leaf   *)
(* verifies at the leaf's place, and verifies nothing else there.          *)
(***************************************************************************)
EXTENDS MerkleTree, WellFoundedInduction, TLAPS

(* Induction, as the existence of a least counterexample. *)

LEMMA LeastNat ==
  ASSUME NEW T, T \subseteq Nat, T # {}
  PROVE  \E x \in T : \A y \in T : x <= y
<1>1. PICK x \in T : \A y \in T : <<y, x>> \notin OpToRel(<, Nat)
  BY WFMin, NatLessThanWellFounded
<1>2. \A y \in T : ~ (y < x)
  BY <1>1 DEF OpToRel
<1> QED BY <1>2

\* A set with 0 and the successors of its members has every number.
LEMMA Induction ==
  ASSUME NEW T, 0 \in T, \A k \in Nat : k \in T => k + 1 \in T
  PROVE  \A k \in Nat : k \in T
<1> DEFINE S == {k \in Nat : k \notin T}
<1>1. SUFFICES ASSUME S # {} PROVE FALSE
  OBVIOUS
<1>2. PICK k \in S : \A j \in S : k <= j
  BY <1>1, LeastNat
<1>3. k \in Nat /\ k # 0 /\ k - 1 \in Nat
  BY <1>2
<1>4. k - 1 \in T
  BY <1>2, <1>3
<1> QED BY <1>2, <1>3, <1>4
-----------------------------------------------------------------------------
(* The indices on the way up. *)

LEMMA HalvedIs ==
  ASSUME NEW index \in Nat
  PROVE  /\ Halved(index)[0] = index
         /\ \A k \in Nat : /\ Halved(index)[k] \in Nat
                           /\ Halved(index)[k + 1] = Halved(index)[k] \div 2
<1> DEFINE Step(f) == [k \in Nat |-> IF k = 0 THEN index ELSE f[k - 1] \div 2]
           Partial(g, n) == g = [k \in 0..n |-> IF k = 0 THEN index ELSE g[k - 1] \div 2]
           T == {n \in Nat : \E g : Partial(g, n)}
<1>1. \A n \in Nat : n \in T
  <2>1. 0 \in T
    <3>1. Partial([k \in 0..0 |-> index], 0)
      OBVIOUS
    <3> QED BY <3>1
  <2>2. ASSUME NEW n \in Nat, n \in T PROVE n + 1 \in T
    <3>1. PICK g : Partial(g, n)
      BY <2>2
    <3> DEFINE h == [k \in 0..(n + 1) |-> IF k = 0 THEN index ELSE g[k - 1] \div 2]
    <3>2. \A k \in 0..n : h[k] = g[k]
      BY <3>1
    <3>3. ASSUME NEW k \in 0..(n + 1)
          PROVE  h[k] = IF k = 0 THEN index ELSE h[k - 1] \div 2
      <4>1. k = 0 \/ k - 1 \in 0..n
        OBVIOUS
      <4> QED BY <3>2, <4>1
    <3>4. h = [k \in 0..(n + 1) |-> h[k]]
      OBVIOUS
    <3> HIDE DEF h
    <3>5. Partial(h, n + 1)
      BY <3>3, <3>4
    <3> QED BY <3>5
  <2> HIDE DEF T
  <2> QED BY <2>1, <2>2, Induction
<1>2. ASSUME NEW g, NEW n \in Nat, Partial(g, n), NEW h, NEW m \in Nat, Partial(h, m)
      PROVE  \A k \in Nat : k <= n /\ k <= m => g[k] = h[k]
  <2> DEFINE E == {k \in Nat : k <= n /\ k <= m => g[k] = h[k]}
  <2>1. 0 \in E
    BY <1>2
  <2>2. ASSUME NEW k \in Nat, k \in E PROVE k + 1 \in E
    BY <1>2, <2>2
  <2>3. \A k \in Nat : k \in E
    <3> HIDE DEF E
    <3> QED BY <2>1, <2>2, Induction
  <2> QED BY <2>3
<1> DEFINE G(n) == CHOOSE g : Partial(g, n)
           f == [k \in Nat |-> G(k)[k]]
<1>3. \A n \in Nat : Partial(G(n), n)
  BY <1>1
<1>4. f = Step(f)
  <2>1. ASSUME NEW k \in Nat PROVE f[k] = IF k = 0 THEN index ELSE f[k - 1] \div 2
    <3>1. CASE k = 0
      <4> HIDE DEF G
      <4>1. Partial(G(k), k) /\ f[k] = G(k)[k]
        BY <1>3
      <4> QED BY <3>1, <4>1
    <3>2. CASE k # 0
      <4>1. k - 1 \in Nat
        BY <3>2
      <4> HIDE DEF G
      <4>2. G(k)[k - 1] = G(k - 1)[k - 1]
        <5> HIDE DEF Partial
        <5> QED BY <1>2, <1>3, <4>1
      <4>3. G(k)[k] = G(k)[k - 1] \div 2
        BY <1>3, <3>2
      <4> QED BY <3>2, <4>1, <4>2, <4>3
    <3> QED BY <3>1, <3>2
  <2> HIDE DEF f
  <2>2. DOMAIN f = Nat /\ f = [k \in Nat |-> f[k]]
    BY DEF f
  <2> QED BY <2>1, <2>2
<1>5. Halved(index) = Step(Halved(index))
  <2>1. Halved(index) = CHOOSE g : g = Step(g)
    BY DEF Halved
  <2> HIDE DEF f, Step
  <2> QED BY <1>4, <2>1
<1>6. /\ Halved(index)[0] = index
      /\ \A k \in Nat : Halved(index)[k + 1] = Halved(index)[k] \div 2
  <2> DEFINE H == Halved(index)
  <2> HIDE DEF H
  <2>1. H = [k \in Nat |-> IF k = 0 THEN index ELSE H[k - 1] \div 2]
    BY <1>5 DEF H
  <2>2. H[0] = index /\ \A k \in Nat : H[k + 1] = H[k] \div 2
    BY <2>1
  <2> QED BY <2>2 DEF H
<1>7. \A k \in Nat : Halved(index)[k] \in Nat
  <2> DEFINE N == {k \in Nat : Halved(index)[k] \in Nat}
  <2>1. 0 \in N
    BY <1>6
  <2>2. ASSUME NEW k \in Nat, k \in N PROVE k + 1 \in N
    BY <1>6, <2>2
  <2> HIDE DEF N
  <2>3. \A k \in Nat : k \in N
    BY <2>1, <2>2, Induction
  <2> QED BY <2>3 DEF N
<1> QED BY <1>6, <1>7
-----------------------------------------------------------------------------
(* The levels of the tree. *)

\* The step of Levels, with the number of the level.
Above(k, level) == NextLevel(level)

LEMMA LevelsAre ==
  ASSUME NEW leaves
  PROVE  /\ Levels(leaves)[0] = leaves
         /\ \A k \in Nat : Levels(leaves)[k + 1] = NextLevel(Levels(leaves)[k])
<1> DEFINE Step(f) == [k \in Nat |-> IF k = 0 THEN leaves ELSE Above(k, f[k - 1])]
           Partial(g, n) == g = [k \in 0..n |-> IF k = 0 THEN leaves ELSE Above(k, g[k - 1])]
           T == {n \in Nat : \E g : Partial(g, n)}
<1>1. \A n \in Nat : n \in T
  <2>1. 0 \in T
    <3>1. Partial([k \in 0..0 |-> leaves], 0)
      OBVIOUS
    <3> QED BY <3>1
  <2>2. ASSUME NEW n \in Nat, n \in T PROVE n + 1 \in T
    <3>1. PICK g : Partial(g, n)
      BY <2>2
    <3> DEFINE h == [k \in 0..(n + 1) |-> IF k = 0 THEN leaves ELSE Above(k, g[k - 1])]
    <3>2. \A k \in 0..n : h[k] = g[k]
      BY <3>1
    <3>3. ASSUME NEW k \in 0..(n + 1)
          PROVE  h[k] = IF k = 0 THEN leaves ELSE Above(k, h[k - 1])
      <4>1. k = 0 \/ k - 1 \in 0..n
        OBVIOUS
      <4> QED BY <3>2, <4>1
    <3>4. h = [k \in 0..(n + 1) |-> h[k]]
      OBVIOUS
    <3> HIDE DEF h
    <3>5. Partial(h, n + 1)
      BY <3>3, <3>4
    <3> QED BY <3>5
  <2> HIDE DEF T
  <2> QED BY <2>1, <2>2, Induction
<1>2. ASSUME NEW g, NEW n \in Nat, Partial(g, n), NEW h, NEW m \in Nat, Partial(h, m)
      PROVE  \A k \in Nat : k <= n /\ k <= m => g[k] = h[k]
  <2> DEFINE E == {k \in Nat : k <= n /\ k <= m => g[k] = h[k]}
  <2>1. 0 \in E
    BY <1>2
  <2>2. ASSUME NEW k \in Nat, k \in E PROVE k + 1 \in E
    BY <1>2, <2>2
  <2>3. \A k \in Nat : k \in E
    <3> HIDE DEF E
    <3> QED BY <2>1, <2>2, Induction
  <2> QED BY <2>3
<1> DEFINE G(n) == CHOOSE g : Partial(g, n)
           f == [k \in Nat |-> G(k)[k]]
<1>3. \A n \in Nat : Partial(G(n), n)
  BY <1>1
<1>4. f = Step(f)
  <2>1. ASSUME NEW k \in Nat PROVE f[k] = IF k = 0 THEN leaves ELSE Above(k, f[k - 1])
    <3> HIDE DEF G
    <3>1. CASE k = 0
      <4>1. Partial(G(k), k) /\ f[k] = G(k)[k]
        BY <1>3
      <4> QED BY <3>1, <4>1
    <3>2. CASE k # 0
      <4>1. k - 1 \in Nat
        BY <3>2
      <4>2. G(k)[k - 1] = G(k - 1)[k - 1]
        <5> HIDE DEF Partial
        <5> QED BY <1>2, <1>3, <4>1
      <4>3. G(k)[k] = Above(k, G(k)[k - 1])
        BY <1>3, <3>2
      <4> QED BY <3>2, <4>1, <4>2, <4>3
    <3> QED BY <3>1, <3>2
  <2> HIDE DEF f
  <2>2. DOMAIN f = Nat /\ f = [k \in Nat |-> f[k]]
    BY DEF f
  <2> QED BY <2>1, <2>2
<1>5. Levels(leaves) = Step(Levels(leaves))
  <2>1. Levels(leaves) = CHOOSE g : g = Step(g)
    BY DEF Levels, Above
  <2> HIDE DEF f, Step
  <2> QED BY <1>4, <2>1
<1> DEFINE H == Levels(leaves)
<1> HIDE DEF H
<1>6. H = [k \in Nat |-> IF k = 0 THEN leaves ELSE Above(k, H[k - 1])]
  BY <1>5 DEF H
<1>7. H[0] = leaves /\ \A k \in Nat : H[k + 1] = Above(k + 1, H[k])
  BY <1>6
<1> QED BY <1>7 DEF H, Above
-----------------------------------------------------------------------------
(* The verifier. *)

\* What the verifier holds after the k-th sibling.
After(leaf, proof, position, k, hash) ==
  IF Halved(position)[k - 1] % 2 = 0 THEN MerkleHash(hash, proof[k])
  ELSE MerkleHash(proof[k], hash)

LEMMA FoldedIs ==
  ASSUME NEW leaf, NEW proof, NEW position
  PROVE  /\ Folded(leaf, proof, position)[0] = leaf
         /\ \A k \in Nat : Folded(leaf, proof, position)[k + 1] =
              After(leaf, proof, position, k + 1, Folded(leaf, proof, position)[k])
<1> DEFINE Sibl(k, hash) == After(leaf, proof, position, k, hash)
<1> HIDE DEF Sibl
<1> DEFINE Step(f) == [k \in Nat |-> IF k = 0 THEN leaf ELSE Sibl(k, f[k - 1])]
           Partial(g, n) == g = [k \in 0..n |-> IF k = 0 THEN leaf ELSE Sibl(k, g[k - 1])]
           T == {n \in Nat : \E g : Partial(g, n)}
<1>1. \A n \in Nat : n \in T
  <2>1. 0 \in T
    <3>1. Partial([k \in 0..0 |-> leaf], 0)
      OBVIOUS
    <3> QED BY <3>1
  <2>2. ASSUME NEW n \in Nat, n \in T PROVE n + 1 \in T
    <3>1. PICK g : Partial(g, n)
      BY <2>2
    <3> DEFINE h == [k \in 0..(n + 1) |-> IF k = 0 THEN leaf ELSE Sibl(k, g[k - 1])]
    <3>2. \A k \in 0..n : h[k] = g[k]
      BY <3>1
    <3>3. ASSUME NEW k \in 0..(n + 1)
          PROVE  h[k] = IF k = 0 THEN leaf ELSE Sibl(k, h[k - 1])
      <4>1. k = 0 \/ k - 1 \in 0..n
        OBVIOUS
      <4> QED BY <3>2, <4>1
    <3>4. h = [k \in 0..(n + 1) |-> h[k]]
      OBVIOUS
    <3> HIDE DEF h
    <3>5. Partial(h, n + 1)
      BY <3>3, <3>4
    <3> QED BY <3>5
  <2> HIDE DEF T
  <2> QED BY <2>1, <2>2, Induction
<1>2. ASSUME NEW g, NEW n \in Nat, Partial(g, n), NEW h, NEW m \in Nat, Partial(h, m)
      PROVE  \A k \in Nat : k <= n /\ k <= m => g[k] = h[k]
  <2> DEFINE E == {k \in Nat : k <= n /\ k <= m => g[k] = h[k]}
  <2>1. 0 \in E
    BY <1>2
  <2>2. ASSUME NEW k \in Nat, k \in E PROVE k + 1 \in E
    BY <1>2, <2>2
  <2>3. \A k \in Nat : k \in E
    <3> HIDE DEF E
    <3> QED BY <2>1, <2>2, Induction
  <2> QED BY <2>3
<1> DEFINE G(n) == CHOOSE g : Partial(g, n)
           f == [k \in Nat |-> G(k)[k]]
<1>3. \A n \in Nat : Partial(G(n), n)
  BY <1>1
<1>4. f = Step(f)
  <2>1. ASSUME NEW k \in Nat PROVE f[k] = IF k = 0 THEN leaf ELSE Sibl(k, f[k - 1])
    <3> HIDE DEF G
    <3>1. CASE k = 0
      <4>1. Partial(G(k), k) /\ f[k] = G(k)[k]
        BY <1>3
      <4> QED BY <3>1, <4>1
    <3>2. CASE k # 0
      <4>1. k - 1 \in Nat
        BY <3>2
      <4>2. G(k)[k - 1] = G(k - 1)[k - 1]
        <5> HIDE DEF Partial
        <5> QED BY <1>2, <1>3, <4>1
      <4>3. G(k)[k] = Sibl(k, G(k)[k - 1])
        BY <1>3, <3>2
      <4> QED BY <3>2, <4>1, <4>2, <4>3
    <3> QED BY <3>1, <3>2
  <2> HIDE DEF f
  <2>2. DOMAIN f = Nat /\ f = [k \in Nat |-> f[k]]
    BY DEF f
  <2> QED BY <2>1, <2>2
<1>5. Folded(leaf, proof, position) = Step(Folded(leaf, proof, position))
  <2>1. Folded(leaf, proof, position) = CHOOSE g : g = Step(g)
    BY DEF Folded, Sibl, After
  <2> HIDE DEF f, Step
  <2> QED BY <1>4, <2>1
<1> DEFINE H == Folded(leaf, proof, position)
<1> HIDE DEF H
<1>6. H = [k \in Nat |-> IF k = 0 THEN leaf ELSE Sibl(k, H[k - 1])]
  BY <1>5 DEF H
<1>7. H[0] = leaf /\ \A k \in Nat : H[k + 1] = Sibl(k + 1, H[k])
  BY <1>6
<1> QED BY <1>7 DEF H, Sibl
-----------------------------------------------------------------------------
(* The shape of the tree. *)

\* A sequence of n nodes.
Nodes(level, n) == level = [i \in 1..n |-> level[i]]

LEMMA LenIs ==
  ASSUME NEW n \in Nat, NEW level, Nodes(level, n)
  PROVE  Len(level) = n /\ DOMAIN level = 1..n
<1>1. DOMAIN level = 1..n
  BY DEF Nodes
<1>2. level \in [1..n -> {level[i] : i \in 1..n}]
  BY DEF Nodes
<1>3. level \in Seq({level[i] : i \in 1..n})
  BY <1>2
<1> QED BY <1>1, <1>3

LEMMA NextLevelIs ==
  ASSUME NEW n \in Nat \ {0}, NEW level, Nodes(level, n)
  PROVE  LET m == (n + 1) \div 2
         IN /\ m \in Nat \ {0} /\ (n > 1 => m < n)
            /\ Nodes(NextLevel(level), m)
            /\ \A i \in 1..m : NextLevel(level)[i] =
                 MerkleHash(level[2 * i - 1], IF 2 * i <= n THEN level[2 * i] ELSE level[2 * i - 1])
<1> DEFINE m == (n + 1) \div 2
           next == [i \in 1..m |-> MerkleHash(level[2 * i - 1],
                                   IF 2 * i <= n THEN level[2 * i] ELSE level[2 * i - 1])]
<1>1. m \in Nat \ {0} /\ (n > 1 => m < n)
  OBVIOUS
<1>2. NextLevel(level) = next
  BY LenIs DEF NextLevel
<1>3. Nodes(next, m)
  BY DEF Nodes
<1> QED BY <1>1, <1>2, <1>3

\* Every level has a node, and fewer nodes than the one below it while it has two.
LEMMA LevelShape ==
  ASSUME NEW n \in Nat \ {0}, NEW leaves, Nodes(leaves, n)
  PROVE  \A k \in Nat : LET level == Levels(leaves)[k]
                        IN /\ Len(level) \in Nat \ {0} /\ Nodes(level, Len(level))
                           /\ Len(level) = 1 \/ Len(level) <= n - k
<1> DEFINE L(k) == Levels(leaves)[k]
           Fine(k) == /\ Len(L(k)) \in Nat \ {0} /\ Nodes(L(k), Len(L(k)))
                      /\ Len(L(k)) = 1 \/ Len(L(k)) <= n - k
           T == {k \in Nat : Fine(k)}
<1>1. 0 \in T
  BY LevelsAre, LenIs
<1>2. ASSUME NEW k \in Nat, k \in T PROVE k + 1 \in T
  <2> DEFINE m == Len(L(k))
  <2>1. m \in Nat \ {0} /\ Nodes(L(k), m) /\ (m = 1 \/ m <= n - k)
    BY <1>2
  <2>2. L(k + 1) = NextLevel(L(k))
    BY LevelsAre
  <2> HIDE DEF m, L
  <2>3. /\ (m + 1) \div 2 \in Nat \ {0} /\ (m > 1 => (m + 1) \div 2 < m)
        /\ Nodes(L(k + 1), (m + 1) \div 2)
    BY <2>1, <2>2, NextLevelIs
  <2>4. Len(L(k + 1)) = (m + 1) \div 2
    BY <2>3, LenIs
  <2>5. (m + 1) \div 2 = 1 \/ (m + 1) \div 2 <= n - (k + 1)
    BY <2>1, <2>3
  <2> QED BY <2>3, <2>4, <2>5
<1> HIDE DEF T
<1>3. \A k \in Nat : k \in T
  BY <1>1, <1>2, Induction
<1> QED BY <1>3 DEF T

\* The tree is the levels up to the first that has one node.
LEMMA TreeIs ==
  ASSUME NEW n \in Nat \ {0}, NEW leaves, Nodes(leaves, n)
  PROVE  \E h \in 0..n :
           /\ Len(Levels(leaves)[h]) = 1
           /\ \A k \in 0..(h - 1) : Len(Levels(leaves)[k]) > 1
           /\ LET tree == BuildMerkleTree(leaves)
              IN /\ Len(tree) = h + 1 /\ Root(tree) = Levels(leaves)[h][1]
                 /\ \A k \in 1..(h + 1) : tree[k] = Levels(leaves)[k - 1]
<1> DEFINE L(k) == Levels(leaves)[k]
           T == {k \in Nat : Len(L(k)) = 1}
           Top(k) == Len(L(k)) = 1 /\ \A j \in 0..(k - 1) : Len(L(j)) > 1
<1>0. ASSUME NEW k \in Nat
      PROVE  Len(L(k)) \in Nat \ {0} /\ (Len(L(k)) = 1 \/ Len(L(k)) <= n - k)
  BY LevelShape
<1> HIDE DEF L
<1>1. n \in T
  BY <1>0
<1>2. PICK h \in T : \A k \in T : h <= k
  BY <1>1, LeastNat
<1>3. h \in 0..n /\ Len(L(h)) = 1
  BY <1>1, <1>2
<1>4. \A k \in 0..(h - 1) : Len(L(k)) > 1
  <2> SUFFICES ASSUME NEW k \in 0..(h - 1) PROVE Len(L(k)) > 1
    OBVIOUS
  <2>1. k \in Nat /\ k < h
    BY <1>3
  <2>2. k \notin T
    BY <1>2, <1>3, <2>1
  <2>3. Len(L(k)) # 1
    BY <2>1, <2>2
  <2>4. Len(L(k)) \in Nat \ {0}
    BY <1>0, <2>1
  <2>5. \A x \in Nat \ {0} : x # 1 => x > 1
    OBVIOUS
  <2> QED BY <2>3, <2>4, <2>5
<1>5. \A k \in 0..n : Top(k) => k = h
  <2> SUFFICES ASSUME NEW k \in 0..n, Top(k) PROVE k = h
    OBVIOUS
  <2>1. h <= k
    BY <1>2
  <2>2. ~ (h < k)
    <3> SUFFICES ASSUME h < k PROVE FALSE
      OBVIOUS
    <3>1. h \in 0..(k - 1)
      BY <1>3
    <3>2. Len(L(h)) > 1
      BY <3>1
    <3> QED BY <1>3, <3>2
  <2> QED BY <1>3, <2>1, <2>2
<1>6. h = CHOOSE k \in 0..Len(leaves) : Top(k)
  <2>1. Len(leaves) = n
    BY LenIs
  <2>2. Top(h)
    BY <1>3, <1>4
  <2> HIDE DEF Top
  <2> QED BY <1>3, <1>5, <2>1, <2>2
<1>7. BuildMerkleTree(leaves) = [k \in 1..(h + 1) |-> L(k - 1)]
  BY <1>6 DEF BuildMerkleTree, L
<1> DEFINE tree == BuildMerkleTree(leaves)
<1>8. Len(tree) = h + 1 /\ \A k \in 1..(h + 1) : tree[k] = L(k - 1)
  <2> HIDE DEF tree
  <2>1. Nodes(tree, h + 1)
    BY <1>7 DEF Nodes, tree
  <2> QED BY <1>3, <1>7, <2>1, LenIs DEF tree
<1>9. Root(tree) = L(h)[1]
  BY <1>3, <1>8 DEF Root
<1> QED BY <1>3, <1>4, <1>8, <1>9 DEF L
-----------------------------------------------------------------------------
(* What a proof proves. *)

\* One step up: a node and its sibling make the node above them.
LEMMA OneUp ==
  ASSUME NEW n \in Nat, n > 1, NEW level, Nodes(level, n), NEW i \in 0..(n - 1),
         NEW sibling, sibling = Sibling(level, i)
  PROVE  /\ i \div 2 \in 0..((n + 1) \div 2 - 1)
         /\ NextLevel(level)[i \div 2 + 1] =
              IF i % 2 = 0 THEN MerkleHash(level[i + 1], sibling)
              ELSE MerkleHash(sibling, level[i + 1])
<1> DEFINE j == i \div 2 + 1
<1>1. j \in 1..((n + 1) \div 2)
  OBVIOUS
<1>2. NextLevel(level)[j] =
        MerkleHash(level[2 * j - 1], IF 2 * j <= n THEN level[2 * j] ELSE level[2 * j - 1])
  <2> HIDE DEF j
  <2>1. n \in Nat \ {0}
    OBVIOUS
  <2> QED BY <1>1, <2>1, NextLevelIs
<1>3. sibling = IF i % 2 = 1 THEN level[i]
                ELSE IF i + 1 < n THEN level[i + 2] ELSE level[i + 1]
  BY LenIs DEF Sibling
<1>4. CASE i % 2 = 0
  <2>1. 2 * j - 1 = i + 1 /\ 2 * j = i + 2
    BY <1>4
  <2>2. 2 * j <= n <=> i + 1 < n
    BY <2>1
  <2> HIDE DEF j
  <2> QED BY <1>2, <1>3, <1>4, <2>1, <2>2 DEF j
<1>5. CASE i % 2 = 1
  <2>1. 2 * j - 1 = i /\ 2 * j = i + 1 /\ 2 * j <= n
    BY <1>5
  <2> HIDE DEF j
  <2> QED BY <1>1, <1>2, <1>3, <1>5, <2>1 DEF j
<1> QED BY <1>1, <1>4, <1>5

\* A proof has a sibling for every level below the root.
LEMMA ProofIs ==
  ASSUME NEW h \in Nat, NEW tree, Len(tree) = h + 1, NEW index
  PROVE  /\ Len(GetProof(tree, index)) = h
         /\ \A k \in 1..h : GetProof(tree, index)[k] = Sibling(tree[k], Halved(index)[k - 1])
<1> DEFINE at(k) == Halved(index)[k]
           proof == GetProof(tree, index)
<1> HIDE DEF at
<1>1. proof = [k \in 1..h |-> Sibling(tree[k], at(k - 1))]
  BY DEF GetProof, at
<1> HIDE DEF proof
<1>2. Nodes(proof, h)
  BY <1>1 DEF Nodes
<1> QED BY <1>1, <1>2, LenIs DEF proof, at

\* The registry's proof of a leaf leads the on-chain verifier from the leaf, at its
\* position, to the root: for any number of leaves (oracle/registry/app.js:64-90).
THEOREM ProofLeadsToRoot ==
  ASSUME NEW n \in Nat \ {0}, NEW leaves, Nodes(leaves, n), NEW index \in 0..(n - 1)
  PROVE  LET tree == BuildMerkleTree(leaves)
             proof == GetProof(tree, index)
         IN /\ Len(proof) \in Nat
            /\ VerifyMerkleProof(leaves[index + 1], proof, index, Root(tree))
<1> SUFFICES ASSUME NEW tree, tree = BuildMerkleTree(leaves),
                    NEW proof, proof = GetProof(tree, index),
                    NEW leaf, leaf = leaves[index + 1]
             PROVE  Len(proof) \in Nat /\ VerifyMerkleProof(leaf, proof, index, Root(tree))
  OBVIOUS
<1>1. PICK h \in 0..n :
        /\ Len(Levels(leaves)[h]) = 1
        /\ \A k \in 0..(h - 1) : Len(Levels(leaves)[k]) > 1
        /\ Len(tree) = h + 1 /\ Root(tree) = Levels(leaves)[h][1]
        /\ \A k \in 1..(h + 1) : tree[k] = Levels(leaves)[k - 1]
  <2>1. PICK g \in 0..n :
          /\ Len(Levels(leaves)[g]) = 1
          /\ \A k \in 0..(g - 1) : Len(Levels(leaves)[k]) > 1
          /\ Len(BuildMerkleTree(leaves)) = g + 1
          /\ Root(BuildMerkleTree(leaves)) = Levels(leaves)[g][1]
          /\ \A k \in 1..(g + 1) : BuildMerkleTree(leaves)[k] = Levels(leaves)[k - 1]
    BY TreeIs
  <2> QED BY <2>1
<1> DEFINE L(k) == Levels(leaves)[k]
           at(k) == Halved(index)[k]
           held(k) == Folded(leaf, proof, index)[k]
<1>2. /\ L(0) = leaves /\ at(0) = index /\ held(0) = leaf
      /\ \A k \in Nat : /\ L(k + 1) = NextLevel(L(k))
                        /\ at(k) \in Nat /\ at(k + 1) = at(k) \div 2
  BY LevelsAre, HalvedIs, FoldedIs
<1>3. ASSUME NEW k \in Nat
      PROVE  held(k + 1) = IF at(k) % 2 = 0 THEN MerkleHash(held(k), proof[k + 1])
                           ELSE MerkleHash(proof[k + 1], held(k))
  BY FoldedIs DEF After
<1>4. ASSUME NEW k \in Nat
      PROVE  Len(L(k)) \in Nat \ {0} /\ Nodes(L(k), Len(L(k)))
  BY LevelShape
<1>5. /\ Len(L(h)) = 1 /\ \A k \in 0..(h - 1) : Len(L(k)) > 1
      /\ Len(tree) = h + 1 /\ Root(tree) = L(h)[1]
      /\ \A k \in 1..(h + 1) : tree[k] = L(k - 1)
  BY <1>1
<1>6. /\ Len(proof) = h
      /\ \A k \in 1..h : proof[k] = Sibling(L(k - 1), at(k - 1))
  <2>1. /\ Len(proof) = h
        /\ \A k \in 1..h : proof[k] = Sibling(tree[k], at(k - 1))
    <3>1. Len(tree) = h + 1
      BY <1>5
    <3> QED BY <3>1, ProofIs
  <2> HIDE DEF L, at
  <2> QED BY <1>5, <2>1
<1> HIDE DEF L, at, held
<1> DEFINE T == {k \in Nat : k <= h => at(k) < Len(L(k)) /\ held(k) = L(k)[at(k) + 1]}
<1>7. 0 \in T
  <2>1. Len(leaves) = n
    BY LenIs
  <2>2. at(0) < n /\ held(0) = leaves[at(0) + 1] /\ L(0) = leaves
    BY <1>2
  <2> QED BY <2>1, <2>2
<1>8. ASSUME NEW k \in Nat, k \in T PROVE k + 1 \in T
  <2> SUFFICES ASSUME k + 1 <= h
               PROVE  at(k + 1) < Len(L(k + 1)) /\ held(k + 1) = L(k + 1)[at(k + 1) + 1]
    OBVIOUS
  <2>1. PICK m : m = Len(L(k))
    OBVIOUS
  <2>2. PICK i : i = at(k)
    OBVIOUS
  <2>3. PICK level : level = L(k)
    OBVIOUS
  <2>4. PICK sibling : sibling = Sibling(level, i)
    OBVIOUS
  <2>5. m \in Nat /\ m > 1 /\ Nodes(level, m)
    BY <1>4, <1>5, <2>1, <2>3
  <2>6. i \in 0..(m - 1) /\ held(k) = level[i + 1]
    <3>1. i \in Nat
      BY <1>2, <2>2
    <3>2. i < m /\ held(k) = level[i + 1]
      BY <1>8, <2>1, <2>2, <2>3
    <3> QED BY <2>5, <3>1, <3>2
  <2>7. proof[k + 1] = sibling
    BY <1>6, <2>2, <2>3, <2>4
  <2>8. held(k + 1) = IF i % 2 = 0 THEN MerkleHash(level[i + 1], sibling)
                      ELSE MerkleHash(sibling, level[i + 1])
    BY <1>3, <2>2, <2>6, <2>7
  <2>9. /\ i \div 2 \in 0..((m + 1) \div 2 - 1)
        /\ NextLevel(level)[i \div 2 + 1] =
             IF i % 2 = 0 THEN MerkleHash(level[i + 1], sibling)
             ELSE MerkleHash(sibling, level[i + 1])
    BY <2>4, <2>5, <2>6, OneUp
  <2>10. L(k + 1) = NextLevel(level) /\ at(k + 1) = i \div 2
    BY <1>2, <2>2, <2>3
  <2>11. Len(L(k + 1)) = (m + 1) \div 2
    <3>1. (m + 1) \div 2 \in Nat /\ Nodes(NextLevel(level), (m + 1) \div 2)
      BY <2>5, NextLevelIs
    <3> QED BY <2>10, <3>1, LenIs
  <2> QED BY <2>8, <2>9, <2>10, <2>11
<1>9. h \in T
  <2> HIDE DEF T
  <2> QED BY <1>7, <1>8, Induction
<1>10. held(h) = L(h)[1]
  <2>0. at(h) < Len(L(h)) /\ held(h) = L(h)[at(h) + 1]
    BY <1>9
  <2>1. at(h) < 1 /\ held(h) = L(h)[at(h) + 1] /\ at(h) \in Nat
    BY <1>2, <1>5, <2>0
  <2>2. at(h) = 0
    BY <2>1
  <2> QED BY <2>1, <2>2
<1> QED BY <1>5, <1>6, <1>10 DEF VerifyMerkleProof, held

\* No other leaf verifies with the same proof at the same position: the hash is
\* ideal, and each step up keeps what it was given.
THEOREM ProofOfOneLeaf ==
  ASSUME NEW proof, Len(proof) \in Nat, NEW position, NEW root, NEW leaf, NEW other,
         VerifyMerkleProof(leaf, proof, position, root),
         VerifyMerkleProof(other, proof, position, root)
  PROVE  other = leaf
<1> DEFINE held(k) == Folded(leaf, proof, position)[k]
           also(k) == Folded(other, proof, position)[k]
           at(k) == Halved(position)[k]
           T == {k \in Nat : held(k) = also(k) => leaf = other}
<1>1. held(0) = leaf /\ also(0) = other
  BY FoldedIs
<1>2. ASSUME NEW k \in Nat
      PROVE  /\ held(k + 1) = IF at(k) % 2 = 0 THEN MerkleHash(held(k), proof[k + 1])
                              ELSE MerkleHash(proof[k + 1], held(k))
             /\ also(k + 1) = IF at(k) % 2 = 0 THEN MerkleHash(also(k), proof[k + 1])
                              ELSE MerkleHash(proof[k + 1], also(k))
  BY FoldedIs DEF After
<1> HIDE DEF held, also, at
<1>3. 0 \in T
  BY <1>1
<1>4. ASSUME NEW k \in Nat, k \in T PROVE k + 1 \in T
  <2>1. held(k + 1) = also(k + 1) => held(k) = also(k)
    <3>1. \A a, b, c : MerkleHash(a, c) = MerkleHash(b, c) => a = b
      BY DEF MerkleHash
    <3>2. \A a, b, c : MerkleHash(c, a) = MerkleHash(c, b) => a = b
      BY DEF MerkleHash
    <3>3. CASE at(k) % 2 = 0
      <4>1. held(k + 1) = MerkleHash(held(k), proof[k + 1]) /\ also(k + 1) = MerkleHash(also(k), proof[k + 1])
        BY <1>2, <3>3
      <4> QED BY <3>1, <4>1
    <3>4. CASE at(k) % 2 # 0
      <4>1. held(k + 1) = MerkleHash(proof[k + 1], held(k)) /\ also(k + 1) = MerkleHash(proof[k + 1], also(k))
        BY <1>2, <3>4
      <4> QED BY <3>2, <4>1
    <3> QED BY <3>3, <3>4
  <2> QED BY <1>4, <2>1
<1>5. Len(proof) \in T
  <2> HIDE DEF T
  <2> QED BY <1>3, <1>4, Induction
<1>6. held(Len(proof)) = also(Len(proof))
  BY DEF VerifyMerkleProof, held, also
<1> QED BY <1>5, <1>6
=============================================================================
