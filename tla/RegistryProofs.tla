--------------------------- MODULE RegistryProofs ---------------------------
(***************************************************************************)
(* The properties of ManifestRegistry, proved for any ids, values, key     *)
(* orders and publications, any number of manifests and of snapshots.      *)
(***************************************************************************)
EXTENDS ManifestRegistry, MerkleProofs

(* The inductive invariant. *)

Kept == snapshots \in Seq({snapshots[k] : k \in DOMAIN snapshots})

\* A key that can be hashed: a text or an array.
Hashed == TextIds \cup ArrayIds

\* A snapshot has a leaf for each of the first keys of the Map, in their order, and
\* the root of the tree of them.
Taken(k) ==
  LET s == snapshots[k]
  IN /\ s.total \in 1..Len(order)
     /\ Nodes(s.leaves, s.total)
     /\ s.root = Root(BuildMerkleTree(s.leaves))
     /\ \A p \in 1..s.total :
          order[p] \in Hashed /\ s.leaves[p] = LeafHash(Bytes(order[p]), s.leaves[p][3])

MapOK ==
  /\ order \in Seq(KeyIds)
  /\ IsInjective(order)
  /\ manifests \in [Ids -> Payloads \cup {NoPayload}]
  /\ ToSet(order) = {id \in Ids : Published(id)}

Inv ==
  /\ MapOK
  /\ Kept
  /\ \A k \in DOMAIN snapshots : Taken(k)
  /\ \A j, k \in DOMAIN snapshots : j < k => snapshots[j].total <= snapshots[k].total
  /\ ServedProofVerifies
-----------------------------------------------------------------------------
(* Sequences. *)

LEMMA OrderFacts ==
  ASSUME MapOK
  PROVE  /\ Len(order) \in Nat /\ DOMAIN order = 1..Len(order)
         /\ \A p \in 1..Len(order) : order[p] \in KeyIds /\ order[p] \in Ids
BY DEF MapOK, Ids, KeyIds

LEMMA SnapshotsFacts ==
  ASSUME Kept
  PROVE  Len(snapshots) \in Nat /\ DOMAIN snapshots = 1..Len(snapshots)
BY DEF Kept

LEMMA SnapshotsGrow ==
  ASSUME Kept, NEW s, snapshots' = Append(snapshots, s)
  PROVE  /\ Kept'
         /\ Len(snapshots') = Len(snapshots) + 1 /\ DOMAIN snapshots' = 1..(Len(snapshots) + 1)
         /\ \A k \in DOMAIN snapshots : k \in DOMAIN snapshots' /\ snapshots'[k] = snapshots[k]
         /\ \A k \in DOMAIN snapshots' : k \in DOMAIN snapshots \/ k = Len(snapshots) + 1
         /\ snapshots'[Len(snapshots) + 1] = s
<1> DEFINE S == {snapshots[k] : k \in DOMAIN snapshots}
           n == Len(snapshots)
<1>1. snapshots \in Seq(S \cup {s}) /\ n \in Nat /\ DOMAIN snapshots = 1..n
  BY DEF Kept
<1>2. /\ snapshots' \in Seq(S \cup {s}) /\ Len(snapshots') = n + 1
      /\ DOMAIN snapshots' = 1..(n + 1)
      /\ \A k \in 1..n : snapshots'[k] = snapshots[k]
      /\ snapshots'[n + 1] = s
  BY <1>1
<1>3. S \cup {s} = {snapshots'[k] : k \in DOMAIN snapshots'}
  BY <1>1, <1>2
<1> QED BY <1>1, <1>2, <1>3 DEF Kept

\* The last index that passes a test, and the first.
LEMMA MaxIs ==
  ASSUME NEW n \in Nat, NEW T, T \subseteq 1..n, T # {}
  PROVE  Max(T) \in T /\ \A y \in T : y <= Max(T)
<1> DEFINE S == {n - x : x \in T}
<1>1. S \subseteq Nat /\ S # {}
  <2>1. \A x \in T : n - x \in Nat
    OBVIOUS
  <2>2. PICK x \in T : TRUE
    OBVIOUS
  <2>3. n - x \in S
    OBVIOUS
  <2> QED BY <2>1, <2>3
<1>2. PICK x \in S : \A y \in S : x <= y
  BY <1>1, LeastNat
<1>3. PICK z \in T : x = n - z
  BY <1>2
<1>4. \A y \in T : n - y \in S
  OBVIOUS
<1>5. \A y \in T : z >= y
  BY <1>2, <1>3, <1>4
<1> QED BY <1>3, <1>5 DEF Max

LEMMA MinIs ==
  ASSUME NEW T, T \subseteq Nat, T # {}
  PROVE  Min(T) \in T /\ \A y \in T : Min(T) <= y
BY LeastNat DEF Min

\* findSnapshotWithLeaf finds the last snapshot with the leaf, if there is one.
LEMMA LastWithLeaf ==
  ASSUME Kept, NEW leaf
  PROVE  LET k == SnapshotWithLeaf(leaf)
         IN /\ k # 0 => /\ k \in DOMAIN snapshots /\ leaf \in ToSet(snapshots[k].leaves)
                        /\ \A j \in DOMAIN snapshots : leaf \in ToSet(snapshots[j].leaves) => j <= k
            /\ k = 0 => \A j \in DOMAIN snapshots : leaf \notin ToSet(snapshots[j].leaves)
<1> DEFINE I == {i \in 1..Len(snapshots) : leaf \in ToSet(snapshots[i].leaves)}
<1>1. Len(snapshots) \in Nat /\ DOMAIN snapshots = 1..Len(snapshots)
  BY SnapshotsFacts
<1>2. SnapshotWithLeaf(leaf) = IF I # {} THEN Max(I) ELSE 0
  BY DEF SnapshotWithLeaf, SelectLastInSeq
<1>3. CASE I = {}
  BY <1>1, <1>2, <1>3
<1>4. CASE I # {}
  <2>1. Max(I) \in I /\ \A j \in I : j <= Max(I)
    <3> HIDE DEF I
    <3>1. I \subseteq 1..Len(snapshots)
      BY DEF I
    <3> QED BY <1>1, <1>4, <3>1, MaxIs
  <2> QED BY <1>1, <1>2, <1>4, <2>1
<1> QED BY <1>3, <1>4

\* A snapshot with the leaf is enough to find one.
LEMMA ProvableIs ==
  ASSUME Kept, NEW id
  PROVE  Provable(id) <=>
           /\ Found(id)
           /\ \E k \in DOMAIN snapshots : ManifestLeaf(id, manifests[id]) \in ToSet(snapshots[k].leaves)
BY LastWithLeaf DEF Provable
-----------------------------------------------------------------------------
(* The steps. *)

LEMMA SnapshotIs ==
  ASSUME MapOK, order # <<>>, ToSet(order) \cap NumberIds = {}
  PROVE  /\ Snapshot.total = Len(order) /\ Len(order) \in Nat \ {0}
         /\ Nodes(Snapshot.leaves, Len(order))
         /\ Snapshot.root = Root(BuildMerkleTree(Snapshot.leaves))
         /\ \A p \in 1..Len(order) :
              /\ order[p] \in Hashed
              /\ Snapshot.leaves[p] = LeafHash(Bytes(order[p]), Snapshot.leaves[p][3])
<1> DEFINE leaves == [i \in 1..Len(order) |-> ManifestLeaf(order[i], manifests[order[i]])]
<1>1. /\ Snapshot.total = Len(order) /\ Snapshot.leaves = leaves
      /\ Snapshot.root = Root(BuildMerkleTree(leaves))
  BY DEF Snapshot
<1>2. Len(order) \in Nat \ {0}
  BY DEF MapOK
<1>3. Nodes(leaves, Len(order))
  BY DEF Nodes
<1>4. ASSUME NEW p \in 1..Len(order)
      PROVE  order[p] \in Hashed /\ leaves[p] = LeafHash(Bytes(order[p]), leaves[p][3])
  <2>1. order[p] \in ToSet(order) /\ order[p] \in KeyIds
    BY OrderFacts DEF ToSet
  <2>2. leaves[p] = LeafHash(Bytes(order[p]), Canonicalize(manifests[order[p]]))
    BY DEF ManifestLeaf
  <2>3. leaves[p][3] = Canonicalize(manifests[order[p]])
    BY <2>2 DEF LeafHash
  <2> QED BY <2>1, <2>2, <2>3 DEF Hashed, KeyIds
<1> QED BY <1>1, <1>2, <1>3, <1>4

\* A snapshot stays true to the Map while the Map only grows.
LEMMA TakenStays ==
  ASSUME NEW k, Taken(k), snapshots'[k] = snapshots[k], Len(order) \in Nat,
         Len(order') \in Nat, Len(order) <= Len(order'),
         \A p \in 1..Len(order) : order'[p] = order[p]
  PROVE  Taken(k)'
BY DEF Taken

\* Other requests are not answered with a proof.
LEMMA NoProof ==
  ASSUME NEW op, NEW status, op # "proof" \/ status # 200, Answer(op, status)
  PROVE  ServedProofVerifies'
BY DEF Answer, ServedProofVerifies

LEMMA PublishStep ==
  ASSUME Inv, NEW pub \in Publications, NEW signed \in BOOLEAN,
         PublishManifest(pub[1], pub[2], signed)
  PROVE  Inv'
<1> DEFINE id == pub[1]
           payload == pub[2]
<1>1. id \in Ids /\ payload \in Payloads
  BY PayloadAssumption
<1>2. ServedProofVerifies'
  BY NoProof DEF PublishManifest
<1>3. UNCHANGED snapshots /\ Kept'
  BY DEF PublishManifest, Inv, Kept
<1>4. MapOK' /\ Len(order') \in Nat /\ Len(order) <= Len(order')
      /\ \A p \in 1..Len(order) : order'[p] = order[p]
  <2>1. CASE UNCHANGED <<order, manifests>>
    BY <2>1, OrderFacts DEF Inv, MapOK, Published
  <2>2. CASE id \notin OtherIds /\ manifests' = [manifests EXCEPT ![id] = payload]
             /\ order' = IF Published(id) THEN order ELSE Append(order, id)
    <3>1. /\ manifests' \in [Ids -> Payloads \cup {NoPayload}]
          /\ \A i \in Ids : Published(i)' <=> Published(i) \/ i = id
      BY <1>1, <2>2, PayloadAssumption DEF Inv, MapOK, Published
    <3>2. id \in KeyIds
      BY <1>1, <2>2 DEF Ids
    <3>3. CASE Published(id)
      BY <1>1, <2>2, <3>1, <3>3, OrderFacts DEF Inv, MapOK
    <3>4. CASE ~Published(id)
      <4>1. order' = Append(order, id) /\ order \in Seq(KeyIds)
        BY <2>2, <3>4 DEF Inv, MapOK
      <4>2. /\ order' \in Seq(KeyIds) /\ Len(order') = Len(order) + 1
            /\ DOMAIN order' = 1..(Len(order) + 1) /\ DOMAIN order = 1..Len(order)
            /\ Len(order) \in Nat
            /\ \A p \in 1..Len(order) : order'[p] = order[p]
            /\ order'[Len(order) + 1] = id
        BY <3>2, <4>1
      <4>3. ToSet(order') = ToSet(order) \cup {id}
        BY <4>2 DEF ToSet
      <4>4. \A p \in DOMAIN order : order[p] # id
        BY <3>4, <1>1 DEF Inv, MapOK, ToSet
      <4>5. IsInjective(order')
        BY <4>2, <4>4 DEF Inv, MapOK, IsInjective
      <4>6. ToSet(order') = {i \in Ids : Published(i)'}
        BY <1>1, <3>1, <4>3 DEF Inv, MapOK
      <4> QED BY <3>1, <4>2, <4>5, <4>6 DEF MapOK
    <3> QED BY <3>3, <3>4
  <2> QED BY <2>1, <2>2 DEF PublishManifest
<1>5. ASSUME NEW k \in DOMAIN snapshots PROVE Taken(k)'
  BY <1>3, <1>4, OrderFacts, TakenStays DEF Inv
<1> QED BY <1>2, <1>3, <1>4, <1>5 DEF Inv

\* A step that changes neither the Map nor the snapshots.
LEMMA ReadStep ==
  ASSUME Inv, UNCHANGED <<order, manifests, snapshots>>, ServedProofVerifies'
  PROVE  Inv'
<1>1. MapOK' /\ Kept'
  BY DEF Inv, MapOK, Kept, Published
<1>2. ASSUME NEW k \in DOMAIN snapshots PROVE Taken(k)'
  BY OrderFacts, TakenStays DEF Inv
<1> QED BY <1>1, <1>2 DEF Inv

LEMMA SnapshotStep ==
  ASSUME Inv, NEW authorized \in BOOLEAN, TakeSnapshot(authorized)
  PROVE  Inv'
<1>1. ServedProofVerifies' /\ UNCHANGED <<order, manifests>>
  BY NoProof DEF TakeSnapshot
<1>2. CASE UNCHANGED snapshots
  BY <1>1, <1>2, ReadStep
<1>3. CASE order # <<>> /\ ToSet(order) \cap NumberIds = {} /\ snapshots' = Append(snapshots, Snapshot)
  <2> DEFINE n == Len(snapshots)
  <2>1. MapOK'
    BY <1>1 DEF Inv, MapOK, Published
  <2>2. /\ Kept' /\ DOMAIN snapshots' = 1..(n + 1) /\ n \in Nat /\ DOMAIN snapshots = 1..n
        /\ \A k \in DOMAIN snapshots : k \in DOMAIN snapshots' /\ snapshots'[k] = snapshots[k]
        /\ \A k \in DOMAIN snapshots' : k \in DOMAIN snapshots \/ k = n + 1
        /\ snapshots'[n + 1] = Snapshot
    BY <1>3, SnapshotsGrow, SnapshotsFacts DEF Inv
  <2>3. PICK s : s = Snapshot
    OBVIOUS
  <2>4. /\ s.total = Len(order) /\ Len(order) \in Nat \ {0}
        /\ Nodes(s.leaves, Len(order))
        /\ s.root = Root(BuildMerkleTree(s.leaves))
        /\ \A p \in 1..Len(order) : order[p] \in Hashed /\ s.leaves[p] = LeafHash(Bytes(order[p]), s.leaves[p][3])
    BY <1>3, <2>3, SnapshotIs DEF Inv
  <2>5. PICK m : m = n + 1
    OBVIOUS
  <2>6. Taken(m)'
    BY <1>1, <2>2, <2>3, <2>4, <2>5 DEF Taken
  <2>7. ASSUME NEW k \in DOMAIN snapshots PROVE Taken(k)' /\ snapshots[k].total <= s.total
    <3>1. Taken(k) /\ Len(order) \in Nat
      BY OrderFacts DEF Inv
    <3>2. Taken(k)'
      BY <1>1, <2>2, <3>1, TakenStays
    <3> QED BY <2>4, <3>1, <3>2 DEF Taken
  <2>8. \A j, k \in DOMAIN snapshots' : j < k => snapshots'[j].total <= snapshots'[k].total
    <3> SUFFICES ASSUME NEW j \in DOMAIN snapshots', NEW k \in DOMAIN snapshots', j < k
                 PROVE  snapshots'[j].total <= snapshots'[k].total
      OBVIOUS
    <3>1. j \in DOMAIN snapshots
      BY <2>2
    <3>2. CASE k \in DOMAIN snapshots
      BY <2>2, <3>1, <3>2 DEF Inv
    <3>3. CASE k = n + 1
      BY <2>2, <2>3, <2>7, <3>1, <3>3
    <3> QED BY <2>2, <3>2, <3>3
  <2> QED BY <1>1, <2>1, <2>2, <2>5, <2>6, <2>7, <2>8 DEF Inv
<1> QED BY <1>2, <1>3 DEF TakeSnapshot

\* The proof served is of the leaf asked for, at its place, and of no other leaf.
LEMMA ProofStep ==
  ASSUME Inv, NEW path \in Ids, GetMerkleProof(path)
  PROVE  Inv'
<1> SUFFICES ServedProofVerifies'
  BY ReadStep DEF GetMerkleProof
<1>1. CASE Answer("proof", 404)
  BY <1>1, NoProof
<1>2. CASE /\ Found(path)
           /\ SnapshotWithLeaf(ManifestLeaf(path, manifests[path])) # 0
           /\ ~Answer("proof", 404)
  <2>1. PICK leaf : leaf = ManifestLeaf(path, manifests[path])
    OBVIOUS
  <2>2. PICK k : k = SnapshotWithLeaf(leaf)
    OBVIOUS
  <2>3. /\ k \in DOMAIN snapshots /\ leaf \in ToSet(snapshots[k].leaves)
        /\ \A j \in DOMAIN snapshots : leaf \in ToSet(snapshots[j].leaves) => j <= k
    BY <1>2, <2>1, <2>2, LastWithLeaf DEF Inv
  <2>4. PICK s : s = snapshots[k]
    OBVIOUS
  <2>5. PICK m : m = ProofFrom(s, leaf)
    OBVIOUS
  <2>6. /\ answer' = [op |-> "proof", status |-> 200, manifest_id |-> path, membership |-> m]
        /\ UNCHANGED <<order, manifests, snapshots>>
    BY <1>2, <2>1, <2>2, <2>4, <2>5 DEF GetMerkleProof
  <2>7. s.total \in Nat \ {0} /\ Nodes(s.leaves, s.total) /\ s.root = Root(BuildMerkleTree(s.leaves))
    <3>1. Taken(k) /\ Len(order) \in Nat
      BY <2>3, OrderFacts DEF Inv
    <3> QED BY <2>4, <3>1 DEF Taken
  <2>8. Len(s.leaves) = s.total /\ DOMAIN s.leaves = 1..s.total
    BY <2>7, LenIs
  <2>9. m.position \in 0..(s.total - 1) /\ s.leaves[m.position + 1] = leaf
    <3> DEFINE I == {i \in 1..Len(s.leaves) : s.leaves[i] = leaf}
    <3>1. SelectInSeq(s.leaves, LAMBDA l : l = leaf) = IF I # {} THEN Min(I) ELSE 0
      BY DEF SelectInSeq
    <3>2. m.position = SelectInSeq(s.leaves, LAMBDA l : l = leaf) - 1
      BY <2>5 DEF ProofFrom
    <3>3. I # {} /\ I \subseteq Nat
      BY <2>3, <2>4, <2>8 DEF ToSet
    <3>4. Min(I) \in I
      <4> HIDE DEF I
      <4> QED BY <3>3, MinIs
    <3>5. PICK i \in I : m.position = i - 1
      BY <3>1, <3>2, <3>3, <3>4
    <3> QED BY <2>7, <2>8, <3>5
  <2>10. /\ m.root = s.root /\ m.leaf = leaf
         /\ m.proof = GetProof(BuildMerkleTree(s.leaves), m.position)
    BY <2>5 DEF ProofFrom
  <2>11. Len(m.proof) \in Nat /\ VerifyMerkleProof(leaf, m.proof, m.position, m.root)
    BY <2>7, <2>9, <2>10, ProofLeadsToRoot
  <2>12. \A l : VerifyMerkleProof(l, m.proof, m.position, m.root) => l = leaf
    BY <2>11, ProofOfOneLeaf
  <2>13. ASSUME leaf \in ToSet(snapshots[Len(snapshots)].leaves)
         PROVE  m.root = snapshots[Len(snapshots)].root
    <3>1. Len(snapshots) \in Nat /\ DOMAIN snapshots = 1..Len(snapshots)
      BY SnapshotsFacts DEF Inv
    <3>2. k = Len(snapshots)
      BY <2>3, <2>13, <3>1
    <3> QED BY <2>4, <2>10, <3>2
  <2> QED BY <2>1, <2>6, <2>10, <2>11, <2>12, <2>13 DEF ServedProofVerifies
<1> QED BY <1>1, <1>2 DEF GetMerkleProof


LEMMA EmptyInv ==
  ASSUME order = <<>>, manifests = [id \in Ids |-> NoPayload], snapshots = <<>>,
         answer = [op |-> "none", status |-> 0]
  PROVE  Inv
<1>1. ToSet(order) = {} /\ {id \in Ids : Published(id)} = {}
  BY DEF ToSet, Published
<1>2. MapOK
  BY <1>1 DEF MapOK, IsInjective
<1> QED BY <1>2 DEF Inv, Kept, ServedProofVerifies

LEMMA RestartStep ==
  ASSUME Restart
  PROVE  Inv'
<1>1. ToSet(order') = {} /\ {id \in Ids : Published(id)'} = {}
  BY DEF Restart, ToSet, Published
<1>2. MapOK'
  BY <1>1 DEF Restart, MapOK, IsInjective
<1>3. ServedProofVerifies'
  BY NoProof DEF Restart
<1> QED BY <1>2, <1>3 DEF Restart, Inv, Kept

\* The registry's state keeps to the invariant, whatever clients ask in any order and
\* however often the process is started again.
THEOREM Invariance == Spec => []Inv
<1>1. Init => Inv
  BY EmptyInv DEF Init
<1>2. Inv /\ [Next]_vars => Inv'
  <2> SUFFICES ASSUME Inv, [Next]_vars PROVE Inv'
    OBVIOUS
  <2>1. ASSUME NEW path \in Ids, GetManifest(path) PROVE Inv'
    <3>1. ServedProofVerifies'
      BY <2>1, NoProof DEF GetManifest, ServedProofVerifies
    <3> QED BY <2>1, <3>1, ReadStep DEF GetManifest
  <2>2. CASE CurrentRoot
    <3>1. ServedProofVerifies'
      BY <2>2 DEF CurrentRoot, ServedProofVerifies
    <3> QED BY <2>2, <3>1, ReadStep DEF CurrentRoot
  <2>3. CASE UNCHANGED vars
    <3>1. ServedProofVerifies'
      BY <2>3 DEF vars, Inv, ServedProofVerifies
    <3> QED BY <2>3, <3>1, ReadStep DEF vars
  <2> QED BY <2>1, <2>2, <2>3, PublishStep, SnapshotStep, ProofStep, RestartStep DEF Next
<1> QED BY <1>1, <1>2, PTL DEF Spec
-----------------------------------------------------------------------------
(* The theorems. *)

\* The Map's keys, its entries and the snapshots keep to their types.
THEOREM TypeCorrect == Spec => []TypeOK
<1>1. Inv => TypeOK
  <2> SUFFICES ASSUME Inv, NEW k \in 1..Len(snapshots)
               PROVE  /\ snapshots[k].total = Len(snapshots[k].leaves)
                      /\ \A l \in ToSet(snapshots[k].leaves) :
                           l[1] = "leaf" /\ \E id \in Hashed : l[2] = Bytes(id)
    BY DEF Inv, MapOK, TypeOK, Hashed
  <2>1. Taken(k) /\ Len(order) \in Nat
    BY SnapshotsFacts, OrderFacts DEF Inv
  <2>2. PICK s : s = snapshots[k]
    OBVIOUS
  <2>3. /\ s.total \in Nat /\ Nodes(s.leaves, s.total)
        /\ \A p \in 1..s.total : order[p] \in Hashed /\ s.leaves[p] = LeafHash(Bytes(order[p]), s.leaves[p][3])
    BY <2>1, <2>2 DEF Taken
  <2>4. Len(s.leaves) = s.total /\ DOMAIN s.leaves = 1..s.total
    BY <2>3, LenIs
  <2>5. \A id, c : LeafHash(id, c)[1] = "leaf" /\ LeafHash(id, c)[2] = id
    BY DEF LeafHash
  <2>6. ASSUME NEW l \in ToSet(s.leaves) PROVE l[1] = "leaf" /\ \E id \in Hashed : l[2] = Bytes(id)
    <3>1. PICK p \in 1..s.total : l = s.leaves[p]
      BY <2>4 DEF ToSet
    <3>2. l = LeafHash(Bytes(order[p]), l[3]) /\ order[p] \in Hashed
      BY <2>3, <3>1
    <3> QED BY <2>5, <3>2
  <2> QED BY <2>2, <2>4, <2>6
<1> QED BY <1>1, Invariance, PTL

\* A proof the registry serves verifies for the manifest asked for and nothing else.
THEOREM ServedProofs == Spec => []ServedProofVerifies
<1>1. Inv => ServedProofVerifies
  BY DEF Inv
<1> QED BY <1>1, Invariance, PTL

\* A manifest has the same position in every snapshot that has it.
THEOREM PositionsStay == Spec => []PositionsNeverMove
<1>1. Inv => PositionsNeverMove
  <2> SUFFICES ASSUME Inv, NEW j \in 1..Len(snapshots), NEW k \in 1..Len(snapshots), j < k
               PROVE  /\ snapshots[j].total <= snapshots[k].total
                      /\ \A p \in 1..snapshots[j].total :
                           snapshots[j].leaves[p][2] = snapshots[k].leaves[p][2]
    BY DEF PositionsNeverMove
  <2>1. /\ j \in DOMAIN snapshots /\ k \in DOMAIN snapshots
        /\ Taken(j) /\ Taken(k) /\ snapshots[j].total <= snapshots[k].total
        /\ Len(order) \in Nat
    BY SnapshotsFacts, OrderFacts DEF Inv
  <2>2. \A id, c : LeafHash(id, c)[2] = id
    BY DEF LeafHash
  <2>3. ASSUME NEW p \in 1..snapshots[j].total
        PROVE  snapshots[j].leaves[p][2] = snapshots[k].leaves[p][2]
    <3>1. p \in 1..snapshots[k].total
      BY <2>1 DEF Taken
    <3>2. /\ snapshots[j].leaves[p] = LeafHash(Bytes(order[p]), snapshots[j].leaves[p][3])
          /\ snapshots[k].leaves[p] = LeafHash(Bytes(order[p]), snapshots[k].leaves[p][3])
      BY <2>1, <3>1 DEF Taken
    <3> QED BY <2>2, <3>2
  <2> QED BY <2>1, <2>3
<1> QED BY <1>1, Invariance, PTL

\* A manifest that is provable stays so until its content changes or the process is
\* started again.
THEOREM ProofsStay == Spec => StaysProvable
<1>1. Inv /\ Inv' /\ [Next]_vars =>
        [\A id \in TextIds :
           /\ Provable(id)
           /\ Published(id)'
           /\ Canonicalize(manifests[id])' = Canonicalize(manifests[id])
           => Provable(id)']_vars
  <2> SUFFICES ASSUME Inv, Inv', Next, NEW id \in TextIds, Provable(id), Published(id)',
                      Canonicalize(manifests[id])' = Canonicalize(manifests[id])
               PROVE  Provable(id)'
    OBVIOUS
  <2>1. PICK k \in DOMAIN snapshots : ManifestLeaf(id, manifests[id]) \in ToSet(snapshots[k].leaves)
    BY ProvableIs DEF Inv
  <2>2. PICK leaf : leaf = ManifestLeaf(id, manifests[id])
    OBVIOUS
  <2>3. ManifestLeaf(id, manifests[id])' = leaf
    BY <2>2 DEF ManifestLeaf
  <2>4. Found(id)'
    BY IdsAssumption DEF Found
  <2>5. k \in DOMAIN snapshots' /\ snapshots'[k] = snapshots[k]
    <3>1. ~Restart
      BY DEF Restart, Published, Ids, KeyIds
    <3>2. UNCHANGED snapshots \/ snapshots' = Append(snapshots, Snapshot)
      BY <3>1 DEF Next, PublishManifest, GetManifest, TakeSnapshot, CurrentRoot, GetMerkleProof
    <3> QED BY <3>2, SnapshotsGrow DEF Inv
  <2> DEFINE I == {i \in 1..Len(snapshots') : leaf \in ToSet(snapshots'[i].leaves)}
  <2>6. SnapshotWithLeaf(leaf)' = IF I # {} THEN Max(I) ELSE 0
    BY DEF SnapshotWithLeaf, SelectLastInSeq
  <2>7. Len(snapshots') \in Nat /\ k \in I
    BY <2>1, <2>2, <2>5 DEF Inv, Kept
  <2>8. Max(I) \in I
    <3> HIDE DEF I
    <3>1. I \subseteq 1..Len(snapshots')
      BY DEF I
    <3> QED BY <2>7, <3>1, MaxIs
  <2>9. SnapshotWithLeaf(leaf)' # 0
    BY <2>6, <2>7, <2>8
  <2> QED BY <2>3, <2>4, <2>9 DEF Provable
<1> QED BY <1>1, Invariance, PTL DEF Spec, StaysProvable
=============================================================================
