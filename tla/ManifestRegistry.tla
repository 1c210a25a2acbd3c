-------------------------- MODULE ManifestRegistry --------------------------
(***************************************************************************)
(* The Manifest Registry service (oracle/registry/app.js): a Map of signed *)
(* manifests and an array of Merkle snapshots, both in memory.  Express    *)
(* handlers run to completion, so every endpoint is one action; the        *)
(* requests of different clients interleave between them.                  *)
(***************************************************************************)
EXTENDS MerkleTree, SequencesExt, FiniteSets

CONSTANTS
  TextIds,        \* strings of 16 bytes
  NumberIds,      \* JSON numbers of 16 digits
  ArrayIds,       \* JSON arrays whose text has 16 bytes, such as ["manifest-test-01"]:
                  \* the parser makes a new object of each one that is sent
  ArrayBytes,     \* per array: the bytes Buffer.from makes of it, one per element
  OtherIds,       \* ids whose text has any other length
  Values,         \* JSON values manifests describe a device with
  KeyOrders,      \* orders in which a sender may write an object's keys
  Publications,   \* the ids and payloads clients publish
  NoPayload,      \* an id nothing is published under
  MaxSnapshots    \* bound: snapshots taken

\* A payload is an object, or the string that spells out an object's JSON.
Payloads == [value : Values, keys : KeyOrders, quoted : BOOLEAN]
KeyIds == TextIds \cup NumberIds \cup ArrayIds
Ids == KeyIds \cup OtherIds

ASSUME IdsAssumption ==
  /\ TextIds \cap NumberIds = {}
  /\ (TextIds \cup NumberIds) \cap ArrayIds = {}
  /\ KeyIds \cap OtherIds = {}
ASSUME PayloadAssumption ==
  Publications \subseteq Ids \X Payloads /\ NoPayload \notin Payloads
ASSUME BoundAssumption == MaxSnapshots \in Nat

VARIABLES
  order,          \* the Map's keys in insertion order
  manifests,      \* per id: the published payload, or NoPayload
  snapshots,      \* the snapshots taken, oldest first
  answer          \* the answer to the last request

vars == <<order, manifests, snapshots, answer>>
-----------------------------------------------------------------------------
\* canonicalize: the JSON text; a string stands for itself, unquoted.
Canonicalize(payload) == <<"json", payload.value, payload.keys>>

\* What a leaf is hashed over: the bytes of a text, but not those of an array's text.
Bytes(id) == IF id \in ArrayIds THEN ArrayBytes[id] ELSE id

ManifestLeaf(id, payload) == LeafHash(Bytes(id), Canonicalize(payload))

Published(id) == manifests[id] # NoPayload

\* A path segment is a string, which no key that is a number or an array equals.
Found(path) == path \notin NumberIds \cup ArrayIds /\ Published(path)

Snapshot ==
  LET leaves == [i \in 1..Len(order) |-> ManifestLeaf(order[i], manifests[order[i]])]
  IN [root |-> Root(BuildMerkleTree(leaves)), total |-> Len(order), leaves |-> leaves]

\* Mutant: the leaves are not kept, a proof is built of today's manifests.
SnapshotOfToday(leaf) ==
  SelectLastInSeq(snapshots, LAMBDA s : leaf \in ToSet(s.leaves) /\ s = Snapshot)

\* findSnapshotWithLeaf: the latest snapshot with the manifest's leaf, 0 if none.
SnapshotWithLeaf(leaf) == SelectLastInSeq(snapshots, LAMBDA s : leaf \in ToSet(s.leaves))

Answer(op, status) == answer' = [op |-> op, status |-> status]
-----------------------------------------------------------------------------
\* Mutants: a republished manifest moves to the end; it is listed once more.
PublishAtEnd(id, payload, signed) ==
  /\ id \notin OtherIds /\ signed /\ (id \in ArrayIds => ~Published(id))
  /\ Answer("publish", 201)
  /\ order' = Append(SelectSeq(order, LAMBDA i : i # id), id)
  /\ manifests' = [manifests EXCEPT ![id] = payload]
  /\ UNCHANGED snapshots

PublishAgain(id, payload, signed) ==
  /\ id \notin OtherIds /\ signed /\ (id \in ArrayIds => ~Published(id))
  /\ Answer("publish", 201)
  /\ order' = Append(order, id)
  /\ manifests' = [manifests EXCEPT ![id] = payload]
  /\ UNCHANGED snapshots

\* POST /manifests.  The key's length is that of its text, whatever its type; a text
\* or a number that is there keeps its place in the Map, whoever published it, while
\* an array is a key of its own every time it is sent.
PublishManifest(id, payload, signed) ==
  /\ id \in ArrayIds => ~Published(id)
  /\ IF id \in OtherIds \/ ~signed
       THEN /\ Answer("publish", 400)
            /\ UNCHANGED <<order, manifests>>
       ELSE /\ Answer("publish", 201)
            /\ order' = IF Published(id) THEN order ELSE Append(order, id)
            /\ manifests' = [manifests EXCEPT ![id] = payload]
  /\ UNCHANGED snapshots

\* GET /manifests/:id.
GetManifest(path) ==
  /\ IF Found(path)
       THEN answer' = [op |-> "get", status |-> 200, payload |-> manifests[path]]
       ELSE Answer("get", 404)
  /\ UNCHANGED <<order, manifests, snapshots>>

\* POST /merkle/snapshot.  A key that is a number cannot be hashed: the handler
\* throws before it keeps anything, and the client gets 500.  An array can.
TakeSnapshot(authorized) ==
  /\ \/ ~authorized /\ Answer("snapshot", 401) /\ UNCHANGED snapshots
     \/ authorized /\ order = <<>> /\ Answer("snapshot", 400) /\ UNCHANGED snapshots
     \/ /\ authorized
        /\ ToSet(order) \cap NumberIds # {}
        /\ Answer("snapshot", 500)
        /\ UNCHANGED snapshots
     \/ /\ authorized
        /\ order # <<>>
        /\ ToSet(order) \cap NumberIds = {}
        /\ Len(snapshots) < MaxSnapshots
        /\ Answer("snapshot", 201)
        /\ snapshots' = Append(snapshots, Snapshot)
  /\ UNCHANGED <<order, manifests>>

\* GET /merkle/current.
CurrentRoot ==
  /\ snapshots # <<>>
  /\ answer' = [op |-> "current", status |-> 200, root |-> snapshots[Len(snapshots)].root]
  /\ UNCHANGED <<order, manifests, snapshots>>

\* The proof for a leaf of a snapshot, from the tree built anew of its leaves.
ProofFrom(snapshot, leaf) ==
  LET index == SelectInSeq(snapshot.leaves, LAMBDA l : l = leaf) - 1
      tree == BuildMerkleTree(snapshot.leaves)
  IN [root |-> snapshot.root, leaf |-> leaf, position |-> index,
      proof |-> GetProof(tree, index)]

\* GET /merkle/proof/:manifestId.
GetMerkleProof(path) ==
  /\ IF Found(path)
       THEN LET leaf == ManifestLeaf(path, manifests[path])
                k == SnapshotWithLeaf(leaf)
            IN IF k = 0
                 THEN Answer("proof", 404)
                 ELSE answer' = [op |-> "proof", status |-> 200, manifest_id |-> path,
                                 membership |-> ProofFrom(snapshots[k], leaf)]
       ELSE Answer("proof", 404)
  /\ UNCHANGED <<order, manifests, snapshots>>

\* The process is started again: nothing was persisted.
Restart ==
  /\ order' = <<>>
  /\ manifests' = [id \in Ids |-> NoPayload]
  /\ snapshots' = <<>>
  /\ Answer("none", 0)

Init ==
  /\ order = <<>>
  /\ manifests = [id \in Ids |-> NoPayload]
  /\ snapshots = <<>>
  /\ answer = [op |-> "none", status |-> 0]

Next ==
  \/ \E pub \in Publications, signed \in BOOLEAN :
       PublishManifest(pub[1], pub[2], signed)
  \/ \E path \in Ids : GetManifest(path)
  \/ \E authorized \in BOOLEAN : TakeSnapshot(authorized)
  \/ CurrentRoot
  \/ \E path \in Ids : GetMerkleProof(path)
  \/ Restart

Spec == Init /\ [][Next]_vars
-----------------------------------------------------------------------------
(* Properties. *)

\* The latest snapshot proves the manifest that is published under an id now.
Provable(id) == Found(id) /\ SnapshotWithLeaf(ManifestLeaf(id, manifests[id])) # 0

\* The Map's keys, its entries and the snapshots keep to their types.
TypeOK ==
  /\ order \in Seq(KeyIds)
  /\ IsInjective(order)
  /\ manifests \in [Ids -> Payloads \cup {NoPayload}]
  /\ ToSet(order) = {id \in Ids : Published(id)}
  /\ \A k \in 1..Len(snapshots) :
       /\ snapshots[k].total = Len(snapshots[k].leaves)
       /\ \A l \in ToSet(snapshots[k].leaves) :
            l[1] = "leaf" /\ \E id \in TextIds \cup ArrayIds : l[2] = Bytes(id)

\* A proof the registry serves convinces the verifier of the manifest published
\* now, at its place in the snapshot, and of nothing else in any snapshot; where
\* the snapshot behind /merkle/current holds the manifest, on that root.
ServedProofVerifies ==
  (answer.op = "proof" /\ answer.status = 200) =>
    LET m == answer.membership
        last == snapshots[Len(snapshots)]
    IN /\ m.leaf = ManifestLeaf(answer.manifest_id, manifests[answer.manifest_id])
       /\ VerifyMerkleProof(m.leaf, m.proof, m.position, m.root)
       /\ \A k \in 1..Len(snapshots) : \A l \in ToSet(snapshots[k].leaves) \ {m.leaf} :
            ~VerifyMerkleProof(l, m.proof, m.position, m.root)
       /\ m.leaf \in ToSet(last.leaves) => m.root = last.root

\* A manifest keeps its position: a later snapshot has, at every position of an
\* earlier one, the same manifest id, so what was proved of a position stays so.
PositionsNeverMove ==
  \A j, k \in 1..Len(snapshots) : j < k =>
    /\ snapshots[j].total <= snapshots[k].total
    /\ \A p \in 1..snapshots[j].total : snapshots[j].leaves[p][2] = snapshots[k].leaves[p][2]

\* "Proofs stay valid even if manifests are added after this snapshot": only
\* publishing another content under its id, or a restart, ends a manifest's proofs.
StaysProvable ==
  [][\A id \in TextIds :
       /\ Provable(id)
       /\ Published(id)'
       /\ Canonicalize(manifests[id])' = Canonicalize(manifests[id])
       => Provable(id)']_vars

\* The content hash is that of the canonical JSON, keys sorted
\* (oracle/registry/README.md:83-84): a manifest whose value is in a snapshot
\* is provable however its sender ordered the keys.
ProvableByValue ==
  \A id \in TextIds :
    /\ Published(id)
    /\ \E k \in 1..Len(snapshots), keys \in KeyOrders :
         ManifestLeaf(id, [manifests[id] EXCEPT !.keys = keys]) \in ToSet(snapshots[k].leaves)
    => Provable(id)
=============================================================================
