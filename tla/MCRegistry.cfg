\* Two texts and three arrays give trees of every shape up to height 3, beside a
\* number and a short text; two snapshots, one may be outdated.
CONSTANTS
  TextIds = {a, b}
  NumberIds = {n}
  ArrayIds = {x, y, z}
  ArrayBytes <- OwnBytes
  OtherIds = {short}
  Values = {v1, v2}
  KeyOrders = {asc}
  Publications <- ChangingManifest
  NoPayload = NoPayload
  MaxSnapshots = 2
  a = a
  v1 = v1
  v2 = v2
  asc = asc
SPECIFICATION Spec
INVARIANTS
  TypeOK
  ServedProofVerifies
  PositionsNeverMove
PROPERTIES
  StaysProvable
SYMMETRY IdSymmetry
