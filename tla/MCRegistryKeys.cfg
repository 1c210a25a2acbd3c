\* One manifest, its keys written in either order.
CONSTANTS
  TextIds = {a}
  NumberIds = {}
  ArrayIds = {}
  ArrayBytes <- OwnBytes
  OtherIds = {}
  Values = {v1}
  KeyOrders = {asc, desc}
  Publications <- ReorderedManifest
  NoPayload = NoPayload
  MaxSnapshots = 2
  a = a
  v1 = v1
  v2 = v2
  asc = asc
SPECIFICATION Spec
INVARIANTS
  ProvableByValue
