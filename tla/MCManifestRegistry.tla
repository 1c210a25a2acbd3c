------------------------- MODULE MCManifestRegistry -------------------------
(***************************************************************************)
(* Small instances of ManifestRegistry: what clients publish in each run.  *)
(***************************************************************************)
EXTENDS ManifestRegistry, TLC

CONSTANTS a, v1, v2, asc

\* Every array has bytes of its own, one per element.
OwnBytes == [x \in ArrayIds |-> <<"bytes", x>>]

Object(v) == [value |-> v, keys |-> asc, quoted |-> FALSE]

\* One manifest changes its content, back and forth, as an object or as the
\* object's text; the other ids are published once and grow the tree.
ChangingManifest ==
  ({a} \X {Object(v1), Object(v2), [Object(v1) EXCEPT !.quoted = TRUE]})
  \cup ((Ids \ {a}) \X {Object(v1)})

\* Every manifest as an object, its keys in any order.
ReorderedManifest == Ids \X {payload \in Payloads : ~payload.quoted}

\* The texts published once are interchangeable, and so are the arrays.
IdSymmetry == Permutations(TextIds \ {a}) \cup Permutations(ArrayIds)
=============================================================================
