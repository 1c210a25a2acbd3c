----------------------------- MODULE MCDelivery -----------------------------
(***************************************************************************)
(* A small instance of Delivery: the proofs two devices have built, on     *)
(* both sides of the power limits, in both spellings, with every kind of   *)
(* timestamp.                                                              *)
(***************************************************************************)
EXTENDS Delivery

CONSTANTS k1, k2

\* The first device may change its manifest.
NamedManifests == [k \in Keys |-> IF k = k1 THEN {"m1"} ELSE {}]

Stamp == Text(10, "z")

BuiltProofs ==
  { \* one reading, and the same nonce in a second reading with a finer clock,
    \* whose 4.007 kW become 4006 W
    BuildProof(k1, DeviceId(k1), "n1", Stamp, Number(4000, TRUE), {}),
    BuildProof(k1, DeviceId(k1), "n1", Text(10, "fraction"), Number(8014, TRUE), {"sterility"}),
    \* above the oracle's limit; with an offset; without a timestamp
    BuildProof(k2, DeviceId(k2), "n2", Stamp, Number(10001, TRUE), {}),
    BuildProof(k1, DeviceId(k1), "n2", Text(10, "offset"), Number(4000, FALSE), {}),
    BuildProof(k1, DeviceId(k1), "n2", NoText, Number(4000, FALSE), {}),
    \* of the demo client
    DemoProof(k1, DeviceId(k1), "n2", Stamp, Number(6000, FALSE)),
    \* of the dev-only algorithm
    Proof(DeviceId(k2), "n1", Stamp, "mock", Payload(Number(0, TRUE), {}), Unsigned) }
=============================================================================
