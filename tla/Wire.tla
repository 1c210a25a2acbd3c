-------------------------------- MODULE Wire --------------------------------
(***************************************************************************)
(* What a device proof looks like on its way to the oracle: the canonical  *)
(* messages that are signed (axis_core/signature_utils.py), the proof as   *)
(* the SDK and the demo client build it (axis_core/sdk/client.py,          *)
(* scripts/axis_client.py), and the Trust Envelope around it               *)
(* (axis_core/wire).  Signatures are ideal: one holds the key that made it *)
(* and the message it was made over, and nobody else can make it.          *)
(***************************************************************************)
EXTENDS Integers

CONSTANTS
  NoKey           \* the key of a signature never made, an identity that is left out

(* A JSON number is a power in kilowatts, counted in half watts, written   *)
(* with or without a fraction: 2.0 and 2 are two spellings of 4000.        *)
Number(halfwatts, float) == [halfwatts |-> halfwatts, float |-> float]
Numbers == [halfwatts : Int, float : BOOLEAN]
Whole(n) == n.halfwatts % 2000 = 0

\* Mutant: every number is signed as it is spelled.
AsSpelled(n) == n

\* _normalize_numbers: a float that is a whole number is an integer.
Normalize(n) == IF Whole(n) THEN [n EXCEPT !.float = FALSE] ELSE n

\* The same number as another JSON library writes it: 2.0 as 2, and back.
Respell(n) == IF Whole(n) THEN [n EXCEPT !.float = ~@] ELSE n

(* A timestamp is the second it lies in and how it is written: with a Z,   *)
(* with a fraction and a Z, with an offset; or it is not there at all.     *)
Text(epoch, form) == [epoch |-> epoch, form |-> form]
Texts == [epoch : Int, form : {"z", "fraction", "offset", "none"}]
NoText == Text(0, "none")
EndsInZ(ts) == ts.form \in {"z", "fraction"}

\* _epoch_to_iso8601_z
FromEpoch(epoch) == Text(epoch, "z")
-----------------------------------------------------------------------------
(* Signatures and what they cover. *)

Signature(key, message) == [key |-> key, over |-> message]
Unsigned == Signature(NoKey, [kind |-> "nothing"])

\* verify_ed25519_signature
VerifySignature(key, message, signature) == signature = Signature(key, message)

(* A proof is [device, nonce, ts, algo, payload, signature].  Its payload    *)
(* is the power asked for and the names of the other things measured.      *)
Payload(power, rest) == [power |-> power, rest |-> rest]

CanonicalPayload(payload) == [payload EXCEPT !.power = Normalize(@)]

\* Mutant: the payload is not among SIGNED_PROOF_FIELDS.
CanonicalHeader(p) ==
  [kind |-> "proof", device |-> p.device, nonce |-> p.nonce, ts |-> p.ts, algo |-> p.algo]

CanonicalProof(p) ==
  [kind |-> "proof", device |-> p.device, nonce |-> p.nonce, ts |-> p.ts, algo |-> p.algo,
   payload |-> CanonicalPayload(p.payload)]

CanonicalRegistration(key, nonce) == [kind |-> "registration", key |-> key, nonce |-> nonce]

\* An envelope's signature covers all of it but itself.
CanonicalEnvelope(e) ==
  [kind |-> "envelope", version |-> e.version, correlation |-> e.correlation,
   header |-> e.header, payload |-> [e.payload EXCEPT !.event = CanonicalPayload(@)]]

\* An attestation's signature covers all of it but itself.
CanonicalAttestation(d) ==
  [kind |-> "attestation", id |-> d.id, device |-> d.device,
   proof |-> [d.proof EXCEPT !.payload = CanonicalPayload(@)],
   decision |-> [d.decision EXCEPT !.max_power = Normalize(@), !.limit = Normalize(@)],
   issued_at |-> d.issued_at]
-----------------------------------------------------------------------------
(* Building a proof. *)

Proof(device, nonce, ts, algo, payload, signature) ==
  [device |-> device, nonce |-> nonce, ts |-> ts, algo |-> algo,
   payload |-> payload, signature |-> signature]

\* sign_proof
SignProof(key, p) == [p EXCEPT !.signature = Signature(key, CanonicalProof(p))]

\* AxisClient.build_proof of the SDK: the timestamp is one of the things measured,
\* and is in the payload as well.
BuildProof(key, device, nonce, ts, power, measured) ==
  SignProof(key,
    Proof(device, nonce, ts, "ed25519",
          Payload(power, measured \cup IF ts = NoText THEN {} ELSE {"timestamp"}), Unsigned))

\* oracle_attest_request of the demo client: nothing but the power is measured, and
\* the message is signed as it is spelled.
DemoProof(key, device, nonce, ts, power) ==
  LET p == Proof(device, nonce, ts, "ed25519", Payload(power, {}), Unsigned)
  IN [p EXCEPT !.signature =
        Signature(key, [CanonicalProof(p) EXCEPT !.payload = p.payload])]
-----------------------------------------------------------------------------
(* The Trust Envelope. *)

SUPPORTED_ENVELOPE_VERSIONS == {1}
MessageType == {"proof", "attestation", "claim"}

\* TrustEnvelope.sign
Seal(key, e) == [e EXCEPT !.signature = Signature(key, CanonicalEnvelope(e))]

\* AxisClient.wrap_envelope: the header keeps the timestamp as it is written, the
\* payload has its second, the algorithm is left out.
WrapEnvelope(p, key, correlation) ==
  Seal(key,
    [version |-> 1, correlation |-> correlation,
     header |-> [type |-> "proof", issuer |-> key, entity |-> p.device, ts |-> p.ts],
     payload |-> [device |-> p.device, event |-> p.payload, epoch |-> p.ts.epoch,
                  nonce |-> p.nonce, signature |-> p.signature],
     signature |-> Unsigned])

\* validate_envelope
ValidateEnvelope(e) ==
  /\ e.version \in SUPPORTED_ENVELOPE_VERSIONS
  /\ e.header.type \in MessageType
  /\ e.header.issuer # NoKey
  /\ e.header.entity # NoKey

\* verify_envelope
VerifyEnvelope(e, key) ==
  /\ ValidateEnvelope(e)
  /\ e.header.issuer = key
  /\ VerifySignature(key, CanonicalEnvelope(e), e.signature)
=============================================================================
