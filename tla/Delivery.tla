------------------------------ MODULE Delivery ------------------------------
(***************************************************************************)
(* A proof's way from the device that built it to the ledger that acts on  *)
(* it: registration (axis_core/services/provisioning_service.py), delivery *)
(* bare or in a Trust Envelope, the oracle's verdict and its signed        *)
(* attestation (axis_core/api/oracle.py), what a reader can verify of that *)
(* later, and the calldata made of it (axis_core/adapters/evm.py, scripts).*)
(*                                                                         *)
(* The network loses, delays, repeats, reorders, respells and damages: any *)
(* message of Arrivals may arrive at any time, any number of times.  One   *)
(* process over the memory backend serves them, so a handler is one step;  *)
(* OracleAttest has the interleavings, the policy gates and legacy bodies. *)
(***************************************************************************)
EXTENDS Wire, Sequences, FiniteSets

CONSTANTS
  Keys,           \* the devices' keys
  OracleKey,      \* the oracle's own key
  Nonces,         \* nonces of proofs and registrations
  Manifests,      \* of each key, the manifests its device may name
  Proofs,         \* the proofs devices and clients have built
  Clock,          \* readings of the oracle's clock
  MaxProofAge,    \* MAX_PROOF_AGE_SECONDS
  MaxClockSkew,   \* max_clock_skew_sec
  RoundedDown,    \* the powers whose product with 1000 is a little below its whole watts
  MaxDocs         \* bound: the oracle takes messages until it has stored as many

\* The placeholder of register_device, and a registration that names no manifest.
Placeholder == "manifest:v0-placeholder"
NoManifest == "no manifest"

\* Mutant: the id is too short a hash of the key.
DeviceIdShort(key) == "dev"

\* _generate_device_id: a hash of the key.
DeviceId(key) == <<"dev", key>>

DeviceIds == {DeviceId(k) : k \in Keys}
NoDevice == [key |-> NoKey, manifest |-> NoManifest]

\* A proof as a client builds one: its fields, and a device id that some key has.
WellFormed(p) ==
  /\ p = Proof(p.device, p.nonce, p.ts, p.algo, p.payload, p.signature)
  /\ p.device \in DeviceIds /\ p.ts \in Texts
  /\ p.payload = Payload(p.payload.power, p.payload.rest)
  /\ p.payload.power \in Numbers /\ p.payload.power.halfwatts >= 0

\* p has the signature the SDK or the demo client makes of it.
SignedBy(p, key) ==
  p.signature \in {SignProof(key, p).signature,
                   DemoProof(key, p.device, p.nonce, p.ts, p.payload.power).signature}

ASSUME KeysAssumption == NoKey \notin Keys \cup DeviceIds
ASSUME ProofsAssumption ==
  \A p \in Proofs :
    WellFormed(p) /\ (p.signature = Unsigned \/ \E key \in Keys : SignedBy(p, key))
ASSUME RoundingAssumption ==
  \A halfwatts \in RoundedDown : halfwatts % 2 = 0 /\ halfwatts % 2000 # 0
ASSUME BoundAssumption == MaxDocs \in Nat

VARIABLES
  config,         \* whether mock mode is on, and whether the oracle has a key
  devices,        \* the record stored of each device, or NoDevice
  ledger,         \* the nonces recorded, per device
  attestations    \* the attestations stored, in the order of their ids

vars == <<config, devices, ledger, attestations>>
-----------------------------------------------------------------------------
(* Registration. *)

Registered(device) == devices[device] # NoDevice

\* A registration carries a key, maybe a manifest, and a proof of possession: the
\* SDK signs the key and a nonce it makes of the key, the demo client sends none.
Registration(key, manifest, signature) ==
  [key |-> key, manifest |-> manifest, signature |-> signature]

PossessionProof(signer, key) == Signature(signer, CanonicalRegistration(key, key))

\* register_device: one upsert.  The bootstrap policy it records is the same for
\* every device, see BootstrapPower.
RegisterDevice(r) ==
  /\ \/ config.mock
     \/ VerifySignature(r.key, CanonicalRegistration(r.key, r.key), r.signature)
  /\ devices' = [devices EXCEPT ![DeviceId(r.key)] =
       [key |-> r.key, manifest |-> IF r.manifest = NoManifest THEN Placeholder ELSE r.manifest]]
  /\ UNCHANGED <<config, ledger, attestations>>

\* GET /registry/devices/{id}
DeviceRecord(device) ==
  IF Registered(device)
    THEN [status |-> 200, device |-> device, key |-> devices[device].key,
          lifecycle_state |-> "provisioned", manifest |-> devices[device].manifest]
    ELSE [status |-> 404]
-----------------------------------------------------------------------------
(* The verdict. *)

\* Mutant: a proof is known again by its message, as it is spelled.
KeyAsSpelled(p) == <<p.device, p.nonce, p.payload.power>>

\* has_nonce and record_nonce
Key(p) == <<p.device, p.nonce>>

NoLimit == Number(-1, FALSE)
Decision(reason, max_power, limit) ==
  [allowed |-> reason = "ok", reason |-> reason, max_power |-> max_power, limit |-> limit]
Denied(reason) == Decision(reason, Number(0, TRUE), NoLimit)

OraclePower == Number(10000, TRUE)
MinPower == Number(200, TRUE)

\* The Verifier's three checks.
VerifierVerdict(p) ==
  IF p.algo \notin {"ed25519", "mock"} THEN "unsupported_algo"
  ELSE IF p.algo = "mock" THEN IF config.mock THEN "pass" ELSE "mock_disabled"
  ELSE IF ~Registered(p.device) THEN "device_not_registered"
  ELSE IF VerifySignature(devices[p.device].key, CanonicalProof(p), p.signature) THEN "pass"
  ELSE "signature_invalid"

\* A proof that passes them spends its nonce, whatever is decided then.
Spends(p) == VerifierVerdict(p) = "pass" /\ Key(p) \notin ledger

\* _resolve_decision, its policy gates left at their defaults.
ResolveDecision(p, now) ==
  LET power == p.payload.power
  IN IF VerifierVerdict(p) # "pass" THEN Denied(VerifierVerdict(p))
     ELSE IF Key(p) \in ledger THEN Denied("nonce_replay")
     ELSE IF p.ts.epoch > now + MaxClockSkew THEN Denied("future_timestamp")
     ELSE IF now - p.ts.epoch > MaxProofAge THEN Denied("stale_timestamp")
     ELSE IF power.halfwatts > OraclePower.halfwatts
            THEN Decision("max_power_exceeded", OraclePower, OraclePower)
     ELSE IF p.algo = "mock" /\ power.halfwatts < MinPower.halfwatts
            THEN Decision("below_minimum_power", MinPower, MinPower)
     ELSE Decision("ok", power, NoLimit)

\* Provisioning's own verdict (POST /provisioning/attest), which looks at the power
\* and the bootstrap policy recorded at registration only.
BootstrapPower == Number(7000, TRUE)

\* Mutant: a device's limit is not looked at.
ProvisioningUnlimited(p) ==
  IF ~Registered(p.device) THEN "device_not_registered"
  ELSE IF p.algo = "mock" /\ p.payload.power.halfwatts < MinPower.halfwatts THEN "below_minimum_power"
  ELSE "ok"

AttestDeviceProof(p) ==
  IF ~Registered(p.device) THEN "device_not_registered"
  ELSE IF p.payload.power.halfwatts > BootstrapPower.halfwatts THEN "max_power_exceeded"
  ELSE IF p.algo = "mock" /\ p.payload.power.halfwatts < MinPower.halfwatts THEN "below_minimum_power"
  ELSE "ok"
-----------------------------------------------------------------------------
(* Delivery. *)

Bare(p) == [form |-> "bare", proof |-> p]
Enveloped(e) == [form |-> "envelope", envelope |-> e]

Refused(status) == [status |-> status]

\* Mutant: the timestamp is made of the payload's epoch.
UnwrapByEpoch(e) ==
  IF ~ValidateEnvelope(e) THEN Refused(400)
  ELSE IF e.signature = Unsigned THEN Refused(401)
  ELSE IF ~Registered(e.payload.device) THEN Refused(403)
  ELSE IF ~VerifyEnvelope(e, devices[e.payload.device].key) THEN Refused(401)
  ELSE IF e.header.ts # NoText /\ e.header.ts.epoch # e.payload.epoch THEN Refused(400)
  ELSE [status |-> 200,
        proof |-> Proof(e.payload.device, e.payload.nonce, FromEpoch(e.payload.epoch),
                        "ed25519", e.payload.event, e.payload.signature)]

\* _unwrap_trust_envelope
Unwrap(e) ==
  IF ~ValidateEnvelope(e) THEN Refused(400)
  ELSE IF e.signature = Unsigned THEN Refused(401)
  ELSE IF ~Registered(e.payload.device) THEN Refused(403)
  ELSE IF ~VerifyEnvelope(e, devices[e.payload.device].key) THEN Refused(401)
  ELSE IF e.header.ts # NoText /\ ~EndsInZ(e.header.ts) THEN Refused(400)
  ELSE IF e.header.ts # NoText /\ e.header.ts.epoch # e.payload.epoch THEN Refused(400)
  ELSE [status |-> 200,
        proof |-> Proof(e.payload.device, e.payload.nonce,
                        IF e.header.ts # NoText THEN e.header.ts ELSE FromEpoch(e.payload.epoch),
                        "ed25519", e.payload.event, e.payload.signature)]

\* The proof a message carries, past the envelope and the timestamp's format.
Carried(m) ==
  LET u == IF m.form = "bare" THEN [status |-> 200, proof |-> m.proof] ELSE Unwrap(m.envelope)
  IN IF u.status = 200 /\ ~EndsInZ(u.proof.ts) THEN Refused(400) ELSE u

\* Of the payload, the stored proof keeps the power.
Trimmed(p) == [p EXCEPT !.payload.rest = {}]

\* _sign_or_stub
StubSignature == Signature(NoKey, [kind |-> "mock-oracle-signature"])

SignOrStub(d) ==
  IF config.keyed THEN Signature(OracleKey, CanonicalAttestation(d)) ELSE StubSignature

\* The attestation of p, before its oracle_signature.
Attestation(p, now) ==
  [id |-> Len(attestations) + 1, device |-> p.device, proof |-> Trimmed(p),
   decision |-> ResolveDecision(p, now), issued_at |-> now]

\* POST /oracle/attest.  Without a key and without mock mode the call is answered
\* 503 once the nonce is spent.
Attest(m, now) ==
  /\ Len(attestations) < MaxDocs
  /\ Carried(m).status = 200
  /\ LET p == Carried(m).proof
         d == Attestation(p, now)
     IN /\ ledger' = IF Spends(p) THEN ledger \cup {Key(p)} ELSE ledger
        /\ attestations' = IF config.keyed \/ config.mock
             THEN Append(attestations, [body |-> d, oracle_signature |-> SignOrStub(d)])
             ELSE attestations
  /\ UNCHANGED <<config, devices>>
-----------------------------------------------------------------------------
(* The network. *)

\* A message as it was sent, in other spelling, or with one field damaged.
RespellProof(p) == [p EXCEPT !.payload.power = Respell(@)]

DamagedProofs(p) ==
  {[p EXCEPT !.device = d] : d \in DeviceIds}
  \cup {[p EXCEPT !.nonce = n] : n \in Nonces}
  \cup {[p EXCEPT !.ts = Text(p.ts.epoch + 1, "z")], [p EXCEPT !.payload.power.halfwatts = 2000]}

Envelopes(p) == {WrapEnvelope(p, k, 1) : k \in Keys}

DamagedEnvelopes(e) ==
  {[e EXCEPT !.header.issuer = k] : k \in Keys}
  \cup {[e EXCEPT !.payload.nonce = n] : n \in Nonces}
  \cup { [e EXCEPT !.version = 2], [e EXCEPT !.correlation = 2], [e EXCEPT !.signature = Unsigned],
         [e EXCEPT !.header.entity = NoKey],
         [e EXCEPT !.header.ts.epoch = @ + 1], [e EXCEPT !.payload.event.power.halfwatts = 2000] }

Arrivals ==
  {Bare(p) : p \in UNION {{q, RespellProof(q)} \cup DamagedProofs(q) : q \in Proofs}}
  \cup {Enveloped(e) : e \in UNION {DamagedEnvelopes(f) : f \in UNION {Envelopes(q) : q \in Proofs}}}
  \cup {Enveloped([e EXCEPT !.payload.event.power = Respell(@)]) :
          e \in UNION {Envelopes(q) : q \in Proofs}}

Registrations ==
  UNION {{Registration(k, m, s) : m \in Manifests[k] \cup {NoManifest},
                                  s \in {Unsigned, PossessionProof(j, k)}} : j, k \in Keys}

Init ==
  /\ config \in [mock : BOOLEAN, keyed : BOOLEAN]
  /\ devices = [d \in DeviceIds |-> NoDevice]
  /\ ledger = {}
  /\ attestations = <<>>

Next ==
  \/ \E r \in Registrations : RegisterDevice(r)
  \/ \E m \in Arrivals, now \in Clock : Attest(m, now)

Spec == Init /\ [][Next]_vars
-----------------------------------------------------------------------------
(* What becomes of an attestation. *)

Stored == {attestations[i].body : i \in DOMAIN attestations}

\* How much of keys[offset : offset + limit] there is.
PageLength(limit, offset) ==
  LET rest == Len(attestations) - offset
  IN IF rest < 0 THEN 0 ELSE IF rest < limit THEN rest ELSE limit

\* Mutant: the newest come first.
ListingNewestFirst(limit, offset) ==
  LET n == Len(attestations)
  IN [total |-> n,
      page |-> [i \in 1..PageLength(limit, offset) |-> attestations[n + 1 - offset - i].body.id]]

\* GET /oracle/attestations: the dictionary keeps the order of insertion.
Listing(limit, offset) ==
  [total |-> Len(attestations),
   page |-> [i \in 1..PageLength(limit, offset) |-> attestations[offset + i].body.id]]

\* What POST /oracle/attest answered when it stored d.
Response(d) == [device |-> d.device, id |-> d.id, decision |-> d.decision]

\* The scripts' build_full_attestation_from_oracle_response, at a later time.
FullAttestation(resp, now) ==
  [id |-> resp.id, device |-> resp.device,
   decision |-> [allowed |-> resp.decision.allowed, reason |-> resp.decision.reason,
                 max_power |-> resp.decision.max_power],
   issued_at |-> now]

\* build_full_attestation_deny_from_oracle_response
DenyAttestation(resp, now) ==
  [FullAttestation(resp, now) EXCEPT !.decision.allowed = FALSE,
                                     !.decision.reason = "overridden-to-deny-demo"]

\* int(max_power_kw * 1000) truncates, and the product of floats may fall short of
\* the whole watts it stands for: 1.001 kW are 1000 W.
Watts(power) ==
  IF power.halfwatts \in RoundedDown THEN power.halfwatts \div 2 - 1 ELSE power.halfwatts \div 2

\* Mutant: a decision that is there is an approval.
ParamsOfAnyDecision(d) ==
  [attestation |-> <<"keccak", d.id>>, device |-> <<"keccak", d.device>>,
   allowed |-> TRUE, max_power_w |-> Watts(d.decision.max_power),
   issued_at |-> d.issued_at]

\* build_attestation_params: kilowatts become whole watts, texts become hashes.
BuildAttestationParams(d) ==
  [attestation |-> <<"keccak", d.id>>, device |-> <<"keccak", d.device>>,
   allowed |-> d.decision.allowed, max_power_w |-> Watts(d.decision.max_power),
   issued_at |-> d.issued_at]

\* encode_submit_attestation_calldata, build_calldata: the selector and five words.
Calldata(params) ==
  << "44b67025", params.attestation, params.device,
     IF params.allowed THEN 1 ELSE 0, params.max_power_w, params.issued_at >>

\* An attestation as another program reads it.
RespellAttestation(d) ==
  [d EXCEPT !.proof.payload.power = Respell(@), !.decision.max_power = Respell(@),
            !.decision.limit = Respell(@)]
-----------------------------------------------------------------------------
(* Properties. *)

\* What is granted is what the device signed, field for field: no damage on the
\* way, no other device's key and no conversion between the forms got through
\* (wire/envelope.py:3-6, api/oracle.py:307-318).
GrantedIsSigned ==
  \A d \in Stored :
    d.decision.allowed /\ d.proof.algo = "ed25519" =>
      \E p \in Proofs :
        /\ p.signature = d.proof.signature
        /\ p.signature.key = DeviceRecord(d.device).key
        /\ p.device = d.device /\ p.nonce = d.proof.nonce /\ p.ts = d.proof.ts
        /\ p.payload.power.halfwatts = d.decision.max_power.halfwatts

\* An envelope changes nothing: of a registered device's ed25519 proof with a
\* timestamp, the oracle takes the same proof out of an envelope its device sealed
\* as it takes from a bare body, or refuses both (api/oracle.py:110-156, 189-199).
FormsAgree ==
  \A p \in Proofs, k \in Keys :
    /\ p.algo = "ed25519"
    /\ p.ts # NoText
    /\ DeviceId(k) = p.device
    /\ Registered(p.device)
    => Carried(Bare(p)) = Carried(Enveloped(WrapEnvelope(p, k, 1)))

\* A device's nonce is granted once, in whatever form and spelling its copies
\* arrive.
GrantedOnceInAnyForm ==
  \A i, j \in DOMAIN attestations :
    LET d == attestations[i].body
        e == attestations[j].body
    IN /\ d.decision.allowed /\ e.decision.allowed
       /\ d.device = e.device
       /\ d.proof.nonce = e.proof.nonce
       => i = j

\* Whoever reads a stored attestation can verify the oracle's signature, in their
\* own spelling of its numbers, and, by the key the registry serves, that of the
\* device if it measured nothing else than its power.
AuditVerifies ==
  config.keyed =>
    \A i \in DOMAIN attestations :
      \A d \in {attestations[i].body, RespellAttestation(attestations[i].body)} :
        /\ VerifySignature(OracleKey, CanonicalAttestation(d), attestations[i].oracle_signature)
        /\ /\ d.decision.allowed
           /\ d.proof.algo = "ed25519"
           /\ \E p \in Proofs : p.signature = d.proof.signature /\ p.payload.rest = {}
           => VerifySignature(DeviceRecord(d.device).key, CanonicalProof(d.proof), d.proof.signature)

\* The calldata made of the oracle's answer says what the stored attestation says.
\* It allows only what was allowed, never more than the power the device asked for
\* and at most one watt less; the deny script's allows nothing.
OnChainAgrees ==
  \A d \in Stored, later \in Clock :
    LET onchain == Calldata(BuildAttestationParams(d))
        rebuilt == Calldata(BuildAttestationParams(FullAttestation(Response(d), later)))
        denied == Calldata(BuildAttestationParams(DenyAttestation(Response(d), later)))
    IN /\ SubSeq(rebuilt, 1, 5) = SubSeq(onchain, 1, 5)
       /\ onchain[4] = 1 =>
            /\ d.decision.reason = "ok"
            /\ 2 * onchain[5] \in (d.proof.payload.power.halfwatts - 2)..d.proof.payload.power.halfwatts
       /\ denied[4] = 0

\* A proof that provisioning finds admissible is never refused for its power when
\* it comes to the oracle, whose limit is another (provisioning_service.py:42, 113,
\* api/oracle.py:383).
ProvisioningNeverLaxer ==
  \A p \in Proofs, now \in Clock :
    AttestDeviceProof(p) = "ok" =>
      ResolveDecision(p, now).reason \notin {"max_power_exceeded", "below_minimum_power"}

\* No registration, another device's or a late or repeated one of its own, makes a
\* device's proofs stop verifying.
StillVerifies ==
  [][\A p \in Proofs : VerifierVerdict(p) = "pass" => VerifierVerdict(p)' = "pass"]_vars

\* A reader who pages through the attestations while more are stored is told of each
\* one there was, and of none twice (api/oracle.py:529-551, sdk/client.py:142-145).
PagesAddUp ==
  [][attestations' # attestations =>
       \A limit \in 1..MaxDocs :
         LET told == Listing(limit, 0).page \o Listing(limit, limit)'.page
         IN /\ \A i \in 1..Listing(limit, 0).total :
                 i <= 2 * limit => \E j \in DOMAIN told : told[j] = attestations[i].body.id
            /\ \A i, j \in DOMAIN told : told[i] = told[j] => i = j]_vars

\* "Incoming device proof object that oracle used to make decision": the stored
\* proof of what was granted verifies under its device's key.
StoredProofIsIncoming ==
  \A d \in Stored :
    d.decision.allowed /\ d.proof.algo = "ed25519" =>
      VerifySignature(devices[d.device].key, CanonicalProof(d.proof), d.proof.signature)
=============================================================================
