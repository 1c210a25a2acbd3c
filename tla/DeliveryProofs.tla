--------------------------- MODULE DeliveryProofs ---------------------------
(***************************************************************************)
(* The properties of Delivery, proved for any keys, nonces, manifests,     *)
(* proofs built, clock and windows, and any number of attestations.        *)
(***************************************************************************)
EXTENDS Delivery, SequenceTheorems, TLAPS

(* Numbers and messages. *)

LEMMA NumberFacts ==
  ASSUME NEW n \in Numbers
  PROVE  /\ Normalize(n) \in Numbers /\ Normalize(n).halfwatts = n.halfwatts
         /\ Respell(n) \in Numbers /\ Respell(n).halfwatts = n.halfwatts
         /\ Normalize(Respell(n)) = Normalize(n)
<1>1. Respell(n).halfwatts = n.halfwatts
  BY DEF Numbers, Respell
<1>2. Whole(Respell(n)) = Whole(n)
  BY <1>1 DEF Whole
<1> QED BY <1>1, <1>2 DEF Numbers, Normalize, Respell

\* A signature over a well-formed proof's message says what the proof says, up to
\* the spelling of its power.
LEMMA MessageTells ==
  ASSUME NEW p, NEW q, WellFormed(p), WellFormed(q), NEW j, NEW k,
         SignedBy(p, j), p.signature = Signature(k, CanonicalProof(q))
  PROVE  /\ j = k
         /\ p.device = q.device /\ p.nonce = q.nonce /\ p.ts = q.ts
         /\ p.payload.power.halfwatts = q.payload.power.halfwatts
         /\ q.payload.rest \in {p.payload.rest, {}}
<1>1. /\ CanonicalProof(p) = [kind |-> "proof", device |-> p.device, nonce |-> p.nonce, ts |-> p.ts,
                              algo |-> p.algo, payload |-> CanonicalPayload(p.payload)]
      /\ CanonicalPayload(p.payload) = [power |-> Normalize(p.payload.power), rest |-> p.payload.rest]
      /\ CanonicalPayload(q.payload) = [power |-> Normalize(q.payload.power), rest |-> q.payload.rest]
  BY DEF CanonicalProof, CanonicalPayload, WellFormed, Payload
<1>2. CASE p.signature = SignProof(j, p).signature
  <2>1. p.signature = Signature(j, CanonicalProof(p))
    BY <1>2 DEF SignProof, WellFormed, Proof
  <2>2. j = k /\ CanonicalProof(p) = CanonicalProof(q)
    BY <2>1 DEF Signature
  <2> QED BY <1>1, <2>2, NumberFacts DEF CanonicalProof, WellFormed
<1>3. CASE p.signature = DemoProof(j, p.device, p.nonce, p.ts, p.payload.power).signature
  <2> DEFINE d == Proof(p.device, p.nonce, p.ts, "ed25519", Payload(p.payload.power, {}), Unsigned)
  <2>1. p.signature = Signature(j, [CanonicalProof(d) EXCEPT !.payload = d.payload])
    BY <1>3 DEF DemoProof, Proof
  <2>2. j = k /\ [CanonicalProof(d) EXCEPT !.payload = d.payload] = CanonicalProof(q)
    BY <2>1 DEF Signature
  <2> QED BY <1>1, <2>2, NumberFacts DEF CanonicalProof, WellFormed, Proof, Payload
<1> QED BY <1>2, <1>3 DEF SignedBy
-----------------------------------------------------------------------------
(* The inductive invariant. *)

\* A device's record has the key its id is the hash of.
KeysKept ==
  /\ devices = [d \in DeviceIds |-> devices[d]]
  /\ \A k \in Keys : Registered(DeviceId(k)) => devices[DeviceId(k)].key = k

Log == attestations \in Seq({attestations[i] : i \in DOMAIN attestations})

\* A registered device signed the proof in d, whatever else it had measured.
Vouched(d) ==
  \E p \in Proofs, k \in Keys : \E rest \in {p.payload.rest, {}} :
    /\ SignedBy(p, k)
    /\ d.device = DeviceId(k) /\ Registered(d.device)
    /\ d.proof.signature = p.signature
    /\ p.signature = Signature(k, CanonicalProof([d.proof EXCEPT !.payload.rest = rest]))

\* What the oracle stored at place i: a document of its own making about one proof;
\* if granted, the proof's nonce is spent and its device stands behind it.
Documented(i) ==
  LET d == attestations[i].body
  IN /\ d = [id |-> i, device |-> d.proof.device, proof |-> Trimmed(d.proof),
             decision |-> Decision(d.decision.reason, d.decision.max_power, d.decision.limit),
             issued_at |-> d.issued_at]
     /\ WellFormed(d.proof)
     /\ d.decision.max_power \in Numbers /\ d.decision.limit \in Numbers
     /\ config.keyed =>
          attestations[i].oracle_signature = Signature(OracleKey, CanonicalAttestation(d))
     /\ d.decision.allowed =>
          /\ Key(d.proof) \in ledger
          /\ d.decision.max_power = d.proof.payload.power
          /\ d.proof.algo = "ed25519" => Vouched(d)

Inv ==
  /\ KeysKept
  /\ Log
  /\ \A i \in DOMAIN attestations : Documented(i)
  /\ GrantedOnceInAnyForm
-----------------------------------------------------------------------------
(* What the network delivers. *)

\* A copy of a proof, damaged or not, has the signature of the proof.
LEMMA BareCopies ==
  ASSUME NEW p, WellFormed(p), NEW q \in {p, RespellProof(p)} \cup DamagedProofs(p)
  PROVE  WellFormed(q) /\ q.signature = p.signature
<1>1. CASE q = RespellProof(p)
  BY <1>1, NumberFacts DEF RespellProof, WellFormed, Proof, Payload
<1>2. ASSUME NEW d \in DeviceIds, q = [p EXCEPT !.device = d]
      PROVE  WellFormed(q) /\ q.signature = p.signature
  BY <1>2 DEF WellFormed, Proof, Payload
<1>3. ASSUME NEW n \in Nonces, q = [p EXCEPT !.nonce = n]
      PROVE  WellFormed(q) /\ q.signature = p.signature
  BY <1>3 DEF WellFormed, Proof, Payload
<1>4. CASE q = [p EXCEPT !.ts = Text(p.ts.epoch + 1, "z")]
  BY <1>4 DEF WellFormed, Proof, Payload, Text, Texts
<1>5. CASE q = [p EXCEPT !.payload.power.halfwatts = 2000]
  BY <1>5 DEF WellFormed, Proof, Payload, Numbers
<1> QED BY <1>1, <1>2, <1>3, <1>4, <1>5 DEF DamagedProofs

\* An envelope with a copy of p in it.
Carries(e, p) ==
  /\ e.payload.device = p.device /\ e.payload.signature = p.signature
  /\ e.payload.epoch \in Int /\ e.header.ts \in Texts
  /\ e.payload.event = Payload(e.payload.event.power, e.payload.event.rest)
  /\ e.payload.event.power \in Numbers /\ e.payload.event.power.halfwatts >= 0

LEMMA EnvelopeCopies ==
  ASSUME NEW p, WellFormed(p), NEW k, NEW f, f = WrapEnvelope(p, k, 1),
         NEW e \in DamagedEnvelopes(f) \cup {[f EXCEPT !.payload.event.power = Respell(@)]}
  PROVE  Carries(e, p)
<1>1. \E s : f = [version |-> 1, correlation |-> 1,
                  header |-> [type |-> "proof", issuer |-> k, entity |-> p.device, ts |-> p.ts],
                  payload |-> [device |-> p.device, event |-> p.payload, epoch |-> p.ts.epoch,
                               nonce |-> p.nonce, signature |-> p.signature],
                  signature |-> s]
  BY DEF WrapEnvelope, Seal
<1>2. p.ts \in Texts /\ p.ts.epoch \in Int
  BY DEF WellFormed, Texts
<1>3. /\ p.payload = Payload(p.payload.power, p.payload.rest)
      /\ p.payload.power \in Numbers /\ p.payload.power.halfwatts >= 0
  BY DEF WellFormed
<1>4. CASE e = [f EXCEPT !.header.ts.epoch = @ + 1]
  BY <1>1, <1>2, <1>3, <1>4 DEF Carries, Texts
<1>5. CASE e = [f EXCEPT !.payload.event.power.halfwatts = 2000]
  <2>1. e.payload.event = Payload([p.payload.power EXCEPT !.halfwatts = 2000], p.payload.rest)
    <3>1. e.payload.event = [f.payload.event EXCEPT !.power.halfwatts = 2000]
      BY <1>1, <1>5
    <3>2. f.payload.event = Payload(p.payload.power, p.payload.rest)
      BY <1>1, <1>3
    <3> QED BY <3>1, <3>2 DEF Payload
  <2>2. [p.payload.power EXCEPT !.halfwatts = 2000] \in Numbers
    BY <1>3 DEF Numbers
  <2>3. [p.payload.power EXCEPT !.halfwatts = 2000].halfwatts = 2000
    BY <1>3 DEF Numbers
  <2>4. /\ e.payload.device = p.device /\ e.payload.signature = p.signature
        /\ e.payload.epoch \in Int /\ e.header.ts \in Texts
    BY <1>1, <1>2, <1>5
  <2>5. /\ e.payload.event.power = [p.payload.power EXCEPT !.halfwatts = 2000]
        /\ e.payload.event = Payload(e.payload.event.power, e.payload.event.rest)
    BY <2>1 DEF Payload
  <2> QED BY <2>2, <2>3, <2>4, <2>5 DEF Carries
<1>6. CASE e = [f EXCEPT !.payload.event.power = Respell(@)]
  <2>1. e.payload.event = Payload(Respell(p.payload.power), p.payload.rest)
    <3>1. e.payload.event = [f.payload.event EXCEPT !.power = Respell(@)]
      BY <1>1, <1>6
    <3>2. f.payload.event = Payload(p.payload.power, p.payload.rest)
      BY <1>1, <1>3
    <3> QED BY <3>1, <3>2 DEF Payload
  <2>2. /\ Respell(p.payload.power) \in Numbers
        /\ Respell(p.payload.power).halfwatts = p.payload.power.halfwatts
    BY <1>3, NumberFacts
  <2>3. /\ e.payload.device = p.device /\ e.payload.signature = p.signature
        /\ e.payload.epoch \in Int /\ e.header.ts \in Texts
    BY <1>1, <1>2, <1>6
  <2>4. /\ e.payload.event.power = Respell(p.payload.power)
        /\ e.payload.event = Payload(e.payload.event.power, e.payload.event.rest)
    BY <2>1 DEF Payload
  <2> QED BY <1>3, <2>2, <2>3, <2>4 DEF Carries
<1>7. CASE \/ \E j \in Keys : e = [f EXCEPT !.header.issuer = j]
           \/ \E n \in Nonces : e = [f EXCEPT !.payload.nonce = n]
           \/ e = [f EXCEPT !.version = 2]
           \/ e = [f EXCEPT !.correlation = 2]
           \/ e = [f EXCEPT !.signature = Unsigned]
           \/ e = [f EXCEPT !.header.entity = NoKey]
  BY <1>1, <1>2, <1>3, <1>7 DEF Carries
<1> QED BY <1>4, <1>5, <1>6, <1>7 DEF DamagedEnvelopes

\* Whatever form it arrives in, a proof that gets as far as the verdict is
\* well-formed and has the signature of one that was built.
LEMMA CarriedFrom ==
  ASSUME NEW m \in Arrivals, Carried(m).status = 200
  PROVE  /\ WellFormed(Carried(m).proof)
         /\ \E p \in Proofs : Carried(m).proof.signature = p.signature
<1>1. ASSUME NEW p \in Proofs, NEW q \in {p, RespellProof(p)} \cup DamagedProofs(p), m = Bare(q)
      PROVE  /\ WellFormed(Carried(m).proof)
             /\ \E r \in Proofs : Carried(m).proof.signature = r.signature
  <2>1. Carried(m).proof = q
    BY <1>1 DEF Carried, Bare, Refused
  <2> QED BY <1>1, <2>1, BareCopies, ProofsAssumption
<1>2. ASSUME NEW p \in Proofs, NEW e, Carries(e, p), m = Enveloped(e)
      PROVE  /\ WellFormed(Carried(m).proof)
             /\ \E r \in Proofs : Carried(m).proof.signature = r.signature
  <2>1. Carried(m) = Unwrap(e) /\ Unwrap(e).status = 200
    BY <1>2 DEF Carried, Enveloped, Refused
  <2>2. Unwrap(e) = [status |-> 200,
                     proof |-> Proof(e.payload.device, e.payload.nonce,
                                     IF e.header.ts # NoText THEN e.header.ts
                                     ELSE FromEpoch(e.payload.epoch),
                                     "ed25519", e.payload.event, e.payload.signature)]
    BY <2>1 DEF Unwrap, Refused
  <2>3. p.device \in DeviceIds
    BY ProofsAssumption DEF WellFormed
  <2> QED BY <1>2, <2>1, <2>2, <2>3 DEF WellFormed, Proof, Carries, FromEpoch, Text, Texts
<1>3. CASE m \in {Bare(q) : q \in UNION {{p, RespellProof(p)} \cup DamagedProofs(p) : p \in Proofs}}
  BY <1>1, <1>3
<1>4. ASSUME NEW p \in Proofs, NEW k \in Keys,
             NEW e \in DamagedEnvelopes(WrapEnvelope(p, k, 1))
                     \cup {[WrapEnvelope(p, k, 1) EXCEPT !.payload.event.power = Respell(@)]}
      PROVE  Carries(e, p)
  <2>1. WellFormed(p)
    BY ProofsAssumption
  <2> QED BY <2>1, EnvelopeCopies
<1>5. CASE m \in {Enveloped(e) : e \in UNION {DamagedEnvelopes(f) :
                    f \in UNION {Envelopes(q) : q \in Proofs}}}
  BY <1>2, <1>4, <1>5 DEF Envelopes
<1>6. CASE m \in {Enveloped([e EXCEPT !.payload.event.power = Respell(@)]) :
                    e \in UNION {Envelopes(q) : q \in Proofs}}
  <2>1. PICK e \in UNION {Envelopes(q) : q \in Proofs} :
          m = Enveloped([e EXCEPT !.payload.event.power = Respell(@)])
    BY <1>6, Zenon
  <2>2. PICK p \in Proofs, k \in Keys : e = WrapEnvelope(p, k, 1)
    BY <2>1 DEF Envelopes
  <2> QED BY <1>2, <1>4, <2>1, <2>2
<1> QED BY <1>3, <1>5, <1>6 DEF Arrivals
-----------------------------------------------------------------------------
(* Registration. *)

\* A registration leaves every other record alone, and its own with its key.
LEMMA RegisterKeeps ==
  ASSUME Inv, NEW r \in Registrations, RegisterDevice(r)
  PROVE  /\ KeysKept'
         /\ \A d \in DeviceIds : Registered(d) => Registered(d)'
         /\ UNCHANGED <<config, ledger, attestations>>
<1> DEFINE m == IF r.manifest = NoManifest THEN Placeholder ELSE r.manifest
           new == [key |-> r.key, manifest |-> m]
<1>1. r.key \in Keys
  BY DEF Registrations, Registration
<1>2. /\ devices' = [devices EXCEPT ![DeviceId(r.key)] = new]
      /\ UNCHANGED <<config, ledger, attestations>>
  BY DEF RegisterDevice
<1>3. new # NoDevice
  BY <1>1, KeysAssumption DEF NoDevice
<1>4. devices = [d \in DeviceIds |-> devices[d]]
  BY DEF Inv, KeysKept
<1>5. DOMAIN devices = DeviceIds
  BY <1>4, Zenon
<1>6. ASSUME NEW d \in DeviceIds
      PROVE  devices'[d] = IF d = DeviceId(r.key) THEN new ELSE devices[d]
  BY <1>2, <1>5
<1>7. devices' = [d \in DeviceIds |-> devices'[d]]
  BY <1>2, <1>5
<1>8. \A d \in DeviceIds : Registered(d) => Registered(d)'
  BY <1>3, <1>6 DEF Registered
<1>9. ASSUME NEW k \in Keys, Registered(DeviceId(k))'
      PROVE  devices'[DeviceId(k)].key = k
  <2>1. DeviceId(k) \in DeviceIds
    BY DEF DeviceIds
  <2>2. CASE k = r.key
    BY <1>6, <2>1, <2>2
  <2>3. CASE k # r.key
    <3>1. devices'[DeviceId(k)] = devices[DeviceId(k)]
      BY <1>6, <2>1, <2>3 DEF DeviceId
    <3> QED BY <1>9, <3>1 DEF Inv, KeysKept, Registered
  <2> QED BY <2>2, <2>3
<1> QED BY <1>2, <1>7, <1>8, <1>9 DEF KeysKept

\* The Verifier's verdict on a proof of a known device, in terms of its key.
LEMMA PassedIsSigned ==
  ASSUME KeysKept, NEW q, WellFormed(q), VerifierVerdict(q) = "pass", q.algo = "ed25519"
  PROVE  \E k \in Keys : /\ q.device = DeviceId(k) /\ Registered(q.device)
                         /\ q.signature = Signature(k, CanonicalProof(q))
<1>1. PICK k \in Keys : q.device = DeviceId(k)
  BY DEF WellFormed, DeviceIds
<1>2. Registered(q.device) /\ VerifySignature(devices[q.device].key, CanonicalProof(q), q.signature)
  BY DEF VerifierVerdict
<1> QED BY <1>1, <1>2 DEF KeysKept, VerifySignature

-----------------------------------------------------------------------------
(* The log of attestations. *)

LEMMA LogFacts ==
  ASSUME Log
  PROVE  Len(attestations) \in Nat /\ DOMAIN attestations = 1..Len(attestations)
BY DEF Log

LEMMA LogGrows ==
  ASSUME Log, NEW a, attestations' = Append(attestations, a)
  PROVE  /\ Log'
         /\ Len(attestations)' = Len(attestations) + 1
         /\ \A i \in DOMAIN attestations : i \in DOMAIN attestations' /\ attestations'[i] = attestations[i]
         /\ \A i \in DOMAIN attestations' : i \in DOMAIN attestations \/ i = Len(attestations) + 1
         /\ attestations'[Len(attestations) + 1] = a
<1> DEFINE S == {attestations[i] : i \in DOMAIN attestations}
           n == Len(attestations)
<1>1. attestations \in Seq(S \cup {a}) /\ n \in Nat /\ DOMAIN attestations = 1..n
  BY DEF Log
<1>2. /\ attestations' \in Seq(S \cup {a}) /\ Len(attestations') = n + 1
      /\ DOMAIN attestations' = 1..(n + 1)
      /\ \A i \in 1..n : attestations'[i] = attestations[i]
      /\ attestations'[n + 1] = a
  BY <1>1
<1>3. S \cup {a} = {attestations'[i] : i \in DOMAIN attestations'}
  BY <1>1, <1>2
<1> QED BY <1>1, <1>2, <1>3 DEF Log
-----------------------------------------------------------------------------
(* The invariant is inductive. *)

\* The verdict has the form the attestation needs; a grant passed the Verifier.
LEMMA VerdictForm ==
  ASSUME NEW p, WellFormed(p), NEW now
  PROVE  LET d == ResolveDecision(p, now)
         IN /\ d = Decision(d.reason, d.max_power, d.limit)
            /\ d.max_power \in Numbers /\ d.limit \in Numbers
            /\ d.allowed => Spends(p) /\ d.max_power = p.payload.power
<1> DEFINE v == VerifierVerdict(p)
<1>1. v \in {"pass", "unsupported_algo", "mock_disabled", "device_not_registered", "signature_invalid"}
  BY DEF VerifierVerdict
<1>2. p.payload.power \in Numbers
  BY DEF WellFormed
<1>3. /\ Number(0, TRUE) \in Numbers /\ NoLimit \in Numbers
      /\ OraclePower \in Numbers /\ MinPower \in Numbers
  BY DEF Number, Numbers, NoLimit, OraclePower, MinPower
<1>4. CASE v # "pass"
  BY <1>1, <1>3, <1>4 DEF ResolveDecision, Denied, Decision
<1>5. CASE v = "pass"
  BY <1>2, <1>3, <1>5 DEF ResolveDecision, Denied, Decision, Spends
<1> QED BY <1>4, <1>5

LEMMA TrimmedFacts ==
  ASSUME NEW p, WellFormed(p)
  PROVE  /\ WellFormed(Trimmed(p)) /\ Trimmed(Trimmed(p)) = Trimmed(p)
         /\ Key(Trimmed(p)) = Key(p) /\ Trimmed(p).payload.power = p.payload.power
         /\ Trimmed(p).device = p.device /\ Trimmed(p).algo = p.algo
         /\ Trimmed(p).signature = p.signature
         /\ [Trimmed(p) EXCEPT !.payload.rest = p.payload.rest] = p
<1>1. p.payload = [power |-> p.payload.power, rest |-> p.payload.rest]
  BY DEF WellFormed, Payload
<1>2. p = [device |-> p.device, nonce |-> p.nonce, ts |-> p.ts, algo |-> p.algo,
           payload |-> p.payload, signature |-> p.signature]
  BY DEF WellFormed, Proof
<1>3. Trimmed(p) = [device |-> p.device, nonce |-> p.nonce, ts |-> p.ts, algo |-> p.algo,
                    payload |-> [power |-> p.payload.power, rest |-> {}],
                    signature |-> p.signature]
  BY <1>1, <1>2 DEF Trimmed
<1>4. Trimmed(Trimmed(p)) = Trimmed(p)
  BY <1>3 DEF Trimmed
<1>5. [Trimmed(p) EXCEPT !.payload.rest = p.payload.rest] = p
  BY <1>1, <1>2, <1>3
<1>6. WellFormed(Trimmed(p))
  BY <1>3 DEF WellFormed, Proof, Payload
<1> QED BY <1>3, <1>4, <1>5, <1>6 DEF Key

\* A passed proof with a built proof's signature is vouched for by its device.
LEMMA PassedIsVouched ==
  ASSUME KeysKept, NEW q, WellFormed(q), VerifierVerdict(q) = "pass", q.algo = "ed25519",
         NEW p \in Proofs, q.signature = p.signature,
         NEW d, d.device = q.device, d.proof = Trimmed(q)
  PROVE  Vouched(d)
<1>1. PICK k \in Keys : /\ q.device = DeviceId(k) /\ Registered(q.device)
                        /\ q.signature = Signature(k, CanonicalProof(q))
  BY PassedIsSigned
<1>2. p.signature # Unsigned
  BY <1>1, KeysAssumption DEF Signature, Unsigned
<1>3. PICK j \in Keys : SignedBy(p, j)
  BY <1>2, ProofsAssumption
<1>4. WellFormed(p)
  BY ProofsAssumption
<1>5. j = k /\ q.payload.rest \in {p.payload.rest, {}}
  <2>1. p.signature = Signature(k, CanonicalProof(q))
    BY <1>1
  <2> QED BY <1>3, <1>4, <2>1, MessageTells
<1>6. d.proof.signature = p.signature /\ [d.proof EXCEPT !.payload.rest = q.payload.rest] = q
  BY TrimmedFacts
<1>7. PICK rest \in {p.payload.rest, {}} : rest = q.payload.rest
  BY <1>5
<1>8. p.signature = Signature(k, CanonicalProof([d.proof EXCEPT !.payload.rest = rest]))
  BY <1>1, <1>6, <1>7
<1>9. SignedBy(p, k) /\ d.device = DeviceId(k) /\ Registered(d.device)
  BY <1>1, <1>3, <1>5
<1> QED BY <1>6, <1>8, <1>9 DEF Vouched

\* What was documented stays so while records are kept and nonces stay spent.
LEMMA DocumentedStays ==
  ASSUME NEW i, Documented(i), attestations'[i] = attestations[i],
         UNCHANGED config, ledger \subseteq ledger',
         \A d \in DeviceIds : Registered(d) => Registered(d)'
  PROVE  Documented(i)'
<1> DEFINE d == attestations[i].body
<1>1. ASSUME Vouched(d) PROVE Vouched(d)'
  <2>1. \A k \in Keys : DeviceId(k) \in DeviceIds
    BY DEF DeviceIds
  <2>2. PICK p \in Proofs, k \in Keys : \E rest \in {p.payload.rest, {}} :
          /\ SignedBy(p, k)
          /\ d.device = DeviceId(k) /\ Registered(d.device)
          /\ d.proof.signature = p.signature
          /\ p.signature = Signature(k, CanonicalProof([d.proof EXCEPT !.payload.rest = rest]))
    BY <1>1 DEF Vouched
  <2>3. Registered(d.device)'
    BY <2>1, <2>2
  <2> QED BY <2>2, <2>3 DEF Vouched
<1> QED BY <1>1 DEF Documented

LEMMA InitInv == Init => Inv
<1> SUFFICES ASSUME Init PROVE Inv
  OBVIOUS
<1>1. \A k \in Keys : DeviceId(k) \in DeviceIds
  BY DEF DeviceIds
<1>2. \A k \in Keys : ~Registered(DeviceId(k))
  BY <1>1 DEF Init, Registered
<1>3. attestations = <<>>
  BY DEF Init
<1> QED BY <1>2, <1>3 DEF Init, Inv, KeysKept, Log, GrantedOnceInAnyForm

LEMMA RegisterInv ==
  ASSUME Inv, NEW r \in Registrations, RegisterDevice(r)
  PROVE  Inv'
<1>1. /\ KeysKept'
      /\ \A d \in DeviceIds : Registered(d) => Registered(d)'
      /\ UNCHANGED <<config, ledger, attestations>>
  BY RegisterKeeps
<1>2. Log' /\ GrantedOnceInAnyForm'
  BY <1>1 DEF Inv, Log, GrantedOnceInAnyForm
<1>3. ASSUME NEW i \in DOMAIN attestations PROVE Documented(i)'
  BY <1>1, DocumentedStays DEF Inv
<1> QED BY <1>1, <1>2, <1>3 DEF Inv

LEMMA AttestInv ==
  ASSUME Inv, NEW m \in Arrivals, NEW now \in Clock, Attest(m, now)
  PROVE  Inv'
<1> SUFFICES ASSUME NEW p, p = Carried(m).proof,
                    NEW n, n = Len(attestations) + 1,
                    NEW d, d = Attestation(p, now),
                    NEW signature, signature = SignOrStub(d),
                    NEW entry, entry = [body |-> d, oracle_signature |-> signature]
             PROVE  Inv'
  OBVIOUS
<1>1. UNCHANGED <<config, devices>> /\ KeysKept'
  BY DEF Attest, Inv, KeysKept, Registered
<1>2. ledger' = IF Spends(p) THEN ledger \cup {Key(p)} ELSE ledger
  BY DEF Attest
<1>3. \A e \in DeviceIds : Registered(e) => Registered(e)'
  BY <1>1 DEF Registered
<1>4. ASSUME NEW i \in DOMAIN attestations, attestations'[i] = attestations[i]
      PROVE  Documented(i)'
  BY <1>1, <1>2, <1>3, <1>4, DocumentedStays DEF Inv
<1>5. CASE UNCHANGED attestations
  BY <1>1, <1>4, <1>5 DEF Inv, Log, GrantedOnceInAnyForm
<1>6. CASE attestations' = Append(attestations, entry)
  <2>1. /\ Log' /\ n \in Nat
        /\ \A i \in DOMAIN attestations : i \in DOMAIN attestations' /\ attestations'[i] = attestations[i]
        /\ \A i \in DOMAIN attestations' : i \in DOMAIN attestations \/ i = n
        /\ attestations'[n] = entry
    BY <1>6, LogGrows, LogFacts DEF Inv
  <2>2. WellFormed(p) /\ \E q \in Proofs : p.signature = q.signature
    BY CarriedFrom DEF Attest
  <2>3. /\ d.id = n /\ d.device = p.device /\ d.proof = Trimmed(p)
        /\ d.decision = ResolveDecision(p, now) /\ d.issued_at = now
        /\ d = [id |-> n, device |-> p.device, proof |-> Trimmed(p),
                decision |-> ResolveDecision(p, now), issued_at |-> now]
    BY DEF Attestation
  <2>4. Documented(n)'
    <3>1. ASSUME d.decision.allowed, d.proof.algo = "ed25519" PROVE Vouched(d)'
      <4>1. VerifierVerdict(p) = "pass" /\ p.algo = "ed25519"
        BY <2>2, <2>3, <3>1, VerdictForm, TrimmedFacts DEF Spends
      <4>2. Vouched(d)
        BY <2>2, <2>3, <4>1, PassedIsVouched DEF Inv
      <4> QED BY <1>1, <4>2 DEF Vouched, Registered
    <3>2. d.decision.allowed => Key(d.proof) \in ledger'
      BY <1>2, <2>2, <2>3, VerdictForm, TrimmedFacts
    <3>3. config'.keyed => signature = Signature(OracleKey, CanonicalAttestation(d))
      BY <1>1 DEF SignOrStub
    <3>4. attestations'[n].body = d /\ attestations'[n].oracle_signature = signature
      BY <2>1
    <3>5. d = [id |-> n, device |-> d.proof.device, proof |-> Trimmed(d.proof),
               decision |-> Decision(d.decision.reason, d.decision.max_power, d.decision.limit),
               issued_at |-> d.issued_at]
      BY <2>2, <2>3, VerdictForm, TrimmedFacts
    <3>6. /\ WellFormed(d.proof)
          /\ d.decision.max_power \in Numbers /\ d.decision.limit \in Numbers
          /\ d.decision.allowed => d.decision.max_power = d.proof.payload.power
      BY <2>2, <2>3, VerdictForm, TrimmedFacts
    <3> QED BY <3>1, <3>2, <3>3, <3>4, <3>5, <3>6 DEF Documented
  <2>5. ASSUME NEW i \in DOMAIN attestations, d.decision.allowed,
               attestations[i].body.decision.allowed,
               attestations[i].body.device = d.device,
               attestations[i].body.proof.nonce = d.proof.nonce
        PROVE  FALSE
    <3>1. Key(p) \notin ledger /\ Key(p) = <<d.device, d.proof.nonce>>
      BY <2>2, <2>3, <2>5, VerdictForm, TrimmedFacts DEF Spends, Key
    <3>2. /\ Key(attestations[i].body.proof) \in ledger
          /\ attestations[i].body.device = attestations[i].body.proof.device
      <4>1. Documented(i)
        BY DEF Inv
      <4>2. /\ attestations[i].body =
                 [id |-> i, device |-> attestations[i].body.proof.device,
                  proof |-> Trimmed(attestations[i].body.proof),
                  decision |-> Decision(attestations[i].body.decision.reason,
                                        attestations[i].body.decision.max_power,
                                        attestations[i].body.decision.limit),
                  issued_at |-> attestations[i].body.issued_at]
            /\ attestations[i].body.decision.allowed => Key(attestations[i].body.proof) \in ledger
        BY <4>1 DEF Documented
      <4> QED BY <2>5, <4>2
    <3> QED BY <2>5, <3>1, <3>2 DEF Key
  <2>6. GrantedOnceInAnyForm'
    <3>1. /\ \A i \in DOMAIN attestations : attestations'[i].body = attestations[i].body
          /\ attestations'[n].body = d
      BY <2>1
    <3> SUFFICES ASSUME NEW i \in DOMAIN attestations', NEW j \in DOMAIN attestations',
                        attestations'[i].body.decision.allowed, attestations'[j].body.decision.allowed,
                        attestations'[i].body.device = attestations'[j].body.device,
                        attestations'[i].body.proof.nonce = attestations'[j].body.proof.nonce
                 PROVE  i = j
      BY DEF GrantedOnceInAnyForm
    <3> QED BY <2>1, <2>5, <3>1 DEF Inv, GrantedOnceInAnyForm
  <2> QED BY <1>1, <1>4, <2>1, <2>4, <2>6 DEF Inv
<1> QED BY <1>5, <1>6 DEF Attest

\* The oracle's record keeps to the invariant, whatever arrives from the network and
\* whoever registers, in any order and any number of times.
THEOREM Invariance == Spec => []Inv
<1>1. Inv /\ [Next]_vars => Inv'
  <2> SUFFICES ASSUME Inv, [Next]_vars PROVE Inv'
    OBVIOUS
  <2>1. CASE Next
    BY <2>1, RegisterInv, AttestInv DEF Next
  <2>2. CASE UNCHANGED vars
    <3>1. KeysKept' /\ Log' /\ GrantedOnceInAnyForm'
      BY <2>2 DEF vars, Inv, KeysKept, Registered, Log, GrantedOnceInAnyForm
    <3>2. \A d \in DeviceIds : Registered(d) => Registered(d)'
      BY <2>2 DEF vars, Registered
    <3>3. ASSUME NEW i \in DOMAIN attestations PROVE Documented(i)'
      BY <2>2, <3>2, DocumentedStays DEF vars, Inv
    <3> QED BY <2>2, <3>1, <3>3 DEF vars, Inv
  <2> QED BY <2>1, <2>2
<1> QED BY <1>1, InitInv, PTL DEF Spec
-----------------------------------------------------------------------------
(* What was granted. *)

\* Behind a grant stands one registered key: every proof with the granted one's
\* signature was signed with that key and says what was granted.
LEMMA Backing ==
  ASSUME Inv, NEW i \in DOMAIN attestations, NEW d, d = attestations[i].body,
         d.decision.allowed, d.proof.algo = "ed25519"
  PROVE  \E k \in Keys :
           /\ DeviceRecord(d.device).key = k
           /\ \E p \in Proofs : p.signature = d.proof.signature
           /\ \A p \in Proofs : p.signature = d.proof.signature =>
                /\ p.signature.key = k
                /\ p.device = d.device /\ p.nonce = d.proof.nonce /\ p.ts = d.proof.ts
                /\ p.payload.power.halfwatts = d.decision.max_power.halfwatts
                /\ p.payload.rest = {} => p.signature = Signature(k, CanonicalProof(d.proof))
<1>1. Documented(i)
  BY DEF Inv
<1>2. /\ d.device = d.proof.device /\ d.proof = Trimmed(d.proof)
      /\ WellFormed(d.proof) /\ d.decision.max_power = d.proof.payload.power
      /\ Vouched(d)
  <2>1. d = [id |-> i, device |-> d.proof.device, proof |-> Trimmed(d.proof),
             decision |-> Decision(d.decision.reason, d.decision.max_power, d.decision.limit),
             issued_at |-> d.issued_at]
    BY <1>1 DEF Documented
  <2>2. d.device = d.proof.device /\ d.proof = Trimmed(d.proof)
    BY <2>1
  <2> QED BY <1>1, <2>2 DEF Documented
<1>3. PICK v \in Proofs, k \in Keys : \E rest \in {v.payload.rest, {}} :
        /\ SignedBy(v, k)
        /\ d.device = DeviceId(k) /\ Registered(d.device)
        /\ d.proof.signature = v.signature
        /\ v.signature = Signature(k, CanonicalProof([d.proof EXCEPT !.payload.rest = rest]))
  BY <1>2 DEF Vouched
<1>4. PICK rest : v.signature = Signature(k, CanonicalProof([d.proof EXCEPT !.payload.rest = rest]))
  BY <1>3
<1> DEFINE q == [d.proof EXCEPT !.payload.rest = rest]
<1>5. /\ WellFormed(q) /\ q.device = d.device /\ q.nonce = d.proof.nonce /\ q.ts = d.proof.ts
      /\ q.payload.power = d.decision.max_power /\ q.payload.rest = rest
      /\ rest = {} => q = d.proof
  <2>1. d.proof = [device |-> d.proof.device, nonce |-> d.proof.nonce, ts |-> d.proof.ts,
                   algo |-> d.proof.algo, payload |-> d.proof.payload,
                   signature |-> d.proof.signature]
    BY <1>2 DEF WellFormed, Proof
  <2>2. d.proof.payload = [power |-> d.proof.payload.power, rest |-> d.proof.payload.rest]
    BY <1>2 DEF WellFormed, Payload
  <2>3. q = [device |-> d.proof.device, nonce |-> d.proof.nonce, ts |-> d.proof.ts,
             algo |-> d.proof.algo, payload |-> [power |-> d.proof.payload.power, rest |-> rest],
             signature |-> d.proof.signature]
    BY <2>1, <2>2
  <2>4. WellFormed(q)
    BY <1>2, <2>3 DEF WellFormed, Proof, Payload
  <2>5. d.proof.payload.rest = {}
    <3>1. Trimmed(d.proof).payload.rest = {}
      BY <2>1, <2>2 DEF Trimmed
    <3> QED BY <1>2, <3>1
  <2>6. /\ q.device = d.proof.device /\ q.nonce = d.proof.nonce /\ q.ts = d.proof.ts
        /\ q.payload.power = d.proof.payload.power /\ q.payload.rest = rest
    BY <2>3
  <2>7. rest = {} => q = d.proof
    BY <2>1, <2>2, <2>3, <2>5
  <2> HIDE DEF q
  <2> QED BY <1>2, <2>4, <2>6, <2>7
<1>6. DeviceRecord(d.device).key = k
  BY <1>3 DEF DeviceRecord, Inv, KeysKept
<1>7. ASSUME NEW p \in Proofs, p.signature = d.proof.signature
      PROVE  /\ p.signature.key = k
             /\ p.device = d.device /\ p.nonce = d.proof.nonce /\ p.ts = d.proof.ts
             /\ p.payload.power.halfwatts = d.decision.max_power.halfwatts
             /\ p.payload.rest = {} => p.signature = Signature(k, CanonicalProof(d.proof))
  <2>1. p.signature = Signature(k, CanonicalProof(q))
    BY <1>3, <1>4, <1>7
  <2>2. p.signature # Unsigned
    BY <2>1, KeysAssumption DEF Signature, Unsigned
  <2>3. PICK j \in Keys : SignedBy(p, j)
    BY <2>2, ProofsAssumption
  <2>4. WellFormed(p)
    BY ProofsAssumption
  <2>5. /\ p.device = q.device /\ p.nonce = q.nonce /\ p.ts = q.ts
        /\ p.payload.power.halfwatts = q.payload.power.halfwatts
        /\ q.payload.rest \in {p.payload.rest, {}}
    <3> HIDE DEF q
    <3> QED BY <1>5, <2>1, <2>3, <2>4, MessageTells
  <2>6. p.signature.key = k
    BY <2>1 DEF Signature
  <2>7. p.payload.rest = {} => q = d.proof
    BY <1>5, <2>5
  <2> HIDE DEF q
  <2> QED BY <1>5, <2>1, <2>5, <2>6, <2>7
<1>8. \E p \in Proofs : p.signature = d.proof.signature
  BY <1>3
<1> QED BY <1>6, <1>7, <1>8

\* A device's nonce is granted once, whatever copies of its proofs arrive.
THEOREM OnceInAnyForm == Spec => []GrantedOnceInAnyForm
<1>1. Inv => GrantedOnceInAnyForm
  BY DEF Inv
<1> QED BY <1>1, Invariance, PTL

\* What is granted is what a registered device signed.
THEOREM NothingForged == Spec => []GrantedIsSigned
<1>1. Inv => GrantedIsSigned
  <2> SUFFICES ASSUME Inv, NEW d \in Stored, d.decision.allowed, d.proof.algo = "ed25519"
               PROVE  \E p \in Proofs :
                        /\ p.signature = d.proof.signature
                        /\ p.signature.key = DeviceRecord(d.device).key
                        /\ p.device = d.device /\ p.nonce = d.proof.nonce /\ p.ts = d.proof.ts
                        /\ p.payload.power.halfwatts = d.decision.max_power.halfwatts
    BY DEF GrantedIsSigned
  <2>1. PICK i \in DOMAIN attestations : d = attestations[i].body
    BY DEF Stored
  <2> QED BY <2>1, Backing
<1> QED BY <1>1, Invariance, PTL
-----------------------------------------------------------------------------
(* What readers make of an attestation. *)

\* The numbers of a decision as its attestation's signature covers them, and in other
\* spelling.
NormalDecision(x) == [x EXCEPT !.max_power = Normalize(@), !.limit = Normalize(@)]

RespellDecision(x) == [x EXCEPT !.max_power = Respell(@), !.limit = Respell(@)]

LEMMA SpelledDecision ==
  ASSUME NEW x, x.max_power \in Numbers, x.limit \in Numbers,
         x = [allowed |-> x.allowed, reason |-> x.reason,
              max_power |-> x.max_power, limit |-> x.limit]
  PROVE  NormalDecision(RespellDecision(x)) = NormalDecision(x)
<1>1. /\ Normalize(Respell(x.max_power)) = Normalize(x.max_power)
      /\ Normalize(Respell(x.limit)) = Normalize(x.limit)
  BY NumberFacts
<1> QED BY <1>1 DEF NormalDecision, RespellDecision

\* Messages do not depend on how their numbers are spelled.
LEMMA SpellingIsNotSigned ==
  ASSUME Inv, NEW i \in DOMAIN attestations, NEW d, d = attestations[i].body,
         NEW e, e = RespellAttestation(d)
  PROVE  /\ CanonicalAttestation(e) = CanonicalAttestation(d)
         /\ CanonicalProof(e.proof) = CanonicalProof(d.proof)
         /\ e.device = d.device /\ e.decision.allowed = d.decision.allowed
         /\ e.proof.algo = d.proof.algo /\ e.proof.signature = d.proof.signature
<1> SUFFICES ASSUME NEW p, p = d.proof, NEW w, w = p.payload, NEW x, x = d.decision
             PROVE  /\ CanonicalAttestation(e) = CanonicalAttestation(d)
                    /\ CanonicalProof(e.proof) = CanonicalProof(p)
                    /\ e.device = d.device /\ e.decision.allowed = x.allowed
                    /\ e.proof.algo = p.algo /\ e.proof.signature = p.signature
  OBVIOUS
<1>1. Documented(i)
  BY DEF Inv
<1>2. /\ d = [id |-> i, device |-> p.device, proof |-> Trimmed(p),
              decision |-> Decision(x.reason, x.max_power, x.limit), issued_at |-> d.issued_at]
      /\ WellFormed(p) /\ x.max_power \in Numbers /\ x.limit \in Numbers
  BY <1>1 DEF Documented
<1>3. /\ d = [id |-> d.id, device |-> d.device, proof |-> p, decision |-> x, issued_at |-> d.issued_at]
      /\ p = [device |-> p.device, nonce |-> p.nonce, ts |-> p.ts, algo |-> p.algo,
              payload |-> w, signature |-> p.signature]
      /\ w = [power |-> w.power, rest |-> w.rest]
      /\ x = [allowed |-> x.allowed, reason |-> x.reason, max_power |-> x.max_power, limit |-> x.limit]
  BY <1>2 DEF WellFormed, Payload, Proof, Decision
<1>4. /\ Normalize(Respell(w.power)) = Normalize(w.power)
      /\ Normalize(Respell(x.max_power)) = Normalize(x.max_power)
      /\ Normalize(Respell(x.limit)) = Normalize(x.limit)
  BY <1>2, NumberFacts DEF WellFormed
<1>5. /\ e.id = d.id /\ e.device = d.device /\ e.issued_at = d.issued_at
      /\ e.proof = [p EXCEPT !.payload = [w EXCEPT !.power = Respell(w.power)]]
      /\ e.decision = [x EXCEPT !.max_power = Respell(x.max_power), !.limit = Respell(x.limit)]
  BY <1>3 DEF RespellAttestation
<1>6. CanonicalPayload(e.proof.payload) = CanonicalPayload(w)
  <2>1. e.proof.payload = [power |-> Respell(w.power), rest |-> w.rest]
    BY <1>3, <1>5
  <2>2. CanonicalPayload(e.proof.payload) = [power |-> Normalize(Respell(w.power)), rest |-> w.rest]
    BY <2>1 DEF CanonicalPayload
  <2>3. CanonicalPayload(w) = [power |-> Normalize(w.power), rest |-> w.rest]
    BY <1>3 DEF CanonicalPayload
  <2> QED BY <1>4, <2>2, <2>3
<1>7. [e.proof EXCEPT !.payload = CanonicalPayload(@)] = [p EXCEPT !.payload = CanonicalPayload(@)]
  BY <1>3, <1>5, <1>6
<1>8. [e.decision EXCEPT !.max_power = Normalize(@), !.limit = Normalize(@)]
      = [x EXCEPT !.max_power = Normalize(@), !.limit = Normalize(@)]
  <2>1. e.decision = RespellDecision(x)
    BY <1>5 DEF RespellDecision
  <2>2. NormalDecision(RespellDecision(x)) = NormalDecision(x)
    BY <1>2, <1>3, SpelledDecision
  <2>3. NormalDecision(e.decision) = NormalDecision(x)
    BY <2>1, <2>2
  <2> QED BY <2>3 DEF NormalDecision
<1>9. CanonicalAttestation(e) = CanonicalAttestation(d)
  BY <1>5, <1>7, <1>8 DEF CanonicalAttestation
<1>10. CanonicalProof(e.proof) = CanonicalProof(p)
  <2>1. PICK q : q = e.proof
    OBVIOUS
  <2>2. q.device = p.device /\ q.nonce = p.nonce /\ q.ts = p.ts /\ q.algo = p.algo
    BY <1>3, <1>5, <2>1
  <2>3. CanonicalPayload(q.payload) = CanonicalPayload(p.payload)
    BY <1>6, <2>1
  <2> QED BY <2>1, <2>2, <2>3 DEF CanonicalProof
<1>11. e.decision.allowed = x.allowed /\ e.proof.algo = p.algo /\ e.proof.signature = p.signature
  BY <1>3, <1>5
<1> QED BY <1>5, <1>9, <1>10, <1>11

\* A stored attestation can be verified, its oracle's signature and its device's,
\* by whoever reads it and in whatever spelling.
THEOREM Auditable == Spec => []AuditVerifies
<1>1. Inv => AuditVerifies
  <2> SUFFICES ASSUME Inv, config.keyed, NEW i \in DOMAIN attestations,
                      NEW b, b = attestations[i].body,
                      NEW d \in {b, RespellAttestation(b)}
               PROVE  /\ VerifySignature(OracleKey, CanonicalAttestation(d),
                                         attestations[i].oracle_signature)
                      /\ /\ d.decision.allowed
                         /\ d.proof.algo = "ed25519"
                         /\ \E p \in Proofs : p.signature = d.proof.signature /\ p.payload.rest = {}
                         => VerifySignature(DeviceRecord(d.device).key, CanonicalProof(d.proof),
                                            d.proof.signature)
    BY DEF AuditVerifies
  <2>1. /\ CanonicalAttestation(d) = CanonicalAttestation(b)
        /\ CanonicalProof(d.proof) = CanonicalProof(b.proof)
        /\ d.device = b.device /\ d.decision.allowed = b.decision.allowed
        /\ d.proof.algo = b.proof.algo /\ d.proof.signature = b.proof.signature
    BY SpellingIsNotSigned
  <2>2. attestations[i].oracle_signature = Signature(OracleKey, CanonicalAttestation(b))
    BY DEF Inv, Documented
  <2>3. ASSUME b.decision.allowed, b.proof.algo = "ed25519",
               NEW p \in Proofs, p.signature = b.proof.signature, p.payload.rest = {}
        PROVE  b.proof.signature = Signature(DeviceRecord(b.device).key, CanonicalProof(b.proof))
    BY <2>3, Backing
  <2> QED BY <2>1, <2>2, <2>3 DEF VerifySignature
<1> QED BY <1>1, Invariance, PTL

\* A decision allows only what it has found nothing against.
LEMMA DecisionFacts ==
  ASSUME NEW x, x = Decision(x.reason, x.max_power, x.limit)
  PROVE  x.allowed \in BOOLEAN /\ (x.allowed => x.reason = "ok")
<1>1. x.allowed = (x.reason = "ok")
  BY DEF Decision
<1> QED BY <1>1, Zenon

\* The watts are the power's, or one less.
LEMMA WattsAre ==
  ASSUME NEW n \in Numbers
  PROVE  Watts(n) \in Int /\ 2 * Watts(n) \in (n.halfwatts - 2)..n.halfwatts
<1>1. PICK h \in Int : h = n.halfwatts
  BY DEF Numbers
<1>2. PICK w \in Int : w = h \div 2 /\ h - 1 <= 2 * w /\ 2 * w <= h
  OBVIOUS
<1>3. CASE h \in RoundedDown
  <2>1. Watts(n) = w - 1 /\ 2 * w = h
    BY <1>1, <1>2, <1>3, RoundingAssumption DEF Watts
  <2> QED BY <1>1, <1>2, <2>1
<1>4. CASE h \notin RoundedDown
  <2>1. Watts(n) = w
    BY <1>1, <1>2, <1>4 DEF Watts
  <2> QED BY <1>1, <1>2, <2>1
<1> QED BY <1>3, <1>4

\* The calldata says what the attestation says, in whole watts.
THEOREM CalldataAgrees == Spec => []OnChainAgrees
<1>1. Inv => OnChainAgrees
  <2> SUFFICES ASSUME Inv, NEW d \in Stored, NEW later \in Clock
               PROVE  LET onchain == Calldata(BuildAttestationParams(d))
                          rebuilt == Calldata(BuildAttestationParams(FullAttestation(Response(d), later)))
                          denied == Calldata(BuildAttestationParams(DenyAttestation(Response(d), later)))
                      IN /\ SubSeq(rebuilt, 1, 5) = SubSeq(onchain, 1, 5)
                         /\ onchain[4] = 1 => /\ d.decision.reason = "ok"
                                              /\ 2 * onchain[5] \in (d.proof.payload.power.halfwatts - 2)
                                                                   ..d.proof.payload.power.halfwatts
                         /\ denied[4] = 0
    BY DEF OnChainAgrees
  <2>1. PICK i \in DOMAIN attestations : d = attestations[i].body
    BY DEF Stored
  <2>2. /\ d.decision = Decision(d.decision.reason, d.decision.max_power, d.decision.limit)
        /\ d.decision.max_power \in Numbers
        /\ d.decision.allowed => d.decision.max_power = d.proof.payload.power
    <3>1. Documented(i)
      BY DEF Inv
    <3>2. d = [id |-> i, device |-> d.proof.device, proof |-> Trimmed(d.proof),
               decision |-> Decision(d.decision.reason, d.decision.max_power, d.decision.limit),
               issued_at |-> d.issued_at]
      BY <2>1, <3>1 DEF Documented
    <3> QED BY <2>1, <3>1, <3>2 DEF Documented
  <2>3. d.decision.allowed \in BOOLEAN /\ (d.decision.allowed => d.decision.reason = "ok")
    BY <2>2, DecisionFacts
  <2> DEFINE w == Watts(d.decision.max_power)
             onchain == Calldata(BuildAttestationParams(d))
             rebuilt == Calldata(BuildAttestationParams(FullAttestation(Response(d), later)))
             denied == Calldata(BuildAttestationParams(DenyAttestation(Response(d), later)))
  <2>4. 2 * w \in (d.decision.max_power.halfwatts - 2)..d.decision.max_power.halfwatts
    BY <2>2, WattsAre
  <2>5. onchain = << "44b67025", <<"keccak", d.id>>, <<"keccak", d.device>>,
                     IF d.decision.allowed THEN 1 ELSE 0, w, d.issued_at >>
    BY DEF Calldata, BuildAttestationParams
  <2>6. rebuilt = << "44b67025", <<"keccak", d.id>>, <<"keccak", d.device>>,
                     IF d.decision.allowed THEN 1 ELSE 0, w, later >>
    BY DEF Calldata, BuildAttestationParams, FullAttestation, Response
  <2>7. denied = << "44b67025", <<"keccak", d.id>>, <<"keccak", d.device>>, 0, w, later >>
    BY DEF Calldata, BuildAttestationParams, DenyAttestation, FullAttestation, Response
  <2> HIDE DEF w, onchain, rebuilt, denied
  <2>8. SubSeq(rebuilt, 1, 5) = SubSeq(onchain, 1, 5)
    BY <2>5, <2>6
  <2> QED BY <2>2, <2>3, <2>4, <2>5, <2>7, <2>8 DEF onchain, rebuilt, denied
<1> QED BY <1>1, Invariance, PTL
-----------------------------------------------------------------------------
(* Forms, provisioning, registration and paging. *)

\* The oracle takes the same proof from a bare body and from its device's envelope.
THEOREM FormsAlike == Spec => []FormsAgree
<1>1. Inv => FormsAgree
  <2> SUFFICES ASSUME Inv, NEW p \in Proofs, NEW k \in Keys, p.algo = "ed25519", p.ts # NoText,
                      DeviceId(k) = p.device, Registered(p.device)
               PROVE  Carried(Bare(p)) = Carried(Enveloped(WrapEnvelope(p, k, 1)))
    BY DEF FormsAgree
  <2> DEFINE e == WrapEnvelope(p, k, 1)
             good == [status |-> 200, proof |-> p]
  <2>1. WellFormed(p)
    BY ProofsAssumption
  <2>2. devices[p.device].key = k /\ k # NoKey /\ p.device # NoKey
    BY <2>1, KeysAssumption DEF Inv, KeysKept, WellFormed
  <2>3. /\ e.payload.device = p.device /\ e.header.ts = p.ts /\ e.payload.epoch = p.ts.epoch
        /\ e.payload.nonce = p.nonce /\ e.payload.event = p.payload
        /\ e.payload.signature = p.signature
    BY DEF WrapEnvelope, Seal
  <2>4. /\ e.version = 1 /\ e.header.type = "proof"
        /\ e.header.issuer = k /\ e.header.entity = p.device
    BY DEF WrapEnvelope, Seal
  <2>5. e.signature = Signature(k, CanonicalEnvelope(e))
    BY DEF WrapEnvelope, Seal, CanonicalEnvelope
  <2>6. e.signature # Unsigned
    BY <2>2, <2>5 DEF Signature, Unsigned
  <2>7. ValidateEnvelope(e) /\ VerifyEnvelope(e, k)
    <3> HIDE DEF e
    <3> QED BY <2>2, <2>4, <2>5
            DEF ValidateEnvelope, VerifyEnvelope, VerifySignature, SUPPORTED_ENVELOPE_VERSIONS, MessageType
  <2>8. Proof(p.device, p.nonce, p.ts, "ed25519", p.payload, p.signature) = p
    BY <2>1 DEF WellFormed
  <2>9. Unwrap(e) = IF EndsInZ(p.ts) THEN good ELSE Refused(400)
    <3> HIDE DEF e
    <3> QED BY <2>2, <2>3, <2>6, <2>7, <2>8 DEF Unwrap
  <2>10. Carried(Enveloped(e)) = IF EndsInZ(p.ts) THEN good ELSE Refused(400)
    <3> HIDE DEF e
    <3> QED BY <2>9 DEF Carried, Enveloped, Refused
  <2>11. Carried(Bare(p)) = IF EndsInZ(p.ts) THEN good ELSE Refused(400)
    BY DEF Carried, Bare, Refused
  <2> QED BY <2>10, <2>11
<1> QED BY <1>1, Invariance, PTL

\* What provisioning admits is within the oracle's limits.
THEOREM ProvisioningWithinOracle == Spec => []ProvisioningNeverLaxer
<1>1. ProvisioningNeverLaxer
  <2> SUFFICES ASSUME NEW p \in Proofs, NEW now \in Clock, AttestDeviceProof(p) = "ok"
               PROVE  ResolveDecision(p, now).reason \notin {"max_power_exceeded", "below_minimum_power"}
    BY DEF ProvisioningNeverLaxer
  <2>1. p.payload.power.halfwatts \in Int
    BY ProofsAssumption DEF WellFormed, Numbers
  <2>2. /\ p.payload.power.halfwatts <= 10000
        /\ p.algo = "mock" => p.payload.power.halfwatts >= 200
    BY <2>1 DEF AttestDeviceProof, BootstrapPower, MinPower, Number
  <2> QED BY <2>1, <2>2 DEF ResolveDecision, Denied, Decision, VerifierVerdict, OraclePower, MinPower, Number
<1> QED BY <1>1, PTL

\* A device's proofs go on verifying, whoever registers.
THEOREM RegistrationsHarmless == Spec => StillVerifies
<1>1. Inv /\ [Next]_vars => [\A p \in Proofs : VerifierVerdict(p) = "pass" => VerifierVerdict(p)' = "pass"]_vars
  <2> SUFFICES ASSUME Inv, Next, NEW p \in Proofs, VerifierVerdict(p) = "pass"
               PROVE  VerifierVerdict(p)' = "pass"
    OBVIOUS
  <2>1. /\ KeysKept' /\ UNCHANGED config
        /\ \A d \in DeviceIds : Registered(d) => Registered(d)'
    <3>1. CASE \E r \in Registrations : RegisterDevice(r)
      BY <3>1, RegisterKeeps
    <3>2. CASE \E m \in Arrivals, now \in Clock : Attest(m, now)
      BY <3>2 DEF Attest, Inv, KeysKept, Registered
    <3> QED BY <3>1, <3>2 DEF Next
  <2>2. CASE p.algo = "mock"
    BY <2>1, <2>2 DEF VerifierVerdict
  <2>3. CASE p.algo # "mock"
    <3>1. WellFormed(p) /\ p.algo = "ed25519"
      BY <2>3, ProofsAssumption DEF VerifierVerdict
    <3>2. PICK k \in Keys : /\ p.device = DeviceId(k) /\ Registered(p.device)
                            /\ p.signature = Signature(k, CanonicalProof(p))
      BY <3>1, PassedIsSigned DEF Inv
    <3>3. Registered(p.device)' /\ devices'[p.device].key = k
      BY <2>1, <3>2 DEF KeysKept, DeviceIds
    <3> QED BY <3>1, <3>2, <3>3 DEF VerifierVerdict, VerifySignature
  <2> QED BY <2>2, <2>3
<1> QED BY <1>1, Invariance, PTL DEF Spec, StillVerifies

\* A page of the listing is the numbers that follow its offset.
LEMMA PageIs ==
  ASSUME NEW n \in Nat, NEW limit \in Nat, NEW offset \in Nat, NEW length,
         length = (IF n - offset < 0 THEN 0 ELSE IF n - offset < limit THEN n - offset ELSE limit),
         NEW page, page = [i \in 1..length |-> offset + i]
  PROVE  /\ length \in Nat /\ page \in Seq(Nat) /\ Len(page) = length
         /\ \A i \in 1..length : page[i] = offset + i
<1>1. length \in Nat
  OBVIOUS
<1>2. \A i \in 1..length : offset + i \in Nat
  BY <1>1
<1>3. page \in Seq(Nat)
  BY <1>1, <1>2
<1> QED BY <1>1, <1>3

\* A first page of n and a second of n + 1 count up from one.
LEMMA TwoPages ==
  ASSUME NEW n \in Nat, NEW limit \in Nat, limit > 0,
         NEW k, k = (IF n - 0 < 0 THEN 0 ELSE IF n - 0 < limit THEN n - 0 ELSE limit),
         NEW l, l = (IF n + 1 - limit < 0 THEN 0
                     ELSE IF n + 1 - limit < limit THEN n + 1 - limit ELSE limit),
         NEW first, first = [i \in 1..k |-> 0 + i],
         NEW second, second = [i \in 1..l |-> limit + i]
  PROVE  /\ \A j \in DOMAIN (first \o second) : (first \o second)[j] = j
         /\ \A i \in 1..n : i <= 2 * limit => i \in DOMAIN (first \o second)
<1>1. /\ first \in Seq(Nat) /\ Len(first) = k /\ k \in Nat
      /\ \A i \in 1..k : first[i] = 0 + i
  BY PageIs
<1>2. /\ second \in Seq(Nat) /\ Len(second) = l /\ l \in Nat
      /\ \A i \in 1..l : second[i] = limit + i
  BY PageIs
<1>3. /\ first \o second \in Seq(Nat) /\ Len(first \o second) = k + l
      /\ \A j \in 1..(k + l) : (first \o second)[j] = IF j <= k THEN first[j] ELSE second[j - k]
  BY <1>1, <1>2, ConcatProperties
<1>4. /\ k = limit \/ l = 0
      /\ \A i \in 1..n : i <= 2 * limit => i \in 1..(k + l)
  OBVIOUS
<1>5. ASSUME NEW j \in 1..(k + l) PROVE (first \o second)[j] = j
  <2>1. CASE j <= k
    BY <1>1, <1>3, <2>1
  <2>2. CASE j > k
    <3>1. j - k \in 1..l /\ k = limit
      BY <1>1, <1>2, <1>4, <2>2
    <3> QED BY <1>2, <1>3, <2>2, <3>1
  <2> QED BY <1>1, <2>1, <2>2
<1>6. DOMAIN (first \o second) = 1..(k + l)
  BY <1>3
<1> QED BY <1>4, <1>5, <1>6

\* Two pages, an attestation stored in between, tell every old one once.
THEOREM PagingTellsAll == Spec => PagesAddUp
<1> DEFINE Told(limit) == Listing(limit, 0).page \o Listing(limit, limit)'.page
           AddUp == attestations' # attestations =>
             \A limit \in 1..MaxDocs :
               /\ \A i \in 1..Listing(limit, 0).total :
                    i <= 2 * limit => \E j \in DOMAIN Told(limit) : Told(limit)[j] = attestations[i].body.id
               /\ \A i, j \in DOMAIN Told(limit) : Told(limit)[i] = Told(limit)[j] => i = j
<1>1. Inv /\ Inv' /\ Next => AddUp
  <2> SUFFICES ASSUME Inv, Inv', Next, attestations' # attestations, NEW limit \in 1..MaxDocs
               PROVE  /\ \A i \in 1..Listing(limit, 0).total :
                           i <= 2 * limit => \E j \in DOMAIN Told(limit) : Told(limit)[j] = attestations[i].body.id
                      /\ \A i, j \in DOMAIN Told(limit) : Told(limit)[i] = Told(limit)[j] => i = j
    OBVIOUS
  <2>1. PICK a : attestations' = Append(attestations, a)
    BY DEF Next, RegisterDevice, Attest
  <2> DEFINE n == Len(attestations)
             first == Listing(limit, 0).page
             second == Listing(limit, limit)'.page
  <2>2. n \in Nat /\ Len(attestations)' = n + 1 /\ DOMAIN attestations = 1..n
        /\ DOMAIN attestations' = 1..(n + 1)
    <3>1. n \in Nat /\ Len(attestations)' = n + 1 /\ DOMAIN attestations = 1..n
      BY <2>1, LogGrows, LogFacts DEF Inv
    <3>2. DOMAIN attestations' = 1..Len(attestations')
      BY DEF Inv, Log
    <3> QED BY <3>1, <3>2
  <2>3. limit \in Nat /\ limit > 0
    BY BoundAssumption
  <2>4. ASSUME NEW i \in 1..n PROVE attestations[i].body.id = i
    <3>1. Documented(i)
      BY <2>2 DEF Inv
    <3> QED BY <3>1 DEF Documented
  <2>5. ASSUME NEW i \in 1..(n + 1) PROVE attestations'[i].body.id = i
    <3>1. Documented(i)'
      BY <2>2 DEF Inv
    <3> QED BY <3>1 DEF Documented
  <2> DEFINE k == IF n - 0 < 0 THEN 0 ELSE IF n - 0 < limit THEN n - 0 ELSE limit
             l == IF n + 1 - limit < 0 THEN 0 ELSE IF n + 1 - limit < limit THEN n + 1 - limit ELSE limit
  <2>6. first = [i \in 1..k |-> 0 + i]
    <3>1. first = [i \in 1..k |-> attestations[0 + i].body.id]
      BY DEF Listing, PageLength
    <3>2. \A i \in 1..k : 0 + i \in 1..n
      BY <2>2, <2>3
    <3> HIDE DEF k
    <3> QED BY <2>4, <3>1, <3>2
  <2>7. second = [i \in 1..l |-> limit + i]
    <3>1. second = [i \in 1..l |-> attestations'[limit + i].body.id]
      BY <2>2 DEF Listing, PageLength
    <3>2. \A i \in 1..l : limit + i \in 1..(n + 1)
      BY <2>2, <2>3
    <3> HIDE DEF l
    <3> QED BY <2>5, <3>1, <3>2
  <2> HIDE DEF k, l, first, second
  <2>8. /\ \A j \in DOMAIN (first \o second) : (first \o second)[j] = j
        /\ \A i \in 1..n : i <= 2 * limit => i \in DOMAIN (first \o second)
    BY <2>2, <2>3, <2>6, <2>7, TwoPages DEF k, l
  <2>9. Listing(limit, 0).total = n
    BY DEF Listing
  <2> QED BY <2>4, <2>8, <2>9 DEF first, second
<1> QED BY <1>1, Invariance, PTL DEF Spec, PagesAddUp
=============================================================================
