---------------------------- MODULE OracleAttest ----------------------------
(***************************************************************************)
(* The oracle's attestation endpoint, POST /oracle/attest                  *)
(* (axis_core/api/oracle.py), over the pluggable storage backend           *)
(* (axis_core/storage).                                                    *)
(*                                                                         *)
(* A worker is one server process.  Its handlers are coroutines that never *)
(* await, so a process runs one call from its first line to its last;      *)
(* several processes interleave at every call they make to a shared store. *)
(* One action below is one such call together with the local computation   *)
(* that follows it: look up the device and check the signature, test the   *)
(* nonce, record it, evaluate the policy at the clock's reading, sign,     *)
(* store the request, store the attestation and answer.                    *)
(***************************************************************************)
EXTENDS Integers, FiniteSets

CONSTANTS
  Workers,        \* the server processes
  Calls,          \* HTTP calls clients make; a call is sent at most once
  NoCall,         \* what an idle worker serves
  Devices,        \* device ids: each is a hash of one public key
  Nonces,         \* nonce strings
  Bodies,         \* the request bodies clients send
  NoBody,         \* the body of a call not sent yet
  Backend,        \* AXIS_STORAGE_BACKEND
  AllowMock,      \* AXIS_ALLOW_MOCK: the dev-only algorithm "mock" is accepted
  MaxProofAge,    \* MAX_PROOF_AGE_SECONDS
  MaxClockSkew,   \* max_clock_skew_sec of the policy set
  NonceTTL,       \* RedisBackend's ttl
  MaxPower,       \* the domain limit on max_power_kw
  MinPower,       \* the least power a "mock" proof may claim
  Gates,          \* reasons the operator's opt-in policy gates may refuse with
  Faults,         \* the faults that may occur, see FaultKinds
  MaxTime,        \* bound: the clock stops here
  MaxPause        \* bound: seconds between recording a nonce and the decision

Modes == {"malformed", "request", "legacy", "envelope"}
Seals == {"good", "unsigned", "forged", "inconsistent"}

\* A device proof.  `genuine` says whether its signature verifies under the key
\* that `device` is the hash of, over the canonical message of the other fields.
ProofType == [device : Devices, nonce : Nonces, ts : Int, power : Int,
              algo : {"ed25519", "mock", "other"}, genuine : BOOLEAN]

\* A body: the proof it carries, the device id a legacy document names beside
\* its proof, and how an envelope around the proof is sealed.
BodyType == [mode : Modes, proof : ProofType, device : Devices, seal : Seals]

FaultKinds == {"storage", "crash", "policy_config", "no_key", "bad_key"}

PreambleGates == {"mint_paused", "invalid_device_state"}
SignalGates == {"ai_anomaly_flagged", "synthetic_collusion_detected"}

ASSUME CallsAssumption == NoCall \notin Calls
ASSUME BodiesAssumption == Bodies \subseteq BodyType /\ NoBody \notin Bodies
ASSUME BackendAssumption ==
  /\ Backend \in {"memory", "redis", "postgres", "hybrid"}
  /\ Backend = "memory" => \A v, w \in Workers : v = w
ASSUME ParameterAssumption ==
  /\ AllowMock \in BOOLEAN
  /\ MaxProofAge \in Nat /\ MaxClockSkew \in Nat /\ NonceTTL \in Nat
  /\ MaxPower \in Int /\ MinPower \in Int
  /\ Gates \subseteq PreambleGates \cup SignalGates
  /\ Faults \subseteq FaultKinds
  /\ MaxTime \in Nat /\ MaxPause \in Nat

Keys == Devices \X Nonces
Key(p) == <<p.device, p.nonce>>

Never == -1       \* the ledger's entry of a nonce that was never recorded
NoDoc == [reason |-> "none"]
NoAnswer == 0
LostAnswer == 499 \* the process died: the client sees a broken connection

Reasons == {"ok", "unsupported_algo", "mock_disabled", "device_not_registered",
            "signature_invalid", "nonce_replay", "future_timestamp",
            "stale_timestamp", "max_power_exceeded", "below_minimum_power"}
           \cup PreambleGates \cup SignalGates

InHandler == {"unwrap", "lookup", "has_nonce", "record_nonce", "policy",
              "sign", "put_request", "put_attestation"}

Docs == [device : Devices, proof : ProofType, reason : Reasons,
         via : {"request", "legacy", "envelope"}]

VARIABLES
  now,            \* the clock, in seconds
  registry,       \* devices with a record in the store
  ledger,         \* per device and nonce: the second it was recorded, or Never
  requests,       \* ids of the stored request documents
  attestations,   \* per attestation id: the stored document, or NoDoc
  wedged,         \* workers whose postgres connection sits in a failed transaction
  serving,        \* the call each worker is running, or NoCall
  pc,             \* where each call's handler is
  body,           \* each call's body
  attid,          \* the attestation id of each call's document
  decision,       \* the reason of each call's decision, once there is one
  status,         \* the HTTP status each call was answered with
  claims          \* history: calls whose record_nonce returned to the handler

store == <<registry, ledger, requests, attestations>>
handler == <<serving, pc, status>>
vars == <<now, registry, ledger, requests, attestations, wedged, serving, pc,
          body, attid, decision, status, claims>>
-----------------------------------------------------------------------------
(* The storage backend. *)

\* Which data the backend keeps in PostgreSQL, over the process's one connection.
OnPostgres(data) ==
  \/ Backend = "postgres"
  \/ Backend = "hybrid" /\ data # "nonce"

\* A worker can use the store: no earlier statement of it failed on the
\* connection, which nothing rolls back or reopens.
Usable(w, data) == ~(w \in wedged /\ OnPostgres(data))

\* has_nonce: memory and postgres keep a nonce forever, redis for NonceTTL.
HasNonce(k) ==
  /\ ledger[k] # Never
  /\ Backend \in {"redis", "hybrid"} => now < ledger[k] + NonceTTL

\* record_nonce: a nonce that is there keeps its entry (a set's add, ON CONFLICT
\* DO NOTHING, SET NX); its return value says nothing about which it was.
RecordNonce(k) ==
  ledger' = IF HasNonce(k) THEN ledger ELSE [ledger EXCEPT ![k] = now]

\* The attestation ids a client can know.  It has sent the id itself, in a legacy
\* document; it was answered with it; or it has read it in a request document,
\* which names the attestation before that is stored.
KnownIds ==
  {attid[c] : c \in {d \in Calls : \/ body[d] # NoBody /\ body[d].mode = "legacy"
                                   \/ status[d] = 200
                                   \/ d \in requests}}
-----------------------------------------------------------------------------
(* Control of one handler. *)

At(w, c, label) == serving[w] = c /\ pc[c] = label

Goto(c, label) ==
  /\ pc' = [pc EXCEPT ![c] = label]
  /\ UNCHANGED <<serving, status>>

Reply(w, c, code) ==
  /\ pc' = [pc EXCEPT ![c] = "done"]
  /\ status' = [status EXCEPT ![c] = code]
  /\ serving' = [serving EXCEPT ![w] = NoCall]

\* Mutant: the 403 of a refused legacy document is forgotten.
ConcludeSigned(w, c, reason) ==
  decision' = [decision EXCEPT ![c] = reason] /\ Goto(c, "sign")

\* Mutant: every refused call is answered 403 and stores nothing.
ConcludeRefused(w, c, reason) ==
  /\ decision' = [decision EXCEPT ![c] = reason]
  /\ IF reason # "ok" THEN Reply(w, c, 403) ELSE Goto(c, "sign")

\* _resolve_decision returned `reason`: a legacy document that is refused is
\* answered 403 and not stored, every other call goes on to be signed.
Conclude(w, c, reason) ==
  /\ decision' = [decision EXCEPT ![c] = reason]
  /\ IF body[c].mode = "legacy" /\ reason # "ok"
       THEN Reply(w, c, 403)
       ELSE Goto(c, "sign")

\* Mutant: a request may name its attestation id too.
ReceiveNamed(w, c, b, i) ==
  /\ serving[w] = NoCall
  /\ pc[c] = "unsent"
  /\ i # c => i \in KnownIds
  /\ body' = [body EXCEPT ![c] = b]
  /\ attid' = [attid EXCEPT ![c] = i]
  /\ IF b.mode = "malformed"
       THEN Reply(w, c, 400)
       ELSE /\ pc' = [pc EXCEPT ![c] = IF b.mode = "envelope" THEN "unwrap" ELSE "lookup"]
            /\ serving' = [serving EXCEPT ![w] = c]
            /\ UNCHANGED status
  /\ UNCHANGED <<now, store, wedged, decision, claims>>

\* An idle worker takes a call.  A body that fails schema or timestamp-format
\* validation is answered 400.  A legacy document brings its own attestation
\* id; every other call is given a fresh one, here the call's own name.
Receive(w, c, b, i) ==
  /\ serving[w] = NoCall
  /\ pc[c] = "unsent"
  /\ i # c => b.mode = "legacy" /\ i \in KnownIds
  /\ body' = [body EXCEPT ![c] = b]
  /\ attid' = [attid EXCEPT ![c] = i]
  /\ IF b.mode = "malformed"
       THEN Reply(w, c, 400)
       ELSE /\ pc' = [pc EXCEPT ![c] = IF b.mode = "envelope" THEN "unwrap" ELSE "lookup"]
            /\ serving' = [serving EXCEPT ![w] = c]
            /\ UNCHANGED status
  /\ UNCHANGED <<now, store, wedged, decision, claims>>

\* _unwrap_trust_envelope: an unsigned envelope fails before the device is
\* looked up; the seal is checked against the registered key; a proof whose two
\* timestamps disagree, or that fails the request schema, is refused last.
Unwrap(w, c) ==
  /\ At(w, c, "unwrap")
  /\ \/ body[c].seal = "unsigned" /\ Reply(w, c, 401)
     \/ /\ body[c].seal # "unsigned"
        /\ Usable(w, "device")
        /\ \/ body[c].proof.device \notin registry /\ Reply(w, c, 403)
           \/ /\ body[c].proof.device \in registry
              /\ \/ body[c].seal = "forged" /\ Reply(w, c, 401)
                 \/ body[c].seal = "inconsistent" /\ Reply(w, c, 400)
                 \/ body[c].seal = "good" /\ Goto(c, "lookup")
  /\ UNCHANGED <<now, store, wedged, body, attid, decision, claims>>

\* Mutants: the signature is not checked; the registry is not asked; any algorithm
\* but ed25519 passes in mock mode; a reason code that no document lists.
UncheckedSignature(p) ==
  IF p.algo = "ed25519" /\ p.device \in registry THEN "pass" ELSE "device_not_registered"

UncheckedDevice(p) ==
  IF p.algo = "ed25519" /\ ~p.genuine THEN "signature_invalid" ELSE "pass"

UncheckedAlgorithm(p) ==
  IF p.algo # "ed25519" THEN IF AllowMock THEN "pass" ELSE "mock_disabled"
  ELSE IF p.device \notin registry THEN "device_not_registered"
  ELSE IF ~p.genuine THEN "signature_invalid"
  ELSE "pass"

UndocumentedReason(p) ==
  IF p.device \notin registry THEN "unknown_device" ELSE "pass"

\* What steps 1 to 3 of _resolve_decision refuse a proof with, "pass" otherwise.
VerifierVerdict(p) ==
  IF p.algo = "other" THEN "unsupported_algo"
  ELSE IF p.algo = "mock" THEN IF AllowMock THEN "pass" ELSE "mock_disabled"
  ELSE IF p.device \notin registry THEN "device_not_registered"
  ELSE IF ~p.genuine THEN "signature_invalid"
  ELSE "pass"

\* Mutant: the replay check is skipped.
VerifyProofOnly(w, c) ==
  /\ At(w, c, "lookup")
  /\ body[c].proof.algo = "ed25519" => Usable(w, "device")
  /\ LET v == VerifierVerdict(body[c].proof)
     IN IF v = "pass"
          THEN Goto(c, "policy") /\ UNCHANGED decision
          ELSE Conclude(w, c, v)
  /\ UNCHANGED <<now, store, wedged, body, attid, claims>>

\* Algorithm, registration and signature.  Only ed25519 asks the registry.
VerifyProof(w, c) ==
  /\ At(w, c, "lookup")
  /\ body[c].proof.algo = "ed25519" => Usable(w, "device")
  /\ LET v == VerifierVerdict(body[c].proof)
     IN IF v = "pass"
          THEN Goto(c, "has_nonce") /\ UNCHANGED decision
          ELSE Conclude(w, c, v)
  /\ UNCHANGED <<now, store, wedged, body, attid, claims>>

\* The replay check reads the ledger ...
TestNonce(w, c) ==
  /\ At(w, c, "has_nonce")
  /\ Usable(w, "nonce")
  /\ IF HasNonce(Key(body[c].proof))
       THEN Conclude(w, c, "nonce_replay")
       ELSE Goto(c, "record_nonce") /\ UNCHANGED decision
  /\ UNCHANGED <<now, store, wedged, body, attid, claims>>

\* Mutant: the nonce is read and never written.
ClaimUnrecorded(w, c) ==
  /\ At(w, c, "record_nonce")
  /\ Usable(w, "nonce")
  /\ claims' = claims \cup {c}
  /\ Goto(c, "policy")
  /\ UNCHANGED <<now, store, wedged, body, attid, decision>>

\* ... and a later call to the store writes it.
ClaimNonce(w, c) ==
  /\ At(w, c, "record_nonce")
  /\ Usable(w, "nonce")
  /\ RecordNonce(Key(body[c].proof))
  /\ claims' = claims \cup {c}
  /\ Goto(c, "policy")
  /\ UNCHANGED <<now, registry, requests, attestations, wedged, body, attid, decision>>

\* Mutant: the clock skew is granted to old proofs as well.
LenientVerdict(p, gate) ==
  IF gate \in PreambleGates THEN gate
  ELSE IF p.ts > now + MaxClockSkew THEN "future_timestamp"
  ELSE IF now - p.ts > MaxProofAge + MaxClockSkew THEN "stale_timestamp"
  ELSE "ok"

\* The policy preamble, the opt-in signal gates and the power limit, in the
\* code's order.  `gate` is what the operator's gates say of this proof.
PolicyVerdict(p, gate) ==
  IF gate \in PreambleGates THEN gate
  ELSE IF p.ts > now + MaxClockSkew THEN "future_timestamp"
  ELSE IF now - p.ts > MaxProofAge THEN "stale_timestamp"
  ELSE IF gate \in SignalGates THEN gate
  ELSE IF p.power > MaxPower THEN "max_power_exceeded"
  ELSE IF p.algo = "mock" /\ p.power < MinPower THEN "below_minimum_power"
  ELSE "ok"

\* The policy set is loaded anew on every call: a bad value in it is answered
\* 400, an unreadable file 500.  The anomaly gate reads the stored attestations.
EvaluatePolicy(w, c) ==
  /\ At(w, c, "policy")
  /\ \/ \E gate \in Gates \cup {"pass"} :
          /\ "ai_anomaly_flagged" \in Gates => Usable(w, "document")
          /\ Conclude(w, c, PolicyVerdict(body[c].proof, gate))
     \/ /\ "policy_config" \in Faults
        /\ \E code \in {400, 500} : Reply(w, c, code)
        /\ UNCHANGED decision
  /\ UNCHANGED <<now, store, wedged, body, attid, claims>>

\* Mutant: only the attestation is stored.
SignForAttestation(w, c) ==
  /\ At(w, c, "sign")
  /\ Goto(c, "put_attestation")
  /\ UNCHANGED <<now, store, wedged, body, attid, decision, claims>>

\* _sign_or_stub: without a key the call is answered 503, unless mock mode is on.  A
\* key that does not decode raises ValueError in either mode: a request's handler
\* takes that for a bad request, a legacy document's does not catch it here.
Sign(w, c) ==
  /\ At(w, c, "sign")
  /\ \/ Goto(c, IF body[c].mode = "legacy" THEN "put_attestation" ELSE "put_request")
     \/ "no_key" \in Faults /\ ~AllowMock /\ Reply(w, c, 503)
     \/ "bad_key" \in Faults /\ Reply(w, c, IF body[c].mode = "legacy" THEN 500 ELSE 400)
  /\ UNCHANGED <<now, store, wedged, body, attid, decision, claims>>

\* Mutant: the client is answered before the attestation is stored.
PutRequestAndReply(w, c) ==
  /\ At(w, c, "put_request")
  /\ Usable(w, "document")
  /\ requests' = requests \cup {c}
  /\ Reply(w, c, 200)
  /\ UNCHANGED <<now, registry, ledger, attestations, wedged, body, attid, decision, claims>>

\* The request document, which names the attestation id, is stored first.
PutRequest(w, c) ==
  /\ At(w, c, "put_request")
  /\ Usable(w, "document")
  /\ requests' = requests \cup {c}
  /\ Goto(c, "put_attestation")
  /\ UNCHANGED <<now, registry, ledger, attestations, wedged, body, attid, decision, claims>>

\* A legacy document keeps the device id its sender wrote beside the proof.
Document(c) ==
  [device |-> IF body[c].mode = "legacy" THEN body[c].device ELSE body[c].proof.device,
   proof |-> body[c].proof, reason |-> decision[c], via |-> body[c].mode]

\* An upsert in every backend.
PutAttestation(w, c) ==
  /\ At(w, c, "put_attestation")
  /\ Usable(w, "document")
  /\ attestations' = [attestations EXCEPT ![attid[c]] = Document(c)]
  /\ Reply(w, c, 200)
  /\ UNCHANGED <<now, registry, ledger, requests, wedged, body, attid, decision, claims>>
-----------------------------------------------------------------------------
(* Registration, the clock, and what goes wrong. *)

\* register_device with a valid key and proof of possession: one upsert.  The id
\* is a hash of the key, so a second registration never changes the key.
RegisterDevice(w, d) ==
  /\ serving[w] = NoCall
  /\ Usable(w, "device")
  /\ registry' = registry \cup {d}
  /\ UNCHANGED <<now, ledger, requests, attestations, wedged, handler, body, attid,
                 decision, claims>>

\* Bounds: the clock stops at MaxTime, and no handler pauses longer than
\* MaxPause between recording its nonce and reading the clock.
Tick ==
  /\ now < MaxTime
  /\ \A c \in Calls : pc[c] = "policy" => now < ledger[Key(body[c].proof)] + MaxPause
  /\ now' = now + 1
  /\ UNCHANGED <<store, wedged, handler, body, attid, decision, claims>>

\* The handler's next statement is a call to the store, and for which data.
CallsStore(c) ==
  \/ pc[c] \in {"has_nonce", "record_nonce", "put_request", "put_attestation"}
  \/ pc[c] = "unwrap" /\ body[c].seal # "unsigned"
  \/ pc[c] = "lookup" /\ body[c].proof.algo = "ed25519"
  \/ pc[c] = "policy" /\ "ai_anomaly_flagged" \in Gates

DataCalled(c) ==
  IF pc[c] \in {"unwrap", "lookup"} THEN "device"
  ELSE IF pc[c] \in {"has_nonce", "record_nonce"} THEN "nonce"
  ELSE "document"

\* Mutant: a call that raises is made again.
StorageRetries(w, c) ==
  /\ serving[w] = c
  /\ CallsStore(c)
  /\ "storage" \in Faults \/ ~Usable(w, DataCalled(c))
  /\ wedged' = IF OnPostgres(DataCalled(c)) THEN wedged \cup {w} ELSE wedged
  /\ UNCHANGED <<now, store, handler, body, attid, decision, claims>>

\* A call to the store raises: no handler catches it, the client gets 500.  The
\* effect may have reached the store before the answer was lost.  On postgres
\* nothing rolls the connection back, so from then on every call to it raises.
StorageFails(w, c) ==
  /\ serving[w] = c
  /\ CallsStore(c)
  /\ \/ "storage" \in Faults /\ Backend # "memory"
     \/ ~Usable(w, DataCalled(c))
  /\ \/ UNCHANGED store
     \/ /\ Usable(w, DataCalled(c))
        /\ \/ /\ pc[c] = "record_nonce" /\ RecordNonce(Key(body[c].proof))
              /\ UNCHANGED <<registry, requests, attestations>>
           \/ /\ pc[c] = "put_request" /\ requests' = requests \cup {c}
              /\ UNCHANGED <<registry, ledger, attestations>>
           \/ /\ pc[c] = "put_attestation"
              /\ attestations' = [attestations EXCEPT ![attid[c]] = Document(c)]
              /\ UNCHANGED <<registry, ledger, requests>>
  /\ wedged' = IF OnPostgres(DataCalled(c)) THEN wedged \cup {w} ELSE wedged
  /\ Reply(w, c, 500)
  /\ UNCHANGED <<now, body, attid, decision, claims>>

\* A registration, or a read of one of the other endpoints, raises on an idle
\* worker: the upsert may have happened, and a postgres connection is lost.
OtherCallFails(w) ==
  /\ "storage" \in Faults /\ Backend # "memory"
  /\ serving[w] = NoCall
  /\ Usable(w, "device")
  /\ \/ UNCHANGED registry
     \/ \E d \in Devices : registry' = registry \cup {d}
  /\ wedged' = IF OnPostgres("device") THEN wedged \cup {w} ELSE wedged
  /\ UNCHANGED <<now, ledger, requests, attestations, handler, body, attid, decision,
                 claims>>

\* The process dies and is started again.  The memory backend dies with it.
Crash(w) ==
  /\ "crash" \in Faults
  /\ IF serving[w] = NoCall THEN UNCHANGED handler ELSE Reply(w, serving[w], LostAnswer)
  /\ wedged' = wedged \ {w}
  /\ IF Backend = "memory"
       THEN /\ registry' = {}
            /\ ledger' = [k \in Keys |-> Never]
            /\ requests' = {}
            /\ attestations' = [i \in Calls |-> NoDoc]
       ELSE UNCHANGED store
  /\ UNCHANGED <<now, body, attid, decision, claims>>
-----------------------------------------------------------------------------
Init ==
  /\ now = 0
  /\ registry = {}
  /\ ledger = [k \in Keys |-> Never]
  /\ requests = {}
  /\ attestations = [i \in Calls |-> NoDoc]
  /\ wedged = {}
  /\ serving = [w \in Workers |-> NoCall]
  /\ pc = [c \in Calls |-> "unsent"]
  /\ body = [c \in Calls |-> NoBody]
  /\ attid = [c \in Calls |-> c]
  /\ decision = [c \in Calls |-> "none"]
  /\ status = [c \in Calls |-> NoAnswer]
  /\ claims = {}

HandlerStep(w, c) ==
  \/ Unwrap(w, c)
  \/ VerifyProof(w, c)
  \/ TestNonce(w, c)
  \/ ClaimNonce(w, c)
  \/ EvaluatePolicy(w, c)
  \/ Sign(w, c)
  \/ PutRequest(w, c)
  \/ PutAttestation(w, c)
  \/ StorageFails(w, c)

Next ==
  \/ \E w \in Workers, c \in Calls : HandlerStep(w, c)
  \/ \E w \in Workers, c \in Calls, b \in Bodies, i \in Calls : Receive(w, c, b, i)
  \/ \E w \in Workers, d \in Devices : RegisterDevice(w, d)
  \/ \E w \in Workers : OtherCallFails(w)
  \/ \E w \in Workers : Crash(w)
  \/ Tick

Spec == Init /\ [][Next]_vars

\* A running process runs its handlers: they never wait for anything but the
\* store, which answers or raises.
Fairness == \A w \in Workers : WF_vars(\E c \in Calls : HandlerStep(w, c))

FairSpec == Spec /\ Fairness
-----------------------------------------------------------------------------
(* Properties. *)

\* Every variable keeps to its type.
TypeOK ==
  /\ now \in Nat
  /\ registry \subseteq Devices
  /\ ledger \in [Keys -> Nat \cup {Never}]
  /\ requests \subseteq Calls
  /\ attestations \in [Calls -> Docs \cup {NoDoc}]
  /\ wedged \subseteq Workers
  /\ serving \in [Workers -> Calls \cup {NoCall}]
  /\ pc \in [Calls -> InHandler \cup {"unsent", "done"}]
  /\ body \in [Calls -> Bodies \cup {NoBody}]
  /\ attid \in [Calls -> Calls]
  /\ decision \in [Calls -> Reasons \cup {"none"}]
  /\ status \in [Calls -> {NoAnswer, 200, 400, 401, 403, 500, 503, LostAnswer}]
  /\ claims \subseteq Calls

\* What the Verifier lets through to the nonce check.
Verified(p) ==
  \/ p.algo = "ed25519" /\ p.genuine /\ p.device \in registry
  \/ p.algo = "mock" /\ AllowMock

\* A nonce in the ledger was spent by a proof of that device and nonce that the
\* Verifier had accepted: a proof with a bad signature, or of a device that is
\* not registered, burns nothing (docs/conformance.md:249-251), whatever the
\* workers' interleaving and whichever calls fail half way.
SpentByVerifiedProof ==
  \A k \in Keys : ledger[k] # Never =>
    \E c \in Calls : /\ body[c] # NoBody
                     /\ Key(body[c].proof) = k
                     /\ Verified(body[c].proof)

\* A nonce gets past the replay check in one call only: no two calls record the
\* same nonce of the same device, however their handlers interleave and
\* whatever fails between the check and the answer.
NonceClaimedOnce ==
  \A c, d \in claims : Key(body[c].proof) = Key(body[d].proof) => c = d

\* A device's proof is granted in one call only, though the ledger forgets its
\* nonce: by then the freshness check refuses the proof.
ProofGrantedOnce ==
  \A c, d \in Calls :
    /\ decision[c] = "ok"
    /\ decision[d] = "ok"
    /\ body[c].proof = body[d].proof
    => c = d

\* What is stored as allowed was allowed by a call that verified the proof and
\* recorded its nonce; a legacy call stores nothing else.
StoredIsEarned ==
  \A i \in Calls : attestations[i] # NoDoc =>
    /\ attestations[i].via = "legacy" => attestations[i].reason = "ok"
    /\ attestations[i].reason = "ok" =>
         /\ Verified(attestations[i].proof)
         /\ \E c \in claims : /\ body[c].proof = attestations[i].proof
                              /\ decision[c] = "ok"

\* A client that was answered 200 finds its request, and under the id it was given
\* its attestation, or one that has taken its place: that of a legacy call that
\* named the id too, or, where the client's own legacy document took the id of
\* another call's request before the attestation of that was stored
\* (oracle.py:507-512), the attestation the id was made for.  So a request's own is
\* lost to legacy calls only.  (Not of the memory backend across a restart.)
AnsweredIsReadable ==
  (Backend = "memory" => "crash" \notin Faults) =>
    \A c \in Calls : status[c] = 200 =>
      /\ body[c].mode # "legacy" => c \in requests
      /\ attestations[attid[c]] # NoDoc
      /\ \/ attestations[attid[c]] = Document(c)
         \/ \E d \in Calls : /\ d # c /\ attid[d] = attid[c]
                             /\ body[d].mode = "legacy" \/ d = attid[c]
                             /\ attestations[attid[c]] = Document(d)

\* A stored request names an attestation that does not exist only while its
\* handler is between the two writes or after it failed there.
DanglingOnlyAfterFailure ==
  \A c \in requests :
    \/ attestations[attid[c]] # NoDoc
    \/ pc[c] = "put_attestation"
    \/ status[c] \in {500, LostAnswer}

\* No decision on a request is lost, whatever it was: its client is told of it, and
\* finds request and attestation stored, or is told that the call failed.  That is
\* an error of the server's, and 400 where its own key is malformed.
DecisionIsOnRecord ==
  (Backend = "memory" => "crash" \notin Faults) =>
    \A c \in Calls :
      /\ decision[c] # "none"
      /\ pc[c] = "done"
      /\ body[c].mode # "legacy"
      => \/ status[c] \in {500, LostAnswer}
         \/ status[c] = 503 /\ "no_key" \in Faults
         \/ status[c] = 400 /\ "bad_key" \in Faults
         \/ status[c] = 200 /\ c \in requests /\ attestations[attid[c]] # NoDoc

\* A stored attestation is replaced only by a legacy document whose own proof was
\* allowed, or, if it is a legacy document itself, by the first and only write of
\* the request whose id it took (oracle.py:512): no request ever loses its
\* attestation to another request.  Nothing but the death of an in-memory store
\* removes one.
ReplacedByLegacyOrOwner ==
  [][\A i \in Calls :
       attestations[i] # NoDoc /\ attestations'[i] # attestations[i] =>
         \/ Backend = "memory" /\ attestations'[i] = NoDoc
         \/ attestations'[i].via = "legacy" /\ attestations'[i].reason = "ok"
         \/ /\ attestations[i].via = "legacy"
            /\ attestations'[i] = Document(i)
            /\ pc[i] # "done" /\ pc'[i] = "done"]_vars

\* Every call a worker takes is answered, or its process dies: no interleaving,
\* fault or failed connection leaves a handler waiting.
EveryCallEnds == \A c \in Calls : body[c] # NoBody ~> status[c] # NoAnswer
=============================================================================
