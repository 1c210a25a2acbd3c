# Axis Core in TLA+

A formal model of Axis Core: the oracle that attests device proofs over a
pluggable store, the Policy Engine that decides about them, the market endpoint
that advises devices under it, the way of a proof from the device to the ledger,
and the Manifest Registry that publishes device manifests under Merkle roots.
TLC checks the models on small instances; TLAPS proves all but one of the
properties the passing runs check, for every instance. Paths below are relative
to the repository.

## The system

| Component | State | Operations |
| :--- | :--- | :--- |
| Oracle API (`axis_core/api/oracle.py`) | none of its own | `POST /oracle/attest` in three modes (Trust Envelope, legacy attestation document, attestation request); GETs that read |
| Storage (`axis_core/storage`) | devices, used nonces, attestations, requests | one upsert, insert or read per call, in memory, Redis, PostgreSQL, or Redis for nonces and PostgreSQL for the rest |
| Provisioning and device registry (`axis_core/services`, `axis_core/api/provisioning.py`, `registry.py`) | devices | register a device with proof of possession; decide a proof under the bootstrap policy; serve a record |
| Policy Engine (`axis_core/policy`) | none; a policy set loaded anew per call from environment, file, defaults | preamble, reward, AI anomaly, sterility, trade |
| AI signals (`axis_core/ai`) | none | anomaly over the stored history; forecast |
| Market (`axis_core/ai/recommender.py`, `axis_core/api/market.py`) | none | recommend an action, decide whether the device may take it |
| Manifest Registry (`oracle/registry/app.js`) | a Map of manifests, an array of snapshots, in memory | publish, get, snapshot, current root, membership proof |
| Wire format, signatures (`axis_core/wire`, `signature_utils.py`) | none | canonical messages, sign, verify; seal and validate an envelope |
| Clients (`axis_core/sdk`, `scripts`) | none | build and sign a proof, wrap it, register, page through attestations |
| EVM adapter (`axis_core/adapters/evm.py`, `scripts`) | none | an attestation or an answer to calldata |

The oracle calls the store four to six times per request: it looks up the
device, tests the nonce, records it, (optionally) reads the history, stores the
request and stores the attestation. The handlers are coroutines that never
await, so one process serves one request at a time; several processes over one
Redis or PostgreSQL interleave between those calls. The registry is one Node
process whose handlers run to completion. The oracle and the registry do not
call each other.

What is hard: the replay check is two calls, not one; the nonce is spent long
before the answer is stored, and each call in between may raise, lose its
process or lose its effect's acknowledgement; Redis forgets nonces while proofs
are still fresh; one proof travels in several forms and spellings, in any order
and any number of times, and is stored in less than it said; a failed statement aborts the transaction of a process's one
PostgreSQL connection for good; legacy documents choose their own id; the
policy set changes between two requests; the registry's manifests are replaced
after they were snapshotted. `PROJECT.json` lists each hazard at its line.

What makes each part correct:

- oracle: a proof is granted once; only a verified proof spends a nonce; what
  is stored as allowed was earned; what was answered can be read; every call ends;
- Policy Engine: relaxing a rule never refuses; a report that may be minted may
  still be minted on a retry; the device's clock stays bound to the mint;
- market: a device that follows its advice owes nothing and loses no energy of its
  own; its trades settle or repeat one fixed amount;
- delivery: what is granted is what the device signed, in whatever form it came;
  what is stored can be verified; what a ledger is told is what was decided;
- anomaly gate: the backend's order decides only which report comes last; a steady
  device passes; a device that has risen for good is not refused for ever;
- registry: every proof served verifies and proves only its manifest; positions
  do not move; a proof stays available until its manifest changes.

## Modules

| Module | Models |
| :--- | :--- |
| `OracleAttest` | the attestation endpoint over the store: workers, calls, faults, clock |
| `NonceGuard` | the abstract promise of replay protection: claim, burn, grant |
| `OracleGuard` | `OracleAttest` seen as a `NonceGuard` (the refinement mapping) |
| `OracleAttestProofs` | types, verified spending, earned attestations, for every instance |
| `OracleOnceProofs` | granted once, claimed once, the refinement, under named hypotheses; what the abstract guard promises |
| `OracleStoredProofs` | what becomes of a decision: stored, answered, readable |
| `PolicyEngine` | the loading of the policy set and the five decisions |
| `Recommender` | the recommender's rules, and what following its advice does |
| `Market` | `PolicyEngine` and `Recommender` composed: `POST /market/recommend` |
| `PolicyProofs` | relaxing, retrying and the device's clock, for every policy set and call; where following advice leads, for every market |
| `Wire` | canonical messages, ideal signatures, proofs as clients build them, envelopes |
| `Delivery` | registration, arrival of proofs in every form, the stored attestation, its readers |
| `DeliveryProofs` | all properties of `Delivery`, for any keys and proofs |
| `MerkleTree` | build, prove and verify over an ideal hash |
| `MerkleProofs` | a proof leads from its leaf to the root and from no other, for trees of any size |
| `ManifestRegistry` | the registry's endpoints and restarts |
| `RegistryProofs` | all properties of the registry, for any ids, payloads and bounds |
| `AnomalyHistory` | the history the anomaly gate collects, the detector, the refusal |
| `HistoryProofs` | all properties of the anomaly gate, for any reports and limits |
| `MC*` | the instances TLC checks |

### OracleAttest

One action is one call to the store with the local computation that follows it.
`pc[c]` is where call `c`'s handler stands: `unwrap` (Trust Envelope only),
`lookup`, `has_nonce`, `record_nonce`, `policy`, `sign`, `put_request`,
`put_attestation`, `done`. `serving[w]` is the call worker `w` runs, and it takes
another one only when that has ended. The store is `registry` (devices),
`ledger` (per device and nonce, the second it was recorded), `requests` and
`attestations`; `wedged` holds the workers whose PostgreSQL connection sits in
an aborted transaction. `claims` is a history variable.

A proof is a record with a flag `genuine` (its signature verifies under the key
its device id is the hash of); a body adds the mode and how an envelope is
sealed. JSON Schema validation, encodings and signing are abstracted to what
they decide. The opt-in gates (mint pause, device state, anomaly, sterility)
refuse nondeterministically, those in `Gates` only: policy set and history are
free to be anything. Refused requests are signed and stored like allowed ones,
except in legacy mode, where they are answered 403; so `Conclude` says.

Faults, each switched on by `Faults`: `storage` (a call to the store raises, its
effect done or not; on PostgreSQL the connection is lost to that worker),
`crash` (the process dies anywhere and restarts, its memory backend empty),
`policy_config` (the set does not load), `no_key` (no oracle key), `bad_key` (one
that does not decode, which raises ValueError in mock mode too: a request is
answered 400, a legacy document, signed outside the handler's `try`, 500).

A legacy document names its own attestation id. `KnownIds` is what its sender can
know: ids of other legacy documents, ids that were answered, and ids that a stored
request document already names, which is before their attestation is stored.
`AnsweredIsReadable` and `ReplacedByLegacyOrOwner` say who may lose a document to whom.

Bounds: `MaxTime` stops the clock; `MaxPause` bounds how long a handler pauses
between recording its nonce and reading the clock; a call is sent once.

`Fairness` is weak fairness of each worker's handler step. It is what a running
event loop gives: handlers never wait for one another, and every call to a store
returns or raises. Nothing is assumed of clients, the clock, faults or
registrations. A worker that crashes for ever starves nobody else: a crash ends
the call it was serving.

### PolicyEngine

Each method is a list of rules in the code's order; the first broken one gives
the reason. Fractions (scores, thresholds, basis points) are scaled to integers.
A decision is asked for once per edit of the configuration, which loses nothing
since the engine keeps no state. A policy set of `None` acts as
`ProtocolDefaults`. A setting is the value the code reads it as: any text but a true
word is a switch that is off, a blank one is not set, and a number that does not
parse is one out of bounds, since both refuse the set. `Sets` says what a file or
an environment may set, and the five sets of calls (`PreambleCalls` and so on) the
kinds of the methods' arguments, the sterility call's thresholds of its own included.

### Recommender and Market

Prices and energies are integers, factors percentages; `WholeReserve` says that
the reserve of a fifth of the capacity is a whole number of the unit, so that no
rounding enters. Confidence and rationale are left out. `Followed` is the market
after a device did as it was told: a SELL takes its volume from storage, a BUY
adds it. `MarketRecommend` is a decision beside those of `PolicyEngine`, under
the policy set that loads at that moment; bad inputs are refused before it is
loaded, and a set that does not load is not caught there (500).

A BUY fills the reserve without looking at what will be produced. Where reserve
and production together exceed the capacity (`Crowded` is by how much), the device
buys and is told to sell the overflow in turn, for as long as it asks. The two
properties of `Market` hold there too, and say what happens: only bought energy
overflows, and every trade after the first is for the crowded amount. Where
nothing is crowded, storage stays within its limits and two trades are enough.

### Wire and Delivery

`Wire` has the proof as [device, nonce, ts, algo, payload, signature]. A signature
is the pair of a key and a message, so that a signature verifies exactly over the
message it was made of, and a message is a record of what the canonical JSON
spells. A number is a value and whether it is written with a fraction:
`Normalize` is what makes 2.0 and 2 one message. Powers count in half watts, so that
some lie between two whole watts; `RoundedDown` are those whose binary product with
1000 comes out a little below its whole watts, such as 4.007 kW, and `Watts` is what
the adapter's `int` then makes of a power: at most one watt less. A timestamp is its second and its
form, since the text is what is signed. The SDK puts the timestamp into the
payload as well (`BuildProof`); the demo client signs the message as it is spelled
(`DemoProof`).

`Delivery` has four variables: `config` (mock mode, the oracle's key), `devices`,
`ledger` and `attestations`. `RegisterDevice` and `Attest` are the two handlers
that change state, each one step, as in one process over the memory backend. The
network is `Arrivals`: every proof the clients built, bare or in an envelope
sealed by any device, with its numbers respelled, with any one field damaged or
its header's entity left out. Any
of them may arrive at any time, again and again, so loss, delay, duplication and
reordering need no action of their own. `Registrations` holds the genuine ones and
those without or with another device's signature.

What happens to an attestation later is a function of it, and a property asks the
function at every state: `Listing` (a reader's pages), `Response` (what the client
was answered), `FullAttestation` and `DenyAttestation` (the documents the scripts
make of an answer), `BuildAttestationParams` and `Calldata` (what the ledger is
told), `RespellAttestation` (the same read by another JSON library).
`AttestDeviceProof`, provisioning's own verdict, changes no state either.
`WellFormed` and `SignedBy` say what `Proofs` may be: proofs some client can build,
unsigned or signed by the SDK or the demo client with some device's key.

`OracleAttest` abstracts all of this to the flag `genuine` and the `seal` of a body
and has in return the interleavings, the faults and the policy gates.

### AnomalyHistory

One device's reports, as the opt-in anomaly gate sees them. A report is the
number its nonce spells (or none: a nonce is any string, and several spell one
number) and its power. `past` is the bag of what is stored for the device, kept
as a sequence in one canonical order; `Retrieved` gives every sorted list that
may come of it, since reports with equal numbers keep the order in which the
backend returned them, which only the memory backend fixes. Sorted lists and
medians are stated as what they are: a permutation in order, and the middle two of
the k-th smallest powers. `AiHistory` puts the
current report behind its equals and cuts the list, `Score` is the larger of the
spike's and the gap's, in units of 1/`One`. Numbers are not negative: a negative one
would sort in front of the reports without one, which a nonce counted up from 0
never does. `LimitsAssumption` says of the code's constants (20, 5, 2.0 and 1) what
the proofs need: an even history, a factor of two or more, a tolerance of one or more. `Attest` is a request under the gate,
stored whatever the verdict; `AttestLegacy` a legacy document, stored only when
allowed; `StoreUnseen` an attestation the gate had no say in. A legacy document
names its id and the store is an upsert: both may replace a stored report (`Left`),
and `Overwrite` is another device's document that takes one out of this history. One worker serves
the device: with two, a decision may be taken before the other's attestation is
stored, and `RefusalsEnd` would count those too. `OracleAttest` sees this gate as
a refusal that may come or not; here it is computed.

### MerkleTree and ManifestRegistry

A digest is the term that was hashed, so a collision is impossible by
construction; leaves and nodes hash inputs of different lengths and are tagged.
A payload is a value, the order of its keys, and whether it was sent as an
object or as a string that spells it out: `canonicalize` drops the last and
keeps the order. Ids are 16-byte strings, 16-digit numbers, arrays whose text has
16 bytes, or anything else. A number passes the length check, is stored as a number,
is not found by a URL, and makes `createSnapshot` throw: with one published,
`TakeSnapshot` is answered 500 and nothing is kept, until a restart. An array passes
and is not found either; the parser makes a new object of each one sent, so it is a
new key every time, and `Buffer.from` makes one byte of each of its elements
(`ArrayBytes`), which the leaf is hashed over. The tree's levels, a node's index on
each of them and the verifier's running digest are recursive functions of the level,
since a proof is to be made about them.

## Runs

| Run | Instance | Shows |
| :--- | :--- | :--- |
| `workers` | 2 workers, 2 calls, 1 device, 2 nonces, PostgreSQL, `storage`, `crash` and `bad_key` | `TypeOK`, `SpentByVerifiedProof`, `StoredIsEarned`, `AnsweredIsReadable`, `DanglingOnlyAfterFailure`, `DecisionIsOnRecord`, `ReplacedByLegacyOrOwner`, `EveryCallEnds` |
| `single` | 1 worker, 3 calls, 2 devices, all faults, two gates, bodies refused before a decision | `NonceClaimedOnce`, `ImplementsNonceGuard` |
| `expiry` | 1 worker, 3 calls, Redis, age 1, skew 1, pause 1, ttl 4 (not the repository's, which is the age), crashes, mock mode | `ProofGrantedOnce` with the smallest ttl that is enough; `SpentByVerifiedProof`, `StoredIsEarned` |
| `race` | 2 workers, no fault | `ProofGrantedOnce` fails |
| `ttl` | 1 worker, Redis, ttl = age, a proof stamped one second ahead | `ProofGrantedOnce` fails |
| `registry` | 2 text ids, 3 arrays, a number, a short id, 3 payloads, 2 snapshots | `TypeOK`, `ServedProofVerifies`, `PositionsNeverMove`, `StaysProvable` |
| `registry_keys` | 1 id, 2 key orders | `ProvableByValue` fails |
| `policy` | 3 files, 8 environments, about 3,000 calls, 2,162 market calls | `LooseningKeepsAllowed`, `RetryStaysAdmissible`, `DeviceClockBound`, `OnlyBoughtIsLost`, `TradesSettleOrRepeat` |
| `history` | 5 reports of one device, 4 nonce numbers or none, 3 powers, a history of 4, 2 thresholds | `VerdictIgnoresEnumeration`, `SteadyReportPasses`, `RefusalsEnd` |
| `history_order` | the same | `CurrentReportIsLast` fails |
| `delivery` | 2 devices, 7 proofs in every form and damage, 2 attestations | `GrantedIsSigned`, `FormsAgree`, `GrantedOnceInAnyForm`, `AuditVerifies`, `OnChainAgrees`, `ProvisioningNeverLaxer`, `StillVerifies`, `PagesAddUp` |
| `delivery_audit` | the same, 1 attestation | `StoredProofIsIncoming` fails |

Why the bounds are enough. Two workers and two calls hold every race on one
nonce, since a handler touches one key and a third call can only repeat the
second; the two nonces let a legacy document be granted beside a stored
attestation whose id it names, or before the write of a request whose id it read.
Three calls of one worker hold a proof, its retry and a forgery between them, with
a fault anywhere. In `expiry` five seconds let a
nonce recorded at 0 expire, and the proof ages of 0, 1 and 2 straddle the window
on both sides; with a ttl of 3 instead of 4 TLC finds a proof granted twice, so
the bound in the theorem is tight. Five leaves (two texts' and three arrays') is the least number whose tree has
an odd level twice in a row, and two snapshots the least of which one may be out
of date. The policy instance has every limit, window and threshold met, missed by
one and exceeded by one. In `history` five reports fill a history of four and push
one out; two low reports and three high ones in a row are the shortest run that
could break `RefusalsEnd`; a spike needs three samples there, so that baselines
of two and of three, both kinds of median, occur; a gap of three has the full
score. The markets have storage and production around empty, reserve and full, and
prices on both sides of each of the four thresholds. In `delivery` two
attestations are what any two copies of a proof need, and what a reader needs for
two pages; the proofs lie on both sides of 0.1, 3.5 and 5 kW, in both
spellings, with each form of timestamp, and the two readings of the clock make a
proof fresh and stale.

Where the calls and the clock are bounded the system really stops (every call
answered, the clock at its bound), so `MCOracleWorkers`, `MCOracleSingle`,
`MCOracleExpiry`, `MCOracleTTL`, `MCOracleRace`, `MCHistory` and
`MCHistoryOrder` (`MaxReports` stored), `MCDelivery` and `MCDeliveryAudit`
(`MaxDocs` stored) switch the deadlock check off; the other configurations keep it on.

### Where the code and its documents disagree

- `race`: `has_nonce` and `record_nonce` (`api/oracle.py:324-326`) are not atomic
  across workers, though `storage/base.py:13` asks backends to be safe for
  concurrent workers. The interface itself is the obstacle: `record_nonce`
  returns nothing, so even Redis' `SET NX` cannot tell the loser. `NonceGuard`
  states what is needed.
- `ttl`: Redis keeps a nonce for `MAX_PROOF_AGE_SECONDS` from its recording
  (`redis_backend.py:67`), a proof is fresh for that long from its own timestamp, which
  may lie ahead by the clock skew. In the run a proof stamped 1 is granted at 0 and
  again at 2, aged 1 of 2. The age limit is inclusive and the ttl is not, so a proof
  recorded in the second of its timestamp is exposed too, for one second.
- `registry_keys`: `canonicalize` keeps the sender's key order; the README next
  to it says sorted keys.
- `history_order`: `_ai_history` says that the current report is the last element,
  but sorts the list by nonce after appending it (`api/oracle.py:260-262`).
- `delivery_audit`: `schemas/attestation.schema.json:36` calls the stored proof the
  "incoming device proof object", but of its payload only `max_power_kw` is stored
  (`api/oracle.py:417`). Proofs of the SDK have more in it, so a reader cannot verify
  the device's signature. `AuditVerifies` says for which proofs one can.

Seen while modelling and checked by no run of its own:

- `ai/anomaly.py:22-24` tolerates "one skipped nonce", but the gap it compares is
  the difference of two nonces, which is 2 when one is skipped; it then scores 0.4.
- The tier's monthly limit is also applied under the device-state switch, with the
  device-state reason (`policy/models.py:102`; `docs/policy-engine.md:51-52` names
  the tier switch).
- The demo client signs integral numbers as floats (`scripts/axis_client.py:78-83`)
  though it claims the canonical message: with `--max-power-kw 3` its proof is
  `signature_invalid`.
- The SDK's `submit_proof` with a public key and no signing key sends an unsigned
  envelope, which is answered 401; `ProofPayload.signed_bytes` is not what is signed;
  the default of `timestamp` in `wire/payloads.py` is taken once, at import, though
  line 22 says at call time.
- An envelope loses an algorithm other than `ed25519` and an empty timestamp, which
  is why `FormsAgree` excludes both.
- `oracle/registry/app.js:143` measures `String(manifest_id)`, so that
  `["manifest-test-01"]` passes as 16 bytes (`app.js:144`: "manifest_id must be exactly
  16 bytes"), while its leaf in a snapshot is hashed over one zero byte. No proof of it
  is ever served, and the run `registry` shows that the others still verify.
- A malformed `ORACLE_SECRET_KEY` is answered 400, as if the client's body were bad
  (`oracle_keys.py:20-24`, `api/oracle.py:525`), after the nonce was spent.
- The id of an attestation is public before the attestation is stored
  (`api/oracle.py:507-512`): a legacy document granted under it in between is answered
  200 and then replaced.
- `int(max_power_kw * 1000)` (`adapters/evm.py:87`) loses a watt for some whole numbers
  of watts, such as 1001 and 4007.
- A stored denial carries `limit_kw`, which `attestation.schema.json` forbids.
- The oracle grants up to 5 kW to a device whose bootstrap policy says 3.5.
- Pages of the listing add up over the memory backend only: Redis and PostgreSQL
  enumerate in no fixed order (`redis_backend.py:84`, `postgres_backend.py:144`).

## Proofs

`OracleAttestProofs` and `OracleOnceProofs` hold for any sets of workers, calls,
devices, nonces and bodies, any backend, gates, faults and bounds, from the
assumptions named in `OracleAttest`: bodies are typed, the idle marker is no
call, the memory backend belongs to one process.

- `TypeCorrect`: `Spec => []TypeOK`. `TypeOK` is not inductive: a step reads the
  body of the call it serves, so the invariant `Inv` adds `Control`, that a call
  served by a worker has a body, its worker is unique and its `pc` lies in a handler.
- `NonceSpentByVerifiedProof` and `AllowedIsEarned`: the strengthening is
  `Vetted`, that a call past `lookup` carries a proof the Verifier accepts, and
  past `record_nonce` is in `claims`. It survives because `registry` only grows,
  except with the death of a memory backend, which takes ledger and attestations
  with it and ends its one worker's call. `EarnedInv` adds the two properties.
- `GrantedOnce`: under `OneWorker`, `StoreSurvives` (the store outlives the
  process) and either a ledger that keeps nonces for ever or
  `TTLCovers` (ttl greater than proof age, skew and pause together), no proof is
  granted twice. `OnceInv` relates each claim to its ledger entry and each grant
  to the clock: while a granted proof is fresh its nonce is in the ledger. The
  runs `race` and `ttl` show that the first and the last hypothesis are needed;
  the second is needed because a fresh proof outlives an empty ledger.
- `ClaimedOnce` and `GuardImplemented`: with one worker and a ledger that keeps
  nonces for ever, a nonce is claimed once and every step of the endpoint is a
  step of `NonceGuard` or leaves it alone.
- `GuardSuffices`: whatever implements `NonceGuard`, with any workers, backend and
  faults, claims a nonce and grants a proof in one call only (`GuardInv`: a held key
  is spent and has one holder, who is granted holds one). So the abstract guard
  promises enough, and what the run `race` lacks is a claim in one step.

`OracleStoredProofs` holds under the same assumptions, with any number of workers.

- `OnlyLegacyOrOwnerReplaces`, `AnsweredStaysReadable`, `NoOtherDangling` and
  `DecisionsRecorded`: none is inductive, since each speaks of two of the store,
  the handler's place and the answer, and a step moves them one at a time. `Filed`
  relates them: a call writes under its own name unless it is a legacy call; an id
  that a document or another call has is `Settled`, its own call at or past its last
  write or a legacy one; what stands under the id of a request that has not made that
  write is a legacy document; a call has an answer exactly when it is done; a stored request is past
  its first write and, if the store is durable, a handler at the second write has
  the first behind it. `StepFiled` shows it kept by every step, the failing ones and
  the crashes included.

`PolicyProofs` holds for any windows, limits, files, environments and calls. It
assumes that a file and an environment set known fields to values of their kinds
(`SettingsAssumption`), that the defaults are a policy set within its bounds, and
that arguments have the kinds of the methods' signatures; a producer's energies
and rated power are not negative, which the code's dataclass does not enforce but
its callers keep.

- `NoneBroken`: the first-broken-rule list allows exactly when no rule is broken, so
  each method is a conjunction (`PreambleAllows` and so on), whatever the order.
- `LooseningIsSafe`: `Relaxes(p, q)` says that no field of `q` is stricter than
  `p`'s. `LooserRelaxes` shows it of the sets the property names, and each method
  is monotone in it (`DecisionRelaxed`), so the result also covers relaxing several
  fields by any amount. `CapGrows` carries it through the division by 10,000.
- `RetryIsSafe`: headroom never shrinks while nothing more is minted
  (`HeadroomStays`). `ClockIsBounded` is linear arithmetic.
- All three rest on `Inv`: the decision on record is the one its whole, well-typed
  policy set gives of its call.

Its second half extends this to any markets, from one more assumption: the bodies
are typed and their reserve is a whole number (`MarketCallsAssumption`).

- `MarketAdviceLosesOnlyBought` and `MarketAdviceSettlesOrRepeats`: the invariant is
  `Recommended`, that what the endpoint remembers was recommended for one of its
  inputs. Two lemmas then say it of every market, by cases on the rule that gave the
  advice; `AdviceWithin` bounds what the second piece of advice can be.
- `MarketKeepsPolicy`: the policy properties hold under the specification the run
  `policy` checks, the market endpoint's decisions included.

`DeliveryProofs` holds for any keys and any set of proofs that clients can build
(`ProofsAssumption`), any readings of the clock, any powers the conversion rounds
down (`RoundingAssumption`: whole watts, no whole kilowatts) and any number of
attestations; `NoKey` is no key and no device's id.
Signatures are ideal, as in `Wire`.

- The invariant `Inv`: a registered id has the key it is the hash of (`KeysKept`);
  every attestation is a document the oracle made of one proof (`Documented`), its
  oracle's signature over it; if it grants, the proof's nonce is in the ledger and,
  unless in mock mode, a registered device signed the proof, perhaps with more in its
  payload than was kept (`Vouched`). `GrantedOnceInAnyForm` is preserved because
  a grant asks for a key that is not in the ledger.
- `NothingForged`, `Auditable`, `CalldataAgrees` follow from `Documented`.
  `FormsAlike`, `ProvisioningWithinOracle` and `RegistrationsHarmless` look at one
  step or at none; `PagingTellsAll` is about subsequences of a list that grew at its end.

`MerkleProofs` is about the tree alone and needs no state.

- `ProofLeadsToRoot`: with n leaves and any position below n, the verifier accepts
  what `getProof` returns. `ProofOfOneLeaf`: with the same proof, position and root it
  accepts no other leaf, since the hash is ideal.
- The argument is induction over the levels. The library's induction theorems take
  an operator, which the provers cannot instantiate; `Induction` states the same
  for a set of numbers and is proved from the least counterexample, which `WFMin`
  supplies. `LevelsAre`, `HalvedIs` and `FoldedIs` show that the recursive functions
  exist and satisfy their equations.

`RegistryProofs` holds for any ids, payloads and bounds.

- `Inv`: the Map has every key once and its entries their types; every snapshot was
  taken of a beginning of today's keys (`Taken`), in their order; the proof last
  served is one that verifies. `PositionsStay` and `ProofsStay` follow, since keys are
  only added at the end; `ServedProofs` rests on both theorems about the tree.

`HistoryProofs` holds for any reports, thresholds and number of stored reports, and
any limits as in `LimitsAssumption`.

- Order statistics first: `AtMostIs` and `SmallestIs` show that every sequence of
  numbers has a k-th smallest among its members, `SmallestPermuted` that it does not
  depend on their order (a bijection keeps the size of each set of smaller ones),
  `SmallestAtLeast` that it is no lower than a number fewer than k fall short of.
- Then the history: `HistoryIs` says which entries it has when the current report's
  number is the largest, `GapIs` that the gap is taken from the last numbered one it
  keeps, `SpikeIs` that the median is that of the others' powers.
- `VerdictIsTheDevices`: two enumerations of one store, with the current report put
  in, are permutations of each other (`HistoryPermutes`). The gap is that of the two
  largest numbers (`TopGapIs`), which no permutation moves; the median of the others is
  the same if the last entries have one power (`SpikePermuted`), and a report that keeps
  the device's order is last itself. It needs an uncut history: which of several reports with
  one number is cut off depends on the backend.
- `SteadyDevicePasses`: the median is half the sum of two stored powers, and the gap
  is at most one because the report's predecessor is stored, even if it was cut off.
- `RisenDevicePasses`: a replacement ends the streak, so the count is that of
  reports with nothing in between. `RefusalsEnd` alone is not inductive, since it says nothing of
  what is stored. `StreakStored` adds that the reports of the streak are the last of
  every enumeration, all at its power; `RetrievedGrows` keeps it, since a report
  beyond all that is stored comes last of any enumeration and the others come in an
  order they may have come in before. After half a history of them both middles are at
  the new power (`RisenMedian`), so the next report is no spike.

Where TLC could, it checked each inductive invariant on the run's instance before
it was proved.

Only model-checked: `EveryCallEnds`, a liveness property, which rests on fairness
and is out of the prover's reach. The tightness of hypotheses (`race`, `ttl`) is
what runs show, not theorems.

## Not modelled, and why

JSON Schema validation, Base64 and Ed25519 (libraries; a body or a signature says
what they decide). The attestation and claim payloads of the wire format, which no
program of the repository builds. The other GET endpoints of the oracle (they read
by id, or list requests the way attestations are listed). The forecast, which
only annotates a signal: its energies are never in a history. The legacy storage
dictionary, which only its own tests use. The recommender's confidence and texts.
The logistics example and what the scripts print. On-chain programs are not in
the repository.

## Plan

An atomic claim (`record_nonce` that says whether the nonce was new) as a variant of
`ClaimNonce`, shown to implement `NonceGuard` with any number of workers;
`GuardSuffices` then gives the rest.
