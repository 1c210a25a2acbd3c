------------------------- MODULE OracleAttestProofs -------------------------
(***************************************************************************)
(* Invariants of OracleAttest, proved for any workers, calls, bodies,      *)
(* backend, parameters and faults.                                         *)
(***************************************************************************)
EXTENDS OracleGuard, TLAPS

\* How the handlers' control and their data go together: a call a worker serves
\* is inside its handler and nobody else's, has a well-formed body, and has its
\* decision by the time it is signed.
Control ==
  /\ \A c \in Calls : pc[c] # "unsent" <=> body[c] # NoBody
  /\ \A c \in Calls : pc[c] \in InHandler =>
       /\ body[c].mode # "malformed"
       /\ \E w \in Workers : serving[w] = c
  /\ \A w \in Workers : serving[w] # NoCall => pc[serving[w]] \in InHandler
  /\ \A v, w \in Workers : serving[v] = serving[w] /\ serving[v] # NoCall => v = w
  /\ \A c \in Calls : pc[c] \in {"sign", "put_request", "put_attestation"} =>
       decision[c] \in Reasons

Inv == TypeOK /\ Control

USE DEF Never, NoAnswer, LostAnswer

LEMMA BodiesTyped == \A b \in Bodies : b \in BodyType /\ b # NoBody
BY BodiesAssumption

\* The invariant holds initially.
LEMMA InitInv == Init => Inv
<1> SUFFICES ASSUME Init PROVE Inv
  OBVIOUS
<1>1. TypeOK
  BY DEF Init, TypeOK, InHandler
<1>2. Control
  BY DEF Init, Control, InHandler
<1> QED BY <1>1, <1>2 DEF Inv

\* The device and nonce of a sent body are a key of the ledger.
LEMMA KeyTyped == \A b \in Bodies : Key(b.proof) \in Keys
BY BodiesAssumption DEF BodyType, ProofType, Key, Keys

\* Recording a nonce in this second keeps the ledger's type.
LEMMA RecordTyped ==
  ASSUME TypeOK, NEW k \in Keys, RecordNonce(k)
  PROVE  ledger' \in [Keys -> Nat \cup {Never}]
BY DEF TypeOK, RecordNonce

\* The document a call stores is of the type of stored documents.
LEMMA DocumentTyped ==
  ASSUME Inv, NEW c \in Calls, pc[c] = "put_attestation"
  PROVE  Document(c) \in Docs
<1>1. body[c] \in BodyType /\ body[c].mode # "malformed" /\ decision[c] \in Reasons
  BY BodiesTyped DEF Inv, TypeOK, Control, InHandler
<1> QED BY <1>1 DEF Document, Docs, BodyType, Modes, ProofType

\* Every step keeps the invariant.
LEMMA StepInv == Inv /\ [Next]_vars => Inv'
<1> SUFFICES ASSUME Inv, [Next]_vars PROVE Inv'
  OBVIOUS
<1> USE DEF Inv
<1>1. ASSUME NEW w \in Workers, NEW c \in Calls, Unwrap(w, c) PROVE Inv'
  BY <1>1, CallsAssumption DEF Unwrap, At, Goto, Reply, store, TypeOK, Control, InHandler
<1>2. ASSUME NEW w \in Workers, NEW c \in Calls, VerifyProof(w, c) PROVE Inv'
  <2>1. TypeOK'
    BY <1>2 DEF VerifyProof, VerifierVerdict, Conclude, At, Goto, Reply, store, TypeOK, InHandler, Reasons
  <2>2. Control'
    BY <1>2, CallsAssumption DEF VerifyProof, VerifierVerdict, Conclude, At, Goto, Reply, TypeOK, Control, InHandler, Reasons
  <2> QED BY <2>1, <2>2
<1>3. ASSUME NEW w \in Workers, NEW c \in Calls, TestNonce(w, c) PROVE Inv'
  <2>1. TypeOK'
    BY <1>3 DEF TestNonce, Conclude, At, Goto, Reply, store, TypeOK, InHandler, Reasons
  <2>2. Control'
    BY <1>3, CallsAssumption DEF TestNonce, Conclude, At, Goto, Reply, TypeOK, Control, InHandler, Reasons
  <2> QED BY <2>1, <2>2
<1>4. ASSUME NEW w \in Workers, NEW c \in Calls, ClaimNonce(w, c) PROVE Inv'
  <2>1. body[c] \in Bodies
    BY <1>4 DEF ClaimNonce, At, TypeOK, Control
  <2>2. ledger' \in [Keys -> Nat \cup {Never}]
    BY <1>4, <2>1, KeyTyped, RecordTyped DEF ClaimNonce
  <2> QED BY <1>4, <2>2 DEF ClaimNonce, At, Goto, TypeOK, Control, InHandler
<1>5. ASSUME NEW w \in Workers, NEW c \in Calls, EvaluatePolicy(w, c) PROVE Inv'
  BY <1>5, CallsAssumption, ParameterAssumption DEF EvaluatePolicy, PolicyVerdict, Conclude, At, Goto, Reply, store, TypeOK, Control, InHandler, Reasons
<1>6. ASSUME NEW w \in Workers, NEW c \in Calls, Sign(w, c) PROVE Inv'
  <2>1. TypeOK'
    BY <1>6 DEF Sign, At, Goto, Reply, store, TypeOK, InHandler
  <2>2. Control'
    BY <1>6, CallsAssumption DEF Sign, At, Goto, Reply, TypeOK, Control, InHandler
  <2> QED BY <2>1, <2>2
<1>7. ASSUME NEW w \in Workers, NEW c \in Calls, PutRequest(w, c) PROVE Inv'
  BY <1>7, CallsAssumption DEF PutRequest, At, Goto, store, TypeOK, Control, InHandler
<1>8. ASSUME NEW w \in Workers, NEW c \in Calls, PutAttestation(w, c) PROVE Inv'
  <2>1. Document(c) \in Docs
    BY <1>8, DocumentTyped DEF PutAttestation, At
  <2>2. attestations' \in [Calls -> Docs \cup {NoDoc}]
    BY <1>8, <2>1 DEF PutAttestation, TypeOK
  <2> QED
    BY <1>8, <2>2, CallsAssumption DEF PutAttestation, At, Reply, TypeOK, Control, InHandler
<1>9. ASSUME NEW w \in Workers, NEW c \in Calls, StorageFails(w, c) PROVE Inv'
  <2>1. pc[c] \in InHandler /\ body[c] \in Bodies
    BY <1>9 DEF StorageFails, CallsStore, TypeOK, Control, InHandler
  <2>2. ledger' \in [Keys -> Nat \cup {Never}]
    <3>1. CASE RecordNonce(Key(body[c].proof))
      BY <3>1, <2>1, KeyTyped, RecordTyped
    <3>2. CASE UNCHANGED ledger
      BY <3>2 DEF TypeOK
    <3> QED BY <1>9, <3>1, <3>2 DEF StorageFails, store
  <2>3. attestations' \in [Calls -> Docs \cup {NoDoc}]
    <3>1. CASE /\ pc[c] = "put_attestation"
               /\ attestations' = [attestations EXCEPT ![attid[c]] = Document(c)]
      BY <3>1, DocumentTyped DEF TypeOK
    <3>2. CASE UNCHANGED attestations
      BY <3>2 DEF TypeOK
    <3> QED BY <1>9, <3>1, <3>2 DEF StorageFails, store
  <2>4. registry' \subseteq Devices /\ requests' \subseteq Calls
    BY <1>9 DEF StorageFails, store, TypeOK
  <2>5. TypeOK'
    <3>1. wedged' \subseteq Workers
      BY <1>9 DEF StorageFails, TypeOK
    <3>2. /\ serving' \in [Workers -> Calls \cup {NoCall}]
          /\ pc' \in [Calls -> InHandler \cup {"unsent", "done"}]
          /\ status' \in [Calls -> {NoAnswer, 200, 400, 401, 403, 500, 503, LostAnswer}]
      BY <1>9 DEF StorageFails, Reply, TypeOK
    <3>3. UNCHANGED <<now, body, attid, decision, claims>>
      BY <1>9 DEF StorageFails
    <3> QED BY <2>2, <2>3, <2>4, <3>1, <3>2, <3>3 DEF TypeOK
  <2>6. Control'
    BY <1>9, <2>1, CallsAssumption DEF StorageFails, Reply, TypeOK, Control, InHandler
  <2> QED BY <2>5, <2>6
<1>10. ASSUME NEW w \in Workers, NEW c \in Calls, NEW b \in Bodies, NEW i \in Calls,
              Receive(w, c, b, i) PROVE Inv'
  BY <1>10, CallsAssumption, BodiesTyped DEF Receive, Reply, store, TypeOK, Control, InHandler
<1>11. ASSUME NEW w \in Workers, NEW d \in Devices, RegisterDevice(w, d) PROVE Inv'
  BY <1>11 DEF RegisterDevice, handler, TypeOK, Control
<1>12. ASSUME NEW w \in Workers, OtherCallFails(w) PROVE Inv'
  BY <1>12 DEF OtherCallFails, handler, TypeOK, Control
<1>13. ASSUME NEW w \in Workers, Crash(w) PROVE Inv'
  BY <1>13, CallsAssumption DEF Crash, Reply, handler, store, TypeOK, Control, InHandler
<1>14. CASE Tick
  BY <1>14 DEF Tick, handler, store, TypeOK, Control
<1>15. CASE UNCHANGED vars
  BY <1>15 DEF vars, TypeOK, Control
<1> QED
  BY <1>1, <1>2, <1>3, <1>4, <1>5, <1>6, <1>7, <1>8, <1>9, <1>10, <1>11, <1>12, <1>13,
     <1>14, <1>15 DEF Next, HandlerStep

LEMMA Invariance == Spec => []Inv
BY InitInv, StepInv, PTL DEF Spec

\* Every variable keeps to its type, in any instance.
THEOREM TypeCorrect == Spec => []TypeOK
BY Invariance, PTL DEF Inv
-----------------------------------------------------------------------------
(* A nonce is spent, and an attestation stored as allowed, only for a proof  *)
(* the Verifier accepted.                                                    *)

\* The strengthening: a call past the Verifier carries a verified proof until
\* it is answered, and whoever evaluates the policy or was allowed has claimed
\* its nonce.
Vetted ==
  /\ \A c \in Calls :
       \/ pc[c] \in {"has_nonce", "record_nonce", "policy"}
       \/ decision[c] = "ok" /\ pc[c] # "done"
       => Verified(body[c].proof)
  /\ \A c \in Calls : pc[c] = "policy" \/ decision[c] = "ok" => c \in claims
  /\ \A c \in Calls : pc[c] \in {"sign", "put_request", "put_attestation"} =>
       (body[c].mode = "legacy" => decision[c] = "ok")
  /\ \A c \in claims : body[c] # NoBody
  /\ \A c \in Calls :
       pc[c] \in {"unsent", "unwrap", "lookup", "has_nonce", "record_nonce", "policy"} =>
         decision[c] = "none"

EarnedInv == Vetted /\ SpentByVerifiedProof /\ StoredIsEarned

\* A call's body stays what it was when it was sent.
LEMMA BodyKept ==
  ASSUME Inv, [Next]_vars, NEW c \in Calls, body[c] # NoBody
  PROVE  body'[c] = body[c]
BY DEF Inv, TypeOK, Control, Next, HandlerStep, vars, Unwrap, VerifyProof, TestNonce, ClaimNonce,
       EvaluatePolicy, Sign, PutRequest, PutAttestation, StorageFails, Receive, RegisterDevice,
       OtherCallFails, Crash, Tick

\* The registry only grows, or the whole in-memory store goes with its process
\* and every call in progress is lost.
LEMMA RegistryKept ==
  ASSUME Inv, [Next]_vars
  PROVE  \/ registry \subseteq registry'
         \/ /\ ledger' = [k \in Keys |-> Never]
            /\ attestations' = [i \in Calls |-> NoDoc]
            /\ \A c \in Calls : pc'[c] \in {"unsent", "done"}
            /\ UNCHANGED <<body, decision, claims>>
            /\ \A c \in Calls : pc'[c] = "unsent" => pc[c] = "unsent"
<1>1. ASSUME NEW w \in Workers, Crash(w), Backend = "memory"
      PROVE  /\ ledger' = [k \in Keys |-> Never]
             /\ attestations' = [i \in Calls |-> NoDoc]
             /\ \A c \in Calls : pc'[c] \in {"unsent", "done"}
             /\ UNCHANGED <<body, decision, claims>>
             /\ \A c \in Calls : pc'[c] = "unsent" => pc[c] = "unsent"
  <2>1. \A v \in Workers : v = w
    BY <1>1, BackendAssumption
  <2>2. \A c \in Calls : pc[c] \in InHandler => serving[w] = c
    BY <2>1 DEF Inv, Control
  <2> QED BY <1>1, <2>2, CallsAssumption DEF Crash, Reply, handler, Inv, TypeOK, Control, InHandler
<1>2. ASSUME NEW w \in Workers, Crash(w), Backend # "memory"
      PROVE  registry' = registry
  BY <1>2 DEF Crash, store
<1>3. ASSUME ~ \E w \in Workers : Crash(w)
      PROVE  registry \subseteq registry'
  BY <1>3 DEF Next, HandlerStep, vars, store, Unwrap, VerifyProof, TestNonce, ClaimNonce,
       EvaluatePolicy, Sign, PutRequest, PutAttestation, StorageFails, Receive, RegisterDevice,
       OtherCallFails, Tick
<1> QED BY <1>1, <1>2, <1>3

\* What the Verifier accepted stays accepted while the registry grows.
LEMMA VerifiedKept ==
  ASSUME registry \subseteq registry', NEW p, Verified(p)
  PROVE  Verified(p)'
BY DEF Verified

\* Recording a nonce adds no other.
LEMMA RecordAdds ==
  ASSUME TypeOK, NEW j, NEW k \in Keys, RecordNonce(j), ledger'[k] # Never
  PROVE  ledger[k] # Never \/ j = k
<1>1. CASE ledger' = ledger
  BY <1>1
<1>2. CASE ledger' = [ledger EXCEPT ![j] = now]
  BY <1>2 DEF TypeOK
<1> QED BY <1>1, <1>2 DEF RecordNonce

\* The ledger gains only the nonce of a call at the record step.
LEMMA LedgerKept ==
  ASSUME Inv, [Next]_vars, NEW k \in Keys, ledger'[k] # Never
  PROVE  \/ ledger[k] # Never
         \/ \E c \in Calls : pc[c] = "record_nonce" /\ Key(body[c].proof) = k
<1>1. ASSUME NEW w \in Workers, NEW c \in Calls, ClaimNonce(w, c)
      PROVE  ledger[k] # Never \/ (pc[c] = "record_nonce" /\ Key(body[c].proof) = k)
  BY <1>1, RecordAdds DEF ClaimNonce, At, Inv
<1>2. ASSUME NEW w \in Workers, NEW c \in Calls, StorageFails(w, c)
      PROVE  ledger[k] # Never \/ (pc[c] = "record_nonce" /\ Key(body[c].proof) = k)
  BY <1>2, RecordAdds DEF StorageFails, store, Inv
<1>3. CASE /\ ~ \E w \in Workers, c \in Calls : ClaimNonce(w, c) \/ StorageFails(w, c)
  BY <1>3 DEF Next, HandlerStep, vars, store, Unwrap, VerifyProof, TestNonce, EvaluatePolicy,
       Sign, PutRequest, PutAttestation, Receive, RegisterDevice, OtherCallFails, Crash, Tick
<1> QED BY <1>1, <1>2, <1>3

\* What is stored as an attestation is the document of a call at its last write.
LEMMA AttestationsKept ==
  ASSUME Inv, [Next]_vars, NEW i \in Calls, attestations'[i] # NoDoc
  PROVE  \/ attestations'[i] = attestations[i]
         \/ \E c \in Calls : pc[c] = "put_attestation" /\ attestations'[i] = Document(c)
<1>1. ASSUME NEW w \in Workers, NEW c \in Calls, PutAttestation(w, c)
      PROVE  \/ attestations'[i] = attestations[i]
             \/ pc[c] = "put_attestation" /\ attestations'[i] = Document(c)
  BY <1>1 DEF PutAttestation, At, Inv, TypeOK
<1>2. ASSUME NEW w \in Workers, NEW c \in Calls, StorageFails(w, c)
      PROVE  \/ attestations'[i] = attestations[i]
             \/ pc[c] = "put_attestation" /\ attestations'[i] = Document(c)
  BY <1>2 DEF StorageFails, store, Inv, TypeOK
<1>3. CASE ~ \E w \in Workers, c \in Calls : PutAttestation(w, c) \/ StorageFails(w, c)
  BY <1>3 DEF Next, HandlerStep, vars, store, Unwrap, VerifyProof, TestNonce, ClaimNonce,
       EvaluatePolicy, Sign, PutRequest, Receive, RegisterDevice, OtherCallFails, Crash, Tick
<1> QED BY <1>1, <1>2, <1>3

\* A granted call stays granted, and a claim stands.
LEMMA GrantsKept ==
  ASSUME Inv, Vetted, [Next]_vars
  PROVE  /\ claims \subseteq claims'
         /\ \A c \in Calls : decision[c] = "ok" => decision'[c] = "ok"
BY DEF Vetted, Inv, TypeOK, Next, HandlerStep, vars, Unwrap, VerifyProof, TestNonce, ClaimNonce,
       EvaluatePolicy, Sign, PutRequest, PutAttestation, StorageFails, Receive, RegisterDevice,
       OtherCallFails, Crash, Tick, Conclude, At

\* A step that leaves the registry's devices in place keeps Vetted.
LEMMA StepVetted ==
  ASSUME Inv, Vetted, [Next]_vars, registry \subseteq registry'
  PROVE  Vetted'
<1> USE DEF Inv
<1>0. /\ \A c \in Calls : body[c] # NoBody => body'[c] = body[c]
      /\ \A c \in Calls : body[c] # NoBody /\ Verified(body[c].proof)
                          => Verified(body[c].proof)'
  <2>1. \A c \in Calls : body[c] # NoBody => body'[c] = body[c]
    BY BodyKept
  <2> QED BY <2>1 DEF Verified
<1>1. ASSUME NEW w \in Workers, NEW c \in Calls, Unwrap(w, c) PROVE Vetted'
  BY <1>1 DEF Unwrap, At, Goto, Reply, store, TypeOK, Control, Vetted, Verified
<1>2. ASSUME NEW w \in Workers, NEW c \in Calls, VerifyProof(w, c) PROVE Vetted'
  <2>1. CASE VerifierVerdict(body[c].proof) = "pass"
    <3>1. /\ pc' = [pc EXCEPT ![c] = "has_nonce"]
          /\ UNCHANGED <<decision, registry, body, claims>>
          /\ pc[c] = "lookup"
      BY <1>2, <2>1 DEF VerifyProof, Goto, At, store
    <3>2. Verified(body[c].proof)
      BY <2>1, <3>1, BodiesTyped
         DEF VerifierVerdict, Verified, TypeOK, Control, BodyType, ProofType
    <3> QED BY <3>1, <3>2 DEF TypeOK, Vetted, Verified
  <2>2. CASE VerifierVerdict(body[c].proof) # "pass"
    <3>1. VerifierVerdict(body[c].proof) # "ok"
      BY DEF VerifierVerdict
    <3> QED BY <1>2, <2>2, <3>1
            DEF VerifyProof, Conclude, Goto, Reply, At, store, TypeOK, Control, Vetted, Verified
  <2> QED BY <2>1, <2>2
<1>3. ASSUME NEW w \in Workers, NEW c \in Calls, TestNonce(w, c) PROVE Vetted'
  BY <1>3 DEF TestNonce, Conclude, At, Goto, Reply, store, TypeOK, Control, Vetted, Verified
<1>4. ASSUME NEW w \in Workers, NEW c \in Calls, ClaimNonce(w, c) PROVE Vetted'
  BY <1>4 DEF ClaimNonce, At, Goto, TypeOK, Control, Vetted, Verified
<1>5. ASSUME NEW w \in Workers, NEW c \in Calls, EvaluatePolicy(w, c) PROVE Vetted'
  BY <1>5 DEF EvaluatePolicy, Conclude, At, Goto, Reply, store, TypeOK, Control, Vetted, Verified
<1>6. ASSUME NEW w \in Workers, NEW c \in Calls, Sign(w, c) PROVE Vetted'
  BY <1>6 DEF Sign, At, Goto, Reply, store, TypeOK, Control, Vetted, Verified
<1>7. ASSUME NEW w \in Workers, NEW c \in Calls, PutRequest(w, c) PROVE Vetted'
  BY <1>7 DEF PutRequest, At, Goto, TypeOK, Control, Vetted, Verified
<1>8. ASSUME NEW w \in Workers, NEW c \in Calls, PutAttestation(w, c) PROVE Vetted'
  BY <1>8 DEF PutAttestation, At, Reply, TypeOK, Control, Vetted, Verified
<1>9. ASSUME NEW w \in Workers, NEW c \in Calls, StorageFails(w, c) PROVE Vetted'
  BY <1>0, <1>9 DEF StorageFails, Reply, TypeOK, Control, Vetted
<1>10. ASSUME NEW w \in Workers, NEW c \in Calls, NEW b \in Bodies, NEW i \in Calls,
              Receive(w, c, b, i) PROVE Vetted'
  BY <1>0, <1>10, BodiesTyped DEF Receive, Reply, store, TypeOK, Control, Vetted
<1>11. ASSUME NEW w \in Workers, NEW d \in Devices, RegisterDevice(w, d) PROVE Vetted'
  BY <1>0, <1>11 DEF RegisterDevice, handler, TypeOK, Control, Vetted
<1>12. ASSUME NEW w \in Workers, OtherCallFails(w) PROVE Vetted'
  BY <1>0, <1>12 DEF OtherCallFails, handler, TypeOK, Control, Vetted
<1>13. ASSUME NEW w \in Workers, Crash(w) PROVE Vetted'
  BY <1>0, <1>13 DEF Crash, Reply, handler, TypeOK, Control, Vetted
<1>14. CASE Tick
  BY <1>14 DEF Tick, handler, store, Vetted, Verified
<1>15. CASE UNCHANGED vars
  BY <1>15 DEF vars, Vetted, Verified
<1> QED
  BY <1>1, <1>2, <1>3, <1>4, <1>5, <1>6, <1>7, <1>8, <1>9, <1>10, <1>11, <1>12, <1>13,
     <1>14, <1>15 DEF Next, HandlerStep

\* The three properties are kept together.
LEMMA StepEarned == Inv /\ EarnedInv /\ [Next]_vars => EarnedInv'
<1> SUFFICES ASSUME Inv, EarnedInv, [Next]_vars PROVE EarnedInv'
  OBVIOUS
<1>1. CASE registry \subseteq registry'
  <2>1. Vetted'
    BY <1>1, StepVetted DEF EarnedInv
  <2>2. \A c \in Calls : body[c] # NoBody => body'[c] = body[c]
    BY BodyKept
  <2>3. SpentByVerifiedProof'
    <3> SUFFICES ASSUME NEW k \in Keys, ledger'[k] # Never
                 PROVE  \E c \in Calls : /\ body'[c] # NoBody
                                         /\ Key(body'[c].proof) = k
                                         /\ Verified(body[c].proof)'
      BY DEF SpentByVerifiedProof
    <3>1. PICK c \in Calls : /\ body[c] # NoBody
                             /\ Key(body[c].proof) = k
                             /\ Verified(body[c].proof)
      <4>1. CASE ledger[k] # Never
        BY <4>1 DEF EarnedInv, SpentByVerifiedProof
      <4>2. ASSUME NEW c \in Calls, pc[c] = "record_nonce", Key(body[c].proof) = k
            PROVE  body[c] # NoBody /\ Verified(body[c].proof)
        BY <4>2 DEF EarnedInv, Vetted, Inv, Control
      <4> QED BY <4>1, <4>2, LedgerKept
    <3> QED BY <1>1, <2>2, <3>1 DEF Verified
  <2>4. StoredIsEarned'
    <3> SUFFICES ASSUME NEW i \in Calls, attestations'[i] # NoDoc
                 PROVE  /\ attestations'[i].via = "legacy" => attestations'[i].reason = "ok"
                        /\ attestations'[i].reason = "ok" =>
                             /\ Verified(attestations[i].proof)'
                             /\ \E c \in claims' : /\ body'[c].proof = attestations'[i].proof
                                                   /\ decision'[c] = "ok"
      BY DEF StoredIsEarned
    <3>1. /\ attestations'[i].via = "legacy" => attestations'[i].reason = "ok"
          /\ attestations'[i].reason = "ok" =>
               /\ Verified(attestations'[i].proof)
               /\ \E c \in claims : /\ body[c].proof = attestations'[i].proof
                                    /\ decision[c] = "ok"
      <4>1. CASE attestations'[i] = attestations[i]
        BY <4>1 DEF EarnedInv, StoredIsEarned
      <4>2. ASSUME NEW c \in Calls, pc[c] = "put_attestation", attestations'[i] = Document(c)
            PROVE  /\ attestations'[i].via = "legacy" => attestations'[i].reason = "ok"
                   /\ attestations'[i].reason = "ok" =>
                        /\ Verified(attestations'[i].proof)
                        /\ \E d \in claims : /\ body[d].proof = attestations'[i].proof
                                             /\ decision[d] = "ok"
        BY <4>2 DEF Document, EarnedInv, Vetted
      <4> QED BY <4>1, <4>2, AttestationsKept
    <3>2. claims \subseteq claims' /\ \A c \in Calls : decision[c] = "ok" => decision'[c] = "ok"
      BY GrantsKept DEF EarnedInv
    <3>3. \A c \in claims : c \in Calls /\ body'[c] = body[c]
      BY <2>2 DEF EarnedInv, Vetted, Inv, TypeOK
    <3> QED BY <1>1, <3>1, <3>2, <3>3 DEF Verified
  <2> QED BY <2>1, <2>3, <2>4 DEF EarnedInv
<1>2. CASE /\ ledger' = [k \in Keys |-> Never]
           /\ attestations' = [i \in Calls |-> NoDoc]
           /\ \A c \in Calls : pc'[c] \in {"unsent", "done"}
           /\ UNCHANGED <<body, decision, claims>>
           /\ \A c \in Calls : pc'[c] = "unsent" => pc[c] = "unsent"
  <2>1. SpentByVerifiedProof' /\ StoredIsEarned'
    BY <1>2 DEF SpentByVerifiedProof, StoredIsEarned
  <2>2. Vetted'
    BY <1>2 DEF EarnedInv, Vetted, Inv, TypeOK
  <2> QED BY <2>1, <2>2 DEF EarnedInv
<1> QED BY <1>1, <1>2, RegistryKept

LEMMA InitEarned == Init => EarnedInv
BY DEF Init, EarnedInv, Vetted, SpentByVerifiedProof, StoredIsEarned

LEMMA EarnedInvariance == Spec => []EarnedInv
<1>1. Inv /\ EarnedInv /\ [Next]_vars => EarnedInv'
  BY StepEarned
<1> QED BY <1>1, InitEarned, Invariance, PTL DEF Spec

\* Whatever the workers interleave and whatever fails, a nonce is spent only by
\* a proof the Verifier accepted.
THEOREM NonceSpentByVerifiedProof == Spec => []SpentByVerifiedProof
BY EarnedInvariance, PTL DEF EarnedInv

\* Whatever the workers interleave and whatever fails, what is stored as allowed
\* was allowed by a call that verified the proof and claimed its nonce.
THEOREM AllowedIsEarned == Spec => []StoredIsEarned
BY EarnedInvariance, PTL DEF EarnedInv
=============================================================================
