-------------------------- MODULE OracleOnceProofs --------------------------
(***************************************************************************)
(* A proof is granted once, where one worker serves the store.  The store  *)
(* must outlive its process, and must keep a nonce either forever or for   *)
(* longer than a proof recorded in the future can stay fresh.              *)
(***************************************************************************)
EXTENDS OracleAttestProofs

OneWorker == \A v, w \in Workers : v = w

StoreSurvives == Backend = "memory" => "crash" \notin Faults

KeepsForever == Backend \in {"memory", "postgres"}

\* Twice over: a proof's timestamp may lie MaxClockSkew ahead of the decision,
\* and the decision MaxPause after the nonce was recorded.
TTLCovers == NonceTTL > MaxProofAge + MaxClockSkew + MaxPause

KeyOf(c) == Key(body[c].proof)

\* The strengthening.  The clock bounds the ledger; nobody else records the
\* nonce a call is about to record; a grant's timestamp is bounded by its
\* nonce's entry, so that whoever claims that nonce again finds the proof stale.
Once ==
  /\ \A k \in Keys : ledger[k] <= now
  /\ \A c \in claims : ledger[KeyOf(c)] # Never
  /\ \A c \in Calls : pc[c] = "record_nonce" => ~HasNonce(KeyOf(c))
  /\ \A c \in Calls : pc[c] = "policy" => now <= ledger[KeyOf(c)] + MaxPause
  /\ \A c \in Calls : decision[c] = "ok" =>
       body[c].proof.ts <= ledger[KeyOf(c)] + MaxPause + MaxClockSkew
  /\ \A c, d \in Calls :
       pc[c] = "policy" /\ decision[d] = "ok" /\ body[c].proof = body[d].proof =>
         now - body[c].proof.ts > MaxProofAge
  /\ ProofGrantedOnce
  /\ KeepsForever => NonceClaimedOnce

OnceInv == Inv /\ EarnedInv /\ Once

\* One worker runs one handler at a time.
LEMMA OneHandler ==
  ASSUME Inv, OneWorker, NEW c \in Calls, NEW d \in Calls,
         pc[c] \in InHandler, pc[d] \in InHandler
  PROVE  c = d
BY DEF Inv, Control, OneWorker

\* Calls that are past the nonce check were sent, and their keys are typed.
LEMMA SentTyped ==
  ASSUME Inv, EarnedInv, NEW c \in Calls,
         \/ pc[c] \in InHandler
         \/ decision[c] = "ok"
         \/ c \in claims
  PROVE  /\ body[c] # NoBody
         /\ KeyOf(c) \in Keys
         /\ body[c].proof.ts \in Int
<1>1. body[c] # NoBody
  BY DEF Inv, Control, EarnedInv, Vetted, InHandler
<1>2. body[c] \in Bodies
  BY <1>1 DEF Inv, TypeOK
<1> QED BY <1>1, <1>2, KeyTyped, BodiesTyped DEF KeyOf, BodyType, ProofType

\* Steps that record, claim and grant nothing keep Once.
LEMMA QuietStep ==
  ASSUME OnceInv, UNCHANGED <<now, ledger, claims>>,
         \A c \in Calls : body[c] # NoBody => body'[c] = body[c],
         \A c \in Calls : pc'[c] \in {"record_nonce", "policy"} => pc'[c] = pc[c],
         \A c \in Calls : decision'[c] = "ok" => decision[c] = "ok"
  PROVE  Once'
<1>1. \A c \in Calls : \/ pc[c] \in {"record_nonce", "policy"}
                       \/ decision[c] = "ok"
                       \/ c \in claims
                       => body'[c] = body[c]
  BY SentTyped DEF OnceInv, InHandler
<1>2. claims \subseteq Calls
  BY DEF OnceInv, Inv, TypeOK
<1> QED BY <1>1, <1>2
        DEF OnceInv, Once, KeyOf, HasNonce, ProofGrantedOnce, NonceClaimedOnce

\* Recording a nonce that the ledger does not have stamps it with this second.
LEMMA RecordStamps ==
  ASSUME Inv, Once, NEW j \in Keys, RecordNonce(j)
  PROVE  /\ \A k \in Keys : ledger'[k] = ledger[k] \/ (k = j /\ ledger'[k] = now)
         /\ \A k \in Keys : ledger[k] <= ledger'[k] /\ ledger'[k] <= now
         /\ \A k \in Keys : ledger'[k] \in Int /\ (ledger[k] # Never => ledger'[k] # Never)
         /\ ~HasNonce(j) => ledger'[j] = now
<1>1. \A k \in Keys : ledger[k] \in Int /\ now \in Nat /\ ledger[k] <= now
  BY DEF Inv, TypeOK, Once, Never
<1>2. CASE ledger' = ledger /\ HasNonce(j)
  BY <1>1, <1>2
<1>3. CASE ledger' = [ledger EXCEPT ![j] = now] /\ ~HasNonce(j)
  BY <1>1, <1>3 DEF Inv, TypeOK, Never
<1> QED BY <1>2, <1>3 DEF RecordNonce

\* A nonce that was claimed and is not in the ledger any more was recorded a
\* whole NonceTTL ago; a backend that keeps nonces forever has no such nonce.
LEMMA Forgotten ==
  ASSUME Inv, Once, NEW k \in Keys, ~HasNonce(k), ledger[k] # Never
  PROVE  now >= ledger[k] + NonceTTL /\ ~KeepsForever
BY ParameterAssumption DEF Inv, TypeOK, HasNonce, KeepsForever, Never

LEMMA ClaimOnce ==
  ASSUME OnceInv, OneWorker, KeepsForever \/ TTLCovers,
         NEW w \in Workers, NEW c \in Calls, ClaimNonce(w, c)
  PROVE  Once'
<1> DEFINE k == KeyOf(c)
<1> USE DEF OnceInv
<1>1. /\ pc[c] = "record_nonce" /\ pc' = [pc EXCEPT ![c] = "policy"]
      /\ claims' = claims \cup {c} /\ RecordNonce(k)
      /\ UNCHANGED <<now, body, decision>>
  BY DEF ClaimNonce, At, Goto, KeyOf
<1>2. body[c] # NoBody /\ k \in Keys /\ body[c].proof.ts \in Int
  BY <1>1, SentTyped DEF InHandler
<1>3. ~HasNonce(k)
  BY <1>1 DEF Once, KeyOf
<1>4. /\ \A j \in Keys : ledger'[j] = ledger[j] \/ (j = k /\ ledger'[j] = now)
      /\ \A j \in Keys : ledger[j] <= ledger'[j] /\ ledger'[j] <= now
      /\ \A j \in Keys : ledger'[j] \in Int /\ (ledger[j] # Never => ledger'[j] # Never)
      /\ ledger'[k] = now
  BY <1>1, <1>2, <1>3, RecordStamps
<1>5. now \in Nat /\ \A j \in Keys : ledger[j] \in Int
  BY DEF Inv, TypeOK, Never
<1>6. \A d \in Calls : d # c => pc[d] \notin InHandler
  BY <1>1, OneHandler DEF InHandler
<1>7. \A d \in claims : d \in Calls /\ KeyOf(d) \in Keys /\ ledger[KeyOf(d)] # Never
  BY SentTyped DEF Inv, TypeOK, Once
<1>8. \A d \in Calls : decision[d] = "ok" =>
        /\ d \in claims
        /\ body[d].proof.ts \in Int
  BY SentTyped DEF EarnedInv, Vetted
<1>a. (\A j \in Keys : ledger[j] <= now)'
  BY <1>1, <1>4
<1>b. (\A d \in claims : ledger[KeyOf(d)] # Never)'
  BY <1>1, <1>4, <1>5, <1>7 DEF KeyOf, Never
<1>c. (\A d \in Calls : pc[d] = "record_nonce" => ~HasNonce(KeyOf(d)))'
  BY <1>1, <1>6 DEF Inv, TypeOK, InHandler
<1>d. (\A d \in Calls : pc[d] = "policy" => now <= ledger[KeyOf(d)] + MaxPause)'
  BY <1>1, <1>4, <1>5, <1>6, ParameterAssumption DEF Inv, TypeOK, InHandler, KeyOf
<1>e. (\A d \in Calls : decision[d] = "ok" =>
         body[d].proof.ts <= ledger[KeyOf(d)] + MaxPause + MaxClockSkew)'
  BY <1>1, <1>4, <1>5, <1>7, <1>8, ParameterAssumption DEF Once, KeyOf
<1>f. (\A b, d \in Calls :
         pc[b] = "policy" /\ decision[d] = "ok" /\ body[b].proof = body[d].proof =>
           now - body[b].proof.ts > MaxProofAge)'
  <2> SUFFICES ASSUME NEW d \in Calls, decision[d] = "ok", body[c].proof = body[d].proof
               PROVE  now - body[c].proof.ts > MaxProofAge
    BY <1>1, <1>6 DEF Inv, TypeOK, InHandler
  <2>1. KeyOf(d) = k /\ ledger[k] # Never
    BY <1>7, <1>8 DEF KeyOf
  <2>2. now >= ledger[k] + NonceTTL /\ TTLCovers
    BY <1>2, <1>3, <2>1, Forgotten
  <2>3. body[c].proof.ts <= ledger[k] + MaxPause + MaxClockSkew
    BY <2>1 DEF Once
  <2> QED BY <1>2, <1>5, <2>2, <2>3, ParameterAssumption DEF TTLCovers
<1>g. ProofGrantedOnce'
  BY <1>1 DEF Once, ProofGrantedOnce
<1>h. (KeepsForever => NonceClaimedOnce)'
  <2>1. ASSUME KeepsForever, NEW d \in claims PROVE KeyOf(d) # k
    BY <1>2, <1>3, <1>7, <2>1, Forgotten
  <2> QED BY <1>1, <2>1 DEF Once, NonceClaimedOnce, KeyOf, KeepsForever
<1> QED BY <1>a, <1>b, <1>c, <1>d, <1>e, <1>f, <1>g, <1>h DEF Once

\* The policy grants no proof that is already granted, and what it grants is
\* stamped no later than the clock allows.
LEMMA GrantOnce ==
  ASSUME OnceInv, OneWorker, NEW w \in Workers, NEW c \in Calls, EvaluatePolicy(w, c),
         decision'[c] = "ok"
  PROVE  Once'
<1> USE DEF OnceInv
<1>1. PICK gate \in Gates \cup {"pass"} :
        Conclude(w, c, PolicyVerdict(body[c].proof, gate)) /\ pc[c] = "policy"
  BY DEF EvaluatePolicy, At, EarnedInv, Vetted
<1>2. /\ pc'[c] \in {"sign", "done"} /\ \A d \in Calls : d # c => pc'[d] = pc[d]
      /\ decision' = [decision EXCEPT ![c] = "ok"]
      /\ PolicyVerdict(body[c].proof, gate) = "ok"
      /\ UNCHANGED <<now, ledger, body, claims>>
  <2>1. UNCHANGED <<now, ledger, body, claims>>
    BY DEF EvaluatePolicy, store
  <2>2. decision' = [decision EXCEPT ![c] = PolicyVerdict(body[c].proof, gate)]
    BY <1>1 DEF Conclude
  <2>3. pc'[c] \in {"sign", "done"} /\ \A d \in Calls : d # c => pc'[d] = pc[d]
    BY <1>1 DEF Conclude, Goto, Reply, Inv, TypeOK
  <2>4. decision'[c] = PolicyVerdict(body[c].proof, gate)
    <3>1. c \in DOMAIN decision
      BY DEF Inv, TypeOK
    <3> QED BY <2>2, <3>1
  <2> QED BY <2>1, <2>2, <2>3, <2>4
<1>3. gate # "ok"
  BY ParameterAssumption DEF PreambleGates, SignalGates
<1>4. body[c].proof.ts <= now + MaxClockSkew /\ ~(now - body[c].proof.ts > MaxProofAge)
  <2>1. body[c].proof.ts \in Int /\ now \in Int
    BY <1>1, SentTyped DEF InHandler, Inv, TypeOK
  <2> QED BY <1>2, <1>3, <2>1, ParameterAssumption DEF PolicyVerdict
<1>5. /\ now <= ledger[KeyOf(c)] + MaxPause
      /\ ledger[KeyOf(c)] \in Int /\ now \in Nat /\ body[c].proof.ts \in Int
  BY <1>1, SentTyped DEF Once, InHandler, Inv, TypeOK, Never
<1>6. body[c].proof.ts <= ledger[KeyOf(c)] + MaxPause + MaxClockSkew
  BY <1>4, <1>5, ParameterAssumption
<1>7. \A d \in Calls : decision[d] = "ok" => body[c].proof # body[d].proof
  BY <1>1, <1>4 DEF Once
<1>8. ProofGrantedOnce'
  BY <1>2, <1>7 DEF ProofGrantedOnce, Once, Inv, TypeOK
<1>9. \A b \in Calls : pc'[b] \notin {"record_nonce", "policy"}
  BY <1>1, <1>2, OneHandler DEF InHandler
<1>10. (\A d \in Calls : decision[d] = "ok" =>
          body[d].proof.ts <= ledger[KeyOf(d)] + MaxPause + MaxClockSkew)'
  BY <1>2, <1>6 DEF Once, KeyOf, Inv, TypeOK
<1> QED
  BY <1>2, <1>8, <1>9, <1>10 DEF Once, KeyOf, NonceClaimedOnce, KeepsForever

\* A call to the store that fails may leave its nonce in the ledger unclaimed.
LEMMA FailOnce ==
  ASSUME OnceInv, OneWorker, NEW w \in Workers, NEW c \in Calls, StorageFails(w, c)
  PROVE  Once'
<1> USE DEF OnceInv
<1>1. /\ UNCHANGED <<now, body, decision, claims>>
      /\ pc[c] \in InHandler
      /\ pc' = [pc EXCEPT ![c] = "done"]
  BY DEF StorageFails, CallsStore, Reply, InHandler
<1>2. \A b \in Calls : pc'[b] \notin {"record_nonce", "policy"}
  BY <1>1, OneHandler DEF Inv, TypeOK, InHandler
<1>3. /\ \A k \in Keys : ledger[k] <= ledger'[k] /\ ledger'[k] <= now
      /\ \A k \in Keys : ledger'[k] \in Int /\ (ledger[k] # Never => ledger'[k] # Never)
  <2>1. CASE ledger' = ledger
    BY <2>1 DEF Once, Inv, TypeOK, Never
  <2>2. CASE RecordNonce(KeyOf(c))
    BY <1>1, <2>2, SentTyped, RecordStamps
  <2> QED BY <2>1, <2>2 DEF StorageFails, store, KeyOf
<1>4. \A d \in claims : d \in Calls /\ KeyOf(d) \in Keys
  BY SentTyped DEF Inv, TypeOK
<1>5. \A d \in Calls : decision[d] = "ok" =>
        d \in claims /\ body[d].proof.ts \in Int
  BY SentTyped DEF EarnedInv, Vetted
<1>6. (\A d \in Calls : decision[d] = "ok" =>
         body[d].proof.ts <= ledger[KeyOf(d)] + MaxPause + MaxClockSkew)'
  <2>1. \A k \in Keys : ledger[k] \in Int
    BY DEF Inv, TypeOK, Never
  <2> QED BY <1>1, <1>3, <1>4, <1>5, <2>1, ParameterAssumption DEF Once, KeyOf
<1> QED
  BY <1>1, <1>2, <1>3, <1>4, <1>6
     DEF Once, KeyOf, ProofGrantedOnce, NonceClaimedOnce, KeepsForever

\* Time only makes a proof staler.
LEMMA TickOnce ==
  ASSUME OnceInv, Tick
  PROVE  Once'
<1> USE DEF OnceInv
<1>1. /\ now' = now + 1 /\ now \in Nat
      /\ UNCHANGED <<ledger, body, decision, claims, pc>>
      /\ \A c \in Calls : pc[c] = "policy" => now < ledger[KeyOf(c)] + MaxPause
  BY DEF Tick, store, handler, KeyOf, Inv, TypeOK
<1>2. \A c \in Calls : \/ pc[c] \in InHandler
                       \/ decision[c] = "ok"
                       => /\ KeyOf(c) \in Keys
                          /\ ledger[KeyOf(c)] \in Int
                          /\ body[c].proof.ts \in Int
  BY SentTyped DEF Inv, TypeOK, Never
<1>3. \A k \in Keys : ledger[k] \in Int
  BY DEF Inv, TypeOK, Never
<1>a. (\A k \in Keys : ledger[k] <= now)'
  BY <1>1, <1>3 DEF Once
<1>b. (\A c \in Calls : pc[c] = "record_nonce" => ~HasNonce(KeyOf(c)))'
  BY <1>1, <1>2, ParameterAssumption DEF Once, KeyOf, HasNonce, InHandler
<1>c. (\A c \in Calls : pc[c] = "policy" => now <= ledger[KeyOf(c)] + MaxPause)'
  BY <1>1, <1>2, ParameterAssumption DEF KeyOf, InHandler
<1>d. (\A c, d \in Calls :
         pc[c] = "policy" /\ decision[d] = "ok" /\ body[c].proof = body[d].proof =>
           now - body[c].proof.ts > MaxProofAge)'
  BY <1>1, <1>2, ParameterAssumption DEF Once
<1> QED
  BY <1>1, <1>a, <1>b, <1>c, <1>d
     DEF Once, KeyOf, ProofGrantedOnce, NonceClaimedOnce, KeepsForever

\* Every step of a single worker keeps Once.
LEMMA StepOnce ==
  ASSUME OnceInv, OneWorker, StoreSurvives, KeepsForever \/ TTLCovers, [Next]_vars
  PROVE  Once'
<1> USE DEF OnceInv
<1>1. \A c \in Calls : body[c] # NoBody => body'[c] = body[c]
  BY BodyKept
<1>2. ASSUME NEW w \in Workers, NEW c \in Calls, Unwrap(w, c) PROVE Once'
  BY <1>1, <1>2, QuietStep DEF Unwrap, At, Goto, Reply, store, Inv, TypeOK
<1>3. ASSUME NEW w \in Workers, NEW c \in Calls, VerifyProof(w, c) PROVE Once'
  <2>1. VerifierVerdict(body[c].proof) # "ok"
    BY DEF VerifierVerdict
  <2> QED BY <1>1, <1>3, <2>1, QuietStep
          DEF VerifyProof, Conclude, At, Goto, Reply, store, Inv, TypeOK
<1>4. ASSUME NEW w \in Workers, NEW c \in Calls, TestNonce(w, c) PROVE Once'
  <2>1. CASE HasNonce(KeyOf(c))
    BY <1>1, <1>4, <2>1, QuietStep
       DEF TestNonce, Conclude, At, Goto, Reply, store, KeyOf, Inv, TypeOK
  <2>2. CASE ~HasNonce(KeyOf(c))
    BY <1>4, <2>2
       DEF TestNonce, Goto, store, KeyOf, Inv, TypeOK, Once, HasNonce, ProofGrantedOnce,
           NonceClaimedOnce
  <2> QED BY <2>1, <2>2
<1>5. ASSUME NEW w \in Workers, NEW c \in Calls, ClaimNonce(w, c) PROVE Once'
  BY <1>5, ClaimOnce
<1>6. ASSUME NEW w \in Workers, NEW c \in Calls, EvaluatePolicy(w, c) PROVE Once'
  <2>1. CASE decision'[c] = "ok"
    BY <1>6, <2>1, GrantOnce
  <2>2. CASE decision'[c] # "ok"
    BY <1>1, <1>6, <2>2, QuietStep
       DEF EvaluatePolicy, Conclude, At, Goto, Reply, store, Inv, TypeOK
  <2> QED BY <2>1, <2>2
<1>7. ASSUME NEW w \in Workers, NEW c \in Calls, Sign(w, c) PROVE Once'
  BY <1>1, <1>7, QuietStep DEF Sign, At, Goto, Reply, store, Inv, TypeOK
<1>8. ASSUME NEW w \in Workers, NEW c \in Calls, PutRequest(w, c) PROVE Once'
  BY <1>1, <1>8, QuietStep DEF PutRequest, At, Goto, Inv, TypeOK
<1>9. ASSUME NEW w \in Workers, NEW c \in Calls, PutAttestation(w, c) PROVE Once'
  BY <1>1, <1>9, QuietStep DEF PutAttestation, At, Reply, Inv, TypeOK
<1>10. ASSUME NEW w \in Workers, NEW c \in Calls, StorageFails(w, c) PROVE Once'
  BY <1>10, FailOnce
<1>11. ASSUME NEW w \in Workers, NEW c \in Calls, NEW b \in Bodies, NEW i \in Calls,
              Receive(w, c, b, i) PROVE Once'
  BY <1>1, <1>11, QuietStep DEF Receive, Reply, store, Inv, TypeOK
<1>12. ASSUME NEW w \in Workers, NEW d \in Devices, RegisterDevice(w, d) PROVE Once'
  BY <1>1, <1>12, QuietStep DEF RegisterDevice, handler
<1>13. ASSUME NEW w \in Workers, OtherCallFails(w) PROVE Once'
  BY <1>1, <1>13, QuietStep DEF OtherCallFails, handler
<1>14. ASSUME NEW w \in Workers, Crash(w) PROVE Once'
  <2>1. Backend # "memory"
    BY <1>14 DEF Crash, StoreSurvives
  <2> QED BY <1>1, <1>14, <2>1, QuietStep DEF Crash, Reply, store, handler, Inv, TypeOK
<1>15. CASE Tick
  BY <1>15, TickOnce
<1>16. CASE UNCHANGED vars
  BY <1>1, <1>16, QuietStep DEF vars
<1> QED
  BY <1>2, <1>3, <1>4, <1>5, <1>6, <1>7, <1>8, <1>9, <1>10, <1>11, <1>12, <1>13, <1>14,
     <1>15, <1>16 DEF Next, HandlerStep

LEMMA InitOnce == Init => Once
BY DEF Init, Once, ProofGrantedOnce, NonceClaimedOnce, Never, Keys

LEMMA OnceInvariance ==
  ASSUME OneWorker, StoreSurvives, KeepsForever \/ TTLCovers
  PROVE  Spec => []OnceInv
<1>1. Init => OnceInv
  BY InitInv, InitEarned, InitOnce DEF OnceInv
<1>2. OnceInv /\ [Next]_vars => OnceInv'
  BY StepInv, StepEarned, StepOnce DEF OnceInv
<1> QED BY <1>1, <1>2, PTL DEF Spec

\* One worker grants a device's proof at most once, across crashes, failed store
\* calls and retries, if its store survives it and either keeps nonces forever
\* or for longer than MaxProofAge + MaxClockSkew + MaxPause.
THEOREM GrantedOnce ==
  ASSUME OneWorker, StoreSurvives, KeepsForever \/ TTLCovers
  PROVE  Spec => []ProofGrantedOnce
<1>1. OnceInv => ProofGrantedOnce
  BY DEF OnceInv, Once
<1> QED BY <1>1, OnceInvariance, PTL

\* One worker over a store that keeps its nonces lets each nonce past the replay
\* check in one call only.
THEOREM ClaimedOnce ==
  ASSUME OneWorker, StoreSurvives, KeepsForever
  PROVE  Spec => []NonceClaimedOnce
<1>1. OnceInv => NonceClaimedOnce
  BY DEF OnceInv, Once
<1> QED BY <1>1, OnceInvariance, PTL
-----------------------------------------------------------------------------
(* The handlers implement NonceGuard. *)

Spent == {k \in Keys : ledger[k] # Never}
Holder == {<<c, KeyOf(c)>> : c \in claims}
Granted == {c \in Calls : decision[c] = "ok"}

\* Steps that neither write the ledger nor grant stutter.
LEMMA QuietRefines ==
  ASSUME OnceInv, UNCHANGED <<ledger, claims>>,
         \A c \in Calls : body[c] # NoBody => body'[c] = body[c],
         \A c \in Calls : decision'[c] = "ok" <=> decision[c] = "ok"
  PROVE  UNCHANGED <<Spent, Holder, Granted>>
<1>1. \A c \in claims : c \in Calls /\ body'[c] = body[c]
  BY SentTyped DEF OnceInv, Inv, TypeOK
<1> QED BY <1>1 DEF Spent, Holder, Granted, KeyOf

\* Every step of a single worker is a step of the guard or a stutter.
LEMMA StepRefines ==
  ASSUME OnceInv, OneWorker, StoreSurvives, KeepsForever, [Next]_vars
  PROVE  \/ \E c \in Calls, k \in Keys :
               /\ k \notin Spent
               /\ Spent' = Spent \cup {k}
               /\ Holder' = Holder \cup {<<c, k>>}
               /\ UNCHANGED Granted
         \/ \E k \in Keys :
               /\ k \notin Spent
               /\ Spent' = Spent \cup {k}
               /\ UNCHANGED <<Holder, Granted>>
         \/ \E c \in Calls :
               /\ \E k \in Keys : <<c, k>> \in Holder
               /\ c \notin Granted
               /\ Granted' = Granted \cup {c}
               /\ UNCHANGED <<Spent, Holder>>
         \/ UNCHANGED <<Spent, Holder, Granted>>
<1> USE DEF OnceInv
<1>1. \A c \in Calls : body[c] # NoBody => body'[c] = body[c]
  BY BodyKept
<1>2. \A k \in Keys : HasNonce(k) <=> k \in Spent
  BY DEF HasNonce, KeepsForever, Spent
<1>3. now # Never
  BY DEF Inv, TypeOK, Never
<1>4. ASSUME NEW w \in Workers, NEW c \in Calls, ClaimNonce(w, c)
      PROVE  \E k \in Keys :
               /\ k \notin Spent
               /\ Spent' = Spent \cup {k}
               /\ Holder' = Holder \cup {<<c, k>>}
               /\ UNCHANGED Granted
  <2>1. KeyOf(c) \in Keys /\ ~HasNonce(KeyOf(c))
    BY <1>4, SentTyped DEF ClaimNonce, At, Once, InHandler
  <2>2. ledger' = [ledger EXCEPT ![KeyOf(c)] = now]
    BY <1>4, <2>1 DEF ClaimNonce, RecordNonce, KeyOf
  <2>3. Spent' = Spent \cup {KeyOf(c)}
    BY <1>3, <2>1, <2>2 DEF Spent, Inv, TypeOK
  <2>4. Holder' = Holder \cup {<<c, KeyOf(c)>>} /\ UNCHANGED Granted
    BY <1>4 DEF ClaimNonce, Holder, Granted, KeyOf
  <2> QED BY <1>2, <2>1, <2>3, <2>4
<1>5. ASSUME NEW w \in Workers, NEW c \in Calls, StorageFails(w, c)
      PROVE  \/ \E k \in Keys :
                   /\ k \notin Spent
                   /\ Spent' = Spent \cup {k}
                   /\ UNCHANGED <<Holder, Granted>>
             \/ UNCHANGED <<Spent, Holder, Granted>>
  <2>1. UNCHANGED <<Holder, Granted>>
    BY <1>5 DEF StorageFails, Holder, Granted, KeyOf
  <2>2. CASE ledger' = ledger
    BY <2>1, <2>2 DEF Spent
  <2>3. CASE pc[c] = "record_nonce" /\ RecordNonce(KeyOf(c))
    <3>1. KeyOf(c) \in Keys /\ ~HasNonce(KeyOf(c))
      BY <2>3, SentTyped DEF Once, InHandler
    <3>2. ledger' = [ledger EXCEPT ![KeyOf(c)] = now]
      BY <2>3, <3>1 DEF RecordNonce
    <3>3. Spent' = Spent \cup {KeyOf(c)}
      BY <1>3, <3>1, <3>2 DEF Spent, Inv, TypeOK
    <3> QED BY <1>2, <2>1, <3>1, <3>3
  <2> QED BY <1>5, <2>2, <2>3 DEF StorageFails, store, KeyOf
<1>6. ASSUME NEW w \in Workers, NEW c \in Calls, EvaluatePolicy(w, c)
      PROVE  \/ /\ \E k \in Keys : <<c, k>> \in Holder
                /\ c \notin Granted
                /\ Granted' = Granted \cup {c}
                /\ UNCHANGED <<Spent, Holder>>
             \/ UNCHANGED <<Spent, Holder, Granted>>
  <2>1. /\ pc[c] = "policy" /\ decision[c] = "none" /\ c \in claims /\ KeyOf(c) \in Keys
        /\ UNCHANGED <<ledger, body, claims>>
        /\ \A d \in Calls : d # c => decision'[d] = decision[d]
    BY <1>6, SentTyped
       DEF EvaluatePolicy, Conclude, At, store, EarnedInv, Vetted, Inv, TypeOK, InHandler
  <2>2. CASE decision'[c] = "ok"
    BY <2>1, <2>2 DEF Spent, Holder, Granted, KeyOf
  <2>3. CASE decision'[c] # "ok"
    BY <2>1, <2>3, QuietRefines
  <2> QED BY <2>2, <2>3
<1>7. ASSUME NEW w \in Workers, NEW c \in Calls,
             Unwrap(w, c) \/ Sign(w, c) \/ PutRequest(w, c) \/ PutAttestation(w, c)
      PROVE  UNCHANGED <<Spent, Holder, Granted>>
  BY <1>1, <1>7, QuietRefines DEF Unwrap, Sign, PutRequest, PutAttestation, store
<1>8. ASSUME NEW w \in Workers, NEW c \in Calls, VerifyProof(w, c) \/ TestNonce(w, c)
      PROVE  UNCHANGED <<Spent, Holder, Granted>>
  <2>1. decision[c] = "none" /\ decision'[c] # "ok"
        /\ \A d \in Calls : d # c => decision'[d] = decision[d]
    BY <1>8 DEF VerifyProof, VerifierVerdict, TestNonce, Conclude, At, EarnedInv, Vetted, Inv, TypeOK
  <2>2. UNCHANGED <<ledger, claims>>
    BY <1>8 DEF VerifyProof, TestNonce, store
  <2> QED BY <1>1, <2>1, <2>2, QuietRefines
<1>9. ASSUME NEW w \in Workers, Crash(w) PROVE UNCHANGED <<Spent, Holder, Granted>>
  <2>1. Backend # "memory"
    BY <1>9 DEF Crash, StoreSurvives
  <2> QED BY <1>1, <1>9, <2>1, QuietRefines DEF Crash, store
<1>10. ASSUME \/ \E w \in Workers, c \in Calls, b \in Bodies, i \in Calls : Receive(w, c, b, i)
              \/ \E w \in Workers, d \in Devices : RegisterDevice(w, d)
              \/ \E w \in Workers : OtherCallFails(w)
              \/ Tick
              \/ UNCHANGED vars
       PROVE  UNCHANGED <<Spent, Holder, Granted>>
  BY <1>1, <1>10, QuietRefines DEF Receive, RegisterDevice, OtherCallFails, Tick, store, vars
<1> QED
  BY <1>4, <1>5, <1>6, <1>7, <1>8, <1>9, <1>10 DEF Next, HandlerStep

\* The test and the record of a nonce act as one indivisible claim: the
\* handlers of one worker over a lasting store implement NonceGuard.
THEOREM GuardImplemented ==
  ASSUME OneWorker, StoreSurvives, KeepsForever
  PROVE  Spec => ImplementsNonceGuard
<1>1. Init => Guard!Init
  BY DEF Init, Guard!Init, Keys
<1>2. OnceInv /\ [Next]_vars => [Guard!Next]_(Guard!vars)
  <2> SUFFICES ASSUME OnceInv, [Next]_vars PROVE [Guard!Next]_(Guard!vars)
    OBVIOUS
  <2> QED
    BY StepRefines
       DEF Spent, Holder, Granted, KeyOf, Guard!Next, Guard!Claim, Guard!Burn, Guard!Grant,
           Guard!vars
<1>3. Spec => []OnceInv
  BY OnceInvariance
<1> QED BY <1>1, <1>2, <1>3, PTL DEF Spec, ImplementsNonceGuard, Guard!Spec
-----------------------------------------------------------------------------
(* What NonceGuard promises, of any endpoint that implements it. *)

\* A key that is held is spent, one call holds it, and who is granted holds one.
GuardInv ==
  /\ \A p \in Holder : p[2] \in Spent
  /\ \A p, q \in Holder : p[2] = q[2] => p[1] = q[1]
  /\ \A c \in Granted : \E k \in Keys : <<c, k>> \in Holder

LEMMA GuardKeeps == GuardInv /\ [Guard!Next]_(Guard!vars) => GuardInv'
<1> SUFFICES ASSUME GuardInv, [Guard!Next]_(Guard!vars) PROVE GuardInv'
  OBVIOUS
<1>1. ASSUME NEW c \in Calls, NEW k \in Keys,
             k \notin Spent, Spent' = Spent \cup {k},
             Holder' = Holder \cup {<<c, k>>}, UNCHANGED Granted
      PROVE  GuardInv'
  <2>1. \A p \in Holder : p[2] \in Spent /\ p[2] # k
    BY <1>1 DEF GuardInv
  <2>2. \A p \in Holder' : p \in Holder \/ (p[1] = c /\ p[2] = k)
    BY <1>1
  <2>3. \A p \in Holder' : p[2] \in Spent'
    BY <1>1, <2>1, <2>2
  <2>4. \A p, q \in Holder' : p[2] = q[2] => p[1] = q[1]
    BY <2>1, <2>2 DEF GuardInv
  <2>5. \A d \in Granted' : \E l \in Keys : <<d, l>> \in Holder'
    BY <1>1 DEF GuardInv
  <2> QED BY <2>3, <2>4, <2>5 DEF GuardInv
<1>2. ASSUME NEW k \in Keys, Spent' = Spent \cup {k}, UNCHANGED <<Holder, Granted>>
      PROVE  GuardInv'
  BY <1>2 DEF GuardInv
<1>3. ASSUME NEW c \in Calls, \E k \in Keys : <<c, k>> \in Holder,
             Granted' = Granted \cup {c}, UNCHANGED <<Spent, Holder>>
      PROVE  GuardInv'
  BY <1>3 DEF GuardInv
<1>4. CASE UNCHANGED <<Spent, Holder, Granted>>
  BY <1>4 DEF GuardInv
<1> QED
  BY <1>1, <1>2, <1>3, <1>4
     DEF Spent, Holder, Granted, KeyOf, Guard!Next, Guard!Claim, Guard!Burn, Guard!Grant,
         Guard!vars

\* Replay protection needs no more than NonceGuard: an endpoint that implements
\* it, with any workers, backend and faults, claims a nonce and grants a proof in
\* one call only. It is what two workers would get of a claim that is one step.
THEOREM GuardSuffices == ImplementsNonceGuard => [](NonceClaimedOnce /\ ProofGrantedOnce)
<1>1. Guard!Init => GuardInv
  BY DEF Guard!Init, GuardInv, Spent, Holder, Granted, KeyOf
<1>2. GuardInv => NonceClaimedOnce /\ ProofGrantedOnce
  <2> SUFFICES ASSUME GuardInv PROVE NonceClaimedOnce /\ ProofGrantedOnce
    OBVIOUS
  <2>1. \A c \in claims : <<c, KeyOf(c)>> \in Holder
    BY DEF Holder
  <2>2. \A c, d \in claims : KeyOf(c) = KeyOf(d) => c = d
    <3> TAKE c, d \in claims
    <3>1. PICK p, q \in Holder : p = <<c, KeyOf(c)>> /\ q = <<d, KeyOf(d)>>
      BY <2>1
    <3> QED BY <3>1 DEF GuardInv
  <2>3. \A c \in Granted : c \in claims
    BY DEF GuardInv, Holder
  <2>4. NonceClaimedOnce
    BY <2>2 DEF NonceClaimedOnce, KeyOf
  <2>5. ProofGrantedOnce
    BY <2>2, <2>3 DEF ProofGrantedOnce, Granted, KeyOf
  <2> QED BY <2>4, <2>5
<1> QED BY <1>1, <1>2, GuardKeeps, PTL DEF ImplementsNonceGuard, Guard!Spec
=============================================================================
