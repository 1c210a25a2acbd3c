------------------------- MODULE OracleStoredProofs -------------------------
(***************************************************************************)
(* What becomes of a decision once it is taken: the two documents in the   *)
(* store and the client's answer agree, whatever the workers interleave    *)
(* and whatever fails between the two writes.                              *)
(***************************************************************************)
EXTENDS OracleAttestProofs

\* Only the death of an in-memory store loses what was stored.
Durable == Backend = "memory" => "crash" \notin Faults

\* An id that a call names and that is not its own belongs to a call that has only
\* its last write before it, or to a legacy call.
Settled(i) ==
  body[i] # NoBody /\ (pc[i] \in {"put_attestation", "done"} \/ body[i].mode = "legacy")

\* The strengthening.  Ids: a call writes under its own name unless it is a legacy
\* call; an id known to clients is settled; what stands under the id of a request
\* before that has written is a legacy document.  Progress: a call in its handler has
\* no answer; the last write of a request is behind its first one.
Filed ==
  /\ \A c \in Calls : attid[c] # c => body[c] # NoBody /\ body[c].mode = "legacy"
  /\ \A c \in Calls : attid[c] # c => Settled(attid[c])
  /\ \A i \in Calls : attestations[i] # NoDoc =>
       Settled(i) /\ (pc[i] = "done" \/ attestations[i].via = "legacy")
  /\ \A c \in Calls : status[c] # NoAnswer <=> pc[c] = "done"
  /\ \A c \in requests : pc[c] \in {"put_attestation", "done"}
  /\ Durable => \A c \in Calls : pc[c] = "put_attestation" /\ body[c].mode # "legacy"
                                 => c \in requests

FiledInv == Inv /\ Vetted /\ Filed

LEMMA InitFiled == Init => Filed
BY DEF Init, Filed, NoAnswer

\* What a step leaves of a call: a decision stays, and who is done stays as it is.
CallStays(c) ==
  /\ decision[c] # "none" => attid'[c] = attid[c] /\ decision'[c] = decision[c]
  /\ pc[c] = "put_attestation" => pc'[c] \in {"put_attestation", "done"}
  /\ pc[c] = "done" => /\ pc'[c] = "done" /\ status'[c] = status[c]
                       /\ attid'[c] = attid[c] /\ decision'[c] = decision[c]

LEMMA CallStep ==
  ASSUME Inv, Vetted, [Next]_vars, NEW c \in Calls
  PROVE  CallStays(c)
<1>1. ASSUME NEW w \in Workers, NEW d \in Calls, Unwrap(w, d) PROVE CallStays(c)
  BY <1>1 DEF Unwrap, At, Goto, Reply, store, CallStays, Inv, TypeOK, Control, InHandler, Vetted
<1>2. ASSUME NEW w \in Workers, NEW d \in Calls, VerifyProof(w, d) PROVE CallStays(c)
  BY <1>2 DEF VerifyProof, Conclude, At, Goto, Reply, store, CallStays, Inv, TypeOK, Control, InHandler, Vetted
<1>3. ASSUME NEW w \in Workers, NEW d \in Calls, TestNonce(w, d) PROVE CallStays(c)
  BY <1>3 DEF TestNonce, Conclude, At, Goto, Reply, store, CallStays, Inv, TypeOK, Control, InHandler, Vetted
<1>4. ASSUME NEW w \in Workers, NEW d \in Calls, ClaimNonce(w, d) PROVE CallStays(c)
  BY <1>4 DEF ClaimNonce, At, Goto, CallStays, Inv, TypeOK, Control, InHandler, Vetted
<1>5. ASSUME NEW w \in Workers, NEW d \in Calls, EvaluatePolicy(w, d) PROVE CallStays(c)
  BY <1>5 DEF EvaluatePolicy, Conclude, At, Goto, Reply, store, CallStays, Inv, TypeOK, Control, InHandler, Vetted
<1>6. ASSUME NEW w \in Workers, NEW d \in Calls, Sign(w, d) PROVE CallStays(c)
  BY <1>6 DEF Sign, At, Goto, Reply, store, CallStays, Inv, TypeOK, Control, InHandler, Vetted
<1>7. ASSUME NEW w \in Workers, NEW d \in Calls, PutRequest(w, d) PROVE CallStays(c)
  BY <1>7 DEF PutRequest, At, Goto, CallStays, Inv, TypeOK, Control, InHandler, Vetted
<1>8. ASSUME NEW w \in Workers, NEW d \in Calls, PutAttestation(w, d) PROVE CallStays(c)
  BY <1>8 DEF PutAttestation, At, Reply, CallStays, Inv, TypeOK, Control, InHandler, Vetted
<1>9. ASSUME NEW w \in Workers, NEW d \in Calls, StorageFails(w, d) PROVE CallStays(c)
  BY <1>9 DEF StorageFails, CallsStore, Reply, store, CallStays, Inv, TypeOK, Control, InHandler, Vetted
<1>10. ASSUME NEW w \in Workers, NEW d \in Calls, NEW b \in Bodies, NEW i \in Calls,
              Receive(w, d, b, i) PROVE CallStays(c)
  BY <1>10 DEF Receive, Reply, store, CallStays, Inv, TypeOK, Control, InHandler, Vetted
<1>11. ASSUME NEW w \in Workers, NEW d \in Devices, RegisterDevice(w, d) PROVE CallStays(c)
  BY <1>11 DEF RegisterDevice, handler, CallStays, Inv, TypeOK, Control, InHandler, Vetted
<1>12. ASSUME NEW w \in Workers, OtherCallFails(w) PROVE CallStays(c)
  BY <1>12 DEF OtherCallFails, handler, CallStays, Inv, TypeOK, Control, InHandler, Vetted
<1>13. ASSUME NEW w \in Workers, Crash(w) PROVE CallStays(c)
  BY <1>13 DEF Crash, Reply, handler, store, CallStays, Inv, TypeOK, Control, InHandler, Vetted
<1>14. CASE Tick
  BY <1>14 DEF Tick, handler, store, CallStays, Inv, TypeOK, Control, InHandler, Vetted
<1>15. CASE UNCHANGED vars
  BY <1>15 DEF vars, CallStays, Inv, TypeOK, Control, InHandler, Vetted
<1> QED
  BY <1>1, <1>2, <1>3, <1>4, <1>5, <1>6, <1>7, <1>8, <1>9, <1>10, <1>11, <1>12, <1>13,
     <1>14, <1>15 DEF Next, HandlerStep

\* What is settled stays so.
LEMMA SettledKept ==
  ASSUME Inv, Vetted, [Next]_vars, NEW i \in Calls, Settled(i)
  PROVE  Settled(i)' /\ (pc[i] = "done" => pc'[i] = "done")
<1>1. body'[i] = body[i]
  BY BodyKept DEF Settled
<1> QED BY <1>1, CallStep DEF Settled, CallStays

\* Every step keeps the strengthening.
LEMMA StepFiled == FiledInv /\ [Next]_vars => Filed'
<1> SUFFICES ASSUME FiledInv, [Next]_vars PROVE Filed'
  OBVIOUS
<1> USE DEF FiledInv, Inv, NoAnswer, LostAnswer
<1>0. /\ \A i \in Calls : Settled(i) => Settled(i)' /\ (pc[i] = "done" => pc'[i] = "done")
      /\ \A c \in Calls : body[c] # NoBody => body'[c] = body[c]
  BY SettledKept, BodyKept
<1>1. ASSUME NEW w \in Workers, NEW c \in Calls, Unwrap(w, c) PROVE Filed'
  BY <1>0, <1>1 DEF Unwrap, At, Goto, Reply, store, TypeOK, Control, InHandler, Filed
<1>2. ASSUME NEW w \in Workers, NEW c \in Calls, VerifyProof(w, c) PROVE Filed'
  BY <1>0, <1>2 DEF VerifyProof, Conclude, At, Goto, Reply, store, TypeOK, Control, InHandler, Filed
<1>3. ASSUME NEW w \in Workers, NEW c \in Calls, TestNonce(w, c) PROVE Filed'
  BY <1>0, <1>3 DEF TestNonce, Conclude, At, Goto, Reply, store, TypeOK, Control, InHandler, Filed
<1>4. ASSUME NEW w \in Workers, NEW c \in Calls, ClaimNonce(w, c) PROVE Filed'
  BY <1>0, <1>4 DEF ClaimNonce, At, Goto, TypeOK, Control, InHandler, Filed
<1>5. ASSUME NEW w \in Workers, NEW c \in Calls, EvaluatePolicy(w, c) PROVE Filed'
  BY <1>0, <1>5 DEF EvaluatePolicy, Conclude, At, Goto, Reply, store, TypeOK, Control, InHandler, Filed
<1>6. ASSUME NEW w \in Workers, NEW c \in Calls, Sign(w, c) PROVE Filed'
  BY <1>0, <1>6 DEF Sign, At, Goto, Reply, store, TypeOK, Control, InHandler, Filed
<1>7. ASSUME NEW w \in Workers, NEW c \in Calls, PutRequest(w, c) PROVE Filed'
  BY <1>0, <1>7 DEF PutRequest, At, Goto, TypeOK, Control, InHandler, Filed
<1>8. ASSUME NEW w \in Workers, NEW c \in Calls, PutAttestation(w, c) PROVE Filed'
  BY <1>0, <1>8 DEF PutAttestation, At, Reply, TypeOK, Control, InHandler, Filed, Settled, Document
<1>9. ASSUME NEW w \in Workers, NEW c \in Calls, StorageFails(w, c) PROVE Filed'
  BY <1>0, <1>9 DEF StorageFails, CallsStore, Reply, store, TypeOK, Control, InHandler, Filed, Settled, Document
<1>10. ASSUME NEW w \in Workers, NEW c \in Calls, NEW b \in Bodies, NEW i \in Calls,
              Receive(w, c, b, i) PROVE Filed'
  BY <1>0, <1>10, BodiesTyped
     DEF Receive, KnownIds, Reply, store, TypeOK, Control, InHandler, Filed, Settled
<1>11. ASSUME NEW w \in Workers, NEW d \in Devices, RegisterDevice(w, d) PROVE Filed'
  BY <1>0, <1>11 DEF RegisterDevice, handler, TypeOK, Filed
<1>12. ASSUME NEW w \in Workers, OtherCallFails(w) PROVE Filed'
  BY <1>0, <1>12 DEF OtherCallFails, handler, TypeOK, Filed
<1>13. ASSUME NEW w \in Workers, Crash(w) PROVE Filed'
  BY <1>0, <1>13 DEF Crash, Reply, handler, store, TypeOK, Control, InHandler, Filed, Durable
<1>14. CASE Tick
  BY <1>0, <1>14 DEF Tick, handler, store, TypeOK, Filed
<1>15. CASE UNCHANGED vars
  BY <1>0, <1>15 DEF vars, TypeOK, Filed
<1> QED
  BY <1>1, <1>2, <1>3, <1>4, <1>5, <1>6, <1>7, <1>8, <1>9, <1>10, <1>11, <1>12, <1>13,
     <1>14, <1>15 DEF Next, HandlerStep

LEMMA FiledInvariance == Spec => []FiledInv
<1>1. Init => FiledInv
  BY InitInv, InitEarned, InitFiled DEF FiledInv, EarnedInv
<1>2. Inv /\ Vetted /\ Filed /\ [Next]_vars => Filed'
  BY StepFiled DEF FiledInv
<1>3. EarnedInv => Vetted
  BY DEF EarnedInv
<1>4. Init => Filed
  BY InitFiled
<1> QED BY <1>2, <1>3, <1>4, Invariance, EarnedInvariance, PTL DEF Spec, FiledInv
-----------------------------------------------------------------------------
(* The two documents and the answer. *)

\* A step stores no document but under the id its call names, and ends the call; a document in a
\* store that lasts gives way to another one only.
LEMMA StoredUnderId ==
  ASSUME Inv, [Next]_vars, NEW i \in Calls
  PROVE  \/ attestations'[i] = attestations[i]
         \/ Backend = "memory" /\ "crash" \in Faults /\ attestations'[i] = NoDoc
         \/ \E c \in Calls : /\ pc[c] = "put_attestation" /\ pc'[c] = "done"
                             /\ attid[c] = i /\ attestations'[i] = Document(c)
<1>1. ASSUME NEW w \in Workers, NEW c \in Calls, PutAttestation(w, c)
      PROVE  \/ attestations'[i] = attestations[i]
             \/ /\ pc[c] = "put_attestation" /\ pc'[c] = "done"
                /\ attid[c] = i /\ attestations'[i] = Document(c)
  BY <1>1 DEF PutAttestation, At, Reply, Inv, TypeOK
<1>2. ASSUME NEW w \in Workers, NEW c \in Calls, StorageFails(w, c)
      PROVE  \/ attestations'[i] = attestations[i]
             \/ /\ pc[c] = "put_attestation" /\ pc'[c] = "done"
                /\ attid[c] = i /\ attestations'[i] = Document(c)
  BY <1>2 DEF StorageFails, Reply, store, Inv, TypeOK
<1>3. ASSUME NEW w \in Workers, Crash(w)
      PROVE  \/ attestations'[i] = attestations[i]
             \/ Backend = "memory" /\ "crash" \in Faults /\ attestations'[i] = NoDoc
  BY <1>3 DEF Crash, store
<1>4. CASE /\ ~ \E w \in Workers, c \in Calls : PutAttestation(w, c) \/ StorageFails(w, c)
           /\ ~ \E w \in Workers : Crash(w)
  BY <1>4 DEF Next, HandlerStep, vars, store, Unwrap, VerifyProof, TestNonce, ClaimNonce,
       EvaluatePolicy, Sign, PutRequest, Receive, RegisterDevice, OtherCallFails, Tick
<1> QED BY <1>1, <1>2, <1>3, <1>4

\* A call that writes is a legacy call or writes under its own name, and then what it
\* replaces is a legacy document.
LEMMA WriterIsLegacyOrOwner ==
  ASSUME FiledInv, NEW c \in Calls, pc[c] = "put_attestation"
  PROVE  \/ body[c].mode = "legacy"
         \/ /\ attid[c] = c
            /\ attestations[c] # NoDoc => attestations[c].via = "legacy"
BY DEF FiledInv, Filed

LEMMA NoDocIsNone == NoDoc \notin Docs
BY DEF NoDoc, Docs, Reasons, PreambleGates, SignalGates

\* A stored attestation is replaced by a granted legacy document, or by the first
\* write of the request whose id a legacy document took.
THEOREM OnlyLegacyOrOwnerReplaces == Spec => ReplacedByLegacyOrOwner
<1>1. FiledInv /\ [Next]_vars =>
        \A i \in Calls :
          attestations[i] # NoDoc /\ attestations'[i] # attestations[i] =>
            \/ Backend = "memory" /\ attestations'[i] = NoDoc
            \/ attestations'[i].via = "legacy" /\ attestations'[i].reason = "ok"
            \/ /\ attestations[i].via = "legacy"
               /\ attestations'[i] = Document(i)
               /\ pc[i] # "done" /\ pc'[i] = "done"
  <2> SUFFICES ASSUME FiledInv, [Next]_vars, NEW i \in Calls,
                      attestations[i] # NoDoc, attestations'[i] # attestations[i],
                      NEW c \in Calls, pc[c] = "put_attestation", pc'[c] = "done",
                      attid[c] = i, attestations'[i] = Document(c)
               PROVE  \/ attestations'[i].via = "legacy" /\ attestations'[i].reason = "ok"
                      \/ /\ attestations[i].via = "legacy"
                         /\ attestations'[i] = Document(i)
                         /\ pc[i] # "done" /\ pc'[i] = "done"
    BY StoredUnderId DEF FiledInv
  <2>1. CASE body[c].mode = "legacy"
    <3>1. decision[c] = "ok"
      BY <2>1 DEF FiledInv, Vetted
    <3> QED BY <2>1, <3>1 DEF Document
  <2>2. CASE body[c].mode # "legacy"
    <3>1. c = i /\ attestations[c].via = "legacy"
      BY <2>2, WriterIsLegacyOrOwner
    <3> QED BY <3>1
  <2> QED BY <2>1, <2>2
<1> QED BY <1>1, FiledInvariance, PTL DEF Spec, ReplacedByLegacyOrOwner

\* What a call is once it has its decision, or is done: its answer, its id and its
\* document stay.
LEMMA CallKept ==
  ASSUME FiledInv, [Next]_vars, NEW c \in Calls
  PROVE  /\ decision[c] # "none" =>
              body'[c] = body[c] /\ attid'[c] = attid[c] /\ decision'[c] = decision[c]
         /\ pc[c] = "done" =>
              /\ body'[c] = body[c] /\ attid'[c] = attid[c] /\ decision'[c] = decision[c]
              /\ pc'[c] = "done" /\ status'[c] = status[c]
<1>1. decision[c] # "none" \/ pc[c] = "done" => body[c] # NoBody
  BY DEF FiledInv, Vetted, Inv, Control, TypeOK, InHandler
<1> QED BY <1>1, CallStep, BodyKept DEF CallStays, FiledInv

LEMMA RequestsKept == ASSUME [Next]_vars, Durable PROVE requests \subseteq requests'
BY DEF Durable, Next, HandlerStep, vars, store, Unwrap, VerifyProof, TestNonce, ClaimNonce,
       EvaluatePolicy, Sign, PutRequest, PutAttestation, StorageFails, Receive, RegisterDevice,
       OtherCallFails, Crash, Tick

\* What a step writes for a call: 200 is the answer of the step that stores the
\* attestation; a call leaves its last write with its document stored or an error
\* answered; a request is stored on the way to the last write, or by a call that fails.
Writes(c) ==
  /\ status'[c] = 200 /\ status[c] # 200 => \E w \in Workers : PutAttestation(w, c)
  /\ pc[c] = "put_attestation" =>
       \/ pc'[c] = "put_attestation"
       \/ attestations' = [attestations EXCEPT ![attid[c]] = Document(c)]
       \/ status'[c] \in {500, LostAnswer}
  /\ c \in requests' \ requests => pc'[c] = "put_attestation" \/ status'[c] = 500

LEMMA WriteStep ==
  ASSUME Inv, [Next]_vars, NEW c \in Calls
  PROVE  Writes(c)
<1> USE DEF LostAnswer
<1>1. ASSUME NEW w \in Workers, NEW d \in Calls, Unwrap(w, d) PROVE Writes(c)
  BY <1>1 DEF Unwrap, At, Goto, Reply, store, Writes, Inv, TypeOK, Control, InHandler
<1>2. ASSUME NEW w \in Workers, NEW d \in Calls, VerifyProof(w, d) PROVE Writes(c)
  BY <1>2 DEF VerifyProof, Conclude, At, Goto, Reply, store, Writes, Inv, TypeOK, Control, InHandler
<1>3. ASSUME NEW w \in Workers, NEW d \in Calls, TestNonce(w, d) PROVE Writes(c)
  BY <1>3 DEF TestNonce, Conclude, At, Goto, Reply, store, Writes, Inv, TypeOK, Control, InHandler
<1>4. ASSUME NEW w \in Workers, NEW d \in Calls, ClaimNonce(w, d) PROVE Writes(c)
  BY <1>4 DEF ClaimNonce, At, Goto, Writes, Inv, TypeOK, Control, InHandler
<1>5. ASSUME NEW w \in Workers, NEW d \in Calls, EvaluatePolicy(w, d) PROVE Writes(c)
  BY <1>5 DEF EvaluatePolicy, Conclude, At, Goto, Reply, store, Writes, Inv, TypeOK, Control, InHandler
<1>6. ASSUME NEW w \in Workers, NEW d \in Calls, Sign(w, d) PROVE Writes(c)
  BY <1>6 DEF Sign, At, Goto, Reply, store, Writes, Inv, TypeOK, Control, InHandler
<1>7. ASSUME NEW w \in Workers, NEW d \in Calls, PutRequest(w, d) PROVE Writes(c)
  BY <1>7 DEF PutRequest, At, Goto, Writes, Inv, TypeOK, Control, InHandler
<1>8. ASSUME NEW w \in Workers, NEW d \in Calls, PutAttestation(w, d) PROVE Writes(c)
  <2>1. CASE d = c
    BY <1>8, <2>1 DEF PutAttestation, At, Writes
  <2>2. CASE d # c
    BY <1>8, <2>2 DEF PutAttestation, At, Reply, Writes, Inv, TypeOK
  <2> QED BY <2>1, <2>2
<1>9. ASSUME NEW w \in Workers, NEW d \in Calls, StorageFails(w, d) PROVE Writes(c)
  BY <1>9 DEF StorageFails, CallsStore, Reply, store, Writes, Inv, TypeOK, Control, InHandler
<1>10. ASSUME NEW w \in Workers, NEW d \in Calls, NEW b \in Bodies, NEW i \in Calls,
              Receive(w, d, b, i) PROVE Writes(c)
  BY <1>10 DEF Receive, Reply, store, Writes, Inv, TypeOK, Control, InHandler
<1>11. ASSUME NEW w \in Workers, NEW d \in Devices, RegisterDevice(w, d) PROVE Writes(c)
  BY <1>11 DEF RegisterDevice, handler, Writes, Inv, TypeOK, Control, InHandler
<1>12. ASSUME NEW w \in Workers, OtherCallFails(w) PROVE Writes(c)
  BY <1>12 DEF OtherCallFails, handler, Writes, Inv, TypeOK, Control, InHandler
<1>13. ASSUME NEW w \in Workers, Crash(w) PROVE Writes(c)
  BY <1>13 DEF Crash, Reply, handler, store, Writes, Inv, TypeOK, Control, InHandler
<1>14. CASE Tick
  BY <1>14 DEF Tick, handler, store, Writes, Inv, TypeOK, Control, InHandler
<1>15. CASE UNCHANGED vars
  BY <1>15 DEF vars, Writes, Inv, TypeOK, Control, InHandler
<1> QED
  BY <1>1, <1>2, <1>3, <1>4, <1>5, <1>6, <1>7, <1>8, <1>9, <1>10, <1>11, <1>12, <1>13,
     <1>14, <1>15 DEF Next, HandlerStep

LEMMA AnsweredByStoring ==
  ASSUME FiledInv, [Next]_vars, NEW c \in Calls, status'[c] = 200, status[c] # 200
  PROVE  /\ pc[c] = "put_attestation"
         /\ attestations' = [attestations EXCEPT ![attid[c]] = Document(c)]
         /\ UNCHANGED <<body, attid, decision, requests>>
BY WriteStep DEF FiledInv, Writes, PutAttestation, At

\* What AnsweredIsReadable says of one call.
Readable(c) ==
  status[c] = 200 =>
    /\ body[c].mode # "legacy" => c \in requests
    /\ attestations[attid[c]] # NoDoc
    /\ \/ attestations[attid[c]] = Document(c)
       \/ \E d \in Calls : /\ d # c /\ attid[d] = attid[c]
                           /\ body[d].mode = "legacy" \/ d = attid[c]
                           /\ attestations[attid[c]] = Document(d)

\* What is stored is the document of a call that has its decision.
LEMMA DocumentDecided ==
  ASSUME Inv, NEW i \in Calls, NEW d \in Calls, attestations[i] # NoDoc,
         attestations[i] = Document(d)
  PROVE  decision[d] # "none"
<1>1. attestations[i].reason \in Reasons
  BY DEF Inv, TypeOK, Docs
<1> QED BY <1>1 DEF Document, Reasons, PreambleGates, SignalGates

LEMMA StepReadable ==
  ASSUME FiledInv, Durable, [Next]_vars, NEW c \in Calls, Readable(c)
  PROVE  Readable(c)'
<1> DEFINE i == attid[c]
<1> SUFFICES ASSUME status'[c] = 200 PROVE Readable(c)'
  BY DEF Readable
<1>0. i \in Calls /\ requests \subseteq requests'
  BY RequestsKept DEF FiledInv, Inv, TypeOK
<1>1. CASE status[c] # 200
  <2>1. /\ pc[c] = "put_attestation"
        /\ attestations' = [attestations EXCEPT ![i] = Document(c)]
        /\ UNCHANGED <<body, attid, decision, requests>>
    BY <1>1, AnsweredByStoring
  <2>2. attestations'[i] = Document(c) /\ Document(c)' = Document(c) /\ Document(c) # NoDoc
    BY <1>0, <2>1, DocumentTyped, NoDocIsNone DEF Document, FiledInv, Inv, TypeOK
  <2>3. body[c].mode # "legacy" => c \in requests
    BY <2>1 DEF FiledInv, Filed
  <2> QED BY <2>1, <2>2, <2>3 DEF Readable
<1>2. CASE status[c] = 200
  <2>1. pc[c] = "done"
    BY <1>2 DEF FiledInv, Filed, NoAnswer
  <2>2. attid'[c] = i /\ body'[c] = body[c] /\ Document(c)' = Document(c)
    BY <2>1, CallKept DEF Document
  <2>3. body[c].mode # "legacy" => c \in requests
    BY <1>2 DEF Readable
  <2>4. CASE attestations'[i] = attestations[i]
    <3>1. CASE attestations[i] = Document(c)
      BY <1>0, <1>2, <2>2, <2>3, <2>4, <3>1 DEF Readable
    <3>2. ASSUME NEW d \in Calls, d # c, attid[d] = i, body[d].mode = "legacy" \/ d = i,
                 attestations[i] = Document(d)
          PROVE  Readable(c)'
      <4>1. decision[d] # "none"
        BY <1>0, <1>2, <3>2, DocumentDecided DEF Readable, FiledInv
      <4>2. attid'[d] = i /\ body'[d] = body[d] /\ Document(d)' = Document(d)
        BY <3>2, <4>1, CallKept DEF Document
      <4> QED BY <1>0, <1>2, <2>2, <2>3, <2>4, <3>2, <4>2 DEF Readable
    <3> QED BY <1>2, <3>1, <3>2 DEF Readable
  <2>5. ASSUME NEW d \in Calls, pc[d] = "put_attestation", attid[d] = i,
               attestations'[i] = Document(d)
        PROVE  Readable(c)'
    <3>1. d # c /\ (body[d].mode = "legacy" \/ d = i)
      BY <2>1, <2>5, WriterIsLegacyOrOwner
    <3>2. attid'[d] = i /\ body'[d] = body[d] /\ Document(d)' = Document(d)
      <4>1. decision[d] # "none"
        BY <2>5 DEF FiledInv, Inv, Control, Reasons, PreambleGates, SignalGates
      <4> QED BY <2>5, <4>1, CallKept DEF Document
    <3>3. Document(d) # NoDoc
      BY <2>5, DocumentTyped, NoDocIsNone DEF FiledInv
    <3> QED BY <1>0, <2>2, <2>3, <2>5, <3>1, <3>2, <3>3 DEF Readable
  <2> QED BY <1>0, <2>4, <2>5, StoredUnderId DEF FiledInv, Durable
<1> QED BY <1>1, <1>2

LEMMA StepAnswered == FiledInv /\ AnsweredIsReadable /\ [Next]_vars => AnsweredIsReadable'
<1> SUFFICES ASSUME FiledInv, AnsweredIsReadable, [Next]_vars, Durable, NEW c \in Calls
             PROVE  Readable(c)'
  BY DEF AnsweredIsReadable, Readable, Durable
<1>1. Readable(c)
  BY DEF AnsweredIsReadable, Readable, Durable
<1> QED BY <1>1, StepReadable

\* A client that was answered 200 finds its documents, or under its id the document
\* of a granted legacy call or of the call the id was made for.
THEOREM AnsweredStaysReadable == Spec => []AnsweredIsReadable
<1>1. Init => AnsweredIsReadable
  BY DEF Init, AnsweredIsReadable, NoAnswer
<1> QED BY <1>1, StepAnswered, FiledInvariance, PTL DEF Spec

\* Where attestations are lost, requests are too.
LEMMA LostTogether ==
  ASSUME Inv, [Next]_vars, NEW i \in Calls, attestations[i] # NoDoc, attestations'[i] = NoDoc
  PROVE  requests' = {}
<1>1. \A c \in Calls : pc[c] = "put_attestation" => Document(c) # NoDoc
  BY DocumentTyped, NoDocIsNone
<1>2. ~ \E w \in Workers, c \in Calls : PutAttestation(w, c) \/ StorageFails(w, c)
  BY <1>1 DEF PutAttestation, StorageFails, store, At, Inv, TypeOK
<1> QED
  BY <1>2 DEF Next, HandlerStep, vars, store, Unwrap, VerifyProof, TestNonce, ClaimNonce,
       EvaluatePolicy, Sign, PutRequest, Receive, RegisterDevice, OtherCallFails, Crash, Tick

\* A stored request names an attestation that is not there only while its handler
\* is between the two writes, or after it failed there.
THEOREM NoOtherDangling == Spec => []DanglingOnlyAfterFailure
<1>1. Init => DanglingOnlyAfterFailure
  BY DEF Init, DanglingOnlyAfterFailure
<1>2. FiledInv /\ DanglingOnlyAfterFailure /\ [Next]_vars => DanglingOnlyAfterFailure'
  <2> SUFFICES ASSUME FiledInv, DanglingOnlyAfterFailure, [Next]_vars, NEW c \in requests'
               PROVE  \/ attestations'[attid'[c]] # NoDoc
                      \/ pc'[c] = "put_attestation"
                      \/ status'[c] \in {500, LostAnswer}
    BY DEF DanglingOnlyAfterFailure
  <2> SUFFICES ASSUME c \in requests
               PROVE  \/ attestations'[attid'[c]] # NoDoc
                      \/ pc'[c] = "put_attestation"
                      \/ status'[c] \in {500, LostAnswer}
    <3>1. Inv' /\ c \in Calls
      BY StepInv DEF FiledInv, Inv, TypeOK
    <3> QED BY <3>1, WriteStep DEF Writes, FiledInv
  <2>1. c \in Calls /\ attid[c] \in Calls /\ pc[c] \in {"put_attestation", "done"}
    BY DEF FiledInv, Filed, Inv, TypeOK
  <2>2. pc[c] = "put_attestation" => decision[c] # "none"
    BY <2>1 DEF FiledInv, Inv, Control, Reasons, PreambleGates, SignalGates
  <2>3. attid'[c] = attid[c] /\ (pc[c] = "done" => status'[c] = status[c])
    BY <2>1, <2>2, CallKept
  <2>4. CASE attestations[attid[c]] # NoDoc
    BY <2>1, <2>3, <2>4, LostTogether DEF FiledInv
  <2>5. CASE pc[c] = "put_attestation"
    <3>1. attestations' = [attestations EXCEPT ![attid[c]] = Document(c)]
          => attestations'[attid[c]] # NoDoc
      BY <2>1, <2>5, DocumentTyped, NoDocIsNone DEF FiledInv, Inv, TypeOK
    <3> QED BY <2>1, <2>3, <2>5, <3>1, WriteStep DEF Writes, FiledInv
  <2>6. CASE pc[c] = "done" /\ status[c] \in {500, LostAnswer}
    BY <2>3, <2>6
  <2> QED BY <2>1, <2>4, <2>5, <2>6 DEF DanglingOnlyAfterFailure
<1> QED BY <1>1, <1>2, FiledInvariance, PTL DEF Spec

\* The answers that tell a client its call failed after it was decided.
ToldFailed(c) ==
  \/ status[c] \in {500, LostAnswer}
  \/ status[c] = 503 /\ "no_key" \in Faults
  \/ status[c] = 400 /\ "bad_key" \in Faults

\* How a call is answered that is no legacy one: with its documents stored, with a
\* failure, or before a decision is taken.
LEMMA HowAnswered ==
  ASSUME FiledInv, [Next]_vars, NEW c \in Calls, pc[c] # "done", pc'[c] = "done",
         body'[c].mode # "legacy"
  PROVE  decision'[c] = "none" \/ status'[c] = 200 \/ ToldFailed(c)'
<1> USE DEF FiledInv, Inv
<1>1. body[c] # NoBody => body[c].mode # "legacy"
  BY BodyKept
<1>2. decision[c] = "none" \/ pc[c] \in {"sign", "put_request", "put_attestation"}
  BY DEF Vetted, TypeOK, InHandler
<1>3. ASSUME NEW w \in Workers, NEW d \in Calls,
             VerifyProof(w, d) \/ TestNonce(w, d) \/ EvaluatePolicy(w, d)
      PROVE  decision'[c] = "none" \/ status'[c] = 200 \/ ToldFailed(c)'
  BY <1>1, <1>2, <1>3 DEF VerifyProof, TestNonce, EvaluatePolicy, Conclude, Goto, Reply, At, TypeOK, Control, InHandler, Vetted, ToldFailed
<1>4. ASSUME NEW w \in Workers, NEW d \in Calls, Sign(w, d)
      PROVE  decision'[c] = "none" \/ status'[c] = 200 \/ ToldFailed(c)'
  BY <1>1, <1>4 DEF Sign, Goto, Reply, At, TypeOK, Control, InHandler, ToldFailed
<1>5. CASE ~ \E w \in Workers, d \in Calls :
               VerifyProof(w, d) \/ TestNonce(w, d) \/ EvaluatePolicy(w, d) \/ Sign(w, d)
  BY <1>2, <1>5 DEF Next, HandlerStep, vars, handler, Unwrap, ClaimNonce, PutRequest,
       PutAttestation, StorageFails, Receive, RegisterDevice, OtherCallFails, Crash, Tick, Goto,
       Reply, At, TypeOK, Control, InHandler, ToldFailed
<1> QED BY <1>3, <1>4, <1>5

\* Every decision on a request is in the store with its client told so, or its
\* client was told that the call failed.
THEOREM DecisionsRecorded == Spec => []DecisionIsOnRecord
<1>1. Init => DecisionIsOnRecord
  BY DEF Init, DecisionIsOnRecord
<1>2. FiledInv /\ AnsweredIsReadable /\ DecisionIsOnRecord /\ [Next]_vars => DecisionIsOnRecord'
  <2> SUFFICES ASSUME FiledInv, AnsweredIsReadable, DecisionIsOnRecord, [Next]_vars, Durable,
                      NEW c \in Calls,
                      decision'[c] # "none", pc'[c] = "done", body'[c].mode # "legacy"
               PROVE  \/ ToldFailed(c)'
                      \/ /\ status'[c] = 200 /\ c \in requests'
                         /\ attestations'[attid'[c]] # NoDoc
    BY DEF DecisionIsOnRecord, Durable, ToldFailed
  <2>1. status'[c] = 200 => c \in requests' /\ attestations'[attid'[c]] # NoDoc
    BY StepAnswered DEF AnsweredIsReadable, Durable
  <2>2. CASE pc[c] = "done"
    <3>1. body'[c] = body[c] /\ decision'[c] = decision[c] /\ status'[c] = status[c]
      BY <2>2, CallKept
    <3> QED BY <2>1, <2>2, <3>1 DEF DecisionIsOnRecord, Durable, ToldFailed
  <2>3. CASE pc[c] # "done"
    BY <2>1, <2>3, HowAnswered
  <2> QED BY <2>2, <2>3
<1> QED BY <1>1, <1>2, FiledInvariance, AnsweredStaysReadable, PTL DEF Spec
=============================================================================
