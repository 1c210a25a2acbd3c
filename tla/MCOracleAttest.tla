--------------------------- MODULE MCOracleAttest ---------------------------
(***************************************************************************)
(* Small instances of OracleAttest: the bodies clients send in each run.   *)
(***************************************************************************)
EXTENDS OracleGuard, TLC

CONSTANTS dev, other, n1, n2

Proof(n, t) ==
  [device |-> dev, nonce |-> n, ts |-> t, power |-> 25, algo |-> "ed25519",
   genuine |-> TRUE]

Body(mode, p) == [mode |-> mode, proof |-> p, device |-> p.device, seal |-> "good"]

Forged(b) == [b EXCEPT !.proof.genuine = FALSE]

\* Two workers race on one nonce, in every mode; the second nonce lets a legacy
\* document be granted beside a stored attestation and name its id.
RacingBodies ==
  { Body("request", Proof(n1, 0)), Forged(Body("request", Proof(n1, 0))),
    Body("envelope", Proof(n1, 0)), [Body("envelope", Proof(n1, 0)) EXCEPT !.seal = "forged"],
    Body("legacy", Proof(n1, 0)), Body("legacy", Proof(n2, 0)) }

\* A proof, its retries in two modes, a forgery of it, and the bodies refused
\* before a decision.
RetriedBodies ==
  { Body("request", Proof(n1, 0)), Forged(Body("request", Proof(n1, 0))),
    [Body("legacy", Proof(n1, 0)) EXCEPT !.device = other],
    Body("malformed", Proof(n1, 0)) }
  \cup {[Body("envelope", Proof(n1, 0)) EXCEPT !.seal = s] : s \in {"unsigned", "inconsistent"}}

\* Proofs of one nonce stamped at several seconds, sent again and again.
DatedBodies == {Body("request", Proof(n1, t)) : t \in 0..2}

\* Those among them that a device whose clock is ahead may send at second 0.
SkewedBodies == {b \in DatedBodies : b.proof.ts > 0}

\* The dated proofs where the dev-only algorithm is on, and what else a proof can be
\* refused for.
MixedBodies ==
  DatedBodies
  \cup {[Body("request", Proof(n1, 0)) EXCEPT !.proof.algo = "mock", !.proof.power = p] :
           p \in {0, 25}}
  \cup { [Body("request", Proof(n1, 0)) EXCEPT !.proof.algo = "other"],
         [Body("request", Proof(n1, 0)) EXCEPT !.proof.power = 51] }

\* Calls are interchangeable (used in runs without liveness properties).
CallSymmetry == Permutations(Calls)
=============================================================================
