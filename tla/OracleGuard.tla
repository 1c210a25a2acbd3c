---------------------------- MODULE OracleGuard -----------------------------
(***************************************************************************)
(* OracleAttest seen as a NonceGuard: the ledger's keys are the spent ones, *)
(* a call that recorded a nonce holds it, and the atomic claim is the step  *)
(* that writes the ledger.                                                 *)
(***************************************************************************)
EXTENDS OracleAttest

Guard == INSTANCE NonceGuard WITH
  spent <- {k \in Keys : ledger[k] # Never},
  holder <- {<<c, Key(body[c].proof)>> : c \in claims},
  granted <- {c \in Calls : decision[c] = "ok"}

\* The handlers' many steps keep the promise of replay protection: test and
\* record act as one indivisible claim, and only a claimant is ever granted.
ImplementsNonceGuard == Guard!Spec
=============================================================================
