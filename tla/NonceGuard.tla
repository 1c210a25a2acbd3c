----------------------------- MODULE NonceGuard -----------------------------
(***************************************************************************)
(* What replay protection promises, with no workers, store calls or clock: *)
(* a key (a device and a nonce) is spent once and for all, in one step; at *)
(* most one call holds it; only a call that holds a key is granted, once.  *)
(*                                                                         *)
(* The promise is the StorageBackend contract of axis_core/storage/base.py *)
(* (has_nonce and record_nonce, "safe for concurrent workers") as          *)
(* _resolve_decision uses it.                                              *)
(***************************************************************************)
CONSTANTS Calls, Keys

VARIABLES
  spent,    \* keys that no call may claim any more
  holder,   \* pairs of a call and the key it claimed
  granted   \* calls whose proof was allowed

vars == <<spent, holder, granted>>

Init == spent = {} /\ holder = {} /\ granted = {}

\* A call claims a key nobody has spent.
Claim(c, k) ==
  /\ k \notin spent
  /\ spent' = spent \cup {k}
  /\ holder' = holder \cup {<<c, k>>}
  /\ UNCHANGED granted

\* A claim reaches the ledger but its call fails: the key is spent for nothing.
Burn(k) ==
  /\ k \notin spent
  /\ spent' = spent \cup {k}
  /\ UNCHANGED <<holder, granted>>

\* A call that holds a key is granted.
Grant(c) ==
  /\ \E k \in Keys : <<c, k>> \in holder
  /\ c \notin granted
  /\ granted' = granted \cup {c}
  /\ UNCHANGED <<spent, holder>>

Next ==
  \/ \E c \in Calls, k \in Keys : Claim(c, k)
  \/ \E k \in Keys : Burn(k)
  \/ \E c \in Calls : Grant(c)

Spec == Init /\ [][Next]_vars
=============================================================================
