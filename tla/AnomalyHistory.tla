--------------------------- MODULE AnomalyHistory ---------------------------
(***************************************************************************)
(* The anomaly gate of the oracle: the history of one device's reports as  *)
(* the oracle collects it from the store (axis_core/api/oracle.py,         *)
(* _ai_history), the detector that scores it (axis_core/ai/anomaly.py) and *)
(* the refusal (axis_core/policy/engine.py, evaluate_ai_anomaly).          *)
(*                                                                         *)
(* One worker serves the device, so a decision and the storing of its      *)
(* attestation are one step.  Scores and thresholds count in units of      *)
(* 1/One; reports carry the two fields the detector is given, the number   *)
(* their nonce spells and their power.                                     *)
(***************************************************************************)
EXTENDS Integers, Sequences, FiniteSets, SequencesExt, FiniteSetsExt, Functions

CONSTANTS
  HistoryLimit,       \* how many entries _ai_history keeps
  MinSpikeSamples,    \* MIN_SPIKE_SAMPLES
  SpikeFactor,        \* SPIKE_FACTOR
  NonceGapTolerance,  \* NONCE_GAP_TOLERANCE
  One,                \* the score 1.0; also the gap that scores it
  Numbers,            \* numbers that nonces spell
  Powers,             \* max_power_kw of reports
  Thresholds,         \* ai_anomaly_threshold the operator may set
  MaxReports          \* bound: reports stored for the device

\* A nonce is any string: several spell one number, others spell none.
NoNumber == -1
Reports == [nonce : Numbers \cup {NoNumber}, power : Powers]

ASSUME LimitsAssumption ==
  /\ HistoryLimit \in Nat \ {0} /\ HistoryLimit % 2 = 0
  /\ MinSpikeSamples \in Nat \ {0, 1}
  /\ SpikeFactor \in Nat \ {0, 1} /\ NonceGapTolerance \in Nat \ {0}
  /\ Numbers \subseteq Nat /\ Powers \subseteq Nat
  /\ One \in Nat /\ Thresholds \subseteq 1..One
  /\ MaxReports \in Nat

VARIABLES
  past,       \* the device's stored attestations, in an order that says nothing
  streak      \* history: the refused reports of one rise, see NextStreak

vars == <<past, streak>>
NoStreak == [nonce |-> NoNumber, power |-> 0, count |-> 0]
-----------------------------------------------------------------------------
(* _ai_history: what the store returns, the current report behind it, sorted *)
(* by nonce, the last entries of that.                                       *)

\* Mutant: the sort reads a field that no entry has.
SortKeyOfNothing(r) == 0

SortKey(r) == IF r.nonce = NoNumber THEN 0 ELSE r.nonce

\* The orders in which n things may come.
Orders == [n \in 0..MaxReports |-> Bijection(1..n, 1..n)]

\* The stored reports, sorted: reports with one key stand in the order in which
\* all_attestations returns them, and that is any order in Redis and PostgreSQL.
Retrieved(stored) ==
  {t \in {[i \in DOMAIN stored |-> stored[f[i]]] : f \in Orders[Len(stored)]} :
     \A i \in DOMAIN t : \A j \in 1..(i - 1) : SortKey(t[j]) <= SortKey(t[i])}

\* Where r may stand in the sorted s.
Places(s, r) ==
  {i \in 1..(Len(s) + 1) : /\ \A j \in 1..(i - 1) : SortKey(s[j]) <= SortKey(r)
                          /\ \A j \in i..Len(s) : SortKey(s[j]) >= SortKey(r)}

\* The sort is stable: the current report, collected last, stands behind all
\* reports with its own key.
AiHistory(retrieved, r) ==
  LET all == InsertAt(retrieved, Max(Places(retrieved, r)), r)
  IN SubSeq(all, Max({1, Len(all) - HistoryLimit + 1}), Len(all))
-----------------------------------------------------------------------------
(* detect_anomaly. *)

\* The k-th smallest of a sequence of numbers.
AtMost(s, x) == Cardinality({i \in DOMAIN s : s[i] <= x})
Smallest(s, k) == Min({x \in Range(s) : AtMost(s, x) >= k})

\* Twice the median: the sum of the middle two, which are one if Len(s) is odd.
TwiceMedian(s) == Smallest(s, (Len(s) + 1) \div 2) + Smallest(s, Len(s) \div 2 + 1)

PowersOf(h) == [i \in DOMAIN h |-> h[i].power]

\* The last power against the median of those before it.  The score of a spike
\* is min(1, (ratio - 1) / (SpikeFactor - 1)): any spike has the full score.
SpikeScore(h) ==
  IF /\ Len(h) >= MinSpikeSamples
     /\ TwiceMedian(Front(PowersOf(h))) > 0
     /\ 2 * Last(h).power >= SpikeFactor * TwiceMedian(Front(PowersOf(h)))
  THEN One ELSE 0

\* Between the last two numbers, wherever they stand among entries without one.
NonceGap(h) ==
  LET numbered == {i \in DOMAIN h : h[i].nonce # NoNumber}
      last == Max(numbered)
  IN IF Cardinality(numbered) < 2 THEN 0
     ELSE h[last].nonce - h[Max(numbered \ {last})].nonce

\* Mutant: the gap tolerated is one too small.
EveryGapScore(h) == IF NonceGap(h) >= NonceGapTolerance THEN Min({One, NonceGap(h)}) ELSE 0

GapScore(h) == IF NonceGap(h) > NonceGapTolerance THEN Min({One, NonceGap(h)}) ELSE 0

Score(h) == Max({SpikeScore(h), GapScore(h)})

\* is_anomaly, then evaluate_ai_anomaly: both ask for the same threshold.
Flagged(h, threshold) == Score(h) >= threshold
-----------------------------------------------------------------------------
(* Steps. *)

\* past is kept in one order, so that equal collections are equal states.
Before(a, b) == a.nonce < b.nonce \/ (a.nonce = b.nonce /\ a.power < b.power)

\* put_attestation is an upsert: r joins what it leaves of the collection.
Store(r, left) ==
  /\ Len(left) < MaxReports
  /\ past' = InsertAt(left, Cardinality({i \in DOMAIN left : Before(left[i], r)}) + 1, r)

\* A request is stored under a new id.  A legacy document names its id: a new one,
\* or that of an entry, which it replaces.
Left == {past} \cup {RemoveAt(past, i) : i \in DOMAIN past}

\* A rise: the device reports one power over and over, counting its nonces up
\* from beyond all that is stored.  The streak is its reports refused in a row,
\* with nothing else stored for the device and nothing replaced in between.
NextStreak(r) ==
  IF r.nonce = NoNumber \/ \E i \in DOMAIN past : SortKey(past[i]) >= r.nonce THEN NoStreak
  ELSE [nonce |-> r.nonce, power |-> r.power,
        count |-> IF streak.power = r.power /\ streak.nonce = r.nonce - 1
                    THEN streak.count + 1 ELSE 1]

\* Mutant: a refused report leaves nothing behind, as a legacy document does.
AttestAllowedOnly(retrieved, r, threshold) ==
  LET refused == Flagged(AiHistory(retrieved, r), threshold)
  IN /\ IF refused THEN UNCHANGED past ELSE Store(r, past)
     /\ streak' = IF refused THEN NextStreak(r) ELSE NoStreak

\* A request past the preamble with the gate enforced: refused or not, it is stored.
Attest(retrieved, r, threshold) ==
  /\ Store(r, past)
  /\ streak' = IF Flagged(AiHistory(retrieved, r), threshold) THEN NextStreak(r) ELSE NoStreak

\* A legacy document past the preamble: refused, it is answered 403 and not stored.
AttestLegacy(retrieved, r, threshold) ==
  /\ ~Flagged(AiHistory(retrieved, r), threshold)
  /\ \E left \in Left : Store(r, left)
  /\ streak' = NoStreak

\* A report is stored that the gate has not seen: it was refused before, by the
\* Verifier or the preamble, or the gate was off, or a legacy document with
\* another device's proof names this device.
StoreUnseen(r) ==
  /\ \E left \in Left : Store(r, left)
  /\ streak' = NoStreak

\* A legacy document of another device takes an entry's id, and the entry is gone.
Overwrite ==
  /\ past' \in Left \ {past}
  /\ streak' = NoStreak

Init == past = <<>> /\ streak = NoStreak

Next ==
  \/ \E retrieved \in Retrieved(past), r \in Reports, t \in Thresholds :
       Attest(retrieved, r, t) \/ AttestLegacy(retrieved, r, t)
  \/ \E r \in Reports : StoreUnseen(r)
  \/ Overwrite

Spec == Init /\ [][Next]_vars
-----------------------------------------------------------------------------
(* Properties. *)

Follows(r) == \A i \in DOMAIN past : SortKey(past[i]) <= SortKey(r)

\* What the detector takes from the backend's order is which report comes last:
\* while the history is not cut, two enumerations of one store score alike if the
\* last reports have one power, duplicates, late reports and nonces without a
\* number included.  A report that keeps the device's order comes last itself.
VerdictIgnoresEnumeration ==
  Len(past) < HistoryLimit =>
    \A one, other \in Retrieved(past) : \A r \in Reports :
      \/ Follows(r)
      \/ Last(AiHistory(one, r)).power = Last(AiHistory(other, r)).power
      => Score(AiHistory(one, r)) = Score(AiHistory(other, r))

\* A device that goes on from the largest number stored, at a power below
\* SpikeFactor times the least one stored, is not refused, whatever arrived late,
\* was refused or went missing before.
SteadyReportPasses ==
  \A retrieved \in Retrieved(past), r \in Reports :
    /\ r.nonce - 1 \in {past[i].nonce : i \in DOMAIN past} \ {NoNumber}
    /\ Follows(r)
    /\ \A i \in DOMAIN past : r.power < SpikeFactor * past[i].power
    => Score(AiHistory(retrieved, r)) = 0

\* A refused request is stored and moves the median: a device whose power has
\* risen for good is refused half a history at most, from whatever is stored
\* when the rise begins, unless a report of it is replaced or one outside it is
\* stored meanwhile, which begins the count anew.
RefusalsEnd == streak.count <= HistoryLimit \div 2

\* "plus the current report as the last element, so a spike is visible
\* immediately" (api/oracle.py:228): the detector judges the report it is
\* asked about.
CurrentReportIsLast ==
  \A retrieved \in Retrieved(past), r \in Reports : Last(AiHistory(retrieved, r)) = r
=============================================================================
