---------------------------- MODULE PolicyProofs ----------------------------
(***************************************************************************)
(* The properties of the Policy Engine, proved for any windows, limits,    *)
(* policy files and environments, and every call of the five methods; then *)
(* what following the market's advice does, for every market: the facts    *)
(* about the recommender are linear arithmetic, and the endpoint answers   *)
(* with the advice for the market it was sent.                             *)
(***************************************************************************)
EXTENDS Market, WellFoundedInduction, TLAPS

(* The first broken rule. *)

LEMMA LeastNat ==
  ASSUME NEW T, T \subseteq Nat, T # {}
  PROVE  \E x \in T : \A y \in T : x <= y
<1>1. PICK x \in T : \A y \in T : <<y, x>> \notin OpToRel(<, Nat)
  BY WFMin, NatLessThanWellFounded
<1>2. \A y \in T : ~ (y < x)
  BY <1>1 DEF OpToRel
<1> QED BY <1>2

\* Rules that refuse allow together exactly when none of them is broken.
LEMMA NoneBroken ==
  ASSUME NEW n \in Nat, NEW rules, DOMAIN rules = 1..n, NEW otherwise, Allowed(otherwise),
         \A i \in 1..n : ~Allowed(rules[i].reason)
  PROVE  Allowed(FirstBroken(rules, otherwise)) <=> \A i \in 1..n : ~rules[i].broken
<1> DEFINE broken == {i \in 1..n : rules[i].broken}
           least == CHOOSE i \in broken : \A j \in broken : i <= j
<1>1. FirstBroken(rules, otherwise) = IF broken = {} THEN otherwise ELSE rules[least].reason
  BY DEF FirstBroken
<1>2. CASE broken = {}
  BY <1>1, <1>2
<1>3. CASE broken # {}
  <2>1. least \in broken
    <3>1. broken \subseteq Nat
      OBVIOUS
    <3> HIDE DEF broken
    <3> QED BY <1>3, <3>1, LeastNat
  <2> QED BY <1>1, <1>3, <2>1
<1> QED BY <1>2, <1>3
-----------------------------------------------------------------------------
(* What each method allows. *)

\* evaluate_preamble, without the order of its rules.
PreambleAllows(p, c) ==
  LET r == c.report
      bps == IF c.max_energy_bps # None THEN c.max_energy_bps ELSE p.max_energy_bps
      skew == p.max_clock_skew_sec
  IN /\ p.mint_enabled
     /\ ~(p.enforce_oracle_whitelist /\ ~c.oracle_trusted)
     /\ ~(p.enforce_device_state /\ ~CanMint(c.producer, c.now))
     /\ ~(r.verified_at > c.now + skew)
     /\ ~(c.now - r.verified_at > MaxProofAge)
     /\ ~(r.device_timestamp > r.verified_at + skew)
     /\ ~(r.verified_at - r.device_timestamp > MaxProofAge)
     /\ ~(p.enforce_tier_limits /\ ~AllowsIncrement(c.producer, c.now, r.energy))
     /\ ~(p.enforce_energy_caps /\ r.energy > (c.producer.rated_power * bps) \div BpsScale)

LEMMA PreambleIs ==
  ASSUME NEW p, NEW c
  PROVE  Allowed(EvaluatePreamble(p, c)) <=> PreambleAllows(p, c)
<1> DEFINE r == c.report
           bps == IF c.max_energy_bps # None THEN c.max_energy_bps ELSE p.max_energy_bps
           skew == p.max_clock_skew_sec
           b1 == ~p.mint_enabled
           b2 == p.enforce_oracle_whitelist /\ ~c.oracle_trusted
           b3 == p.enforce_device_state /\ ~CanMint(c.producer, c.now)
           b4 == r.verified_at > c.now + skew
           b5 == c.now - r.verified_at > MaxProofAge
           b6 == r.device_timestamp > r.verified_at + skew
           b7 == r.verified_at - r.device_timestamp > MaxProofAge
           b8 == p.enforce_tier_limits /\ ~AllowsIncrement(c.producer, c.now, r.energy)
           b9 == p.enforce_energy_caps /\ r.energy > (c.producer.rated_power * bps) \div BpsScale
           rules == << Rule("mint_paused", b1), Rule("untrusted_oracle", b2),
                       Rule("invalid_device_state", b3), Rule("future_timestamp", b4),
                       Rule("stale_timestamp", b5), Rule("future_timestamp", b6),
                       Rule("stale_timestamp", b7), Rule("tier_limit_exceeded", b8),
                       Rule("excessive_energy", b9) >>
<1>1. EvaluatePreamble(p, c) = FirstBroken(rules, "ok")
  BY DEF EvaluatePreamble
<1>2. PreambleAllows(p, c) <=> ~b1 /\ ~b2 /\ ~b3 /\ ~b4 /\ ~b5 /\ ~b6 /\ ~b7 /\ ~b8 /\ ~b9
  BY DEF PreambleAllows
<1> HIDE DEF b1, b2, b3, b4, b5, b6, b7, b8, b9
<1>3. /\ DOMAIN rules = 1..9
      /\ \A i \in 1..9 : ~Allowed(rules[i].reason)
      /\ (\A i \in 1..9 : ~rules[i].broken)
           <=> ~b1 /\ ~b2 /\ ~b3 /\ ~b4 /\ ~b5 /\ ~b6 /\ ~b7 /\ ~b8 /\ ~b9
  BY DEF Rule, Allowed
<1>4. Allowed("ok")
  BY DEF Allowed
<1> HIDE DEF rules
<1>5. Allowed(FirstBroken(rules, "ok")) <=> \A i \in 1..9 : ~rules[i].broken
  BY <1>3, <1>4, NoneBroken
<1> QED BY <1>1, <1>2, <1>3, <1>5

\* evaluate_reward.
RewardAllows(p, c) ==
  /\ ~(c.reward <= 0)
  /\ ~(p.enforce_supply_cap /\ c.total_supply + c.reward > c.max_supply)

LEMMA RewardIs ==
  ASSUME NEW p, NEW c
  PROVE  Allowed(EvaluateReward(p, c)) <=> RewardAllows(p, c)
<1> DEFINE b1 == c.reward <= 0
           b2 == p.enforce_supply_cap /\ c.total_supply + c.reward > c.max_supply
           rules == << Rule("zero_amount_mint", b1), Rule("supply_limit_exceeded", b2) >>
<1>1. EvaluateReward(p, c) = FirstBroken(rules, "ok")
  BY DEF EvaluateReward
<1>2. RewardAllows(p, c) <=> ~b1 /\ ~b2
  BY DEF RewardAllows
<1> HIDE DEF b1, b2
<1>3. /\ DOMAIN rules = 1..2
      /\ \A i \in 1..2 : ~Allowed(rules[i].reason)
      /\ (\A i \in 1..2 : ~rules[i].broken) <=> ~b1 /\ ~b2
  BY DEF Rule, Allowed
<1>4. Allowed("ok")
  BY DEF Allowed
<1> HIDE DEF rules
<1>5. Allowed(FirstBroken(rules, "ok")) <=> \A i \in 1..2 : ~rules[i].broken
  BY <1>3, <1>4, NoneBroken
<1> QED BY <1>1, <1>2, <1>3, <1>5

\* evaluate_ai_anomaly.
AiAnomalyAllows(p, c) ==
  /\ ~(p.enforce_ai_anomaly /\ c.is_anomaly /\ c.score >= IF c.threshold # None THEN c.threshold ELSE p.ai_anomaly_threshold)

LEMMA AiAnomalyIs ==
  ASSUME NEW p, NEW c
  PROVE  Allowed(EvaluateAiAnomaly(p, c)) <=> AiAnomalyAllows(p, c)
<1> DEFINE b1 == p.enforce_ai_anomaly /\ c.is_anomaly /\ c.score >= IF c.threshold # None THEN c.threshold ELSE p.ai_anomaly_threshold
           rules == << Rule("ai_anomaly_flagged", b1) >>
<1>1. EvaluateAiAnomaly(p, c) = FirstBroken(rules, "ok")
  BY DEF EvaluateAiAnomaly
<1>2. AiAnomalyAllows(p, c) <=> ~b1
  BY DEF AiAnomalyAllows
<1> HIDE DEF b1
<1>3. /\ DOMAIN rules = 1..1
      /\ \A i \in 1..1 : ~Allowed(rules[i].reason)
      /\ (\A i \in 1..1 : ~rules[i].broken) <=> ~b1
  BY DEF Rule, Allowed
<1>4. Allowed("ok")
  BY DEF Allowed
<1> HIDE DEF rules
<1>5. Allowed(FirstBroken(rules, "ok")) <=> \A i \in 1..1 : ~rules[i].broken
  BY <1>3, <1>4, NoneBroken
<1> QED BY <1>1, <1>2, <1>3, <1>5

\* evaluate_sterility.
TooSterile(p, c) ==
  \/ c.a2 < (IF c.a2_threshold # None THEN c.a2_threshold ELSE p.sterility_a2_threshold)
  \/ c.cv < (IF c.cv_threshold # None THEN c.cv_threshold ELSE p.sterility_cv_threshold)

SterilityAllows(p, c) ==
  ~(p.enforce_sterility /\ (c.a2 # None /\ c.cv # None) /\ TooSterile(p, c))

LEMMA SterilityIs ==
  ASSUME NEW p, NEW c
  PROVE  Allowed(EvaluateSterility(p, c)) <=> SterilityAllows(p, c)
<1> DEFINE b1 == p.enforce_sterility /\ (c.a2 # None /\ c.cv # None) /\ TooSterile(p, c)
           rules == << Rule("synthetic_collusion_detected", b1) >>
<1>1. EvaluateSterility(p, c) = FirstBroken(rules, "ok")
  BY DEF EvaluateSterility, TooSterile
<1>2. SterilityAllows(p, c) <=> ~b1
  BY DEF SterilityAllows
<1> HIDE DEF b1
<1>3. /\ DOMAIN rules = 1..1
      /\ \A i \in 1..1 : ~Allowed(rules[i].reason)
      /\ (\A i \in 1..1 : ~rules[i].broken) <=> ~b1
  BY DEF Rule, Allowed
<1>4. Allowed("ok")
  BY DEF Allowed
<1> HIDE DEF rules
<1>5. Allowed(FirstBroken(rules, "ok")) <=> \A i \in 1..1 : ~rules[i].broken
  BY <1>3, <1>4, NoneBroken
<1> QED BY <1>1, <1>2, <1>3, <1>5

\* evaluate_trade.
TradeAllows(p, c) ==
  /\ ~(~c.trade_enabled)
  /\ ~(p.enforce_trade_limits /\ p.trade_max_volume_wh > 0 /\ c.volume > p.trade_max_volume_wh)
  /\ ~(p.trade_requires_dao /\ ~c.dao_approved)

LEMMA TradeIs ==
  ASSUME NEW p, NEW c
  PROVE  Allowed(EvaluateTrade(p, c)) <=> TradeAllows(p, c)
<1> DEFINE b1 == ~c.trade_enabled
           b2 == p.enforce_trade_limits /\ p.trade_max_volume_wh > 0 /\ c.volume > p.trade_max_volume_wh
           b3 == p.trade_requires_dao /\ ~c.dao_approved
           rules == << Rule("trade_not_authorized", b1), Rule("trade_volume_exceeded", b2), Rule("trade_dao_gated", b3) >>
<1>1. EvaluateTrade(p, c) = FirstBroken(rules, "trade_allowed")
  BY DEF EvaluateTrade
<1>2. TradeAllows(p, c) <=> ~b1 /\ ~b2 /\ ~b3
  BY DEF TradeAllows
<1> HIDE DEF b1, b2, b3
<1>3. /\ DOMAIN rules = 1..3
      /\ \A i \in 1..3 : ~Allowed(rules[i].reason)
      /\ (\A i \in 1..3 : ~rules[i].broken) <=> ~b1 /\ ~b2 /\ ~b3
  BY DEF Rule, Allowed
<1>4. Allowed("trade_allowed")
  BY DEF Allowed
<1> HIDE DEF rules
<1>5. Allowed(FirstBroken(rules, "trade_allowed")) <=> \A i \in 1..3 : ~rules[i].broken
  BY <1>3, <1>4, NoneBroken
<1> QED BY <1>1, <1>2, <1>3, <1>5
-----------------------------------------------------------------------------
(* Relaxing a rule. *)

\* A loaded policy set: every field, of its kind.
PolicySet(p) == Sets(p) /\ DOMAIN p = Fields

\* No rule of q is stricter than p's: what Looser does to one field, of any
\* number of fields and by any amount.
Relaxes(p, q) ==
  /\ p.mint_enabled => q.mint_enabled
  /\ \A s \in Switches \ {"mint_enabled"} : q[s] => p[s]
  /\ p.max_energy_bps <= q.max_energy_bps
  /\ p.max_clock_skew_sec <= q.max_clock_skew_sec
  /\ p.ai_anomaly_threshold <= q.ai_anomaly_threshold
  /\ q.sterility_a2_threshold <= p.sterility_a2_threshold
  /\ q.sterility_cv_threshold <= p.sterility_cv_threshold
  /\ \/ q.trade_max_volume_wh <= 0
     \/ 0 < p.trade_max_volume_wh /\ p.trade_max_volume_wh <= q.trade_max_volume_wh

LEMMA OneFieldRelaxed ==
  ASSUME NEW p, PolicySet(p), NEW x \in Fields, NEW v,
         IF x = "mint_enabled" THEN v = TRUE
         ELSE IF x \in Switches THEN v = FALSE
         ELSE /\ v \in Int
              /\ IF x \in {"sterility_a2_threshold", "sterility_cv_threshold"} THEN v <= p[x]
                 ELSE IF x = "trade_max_volume_wh" THEN v <= 0 \/ (0 < p[x] /\ p[x] <= v)
                 ELSE p[x] <= v
  PROVE  PolicySet([p EXCEPT ![x] = v]) /\ Relaxes(p, [p EXCEPT ![x] = v])
<1> DEFINE q == [p EXCEPT ![x] = v]
<1>1. /\ DOMAIN p = Fields
      /\ \A s \in Switches : p[s] \in BOOLEAN
      /\ \A a \in Amounts : p[a] \in Int
  BY DEF PolicySet, Sets, Fields, Switches, Amounts
<1>2. DOMAIN q = Fields /\ q[x] = v /\ \A y \in Fields \ {x} : q[y] = p[y]
  BY <1>1
<1> HIDE DEF q
<1>3. /\ \A s \in Switches : q[s] \in BOOLEAN
      /\ \A a \in Amounts : q[a] \in Int
  BY <1>1, <1>2 DEF Fields, Switches, Amounts
<1>4. PolicySet(q)
  BY <1>2, <1>3 DEF PolicySet, Sets, Fields
<1>5. p.mint_enabled => q.mint_enabled
  BY <1>2 DEF Fields, Switches
<1>6. \A s \in Switches \ {"mint_enabled"} : q[s] => p[s]
  BY <1>2 DEF Fields
<1>7. /\ p.max_energy_bps <= q.max_energy_bps
      /\ p.max_clock_skew_sec <= q.max_clock_skew_sec
      /\ p.ai_anomaly_threshold <= q.ai_anomaly_threshold
  BY <1>1, <1>2 DEF Fields, Switches, Amounts
<1>8. /\ q.sterility_a2_threshold <= p.sterility_a2_threshold
      /\ q.sterility_cv_threshold <= p.sterility_cv_threshold
  BY <1>1, <1>2 DEF Fields, Switches, Amounts
<1>9. \/ q.trade_max_volume_wh <= 0
      \/ 0 < p.trade_max_volume_wh /\ p.trade_max_volume_wh <= q.trade_max_volume_wh
  BY <1>1, <1>2 DEF Fields, Switches, Amounts
<1> QED BY <1>4, <1>5, <1>6, <1>7, <1>8, <1>9 DEF Relaxes, q

LEMMA LooserRelaxes ==
  ASSUME NEW p, PolicySet(p), NEW q \in Looser(p)
  PROVE  PolicySet(q) /\ Relaxes(p, q)
<1>1. CASE q = [p EXCEPT !.mint_enabled = TRUE]
  BY <1>1, OneFieldRelaxed DEF Fields, Switches
<1>2. ASSUME NEW s \in Switches \ {"mint_enabled"}, q = [p EXCEPT ![s] = FALSE]
      PROVE  PolicySet(q) /\ Relaxes(p, q)
  BY <1>2, OneFieldRelaxed DEF Fields
<1>3. ASSUME NEW a \in {"max_energy_bps", "max_clock_skew_sec", "ai_anomaly_threshold"},
             q = [p EXCEPT ![a] = p[a] + 1]
      PROVE  PolicySet(q) /\ Relaxes(p, q)
  <2>1. a \in Fields /\ a \notin Switches /\ a # "trade_max_volume_wh"
        /\ a \notin {"sterility_a2_threshold", "sterility_cv_threshold"} /\ p[a] \in Int
    BY DEF PolicySet, Sets, Fields, Switches, Amounts
  <2>2. a # "mint_enabled" /\ p[a] + 1 \in Int /\ p[a] <= p[a] + 1
    BY <2>1 DEF Switches
  <2> QED BY <1>3, <2>1, <2>2, OneFieldRelaxed
<1>4. ASSUME NEW a \in {"sterility_a2_threshold", "sterility_cv_threshold"},
             q = [p EXCEPT ![a] = p[a] - 1]
      PROVE  PolicySet(q) /\ Relaxes(p, q)
  <2>1. a \in Fields /\ a \notin Switches /\ p[a] \in Int
    BY DEF PolicySet, Sets, Fields, Switches, Amounts
  <2>2. a # "mint_enabled" /\ p[a] - 1 \in Int /\ p[a] - 1 <= p[a]
    BY <2>1 DEF Switches
  <2> QED BY <1>4, <2>1, <2>2, OneFieldRelaxed
<1>5. ASSUME NEW v, v \in {0, IF p.trade_max_volume_wh = 0 THEN 0 ELSE p.trade_max_volume_wh + 1},
             q = [p EXCEPT !.trade_max_volume_wh = v]
      PROVE  PolicySet(q) /\ Relaxes(p, q)
  <2> DEFINE a == "trade_max_volume_wh"
  <2>1. a \in Fields /\ a \notin Switches /\ p[a] \in Int /\ a # "mint_enabled"
        /\ a \notin {"sterility_a2_threshold", "sterility_cv_threshold"}
    BY DEF PolicySet, Sets, Fields, Switches, Amounts
  <2>2. v \in Int /\ (v <= 0 \/ (0 < p[a] /\ p[a] <= v))
    BY <1>5, <2>1
  <2>3. q = [p EXCEPT ![a] = v]
    BY <1>5
  <2> HIDE DEF a
  <2>4. a = "trade_max_volume_wh"
    BY DEF a
  <2> QED BY <2>1, <2>2, <2>3, <2>4, OneFieldRelaxed
<1> QED BY <1>1, <1>2, <1>3, <1>4, <1>5 DEF Looser
-----------------------------------------------------------------------------
(* A relaxed policy set allows what the stricter one allows, method by method. *)

\* A producer's energy cap grows with the basis points it is counted in.
LEMMA CapGrows ==
  ASSUME NEW a \in Nat, NEW x \in Int, NEW y \in Int, x <= y,
         NEW d \in Nat \ {0}
  PROVE  /\ (a * x) \div d \in Int /\ (a * y) \div d \in Int
         /\ (a * x) \div d <= (a * y) \div d
<1> DEFINE u == a * x
           w == a * y
<1>1. u \in Int /\ w \in Int /\ u <= w
  BY SMTT(30)
<1> HIDE DEF u, w
<1>2. u \div d \in Int /\ w \div d \in Int /\ u \div d <= w \div d
  BY <1>1, SMTT(30)
<1> QED BY <1>2 DEF u, w

LEMMA PreambleRelaxed ==
  ASSUME NEW p, PolicySet(p), NEW q, PolicySet(q), Relaxes(p, q),
         NEW c \in PreambleCalls, PreambleAllows(p, c)
  PROVE  PreambleAllows(q, c)
<1> DEFINE r == c.report
           Bps(z) == IF c.max_energy_bps # None THEN c.max_energy_bps ELSE z.max_energy_bps
<1>1. /\ c.producer \in ProducerStates /\ r \in OracleReports
      /\ c.now \in Int /\ c.max_energy_bps \in Int
  BY DEF PreambleCalls
<1>2. /\ p.max_energy_bps \in Int /\ q.max_energy_bps \in Int
      /\ p.max_clock_skew_sec \in Int /\ q.max_clock_skew_sec \in Int
  BY DEF PolicySet, Sets, Fields, Switches, Amounts
<1>3. /\ p.mint_enabled => q.mint_enabled
      /\ q.enforce_oracle_whitelist => p.enforce_oracle_whitelist
      /\ q.enforce_device_state => p.enforce_device_state
      /\ q.enforce_tier_limits => p.enforce_tier_limits
      /\ q.enforce_energy_caps => p.enforce_energy_caps
      /\ p.max_energy_bps <= q.max_energy_bps
      /\ p.max_clock_skew_sec <= q.max_clock_skew_sec
  BY DEF Relaxes, Switches
<1>4. /\ r.verified_at \in Int /\ r.device_timestamp \in Int /\ r.energy \in Int
      /\ c.producer.rated_power \in Nat
  BY <1>1 DEF OracleReports, ProducerStates
<1>5. Bps(p) \in Int /\ Bps(q) \in Int /\ Bps(p) <= Bps(q)
  BY <1>1, <1>2, <1>3
<1> DEFINE Cap(z) == (c.producer.rated_power * Bps(z)) \div BpsScale
<1>6. Cap(p) \in Int /\ Cap(q) \in Int /\ Cap(p) <= Cap(q)
  <2> HIDE DEF Bps
  <2> QED BY <1>4, <1>5, CapGrows, WindowAssumption
<1>7. /\ p.mint_enabled
      /\ ~(p.enforce_oracle_whitelist /\ ~c.oracle_trusted)
      /\ ~(p.enforce_device_state /\ ~CanMint(c.producer, c.now))
      /\ ~(r.verified_at > c.now + p.max_clock_skew_sec)
      /\ ~(c.now - r.verified_at > MaxProofAge)
      /\ ~(r.device_timestamp > r.verified_at + p.max_clock_skew_sec)
      /\ ~(r.verified_at - r.device_timestamp > MaxProofAge)
      /\ ~(p.enforce_tier_limits /\ ~AllowsIncrement(c.producer, c.now, r.energy))
      /\ ~(p.enforce_energy_caps /\ r.energy > Cap(p))
  BY DEF PreambleAllows
<1>8. ~(q.enforce_energy_caps /\ r.energy > Cap(q))
  <2> HIDE DEF Cap, r
  <2> QED BY <1>3, <1>4, <1>6, <1>7
<1>9. /\ ~(r.verified_at > c.now + q.max_clock_skew_sec)
      /\ ~(r.device_timestamp > r.verified_at + q.max_clock_skew_sec)
  <2> HIDE DEF Cap, r
  <2> QED BY <1>1, <1>2, <1>3, <1>4, <1>7
<1> QED BY <1>3, <1>7, <1>8, <1>9 DEF PreambleAllows

LEMMA RewardRelaxed ==
  ASSUME NEW p, PolicySet(p), NEW q, PolicySet(q), Relaxes(p, q),
         NEW c \in RewardCalls, RewardAllows(p, c)
  PROVE  RewardAllows(q, c)
<1>1. q.enforce_supply_cap => p.enforce_supply_cap
  BY DEF Relaxes, Switches
<1> QED BY <1>1 DEF RewardAllows

LEMMA AiAnomalyRelaxed ==
  ASSUME NEW p, PolicySet(p), NEW q, PolicySet(q), Relaxes(p, q),
         NEW c \in AnomalyCalls, AiAnomalyAllows(p, c)
  PROVE  AiAnomalyAllows(q, c)
<1>1. /\ q.enforce_ai_anomaly => p.enforce_ai_anomaly
      /\ p.ai_anomaly_threshold <= q.ai_anomaly_threshold
  BY DEF Relaxes, Switches
<1>2. p.ai_anomaly_threshold \in Int /\ q.ai_anomaly_threshold \in Int
  BY DEF PolicySet, Sets, Fields, Switches, Amounts
<1>3. c.score \in Int /\ c.threshold \in Int
  BY DEF AnomalyCalls
<1> QED BY <1>1, <1>2, <1>3 DEF AiAnomalyAllows

LEMMA SterilityRelaxed ==
  ASSUME NEW p, PolicySet(p), NEW q, PolicySet(q), Relaxes(p, q),
         NEW c \in SterilityCalls, SterilityAllows(p, c)
  PROVE  SterilityAllows(q, c)
<1>1. /\ q.enforce_sterility => p.enforce_sterility
      /\ q.sterility_a2_threshold <= p.sterility_a2_threshold
      /\ q.sterility_cv_threshold <= p.sterility_cv_threshold
  BY DEF Relaxes, Switches
<1>2. /\ p.sterility_a2_threshold \in Int /\ q.sterility_a2_threshold \in Int
      /\ p.sterility_cv_threshold \in Int /\ q.sterility_cv_threshold \in Int
  BY DEF PolicySet, Sets, Fields, Switches, Amounts
<1>3. c.a2 \in Int /\ c.cv \in Int /\ c.a2_threshold \in Int /\ c.cv_threshold \in Int
  BY DEF SterilityCalls
<1>4. TooSterile(q, c) => TooSterile(p, c)
  BY <1>1, <1>2, <1>3 DEF TooSterile
<1> QED BY <1>1, <1>4 DEF SterilityAllows

LEMMA TradeRelaxed ==
  ASSUME NEW p, PolicySet(p), NEW q, PolicySet(q), Relaxes(p, q),
         NEW c \in TradeCalls, TradeAllows(p, c)
  PROVE  TradeAllows(q, c)
<1>1. /\ q.enforce_trade_limits => p.enforce_trade_limits
      /\ q.trade_requires_dao => p.trade_requires_dao
      /\ \/ q.trade_max_volume_wh <= 0
         \/ 0 < p.trade_max_volume_wh /\ p.trade_max_volume_wh <= q.trade_max_volume_wh
  BY DEF Relaxes, Switches
<1>2. p.trade_max_volume_wh \in Int /\ q.trade_max_volume_wh \in Int
  BY DEF PolicySet, Sets, Fields, Switches, Amounts
<1>3. c.volume \in Int
  BY DEF TradeCalls
<1> QED BY <1>1, <1>2, <1>3 DEF TradeAllows

AnyCall == PreambleCalls \cup RewardCalls \cup AnomalyCalls \cup SterilityCalls \cup TradeCalls

LEMMA DecisionRelaxed ==
  ASSUME NEW p, PolicySet(p), NEW q, PolicySet(q), Relaxes(p, q),
         NEW c \in AnyCall, Allowed(Decision(p, c))
  PROVE  Allowed(Decision(q, c))
<1>1. CASE c \in PreambleCalls
  <2>1. \A z : Decision(z, c) = EvaluatePreamble(z, c)
    BY <1>1 DEF PreambleCalls, Decision
  <2> QED BY <1>1, <2>1, PreambleIs, PreambleRelaxed
<1>2. CASE c \in RewardCalls
  <2>1. \A z : Decision(z, c) = EvaluateReward(z, c)
    BY <1>2 DEF RewardCalls, Decision
  <2> QED BY <1>2, <2>1, RewardIs, RewardRelaxed
<1>3. CASE c \in AnomalyCalls
  <2>1. \A z : Decision(z, c) = EvaluateAiAnomaly(z, c)
    BY <1>3 DEF AnomalyCalls, Decision
  <2> QED BY <1>3, <2>1, AiAnomalyIs, AiAnomalyRelaxed
<1>4. CASE c \in SterilityCalls
  <2>1. \A z : Decision(z, c) = EvaluateSterility(z, c)
    BY <1>4 DEF SterilityCalls, Decision
  <2> QED BY <1>4, <2>1, SterilityIs, SterilityRelaxed
<1>5. CASE c \in TradeCalls
  <2>1. \A z : Decision(z, c) = EvaluateTrade(z, c)
    BY <1>5 DEF TradeCalls, Decision
  <2> QED BY <1>5, <2>1, TradeIs, TradeRelaxed
<1> QED BY <1>1, <1>2, <1>3, <1>4, <1>5 DEF AnyCall
-----------------------------------------------------------------------------
(* A mint put off. *)

\* Headroom never shrinks while nothing more is minted: the month's energy
\* counts until the month has passed.
LEMMA HeadroomStays ==
  ASSUME NEW producer \in ProducerStates, NEW n \in Int, NEW t \in Int, n <= t, NEW e \in Int
  PROVE  /\ CanMint(producer, n) => CanMint(producer, t)
         /\ AllowsIncrement(producer, n, e) => AllowsIncrement(producer, t, e)
<1>1. producer.month_energy \in Nat /\ producer.month_start \in Int
      /\ producer.tier \in DOMAIN TierLimit
  BY DEF ProducerStates
<1>2. TierLimit[producer.tier] \in Int
  BY <1>1, TierAssumption DEF NoLimit
<1>3. /\ EffectiveMonthEnergy(producer, n) \in Nat /\ EffectiveMonthEnergy(producer, t) \in Nat
      /\ EffectiveMonthEnergy(producer, t) <= EffectiveMonthEnergy(producer, n)
  BY <1>1, WindowAssumption DEF EffectiveMonthEnergy
<1> QED BY <1>2, <1>3 DEF CanMint, AllowsIncrement

LEMMA PreambleLater ==
  ASSUME NEW p, PolicySet(p), NEW c \in PreambleCalls, PreambleAllows(p, c),
         NEW t \in Int, c.now <= t, t <= c.report.verified_at + MaxProofAge
  PROVE  PreambleAllows(p, [c EXCEPT !.now = t])
<1> DEFINE d == [c EXCEPT !.now = t]
<1>1. /\ d.now = t /\ d.producer = c.producer /\ d.report = c.report
      /\ d.oracle_trusted = c.oracle_trusted /\ d.max_energy_bps = c.max_energy_bps
  BY DEF PreambleCalls
<1>2. /\ c.producer \in ProducerStates /\ c.report.energy \in Int
      /\ c.report.verified_at \in Int /\ c.now \in Int
  BY DEF PreambleCalls, OracleReports
<1>3. p.max_clock_skew_sec \in Int
  BY DEF PolicySet, Sets, Fields, Switches, Amounts
<1>4. /\ ~(p.enforce_device_state /\ ~CanMint(c.producer, t))
      /\ ~(p.enforce_tier_limits /\ ~AllowsIncrement(c.producer, t, c.report.energy))
  BY <1>2, HeadroomStays DEF PreambleAllows
<1>5. /\ ~(c.report.verified_at > t + p.max_clock_skew_sec)
      /\ ~(t - c.report.verified_at > MaxProofAge)
  BY <1>2, <1>3, WindowAssumption DEF PreambleAllows
<1> HIDE DEF d
<1> QED
  <2>1. PreambleAllows(p, d)
    BY <1>1, <1>4, <1>5 DEF PreambleAllows
  <2> QED BY <2>1 DEF d
-----------------------------------------------------------------------------
(* The decision on record. *)

\* The decision last asked for is the one its policy set gives of its call.
DecisionInv ==
  Decided =>
    /\ PolicySet(last.policy)
    /\ last.call \in AnyCall
    /\ last.reason = Decision(last.policy, last.call)

SettingsKept == file \in Files /\ env \in Envs

Inv == SettingsKept /\ DecisionInv

LEMMA MergedIsPolicySet ==
  ASSUME NEW f \in Files, NEW e \in Envs
  PROVE  PolicySet(Merged(f, e))
<1>1. Sets(f) /\ Sets(e) /\ Sets(Defaults) /\ DOMAIN Defaults = Fields
  BY SettingsAssumption, DefaultsAssumption
<1> DEFINE p == Merged(f, e)
<1>2. /\ DOMAIN p = Fields
      /\ \A x \in Fields : p[x] = IF x \in DOMAIN e THEN e[x]
                                  ELSE IF x \in DOMAIN f THEN f[x] ELSE Defaults[x]
  BY DEF Merged
<1> HIDE DEF p
<1>3. \A x \in DOMAIN p : p[x] \in IF x \in Switches THEN BOOLEAN ELSE Int
  BY <1>1, <1>2 DEF Sets
<1> QED BY <1>2, <1>3 DEF PolicySet, Sets, p

LEMMA ProtocolIsPolicySet == PolicySet(ProtocolDefaults)
<1>1. Sets(Defaults) /\ DOMAIN Defaults = Fields
  BY DefaultsAssumption
<1> QED BY <1>1 DEF PolicySet, Sets, ProtocolDefaults, Fields, Switches

\* Every decision of Next is the one its policy set gives.
LEMMA NextKeeps == Inv /\ [Next]_vars => Inv'
<1> SUFFICES ASSUME Inv, [Next]_vars PROVE Inv'
  OBVIOUS
<1>1. ASSUME NEW f \in Files, EditFile(f) PROVE Inv'
  BY <1>1 DEF EditFile, Inv, SettingsKept, DecisionInv, Decided, NoDecision
<1>2. ASSUME NEW e \in Envs, EditEnv(e) PROVE Inv'
  BY <1>2 DEF EditEnv, Inv, SettingsKept, DecisionInv, Decided, NoDecision
<1>3. ASSUME NEW c \in Calls, Decide(c) PROVE Inv'
  <2>1. SettingsKept'
    BY <1>3 DEF Decide, Inv, SettingsKept
  <2>2. PICK p : p = Merged(file, env)
    OBVIOUS
  <2>3. PolicySet(p)
    BY <2>2, MergedIsPolicySet DEF Inv, SettingsKept
  <2>4. c \in AnyCall
    BY CallsAssumption DEF AnyCall
  <2>5. last' = IF Sanitized(p)
                  THEN [call |-> c, policy |-> p, reason |-> Decision(p, c)]
                  ELSE [reason |-> "invalid_policy"]
    BY <1>3, <2>2 DEF Decide
  <2>6. DecisionInv'
    BY <2>3, <2>4, <2>5 DEF DecisionInv, Decided
  <2> QED BY <2>1, <2>6 DEF Inv
<1>4. ASSUME NEW c \in Calls, DecideWithoutPolicy(c) PROVE Inv'
  <2>1. SettingsKept'
    BY <1>4 DEF DecideWithoutPolicy, Inv, SettingsKept
  <2>2. PICK p : p = ProtocolDefaults
    OBVIOUS
  <2>3. PolicySet(p)
    BY <2>2, ProtocolIsPolicySet
  <2>4. c \in AnyCall
    BY CallsAssumption DEF AnyCall
  <2>5. last' = [call |-> c, policy |-> p, reason |-> Decision(p, c)]
    BY <1>4, <2>2 DEF DecideWithoutPolicy
  <2>6. DecisionInv'
    BY <2>3, <2>4, <2>5 DEF DecisionInv, Decided
  <2> QED BY <2>1, <2>6 DEF Inv
<1>5. CASE UNCHANGED vars
  BY <1>5 DEF vars, Inv, SettingsKept, DecisionInv, Decided
<1> QED BY <1>1, <1>2, <1>3, <1>4, <1>5 DEF Next

LEMMA InitHolds == Init => Inv
BY DEF Init, Inv, SettingsKept, DecisionInv, Decided, NoDecision

\* What the record of a decision makes of the three properties.
LEMMA RecordLoosens == Inv => LooseningKeepsAllowed
<1> SUFFICES ASSUME Inv, Decided, Allowed(last.reason), NEW q \in Looser(last.policy)
             PROVE  Allowed(Decision(q, last.call))
  BY DEF LooseningKeepsAllowed
<1>1. /\ PolicySet(last.policy) /\ last.call \in AnyCall
      /\ Allowed(Decision(last.policy, last.call))
  BY DEF Inv, DecisionInv
<1> QED BY <1>1, LooserRelaxes, DecisionRelaxed

LEMMA RecordedMint ==
  ASSUME Inv, Minted
  PROVE  /\ PolicySet(last.policy) /\ last.call \in PreambleCalls
         /\ PreambleAllows(last.policy, last.call)
<1>1. /\ PolicySet(last.policy) /\ last.call \in AnyCall
      /\ last.call.method = "preamble" /\ Allowed(Decision(last.policy, last.call))
  BY DEF Inv, DecisionInv, Minted
<1>2. last.call \in PreambleCalls
  BY <1>1 DEF AnyCall, RewardCalls, AnomalyCalls, SterilityCalls, TradeCalls
<1>3. Decision(last.policy, last.call) = EvaluatePreamble(last.policy, last.call)
  BY <1>1 DEF Decision
<1> QED BY <1>1, <1>2, <1>3, PreambleIs

LEMMA RecordRetries == Inv => RetryStaysAdmissible
<1> SUFFICES ASSUME Inv, Minted,
                    NEW t \in last.call.now..(last.call.report.verified_at + MaxProofAge)
             PROVE  Allowed(EvaluatePreamble(last.policy, [last.call EXCEPT !.now = t]))
  BY DEF RetryStaysAdmissible
<1>1. /\ PolicySet(last.policy) /\ last.call \in PreambleCalls
      /\ PreambleAllows(last.policy, last.call)
  BY RecordedMint
<1>2. last.call.now \in Int /\ last.call.report.verified_at + MaxProofAge \in Int
  BY <1>1, WindowAssumption DEF PreambleCalls, OracleReports
<1>3. t \in Int /\ last.call.now <= t /\ t <= last.call.report.verified_at + MaxProofAge
  BY <1>2
<1> QED BY <1>1, <1>3, PreambleLater, PreambleIs

LEMMA RecordBoundsClock == Inv => DeviceClockBound
<1> SUFFICES ASSUME Inv, Minted
             PROVE  /\ last.call.now - last.call.report.device_timestamp <= 2 * MaxProofAge
                    /\ last.call.report.device_timestamp - last.call.now
                         <= 2 * last.policy.max_clock_skew_sec
  BY DEF DeviceClockBound
<1>1. /\ PolicySet(last.policy) /\ last.call \in PreambleCalls
      /\ PreambleAllows(last.policy, last.call)
  BY RecordedMint
<1>2. /\ last.call.now \in Int /\ last.call.report.device_timestamp \in Int
      /\ last.call.report.verified_at \in Int
  BY <1>1 DEF PreambleCalls, OracleReports
<1>3. last.policy.max_clock_skew_sec \in Int
  BY <1>1 DEF PolicySet, Sets, Fields, Switches, Amounts
<1> QED BY <1>1, <1>2, <1>3, WindowAssumption DEF PreambleAllows
-----------------------------------------------------------------------------
(* The Policy Engine. *)

\* Every decision on record is the one the five methods give of a whole policy
\* set, whatever the file and the environment say and whenever they are edited.
THEOREM Invariance == Spec => []Inv
BY InitHolds, NextKeeps, PTL DEF Spec

\* LooseningKeepsAllowed of every instance: no rule of the engine refuses more
\* when a rule is relaxed.
THEOREM LooseningIsSafe == Spec => []LooseningKeepsAllowed
BY Invariance, RecordLoosens, PTL

\* RetryStaysAdmissible of every instance: a report that could be minted can be
\* minted later, until its verified_at is stale.
THEOREM RetryIsSafe == Spec => []RetryStaysAdmissible
BY Invariance, RecordRetries, PTL

\* DeviceClockBound of every instance: verified_at carries the device's clock
\* within twice the window of the mint.
THEOREM ClockIsBounded == Spec => []DeviceClockBound
BY Invariance, RecordBoundsClock, PTL
-----------------------------------------------------------------------------
(* The recommender. *)

\* What is crowded out is counted in whole units, and never below none.
LEMMA CrowdedIs ==
  ASSUME NEW m \in Markets
  PROVE  /\ Target(m) \in Int /\ (m.capacity > 0 => Target(m) >= 0)
         /\ Crowded(m) \in Nat
         /\ Crowded(m) = 0 => Target(m) + m.forecast <= m.capacity
         /\ Crowded(m) # 0 => Crowded(m) = Target(m) + m.forecast - m.capacity
<1>1. Target(m) \in Int /\ (m.capacity > 0 => Target(m) >= 0)
  BY DEF Markets, Target, DEFAULT_MIN_STORAGE_RATIO
<1>2. m.forecast \in Int /\ m.capacity \in Int
  BY DEF Markets
<1> QED
  BY <1>1, <1>2 DEF Crowded

\* Once the period's production has come in, storage holds what was kept of it,
\* but for what a BUY crowded out.
LEMMA AdviceLosesOnlyBought == ASSUME NEW m \in Markets PROVE LosesOnlyBought(m)
<1> DEFINE r == Recommend(m)
           kept == Followed(m).storage + m.forecast
<1>1. SUFFICES ASSUME r # InvalidInputs
               PROVE  /\ kept >= 0
                      /\ kept - m.capacity <= Bought(m)
                      /\ Crowded(m) = 0 => kept <= m.capacity
  BY DEF LosesOnlyBought
<1>2. m.capacity > 0
  BY <1>1 DEF Recommend, Markets
<1>3. m.storage \in Nat /\ m.forecast \in Nat /\ m.capacity \in Int
  BY DEF Markets
<1>4. Followed(m).storage = m.storage + (IF r.action = "BUY" THEN r.volume
                                         ELSE IF r.action = "SELL" THEN -r.volume ELSE 0)
  BY DEF Followed, Markets
\* Every advice but BUY leaves no more than storage holds.
<1>5. ASSUME Bought(m) = 0, kept \in 0..m.capacity
      PROVE  /\ kept >= 0
             /\ kept - m.capacity <= Bought(m)
             /\ Crowded(m) = 0 => kept <= m.capacity
  BY <1>3, <1>5
<1>6. CASE Overflow(m) > 0
  <2>1. r = Advice("SELL", Overflow(m))
    BY <1>1, <1>6 DEF Recommend
  <2>2. kept = m.capacity
    BY <1>3, <1>4, <2>1 DEF Advice, Overflow
  <2>3. Bought(m) = 0
    BY <2>1 DEF Bought, Advice
  <2> QED
    BY <1>2, <1>3, <1>5, <2>2, <2>3
<1>7. CASE ~(Overflow(m) > 0)
  <2>1. m.storage + m.forecast <= m.capacity
    BY <1>3, <1>7 DEF Overflow
  <2>2. CASE Premium(m)
    <3>1. r = Advice("SELL", m.storage)
      BY <1>1, <1>7, <2>2 DEF Recommend
    <3>2. kept = m.forecast /\ Bought(m) = 0
      BY <1>3, <1>4, <3>1 DEF Advice, Bought
    <3> QED
      BY <1>3, <1>5, <2>1, <3>2
  <2>3. CASE ~Premium(m) /\ AboutToRise(m)
    <3>1. r = Advice("STORE", 0)
      BY <1>1, <1>7, <2>3 DEF Recommend
    <3>2. kept = m.storage + m.forecast /\ Bought(m) = 0
      BY <1>3, <1>4, <3>1 DEF Advice, Bought
    <3> QED
      BY <1>3, <1>5, <2>1, <3>2
  <2>4. CASE ~Premium(m) /\ ~AboutToRise(m) /\ LowAndCheap(m)
    <3>1. r = Advice("BUY", Target(m) - m.storage)
      BY <1>1, <1>7, <2>4 DEF Recommend
    <3>2. Target(m) \in Int /\ Target(m) >= 0
      BY <1>2, CrowdedIs
    <3>3. kept = Target(m) + m.forecast /\ Bought(m) = Target(m) - m.storage
      BY <1>3, <1>4, <3>1, <3>2 DEF Advice, Bought
    <3>4. Crowded(m) = 0 => Target(m) + m.forecast <= m.capacity
      BY CrowdedIs
    <3> HIDE DEF kept
    <3> QED
      BY <1>3, <2>1, <3>2, <3>3, <3>4
  <2>5. CASE ~Premium(m) /\ ~AboutToRise(m) /\ ~LowAndCheap(m)
    <3>1. r = Hold
      BY <1>1, <1>7, <2>5 DEF Recommend
    <3>2. kept = m.storage + m.forecast /\ Bought(m) = 0
      BY <1>3, <1>4, <3>1 DEF Advice, Hold, Bought
    <3> QED
      BY <1>3, <1>5, <2>1, <3>2
  <2> QED
    BY <2>2, <2>3, <2>4, <2>5
<1> QED
  BY <1>6, <1>7

\* With room for reserve and production, the same market at another level of
\* storage that fits has no overflow and is told to sell all, to buy, or neither.
LEMMA AdviceWithin ==
  ASSUME NEW m \in Markets, NEW s \in Nat, m.capacity > 0, m.price_now > 0,
         s + m.forecast <= m.capacity
  PROVE  LET n == [m EXCEPT !.storage = s]
         IN /\ n \in Markets
            /\ Premium(n) => Recommend(n) = Advice("SELL", s)
            /\ Trades(n) /\ ~Premium(n) =>
                 LowAndCheap(n) /\ Recommend(n) = Advice("BUY", Target(m) - s)
<1> DEFINE n == [m EXCEPT !.storage = s]
<1>1. /\ n \in Markets
      /\ n.storage = s /\ n.forecast = m.forecast /\ n.capacity = m.capacity
      /\ n.price_now = m.price_now
  BY DEF Markets
<1>2. ~(Overflow(n) > 0)
  BY <1>1 DEF Overflow, Markets
<1>3. ~(n.capacity <= 0 \/ n.price_now <= 0)
  BY <1>1 DEF Markets
<1>4. Target(n) = Target(m)
  BY <1>1 DEF Target
<1>5. Premium(n) => Recommend(n) = Advice("SELL", s)
  BY <1>1, <1>2, <1>3 DEF Recommend
<1>6. ASSUME Trades(n), ~Premium(n)
      PROVE  LowAndCheap(n) /\ Recommend(n) = Advice("BUY", Target(m) - s)
  BY <1>1, <1>2, <1>3, <1>4, <1>6 DEF Recommend, Trades, Advice, Hold
<1> QED
  BY <1>1, <1>5, <1>6

\* Advice that is no trade leaves the market as it is.
LEMMA NoTradeKeeps == ASSUME NEW m \in Markets, ~Trades(m) PROVE Followed(m) = m
  BY DEF Followed, Trades, Markets

\* A device told to sell what it has stored is left with nothing.
LEMMA SoldOut ==
  ASSUME NEW m \in Markets, Recommend(m) = Advice("SELL", m.storage)
  PROVE  Followed(m) = [m EXCEPT !.storage = 0]
  BY DEF Followed, Advice, Markets

\* With room, no BUY undoes a SELL nor a SELL a BUY, and after two trades there is
\* none left.
LEMMA AdviceSettles ==
  ASSUME NEW m \in Markets, WholeReserve(m), Trades(m), Crowded(m) = 0
  PROVE  /\ Trades(Followed(m)) =>
              Recommend(Followed(m)).action = Recommend(m).action
         /\ ~Trades(Followed(Followed(m)))
<1> DEFINE At(s) == [m EXCEPT !.storage = s]
<1>2. m.capacity > 0 /\ m.price_now > 0
  BY DEF Trades, Recommend, InvalidInputs, Advice, Markets
<1>3. Target(m) \in Nat /\ Target(m) > 0 /\ MinSell(m) = Target(m)
  BY <1>2 DEF Markets, WholeReserve, Target, MinSell, DEFAULT_MIN_STORAGE_RATIO,
              DEFAULT_MIN_SELL_STORAGE_RATIO
<1>4. \A s \in Nat : /\ At(s) \in Markets
                     /\ At(s).storage = s
                     /\ Target(At(s)) = Target(m) /\ MinSell(At(s)) = Target(m)
  BY <1>3 DEF Markets, Target, MinSell
<1>5. \A s, v \in Nat : At(s) \in Markets /\ [At(s) EXCEPT !.storage = v] = At(v)
  BY DEF Markets
<1>6. m.forecast + Target(m) <= m.capacity
  BY <1>3, CrowdedIs DEF Markets
<1>7. m = At(m.storage) /\ m.storage \in Nat
  BY DEF Markets
\* An empty storage that would have sold its last unit has nothing to buy.
<1>8. ASSUME NEW s \in Nat, Premium(At(s))
      PROVE  ~Trades(At(0))
  <2>1. ~Premium(At(0))
    BY <1>3, <1>4 DEF Premium
  <2>2. ~LowAndCheap(At(0))
    BY <1>8 DEF Premium, LowAndCheap, Markets, DEFAULT_SELL_PREMIUM, DEFAULT_BUY_DISCOUNT
  <2> QED
    BY <1>2, <1>6, <1>3, <2>1, <2>2, AdviceWithin DEF Markets
\* A storage at the reserve or above, with room for the production, buys nothing.
<1>9. ASSUME NEW s \in Nat, s >= Target(m), s + m.forecast <= m.capacity
      PROVE  ~LowAndCheap(At(s)) /\ (Trades(At(s)) => Premium(At(s)))
  <2>1. ~LowAndCheap(At(s))
    BY <1>3, <1>4, <1>9 DEF LowAndCheap
  <2> QED
    BY <1>2, <1>9, <2>1, AdviceWithin
\* One step further from such a storage.
<1>10. ASSUME NEW s \in Nat, s >= Target(m), s + m.forecast <= m.capacity, Trades(At(s))
       PROVE  Recommend(At(s)) = Advice("SELL", s) /\ Followed(At(s)) = At(0)
  <2>1. Premium(At(s))
    BY <1>9, <1>10
  <2>2. Recommend(At(s)) = Advice("SELL", s)
    BY <1>2, <1>10, <2>1, AdviceWithin
  <2> QED
    <3>1. Followed(At(s)) = [At(s) EXCEPT !.storage = 0]
      BY <1>4, <2>2, SoldOut
    <3> QED
      BY <1>5, <2>2, <3>1
<1>11. CASE Overflow(m) > 0
  <2> DEFINE s == m.capacity - m.forecast
  <2>1. Recommend(m) = Advice("SELL", Overflow(m))
    BY <1>2, <1>11 DEF Recommend, Markets
  <2>2. s \in Nat /\ s >= Target(m) /\ s + m.forecast <= m.capacity
    BY <1>3, <1>6 DEF Markets
  <2>3. Followed(m) = At(s)
    BY <2>1 DEF Followed, Advice, Overflow, Markets
  <2>4. CASE Trades(At(s))
    <3>1. Recommend(At(s)) = Advice("SELL", s) /\ Followed(At(s)) = At(0)
      BY <1>10, <2>2, <2>4
    <3>2. ~Trades(At(0))
      BY <1>8, <1>9, <2>2, <2>4
    <3> QED
      BY <2>1, <2>3, <3>1, <3>2 DEF Advice
  <2>5. CASE ~Trades(At(s))
    <3>1. Followed(At(s)) = At(s)
      BY <1>4, <2>2, <2>5, NoTradeKeeps
    <3> QED
      BY <2>3, <2>5, <3>1
  <2> QED
    BY <2>4, <2>5
<1>12. CASE ~(Overflow(m) > 0)
  <2>1. m.storage + m.forecast <= m.capacity
    BY <1>12 DEF Overflow, Markets
  <2>2. CASE Premium(m)
    <3>1. Recommend(m) = Advice("SELL", m.storage)
      BY <1>2, <1>12, <2>2 DEF Recommend, Markets
    <3>2. Followed(m) = At(0)
      BY <3>1 DEF Followed, Advice, Markets
    <3>3. ~Trades(At(0))
      BY <1>7, <1>8, <2>2
    <3>4. Followed(At(0)) = At(0)
      BY <1>4, <3>3, NoTradeKeeps
    <3> QED
      BY <3>2, <3>3, <3>4
  <2>3. CASE ~Premium(m)
    <3>1. LowAndCheap(m) /\ Recommend(m) = Advice("BUY", Target(m) - m.storage)
      BY <1>2, <1>7, <2>1, <2>3, AdviceWithin
    <3>2. Followed(m) = At(Target(m))
      BY <1>3, <3>1 DEF Followed, Advice, Markets
    <3>3. ~Premium(At(Target(m)))
      BY <1>3, <3>1 DEF Premium, LowAndCheap, Markets, DEFAULT_SELL_PREMIUM, DEFAULT_BUY_DISCOUNT
    <3>4. ~Trades(At(Target(m)))
      BY <1>3, <1>6, <1>9, <3>3 DEF Markets
    <3>5. Followed(At(Target(m))) = At(Target(m))
      BY <1>3, <1>4, <3>4, NoTradeKeeps
    <3> QED
      BY <3>2, <3>4, <3>5
  <2> QED
    BY <2>2, <2>3
<1> QED
  BY <1>11, <1>12

\* The same crowded market at another level of storage that fits: the reserve is
\* not reached, so there is nothing to sell, and the advice is to buy or no trade.
LEMMA CrowdedBuys ==
  ASSUME NEW m \in Markets, m.capacity > 0, m.price_now > 0,
         Crowded(m) # 0, NEW s \in Int, s + m.forecast <= m.capacity
  PROVE  LET n == [m EXCEPT !.storage = s]
         IN Trades(n) => /\ Recommend(n) = Advice("BUY", Target(m) - s)
                         /\ Followed(n) = [m EXCEPT !.storage = Target(m)]
<1>0. PICK n : n = [m EXCEPT !.storage = s]
  OBVIOUS
<1>1. SUFFICES ASSUME Trades(n)
               PROVE  /\ Recommend(n) = Advice("BUY", Target(m) - s)
                      /\ Followed(n) = [m EXCEPT !.storage = Target(m)]
  BY <1>0
<1>2. /\ n.storage = s /\ n.forecast = m.forecast /\ n.capacity = m.capacity
      /\ n.price_now = m.price_now
      /\ n \in [forecast : Nat, storage : Int, capacity : Int,
                price_now : Int, price_forecast : Int, avg_price : Int]
      /\ \A v \in Int : [n EXCEPT !.storage = v] = [m EXCEPT !.storage = v]
  BY <1>0 DEF Markets
<1>3. m.forecast \in Int /\ m.capacity \in Int
  BY DEF Markets
<1>4. Target(m) \in Int /\ MinSell(n) = Target(m) /\ Target(n) = Target(m)
  BY <1>2, CrowdedIs DEF Target, MinSell, DEFAULT_MIN_STORAGE_RATIO,
                         DEFAULT_MIN_SELL_STORAGE_RATIO
<1>5. ~(Overflow(n) > 0)
  BY <1>2, <1>3 DEF Overflow
<1>6. s < Target(m)
  <2>1. Crowded(m) = Target(m) + m.forecast - m.capacity /\ Crowded(m) \in Nat
    BY CrowdedIs
  <2> QED
    BY <1>3, <1>4, <2>1
<1>7. ~Premium(n)
  BY <1>2, <1>4, <1>6 DEF Premium
<1>8. ~(n.capacity <= 0 \/ n.price_now <= 0)
  BY <1>2 DEF Markets
<1>9. Recommend(n) = Advice("BUY", Target(m) - s)
  BY <1>1, <1>2, <1>4, <1>5, <1>7, <1>8 DEF Recommend, Trades, Advice, Hold
<1>10. Followed(n) = [n EXCEPT !.storage = @ + (Target(m) - s)]
  BY <1>9 DEF Followed, Advice
<1>11. n.storage + (Target(m) - s) = Target(m)
  BY <1>2, <1>4
<1> QED
  BY <1>2, <1>4, <1>9, <1>10, <1>11

\* At a full reserve the same market sells what is crowded out.
LEMMA CrowdedSells ==
  ASSUME NEW m \in Markets, m.capacity > 0, m.price_now > 0, Crowded(m) # 0
  PROVE  LET n == [m EXCEPT !.storage = Target(m)]
         IN /\ Recommend(n) = Advice("SELL", Crowded(m))
            /\ Followed(n) = [m EXCEPT !.storage = m.capacity - m.forecast]
<1>0. PICK n : n = [m EXCEPT !.storage = Target(m)]
  OBVIOUS
<1>1. /\ n.storage = Target(m) /\ n.forecast = m.forecast /\ n.capacity = m.capacity
      /\ n.price_now = m.price_now
      /\ n \in [forecast : Nat, storage : Int, capacity : Int,
                price_now : Int, price_forecast : Int, avg_price : Int]
      /\ \A v \in Int : [n EXCEPT !.storage = v] = [m EXCEPT !.storage = v]
  BY <1>0, CrowdedIs DEF Markets
<1>2. /\ Target(m) \in Int /\ Crowded(m) \in Nat
      /\ Crowded(m) = Target(m) + m.forecast - m.capacity
  BY CrowdedIs
<1>3. m.forecast \in Int /\ m.capacity \in Int
  BY DEF Markets
<1>4. Overflow(n) = Crowded(m) /\ Overflow(n) > 0
  BY <1>1, <1>2 DEF Overflow
<1>5. ~(n.capacity <= 0 \/ n.price_now <= 0)
  BY <1>1 DEF Markets
<1>6. Recommend(n) = Advice("SELL", Crowded(m))
  BY <1>4, <1>5 DEF Recommend
<1>7. Followed(n) = [n EXCEPT !.storage = @ + (-Crowded(m))]
  BY <1>6 DEF Followed, Advice
<1>8. n.storage + (-Crowded(m)) = m.capacity - m.forecast /\ m.capacity - m.forecast \in Int
  BY <1>1, <1>2, <1>3
<1> QED
  BY <1>0, <1>1, <1>6, <1>7, <1>8

\* Without room, advice moves storage to the full reserve and back, by what is
\* crowded out, until it is no trade.
LEMMA AdviceRepeats ==
  ASSUME NEW m \in Markets, Trades(m), Crowded(m) # 0
  PROVE  LET second == Followed(m)
             third == Followed(second)
         IN /\ Trades(second) => Recommend(second).volume = Crowded(m)
            /\ Trades(third) => Followed(third) = second
<1> DEFINE At(s) == [m EXCEPT !.storage = s]
           low == m.capacity - m.forecast
<1>1. m.capacity > 0 /\ m.price_now > 0
  BY DEF Trades, Recommend, InvalidInputs, Advice, Markets
<1>2. /\ m.storage \in Int /\ m.forecast \in Int /\ m.capacity \in Int
      /\ m = At(m.storage)
  BY DEF Markets
<1>3. /\ low \in Int /\ low + m.forecast <= m.capacity
      /\ Target(m) - low = Crowded(m)
  <2>1. Target(m) \in Int /\ Crowded(m) = Target(m) + m.forecast - m.capacity
    BY CrowdedIs
  <2> QED
    BY <1>2, <2>1
<1> HIDE DEF low
\* From the full reserve to the low storage.
<1>4. Recommend(At(Target(m))) = Advice("SELL", Crowded(m)) /\ Followed(At(Target(m))) = At(low)
  BY <1>1, CrowdedSells DEF low
\* And back, if there is anything to trade.
<1>5. Trades(At(low)) =>
        Recommend(At(low)) = Advice("BUY", Crowded(m)) /\ Followed(At(low)) = At(Target(m))
  BY <1>1, <1>3, CrowdedBuys
<1>6. ASSUME ~Trades(At(low)) PROVE Followed(At(low)) = At(low)
  <2>1. PICK n : n = At(low)
    OBVIOUS
  <2>2. /\ n \in [forecast : Nat, storage : Int, capacity : Int,
                  price_now : Int, price_forecast : Int, avg_price : Int]
        /\ ~Trades(n)
    BY <1>3, <1>6, <2>1 DEF Markets
  <2>3. Followed(n) = n
    BY <2>2 DEF Followed, Trades
  <2> QED
    BY <2>1, <2>3
<1>7. CASE Overflow(m) > 0
  <2>1. Recommend(m) = Advice("SELL", Overflow(m))
    BY <1>1, <1>7 DEF Recommend, Markets
  <2>2. Followed(m) = At(low)
    BY <1>2, <2>1 DEF Followed, Advice, Overflow, low
  <2>3. CASE Trades(At(low))
    <3> HIDE DEF At
    <3> QED
      BY <1>4, <1>5, <2>2, <2>3 DEF Advice
  <2>4. CASE ~Trades(At(low))
    <3> HIDE DEF At
    <3> QED
      BY <1>6, <2>2, <2>4
  <2> QED
    BY <2>3, <2>4
<1>8. CASE ~(Overflow(m) > 0)
  <2>1. m.storage + m.forecast <= m.capacity
    BY <1>2, <1>8 DEF Overflow
  <2>2. Followed(m) = At(Target(m))
    BY <1>1, <1>2, <2>1, CrowdedBuys
  <2> HIDE DEF At
  <2> QED
    BY <1>4, <1>5, <2>2 DEF Advice
<1> QED
  BY <1>7, <1>8

\* Both markets together.
LEMMA AdviceSettlesOrRepeats ==
  ASSUME NEW m \in Markets, WholeReserve(m)
  PROVE  SettlesOrRepeats(m)
<1>1. CASE Trades(m) /\ Crowded(m) = 0
  BY <1>1, AdviceSettles DEF SettlesOrRepeats
<1>2. CASE Trades(m) /\ Crowded(m) # 0
  BY <1>2, AdviceRepeats DEF SettlesOrRepeats
<1> QED
  BY <1>1, <1>2 DEF SettlesOrRepeats

-----------------------------------------------------------------------------
(* The endpoint. *)

\* What was recommended was recommended for a market some body may carry.
Recommended ==
  "market" \in DOMAIN last => last.market \in Markets /\ WholeReserve(last.market)

\* What the endpoint remembers of a market it answered for is one of its inputs.
LEMMA RecommendedAlways == MarketSpec => []Recommended
<1>1. Init => Recommended
  BY DEF Init, Recommended, NoDecision
<1>2. Recommended /\ [MarketNext]_vars => Recommended'
  <2> SUFFICES ASSUME Recommended, [MarketNext]_vars PROVE Recommended'
    OBVIOUS
  <2>1. ASSUME NEW f \in Files, EditFile(f) PROVE Recommended'
    BY <2>1 DEF EditFile, Recommended, NoDecision
  <2>2. ASSUME NEW e \in Envs, EditEnv(e) PROVE Recommended'
    BY <2>2 DEF EditEnv, Recommended, NoDecision
  <2>3. ASSUME NEW c \in Calls, Decide(c) PROVE Recommended'
    <3>1. "market" \notin DOMAIN last'
      BY <2>3 DEF Decide
    <3> QED
      BY <3>1 DEF Recommended
  <2>4. ASSUME NEW c \in Calls, DecideWithoutPolicy(c) PROVE Recommended'
    <3>1. "market" \notin DOMAIN last'
      BY <2>4 DEF DecideWithoutPolicy
    <3> QED
      BY <3>1 DEF Recommended
  <2>5. ASSUME NEW c \in MarketCalls, MarketRecommend(c) PROVE Recommended'
    <3>1. c.market \in Markets /\ WholeReserve(c.market)
      BY MarketCallsAssumption
    <3>2. "market" \in DOMAIN last' => last'.market = c.market
      BY <2>5 DEF MarketRecommend
    <3> QED
      BY <3>1, <3>2 DEF Recommended
  <2>6. CASE UNCHANGED vars
    BY <2>6 DEF vars, Recommended
  <2> QED
    BY <2>1, <2>2, <2>3, <2>4, <2>5, <2>6 DEF MarketNext, Next
<1> QED
  BY <1>1, <1>2, PTL DEF MarketSpec

\* OnlyBoughtIsLost of every instance: a device that carries out what the endpoint
\* allows owes no energy at the end of the period, and storage overflows by bought
\* energy only, and only where the reserve leaves no room.
THEOREM MarketAdviceLosesOnlyBought == MarketSpec => []OnlyBoughtIsLost
<1>1. Recommended => OnlyBoughtIsLost
  BY AdviceLosesOnlyBought DEF Recommended, OnlyBoughtIsLost, MayFollow
<1> QED
  BY <1>1, RecommendedAlways, PTL

\* TradesSettleOrRepeat of every instance: the rules for selling and for buying feed
\* one another only where reserve and production do not fit together, and then by
\* one fixed amount.
THEOREM MarketAdviceSettlesOrRepeats == MarketSpec => []TradesSettleOrRepeat
<1>1. Recommended => TradesSettleOrRepeat
  BY AdviceSettlesOrRepeats DEF Recommended, TradesSettleOrRepeat, MayFollow
<1> QED
  BY <1>1, RecommendedAlways, PTL
-----------------------------------------------------------------------------
(* The endpoint asks the Policy Engine: its properties hold beside it. *)

LEMMA AdviceVolume == ASSUME NEW m \in Markets PROVE Recommend(m).volume \in Int
<1>1. Target(m) \in Int
  BY DEF Markets, Target, DEFAULT_MIN_STORAGE_RATIO
<1> QED BY <1>1 DEF Recommend, Advice, InvalidInputs, Hold, Overflow, Markets

LEMMA MarketKeeps ==
  ASSUME Inv, NEW c \in MarketCalls, MarketRecommend(c)
  PROVE  Inv'
<1>1. SettingsKept'
  BY DEF MarketRecommend, Inv, SettingsKept
<1>2. PICK p : p = Merged(file, env)
  OBVIOUS
<1>3. PICK advice : advice = Recommend(c.market)
  OBVIOUS
<1>4. PICK call : call = TradeCall(c, advice)
  OBVIOUS
<1>5. PolicySet(p)
  BY <1>2, MergedIsPolicySet DEF Inv, SettingsKept
<1>6. call \in AnyCall
  <2>1. /\ c.market \in Markets
        /\ c.trade_enabled \in BOOLEAN /\ c.dao_approved \in BOOLEAN
    BY MarketCallsAssumption
  <2>2. advice.volume \in Int
    BY <1>3, <2>1, AdviceVolume
  <2> QED BY <1>4, <2>1, <2>2 DEF TradeCall, TradeCalls, AnyCall
<1>7. Decision(p, call) = EvaluateTrade(p, call)
  BY <1>4 DEF TradeCall, Decision
<1>8. last' = IF advice = InvalidInputs THEN [reason |-> "invalid_market_inputs"]
              ELSE IF ~Sanitized(p) THEN [reason |-> "invalid_policy"]
              ELSE [call |-> call, policy |-> p, reason |-> EvaluateTrade(p, call),
                    market |-> c.market, advice |-> advice]
  BY <1>2, <1>3, <1>4 DEF MarketRecommend
<1>9. DecisionInv'
  <2>1. CASE "call" \notin DOMAIN last'
    BY <2>1 DEF DecisionInv, Decided
  <2>2. CASE "call" \in DOMAIN last'
    <3>1. /\ last'.call = call /\ last'.policy = p
          /\ last'.reason = EvaluateTrade(p, call)
      BY <1>8, <2>2
    <3> QED BY <1>5, <1>6, <1>7, <3>1 DEF DecisionInv, Decided
  <2> QED BY <2>1, <2>2
<1> QED BY <1>1, <1>9 DEF Inv

\* Every decision on record, the endpoint's among them, is the Policy Engine's.
LEMMA MarketInvariance == MarketSpec => []Inv
<1>1. Inv /\ [MarketNext]_vars => Inv'
  BY NextKeeps, MarketKeeps DEF MarketNext
<1> QED
  BY <1>1, InitHolds, PTL DEF MarketSpec

\* LooseningKeepsAllowed, RetryStaysAdmissible and DeviceClockBound hold of the
\* engine and the endpoint together, whatever markets are asked about.
THEOREM MarketKeepsPolicy ==
  MarketSpec => [](LooseningKeepsAllowed /\ RetryStaysAdmissible /\ DeviceClockBound)
<1>1. Inv => LooseningKeepsAllowed /\ RetryStaysAdmissible /\ DeviceClockBound
  BY RecordLoosens, RecordRetries, RecordBoundsClock
<1> QED
  BY <1>1, MarketInvariance, PTL
=============================================================================
