---------------------------- MODULE PolicyEngine ----------------------------
(***************************************************************************)
(* The Policy Engine (axis_core/policy): the decisions of its five methods *)
(* and the loading of the policy set they decide under.  An operator edits *)
(* the environment and the policy file while callers ask for decisions;    *)
(* the set is loaded anew for every decision, as the oracle's API does.    *)
(* Fractions (scores, thresholds, basis points) are integers here: the     *)
(* engine only compares and scales them.                                   *)
(***************************************************************************)
EXTENDS Integers, Sequences

CONSTANTS
  MaxProofAge,    \* DEFAULT_MAX_PROOF_AGE_SEC
  Month,          \* the rolling window of effective_month_energy, in seconds
  BpsScale,       \* basis points in the whole, 10_000
  MaxBps,         \* the largest max_energy_bps a policy set may have
  MaxSkew,        \* the largest max_clock_skew_sec a policy set may have
  One,            \* the score and threshold 1.0
  TierLimit,      \* monthly limit in Wh per tier, or NoLimit
  Defaults,       \* DEFAULT_POLICY
  Files,          \* contents of the policy file: fields and their values
  Envs,           \* what AXIS_POLICY_* set: fields and their values
  Calls           \* the decisions callers ask for

NoLimit == -1
NoDecision == [reason |-> "none"]
None == -1        \* an argument or an attribute that is not there

Switches == {"mint_enabled", "enforce_oracle_whitelist", "enforce_device_state",
             "enforce_tier_limits", "enforce_energy_caps", "enforce_supply_cap",
             "enforce_ai_anomaly", "enforce_sterility", "enforce_trade_limits",
             "trade_requires_dao"}
Amounts == {"ai_anomaly_threshold", "sterility_a2_threshold", "sterility_cv_threshold",
            "trade_max_volume_wh", "max_energy_bps", "max_clock_skew_sec"}
Fields == Switches \cup Amounts

\* A producer and a report, and what each of the five methods is called with.
ProducerStates ==
  [state : STRING, revoked : BOOLEAN, tier : DOMAIN TierLimit,
   month_energy : Nat, month_start : Int, rated_power : Nat]
OracleReports == [verified_at : Int, device_timestamp : Int, energy : Int]

PreambleCalls ==
  [method : {"preamble"}, producer : ProducerStates, report : OracleReports, now : Int,
   oracle_trusted : BOOLEAN, max_energy_bps : Int]
RewardCalls == [method : {"reward"}, reward : Int, total_supply : Int, max_supply : Int]
AnomalyCalls == [method : {"ai_anomaly"}, is_anomaly : BOOLEAN, score : Int, threshold : Int]
SterilityCalls == [method : {"sterility"}, a2 : Int, cv : Int,
                   a2_threshold : Int, cv_threshold : Int]
TradeCalls == [method : {"trade"}, trade_enabled : BOOLEAN, volume : Int, dao_approved : BOOLEAN]

\* A file or an environment sets some fields, to values of their kinds.
Sets(f) ==
  /\ DOMAIN f \subseteq Fields
  /\ \A x \in DOMAIN f : f[x] \in IF x \in Switches THEN BOOLEAN ELSE Int

ASSUME TierAssumption == \A tier \in DOMAIN TierLimit : TierLimit[tier] \in Nat \cup {NoLimit}
ASSUME WindowAssumption == MaxProofAge \in Nat /\ Month \in Nat /\ BpsScale \in Nat \ {0}
ASSUME BoundsAssumption == MaxBps \in Nat /\ MaxSkew \in Nat /\ One \in Nat
ASSUME CallsAssumption ==
  Calls \subseteq PreambleCalls \cup RewardCalls \cup AnomalyCalls \cup SterilityCalls \cup TradeCalls
ASSUME SettingsAssumption == \A f \in Files \cup Envs : Sets(f)

VARIABLES
  file,           \* the policy file
  env,            \* the environment
  last            \* the decision last asked for: the call, the policy set, the reason

vars == <<file, env, last>>
-----------------------------------------------------------------------------
(* Loading the policy set. *)

\* Environment over file over defaults; then every bound is checked.
Merged(f, e) ==
  [x \in Fields |-> IF x \in DOMAIN e THEN e[x]
                    ELSE IF x \in DOMAIN f THEN f[x] ELSE Defaults[x]]

Sanitized(p) ==
  /\ p.max_energy_bps \in 1..MaxBps
  /\ p.max_clock_skew_sec \in 0..MaxSkew
  /\ p.ai_anomaly_threshold \in 0..One
  /\ p.sterility_a2_threshold >= 0
  /\ p.sterility_cv_threshold \in 1..One
  /\ p.trade_max_volume_wh >= 0

\* The reference service's own values are a policy set, within its bounds.
ASSUME DefaultsAssumption == Sets(Defaults) /\ DOMAIN Defaults = Fields /\ Sanitized(Defaults)

\* Without a policy set the methods fall back on the protocol's own values.
ProtocolDefaults == [Defaults EXCEPT
  !.enforce_oracle_whitelist = TRUE, !.enforce_device_state = TRUE,
  !.enforce_tier_limits = TRUE, !.enforce_energy_caps = TRUE]
-----------------------------------------------------------------------------
(* Decisions.  A rule is a refusal and whether it is broken; the first broken *)
(* rule of a list refuses.                                                    *)

Rule(reason, broken) == [reason |-> reason, broken |-> broken]

FirstBroken(rules, otherwise) ==
  LET broken == {i \in DOMAIN rules : rules[i].broken}
  IN IF broken = {} THEN otherwise
     ELSE rules[CHOOSE i \in broken : \A j \in broken : i <= j].reason

Limited(producer) == TierLimit[producer.tier] # NoLimit

\* A rolling window of 30 days; nothing counts once it has passed.
EffectiveMonthEnergy(producer, now) ==
  IF now - producer.month_start >= Month THEN 0 ELSE producer.month_energy

\* ProducerState.can_mint: active, and some headroom left in the tier's month.
CanMint(producer, now) ==
  /\ ~producer.revoked
  /\ producer.state = "active"
  /\ Limited(producer) => EffectiveMonthEnergy(producer, now) < TierLimit[producer.tier]

AllowsIncrement(producer, now, energy) ==
  Limited(producer) => EffectiveMonthEnergy(producer, now) + energy <= TierLimit[producer.tier]

\* Mutants: the device's clock is held against the mint's, or against nothing.
DeviceClockAtMint(p, c) ==
  LET r == c.report skew == p.max_clock_skew_sec
  IN FirstBroken(
       << Rule("future_timestamp", r.verified_at > c.now + skew),
          Rule("stale_timestamp", c.now - r.verified_at > MaxProofAge),
          Rule("future_timestamp", r.device_timestamp > c.now + skew),
          Rule("stale_timestamp", c.now - r.device_timestamp > MaxProofAge) >>,
       "ok")

DeviceClockUnchecked(p, c) ==
  FirstBroken(
    << Rule("future_timestamp", c.report.verified_at > c.now + p.max_clock_skew_sec),
       Rule("stale_timestamp", c.now - c.report.verified_at > MaxProofAge) >>,
    "ok")

EvaluatePreamble(p, c) ==
  LET r == c.report
      bps == IF c.max_energy_bps # None THEN c.max_energy_bps ELSE p.max_energy_bps
      skew == p.max_clock_skew_sec
  IN FirstBroken(
       << Rule("mint_paused", ~p.mint_enabled),
          Rule("untrusted_oracle", p.enforce_oracle_whitelist /\ ~c.oracle_trusted),
          Rule("invalid_device_state", p.enforce_device_state /\ ~CanMint(c.producer, c.now)),
          Rule("future_timestamp", r.verified_at > c.now + skew),
          Rule("stale_timestamp", c.now - r.verified_at > MaxProofAge),
          Rule("future_timestamp", r.device_timestamp > r.verified_at + skew),
          Rule("stale_timestamp", r.verified_at - r.device_timestamp > MaxProofAge),
          Rule("tier_limit_exceeded",
               p.enforce_tier_limits /\ ~AllowsIncrement(c.producer, c.now, r.energy)),
          Rule("excessive_energy",
               p.enforce_energy_caps /\ r.energy > (c.producer.rated_power * bps) \div BpsScale) >>,
       "ok")

EvaluateReward(p, c) ==
  FirstBroken(
    << Rule("zero_amount_mint", c.reward <= 0),
       Rule("supply_limit_exceeded",
            p.enforce_supply_cap /\ c.total_supply + c.reward > c.max_supply) >>,
    "ok")

EvaluateAiAnomaly(p, c) ==
  FirstBroken(
    << Rule("ai_anomaly_flagged",
            /\ p.enforce_ai_anomaly
            /\ c.is_anomaly
            /\ c.score >= IF c.threshold # None THEN c.threshold ELSE p.ai_anomaly_threshold) >>,
    "ok")

\* A reading without one of its two numbers refuses nothing.  A call may bring
\* thresholds of its own.
EvaluateSterility(p, c) ==
  FirstBroken(
    << Rule("synthetic_collusion_detected",
            /\ p.enforce_sterility
            /\ c.a2 # None /\ c.cv # None
            /\ \/ c.a2 < IF c.a2_threshold # None THEN c.a2_threshold ELSE p.sterility_a2_threshold
               \/ c.cv < IF c.cv_threshold # None THEN c.cv_threshold ELSE p.sterility_cv_threshold) >>,
    "ok")

\* Mutant: a maximal volume of 0 is a limit like any other.
ZeroIsALimit(p, c) ==
  FirstBroken(
    << Rule("trade_not_authorized", ~c.trade_enabled),
       Rule("trade_volume_exceeded", p.enforce_trade_limits /\ c.volume > p.trade_max_volume_wh),
       Rule("trade_dao_gated", p.trade_requires_dao /\ ~c.dao_approved) >>,
    "trade_allowed")

\* A maximal volume of 0 means that there is none.
EvaluateTrade(p, c) ==
  FirstBroken(
    << Rule("trade_not_authorized", ~c.trade_enabled),
       Rule("trade_volume_exceeded",
            /\ p.enforce_trade_limits
            /\ p.trade_max_volume_wh > 0
            /\ c.volume > p.trade_max_volume_wh),
       Rule("trade_dao_gated", p.trade_requires_dao /\ ~c.dao_approved) >>,
    "trade_allowed")

\* A call names the method and carries its arguments.
Decision(p, c) ==
  IF c.method = "preamble" THEN EvaluatePreamble(p, c)
  ELSE IF c.method = "reward" THEN EvaluateReward(p, c)
  ELSE IF c.method = "ai_anomaly" THEN EvaluateAiAnomaly(p, c)
  ELSE IF c.method = "sterility" THEN EvaluateSterility(p, c)
  ELSE EvaluateTrade(p, c)

Allowed(reason) == reason \in {"ok", "trade_allowed"}
-----------------------------------------------------------------------------
\* The operator edits the file or the environment.
EditFile(f) == file' = f /\ last' = NoDecision /\ UNCHANGED env
EditEnv(e) == env' = e /\ last' = NoDecision /\ UNCHANGED file

\* load_policy_config, then one method.  Bound: a decision is asked for once per
\* edit; it leaves nothing behind.
Decide(c) ==
  /\ last = NoDecision
  /\ LET p == Merged(file, env)
     IN last' = IF Sanitized(p)
                  THEN [call |-> c, policy |-> p, reason |-> Decision(p, c)]
                  ELSE [reason |-> "invalid_policy"]
  /\ UNCHANGED <<file, env>>

\* A caller that has no policy set.
DecideWithoutPolicy(c) ==
  /\ last = NoDecision
  /\ last' = [call |-> c, policy |-> ProtocolDefaults, reason |-> Decision(ProtocolDefaults, c)]
  /\ UNCHANGED <<file, env>>

Init == file \in Files /\ env \in Envs /\ last = NoDecision

Next ==
  \/ \E f \in Files : EditFile(f)
  \/ \E e \in Envs : EditEnv(e)
  \/ \E c \in Calls : Decide(c) \/ DecideWithoutPolicy(c)

Spec == Init /\ [][Next]_vars
-----------------------------------------------------------------------------
(* Properties. *)

Decided == "call" \in DOMAIN last
Minted == Decided /\ last.call.method = "preamble" /\ Allowed(last.reason)

\* The policy sets that relax one rule of p: a switch turned to its lenient side,
\* an amount moved by one; a volume of 0 is the most lenient of all.
Looser(p) ==
  {[p EXCEPT !.mint_enabled = TRUE]}
  \cup {[p EXCEPT ![switch] = FALSE] : switch \in Switches \ {"mint_enabled"}}
  \cup {[p EXCEPT ![amount] = p[amount] + 1] :
           amount \in {"max_energy_bps", "max_clock_skew_sec", "ai_anomaly_threshold"}}
  \cup {[p EXCEPT ![amount] = p[amount] - 1] :
           amount \in {"sterility_a2_threshold", "sterility_cv_threshold"}}
  \cup {[p EXCEPT !.trade_max_volume_wh = IF @ = 0 THEN 0 ELSE @ + 1],
         [p EXCEPT !.trade_max_volume_wh = 0]}

\* Relaxing any one rule of the policy set never turns an allowed call into a
\* refused one: no two rules of the five methods work against each other, and
\* the first-broken-rule order hides none.
LooseningKeepsAllowed ==
  (Decided /\ Allowed(last.reason)) =>
    \A q \in Looser(last.policy) : Allowed(Decision(q, last.call))

\* "A proof may legitimately be minted later (retry queue, drain after a
\* restart)": an admissible report stays so until its verified_at is stale.
RetryStaysAdmissible ==
  Minted =>
    \A t \in last.call.now..(last.call.report.verified_at + MaxProofAge) :
      Allowed(EvaluatePreamble(last.policy, [last.call EXCEPT !.now = t]))

\* Though the device's clock is held against verified_at and not against the
\* mint, no mint is further from it than twice the window on either side.
DeviceClockBound ==
  Minted =>
    /\ last.call.now - last.call.report.device_timestamp <= 2 * MaxProofAge
    /\ last.call.report.device_timestamp - last.call.now
         <= 2 * last.policy.max_clock_skew_sec
=============================================================================
