--------------------------- MODULE MCPolicyEngine ---------------------------
(***************************************************************************)
(* A small instance of PolicyEngine and Market: a window of 2 seconds, a   *)
(* month of 5, a tier limit of 4 Wh, thresholds of a few units, a storage  *)
(* of 10 with a reserve of 2.                                              *)
(***************************************************************************)
EXTENDS Market

Limits == [basic |-> 4, industrial |-> NoLimit]

\* The reference service's defaults.
Reference == [
  mint_enabled |-> TRUE, enforce_oracle_whitelist |-> FALSE, enforce_device_state |-> FALSE,
  enforce_tier_limits |-> FALSE, enforce_energy_caps |-> FALSE, enforce_supply_cap |-> TRUE,
  enforce_ai_anomaly |-> FALSE, ai_anomaly_threshold |-> 2,
  enforce_sterility |-> FALSE, sterility_a2_threshold |-> 2, sterility_cv_threshold |-> 1,
  enforce_trade_limits |-> FALSE, trade_max_volume_wh |-> 0, trade_requires_dao |-> FALSE,
  max_energy_bps |-> 2, max_clock_skew_sec |-> 1]

\* No file, the deployment profile, a file with a value out of bounds.
PolicyFiles == {
  <<>>,
  [enforce_oracle_whitelist |-> TRUE, enforce_device_state |-> TRUE,
   enforce_tier_limits |-> TRUE, enforce_energy_caps |-> TRUE,
   enforce_ai_anomaly |-> TRUE, enforce_sterility |-> TRUE, enforce_trade_limits |-> TRUE,
   trade_max_volume_wh |-> 2, trade_requires_dao |-> TRUE],
  [max_energy_bps |-> 0, enforce_energy_caps |-> TRUE] }

Environments == {
  <<>>, [mint_enabled |-> FALSE], [enforce_tier_limits |-> FALSE],
  [enforce_device_state |-> FALSE], [max_energy_bps |-> 1, max_clock_skew_sec |-> 0],
  [trade_max_volume_wh |-> 1, trade_requires_dao |-> FALSE],
  [sterility_cv_threshold |-> 0], [ai_anomaly_threshold |-> 3] }

Producers ==
  [state : {"active"}, revoked : {FALSE}, tier : {"basic", "industrial"},
   month_energy : {3, 4}, month_start : {0}, rated_power : {2}]
  \cup [state : {"provisioned", "active"}, revoked : {TRUE}, tier : {"basic"},
        month_energy : {0}, month_start : {0}, rated_power : {2}]

PolicyCalls ==
  [method : {"preamble"}, producer : Producers,
   report : [verified_at : 2..5, device_timestamp : 0..6, energy : {0, 1, 3}],
   now : 3..6, oracle_trusted : {TRUE}, max_energy_bps : {None}]
  \cup [method : {"preamble"}, producer : Producers,
        report : [verified_at : {3}, device_timestamp : {3}, energy : {0, 3}],
        now : {3}, oracle_trusted : BOOLEAN, max_energy_bps : {None, 4}]
  \cup [method : {"reward"}, reward : -1..2, total_supply : 0..2, max_supply : {2}]
  \cup [method : {"ai_anomaly"}, is_anomaly : BOOLEAN, score : 0..3, threshold : {None, 1}]
  \cup [method : {"sterility"}, a2 : -1..3, cv : -1..2,
        a2_threshold : {None, 1}, cv_threshold : {None, 2}]
  \cup [method : {"trade"}, trade_enabled : BOOLEAN, volume : 0..3, dao_approved : BOOLEAN]

\* Storage and production around empty, reserve and full; prices around each of
\* the recommender's four thresholds.
MarketBodies ==
  [market : [storage : {0, 1, 2, 3, 9, 10}, forecast : {0, 1, 7, 8, 9, 11},
             capacity : {10}, price_now : {0, 94, 95, 101, 102},
             price_forecast : {98, 99, 108}, avg_price : {0, 100}],
   trade_enabled : {TRUE}, dao_approved : BOOLEAN]
  \cup [market : [storage : {1}, forecast : {1}, capacity : {0, 10}, price_now : {94},
                  price_forecast : {98}, avg_price : {100}],
        trade_enabled : {FALSE}, dao_approved : {TRUE}]
=============================================================================
