------------------------------- MODULE Market -------------------------------
(***************************************************************************)
(* POST /market/recommend (axis_core/api/market.py): the recommender ranks *)
(* an action and the Policy Engine decides, under the policy set of the    *)
(* moment, whether the device may carry it out.                            *)
(***************************************************************************)
EXTENDS PolicyEngine, Recommender

CONSTANT
  MarketCalls     \* bodies: a market, the device's trading right, the DAO's approval

ASSUME MarketCallsAssumption ==
  \A c \in MarketCalls :
    /\ c.market \in Markets /\ WholeReserve(c.market)
    /\ c.trade_enabled \in BOOLEAN /\ c.dao_approved \in BOOLEAN

\* What evaluate_trade is asked: a negative volume counts as none.
TradeCall(c, advice) ==
  [method |-> "trade", trade_enabled |-> c.trade_enabled, dao_approved |-> c.dao_approved,
   volume |-> IF advice.volume < 0 THEN 0 ELSE advice.volume]

\* Bad inputs are answered 400 before the policy set is loaded; a set that does
\* not load is not caught here and is answered 500.
MarketRecommend(c) ==
  /\ last = NoDecision
  /\ LET p == Merged(file, env)
         advice == Recommend(c.market)
         call == TradeCall(c, advice)
     IN last' = IF advice = InvalidInputs THEN [reason |-> "invalid_market_inputs"]
                ELSE IF ~Sanitized(p) THEN [reason |-> "invalid_policy"]
                ELSE [call |-> call, policy |-> p, reason |-> EvaluateTrade(p, call),
                      market |-> c.market, advice |-> advice]
  /\ UNCHANGED <<file, env>>

MarketNext == Next \/ \E c \in MarketCalls : MarketRecommend(c)

MarketSpec == Init /\ [][MarketNext]_vars
-----------------------------------------------------------------------------
(* Properties. *)

\* The device may carry out the advice it was given.
MayFollow == "market" \in DOMAIN last /\ Allowed(last.reason)

\* Whoever carries out what the endpoint allows never owes energy at the end of
\* the period, and storage overflows by bought energy only, where the BUY filled a
\* reserve that the coming production leaves no room for (recommender.py:85-90,
\* 119-128).
OnlyBoughtIsLost == MayFollow => LosesOnlyBought(last.market)

\* Whoever carries out what the endpoint allows is done after two trades at the
\* same prices, or, where reserve and production do not fit together, goes on
\* buying and selling one fixed amount (recommender.py:89-90, 119-128).
TradesSettleOrRepeat == MayFollow => SettlesOrRepeats(last.market)
=============================================================================
