---------------------------- MODULE Recommender -----------------------------
(***************************************************************************)
(* The market recommender (axis_core/ai/recommender.py): from a device's   *)
(* storage, its production forecast and three prices, one ranked action.   *)
(* Factors and ratios are percentages, so the reserve is a fifth of the    *)
(* capacity.                                                               *)
(***************************************************************************)
EXTENDS Integers

DEFAULT_STORE_THRESHOLD == 105
DEFAULT_MIN_STORAGE_RATIO == 20
DEFAULT_BUY_DISCOUNT == 95
DEFAULT_SELL_PREMIUM == 102
DEFAULT_MIN_SELL_STORAGE_RATIO == 20

\* A device's storage for one period, and what the market says.
Markets == [forecast : Nat, storage : Nat, capacity : Int,
            price_now : Int, price_forecast : Int, avg_price : Int]

\* Energy is counted in a unit of which the reserve is a whole number.
WholeReserve(m) == m.capacity % 5 = 0

Advice(action, volume) == [action |-> action, volume |-> volume]
InvalidInputs == Advice("INVALID", 0)     \* ValueError
Hold == Advice("HOLD", 0)

Target(m) == (DEFAULT_MIN_STORAGE_RATIO * m.capacity) \div 100
MinSell(m) == (DEFAULT_MIN_SELL_STORAGE_RATIO * m.capacity) \div 100

\* Mutant: what is about to be produced needs no room.
OverflowStored(m) == m.storage - m.capacity

\* What storage cannot hold once the period's production has come in.
Overflow(m) == m.storage + m.forecast - m.capacity

\* The four rules, in their order.
Premium(m) ==
  /\ m.storage >= MinSell(m)
  /\ m.avg_price > 0
  /\ 100 * m.price_now >= DEFAULT_SELL_PREMIUM * m.avg_price

AboutToRise(m) ==
  /\ 100 * m.price_forecast > DEFAULT_STORE_THRESHOLD * m.price_now
  /\ m.storage > 0

LowAndCheap(m) ==
  /\ m.storage < Target(m)
  /\ m.avg_price > 0
  /\ 100 * m.price_now < DEFAULT_BUY_DISCOUNT * m.avg_price

\* Mutant: the whole reserve is bought, whatever is stored of it.
RecommendReserve(m) ==
  IF m.capacity <= 0 \/ m.price_now <= 0 THEN InvalidInputs
  ELSE IF Overflow(m) > 0 THEN Advice("SELL", Overflow(m))
  ELSE IF Premium(m) THEN Advice("SELL", m.storage)
  ELSE IF AboutToRise(m) THEN Advice("STORE", 0)
  ELSE IF LowAndCheap(m) THEN Advice("BUY", Target(m))
  ELSE Hold

Recommend(m) ==
  IF m.capacity <= 0 \/ m.price_now <= 0 THEN InvalidInputs
  ELSE IF Overflow(m) > 0 THEN Advice("SELL", Overflow(m))
  ELSE IF Premium(m) THEN Advice("SELL", m.storage)
  ELSE IF AboutToRise(m) THEN Advice("STORE", 0)
  ELSE IF LowAndCheap(m) THEN Advice("BUY", Target(m) - m.storage)
  ELSE Hold
-----------------------------------------------------------------------------
(* What following the advice does to the device. *)

\* The same market with the advice carried out.
Followed(m) ==
  LET r == Recommend(m)
      gained == IF r.action = "BUY" THEN r.volume
                ELSE IF r.action = "SELL" THEN -r.volume ELSE 0
  IN [m EXCEPT !.storage = @ + gained]

Trades(m) == Recommend(m).action \in {"SELL", "BUY"}

Bought(m) == IF Recommend(m).action = "BUY" THEN Recommend(m).volume ELSE 0

\* What a full reserve leaves no room for when the period's production comes in:
\* a BUY looks at the reserve alone.
Crowded(m) ==
  LET left == Target(m) + m.forecast - m.capacity
  IN IF left > 0 THEN left ELSE 0

\* Once the period's production has come in, a device that did as it was told
\* has sold nothing that it did not have.  What storage then cannot hold was all
\* bought, and only where the reserve is crowded: own production never is lost.
LosesOnlyBought(m) ==
  LET kept == Followed(m).storage + m.forecast
  IN Recommend(m) # InvalidInputs =>
       /\ kept >= 0
       /\ kept - m.capacity <= Bought(m)
       /\ Crowded(m) = 0 => kept <= m.capacity

\* Advice followed at unchanged prices.  Where reserve and production fit
\* together it settles: no BUY undoes a SELL or a SELL a BUY, and two trades leave
\* none to make.  Where they do not, the two rules may undo each other for ever,
\* and every trade after the first is for just the energy that is crowded out.
SettlesOrRepeats(m) ==
  LET second == Followed(m)
      third == Followed(second)
  IN Trades(m) =>
       IF Crowded(m) = 0
       THEN /\ Trades(second) => Recommend(second).action = Recommend(m).action
            /\ ~Trades(third)
       ELSE /\ Trades(second) => Recommend(second).volume = Crowded(m)
            /\ Trades(third) => Followed(third) = second
=============================================================================
