---------------------------- MODULE RequotePolicy ----------------------------
(***************************************************************************)
(* The decisions crates/execution takes about one resting maker order: is  *)
(* it kept or replaced when a quote for its slot arrives, and has it       *)
(* outlived its time to live.                                              *)
(*                                                                         *)
(* A managed order carries two ages instead of the two time stamps of the  *)
(* source: age = now - created_ms and idle = now - last_touch_ms.  Both    *)
(* saturate at AgeCap, which is above every threshold, so saturation       *)
(* changes no decision and the clock needs no bound.                       *)
(***************************************************************************)
EXTENDS Integers

CONSTANTS
  RequoteMinAge,          \* execution.requote_min_age_ms
  CancelReplaceInterval,  \* execution.cancel_replace_interval_ms
  QuoteTtl,               \* execution.quote_ttl_ms
  RequotePriceTicks,      \* execution.requote_price_ticks
  RequoteSizeBps,         \* execution.requote_size_bps
  TickSize,               \* MarketMeta.tick_size, in price units
  AgeCap                  \* the age at which the model stops counting

ASSUME PolicyAssumption ==
  /\ RequoteMinAge \in Nat /\ CancelReplaceInterval \in Nat /\ QuoteTtl \in Nat
  /\ RequotePriceTicks \in Nat /\ RequoteSizeBps \in Nat
  /\ TickSize \in Nat \ {0}
  /\ AgeCap \in Nat
  /\ AgeCap >= RequoteMinAge /\ AgeCap >= CancelReplaceInterval
  /\ AgeCap > QuoteTtl

Age == 0 .. AgeCap

\* The age of an order d time units later.
Older(a, d) == IF a + d > AgeCap THEN AgeCap ELSE a + d

\* Decimal::round sends a midpoint to the even neighbour.
RoundToTick(p) ==
  LET ticks == p \div TickSize
      rest  == p % TickSize
      up    == 2 * rest > TickSize \/ (2 * rest = TickSize /\ ticks % 2 = 1)
  IN  (IF up THEN ticks + 1 ELSE ticks) * TickSize

Distance(a, b) == IF a > b THEN a - b ELSE b - a

TooYoung(o) == o.age < RequoteMinAge

Throttled(o) == o.idle < CancelReplaceInterval

\* The threshold is never below one tick, whatever requote_price_ticks says.
MeaningfulPriceChange(o, q) ==
  /\ Distance(o.price, q.price) >= TickSize
  /\ Distance(o.price, q.price) >= TickSize * RequotePriceTicks

MeaningfulSizeChange(o, q) ==
  Distance(o.size, q.size) * 10000 >= RequoteSizeBps * o.size

\* Mutant: price and size must both have changed.
KeepsOrderEither(o, q) ==
  \/ TooYoung(o)
  \/ Throttled(o)
  \/ ~MeaningfulPriceChange(o, q)
  \/ ~MeaningfulSizeChange(o, q)

\* A quote leaves the resting order alone, and only refreshes its idle time.
KeepsOrder(o, q) ==
  \/ TooYoung(o)
  \/ Throttled(o)
  \/ ~MeaningfulPriceChange(o, q) /\ ~MeaningfulSizeChange(o, q)

Stale(o) == o.idle > QuoteTtl
=============================================================================
