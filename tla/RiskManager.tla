----------------------------- MODULE RiskManager -----------------------------
(***************************************************************************)
(* crates/risk: the inventory, the equity and the markets the risk manager *)
(* knows, the kill-switches, and the test every quote and taker intent has *)
(* to pass.  Only the main task of the agent uses it, so an operation is   *)
(* one step.  LiveRisk drives it.                                          *)
(*                                                                         *)
(* A token is <<market, leg>>, leg TRUE for the yes token.  Time is kept   *)
(* as ages: quiet since the last event, cooling since the last taker buy.  *)
(***************************************************************************)
EXTENDS Integers, FiniteSetsExt, SequencesExt

CONSTANTS
  Market,
  UnderlyingOf,     \* the underlying of each market
  Size,             \* shares of a quote or of a fill
  Price,            \* prices; an intent costs price * size
  Cash,             \* usdc_notional of a taker intent
  DefaultPrice,     \* the price of a token nobody has marked (0.5)
  HardLimit,        \* risk.inventory_hard_limit
  SoftLimit,        \* risk.inventory_soft_limit
  MaxNotional,      \* risk.max_notional_per_market
  MaxTotal,         \* risk.max_total_notional
  MaxDrawdown,      \* risk.max_drawdown_usdc
  CorrelationGate,  \* risk.correlation_limit_btc_eth < 1
  StaleKill,        \* risk.stale_data_kill_ms
  TakerCooldown,    \* execution.taker_rebalance_cooldown_ms
  None

Token == Market \X BOOLEAN

Correlated == {"Btc", "Eth", "Sol"}

Sides == {"Buy", "Sell"}

Quote == [token : Token, side : Sides, price : Price, size : Size]

\* A taker intent spends cash; Price and cash are in the same unit.
Taker == [token : Token, side : Sides, cash : Cash]

ASSUME RiskAssumption ==
  /\ UnderlyingOf \in [Market -> Correlated \cup {"Other"}]
  /\ Size \subseteq Nat \ {0} /\ Price \subseteq Nat /\ DefaultPrice \in Nat
  /\ Cash \subseteq Nat
  /\ {HardLimit, SoftLimit, MaxNotional, MaxTotal, MaxDrawdown} \subseteq Nat
  /\ {StaleKill, TakerCooldown} \subseteq Nat
  /\ CorrelationGate \in BOOLEAN
  /\ None \notin Nat

VARIABLES
  inventory,  \* inventory: the position counted for each token
  known,      \* the keys of market_info, token_to_condition, market_end_times
  equity,
  peak,       \* peak_equity
  quiet,      \* time since last_event_ts_ms, None before the first event
  cooling     \* time since last_taker_ms, None without a taker buy

riskVars == <<inventory, known, equity, peak, quiet, cooling>>

\* RiskManager::new is given the markets found at startup.
RiskInit(markets) ==
  /\ inventory = [t \in Token |-> 0]
  /\ known = markets
  /\ equity = 0 /\ peak = 0
  /\ quiet = None
  /\ cooling = [t \in Token |-> None]

-----------------------------------------------------------------------------
(* What the limits look at.                                                *)

Abs(n) == IF n < 0 THEN -n ELSE n

Flat(m) == \A leg \in BOOLEAN : inventory[<<m, leg>>] = 0

Mark(marks, t, default) == IF marks[t] = None THEN default ELSE marks[t]

\* total_gross_notional: positions of unknown markets do not count.
Gross(marks) ==
  MapThenSumSet(LAMBDA t : Abs(inventory[t]) * Mark(marks, t, DefaultPrice),
                {t \in Token : t[1] \in known})

Net(m) == inventory[<<m, TRUE>>] - inventory[<<m, FALSE>>]

Exposure(u) == MapThenSumSet(Net, {m \in known : UnderlyingOf[m] = u})

Leaning == {u \in Correlated : Exposure(u) # 0 /\ Abs(Exposure(u)) > SoftLimit}

\* correlation_risk_blocked: two underlyings or more lean, and the same way.
CorrelationBlocked ==
  /\ CorrelationGate
  /\ \E u, v \in Leaning : u # v
  /\ \A u, v \in Leaning : Exposure(u) > 0 <=> Exposure(v) > 0

StaleData == quiet # None /\ quiet > StaleKill

DrawnDown == peak - equity >= MaxDrawdown

\* apply_limits returns an empty batch.
Killed == StaleData \/ DrawnDown \/ CorrelationBlocked

\* A token nobody knows is taken for the yes token of the intent's market.
CountedAs(t) == IF t[1] \in known THEN t ELSE <<t[1], TRUE>>

Signed(side, size) == IF side = "Buy" THEN size ELSE -size

WithinHardLimit(t, side, size) ==
  Abs(inventory[CountedAs(t)] + Signed(side, size)) <= HardLimit

AcceptQuote(q, marks) ==
  LET notional == Mark(marks, q.token, q.price) * q.size IN
  /\ notional <= MaxNotional
  /\ Gross(marks) + notional <= MaxTotal
  /\ WithinHardLimit(q.token, q.side, q.size)

\* The shares a taker buys are rounded to two decimals: here to whole units.
Shares(cash, price) ==
  LET n == cash \div price
      rest == cash % price
  IN IF 2 * rest > price \/ (2 * rest = price /\ n % 2 = 1) THEN n + 1 ELSE n

CooledDown(k) ==
  k.side = "Buy" /\ TakerCooldown > 0 /\ cooling[k.token] # None =>
    cooling[k.token] >= TakerCooldown

AcceptTaker(k, marks) ==
  LET price == Mark(marks, k.token, DefaultPrice) IN
  /\ CooledDown(k)
  /\ price > 0
  /\ WithinHardLimit(k.token, k.side, Shares(k.cash, price))

\* apply_limits for one intent; the markets of ending have less than
\* min_seconds_to_market_end to go.
Tradable(i, ending) ==
  ~Killed /\ (i.token[1] \in ending \cap known => i.side = "Sell")

AdmitsQuote(q, marks, ending) == Tradable(q, ending) /\ AcceptQuote(q, marks)

AdmitsTaker(k, marks, ending) == Tradable(k, ending) /\ AcceptTaker(k, marks)

-----------------------------------------------------------------------------
(* Operations.                                                             *)

OnEvent == quiet' = 0

\* What accept_taker remembers of the taker it lets through.
StartCooling(k) ==
  cooling' = IF k.side = "Buy" /\ TakerCooldown > 0 THEN [cooling EXCEPT ![k.token] = 0] ELSE cooling

\* Mutant: a sell is counted like a buy.
OnExecutionUnsigned(r) ==
  /\ inventory' = IF r.token[1] \in known
                  THEN [inventory EXCEPT ![r.token] = @ + r.size]
                  ELSE inventory
  /\ equity' = equity + r.gain
  /\ peak' = IF equity' > peak THEN equity' ELSE peak

\* on_execution: a fill of a token of no known market is not counted; the gain
\* of the report always is.
OnExecution(r) ==
  /\ inventory' = IF r.token[1] \in known
                  THEN [inventory EXCEPT ![r.token] = @ + Signed(r.side, r.size)]
                  ELSE inventory
  /\ equity' = equity + r.gain
  /\ peak' = IF equity' > peak THEN equity' ELSE peak

\* Mutant: nothing is carried over.
ReplaceMarketsAfresh(markets) ==
  /\ known' = markets
  /\ UNCHANGED <<inventory, equity, peak, quiet, cooling>>

\* replace_markets keeps the known markets that are not flat.
ReplaceMarkets(markets) ==
  /\ known' = markets \cup {m \in known : ~Flat(m)}
  /\ UNCHANGED <<inventory, equity, peak, quiet, cooling>>

\* Ages stop where they no longer matter.
Later(age, d, cap) == IF age = None THEN None ELSE IF age + d > cap THEN cap ELSE age + d

Elapse(d) ==
  /\ quiet' = Later(quiet, d, StaleKill + 1)
  /\ cooling' = [t \in Token |-> Later(cooling[t], d, TakerCooldown)]
  /\ UNCHANGED <<inventory, known, equity, peak>>

-----------------------------------------------------------------------------
RiskTypeOK ==
  /\ inventory \in [Token -> Int]
  /\ known \subseteq Market
  /\ equity \in Int /\ peak \in Int
  /\ quiet \in (0 .. StaleKill + 1) \cup {None}
  /\ cooling \in [Token -> (0 .. TakerCooldown) \cup {None}]

\* A position never loses its market: as long as one of its tokens is held, the
\* risk manager can name the market, so that the position counts in the gross
\* notional and in the correlation and further fills of it are recorded.
HeldMarketsKnown == \A m \in Market \ known : Flat(m)
=============================================================================
