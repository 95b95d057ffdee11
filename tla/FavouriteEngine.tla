--------------------------- MODULE FavouriteEngine ---------------------------
(***************************************************************************)
(* crates/paper_engine: the favourite-side engine with its simulated       *)
(* fills.  Only the main task uses it, so a cycle is one step; what a      *)
(* cycle sees of the order books is its input, because any number of book  *)
(* updates comes between two cycles.                                       *)
(*                                                                         *)
(* Prices and fractions are in hundredths, a price with slippage in        *)
(* hundredths of those, and money once more.  Time is kept as ages.        *)
(***************************************************************************)
EXTENDS Integers, FiniteSetsExt, SequencesExt

CONSTANTS
  NumMarkets,  \* markets, in the order in which discovery lists them
  Books,       \* what a cycle may see of the books: leg -> quote
  Cfg,         \* PaperEngineConfig
  Missing

MarketIds == 1 .. NumMarkets

Leg == MarketIds \X {"yes", "no"}

\* The best levels, none of them at a price of nothing, the depth of the ask, the
\* age, and whether the market is active and near enough to its end to be hyper.
QuoteType ==
  [bid : 1 .. 100 \cup {Missing}, ask : 1 .. 100 \cup {Missing}, depth : Nat, age : Int, busy : BOOLEAN]

ASSUME FavouriteAssumption ==
  /\ NumMarkets \in Nat
  /\ Books \subseteq [Leg -> QuoteType]
  /\ Missing \notin Int
  /\ \A f \in {"maxStale", "minDepth", "maxSpread", "favLow", "favHigh", "fee", "slip",
               "entry", "minOrder", "takeProfit", "minProfit", "maxOpen", "maxExposure",
               "cooldown", "hyperCooldown", "hyperProfit", "hyperFavourite"} : Cfg[f] \in Nat
  /\ Cfg.minEdge \in Int
  /\ Cfg.slip < 100

VARIABLES
  open,      \* the positions whose state is Open
  idle,      \* the time since last_entry_ms of each leg
  exposure,  \* the exposure counted for each market
  pnl,       \* stats.total_pnl_usdc
  entries,   \* stats.entries, which also tells positions apart
  exits,     \* stats.exits
  fills      \* what is left to handle of the fills that run_cycle returned

engineVars == <<open, idle, exposure, pnl, entries, exits, fills>>

Position == [id : Nat, leg : Leg, price : Nat, size : Nat, fee : Nat]

PaperFill == [side : {"Buy", "Sell"}, notional : Nat, fee : Nat]

MaxIdle == Max({Cfg.cooldown, Cfg.hyperCooldown})

EngineTypeOK ==
  /\ open \subseteq Position
  /\ idle \in [Leg -> 0 .. MaxIdle]
  /\ exposure \in [MarketIds -> Nat]
  /\ pnl \in Int /\ entries \in Nat /\ exits \in Nat
  /\ fills \in Seq(PaperFill)

EngineInit ==
  /\ open = {}
  /\ idle = [l \in Leg |-> MaxIdle]
  /\ exposure = [m \in MarketIds |-> 0]
  /\ pnl = 0 /\ entries = 0 /\ exits = 0 /\ fills = <<>>

-----------------------------------------------------------------------------
(* Prices and sizes.                                                       *)

\* round_dp rounds a half to the even neighbour.
Nearest(n, d) ==
  LET q == n \div d
      rest == 2 * (n % d)
  IN IF rest < d \/ (rest = d /\ q % 2 = 0) THEN q ELSE q + 1

BuyPrice(ask) == Min({ask * (100 + Cfg.slip), 9990})

SellPrice(bid) == Max({bid * (100 - Cfg.slip), 10})

Notional(price, size) == price * size * 100

Fee(price, size) == price * size * Cfg.fee

\* Twice the mid, so that it stays an integer.
Mid2(q) == q.bid + q.ask

TwoSided(q) == q.bid # Missing /\ q.ask # Missing

Hyper(q) == q.busy /\ Mid2(q) >= 2 * Cfg.hyperFavourite

-----------------------------------------------------------------------------
(* Entries: eligibility, signal, risk, execution.                          *)

\* evaluate_signal. Its second limit of the spread, HYPER_MAX_SPREAD, is ten times
\* the mid and excludes nothing.
Attractive(q) ==
  /\ q.age \in 0 .. Cfg.maxStale
  /\ TwoSided(q) /\ Mid2(q) > 0
  /\ 200 * (q.ask - q.bid) <= Cfg.maxSpread * Mid2(q)
  /\ q.depth >= Cfg.minDepth
  /\ Mid2(q) \in 2 * Cfg.favLow .. 2 * Cfg.favHigh
  /\ 100 * (100 - q.ask) - q.ask * (Cfg.fee + Cfg.slip) >= 100 * Cfg.minEdge

\* check_risk, in the state st that the cycle has reached
WithinRisk(st, l, q) ==
  /\ Cardinality(st.open) < Cfg.maxOpen
  /\ st.exposure[l[1]] < Cfg.maxExposure * 10000
  /\ \A p \in st.open : p.leg # l
  /\ st.idle[l] >= (IF Hyper(q) THEN Cfg.hyperCooldown ELSE Min({Cfg.cooldown, 5}))

Requested(q) == Nearest(Cfg.entry * 10000, BuyPrice(q.ask))

Filled(q) == Min({Requested(q), q.depth})

\* simulate_entry expires the order at less than 30 % depth and rejects one
\* below the smallest order of the market.
Executable(q) ==
  /\ 100 * q.depth >= 30 * Requested(q)
  /\ Filled(q) >= Cfg.minOrder

\* Mutant: the exposure counts the size that was requested.
EnterRequested(st, l, q) ==
  LET price == BuyPrice(q.ask)
      size  == Filled(q)
  IN [st EXCEPT
        !.open = @ \cup {[id |-> st.entries, leg |-> l, price |-> price, size |-> size,
                          fee |-> Fee(price, size)]},
        !.idle[l] = 0,
        !.exposure[l[1]] = @ + price * Requested(q),
        !.entries = @ + 1,
        !.fills = Append(@, [side |-> "Buy", notional |-> Notional(price, size),
                             fee |-> Fee(price, size)])]

\* The position of simulate_entry, and what run_cycle counts for it.
Enter(st, l, q) ==
  LET price == BuyPrice(q.ask)
      size  == Filled(q)
  IN [st EXCEPT
        !.open = @ \cup {[id |-> st.entries, leg |-> l, price |-> price, size |-> size,
                          fee |-> Fee(price, size)]},
        !.idle[l] = 0,
        !.exposure[l[1]] = @ + price * size,
        !.entries = @ + 1,
        !.fills = Append(@, [side |-> "Buy", notional |-> Notional(price, size),
                             fee |-> Fee(price, size)])]

MaybeEnter(st, l, q) ==
  IF Attractive(q) /\ WithinRisk(st, l, q) /\ Executable(q) THEN Enter(st, l, q) ELSE st

\* The legs of all markets, yes before no.
LegsInOrder ==
  [i \in 1 .. 2 * NumMarkets |-> <<(i + 1) \div 2, IF i % 2 = 1 THEN "yes" ELSE "no">>]

\* check_eligibility: of the markets that are listed those that have not ended and
\* end within max_hours_to_expiry.
EntriesFrom(st, listed, closed, book) ==
  FoldLeft(LAMBDA s, l : IF l[1] \in listed \ closed THEN MaybeEnter(s, l, book[l]) ELSE s,
           st, LegsInOrder)

-----------------------------------------------------------------------------
(* Exits.                                                                  *)

\* What selling p at the bid brings after the fees of both sides.
NetProfit(p, bid) ==
  Notional(SellPrice(bid) - p.price, p.size) - Fee(SellPrice(bid), p.size) - p.fee

\* should_exit looks neither at the age of the quote nor at the clock.
ShouldExit(p, q) ==
  /\ TwoSided(q)
  /\ NetProfit(p, q.bid) >= Cfg.minProfit * 10000
  /\ 100 * (SellPrice(q.bid) - p.price)
       >= p.price * Max({Cfg.takeProfit, IF Hyper(q) THEN Cfg.hyperProfit ELSE 0})

\* The exposure of a market after the positions ps have left it.
Released(m, ps) ==
  FoldSet(LAMBDA p, e : Max({e - p.price * p.size, 0}), exposure[m],
          {p \in ps : p.leg[1] = m})

SellFill(p, book) ==
  LET price == SellPrice(book[p.leg].bid)
  IN [side |-> "Sell", notional |-> Notional(price, p.size), fee |-> Fee(price, p.size)]

-----------------------------------------------------------------------------
\* run_cycle: manage_positions sells what can be sold at a profit, in the order
\* of the map, and then each listed market may be entered on both legs.
RunCycle(book, listed, closed) ==
  LET leaving == {p \in open : ShouldExit(p, book[p.leg])}
      sold == [open     |-> open \ leaving,
               idle     |-> idle,
               exposure |-> [m \in MarketIds |-> Released(m, leaving)],
               entries  |-> entries,
               fills    |-> SetToSeq({[id |-> p.id, fill |-> SellFill(p, book)] : p \in leaving})]
      after == EntriesFrom([sold EXCEPT !.fills = [i \in DOMAIN @ |-> @[i].fill]],
                           listed, closed, book)
  IN
  /\ open' = after.open
  /\ idle' = after.idle
  /\ exposure' = after.exposure
  /\ pnl' = pnl + MapThenSumSet(LAMBDA p : NetProfit(p, book[p.leg].bid), leaving)
  /\ entries' = after.entries
  /\ exits' = exits + Cardinality(leaving)
  /\ fills' = after.fills

EngineElapse(d) ==
  /\ idle' = [l \in Leg |-> Min({idle[l] + d, MaxIdle})]
  /\ UNCHANGED <<open, exposure, pnl, entries, exits, fills>>
=============================================================================
