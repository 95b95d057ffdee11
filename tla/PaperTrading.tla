----------------------------- MODULE PaperTrading -----------------------------
(***************************************************************************)
(* Paper mode: the decision branch of the live agent runs the              *)
(* favourite-side engine and books its fills, one after the other, in the  *)
(* ledger behind the activity API.                                         *)
(*                                                                         *)
(* The ledger is the paper balance without the simulated maker fills of    *)
(* the signal engine, which the favourite-side engine knows nothing of.    *)
(***************************************************************************)
EXTENDS FavouriteEngine

CONSTANTS
  Listings,   \* what market discovery may find
  Distant,    \* markets that end later than max_hours_to_expiry from the start
  MaxEntries  \* BOUND: positions opened

ASSUME PaperAssumption ==
  /\ Listings \subseteq SUBSET MarketIds
  /\ Distant \subseteq MarketIds
  /\ MaxEntries \in Nat

VARIABLES
  current,  \* current_markets
  far,      \* markets that end later than max_hours_to_expiry from now
  ended,    \* markets whose end_time has passed
  balance   \* paper_balance_usdc, relative to the starting balance

paperVars == <<engineVars, current, far, ended, balance>>

PaperInit ==
  /\ EngineInit
  /\ current \in Listings
  /\ far = Distant /\ ended = {} /\ balance = 0

\* The decision branch starts with a cycle of the engine.
DecisionCycle(book) ==
  /\ fills = <<>>
  /\ RunCycle(book, current, far \cup ended)
  /\ entries' <= MaxEntries
  /\ UNCHANGED <<current, far, ended, balance>>

\* Mutant: a fee is added to what a sell brings.
EffectFeeAdded(f) == IF f.side = "Buy" THEN -(f.notional + f.fee) ELSE f.notional + f.fee

\* A buy spends its notional and its fee, a sell brings its notional less its fee.
Effect(f) == IF f.side = "Buy" THEN -(f.notional + f.fee) ELSE f.notional - f.fee

\* record_paper_fill
RecordPaperFill ==
  /\ fills # <<>>
  /\ balance' = balance + Effect(Head(fills))
  /\ fills' = Tail(fills)
  /\ UNCHANGED <<open, idle, exposure, pnl, entries, exits, current, far, ended>>

\* The refresh ticker; the main loop is not in the middle of a cycle.
RefreshMarkets(markets) ==
  /\ fills = <<>> /\ markets # current
  /\ current' = markets
  /\ UNCHANGED <<engineVars, far, ended, balance>>

Pause ==
  /\ fills = <<>>
  /\ EngineElapse(1)
  /\ UNCHANGED <<current, far, ended, balance>>

\* The end_time of a market comes near, or passes.
ComeNear(m) ==
  /\ fills = <<>> /\ m \in far
  /\ far' = far \ {m}
  /\ UNCHANGED <<engineVars, current, ended, balance>>

End(m) ==
  /\ fills = <<>> /\ m \notin far \cup ended
  /\ ended' = ended \cup {m}
  /\ UNCHANGED <<engineVars, current, far, balance>>

PaperNext ==
  \/ \E book \in Books : DecisionCycle(book)
  \/ RecordPaperFill
  \/ \E markets \in Listings : RefreshMarkets(markets)
  \/ Pause
  \/ \E m \in MarketIds : ComeNear(m) \/ End(m)

PaperSpec == PaperInit /\ [][PaperNext]_paperVars

-----------------------------------------------------------------------------
Cost(p) == Notional(p.price, p.size)

\* The exposure that is counted up and down, with its cut-off at zero, stays the
\* cost of the positions that are open, through any order of entries and exits.
ExposureExact ==
  \A m \in MarketIds :
    100 * exposure[m] = MapThenSumSet(Cost, {p \in open : p.leg[1] = m})

\* The two accounts agree: what the ledger says, and will say once the fills in
\* hand are booked, is the profit the engine reports less what is in open
\* positions.
BalanceExplained ==
  FoldLeft(LAMBDA b, f : b + Effect(f), balance, fills)
    = pnl - MapThenSumSet(LAMBDA p : Cost(p) + p.fee, open)

\* One cycle that enters several markets respects the limits after each entry:
\* never more positions than max_open_positions, one for a leg.
PositionsWithinLimits ==
  /\ Cardinality(open) <= Cfg.maxOpen
  /\ \A p, q \in open : p.leg = q.leg => p = q

\* The counters the limits are tested on are exact, and the limits hold
\* (lib_new.rs, check_risk).
RiskHeld == ExposureExact /\ PositionsWithinLimits

=============================================================================
