------------------------------- MODULE LiveRisk -------------------------------
(***************************************************************************)
(* The risk manager in live mode, between the decision cycle, the venue    *)
(* and the user stream.                                                    *)
(*                                                                         *)
(* The order manager and the venue are taken for what QuoteBook says: at   *)
(* most one order rests for each token and side.  A fill changes the       *)
(* position at once, and the risk manager learns of it when its trade      *)
(* messages come out of the event channel; each message becomes an         *)
(* execution report without fees, rebates or costs, whatever its status.   *)
(* Decision cycles and market refreshes happen meanwhile.                  *)
(***************************************************************************)
EXTENDS RiskManager

CONSTANTS
  Marks,          \* mark prices a decision may see: token -> price or None
  Statuses,       \* a trade is reported under each (MATCHED, MINED, CONFIRMED)
  Refreshes,      \* does the refresh ticker run?
  Favourite,      \* does the favourite-side engine trade as well?
  MaxOpenOrders,  \* risk.max_open_orders
  MaxMarkets,     \* BOUND: markets listed at a time
  MaxInFlight,    \* BOUND: trade messages not yet delivered
  MaxPosition,    \* BOUND: the position in one token
  MaxCounted      \* BOUND: what trades in one token may add up to, either way

ASSUME LiveAssumption ==
  /\ Marks \subseteq [Token -> Price \cup {None}]
  /\ IsFiniteSet(Statuses)
  /\ {Refreshes, Favourite} \subseteq BOOLEAN
  /\ {MaxOpenOrders, MaxMarkets, MaxInFlight, MaxPosition, MaxCounted} \subseteq Nat

VARIABLES
  listed,    \* the markets of the last refresh: what signal and execution quote
  resting,   \* the size resting at the venue for each token and side, 0 for none
  position,  \* the tokens held at the venue
  messages   \* trades of the user stream that have not been processed yet

venueVars == <<resting, position>>
vars      == <<riskVars, listed, venueVars, messages>>

Slot == Token \X Sides

Report == [token : Token, side : Sides, size : Nat, gain : {0}]

Listable == {ms \in SUBSET Market : Cardinality(ms) <= MaxMarkets}

Init ==
  /\ listed \in Listable
  /\ RiskInit(listed)
  /\ resting = [s \in Slot |-> 0]
  /\ position = [t \in Token |-> 0]
  /\ messages = <<>>

InFlight(t) ==
  FoldLeft(LAMBDA n, r : IF r.token = t THEN n + Signed(r.side, r.size) ELSE n, 0, messages)

\* What the risk manager counts, with the trades on their way to it.
Counted(t) == inventory[t] + InFlight(t)

\* A decision cycle lets a quote through, and it replaces what rests for its
\* slot; a sell is placed for no more than is held.
PlaceQuote(q, marks, ending) ==
  /\ q.token[1] \in listed
  /\ AdmitsQuote(q, marks, ending)
  /\ q.side = "Sell" => q.size <= position[q.token]
  /\ Cardinality({s \in Slot \ {<<q.token, q.side>>} : resting[s] # 0}) < MaxOpenOrders
  /\ resting' = [resting EXCEPT ![<<q.token, q.side>>] = q.size]
  /\ UNCHANGED <<riskVars, listed, position, messages>>

\* The sweep, the operator or a failed replacement takes an order off the venue.
Cancel(s) ==
  /\ resting[s] # 0
  /\ resting' = [resting EXCEPT ![s] = 0]
  /\ UNCHANGED <<riskVars, listed, position, messages>>

\* A trade changes the position. Every status it goes through is a message, if
\* the user stream is not just being restarted.
Trade(t, side, size) ==
  LET held == position[t] + Signed(side, size)
      r == [token |-> t, side |-> side, size |-> size, gain |-> 0]
  IN
  /\ held \in 0 .. MaxPosition
  /\ position' = [position EXCEPT ![t] = held]
  /\ \E n \in 0 .. Cardinality(Statuses) :
       /\ Len(messages) + n <= MaxInFlight
       /\ Counted(t) + n * Signed(side, size) \in -MaxCounted .. MaxCounted
       /\ messages' = messages \o [i \in 1 .. n |-> r]

\* A resting order is filled.
Fill(s) ==
  /\ resting[s] # 0
  /\ Trade(s[1], s[2], resting[s])
  /\ resting' = [resting EXCEPT ![s] = 0]
  /\ UNCHANGED <<riskVars, listed>>

\* A taker is let through, and the venue fills it at the mark or kills it.
SendTaker(k, marks, ending) ==
  /\ k.token[1] \in listed
  /\ AdmitsTaker(k, marks, ending)
  /\ StartCooling(k)
  /\ \/ Trade(k.token, k.side, Shares(k.cash, Mark(marks, k.token, DefaultPrice)))
     \/ UNCHANGED <<position, messages>>
  /\ UNCHANGED <<inventory, known, equity, peak, quiet, listed, resting>>

\* The favourite-side engine sends its takers straight to the venue; they are
\* fills like any other when their trade messages arrive.
FavouriteTaker(k, price) ==
  /\ Favourite /\ k.token[1] \in listed
  /\ Trade(k.token, k.side, Shares(k.cash, price))
  /\ UNCHANGED <<riskVars, listed, resting>>

\* process_event for a trade message: risk.on_event, then risk.on_execution.
ProcessTrade ==
  /\ messages # <<>>
  /\ OnEvent
  /\ OnExecution(Head(messages))
  /\ messages' = Tail(messages)
  /\ UNCHANGED <<known, cooling, listed, venueVars>>

\* process_event for any other event.
ProcessOther ==
  /\ OnEvent
  /\ UNCHANGED <<inventory, known, equity, peak, cooling, listed, venueVars, messages>>

\* The refresh ticker: the order manager cancels what rests on the markets that
\* are gone, then the risk manager forgets those that are flat.
Refresh(markets) ==
  /\ Refreshes
  /\ listed' = markets
  /\ resting' = [s \in Slot |-> IF s[1][1] \in listed \ markets THEN 0 ELSE resting[s]]
  /\ ReplaceMarkets(markets)
  /\ UNCHANGED <<position, messages>>

\* The catalogue cannot be had, or an order cannot be cancelled: nothing is
\* replaced, but some orders on the markets that are gone may be.
RefreshFails(markets) ==
  /\ Refreshes
  /\ \E cancelled \in SUBSET {s \in Slot : s[1][1] \in listed \ markets /\ resting[s] # 0} :
       resting' = [s \in Slot |-> IF s \in cancelled THEN 0 ELSE resting[s]]
  /\ UNCHANGED <<riskVars, listed, position, messages>>

Wait ==
  /\ Elapse(1)
  /\ UNCHANGED <<listed, venueVars, messages>>

Next ==
  \/ \E q \in Quote, marks \in Marks, ending \in SUBSET Market :
       PlaceQuote(q, marks, ending)
  \/ \E k \in Taker, marks \in Marks, ending \in SUBSET Market :
       SendTaker(k, marks, ending)
  \/ \E k \in Taker, price \in Price \ {0} : FavouriteTaker(k, price)
  \/ \E s \in Slot : Cancel(s) \/ Fill(s)
  \/ ProcessTrade \/ ProcessOther
  \/ \E markets \in Listable : Refresh(markets) \/ RefreshFails(markets)
  \/ Wait

Spec == Init /\ [][Next]_vars

-----------------------------------------------------------------------------
\* Through quotes, fills, refreshes and late messages the counted position moves
\* only when the position does, by as much for every message of the trade: it is
\* right if one status arrives, and too far by one more fill for each further one.
\* What is left out is the trade of a market that the risk manager has dropped.
CountedOncePerMessage ==
  [][\A t \in Token :
       \/ \E n \in 0 .. Cardinality(Statuses) :
            /\ Counted(t)' - Counted(t) = n * (position'[t] - position[t])
            /\ position'[t] # position[t] => n = Len(messages') - Len(messages)
       \/ t[1] \notin known /\ messages # <<>> /\ Head(messages).token = t]_vars
=============================================================================
