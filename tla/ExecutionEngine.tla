--------------------------- MODULE ExecutionEngine ---------------------------
(***************************************************************************)
(* crates/execution: the live order manager.                               *)
(*                                                                         *)
(* One task, the select loop of apps/live-agent, places and replaces maker *)
(* orders (apply_decisions, replace_markets, maintain_liveness).  The      *)
(* handlers of the activity API run on other threads and cancel orders     *)
(* through the same engine.  Both tasks suspend at every call to the       *)
(* venue, and the two DashMaps (open_orders, order_index) are updated one  *)
(* after the other, so every call to the venue and every map update is an  *)
(* action of its own.  A call that returns is one action with the effect   *)
(* it had at the venue and the outcome the engine sees; the action of a    *)
(* failed call leaves open whether the venue had already obeyed.           *)
(*                                                                         *)
(* The clock moves between decision cycles only: apply_decisions gets one  *)
(* now_ms and uses it throughout.  Taker orders leave no trace in the      *)
(* state of this module but the error that abandons the batch.             *)
(***************************************************************************)
EXTENDS RequotePolicy, FiniteSets

CONSTANTS
  Token,              \* outcome tokens
  Side,               \* Side::Buy and Side::Sell
  Price, Size,        \* what a quote intent may ask for
  OrderId,            \* venue order ids; one is reused once nobody holds it
  ApiTask,            \* concurrent cancel handlers of the activity API
  MaxOpenOrders,      \* risk.max_open_orders
  MaxIntents,         \* BOUND: batches and quote intents in one cycle
  Gaps,               \* BOUND: time between two decision cycles
  HeartbeatsEnabled,  \* execution.enable_clob_heartbeats
  LostReplies,        \* may an order rest although its post_order failed?
  Crashes,            \* may the process be killed and restarted?
  None

Slot == Token \X Side

Quote == [slot : Slot, price : Price, size : Size]

ManagedOrder == [slot : Slot, price : Nat, size : Size, age : Age, idle : Age]

Ref == OrderId \X Slot

ASSUME EngineAssumption ==
  /\ Price \subseteq Nat /\ Size \subseteq Nat \ {0}
  /\ IsFiniteSet(OrderId)
  /\ MaxOpenOrders \in Nat /\ MaxIntents \in Nat
  /\ Gaps \subseteq Nat
  /\ {HeartbeatsEnabled, LostReplies, Crashes} \subseteq BOOLEAN
  /\ None \notin OrderId \cup Slot \cup Quote \cup ManagedOrder \cup Ref

VARIABLES
  openOrders,  \* open_orders: order id -> ManagedOrder
  orderIndex,  \* order_index: (token, side) -> order id
  venue,       \* the exchange: the slot of every order resting there
  pc,          \* where the main task is
  loop,        \* the loop of the main task that the current call serves
  quote,       \* the quote intent sync_quote is working on
  subject,     \* the order the main task is cancelling or recording
  pending,     \* the rest of the list collected by the current sweep
  budget,      \* batches and quote intents left in this cycle
  funded,      \* is the collateral balance positive in this batch?
  api          \* the state of each API handler

mainVars == <<pc, loop, quote, subject, pending, budget, funded>>
maps     == <<openOrders, orderIndex>>
vars     == <<openOrders, orderIndex, venue, mainVars, api>>

Loops == {"quotes", "sweep", "purge"}

Pcs == {"idle", "cycle", "quotes", "takers", "sweep", "purge",
        "cancel", "drop", "dropIndex", "post", "track", "trackIndex"}

ApiPcs == {"idle", "cancel", "drop", "dropIndex", "cancelAll", "clear", "clearIndex"}

Tracked == {o \in OrderId : openOrders[o] # None}

Live == {o \in OrderId : venue[o] # None}

NoCall == [pc |-> "idle", id |-> None, slot |-> None]

TypeOK ==
  /\ openOrders \in [OrderId -> ManagedOrder \cup {None}]
  /\ orderIndex \in [Slot -> OrderId \cup {None}]
  /\ venue \in [OrderId -> Slot \cup {None}]
  /\ pc \in Pcs /\ loop \in Loops
  /\ quote \in Quote \cup {None}
  /\ subject \in Ref \cup {None}
  /\ pending \subseteq Ref
  /\ budget \in 0 .. MaxIntents
  /\ funded \in BOOLEAN
  /\ api \in [ApiTask -> [pc : ApiPcs, id : OrderId \cup {None}, slot : Slot \cup {None}]]

\* ExecutionEngine::new starts with empty maps.
Init ==
  /\ openOrders = [o \in OrderId |-> None]
  /\ orderIndex = [s \in Slot |-> None]
  /\ pc = "idle" /\ loop = "quotes"
  /\ quote = None /\ subject = None /\ pending = {}
  /\ budget = 0 /\ funded = FALSE
  /\ api = [t \in ApiTask |-> NoCall]
  /\ venue = [o \in OrderId |-> None]

-----------------------------------------------------------------------------
(* The main task: one decision cycle.                                      *)

\* An order id the venue can hand out: nobody refers to it any more.
Fresh(o) ==
  /\ venue[o] = None /\ openOrders[o] = None
  /\ \A s \in Slot : orderIndex[s] # o
  /\ \A r \in pending \cup {subject} : r # None => r[1] # o
  /\ \A t \in ApiTask : api[t].id # o

AgedBy(d) ==
  [o \in OrderId |->
     IF openOrders[o] = None THEN None
     ELSE [openOrders[o] EXCEPT !.age = Older(@, d), !.idle = Older(@, d)]]

\* The decision ticker fires.  maintain_liveness sees a heartbeat that is late
\* or not; when it is, cancel_all_orders may fail, which is only logged.  The
\* two maps keep the cancelled orders.
BeginCycle(d) ==
  /\ pc = "idle"
  /\ openOrders' = AgedBy(d)
  /\ \/ UNCHANGED venue
     \/ HeartbeatsEnabled /\ venue' = [o \in OrderId |-> None]
  /\ pc' = "cycle" /\ budget' = MaxIntents
  /\ UNCHANGED <<orderIndex, loop, quote, subject, pending, funded, api>>

EndCycle ==
  /\ pc = "cycle"
  /\ pc' = "idle" /\ budget' = 0
  /\ UNCHANGED <<openOrders, orderIndex, venue, loop, quote, subject, pending, funded, api>>

\* cancel_stale_orders and cancel_orders_for_tokens collect before they cancel.
Collected(S) == {<<o, openOrders[o].slot>> : o \in S}

BeginSweep ==
  /\ pc' = "sweep"
  /\ pending' = Collected({o \in Tracked : Stale(openOrders[o])})

\* apply_decisions: without collateral only exit sells go through, and without
\* those the batch is dropped and the sweep is all that remains of it.
StartBatch(hasCollateral, hasExitSells) ==
  /\ pc = "cycle" /\ budget > 0
  /\ budget' = budget - 1
  /\ funded' = hasCollateral
  /\ IF hasCollateral \/ hasExitSells
     THEN pc' = "quotes" /\ UNCHANGED pending
     ELSE BeginSweep
  /\ UNCHANGED <<openOrders, orderIndex, venue, loop, quote, subject, api>>

\* The order the index has for the slot is young, throttled or close enough to
\* the quote: it stays, and its idle time starts again.
KeepOrder(q) ==
  LET id == orderIndex[q.slot] IN
  /\ id # None /\ openOrders[id] # None
  /\ KeepsOrder(openOrders[id], q)
  /\ openOrders' = [openOrders EXCEPT ![id].idle = 0]
  /\ UNCHANGED <<pc, loop, quote, subject>>

\* Otherwise it must go, even when open_orders does not know it any more.
ReplaceOrder(q) ==
  LET id == orderIndex[q.slot] IN
  /\ id # None
  /\ openOrders[id] # None => ~KeepsOrder(openOrders[id], q)
  /\ pc' = "cancel" /\ loop' = "quotes"
  /\ quote' = q /\ subject' = <<id, q.slot>>
  /\ UNCHANGED openOrders

\* Mutant: the cap is tested with > for >=.
AtCapOffByOne == Cardinality(Tracked) > MaxOpenOrders

AtCap == Cardinality(Tracked) >= MaxOpenOrders

PlaceUnlessAtCap(q) ==
  IF AtCap
  THEN pc' = "quotes" /\ quote' = None
  ELSE pc' = "post" /\ quote' = q

PlaceOrder(q) ==
  /\ orderIndex[q.slot] = None
  /\ PlaceUnlessAtCap(q)
  /\ loop' = "quotes"
  /\ UNCHANGED <<openOrders, subject>>

SyncQuote(q) ==
  /\ pc = "quotes" /\ budget > 0
  /\ q.slot[2] = "Buy" => funded
  /\ budget' = budget - 1
  /\ KeepOrder(q) \/ ReplaceOrder(q) \/ PlaceOrder(q)
  /\ UNCHANGED <<orderIndex, venue, pending, funded, api>>

-----------------------------------------------------------------------------
(* The main task: calls to the venue and the map updates that follow them. *)

\* cancel_order_with_retry returned Ok.
CancelOk ==
  /\ pc = "cancel"
  /\ venue' = [venue EXCEPT ![subject[1]] = None]
  /\ pc' = "drop"
  /\ UNCHANGED <<maps, loop, quote, subject, pending, budget, funded, api>>

\* An error leaves the loop, the batch and the sweep at once.
Abandon ==
  /\ pc' = IF loop = "purge" THEN "idle" ELSE "cycle"
  /\ loop' = "quotes" /\ quote' = None /\ subject' = None /\ pending' = {}

\* Mutant: a failed cancel is taken for a success and the order is forgotten.
CancelFailedForgets ==
  /\ pc = "cancel"
  /\ pc' = "drop"
  /\ UNCHANGED <<maps, venue, loop, quote, subject, pending, budget, funded, api>>

\* Mutant: the error of a failed cancel is logged and the sweep goes on.
CancelFailedLogged ==
  /\ pc = "cancel"
  /\ pc' = loop /\ quote' = None /\ subject' = None
  /\ UNCHANGED <<maps, venue, loop, pending, budget, funded, api>>

CancelFailed ==
  /\ pc = "cancel"
  /\ \/ UNCHANGED venue
     \/ venue' = [venue EXCEPT ![subject[1]] = None]
  /\ Abandon
  /\ UNCHANGED <<maps, budget, funded, api>>

Drop ==
  /\ pc = "drop"
  /\ openOrders' = [openOrders EXCEPT ![subject[1]] = None]
  /\ pc' = "dropIndex"
  /\ UNCHANGED <<orderIndex, venue, loop, quote, subject, pending, budget, funded, api>>

\* Mutant: the index entry is left behind.
DropIndexForgotten ==
  /\ pc = "dropIndex"
  /\ subject' = None
  /\ IF loop = "quotes" THEN PlaceUnlessAtCap(quote) ELSE pc' = loop /\ UNCHANGED quote
  /\ UNCHANGED <<maps, venue, loop, pending, budget, funded, api>>

\* The index entry of the slot goes, whatever order it names by now.
DropIndex ==
  /\ pc = "dropIndex"
  /\ orderIndex' = [orderIndex EXCEPT ![subject[2]] = None]
  /\ subject' = None
  /\ IF loop = "quotes" THEN PlaceUnlessAtCap(quote) ELSE pc' = loop /\ UNCHANGED quote
  /\ UNCHANGED <<openOrders, venue, loop, pending, budget, funded, api>>

\* A sell asks for no more than the outcome tokens at hand.
AffordableSizes(q) ==
  {z \in Size : z = q.size \/ (q.slot[2] = "Sell" /\ z < q.size)}

\* post_order returned Ok with a new order id.
PostOk ==
  /\ pc = "post"
  /\ \E o \in OrderId :
       /\ Fresh(o)
       /\ venue' = [venue EXCEPT ![o] = quote.slot]
       /\ subject' = <<o, quote.slot>>
  /\ \E z \in AffordableSizes(quote) : quote' = [quote EXCEPT !.size = z]
  /\ pc' = "track"
  /\ UNCHANGED <<maps, loop, pending, budget, funded, api>>

\* post_order failed, or a sell was skipped for lack of outcome tokens.  A
\* retryable, balance or post-only error is swallowed, another one abandons the
\* batch.  A reply lost on its way back leaves an order at the venue.
PostFailed ==
  /\ pc = "post"
  /\ \/ UNCHANGED venue
     \/ LostReplies /\ \E o \in OrderId :
          Fresh(o) /\ venue' = [venue EXCEPT ![o] = quote.slot]
  /\ \/ /\ pc' = "quotes" /\ quote' = None
        /\ UNCHANGED <<loop, subject, pending>>
     \/ Abandon
  /\ UNCHANGED <<maps, budget, funded, api>>

\* The new order is recorded at the tick of the market, with the cycle's now_ms.
Track ==
  /\ pc = "track"
  /\ openOrders' = [openOrders EXCEPT ![subject[1]] =
       [slot |-> quote.slot, price |-> RoundToTick(quote.price), size |-> quote.size,
        age |-> 0, idle |-> 0]]
  /\ pc' = "trackIndex"
  /\ UNCHANGED <<orderIndex, venue, loop, quote, subject, pending, budget, funded, api>>

\* Mutant: key and value of the insertion are confused.
TrackIndexConfused ==
  /\ pc = "trackIndex"
  /\ orderIndex' = [orderIndex EXCEPT ![quote.slot] = quote.slot]
  /\ pc' = "quotes" /\ quote' = None /\ subject' = None
  /\ UNCHANGED <<openOrders, venue, loop, pending, budget, funded, api>>

TrackIndex ==
  /\ pc = "trackIndex"
  /\ orderIndex' = [orderIndex EXCEPT ![quote.slot] = subject[1]]
  /\ pc' = "quotes" /\ quote' = None /\ subject' = None
  /\ UNCHANGED <<openOrders, venue, loop, pending, budget, funded, api>>

\* The quote loop is over; the taker loop may be abandoned by an error, and
\* then the sweep does not happen.
EndQuotes ==
  /\ pc = "quotes"
  /\ pc' = "takers"
  /\ UNCHANGED <<maps, venue, loop, quote, subject, pending, budget, funded, api>>

TakerFailed ==
  /\ pc = "takers"
  /\ Abandon
  /\ UNCHANGED <<maps, venue, budget, funded, api>>

TakersDone ==
  /\ pc = "takers"
  /\ BeginSweep
  /\ UNCHANGED <<maps, venue, loop, quote, subject, budget, funded, api>>

\* Mutant: the order stays in the list.
SweepOneAgain ==
  /\ pc \in {"sweep", "purge"}
  /\ \E r \in pending : subject' = r
  /\ loop' = pc /\ pc' = "cancel"
  /\ UNCHANGED <<maps, venue, quote, pending, budget, funded, api>>

\* cancel_stale_orders and cancel_orders_for_tokens, one collected order.
SweepOne ==
  /\ pc \in {"sweep", "purge"}
  /\ \E r \in pending : subject' = r /\ pending' = pending \ {r}
  /\ loop' = pc /\ pc' = "cancel"
  /\ UNCHANGED <<maps, venue, quote, budget, funded, api>>

SweepDone ==
  /\ pc \in {"sweep", "purge"} /\ pending = {}
  /\ pc' = IF pc = "purge" THEN "idle" ELSE "cycle"
  /\ loop' = "quotes"
  /\ UNCHANGED <<maps, venue, quote, subject, pending, budget, funded, api>>

\* The refresh ticker: replace_markets cancels what rests on the tokens of the
\* markets that are gone.
ReplaceMarkets(removed) ==
  /\ pc = "idle"
  /\ pc' = "purge"
  /\ pending' = Collected({o \in Tracked : openOrders[o].slot[1] \in removed})
  /\ UNCHANGED <<maps, venue, loop, quote, subject, budget, funded, api>>

-----------------------------------------------------------------------------
(* The handlers of the activity API.                                       *)

Call(t, call) == api' = [api EXCEPT ![t] = call]

\* POST cancel: the id is the caller's, and nothing looks it up first.
ApiCancelOrder(t, o) ==
  /\ api[t].pc = "idle"
  /\ Call(t, [pc |-> "cancel", id |-> o, slot |-> None])
  /\ UNCHANGED <<maps, venue, mainVars>>

ApiCancelled(t) ==
  /\ api[t].pc = "cancel"
  /\ venue' = [venue EXCEPT ![api[t].id] = None]
  /\ Call(t, [api[t] EXCEPT !.pc = "drop"])
  /\ UNCHANGED <<maps, mainVars>>

ApiDrop(t) ==
  LET o == api[t].id IN
  /\ api[t].pc = "drop"
  /\ openOrders' = [openOrders EXCEPT ![o] = None]
  /\ Call(t, IF openOrders[o] = None THEN NoCall
             ELSE [pc |-> "dropIndex", id |-> o, slot |-> openOrders[o].slot])
  /\ UNCHANGED <<orderIndex, venue, mainVars>>

ApiDropIndex(t) ==
  /\ api[t].pc = "dropIndex"
  /\ orderIndex' = [orderIndex EXCEPT ![api[t].slot] = None]
  /\ Call(t, NoCall)
  /\ UNCHANGED <<openOrders, venue, mainVars>>

ApiCancelAll(t) ==
  /\ api[t].pc = "idle"
  /\ Call(t, [NoCall EXCEPT !.pc = "cancelAll"])
  /\ UNCHANGED <<maps, venue, mainVars>>

ApiAllCancelled(t) ==
  /\ api[t].pc = "cancelAll"
  /\ venue' = [o \in OrderId |-> None]
  /\ Call(t, [NoCall EXCEPT !.pc = "clear"])
  /\ UNCHANGED <<maps, mainVars>>

ApiClear(t) ==
  /\ api[t].pc = "clear"
  /\ openOrders' = [o \in OrderId |-> None]
  /\ Call(t, [NoCall EXCEPT !.pc = "clearIndex"])
  /\ UNCHANGED <<orderIndex, venue, mainVars>>

ApiClearIndex(t) ==
  /\ api[t].pc = "clearIndex"
  /\ orderIndex' = [s \in Slot |-> None]
  /\ Call(t, NoCall)
  /\ UNCHANGED <<openOrders, venue, mainVars>>

\* A cancel call of the API failed: the handler answers 500 and changes nothing.
ApiFailed(t) ==
  /\ api[t].pc \in {"cancel", "cancelAll"}
  /\ \/ UNCHANGED venue
     \/ venue' = [o \in OrderId |-> IF api[t].id \in {o, None} THEN None ELSE venue[o]]
  /\ Call(t, NoCall)
  /\ UNCHANGED <<maps, mainVars>>

-----------------------------------------------------------------------------
(* The environment.                                                        *)

\* An order is filled or expires.  on_event turns the user trade into a report
\* for others and leaves both maps alone.
VenueRemoves(o) ==
  /\ venue[o] # None
  /\ venue' = [venue EXCEPT ![o] = None]
  /\ UNCHANGED <<maps, mainVars, api>>

\* The process is stopped (it handles no signal) or dies, and is started again;
\* what rests at the venue stays there.
CrashRestart ==
  /\ Crashes
  /\ openOrders' = [o \in OrderId |-> None]
  /\ orderIndex' = [s \in Slot |-> None]
  /\ pc' = "idle" /\ loop' = "quotes"
  /\ quote' = None /\ subject' = None /\ pending' = {}
  /\ budget' = 0 /\ funded' = FALSE
  /\ api' = [t \in ApiTask |-> NoCall]
  /\ UNCHANGED venue

-----------------------------------------------------------------------------
MainStep ==
  \/ EndCycle
  \/ \E c, s \in BOOLEAN : StartBatch(c, s)
  \/ \E q \in Quote : SyncQuote(q)
  \/ CancelOk \/ CancelFailed \/ Drop \/ DropIndex
  \/ PostOk \/ PostFailed \/ Track \/ TrackIndex
  \/ EndQuotes \/ TakerFailed \/ TakersDone
  \/ SweepOne \/ SweepDone

Ticker ==
  \/ \E d \in Gaps : BeginCycle(d)
  \/ \E removed \in SUBSET Token : ReplaceMarkets(removed)

ApiStep(t) ==
  \/ \E o \in OrderId : ApiCancelOrder(t, o)
  \/ ApiCancelled(t) \/ ApiDrop(t) \/ ApiDropIndex(t)
  \/ ApiCancelAll(t) \/ ApiAllCancelled(t) \/ ApiClear(t) \/ ApiClearIndex(t)
  \/ ApiFailed(t)

Environment ==
  \/ \E o \in OrderId : VenueRemoves(o)
  \/ CrashRestart

Next ==
  \/ MainStep
  \/ Ticker
  \/ \E t \in ApiTask : ApiStep(t)
  \/ Environment

Spec == Init /\ [][Next]_vars

\* The runtime polls the main task again whenever its awaited call has returned,
\* and the venue answers or refuses every call.
FairSpec == Spec /\ WF_vars(MainStep)

-----------------------------------------------------------------------------
(* Properties.                                                             *)

\* The number of orders in open_orders never exceeds risk.max_open_orders, even
\* though the test and the insertion are separated by the call to the venue.
OpenOrdersWithinCap == Cardinality(Tracked) <= MaxOpenOrders

\* No task is between an update of open_orders and that of order_index.
MapsAtRest ==
  /\ pc \notin {"dropIndex", "trackIndex"}
  /\ \A t \in ApiTask : api[t].pc \notin {"dropIndex", "clearIndex"}

\* Whenever no update is under way, order_index holds exactly the orders of
\* open_orders: one for each slot, and none that is missing on the other side.
MapsAgreeAtRest ==
  MapsAtRest =>
    \A s \in Slot, o \in OrderId :
      orderIndex[s] = o <=> openOrders[o] # None /\ openOrders[o].slot = s

\* When apply_decisions returns Ok, no order it leaves in open_orders has been
\* without a quote for longer than quote_ttl_ms.
SweepLeavesNothingStale ==
  [][pc = "sweep" /\ pc' = "cycle" /\ loop' = "quotes" /\ pending = {}
       => \A o \in Tracked : ~Stale(openOrders[o])]_vars

\* Without API handlers, crashes and lost replies the engine implements
\* QuoteBook: the two maps, the calls and the sweeps keep its promise.
Recording == IF pc = "track" THEN subject[1] ELSE None

Book == INSTANCE QuoteBook WITH
  resting <- venue, known <- Tracked, recording <- Recording

ImplementsQuoteBook == Book!Spec

\* Every cycle and every market refresh comes to its end, whatever the calls
\* return and whatever the API handlers cancel meanwhile.
CycleEnds == pc # "idle" ~> pc = "idle"
=============================================================================
