--------------------------- MODULE QuoteLifecycle ---------------------------
(***************************************************************************)
(* What becomes of a maker quote over many decision cycles: the decision   *)
(* branch of apps/live-agent, the batches that risk lets through, and the  *)
(* order manager of crates/execution, with time.                           *)
(*                                                                         *)
(* Slot n stands for the n-th market of a cycle, with one quote at most;   *)
(* the markets are served in this order, each with an apply_decisions of   *)
(* its own that ends in the sweep of all stale orders.  A market whose     *)
(* batch is empty after the risk filter is skipped altogether.  The calls  *)
(* to the venue succeed, except that a post may be rejected: what a failed *)
(* or slow call does is the subject of ExecutionEngine.                    *)
(***************************************************************************)
EXTENDS RequotePolicy

CONSTANTS
  NumSlots,  \* markets with a maker quote
  Price,     \* quoted prices
  Size,      \* quoted sizes
  Gaps,      \* time between two decision cycles
  Halts,     \* may the risk manager gate every intent?
  None

Slot == 1 .. NumSlots

Quote == [price : Price, size : Size]

ManagedOrder ==
  [price : Nat, size : Size, age : Age, idle : Age, live : BOOLEAN]

ASSUME LifecycleAssumption ==
  /\ NumSlots \in Nat
  /\ Price \subseteq Nat /\ Size \subseteq Nat \ {0}
  /\ Gaps \subseteq Nat
  /\ Halts \in BOOLEAN
  /\ None \notin Quote \cup ManagedOrder

VARIABLES
  order,  \* what open_orders and order_index hold for each slot
  want,   \* the quote intent of each slot that passed the risk gate in the last cycle
  halted, \* does risk.apply_limits return empty batches?
  due     \* has the decision ticker fired?

vars == <<order, want, halted, due>>

Init ==
  /\ order = [s \in Slot |-> None]
  /\ want = [s \in Slot |-> None]
  /\ halted = FALSE /\ due = FALSE

-----------------------------------------------------------------------------
Aged(o, d) ==
  IF o = None THEN None
  ELSE [o EXCEPT !.age = Older(@, d), !.idle = Older(@, d)]

\* A sweep by one of the batches of a set of slots.
SweptBy(o, slots, batch) ==
  IF o # None /\ (\E s \in slots : batch[s] # None) /\ Stale(o) THEN None ELSE o

Posted(q, accepted) ==
  IF accepted
  THEN [price |-> RoundToTick(q.price), size |-> q.size, age |-> 0, idle |-> 0, live |-> TRUE]
  ELSE None

\* sync_quote: keep and touch, or cancel and post, or post.
Synced(o, q, accepted) ==
  IF q = None THEN o
  ELSE IF o # None /\ KeepsOrder(o, q) THEN [o EXCEPT !.idle = 0]
  ELSE Posted(q, accepted)

\* Mutant: a batch sweeps the orders of its own market only.
AfterBatchesOwn(s, o, batch, accepted) ==
  SweptBy(Synced(o, batch[s], s \in accepted), {s}, batch)

\* The order of a slot after the batches of all markets, the earlier ones
\* sweeping before its quote is looked at.
AfterBatches(s, o, batch, accepted) ==
  SweptBy(Synced(SweptBy(o, 1 .. s - 1, batch), batch[s], s \in accepted), s .. NumSlots, batch)

\* The decision ticker fires d after the last time.
Tick(d) ==
  /\ ~due /\ due' = TRUE
  /\ order' = [s \in Slot |-> Aged(order[s], d)]
  /\ UNCHANGED <<want, halted>>

\* An order of the favourite-side engine comes first and goes past the risk
\* manager; its apply_decisions sweeps too.
AfterFavourite(o, favourite) == IF favourite /\ o # None /\ Stale(o) THEN None ELSE o

DecisionCycle(batch, accepted, favourite) ==
  /\ due /\ due' = FALSE
  /\ want' = IF halted THEN [s \in Slot |-> None] ELSE batch
  /\ order' = [s \in Slot |->
       LET o == AfterFavourite(order[s], favourite)
       IN  IF halted THEN o ELSE AfterBatches(s, o, batch, accepted)]
  /\ UNCHANGED halted

\* An order is filled, or the venue cancels it after a liveness breach: the
\* order manager is not told.
LeavesVenue(s) ==
  /\ order[s] # None /\ order[s].live
  /\ order' = [order EXCEPT ![s].live = FALSE]
  /\ UNCHANGED <<want, halted, due>>

\* The stale-data, drawdown or correlation switch opens or closes.
Halt ==
  /\ Halts
  /\ halted' = ~halted
  /\ UNCHANGED <<order, want, due>>

Cycle ==
  \/ \E d \in Gaps : Tick(d)
  \/ \E batch \in [Slot -> Quote \cup {None}], accepted \in SUBSET Slot,
        favourite \in BOOLEAN :
       DecisionCycle(batch, accepted, favourite)

Next ==
  \/ Cycle
  \/ \E s \in Slot : LeavesVenue(s)
  \/ Halt

Spec == Init /\ [][Next]_vars

\* The decision ticker keeps firing.
FairSpec == Spec /\ WF_vars(Cycle)

-----------------------------------------------------------------------------
(* Properties.                                                             *)

MovedAway(s, q) ==
  order[s] # None /\ want[s] = q /\ (MeaningfulPriceChange(order[s], q) \/ MeaningfulSizeChange(order[s], q))

\* The ticker pauses for the replace interval now and then.  Without it a moved
\* quote need never be acted on: each cycle that comes sooner refreshes the idle
\* time of the order it leaves alone (lib.rs:347-349), so that the next one finds
\* the order throttled again.
PausesNowAndThen ==
  []<><<\E d \in Gaps : d >= CancelReplaceInterval /\ Tick(d)>>_vars

\* A quote that has moved away from its order for good gets the order replaced,
\* whatever cycles come in quick succession, provided there is a pause of the
\* replace interval again and again.
MovedQuoteReplaced ==
  PausesNowAndThen =>
    \A s \in Slot, q \in Quote : MovedAway(s, q) ~> ~MovedAway(s, q)

SomeQuote == \E s \in Slot : want[s] # None

\* An order whose market is no longer quoted is cancelled, as long as any market
\* is quoted again and again.
UnquotedOrderSwept ==
  \A s \in Slot :
    []<>SomeQuote =>
      (order[s] # None /\ want[s] = None ~> order[s] = None \/ want[s] # None)
=============================================================================
