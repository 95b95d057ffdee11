----------------------- MODULE ExecutionEngineProofs -----------------------
(***************************************************************************)
(* Theorems about ExecutionEngine for every value of its constants: the    *)
(* types, the cap, the sweep and, for an engine that is left alone, the    *)
(* refinement of QuoteBook and the agreement of the two maps.              *)
(***************************************************************************)
EXTENDS ExecutionEngine, FiniteSetTheorems, TLAPS

-----------------------------------------------------------------------------
(* Type correctness.                                                       *)

\* A call that works on a quote or on an order has one in hand.
InHand ==
  /\ pc \in {"post", "track", "trackIndex"} => quote # None
  /\ pc \in {"cancel", "drop", "dropIndex"} /\ loop = "quotes" => quote # None
  /\ pc \in {"cancel", "drop", "dropIndex", "track", "trackIndex"} => subject # None
  /\ pc \in {"post", "track", "trackIndex"} => loop = "quotes"
  /\ \A t \in ApiTask : api[t].pc \in {"cancel", "drop"} => api[t].id # None

TypeInv == TypeOK /\ InHand

LEMMA OlderIsAge ==
  ASSUME NEW a \in Age, NEW d \in Nat
  PROVE  Older(a, d) \in Age
BY PolicyAssumption DEF Age, Older

LEMMA RoundedPriceIsNat ==
  ASSUME NEW p \in Nat
  PROVE  RoundToTick(p) \in Nat
<1> DEFINE ticks == p \div TickSize
           rest  == p % TickSize
<1>1. TickSize \in Nat /\ TickSize > 0
  BY PolicyAssumption
<1>2. ticks \in Nat
  BY <1>1
<1>3. \A b \in BOOLEAN : (IF b THEN ticks + 1 ELSE ticks) \in Nat
  BY <1>2
<1>4. \A n \in Nat : n * TickSize \in Nat
  BY <1>1
<1> QED
  BY <1>2, <1>4 DEF RoundToTick

LEMMA AgedByType ==
  ASSUME openOrders \in [OrderId -> ManagedOrder \cup {None}], NEW d \in Gaps
  PROVE  AgedBy(d) \in [OrderId -> ManagedOrder \cup {None}]
<1>1. SUFFICES ASSUME NEW o \in OrderId, openOrders[o] # None
               PROVE  [openOrders[o] EXCEPT !.age = Older(@, d), !.idle = Older(@, d)]
                        \in ManagedOrder
  BY DEF AgedBy
<1>2. openOrders[o] \in ManagedOrder
  BY <1>1
<1>3. /\ Older(openOrders[o].age, d) \in Age
      /\ Older(openOrders[o].idle, d) \in Age
  BY <1>2, OlderIsAge, EngineAssumption DEF ManagedOrder
<1> QED
  BY <1>2, <1>3 DEF ManagedOrder

LEMMA TouchedType ==
  ASSUME NEW m \in ManagedOrder
  PROVE  [m EXCEPT !.idle = 0] \in ManagedOrder
BY PolicyAssumption DEF ManagedOrder, Age

LEMMA CollectedType ==
  ASSUME TypeOK, NEW S \in SUBSET Tracked
  PROVE  Collected(S) \subseteq Ref
<1> SUFFICES ASSUME NEW o \in S PROVE <<o, openOrders[o].slot>> \in Ref
  BY DEF Collected
<1>1. o \in OrderId /\ openOrders[o] \in ManagedOrder
  BY DEF Tracked, TypeOK
<1> QED
  BY <1>1 DEF Ref, ManagedOrder

Calls ==
  {call \in [pc : ApiPcs, id : OrderId \cup {None}, slot : Slot \cup {None}] :
     call.pc \in {"cancel", "drop"} => call.id # None}

\* A step of an API handler touches its own call, and never the main task.
LEMMA ApiStepType ==
  ASSUME TypeInv, NEW t \in ApiTask, ApiStep(t)
  PROVE  /\ mainVars' = mainVars
         /\ openOrders' \in [OrderId -> ManagedOrder \cup {None}]
         /\ orderIndex' \in [Slot -> OrderId \cup {None}]
         /\ venue' \in [OrderId -> Slot \cup {None}]
         /\ \E call \in Calls : api' = [api EXCEPT ![t] = call]
<1> USE DEF TypeInv
<1>1. api[t] \in Calls
  BY DEF TypeOK, InHand, Calls
<1>2. NoCall \in Calls
  BY DEF NoCall, Calls, ApiPcs
<1>3. ASSUME NEW p \in ApiPcs \ {"cancel", "drop"}
      PROVE  [NoCall EXCEPT !.pc = p] \in Calls
  BY <1>2 DEF Calls
<1>4. ASSUME NEW o \in OrderId, ApiCancelOrder(t, o)
      PROVE  \E call \in Calls : api' = [api EXCEPT ![t] = call]
  <2>1. [pc |-> "cancel", id |-> o, slot |-> None] \in Calls
    BY EngineAssumption DEF Calls, ApiPcs
  <2> QED
    BY <1>4, <2>1 DEF ApiCancelOrder, Call
<1>5. CASE \E o \in OrderId : ApiCancelOrder(t, o)
  BY <1>4, <1>5 DEF ApiCancelOrder, maps, TypeOK
<1>6. CASE ApiCancelled(t)
  <2>1. [api[t] EXCEPT !.pc = "drop"] \in Calls
    BY <1>1, <1>6 DEF ApiCancelled, Calls, ApiPcs
  <2>2. venue' \in [OrderId -> Slot \cup {None}]
    BY <1>6 DEF ApiCancelled, TypeOK
  <2> QED
    BY <1>6, <2>1, <2>2 DEF ApiCancelled, Call, maps, TypeOK
<1>7. CASE ApiDrop(t)
  <2>1. openOrders' \in [OrderId -> ManagedOrder \cup {None}]
    BY <1>7 DEF ApiDrop, TypeOK
  <2>2. api[t].id \in OrderId
    BY <1>7 DEF ApiDrop, TypeOK, InHand
  <2>3. ASSUME openOrders[api[t].id] # None
        PROVE  [pc |-> "dropIndex", id |-> api[t].id, slot |-> openOrders[api[t].id].slot] \in Calls
    BY <2>2, <2>3 DEF TypeOK, Calls, ApiPcs, ManagedOrder
  <2> QED
    BY <1>2, <1>7, <2>1, <2>3 DEF ApiDrop, Call, TypeOK
<1>8. CASE ApiDropIndex(t)
  <2>1. orderIndex' \in [Slot -> OrderId \cup {None}]
    BY <1>8 DEF ApiDropIndex, TypeOK
  <2> QED
    BY <1>2, <1>8, <2>1 DEF ApiDropIndex, Call, TypeOK
<1>9. CASE ApiCancelAll(t)
  <2>1. [NoCall EXCEPT !.pc = "cancelAll"] \in Calls
    BY <1>3 DEF ApiPcs
  <2> QED
    BY <1>9, <2>1 DEF ApiCancelAll, Call, maps, TypeOK
<1>10. CASE ApiAllCancelled(t)
  <2>1. [NoCall EXCEPT !.pc = "clear"] \in Calls
    BY <1>3 DEF ApiPcs
  <2> QED
    BY <1>10, <2>1 DEF ApiAllCancelled, Call, maps, TypeOK
<1>11. CASE ApiClear(t)
  <2>1. [NoCall EXCEPT !.pc = "clearIndex"] \in Calls
    BY <1>3 DEF ApiPcs
  <2> QED
    BY <1>11, <2>1 DEF ApiClear, Call, TypeOK
<1>12. CASE ApiClearIndex(t)
  BY <1>2, <1>12 DEF ApiClearIndex, Call, TypeOK
<1>13. CASE ApiFailed(t)
  BY <1>2, <1>13 DEF ApiFailed, Call, maps, TypeOK
<1>14. mainVars' = mainVars
  BY DEF ApiStep, ApiCancelOrder, ApiCancelled, ApiDrop, ApiDropIndex, ApiCancelAll,
         ApiAllCancelled, ApiClear, ApiClearIndex, ApiFailed
<1> QED
  BY <1>5, <1>6, <1>7, <1>8, <1>9, <1>10, <1>11, <1>12, <1>13, <1>14 DEF ApiStep

LEMMA InitTypeInv == Init => TypeInv
<1> SUFFICES ASSUME Init PROVE TypeInv
  OBVIOUS
<1>1. api \in [ApiTask -> Calls]
  BY DEF Init, NoCall, ApiPcs, Calls
<1>2. 0 \in 0 .. MaxIntents
  BY EngineAssumption
<1> QED
  BY <1>1, <1>2 DEF Init, TypeInv, TypeOK, InHand, Loops, Pcs, Calls

LEMMA NextTypeInv == TypeInv /\ [Next]_vars => TypeInv'
<1> SUFFICES ASSUME TypeInv, [Next]_vars PROVE TypeInv'
  OBVIOUS
<1> USE DEF TypeInv
<1>1. ASSUME NEW d \in Gaps, BeginCycle(d) PROVE TypeInv'
  <2>1. openOrders' \in [OrderId -> ManagedOrder \cup {None}]
    BY <1>1, AgedByType DEF BeginCycle, TypeOK
  <2>2. venue' \in [OrderId -> Slot \cup {None}]
    BY <1>1 DEF BeginCycle, TypeOK
  <2>3. budget' \in 0 .. MaxIntents
    BY <1>1, EngineAssumption DEF BeginCycle
  <2> QED
    BY <1>1, <2>1, <2>2, <2>3 DEF BeginCycle, TypeOK, InHand, Pcs
<1>2. CASE EndCycle
  BY <1>2, EngineAssumption DEF EndCycle, TypeOK, InHand, Pcs
<1>3. ASSUME NEW c \in BOOLEAN, NEW s \in BOOLEAN, StartBatch(c, s) PROVE TypeInv'
  <2>1. Collected({o \in Tracked : Stale(openOrders[o])}) \subseteq Ref
    BY CollectedType
  <2>2. pending' \subseteq Ref
    BY <1>3, <2>1 DEF StartBatch, BeginSweep, TypeOK
  <2>3. budget' \in 0 .. MaxIntents
    BY <1>3, EngineAssumption DEF StartBatch, TypeOK
  <2> QED
    BY <1>3, <2>2, <2>3 DEF StartBatch, BeginSweep, TypeOK, InHand, Pcs
<1>4. ASSUME NEW q \in Quote, SyncQuote(q) PROVE TypeInv'
  <2>1. budget' \in 0 .. MaxIntents
    BY <1>4, EngineAssumption DEF SyncQuote, TypeOK
  <2>2. q \in Quote /\ q # None /\ q.slot \in Slot
    BY EngineAssumption DEF Quote
  <2>3. CASE KeepOrder(q)
    <3>1. orderIndex[q.slot] \in OrderId /\ openOrders[orderIndex[q.slot]] \in ManagedOrder
      BY <2>2, <2>3 DEF KeepOrder, TypeOK
    <3>2. openOrders' \in [OrderId -> ManagedOrder \cup {None}]
      BY <2>3, <3>1, TouchedType DEF KeepOrder, TypeOK
    <3> QED
      BY <1>4, <2>1, <2>3, <3>2 DEF SyncQuote, KeepOrder, TypeOK, InHand
  <2>4. CASE ReplaceOrder(q)
    <3>1. <<orderIndex[q.slot], q.slot>> \in Ref
      BY <2>2, <2>4 DEF ReplaceOrder, TypeOK, Ref
    <3>2. <<orderIndex[q.slot], q.slot>> # None
      BY <3>1, EngineAssumption
    <3> QED
      BY <1>4, <2>1, <2>2, <2>4, <3>1, <3>2
      DEF SyncQuote, ReplaceOrder, TypeOK, InHand, Pcs, Loops
  <2>5. CASE PlaceOrder(q)
    BY <1>4, <2>1, <2>2, <2>5
    DEF SyncQuote, PlaceOrder, PlaceUnlessAtCap, TypeOK, InHand, Pcs, Loops
  <2> QED
    BY <1>4, <2>3, <2>4, <2>5 DEF SyncQuote
<1>5. CASE CancelOk
  <2>1. venue' \in [OrderId -> Slot \cup {None}]
    BY <1>5 DEF CancelOk, TypeOK
  <2> QED
    BY <1>5, <2>1 DEF CancelOk, maps, TypeOK, InHand, Pcs
<1>6. CASE CancelFailed
  <2>1. venue' \in [OrderId -> Slot \cup {None}]
    BY <1>6 DEF CancelFailed, TypeOK
  <2> QED
    BY <1>6, <2>1 DEF CancelFailed, Abandon, maps, TypeOK, InHand, Pcs, Loops
<1>7. CASE Drop
  <2>1. openOrders' \in [OrderId -> ManagedOrder \cup {None}]
    BY <1>7 DEF Drop, TypeOK
  <2> QED
    BY <1>7, <2>1 DEF Drop, TypeOK, InHand, Pcs
<1>8. CASE DropIndex
  <2>1. orderIndex' \in [Slot -> OrderId \cup {None}]
    BY <1>8 DEF DropIndex, TypeOK
  <2>2. CASE loop = "quotes"
    BY <1>8, <2>1, <2>2 DEF DropIndex, PlaceUnlessAtCap, TypeOK, InHand, Pcs, Loops
  <2>3. CASE loop # "quotes"
    BY <1>8, <2>1, <2>3 DEF DropIndex, TypeOK, InHand, Pcs, Loops
  <2> QED
    BY <2>2, <2>3
<1>9. CASE PostOk
  <2>1. quote \in Quote /\ quote.slot \in Slot /\ loop = "quotes"
    BY <1>9 DEF PostOk, TypeOK, InHand, Quote
  <2>2. PICK o \in OrderId : /\ venue' = [venue EXCEPT ![o] = quote.slot]
                             /\ subject' = <<o, quote.slot>>
    BY <1>9 DEF PostOk
  <2>3. venue' \in [OrderId -> Slot \cup {None}]
    BY <2>1, <2>2 DEF TypeOK
  <2>4. subject' \in Ref /\ subject' # None
    BY <2>1, <2>2, EngineAssumption DEF Ref
  <2>5. quote' \in Quote /\ quote' # None
    BY <1>9, <2>1, EngineAssumption DEF PostOk, AffordableSizes, Quote
  <2> QED
    BY <1>9, <2>1, <2>3, <2>4, <2>5 DEF PostOk, maps, TypeOK, InHand, Pcs
<1>10. CASE PostFailed
  <2>1. quote \in Quote /\ quote.slot \in Slot
    BY <1>10 DEF PostFailed, TypeOK, InHand, Quote
  <2>2. venue' \in [OrderId -> Slot \cup {None}]
    BY <1>10, <2>1 DEF PostFailed, TypeOK
  <2> QED
    BY <1>10, <2>2 DEF PostFailed, Abandon, maps, TypeOK, InHand, Pcs, Loops
<1>11. CASE Track
  <2>1. quote \in Quote
    BY <1>11 DEF Track, TypeOK, InHand
  <2>2. quote.slot \in Slot /\ quote.price \in Nat /\ quote.size \in Size
    BY <2>1, EngineAssumption DEF Quote
  <2>3. RoundToTick(quote.price) \in Nat /\ 0 \in Age
    BY <2>2, RoundedPriceIsNat, PolicyAssumption DEF Age
  <2>4. [slot |-> quote.slot, price |-> RoundToTick(quote.price), size |-> quote.size,
         age |-> 0, idle |-> 0] \in ManagedOrder
    BY <2>2, <2>3 DEF ManagedOrder
  <2>5. openOrders' \in [OrderId -> ManagedOrder \cup {None}]
    BY <1>11, <2>4 DEF Track, TypeOK
  <2> QED
    BY <1>11, <2>5 DEF Track, TypeOK, InHand, Pcs
<1>12. CASE TrackIndex
  <2>1. subject[1] \in OrderId
    BY <1>12 DEF TrackIndex, TypeOK, InHand, Ref
  <2>2. orderIndex' \in [Slot -> OrderId \cup {None}]
    BY <1>12, <2>1 DEF TrackIndex, TypeOK
  <2> QED
    BY <1>12, <2>2 DEF TrackIndex, TypeOK, InHand, Pcs
<1>13. CASE EndQuotes
  BY <1>13 DEF EndQuotes, maps, TypeOK, InHand, Pcs
<1>14. CASE TakerFailed
  BY <1>14 DEF TakerFailed, Abandon, maps, TypeOK, InHand, Pcs, Loops
<1>15. CASE TakersDone
  <2>1. pending' \subseteq Ref
    BY <1>15, CollectedType DEF TakersDone, BeginSweep
  <2> QED
    BY <1>15, <2>1 DEF TakersDone, BeginSweep, maps, TypeOK, InHand, Pcs
<1>16. CASE SweepOne
  <2>1. subject' \in Ref /\ pending' \subseteq Ref /\ subject' # None
    BY <1>16, EngineAssumption DEF SweepOne, TypeOK
  <2> QED
    BY <1>16, <2>1 DEF SweepOne, maps, TypeOK, InHand, Pcs, Loops
<1>17. CASE SweepDone
  BY <1>17 DEF SweepDone, maps, TypeOK, InHand, Pcs, Loops
<1>18. ASSUME NEW removed \in SUBSET Token, ReplaceMarkets(removed) PROVE TypeInv'
  <2>1. Collected({o \in Tracked : openOrders[o].slot[1] \in removed}) \subseteq Ref
    BY CollectedType
  <2> QED
    BY <1>18, <2>1 DEF ReplaceMarkets, maps, TypeOK, InHand, Pcs
<1>19. ASSUME NEW t \in ApiTask, ApiStep(t) PROVE TypeInv'
  <2>1. /\ mainVars' = mainVars
        /\ openOrders' \in [OrderId -> ManagedOrder \cup {None}]
        /\ orderIndex' \in [Slot -> OrderId \cup {None}]
        /\ venue' \in [OrderId -> Slot \cup {None}]
        /\ \E call \in Calls : api' = [api EXCEPT ![t] = call]
    BY <1>19, ApiStepType
  <2>2. api' \in [ApiTask -> Calls]
    BY <2>1 DEF TypeOK, InHand, Calls
  <2> QED
    BY <2>1, <2>2 DEF TypeOK, InHand, mainVars, Calls
<1>20. ASSUME NEW o \in OrderId, VenueRemoves(o) PROVE TypeInv'
  <2>1. venue' \in [OrderId -> Slot \cup {None}]
    BY <1>20 DEF VenueRemoves, TypeOK
  <2> QED
    BY <1>20, <2>1 DEF VenueRemoves, maps, mainVars, TypeOK, InHand
<1>21. CASE CrashRestart
  <2>1. api' \in [ApiTask -> Calls]
    BY <1>21 DEF CrashRestart, NoCall, ApiPcs, Calls
  <2>2. budget' \in 0 .. MaxIntents
    BY <1>21, EngineAssumption DEF CrashRestart
  <2> QED
    BY <1>21, <2>1, <2>2 DEF CrashRestart, TypeOK, InHand, Pcs, Loops, Calls
<1>22. CASE UNCHANGED vars
  BY <1>22 DEF vars, mainVars, TypeOK, InHand
<1> QED
  BY <1>1, <1>2, <1>3, <1>4, <1>5, <1>6, <1>7, <1>8, <1>9, <1>10, <1>11, <1>12, <1>13,
     <1>14, <1>15, <1>16, <1>17, <1>18, <1>19, <1>20, <1>21, <1>22
  DEF Next, MainStep, Ticker, Environment

\* The engine's state keeps its shape, and every call has the quote or the order
\* it works on, whatever the API handlers, the venue and crashes do.
THEOREM TypeCorrect == Spec => [](TypeOK /\ InHand)
<1>1. Init => TypeInv
  BY InitTypeInv
<1>2. TypeInv /\ [Next]_vars => TypeInv'
  BY NextTypeInv
<1> QED
  BY <1>1, <1>2, PTL DEF Spec, TypeInv

-----------------------------------------------------------------------------
(* The cap on open orders.                                                 *)

\* Between the test of the cap and the insertion there is room for the order.
RoomWhilePosting ==
  pc \in {"post", "track"} => Cardinality(Tracked) < MaxOpenOrders

CapInv == OpenOrdersWithinCap /\ RoomWhilePosting

LEMMA TrackedFinite ==
  ASSUME TRUE
  PROVE  /\ IsFiniteSet(Tracked) /\ Cardinality(Tracked) \in Nat
         /\ IsFiniteSet(Tracked') /\ Cardinality(Tracked') \in Nat
<1>1. Tracked \subseteq OrderId /\ Tracked' \subseteq OrderId
  BY DEF Tracked
<1> QED
  BY <1>1, EngineAssumption, FS_Subset, FS_CardinalityType

\* A step that adds no order keeps the cap when it begins no post, or begins
\* one below the cap.
LEMMA CapKept ==
  ASSUME CapInv, Tracked' \subseteq Tracked,
         pc' \in {"post", "track"} => pc \in {"post", "track"} \/ ~AtCap
  PROVE  CapInv'
<1>1. Cardinality(Tracked') <= Cardinality(Tracked)
  BY TrackedFinite, FS_Subset
<1> QED
  BY <1>1, TrackedFinite, EngineAssumption
  DEF CapInv, OpenOrdersWithinCap, RoomWhilePosting, AtCap

LEMMA OneMore ==
  ASSUME NEW S, NEW x, IsFiniteSet(S)
  PROVE  /\ IsFiniteSet(S \cup {x})
         /\ Cardinality(S \cup {x}) <= Cardinality(S) + 1
<1>1. Cardinality(S) \in Nat
  BY FS_CardinalityType
<1>2. CASE x \in S
  <2>1. S \cup {x} = S
    BY <1>2
  <2>2. IsFiniteSet(S \cup {x}) /\ Cardinality(S \cup {x}) = Cardinality(S)
    BY <2>1, Zenon
  <2> QED
    BY <1>1, <2>2
<1>3. CASE x \notin S
  <2>1. IsFiniteSet(S \cup {x}) /\ Cardinality(S \cup {x}) = Cardinality(S) + 1
    BY <1>3, FS_AddElement
  <2> QED
    BY <1>1, <2>1
<1> QED
  BY <1>2, <1>3

\* Track is the only step that adds an order, and it adds one.
LEMMA TrackKeepsCap ==
  ASSUME TypeInv, CapInv, Track
  PROVE  CapInv'
<1>1. subject[1] \in OrderId
  BY DEF Track, TypeInv, TypeOK, InHand, Ref
<1>2. Tracked' \subseteq Tracked \cup {subject[1]}
  BY DEF Track, Tracked, TypeInv, TypeOK
<1>3. /\ IsFiniteSet(Tracked \cup {subject[1]})
      /\ Cardinality(Tracked \cup {subject[1]}) <= Cardinality(Tracked) + 1
  BY TrackedFinite, OneMore
<1>4. Cardinality(Tracked') <= Cardinality(Tracked) + 1
  BY <1>2, <1>3, TrackedFinite, FS_Subset, FS_CardinalityType
<1> QED
  BY <1>4, TrackedFinite, EngineAssumption
  DEF Track, CapInv, OpenOrdersWithinCap, RoomWhilePosting

LEMMA NextCapInv == TypeInv /\ CapInv /\ [Next]_vars => CapInv'
<1> SUFFICES ASSUME TypeInv, CapInv, [Next]_vars PROVE CapInv'
  OBVIOUS
<1> DEFINE Posting == {"post", "track"}
<1>1. ASSUME openOrders' = openOrders, pc' \in Posting => pc \in Posting \/ ~AtCap
      PROVE  CapInv'
  BY <1>1, CapKept DEF Tracked
<1>2. ASSUME NEW d \in Gaps, BeginCycle(d) PROVE CapInv'
  BY <1>2, CapKept DEF BeginCycle, AgedBy, Tracked
<1>3. ASSUME NEW c \in BOOLEAN, NEW s \in BOOLEAN, StartBatch(c, s) PROVE CapInv'
  BY <1>3, <1>1 DEF StartBatch, BeginSweep
<1>4. ASSUME NEW q \in Quote, SyncQuote(q) PROVE CapInv'
  <2>1. CASE KeepOrder(q)
    <3>1. Tracked' \subseteq Tracked
      BY <2>1 DEF KeepOrder, Tracked, TypeInv, TypeOK
    <3> QED
      BY <2>1, <3>1, CapKept DEF KeepOrder
  <2>2. CASE ReplaceOrder(q)
    BY <2>2, <1>1 DEF ReplaceOrder
  <2>3. CASE PlaceOrder(q)
    BY <2>3, <1>1 DEF PlaceOrder, PlaceUnlessAtCap
  <2> QED
    BY <1>4, <2>1, <2>2, <2>3 DEF SyncQuote
<1>5. CASE Drop
  BY <1>5, CapKept DEF Drop, Tracked, TypeInv, TypeOK
<1>6. CASE DropIndex
  BY <1>6, <1>1 DEF DropIndex, PlaceUnlessAtCap, TypeInv, TypeOK, Loops
<1>7. CASE Track
  BY <1>7, TrackKeepsCap
<1>8. CASE \/ EndCycle \/ CancelOk \/ CancelFailed \/ PostOk \/ PostFailed \/ TrackIndex
           \/ EndQuotes \/ TakerFailed \/ TakersDone \/ SweepOne \/ SweepDone
  BY <1>8, <1>1 DEF EndCycle, CancelOk, CancelFailed, PostOk, PostFailed, TrackIndex, EndQuotes,
       TakerFailed, TakersDone, SweepOne, SweepDone, Abandon, BeginSweep, maps
<1>9. ASSUME NEW removed \in SUBSET Token, ReplaceMarkets(removed) PROVE CapInv'
  BY <1>9, <1>1 DEF ReplaceMarkets, maps
<1>10. ASSUME NEW t \in ApiTask, ApiStep(t) PROVE CapInv'
  <2>1. pc' = pc
    BY <1>10, ApiStepType DEF mainVars
  <2>2. Tracked' \subseteq Tracked
    BY <1>10 DEF ApiStep, ApiCancelOrder, ApiCancelled, ApiDrop, ApiDropIndex, ApiCancelAll,
         ApiAllCancelled, ApiClear, ApiClearIndex, ApiFailed, maps, Tracked, TypeInv, TypeOK
  <2> QED
    BY <2>1, <2>2, CapKept
<1>11. ASSUME NEW o \in OrderId, VenueRemoves(o) PROVE CapInv'
  BY <1>11, <1>1 DEF VenueRemoves, maps, mainVars
<1>12. CASE CrashRestart
  BY <1>12, CapKept DEF CrashRestart, Tracked
<1>13. CASE UNCHANGED vars
  BY <1>13, <1>1 DEF vars, mainVars
<1> QED
  BY <1>2, <1>3, <1>4, <1>5, <1>6, <1>7, <1>8, <1>9, <1>10, <1>11, <1>12, <1>13
  DEF Next, MainStep, Ticker, Environment

\* open_orders never grows beyond risk.max_open_orders: nobody but the main
\* task inserts into it, so the room it found before post_order is still there
\* afterwards, however the API handlers, the venue and crashes interleave.
THEOREM CapHolds == Spec => []OpenOrdersWithinCap
<1>1. Init => CapInv
  <2>1. ASSUME Init PROVE Tracked = {} /\ pc = "idle"
    BY <2>1 DEF Init, Tracked
  <2> QED
    BY <2>1, FS_EmptySet, EngineAssumption DEF CapInv, OpenOrdersWithinCap, RoomWhilePosting
<1>2. TypeInv /\ CapInv /\ [Next]_vars => CapInv'
  BY NextCapInv
<1>3. CapInv => OpenOrdersWithinCap
  BY DEF CapInv
<1> QED
  BY <1>1, <1>2, <1>3, InitTypeInv, NextTypeInv, PTL DEF Spec

-----------------------------------------------------------------------------
(* The sweep of stale orders.                                              *)

IsStale(o) == openOrders[o] # None /\ Stale(openOrders[o])

ToSweep(o) == \E r \in pending : r[1] = o

\* What is stale during a sweep is on the sweep's list, or is the order that is
\* being cancelled.
SweepInv ==
  /\ pc = "sweep" => \A o \in OrderId : IsStale(o) => ToSweep(o)
  /\ loop = "sweep" /\ pc \in {"cancel", "drop", "dropIndex"} =>
       \A o \in OrderId : IsStale(o) => ToSweep(o) \/ (pc # "dropIndex" /\ o = subject[1])

\* The sweep goes on as long as nothing turns stale and its list stays.
LEMMA SweepGoesOn ==
  ASSUME SweepInv, \A o \in OrderId : IsStale(o)' => IsStale(o),
         UNCHANGED <<pc, loop, subject, pending>>
  PROVE  SweepInv'
BY DEF SweepInv, ToSweep

LEMMA BeginsSweep ==
  ASSUME BeginSweep, openOrders' = openOrders
  PROVE  SweepInv'
<1>1. ASSUME NEW o \in OrderId, IsStale(o)'
      PROVE  ToSweep(o)'
  <2>1. o \in Tracked /\ Stale(openOrders[o])
    BY <1>1 DEF IsStale, Tracked
  <2>2. <<o, openOrders[o].slot>> \in pending'
    BY <2>1 DEF BeginSweep, Collected
  <2>3. QED
    BY <2>2 DEF ToSweep
<1>2. pc' = "sweep"
  BY DEF BeginSweep
<1>3. QED
  BY <1>1, <1>2 DEF SweepInv

LEMMA NextSweepInv == TypeInv /\ SweepInv /\ [Next]_vars => SweepInv'
<1> SUFFICES ASSUME TypeInv, SweepInv, [Next]_vars PROVE SweepInv'
  OBVIOUS
<1>1. ASSUME pc' \notin {"sweep", "cancel", "drop", "dropIndex"} \/ (pc' # "sweep" /\ loop' # "sweep")
      PROVE  SweepInv'
  BY <1>1 DEF SweepInv
<1>2. ASSUME NEW d \in Gaps, BeginCycle(d) PROVE SweepInv'
  BY <1>2, <1>1 DEF BeginCycle
<1>3. ASSUME NEW c \in BOOLEAN, NEW s \in BOOLEAN, StartBatch(c, s) PROVE SweepInv'
  <2>1. CASE c \/ s
    BY <1>3, <1>1, <2>1 DEF StartBatch
  <2>2. CASE ~(c \/ s)
    BY <1>3, <2>2, BeginsSweep DEF StartBatch
  <2>3. QED
    BY <2>1, <2>2
<1>4. ASSUME NEW q \in Quote, SyncQuote(q) PROVE SweepInv'
  <2>1. pc' \in {"quotes", "post"} \/ (pc' = "cancel" /\ loop' = "quotes")
    BY <1>4 DEF SyncQuote, KeepOrder, ReplaceOrder, PlaceOrder, PlaceUnlessAtCap
  <2>2. QED
    BY <1>1, <2>1
<1>5. CASE CancelOk
  <2>1. /\ pc = "cancel" /\ pc' = "drop" /\ loop' = loop /\ subject' = subject
        /\ pending' = pending /\ openOrders' = openOrders
    BY <1>5 DEF CancelOk, maps
  <2>2. QED
    BY <2>1 DEF SweepInv, ToSweep, IsStale
<1>6. CASE CancelFailed \/ TakerFailed
  BY <1>6, <1>1 DEF CancelFailed, TakerFailed, Abandon
<1>7. CASE Drop
  <2>1. /\ pc = "drop" /\ pc' = "dropIndex" /\ loop' = loop /\ pending' = pending
        /\ openOrders' = [openOrders EXCEPT ![subject[1]] = None]
    BY <1>7 DEF Drop
  <2>2. ASSUME NEW o \in OrderId, IsStale(o)'
        PROVE  IsStale(o) /\ o # subject[1]
    BY <2>1, <2>2 DEF IsStale, TypeInv, TypeOK
  <2>3. QED
    BY <2>1, <2>2 DEF SweepInv, ToSweep
<1>8. CASE DropIndex
  <2>1. CASE loop = "quotes"
    BY <1>8, <1>1, <2>1 DEF DropIndex, PlaceUnlessAtCap
  <2>2. CASE loop # "quotes"
    <3>1. /\ pc = "dropIndex" /\ pc' = loop /\ pending' = pending /\ openOrders' = openOrders
          /\ loop \in {"sweep", "purge"}
      BY <1>8, <2>2 DEF DropIndex, TypeInv, TypeOK, Loops
    <3>2. QED
      BY <3>1 DEF SweepInv, ToSweep, IsStale
  <2>3. QED
    BY <2>1, <2>2
<1>9. CASE PostOk \/ PostFailed \/ Track \/ TrackIndex \/ EndQuotes \/ EndCycle
  BY <1>9, <1>1 DEF PostOk, PostFailed, Track, TrackIndex, EndQuotes, EndCycle, Abandon
<1>10. CASE TakersDone
  BY <1>10, BeginsSweep DEF TakersDone, maps
<1>11. CASE SweepOne
  <2>1. PICK r \in pending : subject' = r /\ pending' = pending \ {r}
    BY <1>11 DEF SweepOne
  <2>2. pc \in {"sweep", "purge"} /\ loop' = pc /\ pc' = "cancel" /\ openOrders' = openOrders
    BY <1>11 DEF SweepOne, maps
  <2>3. ASSUME NEW o \in OrderId, ToSweep(o), subject' = r, pending' = pending \ {r}
        PROVE  ToSweep(o)' \/ o = subject'[1]
    BY <2>3 DEF ToSweep
  <2>4. QED
    BY <2>1, <2>2, <2>3 DEF SweepInv, IsStale
<1>12. CASE SweepDone
  BY <1>12, <1>1 DEF SweepDone
<1>13. ASSUME NEW removed \in SUBSET Token, ReplaceMarkets(removed) PROVE SweepInv'
  BY <1>13, <1>1 DEF ReplaceMarkets
<1>14. ASSUME NEW t \in ApiTask, ApiStep(t) PROVE SweepInv'
  <2>1. UNCHANGED <<pc, loop, subject, pending>>
    BY <1>14, ApiStepType DEF mainVars
  <2>2. \A o \in OrderId : openOrders'[o] \in {openOrders[o], None}
    BY <1>14 DEF ApiStep, ApiCancelOrder, ApiCancelled, ApiDrop, ApiDropIndex, ApiCancelAll,
         ApiAllCancelled, ApiClear, ApiClearIndex, ApiFailed, maps, TypeInv, TypeOK
  <2>3. QED
    BY <2>1, <2>2, SweepGoesOn DEF IsStale
<1>15. ASSUME NEW o \in OrderId, VenueRemoves(o) PROVE SweepInv'
  BY <1>15, SweepGoesOn DEF VenueRemoves, maps, mainVars, IsStale
<1>16. CASE CrashRestart
  BY <1>16, <1>1 DEF CrashRestart
<1>17. CASE UNCHANGED vars
  BY <1>17, SweepGoesOn DEF vars, mainVars, IsStale
<1> QED
  BY <1>2, <1>3, <1>4, <1>5, <1>6, <1>7, <1>8, <1>9, <1>10, <1>11, <1>12, <1>13, <1>14,
     <1>15, <1>16, <1>17
  DEF Next, MainStep, Ticker, Environment

\* A sweep that runs to its end leaves no order in open_orders that had
\* outlived quote_ttl_ms: its list was complete when it was collected, nothing
\* but the main task inserts, and the clock stands still during the batch,
\* whatever the API handlers cancel meanwhile.
THEOREM SweepIsComplete == Spec => SweepLeavesNothingStale
<1>1. Init => SweepInv
  BY DEF Init, SweepInv
<1>2. TypeInv /\ SweepInv /\ [Next]_vars => SweepInv'
  BY NextSweepInv
<1>3. SweepInv =>
        [pc = "sweep" /\ pc' = "cycle" /\ loop' = "quotes" /\ pending = {}
           => \A o \in Tracked : ~Stale(openOrders[o])]_vars
  BY DEF SweepInv, IsStale, ToSweep, Tracked
<1> QED
  BY <1>1, <1>2, <1>3, InitTypeInv, NextTypeInv, PTL DEF Spec, SweepLeavesNothingStale

-----------------------------------------------------------------------------
(* Refinement.  Left to itself (no API handler, no lost reply, no crash)   *)
(* the order manager implements QuoteBook.                                 *)

Alone == ApiTask = {} /\ LostReplies = FALSE /\ Crashes = FALSE

Cancelling == pc \in {"cancel", "drop", "dropIndex"}

\* Each tracked order is the one its slot is indexed under, until the second of
\* the two insertions, and the index names tracked orders, until the second of
\* the two removals.
MapsMatch ==
  /\ \A o \in Tracked :
       \/ orderIndex[openOrders[o].slot] = o
       \/ pc = "trackIndex" /\ o = subject[1]
  /\ \A s \in Slot : orderIndex[s] # None =>
       \/ openOrders[orderIndex[s]] # None /\ openOrders[orderIndex[s]].slot = s
       \/ pc = "dropIndex" /\ subject = <<orderIndex[s], s>>

\* An order is placed on a free slot only.
PlacesOnFreeSlot ==
  /\ pc \in {"post", "track", "trackIndex"} => orderIndex[quote.slot] = None
  /\ pc = "track" => openOrders[subject[1]] = None
  /\ pc = "trackIndex" =>
       openOrders[subject[1]] # None /\ openOrders[subject[1]].slot = quote.slot

\* What is being cancelled is what the index names, until it is forgotten.
CancelsIndexed ==
  /\ Cancelling => orderIndex[subject[2]] = subject[1]
  /\ Cancelling /\ loop = "quotes" => quote.slot = subject[2]
  /\ pc \in {"drop", "dropIndex"} => venue[subject[1]] = None
  /\ pc = "dropIndex" => openOrders[subject[1]] = None

\* What a sweep has still to cancel is tracked and indexed.
PendingTracked ==
  /\ \A r \in pending :
       /\ openOrders[r[1]] # None /\ openOrders[r[1]].slot = r[2]
       /\ orderIndex[r[2]] = r[1]
       /\ Cancelling => r[1] # subject[1]
  /\ pending # {} => pc \in {"sweep", "purge"} \/ (Cancelling /\ loop # "quotes")

\* An order at the venue rests on the slot the engine recorded it under.
VenueKnown ==
  \A o \in Live :
    \/ openOrders[o] # None /\ openOrders[o].slot = venue[o]
    \/ pc = "track" /\ o = subject[1] /\ venue[o] = quote.slot

BookInv == MapsMatch /\ PlacesOnFreeSlot /\ CancelsIndexed /\ PendingTracked /\ VenueKnown

-----------------------------------------------------------------------------
(* BookInv is inductive.                                                   *)

LEMMA InitBookInv == Init => BookInv
BY EngineAssumption
DEF Init, BookInv, MapsMatch, PlacesOnFreeSlot, CancelsIndexed, PendingTracked, VenueKnown,
    Cancelling, Tracked, Live

\* What a sweep collects is tracked and indexed when no insertion or removal is
\* under way.
LEMMA CollectedIsTracked ==
  ASSUME TypeInv, BookInv, NEW S \in SUBSET Tracked, NEW r \in Collected(S),
         pc \notin {"trackIndex"}
  PROVE  /\ openOrders[r[1]] # None /\ openOrders[r[1]].slot = r[2]
         /\ orderIndex[r[2]] = r[1]
BY DEF Collected, Tracked, BookInv, MapsMatch

\* A step that leaves both maps alone, lets orders vanish from the venue, and
\* neither is inside an update nor begins a call.
LEMMA QuietKeepsBook ==
  ASSUME TypeInv, BookInv, UNCHANGED maps,
         \A o \in OrderId : venue'[o] \in {venue[o], None},
         pc \notin {"track", "trackIndex", "dropIndex"},
         pc' \in {"idle", "cycle", "quotes", "takers", "sweep", "purge"},
         \/ pending' = {}
         \/ pc' \in {"sweep", "purge"} /\ \E S \in SUBSET Tracked : pending' = Collected(S)
  PROVE  BookInv'
<1>1. MapsMatch'
  BY DEF BookInv, MapsMatch, maps, Tracked
<1>2. PlacesOnFreeSlot' /\ CancelsIndexed'
  BY DEF PlacesOnFreeSlot, CancelsIndexed, Cancelling
<1>3. PendingTracked'
  BY CollectedIsTracked DEF PendingTracked, Cancelling, maps
<1>4. VenueKnown'
  BY DEF BookInv, VenueKnown, maps, Live
<1> QED
  BY <1>1, <1>2, <1>3, <1>4 DEF BookInv

\* Time and a touch change neither which orders are tracked nor their slots.
SlotsKept ==
  \A o \in OrderId : /\ openOrders'[o] = None <=> openOrders[o] = None
                     /\ openOrders[o] # None => openOrders'[o].slot = openOrders[o].slot

LEMMA AgedKeepsSlots ==
  ASSUME TypeInv, NEW d \in Gaps, openOrders' = AgedBy(d)
  PROVE  SlotsKept
<1> SUFFICES ASSUME NEW o \in OrderId, openOrders[o] # None
             PROVE  openOrders'[o] # None /\ openOrders'[o].slot = openOrders[o].slot
  BY DEF SlotsKept, AgedBy
<1> DEFINE a == Older(openOrders[o].age, d)
           i == Older(openOrders[o].idle, d)
<1>1. openOrders[o] \in ManagedOrder
  BY DEF TypeInv, TypeOK
<1>2. a \in Age /\ i \in Age
  BY <1>1, OlderIsAge, EngineAssumption DEF ManagedOrder
<1>3. openOrders'[o] = [openOrders[o] EXCEPT !.age = a, !.idle = i]
  BY DEF AgedBy
<1> HIDE DEF a, i
<1>4. openOrders'[o] \in ManagedOrder
  BY <1>1, <1>2, <1>3 DEF ManagedOrder
<1> QED
  BY <1>1, <1>3, <1>4, EngineAssumption DEF ManagedOrder

LEMMA TouchKeepsSlots ==
  ASSUME TypeInv, NEW q \in Quote, KeepOrder(q)
  PROVE  SlotsKept
<1> SUFFICES ASSUME NEW o \in OrderId, o = orderIndex[q.slot]
             PROVE  /\ openOrders'[o] # None /\ openOrders[o] # None
                    /\ openOrders'[o].slot = openOrders[o].slot
  BY DEF SlotsKept, KeepOrder, TypeInv, TypeOK
<1>1. openOrders[o] \in ManagedOrder
  BY DEF KeepOrder, TypeInv, TypeOK
<1>2. openOrders'[o] = [openOrders[o] EXCEPT !.idle = 0]
  BY DEF KeepOrder, TypeInv, TypeOK
<1>3. openOrders'[o] \in ManagedOrder
  BY <1>1, <1>2, TouchedType
<1> QED
  BY <1>1, <1>2, <1>3, EngineAssumption DEF ManagedOrder

LEMMA NextBookInv ==
  ASSUME Alone, TypeInv, TypeInv', BookInv, [Next]_vars
  PROVE  BookInv'
<1> USE DEF Cancelling
<1>1. ASSUME NEW d \in Gaps, BeginCycle(d) PROVE BookInv'
  <2>1. SlotsKept
    BY <1>1, AgedKeepsSlots DEF BeginCycle
  <2>2. \A o \in OrderId : venue'[o] \in {venue[o], None}
    BY <1>1 DEF BeginCycle
  <2> QED
    BY <1>1, <2>1, <2>2
    DEF SlotsKept, BeginCycle, BookInv, MapsMatch, PlacesOnFreeSlot, CancelsIndexed, PendingTracked,
        VenueKnown, Tracked, Live, TypeInv, TypeOK
<1>2. CASE EndCycle
  BY <1>2, QuietKeepsBook DEF EndCycle, maps, BookInv, PendingTracked
<1>3. ASSUME NEW c \in BOOLEAN, NEW s \in BOOLEAN, StartBatch(c, s) PROVE BookInv'
  <2>1. {o \in Tracked : Stale(openOrders[o])} \in SUBSET Tracked
    OBVIOUS
  <2> QED
    BY <1>3, <2>1, QuietKeepsBook DEF StartBatch, BeginSweep, maps, BookInv, PendingTracked
<1>4. ASSUME NEW q \in Quote, SyncQuote(q) PROVE BookInv'
  <2>1. CASE KeepOrder(q)
    <3>1. SlotsKept
      BY <2>1, TouchKeepsSlots
    <3> QED
      BY <1>4, <2>1, <3>1
      DEF SlotsKept, SyncQuote, KeepOrder, BookInv, MapsMatch, PlacesOnFreeSlot, CancelsIndexed,
          PendingTracked, VenueKnown, Tracked, Live, TypeInv, TypeOK
  <2>2. CASE ReplaceOrder(q)
    BY <1>4, <2>2
    DEF SyncQuote, ReplaceOrder, BookInv, MapsMatch, PlacesOnFreeSlot, CancelsIndexed,
        PendingTracked, VenueKnown, Tracked, Live, TypeInv, TypeOK
  <2>3. CASE PlaceOrder(q)
    BY <1>4, <2>3
    DEF SyncQuote, PlaceOrder, PlaceUnlessAtCap, BookInv, MapsMatch, PlacesOnFreeSlot,
        CancelsIndexed, PendingTracked, VenueKnown, Tracked, Live, TypeInv, TypeOK
  <2> QED
    BY <1>4, <2>1, <2>2, <2>3 DEF SyncQuote
<1>5. CASE CancelOk
  BY <1>5
  DEF CancelOk, maps, BookInv, MapsMatch, PlacesOnFreeSlot, CancelsIndexed, PendingTracked,
      VenueKnown, Tracked, Live, TypeInv, TypeOK, InHand, Ref
<1>6. CASE CancelFailed
  <2>1. \A o \in OrderId : venue'[o] \in {venue[o], None}
    BY <1>6 DEF CancelFailed, TypeInv, TypeOK
  <2> QED
    BY <1>6, <2>1, QuietKeepsBook DEF CancelFailed, Abandon
<1>7. CASE Drop
  BY <1>7
  DEF Drop, BookInv, MapsMatch, PlacesOnFreeSlot, CancelsIndexed, PendingTracked,
      VenueKnown, Tracked, Live, TypeInv, TypeOK, InHand, Ref
<1>8. CASE DropIndex
  BY <1>8
  DEF DropIndex, PlaceUnlessAtCap, BookInv, MapsMatch, PlacesOnFreeSlot, CancelsIndexed,
      PendingTracked, VenueKnown, Tracked, Live, TypeInv, TypeOK, InHand, Ref, Loops
<1>9. CASE PostOk
  <2>1. quote'.slot = quote.slot
    BY <1>9 DEF PostOk, TypeInv, TypeOK, InHand, Quote
  <2> QED
    BY <1>9, <2>1
    DEF PostOk, Fresh, maps, BookInv, MapsMatch, PlacesOnFreeSlot, CancelsIndexed,
        PendingTracked, VenueKnown, Tracked, Live, TypeInv, TypeOK, InHand, Ref
<1>10. CASE PostFailed
  <2>1. UNCHANGED venue /\ pc' \in {"idle", "cycle", "quotes"}
    BY <1>10 DEF PostFailed, Abandon, Alone
  <2>2. pending' = {}
    BY <1>10 DEF PostFailed, Abandon, BookInv, PendingTracked
  <2> QED
    BY <1>10, <2>1, <2>2, QuietKeepsBook DEF PostFailed
<1>11. CASE Track
  <2> DEFINE o == subject[1]
  <2>1. o \in OrderId /\ quote \in Quote /\ quote.slot \in Slot
    BY <1>11 DEF Track, TypeInv, TypeOK, InHand, Ref, Quote
  <2>2. /\ openOrders' = [openOrders EXCEPT ![o] = openOrders'[o]]
        /\ openOrders'[o].slot = quote.slot
    BY <1>11, <2>1 DEF Track, TypeInv, TypeOK
  <2>3. openOrders'[o] # None
    <3>1. [slot |-> quote.slot, price |-> RoundToTick(quote.price), size |-> quote.size,
           age |-> 0, idle |-> 0] \in ManagedOrder
      <4>1. quote.price \in Nat /\ quote.size \in Size
        BY <2>1, EngineAssumption DEF Quote
      <4>2. RoundToTick(quote.price) \in Nat /\ 0 \in Age
        BY <4>1, RoundedPriceIsNat, PolicyAssumption DEF Age
      <4> QED
        BY <2>1, <4>1, <4>2 DEF ManagedOrder
    <3> QED
      BY <1>11, <2>1, <3>1, EngineAssumption DEF Track, TypeInv, TypeOK
  <2>4. openOrders[o] = None /\ orderIndex[quote.slot] = None /\ pending = {}
    BY <1>11 DEF Track, BookInv, PlacesOnFreeSlot, PendingTracked
  <2>5. /\ pc = "track" /\ pc' = "trackIndex"
        /\ UNCHANGED <<orderIndex, venue, loop, quote, subject, pending>>
    BY <1>11 DEF Track
  <2>6. \A p \in OrderId : p # o => openOrders'[p] = openOrders[p]
    BY <2>2 DEF TypeInv, TypeOK
  <2>7. MapsMatch'
    <3>1. ASSUME NEW p \in Tracked'
          PROVE  \/ orderIndex'[openOrders'[p].slot] = p
                 \/ pc' = "trackIndex" /\ p = subject'[1]
      BY <2>5, <2>6 DEF BookInv, MapsMatch, Tracked
    <3>2. ASSUME NEW s \in Slot, orderIndex[s] # None
          PROVE  openOrders'[orderIndex[s]] # None /\ openOrders'[orderIndex[s]].slot = s
      <4>1. openOrders[orderIndex[s]] # None /\ openOrders[orderIndex[s]].slot = s
        BY <2>5, <3>2 DEF BookInv, MapsMatch
      <4>2. orderIndex[s] # o /\ orderIndex[s] \in OrderId
        BY <2>4, <3>2, <4>1 DEF TypeInv, TypeOK
      <4> QED
        BY <2>6, <4>1, <4>2
    <3> QED
      BY <2>5, <3>1, <3>2 DEF MapsMatch
  <2>8. PlacesOnFreeSlot' /\ CancelsIndexed' /\ PendingTracked'
    BY <2>2, <2>3, <2>4, <2>5 DEF PlacesOnFreeSlot, CancelsIndexed, PendingTracked
  <2>9. VenueKnown'
    BY <2>2, <2>3, <2>4, <2>5, <2>6 DEF BookInv, VenueKnown, Live
  <2> QED
    BY <2>7, <2>8, <2>9 DEF BookInv
<1>12. CASE TrackIndex
  <2> DEFINE o == subject[1]
  <2>1. o \in OrderId /\ quote.slot \in Slot
    BY <1>12 DEF TrackIndex, TypeInv, TypeOK, InHand, Ref, Quote
  <2>2. /\ openOrders[o] # None /\ openOrders[o].slot = quote.slot
        /\ orderIndex[quote.slot] = None /\ pending = {}
    BY <1>12 DEF TrackIndex, BookInv, PlacesOnFreeSlot, PendingTracked
  <2>3. /\ pc = "trackIndex" /\ pc' = "quotes"
        /\ UNCHANGED <<openOrders, venue, pending>>
    BY <1>12 DEF TrackIndex
  <2>4. /\ orderIndex'[quote.slot] = o
        /\ \A s \in Slot : s # quote.slot => orderIndex'[s] = orderIndex[s]
    BY <1>12, <2>1 DEF TrackIndex, TypeInv, TypeOK
  <2>5. \A p \in Tracked : openOrders[p].slot \in Slot
    BY DEF Tracked, TypeInv, TypeOK, ManagedOrder
  <2>6. MapsMatch'
    <3>1. ASSUME NEW p \in Tracked PROVE orderIndex'[openOrders[p].slot] = p
      <4>1. CASE p = o
        BY <2>2, <2>4, <4>1
      <4>2. CASE p # o
        <5>1. orderIndex[openOrders[p].slot] = p /\ p # None
          BY <4>2, EngineAssumption DEF BookInv, MapsMatch, Tracked
        <5> QED
          BY <2>2, <2>4, <2>5, <5>1
      <4> QED
        BY <4>1, <4>2
    <3>2. ASSUME NEW s \in Slot, orderIndex'[s] # None
          PROVE  openOrders[orderIndex'[s]] # None /\ openOrders[orderIndex'[s]].slot = s
      BY <2>2, <2>3, <2>4, <3>2 DEF BookInv, MapsMatch
    <3> QED
      BY <2>3, <3>1, <3>2 DEF MapsMatch, Tracked
  <2>7. PlacesOnFreeSlot' /\ CancelsIndexed' /\ PendingTracked'
    BY <2>2, <2>3 DEF PlacesOnFreeSlot, CancelsIndexed, PendingTracked
  <2>8. VenueKnown'
    BY <2>3 DEF BookInv, VenueKnown, Live
  <2> QED
    BY <2>6, <2>7, <2>8 DEF BookInv
<1>13. CASE EndQuotes
  BY <1>13, QuietKeepsBook DEF EndQuotes, BookInv, PendingTracked
<1>14. CASE TakerFailed
  BY <1>14, QuietKeepsBook DEF TakerFailed, Abandon
<1>15. CASE TakersDone
  <2>1. {o \in Tracked : Stale(openOrders[o])} \in SUBSET Tracked
    OBVIOUS
  <2> QED
    BY <1>15, <2>1, QuietKeepsBook DEF TakersDone, BeginSweep
<1>16. CASE SweepOne
  BY <1>16
  DEF SweepOne, maps, BookInv, MapsMatch, PlacesOnFreeSlot, CancelsIndexed,
      PendingTracked, VenueKnown, Tracked, Live, TypeInv, TypeOK, Ref
<1>17. CASE SweepDone
  BY <1>17, QuietKeepsBook DEF SweepDone, BookInv, PendingTracked
<1>18. ASSUME NEW removed \in SUBSET Token, ReplaceMarkets(removed) PROVE BookInv'
  <2>1. {o \in Tracked : openOrders[o].slot[1] \in removed} \in SUBSET Tracked
    OBVIOUS
  <2> QED
    BY <1>18, <2>1, QuietKeepsBook DEF ReplaceMarkets
<1>19. ASSUME NEW o \in OrderId, VenueRemoves(o) PROVE BookInv'
  BY <1>19
  DEF VenueRemoves, maps, mainVars, BookInv, MapsMatch, PlacesOnFreeSlot, CancelsIndexed,
      PendingTracked, VenueKnown, Tracked, Live, TypeInv, TypeOK
<1>20. CASE UNCHANGED vars
  BY <1>20
  DEF vars, mainVars, BookInv, MapsMatch, PlacesOnFreeSlot, CancelsIndexed,
      PendingTracked, VenueKnown, Tracked, Live
<1> QED
  BY <1>1, <1>2, <1>3, <1>4, <1>5, <1>6, <1>7, <1>8, <1>9, <1>10, <1>11, <1>12, <1>13,
     <1>14, <1>15, <1>16, <1>17, <1>18, <1>19, <1>20
  DEF Next, MainStep, Ticker, Environment, CrashRestart, Alone

-----------------------------------------------------------------------------
(* The refinement.                                                         *)

LEMMA InitBook == Init => Book!Init
BY EngineAssumption DEF Init, Book!Init, Tracked, Recording

\* Orders that leave the venue, and nothing else that QuoteBook sees.
LEMMA VanishStep ==
  ASSUME TypeInv, TypeInv', Tracked' = Tracked, Recording' = Recording,
         \A o \in OrderId : venue'[o] \in {venue[o], None}
  PROVE  Book!Next
<1> DEFINE gone == {o \in OrderId : venue'[o] = None}
<1>1. venue' = [o \in OrderId |-> IF o \in gone THEN None ELSE venue[o]]
  BY DEF TypeInv, TypeOK
<1>2. Book!Vanish(gone)
  BY <1>1 DEF Book!Vanish
<1> QED
  BY <1>2 DEF Book!Next

LEMMA NextBook ==
  ASSUME Alone, TypeInv, TypeInv', BookInv, BookInv', [Next]_vars
  PROVE  [Book!Next]_Book!vars
<1>1. ASSUME UNCHANGED <<openOrders, venue>>, pc # "track", pc' # "track"
      PROVE  UNCHANGED Book!vars
  BY <1>1 DEF Book!vars, Tracked, Recording
<1>2. ASSUME NEW d \in Gaps, BeginCycle(d) PROVE Book!Next
  <2>1. Tracked' = Tracked
    BY <1>2, AgedKeepsSlots DEF BeginCycle, SlotsKept, Tracked
  <2>2. Recording' = Recording
    BY <1>2 DEF BeginCycle, Recording
  <2> QED
    BY <1>2, <2>1, <2>2, VanishStep DEF BeginCycle, TypeInv, TypeOK
<1>3. ASSUME NEW q \in Quote, SyncQuote(q) PROVE [Book!Next]_Book!vars
  <2>1. CASE KeepOrder(q)
    <3>1. Tracked' = Tracked
      BY <2>1, TouchKeepsSlots DEF SlotsKept, Tracked
    <3> QED
      BY <1>3, <2>1, <3>1 DEF SyncQuote, KeepOrder, Book!vars, Recording
  <2>2. CASE ReplaceOrder(q) \/ PlaceOrder(q)
    BY <1>1, <1>3, <2>2 DEF SyncQuote, ReplaceOrder, PlaceOrder, PlaceUnlessAtCap
  <2> QED
    BY <1>3, <2>1, <2>2 DEF SyncQuote
<1>4. CASE CancelOk \/ CancelFailed
  <2>1. Tracked' = Tracked /\ Recording' = Recording
    BY <1>4 DEF CancelOk, CancelFailed, Abandon, maps, Tracked, Recording
  <2>2. \A o \in OrderId : venue'[o] \in {venue[o], None}
    BY <1>4 DEF CancelOk, CancelFailed, TypeInv, TypeOK
  <2> QED
    BY <2>1, <2>2, VanishStep
<1>5. CASE Drop
  <2>1. subject[1] \in OrderId /\ subject[1] # None
    BY <1>5, EngineAssumption DEF Drop, TypeInv, TypeOK, InHand, Ref
  <2>2. subject[1] \in Tracked /\ venue[subject[1]] = None
    BY <1>5, <2>1
    DEF Drop, BookInv, CancelsIndexed, MapsMatch, Cancelling, Tracked, TypeInv, TypeOK, InHand, Ref
  <2>3. Tracked' = Tracked \ {subject[1]}
    BY <1>5, <2>1 DEF Drop, Tracked, TypeInv, TypeOK
  <2>4. Book!Forget(subject[1])
    BY <1>5, <2>2, <2>3 DEF Drop, Book!Forget, Recording
  <2> QED
    BY <2>1, <2>4 DEF Book!Next
<1>6. CASE PostOk
  <2>1. PICK o \in OrderId : /\ Fresh(o)
                             /\ venue' = [venue EXCEPT ![o] = quote.slot]
                             /\ subject' = <<o, quote.slot>>
    BY <1>6 DEF PostOk
  <2>2. quote.slot \in Slot /\ quote.slot # None
    BY <1>6, EngineAssumption DEF PostOk, TypeInv, TypeOK, InHand, Quote
  <2>3. \A p \in OrderId : venue[p] # quote.slot
    <3> SUFFICES ASSUME NEW p \in OrderId, venue[p] = quote.slot PROVE FALSE
      OBVIOUS
    <3>1. openOrders[p] # None /\ openOrders[p].slot = quote.slot
      BY <1>6, <2>2 DEF PostOk, BookInv, VenueKnown, Live
    <3>2. orderIndex[quote.slot] = p
      BY <1>6, <3>1 DEF PostOk, BookInv, MapsMatch, Tracked
    <3>3. orderIndex[quote.slot] = None
      BY <1>6 DEF PostOk, BookInv, PlacesOnFreeSlot
    <3> QED
      BY <3>2, <3>3, EngineAssumption
  <2>4. Book!Accept(o, quote.slot)
    BY <1>6, <2>1, <2>3
    DEF PostOk, Fresh, Book!Accept, maps, Recording, Tracked
  <2> QED
    BY <2>2, <2>4 DEF Book!Next
<1>7. CASE Track
  <2>1. subject[1] \in OrderId
    BY <1>7 DEF Track, TypeInv, TypeOK, InHand, Ref
  <2>2. openOrders'[subject[1]] # None
    BY <1>7 DEF Track, BookInv, PlacesOnFreeSlot
  <2>3. Tracked' = Tracked \cup {subject[1]}
    BY <1>7, <2>1, <2>2 DEF Track, Tracked, TypeInv, TypeOK
  <2>4. Book!Record(subject[1])
    BY <1>7, <2>3 DEF Track, Book!Record, Recording
  <2> QED
    BY <2>1, <2>4 DEF Book!Next
<1>8. ASSUME NEW o \in OrderId, VenueRemoves(o) PROVE Book!Next
  <2>1. Tracked' = Tracked /\ Recording' = Recording
    BY <1>8 DEF VenueRemoves, maps, mainVars, Tracked, Recording
  <2> QED
    BY <1>8, <2>1, VanishStep DEF VenueRemoves, TypeInv, TypeOK
<1>9. ASSUME NEW c \in BOOLEAN, NEW s \in BOOLEAN, StartBatch(c, s) PROVE UNCHANGED Book!vars
  BY <1>1, <1>9 DEF StartBatch, BeginSweep
<1>10. CASE DropIndex
  BY <1>1, <1>10 DEF DropIndex, PlaceUnlessAtCap, TypeInv, TypeOK, Loops
<1>11. CASE PostFailed
  BY <1>1, <1>11 DEF PostFailed, Abandon, maps, Alone
<1>12. CASE EndCycle \/ TrackIndex \/ EndQuotes \/ TakerFailed \/ TakersDone \/ SweepOne \/ SweepDone
  BY <1>1, <1>12
  DEF EndCycle, TrackIndex, EndQuotes, TakerFailed, TakersDone, SweepOne, SweepDone, Abandon,
      BeginSweep, maps
<1>13. ASSUME NEW removed \in SUBSET Token, ReplaceMarkets(removed) PROVE UNCHANGED Book!vars
  BY <1>1, <1>13 DEF ReplaceMarkets, maps
<1>14. CASE UNCHANGED vars
  BY <1>14 DEF vars, mainVars, Book!vars, Tracked, Recording
<1> QED
  BY <1>2, <1>3, <1>4, <1>5, <1>6, <1>7, <1>8, <1>9, <1>10, <1>11, <1>12, <1>13, <1>14
  DEF Next, MainStep, Ticker, Environment, CrashRestart, Alone

\* Left alone, the order manager keeps what QuoteBook promises: never two orders
\* on one slot, no resting order unknown, none forgotten while it rests.
THEOREM Refinement ==
  ASSUME Alone
  PROVE  Spec => ImplementsQuoteBook
<1>1. Init => TypeInv /\ BookInv /\ Book!Init
  BY InitTypeInv, InitBookInv, InitBook
<1>2. TypeInv /\ [Next]_vars => TypeInv'
  BY NextTypeInv
<1>3. TypeInv /\ TypeInv' /\ BookInv /\ [Next]_vars => BookInv'
  BY NextBookInv
<1>4. TypeInv /\ TypeInv' /\ BookInv /\ BookInv' /\ [Next]_vars => [Book!Next]_Book!vars
  BY NextBook
<1> QED
  BY <1>1, <1>2, <1>3, <1>4, PTL DEF Spec, ImplementsQuoteBook, Book!Spec

LEMMA BookInvHolds ==
  ASSUME Alone
  PROVE  Spec => [](TypeInv /\ BookInv)
<1>1. Init => TypeInv /\ BookInv
  BY InitTypeInv, InitBookInv
<1>2. TypeInv /\ BookInv /\ [Next]_vars => (TypeInv /\ BookInv)'
  BY NextTypeInv, NextBookInv
<1> QED
  BY <1>1, <1>2, PTL DEF Spec

\* Left alone, the two maps say the same whenever no update is under way.
THEOREM MapsAgree ==
  ASSUME Alone
  PROVE  Spec => []MapsAgreeAtRest
<1>1. TypeInv /\ BookInv => MapsAgreeAtRest
  BY EngineAssumption
  DEF BookInv, MapsMatch, MapsAgreeAtRest, MapsAtRest, Tracked, TypeInv, TypeOK, ManagedOrder
<1> QED
  BY <1>1, BookInvHolds, PTL
=============================================================================
