------------------------------ MODULE QuoteBook ------------------------------
(***************************************************************************)
(* What the order manager promises, without its calls, maps and retries:   *)
(* at most one order rests at the venue for each slot, every resting order *)
(* is known or is the one being recorded, and an order is forgotten only   *)
(* once it no longer rests.                                                *)
(***************************************************************************)
CONSTANTS OrderId, Slot, None

VARIABLES
  resting,    \* the slot of every order resting at the venue
  known,      \* the orders the agent knows
  recording   \* the accepted order it has not recorded yet

vars == <<resting, known, recording>>

Init ==
  /\ resting = [o \in OrderId |-> None]
  /\ known = {}
  /\ recording = None

\* The venue accepts an order for a slot that has none.
Accept(o, s) ==
  /\ recording = None
  /\ o \notin known /\ resting[o] = None
  /\ \A p \in OrderId : resting[p] # s
  /\ resting' = [resting EXCEPT ![o] = s]
  /\ recording' = o
  /\ UNCHANGED known

\* The agent records it, filled or not.
Record(o) ==
  /\ recording = o
  /\ known' = known \cup {o}
  /\ recording' = None
  /\ UNCHANGED resting

\* Orders are cancelled, filled or expire.
Vanish(gone) ==
  /\ resting' = [o \in OrderId |-> IF o \in gone THEN None ELSE resting[o]]
  /\ UNCHANGED <<known, recording>>

Forget(o) ==
  /\ o \in known /\ resting[o] = None
  /\ known' = known \ {o}
  /\ UNCHANGED <<resting, recording>>

Next ==
  \/ \E o \in OrderId, s \in Slot : Accept(o, s)
  \/ \E o \in OrderId : Record(o) \/ Forget(o)
  \/ \E gone \in SUBSET OrderId : Vanish(gone)

Spec == Init /\ [][Next]_vars
=============================================================================
