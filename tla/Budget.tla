------------------------------- MODULE Budget -------------------------------
(***************************************************************************)
(* The bound of the runs: how often each kind of event may still happen.   *)
(* A run chooses among a few budgets, so that what it explores is the sum  *)
(* of some scenarios and not the product of all events.                    *)
(***************************************************************************)
EXTENDS Naturals

CONSTANT Budgets \* a set of functions [kinds of events -> how often]

VARIABLE left    \* [kinds of events -> how many may still happen]

BudgetInit == left \in Budgets

Spend(event) == /\ left[event] > 0
                /\ left' = [left EXCEPT ![event] = @ - 1]
=============================================================================
