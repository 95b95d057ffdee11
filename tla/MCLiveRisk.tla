------------------------------ MODULE MCLiveRisk ------------------------------
(* LiveRisk on small instances. *)
EXTENDS LiveRisk

CONSTANT btc

OneMarket == btc :> "Btc"

\* Nothing is marked: everything is valued at the default price.
Unmarked == {[t \in Token |-> None]}
=============================================================================
