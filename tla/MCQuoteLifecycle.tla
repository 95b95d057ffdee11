--------------------------- MODULE MCQuoteLifecycle ---------------------------
(* QuoteLifecycle on small instances. *)
EXTENDS QuoteLifecycle
=============================================================================
