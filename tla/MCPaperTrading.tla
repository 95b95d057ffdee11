---------------------------- MODULE MCPaperTrading ----------------------------
(* PaperTrading on small instances. *)
EXTENDS PaperTrading

Book(bid, ask, depth, age, busy) ==
  [bid |-> bid, ask |-> ask, depth |-> depth, age |-> age, busy |-> busy]

Nothing == Book(Missing, Missing, 0, 0, FALSE)

\* A cheap book, thin for the yes leg; a rise of a leg that is near its end; and
\* a book that is too old to buy from but not to sell to, at a profit that covers
\* the fees and the smallest profit of a full position only.
Cheap(l) == Book(62, 64, IF l[2] = "yes" THEN 7 ELSE 30, 0, FALSE)

Risen == Book(70, 72, 30, 0, TRUE)

Old == Book(67, 68, 30, 4, FALSE)

Quotes(l) == {Cheap(l), Risen, Old}

\* All legs look alike, or one leg alone has a book.
UniformBooks == {[l \in Leg |-> Nothing], [l \in Leg |-> Cheap(l)],
                 [l \in Leg |-> Risen], [l \in Leg |-> Old]}

OneLegBooks ==
  UNION {{[l \in Leg |-> IF l = k THEN q ELSE Nothing] : q \in Quotes(k)} : k \in Leg}

MixedBooks == UniformBooks \cup OneLegBooks

Config == [maxStale |-> 3, minDepth |-> 3, maxSpread |-> 10, favLow |-> 55, favHigh |-> 92,
           minEdge |-> 2, fee |-> 1, slip |-> 1, entry |-> 10, minOrder |-> 5,
           takeProfit |-> 2, minProfit |-> 5, hyperProfit |-> 1, hyperFavourite |-> 68,
           maxOpen |-> 2, maxExposure |-> 10, cooldown |-> 1, hyperCooldown |-> 0]
=============================================================================
