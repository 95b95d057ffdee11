---------------------------- MODULE TradingProofs ----------------------------
(***************************************************************************)
(* Theorems about LiveRisk and PaperTrading, the two places where positions *)
(* are counted, for every set of markets, limits, books and bounds.         *)
(*                                                                         *)
(* Both count by folds over sets and sequences.  The first parts show that  *)
(* such a fold is a sum, whatever the order in which it takes its elements; *)
(* the theorems then argue with sums only.                                  *)
(***************************************************************************)
EXTENDS LiveRisk, PaperTrading, FiniteSetTheorems, WellFoundedInduction, TLAPS

-----------------------------------------------------------------------------
(* Folds. What a fold is defined by, a recursion over subsets, has a        *)
(* solution, shown by a smallest counterexample.                            *)

LEMMA LeastNumber ==
  ASSUME NEW S \in SUBSET Nat, S # {}
  PROVE  \E x \in S : \A y \in S : x <= y
<1> DEFINE R == OpToRel(<, Nat)
<1>1. IsWellFoundedOn(R, Nat)
  BY NatLessThanWellFounded
<1>2. \A x, y \in Nat : x < y => <<x, y>> \in R
  BY DEF OpToRel
<1> HIDE DEF R
<1>3. PICK x \in S : \A y \in S : ~(<<y, x>> \in R)
  BY <1>1, WFMin
<1>4. \A y \in S : ~(y < x)
  BY <1>2, <1>3
<1>5. \A y \in S : x <= y
  BY <1>4
<1> QED
  BY <1>5

LEMMA SmallestSet ==
  ASSUME NEW W, W # {}, \A T \in W : IsFiniteSet(T)
  PROVE  \E T \in W : \A R \in W : Cardinality(R) \in Nat /\ Cardinality(T) <= Cardinality(R)
<1>1. PICK sizes : sizes = {Cardinality(T) : T \in W}
  OBVIOUS
<1>2. sizes \in SUBSET Nat /\ sizes # {}
  BY <1>1, FS_CardinalityType
<1>3. PICK n \in sizes : \A k \in sizes : n <= k
  BY <1>2, LeastNumber
<1>4. PICK T \in W : n = Cardinality(T)
  BY <1>1
<1>5. \A R \in W : Cardinality(R) \in sizes /\ Cardinality(R) \in Nat
  BY <1>1, <1>2
<1> QED
  BY <1>3, <1>4, <1>5

\* What is left of a set without one of its elements is smaller.
LEMMA Smaller ==
  ASSUME NEW T, IsFiniteSet(T), NEW x \in T
  PROVE  /\ IsFiniteSet(T \ {x})
         /\ Cardinality(T) \in Nat /\ Cardinality(T \ {x}) \in Nat
         /\ Cardinality(T) = Cardinality(T \ {x}) + 1
<1>1. IsFiniteSet(T \ {x}) /\ Cardinality(T \ {x}) = Cardinality(T) - 1
  BY FS_RemoveElement
<1>2. Cardinality(T) \in Nat
  BY FS_CardinalityType
<1>3. Cardinality(T \ {x}) \in Nat
  BY <1>1, FS_CardinalityType
<1> QED
  BY <1>1, <1>2, <1>3

\* The recursion of a fold, with the element to take next and the step given
\* as functions.
Folds(f, D, base, pick, step) ==
  \A T \in SUBSET D :
    f[T] = IF T = {} THEN base ELSE step[<<f[T \ {pick[T]}], pick[T]>>]

LEMMA FoldExists ==
  ASSUME NEW D, IsFiniteSet(D), NEW U, NEW base \in U,
         NEW pick, \A T \in SUBSET D : T # {} => pick[T] \in T,
         NEW step, \A u \in U, x \in D : step[<<u, x>>] \in U
  PROVE  \E f \in [SUBSET D -> U] : Folds(f, D, base, pick, step)
<1> DEFINE Upto(f, n) == \A T \in SUBSET D : Cardinality(T) <= n =>
                           f[T] = IF T = {} THEN base ELSE step[<<f[T \ {pick[T]}], pick[T]>>]
           Without == {n \in Nat : ~\E f \in [SUBSET D -> U] : Upto(f, n)}
<1>1. \A T \in SUBSET D : IsFiniteSet(T) /\ Cardinality(T) \in Nat
  BY FS_Subset, FS_CardinalityType
<1>2. Without = {}
  <2>1. SUFFICES ASSUME Without # {} PROVE FALSE
    OBVIOUS
  <2>2. PICK n \in Without : \A m \in Without : n <= m
    <3>1. Without \in SUBSET Nat
      OBVIOUS
    <3> HIDE DEF Without
    <3>2. QED
      BY <2>1, <3>1, LeastNumber
  <2>3. n \in Nat /\ ~\E f \in [SUBSET D -> U] : Upto(f, n)
    BY <2>2
  <2>4. n # 0
    <3>1. PICK f : f = [T \in SUBSET D |-> base]
      OBVIOUS
    <3>2. \A T \in SUBSET D : Cardinality(T) <= 0 => T = {}
      <4>1. \A T \in SUBSET D : Cardinality(T) <= 0 => Cardinality(T) = 0
        BY <1>1
      <4>2. QED
        BY <1>1, <4>1, FS_EmptySet
    <3>3. f \in [SUBSET D -> U] /\ Upto(f, 0)
      BY <3>1, <3>2
    <3>4. 0 \notin Without
      BY <3>3
    <3> HIDE DEF Without
    <3>5. QED
      BY <2>2, <3>4
  <2>5. n - 1 \in Nat /\ n - 1 \notin Without
    <3>1. n - 1 \in Nat /\ ~(n <= n - 1)
      BY <2>3, <2>4
    <3> HIDE DEF Without
    <3>2. QED
      BY <3>1, <2>2
  <2>6. PICK f \in [SUBSET D -> U] : Upto(f, n - 1)
    BY <2>5
  <2>7. PICK g : g = [T \in SUBSET D |-> IF T = {} THEN base ELSE step[<<f[T \ {pick[T]}], pick[T]>>]]
    OBVIOUS
  <2>8. g \in [SUBSET D -> U]
    BY <2>7
  <2>9. ASSUME NEW T \in SUBSET D, Cardinality(T) <= n, T # {}
        PROVE  g[T] = step[<<g[T \ {pick[T]}], pick[T]>>]
    <3>1. PICK x : x = pick[T]
      OBVIOUS
    <3>2. x \in T
      BY <2>9, <3>1
    <3>3. T \ {x} \in SUBSET D /\ Cardinality(T \ {x}) <= n - 1
      <4>1. Cardinality(T) = Cardinality(T \ {x}) + 1 /\ Cardinality(T) \in Nat /\ Cardinality(T \ {x}) \in Nat
        BY <1>1, <3>2, Smaller
      <4>2. QED
        BY <4>1, <2>9, <2>3
    <3>4. f[T \ {x}] = g[T \ {x}]
      BY <2>6, <2>7, <3>3
    <3>5. QED
      BY <2>7, <2>9, <3>1, <3>4
  <2>10. Upto(g, n)
    BY <2>7, <2>9
  <2>11. QED
    BY <2>3, <2>8, <2>10
<1>3. PICK n \in Nat : n = Cardinality(D)
  BY FS_CardinalityType
<1>4. PICK f \in [SUBSET D -> U] : Upto(f, n)
  BY <1>2
<1>5. \A T \in SUBSET D : Cardinality(T) <= n
  BY <1>3, FS_Subset
<1>6. QED
  BY <1>4, <1>5 DEF Folds

\* Two folds that agree on the empty set, and on every other if they agree on it
\* without the element they take, agree.
Alike(f, g, D, pick) ==
  /\ f[{}] = g[{}]
  /\ \A T \in SUBSET D : T # {} =>
       pick[T] \in T /\ (f[T \ {pick[T]}] = g[T \ {pick[T]}] => f[T] = g[T])

LEMMA SameFold ==
  ASSUME NEW D, IsFiniteSet(D), NEW f, NEW g, NEW pick, Alike(f, g, D, pick)
  PROVE  f[D] = g[D]
<1> DEFINE W == {T \in SUBSET D : f[T] # g[T]}
<1>1. SUFFICES ASSUME W # {} PROVE FALSE
  OBVIOUS
<1>2. \A T \in SUBSET D : IsFiniteSet(T)
  BY FS_Subset
<1>3. PICK T \in W : \A R \in W : Cardinality(R) \in Nat /\ Cardinality(T) <= Cardinality(R)
  <2>1. \A R \in W : IsFiniteSet(R)
    BY <1>2
  <2> HIDE DEF W
  <2>2. QED
    BY <1>1, <2>1, SmallestSet
<1>4. T # {} /\ T \in SUBSET D /\ IsFiniteSet(T) /\ f[T] # g[T]
  BY <1>2 DEF Alike
<1>5. PICK x \in T : x = pick[T]
  BY <1>4 DEF Alike
<1>6. T \ {x} \in W
  BY <1>4, <1>5 DEF Alike
<1>7. Cardinality(T) <= Cardinality(T \ {x})
  <2> HIDE DEF W
  <2>1. QED
    BY <1>3, <1>6
<1>8. QED
  BY <1>4, <1>7, Smaller

-----------------------------------------------------------------------------
(* Sums.                                                                    *)

One(S) == CHOOSE x \in S : TRUE

Adds(f, w, S) ==
  /\ f \in [SUBSET S -> Int]
  /\ \A T \in SUBSET S : f[T] = IF T = {} THEN 0 ELSE w[One(T)] + f[T \ {One(T)}]

Sum(w, S) == (CHOOSE f : Adds(f, w, S))[S]

LEMMA OneIn ==
  ASSUME NEW S, S # {}
  PROVE  One(S) \in S
BY DEF One

LEMMA AddsExists ==
  ASSUME NEW S, IsFiniteSet(S), NEW w, \A x \in S : w[x] \in Int
  PROVE  \E f : Adds(f, w, S)
<1>1. PICK pick, step :
        /\ pick = [T \in SUBSET S |-> One(T)]
        /\ step = [p \in Int \X S |-> w[p[2]] + p[1]]
  OBVIOUS
<1>2. \A T \in SUBSET S : T # {} => pick[T] \in T
  BY <1>1, OneIn
<1>3. \A u \in Int, x \in S : step[<<u, x>>] = w[x] + u /\ step[<<u, x>>] \in Int
  BY <1>1
<1>4. PICK f \in [SUBSET S -> Int] : Folds(f, S, 0, pick, step)
  <2>1. 0 \in Int /\ \A u \in Int, x \in S : step[<<u, x>>] \in Int
    BY <1>3
  <2>2. QED
    BY <1>2, <2>1, FoldExists
<1>5. ASSUME NEW T \in SUBSET S, T # {}
      PROVE  f[T] = w[One(T)] + f[T \ {One(T)}]
  <2>1. pick[T] = One(T) /\ One(T) \in S
    BY <1>1, <1>2, <1>5
  <2>4. f[T \ {One(T)}] \in Int
    OBVIOUS
  <2>2. f[T] = step[<<f[T \ {pick[T]}], pick[T]>>]
    BY <1>4, <1>5 DEF Folds
  <2>3. QED
    BY <1>3, <2>1, <2>2, <2>4
<1>6. f[{}] = 0
  BY <1>4 DEF Folds
<1>7. QED
  BY <1>5, <1>6 DEF Adds

\* A sum is the same whatever element is taken first.
LEMMA AddsAny ==
  ASSUME NEW S, IsFiniteSet(S), NEW w, \A x \in S : w[x] \in Int, NEW f, Adds(f, w, S)
  PROVE  \A T \in SUBSET S : \A x \in T : f[T] = w[x] + f[T \ {x}]
<1> DEFINE W == {T \in SUBSET S : ~\A x \in T : f[T] = w[x] + f[T \ {x}]}
<1>1. SUFFICES ASSUME W # {} PROVE FALSE
  OBVIOUS
<1>2. \A T \in SUBSET S : IsFiniteSet(T)
  BY FS_Subset
<1>3. PICK T \in W : \A R \in W : Cardinality(R) \in Nat /\ Cardinality(T) <= Cardinality(R)
  <2>1. \A R \in W : IsFiniteSet(R)
    BY <1>2
  <2> HIDE DEF W
  <2>2. QED
    BY <1>1, <2>1, SmallestSet
<1>4. PICK x \in T : f[T] # w[x] + f[T \ {x}]
  OBVIOUS
<1>5. PICK c : c = One(T)
  OBVIOUS
<1>6. c \in T /\ T \in SUBSET S /\ IsFiniteSet(T)
  BY <1>2, <1>4, <1>5, OneIn
<1>7. f[T] = w[c] + f[T \ {c}]
  BY <1>5, <1>6 DEF Adds
<1>8. x # c
  BY <1>4, <1>7
<1>9. \A y \in T : T \ {y} \notin W
  <2>1. SUFFICES ASSUME NEW y \in T, T \ {y} \in W PROVE FALSE
    OBVIOUS
  <2> HIDE DEF W
  <2>2. Cardinality(T) <= Cardinality(T \ {y})
    BY <1>3, <2>1
  <2>3. PICK a, b \in Nat : a = Cardinality(T) /\ b = Cardinality(T \ {y}) /\ a = b + 1
    BY <1>6, <2>1, Smaller
  <2>4. QED
    BY <2>2, <2>3
<1>10. f[T \ {c}] = w[x] + f[(T \ {c}) \ {x}]
  BY <1>6, <1>8, <1>9
<1>11. f[T \ {x}] = w[c] + f[(T \ {x}) \ {c}]
  BY <1>6, <1>8, <1>9
<1>12. PICK R : R = T \ {c, x}
  OBVIOUS
<1>13. (T \ {c}) \ {x} = R /\ (T \ {x}) \ {c} = R /\ R \in SUBSET S
  BY <1>6, <1>12
<1>14. f[R] \in Int /\ w[x] \in Int /\ w[c] \in Int
  BY <1>6, <1>13 DEF Adds
<1>15. f[T] = w[c] + (w[x] + f[R]) /\ w[x] + f[T \ {x}] = w[x] + (w[c] + f[R])
  BY <1>7, <1>10, <1>11, <1>13
<1>16. QED
  BY <1>4, <1>14, <1>15

\* Sums of the same over the same are the same.
LEMMA AddsSame ==
  ASSUME NEW S, IsFiniteSet(S), NEW R, NEW w, NEW v, NEW f, NEW g,
         Adds(f, w, S), Adds(g, v, R),
         NEW V, V \subseteq S, V \subseteq R, \A x \in V : w[x] = v[x]
  PROVE  f[V] = g[V]
<1>1. PICK pick : pick = [T \in SUBSET V |-> One(T)]
  OBVIOUS
<1>2. ASSUME NEW T \in SUBSET V, T # {}
      PROVE  /\ pick[T] \in T
             /\ f[T \ {pick[T]}] = g[T \ {pick[T]}] => f[T] = g[T]
  <2>1. pick[T] = One(T) /\ One(T) \in T
    BY <1>1, <1>2, OneIn
  <2>2. f[T] = w[One(T)] + f[T \ {One(T)}] /\ g[T] = v[One(T)] + g[T \ {One(T)}]
    BY <1>2 DEF Adds
  <2>3. QED
    BY <2>1, <2>2
<1>3. f[{}] = g[{}]
  BY DEF Adds
<1>4. IsFiniteSet(V)
  BY FS_Subset
<1>5. Alike(f, g, V, pick)
  BY <1>2, <1>3 DEF Alike
<1>6. QED
  BY <1>4, <1>5, SameFold

LEMMA SumAdds ==
  ASSUME NEW S, IsFiniteSet(S), NEW w, \A x \in S : w[x] \in Int
  PROVE  \E f : Adds(f, w, S) /\ \A T \in SUBSET S : Sum(w, T) = f[T]
<1>1. PICK f : Adds(f, w, S)
  BY AddsExists
<1>2. ASSUME NEW T \in SUBSET S
      PROVE  Sum(w, T) = f[T]
  <2>1. IsFiniteSet(T)
    BY FS_Subset
  <2>2. PICK g : g = CHOOSE h : Adds(h, w, T)
    OBVIOUS
  <2>3. Adds(g, w, T)
    BY <2>1, <2>2, AddsExists
  <2>4. g[T] = f[T]
    BY <1>1, <2>1, <2>3, AddsSame
  <2>5. QED
    BY <2>2, <2>4 DEF Sum
<1>3. QED
  BY <1>1, <1>2

LEMMA SumEmpty ==
  ASSUME NEW w
  PROVE  Sum(w, {}) = 0
<1>1. IsFiniteSet({})
  BY FS_EmptySet
<1>2. PICK f : Adds(f, w, {}) /\ Sum(w, {}) = f[{}]
  BY <1>1, SumAdds
<1>3. QED
  BY <1>2 DEF Adds

LEMMA SumType ==
  ASSUME NEW S, IsFiniteSet(S), NEW w, \A x \in S : w[x] \in Int
  PROVE  Sum(w, S) \in Int
<1>1. PICK f : Adds(f, w, S) /\ \A T \in SUBSET S : Sum(w, T) = f[T]
  BY SumAdds
<1>2. f[S] \in Int
  BY <1>1 DEF Adds
<1>3. QED
  BY <1>1, <1>2

LEMMA SumTake ==
  ASSUME NEW S, IsFiniteSet(S), NEW w, \A x \in S : w[x] \in Int, NEW x \in S
  PROVE  Sum(w, S) = w[x] + Sum(w, S \ {x})
<1>1. PICK f : Adds(f, w, S) /\ \A T \in SUBSET S : Sum(w, T) = f[T]
  BY SumAdds
<1>2. f[S] = w[x] + f[S \ {x}]
  BY <1>1, AddsAny
<1>3. QED
  BY <1>1, <1>2

LEMMA SumPut ==
  ASSUME NEW S, IsFiniteSet(S), NEW x, x \notin S, NEW w, \A y \in S \cup {x} : w[y] \in Int
  PROVE  Sum(w, S \cup {x}) = w[x] + Sum(w, S)
<1>1. IsFiniteSet(S \cup {x}) /\ (S \cup {x}) \ {x} = S
  BY FS_AddElement
<1>2. QED
  BY <1>1, SumTake

LEMMA SumSame ==
  ASSUME NEW S, IsFiniteSet(S), NEW w, NEW v, \A x \in S : w[x] \in Int /\ w[x] = v[x]
  PROVE  Sum(w, S) = Sum(v, S)
<1>1. PICK f : Adds(f, w, S) /\ Sum(w, S) = f[S]
  BY SumAdds
<1>2. PICK g : Adds(g, v, S) /\ Sum(v, S) = g[S]
  BY SumAdds
<1>3. QED
  BY <1>1, <1>2, AddsSame

\* Something that holds of the empty set, and of a set if it holds of it without
\* any one of its elements, is shown of sums below by a smallest counterexample.
LEMMA SumUnion ==
  ASSUME NEW S, IsFiniteSet(S), NEW w, \A x \in S : w[x] \in Int,
         NEW T, T \subseteq S
  PROVE  Sum(w, S) = Sum(w, T) + Sum(w, S \ T)
<1> DEFINE W == {V \in SUBSET T : Sum(w, S) # Sum(w, V) + Sum(w, S \ V)}
<1>1. SUFFICES ASSUME W # {} PROVE FALSE
  OBVIOUS
<1>2. \A V \in SUBSET S : IsFiniteSet(V) /\ Sum(w, V) \in Int
  BY FS_Subset, SumType
<1>3. PICK V \in W : \A R \in W : Cardinality(R) \in Nat /\ Cardinality(V) <= Cardinality(R)
  <2>1. \A R \in W : IsFiniteSet(R)
    BY <1>2
  <2> HIDE DEF W
  <2>2. QED
    BY <1>1, <2>1, SmallestSet
<1>4. V \in SUBSET T /\ V \in SUBSET S /\ IsFiniteSet(V) /\ Sum(w, S) # Sum(w, V) + Sum(w, S \ V)
  BY <1>2
<1>5. V # {}
  <2>1. S \ {} = S /\ Sum(w, S) \in Int /\ Sum(w, {}) = 0
    BY <1>2, SumEmpty
  <2>2. QED
    BY <1>4, <2>1
<1>6. PICK x : x \in V
  BY <1>5
<1>7. V \ {x} \notin W
  <2>1. SUFFICES ASSUME V \ {x} \in W PROVE FALSE
    OBVIOUS
  <2> HIDE DEF W
  <2>2. Cardinality(V) <= Cardinality(V \ {x})
    BY <1>3, <2>1
  <2>3. PICK a, b \in Nat : a = Cardinality(V) /\ b = Cardinality(V \ {x}) /\ a = b + 1
    BY <1>4, <1>6, Smaller
  <2>4. QED
    BY <2>2, <2>3
<1>8. Sum(w, S) = Sum(w, V \ {x}) + Sum(w, S \ (V \ {x}))
  BY <1>4, <1>7
<1>9. Sum(w, V) = w[x] + Sum(w, V \ {x})
  BY <1>4, <1>6, SumTake
<1>10. Sum(w, S \ (V \ {x})) = w[x] + Sum(w, S \ V)
  <2>1. PICK Q : Q = S \ (V \ {x})
    OBVIOUS
  <2>2. Q \in SUBSET S /\ IsFiniteSet(Q) /\ x \in Q /\ Q \ {x} = S \ V
    BY <1>2, <1>4, <1>6, <2>1
  <2>3. QED
    BY <2>1, <2>2, SumTake
<1>11. w[x] \in Int /\ Sum(w, V \ {x}) \in Int /\ Sum(w, S \ V) \in Int
  BY <1>2, <1>4, <1>6
<1>12. QED
  BY <1>4, <1>8, <1>9, <1>10, <1>11

LEMMA SumNat ==
  ASSUME NEW S, IsFiniteSet(S), NEW w, \A x \in S : w[x] \in Nat
  PROVE  Sum(w, S) \in Nat
<1>1. PICK pick, step :
        /\ pick = [T \in SUBSET S |-> One(T)]
        /\ step = [p \in Nat \X S |-> w[p[2]] + p[1]]
  OBVIOUS
<1>2. \A T \in SUBSET S : T # {} => pick[T] \in T
  BY <1>1, OneIn
<1>3. \A u \in Nat, x \in S : step[<<u, x>>] = w[x] + u
  BY <1>1
<1>4. 0 \in Nat /\ \A u \in Nat, x \in S : step[<<u, x>>] \in Nat
  BY <1>3
<1>5. PICK f \in [SUBSET S -> Nat] : Folds(f, S, 0, pick, step)
  BY <1>2, <1>4, FoldExists
<1>6. ASSUME NEW T \in SUBSET S, T # {}
      PROVE  f[T] = w[One(T)] + f[T \ {One(T)}]
  <2>1. pick[T] = One(T) /\ One(T) \in S
    BY <1>1, <1>2, <1>6
  <2>2. f[T \ {One(T)}] \in Nat
    OBVIOUS
  <2>3. f[T] = step[<<f[T \ {pick[T]}], pick[T]>>]
    BY <1>5, <1>6 DEF Folds
  <2>4. QED
    BY <1>3, <2>1, <2>2, <2>3
<1>7. f[{}] = 0
  BY <1>5 DEF Folds
<1>8. f \in [SUBSET S -> Int] /\ \A x \in S : w[x] \in Int
  OBVIOUS
<1>9. Adds(f, w, S)
  BY <1>6, <1>7, <1>8 DEF Adds
<1>10. PICK g : Adds(g, w, S) /\ Sum(w, S) = g[S]
  BY <1>8, SumAdds
<1>11. f[S] = g[S]
  BY <1>9, <1>10, AddsSame
<1>12. QED
  BY <1>10, <1>11

Both(u, w, v, S) == \A x \in S : w[x] \in Int /\ v[x] \in Int /\ u[x] = w[x] + v[x]

LEMMA SumPlus ==
  ASSUME NEW S, IsFiniteSet(S), NEW w, NEW v, NEW u, Both(u, w, v, S)
  PROVE  Sum(u, S) = Sum(w, S) + Sum(v, S)
<1>1. \A x \in S : u[x] \in Int /\ w[x] \in Int /\ v[x] \in Int
  BY DEF Both
<1>2. PICK f : Adds(f, w, S) /\ Sum(w, S) = f[S]
  BY <1>1, SumAdds
<1>3. PICK g : Adds(g, v, S) /\ Sum(v, S) = g[S]
  BY <1>1, SumAdds
<1>4. PICK h : h = [T \in SUBSET S |-> f[T] + g[T]]
  OBVIOUS
<1>5. f \in [SUBSET S -> Int] /\ g \in [SUBSET S -> Int] /\ h \in [SUBSET S -> Int]
  BY <1>2, <1>3, <1>4 DEF Adds
<1>6. ASSUME NEW T \in SUBSET S, T # {}
      PROVE  h[T] = u[One(T)] + h[T \ {One(T)}]
  <2>1. PICK x, R : x = One(T) /\ R = T \ {One(T)}
    OBVIOUS
  <2>2. x \in S /\ R \in SUBSET S
    BY <1>6, <2>1, OneIn
  <2>3. f[T] = w[x] + f[R] /\ g[T] = v[x] + g[R]
    BY <1>2, <1>3, <1>6, <2>1 DEF Adds
  <2>4. h[T] = f[T] + g[T] /\ h[R] = f[R] + g[R] /\ f[R] \in Int /\ g[R] \in Int
    BY <1>4, <1>5, <2>2
  <2>5. w[x] \in Int /\ v[x] \in Int /\ u[x] = w[x] + v[x]
    BY <2>2 DEF Both
  <2>6. QED
    BY <2>1, <2>3, <2>4, <2>5
<1>7. h[{}] = 0
  <2>1. f[{}] = 0 /\ g[{}] = 0
    BY <1>2, <1>3 DEF Adds
  <2>2. h[{}] = f[{}] + g[{}]
    BY <1>4
  <2>3. QED
    BY <2>1, <2>2
<1>8. Adds(h, u, S)
  BY <1>5, <1>6, <1>7 DEF Adds
<1>9. PICK k : Adds(k, u, S) /\ Sum(u, S) = k[S]
  BY <1>1, SumAdds
<1>10. h[S] = k[S]
  BY <1>8, <1>9, AddsSame
<1>11. QED
  BY <1>2, <1>3, <1>4, <1>9, <1>10

Img(b, S) == {b[x] : x \in S}

OneToOne(b, S) == \A x, y \in S : b[x] = b[y] => x = y

\* v carries for x what w carries for its image under b.
Carries(v, w, b, S) == \A x \in S : w[b[x]] \in Int /\ v[x] = w[b[x]]

LEMMA ImageFinite ==
  ASSUME NEW S, IsFiniteSet(S), NEW b
  PROVE  IsFiniteSet(Img(b, S))
<1>1. PICK I : I = Img(b, S)
  OBVIOUS
<1>2. PICK f : f = [x \in S |-> b[x]]
  OBVIOUS
<1>3. f \in Surjection(S, I)
  BY <1>1, <1>2 DEF Surjection, Img
<1>4. QED
  BY <1>1, <1>3, FS_Surjection

\* A sum over places is the sum over what is in them.
LEMMA SumReindex ==
  ASSUME NEW S, IsFiniteSet(S), NEW b, OneToOne(b, S),
         NEW w, NEW v, Carries(v, w, b, S)
  PROVE  Sum(v, S) = Sum(w, Img(b, S))
<1> DEFINE Im(T) == Img(b, T)
           W == {T \in SUBSET S : Sum(v, T) # Sum(w, Im(T))}
<1>1. SUFFICES ASSUME W # {} PROVE FALSE
  OBVIOUS
<1>2. \A T \in SUBSET S : IsFiniteSet(T)
  BY FS_Subset
<1>3. PICK T \in W : \A R \in W : Cardinality(R) \in Nat /\ Cardinality(T) <= Cardinality(R)
  <2>1. \A R \in W : IsFiniteSet(R)
    BY <1>2
  <2> HIDE DEF W
  <2>2. QED
    BY <1>1, <2>1, SmallestSet
<1>4. T \in SUBSET S /\ IsFiniteSet(T) /\ Sum(v, T) # Sum(w, Im(T))
  BY <1>2
<1>5. T # {}
  <2>1. Im({}) = {}
    BY DEF Img
  <2>2. QED
    BY <1>4, <2>1, SumEmpty
<1>6. PICK x : x \in T
  BY <1>5
<1>7. T \ {x} \notin W
  <2>1. SUFFICES ASSUME T \ {x} \in W PROVE FALSE
    OBVIOUS
  <2> HIDE DEF W
  <2>2. Cardinality(T) <= Cardinality(T \ {x})
    BY <1>3, <2>1
  <2>3. QED
    BY <2>2, <1>4, <1>6, Smaller
<1>8. Sum(v, T \ {x}) = Sum(w, Im(T \ {x}))
  BY <1>4, <1>7
<1>9. Sum(v, T) = v[x] + Sum(v, T \ {x})
  <2>1. \A y \in T : v[y] \in Int
    BY <1>4 DEF Carries
  <2>2. QED
    BY <1>4, <1>6, <2>1, SumTake
<1>10. Im(T \ {x}) = Im(T) \ {b[x]} /\ b[x] \in Im(T) /\ \A y \in Im(T) : w[y] \in Int
  BY <1>4, <1>6 DEF Img, OneToOne, Carries
<1>11. IsFiniteSet(Im(T))
  BY <1>4, ImageFinite
<1>12. Sum(w, Im(T)) = w[b[x]] + Sum(w, Im(T \ {x}))
  <2>1. PICK I : I = Im(T)
    OBVIOUS
  <2>2. IsFiniteSet(I) /\ b[x] \in I /\ \A y \in I : w[y] \in Int
    BY <1>10, <1>11, <2>1
  <2>3. Sum(w, I) = w[b[x]] + Sum(w, I \ {b[x]})
    BY <2>2, SumTake
  <2>4. QED
    BY <1>10, <2>1, <2>3
<1>13. v[x] = w[b[x]]
  BY <1>4, <1>6 DEF Carries
<1>14. QED
  BY <1>4, <1>8, <1>9, <1>12, <1>13

-----------------------------------------------------------------------------
(* Sequences and what the library computes.                                *)

LEMMA MaxIn ==
  ASSUME NEW T \in SUBSET Nat, IsFiniteSet(T), T # {}
  PROVE  Max(T) \in T /\ \A y \in T : y <= Max(T)
<1> DEFINE W == {S \in SUBSET T : S # {} /\ ~\E x \in S : \A y \in S : y <= x}
<1>1. W = {}
  <2>1. SUFFICES ASSUME W # {} PROVE FALSE
    OBVIOUS
  <2>2. \A S \in SUBSET T : IsFiniteSet(S)
    BY FS_Subset
  <2>3. PICK S \in W : \A R \in W : Cardinality(R) \in Nat /\ Cardinality(S) <= Cardinality(R)
    <3>1. \A Q \in W : IsFiniteSet(Q)
      BY <2>2
    <3> HIDE DEF W
    <3>2. QED
      BY <2>1, <3>1, SmallestSet
  <2>4. S # {} /\ S \in SUBSET T /\ IsFiniteSet(S) /\ ~\E x \in S : \A y \in S : y <= x
    BY <2>2
  <2>5. PICK x : x \in S /\ x \in Nat
    BY <2>4
  <2>6. S \ {x} \notin W
    <3>1. SUFFICES ASSUME S \ {x} \in W PROVE FALSE
      OBVIOUS
    <3> HIDE DEF W
    <3>2. Cardinality(S) <= Cardinality(S \ {x})
      BY <2>3, <3>1
    <3>3. IsFiniteSet(S) /\ x \in S
      BY <2>4, <2>5
    <3>4. Cardinality(S) = Cardinality(S \ {x}) + 1 /\ Cardinality(S \ {x}) \in Nat
      BY <3>3, Smaller
    <3>5. QED
      BY <3>2, <3>4
  <2>7. CASE S \ {x} = {}
    <3>1. \A y \in S : y = x
      BY <2>7
    <3>2. \A y \in S : y <= x
      BY <3>1, <2>5
    <3>3. QED
      BY <2>4, <2>5, <3>2
  <2>8. CASE S \ {x} # {}
    <3>1. PICK z \in S \ {x} : \A y \in S \ {x} : y <= z
      BY <2>4, <2>6, <2>8
    <3>2. z \in Nat /\ z \in S /\ \A y \in S : y \in Nat
      BY <2>4
    <3>3. CASE x <= z
      <4>1. \A y \in S : y <= z
        BY <3>1, <3>3
      <4>2. QED
        BY <2>4, <3>2, <4>1
    <3>4. CASE ~(x <= z)
      <4>1. \A y \in S : y <= x
        BY <2>5, <3>1, <3>2, <3>4
      <4>2. QED
        BY <2>4, <2>5, <4>1
    <3>5. QED
      BY <3>3, <3>4
  <2>9. QED
    BY <2>7, <2>8
<1>2. PICK x \in T : \A y \in T : y <= x
  BY <1>1
<1>3. \A y \in T : x >= y
  BY <1>2
<1>4. PICK z : z = Max(T)
  OBVIOUS
<1>5. z \in T /\ \A y \in T : z >= y
  BY <1>3, <1>4 DEF Max
<1>6. \A y \in T : y <= z
  BY <1>5
<1>7. QED
  BY <1>4, <1>5, <1>6

LEMMA MaxOfTwo ==
  ASSUME NEW a \in Int, NEW b \in Int
  PROVE  Max({a, b}) = IF a >= b THEN a ELSE b
<1>1. \E x \in {a, b} : \A y \in {a, b} : x >= y
  OBVIOUS
<1>2. PICK z : z = Max({a, b})
  OBVIOUS
<1>3. z \in {a, b} /\ z >= a /\ z >= b
  BY <1>1, <1>2 DEF Max
<1>4. QED
  BY <1>2, <1>3

LEMMA MinOfTwo ==
  ASSUME NEW a \in Int, NEW b \in Int
  PROVE  Min({a, b}) = IF a <= b THEN a ELSE b
<1>1. \E x \in {a, b} : \A y \in {a, b} : x <= y
  OBVIOUS
<1>2. PICK z : z = Min({a, b})
  OBVIOUS
<1>3. z \in {a, b} /\ z <= a /\ z <= b
  BY <1>1, <1>2 DEF Min
<1>4. QED
  BY <1>2, <1>3

\* What a sequence adds up to when its first element is taken off ...
LEMMA SumTail ==
  ASSUME NEW n \in Nat, n > 0, NEW v, \A i \in 1..n : v[i] \in Int,
         NEW u, \A i \in 1..(n - 1) : u[i] = v[i + 1]
  PROVE  Sum(v, 1..n) = v[1] + Sum(u, 1..(n - 1))
<1>1. IsFiniteSet(1..n) /\ IsFiniteSet(1..(n - 1)) /\ 1 \in 1..n
  BY FS_Interval
<1>2. Sum(v, 1..n) = v[1] + Sum(v, (1..n) \ {1})
  BY <1>1, SumTake
<1>3. PICK b : b = [i \in 1..(n - 1) |-> i + 1]
  OBVIOUS
<1>5. \A i \in 1..(n - 1) : v[b[i]] \in Int /\ u[i] = v[b[i]]
  BY <1>3
<1>6. Sum(u, 1..(n - 1)) = Sum(v, Img(b, 1..(n - 1)))
  <2>1. PICK S : S = 1..(n - 1)
    OBVIOUS
  <2>2. IsFiniteSet(S)
    BY <1>1, <2>1
  <2>3. OneToOne(b, S)
    BY <1>3, <2>1 DEF OneToOne
  <2>4. Carries(u, v, b, S)
    BY <1>5, <2>1 DEF Carries
  <2>5. Sum(u, S) = Sum(v, Img(b, S))
    BY <2>2, <2>3, <2>4, SumReindex
  <2>6. QED
    BY <2>1, <2>5
<1>7. Img(b, 1..(n - 1)) = (1..n) \ {1}
  <2>1. \A i \in 1..(n - 1) : b[i] \in (1..n) \ {1}
    BY <1>3
  <2>2. ASSUME NEW j \in (1..n) \ {1} PROVE \E i \in 1..(n - 1) : b[i] = j
    <3>1. j - 1 \in 1..(n - 1) /\ b[j - 1] = j
      BY <1>3
    <3>2. QED
      BY <3>1
  <2>3. QED
    BY <2>1, <2>2 DEF Img
<1>8. QED
  BY <1>2, <1>6, <1>7

\* ... or one is appended.
LEMMA SumAppend ==
  ASSUME NEW n \in Nat, NEW v, \A i \in 1..(n + 1) : v[i] \in Int,
         NEW u, \A i \in 1..n : u[i] = v[i]
  PROVE  Sum(v, 1..(n + 1)) = v[n + 1] + Sum(u, 1..n)
<1>1. IsFiniteSet(1..n) /\ n + 1 \notin 1..n /\ 1..(n + 1) = (1..n) \cup {n + 1}
  BY FS_Interval
<1>2. Sum(v, 1..(n + 1)) = v[n + 1] + Sum(v, 1..n)
  BY <1>1, SumPut
<1>3. Sum(v, 1..n) = Sum(u, 1..n)
  BY <1>1, SumSame
<1>4. QED
  BY <1>2, <1>3

\* The recursion of MapThenSumSet has the sum as its solution ...
LEMMA SumOne ==
  ASSUME NEW S, IsFiniteSet(S), NEW w, \A p \in S : w[p] \in Int
  PROVE  \A T \in SUBSET S : T # {} => Sum(w, T) = w[One(T)] + Sum(w, T \ {One(T)})
<1>1. ASSUME NEW T \in SUBSET S, T # {}
      PROVE  Sum(w, T) = w[One(T)] + Sum(w, T \ {One(T)})
  <2>1. PICK x : x = One(T)
    OBVIOUS
  <2>2. x \in T /\ IsFiniteSet(T) /\ \A p \in T : w[p] \in Int
    BY <1>1, <2>1, OneIn, FS_Subset
  <2>3. Sum(w, T) = w[x] + Sum(w, T \ {x})
    BY <2>2, SumTake
  <2>4. QED
    BY <2>1, <2>3
<1>2. QED
  BY <1>1

\* ... and no other.
LEMMA SumOnly ==
  ASSUME NEW S, IsFiniteSet(S), NEW w, \A p \in S : w[p] \in Int, NEW g,
         \A T \in SUBSET S : g[T] = IF T = {} THEN 0 ELSE w[One(T)] + g[T \ {One(T)}]
  PROVE  g[S] = Sum(w, S)
<1>1. PICK f : f = [T \in SUBSET S |-> Sum(w, T)]
  OBVIOUS
<1>2. \A T \in SUBSET S : f[T] = IF T = {} THEN 0 ELSE w[One(T)] + f[T \ {One(T)}]
  <2>1. \A T \in SUBSET S : T # {} => Sum(w, T) = w[One(T)] + Sum(w, T \ {One(T)})
    BY SumOne
  <2>2. QED
    BY <1>1, <2>1, SumEmpty
<1>3. PICK pick : pick = [T \in SUBSET S |-> One(T)]
  OBVIOUS
<1>4. Alike(g, f, S, pick)
  <2>1. f[{}] = g[{}]
    BY <1>2
  <2>2. ASSUME NEW T \in SUBSET S, T # {}
        PROVE  pick[T] \in T /\ (g[T \ {pick[T]}] = f[T \ {pick[T]}] => g[T] = f[T])
    <3>1. pick[T] = One(T) /\ One(T) \in T
      BY <1>3, <2>2, OneIn
    <3>2. g[T] = w[One(T)] + g[T \ {One(T)}] /\ f[T] = w[One(T)] + f[T \ {One(T)}]
      BY <1>2, <2>2
    <3>3. QED
      BY <3>1, <3>2
  <2>3. QED
    BY <2>1, <2>2 DEF Alike
<1>5. g[S] = f[S]
  BY <1>4, SameFold
<1>6. QED
  BY <1>1, <1>5

\* The same for a fold from the left that adds to a number ...
LEMMA LeftSumTake ==
  ASSUME NEW D \in SUBSET Nat, IsFiniteSet(D), NEW w, \A i \in D : w[i] \in Int, NEW b \in Int
  PROVE  /\ b + Sum(w, {}) = b
         /\ \A T \in SUBSET D : T # {} => b + Sum(w, T) = (b + Sum(w, T \ {Max(T)})) + w[Max(T)]
<1>1. ASSUME NEW T \in SUBSET D, T # {}
      PROVE  b + Sum(w, T) = (b + Sum(w, T \ {Max(T)})) + w[Max(T)]
  <2>1. PICK x : x = Max(T)
    OBVIOUS
  <2>2. IsFiniteSet(T) /\ T \in SUBSET Nat
    BY FS_Subset
  <2>3. x \in T /\ \A p \in T : w[p] \in Int
    BY <1>1, <2>1, <2>2, MaxIn
  <2>4. Sum(w, T) = w[x] + Sum(w, T \ {x})
    BY <2>2, <2>3, SumTake
  <2>5. IsFiniteSet(T \ {x}) /\ \A p \in T \ {x} : w[p] \in Int
    BY <2>2, <2>3, FS_Subset
  <2>6. Sum(w, T \ {x}) \in Int /\ w[x] \in Int
    BY <2>3, <2>5, SumType
  <2>7. QED
    BY <2>1, <2>4, <2>6
<1>2. b + Sum(w, {}) = b
  BY SumEmpty
<1>3. QED
  BY <1>1, <1>2

\* ... and no other.
LEMMA LeftSumOnly ==
  ASSUME NEW D \in SUBSET Nat, IsFiniteSet(D), NEW w, \A i \in D : w[i] \in Int, NEW b \in Int,
         NEW g, \A T \in SUBSET D : g[T] = IF T = {} THEN b ELSE g[T \ {Max(T)}] + w[Max(T)]
  PROVE  g[D] = b + Sum(w, D)
<1>1. PICK f : f = [T \in SUBSET D |-> b + Sum(w, T)]
  OBVIOUS
<1>2. \A T \in SUBSET D : f[T] = IF T = {} THEN b ELSE f[T \ {Max(T)}] + w[Max(T)]
  <2>1. /\ b + Sum(w, {}) = b
        /\ \A T \in SUBSET D : T # {} => b + Sum(w, T) = (b + Sum(w, T \ {Max(T)})) + w[Max(T)]
    BY LeftSumTake
  <2>2. QED
    BY <1>1, <2>1
<1>3. PICK pick : pick = [T \in SUBSET D |-> Max(T)]
  OBVIOUS
<1>4. Alike(g, f, D, pick)
  <2>1. f[{}] = g[{}]
    BY <1>2
  <2>2. ASSUME NEW T \in SUBSET D, T # {}
        PROVE  pick[T] \in T /\ (g[T \ {pick[T]}] = f[T \ {pick[T]}] => g[T] = f[T])
    <3>1. IsFiniteSet(T) /\ T \in SUBSET Nat
      BY FS_Subset
    <3>2. pick[T] = Max(T) /\ Max(T) \in T
      BY <1>3, <2>2, <3>1, MaxIn
    <3>3. g[T] = g[T \ {Max(T)}] + w[Max(T)] /\ f[T] = f[T \ {Max(T)}] + w[Max(T)]
      BY <1>2, <2>2
    <3>4. QED
      BY <3>2, <3>3
  <2>3. QED
    BY <2>1, <2>2 DEF Alike
<1>5. g[D] = f[D]
  BY <1>4, SameFold
<1>6. QED
  BY <1>1, <1>5

\* A sum of multiples is the multiple of the sum.
LEMMA SumScale ==
  ASSUME NEW S, IsFiniteSet(S), NEW w, NEW v, NEW k \in Int,
         \A x \in S : w[x] \in Int /\ v[x] = k * w[x]
  PROVE  Sum(v, S) = k * Sum(w, S)
<1>1. PICK f : f = [T \in SUBSET S |-> Sum(w, T)]
  OBVIOUS
<1>2. \A T \in SUBSET S : f[T] \in Int
  BY <1>1, FS_Subset, SumType
<1>3. \A T \in SUBSET S : f[T] = IF T = {} THEN 0 ELSE w[One(T)] + f[T \ {One(T)}]
  <2>1. \A x \in S : w[x] \in Int
    OBVIOUS
  <2>2. \A T \in SUBSET S : T # {} => Sum(w, T) = w[One(T)] + Sum(w, T \ {One(T)})
    BY <2>1, SumOne
  <2>3. QED
    BY <1>1, <2>2, SumEmpty
<1>4. PICK g : g = [T \in SUBSET S |-> k * f[T]]
  OBVIOUS
<1>5. ASSUME NEW T \in SUBSET S, T # {}
      PROVE  g[T] = v[One(T)] + g[T \ {One(T)}]
  <2>1. PICK x, R : x = One(T) /\ R = T \ {x}
    OBVIOUS
  <2>2. x \in S /\ R \in SUBSET S
    BY <1>5, <2>1, OneIn
  <2>3. f[T] = w[x] + f[R]
    BY <1>3, <1>5, <2>1
  <2>4. g[T] = k * f[T] /\ g[R] = k * f[R] /\ v[x] = k * w[x]
    BY <1>4, <2>2
  <2>5. w[x] \in Int /\ f[R] \in Int
    BY <1>2, <2>2
  <2>6. k * (w[x] + f[R]) = k * w[x] + k * f[R]
    BY <2>5
  <2>7. QED
    BY <2>1, <2>3, <2>4, <2>6
<1>6. g[{}] = 0
  <2>1. f[{}] = 0 /\ g[{}] = k * f[{}]
    BY <1>3, <1>4
  <2>2. k * 0 = 0
    OBVIOUS
  <2>3. QED
    BY <2>1, <2>2
<1>7. \A T \in SUBSET S : g[T] = IF T = {} THEN 0 ELSE v[One(T)] + g[T \ {One(T)}]
  BY <1>5, <1>6
<1>8. \A x \in S : v[x] \in Int
  <2>1. ASSUME NEW x \in S PROVE v[x] \in Int
    <3>1. PICK y \in Int : y = w[x]
      OBVIOUS
    <3>2. k * y \in Int /\ v[x] = k * y
      BY <3>1
    <3>3. QED
      BY <3>2
  <2>2. QED
    BY <2>1
<1>9. g[S] = Sum(v, S)
  BY <1>7, <1>8, SumOnly
<1>10. QED
  BY <1>1, <1>4, <1>9

-----------------------------------------------------------------------------
(* PaperTrading: the accounts of the favourite-side engine.                 *)

Worth == [p \in Position |-> p.price * p.size]

Owed == [p \in Position |-> Cost(p) + p.fee]

In(m, S) == {p \in S : p.leg[1] = m}

Effects(fs) == [i \in DOMAIN fs |-> Effect(fs[i])]

\* What a cycle works on.
Account ==
  [open : SUBSET Position, idle : [Leg -> Int], exposure : [MarketIds -> Nat],
   entries : Nat, fills : Seq(PaperFill)]

\* The positions are told apart by their numbers and their legs, the exposure is
\* their worth, and what they cost and the fills in hand bring is a constant.
AccountOK(u, k) ==
  /\ u \in Account
  /\ IsFiniteSet(u.open)
  /\ \A p \in u.open : p.id < u.entries
  /\ \A p, q \in u.open : p.id = q.id => p = q
  /\ Cardinality(u.open) <= Cfg.maxOpen
  /\ \A p, q \in u.open : p.leg = q.leg => p = q
  /\ \A m \in MarketIds : u.exposure[m] = Sum(Worth, In(m, u.open))
  /\ Sum(Effects(u.fills), DOMAIN u.fills) + Sum(Owed, u.open) = k

PaperInv ==
  /\ pnl \in Int /\ balance \in Int
  /\ AccountOK([open |-> open, idle |-> idle, exposure |-> exposure, entries |-> entries,
                fills |-> fills], pnl - balance)

\* The numbers of the configuration that the accounts depend on.
LEMMA CfgNumbers ==
  /\ Cfg.slip \in Nat /\ Cfg.slip < 100 /\ Cfg.fee \in Nat /\ Cfg.entry \in Nat
  /\ Cfg.maxOpen \in Nat /\ Cfg.cooldown \in Nat /\ Cfg.hyperCooldown \in Nat
  /\ NumMarkets \in Nat
<1>1. \A f \in {"slip", "fee", "entry", "maxOpen", "cooldown", "hyperCooldown"} : Cfg[f] \in Nat
  BY FavouriteAssumption
<1>2. Cfg["slip"] \in Nat /\ Cfg["fee"] \in Nat /\ Cfg["entry"] \in Nat
      /\ Cfg["maxOpen"] \in Nat /\ Cfg["cooldown"] \in Nat /\ Cfg["hyperCooldown"] \in Nat
  BY <1>1
<1>3. QED
  BY <1>2, FavouriteAssumption

LEMMA NearestIsNat ==
  ASSUME NEW n \in Nat, NEW d \in Nat, d > 0
  PROVE  Nearest(n, d) \in Nat
<1>1. n \div d \in Nat
  OBVIOUS
<1>2. PICK q \in Nat : q = n \div d
  BY <1>1
<1>3. Nearest(n, d) = q \/ Nearest(n, d) = q + 1
  BY <1>2 DEF Nearest
<1>4. QED
  BY <1>2, <1>3

\* A position that is entered is a position.
LEMMA EntryNumbers ==
  ASSUME NEW q \in QuoteType, q.ask # Missing
  PROVE  BuyPrice(q.ask) \in Nat /\ Filled(q) \in Nat
<1>1. PICK a : a = q.ask
  OBVIOUS
<1>2. a \in Nat /\ a > 0 /\ q.depth \in Nat
  BY <1>1 DEF QuoteType
<1>3. PICK x : x = a * (100 + Cfg.slip)
  OBVIOUS
<1>4. x \in Nat /\ x > 0
  <2>1. PICK k \in Nat : k = 100 + Cfg.slip /\ k > 0
    BY CfgNumbers
  <2>2. a * k \in Nat /\ a * k > 0
    BY <1>2, <2>1
  <2>3. QED
    BY <1>3, <2>1, <2>2
<1>5. BuyPrice(a) \in Nat /\ BuyPrice(a) > 0
  <2>1. Min({x, 9990}) = IF x <= 9990 THEN x ELSE 9990
    BY <1>4, MinOfTwo
  <2>2. QED
    BY <1>3, <1>4, <2>1 DEF BuyPrice
<1>6. Requested(q) \in Nat
  <2>1. PICK e : e = Cfg.entry * 10000
    OBVIOUS
  <2>2. e \in Nat
    BY <2>1, CfgNumbers
  <2>3. QED
    BY <1>1, <1>5, <2>1, <2>2, NearestIsNat DEF Requested
<1>7. Filled(q) \in Nat
  <2>1. PICK r, d : r = Requested(q) /\ d = q.depth
    OBVIOUS
  <2>2. r \in Int /\ d \in Int /\ r \in Nat /\ d \in Nat
    BY <1>2, <1>6, <2>1
  <2>3. Min({r, d}) = IF r <= d THEN r ELSE d
    BY <2>2, MinOfTwo
  <2>4. QED
    BY <2>1, <2>2, <2>3 DEF Filled
<1>8. QED
  BY <1>1, <1>5, <1>7

LEMMA WorthNumbers ==
  ASSUME NEW p \in Position
  PROVE  Worth[p] \in Nat /\ Owed[p] \in Nat
<1>1. p.price \in Nat /\ p.size \in Nat /\ p.fee \in Nat
  BY DEF Position
<1>2. PICK x : x = p.price * p.size
  OBVIOUS
<1>3. x \in Nat
  BY <1>1, <1>2
<1>4. Worth[p] = x /\ Owed[p] = x * 100 + p.fee
  BY <1>2 DEF Worth, Owed, Cost, Notional
<1>5. QED
  BY <1>1, <1>3, <1>4

LEMMA EffectIsInt ==
  ASSUME NEW f \in PaperFill
  PROVE  Effect(f) \in Int
<1>1. f.notional \in Nat /\ f.fee \in Nat
  BY DEF PaperFill
<1>2. -(f.notional + f.fee) \in Int /\ f.notional - f.fee \in Int
  BY <1>1
<1>3. QED
  BY <1>2 DEF Effect

LEMMA EffectsOfFills ==
  ASSUME NEW fs \in Seq(PaperFill)
  PROVE  /\ DOMAIN fs = 1..Len(fs) /\ Len(fs) \in Nat /\ IsFiniteSet(DOMAIN fs)
         /\ \A i \in 1..Len(fs) : fs[i] \in PaperFill /\ Effects(fs)[i] = Effect(fs[i]) /\ Effects(fs)[i] \in Int
         /\ Sum(Effects(fs), DOMAIN fs) \in Int
<1>1. DOMAIN fs = 1..Len(fs) /\ Len(fs) \in Nat /\ \A i \in 1..Len(fs) : fs[i] \in PaperFill
  OBVIOUS
<1>2. IsFiniteSet(DOMAIN fs)
  BY <1>1, FS_Interval
<1>3. ASSUME NEW i \in 1..Len(fs)
      PROVE  Effects(fs)[i] = Effect(fs[i]) /\ Effects(fs)[i] \in Int
  <2>1. Effects(fs)[i] = Effect(fs[i])
    BY <1>1 DEF Effects
  <2>2. fs[i] \in PaperFill
    BY <1>1
  <2>3. QED
    BY <2>1, <2>2, EffectIsInt
<1>4. Sum(Effects(fs), DOMAIN fs) \in Int
  <2>1. \A i \in DOMAIN fs : Effects(fs)[i] \in Int
    BY <1>1, <1>3
  <2>2. QED
    BY <1>2, <2>1, SumType
<1>5. QED
  BY <1>1, <1>2, <1>3, <1>4

LEMMA EffectsAppend ==
  ASSUME NEW fs \in Seq(PaperFill), NEW f \in PaperFill
  PROVE  Sum(Effects(Append(fs, f)), DOMAIN Append(fs, f)) = Effect(f) + Sum(Effects(fs), DOMAIN fs)
<1>1. PICK gs : gs = Append(fs, f)
  OBVIOUS
<1>2. PICK n \in Nat : n = Len(fs)
  OBVIOUS
<1>3. gs \in Seq(PaperFill) /\ Len(gs) = n + 1 /\ gs[n + 1] = f /\ \A i \in 1..n : gs[i] = fs[i]
  BY <1>1, <1>2
<1>4. PICK v, u : v = Effects(gs) /\ u = Effects(fs)
  OBVIOUS
<1>5. DOMAIN gs = 1..(n + 1) /\ \A i \in 1..(n + 1) : v[i] = Effect(gs[i]) /\ v[i] \in Int
  BY <1>3, <1>4, EffectsOfFills
<1>6. DOMAIN fs = 1..n /\ \A i \in 1..n : u[i] = Effect(fs[i])
  BY <1>2, <1>4, EffectsOfFills
<1>7. \A i \in 1..n : u[i] = v[i]
  BY <1>3, <1>5, <1>6
<1>8. \A i \in 1..(n + 1) : v[i] \in Int
  BY <1>5
<1>9. Sum(v, 1..(n + 1)) = v[n + 1] + Sum(u, 1..n)
  BY <1>7, <1>8, SumAppend
<1>10. v[n + 1] = Effect(f)
  BY <1>3, <1>5
<1>11. QED
  BY <1>1, <1>4, <1>5, <1>6, <1>9, <1>10

LEMMA EffectsTail ==
  ASSUME NEW fs \in Seq(PaperFill), fs # <<>>
  PROVE  /\ Head(fs) \in PaperFill /\ Tail(fs) \in Seq(PaperFill)
         /\ Sum(Effects(fs), DOMAIN fs) = Effect(Head(fs)) + Sum(Effects(Tail(fs)), DOMAIN Tail(fs))
<1>1. PICK gs : gs = Tail(fs)
  OBVIOUS
<1>2. PICK n \in Nat : n = Len(fs)
  OBVIOUS
<1>3. /\ n > 0 /\ gs \in Seq(PaperFill) /\ Len(gs) = n - 1 /\ fs[1] = Head(fs) /\ Head(fs) \in PaperFill
      /\ \A i \in 1..(n - 1) : gs[i] = fs[i + 1]
  BY <1>1, <1>2
<1>4. PICK v, u : v = Effects(fs) /\ u = Effects(gs)
  OBVIOUS
<1>5. DOMAIN fs = 1..n /\ \A i \in 1..n : v[i] = Effect(fs[i]) /\ v[i] \in Int
  BY <1>2, <1>4, EffectsOfFills
<1>6. DOMAIN gs = 1..(n - 1) /\ \A i \in 1..(n - 1) : u[i] = Effect(gs[i])
  BY <1>3, <1>4, EffectsOfFills
<1>7. \A i \in 1..(n - 1) : u[i] = v[i + 1]
  <2>1. \A i \in 1..(n - 1) : i + 1 \in 1..n
    OBVIOUS
  <2>2. QED
    BY <1>3, <1>5, <1>6, <2>1
<1>8. \A i \in 1..n : v[i] \in Int
  BY <1>5
<1>9. Sum(v, 1..n) = v[1] + Sum(u, 1..(n - 1))
  BY <1>3, <1>7, <1>8, SumTail
<1>10. v[1] = Effect(Head(fs))
  BY <1>3, <1>5
<1>11. QED
  BY <1>1, <1>3, <1>4, <1>5, <1>6, <1>9, <1>10

\* What is in a market of a set with one more position.
LEMMA InPut ==
  ASSUME NEW S, NEW p, NEW m
  PROVE  In(m, S \cup {p}) = IF p.leg[1] = m THEN In(m, S) \cup {p} ELSE In(m, S)
BY DEF In

LEMMA InPart ==
  ASSUME NEW S \in SUBSET Position, IsFiniteSet(S), NEW m
  PROVE  In(m, S) \in SUBSET S /\ IsFiniteSet(In(m, S)) /\ \A p \in In(m, S) : p \in Position
<1>1. In(m, S) \in SUBSET S
  BY DEF In
<1>2. QED
  BY <1>1, FS_Subset

\* An entry within the limits keeps the accounts.
LEMMA EnterKeeps ==
  ASSUME NEW u, NEW k \in Int, AccountOK(u, k), NEW l \in Leg, NEW q \in QuoteType,
         q.ask # Missing, WithinRisk(u, l, q)
  PROVE  AccountOK(Enter(u, l, q), k)
<1>1. PICK price, size \in Nat : price = BuyPrice(q.ask) /\ size = Filled(q)
  BY EntryNumbers
<1>2. PICK fee : fee = Fee(price, size)
  OBVIOUS
<1>3. PICK n : n = price * size
  OBVIOUS
<1>4. fee \in Nat /\ n \in Nat /\ Notional(price, size) = n * 100 /\ Notional(price, size) \in Nat
  <2>1. n \in Nat
    BY <1>3
  <2>2. n * Cfg.fee \in Nat /\ n * 100 \in Nat
    BY <2>1, CfgNumbers
  <2>3. QED
    BY <1>2, <1>3, <2>1, <2>2 DEF Fee, Notional
<1>5. PICK p, f :
        /\ p = [id |-> u.entries, leg |-> l, price |-> price, size |-> size, fee |-> fee]
        /\ f = [side |-> "Buy", notional |-> Notional(price, size), fee |-> fee]
  OBVIOUS
<1>6. PICK after : after = Enter(u, l, q)
  OBVIOUS
<1>7. u \in Account /\ IsFiniteSet(u.open) /\ u.open \in SUBSET Position /\ u.entries \in Nat
      /\ u.fills \in Seq(PaperFill) /\ u.exposure \in [MarketIds -> Nat] /\ u.idle \in [Leg -> Int]
  BY DEF AccountOK, Account
<1>8. p \in Position /\ f \in PaperFill /\ l[1] \in MarketIds
  BY <1>1, <1>4, <1>5, <1>7 DEF Position, PaperFill, Leg
<1>9. after = [u EXCEPT !.open = @ \cup {p}, !.idle[l] = 0, !.exposure[l[1]] = @ + n,
                        !.entries = @ + 1, !.fills = Append(@, f)]
  BY <1>1, <1>2, <1>3, <1>5, <1>6 DEF Enter
<1>10. /\ after.open = u.open \cup {p} /\ after.entries = u.entries + 1
       /\ after.fills = Append(u.fills, f)
       /\ after.exposure = [u.exposure EXCEPT ![l[1]] = @ + n]
       /\ after.idle = [u.idle EXCEPT ![l] = 0]
       /\ after \in Account
  <2>1. /\ after.open = u.open \cup {p} /\ after.entries = u.entries + 1
        /\ after.fills = Append(u.fills, f)
        /\ after.exposure = [u.exposure EXCEPT ![l[1]] = @ + n]
        /\ after.idle = [u.idle EXCEPT ![l] = 0]
    BY <1>7, <1>9 DEF Account
  <2>2. u.open \cup {p} \in SUBSET Position /\ u.entries + 1 \in Nat
    BY <1>7, <1>8
  <2>3. Append(u.fills, f) \in Seq(PaperFill)
    BY <1>7, <1>8
  <2>4. [u.exposure EXCEPT ![l[1]] = @ + n] \in [MarketIds -> Nat]
    BY <1>4, <1>7, <1>8
  <2>5. [u.idle EXCEPT ![l] = 0] \in [Leg -> Int]
    BY <1>7
  <2>6. QED
    BY <1>7, <1>9, <2>2, <2>3, <2>4, <2>5 DEF Account
<1>11. p \notin u.open /\ \A x \in u.open : x.leg # l /\ x.id < u.entries
  <2>1. \A x \in u.open : x.leg # l
    BY DEF WithinRisk
  <2>2. p.leg = l
    BY <1>5
  <2>3. QED
    BY <2>1, <2>2 DEF AccountOK
<1>12. /\ IsFiniteSet(after.open)
       /\ Cardinality(after.open) <= Cfg.maxOpen
  <2>1. Cardinality(u.open) \in Nat /\ Cardinality(u.open) < Cfg.maxOpen
    BY <1>7, FS_CardinalityType DEF WithinRisk
  <2>2. IsFiniteSet(u.open \cup {p}) /\ Cardinality(u.open \cup {p}) = Cardinality(u.open) + 1
    BY <1>7, <1>11, FS_AddElement
  <2>3. QED
    BY <1>10, <2>1, <2>2, CfgNumbers
<1>13. \A x \in after.open : x.id < after.entries
  <2>1. \A x \in u.open : x.id \in Nat
    BY <1>7 DEF Position
  <2>2. ASSUME NEW x \in after.open PROVE x.id < u.entries + 1
    <3>1. CASE x = p
      BY <1>5, <1>7, <3>1
    <3>2. CASE x \in u.open
      BY <1>7, <1>11, <2>1, <3>2
    <3>3. QED
      BY <1>10, <3>1, <3>2
  <2>3. QED
    BY <1>10, <2>2
<1>14. \A x, y \in after.open : x.id = y.id => x = y
  <2>1. \A x \in u.open : x.id # p.id
    <3>1. \A x \in u.open : x.id \in Nat
      BY <1>7 DEF Position
    <3>2. p.id = u.entries
      BY <1>5
    <3>3. QED
      BY <1>7, <1>11, <3>1, <3>2
  <2>2. \A x, y \in u.open : x.id = y.id => x = y
    BY DEF AccountOK
  <2>3. QED
    BY <1>10, <2>1, <2>2
<1>15. \A x, y \in after.open : x.leg = y.leg => x = y
  <2>1. \A x \in u.open : x.leg # p.leg
    BY <1>5, <1>11
  <2>2. \A x, y \in u.open : x.leg = y.leg => x = y
    BY DEF AccountOK
  <2>3. QED
    BY <1>10, <2>1, <2>2
<1>16. Worth[p] = n /\ Owed[p] = n * 100 + fee
  BY <1>3, <1>5, <1>8 DEF Worth, Owed, Cost, Notional
<1>17. ASSUME NEW m \in MarketIds
       PROVE  after.exposure[m] = Sum(Worth, In(m, after.open))
  <2>1. u.exposure[m] = Sum(Worth, In(m, u.open)) /\ u.exposure[m] \in Nat
    BY <1>7 DEF AccountOK
  <2>2. p.leg[1] = l[1]
    BY <1>5
  <2>3. CASE m = l[1]
    <3>1. after.exposure[m] = u.exposure[m] + n
      BY <1>7, <1>8, <1>10, <2>3
    <3>2. In(m, after.open) = In(m, u.open) \cup {p}
      <4>1. In(m, u.open \cup {p}) = IF p.leg[1] = m THEN In(m, u.open) \cup {p} ELSE In(m, u.open)
        BY InPut
      <4>2. QED
        BY <1>10, <2>2, <2>3, <4>1
    <3>3. PICK S : S = In(m, u.open)
      OBVIOUS
    <3>4. IsFiniteSet(S) /\ p \notin S /\ \A y \in S : y \in Position
      BY <1>7, <1>11, <3>3, InPart
    <3>5. \A y \in S \cup {p} : Worth[y] \in Int
      BY <1>8, <3>4, WorthNumbers
    <3>6. Sum(Worth, S \cup {p}) = Worth[p] + Sum(Worth, S)
      BY <3>4, <3>5, SumPut
    <3>7. QED
      BY <1>4, <1>16, <2>1, <3>1, <3>2, <3>3, <3>6
  <2>4. CASE m # l[1]
    <3>1. after.exposure[m] = u.exposure[m]
      BY <1>7, <1>8, <1>10, <2>4
    <3>2. In(m, after.open) = In(m, u.open)
      <4>1. In(m, u.open \cup {p}) = IF p.leg[1] = m THEN In(m, u.open) \cup {p} ELSE In(m, u.open)
        BY InPut
      <4>2. QED
        BY <1>10, <2>2, <2>4, <4>1
    <3>3. QED
      BY <2>1, <3>1, <3>2
  <2>5. QED
    BY <2>3, <2>4
<1>18. Sum(Effects(after.fills), DOMAIN after.fills) + Sum(Owed, after.open) = k
  <2>1. PICK e : e = Sum(Effects(u.fills), DOMAIN u.fills)
    OBVIOUS
  <2>2. e \in Int
    BY <1>7, <2>1, EffectsOfFills
  <2>3. PICK o : o = Sum(Owed, u.open)
    OBVIOUS
  <2>4. \A x \in u.open \cup {p} : Owed[x] \in Int
    BY <1>7, <1>8, WorthNumbers
  <2>5. o \in Int
    BY <1>7, <2>3, <2>4, SumType
  <2>6. Sum(Owed, after.open) = Owed[p] + o
    <3>1. PICK S : S = u.open
      OBVIOUS
    <3>2. IsFiniteSet(S) /\ p \notin S /\ \A x \in S \cup {p} : Owed[x] \in Int
      BY <1>7, <1>11, <2>4, <3>1
    <3>3. Sum(Owed, S \cup {p}) = Owed[p] + Sum(Owed, S)
      BY <3>2, SumPut
    <3>4. QED
      BY <1>10, <2>3, <3>1, <3>3
  <2>7. Sum(Effects(after.fills), DOMAIN after.fills) = Effect(f) + e
    BY <1>7, <1>8, <1>10, <2>1, EffectsAppend
  <2>8. Effect(f) = -(n * 100 + fee)
    BY <1>4, <1>5 DEF Effect
  <2>9. e + o = k
    BY <2>1, <2>3 DEF AccountOK
  <2>10. PICK x : x = n * 100 + fee
    OBVIOUS
  <2>11. x \in Int
    BY <1>4, <2>10
  <2>12. (-x + e) + (x + o) = e + o
    BY <2>2, <2>5, <2>11
  <2>13. QED
    BY <1>16, <2>6, <2>7, <2>8, <2>9, <2>10, <2>12
<1>19. QED
  BY <1>6, <1>10, <1>12, <1>13, <1>14, <1>15, <1>17, <1>18 DEF AccountOK

LEMMA MaybeEnterKeeps ==
  ASSUME NEW u, NEW k \in Int, AccountOK(u, k), NEW l \in Leg, NEW q \in QuoteType
  PROVE  AccountOK(MaybeEnter(u, l, q), k)
<1>1. CASE Attractive(q) /\ WithinRisk(u, l, q) /\ Executable(q)
  <2>1. q.ask # Missing
    BY <1>1 DEF Attractive, TwoSided
  <2>2. AccountOK(Enter(u, l, q), k)
    BY <1>1, <2>1, EnterKeeps
  <2>3. MaybeEnter(u, l, q) = Enter(u, l, q)
    BY <1>1 DEF MaybeEnter
  <2>4. QED
    BY <2>2, <2>3
<1>2. CASE ~(Attractive(q) /\ WithinRisk(u, l, q) /\ Executable(q))
  BY <1>2 DEF MaybeEnter
<1>3. QED
  BY <1>1, <1>2

LEMMA LegsAre ==
  /\ DOMAIN LegsInOrder = 1..(2 * NumMarkets) /\ IsFiniteSet(DOMAIN LegsInOrder)
  /\ DOMAIN LegsInOrder \in SUBSET Nat
  /\ \A i \in DOMAIN LegsInOrder : LegsInOrder[i] \in Leg
<1>1. NumMarkets \in Nat /\ 2 * NumMarkets \in Nat
  BY CfgNumbers
<1>2. DOMAIN LegsInOrder = 1..(2 * NumMarkets)
  BY DEF LegsInOrder
<1>3. IsFiniteSet(1..(2 * NumMarkets))
  BY <1>1, FS_Interval
<1>4. ASSUME NEW i \in 1..(2 * NumMarkets)
      PROVE  LegsInOrder[i] \in Leg
  <2>1. PICK n \in Nat : n = NumMarkets
    BY <1>1
  <2>2. i \in Nat /\ i >= 1 /\ i <= 2 * n
    BY <1>1, <2>1
  <2>3. (i + 1) \div 2 \in 1..n
    BY <2>1, <2>2
  <2>4. LegsInOrder[i][1] = (i + 1) \div 2 /\ LegsInOrder[i] = <<LegsInOrder[i][1], LegsInOrder[i][2]>>
        /\ LegsInOrder[i][2] \in {"yes", "no"}
    BY DEF LegsInOrder
  <2>5. QED
    BY <2>1, <2>3, <2>4 DEF Leg, MarketIds
<1>5. QED
  BY <1>1, <1>2, <1>3, <1>4

\* All entries of a cycle keep the accounts.
LEMMA EntriesKeep ==
  ASSUME NEW u, NEW k \in Int, AccountOK(u, k), NEW ms, NEW gone, NEW book \in [Leg -> QuoteType]
  PROVE  AccountOK(EntriesFrom(u, ms, gone, book), k)
<1>1. PICK D : D = DOMAIN LegsInOrder
  OBVIOUS
<1>2. IsFiniteSet(D) /\ D \in SUBSET Nat /\ \A i \in D : LegsInOrder[i] \in Leg
  BY <1>1, LegsAre
<1>3. PICK U : U = {v \in Account : AccountOK(v, k)}
  OBVIOUS
<1>4. u \in U /\ \A v : v \in U <=> AccountOK(v, k)
  BY <1>3 DEF AccountOK
<1> DEFINE Step(v, i) == IF LegsInOrder[i][1] \in ms \ gone
                         THEN MaybeEnter(v, LegsInOrder[i], book[LegsInOrder[i]]) ELSE v
<1>5. PICK step, pick :
        /\ step = [x \in U \X D |-> Step(x[1], x[2])]
        /\ pick = [T \in SUBSET D |-> Max(T)]
  OBVIOUS
<1>6. ASSUME NEW v \in U, NEW i \in D
      PROVE  step[<<v, i>>] = Step(v, i) /\ step[<<v, i>>] \in U
  <2>1. step[<<v, i>>] = Step(v, i)
    BY <1>5
  <2>2. AccountOK(v, k) /\ LegsInOrder[i] \in Leg /\ book[LegsInOrder[i]] \in QuoteType
    BY <1>2, <1>4
  <2>3. AccountOK(MaybeEnter(v, LegsInOrder[i], book[LegsInOrder[i]]), k)
    BY <2>2, MaybeEnterKeeps
  <2>4. QED
    BY <1>4, <2>1, <2>2, <2>3
<1>7. ASSUME NEW T \in SUBSET D, T # {}
      PROVE  pick[T] = Max(T) /\ Max(T) \in T
  <2>1. IsFiniteSet(T) /\ T \in SUBSET Nat
    BY <1>2, FS_Subset
  <2>2. QED
    BY <1>5, <1>7, <2>1, MaxIn
<1>8. PICK f \in [SUBSET D -> U] : Folds(f, D, u, pick, step)
  <2>1. \A T \in SUBSET D : T # {} => pick[T] \in T
    BY <1>7
  <2>2. \A v \in U, i \in D : step[<<v, i>>] \in U
    BY <1>6
  <2>3. QED
    BY <1>2, <1>4, <2>1, <2>2, FoldExists
<1>9. ASSUME NEW T \in SUBSET D, T # {}
      PROVE  f[T] = Step(f[T \ {Max(T)}], Max(T))
  <2>1. f[T \ {Max(T)}] \in U /\ Max(T) \in D
    BY <1>7, <1>9
  <2>2. f[T] = step[<<f[T \ {pick[T]}], pick[T]>>]
    BY <1>8, <1>9 DEF Folds
  <2>3. QED
    BY <1>6, <1>7, <1>9, <2>1, <2>2
<1>10. f[{}] = u
  BY <1>8 DEF Folds
<1>11. f = [T \in SUBSET D |-> IF T = {} THEN u ELSE Step(f[T \ {Max(T)}], Max(T))]
  BY <1>9, <1>10
<1>12. PICK g : g = CHOOSE h : h = [T \in SUBSET D |-> IF T = {} THEN u ELSE Step(h[T \ {Max(T)}], Max(T))]
  OBVIOUS
<1>13. g = [T \in SUBSET D |-> IF T = {} THEN u ELSE Step(g[T \ {Max(T)}], Max(T))]
  BY <1>11, <1>12
<1>14. Alike(g, f, D, pick)
  <2>1. f[{}] = g[{}]
    BY <1>10, <1>13
  <2>2. ASSUME NEW T \in SUBSET D, T # {}
        PROVE  pick[T] \in T /\ (g[T \ {pick[T]}] = f[T \ {pick[T]}] => g[T] = f[T])
    <3>1. g[T] = Step(g[T \ {Max(T)}], Max(T))
      BY <1>13, <2>2
    <3> HIDE DEF Step
    <3>2. QED
      BY <1>7, <1>9, <2>2, <3>1
  <2>3. QED
    BY <2>1, <2>2 DEF Alike
<1>15. g[D] = f[D]
  BY <1>2, <1>14, SameFold
<1>16. EntriesFrom(u, ms, gone, book) = g[D]
  BY <1>1, <1>12 DEF EntriesFrom, FoldLeft, MapThenFoldSet
<1>17. QED
  BY <1>4, <1>15, <1>16

\* The cut-off at zero never bites: the exposure that is left is the worth of the
\* positions that stay.
LEMMA ReleasedIs ==
  ASSUME NEW S \in SUBSET Position, IsFiniteSet(S), NEW ps \in SUBSET S, NEW m \in MarketIds,
         exposure[m] = Sum(Worth, In(m, S))
  PROVE  Released(m, ps) = Sum(Worth, In(m, S \ ps)) /\ Released(m, ps) \in Nat
<1>1. PICK A, L, e : A = In(m, S) /\ L = In(m, ps) /\ e = exposure[m]
  OBVIOUS
<1>2. /\ IsFiniteSet(A) /\ L \in SUBSET A /\ IsFiniteSet(L) /\ A \ L = In(m, S \ ps)
      /\ \A x \in A : x \in Position
  <2>1. IsFiniteSet(A) /\ \A x \in A : x \in Position
    BY <1>1, InPart
  <2>2. L \in SUBSET A /\ A \ L = In(m, S \ ps)
    BY <1>1 DEF In
  <2>3. QED
    BY <2>1, <2>2, FS_Subset
<1>3. \A x \in A : Worth[x] \in Nat /\ Worth[x] \in Int
  BY <1>2, WorthNumbers
<1>4. ASSUME NEW T \in SUBSET A
      PROVE  /\ IsFiniteSet(T) /\ Sum(Worth, T) \in Nat /\ e - Sum(Worth, T) \in Nat
             /\ e - Sum(Worth, T) = Sum(Worth, A \ T)
  <2>1. IsFiniteSet(T) /\ IsFiniteSet(A \ T) /\ A \ T \in SUBSET A
    BY <1>2, FS_Subset
  <2>2. (\A x \in T : Worth[x] \in Nat) /\ (\A x \in A \ T : Worth[x] \in Nat)
    BY <1>3
  <2>3. Sum(Worth, T) \in Nat /\ Sum(Worth, A \ T) \in Nat
    BY <2>1, <2>2, SumNat
  <2>4. \A x \in A : Worth[x] \in Int
    BY <1>3
  <2>5. Sum(Worth, A) = Sum(Worth, T) + Sum(Worth, A \ T)
    BY <1>2, <2>4, SumUnion
  <2>6. QED
    BY <1>1, <2>1, <2>3, <2>5
<1>17. e \in Int
  <2>1. e = Sum(Worth, A) /\ A \in SUBSET A
    BY <1>1
  <2>2. Sum(Worth, A) \in Nat
    BY <1>4, <2>1
  <2>3. QED
    BY <2>1, <2>2
<1>5. PICK f : f = [T \in SUBSET L |-> e - Sum(Worth, T)]
  OBVIOUS
<1>6. ASSUME NEW T \in SUBSET L, T # {}
      PROVE  f[T] = Max({f[T \ {One(T)}] - One(T).price * One(T).size, 0})
  <2>1. PICK x, n : x = One(T) /\ n = x.price * x.size
    OBVIOUS
  <2>2. x \in T /\ x \in A /\ T \in SUBSET A /\ T \ {x} \in SUBSET A
    BY <1>2, <1>6, <2>1, OneIn
  <2>3. Worth[x] = n /\ n \in Nat
    BY <1>2, <1>3, <2>1, <2>2 DEF Worth
  <2>4. Sum(Worth, T) = n + Sum(Worth, T \ {x})
    <3>1. IsFiniteSet(T) /\ \A y \in T : Worth[y] \in Int
      BY <1>3, <1>4, <2>2
    <3>2. QED
      BY <2>2, <2>3, <3>1, SumTake
  <2>5. f[T] = e - Sum(Worth, T) /\ f[T \ {x}] = e - Sum(Worth, T \ {x})
    BY <1>5
  <2>6. Sum(Worth, T \ {x}) \in Nat /\ e - Sum(Worth, T) \in Nat /\ e \in Int
    <3>1. Sum(Worth, T \ {x}) \in Nat /\ e - Sum(Worth, T) \in Nat
      BY <1>4, <2>2
    <3>2. e \in Int
      BY <1>17
    <3>3. QED
      BY <3>1, <3>2
  <2>7. PICK d : d = f[T \ {x}] - n
    OBVIOUS
  <2>8. d = f[T] /\ d \in Nat /\ d \in Int
    BY <2>3, <2>4, <2>5, <2>6, <2>7
  <2>9. Max({d, 0}) = IF d >= 0 THEN d ELSE 0
    BY <2>8, MaxOfTwo
  <2>10. QED
    BY <2>1, <2>7, <2>8, <2>9
<1>7. f[{}] = e
  <2>1. f[{}] = e - Sum(Worth, {})
    BY <1>5
  <2>2. QED
    BY <1>17, <2>1, SumEmpty
<1>8. f = [T \in SUBSET L |-> IF T = {} THEN e ELSE Max({f[T \ {One(T)}] - One(T).price * One(T).size, 0})]
  BY <1>5, <1>6, <1>7
<1>9. PICK g : g = CHOOSE h : h = [T \in SUBSET L |-> IF T = {} THEN e ELSE Max({h[T \ {One(T)}] - One(T).price * One(T).size, 0})]
  OBVIOUS
<1>10. g = [T \in SUBSET L |-> IF T = {} THEN e ELSE Max({g[T \ {One(T)}] - One(T).price * One(T).size, 0})]
  BY <1>8, <1>9
<1>11. PICK pick : pick = [T \in SUBSET L |-> One(T)]
  OBVIOUS
<1>12. Alike(g, f, L, pick)
  <2>1. f[{}] = g[{}]
    BY <1>7, <1>10
  <2>2. ASSUME NEW T \in SUBSET L, T # {}
        PROVE  pick[T] \in T /\ (g[T \ {pick[T]}] = f[T \ {pick[T]}] => g[T] = f[T])
    <3>1. g[T] = Max({g[T \ {One(T)}] - One(T).price * One(T).size, 0})
      BY <1>10, <2>2
    <3>2. pick[T] = One(T) /\ One(T) \in T
      BY <1>11, <2>2, OneIn
    <3>3. QED
      BY <1>6, <2>2, <3>1, <3>2
  <2>3. QED
    BY <2>1, <2>2 DEF Alike
<1>13. g[L] = f[L]
  BY <1>2, <1>12, SameFold
<1>14. Released(m, ps) = g[L]
  BY <1>1, <1>9 DEF Released, FoldSet, MapThenFoldSet, One, In
<1>15. f[L] = e - Sum(Worth, L)
  BY <1>5
<1>16. QED
  BY <1>2, <1>4, <1>13, <1>14, <1>15

\* A set made a sequence has each of its elements in one place.
LEMMA SeqOfSet ==
  ASSUME NEW S, IsFiniteSet(S)
  PROVE  /\ Cardinality(S) \in Nat
         /\ SetToSeq(S) \in [1..Cardinality(S) -> S]
         /\ OneToOne(SetToSeq(S), 1..Cardinality(S))
         /\ S = Img(SetToSeq(S), 1..Cardinality(S))
<1>1. PICK n, q : n = Cardinality(S) /\ q = SetToSeq(S)
  OBVIOUS
<1>2. n \in Nat /\ ExistsBijection(1..n, S)
  BY <1>1, FS_CardinalityType
<1>3. \E f \in [1..n -> S] : IsInjective(f)
  BY <1>2 DEF ExistsBijection, Bijection, Injection
<1>4. q \in [1..n -> S] /\ IsInjective(q)
  BY <1>1, <1>3 DEF SetToSeq
<1>5. q \in Injection(1..n, S)
  BY <1>4 DEF Injection
<1>6. IsFiniteSet(1..n) /\ Cardinality(1..n) = n
  BY <1>2, FS_Interval
<1>7. q \in Surjection(1..n, S)
  BY <1>1, <1>5, <1>6, FS_Injection
<1>8. S = Img(q, 1..n)
  BY <1>4, <1>7 DEF Surjection, Img
<1>9. OneToOne(q, 1..n)
  BY <1>4 DEF IsInjective, OneToOne
<1>10. QED
  BY <1>1, <1>2, <1>4, <1>8, <1>9

\* What a sale brings: the profit the engine counts, and what the position cost.
LEMMA SaleNumbers ==
  ASSUME NEW p \in Position, NEW book \in [Leg -> QuoteType], TwoSided(book[p.leg])
  PROVE  /\ SellFill(p, book) \in PaperFill
         /\ NetProfit(p, book[p.leg].bid) \in Int
         /\ Effect(SellFill(p, book)) = NetProfit(p, book[p.leg].bid) + Owed[p]
<1>1. p.leg \in Leg /\ p.price \in Nat /\ p.size \in Nat /\ p.fee \in Nat
  BY DEF Position
<1>2. book[p.leg].bid \in 1..100
  BY <1>1 DEF QuoteType, TwoSided
<1>3. PICK b \in Nat : b = book[p.leg].bid
  BY <1>2
<1>4. PICK s : s = SellPrice(b)
  OBVIOUS
<1>5. s \in Nat
  <2>1. PICK k \in Nat : k = 100 - Cfg.slip
    BY CfgNumbers
  <2>2. PICK x \in Nat : x = b * k
    OBVIOUS
  <2>3. Max({x, 10}) = IF x >= 10 THEN x ELSE 10
    BY MaxOfTwo
  <2>4. QED
    BY <1>4, <2>1, <2>2, <2>3 DEF SellPrice
<1>6. PICK x, y : x = s * p.size /\ y = p.price * p.size
  OBVIOUS
<1>7. x \in Nat /\ y \in Nat /\ (s - p.price) * p.size = x - y
  BY <1>1, <1>5, <1>6
<1>8. Notional(s, p.size) = x * 100 /\ Notional(s - p.price, p.size) = (x - y) * 100
  BY <1>6, <1>7 DEF Notional
<1>9. PICK fee : fee = Fee(s, p.size)
  OBVIOUS
<1>10. fee \in Nat
  <2>1. fee = x * Cfg.fee
    BY <1>6, <1>9 DEF Fee
  <2>2. QED
    BY <1>7, <2>1, CfgNumbers
<1>11. SellFill(p, book) = [side |-> "Sell", notional |-> x * 100, fee |-> fee]
  BY <1>3, <1>4, <1>8, <1>9 DEF SellFill
<1>12. x * 100 \in Nat
  BY <1>7
<1>13. SellFill(p, book) \in PaperFill
  BY <1>10, <1>11, <1>12 DEF PaperFill
<1>14. Effect(SellFill(p, book)) = x * 100 - fee
  BY <1>11 DEF Effect
<1>15. NetProfit(p, b) = (x - y) * 100 - fee - p.fee
  BY <1>4, <1>8, <1>9 DEF NetProfit
<1>16. Owed[p] = y * 100 + p.fee
  BY <1>6 DEF Owed, Cost, Notional
<1>17. QED
  BY <1>1, <1>3, <1>7, <1>10, <1>13, <1>14, <1>15, <1>16

Sales(S, book) == SetToSeq({[id |-> p.id, fill |-> SellFill(p, book)] : p \in S})

FillsOf(q) == [i \in DOMAIN q |-> q[i].fill]

SaleEffects(S, book) == [p \in S |-> Effect(SellFill(p, book))]

\* The fills of the sales, whatever their order, bring what the sales bring.
LEMMA SaleFills ==
  ASSUME NEW S \in SUBSET Position, IsFiniteSet(S), \A x, y \in S : x.id = y.id => x = y,
         NEW book \in [Leg -> QuoteType], \A x \in S : TwoSided(book[x.leg])
  PROVE  /\ FillsOf(Sales(S, book)) \in Seq(PaperFill)
         /\ Sum(Effects(FillsOf(Sales(S, book))), DOMAIN FillsOf(Sales(S, book)))
              = Sum(SaleEffects(S, book), S)
<1>0. PICK w, q, fs :
        /\ w = SaleEffects(S, book)
        /\ q = Sales(S, book)
        /\ fs = FillsOf(q)
  OBVIOUS
<1>1. PICK b, J, v :
        /\ b = [x \in S |-> [id |-> x.id, fill |-> SellFill(x, book)]]
        /\ J = Img(b, S)
        /\ v = [x \in J |-> Effect(x.fill)]
  OBVIOUS
<1>2. J = {[id |-> x.id, fill |-> SellFill(x, book)] : x \in S}
  BY <1>1 DEF Img
<1>3. \A x \in S : SellFill(x, book) \in PaperFill
  BY SaleNumbers
<1>4. /\ \A x \in S : b[x] \in J /\ b[x].fill = SellFill(x, book) /\ b[x].id = x.id
      /\ \A y \in J : \E x \in S : y = b[x]
  BY <1>1 DEF Img
<1>5. OneToOne(b, S)
  BY <1>4 DEF OneToOne
<1>6. \A x \in J : x.fill \in PaperFill /\ v[x] = Effect(x.fill) /\ v[x] \in Int
  <2>1. \A x \in J : x.fill \in PaperFill /\ v[x] = Effect(x.fill)
    BY <1>1, <1>3, <1>4
  <2>2. QED
    BY <2>1, EffectIsInt
<1>7. Carries(w, v, b, S)
  <2>1. \A x \in S : w[x] = Effect(SellFill(x, book))
    BY <1>0 DEF SaleEffects
  <2>2. QED
    BY <1>4, <1>6, <2>1 DEF Carries
<1>8. Sum(w, S) = Sum(v, J)
  BY <1>1, <1>5, <1>7, SumReindex
<1>9. IsFiniteSet(J)
  BY <1>1, ImageFinite
<1>10. PICK n \in Nat : n = Cardinality(J)
  BY <1>9, FS_CardinalityType
<1>11. q \in [1..n -> J] /\ OneToOne(q, 1..n) /\ J = Img(q, 1..n)
  <2>1. q = SetToSeq(J)
    BY <1>0, <1>2 DEF Sales
  <2>2. QED
    BY <1>9, <1>10, <2>1, SeqOfSet
<1>12. DOMAIN q = 1..n /\ \A i \in 1..n : q[i] \in J /\ fs[i] = q[i].fill
  BY <1>0, <1>11 DEF FillsOf
<1>13. fs \in Seq(PaperFill) /\ DOMAIN fs = 1..n
  <2>1. fs = [i \in 1..n |-> q[i].fill] /\ \A i \in 1..n : q[i].fill \in PaperFill
    BY <1>0, <1>6, <1>12 DEF FillsOf
  <2>2. [i \in 1..n |-> q[i].fill] \in Seq(PaperFill)
    BY <2>1
  <2>3. QED
    BY <2>1, <2>2
<1>14. \A i \in 1..n : v[q[i]] \in Int /\ Effects(fs)[i] = v[q[i]]
  <2>1. ASSUME NEW i \in 1..n PROVE v[q[i]] \in Int /\ Effects(fs)[i] = v[q[i]]
    <3>1. Effects(fs)[i] = Effect(fs[i])
      BY <1>13 DEF Effects
    <3>2. QED
      BY <1>6, <1>12, <3>1
  <2>2. QED
    BY <2>1
<1>15. PICK D : D = 1..n
  OBVIOUS
<1>16. Sum(Effects(fs), D) = Sum(v, Img(q, D))
  <2>1. IsFiniteSet(D)
    BY <1>15, FS_Interval
  <2>2. OneToOne(q, D)
    BY <1>11, <1>15
  <2>3. Carries(Effects(fs), v, q, D)
    BY <1>14, <1>15 DEF Carries
  <2>4. QED
    BY <2>1, <2>2, <2>3, SumReindex
<1>17. QED
  BY <1>0, <1>8, <1>11, <1>13, <1>15, <1>16

\* What the library computes for the profit of the sales, and for what is in
\* open positions, are sums.
LEMMA ProfitIsSum ==
  ASSUME NEW S, IsFiniteSet(S), NEW book,
         NEW w, \A p \in S : w[p] \in Int /\ w[p] = NetProfit(p, book[p.leg].bid)
  PROVE  MapThenSumSet(LAMBDA p : NetProfit(p, book[p.leg].bid), S) = Sum(w, S)
<1> DEFINE Op(p) == NetProfit(p, book[p.leg].bid)
<1>1. \A p \in S : w[p] \in Int
  OBVIOUS
<1>2. PICK f : f = [T \in SUBSET S |-> Sum(w, T)]
  OBVIOUS
<1>3. \A T \in SUBSET S : T # {} => One(T) \in T /\ w[One(T)] = Op(One(T))
  BY OneIn
<1>4. f = [T \in SUBSET S |-> IF T = {} THEN 0 ELSE Op(One(T)) + f[T \ {One(T)}]]
  <2>1. \A T \in SUBSET S : T # {} => Sum(w, T) = w[One(T)] + Sum(w, T \ {One(T)})
    BY <1>1, SumOne
  <2> HIDE DEF Op
  <2>2. QED
    BY <1>2, <1>3, <2>1, SumEmpty
<1>5. PICK g : g = CHOOSE h : h = [T \in SUBSET S |-> IF T = {} THEN 0 ELSE Op(One(T)) + h[T \ {One(T)}]]
  OBVIOUS
<1>6. g = [T \in SUBSET S |-> IF T = {} THEN 0 ELSE Op(One(T)) + g[T \ {One(T)}]]
  BY <1>4, <1>5
<1>7. \A T \in SUBSET S : g[T] = IF T = {} THEN 0 ELSE w[One(T)] + g[T \ {One(T)}]
  <2> HIDE DEF Op
  <2>1. QED
    BY <1>3, <1>6
<1>8. g[S] = Sum(w, S)
  BY <1>1, <1>7, SumOnly
<1>9. MapThenSumSet(LAMBDA p : NetProfit(p, book[p.leg].bid), S) = g[S]
  BY <1>5 DEF MapThenSumSet, MapThenFoldSet, One
<1>10. QED
  BY <1>8, <1>9

LEMMA OwedIsSum ==
  ASSUME NEW S, IsFiniteSet(S), \A p \in S : Owed[p] \in Int /\ Owed[p] = Cost(p) + p.fee
  PROVE  MapThenSumSet(LAMBDA p : Cost(p) + p.fee, S) = Sum(Owed, S)
<1> DEFINE Op(p) == Cost(p) + p.fee
<1>1. \A p \in S : Owed[p] \in Int
  OBVIOUS
<1>2. PICK f : f = [T \in SUBSET S |-> Sum(Owed, T)]
  OBVIOUS
<1>3. \A T \in SUBSET S : T # {} => One(T) \in T /\ Owed[One(T)] = Op(One(T))
  BY OneIn
<1>4. f = [T \in SUBSET S |-> IF T = {} THEN 0 ELSE Op(One(T)) + f[T \ {One(T)}]]
  <2>1. \A T \in SUBSET S : T # {} => Sum(Owed, T) = Owed[One(T)] + Sum(Owed, T \ {One(T)})
    BY <1>1, SumOne
  <2> HIDE DEF Op
  <2>2. QED
    BY <1>2, <1>3, <2>1, SumEmpty
<1>5. PICK g : g = CHOOSE h : h = [T \in SUBSET S |-> IF T = {} THEN 0 ELSE Op(One(T)) + h[T \ {One(T)}]]
  OBVIOUS
<1>6. g = [T \in SUBSET S |-> IF T = {} THEN 0 ELSE Op(One(T)) + g[T \ {One(T)}]]
  BY <1>4, <1>5
<1>7. \A T \in SUBSET S : g[T] = IF T = {} THEN 0 ELSE Owed[One(T)] + g[T \ {One(T)}]
  <2> HIDE DEF Op
  <2>1. QED
    BY <1>3, <1>6
<1>8. g[S] = Sum(Owed, S)
  BY <1>1, <1>7, SumOnly
<1>9. MapThenSumSet(LAMBDA p : Cost(p) + p.fee, S) = g[S]
  BY <1>5 DEF MapThenSumSet, MapThenFoldSet, One
<1>10. QED
  BY <1>8, <1>9

LEMMA CostIsSum ==
  ASSUME NEW S, IsFiniteSet(S), NEW w, \A p \in S : w[p] \in Int /\ w[p] = Cost(p)
  PROVE  MapThenSumSet(Cost, S) = Sum(w, S)
<1>1. \A p \in S : w[p] \in Int
  OBVIOUS
<1>2. PICK f : f = [T \in SUBSET S |-> Sum(w, T)]
  OBVIOUS
<1>3. \A T \in SUBSET S : T # {} => One(T) \in T /\ w[One(T)] = Cost(One(T))
  BY OneIn
<1>4. f = [T \in SUBSET S |-> IF T = {} THEN 0 ELSE Cost(One(T)) + f[T \ {One(T)}]]
  <2>1. \A T \in SUBSET S : T # {} => Sum(w, T) = w[One(T)] + Sum(w, T \ {One(T)})
    BY <1>1, SumOne
  <2>2. QED
    BY <1>2, <1>3, <2>1, SumEmpty
<1>5. PICK g : g = CHOOSE h : h = [T \in SUBSET S |-> IF T = {} THEN 0 ELSE Cost(One(T)) + h[T \ {One(T)}]]
  OBVIOUS
<1>6. g = [T \in SUBSET S |-> IF T = {} THEN 0 ELSE Cost(One(T)) + g[T \ {One(T)}]]
  BY <1>4, <1>5
<1>7. \A T \in SUBSET S : g[T] = IF T = {} THEN 0 ELSE w[One(T)] + g[T \ {One(T)}]
  BY <1>3, <1>6
<1>8. g[S] = Sum(w, S)
  BY <1>1, <1>7, SumOnly
<1>9. MapThenSumSet(Cost, S) = g[S]
  BY <1>5 DEF MapThenSumSet, MapThenFoldSet, One
<1>10. QED
  BY <1>8, <1>9

\* The fold of the ledger over the fills in hand is a sum.
LEMMA LedgerIsSum ==
  ASSUME NEW b \in Int, NEW fs \in Seq(PaperFill)
  PROVE  FoldLeft(LAMBDA x, f : x + Effect(f), b, fs) = b + Sum(Effects(fs), DOMAIN fs)
<1>1. PICK D, w : D = DOMAIN fs /\ w = Effects(fs)
  OBVIOUS
<1>2. D \in SUBSET Nat /\ IsFiniteSet(D) /\ \A i \in D : w[i] \in Int /\ w[i] = Effect(fs[i])
  BY <1>1, EffectsOfFills
<1>3. \A i \in D : w[i] \in Int
  BY <1>2
<1>4. PICK f : f = [T \in SUBSET D |-> b + Sum(w, T)]
  OBVIOUS
<1>5. \A T \in SUBSET D : T # {} => w[Max(T)] = Effect(fs[Max(T)])
  <2>1. ASSUME NEW T \in SUBSET D, T # {} PROVE w[Max(T)] = Effect(fs[Max(T)])
    <3>1. IsFiniteSet(T) /\ T \in SUBSET Nat
      BY <1>2, FS_Subset
    <3>2. Max(T) \in T
      BY <2>1, <3>1, MaxIn
    <3>3. QED
      BY <1>2, <3>2
  <2>2. QED
    BY <2>1
<1>6. f = [T \in SUBSET D |-> IF T = {} THEN b ELSE f[T \ {Max(T)}] + Effect(fs[Max(T)])]
  <2>1. /\ b + Sum(w, {}) = b
        /\ \A T \in SUBSET D : T # {} => b + Sum(w, T) = (b + Sum(w, T \ {Max(T)})) + w[Max(T)]
    BY <1>2, <1>3, LeftSumTake
  <2>2. \A T \in SUBSET D : f[T] = IF T = {} THEN b ELSE f[T \ {Max(T)}] + Effect(fs[Max(T)])
    BY <1>4, <1>5, <2>1
  <2>3. QED
    BY <1>4, <2>2
<1>7. PICK g : g = CHOOSE h : h = [T \in SUBSET D |-> IF T = {} THEN b ELSE h[T \ {Max(T)}] + Effect(fs[Max(T)])]
  OBVIOUS
<1>8. g = [T \in SUBSET D |-> IF T = {} THEN b ELSE g[T \ {Max(T)}] + Effect(fs[Max(T)])]
  BY <1>6, <1>7
<1>9. \A T \in SUBSET D : g[T] = IF T = {} THEN b ELSE g[T \ {Max(T)}] + w[Max(T)]
  BY <1>5, <1>8
<1>10. g[D] = b + Sum(w, D)
  BY <1>2, <1>3, <1>9, LeftSumOnly
<1>11. FoldLeft(LAMBDA x, f_1 : x + Effect(f_1), b, fs) = g[D]
  BY <1>1, <1>7 DEF FoldLeft, MapThenFoldSet
<1>12. QED
  BY <1>1, <1>10, <1>11

\* A sum over a set without a part, and what two sums over the part make.
LEMMA SumPart ==
  ASSUME NEW S, IsFiniteSet(S), NEW T \in SUBSET S, NEW w, \A x \in S : w[x] \in Int
  PROVE  /\ IsFiniteSet(T) /\ IsFiniteSet(S \ T)
         /\ Sum(w, T) \in Int /\ Sum(w, S \ T) \in Int /\ Sum(w, S) \in Int
         /\ Sum(w, S) = Sum(w, T) + Sum(w, S \ T)
<1>1. IsFiniteSet(T) /\ IsFiniteSet(S \ T)
  BY FS_Subset
<1>2. (\A x \in T : w[x] \in Int) /\ (\A x \in S \ T : w[x] \in Int)
  OBVIOUS
<1>3. Sum(w, T) \in Int /\ Sum(w, S \ T) \in Int /\ Sum(w, S) \in Int
  BY <1>1, <1>2, SumType
<1>4. QED
  BY <1>1, <1>3, SumUnion

\* The sales of a cycle keep the accounts, with their profit.
LEMMA SalesKeep ==
  ASSUME PaperInv, fills = <<>>, NEW book \in [Leg -> QuoteType], NEW L,
         L = {p \in open : ShouldExit(p, book[p.leg])},
         NEW u, u = [open |-> open \ L, idle |-> idle,
                     exposure |-> [m \in MarketIds |-> Released(m, L)],
                     entries |-> entries, fills |-> FillsOf(Sales(L, book))],
         NEW gained, gained = MapThenSumSet(LAMBDA p : NetProfit(p, book[p.leg].bid), L)
  PROVE  gained \in Int /\ AccountOK(u, (pnl + gained) - balance)
<1>1. /\ open \in SUBSET Position /\ IsFiniteSet(open) /\ idle \in [Leg -> Int]
      /\ exposure \in [MarketIds -> Nat] /\ entries \in Nat /\ pnl \in Int /\ balance \in Int
      /\ \A p \in open : p.id < entries
      /\ \A p, q \in open : p.id = q.id => p = q
      /\ Cardinality(open) <= Cfg.maxOpen
      /\ \A p, q \in open : p.leg = q.leg => p = q
      /\ \A m \in MarketIds : exposure[m] = Sum(Worth, In(m, open))
      /\ Sum(Effects(fills), DOMAIN fills) + Sum(Owed, open) = pnl - balance
  BY DEF PaperInv, AccountOK, Account
<1>2. L \in SUBSET open /\ IsFiniteSet(L) /\ L \in SUBSET Position /\ IsFiniteSet(open \ L)
      /\ Cardinality(open \ L) <= Cardinality(open)
  BY <1>1, FS_Subset
<1>3. \A p \in L : p \in Position /\ TwoSided(book[p.leg])
  BY <1>2 DEF ShouldExit
<1>4. PICK w : w = [p \in L |-> NetProfit(p, book[p.leg].bid)]
  OBVIOUS
<1>5. \A p \in L : w[p] \in Int /\ w[p] = NetProfit(p, book[p.leg].bid)
                   /\ SaleEffects(L, book)[p] = w[p] + Owed[p] /\ Owed[p] \in Int
  <2>1. ASSUME NEW p \in L
        PROVE  w[p] \in Int /\ w[p] = NetProfit(p, book[p.leg].bid)
               /\ SaleEffects(L, book)[p] = w[p] + Owed[p] /\ Owed[p] \in Int
    <3>1. p \in Position /\ TwoSided(book[p.leg])
      BY <1>3
    <3>2. NetProfit(p, book[p.leg].bid) \in Int
          /\ Effect(SellFill(p, book)) = NetProfit(p, book[p.leg].bid) + Owed[p]
      BY <3>1, SaleNumbers
    <3>3. SaleEffects(L, book)[p] = Effect(SellFill(p, book))
      BY DEF SaleEffects
    <3>4. Owed[p] \in Int
      BY <3>1, WorthNumbers
    <3>5. QED
      BY <1>4, <3>2, <3>3, <3>4
  <2>2. QED
    BY <2>1
<1>6. gained = Sum(w, L) /\ gained \in Int
  <2>1. \A p \in L : w[p] \in Int /\ w[p] = NetProfit(p, book[p.leg].bid)
    BY <1>5
  <2>2. MapThenSumSet(LAMBDA p : NetProfit(p, book[p.leg].bid), L) = Sum(w, L)
    BY <1>2, <2>1, ProfitIsSum
  <2>3. \A p \in L : w[p] \in Int
    BY <1>5
  <2>4. Sum(w, L) \in Int
    BY <1>2, <2>3, SumType
  <2>5. QED
    BY <2>2, <2>4
<1>7. PICK fs : fs = FillsOf(Sales(L, book))
  OBVIOUS
<1>8. fs \in Seq(PaperFill) /\ Sum(Effects(fs), DOMAIN fs) = Sum(SaleEffects(L, book), L)
  <2>1. \A x, y \in L : x.id = y.id => x = y
    BY <1>1, <1>2
  <2>2. \A x \in L : TwoSided(book[x.leg])
    BY <1>3
  <2>3. QED
    BY <1>2, <1>7, <2>1, <2>2, SaleFills
<1>9. Sum(SaleEffects(L, book), L) = gained + Sum(Owed, L)
  <2>1. Both(SaleEffects(L, book), w, Owed, L)
    BY <1>5 DEF Both
  <2>2. QED
    BY <1>2, <1>6, <2>1, SumPlus
<1>10. /\ Sum(Owed, open) = Sum(Owed, L) + Sum(Owed, open \ L)
       /\ Sum(Owed, L) \in Int /\ Sum(Owed, open \ L) \in Int
  <2>1. \A p \in open : Owed[p] \in Int
    <3>1. \A p \in open : p \in Position
      BY <1>1
    <3>2. QED
      BY <3>1, WorthNumbers
  <2>2. QED
    BY <1>1, <1>2, <2>1, SumPart
<1>11. Sum(Owed, open) = pnl - balance
  <2>1. DOMAIN fills = {}
    OBVIOUS
  <2>2. Sum(Effects(fills), DOMAIN fills) = 0
    BY <2>1, SumEmpty
  <2>3. \A p \in open : Owed[p] \in Int
    <3>1. \A p \in open : p \in Position
      BY <1>1
    <3>2. QED
      BY <3>1, WorthNumbers
  <2>4. Sum(Owed, open) \in Int
    BY <1>1, <2>3, SumType
  <2>5. QED
    BY <1>1, <2>2, <2>4
<1>12. PICK left : left = [m \in MarketIds |-> Released(m, L)]
  OBVIOUS
<1>13. \A m \in MarketIds : left[m] = Sum(Worth, In(m, open \ L)) /\ left[m] \in Nat
  <2>1. ASSUME NEW m \in MarketIds
        PROVE  Released(m, L) = Sum(Worth, In(m, open \ L)) /\ Released(m, L) \in Nat
    BY <1>1, <1>2, ReleasedIs
  <2>2. QED
    BY <1>12, <2>1
<1>14. /\ u.open = open \ L /\ u.entries = entries /\ u.fills = fs /\ u.exposure = left
       /\ u \in Account
  <2>1. u = [open |-> open \ L, idle |-> idle, exposure |-> left, entries |-> entries, fills |-> fs]
    BY <1>7, <1>12
  <2>2. left \in [MarketIds -> Nat]
    BY <1>12, <1>13
  <2>3. open \ L \in SUBSET Position
    BY <1>1
  <2>4. [open |-> open \ L, idle |-> idle, exposure |-> left, entries |-> entries, fills |-> fs]
          \in Account
    BY <1>1, <1>8, <2>2, <2>3 DEF Account
  <2>5. u \in Account
    BY <2>1, <2>4
  <2>6. u.open = open \ L /\ u.entries = entries /\ u.fills = fs /\ u.exposure = left
    BY <2>1
  <2>7. QED
    BY <2>5, <2>6
<1>15. Cardinality(u.open) <= Cfg.maxOpen
  <2>1. Cardinality(open \ L) \in Nat /\ Cardinality(open) \in Nat
    BY <1>1, <1>2, FS_CardinalityType
  <2>2. QED
    BY <1>1, <1>2, <1>14, <2>1, CfgNumbers
<1>16. Sum(Effects(u.fills), DOMAIN u.fills) + Sum(Owed, u.open) = (pnl + gained) - balance
  <2>1. PICK a, b, c : a = Sum(Owed, L) /\ b = Sum(Owed, open \ L) /\ c = Sum(Owed, open)
    OBVIOUS
  <2>2. a \in Int /\ b \in Int /\ c = a + b /\ c = pnl - balance
    BY <1>10, <1>11, <2>1
  <2>3. Sum(Effects(u.fills), DOMAIN u.fills) = gained + a /\ Sum(Owed, u.open) = b
    BY <1>8, <1>9, <1>14, <2>1
  <2>4. pnl \in Int /\ balance \in Int /\ gained \in Int
    BY <1>1, <1>6
  <2>5. \A g, x, y \in Int : a + b = x - y => (g + a) + b = (x + g) - y
    BY <2>2
  <2>6. (gained + a) + b = (pnl + gained) - balance
    BY <2>2, <2>4, <2>5
  <2>7. QED
    BY <2>3, <2>6
<1>17. /\ IsFiniteSet(u.open)
       /\ \A p \in u.open : p.id < u.entries
       /\ \A p, q \in u.open : p.id = q.id => p = q
       /\ \A p, q \in u.open : p.leg = q.leg => p = q
       /\ \A m \in MarketIds : u.exposure[m] = Sum(Worth, In(m, u.open))
  BY <1>1, <1>2, <1>13, <1>14
<1>18. QED
  BY <1>6, <1>14, <1>15, <1>16, <1>17 DEF AccountOK

LEMMA SoldRecord ==
  ASSUME NEW a, NEW b, NEW c, NEW d, NEW q
  PROVE  [[open |-> a, idle |-> b, exposure |-> c, entries |-> d, fills |-> q]
            EXCEPT !.fills = [i \in DOMAIN @ |-> @[i].fill]]
           = [open |-> a, idle |-> b, exposure |-> c, entries |-> d, fills |-> FillsOf(q)]
BY DEF FillsOf

\* A whole cycle, sales and entries, keeps the accounts.
LEMMA CycleKeeps ==
  ASSUME PaperInv, fills = <<>>, NEW book \in [Leg -> QuoteType], NEW ms, NEW gone,
         RunCycle(book, ms, gone), balance' = balance
  PROVE  PaperInv'
<1>1. PICK L : L = {p \in open : ShouldExit(p, book[p.leg])}
  OBVIOUS
<1>2. PICK u : u = [open |-> open \ L, idle |-> idle,
                    exposure |-> [m \in MarketIds |-> Released(m, L)],
                    entries |-> entries, fills |-> FillsOf(Sales(L, book))]
  OBVIOUS
<1>3. PICK gained : gained = MapThenSumSet(LAMBDA p : NetProfit(p, book[p.leg].bid), L)
  OBVIOUS
<1>4. gained \in Int /\ AccountOK(u, (pnl + gained) - balance)
  BY <1>1, <1>2, <1>3, SalesKeep
<1>5. PICK after : after = EntriesFrom(u, ms, gone, book)
  OBVIOUS
<1>6. pnl \in Int /\ balance \in Int
  BY DEF PaperInv
<1>7. AccountOK(after, (pnl + gained) - balance)
  <2>1. (pnl + gained) - balance \in Int
    BY <1>4, <1>6
  <2>2. QED
    BY <1>4, <1>5, <2>1, EntriesKeep
<1>8. /\ open' = after.open /\ idle' = after.idle /\ exposure' = after.exposure
      /\ entries' = after.entries /\ fills' = after.fills
      /\ pnl' = pnl + gained
  <2>1. PICK e, q, a : e = [m \in MarketIds |-> Released(m, L)] /\ q = Sales(L, book) /\ a = open \ L
    OBVIOUS
  <2>3. [[open |-> a, idle |-> idle, exposure |-> e, entries |-> entries, fills |-> q]
           EXCEPT !.fills = [i \in DOMAIN @ |-> @[i].fill]] = u
    <3>1. [[open |-> a, idle |-> idle, exposure |-> e, entries |-> entries, fills |-> q]
             EXCEPT !.fills = [i \in DOMAIN @ |-> @[i].fill]]
          = [open |-> a, idle |-> idle, exposure |-> e, entries |-> entries, fills |-> FillsOf(q)]
      BY ONLY SoldRecord
    <3>2. u = [open |-> a, idle |-> idle, exposure |-> e, entries |-> entries, fills |-> FillsOf(q)]
      BY <1>2, <2>1
    <3>3. QED
      BY <3>1, <3>2
  <2>4. q = SetToSeq({[id |-> p.id, fill |-> SellFill(p, book)] : p \in L})
    BY <2>1 DEF Sales
  <2>5. [[open |-> open \ L, idle |-> idle, exposure |-> [m \in MarketIds |-> Released(m, L)],
          entries |-> entries,
          fills |-> SetToSeq({[id |-> p.id, fill |-> SellFill(p, book)] : p \in L})]
            EXCEPT !.fills = [i \in DOMAIN @ |-> @[i].fill]] = u
    BY <2>1, <2>3, <2>4
  <2>2. QED
    BY <1>1, <1>3, <1>5, <2>5 DEF RunCycle
<1>9. after = [open |-> open', idle |-> idle', exposure |-> exposure', entries |-> entries',
               fills |-> fills']
  <2>1. after \in Account
    BY <1>7 DEF AccountOK
  <2>2. QED
    BY <1>8, <2>1 DEF Account
<1>10. pnl' \in Int /\ balance' \in Int /\ pnl' - balance' = (pnl + gained) - balance
  BY <1>4, <1>6, <1>8
<1>11. QED
  BY <1>7, <1>9, <1>10 DEF PaperInv

\* Booking a fill moves what is in hand to the ledger.
LEMMA BookingKeeps == PaperInv /\ RecordPaperFill => PaperInv'
<1> SUFFICES ASSUME PaperInv, RecordPaperFill PROVE PaperInv'
  OBVIOUS
<1>1. PICK u : u = [open |-> open, idle |-> idle, exposure |-> exposure, entries |-> entries,
                    fills |-> fills]
  OBVIOUS
<1>2. u \in Account /\ fills \in Seq(PaperFill) /\ open \in SUBSET Position /\ IsFiniteSet(open)
      /\ pnl \in Int /\ balance \in Int
      /\ Sum(Effects(fills), DOMAIN fills) + Sum(Owed, open) = pnl - balance
  BY <1>1 DEF PaperInv, AccountOK, Account
<1>3. fills # <<>> /\ balance' = balance + Effect(Head(fills)) /\ fills' = Tail(fills)
      /\ pnl' = pnl /\ open' = open /\ idle' = idle /\ exposure' = exposure /\ entries' = entries
  BY DEF RecordPaperFill
<1>4. /\ Head(fills) \in PaperFill /\ Tail(fills) \in Seq(PaperFill)
      /\ Sum(Effects(fills), DOMAIN fills)
           = Effect(Head(fills)) + Sum(Effects(Tail(fills)), DOMAIN Tail(fills))
  BY <1>2, <1>3, EffectsTail
<1>5. PICK e, s, o : e = Effect(Head(fills)) /\ s = Sum(Effects(Tail(fills)), DOMAIN Tail(fills))
                     /\ o = Sum(Owed, open)
  OBVIOUS
<1>6. e \in Int /\ s \in Int /\ o \in Int
  <2>1. \A p \in open : Owed[p] \in Int
    <3>1. \A p \in open : p \in Position
      BY <1>2
    <3>2. QED
      BY <3>1, WorthNumbers
  <2>2. QED
    BY <1>2, <1>4, <1>5, <2>1, EffectIsInt, EffectsOfFills, SumType
<1>7. (e + s) + o = pnl - balance
  BY <1>2, <1>4, <1>5
<1>8. s + o = pnl - (balance + e) /\ balance + e \in Int
  BY <1>2, <1>6, <1>7
<1>9. PICK v : v = [open |-> open, idle |-> idle, exposure |-> exposure, entries |-> entries,
                    fills |-> Tail(fills)]
  OBVIOUS
<1>10. AccountOK(u, pnl - balance)
  BY <1>1 DEF PaperInv
<1>11. v \in Account /\ v.open = u.open /\ v.entries = u.entries /\ v.exposure = u.exposure
       /\ v.fills = Tail(fills) /\ u.open = open
  BY <1>1, <1>2, <1>4, <1>9 DEF Account
<1>12. Sum(Effects(v.fills), DOMAIN v.fills) + Sum(Owed, v.open) = pnl - (balance + e)
  BY <1>5, <1>8, <1>11
<1>13. AccountOK(v, pnl - (balance + e))
  BY <1>10, <1>11, <1>12 DEF AccountOK
<1>14. QED
  BY <1>2, <1>3, <1>5, <1>8, <1>9, <1>13 DEF PaperInv

LEMMA PaperInitInv == PaperInit => PaperInv
<1> SUFFICES ASSUME PaperInit PROVE PaperInv
  OBVIOUS
<1>1. PICK u : u = [open |-> open, idle |-> idle, exposure |-> exposure, entries |-> entries,
                    fills |-> fills]
  OBVIOUS
<1>2. open = {} /\ fills = <<>> /\ entries = 0 /\ pnl = 0 /\ balance = 0
      /\ exposure = [m \in MarketIds |-> 0] /\ idle = [l \in Leg |-> MaxIdle]
  BY DEF PaperInit, EngineInit
<1>3. MaxIdle \in Int
  <2>1. Max({Cfg.cooldown, Cfg.hyperCooldown})
          = IF Cfg.cooldown >= Cfg.hyperCooldown THEN Cfg.cooldown ELSE Cfg.hyperCooldown
    BY CfgNumbers, MaxOfTwo
  <2>2. QED
    BY <2>1, CfgNumbers DEF MaxIdle
<1>4. u \in Account /\ u.open = {} /\ u.fills = <<>> /\ u.entries = 0
      /\ u.exposure = [m \in MarketIds |-> 0]
  BY <1>1, <1>2, <1>3 DEF Account
<1>5. IsFiniteSet({}) /\ Cardinality({}) = 0 /\ Cfg.maxOpen >= 0
  BY FS_EmptySet, CfgNumbers
<1>6. \A m \in MarketIds : u.exposure[m] = Sum(Worth, In(m, u.open))
  <2>1. \A m : In(m, {}) = {}
    BY DEF In
  <2>2. QED
    BY <1>4, <2>1, SumEmpty
<1>7. Sum(Effects(u.fills), DOMAIN u.fills) = 0 /\ Sum(Owed, u.open) = 0
  <2>1. DOMAIN u.fills = {}
    BY <1>4
  <2>2. QED
    BY <1>4, <2>1, SumEmpty
<1>8. AccountOK(u, 0)
  BY <1>4, <1>5, <1>6, <1>7 DEF AccountOK
<1>9. QED
  BY <1>1, <1>2, <1>8 DEF PaperInv

LEMMA PaperNextInv == PaperInv /\ [PaperNext]_paperVars => PaperInv'
<1> SUFFICES ASSUME PaperInv, [PaperNext]_paperVars PROVE PaperInv'
  OBVIOUS
<1>1. ASSUME NEW book \in Books, DecisionCycle(book) PROVE PaperInv'
  <2>1. book \in [Leg -> QuoteType]
    BY FavouriteAssumption
  <2>2. QED
    BY <1>1, <2>1, CycleKeeps DEF DecisionCycle
<1>2. CASE RecordPaperFill
  BY <1>2, BookingKeeps
<1>3. ASSUME UNCHANGED <<engineVars, balance>> PROVE PaperInv'
  BY <1>3 DEF PaperInv, engineVars
<1>4. ASSUME NEW markets \in Listings, RefreshMarkets(markets) PROVE PaperInv'
  BY <1>3, <1>4 DEF RefreshMarkets
<1>5. CASE Pause
  <2>1. PICK u, v :
          /\ u = [open |-> open, idle |-> idle, exposure |-> exposure, entries |-> entries,
                  fills |-> fills]
          /\ v = [open |-> open, idle |-> idle', exposure |-> exposure, entries |-> entries,
                  fills |-> fills]
    OBVIOUS
  <2>2. idle \in [Leg -> Int] /\ AccountOK(u, pnl - balance) /\ u \in Account
    BY <2>1 DEF PaperInv, AccountOK, Account
  <2>3. MaxIdle \in Int
    <3>1. Max({Cfg.cooldown, Cfg.hyperCooldown})
            = IF Cfg.cooldown >= Cfg.hyperCooldown THEN Cfg.cooldown ELSE Cfg.hyperCooldown
      BY CfgNumbers, MaxOfTwo
    <3>2. QED
      BY <3>1, CfgNumbers DEF MaxIdle
  <2>4. idle' \in [Leg -> Int]
    <3>1. idle' = [l \in Leg |-> Min({idle[l] + 1, MaxIdle})]
      BY <1>5 DEF Pause, EngineElapse
    <3>2. ASSUME NEW l \in Leg PROVE Min({idle[l] + 1, MaxIdle}) \in Int
      <4>1. PICK n \in Int : n = idle[l] + 1
        BY <2>2
      <4>2. Min({n, MaxIdle}) = IF n <= MaxIdle THEN n ELSE MaxIdle
        BY <2>3, MinOfTwo
      <4>3. QED
        BY <2>3, <4>1, <4>2
    <3>3. QED
      BY <3>1, <3>2
  <2>5. v \in Account /\ v.open = u.open /\ v.entries = u.entries /\ v.exposure = u.exposure
        /\ v.fills = u.fills
    BY <2>1, <2>2, <2>4 DEF Account
  <2>6. AccountOK(v, pnl - balance)
    BY <2>2, <2>5 DEF AccountOK
  <2>7. QED
    BY <1>5, <2>1, <2>6 DEF PaperInv, Pause, EngineElapse
<1>6. ASSUME NEW m \in MarketIds, ComeNear(m) \/ End(m) PROVE PaperInv'
  BY <1>3, <1>6 DEF ComeNear, End
<1>7. CASE UNCHANGED paperVars
  BY <1>3, <1>7 DEF paperVars
<1>8. QED
  BY <1>1, <1>2, <1>4, <1>5, <1>6, <1>7 DEF PaperNext

LEMMA PaperInvHeld == PaperSpec => []PaperInv
  BY PaperInitInv, PaperNextInv, PTL DEF PaperSpec

\* The limits that check_risk tests are tested on true numbers and hold, through any
\* order of entries, exits and refreshes: the exposure counted up and down is the
\* cost of the open positions, and there are never more than max_open_positions, one
\* for a leg.
THEOREM RiskIsHeld == PaperSpec => []RiskHeld
<1>1. PaperInv => RiskHeld
  <2> SUFFICES ASSUME PaperInv PROVE RiskHeld
    OBVIOUS
  <2>1. /\ open \in SUBSET Position /\ IsFiniteSet(open)
        /\ Cardinality(open) <= Cfg.maxOpen /\ \A p, q \in open : p.leg = q.leg => p = q
        /\ \A m \in MarketIds : exposure[m] = Sum(Worth, In(m, open))
    BY DEF PaperInv, AccountOK, Account
  <2>2. ASSUME NEW m \in MarketIds
        PROVE  100 * exposure[m] = MapThenSumSet(Cost, {p \in open : p.leg[1] = m})
    <3>1. PICK S, w : S = In(m, open) /\ w = [p \in S |-> 100 * Worth[p]]
      OBVIOUS
    <3>2. IsFiniteSet(S) /\ \A p \in S : p \in Position
      BY <2>1, <3>1, InPart
    <3>3. \A p \in S : Worth[p] \in Int /\ w[p] = 100 * Worth[p]
      BY <3>1, <3>2, WorthNumbers
    <3>4. Sum(w, S) = 100 * Sum(Worth, S)
      BY <3>2, <3>3, SumScale
    <3>5. \A p \in S : w[p] \in Int /\ w[p] = Cost(p)
      <4>1. ASSUME NEW p \in S PROVE w[p] \in Int /\ w[p] = Cost(p)
        <5>1. Worth[p] = p.price * p.size /\ Worth[p] \in Int /\ w[p] = 100 * Worth[p]
          BY <3>2, <3>3 DEF Worth
        <5>2. Cost(p) = p.price * p.size * 100
          BY DEF Cost, Notional
        <5>3. QED
          BY <5>1, <5>2
      <4>2. QED
        BY <4>1
    <3>6. MapThenSumSet(Cost, S) = Sum(w, S)
      BY <3>2, <3>5, CostIsSum
    <3>7. S = {p \in open : p.leg[1] = m}
      BY <3>1 DEF In
    <3>8. QED
      BY <2>1, <3>1, <3>4, <3>6, <3>7
  <2>3. QED
    BY <2>1, <2>2 DEF RiskHeld, ExposureExact, PositionsWithinLimits
<1>2. QED
  BY <1>1, PaperInvHeld, PTL

\* The two accounts agree at every step, also between the fills of one cycle: the
\* ledger with the fills in hand is the reported profit less what is in positions.
THEOREM BalanceIsExplained == PaperSpec => []BalanceExplained
<1>1. PaperInv => BalanceExplained
  <2> SUFFICES ASSUME PaperInv PROVE BalanceExplained
    OBVIOUS
  <2>1. /\ open \in SUBSET Position /\ IsFiniteSet(open) /\ fills \in Seq(PaperFill)
        /\ pnl \in Int /\ balance \in Int
        /\ Sum(Effects(fills), DOMAIN fills) + Sum(Owed, open) = pnl - balance
    BY DEF PaperInv, AccountOK, Account
  <2>2. FoldLeft(LAMBDA b, f : b + Effect(f), balance, fills)
          = balance + Sum(Effects(fills), DOMAIN fills)
    BY <2>1, LedgerIsSum
  <2>3. \A p \in open : Owed[p] \in Int /\ Owed[p] = Cost(p) + p.fee
    <3>1. \A p \in open : p \in Position
      BY <2>1
    <3>2. \A p \in open : Owed[p] = Cost(p) + p.fee
      BY <3>1 DEF Owed
    <3>3. QED
      BY <3>1, <3>2, WorthNumbers
  <2>4. MapThenSumSet(LAMBDA p : Cost(p) + p.fee, open) = Sum(Owed, open)
    BY <2>1, <2>3, OwedIsSum
  <2>5. Sum(Effects(fills), DOMAIN fills) \in Int /\ Sum(Owed, open) \in Int
    <3>1. \A p \in open : Owed[p] \in Int
      BY <2>3
    <3>2. QED
      BY <2>1, <3>1, EffectsOfFills, SumType
  <2>6. PICK s, o : s = Sum(Effects(fills), DOMAIN fills) /\ o = Sum(Owed, open)
    OBVIOUS
  <2>7. balance + s = pnl - o
    BY <2>1, <2>5, <2>6
  <2>8. QED
    BY <2>2, <2>4, <2>6, <2>7 DEF BalanceExplained
<1>2. QED
  BY <1>1, PaperInvHeld, PTL

-----------------------------------------------------------------------------
(* LiveRisk: the risk manager and the trades on their way to it.            *)

Trades == [token : Token, side : Sides, size : Int, gain : {0}]

\* The part of the types that the argument needs: what is counted is a number,
\* and a trade message names a token and a number.
LedgerTypes ==
  /\ inventory \in [Token -> Int]
  /\ known \subseteq Market
  /\ resting \in [Slot -> Int]
  /\ messages \in Seq(Trades)

LedgerInv == LedgerTypes /\ HeldMarketsKnown

LEMMA SignedIsInt ==
  ASSUME NEW side, NEW n \in Int
  PROVE  Signed(side, n) \in Int
BY DEF Signed

LEMMA SharesIsInt ==
  ASSUME NEW cash \in Nat, NEW price \in Nat, price > 0
  PROVE  Shares(cash, price) \in Int
<1>1. cash \div price \in Int
  OBVIOUS
<1> DEFINE n == cash \div price
<1>2. \A b \in BOOLEAN : (IF b THEN n + 1 ELSE n) \in Int
  BY <1>1
<1> QED
  BY <1>2 DEF Shares

LEMMA InitLedgerInv == Init => LedgerInv
BY DEF Init, RiskInit, Listable, LedgerInv, LedgerTypes, HeldMarketsKnown, Flat, Token

\* A trade adds well-formed messages and touches nothing else of the ledger.
LEMMA TradeKeepsMessages ==
  ASSUME LedgerTypes, NEW t \in Token, NEW side \in Sides, NEW n \in Int, Trade(t, side, n)
  PROVE  messages' \in Seq(Trades)
<1> DEFINE r == [token |-> t, side |-> side, size |-> n, gain |-> 0]
<1>1. r \in Trades
  BY DEF Trades
<1>2. PICK c \in 0 .. Cardinality(Statuses) : messages' = messages \o [i \in 1 .. c |-> r]
  BY DEF Trade
<1>3. [i \in 1 .. c |-> r] \in Seq(Trades)
  <2> HIDE DEF r
  <2>1. Cardinality(Statuses) \in Nat
    BY LiveAssumption, FS_CardinalityType
  <2>2. c \in Nat
    BY <2>1
  <2> QED
    BY <1>1, <2>2
<1>4. messages \in Seq(Trades)
  BY DEF LedgerTypes
<1> HIDE DEF r
<1> QED
  BY <1>2, <1>3, <1>4

LEMMA NextLedgerInv == LedgerInv /\ [Next]_vars => LedgerInv'
<1> SUFFICES ASSUME LedgerInv, [Next]_vars PROVE LedgerInv'
  OBVIOUS
<1> USE DEF LedgerInv
<1>1. ASSUME UNCHANGED <<inventory, known>> PROVE HeldMarketsKnown'
  BY <1>1 DEF HeldMarketsKnown, Flat
<1>2. ASSUME NEW q \in Quote, NEW marks \in Marks, NEW ending \in SUBSET Market,
             PlaceQuote(q, marks, ending)
      PROVE  LedgerInv'
  <2>1. resting' \in [Slot -> Int]
    <3>1. q.size \in Size
      BY DEF Quote
    <3>2. Size \subseteq Int
      BY RiskAssumption
    <3> QED
      BY <1>2, <3>1, <3>2 DEF PlaceQuote, LedgerTypes
  <2> QED
    BY <1>1, <1>2, <2>1 DEF PlaceQuote, riskVars, LedgerTypes
<1>3. ASSUME NEW s \in Slot, Cancel(s) PROVE LedgerInv'
  BY <1>1, <1>3 DEF Cancel, riskVars, LedgerTypes
<1>4. ASSUME NEW s \in Slot, Fill(s) PROVE LedgerInv'
  <2>1. s[1] \in Token /\ s[2] \in Sides /\ resting[s] \in Int
    BY DEF Slot, LedgerTypes
  <2>2. messages' \in Seq(Trades)
    BY <1>4, <2>1, TradeKeepsMessages DEF Fill
  <2> QED
    BY <1>1, <1>4, <2>2 DEF Fill, riskVars, LedgerTypes
<1>5. ASSUME NEW k \in Taker, NEW marks \in Marks, NEW ending \in SUBSET Market,
             SendTaker(k, marks, ending)
      PROVE  LedgerInv'
  <2> DEFINE price == Mark(marks, k.token, DefaultPrice)
  <2>1. k.token \in Token /\ k.side \in Sides /\ k.cash \in Nat
    BY RiskAssumption DEF Taker
  <2>2. price \in Nat /\ price > 0
    <3>1. price > 0
      BY <1>5 DEF SendTaker, AdmitsTaker, AcceptTaker
    <3>2. marks[k.token] \in Price \cup {None}
      BY <2>1, LiveAssumption
    <3> QED
      BY <3>1, <3>2, RiskAssumption DEF Mark
  <2>3. messages' \in Seq(Trades)
    <3> HIDE DEF price
    <3>1. Shares(k.cash, price) \in Int
      BY <2>1, <2>2, SharesIsInt
    <3>2. Trade(k.token, k.side, Shares(k.cash, price)) \/ UNCHANGED messages
      BY <1>5 DEF SendTaker, price
    <3> QED
      BY <2>1, <3>1, <3>2, TradeKeepsMessages DEF LedgerTypes
  <2> QED
    BY <1>1, <1>5, <2>3 DEF SendTaker, LedgerTypes
<1>11. ASSUME NEW k \in Taker, NEW price \in Price \ {0}, FavouriteTaker(k, price)
       PROVE  LedgerInv'
  <2>1. k.token \in Token /\ k.side \in Sides /\ k.cash \in Nat /\ price \in Nat /\ price > 0
    <3>1. k.token \in Token /\ k.side \in Sides /\ k.cash \in Cash
      BY DEF Taker
    <3>2. Cash \subseteq Nat /\ Price \subseteq Nat
      BY RiskAssumption
    <3>3. price \in Nat /\ price > 0
      BY <3>2
    <3> QED
      BY <3>1, <3>2, <3>3
  <2>2. Shares(k.cash, price) \in Int
    BY <2>1, SharesIsInt
  <2>3. Trade(k.token, k.side, Shares(k.cash, price))
    BY <1>11 DEF FavouriteTaker
  <2>4. messages' \in Seq(Trades)
    BY <2>1, <2>2, <2>3, TradeKeepsMessages
  <2> QED
    BY <1>1, <1>11, <2>4 DEF FavouriteTaker, riskVars, LedgerTypes
<1>6. CASE ProcessTrade
  <2> DEFINE r == Head(messages)
  <2>1. r \in Trades /\ Tail(messages) \in Seq(Trades)
    BY <1>6 DEF ProcessTrade, LedgerTypes
  <2>2. r.token \in Token /\ Signed(r.side, r.size) \in Int
    BY <2>1, SignedIsInt DEF Trades
  <2>3. inventory' \in [Token -> Int]
    BY <1>6, <2>2 DEF ProcessTrade, OnExecution, LedgerTypes
  <2>4. \A t \in Token : t[1] \notin known => inventory'[t] = inventory[t]
    BY <1>6, <2>2 DEF ProcessTrade, OnExecution, LedgerTypes
  <2>5. HeldMarketsKnown'
    <3> SUFFICES ASSUME NEW m \in Market \ known, NEW leg \in BOOLEAN
                 PROVE  inventory'[<<m, leg>>] = 0
      BY <1>6 DEF ProcessTrade, HeldMarketsKnown, Flat
    <3>1. <<m, leg>> \in Token /\ <<m, leg>>[1] = m
      BY DEF Token
    <3>2. inventory[<<m, leg>>] = 0
      BY DEF HeldMarketsKnown, Flat
    <3> QED
      BY <2>4, <3>1, <3>2
  <2> QED
    BY <1>6, <2>1, <2>3, <2>5 DEF ProcessTrade, venueVars, LedgerTypes
<1>7. CASE ProcessOther
  BY <1>1, <1>7 DEF ProcessOther, venueVars, LedgerTypes
<1>8. ASSUME NEW markets \in Listable, Refresh(markets) PROVE LedgerInv'
  <2>1. known' \subseteq Market
    BY <1>8 DEF Refresh, ReplaceMarkets, Listable, LedgerTypes
  <2>2. resting' \in [Slot -> Int]
    BY <1>8 DEF Refresh, LedgerTypes
  <2>3. HeldMarketsKnown'
    BY <1>8 DEF Refresh, ReplaceMarkets, HeldMarketsKnown, Flat
  <2> QED
    BY <1>8, <2>1, <2>2, <2>3 DEF Refresh, ReplaceMarkets, LedgerTypes
<1>12. ASSUME NEW markets \in Listable, RefreshFails(markets) PROVE LedgerInv'
  <2>1. resting' \in [Slot -> Int]
    <3>1. PICK cancelled : resting' = [s \in Slot |-> IF s \in cancelled THEN 0 ELSE resting[s]]
      BY <1>12 DEF RefreshFails
    <3>2. QED
      BY <3>1 DEF LedgerTypes
  <2> QED
    BY <1>1, <1>12, <2>1 DEF RefreshFails, riskVars, LedgerTypes
<1>9. CASE Wait
  BY <1>1, <1>9 DEF Wait, Elapse, venueVars, LedgerTypes
<1>10. CASE UNCHANGED vars
  BY <1>1, <1>10 DEF vars, riskVars, venueVars, LedgerTypes
<1> QED
  BY <1>2, <1>3, <1>4, <1>5, <1>6, <1>7, <1>8, <1>9, <1>10, <1>11, <1>12 DEF Next

\* However refreshes, fills and late trade messages interleave, a position never
\* loses its market.
THEOREM PositionsKeepTheirMarket == Spec => []HeldMarketsKnown
<1>1. LedgerInv => HeldMarketsKnown
  BY DEF LedgerInv
<1> QED
  BY <1>1, InitLedgerInv, NextLedgerInv, PTL DEF Spec

-----------------------------------------------------------------------------
(* LiveRisk: what is counted, and what is on its way.                       *)

\* What each trade message will add to the count of t.
Flow(t, ms) == [i \in DOMAIN ms |-> IF ms[i].token = t THEN Signed(ms[i].side, ms[i].size) ELSE 0]

LEMMA FlowNumbers ==
  ASSUME NEW t, NEW ms \in Seq(Trades)
  PROVE  /\ DOMAIN ms = 1..Len(ms) /\ Len(ms) \in Nat /\ IsFiniteSet(DOMAIN ms) /\ DOMAIN ms \in SUBSET Nat
         /\ \A i \in DOMAIN ms : /\ ms[i] \in Trades /\ Signed(ms[i].side, ms[i].size) \in Int
                                /\ Flow(t, ms)[i] \in Int
                                /\ Flow(t, ms)[i] = IF ms[i].token = t THEN Signed(ms[i].side, ms[i].size) ELSE 0
         /\ Sum(Flow(t, ms), DOMAIN ms) \in Int
<1>1. DOMAIN ms = 1..Len(ms) /\ Len(ms) \in Nat /\ DOMAIN ms \in SUBSET Nat
      /\ \A i \in DOMAIN ms : ms[i] \in Trades
  OBVIOUS
<1>2. IsFiniteSet(DOMAIN ms)
  BY <1>1, FS_Interval
<1>3. ASSUME NEW i \in DOMAIN ms
      PROVE  /\ Signed(ms[i].side, ms[i].size) \in Int
             /\ Flow(t, ms)[i] \in Int
             /\ Flow(t, ms)[i] = IF ms[i].token = t THEN Signed(ms[i].side, ms[i].size) ELSE 0
  <2>1. ms[i].size \in Int
    BY <1>1 DEF Trades
  <2>2. Signed(ms[i].side, ms[i].size) \in Int
    BY <2>1, SignedIsInt
  <2>3. Flow(t, ms)[i] = IF ms[i].token = t THEN Signed(ms[i].side, ms[i].size) ELSE 0
    BY DEF Flow
  <2>4. QED
    BY <2>2, <2>3
<1>4. Sum(Flow(t, ms), DOMAIN ms) \in Int
  <2>1. \A i \in DOMAIN ms : Flow(t, ms)[i] \in Int
    BY <1>3
  <2>2. QED
    BY <1>2, <2>1, SumType
<1>5. QED
  BY <1>1, <1>2, <1>3, <1>4

LEMMA FlightIsSum ==
  ASSUME NEW t, NEW ms \in Seq(Trades)
  PROVE  FoldLeft(LAMBDA n, r : IF r.token = t THEN n + Signed(r.side, r.size) ELSE n, 0, ms)
           = Sum(Flow(t, ms), DOMAIN ms)
<1> DEFINE Op(n, r) == IF r.token = t THEN n + Signed(r.side, r.size) ELSE n
<1>1. PICK D, w : D = DOMAIN ms /\ w = Flow(t, ms)
  OBVIOUS
<1>2. /\ D \in SUBSET Nat /\ IsFiniteSet(D)
      /\ \A i \in D : /\ w[i] \in Int
                     /\ w[i] = IF ms[i].token = t THEN Signed(ms[i].side, ms[i].size) ELSE 0
  BY <1>1, FlowNumbers
<1>3. \A i \in D : w[i] \in Int
  BY <1>2
<1>4. PICK f, pick :
        f = [T \in SUBSET D |-> 0 + Sum(w, T)] /\ pick = [T \in SUBSET D |-> Max(T)]
  OBVIOUS
<1>5. /\ 0 + Sum(w, {}) = 0
      /\ \A T \in SUBSET D : T # {} => 0 + Sum(w, T) = (0 + Sum(w, T \ {Max(T)})) + w[Max(T)]
  BY <1>2, <1>3, LeftSumTake
<1>6. ASSUME NEW T \in SUBSET D, T # {}
      PROVE  pick[T] = Max(T) /\ Max(T) \in T /\ f[T] = Op(f[T \ {Max(T)}], ms[Max(T)])
  <2>1. IsFiniteSet(T) /\ T \in SUBSET Nat
    BY <1>2, FS_Subset
  <2>2. PICK i : i = Max(T)
    OBVIOUS
  <2>3. i \in T
    BY <1>6, <2>1, <2>2, MaxIn
  <2>4. IsFiniteSet(T \ {i}) /\ \A j \in T \ {i} : w[j] \in Int
    BY <1>3, <2>1, FS_Subset
  <2>5. Sum(w, T \ {i}) \in Int
    BY <2>4, SumType
  <2>6. f[T \ {i}] = 0 + Sum(w, T \ {i}) /\ f[T] = 0 + Sum(w, T)
    BY <1>4
  <2>7. f[T] = f[T \ {i}] + w[i] /\ f[T \ {i}] \in Int
    BY <1>5, <1>6, <2>2, <2>5, <2>6
  <2>8. w[i] = IF ms[i].token = t THEN Signed(ms[i].side, ms[i].size) ELSE 0
    BY <1>2, <2>3
  <2>9. f[T] = Op(f[T \ {i}], ms[i])
    BY <2>7, <2>8
  <2>10. QED
    BY <1>4, <2>2, <2>3, <2>9
<1>7. f[{}] = 0
  BY <1>4, <1>5
<1> HIDE DEF Op
<1>8. f = [T \in SUBSET D |-> IF T = {} THEN 0 ELSE Op(f[T \ {Max(T)}], ms[Max(T)])]
  BY <1>4, <1>6, <1>7
<1>9. PICK g : g = CHOOSE h : h = [T \in SUBSET D |-> IF T = {} THEN 0 ELSE Op(h[T \ {Max(T)}], ms[Max(T)])]
  OBVIOUS
<1>10. g = [T \in SUBSET D |-> IF T = {} THEN 0 ELSE Op(g[T \ {Max(T)}], ms[Max(T)])]
  BY <1>8, <1>9
<1>11. Alike(g, f, D, pick)
  <2>1. f[{}] = g[{}]
    BY <1>7, <1>10
  <2>2. ASSUME NEW T \in SUBSET D, T # {}
        PROVE  pick[T] \in T /\ (g[T \ {pick[T]}] = f[T \ {pick[T]}] => g[T] = f[T])
    <3>1. g[T] = Op(g[T \ {Max(T)}], ms[Max(T)])
      BY <1>10, <2>2
    <3>2. QED
      BY <1>6, <2>2, <3>1
  <2>3. QED
    BY <2>1, <2>2 DEF Alike
<1>12. g[D] = f[D]
  BY <1>2, <1>11, SameFold
<1>13. f[D] = Sum(w, D)
  <2>1. Sum(w, D) \in Int
    BY <1>2, <1>3, SumType
  <2>2. QED
    BY <1>4, <2>1
<1>14. FoldLeft(LAMBDA n, r : IF r.token = t THEN n + Signed(r.side, r.size) ELSE n, 0, ms) = g[D]
  BY <1>1, <1>9 DEF FoldLeft, MapThenFoldSet, Op
<1>15. QED
  BY <1>1, <1>12, <1>13, <1>14


LEMMA CountedIs ==
  ASSUME LedgerTypes, NEW t \in Token
  PROVE  /\ Counted(t) = inventory[t] + Sum(Flow(t, messages), DOMAIN messages)
         /\ inventory[t] \in Int /\ Sum(Flow(t, messages), DOMAIN messages) \in Int
<1>1. messages \in Seq(Trades) /\ inventory[t] \in Int
  BY DEF LedgerTypes
<1>2. InFlight(t) = Sum(Flow(t, messages), DOMAIN messages)
  BY <1>1, FlightIsSum DEF InFlight
<1>3. QED
  BY <1>1, <1>2, FlowNumbers DEF Counted

LEMMA CountedNextIs ==
  ASSUME LedgerTypes', NEW t \in Token
  PROVE  /\ Counted(t)' = inventory'[t] + Sum(Flow(t, messages'), DOMAIN messages')
         /\ inventory'[t] \in Int
<1>1. messages' \in Seq(Trades) /\ inventory'[t] \in Int
  BY DEF LedgerTypes
<1>2. InFlight(t)' = Sum(Flow(t, messages'), DOMAIN messages')
  <2>1. InFlight(t)' = FoldLeft(LAMBDA n, r : IF r.token = t THEN n + Signed(r.side, r.size) ELSE n,
                               0, messages')
    BY DEF InFlight, FoldLeft, MapThenFoldSet
  <2>2. QED
    BY <1>1, <2>1, FlightIsSum
<1>3. QED
  BY <1>1, <1>2 DEF Counted

LEMMA FlowAppend ==
  ASSUME NEW t, NEW ms \in Seq(Trades), NEW r \in Trades
  PROVE  Sum(Flow(t, Append(ms, r)), DOMAIN Append(ms, r))
           = (IF r.token = t THEN Signed(r.side, r.size) ELSE 0) + Sum(Flow(t, ms), DOMAIN ms)
<1>1. PICK gs, n : gs = Append(ms, r) /\ n = Len(ms)
  OBVIOUS
<1>2. n \in Nat /\ gs \in Seq(Trades) /\ Len(gs) = n + 1 /\ gs[n + 1] = r /\ \A i \in 1..n : gs[i] = ms[i]
  BY <1>1
<1>3. PICK v, u : v = Flow(t, gs) /\ u = Flow(t, ms)
  OBVIOUS
<1>4. DOMAIN gs = 1..(n + 1) /\ \A i \in 1..(n + 1) :
        v[i] \in Int /\ v[i] = IF gs[i].token = t THEN Signed(gs[i].side, gs[i].size) ELSE 0
  BY <1>2, <1>3, FlowNumbers
<1>5. DOMAIN ms = 1..n /\ \A i \in 1..n :
        u[i] = IF ms[i].token = t THEN Signed(ms[i].side, ms[i].size) ELSE 0
  BY <1>1, <1>3, FlowNumbers
<1>6. \A i \in 1..n : u[i] = v[i]
  BY <1>2, <1>4, <1>5
<1>7. \A i \in 1..(n + 1) : v[i] \in Int
  BY <1>4
<1>8. Sum(v, 1..(n + 1)) = v[n + 1] + Sum(u, 1..n)
  BY <1>2, <1>6, <1>7, SumAppend
<1>9. v[n + 1] = IF r.token = t THEN Signed(r.side, r.size) ELSE 0
  BY <1>2, <1>4
<1>10. QED
  BY <1>1, <1>3, <1>4, <1>5, <1>8, <1>9

LEMMA FlowTail ==
  ASSUME NEW t, NEW ms \in Seq(Trades), ms # <<>>
  PROVE  /\ Head(ms) \in Trades
         /\ Sum(Flow(t, ms), DOMAIN ms)
              = (IF Head(ms).token = t THEN Signed(Head(ms).side, Head(ms).size) ELSE 0)
                  + Sum(Flow(t, Tail(ms)), DOMAIN Tail(ms))
         /\ Sum(Flow(t, Tail(ms)), DOMAIN Tail(ms)) \in Int
<1>1. PICK gs, n : gs = Tail(ms) /\ n = Len(ms)
  OBVIOUS
<1>2. /\ n \in Nat /\ n > 0 /\ gs \in Seq(Trades) /\ Len(gs) = n - 1
      /\ ms[1] = Head(ms) /\ Head(ms) \in Trades /\ \A i \in 1..(n - 1) : gs[i] = ms[i + 1]
  BY <1>1
<1>3. PICK v, u : v = Flow(t, ms) /\ u = Flow(t, gs)
  OBVIOUS
<1>4. DOMAIN ms = 1..n /\ \A i \in 1..n :
        v[i] \in Int /\ v[i] = IF ms[i].token = t THEN Signed(ms[i].side, ms[i].size) ELSE 0
  BY <1>1, <1>3, FlowNumbers
<1>5. DOMAIN gs = 1..(n - 1) /\ Sum(u, DOMAIN gs) \in Int /\ \A i \in 1..(n - 1) :
        u[i] = IF gs[i].token = t THEN Signed(gs[i].side, gs[i].size) ELSE 0
  BY <1>2, <1>3, FlowNumbers
<1>6. \A i \in 1..(n - 1) : u[i] = v[i + 1]
  <2>1. \A i \in 1..(n - 1) : i + 1 \in 1..n
    BY <1>2
  <2>2. QED
    BY <1>2, <1>4, <1>5, <2>1
<1>7. \A i \in 1..n : v[i] \in Int
  BY <1>4
<1>8. Sum(v, 1..n) = v[1] + Sum(u, 1..(n - 1))
  BY <1>2, <1>6, <1>7, SumTail
<1>9. v[1] = IF Head(ms).token = t THEN Signed(Head(ms).side, Head(ms).size) ELSE 0
  BY <1>2, <1>4
<1>10. QED
  BY <1>1, <1>2, <1>3, <1>4, <1>5, <1>8, <1>9

\* A trade that is reported again and again.
LEMMA FlowRepeat ==
  ASSUME NEW t, NEW ms \in Seq(Trades), NEW r \in Trades, NEW c \in Nat,
         NEW d \in Int, d = IF r.token = t THEN Signed(r.side, r.size) ELSE 0
  PROVE  Sum(Flow(t, ms \o [i \in 1 .. c |-> r]), DOMAIN (ms \o [i \in 1 .. c |-> r]))
           = c * d + Sum(Flow(t, ms), DOMAIN ms)
<1> DEFINE More(k) == ms \o [i \in 1 .. k |-> r]
           Right(k) == Sum(Flow(t, More(k)), DOMAIN More(k)) = k * d + Sum(Flow(t, ms), DOMAIN ms)
           Wrong == {k \in Nat : ~Right(k)}
<1>1. PICK s : s = Sum(Flow(t, ms), DOMAIN ms)
  OBVIOUS
<1>2. s \in Int
  BY <1>1, FlowNumbers
<1>3. Right(0)
  <2>1. More(0) = ms
    OBVIOUS
  <2>2. 0 * d + s = s
    BY <1>2
  <2>3. QED
    BY <1>1, <2>1, <2>2
<1>4. ASSUME NEW k \in Nat, Right(k) PROVE Right(k + 1)
  <2>1. More(k) \in Seq(Trades)
    OBVIOUS
  <2>2. More(k + 1) = Append(More(k), r)
    OBVIOUS
  <2>3. PICK u : u = Sum(Flow(t, More(k)), DOMAIN More(k))
    OBVIOUS
  <2>4. Sum(Flow(t, More(k + 1)), DOMAIN More(k + 1)) = d + u
    <3> HIDE DEF More
    <3>1. PICK x : x = More(k)
      OBVIOUS
    <3>2. x \in Seq(Trades) /\ More(k + 1) = Append(x, r) /\ u = Sum(Flow(t, x), DOMAIN x)
      BY <2>1, <2>2, <2>3, <3>1
    <3>3. Sum(Flow(t, Append(x, r)), DOMAIN Append(x, r)) = d + u
      BY <3>2, FlowAppend
    <3>4. QED
      BY <3>2, <3>3
  <2>5. u = k * d + s
    BY <1>1, <1>4, <2>3
  <2>6. d + (k * d + s) = (k + 1) * d + s
    <3>1. PICK e \in Int : e = d
      OBVIOUS
    <3>2. (k + 1) * e = k * e + e /\ k * e \in Int
      OBVIOUS
    <3>3. PICK m \in Int : m = k * d
      BY <3>1, <3>2
    <3>4. (k + 1) * d = m + d
      BY <3>1, <3>2, <3>3
    <3>5. d + (m + s) = (m + d) + s
      BY <1>2
    <3>6. QED
      BY <3>3, <3>4, <3>5
  <2>7. QED
    BY <1>1, <2>4, <2>5, <2>6
<1> HIDE DEF Right
<1>5. Wrong = {}
  <2>1. SUFFICES ASSUME Wrong # {} PROVE FALSE
    OBVIOUS
  <2>2. PICK k \in Wrong : \A j \in Wrong : k <= j
    <3>1. Wrong \in SUBSET Nat
      OBVIOUS
    <3> HIDE DEF Wrong
    <3>2. QED
      BY <2>1, <3>1, LeastNumber
  <2>3. k \in Nat /\ ~Right(k) /\ k # 0
    BY <1>3, <2>2
  <2>4. k - 1 \in Nat /\ (k - 1) + 1 = k
    BY <2>3
  <2>5. Right(k - 1)
    BY <2>2, <2>4
  <2>6. QED
    BY <1>4, <2>3, <2>4, <2>5
<1>6. Right(c)
  BY <1>5
<1>7. QED
  BY <1>6 DEF Right

PositionInv == LedgerInv /\ position \in [Token -> Int]

\* The count follows the position, by one message or by several.
Follows(t) ==
  \E n \in 0 .. Cardinality(Statuses) :
    /\ Counted(t)' - Counted(t) = n * (position'[t] - position[t])
    /\ position'[t] # position[t] => n = Len(messages') - Len(messages)

\* Neither moves.
LEMMA Rests ==
  ASSUME NEW t \in Token, position'[t] = position[t], position[t] \in Int,
         Counted(t)' = Counted(t), Counted(t) \in Int
  PROVE  Follows(t)
<1>1. Cardinality(Statuses) \in Nat
  BY LiveAssumption, FS_CardinalityType
<1>2. 0 \in 0 .. Cardinality(Statuses)
  BY <1>1
<1>3. PICK c \in Int : c = Counted(t)
  OBVIOUS
<1>4. PICK q \in Int : q = position[t]
  OBVIOUS
<1>5. c - c = 0 * (q - q)
  OBVIOUS
<1>6. Counted(t)' - Counted(t) = 0 * (position'[t] - position[t])
  BY <1>3, <1>4, <1>5
<1>7. QED
  BY <1>2, <1>6 DEF Follows

\* A trade moves the position, and each of its messages the count.
LEMMA TradeFollows ==
  ASSUME LedgerTypes, LedgerTypes', position \in [Token -> Int],
         NEW k \in Token, NEW side \in Sides, NEW n \in Int, Trade(k, side, n),
         inventory' = inventory, NEW t \in Token
  PROVE  Follows(t)
<1>1. PICK r : r = [token |-> k, side |-> side, size |-> n, gain |-> 0]
  OBVIOUS
<1>2. r \in Trades /\ r.token = k /\ Signed(r.side, r.size) = Signed(side, n) /\ Signed(side, n) \in Int
  BY <1>1, SignedIsInt DEF Trades
<1>3. messages \in Seq(Trades)
  BY DEF LedgerTypes
<1>4. PICK c \in 0 .. Cardinality(Statuses) : messages' = messages \o [i \in 1 .. c |-> r]
  BY <1>1 DEF Trade
<1>5. c \in Nat
  <2>1. Cardinality(Statuses) \in Nat
    BY LiveAssumption, FS_CardinalityType
  <2>2. QED
    BY <2>1
<1>6. PICK d \in Int : d = IF k = t THEN Signed(side, n) ELSE 0
  BY <1>2
<1>7. position' = [position EXCEPT ![k] = position[k] + Signed(side, n)]
  BY DEF Trade
<1>8. PICK q \in Int : q = position[t]
  OBVIOUS
<1>9. position'[t] = q + d
  BY <1>2, <1>6, <1>7, <1>8
<1>10. PICK s : s = Sum(Flow(t, messages), DOMAIN messages)
  OBVIOUS
<1>11. PICK h : h = inventory[t]
  OBVIOUS
<1>12. Counted(t) = h + s /\ h \in Int /\ s \in Int
  BY <1>10, <1>11, CountedIs
<1>13. Sum(Flow(t, messages'), DOMAIN messages') = c * d + s
  <2>1. d = IF r.token = t THEN Signed(r.side, r.size) ELSE 0
    BY <1>2, <1>6
  <2>2. QED
    BY <1>2, <1>3, <1>4, <1>5, <1>10, <2>1, FlowRepeat
<1>14. Counted(t)' = h + (c * d + s)
  BY <1>11, <1>13, CountedNextIs
<1>15. (h + (c * d + s)) - (h + s) = c * ((q + d) - q)
  BY <1>5, <1>12
<1>16. Counted(t)' - Counted(t) = c * (position'[t] - position[t])
  BY <1>8, <1>9, <1>12, <1>14, <1>15
<1>17. Len(messages') - Len(messages) = c
  <2>1. [i \in 1 .. c |-> r] \in Seq(Trades) /\ Len([i \in 1 .. c |-> r]) = c
    BY <1>2, <1>5
  <2>2. Len(messages') = Len(messages) + c /\ Len(messages) \in Nat
    BY <1>3, <1>4, <2>1
  <2>3. QED
    BY <1>5, <2>2
<1>18. QED
  BY <1>4, <1>16, <1>17 DEF Follows

\* A message that is processed moves from what is in flight to the inventory, unless
\* its market is not known.
LEMMA ProcessFollows ==
  ASSUME LedgerTypes, LedgerTypes', position \in [Token -> Int], ProcessTrade, NEW t \in Token
  PROVE  Follows(t) \/ (t[1] \notin known /\ messages # <<>> /\ Head(messages).token = t)
<1>1. messages # <<>> /\ messages \in Seq(Trades) /\ messages' = Tail(messages) /\ position' = position
      /\ inventory \in [Token -> Int]
  BY DEF ProcessTrade, LedgerTypes, venueVars
<1>2. PICK r : r = Head(messages)
  OBVIOUS
<1>3. PICK s : s = Sum(Flow(t, Tail(messages)), DOMAIN Tail(messages))
  OBVIOUS
<1>4. PICK d : d = IF r.token = t THEN Signed(r.side, r.size) ELSE 0
  OBVIOUS
<1>5. r \in Trades /\ Sum(Flow(t, messages), DOMAIN messages) = d + s /\ s \in Int
  BY <1>1, <1>2, <1>3, <1>4, FlowTail
<1>6. Counted(t) = inventory[t] + (d + s) /\ inventory[t] \in Int
  BY <1>5, CountedIs
<1>7. Counted(t)' = inventory'[t] + s
  BY <1>1, <1>3, CountedNextIs
<1>8. r.token \in Token /\ Signed(r.side, r.size) \in Int /\ d \in Int
  BY <1>4, <1>5, SignedIsInt DEF Trades
<1>9. inventory' = IF r.token[1] \in known
                   THEN [inventory EXCEPT ![r.token] = @ + Signed(r.side, r.size)] ELSE inventory
  BY <1>2 DEF ProcessTrade, OnExecution
<1>10. CASE r.token = t /\ t[1] \notin known
  BY <1>1, <1>2, <1>10
<1>11. CASE r.token # t \/ t[1] \in known
  <2>1. inventory'[t] = inventory[t] + d
    <3>1. CASE r.token = t
      BY <1>1, <1>4, <1>8, <1>9, <1>11, <3>1
    <3>2. CASE r.token # t
      BY <1>1, <1>4, <1>6, <1>8, <1>9, <3>2
    <3>3. QED
      BY <3>1, <3>2
  <2>2. Counted(t)' = Counted(t)
    BY <1>5, <1>6, <1>7, <1>8, <2>1
  <2>3. Counted(t) \in Int /\ position[t] \in Int /\ position'[t] = position[t]
    BY <1>1, <1>5, <1>6, <1>8
  <2>4. QED
    BY <2>2, <2>3, Rests
<1>12. QED
  BY <1>10, <1>11

LEMMA InitPositionInv == Init => PositionInv
  BY InitLedgerInv DEF PositionInv, Init

\* A taker is for a number of shares.
LEMMA TakerShares ==
  ASSUME NEW k \in Taker
  PROVE  /\ k.token \in Token /\ k.side \in Sides
         /\ \A price \in Nat : price > 0 => Shares(k.cash, price) \in Int
<1>1. k.token \in Token /\ k.side \in Sides /\ k.cash \in Nat
  BY RiskAssumption DEF Taker
<1>2. QED
  BY <1>1, SharesIsInt

LEMMA StepFollows ==
  ASSUME PositionInv, [Next]_vars
  PROVE  /\ PositionInv'
         /\ \A t \in Token : \/ Follows(t)
                             \/ t[1] \notin known /\ messages # <<>> /\ Head(messages).token = t
<1>1. LedgerTypes /\ LedgerInv' /\ LedgerTypes' /\ position \in [Token -> Int]
  BY NextLedgerInv DEF PositionInv, LedgerInv
<1>2. ASSUME NEW k \in Token, NEW side \in Sides, NEW n \in Int, Trade(k, side, n), inventory' = inventory
      PROVE  position' \in [Token -> Int] /\ \A t \in Token : Follows(t)
  <2>1. position' \in [Token -> Int]
    <3>1. position[k] + Signed(side, n) \in Int
      BY <1>1, SignedIsInt
    <3>2. QED
      BY <1>1, <1>2, <3>1 DEF Trade
  <2>2. QED
    BY <1>1, <1>2, <2>1, TradeFollows
<1>3. ASSUME UNCHANGED <<inventory, position, messages>>
      PROVE  position' \in [Token -> Int] /\ \A t \in Token : Follows(t)
  <2>1. position' \in [Token -> Int]
    BY <1>1, <1>3
  <2>2. ASSUME NEW t \in Token PROVE Follows(t)
    <3>1. Counted(t)' = Counted(t) /\ Counted(t) \in Int
      BY <1>1, <1>3, CountedIs, CountedNextIs
    <3>2. position'[t] = position[t] /\ position[t] \in Int
      BY <1>1, <1>3
    <3>3. QED
      BY <3>1, <3>2, Rests
  <2>3. QED
    BY <2>1, <2>2
<1>4. ASSUME NEW q \in Quote, NEW marks \in Marks, NEW ending \in SUBSET Market,
             PlaceQuote(q, marks, ending)
      PROVE  position' \in [Token -> Int] /\ \A t \in Token : Follows(t)
  BY <1>3, <1>4 DEF PlaceQuote, riskVars
<1>5. ASSUME NEW k \in Taker, NEW marks \in Marks, NEW ending \in SUBSET Market,
             SendTaker(k, marks, ending)
      PROVE  position' \in [Token -> Int] /\ \A t \in Token : Follows(t)
  <2>1. PICK price : price = Mark(marks, k.token, DefaultPrice)
    OBVIOUS
  <2>2. price \in Nat /\ price > 0
    <3>1. price > 0
      BY <1>5, <2>1 DEF SendTaker, AdmitsTaker, AcceptTaker
    <3>2. marks[k.token] \in Price \cup {None}
      BY LiveAssumption, TakerShares
    <3>3. QED
      BY <2>1, <3>1, <3>2, RiskAssumption DEF Mark
  <2>3. k.token \in Token /\ k.side \in Sides /\ Shares(k.cash, price) \in Int
    BY <2>2, TakerShares
  <2>4. CASE Trade(k.token, k.side, Shares(k.cash, price))
    BY <1>2, <1>5, <2>3, <2>4 DEF SendTaker
  <2>5. CASE UNCHANGED <<position, messages>>
    BY <1>3, <1>5, <2>5 DEF SendTaker
  <2>6. QED
    BY <1>5, <2>1, <2>4, <2>5 DEF SendTaker
<1>6. ASSUME NEW k \in Taker, NEW price \in Price \ {0}, FavouriteTaker(k, price)
      PROVE  position' \in [Token -> Int] /\ \A t \in Token : Follows(t)
  <2>1. price \in Nat /\ price > 0
    <3>1. price \in Nat /\ price # 0
      BY RiskAssumption
    <3>2. QED
      BY <3>1
  <2>2. k.token \in Token /\ k.side \in Sides /\ Shares(k.cash, price) \in Int
    BY <2>1, TakerShares
  <2>3. QED
    BY <1>2, <1>6, <2>2 DEF FavouriteTaker, riskVars
<1>7. ASSUME NEW s \in Slot, Cancel(s)
      PROVE  position' \in [Token -> Int] /\ \A t \in Token : Follows(t)
  BY <1>3, <1>7 DEF Cancel, riskVars
<1>8. ASSUME NEW s \in Slot, Fill(s)
      PROVE  position' \in [Token -> Int] /\ \A t \in Token : Follows(t)
  <2>1. s[1] \in Token /\ s[2] \in Sides /\ resting[s] \in Int
    BY <1>1 DEF Slot, LedgerTypes
  <2>2. QED
    BY <1>2, <1>8, <2>1 DEF Fill, riskVars
<1>9. CASE ProcessTrade
  <2>1. position' \in [Token -> Int]
    BY <1>1, <1>9 DEF ProcessTrade, venueVars
  <2>2. QED
    BY <1>1, <1>9, <2>1, ProcessFollows DEF PositionInv
<1>10. CASE ProcessOther
  BY <1>1, <1>3, <1>10 DEF ProcessOther, venueVars, PositionInv
<1>11. ASSUME NEW markets \in Listable, Refresh(markets)
       PROVE  position' \in [Token -> Int] /\ \A t \in Token : Follows(t)
  BY <1>3, <1>11 DEF Refresh, ReplaceMarkets
<1>15. ASSUME NEW markets \in Listable, RefreshFails(markets)
       PROVE  position' \in [Token -> Int] /\ \A t \in Token : Follows(t)
  BY <1>3, <1>15 DEF RefreshFails, riskVars
<1>12. CASE Wait
  BY <1>1, <1>3, <1>12 DEF Wait, Elapse, venueVars, PositionInv
<1>13. CASE UNCHANGED vars
  BY <1>1, <1>3, <1>13 DEF vars, riskVars, venueVars, PositionInv
<1>14. QED
  BY <1>1, <1>4, <1>5, <1>6, <1>7, <1>8, <1>9, <1>10, <1>11, <1>12, <1>13, <1>15 DEF Next, PositionInv

\* Through quotes, fills, refreshes and late messages the count moves with the
\* position, once for each message of a trade, but for the trade of a market that
\* the risk manager has dropped (crates/risk, on_execution, replace_markets).
THEOREM TradesAreCounted == Spec => CountedOncePerMessage
<1>1. PositionInv /\ [Next]_vars => PositionInv'
  BY StepFollows
<1>2. PositionInv /\ [Next]_vars =>
        [\A t \in Token :
           \/ \E n \in 0 .. Cardinality(Statuses) :
                /\ Counted(t)' - Counted(t) = n * (position'[t] - position[t])
                /\ position'[t] # position[t] => n = Len(messages') - Len(messages)
           \/ t[1] \notin known /\ messages # <<>> /\ Head(messages).token = t]_vars
  BY StepFollows DEF Follows
<1>3. QED
  BY InitPositionInv, <1>1, <1>2, PTL DEF Spec, CountedOncePerMessage
=============================================================================
