---------------------------- MODULE InstallProofs ----------------------------
(***************************************************************************)
(* What Install promises, for any plans, sources, records and edits, and   *)
(* InstallPlan, for any manifest, request and source tree.                 *)
(*                                                                         *)
(* Shape says of what form the files, the record and the running command   *)
(* are: a command has work of one kind to do and then one thing with the   *)
(* record. On it rest three invariants: LeadsTo, that what a command has   *)
(* still to do makes true what it will have recorded; OnePlanOnly, that    *)
(* with one plan only everything is about one set of files; and the one    *)
(* in Shape, that no two entries of the settings are the same.             *)
(*                                                                         *)
(* WalkInv says of the resolution of modules what each call in progress    *)
(* has done and is waiting for, that selected modules are closed under     *)
(* what they need, and why a module was skipped.                           *)
(***************************************************************************)
EXTENDS Install, InstallPlan, FiniteSetTheorems, SequenceTheorems, WellFoundedInduction, TLAPS

-----------------------------------------------------------------------------
(* Sequences, whatever their members are.                                  *)

LEMMA SeqHas ==
  ASSUME NEW q, IsSeq(q)
  PROVE  /\ Len(q) \in Nat /\ DOMAIN q = 1..Len(q) /\ q = [i \in 1..Len(q) |-> q[i]]
         /\ ToSet(q) = {q[i] : i \in 1..Len(q)}
<1>1. PICK S : S = ToSet(q)
  OBVIOUS
<1>2. q \in Seq(S)
  BY <1>1 DEF IsSeq
<1>3. Len(q) \in Nat /\ DOMAIN q = 1..Len(q) /\ q = [i \in 1..Len(q) |-> q[i]]
  BY <1>2, LenProperties
<1>4. QED
  BY <1>3 DEF ToSet

LEMMA IsSeqOf ==
  ASSUME NEW n \in Nat, NEW q, q = [i \in 1..n |-> q[i]]
  PROVE  IsSeq(q) /\ Len(q) = n
<1>1. PICK S : S = ToSet(q)
  OBVIOUS
<1>2. DOMAIN q = 1..n /\ \A i \in 1..n : q[i] \in S
  BY <1>1 DEF ToSet
<1>3. q \in [1..n -> S]
  BY <1>2
<1>4. q \in Seq(S)
  BY <1>3, SeqDef
<1>5. Len(q) = n
  BY <1>2, <1>4, LenProperties
<1>6. QED
  BY <1>1, <1>4, <1>5 DEF IsSeq

LEMMA MemberSeq ==
  ASSUME NEW S, NEW q \in Seq(S)
  PROVE  IsSeq(q)
<1>1. Len(q) \in Nat /\ q = [i \in 1..Len(q) |-> q[i]]
  BY LenProperties
<1>2. QED
  BY <1>1, IsSeqOf

\* What is left of a sequence when its first member is taken.
LEMMA TailSeq ==
  ASSUME NEW q, IsSeq(q), q # <<>>
  PROVE  /\ IsSeq(Tail(q)) /\ Len(Tail(q)) = Len(q) - 1 /\ Len(q) >= 1 /\ Head(q) = q[1]
         /\ \A i \in 1..Len(Tail(q)) : Tail(q)[i] = q[i + 1]
         /\ ToSet(q) = {Head(q)} \cup ToSet(Tail(q))
<1>1. PICK S : S = ToSet(q)
  OBVIOUS
<1>2. q \in Seq(S)
  BY <1>1 DEF IsSeq
<1>3. PICK n, t : n = Len(q) - 1 /\ t = Tail(q)
  OBVIOUS
<1>4. /\ t \in Seq(S) /\ Len(t) = n /\ Len(q) \in Nat /\ Len(q) >= 1 /\ Head(q) = q[1]
      /\ \A i \in 1..n : t[i] = q[i + 1]
  BY <1>2, <1>3, HeadTailProperties, LenProperties, EmptySeq
<1>5. n \in Nat /\ t = [i \in 1..n |-> t[i]]
  BY <1>4, <1>3, LenProperties
<1>6. IsSeq(t) /\ Len(t) = n
  BY <1>5, IsSeqOf
<1>7. ToSet(t) = {t[i] : i \in 1..n} /\ ToSet(q) = {q[i] : i \in 1..(n + 1)}
  <2>1. Len(q) = n + 1
    BY <1>3, <1>4
  <2>2. ToSet(q) = {q[i] : i \in 1..Len(q)} /\ ToSet(t) = {t[i] : i \in 1..Len(t)}
    BY <1>6, SeqHas
  <2>3. QED
    BY <1>6, <2>1, <2>2
<1>8. \A x : x \in ToSet(q) <=> x = q[1] \/ x \in ToSet(t)
  <2>1. ASSUME NEW x \in ToSet(q) PROVE x = q[1] \/ x \in ToSet(t)
    <3>1. PICK i \in 1..(n + 1) : x = q[i]
      BY <1>7, <2>1
    <3>2. CASE i = 1
      BY <3>1, <3>2
    <3>3. CASE i # 1
      <4>1. i - 1 \in 1..n /\ (i - 1) + 1 = i
        BY <3>3, <1>5
      <4>2. t[i - 1] = q[i]
        BY <4>1, <1>4
      <4>3. QED
        BY <3>1, <4>1, <4>2, <1>7
    <3>4. QED
      BY <3>2, <3>3
  <2>2. ASSUME NEW x \in ToSet(t) PROVE x \in ToSet(q)
    <3>1. PICK i \in 1..n : x = t[i]
      BY <1>7, <2>2
    <3>2. x = q[i + 1] /\ i + 1 \in 1..(n + 1)
      BY <3>1, <1>4, <1>5
    <3>3. QED
      BY <3>2, <1>7
  <2>3. q[1] \in ToSet(q)
    BY <1>5, <1>7
  <2>4. QED
    BY <2>1, <2>2, <2>3
<1>9. ToSet(q) = {q[1]} \cup ToSet(t)
  BY <1>8
<1>10. QED
  BY <1>3, <1>4, <1>6, <1>9

\* Two sequences, one behind the other.
LEMMA JoinSeq ==
  ASSUME NEW a, NEW b, IsSeq(a), IsSeq(b)
  PROVE  /\ IsSeq(a \o b) /\ Len(a \o b) = Len(a) + Len(b) /\ ToSet(a \o b) = ToSet(a) \cup ToSet(b)
         /\ \A i \in 1..Len(a) : (a \o b)[i] = a[i]
         /\ \A i \in 1..Len(b) : (a \o b)[Len(a) + i] = b[i]
<1>1. PICK S, m, n, c : S = ToSet(a) \cup ToSet(b) /\ m = Len(a) /\ n = Len(b) /\ c = a \o b
  OBVIOUS
<1>2. /\ m \in Nat /\ DOMAIN a = 1..m /\ a = [i \in 1..m |-> a[i]] /\ ToSet(a) = {a[i] : i \in 1..m}
      /\ n \in Nat /\ DOMAIN b = 1..n /\ b = [i \in 1..n |-> b[i]] /\ ToSet(b) = {b[i] : i \in 1..n}
  BY <1>1, SeqHas
<1>3. a \in Seq(S) /\ b \in Seq(S)
  <2>1. a \in [1..m -> S] /\ b \in [1..n -> S]
    BY <1>1, <1>2
  <2>2. QED
    BY <1>2, <2>1, SeqDef
<1>4. /\ c \in Seq(S) /\ Len(c) = m + n
      /\ \A i \in 1..(m + n) : c[i] = IF i <= m THEN a[i] ELSE b[i - m]
  BY <1>1, <1>3, ConcatProperties
<1>5. IsSeq(c)
  BY <1>4, MemberSeq
<1>6. ToSet(c) = {c[i] : i \in 1..(m + n)}
  BY <1>4, <1>5, SeqHas
<1>7. m \in Nat /\ n \in Nat
  BY <1>2
<1>8. \A i \in 1..m : i \in 1..(m + n) /\ i <= m
  BY <1>7
<1>9. \A i \in 1..n : m + i \in 1..(m + n) /\ ~(m + i <= m) /\ (m + i) - m = i
  BY <1>7
<1>10. /\ \A i \in 1..m : c[i] = a[i]
       /\ \A i \in 1..n : c[m + i] = b[i]
  <2>1. \A i \in 1..m : c[i] = a[i]
    BY <1>4, <1>8
  <2>2. ASSUME NEW i \in 1..n PROVE c[m + i] = b[i]
    <3>1. c[m + i] = b[(m + i) - m]
      BY <1>4, <1>9
    <3>2. QED
      BY <3>1, <1>9
  <2>3. QED
    BY <2>1, <2>2
<1>11. \A x : x \in ToSet(c) <=> x \in ToSet(a) \cup ToSet(b)
  <2>1. ASSUME NEW x \in ToSet(c) PROVE x \in ToSet(a) \cup ToSet(b)
    <3>1. PICK i \in 1..(m + n) : x = c[i]
      BY <1>6, <2>1
    <3>2. i \in 1..m \/ (i - m \in 1..n /\ m + (i - m) = i)
      BY <1>7
    <3>3. CASE i \in 1..m
      <4>1. c[i] = a[i]
        BY <3>3, <1>10
      <4>2. QED
        BY <3>1, <3>3, <4>1, <1>2
    <3>4. CASE i - m \in 1..n /\ m + (i - m) = i
      <4>1. c[m + (i - m)] = b[i - m]
        BY <3>4, <1>10
      <4>2. x = b[i - m]
        BY <3>1, <3>4, <4>1
      <4>3. QED
        BY <3>4, <4>2, <1>2
    <3>5. QED
      BY <3>2, <3>3, <3>4
  <2>2. ASSUME NEW x \in ToSet(a) PROVE x \in ToSet(c)
    <3>1. PICK i \in 1..m : x = a[i]
      BY <1>2, <2>2
    <3>2. x = c[i] /\ i \in 1..(m + n)
      BY <3>1, <1>8, <1>10
    <3>3. QED
      BY <3>2, <1>6
  <2>3. ASSUME NEW x \in ToSet(b) PROVE x \in ToSet(c)
    <3>1. PICK i \in 1..n : x = b[i]
      BY <1>2, <2>3
    <3>2. x = c[m + i] /\ m + i \in 1..(m + n)
      BY <3>1, <1>9, <1>10
    <3>3. QED
      BY <3>2, <1>6
  <2>4. QED
    BY <2>1, <2>2, <2>3
<1>12. ToSet(c) = ToSet(a) \cup ToSet(b)
  BY <1>11
<1>13. QED
  BY <1>1, <1>4, <1>5, <1>10, <1>12

LEMMA OneSeq ==
  ASSUME NEW g
  PROVE  IsSeq(<<g>>) /\ Len(<<g>>) = 1 /\ <<g>>[1] = g /\ ToSet(<<g>>) = {g}
<1>1. PICK t : t = <<g>>
  OBVIOUS
<1>2. t = [i \in 1..1 |-> t[i]] /\ t[1] = g
  BY <1>1
<1>3. IsSeq(t) /\ Len(t) = 1
  BY <1>2, IsSeqOf
<1>4. ToSet(t) = {t[i] : i \in 1..1}
  BY <1>3, SeqHas
<1>5. QED
  BY <1>1, <1>2, <1>3, <1>4

LEMMA NoneSeq ==
  IsSeq(<<>>) /\ Len(<<>>) = 0 /\ ToSet(<<>>) = {}
<1>1. PICK S : S = {0}
  OBVIOUS
<1>2. <<>> \in Seq(S) /\ Len(<<>>) = 0
  BY <1>1, EmptySeq
<1>3. IsSeq(<<>>)
  BY <1>2, MemberSeq
<1>4. QED
  BY <1>2, <1>3, SeqHas

\* r numbers the members of P from 1 to n
Ranking(P, n, r) ==
  /\ n = Cardinality(P)
  /\ \A i \in P : r[i] = Cardinality({j \in P : j <= i})
  /\ \A i, k \in P : r[i] = r[k] => i = k
  /\ \A k \in 1..n : \E i \in P : r[i] = k

\* The places of a sequence, each with its number among them: all numbers
\* up to their count are taken.
LEMMA Ranks ==
  ASSUME NEW m \in Nat, NEW P \in SUBSET (1..m)
  PROVE  \E n \in Nat : \E r \in [P -> 1..n] : Ranking(P, n, r)
<1> DEFINE Upto(i) == {j \in P : j <= i}
<1>16. IsFiniteSet(1..m) /\ P \subseteq 1..m /\ \A i \in P : i \in Int
  BY FS_Interval
<1>1. IsFiniteSet(P) /\ Cardinality(P) \in Nat
  BY <1>16, FS_Subset, FS_CardinalityType
<1>2. PICK n \in Nat : n = Cardinality(P)
  BY <1>1
<1>3. \A i \in P : IsFiniteSet(Upto(i)) /\ Cardinality(Upto(i)) \in Nat /\ Cardinality(Upto(i)) <= n
  BY <1>1, <1>2, FS_Subset, FS_CardinalityType
<1>4. \A i \in P : Upto(i) # {}
  BY DEF Upto
<1>5. \A i \in P : Cardinality(Upto(i)) # 0
  BY <1>3, <1>4, FS_EmptySet
<1>6. PICK r : r = [i \in P |-> Cardinality(Upto(i))]
  OBVIOUS
<1>7. ASSUME NEW i \in P, NEW k \in P, i < k PROVE r[i] < r[k]
  <2>1. Upto(i) \subseteq Upto(k) \ {k} /\ k \in Upto(k)
    <3>1. i \in Int /\ k \in Int /\ \A j \in P : j \in Int
      BY <1>16
    <3>2. \A j \in P : j <= i => j <= k /\ j # k
      BY <3>1, <1>7
    <3>3. k <= k
      BY <3>1
    <3>4. QED
      BY <3>2, <3>3
  <2> HIDE DEF Upto
  <2>2. Cardinality(Upto(k) \ {k}) = Cardinality(Upto(k)) - 1
    BY <2>1, <1>3, FS_RemoveElement
  <2>3. IsFiniteSet(Upto(k) \ {k})
    BY <1>3, FS_Subset
  <2>4. Cardinality(Upto(i)) <= Cardinality(Upto(k) \ {k})
    BY <2>1, <2>3, FS_Subset
  <2>5. QED
    BY <2>2, <2>4, <1>3, <1>6
<1>8. \A i \in P : r[i] \in 1..n /\ r[i] = Cardinality(Upto(i))
  <2> HIDE DEF Upto
  <2>1. QED
    BY <1>3, <1>5, <1>6
<1>9. r \in [P -> 1..n]
  <2> HIDE DEF Upto
  <2>1. QED
    BY <1>6, <1>8
<1>10. \A i, k \in P : r[i] = r[k] => i = k
  <2>1. SUFFICES ASSUME NEW i \in P, NEW k \in P, r[i] = r[k], i # k PROVE FALSE
    OBVIOUS
  <2>2. i \in Int /\ k \in Int
    BY <1>16
  <2>6. r[i] \in 1..n
    BY <1>8
  <2>3. i < k \/ k < i
    BY <2>1, <2>2
  <2>4. r[i] < r[k] \/ r[k] < r[i]
    BY <2>3, <1>7
  <2>5. QED
    BY <2>1, <2>6, <2>4
<1>11. r \in Injection(P, 1..n)
  BY <1>9, <1>10 DEF Injection, IsInjective
<1>12. IsFiniteSet(1..n) /\ Cardinality(1..n) = n
  BY FS_Interval
<1>13. r \in Surjection(P, 1..n)
  BY <1>2, <1>11, <1>12, FS_Injection
<1>14. \A k \in 1..n : \E i \in P : r[i] = k
  BY <1>13 DEF Surjection
<1>15. Ranking(P, n, r)
  <2>1. \A i \in P : r[i] = Cardinality({j \in P : j <= i})
    BY <1>8
  <2>2. QED
    BY <1>2, <1>10, <1>14, <2>1 DEF Ranking
<1>17. QED
  BY <1>9, <1>15

\* Some members of a sequence are a sequence of these, none twice.
LEMMA ThoseSeq ==
  ASSUME NEW q, IsSeq(q), NEW P \in SUBSET (DOMAIN q)
  PROVE  /\ IsSeq(Those(q, P)) /\ ToSet(Those(q, P)) = {q[i] : i \in P}
         /\ \E f \in [DOMAIN Those(q, P) -> P] :
              /\ \A k \in DOMAIN Those(q, P) : Those(q, P)[k] = q[f[k]]
              /\ \A k, l \in DOMAIN Those(q, P) : f[k] = f[l] => k = l
<1>1. PICK m \in Nat : P \in SUBSET (1..m)
  BY SeqHas
<1>14. PICK n \in Nat : \E r \in [P -> 1..n] : Ranking(P, n, r)
  BY <1>1, Ranks
<1>2. PICK r \in [P -> 1..n] :
           /\ n = Cardinality(P)
           /\ \A i \in P : r[i] = Cardinality({j \in P : j <= i})
           /\ \A i, k \in P : r[i] = r[k] => i = k
           /\ \A k \in 1..n : \E i \in P : r[i] = k
  BY <1>14 DEF Ranking
<1>3. PICK f : f = [k \in 1..n |-> CHOOSE i \in P : Cardinality({j \in P : j <= i}) = k]
  OBVIOUS
<1>4. ASSUME NEW k \in 1..n PROVE f[k] \in P /\ r[f[k]] = k
  <2>1. \E i \in P : Cardinality({j \in P : j <= i}) = k
    <3>1. PICK i \in P : r[i] = k
      BY <1>2
    <3>2. QED
      BY <3>1, <1>2
  <2>2. f[k] \in P /\ Cardinality({j \in P : j <= f[k]}) = k
    BY <2>1, <1>3
  <2>3. QED
    BY <2>2, <1>2
<1>5. PICK t : t = Those(q, P)
  OBVIOUS
<1>6. t = [k \in 1..n |-> q[f[k]]]
  <2>1. t = [k \in 1..n |-> q[CHOOSE i \in P : Cardinality({j \in P : j <= i}) = k]]
    BY <1>2, <1>5 DEF Those
  <2>2. \A k \in 1..n : t[k] = q[f[k]]
    BY <2>1, <1>3
  <2>3. QED
    BY <2>1, <2>2
<1>7. IsSeq(t) /\ Len(t) = n /\ DOMAIN t = 1..n
  BY <1>6, IsSeqOf
<1>8. ToSet(t) = {t[k] : k \in 1..n}
  BY <1>7 DEF ToSet
<1>9. \A x : x \in ToSet(t) <=> \E i \in P : x = q[i]
  <2>1. ASSUME NEW x \in ToSet(t) PROVE \E i \in P : x = q[i]
    <3>1. PICK k \in 1..n : x = t[k]
      BY <1>8, <2>1
    <3>2. t[k] = q[f[k]] /\ f[k] \in P
      BY <1>4, <1>6
    <3>3. QED
      BY <3>1, <3>2
  <2>2. ASSUME NEW i \in P PROVE q[i] \in ToSet(t)
    <3>1. r[i] \in 1..n /\ f[r[i]] \in P /\ r[f[r[i]]] = r[i]
      BY <1>2, <1>4
    <3>2. f[r[i]] = i
      BY <3>1, <1>2
    <3>3. t[r[i]] = q[i]
      BY <3>1, <3>2, <1>6
    <3>4. QED
      BY <3>1, <3>3, <1>8
  <2>3. QED
    BY <2>1, <2>2
<1>10. ToSet(t) = {q[i] : i \in P}
  BY <1>9
<1>11. /\ f \in [1..n -> P]
       /\ \A k \in 1..n : t[k] = q[f[k]]
       /\ \A k, l \in 1..n : f[k] = f[l] => k = l
  <2>1. f \in [1..n -> P]
    BY <1>3, <1>4
  <2>2. \A k, l \in 1..n : f[k] = f[l] => k = l
    BY <1>4
  <2>3. QED
    BY <2>1, <2>2, <1>6
<1>12. DOMAIN t = 1..n
  BY <1>6
<1>13. /\ f \in [DOMAIN t -> P]
       /\ \A k \in DOMAIN t : t[k] = q[f[k]]
       /\ \A k, l \in DOMAIN t : f[k] = f[l] => k = l
  BY <1>11, <1>12
<1>15. \E g \in [DOMAIN t -> P] :
         /\ \A k \in DOMAIN t : t[k] = q[g[k]]
         /\ \A k, l \in DOMAIN t : g[k] = g[l] => k = l
  BY <1>13
<1>16. IsSeq(t)
  BY <1>7
<1>17. QED
  BY <1>5, <1>10, <1>15, <1>16

-----------------------------------------------------------------------------
(* Merging hook entries.                                                   *)

LEMMA LeastNumber ==
  ASSUME NEW S \in SUBSET Nat, S # {}
  PROVE  \E x \in S : \A y \in S : x <= y
<1> DEFINE R == OpToRel(<, Nat)
<1>1. IsWellFoundedOn(R, Nat)
  BY NatLessThanWellFounded
<1>2. \A x, y \in Nat : x < y => <<x, y>> \in R
  BY DEF OpToRel
<1> HIDE DEF R
<1>3. PICK x \in S : \A y \in S : ~(<<y, x>> \in R)
  BY <1>1, WFMin
<1>4. \A y \in S : ~(y < x)
  BY <1>2, <1>3
<1>5. \A y \in S : x <= y
  BY <1>4
<1> QED
  BY <1>5

LEMMA SameEntry ==
  /\ \A e : Same(e, e)
  /\ \A e, f : Same(e, f) => Same(f, e)
BY DEF Same, Aliases

\* The entries to keep can be told one after the other: a shortest sequence
\* where they could not would still have those of all but its last entry.
LEMMA KeptIs ==
  ASSUME NEW q, IsSeq(q)
  PROVE  /\ Kept(q) \in SUBSET (1..Len(q))
         /\ \A i \in 1..Len(q) : i \in Kept(q) <=> \A j \in Kept(q) : j < i => ~Same(q[j], q[i])
<1> DEFINE Chosen(n, K) == \A i \in 1..n : i \in K <=> \A j \in K : j < i => ~Same(q[j], q[i])
           Without == {n \in Nat : ~\E K \in SUBSET (1..n) : Chosen(n, K)}
<1>1. Without = {}
  <2>1. SUFFICES ASSUME Without # {} PROVE FALSE
    OBVIOUS
  <2>2. PICK n \in Without : \A m \in Without : n <= m
    <3>1. Without \in SUBSET Nat
      OBVIOUS
    <3> HIDE DEF Without
    <3>2. QED
      BY <2>1, <3>1, LeastNumber
  <2>3. n \in Nat /\ ~\E K \in SUBSET (1..n) : Chosen(n, K)
    BY <2>2
  <2>4. n # 0
    <3>1. {} \in SUBSET (1..0) /\ Chosen(0, {})
      OBVIOUS
    <3>2. QED
      BY <2>3, <3>1
  <2>5. n - 1 \in Nat /\ n - 1 \notin Without
    <3>1. n - 1 \in Nat /\ ~(n <= n - 1)
      BY <2>3, <2>4
    <3> HIDE DEF Without
    <3>2. QED
      BY <3>1, <2>2
  <2>6. PICK K \in SUBSET (1..(n - 1)) : Chosen(n - 1, K)
    BY <2>5
  <2>7. \A j \in K : j \in 1..n /\ j < n
    BY <2>3, <2>4
  <2>8. n \notin K /\ n \in 1..n
    BY <2>7, <2>3, <2>4
  <2>9. \A i \in 1..n : i = n \/ (i \in 1..(n - 1) /\ ~(n < i))
    BY <2>3, <2>4
  <2>10. CASE \E j \in K : Same(q[j], q[n])
    <3>1. Chosen(n, K)
      BY <2>6, <2>7, <2>8, <2>9, <2>10
    <3>2. QED
      BY <2>3, <2>7, <3>1
  <2>11. CASE ~\E j \in K : Same(q[j], q[n])
    <3>1. PICK L : L = K \cup {n}
      OBVIOUS
    <3>2. L \in SUBSET (1..n)
      BY <2>7, <2>8, <3>1
    <3>3. ASSUME NEW i \in 1..n
          PROVE  i \in L <=> \A j \in L : j < i => ~Same(q[j], q[i])
      <4>1. CASE i = n
        BY <4>1, <2>7, <2>11, <2>3, <3>1
      <4>2. CASE i # n
        <5>1. i \in 1..(n - 1) /\ ~(n < i)
          BY <2>9, <4>2
        <5>2. i \in K <=> \A j \in K : j < i => ~Same(q[j], q[i])
          BY <2>6, <5>1
        <5>3. QED
          BY <5>1, <5>2, <4>2, <3>1
      <4>3. QED
        BY <4>1, <4>2
    <3>4. QED
      BY <2>3, <3>2, <3>3
  <2>12. QED
    BY <2>10, <2>11
<1>2. PICK m \in Nat : m = Len(q) /\ DOMAIN q = 1..m
  BY SeqHas
<1>3. \E K \in SUBSET (1..m) : Chosen(m, K)
  BY <1>1
<1>4. \E K \in SUBSET DOMAIN q : \A i \in DOMAIN q : i \in K <=> \A j \in K : j < i => ~Same(q[j], q[i])
  BY <1>2, <1>3
<1>5. QED
  BY <1>2, <1>4 DEF Kept

\* What is merged has no two entries that are the same, and one for every entry.
LEMMA MergedOnce ==
  ASSUME NEW a, NEW b, IsSeq(a), IsSeq(b)
  PROVE  /\ IsSeq(MergeHookEntries(a, b))
         /\ \A i, j \in DOMAIN MergeHookEntries(a, b) :
              Same(MergeHookEntries(a, b)[i], MergeHookEntries(a, b)[j]) => i = j
         /\ \A i \in DOMAIN b : \E j \in DOMAIN MergeHookEntries(a, b) :
              Same(MergeHookEntries(a, b)[j], b[i])
<1>1. PICK q, m, K : q = a \o b /\ m = MergeHookEntries(a, b) /\ K = Kept(q)
  OBVIOUS
<1>2. m = Those(q, K)
  BY <1>1 DEF MergeHookEntries
<1>3. IsSeq(q) /\ DOMAIN q = 1..Len(q) /\ Len(q) \in Nat
  BY <1>1, JoinSeq, SeqHas
<1>4. K \in SUBSET DOMAIN q /\ \A i \in DOMAIN q : i \in K <=> \A j \in K : j < i => ~Same(q[j], q[i])
  BY <1>1, <1>3, KeptIs
<1>5. IsSeq(m) /\ ToSet(m) = {q[i] : i \in K}
  BY <1>2, <1>3, <1>4, ThoseSeq
<1>6. PICK f \in [DOMAIN m -> K] :
        /\ \A k \in DOMAIN m : m[k] = q[f[k]]
        /\ \A k, l \in DOMAIN m : f[k] = f[l] => k = l
  BY <1>2, <1>3, <1>4, ThoseSeq
<1>7. ASSUME NEW i \in DOMAIN m, NEW j \in DOMAIN m, Same(m[i], m[j]) PROVE i = j
  <2>1. f[i] \in K /\ f[j] \in K /\ f[i] \in DOMAIN q /\ f[j] \in DOMAIN q
    BY <1>4
  <2>2. Same(q[f[i]], q[f[j]]) /\ Same(q[f[j]], q[f[i]])
    BY <1>6, <1>7, SameEntry
  <2>3. ~(f[i] < f[j]) /\ ~(f[j] < f[i])
    BY <1>4, <2>1, <2>2
  <2>4. f[i] \in Int /\ f[j] \in Int
    BY <1>3, <2>1
  <2>5. QED
    BY <1>6, <2>3, <2>4
<1>8. ASSUME NEW i \in DOMAIN b PROVE \E j \in DOMAIN m : Same(m[j], b[i])
  <2>1. PICK p \in DOMAIN q : q[p] = b[i]
    <3>1. b[i] \in ToSet(b)
      BY DEF ToSet
    <3>2. b[i] \in ToSet(q)
      BY <1>1, <3>1, JoinSeq
    <3>3. QED
      BY <3>2 DEF ToSet
  <2>2. PICK k \in K : Same(q[k], q[p])
    BY <1>4, SameEntry
  <2>3. q[k] \in ToSet(m)
    BY <1>5
  <2>4. PICK j \in DOMAIN m : m[j] = q[k]
    BY <2>3 DEF ToSet
  <2>5. QED
    BY <2>1, <2>2, <2>4
<1>9. QED
  BY <1>1, <1>5, <1>7, <1>8

-----------------------------------------------------------------------------
(* What a command has to do.                                               *)

OnceEach(s) == IsSeq(s) /\ \A i, j \in DOMAIN s : Same(s[i], s[j]) => i = j

IsStep(s) ==
  /\ s.do = "copy" => s.dest \in Dests
  /\ s.do = "put" => /\ s.dest \in Dests \cap {HooksPath, McpPath}
                     /\ s.content # Absent /\ IsFile(s.content)
                     /\ s.dest = HooksPath => IsHooks(s.content)
  /\ s.do = "settings" => OnceEach(s.entries)
  /\ s.do = "record" => IsRecord(s.state)
  /\ s.do \in {"repair", "undo"} => IsOperation(s.operation)

Ops == {"install", "repair", "uninstall"}
Work(op) ==
  CASE op = "install" -> {"copy", "put", "settings"} [] op = "repair" -> {"repair"} [] op = "uninstall" -> {"undo"}
Final(op) == IF op = "uninstall" THEN "forget" ELSE "record"

\* A command works and then does one thing with the record.
Goal(todo) == todo[Len(todo)]
Todo(op, todo) ==
  /\ op \in Ops /\ IsSeq(todo) /\ todo # <<>>
  /\ \A i \in 1..(Len(todo) - 1) : todo[i].do \in Work(op)
  /\ Goal(todo).do = Final(op)
  /\ \A s \in ToSet(todo) : IsStep(s)

LEMMA BuiltTodo ==
  ASSUME NEW op \in Ops, NEW w, NEW g, IsSeq(w), \A s \in ToSet(w) : s.do \in Work(op) /\ IsStep(s),
         g.do = Final(op), IsStep(g)
  PROVE  /\ Todo(op, w \o <<g>>) /\ Goal(w \o <<g>>) = g
         /\ ToSet(w \o <<g>>) = ToSet(w) \cup {g}
<1>1. PICK t, n : t = w \o <<g>> /\ n = Len(w)
  OBVIOUS
<1>2. n \in Nat /\ ToSet(w) = {w[i] : i \in 1..n}
  BY <1>1, SeqHas
<1>3. /\ IsSeq(t) /\ Len(t) = n + 1 /\ ToSet(t) = ToSet(w) \cup {g}
      /\ \A i \in 1..n : t[i] = w[i]
      /\ t[n + 1] = g
  <2>1. IsSeq(<<g>>) /\ Len(<<g>>) = 1 /\ <<g>>[1] = g /\ ToSet(<<g>>) = {g} /\ 1 \in 1..1
    BY OneSeq
  <2>2. \A i \in 1..Len(<<g>>) : t[n + i] = <<g>>[i]
    BY <1>1, <2>1, JoinSeq
  <2>3. t[n + 1] = g
    BY <2>1, <2>2
  <2>4. IsSeq(t) /\ Len(t) = n + 1 /\ ToSet(t) = ToSet(w) \cup {g} /\ \A i \in 1..n : t[i] = w[i]
    BY <1>1, <2>1, JoinSeq
  <2>5. QED
    BY <2>3, <2>4
<1>4. \A i \in 1..n : t[i].do \in Work(op)
  <2>1. \A i \in 1..n : w[i] \in ToSet(w)
    BY <1>2
  <2>2. QED
    BY <2>1, <1>3
<1>5. (n + 1) - 1 = n /\ n + 1 # 0
  BY <1>2
<1>6. t # <<>>
  BY <1>3, <1>5, NoneSeq
<1>7. Goal(t) = g
  BY <1>3 DEF Goal
<1>8. \A i \in 1..(Len(t) - 1) : t[i].do \in Work(op)
  BY <1>3, <1>4, <1>5
<1>9. Todo(op, t)
  BY <1>3, <1>6, <1>7, <1>8 DEF Todo
<1>10. QED
  BY <1>1, <1>3, <1>7, <1>9

LEMMA TodoLess ==
  ASSUME NEW op, NEW t, Todo(op, t)
  PROVE  /\ Head(t) \in ToSet(t) /\ IsStep(Head(t))
         /\ Len(t) = 1 => Head(t) = Goal(t) /\ ToSet(t) = {Head(t)} /\ Head(t).do = Final(op)
         /\ Len(t) # 1 => /\ Todo(op, Tail(t)) /\ Goal(Tail(t)) = Goal(t)
                          /\ ToSet(t) = {Head(t)} \cup ToSet(Tail(t)) /\ Head(t).do \in Work(op)
<1>1. PICK u, n : u = Tail(t) /\ n = Len(t) - 1
  OBVIOUS
<1>2. /\ IsSeq(u) /\ Len(u) = n /\ Len(t) = n + 1 /\ n \in Nat /\ Head(t) = t[1]
      /\ \A i \in 1..n : u[i] = t[i + 1]
      /\ ToSet(t) = {Head(t)} \cup ToSet(u)
  <2>1. IsSeq(t) /\ t # <<>> /\ Len(t) \in Nat
    BY SeqHas DEF Todo
  <2>2. /\ IsSeq(u) /\ Len(u) = n /\ Head(t) = t[1] /\ ToSet(t) = {Head(t)} \cup ToSet(u) /\ Len(t) >= 1
        /\ \A i \in 1..Len(u) : u[i] = t[i + 1]
    BY <1>1, <2>1, TailSeq
  <2>3. QED
    BY <1>1, <2>1, <2>2
<1>3. Head(t) \in ToSet(t) /\ IsStep(Head(t))
  BY <1>2 DEF Todo
<1>4. ASSUME Len(t) = 1
      PROVE  Head(t) = Goal(t) /\ ToSet(t) = {Head(t)} /\ Head(t).do = Final(op)
  <2>1. n = 0 /\ Goal(t) = t[1]
    <3>1. n = 0
      <4>1. n = 1 - 1
        BY <1>1, <1>4
      <4>2. QED
        BY <4>1
    <3>2. Goal(t) = t[1]
      BY <1>4 DEF Goal
    <3>3. QED
      BY <3>1, <3>2
  <2>2. ToSet(u) = {}
    <3>1. ToSet(u) = {u[i] : i \in 1..0}
      BY <1>2, <2>1, SeqHas
    <3>2. QED
      BY <3>1
  <2>3. QED
    BY <1>2, <2>1, <2>2 DEF Todo
<1>5. ASSUME Len(t) # 1
      PROVE  /\ Todo(op, u) /\ Goal(u) = Goal(t)
             /\ Head(t).do \in Work(op)
  <2>1. n # 0 /\ n \in 1..n /\ 1 \in 1..((n + 1) - 1)
    BY <1>2, <1>5
  <2>2. Goal(u) = Goal(t)
    BY <1>2, <2>1 DEF Goal
  <2>3. u # <<>>
    BY <1>2, <2>1, NoneSeq
  <2>4. \A i \in 1..(n - 1) : i \in 1..n /\ i + 1 \in 1..((n + 1) - 1)
    BY <1>2
  <2>5. \A i \in 1..((n + 1) - 1) : t[i].do \in Work(op)
    BY <1>2 DEF Todo
  <2>6. \A i \in 1..(Len(u) - 1) : u[i].do \in Work(op)
    BY <1>2, <2>4, <2>5
  <2>7. ToSet(u) \subseteq ToSet(t)
    BY <1>2
  <2>8. Todo(op, u)
    BY <1>2, <2>2, <2>3, <2>6, <2>7 DEF Todo
  <2>9. QED
    BY <1>2, <2>1, <2>2, <2>5, <2>8
<1>6. QED
  BY <1>1, <1>2, <1>3, <1>4, <1>5

-----------------------------------------------------------------------------
(* What is planned, recorded and repaired.                                 *)

LEMMA PlannedIs ==
  ASSUME NEW v \in 1..LastVersion, NEW r \in Requests
  PROVE  /\ IsSeq(PlannedOf(v, r)) /\ ToSet(PlannedOf(v, r)) \subseteq Dests
         /\ \A i \in DOMAIN PlannedOf(v, r) :
              PlannedOf(v, r)[i] \in Dests /\ Source[v][PlannedOf(v, r)[i]] # Absent
         /\ \A i, j \in DOMAIN PlannedOf(v, r) : PlannedOf(v, r)[i] = PlannedOf(v, r)[j] => i = j
<1>1. PICK q : q = Plans[v][r].dests
  OBVIOUS
<1>2. q \in Seq(Dests) /\ \A i, j \in DOMAIN q : q[i] = q[j] => i = j
  BY <1>1, InstallAssumption
<1>3. IsSeq(q) /\ \A i \in DOMAIN q : q[i] \in Dests
  BY <1>2, MemberSeq, ElementOfSeq, LenProperties
<1>4. PICK P \in SUBSET DOMAIN q : P = {i \in DOMAIN q : Source[v][q[i]] # Absent}
  OBVIOUS
<1>5. PICK p : p = PlannedOf(v, r)
  OBVIOUS
<1>6. p = Those(q, P)
  BY <1>1, <1>4, <1>5 DEF PlannedOf
<1>7. IsSeq(p) /\ ToSet(p) = {q[i] : i \in P}
  BY <1>3, <1>6, ThoseSeq
<1>8. PICK f \in [DOMAIN p -> P] :
        /\ \A k \in DOMAIN p : p[k] = q[f[k]]
        /\ \A k, l \in DOMAIN p : f[k] = f[l] => k = l
  BY <1>3, <1>6, ThoseSeq
<1>9. \A i \in DOMAIN p : p[i] \in Dests /\ Source[v][p[i]] # Absent
  BY <1>3, <1>4, <1>8
<1>10. \A i, j \in DOMAIN p : p[i] = p[j] => i = j
  BY <1>2, <1>8
<1>11. ToSet(p) \subseteq Dests
  BY <1>3, <1>7
<1>12. QED
  BY <1>5, <1>7, <1>9, <1>10, <1>11

LEMMA EachSeq ==
  ASSUME NEW p, IsSeq(p), NEW q, DOMAIN q = DOMAIN p, q = [i \in DOMAIN p |-> q[i]]
  PROVE  IsSeq(q) /\ DOMAIN q = DOMAIN p /\ ToSet(q) = {q[i] : i \in DOMAIN p}
<1>1. PICK n \in Nat : DOMAIN p = 1..n
  BY SeqHas
<1>2. IsSeq(q)
  BY <1>1, IsSeqOf
<1>3. QED
  BY <1>2 DEF ToSet

LEMMA CopyOpsAre ==
  ASSUME NEW p, IsSeq(p), \A i \in DOMAIN p : p[i] \in Dests,
         \A i, j \in DOMAIN p : p[i] = p[j] => i = j
  PROVE  /\ IsSeq(CopyOps(p)) /\ DOMAIN CopyOps(p) = DOMAIN p
         /\ \A i \in DOMAIN p : CopyOps(p)[i] = CopyOp(p[i]) /\ IsOperation(CopyOps(p)[i])
         /\ \A i, j \in DOMAIN p : CopyOps(p)[i].dest = CopyOps(p)[j].dest => i = j
<1>1. PICK q : q = CopyOps(p)
  OBVIOUS
<1>2. q = [i \in DOMAIN p |-> CopyOp(p[i])]
  BY <1>1 DEF CopyOps
<1>3. IsSeq(q) /\ DOMAIN q = DOMAIN p
  BY <1>2, EachSeq
<1>4. ASSUME NEW i \in DOMAIN p PROVE q[i] = CopyOp(p[i]) /\ q[i].dest = p[i] /\ IsOperation(q[i])
  BY <1>2 DEF CopyOp, IsOperation
<1>5. QED
  BY <1>1, <1>3, <1>4

LEMMA PreviewIs ==
  ASSUME version \in 1..LastVersion, NEW r \in Requests
  PROVE  /\ IsRecord(StatePreview(r)) /\ StatePreview(r).request = r /\ StatePreview(r).legacy = FALSE
         /\ StatePreview(r).modules = Plans[version][r].modules
         /\ StatePreview(r).ops = CopyOps(Planned(r))
<1>1. PICK s : s = StatePreview(r)
  OBVIOUS
<1>2. /\ s.request = r /\ s.legacy = FALSE /\ s.kind = "record"
      /\ s.modules = Plans[version][r].modules /\ s.ops = CopyOps(Planned(r))
      /\ DOMAIN s = {"kind", "request", "legacy", "modules", "ops", "manifestVersion"}
  BY <1>1 DEF StatePreview
<1>3. PICK p : p = Planned(r)
  OBVIOUS
<1>4. IsSeq(p) /\ (\A i \in DOMAIN p : p[i] \in Dests) /\ \A i, j \in DOMAIN p : p[i] = p[j] => i = j
  BY <1>3, PlannedIs DEF Planned
<1>5. PICK q : q = CopyOps(p)
  OBVIOUS
<1>6. /\ IsSeq(q) /\ (\A i \in DOMAIN q : IsOperation(q[i]))
      /\ \A i, j \in DOMAIN q : q[i].dest = q[j].dest => i = j
  BY <1>4, <1>5, CopyOpsAre
<1>7. s.ops = q
  BY <1>2, <1>3, <1>5
<1>8. IsRecord(s)
  BY <1>2, <1>6, <1>7 DEF IsRecord
<1>9. QED
  BY <1>1, <1>2, <1>8

LEMMA DesiredIs ==
  ASSUME version \in 1..LastVersion, IsRecord(record)
  PROVE  /\ IsRecord(Desired)
         /\ ~FromRecord => Desired = StatePreview(record.request)
         /\ FromRecord => /\ Desired.ops = record.ops /\ Desired.legacy = record.legacy
                          /\ Desired.modules = record.modules /\ Desired.request = record.request
<1>1. CASE ~FromRecord
  <2>1. Desired = StatePreview(record.request) /\ record.request \in Requests
    BY <1>1 DEF Desired, IsRecord
  <2>2. QED
    BY <1>1, <2>1, PreviewIs
<1>2. CASE FromRecord
  <2>1. PICK s : s = [record EXCEPT !.manifestVersion = ManifestVersion[version]]
    OBVIOUS
  <2>2. /\ DOMAIN s = DOMAIN record
        /\ \A x \in DOMAIN record \ {"manifestVersion"} : s[x] = record[x]
    BY <2>1
  <2>3. /\ s.kind = record.kind /\ s.request = record.request /\ s.legacy = record.legacy
        /\ s.modules = record.modules /\ s.ops = record.ops
        /\ DOMAIN s = DOMAIN record
    BY <2>2 DEF IsRecord
  <2>4. IsRecord(s)
    BY <2>3 DEF IsRecord
  <2>5. Desired = s
    BY <1>2, <2>1 DEF Desired
  <2>6. QED
    BY <1>2, <2>3, <2>4, <2>5
<1>3. QED
  BY <1>1, <1>2

LEMMA WithIs ==
  ASSUME NEW ops, IsSeq(ops), NEW status
  PROVE  /\ IsSeq(With(ops, status))
         /\ ToSet(With(ops, status)) = {ops[i] : i \in {j \in DOMAIN ops : Inspect(ops[j]) = status}}
         /\ With(ops, status) = <<>> => \A i \in DOMAIN ops : Inspect(ops[i]) # status
<1>1. PICK P \in SUBSET DOMAIN ops : P = {j \in DOMAIN ops : Inspect(ops[j]) = status}
  OBVIOUS
<1>2. PICK w : w = With(ops, status)
  OBVIOUS
<1>3. w = Those(ops, P)
  BY <1>1, <1>2 DEF With
<1>4. IsSeq(w) /\ ToSet(w) = {ops[i] : i \in P}
  BY <1>3, ThoseSeq
<1>5. ASSUME w = <<>>, NEW i \in DOMAIN ops PROVE Inspect(ops[i]) # status
  <2>1. ToSet(w) = {}
    BY <1>5, NoneSeq
  <2>2. i \notin P
    BY <1>4, <2>1
  <2>3. QED
    BY <1>1, <2>2
<1>6. QED
  BY <1>1, <1>2, <1>4, <1>5

-----------------------------------------------------------------------------
(* The shape of everything there is.                                       *)

Working(c) == c = [op |-> c.op, todo |-> c.todo] /\ Todo(c.op, c.todo)

DiskShape ==
  disk = [d \in Dests |-> disk[d]] /\ (\A d \in Dests : IsFile(disk[d])) /\ IsHooks(disk[HooksPath])

Shape ==
  /\ version \in 1..LastVersion
  /\ DiskShape
  /\ OnceEach(settings)
  /\ record \in {NoRecord, Corrupt} \/ IsRecord(record)
  /\ cmd = Idle \/ Working(cmd)

\* The entries of hooks.json are all in the settings, or are the same as some there.
Covers(entries) ==
  \A i \in DOMAIN HookEntries[version] : \E j \in DOMAIN entries : Same(entries[j], HookEntries[version][i])

LEMMA TwoSeq ==
  ASSUME NEW a, NEW b
  PROVE  IsSeq(<<a, b>>) /\ ToSet(<<a, b>>) = {a, b}
<1>1. PICK t : t = <<a, b>>
  OBVIOUS
<1>2. t = [i \in 1..2 |-> t[i]] /\ t[1] = a /\ t[2] = b
  BY <1>1
<1>3. IsSeq(t) /\ Len(t) = 2
  BY <1>2, IsSeqOf
<1>4. ToSet(t) = {t[i] : i \in 1..2}
  BY <1>3, SeqHas
<1>5. QED
  BY <1>1, <1>2, <1>3, <1>4

LEMMA SettingsStepsAre ==
  ASSUME Shape, NEW r \in Requests, ReadableHooks(Planned(r))
  PROVE  LET w == SettingsSteps(Planned(r))
         IN  /\ IsSeq(w)
             /\ \A s \in ToSet(w) : s.do \in Work("install") /\ IsStep(s)
             /\ \A s \in ToSet(w) : s.do # "copy" /\
                  (s.do = "put" => \/ s.dest \in ToSet(Planned(r))
                                   \/ s.dest = HooksPath /\ disk[HooksPath] # Absent /\ IsJson(disk[HooksPath]))
             /\ \A s \in ToSet(w) : s.do = "settings" =>
                  /\ Target = "claude"
                  /\ HooksPath \in ToSet(Planned(r)) \/ (disk[HooksPath] # Absent /\ IsJson(disk[HooksPath]))
             /\ Target = "claude" /\ HooksPath \in ToSet(Planned(r)) =>
                  /\ \E s \in ToSet(w) : s.do = "settings"
                  /\ \A s \in ToSet(w) : s.do = "settings" => Covers(s.entries)
<1>1. PICK p, w, c : p = Planned(r) /\ w = SettingsSteps(p) /\ c = HooksConfig(p)
  OBVIOUS
<1>2. version \in 1..LastVersion /\ IsFile(disk[HooksPath]) /\ IsHooks(disk[HooksPath]) /\ HooksPath \in Dests
  BY InstallAssumption DEF Shape, DiskShape
<1>3. HooksPath \in ToSet(p) => Source[version][HooksPath] # Absent
  <2>1. \A i \in DOMAIN p : Source[version][p[i]] # Absent
    BY <1>1, <1>2, PlannedIs DEF Planned
  <2>2. QED
    BY <2>1 DEF ToSet
<1>4. c = IF HooksPath \in ToSet(p) THEN Source[version][HooksPath] ELSE disk[HooksPath]
  BY <1>1 DEF HooksConfig
<1>5. Target = "claude" => IsJson(c)
  BY <1>1 DEF ReadableHooks
<1>6. CASE w = <<>>
  <2>1. Target = "claude" => c = Absent
    BY <1>1, <1>6, TwoSeq, NoneSeq DEF SettingsSteps
  <2>2. ~(Target = "claude" /\ HooksPath \in ToSet(p))
    BY <1>3, <1>4, <2>1
  <2>3. IsSeq(w) /\ ToSet(w) = {}
    BY <1>6, NoneSeq
  <2>4. QED
    BY <1>1, <2>2, <2>3
<1>7. CASE w # <<>>
  <2>1. Target = "claude" /\ c # Absent
    BY <1>1, <1>7 DEF SettingsSteps
  <2>2. PICK e, a, b : /\ e = MergeHookEntries(settings, HookEntries[c.version])
                       /\ a = [do |-> "put", dest |-> HooksPath, content |-> Resolve(c)]
                       /\ b = [do |-> "settings", entries |-> e]
    OBVIOUS
  <2>3. w = <<a, b>>
    BY <1>1, <2>1, <2>2 DEF SettingsSteps
  <2>4. IsSeq(w) /\ ToSet(w) = {a, b}
    BY <2>3, TwoSeq
  <2>5. /\ IsJson(c) /\ IsFile(c) /\ "version" \in DOMAIN c /\ c.version \in 1..LastVersion
        /\ HooksPath \in ToSet(p) => c.version = version
    <3>1. IsJson(c)
      BY <1>5, <2>1
    <3>2. CASE HooksPath \in ToSet(p)
      <4>1. c = Source[version][HooksPath]
        BY <1>4, <3>2
      <4>2. IsFile(c) /\ "version" \in DOMAIN c /\ c.version = version
        BY <4>1, <3>1, <2>1, <1>2, InstallAssumption
      <4>3. QED
        BY <4>2, <3>1, <1>2
    <3>3. CASE HooksPath \notin ToSet(p)
      BY <3>1, <3>3, <2>1, <1>2, <1>4 DEF IsHooks
    <3>4. QED
      BY <3>2, <3>3
  <2>6. OnceEach(e) /\ \A i \in DOMAIN HookEntries[c.version] :
          \E j \in DOMAIN e : Same(e[j], HookEntries[c.version][i])
    <3>1. IsSeq(settings) /\ IsSeq(HookEntries[c.version])
      BY <2>5, InstallAssumption DEF Shape, OnceEach
    <3>2. QED
      BY <2>2, <3>1, MergedOnce DEF OnceEach
  <2>7. DOMAIN Resolve(c) = DOMAIN c /\ Resolve(c)["version"] = c.version
    BY <2>5 DEF Resolve
  <2>8. Resolve(c) # Absent /\ IsFile(Resolve(c)) /\ IsHooks(Resolve(c))
    <3>1. "absent" \notin DOMAIN c
      BY <2>1, <2>5 DEF IsFile
    <3>2. Resolve(c) # Absent
      BY <2>7, <3>1 DEF Absent
    <3>3. QED
      BY <2>5, <2>7, <3>1, <3>2 DEF IsFile, IsHooks, IsJson
  <2>9. a.do = "put" /\ a.dest = HooksPath /\ a.content = Resolve(c) /\ IsStep(a)
    <3>1. a.do = "put" /\ a.dest = HooksPath /\ a.content = Resolve(c)
      BY <2>2
    <3>2. QED
      BY <3>1, <2>8, <1>2 DEF IsStep
  <2>10. b.do = "settings" /\ b.entries = e /\ IsStep(b)
    <3>1. b.do = "settings" /\ b.entries = e
      BY <2>2
    <3>2. QED
      BY <3>1, <2>6 DEF IsStep
  <2>11. a.do \in Work("install") /\ b.do \in Work("install")
    BY <2>9, <2>10 DEF Work
  <2>12. HooksPath \in ToSet(p) => Covers(e)
    BY <2>5, <2>6 DEF Covers
  <2>13. a.dest \in ToSet(p) \/ (disk[HooksPath] # Absent /\ IsJson(disk[HooksPath]))
    BY <2>1, <2>5, <2>9, <1>4
  <2>14. Target = "claude" /\ (HooksPath \in ToSet(p) \/ (disk[HooksPath] # Absent /\ IsJson(disk[HooksPath])))
    BY <2>1, <2>5, <1>4
  <2>15. QED
    BY <1>1, <2>4, <2>9, <2>10, <2>11, <2>12, <2>13, <2>14
<1>8. QED
  BY <1>6, <1>7

LEMMA McpStepsAre ==
  ASSUME Shape, NEW r \in Requests
  PROVE  LET w == McpSteps(Planned(r))
         IN  /\ IsSeq(w)
             /\ \A s \in ToSet(w) : /\ s.do = "put" /\ s.do \in Work("install") /\ IsStep(s)
                                    /\ s.dest \in ToSet(Planned(r))
<1>1. PICK p, w : p = Planned(r) /\ w = McpSteps(p)
  OBVIOUS
<1>2. CASE w = <<>>
  <2>1. IsSeq(w) /\ ToSet(w) = {}
    BY <1>2, NoneSeq
  <2>2. QED
    BY <1>1, <2>1
<1>3. CASE w # <<>>
  <2>1. PICK c, a : c = WithoutLeaves(Source[version][McpPath], Disabled)
                    /\ a = [do |-> "put", dest |-> McpPath, content |-> c]
    OBVIOUS
  <2>2. McpPath \in ToSet(p) /\ w = <<a>>
    BY <1>1, <1>3, <2>1 DEF McpSteps
  <2>3. version \in 1..LastVersion
    BY DEF Shape
  <2>4. PICK i \in DOMAIN p : p[i] = McpPath
    BY <2>2 DEF ToSet
  <2>5. McpPath \in Dests /\ Source[version][McpPath] # Absent
    BY <1>1, <2>3, <2>4, PlannedIs DEF Planned
  <2>6. "absent" \notin DOMAIN Source[version][McpPath]
    BY <2>3, <2>5, InstallAssumption DEF IsFile
  <2>7. "absent" \notin DOMAIN c
    BY <2>1, <2>6 DEF WithoutLeaves
  <2>8. c # Absent /\ IsFile(c)
    BY <2>7 DEF Absent, IsFile
  <2>9. a.do = "put" /\ a.dest = McpPath /\ a.content = c /\ McpPath # HooksPath
    BY <2>1 DEF McpPath, HooksPath
  <2>10. IsStep(a) /\ a.do \in Work("install")
    BY <2>5, <2>8, <2>9 DEF IsStep, Work
  <2>11. IsSeq(w) /\ ToSet(w) = {a}
    BY <2>2, OneSeq
  <2>12. QED
    BY <1>1, <2>2, <2>9, <2>10, <2>11
<1>4. QED
  BY <1>2, <1>3

\* An install copies every file of its plan, and writes no others but hooks
\* that are there already.
InstallWork(r, w) ==
  /\ \A d \in ToSet(Planned(r)) : \E s \in w : s.do = "copy" /\ s.dest = d
  /\ \A s \in w : s.do \in {"copy", "put"} =>
       \/ s.dest \in ToSet(Planned(r))
       \/ s.dest = HooksPath /\ disk[HooksPath] # Absent /\ IsJson(disk[HooksPath])
  /\ \A s \in w : s.do = "settings" =>
       /\ Target = "claude"
       /\ HooksPath \in ToSet(Planned(r)) \/ (disk[HooksPath] # Absent /\ IsJson(disk[HooksPath]))
  /\ Target = "claude" /\ HooksPath \in ToSet(Planned(r)) =>
       /\ \E s \in w : s.do = "settings"
       /\ \A s \in w : s.do = "settings" => Covers(s.entries)

LEMMA StartsInstall ==
  ASSUME Shape, NEW r \in Requests, StartInstall(r)
  PROVE  /\ Working(cmd') /\ cmd'.op = "install" /\ Goal(cmd'.todo) = [do |-> "record", state |-> StatePreview(r)]
         /\ \E w : ToSet(cmd'.todo) = w \cup {Goal(cmd'.todo)} /\ InstallWork(r, w)
<1>1. PICK p, a, b, c, g, t : /\ p = Planned(r)
                              /\ a = [i \in DOMAIN p |-> [do |-> "copy", dest |-> p[i]]]
                              /\ b = SettingsSteps(p) /\ c = McpSteps(p)
                              /\ g = [do |-> "record", state |-> StatePreview(r)]
                              /\ t = a \o b \o c \o <<g>>
  OBVIOUS
<1>2. cmd' = [op |-> "install", todo |-> t]
  BY <1>1 DEF StartInstall, Start
<1>3. version \in 1..LastVersion /\ ReadableHooks(p)
  BY <1>1 DEF Shape, StartInstall
<1>4. IsSeq(p) /\ ToSet(p) \subseteq Dests /\ ToSet(p) = {p[i] : i \in DOMAIN p}
  BY <1>1, <1>3, PlannedIs DEF Planned, ToSet
<1>5. IsSeq(a) /\ ToSet(a) = {a[i] : i \in DOMAIN p}
  BY <1>1, <1>4, EachSeq
<1>6. \A i \in DOMAIN p : a[i].do = "copy" /\ a[i].dest = p[i]
  BY <1>1
<1>7. \A s \in ToSet(a) : s.do = "copy" /\ s.dest \in ToSet(p) /\ s.do \in Work("install") /\ IsStep(s)
  <2>1. SUFFICES ASSUME NEW s \in ToSet(a)
                 PROVE  s.do = "copy" /\ s.dest \in ToSet(p) /\ s.do \in Work("install") /\ IsStep(s)
    OBVIOUS
  <2>2. s.do = "copy" /\ s.dest \in ToSet(p)
    BY <1>4, <1>5, <1>6
  <2>3. IsStep(s)
    BY <1>4, <2>2 DEF IsStep
  <2>4. QED
    BY <2>2, <2>3 DEF Work
<1>8. \A d \in ToSet(p) : \E s \in ToSet(a) : s.do = "copy" /\ s.dest = d
  BY <1>4, <1>5, <1>6
<1>9. /\ IsSeq(b)
      /\ \A s \in ToSet(b) : s.do \in Work("install") /\ IsStep(s)
      /\ \A s \in ToSet(b) : s.do # "copy" /\
           (s.do = "put" => \/ s.dest \in ToSet(p)
                            \/ s.dest = HooksPath /\ disk[HooksPath] # Absent /\ IsJson(disk[HooksPath]))
      /\ \A s \in ToSet(b) : s.do = "settings" =>
           /\ Target = "claude"
           /\ HooksPath \in ToSet(p) \/ (disk[HooksPath] # Absent /\ IsJson(disk[HooksPath]))
      /\ Target = "claude" /\ HooksPath \in ToSet(p) =>
           /\ \E s \in ToSet(b) : s.do = "settings"
           /\ \A s \in ToSet(b) : s.do = "settings" => Covers(s.entries)
  BY <1>1, <1>3, SettingsStepsAre
<1>10. /\ IsSeq(c)
       /\ \A s \in ToSet(c) : s.do = "put" /\ s.do \in Work("install") /\ IsStep(s) /\ s.dest \in ToSet(p)
  BY <1>1, McpStepsAre
<1>11. PICK w : w = a \o b \o c
  OBVIOUS
<1>12. IsSeq(w) /\ ToSet(w) = ToSet(a) \cup ToSet(b) \cup ToSet(c)
  <2>1. PICK x : x = a \o b
    OBVIOUS
  <2>2. IsSeq(x) /\ ToSet(x) = ToSet(a) \cup ToSet(b)
    BY <2>1, <1>5, <1>9, JoinSeq
  <2>3. w = x \o c
    BY <2>1, <1>11
  <2>4. IsSeq(w) /\ ToSet(w) = ToSet(x) \cup ToSet(c)
    BY <2>2, <2>3, <1>10, JoinSeq
  <2>5. QED
    BY <2>2, <2>4
<1>13. g.do = Final("install") /\ IsStep(g)
  <2>1. g.do = "record" /\ g.state = StatePreview(r) /\ IsRecord(StatePreview(r))
    BY <1>1, <1>3, PreviewIs
  <2>2. QED
    BY <2>1 DEF IsStep, Final
<1>14. "install" \in Ops /\ \A s \in ToSet(w) : s.do \in Work("install") /\ IsStep(s)
  BY <1>7, <1>9, <1>10, <1>12 DEF Ops
<1>15. t = w \o <<g>>
  BY <1>1, <1>11
<1>16. Todo("install", t) /\ Goal(t) = g /\ ToSet(t) = ToSet(w) \cup {g}
  BY <1>12, <1>13, <1>14, <1>15, BuiltTodo
<1>17. InstallWork(r, ToSet(w))
  <2>1. \A d \in ToSet(p) : \E s \in ToSet(w) : s.do = "copy" /\ s.dest = d
    BY <1>8, <1>12
  <2>2. \A s \in ToSet(w) : s.do \in {"copy", "put"} =>
          \/ s.dest \in ToSet(p)
          \/ s.dest = HooksPath /\ disk[HooksPath] # Absent /\ IsJson(disk[HooksPath])
    BY <1>7, <1>9, <1>10, <1>12
  <2>3. \A s \in ToSet(w) : s.do = "settings" => s \in ToSet(b)
    BY <1>7, <1>10, <1>12
  <2>4. Target = "claude" /\ HooksPath \in ToSet(p) =>
          /\ \E s \in ToSet(w) : s.do = "settings"
          /\ \A s \in ToSet(w) : s.do = "settings" => Covers(s.entries)
    BY <1>9, <1>12, <2>3
  <2>5. \A s \in ToSet(w) : s.do = "settings" =>
          /\ Target = "claude"
          /\ HooksPath \in ToSet(p) \/ (disk[HooksPath] # Absent /\ IsJson(disk[HooksPath]))
    BY <1>9, <2>3
  <2>6. QED
    BY <1>1, <2>1, <2>2, <2>4, <2>5 DEF InstallWork
<1>18. cmd'.op = "install" /\ cmd'.todo = t
  BY <1>2
<1>19. Working(cmd')
  BY <1>2, <1>16, <1>18 DEF Working
<1>20. QED
  BY <1>1, <1>16, <1>17, <1>18, <1>19

\* A repair works on what was found missing or drifted.
LEMMA StartsRepair ==
  ASSUME Shape, StartRepair
  PROVE  /\ Working(cmd') /\ cmd'.op = "repair" /\ Goal(cmd'.todo) = [do |-> "record", state |-> Desired]
         /\ IsRecord(Desired) /\ IsRecord(record)
         /\ \A i \in DOMAIN Desired.ops : Inspect(Desired.ops[i]) # "missing-source"
         /\ \A i \in DOMAIN Desired.ops : Inspect(Desired.ops[i]) \in {"missing", "drifted"} =>
              \E s \in ToSet(cmd'.todo) : s.do = "repair" /\ s.operation = Desired.ops[i]
         /\ \A s \in ToSet(cmd'.todo) : s.do = "repair" => \E i \in DOMAIN Desired.ops : s.operation = Desired.ops[i]
<1>1. version \in 1..LastVersion /\ IsRecord(record)
  BY DEF Shape, StartRepair, NoRecord, Corrupt, IsRecord
<1>2. PICK o, x, y, q, a, g, t : /\ o = Desired.ops /\ x = With(o, "missing") /\ y = With(o, "drifted")
                                 /\ q = x \o y
                                 /\ a = [i \in DOMAIN q |-> [do |-> "repair", operation |-> q[i]]]
                                 /\ g = [do |-> "record", state |-> Desired] /\ t = a \o <<g>>
  OBVIOUS
<1>3. cmd' = [op |-> "repair", todo |-> t]
  BY <1>2 DEF StartRepair, Start, Repairs
<1>4. IsRecord(Desired) /\ IsSeq(o) /\ \A i \in DOMAIN o : IsOperation(o[i])
  BY <1>1, <1>2, DesiredIs DEF IsRecord
<1>5. /\ IsSeq(x) /\ ToSet(x) = {o[i] : i \in {j \in DOMAIN o : Inspect(o[j]) = "missing"}}
      /\ IsSeq(y) /\ ToSet(y) = {o[i] : i \in {j \in DOMAIN o : Inspect(o[j]) = "drifted"}}
  BY <1>2, <1>4, WithIs
<1>6. IsSeq(q) /\ ToSet(q) = ToSet(x) \cup ToSet(y)
  BY <1>2, <1>5, JoinSeq
<1>7. IsSeq(a) /\ ToSet(a) = {a[i] : i \in DOMAIN q}
  <2>1. DOMAIN a = DOMAIN q /\ a = [i \in DOMAIN q |-> a[i]]
    BY <1>2
  <2>2. QED
    BY <2>1, <1>6, EachSeq
<1>8. \A i \in DOMAIN q : a[i].do = "repair" /\ a[i].operation = q[i] /\ q[i] \in ToSet(q)
  BY <1>2 DEF ToSet
<1>9. \A s \in ToSet(a) : s.do = "repair" /\ s.operation \in ToSet(q)
  BY <1>7, <1>8
<1>10. \A op \in ToSet(q) : \E i \in DOMAIN o : op = o[i]
  BY <1>5, <1>6
<1>11. \A s \in ToSet(a) : s.do \in Work("repair") /\ IsStep(s)
  BY <1>4, <1>9, <1>10 DEF IsStep, Work
<1>12. g.do = Final("repair") /\ IsStep(g)
  <2>1. g.do = "record" /\ g.state = Desired
    BY <1>2
  <2>2. QED
    BY <1>4, <2>1 DEF IsStep, Final
<1>13. "repair" \in Ops
  BY DEF Ops
<1>14. Todo("repair", t) /\ Goal(t) = g /\ ToSet(t) = ToSet(a) \cup {g}
  <2>1. t = a \o <<g>>
    BY <1>2
  <2>2. QED
    BY <2>1, <1>7, <1>11, <1>12, <1>13, BuiltTodo
<1>15. cmd'.op = "repair" /\ cmd'.todo = t
  BY <1>3
<1>16. Working(cmd')
  BY <1>3, <1>14, <1>15 DEF Working
<1>17. \A i \in DOMAIN o : Inspect(o[i]) # "missing-source"
  BY <1>2, <1>4, WithIs DEF StartRepair
<1>18. ASSUME NEW i \in DOMAIN o, Inspect(o[i]) \in {"missing", "drifted"}
       PROVE  \E s \in ToSet(t) : s.do = "repair" /\ s.operation = o[i]
  <2>1. o[i] \in ToSet(q)
    BY <1>5, <1>6, <1>18
  <2>2. PICK k \in DOMAIN q : q[k] = o[i]
    BY <2>1 DEF ToSet
  <2>3. a[k] \in ToSet(t) /\ a[k].do = "repair" /\ a[k].operation = o[i]
    BY <1>7, <1>8, <1>14, <2>2
  <2>4. QED
    BY <2>3
<1>19. \A s \in ToSet(t) : s.do = "repair" => \E i \in DOMAIN o : s.operation = o[i]
  <2>1. g.do # "repair"
    BY <1>2
  <2>2. QED
    BY <1>9, <1>10, <1>14, <2>1
<1>20. QED
  BY <1>1, <1>2, <1>4, <1>14, <1>15, <1>16, <1>17, <1>18, <1>19

LEMMA StartsUninstall ==
  ASSUME Shape, StartUninstall
  PROVE  /\ Working(cmd') /\ cmd'.op = "uninstall" /\ Goal(cmd'.todo).do = "forget" /\ IsRecord(record)
         /\ \A i \in DOMAIN record.ops : \E s \in ToSet(cmd'.todo) : s.do = "undo" /\ s.operation = record.ops[i]
         /\ \A s \in ToSet(cmd'.todo) : s.do = "undo" => \E i \in DOMAIN record.ops : s.operation = record.ops[i]
<1>1. IsRecord(record)
  BY DEF Shape, StartUninstall, NoRecord, Corrupt, IsRecord
<1>2. PICK o, a, g, t : /\ o = record.ops
                        /\ a = [i \in DOMAIN o |-> [do |-> "undo", operation |-> o[i]]]
                        /\ g = [do |-> "forget"] /\ t = a \o <<g>>
  OBVIOUS
<1>3. cmd' = [op |-> "uninstall", todo |-> t]
  BY <1>2 DEF StartUninstall, Start
<1>4. IsSeq(o) /\ \A i \in DOMAIN o : IsOperation(o[i])
  BY <1>1, <1>2 DEF IsRecord
<1>5. IsSeq(a) /\ ToSet(a) = {a[i] : i \in DOMAIN o}
  <2>1. DOMAIN a = DOMAIN o /\ a = [i \in DOMAIN o |-> a[i]]
    BY <1>2
  <2>2. QED
    BY <2>1, <1>4, EachSeq
<1>6. \A i \in DOMAIN o : a[i].do = "undo" /\ a[i].operation = o[i]
  BY <1>2
<1>7. \A s \in ToSet(a) : s.do \in Work("uninstall") /\ IsStep(s)
  BY <1>4, <1>5, <1>6 DEF IsStep, Work
<1>8. g.do = "forget" /\ g.do = Final("uninstall") /\ IsStep(g)
  BY <1>2 DEF IsStep, Final
<1>9. "uninstall" \in Ops
  BY DEF Ops
<1>10. Todo("uninstall", t) /\ Goal(t) = g /\ ToSet(t) = ToSet(a) \cup {g}
  BY <1>2, <1>5, <1>7, <1>8, <1>9, BuiltTodo
<1>11. cmd'.op = "uninstall" /\ cmd'.todo = t
  BY <1>3
<1>12. Working(cmd')
  BY <1>3, <1>10, <1>11 DEF Working
<1>13. \A i \in DOMAIN o : \E s \in ToSet(t) : s.do = "undo" /\ s.operation = o[i]
  BY <1>5, <1>6, <1>10
<1>14. \A s \in ToSet(t) : s.do = "undo" => \E i \in DOMAIN o : s.operation = o[i]
  BY <1>5, <1>6, <1>8, <1>10
<1>15. o = record.ops
  BY <1>2
<1>16. QED
  BY <1>1, <1>8, <1>10, <1>11, <1>12, <1>13, <1>14, <1>15

-----------------------------------------------------------------------------
(* Steps keep the shape.                                                   *)

Finishes ==
  /\ cmd' = Idle /\ outcome' = Result(cmd.op)
  /\ Step = Goal(cmd.todo) /\ ToSet(cmd.todo) = {Step} /\ Step.do = Final(cmd.op)

GoesOn ==
  /\ Working(cmd') /\ cmd' # Idle /\ cmd'.op = cmd.op /\ outcome' = outcome
  /\ Goal(cmd'.todo) = Goal(cmd.todo) /\ ToSet(cmd.todo) = {Step} \cup ToSet(cmd'.todo)
  /\ Step.do \in Work(cmd.op)

LEMMA WorkingNotIdle ==
  ASSUME NEW c, Working(c)
  PROVE  c # Idle
BY DEF Working, Todo, Ops, Idle

LEMMA Proceeds ==
  ASSUME Working(cmd), Proceed
  PROVE  /\ UNCHANGED <<version, edits, calm, planned>>
         /\ Step \in ToSet(cmd.todo) /\ IsStep(Step) /\ (Finishes \/ GoesOn)
<1>1. PICK op, t : op = cmd.op /\ t = cmd.todo
  OBVIOUS
<1>2. Todo(op, t) /\ Step = Head(t)
  BY <1>1 DEF Working, Step
<1>3. UNCHANGED <<version, edits, calm, planned>>
  BY DEF Proceed, user
<1>4. Step \in ToSet(t) /\ IsStep(Step)
  BY <1>2, TodoLess
<1>5. CASE Len(t) = 1
  <2>1. cmd' = Idle /\ outcome' = Result(op)
    BY <1>1, <1>5 DEF Proceed
  <2>2. Finishes
    BY <1>1, <1>2, <1>5, <2>1, TodoLess DEF Finishes
  <2>3. QED
    BY <1>1, <1>3, <1>4, <2>2
<1>6. CASE Len(t) # 1
  <2>1. cmd' = [cmd EXCEPT !.todo = Tail(t)] /\ outcome' = outcome
    BY <1>1, <1>6 DEF Proceed
  <2>2. cmd' = [op |-> op, todo |-> Tail(t)]
    BY <1>1, <2>1 DEF Working
  <2>3. cmd'.op = op /\ cmd'.todo = Tail(t)
    BY <2>2
  <2>4. /\ Todo(op, Tail(t)) /\ Goal(Tail(t)) = Goal(t) /\ ToSet(t) = {Step} \cup ToSet(Tail(t))
        /\ Step.do \in Work(op)
    BY <1>2, <1>6, TodoLess
  <2>5. Working(cmd')
    BY <2>2, <2>3, <2>4 DEF Working
  <2>6. GoesOn
    BY <1>1, <2>1, <2>3, <2>4, <2>5, WorkingNotIdle DEF GoesOn
  <2>7. QED
    BY <1>1, <1>3, <1>4, <2>6
<1>7. QED
  BY <1>5, <1>6

LEMMA DiskWritten ==
  ASSUME DiskShape, NEW d \in Dests, NEW c, IsFile(c), d = HooksPath => IsHooks(c),
         disk' = [disk EXCEPT ![d] = c]
  PROVE  DiskShape' /\ disk'[d] = c /\ \A e \in Dests \ {d} : disk'[e] = disk[e]
<1>1. DOMAIN disk = Dests
  BY DEF DiskShape
<1>2. disk'[d] = c /\ (\A e \in Dests \ {d} : disk'[e] = disk[e]) /\ disk' = [e \in Dests |-> disk'[e]]
  BY <1>1
<1>3. \A e \in Dests : IsFile(disk'[e])
  BY <1>2 DEF DiskShape
<1>4. IsHooks(disk'[HooksPath])
  BY <1>2, InstallAssumption DEF DiskShape
<1>5. QED
  BY <1>2, <1>3, <1>4 DEF DiskShape

LEMMA SourceIs ==
  ASSUME version \in 1..LastVersion, NEW d \in Dests
  PROVE  IsFile(Source[version][d]) /\ (d = HooksPath => IsHooks(Source[version][d]))
BY InstallAssumption DEF IsHooks

LEMMA MergedIs ==
  ASSUME NEW c, NEW b, c # Absent, IsFile(c), IsJson(c), b # Absent, IsFile(b), IsJson(b)
  PROVE  /\ Merge(c, b) # Absent /\ IsFile(Merge(c, b)) /\ IsJson(Merge(c, b))
         /\ HasSubset(Merge(c, b), b) /\ DOMAIN Merge(c, b) = DOMAIN c \cup DOMAIN b
<1>1. PICK m : m = Merge(c, b)
  OBVIOUS
<1>2. DOMAIN m = DOMAIN c \cup DOMAIN b /\ \A l \in DOMAIN b : m[l] = b[l]
  BY <1>1 DEF Merge
<1>3. "absent" \notin DOMAIN m
  BY <1>2 DEF IsFile
<1>4. m # Absent /\ IsFile(m)
  BY <1>3 DEF Absent, IsFile
<1>5. QED
  BY <1>1, <1>2, <1>4 DEF IsJson, HasSubset

\* What a repair writes is a file as the operation wants it.
LEMMA RepairedIs ==
  ASSUME version \in 1..LastVersion, DiskShape, NEW op, IsOperation(op),
         op.kind = "copy-file" => HasSource(op),
         op.kind = "merge-json" => ~Exists(op.dest) \/ IsJson(disk[op.dest])
  PROVE  /\ IsFile(Repaired(op)) /\ (op.dest = HooksPath => IsHooks(Repaired(op)))
         /\ op.kind = "copy-file" => Repaired(op) = Source[version][op.dest] /\ Repaired(op) # Absent
         /\ op.kind = "render-template" => Repaired(op) = op.content /\ op.content # Absent
         /\ op.kind = "remove" => Repaired(op) = Absent
         /\ op.kind = "merge-json" => /\ Repaired(op) # Absent /\ IsJson(Repaired(op))
                                      /\ HasSubset(Repaired(op), op.content)
                                      /\ Exists(op.dest) =>
                                           DOMAIN Repaired(op) = DOMAIN disk[op.dest] \cup DOMAIN op.content
<1>1. op.dest \in Dests /\ op.kind \in {"copy-file", "render-template", "merge-json", "remove"}
  BY DEF IsOperation
<1>2. CASE op.kind = "copy-file"
  <2>1. Repaired(op) = Source[version][op.dest] /\ Source[version][op.dest] # Absent
    BY <1>2 DEF Repaired, HasSource
  <2>2. QED
    BY <1>1, <1>2, <2>1, SourceIs
<1>3. CASE op.kind = "render-template"
  <2>1. Repaired(op) = op.content
    BY <1>3 DEF Repaired
  <2>2. QED
    BY <1>3, <2>1 DEF IsOperation
<1>4. CASE op.kind = "remove"
  <2>1. Repaired(op) = Absent
    BY <1>4 DEF Repaired
  <2>2. QED
    BY <1>4, <2>1 DEF IsFile, IsHooks
<1>5. CASE op.kind = "merge-json"
  <2>1. Repaired(op) = IF Exists(op.dest) THEN Merge(disk[op.dest], op.content) ELSE op.content
    BY <1>5 DEF Repaired
  <2>2. op.content # Absent /\ IsFile(op.content) /\ IsJson(op.content) /\ op.dest # HooksPath
    BY <1>5 DEF IsOperation
  <2>3. CASE Exists(op.dest)
    <3>1. disk[op.dest] # Absent /\ IsFile(disk[op.dest]) /\ IsJson(disk[op.dest])
      BY <1>1, <1>5, <2>3 DEF Exists, DiskShape
    <3>2. PICK c : c = disk[op.dest]
      OBVIOUS
    <3>3. PICK b : b = op.content
      OBVIOUS
    <3>4. /\ Merge(c, b) # Absent /\ IsFile(Merge(c, b)) /\ IsJson(Merge(c, b))
          /\ HasSubset(Merge(c, b), b) /\ DOMAIN Merge(c, b) = DOMAIN c \cup DOMAIN b
      BY <2>2, <3>1, <3>2, <3>3, MergedIs
    <3>5. Repaired(op) = Merge(c, b)
      BY <2>1, <2>3, <3>2, <3>3
    <3>6. QED
      BY <1>5, <2>2, <3>2, <3>3, <3>4, <3>5
  <2>4. CASE ~Exists(op.dest)
    <3>1. Repaired(op) = op.content /\ HasSubset(op.content, op.content)
      BY <2>1, <2>4 DEF HasSubset
    <3>2. QED
      BY <1>5, <2>2, <2>4, <3>1
  <2>5. QED
    BY <2>3, <2>4
<1>6. QED
  BY <1>1, <1>2, <1>3, <1>4, <1>5

LEMMA UndoneIs ==
  ASSUME DiskShape, NEW op, IsOperation(op)
  PROVE  IsFile(Undone(op)) /\ (op.dest = HooksPath => IsHooks(Undone(op)))
<1>1. op.dest \in Dests /\ op.kind \in {"copy-file", "render-template", "merge-json", "remove"}
  BY DEF IsOperation
<1>2. IsFile(Absent) /\ IsHooks(Absent) /\ IsFile(disk[op.dest])
  BY <1>1 DEF IsFile, IsHooks, DiskShape
<1>3. CASE op.kind = "copy-file"
  <2>1. Undone(op) = Absent
    BY <1>3 DEF Undone
  <2>2. QED
    BY <2>1, <1>2
<1>4. CASE op.kind # "copy-file" /\ op.previous # Absent
  <2>1. Undone(op) = op.previous
    BY <1>4 DEF Undone
  <2>2. QED
    BY <1>4, <2>1 DEF IsOperation
<1>5. CASE op.kind # "copy-file" /\ op.previous = Absent
  <2>1. op.dest # HooksPath
    BY <1>5 DEF IsOperation
  <2>2. \/ Undone(op) = Absent \/ Undone(op) = disk[op.dest]
        \/ Exists(op.dest) /\ Undone(op) = RemoveSubset(disk[op.dest], op.content)
    BY <1>1, <1>5 DEF Undone
  <2>3. Exists(op.dest) => IsFile(RemoveSubset(disk[op.dest], op.content))
    BY <1>2 DEF Exists, IsFile, RemoveSubset, WithoutLeaves
  <2>4. QED
    BY <1>2, <2>1, <2>2, <2>3
<1>6. QED
  BY <1>3, <1>4, <1>5

LEMMA InitShape == Init => Shape
<1>1. SUFFICES ASSUME Init PROVE Shape
  OBVIOUS
<1>2. PICK i \in DOMAIN FirstRecord : record = FirstRecord[i] /\ disk = FirstDisk[i]
  BY <1>1 DEF Init
<1>3. version \in 1..LastVersion
  BY <1>1, InstallAssumption DEF Init
<1>4. DiskShape
  BY <1>2, InstallAssumption DEF DiskShape, IsHooks
<1>5. OnceEach(settings)
  <2>1. settings = <<>>
    BY <1>1 DEF Init
  <2>2. QED
    BY <2>1, NoneSeq, SeqHas DEF OnceEach
<1>6. record \in {NoRecord, Corrupt} \/ IsRecord(record)
  BY <1>2, InstallAssumption
<1>7. QED
  BY <1>1, <1>3, <1>4, <1>5, <1>6 DEF Init, Shape

\* The shape of what a step of a command leaves, if it changes the disk as it may.
LEMMA ProceedsShape ==
  ASSUME Shape, Working(cmd), Proceed, DiskShape', OnceEach(settings'),
         record' \in {NoRecord, Corrupt} \/ IsRecord(record')
  PROVE  Shape'
<1>1. version' \in 1..LastVersion
  BY Proceeds DEF Shape
<1>2. cmd' = Idle \/ Working(cmd')
  BY Proceeds DEF Finishes, GoesOn
<1>3. QED
  BY <1>1, <1>2 DEF Shape

LEMMA DoingWorks ==
  ASSUME Shape, cmd # Idle
  PROVE  /\ Working(cmd) /\ IsStep(Step) /\ Step \in ToSet(cmd.todo)
         /\ cmd.op \in Ops /\ Step.do \in Work(cmd.op) \cup {Final(cmd.op)}
<1>1. Working(cmd)
  BY DEF Shape
<1>2. PICK op, t : op = cmd.op /\ t = cmd.todo
  OBVIOUS
<1>3. Todo(op, t) /\ Step = Head(t)
  BY <1>1, <1>2 DEF Working, Step
<1>4. Step \in ToSet(t) /\ IsStep(Step) /\ Step.do \in Work(op) \cup {Final(op)}
  BY <1>3, TodoLess
<1>5. QED
  BY <1>1, <1>2, <1>3, <1>4 DEF Todo

\* What an operation changes on the disk.
LEMMA DiskSteps ==
  ASSUME Shape, cmd # Idle
  PROVE  /\ CopyFile => Step.dest \in Dests /\ disk'[Step.dest] = Source[version][Step.dest]
                        /\ DiskShape' /\ \A e \in Dests \ {Step.dest} : disk'[e] = disk[e]
         /\ WriteFile => Step.dest \in Dests \cap {HooksPath, McpPath} /\ disk'[Step.dest] = Step.content
                         /\ DiskShape' /\ \A e \in Dests \ {Step.dest} : disk'[e] = disk[e]
         /\ RepairOperation => LET op == Step.operation
                               IN  /\ op.dest \in Dests /\ disk'[op.dest] = Repaired(op)
                                   /\ DiskShape' /\ \A e \in Dests \ {op.dest} : disk'[e] = disk[e]
         /\ UndoOperation => LET op == Step.operation
                             IN  /\ op.dest \in Dests /\ disk'[op.dest] = Undone(op)
                                 /\ DiskShape' /\ \A e \in Dests \ {op.dest} : disk'[e] = disk[e]
<1>1. IsStep(Step) /\ DiskShape /\ version \in 1..LastVersion
  BY DoingWorks DEF Shape
<1>2. ASSUME CopyFile
      PROVE  Step.dest \in Dests /\ disk'[Step.dest] = Source[version][Step.dest]
             /\ DiskShape' /\ \A e \in Dests \ {Step.dest} : disk'[e] = disk[e]
  <2>1. PICK d, c : d = Step.dest /\ c = Source[version][d]
    OBVIOUS
  <2>2. Step.do = "copy" /\ disk' = [disk EXCEPT ![d] = c]
    BY <1>2, <2>1 DEF CopyFile, Doing, Step, Write
  <2>3. d \in Dests /\ IsFile(c) /\ (d = HooksPath => IsHooks(c))
    BY <1>1, <2>1, <2>2, SourceIs DEF IsStep
  <2>4. QED
    BY <1>1, <2>1, <2>2, <2>3, DiskWritten
<1>3. ASSUME WriteFile
      PROVE  Step.dest \in Dests \cap {HooksPath, McpPath} /\ disk'[Step.dest] = Step.content
             /\ DiskShape' /\ \A e \in Dests \ {Step.dest} : disk'[e] = disk[e]
  <2>1. PICK d, c : d = Step.dest /\ c = Step.content
    OBVIOUS
  <2>2. Step.do = "put" /\ disk' = [disk EXCEPT ![d] = c]
    BY <1>3, <2>1 DEF WriteFile, Doing, Step, Write
  <2>3. d \in Dests \cap {HooksPath, McpPath} /\ IsFile(c) /\ (d = HooksPath => IsHooks(c))
    BY <1>1, <2>1, <2>2 DEF IsStep
  <2>4. DiskShape' /\ disk'[d] = c /\ \A e \in Dests \ {d} : disk'[e] = disk[e]
    BY <1>1, <2>2, <2>3, DiskWritten
  <2>5. QED
    BY <2>1, <2>3, <2>4
<1>4. ASSUME RepairOperation
      PROVE  /\ Step.operation.dest \in Dests /\ disk'[Step.operation.dest] = Repaired(Step.operation)
             /\ DiskShape' /\ \A e \in Dests \ {Step.operation.dest} : disk'[e] = disk[e]
  <2>1. PICK op, d, c : op = Step.operation /\ d = op.dest /\ c = Repaired(op)
    OBVIOUS
  <2>2. Step.do = "repair" /\ disk' = [disk EXCEPT ![d] = c]
        /\ (op.kind = "copy-file" => HasSource(op))
        /\ (op.kind = "merge-json" => ~Exists(op.dest) \/ IsJson(disk[op.dest]))
    BY <1>4, <2>1 DEF RepairOperation, Doing, Step, Write
  <2>3. IsOperation(op) /\ d \in Dests
    BY <1>1, <2>1, <2>2 DEF IsStep, IsOperation
  <2>4. IsFile(c) /\ (d = HooksPath => IsHooks(c))
    BY <1>1, <2>1, <2>2, <2>3, RepairedIs
  <2>5. DiskShape' /\ disk'[d] = c /\ \A e \in Dests \ {d} : disk'[e] = disk[e]
    BY <1>1, <2>2, <2>3, <2>4, DiskWritten
  <2>6. QED
    BY <2>1, <2>3, <2>5
<1>5. ASSUME UndoOperation
      PROVE  /\ Step.operation.dest \in Dests /\ disk'[Step.operation.dest] = Undone(Step.operation)
             /\ DiskShape' /\ \A e \in Dests \ {Step.operation.dest} : disk'[e] = disk[e]
  <2>1. PICK op, d, c : op = Step.operation /\ d = op.dest /\ c = Undone(op)
    OBVIOUS
  <2>2. Step.do = "undo" /\ disk' = [disk EXCEPT ![d] = c]
    BY <1>5, <2>1 DEF UndoOperation, Doing, Step
  <2>3. IsOperation(op) /\ d \in Dests
    BY <1>1, <2>1, <2>2 DEF IsStep, IsOperation
  <2>4. IsFile(c) /\ (d = HooksPath => IsHooks(c))
    BY <1>1, <2>1, <2>3, UndoneIs
  <2>5. DiskShape' /\ disk'[d] = c /\ \A e \in Dests \ {d} : disk'[e] = disk[e]
    BY <1>1, <2>2, <2>3, <2>4, DiskWritten
  <2>6. QED
    BY <2>1, <2>3, <2>5
<1>6. QED
  BY <1>2, <1>3, <1>4, <1>5

\* A command that runs is of one kind and does a step of that kind.
LEMMA CommandSteps ==
  ASSUME Shape, CommandStep
  PROVE  /\ Working(cmd) /\ cmd # Idle /\ Proceed
         /\ DiskShape' /\ OnceEach(settings') /\ (record' \in {NoRecord, Corrupt} \/ IsRecord(record'))
<1>1. cmd # Idle /\ Proceed
  BY DEF CommandStep, CopyFile, WriteFile, WriteSettings, WriteRecord, RepairOperation, UndoOperation,
         RemoveRecord, Doing
<1>2. Working(cmd) /\ IsStep(Step)
  BY <1>1, DoingWorks
<1>3. DiskShape'
  <2>1. CopyFile \/ WriteFile \/ RepairOperation \/ UndoOperation => DiskShape'
    BY <1>1, DiskSteps
  <2>2. WriteSettings \/ WriteRecord \/ RemoveRecord => disk' = disk
    BY DEF WriteSettings, WriteRecord, RemoveRecord
  <2>3. disk' = disk => DiskShape'
    BY DEF Shape, DiskShape
  <2>4. QED
    BY <2>1, <2>2, <2>3 DEF CommandStep
<1>4. OnceEach(settings')
  <2>1. WriteSettings => settings' = Step.entries /\ Step.do = "settings"
    BY DEF WriteSettings, Doing, Step
  <2>2. WriteSettings \/ settings' = settings
    BY DEF CommandStep, CopyFile, WriteFile, WriteRecord, RepairOperation, UndoOperation, RemoveRecord
  <2>3. QED
    BY <1>2, <2>1, <2>2 DEF IsStep, Shape
<1>5. record' \in {NoRecord, Corrupt} \/ IsRecord(record')
  <2>1. WriteRecord => record' = Step.state /\ Step.do = "record"
    BY DEF WriteRecord, Doing, Step
  <2>2. WriteRecord \/ record' \in {record, NoRecord}
    BY DEF CommandStep, CopyFile, WriteFile, WriteSettings, RepairOperation, UndoOperation, RemoveRecord
  <2>3. QED
    BY <1>2, <2>1, <2>2 DEF IsStep, Shape
<1>6. QED
  BY <1>1, <1>2, <1>3, <1>4, <1>5

LEMMA OneMore ==
  ASSUME NEW s, OnceEach(s), NEW e, \A i \in DOMAIN s : ~Same(s[i], e)
  PROVE  /\ OnceEach(Append(s, e))
         /\ \A i \in DOMAIN s : i \in DOMAIN Append(s, e) /\ Append(s, e)[i] = s[i]
<1>1. PICK S, a, n : S = ToSet(s) \cup {e} /\ a = Append(s, e) /\ n = Len(s)
  OBVIOUS
<1>2. IsSeq(s) /\ n \in Nat /\ DOMAIN s = 1..n /\ s = [i \in 1..n |-> s[i]]
  BY <1>1, SeqHas DEF OnceEach
<1>3. s \in Seq(S)
  <2>1. \A i \in 1..n : s[i] \in S
    BY <1>1, <1>2 DEF ToSet
  <2>2. s \in [1..n -> S]
    BY <1>2, <2>1
  <2>3. QED
    BY <1>2, <2>2, SeqDef
<1>4. a \in Seq(S) /\ Len(a) = n + 1 /\ (\A i \in 1..n : a[i] = s[i]) /\ a[n + 1] = e
  BY <1>1, <1>3, AppendProperties
<1>5. IsSeq(a) /\ DOMAIN a = 1..(n + 1)
  BY <1>4, MemberSeq, LenProperties
<1>6. ASSUME NEW i \in 1..(n + 1), NEW j \in 1..(n + 1), Same(a[i], a[j]) PROVE i = j
  <2>1. (i \in 1..n \/ i = n + 1) /\ (j \in 1..n \/ j = n + 1)
    BY <1>2
  <2>2. CASE i \in 1..n /\ j \in 1..n
    BY <1>2, <1>4, <1>6, <2>2 DEF OnceEach
  <2>3. CASE i \in 1..n /\ j = n + 1
    BY <1>2, <1>4, <1>6, <2>3
  <2>4. CASE i = n + 1 /\ j \in 1..n
    BY <1>2, <1>4, <1>6, <2>4, SameEntry
  <2>5. QED
    BY <2>1, <2>2, <2>3, <2>4
<1>7. \A i \in 1..n : i \in 1..(n + 1)
  BY <1>2
<1>8. QED
  BY <1>1, <1>2, <1>4, <1>5, <1>6, <1>7 DEF OnceEach

LEMMA UserShape ==
  ASSUME Shape, \/ \E d \in Dests : UserWrites(d)
                \/ \E e \in UserEntries : UserAddsHook(e)
                \/ UpdateRepo
  PROVE  Shape'
<1>1. UNCHANGED <<record, cmd>>
  BY DEF UserWrites, UserAddsHook, UpdateRepo, Interfere
<1>2. ASSUME NEW d \in Dests, UserWrites(d) PROVE Shape'
  <2>1. PICK c \in {Absent, [text |-> "user"]} \cup
                   (IF Exists(d) /\ IsJson(disk[d]) THEN {WithOwnKey(disk[d])} ELSE {}) :
          disk' = [disk EXCEPT ![d] = c]
    BY <1>2 DEF UserWrites
  <2>2. DiskShape
    BY DEF Shape
  <2>3. IsFile(c) /\ (d = HooksPath => IsHooks(c))
    <3>1. CASE c = Absent
      BY <3>1 DEF IsFile, IsHooks
    <3>2. CASE c = [text |-> "user"]
      <4>1. DOMAIN c = {"text"}
        BY <3>2
      <4>2. QED
        BY <4>1 DEF IsFile, IsHooks, IsJson
    <3>3. CASE Exists(d) /\ IsJson(disk[d]) /\ c = WithOwnKey(disk[d])
      <4>1. PICK b : b = disk[d]
        OBVIOUS
      <4>2. b # Absent /\ IsJson(b) /\ IsFile(b) /\ (d = HooksPath => IsHooks(b))
        BY <2>2, <3>3, <4>1 DEF Exists, DiskShape
      <4>3. DOMAIN c = DOMAIN b \cup {"own"} /\ \A l \in DOMAIN b : l # "own" => c[l] = b[l]
        BY <3>3, <4>1 DEF WithOwnKey
      <4>4. "absent" \notin DOMAIN c
        BY <4>2, <4>3 DEF IsFile
      <4>5. d = HooksPath => "version" \in DOMAIN c /\ c.version = b.version /\ b.version \in 1..LastVersion
        BY <4>2, <4>3 DEF IsHooks
      <4>6. QED
        BY <4>4, <4>5 DEF IsFile, IsHooks
    <3>4. QED
      BY <2>1, <3>1, <3>2, <3>3
  <2>4. DiskShape'
    BY <2>1, <2>2, <2>3, DiskWritten
  <2>5. UNCHANGED <<version, settings>>
    BY <1>2 DEF UserWrites
  <2>6. QED
    BY <1>1, <2>4, <2>5 DEF Shape
<1>3. ASSUME NEW e \in UserEntries, UserAddsHook(e) PROVE Shape'
  <2>1. settings' = Append(settings, e) /\ (\A i \in DOMAIN settings : ~Same(settings[i], e))
        /\ UNCHANGED <<version, disk>>
    BY <1>3 DEF UserAddsHook
  <2>2. OnceEach(settings')
    BY <2>1, OneMore DEF Shape
  <2>3. DiskShape'
    BY <2>1 DEF Shape, DiskShape
  <2>4. QED
    BY <1>1, <2>1, <2>2, <2>3 DEF Shape
<1>4. ASSUME UpdateRepo PROVE Shape'
  <2>1. version < LastVersion /\ version' = version + 1 /\ UNCHANGED <<disk, settings>>
    BY <1>4 DEF UpdateRepo
  <2>2. version' \in 1..LastVersion
    BY <2>1, InstallAssumption DEF Shape
  <2>3. DiskShape'
    BY <2>1 DEF Shape, DiskShape
  <2>4. QED
    BY <1>1, <2>1, <2>2, <2>3 DEF Shape
<1>5. QED
  BY <1>2, <1>3, <1>4

LEMMA StepShape == Shape /\ [Next]_vars => Shape'
<1>1. SUFFICES ASSUME Shape, [Next]_vars PROVE Shape'
  OBVIOUS
<1>2. CASE UNCHANGED vars
  BY <1>1, <1>2 DEF vars, Shape, DiskShape
<1>3. ASSUME UNCHANGED <<version, disk, settings, record>>, cmd' = Idle \/ Working(cmd') PROVE Shape'
  BY <1>1, <1>3 DEF Shape, DiskShape
<1>4. ASSUME NEW r \in Requests, StartInstall(r) \/ RefuseInstall(r) PROVE Shape'
  <2>1. UNCHANGED <<version, disk, settings, record>>
    BY <1>4 DEF StartInstall, RefuseInstall, Refuse, user
  <2>2. CASE StartInstall(r)
    BY <1>1, <1>3, <2>1, <2>2, StartsInstall
  <2>3. CASE RefuseInstall(r)
    BY <1>3, <2>1, <2>3 DEF RefuseInstall, Refuse
  <2>4. QED
    BY <1>4, <2>2, <2>3
<1>5. CASE StartRepair \/ RefuseRepair
  <2>1. UNCHANGED <<version, disk, settings, record>>
    BY <1>5 DEF StartRepair, RefuseRepair, Refuse, user
  <2>2. QED
    BY <1>1, <1>3, <1>5, <2>1, StartsRepair DEF RefuseRepair, Refuse
<1>6. CASE StartUninstall \/ RefuseUninstall
  <2>1. UNCHANGED <<version, disk, settings, record>>
    BY <1>6 DEF StartUninstall, RefuseUninstall, Refuse, user
  <2>2. QED
    BY <1>1, <1>3, <1>6, <2>1, StartsUninstall DEF RefuseUninstall, Refuse
<1>7. CASE CommandStep
  BY <1>1, <1>7, CommandSteps, ProceedsShape
<1>8. CASE Abandon
  <2>1. UNCHANGED <<version, disk, settings>> /\ cmd' = Idle /\ record' \in {record, Corrupt}
    BY <1>8 DEF Abandon, user
  <2>2. QED
    BY <1>1, <2>1 DEF Shape, DiskShape
<1>9. CASE \/ \E d \in Dests : UserWrites(d)
           \/ \E e \in UserEntries : UserAddsHook(e)
           \/ UpdateRepo
  BY <1>1, <1>9, UserShape
<1>10. QED
  BY <1>1, <1>2, <1>4, <1>5, <1>6, <1>7, <1>8, <1>9 DEF Next

LEMMA OwnKeyStays ==
  ASSUME Shape, RepairOperation \/ UndoOperation,
         Step.operation.kind = "merge-json",
         Doing("undo") => Step.operation.previous = Absent,
         "own" \in DOMAIN disk[Step.operation.dest]
  PROVE  "own" \in DOMAIN disk'[Step.operation.dest]
<1>1. PICK op, c : op = Step.operation /\ c = disk[op.dest]
  OBVIOUS
<1>2. cmd # Idle /\ Step.do \in {"repair", "undo"}
  BY DEF RepairOperation, UndoOperation, Doing, Step
<1>3. IsOperation(op) /\ op.dest \in Dests /\ op.kind = "merge-json" /\ DiskShape
  BY <1>1, <1>2, DoingWorks DEF IsStep, IsOperation, Shape
<1>4. c # Absent /\ Exists(op.dest)
  <2>1. DOMAIN Absent = {"absent"}
    BY DEF Absent
  <2>2. QED
    BY <1>1, <2>1 DEF Exists
<1>5. CASE RepairOperation
  <2>1. disk'[op.dest] = Repaired(op)
    BY <1>1, <1>2, <1>5, DiskSteps
  <2>2. ~Exists(op.dest) \/ IsJson(disk[op.dest])
    BY <1>1, <1>3, <1>5 DEF RepairOperation
  <2>3. DOMAIN Repaired(op) = DOMAIN disk[op.dest] \cup DOMAIN op.content
    BY <1>3, <1>4, <2>2, RepairedIs DEF Shape
  <2>4. QED
    BY <1>1, <2>1, <2>3
<1>6. CASE UndoOperation
  <2>1. disk'[op.dest] = Undone(op)
    BY <1>1, <1>2, <1>6, DiskSteps
  <2>2. op.previous = Absent
    BY <1>1, <1>6 DEF UndoOperation
  <2>3. "own" \in DOMAIN RemoveSubset(c, op.content)
    BY <1>1, <1>3 DEF IsOperation, RemoveSubset, WithoutLeaves
  <2>4. Undone(op) = RemoveSubset(c, op.content)
    BY <1>1, <1>3, <1>4, <2>2, <2>3 DEF Undone
  <2>5. QED
    BY <1>1, <2>1, <2>3, <2>4
<1>7. QED
  BY <1>5, <1>6

\* A key of the user in a merged document outlives repairs and uninstalls
\* (deepMergeJson, deepRemoveJsonSubset), whatever is recorded and on the disk.
THEOREM UserKeysStay == Spec => UserKeysSurvive
<1>1. Shape /\ [Next]_vars =>
        [(RepairOperation \/ UndoOperation)
         /\ Step.operation.kind = "merge-json"
         /\ (Doing("undo") => Step.operation.previous = Absent)
         /\ "own" \in DOMAIN disk[Step.operation.dest]
         => "own" \in DOMAIN disk'[Step.operation.dest]]_vars
  BY OwnKeyStays
<1>2. QED
  BY <1>1, InitShape, StepShape, PTL DEF Spec, UserKeysSurvive

-----------------------------------------------------------------------------
(* What is left to do leads to what is to be recorded. The state s is to be *)
(* recorded and the steps in todo are to be taken before that.             *)

InstallLeadsTo(s, todo) ==
  /\ \A i \in DOMAIN s.ops :
       /\ s.ops[i].kind = "copy-file" /\ HasSource(s.ops[i])
       /\ \/ \E t \in todo : t.do = "copy" /\ t.dest = s.ops[i].dest
          \/ disk[s.ops[i].dest] = Source[version][s.ops[i].dest]
          \/ s.ops[i].dest \in {HooksPath, McpPath} /\ Exists(s.ops[i].dest)
  /\ Target = "claude" /\ HooksPath \in {s.ops[i].dest : i \in DOMAIN s.ops} =>
       /\ Covers(settings) \/ \E t \in todo : t.do = "settings"
       /\ \A t \in todo : t.do = "settings" => Covers(t.entries)

KeepsItsModules(s) == s.legacy \/ \E i \in DOMAIN s.ops : s.ops[i].kind # "copy-file"

RepairLeadsTo(s, todo) ==
  /\ \A i \in DOMAIN s.ops :
       Inspect(s.ops[i]) = "ok" \/ \E t \in todo : t.do = "repair" /\ t.operation = s.ops[i]
  /\ \A t \in todo : t.do = "repair" => \E i \in DOMAIN s.ops : t.operation = s.ops[i]
  /\ KeepsItsModules(s) \/ s.modules = Plans[version][s.request].modules

LeadsTo ==
  calm =>
    /\ cmd # Idle /\ cmd.op = "install" => InstallLeadsTo(Goal(cmd.todo).state, ToSet(cmd.todo))
    /\ cmd # Idle /\ cmd.op = "repair" => RepairLeadsTo(Goal(cmd.todo).state, ToSet(cmd.todo))
    /\ cmd = Idle /\ outcome = "installed" => IsRecord(record) /\ InstallLeadsTo(record, {})
    /\ cmd = Idle /\ outcome = "repaired" => IsRecord(record) /\ RepairLeadsTo(record, {})

LEMMA InspectIs ==
  ASSUME NEW op, IsOperation(op)
  PROVE  /\ Inspect(op) \in {"ok", "missing", "drifted", "missing-source"}
         /\ version' = version /\ disk'[op.dest] = disk[op.dest] => Inspect(op)' = Inspect(op)
<1>1. op.kind \in {"copy-file", "render-template", "merge-json", "remove"}
  BY DEF IsOperation
<1>2. Inspect(op) \in {"ok", "missing", "drifted", "missing-source"}
  BY <1>1 DEF Inspect
<1>3. ASSUME version' = version, disk'[op.dest] = disk[op.dest]
      PROVE  Inspect(op)' = Inspect(op)
  BY <1>3 DEF Inspect, Exists, HasSource
<1>4. QED
  BY <1>2, <1>3

LEMMA RepairCures ==
  ASSUME version \in 1..LastVersion, version' = version, DiskShape, NEW op, IsOperation(op),
         op.kind = "copy-file" => HasSource(op),
         op.kind = "merge-json" => ~Exists(op.dest) \/ IsJson(disk[op.dest]),
         disk'[op.dest] = Repaired(op)
  PROVE  Inspect(op)' = "ok"
<1>1. op.kind \in {"copy-file", "render-template", "merge-json", "remove"}
  BY DEF IsOperation
<1>2. PICK c : c = Repaired(op)
  OBVIOUS
<1>3. /\ op.kind = "copy-file" => c = Source[version][op.dest] /\ c # Absent
      /\ op.kind = "render-template" => c = op.content /\ c # Absent
      /\ op.kind = "remove" => c = Absent
      /\ op.kind = "merge-json" => c # Absent /\ IsJson(c) /\ HasSubset(c, op.content)
  BY <1>2, RepairedIs
<1>4. disk'[op.dest] = c
  BY <1>2
<1>5. CASE op.kind = "copy-file"
  BY <1>3, <1>4, <1>5 DEF Inspect, Exists, HasSource
<1>6. CASE op.kind = "render-template"
  BY <1>3, <1>4, <1>6 DEF Inspect, Exists
<1>7. CASE op.kind = "remove"
  BY <1>3, <1>4, <1>7 DEF Inspect, Exists
<1>8. CASE op.kind = "merge-json"
  BY <1>3, <1>4, <1>8 DEF Inspect, Exists
<1>9. QED
  BY <1>1, <1>5, <1>6, <1>7, <1>8

LEMMA InstallGoesOn ==
  ASSUME Shape, CommandStep, cmd.op = "install", NEW S, IsRecord(S), NEW T,
         ToSet(cmd.todo) = {Step} \cup T, InstallLeadsTo(S, ToSet(cmd.todo))
  PROVE  InstallLeadsTo(S, T)'
<1>1. cmd # Idle /\ Working(cmd) /\ Proceed
  BY CommandSteps
<1>2. version' = version
  BY <1>1, Proceeds
<1>3. IsStep(Step) /\ Step.do \in {"copy", "put", "settings", "record"}
  BY <1>1, DoingWorks DEF Work, Final
<1>4. PICK z : z = Step
  OBVIOUS
<1>5. /\ z.do = "copy" <=> CopyFile
      /\ z.do = "put" <=> WriteFile
      /\ z.do = "settings" <=> WriteSettings
      /\ z.do = "record" <=> WriteRecord
  BY <1>3, <1>4 DEF CommandStep, CopyFile, WriteFile, WriteSettings, WriteRecord, RepairOperation,
     UndoOperation, RemoveRecord, Doing, Step
<1>6. /\ z.do = "copy" => z.dest \in Dests /\ disk'[z.dest] = Source[version][z.dest]
      /\ z.do = "copy" => \A e \in Dests \ {z.dest} : disk'[e] = disk[e]
  BY <1>1, <1>4, <1>5, DiskSteps
<1>7. z.do = "put" => /\ z.dest \in {HooksPath, McpPath} /\ disk'[z.dest] # Absent
                      /\ \A e \in Dests \ {z.dest} : disk'[e] = disk[e]
  BY <1>1, <1>3, <1>4, <1>5, DiskSteps DEF IsStep
<1>8. z.do \in {"settings", "record"} => disk' = disk
  BY <1>5 DEF WriteSettings, WriteRecord
<1>9. /\ z.do = "settings" => settings' = z.entries
      /\ z.do # "settings" => settings' = settings
  BY <1>3, <1>4, <1>5 DEF WriteSettings, CopyFile, WriteFile, WriteRecord, Step
<1>10. PICK U : U = ToSet(cmd.todo)
  OBVIOUS
<1>11. U = {z} \cup T /\ InstallLeadsTo(S, U)
  BY <1>4, <1>10
<1>12. ASSUME NEW i \in DOMAIN S.ops
       PROVE  /\ S.ops[i].kind = "copy-file" /\ HasSource(S.ops[i])'
              /\ \/ \E t \in T : t.do = "copy" /\ t.dest = S.ops[i].dest
                 \/ disk'[S.ops[i].dest] = Source[version][S.ops[i].dest]
                 \/ S.ops[i].dest \in {HooksPath, McpPath} /\ Exists(S.ops[i].dest)'
  <2>1. PICK d : d = S.ops[i].dest
    OBVIOUS
  <2>2. d \in Dests
    BY <2>1 DEF IsRecord, IsOperation
  <2>3. S.ops[i].kind = "copy-file" /\ HasSource(S.ops[i])'
    BY <1>2, <1>11 DEF InstallLeadsTo, HasSource
  <2>4. \/ \E t \in U : t.do = "copy" /\ t.dest = d
        \/ disk[d] = Source[version][d]
        \/ d \in {HooksPath, McpPath} /\ disk[d] # Absent
    BY <1>11, <2>1 DEF InstallLeadsTo, Exists
  <2>5. CASE z.do = "copy"
    BY <1>6, <1>11, <2>1, <2>2, <2>3, <2>4, <2>5 DEF Exists
  <2>6. CASE z.do = "put"
    BY <1>7, <1>11, <2>1, <2>2, <2>3, <2>4, <2>6 DEF Exists
  <2>7. CASE z.do \in {"settings", "record"}
    BY <1>8, <1>11, <2>1, <2>3, <2>4, <2>7 DEF Exists
  <2>8. QED
    BY <1>3, <1>4, <2>5, <2>6, <2>7
<1>13. ASSUME Target = "claude", HooksPath \in {S.ops[i].dest : i \in DOMAIN S.ops}
       PROVE  /\ Covers(settings)' \/ \E t \in T : t.do = "settings"
              /\ \A t \in T : t.do = "settings" => Covers(t.entries)'
  <2>1. /\ Covers(settings) \/ \E t \in U : t.do = "settings"
        /\ \A t \in U : t.do = "settings" => Covers(t.entries)
    BY <1>11, <1>13 DEF InstallLeadsTo
  <2>2. \A x : Covers(x)' <=> \A i \in DOMAIN HookEntries[version] : \E j \in DOMAIN x : Same(x[j], HookEntries[version][i])
    BY <1>2 DEF Covers
  <2>3. \A x : Covers(x) <=> \A i \in DOMAIN HookEntries[version] : \E j \in DOMAIN x : Same(x[j], HookEntries[version][i])
    BY DEF Covers
  <2>4. Covers(settings)' <=> \A i \in DOMAIN HookEntries[version] : \E j \in DOMAIN settings' : Same(settings'[j], HookEntries[version][i])
    BY <1>2 DEF Covers
  <2>5. CASE z.do = "settings"
    <3>1. Covers(z.entries)
      BY <1>11, <2>1, <2>5
    <3>2. Covers(settings)'
      BY <1>9, <2>3, <2>4, <2>5, <3>1
    <3>3. QED
      BY <1>11, <2>1, <2>2, <2>3, <3>2
  <2>6. CASE z.do # "settings"
    <3>1. Covers(settings)' <=> Covers(settings)
      BY <1>9, <2>3, <2>4, <2>6
    <3>2. QED
      BY <1>11, <2>1, <2>2, <2>3, <2>6, <3>1
  <2>7. QED
    BY <2>5, <2>6
<1>14. QED
  BY <1>2, <1>12, <1>13 DEF InstallLeadsTo

LEMMA RepairGoesOn ==
  ASSUME Shape, CommandStep, cmd.op = "repair", NEW S, IsRecord(S), NEW T,
         ToSet(cmd.todo) = {Step} \cup T, RepairLeadsTo(S, ToSet(cmd.todo))
  PROVE  RepairLeadsTo(S, T)'
<1>1. cmd # Idle /\ Working(cmd) /\ Proceed
  BY CommandSteps
<1>2. version' = version /\ version \in 1..LastVersion /\ DiskShape
  BY <1>1, Proceeds DEF Shape
<1>3. IsStep(Step) /\ Step.do \in {"repair", "record"}
  BY <1>1, DoingWorks DEF Work, Final
<1>4. PICK z, U : z = Step /\ U = ToSet(cmd.todo)
  OBVIOUS
<1>5. /\ z.do = "repair" => RepairOperation
      /\ z.do = "record" => WriteRecord
  BY <1>3, <1>4 DEF CommandStep, CopyFile, WriteFile, WriteSettings, WriteRecord, RepairOperation,
     UndoOperation, RemoveRecord, Doing, Step
<1>6. U = {z} \cup T /\ RepairLeadsTo(S, U)
  BY <1>4
<1>7. KeepsItsModules(S) \/ S.modules = Plans[version][S.request].modules
  BY <1>6 DEF RepairLeadsTo
<1>8. \A t \in T : t.do = "repair" => \E i \in DOMAIN S.ops : t.operation = S.ops[i]
  BY <1>6 DEF RepairLeadsTo
<1>9. \A i \in DOMAIN S.ops :
        IsOperation(S.ops[i]) /\ S.ops[i].dest \in Dests
        /\ (Inspect(S.ops[i]) = "ok" \/ \E t \in U : t.do = "repair" /\ t.operation = S.ops[i])
  BY <1>6 DEF RepairLeadsTo, IsRecord, IsOperation
<1>10. ASSUME NEW i \in DOMAIN S.ops
       PROVE  Inspect(S.ops[i])' = "ok" \/ \E t \in T : t.do = "repair" /\ t.operation = S.ops[i]
  <2>1. PICK op : op = S.ops[i]
    OBVIOUS
  <2>2. IsOperation(op) /\ op.dest \in Dests
        /\ (Inspect(op) = "ok" \/ \E t \in U : t.do = "repair" /\ t.operation = op)
    BY <1>9, <2>1
  <2>3. CASE z.do = "record"
    <3>1. disk' = disk
      BY <1>5, <2>3 DEF WriteRecord
    <3>2. Inspect(op)' = Inspect(op)
      BY <1>2, <2>2, <3>1, InspectIs
    <3>3. QED
      BY <1>6, <2>1, <2>2, <2>3, <3>2
  <2>4. CASE z.do = "repair"
    <3>1. PICK j \in DOMAIN S.ops : z.operation = S.ops[j]
      BY <1>6, <2>4 DEF RepairLeadsTo
    <3>2. PICK o : o = S.ops[j] /\ o = z.operation
      BY <3>1
    <3>3. IsOperation(o) /\ o.dest \in Dests
      BY <1>9, <3>2
    <3>4. disk'[o.dest] = Repaired(o) /\ \A e \in Dests \ {o.dest} : disk'[e] = disk[e]
      BY <1>1, <1>4, <1>5, <2>4, <3>2, DiskSteps
    <3>5. CASE i = j
      <4>1. /\ o.kind = "copy-file" => HasSource(o)
            /\ o.kind = "merge-json" => ~Exists(o.dest) \/ IsJson(disk[o.dest])
        BY <1>4, <1>5, <2>4, <3>2 DEF RepairOperation
      <4>2. Inspect(o)' = "ok"
        BY <1>2, <3>3, <3>4, <4>1, RepairCures
      <4>3. o = op
        BY <2>1, <3>2, <3>5
      <4>4. QED
        BY <2>1, <4>2, <4>3
    <3>6. CASE i # j
      <4>1. op.dest # o.dest
        BY <2>1, <3>2, <3>6 DEF IsRecord
      <4>2. disk'[op.dest] = disk[op.dest] /\ op # o
        BY <2>2, <3>4, <4>1
      <4>3. Inspect(op)' = Inspect(op)
        BY <1>2, <2>2, <4>2, InspectIs
      <4>4. QED
        BY <1>6, <2>1, <2>2, <3>2, <4>2, <4>3
    <3>7. QED
      BY <3>5, <3>6
  <2>5. QED
    BY <1>3, <1>4, <2>3, <2>4
<1>11. (KeepsItsModules(S) \/ S.modules = Plans[version][S.request].modules)'
  BY <1>2, <1>7 DEF KeepsItsModules
<1>12. QED
  BY <1>8, <1>10, <1>11 DEF RepairLeadsTo

\* The plan of an install leads to what it is to record.
LEMMA InstallLeads ==
  ASSUME Shape, NEW r \in Requests, StartInstall(r)
  PROVE  LeadsTo'
<1>1. PICK S, U, w : S = StatePreview(r) /\ U = ToSet(cmd'.todo) /\ U = w \cup {Goal(cmd'.todo)}
                     /\ InstallWork(r, w)
  BY StartsInstall
<1>2. /\ Working(cmd') /\ cmd'.op = "install" /\ Goal(cmd'.todo).state = S /\ Goal(cmd'.todo).do = "record"
      /\ UNCHANGED <<version, disk, settings, record>>
  BY <1>1, StartsInstall DEF StartInstall, user
<1>3. cmd' # Idle
  BY <1>2, WorkingNotIdle
<1>4. PICK p : p = Planned(r)
  OBVIOUS
<1>5. version \in 1..LastVersion
  BY DEF Shape
<1>6. /\ IsSeq(p) /\ ToSet(p) = {p[i] : i \in DOMAIN p}
      /\ \A i \in DOMAIN p : p[i] \in Dests /\ Source[version][p[i]] # Absent
      /\ \A i, j \in DOMAIN p : p[i] = p[j] => i = j
  BY <1>4, <1>5, PlannedIs DEF Planned, ToSet
<1>7. S.ops = CopyOps(p)
  BY <1>1, <1>4, <1>5, PreviewIs
<1>8. DOMAIN S.ops = DOMAIN p /\ \A i \in DOMAIN p : S.ops[i] = CopyOp(p[i])
  BY <1>6, <1>7, CopyOpsAre
<1>9. \A i \in DOMAIN p : S.ops[i].kind = "copy-file" /\ S.ops[i].dest = p[i]
  <2>1. \A d : CopyOp(d).kind = "copy-file" /\ CopyOp(d).dest = d
    BY DEF CopyOp
  <2>2. QED
    BY <1>8, <2>1
<1>10. ASSUME NEW i \in DOMAIN S.ops
       PROVE  /\ S.ops[i].kind = "copy-file" /\ HasSource(S.ops[i])'
              /\ \E t \in U : t.do = "copy" /\ t.dest = S.ops[i].dest
  <2>1. i \in DOMAIN p /\ S.ops[i].kind = "copy-file" /\ S.ops[i].dest = p[i] /\ p[i] \in ToSet(p)
    BY <1>6, <1>8, <1>9
  <2>2. HasSource(S.ops[i])'
    BY <1>2, <1>6, <2>1 DEF HasSource
  <2>3. \E t \in w : t.do = "copy" /\ t.dest = p[i]
    BY <1>1, <1>4, <2>1 DEF InstallWork
  <2>4. QED
    BY <1>1, <2>1, <2>2, <2>3
<1>11. ASSUME Target = "claude", HooksPath \in {S.ops[i].dest : i \in DOMAIN S.ops}
       PROVE  /\ \E t \in U : t.do = "settings"
              /\ \A t \in U : t.do = "settings" => Covers(t.entries)'
  <2>1. HooksPath \in ToSet(p)
    BY <1>6, <1>8, <1>9, <1>11
  <2>2. /\ \E t \in w : t.do = "settings"
        /\ \A t \in w : t.do = "settings" => Covers(t.entries)
    BY <1>1, <1>4, <1>11, <2>1 DEF InstallWork
  <2>3. \A x : Covers(x)' <=> Covers(x)
    BY <1>2 DEF Covers
  <2>4. QED
    BY <1>1, <1>2, <2>2, <2>3
<1>12. InstallLeadsTo(S, U)'
  BY <1>10, <1>11 DEF InstallLeadsTo
<1>13. InstallLeadsTo(Goal(cmd.todo).state, ToSet(cmd.todo))'
  BY <1>1, <1>2, <1>12
<1>14. QED
  BY <1>2, <1>3, <1>13 DEF LeadsTo

LEMMA RepairLeads ==
  ASSUME Shape, StartRepair
  PROVE  LeadsTo'
<1>1. PICK S, U : S = Desired /\ U = ToSet(cmd'.todo)
  OBVIOUS
<1>2. /\ Working(cmd') /\ cmd'.op = "repair" /\ Goal(cmd'.todo).state = S
      /\ IsRecord(S) /\ IsRecord(record) /\ UNCHANGED <<version, disk, settings, record>>
      /\ \A i \in DOMAIN S.ops : Inspect(S.ops[i]) # "missing-source"
      /\ \A i \in DOMAIN S.ops : Inspect(S.ops[i]) \in {"missing", "drifted"} =>
           \E s \in U : s.do = "repair" /\ s.operation = S.ops[i]
      /\ \A s \in U : s.do = "repair" => \E i \in DOMAIN S.ops : s.operation = S.ops[i]
  <2>1. UNCHANGED <<version, disk, settings, record>>
    BY DEF StartRepair, user
  <2>2. QED
    BY <1>1, <2>1, StartsRepair
<1>3. cmd' # Idle
  BY <1>2, WorkingNotIdle
<1>4. ASSUME NEW i \in DOMAIN S.ops
      PROVE  Inspect(S.ops[i])' = "ok" \/ \E t \in U : t.do = "repair" /\ t.operation = S.ops[i]
  <2>1. PICK op : op = S.ops[i]
    OBVIOUS
  <2>2. IsOperation(op)
    BY <1>2, <2>1 DEF IsRecord
  <2>3. Inspect(op)' = Inspect(op) /\ Inspect(op) \in {"ok", "missing", "drifted", "missing-source"}
    BY <1>2, <2>2, InspectIs
  <2>4. QED
    BY <1>2, <2>1, <2>3
<1>5. KeepsItsModules(S) \/ S.modules = Plans[version][S.request].modules
  <2>1. version \in 1..LastVersion
    BY DEF Shape
  <2>2. CASE FromRecord
    <3>1. S.ops = record.ops /\ S.legacy = record.legacy
      BY <1>1, <1>2, <2>1, <2>2, DesiredIs
    <3>2. QED
      BY <2>2, <3>1 DEF FromRecord, KeepsItsModules
  <2>3. CASE ~FromRecord
    <3>1. record.request \in Requests
      BY <1>2 DEF IsRecord
    <3>2. S = StatePreview(record.request)
      BY <1>1, <1>2, <2>1, <2>3, DesiredIs
    <3>3. S.modules = Plans[version][record.request].modules /\ S.request = record.request
      BY <2>1, <3>1, <3>2, PreviewIs
    <3>4. QED
      BY <3>3
  <2>4. QED
    BY <2>2, <2>3
<1>6. (KeepsItsModules(S) \/ S.modules = Plans[version][S.request].modules)'
  BY <1>2, <1>5 DEF KeepsItsModules
<1>7. RepairLeadsTo(S, U)'
  BY <1>2, <1>4, <1>6 DEF RepairLeadsTo
<1>8. RepairLeadsTo(Goal(cmd.todo).state, ToSet(cmd.todo))'
  BY <1>1, <1>2, <1>7
<1>9. QED
  BY <1>2, <1>3, <1>8 DEF LeadsTo

LEMMA CommandLeads ==
  ASSUME Shape, LeadsTo, CommandStep
  PROVE  LeadsTo'
<1>1. Working(cmd) /\ cmd # Idle /\ Proceed
  BY CommandSteps
<1>2. calm' = calm /\ IsStep(Step) /\ Step \in ToSet(cmd.todo) /\ (Finishes \/ GoesOn) /\ cmd.op \in Ops
  BY <1>1, Proceeds, DoingWorks
<1>3. SUFFICES ASSUME calm, calm' PROVE LeadsTo'
  BY <1>2 DEF LeadsTo
<1>4. PICK S, T : S = Goal(cmd.todo).state /\ T = IF cmd' = Idle THEN {} ELSE ToSet(cmd'.todo)
  OBVIOUS
<1>5. ToSet(cmd.todo) = {Step} \cup T
  BY <1>2, <1>4 DEF Finishes, GoesOn
<1>6. cmd.op \in {"install", "repair"} => IsRecord(S)
  <2>1. PICK op, t : op = cmd.op /\ t = cmd.todo
    OBVIOUS
  <2>2. Todo(op, t)
    BY <1>1, <2>1 DEF Working
  <2>3. IsSeq(t) /\ t # <<>>
    BY <2>2 DEF Todo
  <2>4. Len(t) \in DOMAIN t
    <3>1. Len(t) >= 1
      BY <2>3, TailSeq
    <3>2. Len(t) \in Nat /\ DOMAIN t = 1..Len(t)
      BY <2>3, SeqHas
    <3>3. QED
      BY <3>1, <3>2
  <2>5. Goal(t) \in ToSet(t)
    BY <2>4 DEF Goal, ToSet
  <2>6. IsStep(Goal(t)) /\ Goal(t).do = Final(op)
    BY <2>2, <2>5 DEF Todo
  <2>7. QED
    BY <1>4, <2>1, <2>6 DEF Final, IsStep
<1>7. cmd.op = "install" => InstallLeadsTo(S, T)'
  BY <1>1, <1>3, <1>4, <1>5, <1>6, InstallGoesOn DEF LeadsTo
<1>8. cmd.op = "repair" => RepairLeadsTo(S, T)'
  BY <1>1, <1>3, <1>4, <1>5, <1>6, RepairGoesOn DEF LeadsTo
<1>9. CASE GoesOn
  <2>1. cmd' # Idle /\ cmd'.op = cmd.op /\ Goal(cmd'.todo) = Goal(cmd.todo)
    BY <1>9 DEF GoesOn
  <2>2. Goal(cmd'.todo).state = S /\ ToSet(cmd'.todo) = T
    BY <1>4, <2>1
  <2>3. /\ cmd'.op = "install" => InstallLeadsTo(Goal(cmd.todo).state, ToSet(cmd.todo))'
        /\ cmd'.op = "repair" => RepairLeadsTo(Goal(cmd.todo).state, ToSet(cmd.todo))'
    BY <1>7, <1>8, <2>1, <2>2
  <2>4. QED
    BY <2>1, <2>3 DEF LeadsTo
<1>10. CASE Finishes
  <2>1. cmd' = Idle /\ outcome' = Result(cmd.op) /\ Step = Goal(cmd.todo) /\ Step.do = Final(cmd.op) /\ T = {}
    BY <1>4, <1>10 DEF Finishes
  <2>2. cmd.op \in {"install", "repair"} => record' = S
    <3>1. ASSUME cmd.op \in {"install", "repair"} PROVE Step.do = "record" /\ Step.state = S
      BY <1>4, <2>1, <3>1 DEF Final
    <3>2. Step.do = "record" => WriteRecord
      BY DEF CommandStep, CopyFile, WriteFile, WriteSettings, WriteRecord, RepairOperation,
         UndoOperation, RemoveRecord, Doing, Step
    <3>3. QED
      BY <3>1, <3>2 DEF WriteRecord
  <2>3. /\ outcome' = "installed" => cmd.op = "install"
        /\ outcome' = "repaired" => cmd.op = "repair"
    BY <1>2, <2>1 DEF Result, Ops
  <2>4. outcome' = "installed" => IsRecord(record') /\ InstallLeadsTo(record, {})'
    BY <1>6, <1>7, <2>1, <2>2, <2>3
  <2>5. outcome' = "repaired" => IsRecord(record') /\ RepairLeadsTo(record, {})'
    BY <1>6, <1>8, <2>1, <2>2, <2>3
  <2>6. QED
    BY <2>1, <2>4, <2>5 DEF LeadsTo
<1>11. QED
  BY <1>2, <1>9, <1>10

LEMMA InitLeads == Init => LeadsTo
BY DEF Init, LeadsTo

LEMMA StepLeads == Shape /\ LeadsTo /\ [Next]_vars => LeadsTo'
<1>1. SUFFICES ASSUME Shape, LeadsTo, [Next]_vars PROVE LeadsTo'
  OBVIOUS
<1>2. CASE UNCHANGED vars
  <2>1. UNCHANGED <<version, disk, settings, record, cmd, outcome, calm>>
    BY <1>2 DEF vars
  <2>2. \A op : Inspect(op)' = Inspect(op)
    BY <2>1 DEF Inspect, Exists, HasSource
  <2>3. \A s, t : InstallLeadsTo(s, t)' = InstallLeadsTo(s, t)
    BY <2>1 DEF InstallLeadsTo, Covers, HasSource, Exists
  <2>4. \A s, t : RepairLeadsTo(s, t)' = RepairLeadsTo(s, t)
    BY <2>1, <2>2 DEF RepairLeadsTo, KeepsItsModules
  <2>5. PICK s, t : s = Goal(cmd.todo).state /\ t = ToSet(cmd.todo)
    OBVIOUS
  <2>6. s = Goal(cmd'.todo).state /\ t = ToSet(cmd'.todo)
    BY <2>1, <2>5
  <2>7. LeadsTo' <=>
          (calm =>
             /\ cmd # Idle /\ cmd.op = "install" => InstallLeadsTo(s, t)'
             /\ cmd # Idle /\ cmd.op = "repair" => RepairLeadsTo(s, t)'
             /\ cmd = Idle /\ outcome = "installed" => IsRecord(record) /\ InstallLeadsTo(record, {})'
             /\ cmd = Idle /\ outcome = "repaired" => IsRecord(record) /\ RepairLeadsTo(record, {})')
    BY <2>1, <2>6 DEF LeadsTo
  <2>8. /\ InstallLeadsTo(record, {})' <=> InstallLeadsTo(record, {})
        /\ RepairLeadsTo(record, {})' <=> RepairLeadsTo(record, {})
    BY <2>1, <2>2 DEF InstallLeadsTo, RepairLeadsTo, Covers, HasSource, Exists, KeepsItsModules
  <2>9. QED
    BY <1>1, <2>3, <2>4, <2>5, <2>7, <2>8 DEF LeadsTo
<1>3. ASSUME Refuse, cmd = Idle PROVE LeadsTo'
  BY <1>3 DEF Refuse, LeadsTo
<1>4. ASSUME NEW r \in Requests, StartInstall(r) \/ RefuseInstall(r) PROVE LeadsTo'
  BY <1>1, <1>3, <1>4, InstallLeads DEF RefuseInstall
<1>5. CASE StartRepair \/ RefuseRepair
  BY <1>1, <1>3, <1>5, RepairLeads DEF RefuseRepair
<1>6. CASE StartUninstall
  <2>1. Working(cmd') /\ cmd'.op = "uninstall"
    BY <1>1, <1>6, StartsUninstall
  <2>2. QED
    BY <2>1, WorkingNotIdle DEF LeadsTo
<1>7. CASE RefuseUninstall
  BY <1>3, <1>7 DEF RefuseUninstall
<1>8. CASE CommandStep
  BY <1>1, <1>8, CommandLeads
<1>9. CASE Abandon
  BY <1>9 DEF Abandon, LeadsTo
<1>10. CASE \/ \E d \in Dests : UserWrites(d)
            \/ \E e \in UserEntries : UserAddsHook(e)
            \/ UpdateRepo
  BY <1>10 DEF UserWrites, UserAddsHook, UpdateRepo, Interfere, LeadsTo
<1>11. QED
  BY <1>1, <1>2, <1>4, <1>5, <1>6, <1>7, <1>8, <1>9, <1>10 DEF Next

LEMMA EmptySeqOf ==
  ASSUME NEW q, IsSeq(q), ToSet(q) = {}
  PROVE  q = <<>>
BY TailSeq

LEMMA RepairsHeal == Shape /\ LeadsTo => RepairHeals
<1>1. SUFFICES ASSUME Shape, LeadsTo, Ended("repaired")
               PROVE  /\ Diagnosis \cap {"missing", "drifted", "missing-source"} = {}
                      /\ "resolution-drift" \in Diagnosis => FromRecord
  BY DEF RepairHeals
<1>2. IsRecord(record) /\ RepairLeadsTo(record, {}) /\ version \in 1..LastVersion
  BY <1>1 DEF LeadsTo, Ended, Shape
<1>3. PICK o : o = record.ops
  OBVIOUS
<1>4. IsSeq(o) /\ \A i \in DOMAIN o : Inspect(o[i]) = "ok"
  BY <1>2, <1>3 DEF IsRecord, RepairLeadsTo
<1>5. ASSUME NEW code \in {"missing", "drifted", "missing-source"}
      PROVE  With(o, code) = <<>>
  <2>1. PICK w : w = With(o, code)
    OBVIOUS
  <2>2. IsSeq(w) /\ ToSet(w) = {o[i] : i \in {j \in DOMAIN o : Inspect(o[j]) = code}}
    BY <1>4, <2>1, WithIs
  <2>3. \A j \in DOMAIN o : Inspect(o[j]) # code
    BY <1>4
  <2>4. ToSet(w) = {}
    BY <2>2, <2>3
  <2>5. QED
    BY <2>1, <2>2, <2>4, EmptySeqOf
<1>6. record.kind = "record"
  BY <1>2 DEF IsRecord
<1>7. PICK F : F = {code \in {"missing", "drifted", "missing-source"} : With(record.ops, code) # <<>>}
  OBVIOUS
<1>8. F = {}
  BY <1>3, <1>5, <1>7
<1>9. Diagnosis =
        (IF record.manifestVersion # ManifestVersion[version] THEN {"manifest-version-mismatch"} ELSE {})
        \cup (IF ~record.legacy /\ record.modules # Plans[version][record.request].modules
              THEN {"resolution-drift"} ELSE {})
  BY <1>6, <1>7, <1>8 DEF Diagnosis
<1>10. Diagnosis \cap {"missing", "drifted", "missing-source"} = {}
  BY <1>9
<1>11. ASSUME "resolution-drift" \in Diagnosis PROVE FromRecord
  <2>1. record.modules # Plans[version][record.request].modules
    BY <1>9, <1>11
  <2>2. KeepsItsModules(record)
    BY <1>2, <2>1 DEF RepairLeadsTo
  <2>3. QED
    BY <2>2 DEF KeepsItsModules, FromRecord
<1>12. QED
  BY <1>10, <1>11

LEMMA OnlyRewrittenDrift == Shape /\ LeadsTo => OnlyRewrittenFilesDrift
<1>1. SUFFICES ASSUME Shape, LeadsTo, Ended("installed"), NEW i \in DOMAIN record.ops
               PROVE  \/ Inspect(record.ops[i]) = "ok"
                      \/ record.ops[i].dest \in {HooksPath, McpPath} /\ Inspect(record.ops[i]) = "drifted"
  BY DEF OnlyRewrittenFilesDrift
<1>2. IsRecord(record) /\ InstallLeadsTo(record, {})
  BY <1>1 DEF LeadsTo, Ended
<1>3. PICK op : op = record.ops[i]
  OBVIOUS
<1>4. /\ op.kind = "copy-file" /\ HasSource(op)
      /\ disk[op.dest] = Source[version][op.dest] \/ (op.dest \in {HooksPath, McpPath} /\ Exists(op.dest))
  BY <1>1, <1>2, <1>3 DEF InstallLeadsTo
<1>5. Exists(op.dest)
  BY <1>4 DEF Exists, HasSource
<1>6. Inspect(op) = IF disk[op.dest] = Source[version][op.dest] THEN "ok" ELSE "drifted"
  BY <1>4, <1>5 DEF Inspect
<1>7. QED
  BY <1>3, <1>4, <1>6

\* What the doctor says after an undisturbed repair or install (buildDoctorReport
\* against repairInstalledStates and applyInstallPlan), for any record, plan,
\* edits and versions before it.
THEOREM DoctorIsRight == Spec => []DoctorAgrees
<1>1. Init => Shape /\ LeadsTo
  BY InitShape, InitLeads
<1>2. Shape /\ LeadsTo /\ [Next]_vars => (Shape /\ LeadsTo)'
  BY StepShape, StepLeads
<1>3. Shape /\ LeadsTo => DoctorAgrees
  BY RepairsHeal, OnlyRewrittenDrift DEF DoctorAgrees
<1>4. QED
  BY <1>1, <1>2, <1>3, PTL DEF Spec

\* However often hooks are merged into the settings, none is there twice, and after
\* an undisturbed install none is left out (mergeHookEntries, getHookEntryAliases).
THEOREM HooksAreRegisteredOnce == Spec => []HooksRegisteredOnce
<1>1. Init => Shape /\ LeadsTo
  BY InitShape, InitLeads
<1>2. Shape /\ LeadsTo /\ [Next]_vars => (Shape /\ LeadsTo)'
  BY StepShape, StepLeads
<1>3. Shape /\ LeadsTo => HooksRegisteredOnce
  <2>1. Shape => \A i, j \in DOMAIN settings : Same(settings[i], settings[j]) => i = j
    BY DEF Shape, OnceEach
  <2>2. ASSUME Shape, LeadsTo, Target = "claude", Ended("installed"),
               HooksPath \in {record.ops[i].dest : i \in DOMAIN record.ops}
        PROVE  Covers(settings)
    BY <2>2 DEF LeadsTo, Ended, InstallLeadsTo
  <2>3. QED
    BY <2>1, <2>2 DEF HooksRegisteredOnce, Covers, Represented
<1>4. QED
  BY <1>1, <1>2, <1>3, PTL DEF Spec

-----------------------------------------------------------------------------
(* One request of one version works on one set of files. Records name these *)
(* files, commands work on them, and no others are put anywhere but the      *)
(* settings; an uninstall has still to remove each of them that is there.    *)

DestsOf(ops) == {ops[i].dest : i \in DOMAIN ops}
NoHooks == disk[HooksPath] = Absent \/ ~IsJson(disk[HooksPath])

Concerns(D) ==
  /\ placed \subseteq D \cup {SettingsPath}
  /\ IsRecord(record) => DestsOf(record.ops) = D
  /\ cmd # Idle =>
       /\ \A s \in ToSet(cmd.todo) :
            /\ s.do \in {"copy", "put"} => s.dest \in D
            /\ s.do \in {"repair", "undo"} => s.operation.dest \in D
       /\ cmd.op \in {"install", "repair"} => DestsOf(Goal(cmd.todo).state.ops) = D
       /\ cmd.op = "uninstall" =>
            \A d \in placed \ {SettingsPath} : \E s \in ToSet(cmd.todo) : s.do = "undo" /\ s.operation.dest = d
  /\ cmd = Idle /\ outcome = "uninstalled" => placed \subseteq {SettingsPath}

MadeByInstalls ==
  /\ IsRecord(record) => ~KeepsItsModules(record)
  /\ cmd # Idle /\ cmd.op \in {"install", "repair"} => ~KeepsItsModules(Goal(cmd.todo).state)

OnePlan(v, r) ==
  /\ Concerns(ToSet(PlannedOf(v, r)))
  /\ HooksPath \in ToSet(PlannedOf(v, r)) \/ NoHooks
  /\ MadeByInstalls

OnePlanOnly ==
  \/ planned = Several
  \/ planned = NoPlan /\ record = NoRecord /\ cmd = Idle /\ NoHooks /\ Concerns({})
  \/ \E q \in Requests : planned = <<0, q>> /\ \E D \in SUBSET Dests : Concerns(D)
  \/ \E v \in 1..LastVersion : \E r \in Requests : planned = <<v, r>> /\ OnePlan(v, r)

\* An install records the files of its plan, each as a copy.
LEMMA PreviewOfPlan ==
  ASSUME version \in 1..LastVersion, NEW r \in Requests
  PROVE  /\ DestsOf(StatePreview(r).ops) = ToSet(PlannedOf(version, r))
         /\ ~KeepsItsModules(StatePreview(r))
<1>1. PICK S, v, p : S = StatePreview(r) /\ v = version /\ p = PlannedOf(v, r)
  OBVIOUS
<1>2. p = Planned(r)
  BY <1>1 DEF Planned
<1>3. IsSeq(p) /\ (\A i \in DOMAIN p : p[i] \in Dests) /\ (\A i, j \in DOMAIN p : p[i] = p[j] => i = j)
  BY <1>1, PlannedIs
<1>4. S.ops = CopyOps(p) /\ S.legacy = FALSE
  BY <1>1, <1>2, PreviewIs
<1>5. DOMAIN S.ops = DOMAIN p /\ \A i \in DOMAIN p : S.ops[i] = CopyOp(p[i])
  BY <1>3, <1>4, CopyOpsAre
<1>6. \A d : CopyOp(d).kind = "copy-file" /\ CopyOp(d).dest = d
  BY DEF CopyOp
<1>7. \A i \in DOMAIN p : S.ops[i].kind = "copy-file" /\ S.ops[i].dest = p[i]
  BY <1>5, <1>6
<1>8. ~KeepsItsModules(S)
  BY <1>4, <1>5, <1>7 DEF KeepsItsModules
<1>9. DestsOf(S.ops) = {p[i] : i \in DOMAIN p} /\ ToSet(p) = {p[i] : i \in DOMAIN p}
  BY <1>5, <1>7 DEF DestsOf, ToSet
<1>10. QED
  BY <1>1, <1>8, <1>9

LEMMA PlansDiffer ==
  /\ NoPlan # Several
  /\ \A v, r : <<v, r>> # NoPlan /\ <<v, r>> # Several
  /\ \A v, r, w, q : <<v, r>> = <<w, q>> => v = w /\ r = q
BY DEF NoPlan, Several

LEMMA StepsOf ==
  ASSUME NEW op, NEW t, Todo(op, t)
  PROVE  \A s \in ToSet(t) : s.do \in Work(op) \cup {Final(op)}
<1>1. PICK n : n = Len(t)
  OBVIOUS
<1>2. n \in Nat /\ ToSet(t) = {t[i] : i \in 1..n}
  BY <1>1, SeqHas DEF Todo
<1>3. \A i \in 1..n : i \in 1..(n - 1) \/ i = n
  BY <1>2
<1>4. \A i \in 1..(n - 1) : t[i].do \in Work(op)
  BY <1>1 DEF Todo
<1>5. t[n].do = Final(op)
  BY <1>1 DEF Todo, Goal
<1>6. QED
  BY <1>2, <1>3, <1>4, <1>5

\* Which step of a command does what.
LEMMA ActionOf ==
  ASSUME CommandStep
  PROVE  /\ Step.do = "copy" => CopyFile
         /\ Step.do = "put" => WriteFile
         /\ Step.do = "settings" => WriteSettings
         /\ Step.do = "record" => WriteRecord
         /\ Step.do = "repair" => RepairOperation
         /\ Step.do = "undo" => UndoOperation
         /\ Step.do = "forget" => RemoveRecord
BY DEF CommandStep, CopyFile, WriteFile, WriteSettings, WriteRecord, RepairOperation,
       UndoOperation, RemoveRecord, Doing, Step

\* Where a step puts or removes a file.
LEMMA PlacedIn ==
  ASSUME Shape, CommandStep, NEW D, Concerns(D)
  PROVE  /\ placed' \subseteq D \cup {SettingsPath}
         /\ \A e \in Dests \ D : disk'[e] = disk[e]
         /\ Step.do = "undo" => placed' = placed \ {Step.operation.dest}
         /\ Step.do = "forget" => placed' = placed
<1>1. cmd # Idle /\ Working(cmd) /\ IsStep(Step) /\ Step \in ToSet(cmd.todo)
      /\ Step.do \in {"copy", "put", "settings", "record", "repair", "undo", "forget"}
  BY CommandSteps, DoingWorks DEF Ops, Work, Final
<1>2. PICK z : z = Step
  OBVIOUS
<1>3. /\ z.do \in {"copy", "put"} => z.dest \in D
      /\ z.do \in {"repair", "undo"} => z.operation.dest \in D
      /\ placed \subseteq D \cup {SettingsPath}
  BY <1>1, <1>2 DEF Concerns
<1>4. CASE z.do = "copy"
  <2>1. CopyFile
    BY <1>2, <1>4, ActionOf
  <2>2. placed' \in {placed \ {z.dest}, placed \cup {z.dest}} /\ \A e \in Dests \ {z.dest} : disk'[e] = disk[e]
    BY <1>1, <1>2, <2>1, DiskSteps DEF CopyFile, Write
  <2>3. QED
    BY <1>2, <1>3, <1>4, <2>2
<1>5. CASE z.do = "put"
  <2>1. WriteFile
    BY <1>2, <1>5, ActionOf
  <2>2. placed' \in {placed \ {z.dest}, placed \cup {z.dest}} /\ \A e \in Dests \ {z.dest} : disk'[e] = disk[e]
    BY <1>1, <1>2, <2>1, DiskSteps DEF WriteFile, Write
  <2>3. QED
    BY <1>2, <1>3, <1>5, <2>2
<1>6. CASE z.do = "repair"
  <2>1. RepairOperation
    BY <1>2, <1>6, ActionOf
  <2>2. PICK d : d = z.operation.dest
    OBVIOUS
  <2>3. placed' \in {placed \ {d}, placed \cup {d}} /\ \A e \in Dests \ {d} : disk'[e] = disk[e]
    BY <1>1, <1>2, <2>1, <2>2, DiskSteps DEF RepairOperation, Write
  <2>4. QED
    BY <1>2, <1>3, <1>6, <2>2, <2>3
<1>7. CASE z.do = "undo"
  <2>1. UndoOperation
    BY <1>2, <1>7, ActionOf
  <2>2. PICK d : d = z.operation.dest
    OBVIOUS
  <2>3. placed' = placed \ {d} /\ \A e \in Dests \ {d} : disk'[e] = disk[e]
    BY <1>1, <1>2, <2>1, <2>2, DiskSteps DEF UndoOperation
  <2>4. QED
    BY <1>2, <1>3, <1>7, <2>2, <2>3
<1>8. CASE z.do \in {"settings", "record", "forget"}
  <2>1. WriteSettings \/ WriteRecord \/ RemoveRecord
    BY <1>2, <1>8, ActionOf
  <2>2. placed' \subseteq placed \cup {SettingsPath} /\ disk' = disk
    BY <2>1 DEF WriteSettings, WriteRecord, RemoveRecord
  <2>3. z.do = "forget" => placed' = placed
    BY <1>2, ActionOf DEF RemoveRecord
  <2>4. QED
    BY <1>2, <1>3, <1>8, <2>2, <2>3
<1>9. QED
  BY <1>1, <1>2, <1>4, <1>5, <1>6, <1>7, <1>8

LEMMA CommandConcerns ==
  ASSUME Shape, CommandStep, NEW D, Concerns(D)
  PROVE  /\ Concerns(D)'
         /\ MadeByInstalls => MadeByInstalls'
<1>1. cmd # Idle /\ Working(cmd) /\ Proceed
  BY CommandSteps
<1>2. /\ IsStep(Step) /\ Step \in ToSet(cmd.todo) /\ (Finishes \/ GoesOn) /\ cmd.op \in Ops
      /\ Step.do \in Work(cmd.op) \cup {Final(cmd.op)}
  BY <1>1, Proceeds, DoingWorks
<1>3. placed' \subseteq D \cup {SettingsPath}
  BY PlacedIn
<1>4. Step.do = "record" => record' = Step.state
  BY ActionOf DEF WriteRecord
<1>5. Step.do = "forget" => record' = NoRecord
  BY ActionOf DEF RemoveRecord
<1>6. Step.do \notin {"record", "forget"} => record' = record
  BY DEF CommandStep, CopyFile, WriteFile, WriteSettings, WriteRecord, RepairOperation,
         UndoOperation, RemoveRecord, Doing, Step
<1>7. ~IsRecord(NoRecord)
  BY DEF NoRecord, IsRecord
<1>8. CASE GoesOn
  <2>1. /\ cmd' # Idle /\ cmd'.op = cmd.op /\ Goal(cmd'.todo) = Goal(cmd.todo)
        /\ ToSet(cmd.todo) = {Step} \cup ToSet(cmd'.todo) /\ Step.do \in Work(cmd.op)
    BY <1>8 DEF GoesOn
  <2>2. record' = record
    BY <1>2, <1>6, <2>1 DEF Work, Ops
  <2>3. ASSUME cmd.op = "uninstall", NEW d \in placed' \ {SettingsPath}
        PROVE  \E s \in ToSet(cmd'.todo) : s.do = "undo" /\ s.operation.dest = d
    <3>1. Step.do = "undo"
      BY <2>1, <2>3 DEF Work
    <3>2. d \in placed \ {SettingsPath} /\ d # Step.operation.dest
      BY <2>3, <3>1, PlacedIn
    <3>3. PICK s \in ToSet(cmd.todo) : s.do = "undo" /\ s.operation.dest = d
      BY <1>1, <2>3, <3>2 DEF Concerns
    <3>4. QED
      BY <2>1, <3>2, <3>3
  <2>4. /\ \A s \in ToSet(cmd'.todo) :
            /\ s.do \in {"copy", "put"} => s.dest \in D
            /\ s.do \in {"repair", "undo"} => s.operation.dest \in D
        /\ cmd.op \in {"install", "repair"} => DestsOf(Goal(cmd'.todo).state.ops) = D
        /\ IsRecord(record) => DestsOf(record.ops) = D
    BY <1>1, <2>1 DEF Concerns
  <2>5. Concerns(D)'
    BY <1>3, <2>1, <2>2, <2>3, <2>4 DEF Concerns, DestsOf
  <2>6. MadeByInstalls => MadeByInstalls'
    BY <1>1, <2>1, <2>2 DEF MadeByInstalls, KeepsItsModules
  <2>7. QED
    BY <2>5, <2>6
<1>9. CASE Finishes
  <2>1. /\ cmd' = Idle /\ outcome' = Result(cmd.op)
        /\ Step = Goal(cmd.todo) /\ ToSet(cmd.todo) = {Step} /\ Step.do = Final(cmd.op)
    BY <1>9 DEF Finishes
  <2>2. CASE cmd.op = "uninstall"
    <3>1. Step.do = "forget"
      BY <2>1, <2>2 DEF Final
    <3>2. placed' = placed /\ record' = NoRecord
      BY <1>5, <3>1, PlacedIn
    <3>3. placed \subseteq {SettingsPath}
      <4>1. \A d \in placed \ {SettingsPath} : \E s \in {Step} : s.do = "undo"
        BY <1>1, <2>1, <2>2 DEF Concerns
      <4>2. QED
        BY <3>1, <4>1
    <3>4. QED
      BY <1>7, <2>1, <3>2, <3>3 DEF Concerns, MadeByInstalls
  <2>3. CASE cmd.op \in {"install", "repair"}
    <3>1. Step.do = "record" /\ outcome' # "uninstalled"
      BY <2>1, <2>3 DEF Final, Result
    <3>2. PICK S : S = Step.state
      OBVIOUS
    <3>3. record' = S /\ S = Goal(cmd.todo).state
      BY <1>4, <2>1, <3>1, <3>2
    <3>4. DestsOf(S.ops) = D
      BY <1>1, <2>3, <3>3 DEF Concerns
    <3>5. Concerns(D)'
      BY <1>3, <2>1, <3>1, <3>3, <3>4 DEF Concerns, DestsOf
    <3>6. MadeByInstalls => ~KeepsItsModules(S)
      BY <1>1, <2>3, <3>3 DEF MadeByInstalls
    <3>7. MadeByInstalls => MadeByInstalls'
      BY <2>1, <3>3, <3>6 DEF MadeByInstalls, KeepsItsModules
    <3>8. QED
      BY <3>5, <3>7
  <2>4. QED
    BY <1>2, <2>2, <2>3 DEF Ops
<1>10. QED
  BY <1>2, <1>8, <1>9

\* Whatever ends a command early or happens beside it leaves things as they are.
LEMMA OthersConcern ==
  ASSUME NEW D, Concerns(D), placed' \subseteq placed, record' \in {record, Corrupt},
         (cmd' = cmd /\ outcome' = outcome) \/ (cmd' = Idle /\ outcome' = "error")
  PROVE  Concerns(D)' /\ (MadeByInstalls => MadeByInstalls')
<1>1. ~IsRecord(Corrupt)
  BY DEF Corrupt, IsRecord
<1>2. IsRecord(record') => record' = record
  BY <1>1
<1>3. placed' \subseteq D \cup {SettingsPath} /\ (IsRecord(record') => DestsOf(record'.ops) = D)
  BY <1>2 DEF Concerns
<1>4. CASE cmd' = cmd /\ outcome' = outcome
  <2>1. Concerns(D)'
    BY <1>3, <1>4 DEF Concerns, DestsOf
  <2>2. MadeByInstalls => MadeByInstalls'
    BY <1>2, <1>4 DEF MadeByInstalls, KeepsItsModules
  <2>3. QED
    BY <2>1, <2>2
<1>5. CASE cmd' = Idle /\ outcome' = "error"
  <2>1. Concerns(D)'
    BY <1>3, <1>5 DEF Concerns, DestsOf
  <2>2. MadeByInstalls => MadeByInstalls'
    BY <1>2, <1>5 DEF MadeByInstalls, KeepsItsModules
  <2>3. QED
    BY <2>1, <2>2
<1>6. QED
  BY <1>4, <1>5

LEMMA UserLeavesNoHooks ==
  ASSUME Shape, NoHooks, NEW d \in Dests, UserWrites(d)
  PROVE  NoHooks'
<1>1. PICK c \in {Absent, [text |-> "user"]} \cup
                 (IF Exists(d) /\ IsJson(disk[d]) THEN {WithOwnKey(disk[d])} ELSE {}) :
        disk' = [disk EXCEPT ![d] = c]
  BY DEF UserWrites
<1>2. disk = [e \in Dests |-> disk[e]]
  BY DEF Shape, DiskShape
<1>3. CASE d # HooksPath
  BY <1>1, <1>2, <1>3 DEF NoHooks
<1>4. CASE d = HooksPath
  <2>1. c \in {Absent, [text |-> "user"]}
    BY <1>1, <1>4 DEF NoHooks, Exists
  <2>2. disk'[HooksPath] = c
    BY <1>1, <1>2, <1>4
  <2>3. c = Absent \/ ~IsJson(c)
    <3>1. DOMAIN [text |-> "user"] = {"text"}
      OBVIOUS
    <3>2. QED
      BY <2>1, <3>1 DEF IsJson
  <2>4. QED
    BY <2>2, <2>3 DEF NoHooks
<1>5. QED
  BY <1>3, <1>4

LEMMA InitOnePlan == Init => OnePlanOnly
<1>1. SUFFICES ASSUME Init PROVE OnePlanOnly
  OBVIOUS
<1>2. PICK i \in DOMAIN FirstRecord : record = FirstRecord[i] /\ disk = FirstDisk[i]
  BY <1>1 DEF Init
<1>3. cmd = Idle /\ outcome = "none" /\ placed = {}
      /\ planned = IF record = NoRecord THEN NoPlan ELSE <<0, record.request>>
  BY <1>1 DEF Init
<1>4. CASE record = NoRecord
  <2>1. NoHooks
    BY <1>2, <1>4, InstallAssumption DEF NoHooks
  <2>2. ~IsRecord(record)
    BY <1>4 DEF NoRecord, IsRecord
  <2>3. Concerns({})
    BY <1>3, <2>2 DEF Concerns
  <2>4. QED
    BY <1>3, <1>4, <2>1, <2>3 DEF OnePlanOnly
<1>5. CASE record # NoRecord
  <2>1. IsRecord(record)
    BY <1>2, <1>5, InstallAssumption
  <2>2. PICK D : D = DestsOf(record.ops)
    OBVIOUS
  <2>3. D \in SUBSET Dests
    BY <2>1, <2>2 DEF IsRecord, IsOperation, DestsOf
  <2>4. Concerns(D)
    BY <1>3, <2>2 DEF Concerns
  <2>5. planned = <<0, record.request>> /\ record.request \in Requests
    BY <1>3, <1>5, <2>1 DEF IsRecord
  <2>6. QED
    BY <2>3, <2>4, <2>5 DEF OnePlanOnly
<1>6. QED
  BY <1>4, <1>5

\* Steps that plan nothing keep to the plan there is.
LEMMA KeepsToPlan ==
  ASSUME OnePlanOnly, planned' = planned,
         \A D : Concerns(D) => Concerns(D)' /\ (MadeByInstalls => MadeByInstalls'),
         record = NoRecord /\ cmd = Idle /\ NoHooks => record' = NoRecord /\ cmd' = Idle /\ NoHooks',
         \A D : Concerns(D) /\ NoHooks /\ HooksPath \notin D => NoHooks'
  PROVE  OnePlanOnly'
<1>1. CASE planned = Several
  BY <1>1 DEF OnePlanOnly
<1>2. CASE planned = NoPlan /\ record = NoRecord /\ cmd = Idle /\ NoHooks /\ Concerns({})
  BY <1>2 DEF OnePlanOnly
<1>3. CASE \E q \in Requests : planned = <<0, q>> /\ \E D \in SUBSET Dests : Concerns(D)
  <2>1. PICK q \in Requests, D \in SUBSET Dests : planned = <<0, q>> /\ Concerns(D)
    BY <1>3
  <2>2. planned' = <<0, q>> /\ Concerns(D)'
    BY <2>1
  <2>3. QED
    BY <2>2 DEF OnePlanOnly
<1>4. CASE \E v \in 1..LastVersion : \E r \in Requests : planned = <<v, r>> /\ OnePlan(v, r)
  <2>1. PICK v \in 1..LastVersion, r \in Requests : planned = <<v, r>> /\ OnePlan(v, r)
    BY <1>4
  <2>2. PICK D : D = ToSet(PlannedOf(v, r))
    OBVIOUS
  <2>3. Concerns(D) /\ (HooksPath \in D \/ NoHooks) /\ MadeByInstalls
    BY <2>1, <2>2 DEF OnePlan
  <2>4. Concerns(D)' /\ (HooksPath \in D \/ NoHooks') /\ MadeByInstalls'
    BY <2>3
  <2>5. OnePlan(v, r)'
    BY <2>2, <2>4 DEF OnePlan
  <2>6. planned' = <<v, r>>
    BY <2>1
  <2>7. QED
    BY <2>5, <2>6 DEF OnePlanOnly
<1>5. QED
  BY <1>1, <1>2, <1>3, <1>4 DEF OnePlanOnly

LEMMA QuietKeepsToPlan ==
  ASSUME OnePlanOnly, planned' = planned, placed' \subseteq placed, NoHooks => NoHooks',
         record' = record \/ (cmd # Idle /\ record' = Corrupt),
         (cmd' = cmd /\ outcome' = outcome) \/ (cmd' = Idle /\ outcome' = "error")
  PROVE  OnePlanOnly'
<1>1. \A D : Concerns(D) => Concerns(D)' /\ (MadeByInstalls => MadeByInstalls')
  BY OthersConcern
<1>2. QED
  BY <1>1, KeepsToPlan

LEMMA CommandKeepsToPlan ==
  ASSUME Shape, OnePlanOnly, CommandStep
  PROVE  OnePlanOnly'
<1>1. cmd # Idle /\ Working(cmd) /\ Proceed
  BY CommandSteps
<1>2. planned' = planned
  BY <1>1, Proceeds
<1>3. \A D : Concerns(D) => Concerns(D)' /\ (MadeByInstalls => MadeByInstalls')
  BY CommandConcerns
<1>4. ASSUME NEW D, Concerns(D), NoHooks, HooksPath \notin D PROVE NoHooks'
  <2>1. HooksPath \in Dests \ D
    BY <1>4, InstallAssumption
  <2>2. disk'[HooksPath] = disk[HooksPath]
    BY <1>4, <2>1, PlacedIn
  <2>3. QED
    BY <1>4, <2>2 DEF NoHooks
<1>5. QED
  BY <1>1, <1>2, <1>3, <1>4, KeepsToPlan

LEMMA UninstallKeepsToPlan ==
  ASSUME Shape, OnePlanOnly, StartUninstall
  PROVE  OnePlanOnly'
<1>1. /\ Working(cmd') /\ cmd'.op = "uninstall" /\ IsRecord(record)
      /\ \A i \in DOMAIN record.ops : \E s \in ToSet(cmd'.todo) : s.do = "undo" /\ s.operation = record.ops[i]
      /\ \A s \in ToSet(cmd'.todo) : s.do = "undo" => \E i \in DOMAIN record.ops : s.operation = record.ops[i]
      /\ UNCHANGED <<version, disk, record, placed, planned>>
  BY StartsUninstall DEF StartUninstall, user, ghosts
<1>2. cmd' # Idle
  BY <1>1, WorkingNotIdle
<1>3. \A s \in ToSet(cmd'.todo) : s.do \in {"undo", "forget"}
  <2>1. PICK op, t : op = cmd'.op /\ t = cmd'.todo
    OBVIOUS
  <2>2. Todo(op, t) /\ op = "uninstall"
    BY <1>1, <2>1 DEF Working
  <2>3. \A s \in ToSet(t) : s.do \in Work(op) \cup {Final(op)}
    BY <2>2, StepsOf
  <2>4. QED
    BY <2>1, <2>2, <2>3 DEF Work, Final
<1>4. ASSUME NEW D, Concerns(D) PROVE Concerns(D)' /\ (MadeByInstalls => MadeByInstalls')
  <2>1. placed \subseteq D \cup {SettingsPath} /\ DestsOf(record.ops) = D
    BY <1>1, <1>4 DEF Concerns
  <2>2. ASSUME NEW s \in ToSet(cmd'.todo)
        PROVE  s.do \in {"undo", "forget"} /\ (s.do = "undo" => s.operation.dest \in D)
    BY <1>1, <1>3, <2>1 DEF DestsOf
  <2>3. \A d \in D : \E s \in ToSet(cmd'.todo) : s.do = "undo" /\ s.operation.dest = d
    <3>1. ASSUME NEW d \in D PROVE \E s \in ToSet(cmd'.todo) : s.do = "undo" /\ s.operation.dest = d
      <4>1. PICK i \in DOMAIN record.ops : d = record.ops[i].dest
        BY <2>1, <3>1 DEF DestsOf
      <4>2. QED
        BY <1>1, <4>1
    <3>2. QED
      BY <3>1
  <2>4. Concerns(D)'
    BY <1>1, <1>2, <2>1, <2>2, <2>3 DEF Concerns, DestsOf
  <2>5. MadeByInstalls => MadeByInstalls'
    BY <1>1 DEF MadeByInstalls, KeepsItsModules
  <2>6. QED
    BY <2>4, <2>5
<1>5. NoHooks => NoHooks'
  BY <1>1 DEF NoHooks
<1>6. record # NoRecord
  BY <1>1 DEF IsRecord, NoRecord
<1>7. QED
  BY <1>1, <1>4, <1>5, <1>6, KeepsToPlan

\* A plan of the manifest is the one there was, or the first of all.
LEMMA InstallKeepsToPlan ==
  ASSUME Shape, OnePlanOnly, NEW r \in Requests, StartInstall(r)
  PROVE  OnePlanOnly'
<1>1. PICK S, U, w : S = StatePreview(r) /\ U = ToSet(cmd'.todo) /\ U = w \cup {Goal(cmd'.todo)}
                     /\ InstallWork(r, w)
  BY StartsInstall
<1>2. /\ Working(cmd') /\ cmd'.op = "install" /\ Goal(cmd'.todo).state = S /\ Goal(cmd'.todo).do = "record"
      /\ UNCHANGED <<version, disk, record, placed>> /\ planned' = AlsoPlanned(r)
  BY <1>1, StartsInstall DEF StartInstall, user
<1>3. cmd' # Idle
  BY <1>2, WorkingNotIdle
<1>4. PICK v, D : v = version /\ D = ToSet(PlannedOf(v, r))
  OBVIOUS
<1>5. v \in 1..LastVersion /\ Planned(r) = PlannedOf(v, r)
  BY <1>4 DEF Shape, Planned
<1>6. DestsOf(S.ops) = D /\ ~KeepsItsModules(S)
  BY <1>1, <1>4, <1>5, PreviewOfPlan
<1>7. CASE planned \in {NoPlan, <<v, r>>}
  <2>1. planned' = <<v, r>>
    BY <1>2, <1>4, <1>7 DEF AlsoPlanned
  <2>2. /\ placed \subseteq D \cup {SettingsPath}
        /\ IsRecord(record) => DestsOf(record.ops) = D /\ ~KeepsItsModules(record)
        /\ HooksPath \in D \/ NoHooks
    <3>1. CASE planned = NoPlan
      <4>1. record = NoRecord /\ NoHooks /\ Concerns({})
        BY <3>1, PlansDiffer DEF OnePlanOnly
      <4>2. QED
        BY <4>1 DEF Concerns, NoRecord, IsRecord
    <3>2. CASE planned = <<v, r>>
      <4>1. OnePlan(v, r)
        BY <1>5, <3>2, PlansDiffer DEF OnePlanOnly
      <4>2. QED
        BY <1>4, <4>1 DEF OnePlan, Concerns, MadeByInstalls
    <3>3. QED
      BY <1>7, <3>1, <3>2
  <2>3. ASSUME NEW s \in U
        PROVE  /\ s.do \in {"copy", "put"} => s.dest \in D
               /\ s.do \notin {"repair", "undo"}
    <3>1. HooksPath \notin D => disk[HooksPath] = Absent \/ ~IsJson(disk[HooksPath])
      BY <2>2 DEF NoHooks
    <3>2. s.do \in {"copy", "put"} => s.dest \in D
      BY <1>1, <1>2, <1>4, <1>5, <3>1 DEF InstallWork
    <3>3. PICK op, t : op = cmd'.op /\ t = cmd'.todo
      OBVIOUS
    <3>4. s.do \in Work(op) \cup {Final(op)} /\ op = "install"
      BY <1>1, <1>2, <3>3, StepsOf DEF Working
    <3>5. QED
      BY <3>2, <3>4 DEF Work, Final
  <2>4. Concerns(D)'
    <3>1. placed' \subseteq D \cup {SettingsPath} /\ (IsRecord(record') => DestsOf(record'.ops) = D)
      BY <1>2, <2>2
    <3>2. DestsOf(Goal(cmd'.todo).state.ops) = D
      BY <1>2, <1>6
    <3>3. \A s \in ToSet(cmd'.todo) : /\ s.do \in {"copy", "put"} => s.dest \in D
                                      /\ s.do \notin {"repair", "undo"}
      BY <1>1, <2>3
    <3>4. QED
      BY <1>2, <1>3, <3>1, <3>2, <3>3 DEF Concerns, DestsOf
  <2>5. MadeByInstalls'
    <3>1. ~KeepsItsModules(Goal(cmd'.todo).state)
      BY <1>2, <1>6
    <3>2. IsRecord(record') => ~KeepsItsModules(record')
      BY <1>2, <2>2
    <3>3. QED
      BY <3>1, <3>2 DEF MadeByInstalls, KeepsItsModules
  <2>6. HooksPath \in D \/ NoHooks'
    BY <1>2, <2>2 DEF NoHooks
  <2>7. OnePlan(v, r)'
    BY <1>4, <2>4, <2>5, <2>6 DEF OnePlan
  <2>8. QED
    BY <1>5, <2>1, <2>7 DEF OnePlanOnly
<1>8. CASE planned \notin {NoPlan, <<v, r>>}
  <2>1. planned' = Several
    BY <1>2, <1>4, <1>8 DEF AlsoPlanned
  <2>2. QED
    BY <2>1 DEF OnePlanOnly
<1>9. QED
  BY <1>7, <1>8

LEMMA RepairKeepsToPlan ==
  ASSUME Shape, OnePlanOnly, StartRepair
  PROVE  OnePlanOnly'
<1>1. PICK S, U : S = Desired /\ U = ToSet(cmd'.todo)
  OBVIOUS
<1>2. /\ Working(cmd') /\ cmd'.op = "repair" /\ Goal(cmd'.todo).state = S
      /\ IsRecord(S) /\ IsRecord(record) /\ UNCHANGED <<version, disk, record, placed>>
      /\ \A s \in U : s.do = "repair" => \E i \in DOMAIN S.ops : s.operation = S.ops[i]
      /\ planned' = IF FromRecord THEN planned ELSE AlsoPlanned(record.request)
  <2>1. UNCHANGED <<version, disk, record, placed>>
        /\ planned' = IF FromRecord THEN planned ELSE AlsoPlanned(record.request)
    BY DEF StartRepair, user
  <2>2. QED
    BY <1>1, <2>1, StartsRepair
<1>3. cmd' # Idle /\ record # NoRecord /\ version \in 1..LastVersion
  BY <1>2, WorkingNotIdle DEF IsRecord, NoRecord, Shape
<1>4. \A s \in U : s.do \in {"repair", "record"}
  <2>1. PICK op, t : op = cmd'.op /\ t = cmd'.todo
    OBVIOUS
  <2>2. Todo(op, t) /\ op = "repair"
    BY <1>2, <2>1 DEF Working
  <2>3. \A s \in ToSet(t) : s.do \in Work(op) \cup {Final(op)}
    BY <2>2, StepsOf
  <2>4. QED
    BY <1>1, <2>1, <2>2, <2>3 DEF Work, Final
<1>5. ASSUME NEW D, Concerns(D), DestsOf(S.ops) = D PROVE Concerns(D)'
  <2>1. placed' \subseteq D \cup {SettingsPath} /\ (IsRecord(record') => DestsOf(record'.ops) = D)
    BY <1>2, <1>5 DEF Concerns
  <2>2. \A s \in ToSet(cmd'.todo) : /\ s.do \notin {"copy", "put", "undo"}
                                    /\ s.do = "repair" => s.operation.dest \in D
    BY <1>1, <1>2, <1>4, <1>5 DEF DestsOf
  <2>3. DestsOf(Goal(cmd'.todo).state.ops) = D
    BY <1>2, <1>5
  <2>4. QED
    BY <1>2, <1>3, <2>1, <2>2, <2>3 DEF Concerns, DestsOf
<1>6. FromRecord <=> KeepsItsModules(record)
  BY DEF FromRecord, KeepsItsModules
<1>7. CASE FromRecord
  <2>1. planned' = planned /\ S.ops = record.ops
    BY <1>1, <1>2, <1>3, <1>7, DesiredIs
  <2>2. \A D : Concerns(D) => Concerns(D)'
    <3>1. SUFFICES ASSUME NEW D, Concerns(D) PROVE Concerns(D)'
      OBVIOUS
    <3>2. DestsOf(S.ops) = D
      BY <1>2, <2>1, <3>1 DEF Concerns, DestsOf
    <3>3. QED
      BY <1>5, <3>1, <3>2
  <2>3. ~MadeByInstalls
    BY <1>2, <1>6, <1>7 DEF MadeByInstalls
  <2>4. NoHooks => NoHooks'
    BY <1>2 DEF NoHooks
  <2>5. QED
    BY <1>3, <2>1, <2>2, <2>3, <2>4, KeepsToPlan
<1>8. CASE ~FromRecord
  <2>1. PICK v, r : v = version /\ r = record.request
    OBVIOUS
  <2>2. PICK D : D = ToSet(PlannedOf(v, r))
    OBVIOUS
  <2>3. v \in 1..LastVersion /\ r \in Requests
    BY <1>2, <1>3, <2>1 DEF IsRecord
  <2>4. CASE planned = <<v, r>>
    <3>1. planned' = <<v, r>>
      BY <1>2, <1>8, <2>1, <2>4 DEF AlsoPlanned
    <3>2. Concerns(D) /\ (HooksPath \in D \/ NoHooks) /\ MadeByInstalls
      BY <2>2, <2>3, <2>4, PlansDiffer DEF OnePlanOnly, OnePlan
    <3>3. S = StatePreview(r)
      BY <1>1, <1>2, <1>3, <1>8, <2>1, DesiredIs
    <3>4. DestsOf(S.ops) = D /\ ~KeepsItsModules(S)
      BY <1>3, <2>1, <2>2, <2>3, <3>3, PreviewOfPlan
    <3>5. Concerns(D)'
      BY <1>5, <3>2, <3>4
    <3>6. MadeByInstalls'
      <4>1. ~KeepsItsModules(Goal(cmd'.todo).state)
        BY <1>2, <3>4
      <4>2. ~KeepsItsModules(record')
        BY <1>2, <1>6, <1>8
      <4>3. QED
        BY <4>1, <4>2 DEF MadeByInstalls, KeepsItsModules
    <3>7. HooksPath \in D \/ NoHooks'
      BY <1>2, <3>2 DEF NoHooks
    <3>8. OnePlan(v, r)'
      BY <2>2, <3>5, <3>6, <3>7 DEF OnePlan
    <3>9. QED
      BY <2>3, <3>1, <3>8 DEF OnePlanOnly
  <2>5. CASE planned # <<v, r>>
    <3>1. planned # NoPlan
      BY <1>3, PlansDiffer DEF OnePlanOnly
    <3>2. planned' = Several
      BY <1>2, <1>8, <2>1, <2>5, <3>1 DEF AlsoPlanned
    <3>3. QED
      BY <3>2 DEF OnePlanOnly
  <2>6. QED
    BY <2>4, <2>5
<1>9. QED
  BY <1>7, <1>8

LEMMA StepOnePlan == Shape /\ OnePlanOnly /\ [Next]_vars => OnePlanOnly'
<1>1. SUFFICES ASSUME Shape, OnePlanOnly, [Next]_vars PROVE OnePlanOnly'
  OBVIOUS
<1>2. ASSUME disk' = disk PROVE NoHooks => NoHooks'
  BY <1>2 DEF NoHooks
<1>3. CASE UNCHANGED vars
  <2>1. UNCHANGED <<disk, record, cmd, outcome, placed, planned>>
    BY <1>3 DEF vars
  <2>2. QED
    BY <1>1, <1>2, <2>1, QuietKeepsToPlan
<1>4. ASSUME Refuse PROVE OnePlanOnly'
  <2>1. UNCHANGED <<disk, record, placed, planned>> /\ cmd' = cmd /\ outcome' = "error"
    BY <1>4 DEF Refuse, user, ghosts
  <2>2. \A D : Concerns(D) => Concerns(D)' /\ (MadeByInstalls => MadeByInstalls')
    BY <2>1 DEF Concerns, MadeByInstalls, KeepsItsModules, DestsOf
  <2>3. QED
    BY <1>1, <1>2, <2>1, <2>2, KeepsToPlan
<1>5. ASSUME NEW r \in Requests, StartInstall(r) \/ RefuseInstall(r) PROVE OnePlanOnly'
  BY <1>1, <1>4, <1>5, InstallKeepsToPlan DEF RefuseInstall
<1>6. CASE StartRepair \/ RefuseRepair
  BY <1>1, <1>4, <1>6, RepairKeepsToPlan DEF RefuseRepair
<1>7. CASE StartUninstall \/ RefuseUninstall
  BY <1>1, <1>4, <1>7, UninstallKeepsToPlan DEF RefuseUninstall
<1>8. CASE CommandStep
  BY <1>1, <1>8, CommandKeepsToPlan
<1>9. CASE Abandon
  <2>1. /\ cmd # Idle /\ cmd' = Idle /\ outcome' = "error" /\ record' \in {record, Corrupt}
        /\ UNCHANGED <<disk, placed, planned>>
    BY <1>9 DEF Abandon, ghosts
  <2>2. QED
    BY <1>1, <1>2, <2>1, QuietKeepsToPlan
<1>10. ASSUME NEW d \in Dests, UserWrites(d) PROVE OnePlanOnly'
  <2>1. placed' \subseteq placed /\ UNCHANGED <<record, cmd, outcome, planned>>
    BY <1>10 DEF UserWrites, Interfere
  <2>2. NoHooks => NoHooks'
    BY <1>1, <1>10, UserLeavesNoHooks
  <2>3. QED
    BY <1>1, <2>1, <2>2, QuietKeepsToPlan
<1>11. CASE (\E e \in UserEntries : UserAddsHook(e)) \/ UpdateRepo
  <2>1. UNCHANGED <<disk, record, cmd, outcome, placed, planned>>
    BY <1>11 DEF UserAddsHook, UpdateRepo, Interfere
  <2>2. QED
    BY <1>1, <1>2, <2>1, QuietKeepsToPlan
<1>12. QED
  BY <1>1, <1>3, <1>5, <1>6, <1>7, <1>8, <1>9, <1>10, <1>11 DEF Next

-----------------------------------------------------------------------------
(* What a plan merges into the settings stays there, and nothing is merged   *)
(* into them before the first plan of the manifest.                          *)

Merged(v, entries) == v # 0 /\ Represented(v, entries)

StaysFor(v) ==
  /\ SettingsPath \in placed => Merged(v, settings)
  /\ cmd # Idle => \A s \in ToSet(cmd.todo) : s.do = "settings" => Merged(v, s.entries)

HooksStay ==
  /\ planned = NoPlan => StaysFor(0)
  /\ \A v, r : planned = <<v, r>> => StaysFor(v)

LEMMA StaysOn ==
  ASSUME HooksStay, planned' \in {planned, Several}, \A v : StaysFor(v) => StaysFor(v)'
  PROVE  HooksStay'
<1>1. planned' # planned => (planned' # NoPlan /\ \A v, r : planned' # <<v, r>>)
  BY PlansDiffer
<1>2. planned' = NoPlan => StaysFor(0)'
  BY <1>1 DEF HooksStay
<1>3. ASSUME NEW v, NEW r, planned' = <<v, r>> PROVE StaysFor(v)'
  BY <1>1, <1>3 DEF HooksStay
<1>4. QED
  BY <1>2, <1>3 DEF HooksStay

LEMMA QuietStays ==
  ASSUME NEW v, StaysFor(v), placed' \subseteq placed,
         Merged(v, settings) => Merged(v, settings)',
         cmd' = cmd \/ cmd' = Idle
  PROVE  StaysFor(v)'
<1>1. SettingsPath \in placed' => Merged(v, settings)'
  BY DEF StaysFor
<1>2. ASSUME cmd' # Idle, NEW s \in ToSet(cmd'.todo), s.do = "settings" PROVE Merged(v, s.entries)
  BY <1>2 DEF StaysFor
<1>3. QED
  BY <1>1, <1>2 DEF StaysFor, Merged, Represented

LEMMA CommandStays ==
  ASSUME Shape, CommandStep, NEW v, StaysFor(v)
  PROVE  StaysFor(v)'
<1>1. cmd # Idle /\ Working(cmd) /\ Proceed
  BY CommandSteps
<1>2. /\ IsStep(Step) /\ Step \in ToSet(cmd.todo) /\ (Finishes \/ GoesOn)
      /\ Step.do \in {"copy", "put", "settings", "record", "repair", "undo", "forget"}
  BY <1>1, Proceeds, DoingWorks DEF Ops, Work, Final
<1>3. PICK z : z = Step
  OBVIOUS
<1>4. ASSUME cmd' # Idle, NEW s \in ToSet(cmd'.todo), s.do = "settings" PROVE Merged(v, s.entries)
  <2>1. s \in ToSet(cmd.todo)
    BY <1>2, <1>4 DEF Finishes, GoesOn
  <2>2. QED
    BY <1>1, <1>4, <2>1 DEF StaysFor
<1>5. CASE z.do = "settings"
  <2>1. settings' = z.entries
    BY <1>3, <1>5, ActionOf DEF WriteSettings
  <2>2. Merged(v, z.entries)
    BY <1>1, <1>2, <1>3, <1>5 DEF StaysFor
  <2>3. QED
    BY <1>4, <2>1, <2>2 DEF StaysFor, Merged, Represented
<1>6. CASE z.do # "settings"
  <2>1. settings' = settings
    BY <1>3, <1>6 DEF CommandStep, CopyFile, WriteFile, WriteSettings, WriteRecord, RepairOperation,
       UndoOperation, RemoveRecord, Doing, Step
  <2>2. \E d \in Dests : placed' \subseteq placed \cup {d}
    <3>1. Dests # {}
      BY InstallAssumption
    <3>2. CASE z.do \in {"copy", "put"}
      <4>1. placed' \subseteq placed \cup {z.dest}
        BY <1>3, <3>2, ActionOf DEF CopyFile, WriteFile, Write
      <4>2. z.dest \in Dests
        BY <1>2, <1>3, <3>2 DEF IsStep
      <4>3. QED
        BY <4>1, <4>2
    <3>3. CASE z.do \in {"repair", "undo"}
      <4>1. PICK d : d = z.operation.dest
        OBVIOUS
      <4>2. placed' \subseteq placed \cup {d}
        BY <1>3, <3>3, <4>1, ActionOf DEF RepairOperation, UndoOperation, Write
      <4>3. d \in Dests
        BY <1>2, <1>3, <3>3, <4>1 DEF IsStep, IsOperation
      <4>4. QED
        BY <4>2, <4>3
    <3>4. CASE z.do \in {"record", "forget"}
      <4>1. placed' = placed
        BY <1>3, <3>4, ActionOf DEF WriteRecord, RemoveRecord
      <4>2. QED
        BY <3>1, <4>1
    <3>5. QED
      BY <1>2, <1>3, <1>6, <3>2, <3>3, <3>4
  <2>3. SettingsPath \in placed' => SettingsPath \in placed
    BY <2>2, InstallAssumption
  <2>4. Merged(v, settings)' <=> Merged(v, settings)
    BY <2>1 DEF Merged, Represented
  <2>5. QED
    BY <1>4, <2>3, <2>4 DEF StaysFor, Merged, Represented
<1>7. QED
  BY <1>5, <1>6

\* A command that merges nothing into the settings.
LEMMA OtherCommandsStay ==
  ASSUME NEW v, StaysFor(v), UNCHANGED <<placed, settings>>, Working(cmd'), cmd'.op \in {"repair", "uninstall"}
  PROVE  StaysFor(v)'
<1>1. PICK op, t : op = cmd'.op /\ t = cmd'.todo
  OBVIOUS
<1>2. \A s \in ToSet(t) : s.do \in Work(op) \cup {Final(op)}
  BY <1>1, StepsOf DEF Working
<1>3. \A s \in ToSet(cmd'.todo) : s.do # "settings"
  BY <1>1, <1>2 DEF Work, Final
<1>4. Merged(v, settings)' <=> Merged(v, settings)
  BY DEF Merged, Represented
<1>5. QED
  BY <1>3, <1>4 DEF StaysFor

LEMMA InstallStays ==
  ASSUME Shape, OnePlanOnly, HooksStay, NEW r \in Requests, StartInstall(r)
  PROVE  HooksStay'
<1>1. PICK v, w : v = version /\ ToSet(cmd'.todo) = w \cup {Goal(cmd'.todo)} /\ InstallWork(r, w)
  BY StartsInstall
<1>2. /\ Goal(cmd'.todo).do = "record" /\ v \in 1..LastVersion
      /\ UNCHANGED <<disk, settings, placed>> /\ planned' = AlsoPlanned(r)
  BY <1>1, StartsInstall DEF StartInstall, user, Shape
<1>3. CASE planned \in {NoPlan, <<v, r>>}
  <2>1. planned' = <<v, r>>
    BY <1>1, <1>2, <1>3 DEF AlsoPlanned
  <2>2. SettingsPath \in placed => Merged(v, settings)
    BY <1>3 DEF HooksStay, StaysFor, Merged
  <2>3. HooksPath \in ToSet(Planned(r)) \/ NoHooks
    <3>1. CASE planned = NoPlan
      BY <3>1, PlansDiffer DEF OnePlanOnly
    <3>2. CASE planned = <<v, r>>
      BY <1>1, <1>2, <3>2, PlansDiffer DEF OnePlanOnly, OnePlan, Planned
    <3>3. QED
      BY <1>3, <3>1, <3>2
  <2>4. ASSUME NEW s \in ToSet(cmd'.todo), s.do = "settings" PROVE Merged(v, s.entries)
    <3>1. s \in w
      BY <1>1, <1>2, <2>4
    <3>2. Target = "claude" /\ HooksPath \in ToSet(Planned(r))
      BY <1>1, <2>3, <2>4, <3>1 DEF InstallWork, NoHooks
    <3>3. Covers(s.entries)
      BY <1>1, <2>4, <3>1, <3>2 DEF InstallWork
    <3>4. QED
      BY <1>1, <1>2, <3>3 DEF Covers, Merged, Represented
  <2>5. Merged(v, settings)' <=> Merged(v, settings)
    BY <1>2 DEF Merged, Represented
  <2>6. StaysFor(v)'
    BY <1>2, <2>2, <2>4, <2>5 DEF StaysFor, Merged, Represented
  <2>7. QED
    BY <2>1, <2>6, PlansDiffer DEF HooksStay
<1>4. CASE planned \notin {NoPlan, <<v, r>>}
  <2>1. planned' = Several
    BY <1>1, <1>2, <1>4 DEF AlsoPlanned
  <2>2. QED
    BY <2>1, PlansDiffer DEF HooksStay
<1>5. QED
  BY <1>3, <1>4

LEMMA RepairStays ==
  ASSUME Shape, OnePlanOnly, HooksStay, StartRepair
  PROVE  HooksStay'
<1>1. /\ Working(cmd') /\ cmd'.op = "repair" /\ IsRecord(record)
      /\ UNCHANGED <<placed, settings>>
      /\ planned' = IF FromRecord THEN planned ELSE AlsoPlanned(record.request)
  BY StartsRepair DEF StartRepair
<1>2. planned # NoPlan
  <2>1. record # NoRecord
    BY <1>1 DEF IsRecord, NoRecord
  <2>2. QED
    BY <2>1, PlansDiffer DEF OnePlanOnly
<1>3. planned' \in {planned, Several}
  BY <1>1, <1>2 DEF AlsoPlanned
<1>4. \A v : StaysFor(v) => StaysFor(v)'
  BY <1>1, OtherCommandsStay
<1>5. QED
  BY <1>3, <1>4, StaysOn

LEMMA UninstallStays ==
  ASSUME Shape, HooksStay, StartUninstall
  PROVE  HooksStay'
<1>1. Working(cmd') /\ cmd'.op = "uninstall" /\ UNCHANGED <<placed, settings, planned>>
  BY StartsUninstall DEF StartUninstall, ghosts
<1>2. \A v : StaysFor(v) => StaysFor(v)'
  BY <1>1, OtherCommandsStay
<1>3. QED
  BY <1>1, <1>2, StaysOn

LEMMA InitStays == Init => HooksStay
<1>1. SUFFICES ASSUME Init PROVE HooksStay
  OBVIOUS
<1>2. cmd = Idle /\ placed = {}
  BY <1>1 DEF Init
<1>3. \A v : StaysFor(v)
  BY <1>2 DEF StaysFor
<1>4. QED
  BY <1>3 DEF HooksStay

LEMMA StepStays == Shape /\ OnePlanOnly /\ HooksStay /\ [Next]_vars => HooksStay'
<1>1. SUFFICES ASSUME Shape, OnePlanOnly, HooksStay, [Next]_vars PROVE HooksStay'
  OBVIOUS
<1>2. ASSUME planned' = planned, placed' \subseteq placed, cmd' = cmd \/ cmd' = Idle,
             \A v : Merged(v, settings) => Merged(v, settings)'
      PROVE  HooksStay'
  <2>1. \A v : StaysFor(v) => StaysFor(v)'
    BY <1>2, QuietStays
  <2>2. QED
    BY <1>1, <1>2, <2>1, StaysOn
<1>3. ASSUME settings' = settings PROVE \A v : Merged(v, settings) => Merged(v, settings)'
  BY <1>3 DEF Merged, Represented
<1>4. CASE UNCHANGED vars
  BY <1>2, <1>3, <1>4 DEF vars
<1>5. ASSUME Refuse PROVE HooksStay'
  BY <1>2, <1>3, <1>5 DEF Refuse, ghosts
<1>6. ASSUME NEW r \in Requests, StartInstall(r) \/ RefuseInstall(r) PROVE HooksStay'
  BY <1>1, <1>5, <1>6, InstallStays DEF RefuseInstall
<1>7. CASE StartRepair \/ RefuseRepair
  BY <1>1, <1>5, <1>7, RepairStays DEF RefuseRepair
<1>8. CASE StartUninstall \/ RefuseUninstall
  BY <1>1, <1>5, <1>8, UninstallStays DEF RefuseUninstall
<1>9. CASE CommandStep
  <2>1. planned' = planned
    BY <1>9, CommandSteps, Proceeds, <1>1
  <2>2. \A v : StaysFor(v) => StaysFor(v)'
    BY <1>1, <1>9, CommandStays
  <2>3. QED
    BY <1>1, <2>1, <2>2, StaysOn
<1>10. CASE Abandon
  BY <1>2, <1>3, <1>10 DEF Abandon, ghosts
<1>11. ASSUME NEW d \in Dests, UserWrites(d) PROVE HooksStay'
  <2>1. placed' \subseteq placed /\ UNCHANGED <<settings, cmd, planned>>
    BY <1>11 DEF UserWrites, Interfere
  <2>2. QED
    BY <1>2, <1>3, <2>1
<1>12. ASSUME NEW e \in UserEntries, UserAddsHook(e) PROVE HooksStay'
  <2>1. settings' = Append(settings, e) /\ UNCHANGED <<placed, cmd, planned>>
        /\ \A i \in DOMAIN settings : ~Same(settings[i], e)
    BY <1>12 DEF UserAddsHook, Interfere
  <2>2. PICK t : t = settings'
    OBVIOUS
  <2>3. \A i \in DOMAIN settings : i \in DOMAIN t /\ t[i] = settings[i]
    BY <1>1, <2>1, <2>2, OneMore DEF Shape
  <2>4. \A v : Merged(v, settings) => Merged(v, t)
    BY <2>3 DEF Merged, Represented
  <2>5. \A v : Merged(v, settings) => Merged(v, settings)'
    BY <2>2, <2>4 DEF Merged, Represented
  <2>6. QED
    BY <1>2, <2>1, <2>5
<1>13. CASE UpdateRepo
  BY <1>2, <1>3, <1>13 DEF UpdateRepo, Interfere
<1>14. QED
  BY <1>1, <1>4, <1>6, <1>7, <1>8, <1>9, <1>10, <1>11, <1>12, <1>13 DEF Next

\* As long as one request of one version was made, an undisturbed uninstall leaves
\* nothing of the installer but settings.json and its hooks, whatever failed or was
\* killed and repeated before it (applyInstallPlan, repairInstalledStates,
\* uninstallInstalledStates).
THEOREM UninstallsAllButSettings == Spec => []UninstallLeavesSettings
<1>1. Init => Shape /\ OnePlanOnly /\ HooksStay
  BY InitShape, InitOnePlan, InitStays
<1>2. Shape /\ OnePlanOnly /\ HooksStay /\ [Next]_vars => (Shape /\ OnePlanOnly /\ HooksStay)'
  BY StepShape, StepOnePlan, StepStays
<1>3. ASSUME OnePlanOnly, HooksStay, Ended("uninstalled"), planned # Several
      PROVE  /\ placed \subseteq {SettingsPath}
             /\ SettingsPath \in placed => Represented(planned[1], settings)
  <2>1. cmd = Idle /\ outcome = "uninstalled"
    BY <1>3 DEF Ended
  <2>2. placed \subseteq {SettingsPath}
    BY <1>3, <2>1 DEF OnePlanOnly, OnePlan, Concerns
  <2>3. ASSUME SettingsPath \in placed PROVE Represented(planned[1], settings)
    <3>1. planned # NoPlan
      BY <1>3, <2>3 DEF HooksStay, StaysFor, Merged
    <3>2. PICK v, r : planned = <<v, r>>
      BY <1>3, <3>1 DEF OnePlanOnly
    <3>3. Merged(v, settings)
      BY <1>3, <2>3, <3>2 DEF HooksStay, StaysFor
    <3>4. planned[1] = v
      BY <3>2
    <3>5. QED
      BY <3>3, <3>4 DEF Merged
  <2>4. QED
    BY <2>2, <2>3
<1>4. OnePlanOnly /\ HooksStay => UninstallLeavesSettings
  BY <1>3 DEF UninstallLeavesSettings
<1>5. QED
  BY <1>1, <1>2, <1>4, PTL DEF Spec

-----------------------------------------------------------------------------
(* A sequence of sequences, laid end to end.                               *)

\* Two sequences over one set.
LEMMA Joined ==
  ASSUME NEW U, NEW p \in Seq(U), NEW q \in Seq(U)
  PROVE  p \o q \in Seq(U) /\ ToSet(p \o q) = ToSet(p) \cup ToSet(q)
<1>1. IsSeq(p) /\ IsSeq(q)
  BY MemberSeq
<1>2. QED
  BY <1>1, JoinSeq, ConcatProperties

\* FlattenSeq is defined by recursion over the sequences: it exists for each number
\* of them, and has what they have.
LEMMA FlattenHolds ==
  ASSUME NEW U, NEW n \in Nat, NEW ss, ss = [i \in 1..n |-> ss[i]], \A i \in 1..n : ss[i] \in Seq(U)
  PROVE  FlattenSeq(ss) \in Seq(U) /\ ToSet(FlattenSeq(ss)) = UNION {ToSet(ss[i]) : i \in 1..n}
<1>1. IsSeq(ss) /\ Len(ss) = n
  BY IsSeqOf
<1>2. CASE n = 0
  <2>1. 1..n = {}
    BY <1>2
  <2>2. FlattenSeq(ss) = ss
    BY <1>1, <1>2 DEF FlattenSeq
  <2>3. DOMAIN ss = {} /\ ss = [i \in {} |-> ss[i]]
    BY <2>1
  <2>4. ss = <<>>
    BY <2>3
  <2>5. QED
    BY <2>1, <2>2, <2>4, NoneSeq, EmptySeq
<1> DEFINE Lays(h, k) == h = [i \in 1..k |-> IF i = 1 THEN ss[i] ELSE h[i-1] \o ss[i]]
<1>3. ASSUME NEW k \in Nat, \A m \in 0..(k-1) : \E h : Lays(h, m)
      PROVE  \E h : Lays(h, k)
  <2>1. CASE k = 0
    <3>1. PICK h : h = [i \in 1..k |-> ss[i]]
      OBVIOUS
    <3>2. 1..k = {}
      BY <2>1
    <3>3. Lays(h, k)
      BY <3>1, <3>2
    <3>4. QED
      BY <3>3
  <2>2. CASE k # 0
    <3>1. k - 1 \in 0..(k-1) /\ k - 1 \in Nat
      BY <2>2
    <3>2. PICK h : Lays(h, k - 1)
      BY <1>3, <3>1
    <3>3. PICK g : g = [i \in 1..k |-> IF i = 1 THEN ss[i] ELSE h[i-1] \o ss[i]]
      OBVIOUS
    <3>4. ASSUME NEW i \in 1..k PROVE g[i] = IF i = 1 THEN ss[i] ELSE g[i-1] \o ss[i]
      <4>1. CASE i = 1
        BY <3>3, <4>1
      <4>2. CASE i # 1
        <5>1. i - 1 \in 1..k /\ i - 1 \in 1..(k-1)
          BY <4>2
        <5>2. g[i-1] = IF i - 1 = 1 THEN ss[i-1] ELSE h[i-1-1] \o ss[i-1]
          BY <3>3, <5>1
        <5>3. h[i-1] = IF i - 1 = 1 THEN ss[i-1] ELSE h[i-1-1] \o ss[i-1]
          BY <3>2, <5>1
        <5>4. g[i] = h[i-1] \o ss[i]
          BY <3>3, <4>2
        <5>5. QED
          BY <5>2, <5>3, <5>4, <4>2
      <4>3. QED
        BY <4>1, <4>2
    <3>5. DOMAIN g = 1..k
      BY <3>3
    <3>6. Lays(g, k)
      BY <3>3, <3>4, <3>5
    <3>7. QED
      BY <3>6
  <2>3. QED
    BY <2>1, <2>2
<1> DEFINE Fails == {k \in Nat : ~\E h : Lays(h, k)}
<1>4. Fails = {}
  <2>1. ASSUME Fails # {} PROVE FALSE
    <3>1. PICK b \in Nat : b \in Fails
      BY <2>1
    <3>2. Fails \subseteq Nat
      OBVIOUS
    <3>3. PICK k \in Fails : \A m \in Fails : k <= m
      <4> HIDE DEF Fails
      <4>1. QED
        BY <3>1, <3>2, LeastNumber
    <3>4. k \in Nat /\ ~\E h : Lays(h, k)
      BY <3>3
    <3>5. ASSUME NEW m \in 0..(k-1) PROVE \E h : Lays(h, m)
      <4>1. m \in Nat /\ ~(k <= m)
        BY <3>4
      <4>2. m \notin Fails
        BY <3>3, <4>1
      <4>3. QED
        BY <4>1, <4>2
    <3>6. QED
      BY <1>3, <3>4, <3>5
  <2>2. QED
    BY <2>1
<1>5. \E h : Lays(h, n)
  BY <1>4
<1>6. PICK f : f = CHOOSE h : Lays(h, n)
  OBVIOUS
<1>7. Lays(f, n)
  <2> HIDE DEF Lays
  <2>1. QED
    BY <1>5, <1>6
<1>8. CASE n # 0
  <2>1. FlattenSeq(ss) = f[n]
    BY <1>1, <1>6, <1>8 DEF FlattenSeq
  <2> DEFINE Before(i) == UNION {ToSet(ss[j]) : j \in 1..i}
  <2> DEFINE Bad == {i \in 1..n : ~(f[i] \in Seq(U) /\ ToSet(f[i]) = Before(i))}
  <2>2. Bad = {}
    <3>1. ASSUME Bad # {} PROVE FALSE
      <4>1. Bad \subseteq Nat
        OBVIOUS
      <4>2. PICK b : b \in Bad
        BY <3>1
      <4>3. PICK k \in Bad : \A m \in Bad : k <= m
        <5> HIDE DEF Bad
        <5>1. QED
          BY <4>1, <4>2, LeastNumber
      <4>4. k \in 1..n /\ k \in Nat
        BY <4>3
      <4>5. f[k] = IF k = 1 THEN ss[k] ELSE f[k-1] \o ss[k]
        BY <1>7, <4>4
      <4>6. CASE k = 1
        <5>1. 1..k = {k}
          BY <4>6
        <5>2. Before(k) = ToSet(ss[k])
          BY <5>1
        <5>3. QED
          BY <4>3, <4>4, <4>5, <4>6, <5>2
      <4>7. CASE k # 1
        <5>1. k - 1 \in 1..n /\ ~(k <= k - 1)
          BY <4>4, <4>7
        <5>2. k - 1 \notin Bad
          BY <4>3, <5>1
        <5>3. f[k-1] \in Seq(U) /\ ToSet(f[k-1]) = Before(k-1)
          BY <5>1, <5>2
        <5>4. ss[k] \in Seq(U)
          BY <4>4
        <5>5. f[k] \in Seq(U) /\ ToSet(f[k]) = Before(k-1) \cup ToSet(ss[k])
          <6>1. PICK p, q : p = f[k-1] /\ q = ss[k]
            OBVIOUS
          <6>2. p \in Seq(U) /\ q \in Seq(U) /\ f[k] = p \o q
            BY <4>5, <4>7, <5>3, <5>4, <6>1
          <6>3. f[k] \in Seq(U) /\ ToSet(f[k]) = ToSet(p) \cup ToSet(q)
            BY <6>2, Joined
          <6>4. QED
            BY <5>3, <6>1, <6>3
        <5>6. 1..k = (1..(k-1)) \cup {k}
          BY <4>4
        <5>7. Before(k) = Before(k-1) \cup ToSet(ss[k])
          BY <5>6
        <5>8. QED
          BY <4>3, <5>5, <5>7
      <4>8. QED
        BY <4>6, <4>7
    <3>2. QED
      BY <3>1
  <2>3. n \in 1..n
    BY <1>8
  <2>4. QED
    BY <2>1, <2>2, <2>3
<1>9. QED
  BY <1>2, <1>8

\* A sequence over a set.
LEMMA SeqIs ==
  ASSUME NEW S, NEW q \in Seq(S)
  PROVE  /\ Len(q) \in Nat /\ DOMAIN q = 1..Len(q) /\ q = [i \in 1..Len(q) |-> q[i]]
         /\ \A i \in 1..Len(q) : q[i] \in S
         /\ ToSet(q) = {q[i] : i \in 1..Len(q)} /\ ToSet(q) \subseteq S
<1>1. Len(q) \in Nat /\ DOMAIN q = 1..Len(q) /\ \A i \in 1..Len(q) : q[i] \in S
  BY LenProperties, ElementOfSeq
<1>2. q = [i \in 1..Len(q) |-> q[i]]
  BY LenProperties, <1>1
<1>3. QED
  BY <1>1, <1>2 DEF ToSet

LEMMA Singles ==
  ASSUME NEW S, NEW x \in S
  PROVE  <<x>> \in Seq(S) /\ <<>> \in Seq(S)
BY SeqDef, EmptySeq

\* The members of a request that are not excluded.
LEMMA OnlyIs ==
  ASSUME NEW U, NEW q \in Seq(U), NEW S
  PROVE  Only(q, S) \in Seq(U \cap S)
<1>1. PICK n \in Nat : n = Len(q) /\ DOMAIN q = 1..n /\ \A i \in 1..n : q[i] \in U
  BY SeqIs
<1>2. PICK ss : ss = [i \in DOMAIN q |-> IF q[i] \in S THEN <<q[i]>> ELSE <<>>]
  OBVIOUS
<1>3. ss = [i \in 1..n |-> ss[i]]
  BY <1>1, <1>2
<1>4. ASSUME NEW i \in 1..n PROVE ss[i] \in Seq(U \cap S)
  <2>1. CASE q[i] \in S
    <3>1. q[i] \in U \cap S /\ ss[i] = <<q[i]>>
      BY <1>1, <1>2, <2>1
    <3>2. QED
      BY <3>1, Singles
  <2>2. CASE q[i] \notin S
    <3>1. ss[i] = <<>>
      BY <1>1, <1>2, <2>2
    <3>2. QED
      BY <3>1, EmptySeq
  <2>3. QED
    BY <2>1, <2>2
<1>5. FlattenSeq(ss) \in Seq(U \cap S)
  BY <1>3, <1>4, FlattenHolds
<1>6. QED
  BY <1>2, <1>5 DEF Only

\* Duplicates are dropped.
LEMMA DedupeIs ==
  ASSUME NEW U, NEW q \in Seq(U)
  PROVE  Dedupe(q) \in Seq(U)
<1>1. PICK n \in Nat : n = Len(q) /\ DOMAIN q = 1..n /\ \A i \in 1..n : q[i] \in U
  BY SeqIs
<1>2. PICK ss : ss = [i \in DOMAIN q |-> IF \E j \in DOMAIN q : j < i /\ q[j] = q[i] THEN <<>> ELSE <<q[i]>>]
  OBVIOUS
<1>3. ss = [i \in 1..n |-> ss[i]]
  BY <1>1, <1>2
<1>4. ASSUME NEW i \in 1..n PROVE ss[i] \in Seq(U)
  <2>1. q[i] \in U /\ (ss[i] = <<>> \/ ss[i] = <<q[i]>>)
    BY <1>1, <1>2
  <2>2. QED
    BY <2>1, Singles
<1>5. FlattenSeq(ss) \in Seq(U)
  BY <1>3, <1>4, FlattenHolds
<1>6. QED
  BY <1>2, <1>5 DEF Dedupe

\* What components or languages stand for.
LEMMA EachIs ==
  ASSUME NEW q \in Seq(STRING), NEW F, \A c \in ToSet(q) : F[c] \in Seq(Modules)
  PROVE  FlattenSeq([i \in DOMAIN q |-> F[q[i]]]) \in Seq(Modules)
<1>1. PICK n \in Nat : n = Len(q) /\ DOMAIN q = 1..n /\ \A i \in 1..n : q[i] \in ToSet(q)
  BY SeqIs
<1>2. PICK ss : ss = [i \in DOMAIN q |-> F[q[i]]]
  OBVIOUS
<1>3. ss = [i \in 1..n |-> ss[i]] /\ \A i \in 1..n : ss[i] \in Seq(Modules)
  BY <1>1, <1>2
<1>4. QED
  BY <1>2, <1>3, FlattenHolds

\* What a request asks for is known, and nothing of it is excluded.
LEMMA RootsAre ==
  ASSUME NEW r \in PlanRequests, ~Malformed(r)
  PROVE  /\ Excluded(r) \subseteq Modules
         /\ EffectiveRoots(r) \in Seq(Modules)
         /\ ToSet(EffectiveRoots(r)) \cap Excluded(r) = {}
<1>1. /\ r.target \in Targets
      /\ r.modules \in Seq(STRING) /\ r.languages \in Seq(STRING)
      /\ r.include \in Seq(STRING) /\ r.exclude \in Seq(STRING)
  BY PlanAssumption
<1>2. /\ r.profile # None => r.profile \in DOMAIN Profiles
      /\ ToSet(r.modules) \subseteq Modules
      /\ ToSet(r.include) \cup ToSet(r.exclude) \subseteq DOMAIN Components
      /\ ToSet(r.languages) \subseteq DOMAIN LanguageExtra
  BY DEF Malformed
<1>3. Expand(r.include) \in Seq(Modules) /\ Expand(r.exclude) \in Seq(Modules)
  <2>1. \A c \in ToSet(r.include) : Components[c] \in Seq(Modules)
    BY <1>2, PlanAssumption
  <2>2. \A c \in ToSet(r.exclude) : Components[c] \in Seq(Modules)
    BY <1>2, PlanAssumption
  <2>3. QED
    BY <1>1, <2>1, <2>2, EachIs DEF Expand
<1>4. FlattenSeq([i \in DOMAIN r.languages |-> LanguageExtra[r.languages[i]]]) \in Seq(Modules)
  <2>1. \A c \in ToSet(r.languages) : LanguageExtra[c] \in Seq(Modules)
    BY <1>2, PlanAssumption
  <2>2. QED
    BY <1>1, <2>1, EachIs
<1>5. LegacySelection(r) \in Seq(Modules)
  <2>1. BaseModules[r.target] \in Seq(Modules) /\ <<>> \in Seq(Modules)
    BY <1>1, PlanAssumption, EmptySeq
  <2>2. QED
    BY <1>4, <2>1, Joined DEF LegacySelection
<1>6. r.modules \in Seq(Modules)
  <2>1. PICK q : q = r.modules
    OBVIOUS
  <2>6. q \in Seq(STRING)
    BY <1>1, <2>1
  <2>5. /\ Len(q) \in Nat /\ q = [i \in 1..Len(q) |-> q[i]]
        /\ ToSet(q) = {q[i] : i \in 1..Len(q)}
    BY <2>6, SeqIs
  <2>2. Len(q) \in Nat /\ q = [i \in 1..Len(q) |-> q[i]] /\ \A i \in 1..Len(q) : q[i] \in Modules
    BY <1>2, <2>1, <2>5
  <2>3. q \in [1..Len(q) -> Modules]
    BY <2>2
  <2>4. QED
    BY <2>1, <2>2, <2>3, SeqDef
<1>7. Requested(r) \in Seq(Modules)
  <2>1. PICK p : p = IF r.profile = None THEN <<>> ELSE Profiles[r.profile]
    OBVIOUS
  <2>2. p \in Seq(Modules)
    BY <1>2, <2>1, PlanAssumption, EmptySeq
  <2>3. p \o r.modules \o Expand(r.include) \in Seq(Modules)
    BY <1>3, <1>6, <2>2, Joined
  <2>4. QED
    BY <1>5, <2>1, <2>3 DEF Requested
<1>8. EffectiveRoots(r) \in Seq(Modules \cap (Modules \ Excluded(r)))
  BY <1>7, OnlyIs, DedupeIs DEF EffectiveRoots
<1>9. ToSet(EffectiveRoots(r)) \subseteq Modules \cap (Modules \ Excluded(r))
  BY <1>8, SeqIs
<1>10. EffectiveRoots(r) \in Seq(Modules)
  BY <1>8, SeqIs, SeqDef
<1>11. Excluded(r) \subseteq Modules
  BY <1>3, SeqIs DEF Excluded
<1>12. QED
  BY <1>9, <1>10, <1>11

-----------------------------------------------------------------------------
(* What a module needs.                                                    *)

Deps(m) == ToSet(manifest[m].deps)
Closed(S) == \A x \in S : Deps(x) \subseteq S

LEMMA ManifestIs ==
  ASSUME manifest \in Manifests, NEW m \in Modules
  PROVE  /\ manifest[m].deps \in Seq(Modules) /\ manifest[m].targets \subseteq Targets
         /\ Deps(m) \subseteq Modules
<1>1. manifest[m] \in [deps : Seq(Modules), targets : SUBSET Targets, paths : Seq(STRING)]
  BY PlanAssumption DEF Manifest
<1>2. manifest[m].deps \in Seq(Modules) /\ manifest[m].targets \subseteq Targets
  BY <1>1
<1>3. QED
  BY <1>2, SeqIs DEF Deps

LEMMA NeedsAre ==
  \A m : Needs(m) = {n \in Modules : \A S \in SUBSET Modules : m \in S /\ Closed(S) => n \in S}
BY DEF Needs, Closed, Deps

LEMMA NeedsSelf ==
  ASSUME NEW m \in Modules
  PROVE  m \in Needs(m) /\ Needs(m) \subseteq Modules
BY NeedsAre

\* What a module needs is in every closed set that has the module.
LEMMA NeedsWithin ==
  ASSUME NEW S \in SUBSET Modules, Closed(S), NEW m \in S
  PROVE  Needs(m) \subseteq S
BY NeedsAre

LEMMA NeedsClosed ==
  ASSUME manifest \in Manifests, NEW m \in Modules
  PROVE  Closed(Needs(m))
<1>1. SUFFICES ASSUME NEW x \in Needs(m), NEW d \in Deps(x) PROVE d \in Needs(m)
  BY DEF Closed
<1>2. x \in Modules /\ d \in Modules
  BY ManifestIs, NeedsAre
<1>3. ASSUME NEW S \in SUBSET Modules, m \in S, Closed(S) PROVE d \in S
  <2>1. x \in S
    BY <1>3, NeedsAre
  <2>2. QED
    BY <1>3, <2>1 DEF Closed
<1>4. QED
  BY <1>2, <1>3, NeedsAre

LEMMA NeedsTrans ==
  ASSUME manifest \in Manifests, NEW m \in Modules, NEW n \in Needs(m)
  PROVE  Needs(n) \subseteq Needs(m) /\ n \in Modules /\ Deps(n) \subseteq Needs(m)
<1>1. Closed(Needs(m)) /\ Needs(m) \in SUBSET Modules
  BY NeedsClosed, NeedsSelf
<1>2. Needs(n) \subseteq Needs(m)
  BY <1>1, NeedsWithin
<1>3. QED
  BY <1>1, <1>2 DEF Closed

\* The walk changes neither the manifest nor the request.
LEMMA Steady ==
  ASSUME UNCHANGED <<manifest, request>>
  PROVE  /\ \A m : Supports(m)' = Supports(m) /\ Deps(m)' = Deps(m)
         /\ \A m : Needs(m)' = Needs(m)
BY DEF Supports, Deps, Needs

-----------------------------------------------------------------------------
(* The stack of calls.                                                     *)

\* A call begins.
LEMMA Pushed ==
  ASSUME NEW S, NEW q \in Seq(S), NEW x \in S
  PROVE  /\ <<x>> \o q \in Seq(S) /\ Len(<<x>> \o q) = Len(q) + 1 /\ Len(q) \in Nat
         /\ (<<x>> \o q)[1] = x /\ \A i \in 1..Len(q) : (<<x>> \o q)[i + 1] = q[i]
         /\ <<x>> \o q # <<>> /\ Head(<<x>> \o q) = x
<1>1. <<x>> \in Seq(S) /\ Len(<<x>>) = 1 /\ <<x>>[1] = x
  BY SeqDef
<1>2. PICK n \in Nat : n = Len(q)
  BY LenProperties
<1>3. PICK c : c = <<x>> \o q
  OBVIOUS
<1>4. /\ c \in Seq(S) /\ Len(c) = 1 + n
      /\ \A i \in 1..(1 + n) : c[i] = IF i <= 1 THEN <<x>>[i] ELSE q[i - 1]
  BY <1>1, <1>2, <1>3, ConcatProperties
<1>5. c[1] = x
  BY <1>1, <1>4
<1>6. ASSUME NEW i \in 1..n PROVE c[i + 1] = q[i]
  <2>1. i + 1 \in 1..(1 + n) /\ ~(i + 1 <= 1) /\ i + 1 - 1 = i
    OBVIOUS
  <2>2. PICK k \in 1..(1 + n) : k = i + 1
    BY <2>1
  <2>3. QED
    BY <1>4, <2>1, <2>2
<1>7. c # <<>>
  BY <1>4, EmptySeq
<1>8. Head(c) = x
  BY <1>4, <1>5, <1>7, HeadTailProperties
<1>9. QED
  BY <1>2, <1>3, <1>4, <1>5, <1>6, <1>7, <1>8

\* A call returns.
LEMMA Popped ==
  ASSUME NEW S, NEW q \in Seq(S), q # <<>>
  PROVE  /\ Tail(q) \in Seq(S) /\ Len(q) \in Nat \ {0} /\ Len(Tail(q)) = Len(q) - 1 /\ Head(q) = q[1]
         /\ \A i \in 1..(Len(q) - 1) : Tail(q)[i] = q[i + 1]
         /\ Tail(q) = <<>> <=> Len(q) = 1
<1>1. PICK t, n : t = Tail(q) /\ n = Len(q)
  OBVIOUS
<1>2. /\ t \in Seq(S) /\ Len(t) = n - 1 /\ n \in Nat /\ n >= 1 /\ Head(q) = q[1]
      /\ \A i \in 1..(n - 1) : t[i] = q[i + 1]
  BY <1>1, HeadTailProperties, LenProperties, EmptySeq
<1>3. t = <<>> <=> n = 1
  BY <1>2, EmptySeq
<1>4. QED
  BY <1>1, <1>2, <1>3

-----------------------------------------------------------------------------
(* The walk.                                                               *)

Asked == ToSet(EffectiveRoots(request))
Broken(m) == \E n \in Needs(m) : ~Supports(n)
DepsOf(f) == manifest[f.module].deps

WalkShape ==
  /\ manifest \in Manifests /\ request \in PlanRequests
  /\ roots \in Seq(Modules) /\ stack \in Seq(Frame)
  /\ excluded \subseteq Modules /\ selected \subseteq Modules /\ skipped \subseteq Modules
  /\ phase = "asked" => roots = <<>> /\ stack = <<>> /\ selected = {} /\ skipped = {} /\ operations = {}
  /\ phase = "planned" /\ ~request.legacy => stack = <<>> /\ roots = <<>>

\* a selected module and what it needs are all there, and it is in no cycle
SelectedOK(m) ==
  /\ Supports(m) /\ m \notin excluded /\ Deps(m) \subseteq selected
  /\ \A d \in Deps(m) : m \notin Needs(d)
  /\ \E r \in Asked : m \in Needs(r)

\* a call in progress: the dependencies it is done with are selected
FrameOK(f) ==
  /\ Supports(f.module) /\ f.module \notin selected /\ f.module \notin excluded
  /\ f.module \in Needs(Root)
  /\ f.done <= Len(DepsOf(f))
  /\ \A j \in 1..f.done : DepsOf(f)[j] \in selected

\* the outer call waits for the inner one
CallsOK(inner, outer) ==
  outer.done < Len(DepsOf(outer)) /\ DepsOf(outer)[outer.done + 1] = inner.module

StackOK ==
  /\ \A i \in 1..Len(stack) : FrameOK(stack[i])
  /\ \A i \in 1..(Len(stack) - 1) : CallsOK(stack[i], stack[i + 1])
  /\ \A i, j \in 1..Len(stack) : stack[i].module = stack[j].module => i = j
  /\ stack # <<>> => Root \in Asked

VerdictOK ==
  stack # <<>> /\ verdict # "none" =>
    /\ Head(stack).done < Len(DepsOf(Head(stack)))
    /\ verdict = "yes" => Dependency \in selected
    /\ verdict # "yes" => Broken(Dependency)

AskedOK ==
  /\ Asked \subseteq Modules \ excluded
  /\ ToSet(roots) \subseteq Asked
  /\ skipped \subseteq Asked /\ \A r \in skipped : Broken(r)
  /\ \A r \in Asked : r \in ToSet(roots) \cup selected \cup skipped \/ (stack # <<>> /\ r = Root)

WalkOK == (\A m \in selected : SelectedOK(m)) /\ StackOK /\ VerdictOK /\ AskedOK
WalkInv == WalkShape /\ (phase \in {"resolving", "planned"} /\ ~request.legacy => WalkOK)

LEMMA SteadyWalk ==
  ASSUME UNCHANGED <<manifest, request>>
  PROVE  /\ \A m : Supports(m)' = Supports(m) /\ Deps(m)' = Deps(m) /\ Needs(m)' = Needs(m)
         /\ \A m : Broken(m)' <=> Broken(m)
         /\ \A f : DepsOf(f)' = DepsOf(f)
         /\ Asked' = Asked
BY DEF Supports, Deps, Needs, Broken, DepsOf, Asked

LEMMA FrameIs ==
  ASSUME NEW f \in Frame, manifest \in Manifests
  PROVE  /\ f.module \in Modules /\ f.done \in Nat
         /\ DepsOf(f) \in Seq(Modules) /\ Len(DepsOf(f)) \in Nat
         /\ Deps(f.module) = {DepsOf(f)[j] : j \in 1..Len(DepsOf(f))}
<1>1. f.module \in Modules /\ f.done \in Nat
  BY DEF Frame
<1>2. DepsOf(f) \in Seq(Modules)
  BY <1>1, ManifestIs DEF DepsOf
<1>3. Deps(f.module) = ToSet(DepsOf(f))
  BY DEF Deps, DepsOf
<1>4. QED
  BY <1>1, <1>2, <1>3, SeqIs

\* The innermost call, and the outermost, which is of the root.
LEMMA CallsAre ==
  ASSUME WalkShape, stack # <<>>
  PROVE  /\ Len(stack) \in Nat \ {0} /\ Head(stack) = stack[1] /\ Root = stack[Len(stack)].module
         /\ \A i \in 1..Len(stack) : stack[i] \in Frame
         /\ Head(stack) \in Frame
         /\ Dependency = DepsOf(Head(stack))[Head(stack).done + 1]
<1>1. stack \in Seq(Frame)
  BY DEF WalkShape
<1>2. Len(stack) \in Nat \ {0} /\ Head(stack) = stack[1]
  BY <1>1, Popped
<1>3. \A i \in 1..Len(stack) : stack[i] \in Frame
  BY <1>1, SeqIs
<1>4. 1 \in 1..Len(stack)
  BY <1>2
<1>5. QED
  BY <1>2, <1>3, <1>4 DEF Root, Dependency, DepsOf

LEMMA PushedOn ==
  ASSUME NEW q \in Seq(Frame), NEW x \in Frame
  PROVE  (<<x>> \o q)[Len(<<x>> \o q)] = IF q = <<>> THEN x ELSE q[Len(q)]
<1>1. PICK c, n : c = <<x>> \o q /\ n = Len(q)
  OBVIOUS
<1>2. /\ Len(c) = n + 1 /\ n \in Nat /\ c[1] = x /\ \A i \in 1..n : c[i + 1] = q[i]
  BY <1>1, Pushed
<1>3. q = <<>> <=> n = 0
  BY <1>1, EmptySeq
<1>4. CASE n = 0
  BY <1>1, <1>2, <1>3, <1>4
<1>5. CASE n # 0
  <2>1. n \in 1..n
    BY <1>2, <1>5
  <2>2. c[n + 1] = q[n]
    BY <1>2, <2>1
  <2>3. QED
    BY <1>1, <1>2, <1>3, <1>5, <2>2
<1>6. QED
  BY <1>4, <1>5

\* The innermost call is done with one more dependency.
LEMMA Counted ==
  ASSUME NEW q \in Seq(Frame), q # <<>>, NEW c, c = [q EXCEPT ![1].done = @ + 1]
  PROVE  /\ c \in Seq(Frame) /\ Len(c) = Len(q) /\ c # <<>>
         /\ c[1].module = q[1].module /\ c[1].done = q[1].done + 1
         /\ \A i \in 1..Len(q) : i # 1 => c[i] = q[i]
<1>1. /\ Len(q) \in Nat \ {0} /\ DOMAIN q = 1..Len(q) /\ \A i \in 1..Len(q) : q[i] \in Frame
  BY Popped, SeqIs
<1>2. PICK f : f = [q[1] EXCEPT !.done = @ + 1]
  OBVIOUS
<1>3. 1 \in 1..Len(q) /\ q[1] \in Frame
  BY <1>1
<1>4. f \in Frame /\ f.module = q[1].module /\ f.done = q[1].done + 1
  BY <1>2, <1>3 DEF Frame
<1>5. c = [q EXCEPT ![1] = f]
  BY <1>2
<1>6. DOMAIN c = 1..Len(q) /\ c[1] = f /\ \A i \in 1..Len(q) : i # 1 => c[i] = q[i]
  BY <1>1, <1>3, <1>5
<1>7. c \in [1..Len(q) -> Frame]
  <2>1. c = [i \in 1..Len(q) |-> c[i]]
    BY <1>1, <1>5
  <2>2. \A i \in 1..Len(q) : c[i] \in Frame
    BY <1>1, <1>4, <1>6
  <2>3. QED
    BY <2>1, <2>2
<1>8. c \in Seq(Frame) /\ Len(c) = Len(q)
  BY <1>1, <1>7, SeqDef, LenProperties
<1>9. c # <<>>
  BY <1>1, <1>8, EmptySeq
<1>10. QED
  BY <1>4, <1>6, <1>8, <1>9

LEMMA CallShape ==
  ASSUME WalkShape, NEW m \in Modules, NEW root \in Modules, Call(m, root)
  PROVE  stack' \in Seq(Frame) /\ skipped' \subseteq Modules
<1>1. stack \in Seq(Frame) /\ skipped \subseteq Modules
  BY DEF WalkShape
<1>2. [module |-> m, done |-> 0] \in Frame
  BY DEF Frame
<1>3. <<[module |-> m, done |-> 0]>> \o stack \in Seq(Frame)
  BY <1>1, <1>2, Pushed
<1>4. QED
  BY <1>1, <1>3 DEF Call

\* The dependency visited next, and the root it is visited for.
LEMMA NextIs ==
  ASSUME WalkShape, HasDependency
  PROVE  /\ stack # <<>> /\ Dependency \in Deps(Head(stack).module) /\ Dependency \in Modules
         /\ Root \in Modules /\ Head(stack).module \in Modules
         /\ Head(stack).done < Len(DepsOf(Head(stack)))
<1>1. stack # <<>> /\ Head(stack).done < Len(DepsOf(Head(stack)))
  BY DEF HasDependency, DepsOf
<1>2. manifest \in Manifests
  BY DEF WalkShape
<1>3. PICK f : f = Head(stack)
  OBVIOUS
<1>4. /\ f \in Frame /\ Dependency = DepsOf(f)[f.done + 1]
      /\ stack[Len(stack)] \in Frame /\ Root = stack[Len(stack)].module
  BY <1>1, <1>3, CallsAre
<1>5. /\ f.module \in Modules /\ f.done \in Nat /\ Len(DepsOf(f)) \in Nat
      /\ Deps(f.module) = {DepsOf(f)[j] : j \in 1..Len(DepsOf(f))}
  BY <1>2, <1>4, FrameIs
<1>6. f.done + 1 \in 1..Len(DepsOf(f))
  BY <1>1, <1>3, <1>5
<1>7. Dependency \in Deps(f.module)
  BY <1>4, <1>5, <1>6
<1>8. Dependency \in Modules /\ Root \in Modules
  BY <1>2, <1>4, <1>5, <1>7, FrameIs, ManifestIs
<1>9. QED
  BY <1>1, <1>3, <1>5, <1>7, <1>8

LEMMA ShapeBegins == PlanInit => WalkShape
BY EmptySeq DEF PlanInit, WalkShape

LEMMA ShapeStep == WalkShape /\ [PlanNext]_planVars => WalkShape'
<1> SUFFICES ASSUME WalkShape, [PlanNext]_planVars PROVE WalkShape'
  OBVIOUS
<1> USE DEF WalkShape
<1>1. CASE RefuseRequest
  BY <1>1 DEF RefuseRequest, RefusePlan, walk
<1>2. CASE Accept
  <2>1. Excluded(request) \subseteq Modules /\ EffectiveRoots(request) \in Seq(Modules)
    BY <1>2, RootsAre DEF Accept
  <2>2. QED
    BY <1>2, <2>1 DEF Accept
<1>3. CASE PlanLegacy
  BY <1>3 DEF PlanLegacy, walk
<1>4. CASE VisitRoot
  <2>1. roots # <<>> /\ roots \in Seq(Modules)
    BY <1>4 DEF VisitRoot
  <2>2. Head(roots) \in Modules /\ Tail(roots) \in Seq(Modules)
    BY <2>1, HeadTailProperties
  <2>3. stack' \in Seq(Frame) /\ skipped' \subseteq Modules
    BY <1>4, <2>2, CallShape DEF VisitRoot
  <2>4. QED
    BY <1>4, <2>2, <2>3 DEF VisitRoot
<1>5. CASE VisitDependency
  <2>1. Dependency \in Modules /\ Root \in Modules
    BY <1>5, NextIs DEF VisitDependency
  <2>2. stack' \in Seq(Frame) /\ skipped' \subseteq Modules
    BY <1>5, <2>1, CallShape DEF VisitDependency
  <2>3. QED
    BY <1>5, <2>2 DEF VisitDependency, HasDependency
<1>6. CASE RefuseDependency
  BY <1>6 DEF RefuseDependency, RefusePlan, walk
<1>7. CASE NextDependency
  <2>1. stack' \in Seq(Frame)
    BY <1>7, Counted DEF NextDependency
  <2>2. QED
    BY <1>7, <2>1 DEF NextDependency
<1>8. CASE Resolved
  <2>1. Tail(stack) \in Seq(Frame)
    BY <1>8, Popped DEF Resolved
  <2>2. Head(stack) \in Frame
    BY <1>8, CallsAre DEF Resolved
  <2>3. Head(stack).module \in Modules
    BY <2>2, FrameIs
  <2>4. QED
    BY <1>8, <2>1, <2>3 DEF Resolved
<1>9. CASE Unresolved
  <2>1. Tail(stack) \in Seq(Frame)
    BY <1>9, Popped DEF Unresolved
  <2>2. stack[Len(stack)] \in Frame /\ Root = stack[Len(stack)].module
    BY <1>9, CallsAre DEF Unresolved
  <2>3. Root \in Modules
    BY <2>2, FrameIs
  <2>4. QED
    BY <1>9, <2>1, <2>3 DEF Unresolved
<1>10. CASE Plan
  BY <1>10 DEF Plan, walk
<1>11. CASE UNCHANGED planVars
  BY <1>11 DEF planVars
<1>12. QED
  BY <1>1, <1>2, <1>3, <1>4, <1>5, <1>6, <1>7, <1>8, <1>9, <1>10, <1>11 DEF PlanNext

LEMMA SelectedSame ==
  ASSUME UNCHANGED <<manifest, request, excluded, selected>>, \A m \in selected : SelectedOK(m)
  PROVE  (\A m \in selected : SelectedOK(m))'
BY SteadyWalk DEF SelectedOK

LEMMA NoCallsOK ==
  ASSUME stack' = <<>>
  PROVE  StackOK' /\ VerdictOK'
<1>1. Len(<<>>) = 0 /\ 1..0 = {} /\ 1..(0 - 1) = {}
  BY EmptySeq
<1>2. StackOK'
  BY <1>1 DEF StackOK
<1>3. QED
  BY <1>2 DEF VerdictOK

LEMMA FrameMoves ==
  ASSUME UNCHANGED <<manifest, request, excluded>>, Root' = Root, selected \subseteq selected',
         NEW f, FrameOK(f), f.module \notin selected'
  PROVE  FrameOK(f)'
BY SteadyWalk DEF FrameOK

LEMMA CallsMove ==
  ASSUME UNCHANGED <<manifest, request>>, NEW f, NEW g, CallsOK(f, g)
  PROVE  CallsOK(f, g)'
BY SteadyWalk DEF CallsOK

\* A call begins for a module that is supported, not selected and not being visited.
LEMMA PushOK ==
  ASSUME WalkShape, StackOK, NEW m \in Modules, Supports(m), m \notin selected, m \notin excluded,
         \A i \in 1..Len(stack) : stack[i].module # m,
         stack' = <<[module |-> m, done |-> 0]>> \o stack, verdict' = "none",
         UNCHANGED <<manifest, request, excluded, selected>>,
         stack = <<>> => m \in Asked,
         stack # <<>> => HasDependency /\ m = Dependency
  PROVE  /\ StackOK' /\ VerdictOK' /\ stack' # <<>>
         /\ Root' = IF stack = <<>> THEN m ELSE Root
<1>1. PICK f : f = [module |-> m, done |-> 0]
  OBVIOUS
<1>2. f \in Frame /\ f.module = m /\ f.done = 0 /\ stack \in Seq(Frame) /\ manifest \in Manifests
  BY <1>1 DEF Frame, WalkShape
<1>3. PICK n : n = Len(stack)
  OBVIOUS
<1>4. /\ n \in Nat /\ Len(stack') = n + 1 /\ stack'[1] = f /\ \A i \in 1..n : stack'[i + 1] = stack[i]
      /\ stack' # <<>> /\ stack' = <<f>> \o stack
  BY <1>1, <1>2, <1>3, Pushed
<1>5. stack'[Len(stack')] = IF stack = <<>> THEN f ELSE stack[n]
  BY <1>2, <1>3, <1>4, PushedOn
<1>6. Root' = IF stack = <<>> THEN m ELSE Root
  BY <1>2, <1>3, <1>5 DEF Root
<1>7. stack = <<>> <=> n = 0
  BY <1>2, <1>3, EmptySeq
<1>8. \A k \in 1..(n + 1) : k = 1 \/ \E i \in 1..n : k = i + 1
  <2>1. SUFFICES ASSUME NEW k \in 1..(n + 1), k # 1 PROVE \E i \in 1..n : k = i + 1
    OBVIOUS
  <2>2. k - 1 \in 1..n /\ k = (k - 1) + 1
    BY <1>4, <2>1
  <2>3. QED
    BY <2>2
<1>9. m \in Needs(Root)'
  <2>1. CASE stack = <<>>
    <3>1. Needs(Root)' = Needs(m)
      BY <1>6, <2>1, SteadyWalk
    <3>2. QED
      BY <3>1, NeedsSelf
  <2>2. CASE stack # <<>>
    <3>1. Needs(Root)' = Needs(Root)
      BY <1>6, <2>2, SteadyWalk
    <3>2. m \in Deps(Head(stack).module) /\ Root \in Modules
      BY <2>2, NextIs
    <3>3. Head(stack) = stack[1] /\ 1 \in 1..n
      BY <1>4, <1>7, <2>2, CallsAre
    <3>4. Head(stack).module \in Needs(Root)
      BY <1>3, <3>3 DEF StackOK, FrameOK
    <3>5. m \in Needs(Root)
      BY <1>2, <3>2, <3>4, NeedsTrans
    <3>6. QED
      BY <3>1, <3>5
  <2>3. QED
    BY <2>1, <2>2
<1>10. FrameOK(f)'
  <2>1. DepsOf(f)' = DepsOf(f) /\ Supports(m)' /\ Len(DepsOf(f)) \in Nat
    BY <1>2, FrameIs, SteadyWalk
  <2>2. 1..0 = {}
    OBVIOUS
  <2>3. QED
    BY <1>2, <1>9, <2>1, <2>2 DEF FrameOK
<1>11. ASSUME NEW i \in 1..n, NEW g, g = stack[i] PROVE FrameOK(g)'
  <2>1. stack # <<>> /\ Root' = Root
    BY <1>4, <1>6, <1>7
  <2>2. FrameOK(g) /\ g.module \notin selected'
    BY <1>3, <1>11 DEF StackOK, FrameOK
  <2>3. QED
    BY <2>1, <2>2, FrameMoves
<1>12. ASSUME NEW k \in 1..(n + 1), NEW g, g = stack'[k] PROVE FrameOK(g)'
  <2>1. CASE k = 1
    BY <1>4, <1>10, <1>12, <2>1
  <2>2. CASE \E i \in 1..n : k = i + 1
    <3>1. PICK i \in 1..n : k = i + 1
      BY <2>2
    <3>2. g = stack[i]
      BY <1>4, <1>12, <3>1
    <3>3. QED
      BY <3>2, <1>11
  <2>3. QED
    BY <1>8, <2>1, <2>2
<1>13. ASSUME NEW k \in 1..n, NEW g, NEW h, g = stack'[k], h = stack'[k + 1] PROVE CallsOK(g, h)'
  <2>1. CASE k = 1
    <3>1. h = stack[1] /\ g = f /\ stack # <<>> /\ n >= 1
      BY <1>4, <1>7, <1>13, <2>1
    <3>2. h = Head(stack) /\ h.done < Len(DepsOf(h)) /\ m = DepsOf(h)[h.done + 1]
      BY <3>1, NextIs, CallsAre
    <3>3. CallsOK(g, h)
      BY <1>2, <3>1, <3>2 DEF CallsOK
    <3>4. QED
      BY <3>3, CallsMove
  <2>2. CASE k # 1
    <3>1. PICK i \in 1..n : k = i + 1
      BY <1>4, <1>8, <2>2
    <3>2. i \in 1..(n - 1) /\ i + 1 \in 1..n
      BY <1>4, <3>1
    <3>3. g = stack[i] /\ h = stack[i + 1]
      <4>1. g = stack'[i + 1] /\ h = stack'[(i + 1) + 1]
        BY <1>13, <3>1
      <4>2. PICK j \in 1..n : j = i + 1
        BY <3>2
      <4>3. QED
        BY <1>4, <4>1, <4>2
    <3>4. CallsOK(g, h)
      BY <1>3, <3>2, <3>3 DEF StackOK
    <3>5. QED
      BY <3>4, CallsMove
  <2>3. QED
    BY <2>1, <2>2
<1>14. ASSUME NEW k \in 1..(n + 1), NEW l \in 1..(n + 1), stack'[k].module = stack'[l].module PROVE k = l
  <2>1. \A i \in 1..n : stack[i].module # m
    BY <1>3
  <2>2. \A i, j \in 1..n : stack[i].module = stack[j].module => i = j
    BY <1>3 DEF StackOK
  <2>3. ASSUME NEW i \in 1..n PROVE stack'[i + 1].module = stack[i].module
    BY <1>4
  <2>4. QED
    BY <1>2, <1>4, <1>8, <1>14, <2>1, <2>2
<1>15. stack' # <<>> => Root' \in Asked'
  <2>1. stack # <<>> => Root \in Asked
    BY DEF StackOK
  <2>2. Asked' = Asked
    BY SteadyWalk
  <2>3. QED
    BY <1>6, <2>1, <2>2
<1>16. StackOK'
  <2>1. Len(stack') = n + 1 /\ Len(stack') - 1 = n
    BY <1>4
  <2>2. \A i \in 1..Len(stack') : FrameOK(stack[i])'
    BY <1>12, <2>1 DEF FrameOK
  <2>3. \A i \in 1..(Len(stack') - 1) : CallsOK(stack[i], stack[i + 1])'
    <3>1. SUFFICES ASSUME NEW i \in 1..n PROVE CallsOK(stack[i], stack[i + 1])'
      BY <2>1
    <3>2. PICK g, h : g = stack'[i] /\ h = stack'[i + 1]
      OBVIOUS
    <3>3. CallsOK(g, h)'
      BY <1>13, <3>2
    <3>4. QED
      BY <3>2, <3>3 DEF CallsOK
  <2>4. \A i, j \in 1..Len(stack') : stack'[i].module = stack'[j].module => i = j
    BY <1>14, <2>1
  <2>5. QED
    BY <1>15, <2>2, <2>3, <2>4 DEF StackOK
<1>17. VerdictOK'
  BY DEF VerdictOK
<1>18. QED
  BY <1>4, <1>6, <1>16, <1>17

\* The innermost call returns: the next one was waiting for its module.
LEMMA PopOK ==
  ASSUME WalkShape, StackOK, stack # <<>>, stack' = Tail(stack),
         UNCHANGED <<manifest, request, excluded>>,
         selected \subseteq selected', selected' \subseteq selected \cup {Head(stack).module}
  PROVE  /\ StackOK'
         /\ stack' = <<>> => Root = Head(stack).module
         /\ stack' # <<>> =>
              /\ Root' = Root /\ Dependency' = Head(stack).module
              /\ Head(stack').done < Len(DepsOf(Head(stack')))
<1>1. PICK n : n = Len(stack)
  OBVIOUS
<1>2. stack \in Seq(Frame) /\ manifest \in Manifests
  BY DEF WalkShape
<1>3. /\ n \in Nat \ {0} /\ stack' \in Seq(Frame) /\ Len(stack') = n - 1 /\ Head(stack) = stack[1]
      /\ \A i \in 1..(n - 1) : stack'[i] = stack[i + 1]
      /\ stack' = <<>> <=> n = 1
  BY <1>1, <1>2, Popped
<1>4. Root = stack[n].module /\ \A i \in 1..n : stack[i] \in Frame
  BY <1>1, CallsAre
<1>5. stack' # <<>> => Root' = Root
  <2>1. SUFFICES ASSUME stack' # <<>> PROVE Root' = Root
    OBVIOUS
  <2>2. n - 1 \in 1..(n - 1)
    BY <1>3, <2>1
  <2>3. stack'[n - 1] = stack[n]
    BY <1>3, <2>2
  <2>4. QED
    BY <1>3, <1>4, <2>3 DEF Root
<1>6. stack' = <<>> => Root = Head(stack).module
  BY <1>3, <1>4
<1>7. stack' # <<>> => Head(stack') = stack[2] /\ 2 \in 1..n /\ 1 \in 1..(n - 1)
  <2>1. SUFFICES ASSUME stack' # <<>> PROVE Head(stack') = stack[2] /\ 2 \in 1..n /\ 1 \in 1..(n - 1)
    OBVIOUS
  <2>2. Head(stack') = stack'[1]
    BY <1>3, <2>1, Popped
  <2>3. 1 \in 1..(n - 1) /\ 2 \in 1..n
    BY <1>3, <2>1
  <2>4. stack'[1] = stack[2]
    BY <1>3, <2>3
  <2>5. QED
    BY <2>2, <2>3, <2>4
<1>8. stack' # <<>> =>
        /\ Dependency' = Head(stack).module
        /\ Head(stack').done < Len(DepsOf(Head(stack')))
  <2>1. SUFFICES ASSUME stack' # <<>>
                 PROVE  /\ Dependency' = Head(stack).module
                        /\ Head(stack').done < Len(DepsOf(Head(stack')))
    OBVIOUS
  <2>2. CallsOK(stack[1], stack[2])
    <3>1. \A i \in 1..(n - 1) : CallsOK(stack[i], stack[i + 1])
      BY <1>1 DEF StackOK
    <3>2. 1 \in 1..(n - 1) /\ 1 + 1 = 2
      BY <1>7, <2>1
    <3>3. QED
      BY <3>1, <3>2
  <2>3. PICK h : h = stack[2]
    OBVIOUS
  <2>4. h.done < Len(DepsOf(h)) /\ DepsOf(h)[h.done + 1] = Head(stack).module
    BY <1>3, <2>2, <2>3 DEF CallsOK
  <2>5. Dependency' = manifest[h.module].deps[h.done + 1]
    BY <1>7, <2>1, <2>3 DEF Dependency
  <2>6. QED
    BY <1>7, <2>1, <2>3, <2>4, <2>5 DEF DepsOf
<1>9. ASSUME NEW i \in 1..(n - 1), NEW g, g = stack'[i] PROVE FrameOK(g)'
  <2>1. i + 1 \in 1..n /\ i + 1 # 1 /\ 1 \in 1..n /\ n # 1
    BY <1>3
  <2>2. g = stack[i + 1]
    BY <1>3, <1>9
  <2>3. FrameOK(g)
    BY <1>1, <2>1, <2>2 DEF StackOK
  <2>4. g.module # stack[1].module
    BY <1>1, <2>1, <2>2 DEF StackOK
  <2>5. g.module \notin selected'
    BY <1>3, <2>3, <2>4 DEF FrameOK
  <2>6. Root' = Root
    BY <1>3, <1>5, <2>1
  <2>7. QED
    BY <2>3, <2>5, <2>6, FrameMoves
<1>10. ASSUME NEW i \in 1..(n - 1 - 1), NEW g, NEW h, g = stack'[i], h = stack'[i + 1] PROVE CallsOK(g, h)'
  <2>1. i \in 1..(n - 1) /\ i + 1 \in 1..(n - 1)
    BY <1>3
  <2>2. PICK j \in 1..(n - 1) : j = i + 1
    BY <2>1
  <2>3. g = stack[j] /\ h = stack[j + 1]
    BY <1>3, <1>10, <2>1, <2>2
  <2>4. CallsOK(g, h)
    BY <1>1, <2>2, <2>3 DEF StackOK
  <2>5. QED
    BY <2>4, CallsMove
<1>11. ASSUME NEW i \in 1..(n - 1), NEW j \in 1..(n - 1), stack'[i].module = stack'[j].module PROVE i = j
  <2>1. i + 1 \in 1..n /\ j + 1 \in 1..n
    BY <1>3
  <2>2. stack[i + 1].module = stack[j + 1].module
    BY <1>3, <1>11
  <2>3. i + 1 = j + 1
    BY <1>1, <2>1, <2>2 DEF StackOK
  <2>4. QED
    BY <2>3
<1>12. stack' # <<>> => Root' \in Asked'
  <2>1. Root \in Asked
    BY DEF StackOK
  <2>2. Asked' = Asked
    BY SteadyWalk
  <2>3. QED
    BY <1>5, <2>1, <2>2
<1>13. StackOK'
  <2>1. Len(stack') = n - 1
    BY <1>3
  <2>2. \A i \in 1..Len(stack') : FrameOK(stack[i])'
    BY <1>9, <2>1 DEF FrameOK
  <2>3. \A i \in 1..(Len(stack') - 1) : CallsOK(stack[i], stack[i + 1])'
    <3>1. SUFFICES ASSUME NEW i \in 1..(n - 1 - 1) PROVE CallsOK(stack[i], stack[i + 1])'
      BY <2>1
    <3>2. PICK g, h : g = stack'[i] /\ h = stack'[i + 1]
      OBVIOUS
    <3>3. CallsOK(g, h)'
      BY <1>10, <3>2
    <3>4. QED
      BY <3>2, <3>3 DEF CallsOK
  <2>4. \A i, j \in 1..Len(stack') : stack'[i].module = stack'[j].module => i = j
    BY <1>11, <2>1
  <2>5. QED
    BY <1>12, <2>2, <2>3, <2>4 DEF StackOK
<1>14. QED
  BY <1>5, <1>6, <1>8, <1>13

LEMMA NextDependencyOK ==
  ASSUME WalkShape, WalkOK, NextDependency
  PROVE  WalkOK'
<1>1. /\ stack # <<>> /\ stack' = [stack EXCEPT ![1].done = @ + 1] /\ verdict' = "none" /\ verdict = "yes"
      /\ UNCHANGED <<manifest, request, excluded, roots, selected, skipped>>
  BY DEF NextDependency
<1>2. PICK n, c : n = Len(stack) /\ c = stack'
  OBVIOUS
<1>3. stack \in Seq(Frame) /\ manifest \in Manifests
  BY DEF WalkShape
<1>4. /\ Len(c) = n /\ c # <<>> /\ c[1].module = stack[1].module /\ c[1].done = stack[1].done + 1
      /\ \A i \in 1..n : i # 1 => c[i] = stack[i]
  BY <1>1, <1>2, <1>3, Counted
<1>5. /\ n \in Nat \ {0} /\ Head(stack) = stack[1] /\ Root = stack[n].module
      /\ \A i \in 1..n : stack[i] \in Frame
      /\ Dependency = DepsOf(stack[1])[stack[1].done + 1]
  BY <1>1, <1>2, CallsAre
<1>6. Root' = Root
  <2>1. n = 1 \/ (n \in 1..n /\ n # 1)
    BY <1>5
  <2>2. c[n].module = stack[n].module
    BY <1>4, <2>1
  <2>3. QED
    BY <1>2, <1>4, <1>5, <2>2 DEF Root
<1>7. 1 \in 1..n /\ stack[1] \in Frame
  BY <1>5
<1>8. stack[1].done < Len(DepsOf(stack[1])) /\ Dependency \in selected
  BY <1>1, <1>5 DEF WalkOK, VerdictOK
<1>9. ASSUME NEW i \in 1..n, NEW g, g = c[i] PROVE FrameOK(g)'
  <2>1. FrameOK(stack[i])
    BY <1>2 DEF WalkOK, StackOK
  <2>2. CASE i # 1
    <3>1. g = stack[i]
      BY <1>4, <1>9, <2>2
    <3>2. FrameOK(g) /\ g.module \notin selected'
      BY <1>1, <2>1, <3>1 DEF FrameOK
    <3>3. QED
      BY <1>1, <1>6, <3>2, FrameMoves
  <2>3. CASE i = 1
    <3>1. PICK f : f = stack[1]
      OBVIOUS
    <3>2. FrameOK(f) /\ f \in Frame /\ g.module = f.module /\ g.done = f.done + 1
      BY <1>4, <1>7, <1>9, <2>1, <2>3, <3>1
    <3>3. f.done \in Nat /\ Len(DepsOf(f)) \in Nat /\ DepsOf(g) = DepsOf(f)
      BY <1>3, <3>2, FrameIs DEF DepsOf
    <3>4. g.done <= Len(DepsOf(g))
      BY <1>8, <3>1, <3>2, <3>3
    <3>5. \A j \in 1..g.done : DepsOf(g)[j] \in selected
      <4>1. \A j \in 1..f.done : DepsOf(f)[j] \in selected
        BY <3>2 DEF FrameOK
      <4>2. DepsOf(f)[f.done + 1] \in selected
        BY <1>5, <1>8, <3>1
      <4>3. \A j \in 1..(f.done + 1) : j \in 1..f.done \/ j = f.done + 1
        BY <3>3
      <4>4. QED
        BY <3>2, <3>3, <4>1, <4>2, <4>3
    <3>6. FrameOK(g) /\ g.module \notin selected'
      BY <1>1, <3>2, <3>4, <3>5 DEF FrameOK
    <3>7. QED
      BY <1>1, <1>6, <3>6, FrameMoves
  <2>4. QED
    BY <2>2, <2>3
<1>10. ASSUME NEW i \in 1..(n - 1), NEW g, NEW h, g = c[i], h = c[i + 1] PROVE CallsOK(g, h)'
  <2>1. i \in 1..n /\ i + 1 \in 1..n /\ i + 1 # 1
    BY <1>5
  <2>2. h = stack[i + 1] /\ g.module = stack[i].module
    BY <1>4, <1>10, <2>1
  <2>3. CallsOK(stack[i], h)
    BY <1>2, <2>2 DEF WalkOK, StackOK
  <2>4. CallsOK(g, h)
    BY <2>2, <2>3 DEF CallsOK
  <2>5. QED
    BY <1>1, <2>4, CallsMove
<1>11. \A i \in 1..n : c[i].module = stack[i].module
  BY <1>4
<1>12. StackOK'
  <2>1. Len(stack') = n /\ c = stack'
    BY <1>2, <1>4
  <2>2. \A i \in 1..Len(stack') : FrameOK(stack[i])'
    BY <1>9, <2>1 DEF FrameOK
  <2>3. \A i \in 1..(Len(stack') - 1) : CallsOK(stack[i], stack[i + 1])'
    <3>1. SUFFICES ASSUME NEW i \in 1..(n - 1) PROVE CallsOK(stack[i], stack[i + 1])'
      BY <2>1
    <3>2. PICK g, h : g = stack'[i] /\ h = stack'[i + 1]
      OBVIOUS
    <3>3. CallsOK(g, h)'
      BY <1>10, <2>1, <3>2
    <3>4. QED
      BY <3>2, <3>3 DEF CallsOK
  <2>4. \A i, j \in 1..Len(stack') : stack'[i].module = stack'[j].module => i = j
    <3>1. \A i, j \in 1..n : stack[i].module = stack[j].module => i = j
      BY <1>2 DEF WalkOK, StackOK
    <3>2. QED
      BY <1>11, <2>1, <3>1
  <2>5. stack' # <<>> => Root' \in Asked'
    BY <1>1, <1>6, SteadyWalk DEF WalkOK, StackOK
  <2>6. QED
    BY <2>2, <2>3, <2>4, <2>5 DEF StackOK
<1>13. VerdictOK'
  BY <1>1 DEF VerdictOK
<1>14. (\A m \in selected : SelectedOK(m))'
  BY <1>1, SelectedSame DEF WalkOK
<1>15. AskedOK'
  <2>1. AskedOK /\ c # <<>>
    BY <1>4 DEF WalkOK
  <2>2. QED
    BY <1>1, <1>2, <1>6, <2>1, SteadyWalk DEF AskedOK
<1>16. QED
  BY <1>12, <1>13, <1>14, <1>15 DEF WalkOK

LEMMA AcceptOK ==
  ASSUME WalkShape, Accept
  PROVE  WalkOK'
<1>1. /\ UNCHANGED <<manifest, request, stack, selected, skipped>>
      /\ stack = <<>> /\ selected = {} /\ skipped = {}
      /\ roots' = EffectiveRoots(request) /\ excluded' = Excluded(request)
  BY DEF Accept, WalkShape
<1>2. ~Malformed(request) /\ request \in PlanRequests
  BY DEF Accept, WalkShape
<1>3. /\ Excluded(request) \subseteq Modules /\ EffectiveRoots(request) \in Seq(Modules)
      /\ ToSet(EffectiveRoots(request)) \cap Excluded(request) = {}
  BY <1>2, RootsAre
<1>4. Asked \subseteq Modules \ excluded' /\ ToSet(roots') = Asked
  BY <1>1, <1>3, SeqIs DEF Asked
<1>5. AskedOK'
  BY <1>1, <1>4, SteadyWalk DEF AskedOK
<1>6. StackOK' /\ VerdictOK'
  BY <1>1, NoCallsOK
<1>7. QED
  BY <1>1, <1>5, <1>6 DEF WalkOK

LEMMA VisitRootOK ==
  ASSUME WalkShape, WalkOK, VisitRoot
  PROVE  WalkOK'
<1>1. PICK r : r = Head(roots)
  OBVIOUS
<1>2. /\ stack = <<>> /\ roots # <<>> /\ Call(r, r) /\ roots' = Tail(roots)
      /\ UNCHANGED <<manifest, request, excluded, selected>>
  BY <1>1 DEF VisitRoot
<1>3. roots \in Seq(Modules) /\ manifest \in Manifests
  BY DEF WalkShape
<1>4. ToSet(roots) = {r} \cup ToSet(Tail(roots))
  BY <1>1, <1>2, <1>3, MemberSeq, TailSeq
<1>5. r \in Asked /\ r \in Modules /\ r \notin excluded
  BY <1>4 DEF WalkOK, AskedOK
<1>6. (\A m \in selected : SelectedOK(m))'
  BY <1>2, SelectedSame DEF WalkOK
<1>7. AskedOK
  BY DEF WalkOK
<1>8. CASE ~Supports(r)
  <2>1. stack' = <<>> /\ skipped' = skipped \cup {r}
    BY <1>2, <1>8 DEF Call
  <2>2. Broken(r)
    BY <1>5, <1>8, NeedsSelf DEF Broken
  <2>3. AskedOK'
    BY <1>2, <1>4, <1>5, <1>7, <2>1, <2>2, SteadyWalk DEF AskedOK
  <2>4. QED
    BY <1>6, <2>1, <2>3, NoCallsOK DEF WalkOK
<1>9. CASE Supports(r) /\ r \in selected
  <2>1. stack' = <<>> /\ skipped' = skipped
    BY <1>2, <1>9 DEF Call
  <2>2. AskedOK'
    BY <1>2, <1>4, <1>9, <1>7, <2>1, SteadyWalk DEF AskedOK
  <2>3. QED
    BY <1>6, <2>1, <2>2, NoCallsOK DEF WalkOK
<1>10. CASE Supports(r) /\ r \notin selected
  <2>1. /\ stack' = <<[module |-> r, done |-> 0]>> \o stack /\ verdict' = "none"
        /\ skipped' = skipped
    BY <1>2, <1>10 DEF Call
  <2>2. \A i \in 1..Len(stack) : stack[i].module # r
    BY <1>2, EmptySeq
  <2>3. StackOK' /\ VerdictOK' /\ stack' # <<>> /\ Root' = r
    <3>1. StackOK
      BY DEF WalkOK
    <3>2. QED
      BY <1>2, <1>5, <1>10, <2>1, <2>2, <3>1, PushOK
  <2>4. AskedOK'
    BY <1>2, <1>4, <1>7, <2>1, <2>3, SteadyWalk DEF AskedOK
  <2>5. QED
    BY <1>6, <2>3, <2>4 DEF WalkOK
<1>11. QED
  BY <1>8, <1>9, <1>10

LEMMA VisitDependencyOK ==
  ASSUME WalkShape, WalkOK, VisitDependency
  PROVE  WalkOK'
<1>1. PICK m : m = Dependency
  OBVIOUS
<1>2. /\ HasDependency /\ ~Throws(m) /\ Call(m, Root)
      /\ UNCHANGED <<manifest, request, excluded, roots, selected>>
  BY <1>1 DEF VisitDependency
<1>3. /\ stack # <<>> /\ m \in Deps(Head(stack).module) /\ m \in Modules
      /\ Root \in Modules /\ Head(stack).module \in Modules
      /\ Head(stack).done < Len(DepsOf(Head(stack)))
  BY <1>1, <1>2, NextIs
<1>4. m \notin excluded /\ (Supports(m) => m \notin Visiting) /\ manifest \in Manifests
  BY <1>2 DEF Throws, WalkShape
<1>5. (\A x \in selected : SelectedOK(x))'
  BY <1>2, SelectedSame DEF WalkOK
<1>6. AskedOK /\ StackOK
  BY DEF WalkOK
<1>7. Root \in Asked /\ m \in Needs(Root)
  <2>1. /\ Len(stack) \in Nat \ {0} /\ Head(stack) = stack[1]
    BY <1>3, CallsAre
  <2>2. 1 \in 1..Len(stack)
    BY <2>1
  <2>3. Head(stack).module \in Needs(Root)
    BY <1>6, <2>1, <2>2 DEF StackOK, FrameOK
  <2>4. QED
    BY <1>3, <1>4, <1>6, <2>3, NeedsTrans DEF StackOK
<1>8. ASSUME UNCHANGED stack, verdict' # "yes" => Broken(m), verdict' = "yes" => m \in selected
      PROVE  StackOK' /\ VerdictOK' /\ Root' = Root
  <2>1. Root' = Root /\ Dependency' = m /\ Head(stack)' = Head(stack)
    BY <1>1, <1>2, <1>8 DEF Root, Dependency
  <2>2. \A f : DepsOf(f)' = DepsOf(f)
    BY <1>2, SteadyWalk
  <2>3. VerdictOK'
    <3>1. Broken(m)' <=> Broken(m)
      BY <1>2, SteadyWalk
    <3>2. Broken(Dependency)' <=> Broken(m)'
      BY <2>1 DEF Broken, Needs, Supports
    <3>3. Head(stack)'.done < Len(DepsOf(Head(stack))')
      BY <1>3, <1>8, <2>1, <1>2 DEF DepsOf
    <3>4. QED
      BY <1>2, <1>8, <2>1, <3>1, <3>2, <3>3 DEF VerdictOK
  <2>4. StackOK'
    BY <1>2, <1>6, <1>8, <2>1, SteadyWalk DEF StackOK, FrameOK, CallsOK
  <2>5. QED
    BY <2>1, <2>3, <2>4
<1>9. CASE ~Supports(m)
  <2>1. stack' = stack /\ skipped' = skipped \cup {Root} /\ verdict' = "no"
    BY <1>2, <1>9 DEF Call
  <2>2. Broken(m) /\ Broken(Root)
    BY <1>3, <1>7, <1>9, NeedsSelf DEF Broken
  <2>3. StackOK' /\ VerdictOK' /\ Root' = Root
    BY <1>8, <2>1, <2>2
  <2>4. AskedOK'
    BY <1>2, <1>6, <1>7, <2>1, <2>2, <2>3, SteadyWalk DEF AskedOK
  <2>5. QED
    BY <1>5, <2>3, <2>4 DEF WalkOK
<1>10. CASE Supports(m) /\ m \in selected
  <2>1. stack' = stack /\ skipped' = skipped /\ verdict' = "yes"
    BY <1>2, <1>10 DEF Call
  <2>2. StackOK' /\ VerdictOK' /\ Root' = Root
    BY <1>8, <1>10, <2>1
  <2>3. AskedOK'
    BY <1>2, <1>6, <2>1, <2>2, SteadyWalk DEF AskedOK
  <2>4. QED
    BY <1>5, <2>2, <2>3 DEF WalkOK
<1>11. CASE Supports(m) /\ m \notin selected
  <2>1. /\ stack' = <<[module |-> m, done |-> 0]>> \o stack /\ verdict' = "none"
        /\ skipped' = skipped
    BY <1>2, <1>11 DEF Call
  <2>2. \A i \in 1..Len(stack) : stack[i].module # m
    <3>1. DOMAIN stack = 1..Len(stack)
      BY SeqIs DEF WalkShape
    <3>2. QED
      BY <1>4, <1>11, <3>1 DEF Visiting
  <2>3. StackOK' /\ VerdictOK' /\ stack' # <<>> /\ Root' = Root
    BY <1>1, <1>2, <1>3, <1>4, <1>6, <1>11, <2>1, <2>2, PushOK
  <2>4. AskedOK'
    BY <1>2, <1>3, <1>6, <2>1, <2>3, SteadyWalk DEF AskedOK
  <2>5. QED
    BY <1>5, <2>3, <2>4 DEF WalkOK
<1>12. QED
  BY <1>9, <1>10, <1>11

LEMMA UnresolvedOK ==
  ASSUME WalkShape, WalkOK, Unresolved
  PROVE  WalkOK'
<1>1. /\ stack # <<>> /\ verdict = "no" /\ verdict' = "no" /\ stack' = Tail(stack)
      /\ skipped' = IF Len(stack) = 1 THEN skipped \cup {Root} ELSE skipped
      /\ UNCHANGED <<manifest, request, excluded, roots, selected>>
  BY DEF Unresolved
<1>2. PICK m : m = Head(stack).module
  OBVIOUS
<1>3. StackOK /\ AskedOK /\ VerdictOK /\ manifest \in Manifests /\ stack \in Seq(Frame)
  BY DEF WalkOK, WalkShape
<1>4. /\ StackOK'
      /\ stack' = <<>> => Root = m
      /\ stack' # <<>> => /\ Root' = Root /\ Dependency' = m
                          /\ Head(stack').done < Len(DepsOf(Head(stack')))
  BY <1>1, <1>2, <1>3, PopOK
<1>5. Tail(stack) = <<>> <=> Len(stack) = 1
  BY <1>1, <1>3, Popped
<1>6. Broken(m) /\ m \in Modules
  <2>1. Head(stack).done < Len(DepsOf(Head(stack))) /\ Broken(Dependency)
    BY <1>1, <1>3 DEF VerdictOK
  <2>2. PICK f : f = Head(stack)
    OBVIOUS
  <2>3. f \in Frame /\ Dependency = DepsOf(f)[f.done + 1]
    BY <1>1, <2>2, CallsAre
  <2>4. /\ m \in Modules /\ f.done \in Nat /\ Len(DepsOf(f)) \in Nat
        /\ Deps(m) = {DepsOf(f)[j] : j \in 1..Len(DepsOf(f))}
    BY <1>2, <1>3, <2>2, <2>3, FrameIs
  <2>5. f.done + 1 \in 1..Len(DepsOf(f))
    BY <2>1, <2>2, <2>4
  <2>6. Dependency \in Deps(m)
    BY <2>3, <2>4, <2>5
  <2>7. Dependency \in Needs(m)
    BY <1>3, <2>4, <2>6, NeedsSelf, NeedsTrans
  <2>8. Needs(Dependency) \subseteq Needs(m)
    BY <1>3, <2>4, <2>7, NeedsTrans
  <2>9. QED
    BY <2>1, <2>4, <2>8 DEF Broken
<1>7. VerdictOK'
  <2>1. SUFFICES ASSUME stack' # <<>> PROVE VerdictOK'
    BY DEF VerdictOK
  <2>2. Broken(m)'
    BY <1>1, <1>6, SteadyWalk
  <2>3. Dependency' = m
    BY <1>4, <2>1
  <2>4. Broken(Dependency)'
    BY <2>2, <2>3 DEF Broken, Needs, Supports
  <2>5. (Head(stack).done < Len(DepsOf(Head(stack))))'
    BY <1>1, <1>4, <2>1 DEF DepsOf
  <2>6. QED
    BY <1>1, <2>4, <2>5 DEF VerdictOK
<1>8. (\A x \in selected : SelectedOK(x))'
  BY <1>1, SelectedSame DEF WalkOK
<1>9. AskedOK'
  <2>1. Root \in Asked
    BY <1>1, <1>3 DEF StackOK
  <2>2. CASE stack' = <<>>
    BY <1>1, <1>3, <1>4, <1>5, <1>6, <2>1, <2>2, SteadyWalk DEF AskedOK
  <2>3. CASE stack' # <<>>
    BY <1>1, <1>3, <1>4, <1>5, <2>3, SteadyWalk DEF AskedOK
  <2>4. QED
    BY <2>2, <2>3
<1>10. QED
  BY <1>4, <1>7, <1>8, <1>9 DEF WalkOK

LEMMA ResolvedOK ==
  ASSUME WalkShape, WalkOK, Resolved
  PROVE  WalkOK'
<1>1. PICK f, m : f = Head(stack) /\ m = f.module
  OBVIOUS
<1>2. /\ stack # <<>> /\ f.done = Len(DepsOf(f)) /\ stack' = Tail(stack)
      /\ selected' = selected \cup {m}
      /\ verdict' = IF Tail(stack) = <<>> THEN "none" ELSE "yes"
      /\ UNCHANGED <<manifest, request, excluded, roots, skipped>>
  BY <1>1 DEF Resolved, DepsOf
<1>3. StackOK /\ AskedOK /\ manifest \in Manifests /\ selected \subseteq Modules
  BY DEF WalkOK, WalkShape
<1>4. /\ StackOK'
      /\ stack' = <<>> => Root = m
      /\ stack' # <<>> => /\ Root' = Root /\ Dependency' = m
                          /\ Head(stack').done < Len(DepsOf(Head(stack')))
  BY <1>1, <1>2, <1>3, PopOK
<1>5. FrameOK(f) /\ f \in Frame /\ Root \in Asked
  <2>1. Len(stack) \in Nat \ {0} /\ Head(stack) = stack[1] /\ Head(stack) \in Frame
    BY <1>2, CallsAre
  <2>2. 1 \in 1..Len(stack)
    BY <2>1
  <2>3. QED
    BY <1>1, <1>2, <1>3, <2>1, <2>2 DEF StackOK
<1>6. /\ m \in Modules /\ Len(DepsOf(f)) \in Nat
      /\ Deps(m) = {DepsOf(f)[j] : j \in 1..Len(DepsOf(f))}
  BY <1>1, <1>3, <1>5, FrameIs
<1>7. /\ Supports(m) /\ m \notin selected /\ m \notin excluded /\ m \in Needs(Root)
      /\ Deps(m) \subseteq selected
  BY <1>1, <1>2, <1>5, <1>6 DEF FrameOK
<1>8. \A d \in Deps(m) : m \notin Needs(d)
  <2>1. Closed(selected)
    BY DEF WalkOK, SelectedOK, Closed
  <2>2. QED
    BY <1>3, <1>7, <2>1, NeedsWithin
<1>9. SelectedOK(m)
  BY <1>5, <1>7, <1>8 DEF SelectedOK
<1>10. (\A x \in selected : SelectedOK(x))'
  <2>1. \A x \in selected' : SelectedOK(x)
    BY <1>2, <1>9 DEF WalkOK
  <2>2. QED
    BY <1>2, <2>1, SteadyWalk DEF SelectedOK
<1>11. VerdictOK'
  <2>1. SUFFICES ASSUME stack' # <<>> PROVE VerdictOK'
    BY DEF VerdictOK
  <2>2. verdict' = "yes" /\ Dependency' \in selected'
    BY <1>2, <1>4, <2>1
  <2>3. (Head(stack).done < Len(DepsOf(Head(stack))))'
    BY <1>2, <1>4, <2>1 DEF DepsOf
  <2>4. QED
    BY <2>2, <2>3 DEF VerdictOK
<1>12. AskedOK'
  <2>1. CASE stack' = <<>>
    BY <1>2, <1>3, <1>4, <2>1, SteadyWalk DEF AskedOK
  <2>2. CASE stack' # <<>>
    BY <1>2, <1>3, <1>4, <2>2, SteadyWalk DEF AskedOK
  <2>3. QED
    BY <2>1, <2>2
<1>13. QED
  BY <1>4, <1>10, <1>11, <1>12 DEF WalkOK

LEMMA WalkBegins == PlanInit => WalkInv
BY ShapeBegins DEF PlanInit, WalkInv

LEMMA WalkStep == WalkInv /\ [PlanNext]_planVars => WalkInv'
<1> SUFFICES ASSUME WalkInv, [PlanNext]_planVars PROVE WalkInv'
  OBVIOUS
<1>1. WalkShape /\ WalkShape'
  BY ShapeStep DEF WalkInv
<1>2. SUFFICES ASSUME phase' \in {"resolving", "planned"}, ~request'.legacy PROVE WalkOK'
  BY <1>1 DEF WalkInv
<1> DEFINE Resolving == phase \in {"resolving", "planned"} /\ ~request.legacy
<1>3. Resolving => WalkOK
  BY DEF WalkInv
<1>4. ASSUME Resolving, UNCHANGED <<manifest, request, excluded, walk>> PROVE WalkOK'
  <2>1. UNCHANGED <<manifest, request, excluded, roots, stack, verdict, selected, skipped>>
    BY <1>4 DEF walk
  <2>2. Root' = Root /\ Dependency' = Dependency /\ Head(stack)' = Head(stack)
    BY <2>1 DEF Root, Dependency
  <2>3. AskedOK'
    BY <1>3, <1>4, <2>1, <2>2, SteadyWalk DEF WalkOK, AskedOK
  <2>4. StackOK'
    <3>1. StackOK
      BY <1>3, <1>4 DEF WalkOK
    <3>2. QED
      BY <2>1, <2>2, <3>1, SteadyWalk DEF StackOK, FrameOK, CallsOK
  <2>5. VerdictOK'
    <3>1. Broken(Dependency)' <=> Broken(Dependency)
      BY <2>1, <2>2 DEF Broken, Needs, Supports
    <3>2. QED
      BY <1>3, <1>4, <2>1, <2>2, <3>1 DEF WalkOK, VerdictOK, DepsOf
  <2>6. (\A m \in selected : SelectedOK(m))'
    BY <1>3, <1>4, <2>1, SelectedSame DEF WalkOK
  <2>7. QED
    BY <2>3, <2>4, <2>5, <2>6 DEF WalkOK
<1>5. CASE RefuseRequest
  BY <1>2, <1>5 DEF RefuseRequest, RefusePlan
<1>6. CASE Accept
  BY <1>1, <1>6, AcceptOK
<1>7. CASE PlanLegacy
  BY <1>2, <1>7 DEF PlanLegacy
<1>8. CASE VisitRoot
  BY <1>1, <1>2, <1>3, <1>8, VisitRootOK DEF VisitRoot
<1>9. CASE VisitDependency
  BY <1>1, <1>2, <1>3, <1>9, VisitDependencyOK DEF VisitDependency, HasDependency
<1>10. CASE RefuseDependency
  BY <1>2, <1>10 DEF RefuseDependency, RefusePlan
<1>11. CASE NextDependency
  BY <1>1, <1>2, <1>3, <1>11, NextDependencyOK DEF NextDependency
<1>12. CASE Resolved
  BY <1>1, <1>2, <1>3, <1>12, ResolvedOK DEF Resolved
<1>13. CASE Unresolved
  BY <1>1, <1>2, <1>3, <1>13, UnresolvedOK DEF Unresolved
<1>14. CASE Plan
  BY <1>2, <1>4, <1>14 DEF Plan
<1>15. CASE UNCHANGED planVars
  BY <1>2, <1>4, <1>15 DEF planVars, walk
<1>16. QED
  BY <1>5, <1>6, <1>7, <1>8, <1>9, <1>10, <1>11, <1>12, <1>13, <1>14, <1>15 DEF PlanNext

LEMMA WalkHolds == PlanSpec => []WalkInv
BY WalkBegins, WalkStep, PTL DEF PlanSpec

\* When the walk is over, nothing is on the stack.
LEMMA WalkIsExact == WalkInv => ResolutionExact
<1> SUFFICES ASSUME WalkInv, phase = "planned", ~request.legacy
             PROVE  /\ \A r \in Asked :
                         IF \A m \in Needs(r) : Supports(m)
                         THEN r \in selected \ skipped ELSE r \in skipped \ selected
                    /\ selected \subseteq (UNION {Needs(r) : r \in Asked}) \ excluded
                    /\ skipped \subseteq Asked
                    /\ \A m \in selected : \A d \in Deps(m) : m \notin Needs(d)
  BY DEF ResolutionExact, Asked, Deps
<1>1. WalkShape /\ WalkOK /\ AskedOK
  BY DEF WalkInv, WalkOK
<1>2. stack = <<>> /\ roots = <<>> /\ selected \subseteq Modules
  BY <1>1 DEF WalkShape
<1>3. \A m \in selected : SelectedOK(m)
  BY <1>1 DEF WalkOK
<1>4. Closed(selected)
  BY <1>3 DEF Closed, SelectedOK
<1>5. \A r \in selected : \A m \in Needs(r) : Supports(m)
  <2>1. \A r \in selected : Needs(r) \subseteq selected
    BY <1>2, <1>4, NeedsWithin
  <2>2. QED
    BY <1>3, <2>1 DEF SelectedOK
<1>6. \A r \in Asked : r \in selected \/ r \in skipped
  BY <1>1, <1>2, NoneSeq DEF AskedOK
<1>7. \A r \in skipped : ~(\A m \in Needs(r) : Supports(m))
  BY <1>1 DEF AskedOK, Broken
<1>8. \A r \in Asked : IF \A m \in Needs(r) : Supports(m)
                       THEN r \in selected \ skipped ELSE r \in skipped \ selected
  BY <1>5, <1>6, <1>7
<1>9. selected \subseteq (UNION {Needs(r) : r \in Asked}) \ excluded
  <2>1. \A m \in selected : m \notin excluded /\ \E r \in Asked : m \in Needs(r)
    BY <1>3 DEF SelectedOK
  <2>2. QED
    BY <2>1
<1>10. \A m \in selected : \A d \in Deps(m) : m \notin Needs(d)
  BY <1>3 DEF SelectedOK
<1>11. skipped \subseteq Asked
  BY <1>1 DEF AskedOK
<1>12. QED
  BY <1>8, <1>9, <1>10, <1>11

\* ResolutionExact: when resolveInstallPlan is done, a requested module is selected
\* if all it needs supports the target, and skipped if not; nothing excluded and no
\* cycle is selected.
THEOREM ResolutionIsExact == PlanSpec => []ResolutionExact
BY WalkHolds, WalkIsExact, PTL

-----------------------------------------------------------------------------
(* Where the files go.                                                     *)

CopiesOK ==
  \A a \in operations : a.source \in SourceFiles /\ a.dest = Destination(request.target, a.source)

LEMMA CopiesBegin == PlanInit => CopiesOK
BY DEF PlanInit, CopiesOK

LEMMA CopiesStep == WalkShape /\ CopiesOK /\ [PlanNext]_planVars => CopiesOK'
<1> SUFFICES ASSUME WalkShape, CopiesOK, [PlanNext]_planVars PROVE CopiesOK'
  OBVIOUS
<1>1. ASSUME UNCHANGED <<request, operations>> PROVE CopiesOK'
  BY <1>1 DEF CopiesOK
<1>2. \A m, t : \A f \in SourceFiles :
        /\ CopyOperation(m, t, f).source \in SourceFiles
        /\ CopyOperation(m, t, f).dest = Destination(t, CopyOperation(m, t, f).source)
  BY DEF CopyOperation
<1>3. PICK t : t = request.target
  OBVIOUS
<1>4. t \in Targets
  BY <1>3, PlanAssumption DEF WalkShape
<1>5. CASE PlanLegacy
  <2>1. \A p, d : In(p, d) \subseteq SourceFiles
    BY DEF In
  <2>2. LegacyTrees(t) \subseteq SourceFiles
    BY <1>4, <2>1 DEF LegacyTrees, Targets
  <2>3. \A l : LegacyRules(t, l) \subseteq SourceFiles
    BY <1>4, <2>1 DEF LegacyRules, Targets
  <2>4. LegacyFiles(request) \subseteq SourceFiles
    <3>1. PICK L : L = {"common"} \cup ToSet(request.languages)
      OBVIOUS
    <3>2. LegacyFiles(request) = (UNION {LegacyRules(t, l) : l \in L}) \cup LegacyTrees(t)
      BY <1>3, <3>1 DEF LegacyFiles
    <3>3. UNION {LegacyRules(t, l) : l \in L} \subseteq SourceFiles
      BY <2>3
    <3>4. QED
      BY <2>2, <3>2, <3>3
  <2>5. request' = request /\ operations' = {CopyOperation("legacy", t, f) : f \in LegacyFiles(request)}
    BY <1>3, <1>5 DEF PlanLegacy, LegacyOperations
  <2>6. QED
    BY <1>2, <1>3, <2>4, <2>5 DEF CopiesOK
<1>6. CASE Plan
  <2>1. request' = request /\ operations' = UNION {OperationsOf(m, t) : m \in selected}
    BY <1>3, <1>6 DEF Plan, PlannedOperations
  <2>2. ASSUME NEW m, NEW a \in OperationsOf(m, t)
        PROVE  a.source \in SourceFiles /\ a.dest = Destination(t, a.source)
    <3>1. PICK P : OperationsOf(m, t) = {CopyOperation(m, t, f) : f \in UNION {FilesOf(p) : p \in P}}
      BY DEF OperationsOf
    <3>2. \A p : FilesOf(p) \subseteq SourceFiles
      BY DEF FilesOf
    <3>3. QED
      BY <1>2, <2>2, <3>1, <3>2
  <2>3. QED
    BY <1>3, <2>1, <2>2 DEF CopiesOK
<1>7. CASE RefuseRequest \/ RefuseDependency
  BY <1>1, <1>7 DEF RefuseRequest, RefuseDependency, RefusePlan
<1>8. CASE Accept \/ VisitRoot \/ VisitDependency
  BY <1>1, <1>8 DEF Accept, VisitRoot, VisitDependency
<1>9. CASE NextDependency \/ Resolved \/ Unresolved
  BY <1>1, <1>9 DEF NextDependency, Resolved, Unresolved
<1>10. CASE UNCHANGED planVars
  BY <1>1, <1>10 DEF planVars
<1>11. QED
  BY <1>5, <1>6, <1>7, <1>8, <1>9, <1>10 DEF PlanNext

\* Two sequences that differ behind a common beginning differ.
LEMMA SameRest ==
  ASSUME NEW U, NEW d \in Seq(U), NEW x \in Seq(U), NEW y \in Seq(U), d \o x = d \o y
  PROVE  x = y
<1>1. PICK c, k, m, n : c = d \o x /\ k = Len(d) /\ m = Len(x) /\ n = Len(y)
  OBVIOUS
<1>2. /\ k \in Nat /\ m \in Nat /\ n \in Nat /\ Len(c) = k + m /\ Len(c) = k + n
      /\ \A i \in 1..(k + m) : c[i] = IF i <= k THEN d[i] ELSE x[i - k]
      /\ \A i \in 1..(k + n) : c[i] = IF i <= k THEN d[i] ELSE y[i - k]
  BY <1>1, ConcatProperties, LenProperties
<1>3. m = n
  BY <1>2
<1>4. ASSUME NEW i \in 1..m PROVE x[i] = y[i]
  <2>1. PICK j : j = i + k
    OBVIOUS
  <2>2. j \in 1..(k + m) /\ j \in 1..(k + n) /\ ~(j <= k) /\ j - k = i
    BY <1>2, <1>3, <2>1
  <2>3. QED
    BY <1>2, <2>2
<1>5. x = [i \in 1..m |-> x[i]] /\ y = [i \in 1..m |-> y[i]]
  BY <1>1, <1>3, SeqIs
<1>6. QED
  BY <1>4, <1>5

\* Rules keep their names apart when their directories become part of the name.
FlatNamesApart ==
  \A f, g \in SourceFiles :
    f.path = "rules" /\ g.path = "rules" /\ f.dir \o f.name = g.dir \o g.name => f = g

\* Two files of one path have two places.
LEMMA PlacesApart ==
  ASSUME FlatNamesApart, NEW t, NEW f \in SourceFiles, NEW g \in SourceFiles,
         Destination(t, f) = Destination(t, g), f.path = g.path
  PROVE  f = g
<1>1. f.dir \in Seq(STRING) /\ f.name \in Seq(STRING) /\ g.dir \in Seq(STRING) /\ g.name \in Seq(STRING)
  BY PlanAssumption
<1>2. CASE f.path = "rules" /\ t # "claude"
  <2>1. f.dir \o f.name = g.dir \o g.name
    BY <1>2 DEF Destination
  <2>2. QED
    BY <1>2, <2>1 DEF FlatNamesApart
<1>3. CASE ~(f.path = "rules" /\ t # "claude")
  <2>1. PICK d : d = Directory(t, f.path)
    OBVIOUS
  <2>2. d \o f.dir = d \o g.dir /\ f.name = g.name
    BY <1>3, <2>1 DEF Destination
  <2>3. PICK U : U = STRING \cup {f.path, "workflows", "skills"}
    OBVIOUS
  <2>4. "workflows" \in U /\ "skills" \in U /\ f.path \in U
    BY <2>3
  <2>5. d = <<"workflows">> \/ d = <<"skills">> \/ d = <<>> \/ d = <<f.path>>
    BY <2>1 DEF Directory
  <2>6. d \in Seq(U)
    BY <2>4, <2>5, Singles
  <2>7. f.dir \in Seq(U) /\ g.dir \in Seq(U)
    BY <1>1, <2>3, SeqDef
  <2>8. f.dir = g.dir
    BY <2>2, <2>6, <2>7, SameRest
  <2>9. QED
    BY <2>2, <2>8, PlanAssumption
<1>4. QED
  BY <1>2, <1>3

LEMMA CopiesApart == FlatNamesApart /\ CopiesOK => PathsKeepFilesApart
BY PlacesApart DEF CopiesOK, PathsKeepFilesApart

\* PlanExact: moreover two files of one path get two destinations, in a source tree
\* whose rules keep their names apart.
THEOREM PlanIsExact ==
  ASSUME FlatNamesApart
  PROVE  PlanSpec => []PlanExact
<1>1. PlanInit => WalkInv /\ CopiesOK
  BY WalkBegins, CopiesBegin
<1>2. WalkInv /\ CopiesOK /\ [PlanNext]_planVars => (WalkInv /\ CopiesOK)'
  BY WalkStep, CopiesStep DEF WalkInv
<1>3. WalkInv /\ CopiesOK => PlanExact
  BY WalkIsExact, CopiesApart DEF PlanExact
<1>4. QED
  BY <1>1, <1>2, <1>3, PTL DEF PlanSpec
=============================================================================
