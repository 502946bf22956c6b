---------------------------- MODULE OrderLemmas ----------------------------
(***************************************************************************)
(* Facts about natural numbers and sequences that the proofs of other      *)
(* modules use.                                                            *)
(***************************************************************************)
EXTENDS Integers, FiniteSets, Sequences, FiniteSetTheorems, SequenceTheorems,
        WellFoundedInduction, TLAPS

\* A set of natural numbers that is not empty has a least element: among the
\* finite sets of its elements below each of them, one has no proper subset.
LEMMA LeastNatural ==
  ASSUME NEW S \in SUBSET Nat, S # {}
  PROVE  \E x \in S : \A y \in S : x <= y
<1> DEFINE Below(x) == {y \in S : y < x}
           T == {Below(x) : x \in S}
           R == StrictSubsetOrdering(S)
<1>0. \A x \in S : x \in Nat
  OBVIOUS
<1>1. \A x \in S : Below(x) \in FiniteSubsetsOf(S)
  <2> SUFFICES ASSUME NEW x \in S PROVE IsFiniteSet(Below(x))
    BY Zenon DEF FiniteSubsetsOf
  <2>1. x \in Nat
    BY <1>0
  <2>2. \A s \in Below(x) : s \in Nat /\ s <= x
    <3> TAKE s \in Below(x)
    <3>1. s \in S /\ s < x
      OBVIOUS
    <3> QED BY <3>1, <2>1, <1>0
  <2>3. Below(x) \in SUBSET Nat
    BY <2>2
  <2> QED
    BY <2>1, <2>2, <2>3, FS_BoundedSetOfNaturals
<1>2. T \subseteq FiniteSubsetsOf(S) /\ T # {}
  BY <1>1
<1>3. IsWellFoundedOn(R, FiniteSubsetsOf(S))
  BY FS_StrictSubsetOrderingWellFounded, Zenon
<1> HIDE DEF T, R, Below
<1>4. PICK B \in T : \A C \in T : ~ (<<C, B>> \in R)
  BY <1>2, <1>3, WFMin, Zenon
<1> USE DEF T, R, Below
<1>5. PICK x \in S : B = Below(x)
  BY <1>4
<1>6. ASSUME NEW y \in S, y < x PROVE FALSE
  <2>1. Below(y) \in T
    OBVIOUS
  <2>2. y \in Below(x) /\ y \notin Below(y)
    BY <1>6, <1>0
  <2>4. Below(y) \subseteq Below(x)
    <3> SUFFICES ASSUME NEW z \in Below(y) PROVE z \in Below(x)
      OBVIOUS
    <3>1. z \in S /\ z < y
      OBVIOUS
    <3>2. z \in Nat /\ y \in Nat /\ x \in Nat /\ y < x
      BY <3>1, <1>0, <1>6
    <3>3. z < x
      BY <3>1, <3>2
    <3> QED BY <3>1, <3>3
  <2>3. <<Below(y), Below(x)>> \in R
    BY <2>2, <2>4 DEF StrictSubsetOrdering
  <2> QED
    BY <2>1, <2>3, <1>4, <1>5
<1>7. \A y \in S : x <= y
  BY <1>6, <1>0
<1> QED
  BY <1>7

\* Induction up to m, for the numbers that form the set S.
LEMMA InductionUpTo ==
  ASSUME NEW S, NEW m \in Nat, 0 \in S,
         \A n \in 0 .. m - 1 : n \in S => n + 1 \in S
  PROVE  \A n \in 0 .. m : n \in S
<1> DEFINE T == {n \in 0 .. m : n \notin S}
<1> SUFFICES ASSUME T # {} PROVE FALSE
  OBVIOUS
<1>1. T \in SUBSET Nat
  OBVIOUS
<1>2. PICK x \in T : \A y \in T : x <= y
  BY <1>1, LeastNatural
<1>3. x \in 0 .. m /\ x \notin S /\ x # 0
  BY <1>2
<1>4. x - 1 \in 0 .. m - 1 /\ x - 1 \in 0 .. m
  BY <1>3
<1>5. x - 1 \notin T
  BY <1>2, <1>3, <1>4
<1>6. x - 1 \in S
  BY <1>4, <1>5
<1>7. (x - 1) + 1 \in S
  BY <1>4, <1>6
<1> QED
  BY <1>3, <1>7

\* f follows a recursive definition over 0 .. m: its first value and the step to
\* each following one.
Follows(f, m, S, base, step) ==
  /\ f \in [0 .. m -> S]
  /\ f[0] = base
  /\ \A i \in 1 .. m : f[i] = step[i][f[i - 1]]

\* Some function does.
LEMMA Recursion ==
  ASSUME NEW m \in Nat, NEW S, NEW base \in S, NEW step \in [1 .. m -> [S -> S]]
  PROVE  \E f : Follows(f, m, S, base, step)
<1> DEFINE Solves(f, n) == f[0] = base /\ \A i \in 1 .. n : f[i] = step[i][f[i - 1]]
           T == {n \in 0 .. m : \E f \in [0 .. n -> S] : Solves(f, n)}
<1>1. 0 \in T
  <2> DEFINE f == [i \in 0 .. 0 |-> base]
  <2>1. f \in [0 .. 0 -> S] /\ Solves(f, 0) /\ 0 \in 0 .. m
    OBVIOUS
  <2> HIDE DEF f, Solves
  <2> QED
    BY <2>1, Zenon
<1>2. ASSUME NEW n \in 0 .. m - 1, n \in T
      PROVE  n + 1 \in T
  <2>1. PICK f \in [0 .. n -> S] : Solves(f, n)
    BY <1>2
  <2> DEFINE g == [i \in 0 .. n + 1 |-> IF i = n + 1 THEN step[n + 1][f[n]] ELSE f[i]]
  <2>2. f[n] \in S /\ n + 1 \in 1 .. m
    BY <2>1
  <2>3. step[n + 1][f[n]] \in S
    BY <2>2
  <2>4. g \in [0 .. n + 1 -> S]
    BY <2>1, <2>3
  <2>5. ASSUME NEW i \in 1 .. n + 1
        PROVE  g[i] = step[i][g[i - 1]]
    <3>1. g[i - 1] = f[i - 1]
      OBVIOUS
    <3>2. CASE i = n + 1
      <4>1. g[i] = step[n + 1][f[n]] /\ g[i - 1] = f[n]
        BY <3>1, <3>2
      <4> QED
        BY <3>2, <4>1
    <3>3. CASE i # n + 1
      <4>1. i \in 1 .. n /\ g[i] = f[i]
        BY <3>3
      <4> QED
        BY <2>1, <3>1, <4>1
    <3> QED
      BY <3>2, <3>3
  <2>6. Solves(g, n + 1)
    <3>1. g[0] = base
      BY <2>1
    <3> HIDE DEF g
    <3> QED
      BY <2>5, <3>1
  <2>7. n + 1 \in 0 .. m
    OBVIOUS
  <2> HIDE DEF g, Solves
  <2> QED
    BY <2>4, <2>6, <2>7, Zenon
<1> HIDE DEF T
<1>3. \A n \in 0 .. m : n \in T
  BY <1>1, <1>2, InductionUpTo
<1>4. m \in T
  BY <1>3
<1> QED
  BY <1>4 DEF T, Follows

\* Division with remainder, by a positive number.
LEMMA DivMod ==
  ASSUME NEW s \in Nat, NEW B \in Nat \ {0}
  PROVE  /\ s \div B \in Nat
         /\ s % B \in 0 .. B - 1
         /\ s = B * (s \div B) + (s % B)
OBVIOUS

\* The quotient of a number below C * B is below C.
LEMMA QuotientBound ==
  ASSUME NEW q \in Nat, NEW r \in Nat, NEW B \in Nat \ {0}, NEW C \in Nat \ {0},
         B * q + r < C * B
  PROVE  q < C
<1> SUFFICES ASSUME q >= C
             PROVE  FALSE
  OBVIOUS
<1>1. PICK d \in Nat : q = C + d
  OBVIOUS
<1>2. B * q = B * C + B * d
  BY <1>1
<1>3. B * d \in Nat /\ B * q \in Nat /\ C * B \in Nat
  BY <1>1
<1>4. B * C = C * B
  OBVIOUS
<1> QED
  BY <1>2, <1>3, <1>4

-----------------------------------------------------------------------------
(* Sequences.                                                              *)

\* The first k elements of a sequence and the others.
LEMMA Split ==
  ASSUME NEW S, NEW s \in Seq(S), NEW k \in 0 .. Len(s)
  PROVE  /\ SubSeq(s, 1, k) \in Seq(S) /\ Len(SubSeq(s, 1, k)) = k
         /\ \A i \in 1 .. k : SubSeq(s, 1, k)[i] = s[i]
         /\ SubSeq(s, k + 1, Len(s)) \in Seq(S)
         /\ Len(SubSeq(s, k + 1, Len(s))) = Len(s) - k
         /\ \A i \in 1 .. Len(s) - k : SubSeq(s, k + 1, Len(s))[i] = s[k + i]
<1>1. Len(s) \in Nat /\ k \in Nat /\ k <= Len(s)
  OBVIOUS
<1>2. \A i \in 1 .. Len(s) : s[i] \in S
  OBVIOUS
<1> DEFINE a == SubSeq(s, 1, k)
           b == SubSeq(s, k + 1, Len(s))
<1>3. /\ a \in Seq(S)
      /\ Len(a) = IF 1 <= k THEN k - 1 + 1 ELSE 0
      /\ \A i \in 1 .. k - 1 + 1 : a[i] = s[1 + i - 1]
  <2>1. \A i \in 1 .. k : s[i] \in S
    BY <1>1, <1>2
  <2> QED
    BY <1>1, <2>1, SubSeqProperties
<1>4. /\ b \in Seq(S)
      /\ Len(b) = IF k + 1 <= Len(s) THEN Len(s) - (k + 1) + 1 ELSE 0
      /\ \A i \in 1 .. Len(s) - (k + 1) + 1 : b[i] = s[k + 1 + i - 1]
  <2>1. \A i \in k + 1 .. Len(s) : s[i] \in S
    BY <1>1, <1>2
  <2>2. k + 1 \in Int /\ Len(s) \in Int
    BY <1>1
  <2> QED
    BY <2>1, <2>2, SubSeqProperties
<1> HIDE DEF a, b
<1>5. Len(a) = k /\ Len(b) = Len(s) - k
  BY <1>1, <1>3, <1>4
<1>6. ASSUME NEW i \in 1 .. k PROVE a[i] = s[i]
  <2>1. i \in 1 .. k - 1 + 1 /\ 1 + i - 1 = i
    BY <1>1
  <2> QED
    BY <1>3, <2>1
<1>7. ASSUME NEW i \in 1 .. Len(s) - k PROVE b[i] = s[k + i]
  <2>1. i \in 1 .. Len(s) - (k + 1) + 1 /\ k + 1 + i - 1 = k + i
    BY <1>1
  <2> QED
    BY <1>4, <2>1
<1> QED
  BY <1>3, <1>4, <1>5, <1>6, <1>7 DEF a, b

\* The places of a sequence with one more element, and of one without its first.
LEMMA AppendPlaces ==
  ASSUME NEW S, NEW q \in Seq(S), NEW e \in S
  PROVE  /\ Append(q, e) \in Seq(S) /\ Len(Append(q, e)) = Len(q) + 1
         /\ Len(q) + 1 \in DOMAIN Append(q, e) /\ Append(q, e)[Len(q) + 1] = e
         /\ \A i \in DOMAIN q : /\ i \in DOMAIN Append(q, e) /\ Append(q, e)[i] = q[i]
                                /\ i \in Nat /\ i < Len(q) + 1 /\ ~(Len(q) + 1 < i)
         /\ \A i \in DOMAIN Append(q, e) : i = Len(q) + 1 \/ i \in DOMAIN q
         /\ ~(Len(q) + 1 < Len(q) + 1)
<1>1. Len(q) \in Nat /\ DOMAIN q = 1 .. Len(q)
  OBVIOUS
<1>2. /\ Append(q, e) \in Seq(S) /\ Len(Append(q, e)) = Len(q) + 1
      /\ \A i \in 1 .. Len(q) : Append(q, e)[i] = q[i]
      /\ Append(q, e)[Len(q) + 1] = e
  BY AppendProperties
<1>3. DOMAIN Append(q, e) = 1 .. Len(q) + 1
  BY <1>2, LenProperties
<1>4. ASSUME NEW i \in 1 .. Len(q)
      PROVE  i \in 1 .. Len(q) + 1 /\ i \in Nat /\ i < Len(q) + 1 /\ ~(Len(q) + 1 < i)
  BY <1>1
<1>5. Len(q) + 1 \in 1 .. Len(q) + 1 /\ ~(Len(q) + 1 < Len(q) + 1)
  BY <1>1
<1>6. \A i \in 1 .. Len(q) + 1 : i = Len(q) + 1 \/ i \in 1 .. Len(q)
  BY <1>1
<1> QED
  BY <1>1, <1>2, <1>3, <1>4, <1>5, <1>6

LEMMA TailPlaces ==
  ASSUME NEW S, NEW q \in Seq(S), q # <<>>
  PROVE  /\ Tail(q) \in Seq(S) /\ Head(q) \in S /\ Head(q) = q[1] /\ 1 \in DOMAIN q
         /\ \A i \in DOMAIN Tail(q) : /\ i + 1 \in DOMAIN q /\ Tail(q)[i] = q[i + 1]
                                      /\ i \in Nat /\ 1 < i + 1
         /\ \A i \in DOMAIN q : i = 1 \/ (i - 1 \in DOMAIN Tail(q) /\ (i - 1) + 1 = i)
<1>1. Len(q) \in Nat /\ DOMAIN q = 1 .. Len(q) /\ Len(q) > 0
  BY EmptySeq
<1>2. /\ Tail(q) \in Seq(S) /\ Len(Tail(q)) = Len(q) - 1
      /\ \A i \in 1 .. Len(q) - 1 : Tail(q)[i] = q[i + 1]
  BY HeadTailProperties
<1>3. DOMAIN Tail(q) = 1 .. Len(q) - 1
  BY <1>2, LenProperties
<1>4. Head(q) = q[1] /\ Head(q) \in S /\ 1 \in 1 .. Len(q)
  BY <1>1, HeadTailProperties
<1>5. ASSUME NEW i \in 1 .. Len(q) - 1
      PROVE  i + 1 \in 1 .. Len(q) /\ i \in Nat /\ 1 < i + 1
  BY <1>1
<1>6. ASSUME NEW i \in 1 .. Len(q)
      PROVE  i = 1 \/ (i - 1 \in 1 .. Len(q) - 1 /\ (i - 1) + 1 = i)
  BY <1>1
<1> QED
  BY <1>1, <1>2, <1>3, <1>4, <1>5, <1>6

-----------------------------------------------------------------------------
(* Finite sets.                                                            *)

\* Induction over the subsets of a finite set, for the ones that form the set Q.
LEMMA SubsetInduction ==
  ASSUME NEW S, IsFiniteSet(S), NEW Q, {} \in Q,
         \A T \in SUBSET S : T # {} /\ (\A x \in T : T \ {x} \in Q) => T \in Q
  PROVE  \A T \in SUBSET S : T \in Q
<1> DEFINE N == {n \in Nat : \A T \in SUBSET S : Cardinality(T) = n => T \in Q}
           m == Cardinality(S)
<1>1. m \in Nat
  BY FS_CardinalityType
<1>2. \A T \in SUBSET S : IsFiniteSet(T) /\ Cardinality(T) \in 0 .. m
  BY <1>1, FS_Subset, FS_CardinalityType
<1>3. 0 \in N
  <2> SUFFICES ASSUME NEW T \in SUBSET S, Cardinality(T) = 0 PROVE T \in Q
    OBVIOUS
  <2> QED
    BY <1>2, FS_EmptySet
<1>4. ASSUME NEW n \in 0 .. m - 1, n \in N PROVE n + 1 \in N
  <2> SUFFICES ASSUME NEW T \in SUBSET S, Cardinality(T) = n + 1 PROVE T \in Q
    OBVIOUS
  <2>1. T # {}
    <3> HIDE DEF m
    <3>1. Cardinality(T) # 0
      BY <1>1
    <3> QED
      BY <3>1, FS_EmptySet
  <2>2. ASSUME NEW x \in T PROVE T \ {x} \in Q
    <3>1. Cardinality(T \ {x}) = n
      BY <1>2, FS_RemoveElement
    <3> QED
      BY <3>1, <1>4
  <2> QED
    BY <2>1, <2>2
<1> HIDE DEF N
<1>5. \A n \in 0 .. m : n \in N
  BY <1>1, <1>3, <1>4, InductionUpTo
<1> QED
  BY <1>2, <1>5 DEF N

\* f follows a recursive definition over the subsets of S: its value for the
\* empty set, and the step for the element c takes out of another one.
Folds(f, S, V, base, c, step) ==
  /\ f \in [SUBSET S -> V]
  /\ f[{}] = base
  /\ \A s \in SUBSET S : s # {} => f[s] = step[c[s]][f[s \ {c[s]}]]

\* Some function does.
LEMMA FoldRecursion ==
  ASSUME NEW S, IsFiniteSet(S), NEW V, NEW base \in V, NEW step \in [S -> [V -> V]],
         NEW c, \A s \in SUBSET S : s # {} => c[s] \in s
  PROVE  \E f : Folds(f, S, V, base, c, step)
<1> DEFINE m == Cardinality(S)
           Small(n) == {s \in SUBSET S : Cardinality(s) <= n}
           Solves(f, n) == f[{}] = base /\ \A s \in Small(n) : s # {} => f[s] = step[c[s]][f[s \ {c[s]}]]
           T == {n \in Nat : \E f \in [Small(n) -> V] : Solves(f, n)}
<1>1. m \in Nat
  BY FS_CardinalityType
<1>2. \A s \in SUBSET S : IsFiniteSet(s) /\ Cardinality(s) \in 0 .. m
  BY <1>1, FS_Subset, FS_CardinalityType
<1>3. \A s \in SUBSET S : Cardinality(s) = 0 <=> s = {}
  BY <1>2, FS_EmptySet
<1>4. \A s \in SUBSET S : s # {} => /\ s \ {c[s]} \in SUBSET S /\ c[s] \in S
                                    /\ Cardinality(s \ {c[s]}) = Cardinality(s) - 1
  BY <1>2, FS_RemoveElement
<1>5. 0 \in T
  <2> DEFINE f == [s \in Small(0) |-> base]
  <2>1. \A s \in Small(0) : s = {}
    BY <1>2, <1>3
  <2>2. {} \in Small(0)
    BY <1>3
  <2>3. f \in [Small(0) -> V] /\ Solves(f, 0)
    BY <2>1, <2>2
  <2> HIDE DEF f, Solves, Small
  <2> QED
    BY <2>3
<1>6. ASSUME NEW n \in 0 .. m - 1, n \in T PROVE n + 1 \in T
  <2>1. PICK f \in [Small(n) -> V] : Solves(f, n)
    BY <1>6
  <2> DEFINE g == [s \in Small(n + 1) |-> IF s \in Small(n) THEN f[s] ELSE step[c[s]][f[s \ {c[s]}]]]
  <2>2. {} \in Small(n) /\ {} \in Small(n + 1)
    BY <1>2, <1>3
  <2>3. \A s \in Small(n + 1) : s # {} => s \ {c[s]} \in Small(n) /\ s \ {c[s]} \in Small(n + 1) /\ c[s] \in S
    BY <1>2, <1>4
  <2> HIDE DEF Small
  <2>4. g \in [Small(n + 1) -> V]
    <3> SUFFICES ASSUME NEW s \in Small(n + 1), s \notin Small(n) PROVE step[c[s]][f[s \ {c[s]}]] \in V
      OBVIOUS
    <3>1. s \ {c[s]} \in Small(n) /\ c[s] \in S
      BY <2>2, <2>3
    <3>2. f[s \ {c[s]}] \in V /\ step[c[s]] \in [V -> V]
      BY <3>1
    <3> QED
      BY <3>2
  <2>5. ASSUME NEW s \in Small(n + 1), s # {} PROVE g[s] = step[c[s]][g[s \ {c[s]}]]
    <3>1. g[s \ {c[s]}] = f[s \ {c[s]}]
      BY <2>3, <2>5
    <3>2. CASE s \in Small(n)
      <4>1. g[s] = f[s] /\ f[s] = step[c[s]][f[s \ {c[s]}]]
        BY <2>1, <2>5, <3>2
      <4> HIDE DEF g
      <4> QED
        BY <3>1, <4>1
    <3>3. CASE s \notin Small(n)
      <4>1. g[s] = step[c[s]][f[s \ {c[s]}]]
        BY <3>3
      <4> HIDE DEF g
      <4> QED
        BY <3>1, <4>1
    <3> QED
      BY <3>2, <3>3
  <2>6. g[{}] = base
    BY <2>1, <2>2
  <2> HIDE DEF g
  <2>7. Solves(g, n + 1)
    BY <2>5, <2>6
  <2> HIDE DEF Solves
  <2> QED
    BY <2>4, <2>7
<1> HIDE DEF T
<1>7. \A n \in 0 .. m : n \in T
  BY <1>1, <1>5, <1>6, InductionUpTo
<1>8. m \in T
  BY <1>1, <1>7
<1>9. PICK f \in [Small(m) -> V] : Solves(f, m)
  BY <1>8 DEF T
<1>10. Small(m) = SUBSET S
  BY <1>1, <1>2
<1> QED
  BY <1>9, <1>10 DEF Folds

=============================================================================
