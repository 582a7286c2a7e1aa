------------------------------ MODULE FoldFacts ------------------------------
(* What a fold over a sequence computes, and induction over the numbers, for *)
(* the proofs about parsers.  An instance of this module gives op a meaning. *)
EXTENDS Integers, Sequences, SequencesExt, WellFoundedInduction, TLAPS

CONSTANT op(_, _)

(* A set of numbers with 0 and the successors of its elements is all of Nat: *)
(* induction as a statement about sets.                                      *)
THEOREM NatSetInduction ==
  ASSUME NEW S \in SUBSET Nat, 0 \in S, \A n \in S : n + 1 \in S
  PROVE  S = Nat
<1> DEFINE R == OpToRel(<, Nat)
<1> DEFINE T == Nat \ S
<1>1. IsWellFoundedOn(R, Nat)
  BY NatLessThanWellFounded
<1>2. \A x, y \in Nat : y < x => <<y, x>> \in R
  BY DEF OpToRel
<1> HIDE DEF R
<1>3. ASSUME T # {} PROVE FALSE
  <2>1. T \subseteq Nat
    OBVIOUS
  <2> HIDE DEF T
  <2>2. PICK x \in T : \A y \in T : ~ (<<y, x>> \in R)
    BY <1>1, <1>3, <2>1, WFMin
  <2>3. x - 1 \in T
    BY <2>1 DEF T
  <2>4. x \in Nat /\ x - 1 \in Nat
    BY <2>1, <2>3
  <2>5. <<x - 1, x>> \in R
    BY <2>4, <1>2
  <2> QED BY <2>2, <2>3, <2>5
<1> QED BY <1>3

-----------------------------------------------------------------------------
Fold(b, s) == FoldLeft(op, b, s)

(* The definition of FoldLeft takes the largest index away, one by one.      *)
Step(b, s, g, t) == IF t = {} THEN b ELSE op(g[t \ {Max(t)}], s[Max(t)])
Iter(b, s) == CHOOSE g : g = [t \in SUBSET (DOMAIN s) |-> Step(b, s, g, t)]

LEMMA FoldIsIter == ASSUME NEW b, NEW s PROVE Fold(b, s) = Iter(b, s)[DOMAIN s]
BY DEF Fold, FoldLeft, MapThenFoldSet, Iter, Step

LEMMA MaxBounded ==
  ASSUME NEW k \in Nat, NEW t \in SUBSET (1..(k + 1)), k + 1 \in t
  PROVE  Max(t) = k + 1
<1>1. \A y \in t : k + 1 >= y
  OBVIOUS
<1>2. \A x \in t : (\A y \in t : x >= y) => x = k + 1
  OBVIOUS
<1> QED BY <1>1, <1>2 DEF Max

(* Such a function exists. *)
LEMMA IterExists ==
  ASSUME NEW b, NEW s, NEW n \in Nat, DOMAIN s = 1..n
  PROVE  Iter(b, s) = [t \in SUBSET (1..n) |-> Step(b, s, Iter(b, s), t)]
<1> DEFINE Good(g, k) == \A t \in SUBSET (1..n) : t \subseteq 1..k => g[t] = Step(b, s, g, t)
<1> DEFINE N == {k \in Nat : \E g : Good(g, k)}
<1>1. N \in SUBSET Nat
  OBVIOUS
<1>2. 0 \in N
  <2> DEFINE g == [t \in SUBSET (1..n) |-> b]
  <2>1. Good(g, 0)
    BY DEF Step
  <2> HIDE DEF Good
  <2> QED BY <2>1
<1>3. ASSUME NEW k \in N PROVE k + 1 \in N
  <2>1. PICK g : Good(g, k)
    OBVIOUS
  <2> DEFINE h == [t \in SUBSET (1..n) |-> IF t \subseteq 1..k THEN g[t] ELSE Step(b, s, g, t)]
  <2>2. ASSUME NEW t \in SUBSET (1..n), t \subseteq 1..k PROVE h[t] = Step(b, s, h, t)
    <3>1. h[t] = g[t] /\ g[t] = Step(b, s, g, t)
      BY <2>1, <2>2
    <3>2. t \ {Max(t)} \in SUBSET (1..n) /\ t \ {Max(t)} \subseteq 1..k
      BY <2>2
    <3>3. h[t \ {Max(t)}] = g[t \ {Max(t)}]
      BY <3>2
    <3> HIDE DEF h
    <3> QED BY <3>1, <3>3 DEF Step
  <2>3. ASSUME NEW t \in SUBSET (1..n), t \subseteq 1..(k + 1), ~(t \subseteq 1..k)
        PROVE h[t] = Step(b, s, h, t)
    <3>1. k + 1 \in t
      BY <2>3
    <3>2. Max(t) = k + 1
      BY <2>3, <3>1, MaxBounded
    <3>3. t \ {Max(t)} \in SUBSET (1..n) /\ t \ {Max(t)} \subseteq 1..k
      BY <2>3, <3>2
    <3>4. h[t \ {Max(t)}] = g[t \ {Max(t)}]
      BY <3>3
    <3>5. h[t] = Step(b, s, g, t)
      BY <2>3
    <3> HIDE DEF h
    <3> QED BY <3>4, <3>5 DEF Step
  <2>4. Good(h, k + 1)
    <3> HIDE DEF h
    <3> QED BY <2>2, <2>3
  <2>5. k + 1 \in Nat
    OBVIOUS
  <2> HIDE DEF Good, h
  <2> QED BY <2>4, <2>5
<1>4. N = Nat
  <2> HIDE DEF N
  <2> QED BY <1>1, <1>2, <1>3, NatSetInduction
<1>5. PICK g : Good(g, n)
  BY <1>4
<1> DEFINE h == [t \in SUBSET (1..n) |-> g[t]]
<1>6. ASSUME NEW t \in SUBSET (1..n) PROVE h[t] = Step(b, s, h, t)
  <2>1. h[t] = g[t] /\ g[t] = Step(b, s, g, t)
    BY <1>5
  <2>2. h[t \ {Max(t)}] = g[t \ {Max(t)}]
    OBVIOUS
  <2> HIDE DEF h
  <2> QED BY <2>1, <2>2 DEF Step
<1>7. h = [t \in SUBSET (1..n) |-> Step(b, s, h, t)]
  <2>1. h = [t \in SUBSET (1..n) |-> h[t]]
    OBVIOUS
  <2> HIDE DEF h
  <2> QED BY <1>6, <2>1
<1> HIDE DEF h
<1>8. \E f : f = [t \in SUBSET (1..n) |-> Step(b, s, f, t)]
  BY <1>7
<1> QED BY <1>8 DEF Iter

LEMMA IterStarts ==
  ASSUME NEW b, NEW s, NEW n \in Nat, DOMAIN s = 1..n
  PROVE  Iter(b, s)[1..0] = b
<1>1. Iter(b, s) = [t \in SUBSET (1..n) |-> Step(b, s, Iter(b, s), t)]
  BY IterExists
<1>2. 1..0 = {} /\ 1..0 \in SUBSET (1..n)
  OBVIOUS
<1> QED BY <1>1, <1>2 DEF Step

LEMMA IterSteps ==
  ASSUME NEW b, NEW s, NEW n \in Nat, DOMAIN s = 1..n, NEW k \in 0..(n - 1)
  PROVE  Iter(b, s)[1..(k + 1)] = op(Iter(b, s)[1..k], s[k + 1])
<1> DEFINE g == Iter(b, s)
<1>1. g = [t \in SUBSET (1..n) |-> Step(b, s, g, t)]
  BY IterExists
<1> HIDE DEF g
<1>2. \A t \in SUBSET (1..n) : g[t] = Step(b, s, g, t)
  BY <1>1
<1> DEFINE t == 1..(k + 1)
<1>3. k \in Nat /\ k + 1 <= n
  OBVIOUS
<1>4. k + 1 \in t /\ t \in SUBSET (1..n) /\ t # {} /\ t \in SUBSET (1..(k + 1)) /\ t \ {k + 1} = 1..k
  BY <1>3
<1> HIDE DEF t
<1>5. Max(t) = k + 1
  BY <1>3, <1>4, MaxBounded
<1>6. g[t] = op(g[1..k], s[k + 1])
  BY <1>2, <1>4, <1>5 DEF Step
<1> QED BY <1>6 DEF g, t

(* On the first k indices the iteration does not depend on the rest of s.    *)
LEMMA IterAgrees ==
  ASSUME NEW b, NEW s, NEW r, NEW n \in Nat, NEW m \in Nat, DOMAIN s = 1..n, DOMAIN r = 1..m,
         m <= n, \A i \in 1..m : r[i] = s[i]
  PROVE  \A k \in 0..m : Iter(b, r)[1..k] = Iter(b, s)[1..k]
<1> DEFINE N == {k \in Nat : k <= m => Iter(b, r)[1..k] = Iter(b, s)[1..k]}
<1>1. N \in SUBSET Nat
  OBVIOUS
<1>2. 0 \in N
  <2>1. Iter(b, r)[1..0] = b /\ Iter(b, s)[1..0] = b
    BY IterStarts
  <2> QED BY <2>1
<1>3. ASSUME NEW k \in N PROVE k + 1 \in N
  <2>1. CASE k + 1 > m
    BY <2>1
  <2>2. CASE k + 1 <= m
    <3>1. k \in 0..(m - 1) /\ k \in 0..(n - 1) /\ k + 1 \in 1..m
      BY <2>2
    <3>2. Iter(b, r)[1..(k + 1)] = op(Iter(b, r)[1..k], r[k + 1])
      <4> HIDE DEF N
      <4> QED BY <3>1, IterSteps
    <3>3. Iter(b, s)[1..(k + 1)] = op(Iter(b, s)[1..k], s[k + 1])
      <4> HIDE DEF N
      <4> QED BY <3>1, IterSteps
    <3> QED BY <2>2, <3>1, <3>2, <3>3
  <2> QED BY <2>1, <2>2
<1>4. N = Nat
  <2> HIDE DEF N
  <2> QED BY <1>1, <1>2, <1>3, NatSetInduction
<1> QED BY <1>4

-----------------------------------------------------------------------------
THEOREM FoldOfEmpty == ASSUME NEW b PROVE Fold(b, <<>>) = b
<1> DEFINE s == <<>>
<1>1. DOMAIN s = 1..0 /\ 0 \in Nat
  OBVIOUS
<1> HIDE DEF s
<1>2. Fold(b, s) = b
  BY <1>1, IterStarts, FoldIsIter
<1> QED BY <1>2 DEF s

(* A fold over the elements up to some index, and one element more.          *)
LEMMA FoldIsPrefix ==
  ASSUME NEW b, NEW S, NEW s \in Seq(S), NEW k \in 0..Len(s)
  PROVE  Fold(b, SubSeq(s, 1, k)) = Iter(b, s)[1..k]
<1> DEFINE n == Len(s)
<1> DEFINE r == SubSeq(s, 1, k)
<1>1. n \in Nat /\ DOMAIN s = 1..n /\ k \in Nat /\ k <= n
  OBVIOUS
<1>2. DOMAIN r = 1..k /\ \A i \in 1..k : r[i] = s[i]
  OBVIOUS
<1> HIDE DEF n, r
<1>3. \A j \in 0..k : Iter(b, r)[1..j] = Iter(b, s)[1..j]
  BY <1>1, <1>2, IterAgrees
<1>4. Iter(b, r)[1..k] = Iter(b, s)[1..k]
  BY <1>1, <1>3
<1>5. Fold(b, r) = Iter(b, s)[1..k]
  BY <1>2, <1>4, FoldIsIter
<1> QED BY <1>5 DEF r

THEOREM FoldOfPrefix ==
  ASSUME NEW b, NEW S, NEW s \in Seq(S), NEW k \in 0..(Len(s) - 1)
  PROVE  Fold(b, SubSeq(s, 1, k + 1)) = op(Fold(b, SubSeq(s, 1, k)), s[k + 1])
<1>1. Len(s) \in Nat /\ DOMAIN s = 1..Len(s) /\ k \in 0..Len(s) /\ k + 1 \in 0..Len(s)
  OBVIOUS
<1>2. Fold(b, SubSeq(s, 1, k)) = Iter(b, s)[1..k]
  BY <1>1, FoldIsPrefix
<1>3. Fold(b, SubSeq(s, 1, k + 1)) = Iter(b, s)[1..(k + 1)]
  BY <1>1, FoldIsPrefix
<1>4. Iter(b, s)[1..(k + 1)] = op(Iter(b, s)[1..k], s[k + 1])
  BY <1>1, IterSteps
<1> QED BY <1>2, <1>3, <1>4

THEOREM FoldOfAppend ==
  ASSUME NEW b, NEW S, NEW s \in Seq(S), NEW x \in S
  PROVE  Fold(b, Append(s, x)) = op(Fold(b, s), x)
<1> DEFINE t == Append(s, x)
<1> DEFINE n == Len(s)
<1>1. /\ t \in Seq(S) /\ Len(t) = n + 1 /\ t[n + 1] = x
      /\ SubSeq(t, 1, n) = s /\ n \in 0..(Len(t) - 1) /\ SubSeq(t, 1, n + 1) = t
  OBVIOUS
<1> HIDE DEF t, n
<1>2. Fold(b, SubSeq(t, 1, n + 1)) = op(Fold(b, SubSeq(t, 1, n)), t[n + 1])
  BY ONLY <1>1, FoldOfPrefix
<1>3. Fold(b, t) = op(Fold(b, s), x)
  BY <1>1, <1>2
<1> QED BY <1>3 DEF t
=============================================================================
