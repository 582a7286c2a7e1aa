---------------------------- MODULE PacketProofs ----------------------------
(***************************************************************************)
(* Proofs about Packet, for buffers of any number and size, chunks of any  *)
(* capacity and any cuts of the stream: every chunk has exactly the        *)
(* references that its counter says (RefsCounted).                         *)
(*                                                                         *)
(* A heap is Owned by whoever holds references, given as how many there    *)
(* are to each chunk besides the links between chunks.  Every function of  *)
(* ByteBuffer gets a lemma: what it leaves is owned by its caller, and is  *)
(* Kept for all the others, the chunks that they refer to as well as those *)
(* behind them.  A loop is the function that it computes round by round    *)
(* (RoundByRound), with its own invariant.                                 *)
(*                                                                         *)
(* The invariant, Good, says who holds the references and that each holder *)
(* has what it counts on: a buffer's bytes are in its list (BufferOk), the *)
(* decoder's bytes end where those end that the socket has read (Meet).    *)
(***************************************************************************)
EXTENDS Packet, FiniteSetTheorems, SequenceTheorems, WellFoundedInduction, TLAPS

-----------------------------------------------------------------------------
(* The loops. Repeated computes a function round by round; what a round    *)
(* does is one operator here, with the name of the loop, so that the       *)
(* function is shown to exist once for all of them.                        *)

(* Induction over numbers, with a set for the predicate. *)
LEMMA NatSetInduction ==
  ASSUME NEW S \in SUBSET Nat, 0 \in S, \A n \in S : n + 1 \in S
  PROVE  S = Nat
<1> DEFINE R == OpToRel(<, Nat)
<1> DEFINE T == Nat \ S
<1>1. IsWellFoundedOn(R, Nat)
  BY NatLessThanWellFounded
<1>2. \A x, y \in Nat : y < x => <<y, x>> \in R
  BY DEF OpToRel
<1> HIDE DEF R
<1>3. ASSUME T # {} PROVE FALSE
  <2>1. T \subseteq Nat
    OBVIOUS
  <2> HIDE DEF T
  <2>2. PICK x \in T : \A y \in T : ~ (<<y, x>> \in R)
    BY <1>1, <1>3, <2>1, WFMin
  <2>3. x - 1 \in T
    BY <2>1 DEF T
  <2>4. x \in Nat /\ x - 1 \in Nat
    BY <2>1, <2>3
  <2>5. <<x - 1, x>> \in R
    BY <2>4, <1>2
  <2> QED BY <2>2, <2>3, <2>5
<1> QED BY <1>3

(* What a round of each loop does. *)
Round(w, loop) ==
  CASE loop = "Doubled" -> Doubled(w)
    [] loop = "Raised" -> Raised(w)
    [] loop = "Joined" -> Joined(w)
    [] loop = "LetGo" -> LetGo(w)
    [] loop = "PlaceTaken" -> PlaceTaken(w)
    [] loop = "AppendSome" -> AppendSome(w)
    [] loop = "DrainSome" -> DrainSome(w)
    [] loop = "SendSome" -> SendSome(w)
    [] loop = "SendFirst" -> SendFirst(w)
    [] loop = "Gathered" -> Gathered(w)
    [] loop = "PassSome" -> PassSome(w)
    [] loop = "ReadSome" -> ReadSome(w)
    [] loop = "Finalized" -> Finalized(w)

IsAfter(f, n, start, loop) ==
  f = [k \in 0..n |-> IF k = 0 THEN start ELSE Round(f[k - 1], loop)]

(* A loop makes one round after the other. *)
LEMMA RoundByRound ==
  ASSUME NEW n \in Nat, NEW start, NEW loop
  PROVE  \E f : IsAfter(f, n, start, loop)
<1> DEFINE To(f, k) == f[0] = start /\ \A i \in 1..k : f[i] = Round(f[i - 1], loop)
<1> DEFINE N == {k \in Nat : \E f : To(f, k)}
<1>1. N \in SUBSET Nat
  OBVIOUS
<1>2. 0 \in N
  <2> DEFINE f == [k \in {0} |-> start]
  <2>1. To(f, 0)
    OBVIOUS
  <2> HIDE DEF To
  <2> QED BY <2>1
<1>3. ASSUME NEW k \in N PROVE k + 1 \in N
  <2>1. k \in Nat /\ k + 1 \in Nat
    BY <1>1
  <2>2. PICK f : To(f, k)
    OBVIOUS
  <2> DEFINE g == [i \in 0..(k + 1) |-> IF i = k + 1 THEN Round(f[k], loop) ELSE f[i]]
  <2>3. g[0] = start
    BY <2>1, <2>2
  <2>4. ASSUME NEW i \in 1..(k + 1) PROVE g[i] = Round(g[i - 1], loop)
    <3>1. i - 1 \in 0..k /\ i \in 0..(k + 1) /\ i - 1 \in 0..(k + 1) /\ i - 1 # k + 1
      BY <2>1
    <3>2. g[i - 1] = f[i - 1]
      BY <3>1
    <3>3. CASE i = k + 1
      BY <3>1, <3>2, <3>3
    <3>4. CASE i # k + 1
      <4>1. i \in 1..k
        BY <2>1, <3>4
      <4>2. f[i] = Round(f[i - 1], loop)
        BY <2>2, <4>1
      <4> QED BY <3>1, <3>2, <3>4, <4>2
    <3> QED BY <3>3, <3>4
  <2>5. To(g, k + 1)
    <3> HIDE DEF g
    <3> QED BY <2>3, <2>4
  <2> HIDE DEF To, g
  <2> QED BY <2>1, <2>5
<1>4. N = Nat
  <2> HIDE DEF N
  <2> QED BY <1>1, <1>2, <1>3, NatSetInduction
<1>5. PICK g : To(g, n)
  BY <1>4
<1> DEFINE h == [k \in 0..n |-> g[k]]
<1>6. ASSUME NEW k \in 0..n PROVE h[k] = IF k = 0 THEN start ELSE Round(h[k - 1], loop)
  <2>1. CASE k = 0
    BY <1>5, <2>1
  <2>2. CASE k # 0
    <3>1. k \in 1..n /\ k - 1 \in 0..n
      BY <2>2
    <3>2. h[k] = g[k] /\ h[k - 1] = g[k - 1] /\ g[k] = Round(g[k - 1], loop)
      BY <1>5, <3>1
    <3> HIDE DEF h
    <3> QED BY <2>2, <3>2
  <2> QED BY <2>1, <2>2
<1>7. h = [k \in 0..n |-> IF k = 0 THEN start ELSE Round(h[k - 1], loop)]
  <2>1. h = [k \in 0..n |-> h[k]]
    OBVIOUS
  <2> HIDE DEF h
  <2> QED BY <1>6, <2>1
<1> QED BY <1>7 DEF IsAfter

DoubledAll(n, start) == Repeated(Doubled, n, start)

LEMMA DoubledRounds ==
  ASSUME NEW n \in Nat, NEW start
  PROVE  \E f : /\ f[0] = start /\ DoubledAll(n, start) = f[n]
                /\ \A k \in 0..(n - 1) : f[k + 1] = Doubled(f[k])
<1> DEFINE A == CHOOSE f : f = [k \in 0..n |-> IF k = 0 THEN start ELSE Doubled(f[k - 1])]
<1>1. DoubledAll(n, start) = A[n]
  BY DEF DoubledAll, Repeated
<1>2. \A w : Round(w, "Doubled") = Doubled(w)
  BY DEF Round
<1>3. PICK f : IsAfter(f, n, start, "Doubled")
  BY RoundByRound
<1>4. f = [k \in 0..n |-> IF k = 0 THEN start ELSE Doubled(f[k - 1])]
  <2>1. f = [k \in 0..n |-> IF k = 0 THEN start ELSE Round(f[k - 1], "Doubled")]
    BY <1>3 DEF IsAfter
  <2> QED BY <1>2, <2>1
<1>5. A = [k \in 0..n |-> IF k = 0 THEN start ELSE Doubled(A[k - 1])]
  BY <1>4
<1> HIDE DEF A
<1> QED BY <1>1, <1>5

RaisedAll(n, start) == Repeated(Raised, n, start)

LEMMA RaisedRounds ==
  ASSUME NEW n \in Nat, NEW start
  PROVE  \E f : /\ f[0] = start /\ RaisedAll(n, start) = f[n]
                /\ \A k \in 0..(n - 1) : f[k + 1] = Raised(f[k])
<1> DEFINE A == CHOOSE f : f = [k \in 0..n |-> IF k = 0 THEN start ELSE Raised(f[k - 1])]
<1>1. RaisedAll(n, start) = A[n]
  BY DEF RaisedAll, Repeated
<1>2. \A w : Round(w, "Raised") = Raised(w)
  BY DEF Round
<1>3. PICK f : IsAfter(f, n, start, "Raised")
  BY RoundByRound
<1>4. f = [k \in 0..n |-> IF k = 0 THEN start ELSE Raised(f[k - 1])]
  <2>1. f = [k \in 0..n |-> IF k = 0 THEN start ELSE Round(f[k - 1], "Raised")]
    BY <1>3 DEF IsAfter
  <2> QED BY <1>2, <2>1
<1>5. A = [k \in 0..n |-> IF k = 0 THEN start ELSE Raised(A[k - 1])]
  BY <1>4
<1> HIDE DEF A
<1> QED BY <1>1, <1>5

JoinedAll(n, start) == Repeated(Joined, n, start)

LEMMA JoinedRounds ==
  ASSUME NEW n \in Nat, NEW start
  PROVE  \E f : /\ f[0] = start /\ JoinedAll(n, start) = f[n]
                /\ \A k \in 0..(n - 1) : f[k + 1] = Joined(f[k])
<1> DEFINE A == CHOOSE f : f = [k \in 0..n |-> IF k = 0 THEN start ELSE Joined(f[k - 1])]
<1>1. JoinedAll(n, start) = A[n]
  BY DEF JoinedAll, Repeated
<1>2. \A w : Round(w, "Joined") = Joined(w)
  BY DEF Round
<1>3. PICK f : IsAfter(f, n, start, "Joined")
  BY RoundByRound
<1>4. f = [k \in 0..n |-> IF k = 0 THEN start ELSE Joined(f[k - 1])]
  <2>1. f = [k \in 0..n |-> IF k = 0 THEN start ELSE Round(f[k - 1], "Joined")]
    BY <1>3 DEF IsAfter
  <2> QED BY <1>2, <2>1
<1>5. A = [k \in 0..n |-> IF k = 0 THEN start ELSE Joined(A[k - 1])]
  BY <1>4
<1> HIDE DEF A
<1> QED BY <1>1, <1>5

LetGoAll(n, start) == Repeated(LetGo, n, start)

LEMMA LetGoRounds ==
  ASSUME NEW n \in Nat, NEW start
  PROVE  \E f : /\ f[0] = start /\ LetGoAll(n, start) = f[n]
                /\ \A k \in 0..(n - 1) : f[k + 1] = LetGo(f[k])
<1> DEFINE A == CHOOSE f : f = [k \in 0..n |-> IF k = 0 THEN start ELSE LetGo(f[k - 1])]
<1>1. LetGoAll(n, start) = A[n]
  BY DEF LetGoAll, Repeated
<1>2. \A w : Round(w, "LetGo") = LetGo(w)
  BY DEF Round
<1>3. PICK f : IsAfter(f, n, start, "LetGo")
  BY RoundByRound
<1>4. f = [k \in 0..n |-> IF k = 0 THEN start ELSE LetGo(f[k - 1])]
  <2>1. f = [k \in 0..n |-> IF k = 0 THEN start ELSE Round(f[k - 1], "LetGo")]
    BY <1>3 DEF IsAfter
  <2> QED BY <1>2, <2>1
<1>5. A = [k \in 0..n |-> IF k = 0 THEN start ELSE LetGo(A[k - 1])]
  BY <1>4
<1> HIDE DEF A
<1> QED BY <1>1, <1>5

PlaceTakenAll(n, start) == Repeated(PlaceTaken, n, start)

LEMMA PlaceTakenRounds ==
  ASSUME NEW n \in Nat, NEW start
  PROVE  \E f : /\ f[0] = start /\ PlaceTakenAll(n, start) = f[n]
                /\ \A k \in 0..(n - 1) : f[k + 1] = PlaceTaken(f[k])
<1> DEFINE A == CHOOSE f : f = [k \in 0..n |-> IF k = 0 THEN start ELSE PlaceTaken(f[k - 1])]
<1>1. PlaceTakenAll(n, start) = A[n]
  BY DEF PlaceTakenAll, Repeated
<1>2. \A w : Round(w, "PlaceTaken") = PlaceTaken(w)
  BY DEF Round
<1>3. PICK f : IsAfter(f, n, start, "PlaceTaken")
  BY RoundByRound
<1>4. f = [k \in 0..n |-> IF k = 0 THEN start ELSE PlaceTaken(f[k - 1])]
  <2>1. f = [k \in 0..n |-> IF k = 0 THEN start ELSE Round(f[k - 1], "PlaceTaken")]
    BY <1>3 DEF IsAfter
  <2> QED BY <1>2, <2>1
<1>5. A = [k \in 0..n |-> IF k = 0 THEN start ELSE PlaceTaken(A[k - 1])]
  BY <1>4
<1> HIDE DEF A
<1> QED BY <1>1, <1>5

AppendSomeAll(n, start) == Repeated(AppendSome, n, start)

LEMMA AppendSomeRounds ==
  ASSUME NEW n \in Nat, NEW start
  PROVE  \E f : /\ f[0] = start /\ AppendSomeAll(n, start) = f[n]
                /\ \A k \in 0..(n - 1) : f[k + 1] = AppendSome(f[k])
<1> DEFINE A == CHOOSE f : f = [k \in 0..n |-> IF k = 0 THEN start ELSE AppendSome(f[k - 1])]
<1>1. AppendSomeAll(n, start) = A[n]
  BY DEF AppendSomeAll, Repeated
<1>2. \A w : Round(w, "AppendSome") = AppendSome(w)
  BY DEF Round
<1>3. PICK f : IsAfter(f, n, start, "AppendSome")
  BY RoundByRound
<1>4. f = [k \in 0..n |-> IF k = 0 THEN start ELSE AppendSome(f[k - 1])]
  <2>1. f = [k \in 0..n |-> IF k = 0 THEN start ELSE Round(f[k - 1], "AppendSome")]
    BY <1>3 DEF IsAfter
  <2> QED BY <1>2, <2>1
<1>5. A = [k \in 0..n |-> IF k = 0 THEN start ELSE AppendSome(A[k - 1])]
  BY <1>4
<1> HIDE DEF A
<1> QED BY <1>1, <1>5

DrainSomeAll(n, start) == Repeated(DrainSome, n, start)

LEMMA DrainSomeRounds ==
  ASSUME NEW n \in Nat, NEW start
  PROVE  \E f : /\ f[0] = start /\ DrainSomeAll(n, start) = f[n]
                /\ \A k \in 0..(n - 1) : f[k + 1] = DrainSome(f[k])
<1> DEFINE A == CHOOSE f : f = [k \in 0..n |-> IF k = 0 THEN start ELSE DrainSome(f[k - 1])]
<1>1. DrainSomeAll(n, start) = A[n]
  BY DEF DrainSomeAll, Repeated
<1>2. \A w : Round(w, "DrainSome") = DrainSome(w)
  BY DEF Round
<1>3. PICK f : IsAfter(f, n, start, "DrainSome")
  BY RoundByRound
<1>4. f = [k \in 0..n |-> IF k = 0 THEN start ELSE DrainSome(f[k - 1])]
  <2>1. f = [k \in 0..n |-> IF k = 0 THEN start ELSE Round(f[k - 1], "DrainSome")]
    BY <1>3 DEF IsAfter
  <2> QED BY <1>2, <2>1
<1>5. A = [k \in 0..n |-> IF k = 0 THEN start ELSE DrainSome(A[k - 1])]
  BY <1>4
<1> HIDE DEF A
<1> QED BY <1>1, <1>5

SendSomeAll(n, start) == Repeated(SendSome, n, start)

LEMMA SendSomeRounds ==
  ASSUME NEW n \in Nat, NEW start
  PROVE  \E f : /\ f[0] = start /\ SendSomeAll(n, start) = f[n]
                /\ \A k \in 0..(n - 1) : f[k + 1] = SendSome(f[k])
<1> DEFINE A == CHOOSE f : f = [k \in 0..n |-> IF k = 0 THEN start ELSE SendSome(f[k - 1])]
<1>1. SendSomeAll(n, start) = A[n]
  BY DEF SendSomeAll, Repeated
<1>2. \A w : Round(w, "SendSome") = SendSome(w)
  BY DEF Round
<1>3. PICK f : IsAfter(f, n, start, "SendSome")
  BY RoundByRound
<1>4. f = [k \in 0..n |-> IF k = 0 THEN start ELSE SendSome(f[k - 1])]
  <2>1. f = [k \in 0..n |-> IF k = 0 THEN start ELSE Round(f[k - 1], "SendSome")]
    BY <1>3 DEF IsAfter
  <2> QED BY <1>2, <2>1
<1>5. A = [k \in 0..n |-> IF k = 0 THEN start ELSE SendSome(A[k - 1])]
  BY <1>4
<1> HIDE DEF A
<1> QED BY <1>1, <1>5

SendFirstAll(n, start) == Repeated(SendFirst, n, start)

LEMMA SendFirstRounds ==
  ASSUME NEW n \in Nat, NEW start
  PROVE  \E f : /\ f[0] = start /\ SendFirstAll(n, start) = f[n]
                /\ \A k \in 0..(n - 1) : f[k + 1] = SendFirst(f[k])
<1> DEFINE A == CHOOSE f : f = [k \in 0..n |-> IF k = 0 THEN start ELSE SendFirst(f[k - 1])]
<1>1. SendFirstAll(n, start) = A[n]
  BY DEF SendFirstAll, Repeated
<1>2. \A w : Round(w, "SendFirst") = SendFirst(w)
  BY DEF Round
<1>3. PICK f : IsAfter(f, n, start, "SendFirst")
  BY RoundByRound
<1>4. f = [k \in 0..n |-> IF k = 0 THEN start ELSE SendFirst(f[k - 1])]
  <2>1. f = [k \in 0..n |-> IF k = 0 THEN start ELSE Round(f[k - 1], "SendFirst")]
    BY <1>3 DEF IsAfter
  <2> QED BY <1>2, <2>1
<1>5. A = [k \in 0..n |-> IF k = 0 THEN start ELSE SendFirst(A[k - 1])]
  BY <1>4
<1> HIDE DEF A
<1> QED BY <1>1, <1>5

GatheredAll(n, start) == Repeated(Gathered, n, start)

LEMMA GatheredRounds ==
  ASSUME NEW n \in Nat, NEW start
  PROVE  \E f : /\ f[0] = start /\ GatheredAll(n, start) = f[n]
                /\ \A k \in 0..(n - 1) : f[k + 1] = Gathered(f[k])
<1> DEFINE A == CHOOSE f : f = [k \in 0..n |-> IF k = 0 THEN start ELSE Gathered(f[k - 1])]
<1>1. GatheredAll(n, start) = A[n]
  BY DEF GatheredAll, Repeated
<1>2. \A w : Round(w, "Gathered") = Gathered(w)
  BY DEF Round
<1>3. PICK f : IsAfter(f, n, start, "Gathered")
  BY RoundByRound
<1>4. f = [k \in 0..n |-> IF k = 0 THEN start ELSE Gathered(f[k - 1])]
  <2>1. f = [k \in 0..n |-> IF k = 0 THEN start ELSE Round(f[k - 1], "Gathered")]
    BY <1>3 DEF IsAfter
  <2> QED BY <1>2, <2>1
<1>5. A = [k \in 0..n |-> IF k = 0 THEN start ELSE Gathered(A[k - 1])]
  BY <1>4
<1> HIDE DEF A
<1> QED BY <1>1, <1>5

PassSomeAll(n, start) == Repeated(PassSome, n, start)

LEMMA PassSomeRounds ==
  ASSUME NEW n \in Nat, NEW start
  PROVE  \E f : /\ f[0] = start /\ PassSomeAll(n, start) = f[n]
                /\ \A k \in 0..(n - 1) : f[k + 1] = PassSome(f[k])
<1> DEFINE A == CHOOSE f : f = [k \in 0..n |-> IF k = 0 THEN start ELSE PassSome(f[k - 1])]
<1>1. PassSomeAll(n, start) = A[n]
  BY DEF PassSomeAll, Repeated
<1>2. \A w : Round(w, "PassSome") = PassSome(w)
  BY DEF Round
<1>3. PICK f : IsAfter(f, n, start, "PassSome")
  BY RoundByRound
<1>4. f = [k \in 0..n |-> IF k = 0 THEN start ELSE PassSome(f[k - 1])]
  <2>1. f = [k \in 0..n |-> IF k = 0 THEN start ELSE Round(f[k - 1], "PassSome")]
    BY <1>3 DEF IsAfter
  <2> QED BY <1>2, <2>1
<1>5. A = [k \in 0..n |-> IF k = 0 THEN start ELSE PassSome(A[k - 1])]
  BY <1>4
<1> HIDE DEF A
<1> QED BY <1>1, <1>5

ReadSomeAll(n, start) == Repeated(ReadSome, n, start)

LEMMA ReadSomeRounds ==
  ASSUME NEW n \in Nat, NEW start
  PROVE  \E f : /\ f[0] = start /\ ReadSomeAll(n, start) = f[n]
                /\ \A k \in 0..(n - 1) : f[k + 1] = ReadSome(f[k])
<1> DEFINE A == CHOOSE f : f = [k \in 0..n |-> IF k = 0 THEN start ELSE ReadSome(f[k - 1])]
<1>1. ReadSomeAll(n, start) = A[n]
  BY DEF ReadSomeAll, Repeated
<1>2. \A w : Round(w, "ReadSome") = ReadSome(w)
  BY DEF Round
<1>3. PICK f : IsAfter(f, n, start, "ReadSome")
  BY RoundByRound
<1>4. f = [k \in 0..n |-> IF k = 0 THEN start ELSE ReadSome(f[k - 1])]
  <2>1. f = [k \in 0..n |-> IF k = 0 THEN start ELSE Round(f[k - 1], "ReadSome")]
    BY <1>3 DEF IsAfter
  <2> QED BY <1>2, <2>1
<1>5. A = [k \in 0..n |-> IF k = 0 THEN start ELSE ReadSome(A[k - 1])]
  BY <1>4
<1> HIDE DEF A
<1> QED BY <1>1, <1>5

FinalizedAll(n, start) == Repeated(Finalized, n, start)

LEMMA FinalizedRounds ==
  ASSUME NEW n \in Nat, NEW start
  PROVE  \E f : /\ f[0] = start /\ FinalizedAll(n, start) = f[n]
                /\ \A k \in 0..(n - 1) : f[k + 1] = Finalized(f[k])
<1> DEFINE A == CHOOSE f : f = [k \in 0..n |-> IF k = 0 THEN start ELSE Finalized(f[k - 1])]
<1>1. FinalizedAll(n, start) = A[n]
  BY DEF FinalizedAll, Repeated
<1>2. \A w : Round(w, "Finalized") = Finalized(w)
  BY DEF Round
<1>3. PICK f : IsAfter(f, n, start, "Finalized")
  BY RoundByRound
<1>4. f = [k \in 0..n |-> IF k = 0 THEN start ELSE Finalized(f[k - 1])]
  <2>1. f = [k \in 0..n |-> IF k = 0 THEN start ELSE Round(f[k - 1], "Finalized")]
    BY <1>3 DEF IsAfter
  <2> QED BY <1>2, <2>1
<1>5. A = [k \in 0..n |-> IF k = 0 THEN start ELSE Finalized(A[k - 1])]
  BY <1>4
<1> HIDE DEF A
<1> QED BY <1>1, <1>5

(* Up to a number. *)
LEMMA CountUp ==
  ASSUME NEW n \in Nat, NEW N, 0 \in N, \A k \in 0..(n - 1) : k \in N => k + 1 \in N
  PROVE  n \in N
<1> DEFINE M == {k \in Nat : k <= n => k \in N}
<1>1. 0 \in M
  OBVIOUS
<1>2. ASSUME NEW k \in M PROVE k + 1 \in M
  <2>1. ASSUME k + 1 <= n PROVE k + 1 \in N
    <3>1. k \in 0..(n - 1) /\ k \in N
      BY <2>1
    <3> QED BY <3>1
  <2> QED BY <2>1
<1>3. M = Nat
  <2>1. M \in SUBSET Nat
    OBVIOUS
  <2> HIDE DEF M
  <2> QED BY <1>1, <1>2, <2>1, NatSetInduction
<1>4. n \in M
  <2> HIDE DEF M
  <2> QED BY <1>3
<1> QED BY <1>4

-----------------------------------------------------------------------------
(* Who refers to chunks. X[c] is how many references there are to chunk c  *)
(* but for those of other chunks, and Plus is one more; 0, which is NULL,  *)
(* may have any number.                                                    *)

One(x, c) == IF x = c THEN 1 ELSE 0
Plus(X, y) == [c \in Nat |-> X[c] + One(y, c)]
Pointing(h, c) == {d \in DOMAIN h : h[d].next = c}
In(h, c) == Cardinality(Pointing(h, c))

Chunk == [refcount : Nat, cap : Nat \ {0}, next : Nat, data : Seq(Nat)]
IsHeap(h) ==
  /\ DOMAIN h \in SUBSET (Nat \ {0}) /\ IsFiniteSet(DOMAIN h)
  /\ h \in [DOMAIN h -> Chunk]
  /\ \A c \in DOMAIN h : h[c].next \in DOMAIN h \cup {0} /\ Len(h[c].data) = h[c].cap
IsCount(X) == X \in [Nat -> Nat]
Owned(h, X) ==
  /\ IsHeap(h) /\ IsCount(X)
  /\ \A c \in DOMAIN h : h[c].refcount = X[c] + In(h, c)
  /\ \A c \in Nat \ {0} : X[c] > 0 => c \in DOMAIN h

LEMMA PlusCounts ==
  ASSUME NEW X, NEW y \in Nat, IsCount(X)
  PROVE  IsCount(Plus(X, y)) /\ \A c \in Nat : Plus(X, y)[c] = X[c] + One(y, c)
BY DEF IsCount, Plus, One

LEMMA PlusSwapped ==
  ASSUME NEW X, NEW y \in Nat, NEW z \in Nat, IsCount(X)
  PROVE  Plus(Plus(X, y), z) = Plus(Plus(X, z), y)
BY DEF IsCount, Plus, One

(* What a chunk of a heap is. *)
LEMMA ChunkFields ==
  ASSUME NEW h, IsHeap(h), NEW c \in DOMAIN h
  PROVE  /\ c \in Nat \ {0} /\ h[c] \in Chunk /\ h[c].refcount \in Nat /\ h[c].cap \in Nat \ {0}
         /\ h[c].next \in DOMAIN h \cup {0} /\ h[c].next \in Nat
         /\ h[c].data \in Seq(Nat) /\ Len(h[c].data) = h[c].cap
BY DEF IsHeap, Chunk

(* How many chunks are linked to one. *)
LEMMA InCounts ==
  ASSUME NEW h, IsHeap(h), NEW c
  PROVE  IsFiniteSet(Pointing(h, c)) /\ In(h, c) \in Nat
<1>1. Pointing(h, c) \in SUBSET (DOMAIN h) /\ IsFiniteSet(DOMAIN h)
  BY DEF Pointing, IsHeap
<1>2. IsFiniteSet(Pointing(h, c))
  BY <1>1, FS_Subset
<1> QED BY <1>2, FS_CardinalityType DEF In

(* A chunk that another one is linked to is referred to. *)
LEMMA InOfNext ==
  ASSUME NEW h, IsHeap(h), NEW d \in DOMAIN h
  PROVE  In(h, h[d].next) >= 1
<1>1. IsFiniteSet(Pointing(h, h[d].next)) /\ In(h, h[d].next) \in Nat
  BY InCounts
<1>2. d \in Pointing(h, h[d].next)
  BY DEF Pointing
<1>3. In(h, h[d].next) # 0
  BY <1>1, <1>2, FS_EmptySet DEF In
<1> QED BY <1>1, <1>3

LEMMA InGains ==
  ASSUME NEW h, NEW h2, IsHeap(h), IsHeap(h2), NEW c, NEW d,
         d \notin Pointing(h, c), Pointing(h2, c) = Pointing(h, c) \cup {d}
  PROVE  In(h2, c) = In(h, c) + 1
BY InCounts, FS_AddElement DEF In

LEMMA InLoses ==
  ASSUME NEW h, NEW h2, IsHeap(h), IsHeap(h2), NEW c, NEW d,
         d \in Pointing(h, c), Pointing(h2, c) = Pointing(h, c) \ {d}
  PROVE  In(h2, c) = In(h, c) - 1
BY InCounts, FS_RemoveElement DEF In

LEMMA ChunkCounted ==
  ASSUME NEW r \in Chunk, NEW n \in Nat
  PROVE  LET q == [r EXCEPT !.refcount = n]
         IN q \in Chunk /\ q.refcount = n /\ q.next = r.next /\ q.data = r.data /\ q.cap = r.cap
BY DEF Chunk
LEMMA ChunkLinked ==
  ASSUME NEW r \in Chunk, NEW n \in Nat
  PROVE  LET q == [r EXCEPT !.next = n]
         IN q \in Chunk /\ q.next = n /\ q.refcount = r.refcount /\ q.data = r.data /\ q.cap = r.cap
BY DEF Chunk

(* A heap with other counts. *)
LEMMA RetainOwned ==
  ASSUME NEW h, NEW X, NEW c \in DOMAIN h \cup {0}, Owned(h, X)
  PROVE  Owned(chk_bytechunk_retain(h, c), Plus(X, c))
<1> DEFINE h2 == chk_bytechunk_retain(h, c)
<1>0. IsHeap(h) /\ IsCount(X) /\ c \in Nat
  BY DEF Owned, IsHeap
<1>1. CASE c = 0
  <2>1. h2 = h
    BY <1>1 DEF chk_bytechunk_retain, NULL
  <2>2. \A d \in DOMAIN h : Plus(X, 0)[d] = X[d]
    BY <1>0 DEF IsHeap, IsCount, Plus, One
  <2>3. \A d \in Nat \ {0} : Plus(X, 0)[d] = X[d]
    BY <1>0 DEF IsCount, Plus, One
  <2>4. IsCount(Plus(X, 0))
    BY <1>0, PlusCounts
  <2> HIDE DEF h2
  <2> QED BY <1>1, <2>1, <2>2, <2>3, <2>4 DEF Owned, h2
<1>2. CASE c # 0
  <2>1. h2 = [h EXCEPT ![c].refcount = @ + 1] /\ c \in DOMAIN h
    BY <1>2 DEF chk_bytechunk_retain, NULL
  <2>2. \A d \in DOMAIN h : h[d] \in Chunk /\ d \in Nat \ {0}
    BY <1>0 DEF IsHeap
  <2>3. DOMAIN h2 = DOMAIN h /\ \A d \in DOMAIN h : h2[d] \in Chunk /\ h2[d].next = h[d].next
          /\ h2[d].data = h[d].data /\ h2[d].cap = h[d].cap
          /\ h2[d].refcount = h[d].refcount + One(c, d)
    <3> DEFINE q == [h[c] EXCEPT !.refcount = h[c].refcount + 1]
    <3>1. h2 = [h EXCEPT ![c] = q]
      BY <2>1
    <3>2. h[c] \in Chunk /\ h[c].refcount \in Nat /\ h[c].refcount + 1 \in Nat
      BY <2>1, <2>2, <1>0, ChunkFields
    <3>3. q \in Chunk /\ q.refcount = h[c].refcount + 1 /\ q.next = h[c].next /\ q.data = h[c].data /\ q.cap = h[c].cap
      BY <3>2, ChunkCounted
    <3>4. \A d \in DOMAIN h : h[d].refcount \in Nat
      BY <1>0, ChunkFields
    <3> HIDE DEF q, h2
    <3> QED BY <2>2, <3>1, <3>3, <3>4 DEF One
  <2>4. h2 = [d \in DOMAIN h |-> h2[d]]
    BY <2>1
  <2> HIDE DEF h2
  <2>5. IsHeap(h2)
    BY <1>0, <2>3, <2>4 DEF IsHeap
  <2>6. \A d : In(h2, d) = In(h, d)
    BY <2>3 DEF In, Pointing
  <2>7. IsCount(Plus(X, c)) /\ \A d \in Nat : Plus(X, c)[d] = X[d] + One(c, d)
    BY <1>0, PlusCounts
  <2>8. \A d \in DOMAIN h : X[d] \in Nat /\ In(h, d) \in Nat /\ One(c, d) \in Nat
    BY <1>0, <2>2, InCounts DEF IsCount, One
  <2>9. \A d \in DOMAIN h2 : h2[d].refcount = Plus(X, c)[d] + In(h2, d)
    BY <2>2, <2>3, <2>6, <2>7, <2>8 DEF Owned
  <2>10. \A d \in Nat \ {0} : Plus(X, c)[d] > 0 => d \in DOMAIN h2
    <3> TAKE d \in Nat \ {0}
    <3>1. X[d] \in Nat /\ Plus(X, c)[d] = X[d] + One(c, d)
      BY <1>0, <2>7 DEF IsCount
    <3> QED BY <2>1, <2>3, <3>1 DEF Owned, One
  <2> QED BY <2>5, <2>7, <2>9, <2>10 DEF Owned, h2
<1> QED BY <1>1, <1>2

-----------------------------------------------------------------------------
(* New chunks. *)

(* A new chunk has a name that no other one has. *)
LEMMA NextChunkIsNew ==
  ASSUME NEW h, IsHeap(h)
  PROVE  NextChunk(h) \in Nat \ {0} /\ NextChunk(h) \notin DOMAIN h
<1> DEFINE n == Cardinality(DOMAIN h)
<1>1. IsFiniteSet(DOMAIN h) /\ n \in Nat
  BY FS_CardinalityType DEF IsHeap
<1>2. ASSUME 1..(n + 1) \in SUBSET (DOMAIN h) PROVE FALSE
  <2>1. Cardinality(1..(n + 1)) <= n
    BY <1>1, <1>2, FS_Subset
  <2>2. Cardinality(1..(n + 1)) = n + 1
    <3> HIDE DEF n
    <3>1. 1 \in Int /\ n + 1 \in Int /\ ~(1 > n + 1) /\ (n + 1) - 1 + 1 = n + 1
      BY <1>1
    <3> QED BY <3>1, FS_Interval
  <2> HIDE DEF n
  <2> QED BY <1>1, <2>1, <2>2
<1>3. \E c \in 1..(n + 1) : c \notin DOMAIN h
  BY <1>2
<1>4. NextChunk(h) \in 1..(n + 1) /\ NextChunk(h) \notin DOMAIN h
  BY <1>3 DEF NextChunk
<1> HIDE DEF n
<1> QED BY <1>1, <1>4

DoubledEnough(w, n, k) == w.size = n /\ w.pow2 \in Nat /\ (w.pow2 >= n \/ w.pow2 >= k + 1)
(* A chunk has room for what it was made for. *)
LEMMA Pow2Enough ==
  ASSUME NEW n \in Nat
  PROVE  chk_size_of_pow2(n) \in Nat /\ chk_size_of_pow2(n) >= n
<1> DEFINE start == [pow2 |-> 1, size |-> n]
<1>0. start.pow2 = 1 /\ start = [pow2 |-> start.pow2, size |-> n]
  OBVIOUS
<1>6. chk_size_of_pow2(n) = DoubledAll(n, start).pow2
  BY DEF DoubledAll, chk_size_of_pow2
<1> HIDE DEF start
<1>1. PICK f : /\ f[0] = start /\ DoubledAll(n, start) = f[n]
               /\ \A k \in 0..(n - 1) : f[k + 1] = Doubled(f[k])
  BY DoubledRounds
<1> DEFINE N == {k \in Nat : k <= n => f[k].pow2 \in Nat /\ f[k] = [pow2 |-> f[k].pow2, size |-> n]
                                       /\ (f[k].pow2 >= n \/ f[k].pow2 >= k + 1)}
<1>2. 0 \in N
  BY <1>0, <1>1
<1>3. ASSUME NEW k \in N PROVE k + 1 \in N
  <2>1. CASE k + 1 <= n
    <3>1. /\ f[k].pow2 \in Nat /\ f[k] = [pow2 |-> f[k].pow2, size |-> n]
          /\ (f[k].pow2 >= n \/ f[k].pow2 >= k + 1)
      BY <2>1
    <3>2. f[k + 1] = IF f[k].pow2 < n THEN [f[k] EXCEPT !.pow2 = 2 * @] ELSE f[k]
      BY <1>1, <2>1, <3>1 DEF Doubled
    <3>3. CASE f[k].pow2 < n
      <4>1. f[k + 1] = [pow2 |-> 2 * f[k].pow2, size |-> n]
        BY <3>1, <3>2, <3>3
      <4> DEFINE p == f[k].pow2
      <4> HIDE DEF p
      <4>2. p \in Nat /\ (p >= n \/ p >= k + 1) /\ p < n
        BY <3>1, <3>3 DEF p
      <4>3. 2 * p \in Nat /\ 2 * p >= (k + 1) + 1
        BY <4>2
      <4>4. f[k + 1].pow2 = 2 * p
        BY <4>1 DEF p
      <4> QED BY <4>1, <4>3, <4>4 DEF p
    <3>4. CASE ~(f[k].pow2 < n)
      BY <3>1, <3>2, <3>4
    <3> QED BY <3>3, <3>4
  <2>2. CASE ~(k + 1 <= n)
    BY <2>2
  <2> QED BY <2>1, <2>2
<1>4. N = Nat
  <2>1. N \in SUBSET Nat
    OBVIOUS
  <2> HIDE DEF N
  <2> QED BY <1>2, <1>3, <2>1, NatSetInduction
<1>5. f[n].pow2 \in Nat /\ (f[n].pow2 >= n \/ f[n].pow2 >= n + 1)
  <2>1. n \in N
    <3> HIDE DEF N
    <3> QED BY <1>4
  <2>2. n <= n
    OBVIOUS
  <2> QED BY <2>1, <2>2
<1> QED BY <1>1, <1>5, <1>6

(* A new chunk is referred to by whoever made it. *)
IsNew(h, h2, c) ==
  /\ c \in Nat \ {0} /\ c \notin DOMAIN h /\ DOMAIN h2 = DOMAIN h \cup {c}
  /\ h2[c].next = 0 /\ h2[c].cap \in Nat \ {0} /\ \A d \in DOMAIN h : h2[d] = h[d]
LEMMA NewOwned ==
  ASSUME NEW h, NEW X, Owned(h, X), NEW len \in Nat, NEW in \in Seq(Nat)
  PROVE  /\ IsNew(h, chk_bytechunk_new(h, len, in), NextChunk(h))
         /\ Owned(chk_bytechunk_new(h, len, in), Plus(X, NextChunk(h)))
         /\ chk_bytechunk_new(h, len, in)[NextChunk(h)].cap >= len
<1> DEFINE c == NextChunk(h)
           h2 == chk_bytechunk_new(h, len, in)
           cap == Greatest(MinCap, chk_size_of_pow2(Greatest(len, 1)))
           data == [i \in 1..cap |-> IF i <= Len(in) THEN in[i] ELSE Unwritten]
           new == [refcount |-> 1, cap |-> cap, next |-> 0, data |-> data]
<1>1. IsHeap(h) /\ IsCount(X) /\ c \in Nat \ {0} /\ c \notin DOMAIN h
  BY NextChunkIsNew DEF Owned
<1>2. cap \in Nat \ {0} /\ cap >= len
  <2>1. Greatest(len, 1) \in Nat /\ Greatest(len, 1) >= len /\ Greatest(len, 1) >= 1
    BY DEF Greatest
  <2>2. chk_size_of_pow2(Greatest(len, 1)) \in Nat
        /\ chk_size_of_pow2(Greatest(len, 1)) >= Greatest(len, 1)
    BY <2>1, Pow2Enough
  <2> DEFINE p == chk_size_of_pow2(Greatest(len, 1))
             g == Greatest(len, 1)
  <2> HIDE DEF p, g
  <2>3. g \in Nat /\ g >= len /\ g >= 1 /\ p \in Nat /\ p >= g /\ MinCap \in Nat
    BY <2>1, <2>2, HeapAssumption DEF HeapAssumption, p, g
  <2>4. cap = Greatest(MinCap, p)
    BY DEF p, g
  <2> QED BY <2>3, <2>4 DEF Greatest
<1> HIDE DEF cap
<1>3. data \in Seq(Nat) /\ Len(data) = cap
  <2>1. \A i \in 1..cap : data[i] \in Nat
    <3> TAKE i \in 1..cap
    <3>1. CASE i <= Len(in)
      <4>1. i \in 1..Len(in)
        BY <3>1, <1>2
      <4> QED BY <4>1
    <3>2. CASE ~(i <= Len(in))
      BY <3>2, BaseAssumption DEF Unwritten, BaseAssumption
    <3> QED BY <3>1, <3>2
  <2>2. data = [i \in 1..cap |-> data[i]]
    OBVIOUS
  <2> HIDE DEF data
  <2> QED BY <1>2, <2>1, <2>2, IsASeq
<1> HIDE DEF data
<1>4. new \in Chunk /\ new.next = 0 /\ new.cap = cap /\ new.refcount = 1 /\ new.data = data
  BY <1>2, <1>3 DEF Chunk
<1>5. h2 = [x \in DOMAIN h \cup {c} |-> IF x = c THEN new ELSE h[x]]
  BY DEF chk_bytechunk_new, cap, data, NULL
<1> HIDE DEF new, h2, c
<1>6. /\ DOMAIN h2 = DOMAIN h \cup {c} /\ h2[c] = new /\ \A d \in DOMAIN h : h2[d] = h[d]
      /\ h2 = [d \in DOMAIN h2 |-> h2[d]]
  BY <1>1, <1>5
<1>7. IsHeap(h2)
  <2>1. IsFiniteSet(DOMAIN h \cup {c})
    BY <1>1, FS_AddElement DEF IsHeap
  <2>2. \A d \in DOMAIN h : h[d] \in Chunk /\ h[d].next \in DOMAIN h \cup {0} /\ Len(h[d].data) = h[d].cap
    BY <1>1, ChunkFields
  <2>3. \A d \in DOMAIN h2 : h2[d] \in Chunk /\ h2[d].next \in DOMAIN h2 \cup {0} /\ Len(h2[d].data) = h2[d].cap
    BY <1>3, <1>4, <1>6, <2>2
  <2> QED BY <1>1, <1>6, <2>1, <2>3 DEF IsHeap
<1>8. \A d \in Nat \ {0} : In(h2, d) = In(h, d)
  <2> TAKE d \in Nat \ {0}
  <2>1. Pointing(h2, d) = Pointing(h, d)
    BY <1>1, <1>4, <1>6 DEF Pointing
  <2> QED BY <2>1 DEF In
<1>9. In(h, c) = 0 /\ X[c] = 0
  <2>1. Pointing(h, c) = {}
    BY <1>1, ChunkFields DEF Pointing
  <2>2. X[c] \in Nat /\ ~(X[c] > 0)
    BY <1>1 DEF IsCount, Owned
  <2> QED BY <2>1, <2>2, FS_EmptySet DEF In
<1>10. IsCount(Plus(X, c)) /\ \A d \in Nat : Plus(X, c)[d] = X[d] + One(c, d)
  BY <1>1, PlusCounts
<1>11. \A d \in DOMAIN h2 : h2[d].refcount = Plus(X, c)[d] + In(h2, d)
  <2> TAKE d \in DOMAIN h2
  <2>1. CASE d = c
    BY <1>1, <1>4, <1>6, <1>8, <1>9, <1>10, <2>1 DEF One
  <2>2. CASE d # c
    <3>1. d \in DOMAIN h /\ d \in Nat \ {0} /\ X[d] \in Nat /\ In(h, d) \in Nat
      BY <1>1, <1>6, <2>2, ChunkFields, InCounts DEF IsCount
    <3>2. h[d].refcount = X[d] + In(h, d)
      BY <3>1 DEF Owned
    <3>3. Plus(X, c)[d] = X[d]
      BY <1>10, <2>2, <3>1 DEF One
    <3> QED BY <1>6, <1>8, <3>1, <3>2, <3>3
  <2> QED BY <2>1, <2>2
<1>12. \A d \in Nat \ {0} : Plus(X, c)[d] > 0 => d \in DOMAIN h2
  <2> TAKE d \in Nat \ {0}
  <2>1. X[d] \in Nat /\ Plus(X, c)[d] = X[d] + One(c, d)
    BY <1>1, <1>10 DEF IsCount
  <2> QED BY <1>6, <2>1 DEF Owned, One
<1>13. Owned(h2, Plus(X, c))
  BY <1>7, <1>10, <1>11, <1>12 DEF Owned
<1>14. IsNew(h, h2, c)
  BY <1>1, <1>2, <1>4, <1>6 DEF IsNew
<1> QED BY <1>2, <1>4, <1>6, <1>13, <1>14 DEF h2, c

-----------------------------------------------------------------------------
(* Links between chunks, and references that are given back. *)

LinkedTo(h, d, c) == [h EXCEPT ![d].next = c]
IsRelinked(h, h2, d, n) ==
  /\ IsHeap(h2) /\ DOMAIN h2 = DOMAIN h
  /\ \A x \in DOMAIN h : /\ h2[x].refcount = h[x].refcount /\ h2[x].cap = h[x].cap
                         /\ h2[x].next = IF x = d THEN n ELSE h[x].next
LEMMA Relinked ==
  ASSUME NEW h, IsHeap(h), NEW d \in DOMAIN h, NEW n \in DOMAIN h \cup {0},
         NEW h2, h2 = LinkedTo(h, d, n)
  PROVE  IsRelinked(h, h2, d, n)
<1> DEFINE q == [h[d] EXCEPT !.next = n]
<1>1. h[d] \in Chunk /\ n \in Nat
  BY ChunkFields DEF IsHeap
<1>2. q \in Chunk /\ q.next = n /\ q.refcount = h[d].refcount /\ q.data = h[d].data /\ q.cap = h[d].cap
  BY <1>1, ChunkLinked
<1>3. h2 = [h EXCEPT ![d] = q]
  BY DEF LinkedTo
<1> HIDE DEF q
<1>4. DOMAIN h2 = DOMAIN h /\ h2 = [x \in DOMAIN h2 |-> h2[x]]
  BY <1>3
<1>5. \A x \in DOMAIN h : h2[x] = IF x = d THEN q ELSE h[x]
  BY <1>3
<1>6. \A x \in DOMAIN h : /\ h[x] \in Chunk /\ h[x].next \in DOMAIN h \cup {0}
                          /\ Len(h[x].data) = h[x].cap
  BY ChunkFields
<1>7. \A x \in DOMAIN h : /\ h2[x] \in Chunk /\ h2[x].next \in DOMAIN h \cup {0}
                          /\ Len(h2[x].data) = h2[x].cap
  BY <1>2, <1>5, <1>6
<1>8. IsHeap(h2)
  BY <1>4, <1>7 DEF IsHeap
<1>9. \A x \in DOMAIN h : /\ h2[x].refcount = h[x].refcount /\ h2[x].cap = h[x].cap
                          /\ h2[x].next = IF x = d THEN n ELSE h[x].next
  BY <1>2, <1>5
<1> QED BY <1>4, <1>8, <1>9 DEF IsRelinked

(* The reference that somebody had becomes one that a chunk has. *)
LEMMA LinkOwned ==
  ASSUME NEW h, NEW X, IsCount(X), NEW d \in DOMAIN h, NEW c \in DOMAIN h,
         Owned(h, Plus(X, c)), h[d].next = 0
  PROVE  Owned(LinkedTo(h, d, c), X)
<1> DEFINE h2 == LinkedTo(h, d, c)
<1>1. IsHeap(h) /\ c \in Nat \ {0} /\ d \in Nat \ {0}
  BY DEF Owned, IsHeap
<1>a. h2 = LinkedTo(h, d, c)
  OBVIOUS
<1> HIDE DEF h2
<1>b. c \in DOMAIN h \cup {0}
  OBVIOUS
<1>c. IsRelinked(h, h2, d, c)
  BY <1>1, <1>a, <1>b, Relinked
<1>2. /\ IsHeap(h2) /\ DOMAIN h2 = DOMAIN h
      /\ \A x \in DOMAIN h : /\ h2[x].refcount = h[x].refcount /\ h2[x].cap = h[x].cap
                             /\ h2[x].next = IF x = d THEN c ELSE h[x].next
  BY <1>c DEF IsRelinked
<1>3. Pointing(h2, c) = Pointing(h, c) \cup {d} /\ d \notin Pointing(h, c)
  BY <1>1, <1>2 DEF Pointing
<1>4. In(h2, c) = In(h, c) + 1
  BY <1>1, <1>2, <1>3, InGains
<1>5. \A x \in Nat \ {0, c} : In(h2, x) = In(h, x)
  <2> TAKE x \in Nat \ {0, c}
  <2>1. Pointing(h2, x) = Pointing(h, x)
    BY <1>2 DEF Pointing
  <2> QED BY <2>1 DEF In
<1>6. \A x \in Nat : X[x] \in Nat /\ Plus(X, c)[x] = X[x] + One(c, x)
  BY <1>1, PlusCounts DEF IsCount
<1>7. \A x \in DOMAIN h2 : h2[x].refcount = X[x] + In(h2, x)
  <2> TAKE x \in DOMAIN h2
  <2>1. x \in Nat \ {0} /\ h[x].refcount = Plus(X, c)[x] + In(h, x) /\ In(h, x) \in Nat
    BY <1>1, <1>2, InCounts, ChunkFields DEF Owned
  <2> QED BY <1>2, <1>4, <1>5, <1>6, <2>1 DEF One
<1>8. \A x \in Nat \ {0} : X[x] > 0 => x \in DOMAIN h2
  BY <1>2, <1>6 DEF One, Owned
<1> QED BY <1>2, <1>7, <1>8 DEF Owned, h2

(* The reference that a chunk had becomes one of somebody. *)
LEMMA CutOwned ==
  ASSUME NEW h, NEW X, NEW d \in DOMAIN h, Owned(h, X)
  PROVE  Owned(LinkedTo(h, d, 0), Plus(X, h[d].next))
<1> DEFINE h2 == LinkedTo(h, d, 0)
           c == h[d].next
<1>1. IsHeap(h) /\ c \in Nat /\ c \in DOMAIN h \cup {0} /\ d \in Nat \ {0} /\ IsCount(X)
  BY ChunkFields DEF Owned
<1>a. h2 = LinkedTo(h, d, 0) /\ 0 \in DOMAIN h \cup {0}
  OBVIOUS
<1> HIDE DEF h2
<1>b. 0 \in DOMAIN h \cup {0}
  OBVIOUS
<1>c. IsRelinked(h, h2, d, 0)
  BY <1>1, <1>a, <1>b, Relinked
<1>2. /\ IsHeap(h2) /\ DOMAIN h2 = DOMAIN h
      /\ \A x \in DOMAIN h : /\ h2[x].refcount = h[x].refcount /\ h2[x].cap = h[x].cap
                             /\ h2[x].next = IF x = d THEN 0 ELSE h[x].next
  BY <1>c DEF IsRelinked
<1>4. ASSUME c # 0 PROVE In(h2, c) = In(h, c) - 1
  <2>1. Pointing(h2, c) = Pointing(h, c) \ {d} /\ d \in Pointing(h, c)
    BY <1>1, <1>2, <1>4 DEF Pointing
  <2> HIDE DEF c
  <2> QED BY <1>1, <1>2, <2>1, InLoses
<1>5. \A x \in Nat \ {0, c} : In(h2, x) = In(h, x)
  <2> TAKE x \in Nat \ {0, c}
  <2>1. Pointing(h2, x) = Pointing(h, x)
    BY <1>2 DEF Pointing
  <2> QED BY <2>1 DEF In
<1> HIDE DEF c
<1>6. IsCount(Plus(X, c)) /\ \A x \in Nat : X[x] \in Nat /\ Plus(X, c)[x] = X[x] + One(c, x)
  BY <1>1, PlusCounts DEF IsCount
<1>7. \A x \in DOMAIN h2 : h2[x].refcount = Plus(X, c)[x] + In(h2, x)
  <2> TAKE x \in DOMAIN h2
  <2>1. x \in Nat \ {0} /\ h[x].refcount = X[x] + In(h, x) /\ In(h, x) \in Nat
    BY <1>1, <1>2, InCounts, ChunkFields DEF Owned
  <2> QED BY <1>2, <1>4, <1>5, <1>6, <2>1 DEF One
<1>8. \A x \in Nat \ {0} : Plus(X, c)[x] > 0 => x \in DOMAIN h2
  <2> TAKE x \in Nat \ {0}
  <2> QED BY <1>1, <1>2, <1>6 DEF One, Owned
<1> QED BY <1>2, <1>6, <1>7, <1>8 DEF Owned, h2, c

(* What a reference that is given back leaves: one less, or no chunk and a  *)
(* reference to the next one to give back.                                  *)
Dropped(h, c) == [h EXCEPT ![c].refcount = @ - 1]
Freed(h, c) == [x \in DOMAIN h \ {c} |-> h[x]]
(* It was not the last one. *)
LEMMA DropOwned ==
  ASSUME NEW h, NEW X, IsCount(X), NEW c \in DOMAIN h, Owned(h, Plus(X, c)), h[c].refcount > 1
  PROVE  /\ Owned(Dropped(h, c), X) /\ DOMAIN Dropped(h, c) = DOMAIN h
         /\ \A x \in DOMAIN h : /\ Dropped(h, c)[x].cap = h[x].cap
                                /\ Dropped(h, c)[x].next = h[x].next
                                /\ Dropped(h, c)[x].refcount <= h[x].refcount
<1> DEFINE h2 == Dropped(h, c)
           q == [h[c] EXCEPT !.refcount = h[c].refcount - 1]
<1>1. /\ IsHeap(h) /\ c \in Nat \ {0} /\ h[c] \in Chunk /\ h[c].refcount \in Nat
      /\ h[c].refcount - 1 \in Nat
  BY ChunkFields DEF Owned
<1>2. q \in Chunk /\ q.refcount = h[c].refcount - 1 /\ q.next = h[c].next /\ q.data = h[c].data
      /\ q.cap = h[c].cap
  BY <1>1, ChunkCounted
<1>3. h2 = [h EXCEPT ![c] = q]
  BY DEF Dropped
<1> HIDE DEF q, h2
<1>4. DOMAIN h2 = DOMAIN h /\ h2 = [x \in DOMAIN h2 |-> h2[x]]
  BY <1>3
<1>5. \A x \in DOMAIN h : h2[x] = IF x = c THEN q ELSE h[x]
  BY <1>3
<1>6. \A x \in DOMAIN h : /\ h[x] \in Chunk /\ h[x].next \in DOMAIN h \cup {0} /\ x \in Nat \ {0}
                          /\ Len(h[x].data) = h[x].cap /\ h[x].refcount \in Nat
  BY <1>1, ChunkFields
<1>7. \A x \in DOMAIN h : /\ h2[x] \in Chunk /\ h2[x].next \in DOMAIN h \cup {0}
                          /\ Len(h2[x].data) = h2[x].cap
  BY <1>2, <1>5, <1>6
<1>8. IsHeap(h2)
  BY <1>1, <1>4, <1>7 DEF IsHeap
<1>9. \A x \in DOMAIN h : /\ h2[x].refcount = h[x].refcount - One(c, x) /\ h2[x].cap = h[x].cap
                          /\ h2[x].next = h[x].next
  BY <1>2, <1>5, <1>6 DEF One
<1>10. \A x : In(h2, x) = In(h, x)
  BY <1>4, <1>9 DEF In, Pointing
<1>11. \A x \in Nat : X[x] \in Nat /\ Plus(X, c)[x] = X[x] + One(c, x)
  BY <1>1, PlusCounts DEF IsCount
<1>12. \A x \in DOMAIN h2 : h2[x].refcount = X[x] + In(h2, x)
  <2> TAKE x \in DOMAIN h2
  <2>1. x \in Nat \ {0} /\ h[x].refcount = Plus(X, c)[x] + In(h, x) /\ In(h, x) \in Nat
    BY <1>1, <1>4, <1>6, InCounts DEF Owned
  <2> QED BY <1>4, <1>9, <1>10, <1>11, <2>1 DEF One
<1>13. \A x \in Nat \ {0} : X[x] > 0 => x \in DOMAIN h2
  BY <1>4, <1>11 DEF One, Owned
<1>14. \A x \in DOMAIN h : h2[x].refcount <= h[x].refcount
  BY <1>6, <1>9 DEF One
<1> QED BY <1>4, <1>8, <1>9, <1>12, <1>13, <1>14 DEF Owned, h2

(* It was the last one. *)
LEMMA FreeOwned ==
  ASSUME NEW h, NEW X, IsCount(X), NEW c \in DOMAIN h, Owned(h, Plus(X, c)), ~(h[c].refcount > 1)
  PROVE  /\ Owned(Freed(h, c), Plus(X, h[c].next)) /\ DOMAIN Freed(h, c) = DOMAIN h \ {c}
         /\ \A x \in DOMAIN h \ {c} : Freed(h, c)[x] = h[x] /\ h[x].next # c
         /\ X[c] = 0
<1> DEFINE h2 == Freed(h, c)
           n == h[c].next
<1>1. IsHeap(h) /\ c \in Nat \ {0} /\ n \in DOMAIN h \cup {0} /\ n \in Nat
  BY ChunkFields DEF Owned
<1>2. DOMAIN h2 = DOMAIN h \ {c} /\ \A x \in DOMAIN h2 : h2[x] = h[x]
  BY DEF Freed
<1>3. h2 = [x \in DOMAIN h2 |-> h2[x]]
  BY DEF Freed
<1> HIDE DEF h2
<1>4. \A x \in Nat : X[x] \in Nat /\ Plus(X, c)[x] = X[x] + One(c, x) /\ In(h, x) \in Nat
  BY <1>1, PlusCounts, InCounts DEF IsCount
<1>5. h[c].refcount = 1 /\ X[c] = 0 /\ In(h, c) = 0
  <2>1. h[c].refcount = Plus(X, c)[c] + In(h, c) /\ h[c].refcount \in Nat
    BY <1>1, ChunkFields DEF Owned
  <2> QED BY <1>1, <1>4, <2>1 DEF One
<1>6. \A x \in DOMAIN h : h[x].next # c
  <2>1. Pointing(h, c) = {}
    BY <1>1, <1>5, InCounts, FS_EmptySet DEF In
  <2> QED BY <2>1 DEF Pointing
<1>7. IsHeap(h2)
  <2>1. IsFiniteSet(DOMAIN h2)
    BY <1>1, <1>2, FS_RemoveElement DEF IsHeap
  <2>2. \A x \in DOMAIN h2 : /\ h2[x] \in Chunk /\ h2[x].next \in DOMAIN h2 \cup {0} /\ x \in Nat \ {0}
                             /\ Len(h2[x].data) = h2[x].cap
    BY <1>1, <1>2, <1>6, ChunkFields
  <2> QED BY <1>3, <2>1, <2>2 DEF IsHeap
<1>8. ASSUME n # 0 PROVE In(h2, n) = In(h, n) - 1
  <2>1. Pointing(h2, n) = Pointing(h, n) \ {c} /\ c \in Pointing(h, n)
    BY <1>2 DEF Pointing
  <2> HIDE DEF n
  <2> QED BY <1>1, <1>7, <2>1, InLoses
<1>9. \A x \in Nat \ {0, n} : In(h2, x) = In(h, x)
  <2> TAKE x \in Nat \ {0, n}
  <2>1. Pointing(h2, x) = Pointing(h, x)
    BY <1>2 DEF Pointing
  <2> QED BY <2>1 DEF In
<1> HIDE DEF n
<1>10. IsCount(Plus(X, n)) /\ \A x \in Nat : Plus(X, n)[x] = X[x] + One(n, x)
  BY <1>1, PlusCounts
<1>11. \A x \in DOMAIN h2 : h2[x].refcount = Plus(X, n)[x] + In(h2, x)
  <2> TAKE x \in DOMAIN h2
  <2>1. x \in Nat \ {0} /\ x # c /\ h[x].refcount = Plus(X, c)[x] + In(h, x)
    BY <1>1, <1>2, ChunkFields DEF Owned
  <2> QED BY <1>2, <1>4, <1>8, <1>9, <1>10, <2>1 DEF One
<1>12. \A x \in Nat \ {0} : Plus(X, n)[x] > 0 => x \in DOMAIN h2
  <2> TAKE x \in Nat \ {0}
  <2>1. n # c
    BY <1>1, <1>6 DEF n
  <2>2. X[x] > 0 => x \in DOMAIN h
    BY <1>4 DEF One, Owned
  <2> QED BY <1>1, <1>2, <1>4, <1>5, <1>10, <2>1, <2>2 DEF One
<1> QED BY <1>2, <1>5, <1>6, <1>7, <1>10, <1>11, <1>12 DEF Owned, h2, n

-----------------------------------------------------------------------------
(* Positions in lists. A run is the places of n bytes, one after the       *)
(* other; bytes are covered when the list is long enough.                  *)

Spot == Nat \X Nat
Within(h, p) == p[1] \in DOMAIN h /\ p[2] \in 1..h[p[1]].cap
IsRun(h, c, pos, f, n) ==
  /\ f \in Seq(Spot) /\ Len(f) = n
  /\ \A i \in 1..n : Within(h, f[i])
  /\ n > 0 => c \in DOMAIN h /\ f[1] = Place(h, c, pos)
  /\ \A i \in 1..(n - 1) : f[i + 1] = Place(h, f[i][1], f[i][2])
Covered(h, c, pos, n) == Len(Places(h, c, pos, n)) = n

LEMMA PlaceKinds ==
  ASSUME NEW h, IsHeap(h), NEW c \in DOMAIN h, NEW pos \in Nat
  PROVE  /\ Place(h, c, pos) \in Spot
         /\ pos < h[c].cap => Place(h, c, pos) = <<c, pos + 1>>
         /\ ~(pos < h[c].cap) => Place(h, c, pos) = <<h[c].next, 1>>
         /\ Place(h, c, pos)[1] # 0 => Within(h, Place(h, c, pos))
<1>1. c \in Nat \ {0} /\ h[c].cap \in Nat \ {0} /\ h[c].next \in Nat /\ h[c].next \in DOMAIN h \cup {0}
  BY ChunkFields
<1>2. CASE pos < h[c].cap
  BY <1>1, <1>2 DEF Place, Spot, Within
<1>3. CASE ~(pos < h[c].cap)
  <2>1. Place(h, c, pos) = <<h[c].next, 1>>
    BY <1>3 DEF Place
  <2>2. ASSUME h[c].next # 0 PROVE h[h[c].next].cap \in Nat \ {0} /\ h[c].next \in DOMAIN h
    BY <1>1, <2>2, ChunkFields
  <2> QED BY <1>1, <1>3, <2>1, <2>2 DEF Spot, Within
<1> QED BY <1>2, <1>3

(* Where the walk along the list is after k rounds. *)
Walked(h, c, pos, p, at, k) ==
  /\ IsRun(h, c, pos, p, Len(p)) /\ Len(p) \in 0..k /\ p \in Seq(Spot)
  /\ at = IF Len(p) = 0 THEN Place(h, c, pos) ELSE Place(h, p[Len(p)][1], p[Len(p)][2])
  /\ at \in Spot /\ (at[1] # 0 => Within(h, at))
  /\ Len(p) = k \/ at[1] = 0

(* One place more. *)
LEMMA WalkStep ==
  ASSUME NEW h, IsHeap(h), NEW c \in DOMAIN h, NEW pos \in Nat, NEW p, NEW at, NEW k \in Nat,
         Walked(h, c, pos, p, at, k)
  PROVE  /\ at[1] = 0 => Walked(h, c, pos, p, at, k + 1)
         /\ at[1] # 0 => Walked(h, c, pos, Append(p, at), Place(h, at[1], at[2]), k + 1)
<1>1. CASE at[1] = 0
  BY <1>1 DEF Walked
<1>2. CASE at[1] # 0
  <2> DEFINE l == Len(p)
             q == Append(p, at)
             next == Place(h, at[1], at[2])
  <2>1. p \in Seq(Spot) /\ at \in Spot /\ l = k /\ IsRun(h, c, pos, p, l) /\ Within(h, at)
        /\ at = IF l = 0 THEN Place(h, c, pos) ELSE Place(h, p[l][1], p[l][2])
    BY <1>2 DEF Walked
  <2>2. q \in Seq(Spot) /\ Len(q) = k + 1 /\ q[k + 1] = at /\ \A i \in 1..k : q[i] = p[i]
    BY <2>1, AppendProperties
  <2> HIDE DEF q, l
  <2>3. \A i \in 1..(k + 1) : Within(h, q[i])
    <3> TAKE i \in 1..(k + 1)
    <3>1. CASE i = k + 1
      BY <2>1, <2>2, <3>1
    <3>2. CASE i # k + 1
      <4>1. i \in 1..k
        BY <3>2
      <4> QED BY <2>1, <2>2, <4>1 DEF IsRun
    <3> QED BY <3>1, <3>2
  <2>4. q[1] = Place(h, c, pos)
    <3>1. CASE k = 0
      BY <2>1, <2>2, <3>1
    <3>2. CASE k # 0
      <4>1. 1 \in 1..k /\ k > 0
        BY <3>2
      <4> QED BY <2>1, <2>2, <4>1 DEF IsRun
    <3> QED BY <3>1, <3>2
  <2>5. \A i \in 1..k : q[i + 1] = Place(h, q[i][1], q[i][2])
    <3> TAKE i \in 1..k
    <3>1. CASE i = k
      <4>1. k # 0 /\ k \in 1..k
        BY <3>1
      <4> QED BY <2>1, <2>2, <3>1, <4>1
    <3>2. CASE i # k
      <4>1. i \in 1..(k - 1) /\ i + 1 \in 1..k
        BY <3>2
      <4> QED BY <2>1, <2>2, <4>1 DEF IsRun
    <3> QED BY <3>1, <3>2
  <2>6. (k + 1) - 1 = k /\ k + 1 \in Nat /\ k + 1 > 0 /\ k + 1 # 0
    OBVIOUS
  <2>7. IsRun(h, c, pos, q, k + 1)
    BY <2>2, <2>3, <2>4, <2>5, <2>6 DEF IsRun
  <2>8. at[1] \in DOMAIN h /\ at[2] \in Nat
    BY <2>1, ChunkFields DEF Within, Spot
  <2>9. next \in Spot /\ (next[1] # 0 => Within(h, next))
    BY <2>8, PlaceKinds
  <2> HIDE DEF next
  <2>10. next = Place(h, q[k + 1][1], q[k + 1][2])
    BY <2>2 DEF next
  <2>11. Walked(h, c, pos, q, next, k + 1)
    BY <2>2, <2>6, <2>7, <2>9, <2>10 DEF Walked
  <2> QED BY <1>2, <2>11 DEF q, next
<1> QED BY <1>1, <1>2

(* Places goes as far as the list, and never to a place that is not there. *)
LEMMA PlacesWalked ==
  ASSUME NEW h, IsHeap(h), NEW c \in DOMAIN h, NEW pos \in Nat, NEW n \in Nat
  PROVE  \E at : Walked(h, c, pos, Places(h, c, pos, n), at, n)
<1> DEFINE start == [h |-> h, at |-> Place(h, c, pos), places |-> <<>>]
<1>0. c # 0
  BY DEF IsHeap
<1>1. Places(h, c, pos, n) = PlaceTakenAll(n, start).places
  BY <1>0 DEF Places, PlaceTakenAll, NULL
<1>2. /\ start.at = Place(h, c, pos) /\ start.places = <<>>
      /\ start = [h |-> h, at |-> start.at, places |-> start.places]
  OBVIOUS
<1> HIDE DEF start
<1>3. PICK f : /\ f[0] = start /\ PlaceTakenAll(n, start) = f[n]
               /\ \A k \in 0..(n - 1) : f[k + 1] = PlaceTaken(f[k])
  BY PlaceTakenRounds
<1> DEFINE Fine(k) == /\ f[k] = [h |-> h, at |-> f[k].at, places |-> f[k].places]
                      /\ Walked(h, c, pos, f[k].places, f[k].at, k)
           N == {k \in Nat : k <= n => Fine(k)}
<1>4. Fine(0)
  <2>1. <<>> \in Seq(Spot) /\ Len(<<>>) = 0
    BY EmptySeq
  <2>2. IsRun(h, c, pos, <<>>, 0)
    BY <2>1 DEF IsRun
  <2>3. Place(h, c, pos) \in Spot /\ (Place(h, c, pos)[1] # 0 => Within(h, Place(h, c, pos)))
    BY PlaceKinds
  <2>4. Walked(h, c, pos, <<>>, Place(h, c, pos), 0)
    BY <2>1, <2>2, <2>3 DEF Walked
  <2> QED BY <1>2, <1>3, <2>4
<1>5. ASSUME NEW k \in Nat, k + 1 <= n, Fine(k) PROVE Fine(k + 1)
  <2> DEFINE at == f[k].at
             p == f[k].places
  <2>1. f[k + 1] = PlaceTaken(f[k]) /\ f[k] = [h |-> h, at |-> at, places |-> p]
        /\ Walked(h, c, pos, p, at, k)
    BY <1>3, <1>5
  <2> HIDE DEF at, p
  <2>2. CASE at[1] = 0
    <3>1. f[k + 1] = [h |-> h, at |-> at, places |-> p]
      BY <2>1, <2>2 DEF PlaceTaken, NULL
    <3>2. Walked(h, c, pos, p, at, k + 1)
      BY <2>1, <2>2, WalkStep
    <3> QED BY <3>1, <3>2
  <2>3. CASE at[1] # 0
    <3>1. f[k + 1] = [h |-> h, at |-> Place(h, at[1], at[2]), places |-> Append(p, at)]
      <4>1. f[k].h = h /\ f[k].at = at /\ f[k].places = p
        BY <2>1
      <4> QED BY <2>1, <2>3, <4>1 DEF PlaceTaken, NULL
    <3>2. Walked(h, c, pos, Append(p, at), Place(h, at[1], at[2]), k + 1)
      BY <2>1, <2>3, WalkStep
    <3> QED BY <3>1, <3>2
  <2> QED BY <2>2, <2>3
<1> HIDE DEF Fine
<1>6. 0 \in N
  BY <1>4
<1>7. ASSUME NEW k \in N PROVE k + 1 \in N
  <2>1. k \in Nat /\ (k <= n => Fine(k))
    OBVIOUS
  <2>2. k + 1 <= n => Fine(k + 1)
    BY <1>5, <2>1
  <2> QED BY <2>1, <2>2
<1>8. N = Nat
  <2>1. N \in SUBSET Nat
    OBVIOUS
  <2> HIDE DEF N
  <2> QED BY <1>6, <1>7, <2>1, NatSetInduction
<1>9. Fine(n)
  <2>1. n \in N
    <3> HIDE DEF N
    <3> QED BY <1>8
  <2> QED BY <2>1
<1> QED BY <1>1, <1>3, <1>9 DEF Fine

(* There is only one way to go. *)
LEMMA RunsAgree ==
  ASSUME NEW h, NEW c, NEW pos, NEW m \in Nat, NEW n \in Nat, NEW f, NEW g,
         IsRun(h, c, pos, f, m), IsRun(h, c, pos, g, n)
  PROVE  \A i \in 1..m : i <= n => f[i] = g[i]
<1> DEFINE N == {i \in Nat : i + 1 <= m /\ i + 1 <= n => f[i + 1] = g[i + 1]}
<1>1. 0 \in N
  <2>1. ASSUME 0 + 1 <= m, 0 + 1 <= n PROVE f[0 + 1] = g[0 + 1]
    <3>1. m > 0 /\ n > 0 /\ 0 + 1 = 1
      BY <2>1
    <3> QED BY <3>1 DEF IsRun
  <2> QED BY <2>1
<1>2. ASSUME NEW i \in N PROVE i + 1 \in N
  <2>1. i \in Nat /\ i + 1 \in Nat
    OBVIOUS
  <2>2. ASSUME (i + 1) + 1 <= m, (i + 1) + 1 <= n PROVE f[(i + 1) + 1] = g[(i + 1) + 1]
    <3>1. i + 1 \in 1..(m - 1) /\ i + 1 \in 1..(n - 1) /\ i + 1 <= m /\ i + 1 <= n
      BY <2>1, <2>2
    <3>2. f[i + 1] = g[i + 1]
      BY <3>1
    <3> QED BY <3>1, <3>2 DEF IsRun
  <2> QED BY <2>1, <2>2
<1>3. N = Nat
  <2>1. N \in SUBSET Nat
    OBVIOUS
  <2> HIDE DEF N
  <2> QED BY <1>1, <1>2, <2>1, NatSetInduction
<1>4. ASSUME NEW i \in 1..m, i <= n PROVE f[i] = g[i]
  <2>1. i - 1 \in N
    <3>1. i - 1 \in Nat
      OBVIOUS
    <3> HIDE DEF N
    <3> QED BY <1>3, <3>1
  <2>2. (i - 1) + 1 = i /\ i <= m
    OBVIOUS
  <2> QED BY <1>4, <2>1, <2>2
<1> QED BY <1>4

LEMMA RunStart ==
  ASSUME NEW h, NEW c, NEW pos, NEW f, NEW n \in Nat \ {0}, IsRun(h, c, pos, f, n)
  PROVE  c \in DOMAIN h /\ f[1] = Place(h, c, pos)
BY DEF IsRun

(* The places of n bytes are the one run of that length. *)
LEMMA RunIsPlaces ==
  ASSUME NEW h, IsHeap(h), NEW c, NEW pos \in Nat, NEW n \in Nat, NEW f, IsRun(h, c, pos, f, n),
         c \in DOMAIN h \cup {0}
  PROVE  Places(h, c, pos, n) = f
<1>1. CASE c = 0
  <2>1. n = 0 /\ Len(f) = 0 /\ f \in Seq(Spot)
    BY <1>1 DEF IsRun, IsHeap
  <2>2. f = <<>>
    BY <2>1, EmptySeq
  <2> QED BY <1>1, <2>2 DEF Places, NULL
<1>2. CASE c # 0
  <2> DEFINE p == Places(h, c, pos, n)
             l == Len(p)
  <2>1. PICK at : Walked(h, c, pos, p, at, n)
    BY <1>2, PlacesWalked
  <2>2. /\ IsRun(h, c, pos, p, l) /\ l \in 0..n /\ p \in Seq(Spot) /\ (l = n \/ at[1] = 0)
        /\ at = IF l = 0 THEN Place(h, c, pos) ELSE Place(h, p[l][1], p[l][2])
    BY <2>1 DEF Walked
  <2>3. Len(f) = n /\ f \in Seq(Spot)
    BY DEF IsRun
  <2> HIDE DEF p, l
  <2>4. \A i \in 1..l : i <= n => p[i] = f[i]
    <3>1. l \in Nat
      BY <2>2
    <3>2. IsRun(h, c, pos, p, l)
      BY <2>2
    <3>3. IsRun(h, c, pos, f, n)
      OBVIOUS
    <3> QED BY ONLY <3>1, <3>2, <3>3, n \in Nat, RunsAgree
  <2>5. ASSUME l < n PROVE FALSE
    <3>1. l + 1 \in 1..n /\ n > 0
      BY <2>2, <2>5
    <3>2. Within(h, f[l + 1])
      BY <3>1 DEF IsRun
    <3>3. f[l + 1] = at
      <4>1. CASE l = 0
        BY <2>2, <3>1, <4>1 DEF IsRun
      <4>2. CASE l # 0
        <5>1. l \in 1..(n - 1) /\ l \in 1..l /\ l <= n
          BY <2>2, <2>5, <4>2
        <5>2. f[l + 1] = Place(h, f[l][1], f[l][2])
          BY <5>1 DEF IsRun
        <5>3. p[l] = f[l]
          BY <2>4, <5>1
        <5> QED BY <2>2, <4>2, <5>2, <5>3
      <4> QED BY <4>1, <4>2
    <3> QED BY <2>2, <2>5, <3>2, <3>3 DEF Within, IsHeap
  <2>6. l = n
    BY <2>2, <2>5
  <2>7. Len(p) = Len(f) /\ \A i \in 1..Len(p) : p[i] = f[i]
    BY <2>3, <2>4, <2>6 DEF l
  <2>8. p = f
    BY <2>2, <2>3, <2>7, SeqEqual
  <2> QED BY <2>8 DEF p
<1> QED BY <1>1, <1>2

LEMMA RunCovered ==
  ASSUME NEW h, IsHeap(h), NEW c, NEW pos \in Nat, NEW n \in Nat, NEW f, IsRun(h, c, pos, f, n),
         c \in DOMAIN h \cup {0}
  PROVE  Covered(h, c, pos, n) /\ Places(h, c, pos, n) = f
<1>1. Places(h, c, pos, n) = f /\ Len(f) = n
  BY RunIsPlaces DEF IsRun
<1> QED BY <1>1 DEF Covered

LEMMA CoveredRun ==
  ASSUME NEW h, IsHeap(h), NEW c \in DOMAIN h \cup {0}, NEW pos \in Nat, NEW n \in Nat,
         Covered(h, c, pos, n)
  PROVE  IsRun(h, c, pos, Places(h, c, pos, n), n) /\ (c = 0 => n = 0)
<1>1. CASE c = 0
  <2>1. Places(h, c, pos, n) = <<>>
    BY <1>1 DEF Places, NULL
  <2>2. n = 0
    BY <2>1, EmptySeq DEF Covered
  <2> QED BY <2>1, <2>2, EmptySeq DEF IsRun
<1>2. CASE c # 0
  <2>1. PICK at : Walked(h, c, pos, Places(h, c, pos, n), at, n)
    BY <1>2, PlacesWalked
  <2> QED BY <1>2, <2>1 DEF Walked, Covered
<1> QED BY <1>1, <1>2

LEMMA NothingCovered ==
  ASSUME NEW h, IsHeap(h), NEW c \in DOMAIN h \cup {0}, NEW pos \in Nat
  PROVE  Covered(h, c, pos, 0)
<1>1. IsRun(h, c, pos, <<>>, 0)
  BY EmptySeq DEF IsRun
<1> QED BY <1>1, RunCovered

(* Its first bytes. *)
LEMMA CoveredLess ==
  ASSUME NEW h, IsHeap(h), NEW c \in DOMAIN h \cup {0}, NEW pos \in Nat, NEW n \in Nat,
         Covered(h, c, pos, n), NEW m \in 0..n
  PROVE  Covered(h, c, pos, m) /\ \A i \in 1..m : Places(h, c, pos, m)[i] = Places(h, c, pos, n)[i]
<1> DEFINE f == Places(h, c, pos, n)
           g == [i \in 1..m |-> f[i]]
<1>1. IsRun(h, c, pos, f, n)
  BY CoveredRun
<1> HIDE DEF f
<1>2. \A i \in 1..m : i \in 1..n /\ f[i] \in Spot /\ g[i] = f[i]
  BY <1>1 DEF IsRun
<1>3. g \in Seq(Spot) /\ Len(g) = m
  BY <1>2, IsASeq
<1> HIDE DEF g
<1>4. IsRun(h, c, pos, g, m)
  <2>1. \A i \in 1..m : Within(h, g[i])
    BY <1>1, <1>2 DEF IsRun
  <2>2. m > 0 => c \in DOMAIN h /\ g[1] = Place(h, c, pos)
    <3> HAVE m > 0
    <3>1. 1 \in 1..m /\ n > 0
      OBVIOUS
    <3> QED BY <1>1, <1>2, <3>1 DEF IsRun
  <2>3. \A i \in 1..(m - 1) : g[i + 1] = Place(h, g[i][1], g[i][2])
    <3> TAKE i \in 1..(m - 1)
    <3>1. i \in 1..m /\ i + 1 \in 1..m /\ i \in 1..(n - 1)
      OBVIOUS
    <3> QED BY <1>1, <1>2, <3>1 DEF IsRun
  <2> QED BY <1>3, <2>1, <2>2, <2>3 DEF IsRun
<1>5. m \in Nat
  OBVIOUS
<1>6. Covered(h, c, pos, m) /\ Places(h, c, pos, m) = g
  BY <1>4, <1>5, RunCovered
<1> QED BY <1>2, <1>6 DEF f

(* The place of the byte behind n bytes. *)
PlaceBehind(h, c, pos, n) ==
  IF n = 0 THEN Place(h, c, pos)
  ELSE Place(h, Places(h, c, pos, n)[n][1], Places(h, c, pos, n)[n][2])
(* One byte more. *)
LEMMA CoveredMore ==
  ASSUME NEW h, IsHeap(h), NEW c \in DOMAIN h, NEW pos \in Nat, NEW n \in Nat,
         Covered(h, c, pos, n), Within(h, PlaceBehind(h, c, pos, n))
  PROVE  /\ Covered(h, c, pos, n + 1)
         /\ Places(h, c, pos, n + 1)[n + 1] = PlaceBehind(h, c, pos, n)
<1> DEFINE f == Places(h, c, pos, n)
           at == PlaceBehind(h, c, pos, n)
<1>1. IsRun(h, c, pos, f, n) /\ Len(f) = n /\ f \in Seq(Spot)
  BY CoveredRun DEF IsRun
<1>2. at = IF Len(f) = 0 THEN Place(h, c, pos) ELSE Place(h, f[Len(f)][1], f[Len(f)][2])
  BY <1>1 DEF PlaceBehind
<1>3. at \in Spot
  <2>1. CASE n = 0
    BY <2>1, PlaceKinds DEF PlaceBehind
  <2>2. CASE n # 0
    <3>1. n \in 1..n
      BY <2>2
    <3>2. Within(h, f[n]) /\ f[n] \in Spot
      BY <1>1, <3>1 DEF IsRun
    <3>3. f[n][1] \in DOMAIN h /\ f[n][2] \in Nat
      BY <3>2 DEF Within, Spot
    <3>4. at = Place(h, f[n][1], f[n][2])
      BY <2>2 DEF PlaceBehind
    <3> HIDE DEF at, f
    <3> QED BY <3>3, <3>4, PlaceKinds
  <2> QED BY <2>1, <2>2
<1>4. at[1] # 0 /\ Within(h, at)
  BY DEF Within, IsHeap
<1> HIDE DEF f, at
<1>5. Walked(h, c, pos, f, at, n)
  BY <1>1, <1>2, <1>3, <1>4 DEF Walked
<1>6. Walked(h, c, pos, Append(f, at), Place(h, at[1], at[2]), n + 1)
  BY <1>4, <1>5, WalkStep
<1>7. Len(Append(f, at)) = n + 1 /\ Append(f, at)[n + 1] = at
  BY <1>1, <1>3, AppendProperties
<1>8. IsRun(h, c, pos, Append(f, at), n + 1)
  BY <1>6, <1>7 DEF Walked
<1>9. n + 1 \in Nat
  OBVIOUS
<1>10. Covered(h, c, pos, n + 1) /\ Places(h, c, pos, n + 1) = Append(f, at)
  BY <1>8, <1>9, RunCovered
<1> QED BY <1>7, <1>10 DEF at

(* Bytes of one chunk. *)
LEMMA InChunk ==
  ASSUME NEW h, IsHeap(h), NEW c \in DOMAIN h, NEW pos \in Nat, NEW n \in Nat, pos + n <= h[c].cap
  PROVE  Covered(h, c, pos, n) /\ \A i \in 1..n : Places(h, c, pos, n)[i] = <<c, pos + i>>
<1> DEFINE f == [i \in 1..n |-> <<c, pos + i>>]
<1>1. c \in Nat /\ h[c].cap \in Nat
  BY ChunkFields
<1>2. \A i \in 1..n : f[i] = <<c, pos + i>> /\ f[i] \in Spot /\ f[i][1] = c /\ f[i][2] = pos + i
  BY <1>1 DEF Spot
<1>3. f \in Seq(Spot) /\ Len(f) = n
  BY <1>2, IsASeq
<1> HIDE DEF f
<1>4. \A i \in 1..n : Within(h, f[i])
  <2> TAKE i \in 1..n
  <2>1. pos + i \in 1..h[c].cap
    BY <1>1
  <2> QED BY <1>2, <2>1 DEF Within
<1>5. n > 0 => f[1] = Place(h, c, pos)
  <2> HAVE n > 0
  <2>1. 1 \in 1..n /\ pos < h[c].cap
    BY <1>1
  <2> QED BY <1>2, <2>1, PlaceKinds
<1>6. \A i \in 1..(n - 1) : f[i + 1] = Place(h, f[i][1], f[i][2])
  <2> TAKE i \in 1..(n - 1)
  <2>1. i \in 1..n /\ i + 1 \in 1..n /\ pos + i < h[c].cap /\ pos + i \in Nat /\ (pos + i) + 1 = pos + (i + 1)
    BY <1>1
  <2> QED BY <1>2, <2>1, PlaceKinds
<1>7. IsRun(h, c, pos, f, n)
  BY <1>3, <1>4, <1>5, <1>6 DEF IsRun
<1>8. Covered(h, c, pos, n) /\ Places(h, c, pos, n) = f
  BY <1>7, RunCovered
<1> QED BY <1>2, <1>8

(* Where one is behind the first bytes of a chunk. *)
Onward(h, c, pos, c2, p2) ==
  IF pos < h[c].cap THEN c2 = c /\ p2 = pos ELSE c2 = h[c].next /\ p2 = 0

LEMMA OnwardIsInside ==
  ASSUME NEW h, IsHeap(h), NEW c \in DOMAIN h, NEW pos \in Nat, NEW c2, NEW p2, Onward(h, c, pos, c2, p2)
  PROVE  /\ c2 \in DOMAIN h \cup {0} /\ p2 \in Nat /\ (c2 # 0 => p2 < h[c2].cap)
         /\ c2 # 0 => Place(h, c2, p2) = Place(h, c, pos)
<1>1. h[c].next \in DOMAIN h \cup {0} /\ c # 0 /\ \A d \in DOMAIN h : h[d].cap \in Nat \ {0}
  BY ChunkFields
<1>2. CASE pos < h[c].cap
  BY <1>1, <1>2 DEF Onward
<1>3. CASE ~(pos < h[c].cap)
  <2>1. c2 = h[c].next /\ p2 = 0
    BY <1>3 DEF Onward
  <2>2. c2 # 0 => 0 < h[c2].cap /\ c2 \in DOMAIN h
    BY <1>1, <2>1
  <2>3. Place(h, c, pos) = <<c2, 1>>
    BY <1>3, <2>1, PlaceKinds
  <2>4. c2 # 0 => Place(h, c2, 0) = <<c2, 0 + 1>>
    BY <2>2, PlaceKinds
  <2> QED BY <1>1, <2>1, <2>2, <2>3, <2>4
<1> QED BY <1>2, <1>3

(* A position k bytes later, and the rest of the bytes. *)
LEMMA Advance ==
  ASSUME NEW h, IsHeap(h), NEW c \in DOMAIN h, NEW pos \in Nat, NEW n \in Nat, Covered(h, c, pos, n),
         NEW k \in 0..n, pos + k <= h[c].cap, NEW c2, NEW p2, Onward(h, c, pos + k, c2, p2)
  PROVE  /\ Covered(h, c2, p2, n - k)
         /\ \A i \in 1..(n - k) : Places(h, c2, p2, n - k)[i] = Places(h, c, pos, n)[i + k]
<1> DEFINE f == Places(h, c, pos, n)
           m == n - k
           g == [i \in 1..m |-> f[i + k]]
<1>1. IsRun(h, c, pos, f, n)
  BY CoveredRun
<1>2. /\ c2 \in DOMAIN h \cup {0} /\ p2 \in Nat /\ m \in Nat
      /\ c2 # 0 => Place(h, c2, p2) = Place(h, c, pos + k)
  BY OnwardIsInside
<1>3. ASSUME m > 0 PROVE f[k + 1] = Place(h, c, pos + k) /\ c2 # 0
  <2>1. f[k + 1] = Place(h, c, pos + k)
    <3>1. CASE k = 0
      <4>1. n > 0 /\ k + 1 = 1 /\ pos + k = pos
        BY <1>3, <3>1
      <4> QED BY <1>1, <4>1 DEF IsRun
    <3>2. CASE k # 0
      <4>1. k \in Nat /\ k \in 1..k /\ k \in 1..(n - 1)
        BY <1>3, <3>2
      <4>2. Places(h, c, pos, k)[k] = <<c, pos + k>>
        BY <4>1, InChunk
      <4>3. Places(h, c, pos, k)[k] = f[k]
        BY <4>1, CoveredLess
      <4>4. f[k + 1] = Place(h, f[k][1], f[k][2])
        BY <1>1, <4>1 DEF IsRun
      <4> HIDE DEF f
      <4> QED BY <4>2, <4>3, <4>4
    <3> QED BY <3>1, <3>2
  <2>2. Within(h, f[k + 1])
    <3>1. k + 1 \in 1..n
      BY <1>3
    <3> QED BY <1>1, <3>1 DEF IsRun
  <2>3. CASE pos + k < h[c].cap
    BY <2>1, <2>3, ChunkFields DEF Onward
  <2>4. CASE ~(pos + k < h[c].cap)
    <3>1. Place(h, c, pos + k) = <<h[c].next, 1>> /\ c2 = h[c].next
      BY <2>4, PlaceKinds DEF Onward
    <3>2. f[k + 1][1] = c2
      BY <2>1, <3>1
    <3>3. 0 \notin DOMAIN h
      BY DEF IsHeap
    <3> HIDE DEF f
    <3> QED BY <2>1, <2>2, <3>2, <3>3 DEF Within
  <2> QED BY <2>1, <2>3, <2>4
<1> HIDE DEF f
<1>4. \A i \in 1..m : i + k \in 1..n /\ f[i + k] \in Spot /\ g[i] = f[i + k]
  BY <1>1 DEF IsRun
<1>5. g \in Seq(Spot) /\ Len(g) = m
  BY <1>2, <1>4, IsASeq
<1> HIDE DEF g, m
<1>6. IsRun(h, c2, p2, g, m)
  <2>1. \A i \in 1..m : Within(h, g[i])
    BY <1>1, <1>4 DEF IsRun
  <2>2. m > 0 => c2 \in DOMAIN h /\ g[1] = Place(h, c2, p2)
    <3> HAVE m > 0
    <3>1. 1 \in 1..m /\ 1 + k = k + 1
      BY <1>2
    <3> QED BY <1>2, <1>3, <1>4, <3>1
  <2>3. \A i \in 1..(m - 1) : g[i + 1] = Place(h, g[i][1], g[i][2])
    <3> TAKE i \in 1..(m - 1)
    <3>1. i \in 1..m /\ i + 1 \in 1..m /\ i + k \in 1..(n - 1) /\ (i + 1) + k = (i + k) + 1
      BY <1>2 DEF m
    <3> QED BY <1>1, <1>4, <3>1 DEF IsRun
  <2> QED BY <1>5, <2>1, <2>2, <2>3 DEF IsRun
<1>7. Covered(h, c2, p2, m) /\ Places(h, c2, p2, m) = g
  BY <1>2, <1>6, RunCovered
<1> QED BY <1>4, <1>7 DEF f, m

(* Bytes that begin where others end. *)
IsSpliced(h, c, pos, n, c2, p2, m) ==
  Covered(h, c, pos, n + m) /\ Places(h, c, pos, n + m)[n + m] = Places(h, c2, p2, m)[m]
LEMMA Spliced ==
  ASSUME NEW h, IsHeap(h), NEW c \in DOMAIN h, NEW pos \in Nat, NEW n \in Nat,
         NEW c2 \in DOMAIN h, NEW p2 \in Nat, NEW m \in Nat \ {0},
         Covered(h, c, pos, n + 1), Covered(h, c2, p2, m),
         Places(h, c, pos, n + 1)[n + 1] = Place(h, c2, p2)
  PROVE  IsSpliced(h, c, pos, n, c2, p2, m)
<1> DEFINE f == Places(h, c, pos, n + 1)
           g == Places(h, c2, p2, m)
           s == [i \in 1..(n + m) |-> IF i <= n THEN f[i] ELSE g[i - n]]
<1>0. n + 1 \in Nat /\ n + m \in Nat /\ n + 1 > 0
  OBVIOUS
<1>1. IsRun(h, c, pos, f, n + 1)
  BY <1>0, CoveredRun
<1>2. IsRun(h, c2, p2, g, m)
  BY CoveredRun
<1>3. f[n + 1] = Place(h, c2, p2) /\ g[1] = Place(h, c2, p2)
  BY <1>2, RunStart
<1> HIDE DEF f, g
<1>4. \A i \in 1..n : i \in 1..(n + 1) /\ s[i] = f[i] /\ s[i] \in Spot /\ Within(h, s[i])
  BY <1>1 DEF IsRun
<1>5. \A i \in 1..m : s[i + n] = g[i] /\ s[i + n] \in Spot /\ Within(h, s[i + n])
  <2> TAKE i \in 1..m
  <2>1. i + n \in 1..(n + m) /\ ~(i + n <= n) /\ (i + n) - n = i
    OBVIOUS
  <2>2. s[i + n] = g[i]
    BY <2>1
  <2> HIDE DEF s
  <2> QED BY <1>2, <2>2 DEF IsRun
<1>6. s = [i \in 1..(n + m) |-> s[i]]
  OBVIOUS
<1> HIDE DEF s
<1>7. \A i \in 1..(n + m) : s[i] \in Spot /\ Within(h, s[i])
  <2> TAKE i \in 1..(n + m)
  <2>1. CASE i <= n
    <3>1. i \in 1..n
      BY <2>1
    <3> QED BY <1>4, <3>1
  <2>2. CASE ~(i <= n)
    <3>1. i - n \in 1..m /\ (i - n) + n = i
      BY <2>2
    <3>2. s[(i - n) + n] \in Spot /\ Within(h, s[(i - n) + n])
      BY <1>5, <3>1
    <3> QED BY <3>1, <3>2
  <2> QED BY <2>1, <2>2
<1>8. s \in Seq(Spot) /\ Len(s) = n + m
  BY <1>0, <1>6, <1>7, IsASeq
<1>9. s[n + 1] = g[1]
  <2>1. 1 \in 1..m /\ 1 + n = n + 1
    OBVIOUS
  <2>2. s[1 + n] = g[1]
    BY <1>5, <2>1
  <2> QED BY <2>1, <2>2
<1>10. s[1] = Place(h, c, pos)
  <2>1. CASE n = 0
    <3>1. f[1] = Place(h, c, pos) /\ n + 1 = 1
      BY <1>1, <2>1 DEF IsRun
    <3> QED BY <1>3, <1>9, <3>1
  <2>2. CASE n # 0
    <3>1. 1 \in 1..n
      BY <2>2
    <3> QED BY <1>0, <1>1, <1>4, <3>1 DEF IsRun
  <2> QED BY <2>1, <2>2
<1>11. \A i \in 1..((n + m) - 1) : s[i + 1] = Place(h, s[i][1], s[i][2])
  <2> TAKE i \in 1..((n + m) - 1)
  <2>1. CASE i < n
    <3>1. i \in 1..n /\ i + 1 \in 1..n /\ i \in 1..((n + 1) - 1)
      BY <2>1
    <3> QED BY <1>1, <1>4, <3>1 DEF IsRun
  <2>2. CASE i = n
    <3>1. i \in 1..n /\ n \in 1..((n + 1) - 1)
      BY <2>2
    <3>2. f[n + 1] = Place(h, f[n][1], f[n][2])
      BY <1>1, <3>1 DEF IsRun
    <3> QED BY <1>3, <1>4, <1>9, <2>2, <3>1, <3>2
  <2>3. CASE i > n
    <3>1. i - n \in 1..(m - 1) /\ i - n \in 1..m /\ (i - n) + 1 \in 1..m
          /\ (i - n) + n = i /\ ((i - n) + 1) + n = i + 1
      BY <2>3
    <3>2. g[(i - n) + 1] = Place(h, g[i - n][1], g[i - n][2])
      BY <1>2, <3>1 DEF IsRun
    <3>3. s[(i - n) + n] = g[i - n] /\ s[((i - n) + 1) + n] = g[(i - n) + 1]
      BY <1>5, <3>1
    <3>4. s[i] = g[i - n] /\ s[i + 1] = g[(i - n) + 1]
      BY <3>1, <3>3
    <3> QED BY <3>2, <3>4
  <2> QED BY <2>1, <2>2, <2>3
<1>12. IsRun(h, c, pos, s, n + m)
  BY <1>7, <1>8, <1>10, <1>11 DEF IsRun
<1>13. Covered(h, c, pos, n + m) /\ Places(h, c, pos, n + m) = s
  BY <1>0, <1>12, RunCovered
<1>14. s[n + m] = g[m]
  <2>1. m \in 1..m /\ m + n = n + m
    OBVIOUS
  <2>2. s[m + n] = g[m]
    BY <1>5, <2>1
  <2> QED BY <2>1, <2>2
<1> QED BY <1>13, <1>14 DEF g, IsSpliced

(* n1 bytes from the one position end where n2 bytes from the other do. *)
Meet(h, c1, p1, n1, c2, p2, n2) ==
  /\ Covered(h, c1, p1, n1) /\ Covered(h, c2, p2, n2)
  /\ \/ n1 > 0 /\ n2 > 0 /\ Places(h, c1, p1, n1)[n1] = Places(h, c2, p2, n2)[n2]
     \/ /\ n1 = 0 \/ n2 = 0
        /\ Covered(h, c1, p1, n1 + 1) /\ Covered(h, c2, p2, n2 + 1)
        /\ Places(h, c1, p1, n1 + 1)[n1 + 1] = Places(h, c2, p2, n2 + 1)[n2 + 1]

LEMMA MeetSwapped ==
  ASSUME NEW h, NEW c1, NEW p1, NEW n1, NEW c2, NEW p2, NEW n2, Meet(h, c1, p1, n1, c2, p2, n2)
  PROVE  Meet(h, c2, p2, n2, c1, p1, n1)
BY DEF Meet

LEMMA FirstPlace ==
  ASSUME NEW h, IsHeap(h), NEW c \in DOMAIN h, NEW pos \in Nat, pos < h[c].cap
  PROVE  Covered(h, c, pos, 1) /\ Places(h, c, pos, 1)[1] = Place(h, c, pos)
<1>1. Place(h, c, pos) = <<c, pos + 1>> /\ PlaceBehind(h, c, pos, 0) = Place(h, c, pos)
  BY PlaceKinds DEF PlaceBehind
<1>2. Within(h, Place(h, c, pos))
  BY <1>1, PlaceKinds DEF IsHeap
<1>3. Covered(h, c, pos, 0)
  BY NothingCovered
<1>4. Within(h, PlaceBehind(h, c, pos, 0)) /\ 0 \in Nat
  BY <1>1, <1>2
<1>5. Covered(h, c, pos, 0 + 1) /\ Places(h, c, pos, 0 + 1)[0 + 1] = PlaceBehind(h, c, pos, 0)
  BY <1>3, <1>4, CoveredMore
<1>6. 0 + 1 = 1
  OBVIOUS
<1> QED BY <1>1, <1>5, <1>6

(* The one goes ahead, and they still end at the same place. *)
LEMMA MeetAdvances ==
  ASSUME NEW h, IsHeap(h), NEW c1 \in DOMAIN h, NEW p1 \in Nat, NEW n1 \in Nat,
         NEW c2 \in DOMAIN h, NEW p2 \in Nat, NEW n2 \in Nat, Meet(h, c1, p1, n1, c2, p2, n2),
         NEW k \in 1..n1, p1 + k <= h[c1].cap, NEW c, NEW p, Onward(h, c1, p1 + k, c, p), c # 0
  PROVE  Meet(h, c, p, n1 - k, c2, p2, n2)
<1>0. n1 - k \in Nat /\ n1 + 1 \in Nat /\ k \in 0..n1 /\ k \in 0..(n1 + 1) /\ p1 + k \in Nat /\ n1 > 0
      /\ (n1 + 1) - k = (n1 - k) + 1
  OBVIOUS
<1>1. Covered(h, c1, p1, n1) /\ Covered(h, c2, p2, n2)
  BY DEF Meet
<1>2. /\ Covered(h, c, p, n1 - k)
      /\ \A i \in 1..(n1 - k) : Places(h, c, p, n1 - k)[i] = Places(h, c1, p1, n1)[i + k]
  BY <1>0, <1>1, Advance
<1>3. c \in DOMAIN h /\ p \in Nat /\ p < h[c].cap /\ Place(h, c, p) = Place(h, c1, p1 + k)
  BY <1>0, OnwardIsInside
<1>4. CASE n2 > 0 /\ n1 - k > 0
  <2>1. Places(h, c1, p1, n1)[n1] = Places(h, c2, p2, n2)[n2]
    BY <1>4 DEF Meet
  <2>2. n1 - k \in 1..(n1 - k) /\ (n1 - k) + k = n1
    BY <1>4
  <2>3. Places(h, c, p, n1 - k)[n1 - k] = Places(h, c1, p1, n1)[(n1 - k) + k]
    BY <1>2, <2>2
  <2>4. Places(h, c, p, n1 - k)[n1 - k] = Places(h, c2, p2, n2)[n2]
    BY <2>1, <2>2, <2>3
  <2> QED BY <1>1, <1>2, <1>4, <2>4 DEF Meet
<1>5. CASE n2 > 0 /\ ~(n1 - k > 0)
  <2>1. Places(h, c1, p1, n1)[n1] = Places(h, c2, p2, n2)[n2]
    BY <1>0, <1>5 DEF Meet
  <2>2. n1 \in 1..n1 /\ p1 + n1 <= h[c1].cap /\ n1 = k /\ n2 # 0 /\ n1 - k = 0
    BY <1>0, <1>5
  <2>3. Places(h, c1, p1, n1)[n1] = <<c1, p1 + n1>>
    BY <2>2, InChunk
  <2>4. PlaceBehind(h, c2, p2, n2) = Place(h, c1, p1 + k)
    BY <2>1, <2>2, <2>3 DEF PlaceBehind
  <2>5. Covered(h, c, p, 1) /\ Places(h, c, p, 1)[1] = Place(h, c, p)
    BY <1>3, FirstPlace
  <2>6. Within(h, Place(h, c, p))
    BY <1>3, PlaceKinds DEF IsHeap
  <2>7. Within(h, PlaceBehind(h, c2, p2, n2))
    BY <1>3, <2>4, <2>6
  <2>8. Covered(h, c2, p2, n2 + 1) /\ Places(h, c2, p2, n2 + 1)[n2 + 1] = PlaceBehind(h, c2, p2, n2)
    BY <1>1, <2>7, CoveredMore
  <2>9. (n1 - k) + 1 = 1
    BY <2>2
  <2>10. Covered(h, c, p, (n1 - k) + 1)
         /\ Places(h, c, p, (n1 - k) + 1)[(n1 - k) + 1] = Places(h, c2, p2, n2 + 1)[n2 + 1]
    BY <1>3, <2>4, <2>5, <2>8, <2>9
  <2> QED BY <1>1, <1>2, <2>2, <2>8, <2>10 DEF Meet
<1>6. CASE ~(n2 > 0)
  <2>1. n2 = 0
    BY <1>6
  <2>2. /\ Covered(h, c1, p1, n1 + 1) /\ Covered(h, c2, p2, n2 + 1)
        /\ Places(h, c1, p1, n1 + 1)[n1 + 1] = Places(h, c2, p2, n2 + 1)[n2 + 1]
    BY <1>6 DEF Meet
  <2>3. /\ Covered(h, c, p, (n1 + 1) - k)
        /\ \A i \in 1..((n1 + 1) - k) : Places(h, c, p, (n1 + 1) - k)[i] = Places(h, c1, p1, n1 + 1)[i + k]
    BY <1>0, <2>2, Advance
  <2>4. (n1 + 1) - k \in 1..((n1 + 1) - k) /\ ((n1 + 1) - k) + k = n1 + 1
    BY <1>0
  <2>5. Places(h, c, p, (n1 + 1) - k)[(n1 + 1) - k] = Places(h, c1, p1, n1 + 1)[n1 + 1]
    BY <2>3, <2>4
  <2>6. Covered(h, c, p, (n1 - k) + 1)
        /\ Places(h, c, p, (n1 - k) + 1)[(n1 - k) + 1] = Places(h, c2, p2, n2 + 1)[n2 + 1]
    BY <1>0, <2>2, <2>3, <2>5
  <2> QED BY <1>1, <1>2, <2>1, <2>2, <2>6 DEF Meet
<1> QED BY <1>4, <1>5, <1>6

(* Where the one ends, more bytes are read. *)
LEMMA MeetGrows ==
  ASSUME NEW h, IsHeap(h), NEW c1 \in DOMAIN h, NEW p1 \in Nat, NEW n1 \in Nat,
         NEW c2 \in DOMAIN h, NEW p2 \in Nat, Meet(h, c1, p1, n1, c2, p2, 0),
         NEW n \in Nat \ {0}, Covered(h, c2, p2, n)
  PROVE  Meet(h, c1, p1, n1 + n, c2, p2, n)
<1>1. /\ Covered(h, c1, p1, n1 + 1) /\ Covered(h, c2, p2, 0 + 1)
      /\ Places(h, c1, p1, n1 + 1)[n1 + 1] = Places(h, c2, p2, 0 + 1)[0 + 1]
  BY DEF Meet
<1>2. 0 + 1 = 1 /\ 1 \in Nat \ {0}
  OBVIOUS
<1>3. IsRun(h, c2, p2, Places(h, c2, p2, 1), 1)
  BY <1>1, <1>2, CoveredRun
<1>4. Places(h, c2, p2, 1)[1] = Place(h, c2, p2)
  BY <1>2, <1>3, RunStart
<1>5. Places(h, c1, p1, n1 + 1)[n1 + 1] = Place(h, c2, p2)
  BY <1>1, <1>2, <1>4
<1>6. Covered(h, c1, p1, n1 + n) /\ Places(h, c1, p1, n1 + n)[n1 + n] = Places(h, c2, p2, n)[n]
  BY <1>1, <1>5, Spliced DEF IsSpliced
<1>7. n1 + n > 0 /\ n > 0
  OBVIOUS
<1> QED BY <1>6, <1>7 DEF Meet

-----------------------------------------------------------------------------
(* What is the same for those who follow the list. *)
Like(h, h2, d) ==
  /\ d \in DOMAIN h2 /\ h2[d].cap = h[d].cap /\ (h2[d].next = h[d].next \/ h[d].next = 0)

LEMMA RunKept ==
  ASSUME NEW h, NEW h2, IsHeap(h), IsHeap(h2), NEW c, NEW pos \in Nat, NEW n \in Nat, NEW f,
         IsRun(h, c, pos, f, n), n > 0 => Like(h, h2, c), \A i \in 1..n : Like(h, h2, f[i][1])
  PROVE  IsRun(h2, c, pos, f, n)
<1>1. ASSUME NEW d \in DOMAIN h, Like(h, h2, d), NEW q \in Nat, Within(h, Place(h, d, q))
      PROVE Place(h2, d, q) = Place(h, d, q)
  <2>1. d \in DOMAIN h2 /\ h2[d].cap = h[d].cap
    BY <1>1 DEF Like
  <2>2. CASE q < h[d].cap
    BY <2>1, <2>2, PlaceKinds
  <2>3. CASE ~(q < h[d].cap)
    <3>1. Place(h, d, q) = <<h[d].next, 1>> /\ Place(h2, d, q) = <<h2[d].next, 1>>
      BY <2>1, <2>3, PlaceKinds
    <3>2. h[d].next # 0
      <4>1. <<h[d].next, 1>>[1] \in DOMAIN h
        BY <1>1, <3>1 DEF Within
      <4>2. <<h[d].next, 1>>[1] = h[d].next
        OBVIOUS
      <4> QED BY <4>1, <4>2 DEF IsHeap
    <3> QED BY <1>1, <3>1, <3>2 DEF Like
  <2> QED BY <2>2, <2>3
<1>2. \A i \in 1..n : Within(h, f[i]) /\ f[i] \in Spot /\ f[i][1] \in DOMAIN h /\ f[i][2] \in Nat
  BY DEF IsRun, Within, Spot
<1>3. \A i \in 1..n : Within(h2, f[i])
  BY <1>2 DEF Like, Within
<1>4. n > 0 => c \in DOMAIN h2 /\ f[1] = Place(h2, c, pos)
  <2> HAVE n > 0
  <2>1. c \in DOMAIN h /\ f[1] = Place(h, c, pos) /\ 1 \in 1..n
    BY DEF IsRun
  <2>2. Within(h, Place(h, c, pos)) /\ Like(h, h2, c)
    BY <1>2, <2>1
  <2> QED BY <1>1, <2>1, <2>2 DEF Like
<1>5. \A i \in 1..(n - 1) : f[i + 1] = Place(h2, f[i][1], f[i][2])
  <2> TAKE i \in 1..(n - 1)
  <2>1. f[i + 1] = Place(h, f[i][1], f[i][2]) /\ i \in 1..n /\ i + 1 \in 1..n
    BY DEF IsRun
  <2>2. Within(h, Place(h, f[i][1], f[i][2])) /\ Like(h, h2, f[i][1])
    BY <1>2, <2>1
  <2> QED BY <1>1, <1>2, <2>1, <2>2
<1>6. f \in Seq(Spot) /\ Len(f) = n
  BY DEF IsRun
<1> QED BY <1>3, <1>4, <1>5, <1>6 DEF IsRun

(* A chunk that no other one is linked to is on no list that begins elsewhere. *)
Unlinked(h, x) == x # 0 /\ \A d \in DOMAIN h : h[d].next # x
LEMMA RunAvoids ==
  ASSUME NEW h, IsHeap(h), NEW c, NEW pos \in Nat, NEW n \in Nat, NEW f, IsRun(h, c, pos, f, n),
         NEW x, Unlinked(h, x), c # x
  PROVE  \A i \in 1..n : f[i][1] # x
<1>0. x # 0 /\ \A d \in DOMAIN h : h[d].next # x
  BY DEF Unlinked
<1>1. ASSUME NEW d \in DOMAIN h, d # x, NEW q \in Nat PROVE Place(h, d, q)[1] # x
  <2>1. Place(h, d, q) = <<d, q + 1>> \/ Place(h, d, q) = <<h[d].next, 1>>
    BY ChunkFields, PlaceKinds
  <2> QED BY <1>0, <1>1, <2>1
<1> DEFINE N == {i \in Nat : i + 1 <= n => f[i + 1][1] # x}
<1>2. 0 \in N
  <2>1. ASSUME 0 + 1 <= n PROVE f[0 + 1][1] # x
    <3>1. n > 0 /\ 0 + 1 = 1
      BY <2>1
    <3>2. c \in DOMAIN h /\ f[1] = Place(h, c, pos)
      BY <3>1 DEF IsRun
    <3> QED BY <1>1, <3>1, <3>2
  <2> QED BY <2>1
<1>3. ASSUME NEW i \in N PROVE i + 1 \in N
  <2>1. ASSUME (i + 1) + 1 <= n PROVE f[(i + 1) + 1][1] # x
    <3>1. i \in Nat /\ i + 1 <= n /\ i + 1 \in 1..(n - 1) /\ i + 1 \in 1..n
      BY <2>1
    <3>2. f[i + 1][1] # x
      BY <3>1
    <3>3. f[(i + 1) + 1] = Place(h, f[i + 1][1], f[i + 1][2])
      BY <3>1 DEF IsRun
    <3>4. f[i + 1][1] \in DOMAIN h /\ f[i + 1][2] \in Nat
      BY <3>1 DEF IsRun, Within, Spot
    <3> QED BY <1>1, <3>2, <3>3, <3>4
  <2> QED BY <2>1
<1>4. N = Nat
  <2>1. N \in SUBSET Nat
    OBVIOUS
  <2> HIDE DEF N
  <2> QED BY <1>2, <1>3, <2>1, NatSetInduction
<1>5. ASSUME NEW i \in 1..n PROVE f[i][1] # x
  <2>1. i - 1 \in N
    <3>1. i - 1 \in Nat
      OBVIOUS
    <3> HIDE DEF N
    <3> QED BY <1>4, <3>1
  <2>2. (i - 1) + 1 = i /\ i <= n
    OBVIOUS
  <2> QED BY <2>1, <2>2
<1> QED BY <1>5

-----------------------------------------------------------------------------
(* What stays as it was for those who refer to a chunk: the chunk and all that *)
(* is behind it.                                                             *)
SameFrom(h, h2, c) ==
  /\ c \in DOMAIN h2 /\ h2[c].cap = h[c].cap
  /\ \A pos \in Nat, n \in Nat :
       Covered(h, c, pos, n) => Covered(h2, c, pos, n) /\ Places(h2, c, pos, n) = Places(h, c, pos, n)
Kept(h, h2, X) == \A c \in Nat \ {0} : X[c] > 0 => SameFrom(h, h2, c)

LEMMA SameRuns ==
  ASSUME NEW h, NEW h2, IsHeap(h), IsHeap(h2), NEW c \in DOMAIN h, Like(h, h2, c),
         \A pos \in Nat, n \in Nat : Covered(h, c, pos, n) =>
            \A i \in 1..n : Like(h, h2, Places(h, c, pos, n)[i][1])
  PROVE  SameFrom(h, h2, c)
<1>1. c \in DOMAIN h2 /\ h2[c].cap = h[c].cap
  BY DEF Like
<1>2. ASSUME NEW pos \in Nat, NEW n \in Nat, Covered(h, c, pos, n)
      PROVE Covered(h2, c, pos, n) /\ Places(h2, c, pos, n) = Places(h, c, pos, n)
  <2> DEFINE f == Places(h, c, pos, n)
  <2>1. IsRun(h, c, pos, f, n)
    BY <1>2, CoveredRun
  <2>2. \A i \in 1..n : Like(h, h2, f[i][1])
    BY <1>2
  <2> HIDE DEF f
  <2>3. IsRun(h2, c, pos, f, n)
    BY <2>1, <2>2, RunKept
  <2>4. c \in DOMAIN h2 \cup {0}
    BY <1>1
  <2>5. Covered(h2, c, pos, n) /\ Places(h2, c, pos, n) = f
    BY <2>3, <2>4, RunCovered
  <2> QED BY <2>5 DEF f
<1> QED BY <1>1, <1>2 DEF SameFrom

LEMMA LikeSame ==
  ASSUME NEW h, NEW h2, IsHeap(h), IsHeap(h2), \A d \in DOMAIN h : Like(h, h2, d)
  PROVE  \A c \in DOMAIN h : SameFrom(h, h2, c)
<1> TAKE c \in DOMAIN h
<1>1. ASSUME NEW pos \in Nat, NEW n \in Nat, Covered(h, c, pos, n), NEW i \in 1..n
      PROVE Like(h, h2, Places(h, c, pos, n)[i][1])
  <2>1. IsRun(h, c, pos, Places(h, c, pos, n), n)
    BY <1>1, CoveredRun
  <2>2. Within(h, Places(h, c, pos, n)[i])
    BY <2>1 DEF IsRun
  <2> QED BY <2>2 DEF Within
<1> QED BY <1>1, SameRuns

LEMMA LikeKept ==
  ASSUME NEW h, NEW h2, NEW X, Owned(h, X), IsHeap(h2), \A d \in DOMAIN h : Like(h, h2, d)
  PROVE  Kept(h, h2, X)
BY LikeSame DEF Owned, Kept

LEMMA AvoidKept ==
  ASSUME NEW h, NEW h2, NEW X, IsHeap(h), IsHeap(h2), NEW x \in Nat \ {0}, ~(X[x] > 0),
         \A c \in Nat \ {0} : X[c] > 0 => c \in DOMAIN h,
         Unlinked(h, x), \A d \in DOMAIN h \ {x} : Like(h, h2, d)
  PROVE  Kept(h, h2, X)
<1>1. IsHeap(h) /\ \A c \in Nat \ {0} : X[c] > 0 => c \in DOMAIN h
  OBVIOUS
<1>2. ASSUME NEW c \in DOMAIN h, c # x PROVE SameFrom(h, h2, c)
  <2>1. ASSUME NEW pos \in Nat, NEW n \in Nat, Covered(h, c, pos, n), NEW i \in 1..n
        PROVE Like(h, h2, Places(h, c, pos, n)[i][1])
    <3> DEFINE f == Places(h, c, pos, n)
    <3>1. IsRun(h, c, pos, f, n)
      BY <1>1, <2>1, CoveredRun
    <3>2. Within(h, f[i])
      BY <3>1 DEF IsRun
    <3> HIDE DEF f
    <3>a. c # x /\ pos \in Nat /\ n \in Nat
      BY <1>2
    <3>d. \A j \in 1..n : f[j][1] # x
      BY <1>1, <3>a, <3>1, RunAvoids
    <3>3. f[i][1] # x
      BY <3>d
    <3>4. Like(h, h2, f[i][1])
      BY <3>2, <3>3 DEF Within
    <3> QED BY <3>4 DEF f
  <2> QED BY <1>1, <1>2, <2>1, SameRuns
<1> QED BY <1>1, <1>2 DEF Kept

LEMMA KeptTrans ==
  ASSUME NEW h, NEW h2, NEW h3, NEW X, Kept(h, h2, X), Kept(h2, h3, X)
  PROVE  Kept(h, h3, X)
<1> SUFFICES ASSUME NEW c \in Nat \ {0}, X[c] > 0 PROVE SameFrom(h, h3, c)
  BY DEF Kept
<1>1. SameFrom(h, h2, c) /\ SameFrom(h2, h3, c)
  BY DEF Kept
<1> QED BY <1>1 DEF SameFrom

LEMMA KeptSame ==
  ASSUME NEW h, NEW X, Owned(h, X)
  PROVE  Kept(h, h, X)
BY DEF Owned, Kept, SameFrom

LEMMA KeptLess ==
  ASSUME NEW h, NEW h2, NEW X, IsCount(X), NEW c \in Nat, Kept(h, h2, Plus(X, c))
  PROVE  Kept(h, h2, X)
<1> SUFFICES ASSUME NEW d \in Nat \ {0}, X[d] > 0 PROVE SameFrom(h, h2, d)
  BY DEF Kept
<1>1. Plus(X, c)[d] = X[d] + One(c, d) /\ X[d] \in Nat
  BY PlusCounts DEF IsCount
<1>2. Plus(X, c)[d] > 0
  BY <1>1 DEF One
<1> QED BY <1>2 DEF Kept

LEMMA KeptFrom ==
  ASSUME NEW h, NEW h2, NEW X, NEW c \in Nat \ {0}, IsCount(X), Kept(h, h2, Plus(X, c))
  PROVE  SameFrom(h, h2, c)
<1>1. Plus(X, c)[c] = X[c] + One(c, c) /\ X[c] \in Nat
  BY PlusCounts DEF IsCount
<1>2. Plus(X, c)[c] > 0
  BY <1>1 DEF One
<1> QED BY <1>2 DEF Kept

LEMMA NullOwned ==
  ASSUME NEW h, NEW X, IsCount(X)
  PROVE  Owned(h, Plus(X, 0)) <=> Owned(h, X)
<1>1. IsCount(Plus(X, 0)) /\ \A c \in Nat \ {0} : Plus(X, 0)[c] = X[c]
  BY PlusCounts DEF One, IsCount
<1>2. IsHeap(h) => \A c \in DOMAIN h : c \in Nat \ {0}
  BY DEF IsHeap
<1> QED BY <1>1, <1>2 DEF Owned

-----------------------------------------------------------------------------
(* Chunks are given back: those that stay are as they were, but for the count. *)
Fewer(h, h2) ==
  \A d \in DOMAIN h2 : /\ d \in DOMAIN h /\ h2[d].cap = h[d].cap /\ h2[d].next = h[d].next
                       /\ h2[d].refcount <= h[d].refcount

LEMMA FewerTrans ==
  ASSUME NEW h, NEW h2, NEW h3, IsHeap(h), IsHeap(h2), IsHeap(h3), Fewer(h, h2), Fewer(h2, h3)
  PROVE  Fewer(h, h3)
<1> SUFFICES ASSUME NEW d \in DOMAIN h3
             PROVE /\ d \in DOMAIN h /\ h3[d].cap = h[d].cap /\ h3[d].next = h[d].next
                   /\ h3[d].refcount <= h[d].refcount
  BY DEF Fewer
<1>1. /\ d \in DOMAIN h2 /\ h3[d].cap = h2[d].cap /\ h3[d].next = h2[d].next
      /\ h3[d].refcount <= h2[d].refcount
  BY DEF Fewer
<1>2. /\ d \in DOMAIN h /\ h2[d].cap = h[d].cap /\ h2[d].next = h[d].next
      /\ h2[d].refcount <= h[d].refcount
  BY <1>1 DEF Fewer
<1>3. h3[d].refcount \in Nat /\ h2[d].refcount \in Nat /\ h[d].refcount \in Nat
  BY <1>1, <1>2, ChunkFields
<1> QED BY <1>1, <1>2, <1>3

(* One round of release: one reference less, or one chunk. *)
LEMMA LetGoStep ==
  ASSUME NEW h, NEW X, IsCount(X), NEW c \in DOMAIN h, Owned(h, Plus(X, c)),
         NEW r, r = LetGo([h |-> h, c |-> c])
  PROVE  /\ Owned(r.h, Plus(X, r.c)) /\ Kept(h, r.h, X) /\ Fewer(h, r.h)
         /\ r.c \in DOMAIN r.h \cup {0}
         /\ \/ r.c = 0 /\ DOMAIN r.h = DOMAIN h
            \/ DOMAIN r.h = DOMAIN h \ {c}
<1>1. IsHeap(h) /\ c \in Nat \ {0} /\ Owned(h, Plus(X, c))
  BY DEF Owned, IsHeap
<1>2. \A d \in DOMAIN h : h[d].refcount \in Nat /\ h[d].next \in DOMAIN h \cup {0} /\ d # 0
  BY <1>1, ChunkFields
<1>3. \A d \in Nat \ {0} : X[d] > 0 => d \in DOMAIN h
  <2> TAKE d \in Nat \ {0}
  <2>1. Plus(X, c)[d] = X[d] + One(c, d) /\ X[d] \in Nat
    BY <1>1, PlusCounts DEF IsCount
  <2>2. Plus(X, c)[d] > 0 => d \in DOMAIN h
    BY DEF Owned
  <2> QED BY <2>1, <2>2 DEF One
<1>4. CASE h[c].refcount > 1
  <2>1. r.h = Dropped(h, c) /\ r.c = 0
    BY <1>1, <1>4 DEF LetGo, Dropped, NULL
  <2>2. /\ Owned(r.h, X) /\ DOMAIN r.h = DOMAIN h
        /\ \A x \in DOMAIN h : /\ r.h[x].cap = h[x].cap /\ r.h[x].next = h[x].next
                               /\ r.h[x].refcount <= h[x].refcount
    BY <1>4, <2>1, DropOwned
  <2>3. Fewer(h, r.h)
    BY <2>2 DEF Fewer
  <2>4. \A d \in DOMAIN h : Like(h, r.h, d)
    BY <2>2 DEF Like
  <2>5. Kept(h, r.h, Plus(X, c))
    BY <2>2, <2>4, LikeKept DEF Owned
  <2>6. Kept(h, r.h, X)
    BY <1>1, <2>5, KeptLess
  <2>7. Owned(r.h, Plus(X, r.c))
    BY <2>1, <2>2, NullOwned
  <2> QED BY <2>1, <2>2, <2>3, <2>6, <2>7
<1>5. CASE ~(h[c].refcount > 1)
  <2>1. r.h = Freed(h, c) /\ r.c = h[c].next
    BY <1>1, <1>5 DEF LetGo, Freed, NULL
  <2>a. /\ Owned(Freed(h, c), Plus(X, h[c].next)) /\ DOMAIN Freed(h, c) = DOMAIN h \ {c} /\ X[c] = 0
        /\ \A x \in DOMAIN h \ {c} : Freed(h, c)[x] = h[x] /\ h[x].next # c
    BY <1>5, FreeOwned
  <2>2. /\ Owned(r.h, Plus(X, h[c].next)) /\ DOMAIN r.h = DOMAIN h \ {c} /\ X[c] = 0
        /\ \A x \in DOMAIN h \ {c} : r.h[x] = h[x] /\ h[x].next # c
    BY <2>1, <2>a
  <2>3. Fewer(h, r.h)
    BY <1>2, <2>2 DEF Fewer
  <2>4. \A d \in DOMAIN h \ {c} : Like(h, r.h, d)
    BY <2>2 DEF Like
  <2>5. r.c \in DOMAIN r.h \cup {0}
    <3>1. ASSUME r.c # 0 PROVE r.c \in DOMAIN r.h
      <4>1. r.c \in Nat \ {0}
        BY <1>1, <2>1, <3>1, ChunkFields
      <4>2. Plus(X, r.c)[r.c] = X[r.c] + One(r.c, r.c) /\ X[r.c] \in Nat
        BY <4>1, PlusCounts DEF IsCount
      <4>3. Plus(X, r.c)[r.c] > 0
        BY <4>2 DEF One
      <4> QED BY <2>1, <2>2, <4>1, <4>3 DEF Owned
    <3> QED BY <3>1
  <2>6. c \in DOMAIN h /\ \A d \in DOMAIN h \ {c} : h[d].next # c
    BY <2>2
  <2>7. h[c].next # c
    <3>1. ASSUME h[c].next = c PROVE FALSE
      <4>1. In(h, c) >= 1 /\ Plus(X, c)[c] = X[c] + One(c, c) /\ In(h, c) \in Nat
        BY <1>1, <3>1, InOfNext, InCounts, PlusCounts
      <4>2. h[c].refcount = Plus(X, c)[c] + In(h, c)
        BY DEF Owned
      <4> QED BY <1>2, <1>5, <2>2, <4>1, <4>2 DEF One
    <3> QED BY <3>1
  <2>8. Kept(h, r.h, X)
    <3>1. IsHeap(r.h)
      BY <2>2 DEF Owned
    <3>2. Unlinked(h, c)
      BY <1>1, <2>6, <2>7 DEF Unlinked
    <3>3. ~(X[c] > 0) /\ c \in Nat \ {0}
      BY <1>1, <2>2
    <3> QED BY <1>1, <1>3, <2>4, <3>1, <3>2, <3>3, AvoidKept
  <2> QED BY <2>1, <2>2, <2>3, <2>5, <2>8
<1> QED BY <1>4, <1>5

-----------------------------------------------------------------------------
(* A reference is given back, and then that of each chunk that goes with   *)
(* it.                                                                     *)

LEMMA FewerSame ==
  ASSUME NEW h, IsHeap(h)
  PROVE  Fewer(h, h)
BY ChunkFields DEF Fewer

LEMMA OwnedIsIn ==
  ASSUME NEW h, NEW X, IsCount(X), NEW c \in Nat, Owned(h, Plus(X, c))
  PROVE  c \in DOMAIN h \cup {0}
<1>1. Plus(X, c)[c] = X[c] + One(c, c) /\ X[c] \in Nat
  BY PlusCounts DEF IsCount
<1>2. Plus(X, c)[c] > 0
  BY <1>1 DEF One
<1> QED BY <1>2 DEF Owned

Giving(h, X, n, r, k) ==
  /\ r = [h |-> r.h, c |-> r.c] /\ Owned(r.h, Plus(X, r.c)) /\ Kept(h, r.h, X) /\ Fewer(h, r.h)
  /\ r.c \in DOMAIN r.h \cup {0} /\ (r.c = 0 \/ Cardinality(DOMAIN r.h) + k <= n)

LEMMA GivingGoesOn ==
  ASSUME NEW h, NEW X, IsCount(X), NEW n \in Nat, NEW r, NEW k \in Nat, IsHeap(h), Giving(h, X, n, r, k)
  PROVE  Giving(h, X, n, LetGo(r), k + 1)
<1>1. /\ r = [h |-> r.h, c |-> r.c] /\ Owned(r.h, Plus(X, r.c)) /\ Kept(h, r.h, X) /\ Fewer(h, r.h)
      /\ r.c \in DOMAIN r.h \cup {0} /\ (r.c = 0 \/ Cardinality(DOMAIN r.h) + k <= n)
  BY DEF Giving
<1>2. CASE r.c = 0
  <2>1. LetGo(r) = r
    BY <1>2 DEF LetGo, NULL
  <2> QED BY <1>1, <1>2, <2>1 DEF Giving
<1>3. CASE r.c # 0
  <2> DEFINE g == r.h
             c == r.c
             q == LetGo([h |-> g, c |-> c])
  <2>1. c \in DOMAIN g /\ Owned(g, Plus(X, c)) /\ LetGo(r) = q /\ IsHeap(g)
    BY <1>1, <1>3 DEF Owned
  <2>2. q = [h |-> q.h, c |-> q.c]
    BY DEF LetGo
  <2>a. Kept(h, g, X) /\ Fewer(h, g) /\ Cardinality(DOMAIN g) + k <= n
    BY <1>1, <1>3
  <2> HIDE DEF q, g, c
  <2>3. /\ Owned(q.h, Plus(X, q.c)) /\ Kept(g, q.h, X) /\ Fewer(g, q.h)
        /\ q.c \in DOMAIN q.h \cup {0}
        /\ \/ q.c = 0 /\ DOMAIN q.h = DOMAIN g
           \/ DOMAIN q.h = DOMAIN g \ {c}
    BY <2>1, LetGoStep DEF q
  <2>4. IsHeap(q.h)
    BY <2>3 DEF Owned
  <2>5. Kept(h, q.h, X)
    BY <2>a, <2>3, KeptTrans
  <2>6. Fewer(h, q.h)
    BY <2>a, <2>1, <2>3, <2>4, FewerTrans
  <2>7. q.c = 0 \/ Cardinality(DOMAIN q.h) + (k + 1) <= n
    <3>1. CASE DOMAIN q.h = DOMAIN g \ {c}
      <4>1. IsFiniteSet(DOMAIN g)
        BY <2>1 DEF IsHeap
      <4>2. Cardinality(DOMAIN q.h) = Cardinality(DOMAIN g) - 1 /\ Cardinality(DOMAIN g) \in Nat
        BY <2>1, <3>1, <4>1, FS_RemoveElement, FS_CardinalityType
      <4> QED BY <2>a, <4>2
    <3> QED BY <2>3, <3>1
  <2> QED BY <2>1, <2>2, <2>3, <2>5, <2>6, <2>7 DEF Giving
<1> QED BY <1>2, <1>3

(* Who gives a reference back leaves to all the others what they refer to. *)
LEMMA ReleaseOwned ==
  ASSUME NEW h, NEW X, IsCount(X), NEW c \in Nat, Owned(h, Plus(X, c))
  PROVE  /\ Owned(chk_bytechunk_release(h, c), X)
         /\ Kept(h, chk_bytechunk_release(h, c), X)
         /\ Fewer(h, chk_bytechunk_release(h, c))
<1> DEFINE n == Cardinality(DOMAIN h)
           start == [h |-> h, c |-> c]
<1>1. IsHeap(h) /\ c \in DOMAIN h \cup {0} /\ IsFiniteSet(DOMAIN h)
  BY OwnedIsIn DEF Owned, IsHeap
<1>2. n \in Nat
  BY <1>1, FS_CardinalityType
<1>3. start.h = h /\ start.c = c
  OBVIOUS
<1>4. Kept(h, h, X) /\ Fewer(h, h)
  <2>1. Kept(h, h, Plus(X, c))
    BY KeptSame
  <2> QED BY <1>1, <2>1, KeptLess, FewerSame
<1>5. Giving(h, X, n, start, 0)
  BY <1>1, <1>2, <1>3, <1>4 DEF Giving
<1>6. chk_bytechunk_release(h, c) = LetGoAll(n, start).h
  BY DEF chk_bytechunk_release, LetGoAll
<1> HIDE DEF start, n
<1>7. PICK f : /\ f[0] = start /\ LetGoAll(n, start) = f[n]
               /\ \A k \in 0..(n - 1) : f[k + 1] = LetGo(f[k])
  BY <1>2, LetGoRounds
<1> DEFINE N == {k \in Nat : k <= n => Giving(h, X, n, f[k], k)}
<1>8. 0 \in N
  BY <1>5, <1>7
<1>9. ASSUME NEW k \in N PROVE k + 1 \in N
  <2>1. k \in Nat /\ (k <= n => Giving(h, X, n, f[k], k))
    OBVIOUS
  <2>2. ASSUME k + 1 <= n PROVE Giving(h, X, n, f[k + 1], k + 1)
    <3>1. k \in 0..(n - 1) /\ k <= n
      BY <1>2, <2>1, <2>2
    <3>2. f[k + 1] = LetGo(f[k])
      BY <1>7, <3>1
    <3> QED BY <1>1, <1>2, <2>1, <3>1, <3>2, GivingGoesOn
  <2> QED BY <2>1, <2>2
<1>10. N = Nat
  <2>1. N \in SUBSET Nat
    OBVIOUS
  <2> HIDE DEF N
  <2> QED BY <1>8, <1>9, <2>1, NatSetInduction
<1>11. Giving(h, X, n, f[n], n)
  BY <1>2, <1>10
<1> DEFINE r == f[n]
<1> HIDE DEF r
<1>12. /\ Owned(r.h, Plus(X, r.c)) /\ Kept(h, r.h, X) /\ Fewer(h, r.h)
       /\ r.c \in DOMAIN r.h \cup {0} /\ (r.c = 0 \/ Cardinality(DOMAIN r.h) + n <= n)
  BY <1>11 DEF Giving, r
<1>13. r.c = 0
  <2>1. ASSUME r.c # 0 PROVE FALSE
    <3>1. IsFiniteSet(DOMAIN r.h) /\ r.c \in DOMAIN r.h
      BY <1>12, <2>1 DEF Owned, IsHeap
    <3>2. Cardinality(DOMAIN r.h) \in Nat
      BY <3>1, FS_CardinalityType
    <3>3. Cardinality(DOMAIN r.h) = 0
      BY <1>2, <1>12, <2>1, <3>2
    <3>4. DOMAIN r.h = {}
      BY <3>1, <3>3, FS_EmptySet
    <3> QED BY <3>1, <3>4
  <2> QED BY <2>1
<1>14. Owned(r.h, X)
  BY <1>12, <1>13, NullOwned
<1> QED BY <1>6, <1>7, <1>12, <1>14 DEF r

LEMMA ChunkFilled ==
  ASSUME NEW r \in Chunk, NEW d \in Seq(Nat)
  PROVE  LET q == [r EXCEPT !.data = d]
         IN q \in Chunk /\ q.data = d /\ q.refcount = r.refcount /\ q.next = r.next /\ q.cap = r.cap
BY DEF Chunk

LEMMA InDepends ==
  ASSUME NEW h, NEW h2, DOMAIN h2 = DOMAIN h, \A d \in DOMAIN h : h2[d].next = h[d].next, NEW c
  PROVE  In(h2, c) = In(h, c)
BY DEF In, Pointing

(* Heaps that differ in the bytes only. *)
LEMMA SameButBytes ==
  ASSUME NEW h, NEW h2, NEW X, Owned(h, X), IsHeap(h2), DOMAIN h2 = DOMAIN h,
         \A d \in DOMAIN h : /\ h2[d].next = h[d].next /\ h2[d].cap = h[d].cap
                             /\ h2[d].refcount = h[d].refcount
  PROVE  Owned(h2, X) /\ Kept(h, h2, X) /\ Fewer(h, h2)
<1>1. IsHeap(h)
  BY DEF Owned
<1>2. \A c \in DOMAIN h : In(h2, c) = In(h, c)
  BY InDepends
<1>3. Owned(h2, X)
  BY <1>2 DEF Owned
<1>4. \A d \in DOMAIN h : Like(h, h2, d)
  BY DEF Like
<1>5. Fewer(h, h2)
  BY <1>1, ChunkFields DEF Fewer
<1> QED BY <1>3, <1>4, <1>5, LikeKept

Filled(h, places, in, c) ==
  [j \in DOMAIN h[c].data |->
     IF {i \in DOMAIN in \cap DOMAIN places : places[i] = <<c, j>>} = {} THEN h[c].data[j]
     ELSE in[CHOOSE i \in {i \in DOMAIN in \cap DOMAIN places : places[i] = <<c, j>>} : TRUE]]
LEMMA StoredIsFilled ==
  ASSUME NEW h, NEW places, NEW in
  PROVE  Stored(h, places, in) = [c \in DOMAIN h |-> [h[c] EXCEPT !.data = Filled(h, places, in, c)]]
BY DEF Stored, Filled

LEMMA FilledIsBytes ==
  ASSUME NEW h, IsHeap(h), NEW places, NEW in \in Seq(Nat), NEW c \in DOMAIN h
  PROVE  Filled(h, places, in, c) \in Seq(Nat) /\ Len(Filled(h, places, in, c)) = h[c].cap
<1>1. h[c].data \in Seq(Nat) /\ Len(h[c].data) = h[c].cap /\ h[c].cap \in Nat
  BY ChunkFields
<1> DEFINE now(j) == {i \in DOMAIN in \cap DOMAIN places : places[i] = <<c, j>>}
           v(j) == IF now(j) = {} THEN h[c].data[j] ELSE in[CHOOSE i \in now(j) : TRUE]
<1>2. ASSUME NEW j \in 1..h[c].cap PROVE v(j) \in Nat
  <2>1. h[c].data[j] \in Nat
    BY <1>1
  <2>2. now(j) # {} => (CHOOSE i \in now(j) : TRUE) \in now(j)
    OBVIOUS
  <2>3. \A i \in now(j) : in[i] \in Nat
    OBVIOUS
  <2> HIDE DEF now
  <2> QED BY <2>1, <2>2, <2>3
<1>3. Filled(h, places, in, c) = [j \in 1..h[c].cap |-> v(j)]
  <2>1. DOMAIN h[c].data = 1..h[c].cap
    BY <1>1
  <2> QED BY <2>1 DEF Filled
<1> HIDE DEF v
<1> DEFINE F == Filled(h, places, in, c)
           n == h[c].cap
<1>4. F = [j \in 1..n |-> v(j)] /\ n \in Nat /\ \A j \in 1..n : v(j) \in Nat
  BY <1>1, <1>2, <1>3
<1> HIDE DEF F, n
<1>5. F \in Seq(Nat) /\ Len(F) = n
  BY <1>4
<1> QED BY <1>5 DEF F, n

(* Writing bytes changes no references. *)
LEMMA StoredOwned ==
  ASSUME NEW h, NEW X, Owned(h, X), NEW places, NEW in \in Seq(Nat)
  PROVE  /\ Owned(Stored(h, places, in), X) /\ Kept(h, Stored(h, places, in), X)
         /\ Fewer(h, Stored(h, places, in)) /\ DOMAIN Stored(h, places, in) = DOMAIN h
<1> DEFINE h2 == Stored(h, places, in)
<1>1. IsHeap(h)
  BY DEF Owned
<1>2. h2 = [c \in DOMAIN h |-> [h[c] EXCEPT !.data = Filled(h, places, in, c)]]
  BY StoredIsFilled
<1> HIDE DEF h2
<1>3. DOMAIN h2 = DOMAIN h /\ h2 = [c \in DOMAIN h |-> h2[c]]
  BY <1>2
<1>4. ASSUME NEW c \in DOMAIN h
      PROVE /\ h2[c] \in Chunk /\ Len(h2[c].data) = h2[c].cap /\ h2[c].cap = h[c].cap
            /\ h2[c].refcount = h[c].refcount /\ h2[c].next = h[c].next
  <2> DEFINE d == Filled(h, places, in, c)
  <2>1. d \in Seq(Nat) /\ Len(d) = h[c].cap
    BY <1>1, FilledIsBytes
  <2>2. h2[c] = [h[c] EXCEPT !.data = d]
    BY <1>2
  <2>3. h[c] \in Chunk
    BY <1>1, ChunkFields
  <2> HIDE DEF d
  <2> QED BY <2>1, <2>2, <2>3, ChunkFilled
<1>5. IsHeap(h2)
  BY <1>1, <1>3, <1>4 DEF IsHeap
<1>6. Owned(h2, X) /\ Kept(h, h2, X) /\ Fewer(h, h2)
  BY <1>3, <1>4, <1>5, SameButBytes
<1> QED BY <1>3, <1>6 DEF h2

(* The same of chk_bytechunk_write. *)
LEMMA WriteOwned ==
  ASSUME NEW h, NEW X, Owned(h, X), NEW c, NEW pos, NEW in \in Seq(Nat)
  PROVE  LET h2 == chk_bytechunk_write(h, c, pos, in)
         IN Owned(h2, X) /\ Kept(h, h2, X) /\ Fewer(h, h2) /\ DOMAIN h2 = DOMAIN h
BY StoredOwned DEF chk_bytechunk_write

-----------------------------------------------------------------------------
(* Numbers as bytes. *)
LEMMA PowerIsPositive == ASSUME NEW k \in Nat PROVE Power(k) \in Nat \ {0}
<1>1. Base \in Nat \ {0, 1}
  BY BaseAssumption
<1>2. Power(k) = RaisedAll(k, 1)
  BY DEF Power, RaisedAll
<1>3. PICK f : f[0] = 1 /\ RaisedAll(k, 1) = f[k] /\ \A i \in 0..(k - 1) : f[i + 1] = Raised(f[i])
  BY RaisedRounds
<1> DEFINE N == {i \in Nat : i <= k => f[i] \in Nat \ {0}}
<1>4. 0 \in N
  BY <1>3
<1>5. ASSUME NEW i \in N PROVE i + 1 \in N
  <2>1. ASSUME i + 1 <= k PROVE f[i + 1] \in Nat \ {0}
    <3>1. i \in 0..(k - 1) /\ f[i] \in Nat \ {0}
      BY <2>1
    <3>2. f[i + 1] = f[i] * Base
      BY <1>3, <3>1 DEF Raised
    <3> DEFINE m == f[i]
    <3>3. m \in Nat /\ m > 0 /\ Base > 0
      BY <1>1, <3>1
    <3> HIDE DEF m
    <3>4. m * Base \in Nat \ {0}
      BY <1>1, <3>3
    <3> QED BY <3>2, <3>4 DEF m
  <2> QED BY <2>1
<1>6. N = Nat
  <2>1. N \in SUBSET Nat
    OBVIOUS
  <2> HIDE DEF N
  <2> QED BY <1>4, <1>5, <2>1, NatSetInduction
<1> QED BY <1>2, <1>3, <1>6

LEMMA CellsAreBytes ==
  ASSUME NEW n \in Int, NEW k \in Nat
  PROVE  Cells(n, k) \in Seq(Nat)
<1>1. Base \in Nat \ {0}
  BY BaseAssumption
<1>2. ASSUME NEW i \in 1..k PROVE (n \div Power(k - i)) % Base \in Nat
  <2> DEFINE p == Power(k - i)
             q == n \div p
  <2>1. p \in Nat \ {0}
    BY PowerIsPositive
  <2> HIDE DEF p
  <2>2. q \in Int
    BY <2>1
  <2> HIDE DEF q
  <2>3. q % Base \in Nat
    BY <1>1, <2>2
  <2> QED BY <2>3 DEF p, q
<1> QED BY <1>2 DEF Cells

LEMMA UnsignedIsNat == ASSUME NEW cells \in Seq(Nat) PROVE Unsigned(cells) \in Nat
<1> DEFINE P == [n : Nat, rest : Seq(Nat)]
           start == [n |-> 0, rest |-> cells]
           n == Len(cells)
<1>1. Base \in Nat /\ n \in Nat /\ start \in P
  BY BaseAssumption
<1>2. ASSUME NEW r \in P PROVE Joined(r) \in P
  <2>1. CASE r.rest = <<>>
    BY <2>1 DEF Joined
  <2>2. CASE r.rest # <<>>
    <3>1. r.n \in Nat /\ Head(r.rest) \in Nat /\ Tail(r.rest) \in Seq(Nat)
      BY <2>2
    <3>2. \A x, y \in Nat : x * Base + y \in Nat
      BY ONLY <1>1
    <3> QED BY <2>2, <3>1, <3>2 DEF Joined
  <2> QED BY <2>1, <2>2
<1>3. Unsigned(cells) = JoinedAll(n, start).n
  BY DEF Unsigned, JoinedAll
<1>4. \A r \in P : r.n \in Nat
  OBVIOUS
<1> HIDE DEF P, start, n
<1>5. PICK f : /\ f[0] = start /\ JoinedAll(n, start) = f[n]
               /\ \A k \in 0..(n - 1) : f[k + 1] = Joined(f[k])
  BY ONLY <1>1, JoinedRounds
<1> DEFINE N == {k \in Nat : f[k] \in P}
<1>6. 0 \in N
  BY <1>1, <1>5
<1>7. ASSUME NEW k \in 0..(n - 1), k \in N PROVE k + 1 \in N
  BY <1>2, <1>5, <1>7
<1>8. n \in N
  <2> HIDE DEF N
  <2> QED BY ONLY <1>1, <1>6, <1>7, CountUp
<1> QED BY <1>3, <1>4, <1>5, <1>8

(* What stands at the places of a covered piece of memory. *)
LEMMA LoadedIsBytes ==
  ASSUME NEW h, IsHeap(h), NEW f, NEW n \in Nat, f \in Seq(Spot), Len(f) = n, \A i \in 1..n : Within(h, f[i])
  PROVE  Loaded(h, f) \in Seq(Nat) /\ Len(Loaded(h, f)) = n
<1>1. ASSUME NEW i \in 1..n PROVE h[f[i][1]].data[f[i][2]] \in Nat
  <2> DEFINE c == f[i][1]
             j == f[i][2]
  <2>1. c \in DOMAIN h /\ j \in 1..h[c].cap
    BY DEF Within
  <2> HIDE DEF c, j
  <2>2. h[c].data \in Seq(Nat) /\ Len(h[c].data) = h[c].cap
    BY <2>1, ChunkFields
  <2>3. h[c].data[j] \in Nat
    BY <2>1, <2>2
  <2> QED BY <2>3 DEF c, j
<1> DEFINE v(i) == h[f[i][1]].data[f[i][2]]
<1>2. Loaded(h, f) = [i \in 1..n |-> v(i)]
  BY DEF Loaded
<1>3. \A i \in 1..n : v(i) \in Nat
  BY <1>1
<1> HIDE DEF v
<1> DEFINE F == Loaded(h, f)
<1>4. F = [i \in 1..n |-> v(i)]
  BY <1>2
<1> HIDE DEF F
<1>5. F \in Seq(Nat) /\ Len(F) = n
  BY <1>3, <1>4
<1> QED BY <1>5 DEF F

LEMMA ReadIsBytes ==
  ASSUME NEW h, IsHeap(h), NEW c \in DOMAIN h \cup {0}, NEW pos \in Nat, NEW n \in Nat, Covered(h, c, pos, n)
  PROVE  chk_bytechunk_read(h, c, pos, n) \in Seq(Nat)
<1>1. IsRun(h, c, pos, Places(h, c, pos, n), n)
  BY CoveredRun
<1>2. /\ Places(h, c, pos, n) \in Seq(Spot) /\ Len(Places(h, c, pos, n)) = n
      /\ \A i \in 1..n : Within(h, Places(h, c, pos, n)[i])
  BY <1>1 DEF IsRun
<1>3. Loaded(h, Places(h, c, pos, n)) \in Seq(Nat)
  BY <1>2, LoadedIsBytes
<1> QED BY <1>3 DEF chk_bytechunk_read

-----------------------------------------------------------------------------
(* Buffers that are pieces of lists of chunks. *)
Inside(h, c, pos) == c = 0 \/ (c \in DOMAIN h /\ pos < h[c].cap)
BufNats(b) == {b.head, b.tail, b.spos, b.datasize, b.append_pos} \subseteq Nat
BufferOk(h, b) ==
  /\ BufNats(b) /\ Inside(h, b.head, b.spos) /\ Covered(h, b.head, b.spos, b.datasize)
  /\ b.head = 0 <=> b.tail = 0

LEMMA EmptyOk == ASSUME NEW h, IsHeap(h) PROVE BufferOk(h, Empty)
<1>1. Covered(h, 0, 0, 0)
  BY NothingCovered
<1> QED BY <1>1 DEF BufferOk, BufNats, Inside, Empty, Buffer, NULL

LEMMA BufferFacts ==
  ASSUME NEW h, IsHeap(h), NEW b, BufferOk(h, b)
  PROVE  /\ b.head \in DOMAIN h \cup {0} /\ b.head \in Nat /\ b.tail \in Nat /\ b.spos \in Nat
         /\ b.datasize \in Nat /\ b.append_pos \in Nat /\ Covered(h, b.head, b.spos, b.datasize)
         /\ b.head # 0 => b.head \in DOMAIN h /\ b.spos < h[b.head].cap /\ h[b.head].cap \in Nat \ {0}
         /\ b.head = 0 => b.datasize = 0 /\ b.tail = 0
         /\ b.tail = 0 => b.head = 0
<1>1. /\ b.head \in DOMAIN h \cup {0} /\ b.head \in Nat /\ b.tail \in Nat /\ b.spos \in Nat
      /\ b.datasize \in Nat /\ b.append_pos \in Nat /\ Covered(h, b.head, b.spos, b.datasize)
      /\ b.head # 0 => b.head \in DOMAIN h /\ b.spos < h[b.head].cap
      /\ b.head = 0 <=> b.tail = 0
  BY DEF BufferOk, BufNats, Inside
<1>2. b.head = 0 => b.datasize = 0
  BY <1>1, CoveredRun
<1>3. b.head # 0 => h[b.head].cap \in Nat \ {0}
  BY <1>1, ChunkFields
<1> QED BY <1>1, <1>2, <1>3

LEMMA BufferKept ==
  ASSUME NEW h, NEW h2, NEW X, IsHeap(h), IsHeap(h2), Kept(h, h2, X), NEW b, BufferOk(h, b),
         b.head # 0 => X[b.head] > 0
  PROVE  BufferOk(h2, b)
<1>1. BufNats(b) /\ (b.head = 0 <=> b.tail = 0)
  BY DEF BufferOk
<1>2. b.head \in Nat /\ b.spos \in Nat /\ b.datasize \in Nat /\ Covered(h, b.head, b.spos, b.datasize)
  BY BufferFacts
<1>3. CASE b.head = 0
  <2>1. b.datasize = 0
    BY <1>3, BufferFacts
  <2>2. Covered(h2, b.head, b.spos, b.datasize)
    BY <1>2, <1>3, <2>1, NothingCovered
  <2> QED BY <1>1, <1>3, <2>2 DEF BufferOk, Inside
<1>4. CASE b.head # 0
  <2>1. SameFrom(h, h2, b.head)
    BY <1>2, <1>4 DEF Kept
  <2>2. b.spos < h[b.head].cap
    BY <1>4, BufferFacts
  <2>3. Covered(h2, b.head, b.spos, b.datasize)
    BY <1>2, <2>1 DEF SameFrom
  <2>4. Inside(h2, b.head, b.spos)
    BY <2>1, <2>2 DEF Inside, SameFrom
  <2> QED BY <1>1, <2>3, <2>4 DEF BufferOk
<1> QED BY <1>3, <1>4

LEMMA ContentIsBytes ==
  ASSUME NEW h, IsHeap(h), NEW b, BufferOk(h, b)
  PROVE  Content(h, b) \in Seq(Nat)
<1> DEFINE f == DataPlaces(h, b)
           n == b.datasize
           g == SubSeq(f, 0 + 1, Least(0 + n, Len(f)))
<1>1. n \in Nat /\ b.head \in DOMAIN h \cup {0} /\ b.spos \in Nat /\ Covered(h, b.head, b.spos, n)
  BY BufferFacts
<1>2. IsRun(h, b.head, b.spos, f, n)
  BY <1>1, CoveredRun DEF DataPlaces
<1>3. f \in Seq(Spot) /\ Len(f) = n /\ \A i \in 1..n : Within(h, f[i])
  BY <1>2 DEF IsRun
<1> HIDE DEF f
<1>4. g = f
  BY <1>1, <1>3 DEF Least
<1>5. Content(h, b) = IF 0 > n \/ b.head = 0 THEN <<>> ELSE Loaded(h, g)
  BY DEF Content, chk_bytebuffer_read, f, NULL
<1>6. Loaded(h, f) \in Seq(Nat)
  BY <1>1, <1>3, LoadedIsBytes
<1>7. <<>> \in Seq(Nat)
  OBVIOUS
<1> HIDE DEF g
<1> QED BY <1>4, <1>5, <1>6, <1>7

-----------------------------------------------------------------------------
(* Buffers that are made. *)

LEMMA RetainLike ==
  ASSUME NEW h, IsHeap(h), NEW c \in DOMAIN h \cup {0}
  PROVE  LET h2 == chk_bytechunk_retain(h, c)
         IN DOMAIN h2 = DOMAIN h /\ \A d \in DOMAIN h : Like(h, h2, d)
<1>1. CASE c = 0
  BY <1>1 DEF chk_bytechunk_retain, NULL, Like
<1>2. CASE c # 0
  <2> DEFINE q == [h[c] EXCEPT !.refcount = h[c].refcount + 1]
             h2 == chk_bytechunk_retain(h, c)
  <2>1. h2 = [h EXCEPT ![c] = q] /\ c \in DOMAIN h
    BY <1>2 DEF chk_bytechunk_retain, NULL
  <2>2. h[c] \in Chunk /\ h[c].refcount + 1 \in Nat
    BY <2>1, ChunkFields
  <2>3. q.next = h[c].next /\ q.cap = h[c].cap
    BY <2>2, ChunkCounted
  <2> HIDE DEF q, h2
  <2>4. DOMAIN h2 = DOMAIN h /\ \A d \in DOMAIN h : h2[d] = IF d = c THEN q ELSE h[d]
    BY <2>1 DEF IsHeap
  <2>5. \A d \in DOMAIN h : Like(h, h2, d)
    BY <2>3, <2>4 DEF Like
  <2> QED BY <2>4, <2>5 DEF h2
<1> QED BY <1>1, <1>2

LEMMA RetainKept ==
  ASSUME NEW h, NEW X, Owned(h, X), NEW c \in DOMAIN h \cup {0}
  PROVE  LET h2 == chk_bytechunk_retain(h, c)
         IN /\ Owned(h2, Plus(X, c)) /\ Kept(h, h2, X) /\ DOMAIN h2 = DOMAIN h
            /\ \A d \in DOMAIN h : SameFrom(h, h2, d)
<1> DEFINE h2 == chk_bytechunk_retain(h, c)
<1>1. IsHeap(h)
  BY DEF Owned
<1>2. DOMAIN h2 = DOMAIN h /\ \A d \in DOMAIN h : Like(h, h2, d)
  BY <1>1, RetainLike
<1>3. Owned(h2, Plus(X, c))
  BY RetainOwned
<1> HIDE DEF h2
<1>4. IsHeap(h2)
  BY <1>3 DEF Owned
<1>5. Kept(h, h2, X) /\ \A d \in DOMAIN h : SameFrom(h, h2, d)
  BY <1>1, <1>2, <1>4, LikeKept, LikeSame
<1> QED BY <1>2, <1>3, <1>5 DEF h2

LEMMA NewKept ==
  ASSUME NEW h, NEW X, Owned(h, X), NEW h2, IsHeap(h2), NEW c, IsNew(h, h2, c)
  PROVE  Kept(h, h2, X) /\ \A d \in DOMAIN h : SameFrom(h, h2, d)
<1>1. IsHeap(h)
  BY DEF Owned
<1>2. \A d \in DOMAIN h : Like(h, h2, d)
  BY DEF IsNew, Like
<1> QED BY <1>1, <1>2, LikeKept, LikeSame

(* A buffer over a chunk of its own, with the first n of its bytes in it. *)
IsFresh(h, X, c, h2, b, n) ==
  /\ Owned(h2, Plus(X, c)) /\ Kept(h, h2, X) /\ BufferOk(h2, b) /\ b.head = c
  /\ c \in DOMAIN h2 /\ n <= h2[c].cap /\ c \in Nat \ {0} /\ h2[c].next = 0
(* chk_bytebuffer_new, and a chunk with bytes. *)
LEMMA FreshMakes ==
  ASSUME NEW h, NEW X, Owned(h, X), NEW len \in Nat, NEW in \in Seq(Nat), NEW n \in Nat, n <= len,
         NEW end \in Nat, NEW flags, NEW c, c = NextChunk(h), NEW h2, h2 = chk_bytechunk_new(h, len, in),
         NEW b, b = Buffer(c, c, 0, n, end, flags)
  PROVE  IsFresh(h, X, c, h2, b, n)
<1>1. /\ IsNew(h, h2, c) /\ Owned(h2, Plus(X, c)) /\ h2[c].cap >= len
  BY NewOwned
<1>2. IsHeap(h2)
  BY <1>1 DEF Owned
<1>3. Kept(h, h2, X)
  BY <1>1, <1>2, NewKept
<1>4. c \in Nat \ {0} /\ c \in DOMAIN h2 /\ h2[c].cap \in Nat \ {0} /\ h2[c].next = 0
  BY <1>1 DEF IsNew
<1>5. 0 + n <= h2[c].cap /\ 0 \in Nat
  BY <1>1, <1>4
<1>6. Covered(h2, c, 0, n)
  BY <1>2, <1>4, <1>5, InChunk
<1>7. b.head = c /\ b.tail = c /\ b.spos = 0 /\ b.datasize = n /\ b.append_pos = end
  BY DEF Buffer
<1>8. BufferOk(h2, b)
  BY <1>4, <1>6, <1>7 DEF BufferOk, BufNats, Inside
<1> QED BY <1>1, <1>3, <1>4, <1>5, <1>7, <1>8 DEF IsFresh

(* A buffer of its own, over a piece that is already there or a new chunk. *)
LEMMA InitMakes ==
  ASSUME NEW h, NEW X, Owned(h, X), NEW c \in DOMAIN h \cup {0}, NEW spos \in Nat, NEW datasize \in Nat,
         Inside(h, c, spos), Covered(h, c, spos, datasize), NEW flags, NEW r,
         r = chk_bytebuffer_init(h, c, spos, datasize, flags)
  PROVE  /\ Owned(r.h, Plus(X, r.b.head)) /\ Kept(h, r.h, X) /\ BufferOk(r.h, r.b)
         /\ r.b.datasize = datasize /\ r.lost = 0 /\ r.fault = "none"
         /\ c # 0 => r.b.head = c
         /\ \A d \in DOMAIN h : SameFrom(h, r.h, d)
<1>1. IsHeap(h) /\ c \in Nat
  BY DEF Owned, IsHeap
<1>2. CASE c = 0
  <2> DEFINE n == NextChunk(h)
             h2 == chk_bytechunk_new(h, datasize, <<>>)
             b == Buffer(n, n, 0, 0, 0, flags)
             in == <<>>
  <2>1. r.h = h2 /\ r.b = b /\ r.lost = 0 /\ r.fault = "none"
    BY <1>2 DEF chk_bytebuffer_init, Done, Result, NULL
  <2>2. datasize = 0
    BY <1>1, <1>2, CoveredRun
  <2>3. n = NextChunk(h) /\ h2 = chk_bytechunk_new(h, datasize, in) /\ b = Buffer(n, n, 0, 0, 0, flags)
        /\ in \in Seq(Nat) /\ 0 \in Nat /\ 0 <= datasize /\ b.datasize = 0
    BY DEF Buffer
  <2> HIDE DEF n, h2, b, in
  <2>4. IsFresh(h, X, n, h2, b, 0)
    BY ONLY Owned(h, X), datasize \in Nat, <2>3, FreshMakes
  <2>5. \A d \in DOMAIN h : SameFrom(h, h2, d)
    <3>1. IsNew(h, h2, n) /\ IsHeap(h2)
      BY <2>3, NewOwned DEF Owned
    <3> QED BY <3>1, NewKept
  <2> QED BY <1>2, <2>1, <2>2, <2>3, <2>4, <2>5 DEF IsFresh
<1>3. CASE c # 0
  <2>1. /\ r.h = chk_bytechunk_retain(h, c) /\ r.b.head = c /\ r.b.tail = c /\ r.b.spos = spos
        /\ r.b.datasize = datasize /\ r.b.append_pos = 0 /\ r.lost = 0 /\ r.fault = "none"
    BY <1>3 DEF chk_bytebuffer_init, Done, Result, Buffer, NULL
  <2>2. /\ Owned(r.h, Plus(X, c)) /\ Kept(h, r.h, X)
        /\ DOMAIN r.h = DOMAIN h /\ \A d \in DOMAIN h : SameFrom(h, r.h, d)
    BY <2>1, RetainKept
  <2>3. SameFrom(h, r.h, c) /\ spos < h[c].cap
    BY <1>3, <2>2 DEF Inside
  <2>4. Covered(r.h, c, spos, datasize) /\ Inside(r.h, c, spos)
    BY <2>3 DEF SameFrom, Inside
  <2>5. BufferOk(r.h, r.b)
    BY <1>1, <1>3, <2>1, <2>4 DEF BufferOk, BufNats
  <2> QED BY <1>3, <2>1, <2>2, <2>5
<1> QED BY <1>2, <1>3

(* chk_bytebuffer_clone. *)
LEMMA CloneMakes ==
  ASSUME NEW h, NEW X, Owned(h, X), NEW b, BufferOk(h, b), NEW r, r = chk_bytebuffer_clone(h, b)
  PROVE  /\ Owned(r.h, Plus(X, r.b.head)) /\ Kept(h, r.h, X) /\ BufferOk(r.h, r.b)
         /\ r.b.datasize = b.datasize
         /\ r.lost = 0 /\ r.fault = "none"
<1>1. IsHeap(h)
  BY DEF Owned
<1>2. /\ b.head \in DOMAIN h \cup {0} /\ b.spos \in Nat /\ b.datasize \in Nat
      /\ Covered(h, b.head, b.spos, b.datasize)
  BY <1>1, BufferFacts
<1>3. Inside(h, b.head, b.spos)
  BY DEF BufferOk
<1>4. r = chk_bytebuffer_init(h, b.head, b.spos, b.datasize, {NEED_COPY_ON_WRITE})
  BY DEF chk_bytebuffer_clone
<1> QED BY <1>2, <1>3, <1>4, InitMakes

(* The tail and the position to append at are the end of the bytes.          *)
EndsAt(h, b) ==
  /\ b.head \in DOMAIN h /\ b.tail \in DOMAIN h
  /\ \/ b.datasize = 0 /\ b.head = b.tail /\ b.spos = b.append_pos
     \/ b.datasize # 0 /\ Places(h, b.head, b.spos, b.datasize)[b.datasize] = <<b.tail, b.append_pos>>
(* Or the next byte's place.                                                 *)
GoesOnAt(h, b) ==
  /\ b.head \in DOMAIN h /\ b.tail \in DOMAIN h /\ b.append_pos < h[b.tail].cap
  /\ PlaceBehind(h, b.head, b.spos, b.datasize) = <<b.tail, b.append_pos + 1>>

LEMMA EndsAtPlace ==
  ASSUME NEW h, IsHeap(h), NEW b, BufferOk(h, b), EndsAt(h, b)
  PROVE  PlaceBehind(h, b.head, b.spos, b.datasize) = Place(h, b.tail, b.append_pos)
<1>1. b.datasize \in Nat
  BY BufferFacts
<1>2. CASE b.datasize = 0
  BY <1>2 DEF EndsAt, PlaceBehind
<1>3. CASE b.datasize # 0
  BY <1>3 DEF EndsAt, PlaceBehind
<1> QED BY <1>2, <1>3

(* A new chunk behind the last one. *)
IsLinkedNew(h, X, d, len, c, h2) ==
  /\ Owned(h2, X) /\ Kept(h, h2, X) /\ \A x \in DOMAIN h : SameFrom(h, h2, x)
  /\ c \in DOMAIN h2 /\ c \in Nat \ {0} /\ c \notin DOMAIN h /\ DOMAIN h2 = DOMAIN h \cup {c}
  /\ h2[d].next = c /\ h2[c].next = 0 /\ h2[c].cap >= len
  /\ \A x \in DOMAIN h : Like(h, h2, x)
LEMMA LinkedOwned ==
  ASSUME NEW h, NEW X, Owned(h, X), NEW d \in DOMAIN h, h[d].next = 0, NEW len \in Nat,
         NEW c, c = NextChunk(h), NEW h2, h2 = LinkedTo(chk_bytechunk_new(h, len, <<>>), d, c)
  PROVE  IsLinkedNew(h, X, d, len, c, h2)
<1> DEFINE g == chk_bytechunk_new(h, len, <<>>)
<1>1. <<>> \in Seq(Nat)
  OBVIOUS
<1>2. IsNew(h, g, c) /\ Owned(g, Plus(X, c)) /\ g[c].cap >= len
  BY <1>1, NewOwned
<1>3. h2 = LinkedTo(g, d, c)
  OBVIOUS
<1> HIDE DEF g
<1>4. /\ c \in Nat \ {0} /\ c \notin DOMAIN h /\ DOMAIN g = DOMAIN h \cup {c}
      /\ g[c].next = 0 /\ \A x \in DOMAIN h : g[x] = h[x]
  BY <1>2 DEF IsNew
<1>5. IsHeap(h) /\ IsHeap(g) /\ IsCount(X) /\ d \in DOMAIN g /\ c \in DOMAIN g /\ g[d].next = 0 /\ d # c
  BY <1>2, <1>4 DEF Owned
<1>6. Owned(h2, X)
  BY <1>2, <1>3, <1>5, LinkOwned
<1>b. c \in DOMAIN g \cup {0}
  BY <1>5
<1>c. IsRelinked(g, h2, d, c)
  BY <1>3, <1>5, <1>b, Relinked
<1>7. /\ IsHeap(h2) /\ DOMAIN h2 = DOMAIN g
      /\ \A x \in DOMAIN g : /\ h2[x].refcount = g[x].refcount /\ h2[x].cap = g[x].cap
                             /\ h2[x].next = IF x = d THEN c ELSE g[x].next
  BY <1>c DEF IsRelinked
<1>8. \A x \in DOMAIN h : Like(h, h2, x)
  BY <1>4, <1>7 DEF Like
<1>9. Kept(h, h2, X) /\ \A x \in DOMAIN h : SameFrom(h, h2, x)
  BY <1>5, <1>7, <1>8, LikeKept, LikeSame
<1> QED BY <1>2, <1>4, <1>5, <1>6, <1>7, <1>8, <1>9 DEF IsLinkedNew

IsExtended(h, X, b, r) ==
  /\ Owned(r.h, Plus(X, b.head)) /\ Kept(h, r.h, Plus(X, b.head)) /\ BufferOk(r.h, r.b)
  /\ GoesOnAt(r.h, r.b) /\ r.b.head = b.head
(* Where there is no room the buffer goes on in the next chunk. *)
LEMMA Extends ==
  ASSUME NEW h, NEW X, IsCount(X), NEW b, Owned(h, Plus(X, b.head)), BufferOk(h, b), EndsAt(h, b),
         NEW size \in Nat, NEW r, r = Extended(h, b, size)
  PROVE  IsExtended(h, X, b, r)
<1>1. /\ IsHeap(h) /\ b.head \in DOMAIN h /\ b.tail \in DOMAIN h /\ b.append_pos \in Nat
      /\ b.datasize \in Nat /\ b.spos \in Nat /\ b.spos < h[b.head].cap
      /\ Covered(h, b.head, b.spos, b.datasize) /\ b.head # 0 /\ b.tail # 0 /\ b.head \in Nat /\ b.tail \in Nat
  <2>1. IsHeap(h) /\ b.head \in DOMAIN h /\ b.tail \in DOMAIN h
    BY DEF Owned, EndsAt
  <2>2. b.head # 0
    BY <2>1, ChunkFields
  <2> QED BY <2>1, <2>2, BufferFacts
<1>2. PlaceBehind(h, b.head, b.spos, b.datasize) = Place(h, b.tail, b.append_pos)
  BY <1>1, EndsAtPlace
<1>3. Kept(h, h, Plus(X, b.head))
  BY KeptSame
<1>4. CASE b.append_pos < h[b.tail].cap
  <2>1. r.h = h /\ r.b = b
    BY <1>4 DEF Extended, Done, Result
  <2>2. Place(h, b.tail, b.append_pos) = <<b.tail, b.append_pos + 1>>
    BY <1>1, <1>4, PlaceKinds
  <2>3. GoesOnAt(r.h, r.b)
    BY <1>1, <1>2, <1>4, <2>1, <2>2 DEF GoesOnAt
  <2> QED BY <1>3, <2>1, <2>3 DEF IsExtended
<1>5. CASE ~(b.append_pos < h[b.tail].cap) /\ h[b.tail].next # 0
  <2> DEFINE t == h[b.tail].next
  <2>1. r.h = h /\ r.b = Buffer(b.head, t, b.spos, b.datasize, 0, b.flags)
    BY <1>5 DEF Extended, Done, Result, NULL
  <2>2. t \in DOMAIN h /\ t # 0 /\ h[t].cap \in Nat \ {0} /\ t \in Nat
    BY <1>1, <1>5, ChunkFields
  <2>3. Place(h, b.tail, b.append_pos) = <<t, 1>>
    BY <1>1, <1>5, PlaceKinds
  <2> HIDE DEF t
  <2>4. /\ r.b.head = b.head /\ r.b.tail = t /\ r.b.spos = b.spos /\ r.b.datasize = b.datasize
        /\ r.b.append_pos = 0
    BY <2>1 DEF Buffer
  <2>5. GoesOnAt(r.h, r.b)
    BY <1>1, <1>2, <2>1, <2>2, <2>3, <2>4 DEF GoesOnAt
  <2>6. BufferOk(r.h, r.b)
    BY <1>1, <2>1, <2>2, <2>4 DEF BufferOk, BufNats, Inside
  <2> QED BY <1>3, <2>1, <2>4, <2>5, <2>6 DEF IsExtended
<1>6. CASE ~(b.append_pos < h[b.tail].cap) /\ h[b.tail].next = 0
  <2> DEFINE c == NextChunk(h)
             h2 == LinkedTo(chk_bytechunk_new(h, size, <<>>), b.tail, c)
  <2>1. r.h = h2 /\ r.b = Buffer(b.head, c, b.spos, b.datasize, 0, b.flags)
    BY <1>6 DEF Extended, Done, Result, NULL, LinkedTo
  <2>a. c = NextChunk(h) /\ h2 = LinkedTo(chk_bytechunk_new(h, size, <<>>), b.tail, c)
    OBVIOUS
  <2>b. Owned(h, Plus(X, b.head)) /\ size \in Nat /\ h[b.tail].next = 0
    BY <1>6
  <2> HIDE DEF c, h2
  <2>c. IsLinkedNew(h, Plus(X, b.head), b.tail, size, c, h2)
    BY ONLY <1>1, <2>a, <2>b, LinkedOwned
  <2>2. /\ Owned(h2, Plus(X, b.head)) /\ Kept(h, h2, Plus(X, b.head)) /\ \A x \in DOMAIN h : SameFrom(h, h2, x)
        /\ c \in DOMAIN h2 /\ c \in Nat \ {0} /\ c \notin DOMAIN h /\ DOMAIN h2 = DOMAIN h \cup {c}
        /\ h2[b.tail].next = c /\ h2[c].next = 0 /\ h2[c].cap >= size
        /\ \A x \in DOMAIN h : Like(h, h2, x)
    BY <2>c DEF IsLinkedNew
  <2>3. IsHeap(h2)
    BY <2>2 DEF Owned
  <2>4. /\ r.b.head = b.head /\ r.b.tail = c /\ r.b.spos = b.spos /\ r.b.datasize = b.datasize
        /\ r.b.append_pos = 0
    BY <2>1 DEF Buffer
  <2>5. SameFrom(h, h2, b.head)
    BY <1>1, <2>2
  <2>6. /\ h2[b.head].cap = h[b.head].cap /\ b.head \in DOMAIN h2
        /\ Covered(h2, b.head, b.spos, b.datasize)
        /\ Places(h2, b.head, b.spos, b.datasize) = Places(h, b.head, b.spos, b.datasize)
    BY <1>1, <2>5 DEF SameFrom
  <2>7. BufferOk(h2, r.b)
    BY <1>1, <2>2, <2>4, <2>6 DEF BufferOk, BufNats, Inside
  <2>8. Place(h, b.tail, b.append_pos) = <<0, 1>>
    BY <1>1, <1>6, PlaceKinds
  <2>9. b.datasize # 0
    <3>1. ASSUME b.datasize = 0 PROVE FALSE
      <4>1. Place(h, b.head, b.spos) = <<b.head, b.spos + 1>>
        BY <1>1, PlaceKinds
      <4>2. Place(h, b.head, b.spos) = <<0, 1>>
        BY <1>2, <2>8, <3>1 DEF PlaceBehind
      <4> QED BY <1>1, <4>1, <4>2
    <3> QED BY <3>1
  <2>10. Places(h2, b.head, b.spos, b.datasize)[b.datasize] = <<b.tail, b.append_pos>>
    BY <2>6, <2>9 DEF EndsAt
  <2>11. h2[b.tail].cap = h[b.tail].cap /\ b.tail \in DOMAIN h2
    BY <1>1, <2>2 DEF Like
  <2>12. Place(h2, b.tail, b.append_pos) = <<c, 1>>
    BY <1>1, <1>6, <2>2, <2>3, <2>11, PlaceKinds
  <2>13. PlaceBehind(h2, b.head, b.spos, b.datasize) = <<c, 1>>
    BY <2>9, <2>10, <2>12 DEF PlaceBehind
  <2>14. h2[c].cap \in Nat \ {0}
    BY <2>2, <2>3, ChunkFields
  <2>15. GoesOnAt(h2, r.b)
    BY <2>2, <2>4, <2>6, <2>13, <2>14 DEF GoesOnAt
  <2> QED BY <2>1, <2>2, <2>4, <2>7, <2>15 DEF IsExtended
<1> QED BY <1>4, <1>5, <1>6

Appending(h, X, a) ==
  /\ Owned(a.h, Plus(X, a.b.head)) /\ BufferOk(a.h, a.b) /\ EndsAt(a.h, a.b)
  /\ a.in \in Seq(Nat) /\ Kept(h, a.h, X)

(* n bytes in the tail, where the next byte goes. *)
IsPut(h, X, h2, b, b2) ==
  /\ Owned(h2, Plus(X, b.head)) /\ Kept(h, h2, X) /\ BufferOk(h2, b2) /\ EndsAt(h2, b2)
  /\ b2.head = b.head
LEMMA PutAtEnd ==
  ASSUME NEW h, NEW X, IsCount(X), NEW b, Owned(h, Plus(X, b.head)), BufferOk(h, b), GoesOnAt(h, b),
         NEW n \in Nat \ {0}, n <= h[b.tail].cap - b.append_pos, NEW in \in Seq(Nat),
         NEW h2, h2 = chk_bytechunk_write(h, b.tail, b.append_pos, in),
         NEW b2, b2 = Buffer(b.head, b.tail, b.spos, b.datasize + n, b.append_pos + n, b.flags)
  PROVE  IsPut(h, X, h2, b, b2)
<1> DEFINE head == b.head
           t == b.tail
           m == b.datasize
           s == b.spos
           p == b.append_pos
<1>1. /\ IsHeap(h) /\ head \in DOMAIN h /\ t \in DOMAIN h /\ p < h[t].cap /\ h[t].cap \in Nat
      /\ PlaceBehind(h, head, s, m) = <<t, p + 1>>
  BY ChunkFields DEF Owned, GoesOnAt
<1>2. head \in Nat \ {0} /\ t \in Nat \ {0} /\ m \in Nat /\ s \in Nat /\ p \in Nat /\ Covered(h, head, s, m) /\ s < h[head].cap
  BY <1>1, BufferFacts, ChunkFields
<1>3. b2.head = head /\ b2.tail = t /\ b2.spos = s /\ b2.datasize = m + n /\ b2.append_pos = p + n
  BY DEF Buffer
<1>4. Owned(h, Plus(X, head)) /\ h2 = chk_bytechunk_write(h, t, p, in)
  OBVIOUS
<1> HIDE DEF head, t, m, s, p
<1>5. Owned(h2, Plus(X, head)) /\ Kept(h, h2, Plus(X, head)) /\ DOMAIN h2 = DOMAIN h
  BY <1>4, WriteOwned
<1>6. Kept(h, h2, X) /\ SameFrom(h, h2, head)
  BY <1>2, <1>5, KeptLess, KeptFrom
<1>7. Within(h, PlaceBehind(h, head, s, m))
  <2>1. p + 1 \in 1..h[t].cap
    BY <1>1, <1>2
  <2> QED BY <1>1, <2>1 DEF Within
<1>8. Covered(h, head, s, m + 1) /\ Places(h, head, s, m + 1)[m + 1] = PlaceBehind(h, head, s, m)
  BY <1>1, <1>2, <1>7, CoveredMore
<1>9. p + n <= h[t].cap
  <2>1. n <= h[t].cap - p
    BY DEF t, p
  <2> QED BY <1>1, <1>2, <2>1
<1>10. Covered(h, t, p, n) /\ Places(h, t, p, n)[n] = <<t, p + n>>
  <2>1. n \in Nat /\ n \in 1..n
    OBVIOUS
  <2> QED BY <1>1, <1>2, <1>9, <2>1, InChunk
<1>11. Place(h, t, p) = <<t, p + 1>>
  BY <1>1, <1>2, PlaceKinds
<1>12. Places(h, head, s, m + 1)[m + 1] = Place(h, t, p)
  BY <1>1, <1>8, <1>11
<1>13. Covered(h, head, s, m + n) /\ Places(h, head, s, m + n)[m + n] = <<t, p + n>>
  <2>1. n \in Nat \ {0}
    OBVIOUS
  <2>2. Covered(h, head, s, m + n) /\ Places(h, head, s, m + n)[m + n] = Places(h, t, p, n)[n]
    <3>1. IsSpliced(h, head, s, m, t, p, n)
      BY ONLY <1>1, <1>2, <1>8, <1>10, <1>12, <2>1, Spliced
    <3> QED BY ONLY <3>1 DEF IsSpliced
  <2> QED BY <1>10, <2>2
<1>14. m + n \in Nat /\ m + n # 0 /\ p + n \in Nat
  BY <1>2
<1>15. /\ Covered(h2, head, s, m + n) /\ Places(h2, head, s, m + n)[m + n] = <<t, p + n>>
       /\ head \in DOMAIN h2 /\ h2[head].cap = h[head].cap
  BY <1>2, <1>6, <1>13, <1>14 DEF SameFrom
<1>16. BufferOk(h2, b2)
  BY <1>2, <1>3, <1>14, <1>15 DEF BufferOk, BufNats, Inside
<1>17. EndsAt(h2, b2)
  BY <1>1, <1>3, <1>5, <1>14, <1>15 DEF EndsAt
<1> QED BY <1>3, <1>5, <1>6, <1>16, <1>17 DEF head, IsPut

(* One round of append. *)
LEMMA AppendStep ==
  ASSUME NEW h, NEW X, IsCount(X), NEW a, Appending(h, X, a)
  PROVE  Appending(h, X, AppendSome(a))
<1> DEFINE l == Len(a.in)
           r == Extended(a.h, a.b, l)
           n == Least(r.h[r.b.tail].cap - r.b.append_pos, l)
           part == SubSeq(a.in, 1, n)
           h2 == chk_bytechunk_write(r.h, r.b.tail, r.b.append_pos, part)
           b2 == Buffer(r.b.head, r.b.tail, r.b.spos, r.b.datasize + n, r.b.append_pos + n, r.b.flags)
           q == AppendSome(a)
<1>1. /\ Owned(a.h, Plus(X, a.b.head)) /\ BufferOk(a.h, a.b) /\ EndsAt(a.h, a.b)
      /\ a.in \in Seq(Nat) /\ Kept(h, a.h, X) /\ l \in Nat
  BY DEF Appending
<1>2. CASE a.in = <<>>
  BY <1>2 DEF AppendSome
<1>3. CASE a.in # <<>>
  <2>1. q = [h |-> h2, b |-> b2, in |-> SubSeq(a.in, n + 1, l)]
    BY <1>3 DEF AppendSome
  <2>2. l # 0 /\ \A i \in 1..l : a.in[i] \in Nat
    BY <1>1, <1>3
  <2>3. /\ r = Extended(a.h, a.b, l)
        /\ n = Least(r.h[r.b.tail].cap - r.b.append_pos, l)
        /\ part = SubSeq(a.in, 1, n)
        /\ h2 = chk_bytechunk_write(r.h, r.b.tail, r.b.append_pos, part)
        /\ b2 = Buffer(r.b.head, r.b.tail, r.b.spos, r.b.datasize + n, r.b.append_pos + n, r.b.flags)
    OBVIOUS
  <2>a. l = Len(a.in)
    OBVIOUS
  <2> HIDE DEF l, r, n, part, h2, b2, q
  <2>4. /\ Owned(r.h, Plus(X, a.b.head)) /\ Kept(a.h, r.h, Plus(X, a.b.head)) /\ BufferOk(r.h, r.b)
        /\ GoesOnAt(r.h, r.b) /\ r.b.head = a.b.head
    <3>1. IsCount(X)
      OBVIOUS
    <3>2. IsExtended(a.h, X, a.b, r)
      BY ONLY <1>1, <2>3, <3>1, Extends
    <3> QED BY <3>2 DEF IsExtended
  <2>5. a.b.head \in Nat /\ Kept(a.h, r.h, X)
    <3>1. IsHeap(a.h)
      BY <1>1 DEF Owned
    <3>2. a.b.head \in Nat
      BY <1>1, <3>1, BufferFacts
    <3> QED BY <2>4, <3>2, KeptLess
  <2>6. n \in Nat \ {0} /\ n <= r.h[r.b.tail].cap - r.b.append_pos /\ n <= l
    <3> DEFINE c == r.h[r.b.tail].cap
               p == r.b.append_pos
    <3>1. c \in Nat /\ p \in Nat /\ p < c
      <4>1. IsHeap(r.h) /\ r.b.tail \in DOMAIN r.h
        BY <2>4 DEF Owned, GoesOnAt
      <4> QED BY <2>4, <4>1, ChunkFields, BufferFacts DEF GoesOnAt
    <3> HIDE DEF c, p
    <3>2. n = Least(c - p, l)
      BY <2>3 DEF c, p
    <3>3. n \in Nat \ {0} /\ n <= c - p /\ n <= l
      BY <1>1, <2>2, <3>1, <3>2 DEF Least
    <3> QED BY <3>3 DEF c, p
  <2>7. part \in Seq(Nat) /\ SubSeq(a.in, n + 1, l) \in Seq(Nat)
    <3>1. a.in \in Seq(Nat) /\ n \in Nat /\ n + 1 \in Nat /\ l \in Nat
      BY <1>1, <2>6
    <3> DEFINE str == a.in
    <3>2. str \in Seq(Nat) /\ l = Len(str) /\ n <= l
      BY <1>1, <2>6, <2>a
    <3> HIDE DEF str
    <3>3. SubSeq(str, 1, n) \in Seq(Nat) /\ SubSeq(str, n + 1, l) \in Seq(Nat)
      BY <3>1, <3>2
    <3> QED BY <2>3, <3>3 DEF str
  <2>8. /\ Owned(h2, Plus(X, r.b.head)) /\ Kept(r.h, h2, X) /\ BufferOk(h2, b2) /\ EndsAt(h2, b2)
        /\ b2.head = r.b.head
    <3>1. Owned(r.h, Plus(X, r.b.head))
      BY <2>4
    <3>2. /\ Owned(r.h, Plus(X, r.b.head)) /\ BufferOk(r.h, r.b) /\ GoesOnAt(r.h, r.b)
          /\ n \in Nat \ {0} /\ n <= r.h[r.b.tail].cap - r.b.append_pos /\ part \in Seq(Nat)
      BY <2>4, <2>6, <2>7
    <3>3. IsCount(X)
      OBVIOUS
    <3>4. IsPut(r.h, X, h2, r.b, b2)
      BY ONLY <2>3, <3>2, <3>3, PutAtEnd
    <3> QED BY <3>4 DEF IsPut
  <2>9. Kept(h, h2, X)
    <3>1. Kept(h, r.h, X)
      BY <1>1, <2>5, KeptTrans
    <3> QED BY <2>8, <3>1, KeptTrans
  <2>10. q.h = h2 /\ q.b = b2 /\ q.in = SubSeq(a.in, n + 1, l)
    BY <2>1
  <2>11. Appending(h, X, q)
    BY <2>7, <2>8, <2>9, <2>10 DEF Appending
  <2> QED BY <2>11 DEF q
<1> QED BY <1>1, <1>2, <1>3

(* All of them. *)
LEMMA AppendAllOwned ==
  ASSUME NEW h, NEW X, IsCount(X), NEW b, NEW in \in Seq(Nat), Owned(h, Plus(X, b.head)), BufferOk(h, b),
         EndsAt(h, b)
  PROVE  Appending(h, X, AppendAll(h, b, in))
<1> DEFINE n == Len(in)
           start == [h |-> h, b |-> b, in |-> in]
<1>1. n \in Nat
  OBVIOUS
<1>2. start.h = h /\ start.b = b /\ start.in = in
  OBVIOUS
<1>3. AppendAll(h, b, in) = AppendSomeAll(n, start)
  BY DEF AppendAll, AppendSomeAll
<1>4. Kept(h, h, X)
  <2>1. Kept(h, h, Plus(X, b.head)) /\ IsHeap(h)
    BY KeptSame DEF Owned
  <2>2. b.head \in Nat
    BY <2>1, BufferFacts
  <2> QED BY <2>1, <2>2, KeptLess
<1>5. Appending(h, X, start)
  BY <1>2, <1>4 DEF Appending
<1> HIDE DEF start, n
<1>6. PICK f : /\ f[0] = start /\ AppendSomeAll(n, start) = f[n]
               /\ \A k \in 0..(n - 1) : f[k + 1] = AppendSome(f[k])
  BY ONLY <1>1, AppendSomeRounds
<1> DEFINE N == {k \in Nat : k <= n => Appending(h, X, f[k])}
<1>7. 0 \in N
  BY <1>5, <1>6
<1>8. ASSUME NEW k \in N PROVE k + 1 \in N
  <2>1. ASSUME k + 1 <= n PROVE Appending(h, X, f[k + 1])
    <3>1. k \in 0..(n - 1) /\ k <= n /\ k \in Nat
      BY <1>1, <2>1
    <3>2. f[k + 1] = AppendSome(f[k]) /\ Appending(h, X, f[k])
      BY <1>6, <3>1
    <3> QED BY <3>2, AppendStep
  <2> QED BY <2>1
<1>9. N = Nat
  <2>1. N \in SUBSET Nat
    OBVIOUS
  <2> HIDE DEF N
  <2> QED BY <1>7, <1>8, <2>1, NatSetInduction
<1>10. Appending(h, X, f[n])
  BY <1>1, <1>9
<1> QED BY <1>3, <1>6, <1>10

(* What a function that changes a buffer leaves to its holder and to all the others. *)
Changed(h, X, r) ==
  /\ Owned(r.h, Plus(Plus(X, r.lost), r.b.head)) /\ BufferOk(r.h, r.b) /\ Kept(h, r.h, X)
  /\ r.lost \in Nat /\ r.b.head \in Nat

LEMMA Unchanged ==
  ASSUME NEW h, NEW X, IsCount(X), NEW b, Owned(h, Plus(X, b.head)), BufferOk(h, b),
         NEW r, r.h = h, r.b = b, r.lost = 0
  PROVE  Changed(h, X, r)
<1>1. IsHeap(h) /\ IsCount(Plus(X, b.head)) /\ b.head \in Nat /\ b.head \in DOMAIN h \cup {0}
  BY BufferFacts DEF Owned
<1>2. Owned(h, Plus(Plus(X, b.head), 0))
  BY <1>1, NullOwned
<1>3. Plus(Plus(X, 0), b.head) = Plus(Plus(X, b.head), 0)
  BY <1>1, PlusSwapped
<1>4. Kept(h, h, X)
  <2>1. Kept(h, h, Plus(X, b.head))
    BY KeptSame
  <2> QED BY <1>1, <2>1, KeptLess
<1> QED BY <1>1, <1>2, <1>3, <1>4 DEF Changed

(* A copy on write leaves a buffer of its own, and one reference that is   *)
(* lost.                                                                   *)
LEMMA CopyMakes ==
  ASSUME NEW h, NEW X, IsCount(X), NEW b, Owned(h, Plus(X, b.head)), BufferOk(h, b),
         NEW r, r = chk_bytebuffer_do_copy(h, b)
  PROVE  Changed(h, X, r) /\ EndsAt(r.h, r.b) /\ r.b.tail # 0
<1> DEFINE c == NextChunk(h)
           n == b.datasize
           h2 == chk_bytechunk_new(h, n, Content(h, b))
           flags == b.flags \ {NEED_COPY_ON_WRITE}
           b2 == Buffer(c, c, 0, n, n, flags)
<1>1. r.h = h2 /\ r.b = b2 /\ r.lost = b.head
  BY DEF chk_bytebuffer_do_copy, Result
<1>2. IsHeap(h) /\ IsCount(Plus(X, b.head))
  BY DEF Owned
<1>3. n \in Nat /\ b.head \in Nat /\ Content(h, b) \in Seq(Nat) /\ n <= n
  BY <1>2, BufferFacts, ContentIsBytes
<1> DEFINE in == Content(h, b)
<1>4. c = NextChunk(h) /\ h2 = chk_bytechunk_new(h, n, in) /\ b2 = Buffer(c, c, 0, n, n, flags)
  OBVIOUS
<1>5. b2.head = c /\ b2.tail = c /\ b2.spos = 0 /\ b2.datasize = n /\ b2.append_pos = n
  BY DEF Buffer
<1>6. in \in Seq(Nat)
  BY <1>3
<1> HIDE DEF c, h2, b2, in, flags
<1>7. /\ Owned(h2, Plus(Plus(X, b.head), c)) /\ Kept(h, h2, Plus(X, b.head)) /\ BufferOk(h2, b2) /\ b2.head = c
      /\ c \in DOMAIN h2 /\ n <= h2[c].cap /\ c \in Nat \ {0} /\ h2[c].next = 0
  <2>1. Owned(h, Plus(X, b.head))
    OBVIOUS
  <2>2. IsFresh(h, Plus(X, b.head), c, h2, b2, n)
    BY ONLY <1>3, <1>4, <1>6, <2>1, FreshMakes
  <2> QED BY <2>2 DEF IsFresh
<1>8. Kept(h, h2, X)
  BY <1>3, <1>7, KeptLess
<1>9. EndsAt(h2, b2)
  <2>1. CASE n = 0
    BY <1>5, <1>7, <2>1 DEF EndsAt
  <2>2. CASE n # 0
    <3>1. IsHeap(h2) /\ 0 + n <= h2[c].cap /\ n \in 1..n /\ 0 \in Nat
      BY <1>3, <1>7, <2>2 DEF Owned
    <3>a. n \in Nat /\ c \in DOMAIN h2
      BY <1>3, <1>7
    <3> HIDE DEF n
    <3>b. \A i \in 1..n : Places(h2, c, 0, n)[i] = <<c, 0 + i>>
      BY ONLY <3>a, <3>1, InChunk
    <3>2. Places(h2, c, 0, n)[n] = <<c, 0 + n>>
      BY ONLY <3>1, <3>b
    <3> USE DEF n
    <3>3. 0 + n = n
      BY <1>3
    <3> QED BY <1>5, <1>7, <2>2, <3>2, <3>3 DEF EndsAt
  <2> QED BY <2>1, <2>2
<1>10. Changed(h, X, r)
  <2>1. c \in Nat
    BY <1>7
  <2> QED BY <1>1, <1>3, <1>5, <1>7, <1>8, <2>1 DEF Changed
<1> QED BY <1>1, <1>5, <1>7, <1>9, <1>10

LEMMA AtEndMeans ==
  ASSUME NEW h, IsHeap(h), NEW b, BufferOk(h, b), AtEnd(h, b), b.tail # 0
  PROVE  EndsAt(h, b)
<1>1. /\ b.head # 0 /\ b.head \in DOMAIN h /\ b.datasize \in Nat /\ b.spos \in Nat
      /\ Covered(h, b.head, b.spos, b.datasize)
  BY BufferFacts
<1>2. EndOf(h, b) = <<b.tail, b.append_pos>>
  BY DEF AtEnd, NULL
<1>3. CASE b.datasize = 0
  <2>1. <<b.head, b.spos>> = <<b.tail, b.append_pos>>
    BY <1>2, <1>3 DEF EndOf
  <2>2. b.head = b.tail /\ b.spos = b.append_pos
    BY <2>1
  <2> QED BY <1>1, <1>3, <2>2 DEF EndsAt
<1>4. CASE b.datasize # 0
  <2> DEFINE f == Places(h, b.head, b.spos, b.datasize)
             n == b.datasize
  <2>1. IsRun(h, b.head, b.spos, f, n)
    BY <1>1, CoveredRun
  <2>2. Len(f) = n /\ n \in 1..n
    BY <1>1, <1>4, <2>1 DEF IsRun
  <2>3. EndOf(h, b) = Last(f)
    BY <1>4 DEF EndOf, DataPlaces
  <2>a. f[n] = Places(h, b.head, b.spos, b.datasize)[b.datasize]
    OBVIOUS
  <2>b. n # 0 /\ n = b.datasize
    BY <1>4
  <2> HIDE DEF f, n
  <2>4. f[n] = <<b.tail, b.append_pos>>
    BY <1>2, <2>2, <2>3 DEF Last
  <2>5. Within(h, f[n])
    BY <2>1, <2>2 DEF IsRun
  <2>6. b.tail \in DOMAIN h
    BY <2>4, <2>5 DEF Within
  <2> QED BY <1>1, <2>a, <2>b, <2>4, <2>6 DEF EndsAt
<1> QED BY <1>3, <1>4

-----------------------------------------------------------------------------
(* Append and rewrite. *)

(* A buffer that may be written. *)
LEMMA WritableOwned ==
  ASSUME NEW h, NEW X, IsCount(X), NEW b, Owned(h, Plus(X, b.head)), BufferOk(h, b),
         NEW w, w = Writable(h, b)
  PROVE  /\ Changed(h, X, w)
         /\ \/ EndsAt(w.h, w.b) /\ w.b.tail # 0 /\ NEED_COPY_ON_WRITE \in b.flags
            \/ w.fault = "none" /\ w.h = h /\ w.b = b /\ NEED_COPY_ON_WRITE \notin b.flags
<1>1. CASE NEED_COPY_ON_WRITE \in b.flags
  <2>1. w = chk_bytebuffer_do_copy(h, b)
    BY <1>1 DEF Writable
  <2> QED BY <1>1, <2>1, CopyMakes
<1>2. CASE NEED_COPY_ON_WRITE \notin b.flags
  <2>1. w.h = h /\ w.b = b /\ w.lost = 0 /\ w.fault = "none"
    BY <1>2 DEF Writable, Done, Result, NULL
  <2>2. Changed(h, X, w)
    BY <2>1, Unchanged
  <2> QED BY <1>2, <2>1, <2>2
<1> QED BY <1>1, <1>2

LEMMA TailMakes ==
  ASSUME NEW h, NEW X, IsCount(X), NEW b, Owned(h, Plus(X, b.head)), BufferOk(h, b), NEW size \in Nat,
         NEW r, r = WithTail(h, b, size)
  PROVE  /\ Owned(r.h, Plus(X, r.b.head)) /\ Kept(h, r.h, X) /\ BufferOk(r.h, r.b)
         /\ \/ b.tail = 0 /\ EndsAt(r.h, r.b)
            \/ b.tail # 0 /\ r.h = h /\ r.b = b
<1>0. IsHeap(h)
  BY DEF Owned
<1>1. CASE b.tail = 0
  <2> DEFINE c == NextChunk(h)
             h2 == chk_bytechunk_new(h, size, <<>>)
             b2 == Buffer(c, c, 0, 0, 0, b.flags)
             flags == b.flags
             in == <<>>
  <2>1. r.h = h2 /\ r.b = b2
    BY <1>1 DEF WithTail, chk_bytebuffer_init, Done, Result, NULL
  <2>2. Owned(h, X)
    <3>1. b.head = 0
      BY <1>0, <1>1, BufferFacts
    <3> QED BY <3>1, NullOwned
  <2>3. c = NextChunk(h) /\ h2 = chk_bytechunk_new(h, size, in) /\ b2 = Buffer(c, c, 0, 0, 0, flags)
    OBVIOUS
  <2>4. in \in Seq(Nat) /\ 0 \in Nat /\ 0 <= size /\ size \in Nat
    OBVIOUS
  <2>5. b2.head = c /\ b2.tail = c /\ b2.spos = 0 /\ b2.datasize = 0 /\ b2.append_pos = 0
    BY DEF Buffer
  <2> HIDE DEF c, h2, b2, flags, in
  <2>6. IsFresh(h, X, c, h2, b2, 0)
    BY ONLY <2>2, <2>3, <2>4, FreshMakes
  <2>7. EndsAt(h2, b2)
    BY <2>5, <2>6 DEF IsFresh, EndsAt
  <2> QED BY <1>1, <2>1, <2>6, <2>7 DEF IsFresh
<1>2. CASE b.tail # 0
  <2>1. r.h = h /\ r.b = b
    BY <1>2 DEF WithTail, Done, Result, NULL
  <2>2. Kept(h, h, X)
    <3>1. Kept(h, h, Plus(X, b.head)) /\ b.head \in Nat
      BY <1>0, KeptSame, BufferFacts
    <3> QED BY <3>1, KeptLess
  <2> QED BY <1>2, <2>1, <2>2
<1> QED BY <1>1, <1>2

(* chk_bytebuffer_append, where it meets no fault. *)
LEMMA AppendOwned ==
  ASSUME NEW h, NEW X, IsCount(X), NEW b, Owned(h, Plus(X, b.head)), BufferOk(h, b), NEW in \in Seq(Nat),
         NEW r, r = chk_bytebuffer_append(h, b, in), r.fault # "append", r.fault # "freed"
  PROVE  Changed(h, X, r)
<1> DEFINE freed == NEED_COPY_ON_WRITE \notin b.flags /\ b.tail \notin DOMAIN h \cup {NULL}
           w == Writable(h, b)
           t == WithTail(w.h, w.b, Len(in))
           a == AppendAll(t.h, t.b, in)
           n == Len(in)
<1>1. CASE READ_ONLY \in b.flags
  <2>1. r.h = h /\ r.b = b /\ r.lost = 0
    BY <1>1 DEF chk_bytebuffer_append, Refused, NULL
  <2> QED BY <2>1, Unchanged
<1>2. CASE READ_ONLY \notin b.flags /\ freed
  <2>1. r.fault = "freed"
    BY <1>2 DEF chk_bytebuffer_append, Result
  <2> QED BY <2>1
<1>3. CASE READ_ONLY \notin b.flags /\ ~freed
  <2>1. /\ r.h = a.h /\ r.b = a.b /\ r.lost = w.lost
        /\ r.fault = IF w.fault # "none" THEN w.fault ELSE IF ~AtEnd(t.h, t.b) THEN "append" ELSE "none"
    BY <1>3 DEF chk_bytebuffer_append, Result
  <2>2. w = Writable(h, b) /\ t = WithTail(w.h, w.b, n) /\ a = AppendAll(t.h, t.b, in) /\ n \in Nat
    OBVIOUS
  <2> HIDE DEF w, t, a, n
  <2>3. /\ Changed(h, X, w)
        /\ \/ EndsAt(w.h, w.b) /\ w.b.tail # 0
           \/ w.fault = "none" /\ w.h = h /\ w.b = b
    BY <2>2, WritableOwned
  <2> DEFINE Y == Plus(X, w.lost)
  <2>4. /\ Owned(w.h, Plus(Y, w.b.head)) /\ BufferOk(w.h, w.b) /\ IsCount(Y) /\ w.lost \in Nat
        /\ Kept(h, w.h, X)
    BY <2>3, PlusCounts DEF Changed
  <2> HIDE DEF Y
  <2>5. /\ Owned(t.h, Plus(Y, t.b.head)) /\ Kept(w.h, t.h, Y) /\ BufferOk(t.h, t.b)
        /\ \/ w.b.tail = 0 /\ EndsAt(t.h, t.b)
           \/ w.b.tail # 0 /\ t.h = w.h /\ t.b = w.b
    BY <2>2, <2>4, TailMakes
  <2>6. EndsAt(t.h, t.b)
    <3>1. CASE w.b.tail = 0
      BY <2>5, <3>1
    <3>2. CASE w.b.tail # 0 /\ EndsAt(w.h, w.b)
      BY <2>5, <3>2
    <3>3. CASE w.b.tail # 0 /\ w.fault = "none"
      <4>1. AtEnd(t.h, t.b)
        BY <2>1, <3>3
      <4>2. t.b.tail # 0 /\ IsHeap(t.h)
        BY <2>5, <3>3 DEF Owned
      <4> QED BY <2>5, <4>1, <4>2, AtEndMeans
    <3> QED BY <2>3, <3>1, <3>2, <3>3
  <2>7. Appending(t.h, Y, a)
    BY <2>2, <2>4, <2>5, <2>6, AppendAllOwned
  <2>8. Owned(a.h, Plus(Y, a.b.head)) /\ BufferOk(a.h, a.b) /\ Kept(t.h, a.h, Y)
    BY <2>7 DEF Appending
  <2>9. Kept(h, a.h, X)
    <3>1. Kept(w.h, a.h, Y)
      BY <2>5, <2>8, KeptTrans
    <3>2. Kept(w.h, a.h, X)
      BY <2>4, <3>1, KeptLess DEF Y
    <3> QED BY <2>4, <3>2, KeptTrans
  <2>10. a.b.head \in Nat
    <3>1. IsHeap(a.h)
      BY <2>8 DEF Owned
    <3> QED BY <2>8, <3>1, BufferFacts
  <2>11. Owned(r.h, Plus(Plus(X, r.lost), r.b.head)) /\ BufferOk(r.h, r.b)
    BY <2>1, <2>8 DEF Y
  <2> QED BY <2>1, <2>4, <2>9, <2>10, <2>11 DEF Changed
<1> QED BY <1>1, <1>2, <1>3

(* chk_bytebuffer_rewrite. *)
LEMMA RewriteOwned ==
  ASSUME NEW h, NEW X, IsCount(X), NEW b, Owned(h, Plus(X, b.head)), BufferOk(h, b), NEW in \in Seq(Nat),
         NEW offset, NEW r, r = chk_bytebuffer_rewrite(h, b, offset, in)
  PROVE  Changed(h, X, r)
<1> DEFINE refused == READ_ONLY \in b.flags \/ offset + Len(in) > b.datasize \/ b.head = NULL
           w == Writable(h, b)
           places == SubSeq(DataPlaces(w.h, w.b), offset + 1, w.b.datasize)
           h2 == Stored(w.h, places, in)
<1>1. CASE refused
  <2>1. r.h = h /\ r.b = b /\ r.lost = 0
    BY <1>1 DEF chk_bytebuffer_rewrite, Refused, NULL
  <2> QED BY <2>1, Unchanged
<1>2. CASE ~refused
  <2>1. r.h = h2 /\ r.b = w.b /\ r.lost = w.lost
    BY <1>2 DEF chk_bytebuffer_rewrite, Result
  <2>2. w = Writable(h, b)
    OBVIOUS
  <2> HIDE DEF w, places, refused
  <2>3. Changed(h, X, w)
    BY <2>2, WritableOwned
  <2> DEFINE Z == Plus(Plus(X, w.lost), w.b.head)
  <2>4. Owned(w.h, Z) /\ BufferOk(w.h, w.b) /\ Kept(h, w.h, X) /\ w.lost \in Nat /\ w.b.head \in Nat
    BY <2>3 DEF Changed
  <2>5. IsCount(Plus(X, w.lost))
    BY <2>4, PlusCounts
  <2> HIDE DEF Z
  <2>6. Owned(h2, Z) /\ Kept(w.h, h2, Z)
    BY <2>4, StoredOwned
  <2>7. Kept(h, h2, X)
    <3>1. Kept(w.h, h2, Plus(X, w.lost))
      BY <2>4, <2>5, <2>6, KeptLess DEF Z
    <3>2. Kept(w.h, h2, X)
      BY <2>4, <3>1, KeptLess
    <3> QED BY <2>4, <3>2, KeptTrans
  <2>8. BufferOk(h2, w.b)
    <3>1. IsHeap(w.h) /\ IsHeap(h2)
      BY <2>4, <2>6 DEF Owned
    <3>2. ASSUME w.b.head # 0 PROVE Z[w.b.head] > 0
      <4>1. Z[w.b.head] = Plus(X, w.lost)[w.b.head] + One(w.b.head, w.b.head) /\ Plus(X, w.lost)[w.b.head] \in Nat
        BY <2>4, <2>5, PlusCounts DEF IsCount, Z
      <4> QED BY <4>1 DEF One
    <3> QED BY <2>4, <2>6, <3>1, <3>2, BufferKept
  <2> HIDE DEF h2
  <2> QED BY <2>1, <2>4, <2>6, <2>7, <2>8 DEF Changed, Z
<1> QED BY <1>1, <1>2

-----------------------------------------------------------------------------
(* Chunks that are left behind. *)

LEMMA PlusRefers ==
  ASSUME NEW h, NEW X, IsCount(X), NEW c \in Nat, Owned(h, Plus(X, c)), NEW n \in DOMAIN h \cup {0}
  PROVE  \A d \in Nat \ {0} : Plus(X, n)[d] > 0 => d \in DOMAIN h
<1> TAKE d \in Nat \ {0}
<1>1. n \in Nat
  BY DEF Owned, IsHeap
<1>2. Plus(X, n)[d] = X[d] + One(n, d) /\ Plus(X, c)[d] = X[d] + One(c, d) /\ X[d] \in Nat
  BY <1>1, PlusCounts DEF IsCount
<1>3. Plus(X, c)[d] > 0 => d \in DOMAIN h
  BY DEF Owned
<1> QED BY <1>2, <1>3 DEF One

LEMMA KeptIfSame ==
  ASSUME NEW h, NEW X, IsCount(X), NEW c \in Nat, Owned(h, Plus(X, c)), NEW n \in DOMAIN h \cup {0},
         NEW g, \A d \in DOMAIN h : SameFrom(h, g, d)
  PROVE  Kept(h, g, Plus(X, n))
BY PlusRefers DEF Kept

LEMMA SoleOwner ==
  ASSUME NEW h, NEW X, IsCount(X), NEW c \in DOMAIN h, Owned(h, Plus(X, c)), ~(h[c].refcount > 1)
  PROVE  X[c] = 0 /\ Unlinked(h, c)
<1>0. /\ Owned(Freed(h, c), Plus(X, h[c].next)) /\ DOMAIN Freed(h, c) = DOMAIN h \ {c} /\ X[c] = 0
      /\ \A x \in DOMAIN h \ {c} : Freed(h, c)[x] = h[x] /\ h[x].next # c
  BY FreeOwned
<1>1. X[c] = 0 /\ \A x \in DOMAIN h \ {c} : h[x].next # c
  BY <1>0
<1>2. IsHeap(h) /\ c \in Nat \ {0}
  BY DEF Owned, IsHeap
<1>3. h[c].next # c
  <2>1. ASSUME h[c].next = c PROVE FALSE
    <3>1. In(h, c) >= 1 /\ Plus(X, c)[c] = X[c] + One(c, c) /\ In(h, c) \in Nat
      BY <1>2, <2>1, InOfNext, InCounts, PlusCounts
    <3>2. h[c].refcount = Plus(X, c)[c] + In(h, c) /\ h[c].refcount \in Nat
      BY <1>2, ChunkFields DEF Owned
    <3> QED BY <1>1, <3>1, <3>2 DEF One
  <2> QED BY <2>1
<1> QED BY <1>1, <1>2, <1>3 DEF Unlinked

(* The next chunk is retained and this one let go. *)
IsStepped(h, X, h2, n) == Owned(h2, Plus(X, n)) /\ Kept(h, h2, Plus(X, n)) /\ Kept(h, h2, X)
LEMMA Stepped ==
  ASSUME NEW h, NEW X, IsCount(X), NEW c \in DOMAIN h, Owned(h, Plus(X, c)), NEW n \in DOMAIN h \cup {0},
         NEW h2, h2 = chk_bytechunk_release(chk_bytechunk_retain(h, n), c)
  PROVE  IsStepped(h, X, h2, n)
<1> DEFINE g == chk_bytechunk_retain(h, n)
           Y == Plus(X, n)
<1>1. IsHeap(h) /\ c \in Nat /\ n \in Nat /\ IsCount(Y)
  BY PlusCounts DEF Owned, IsHeap
<1>2. Owned(g, Plus(Plus(X, c), n)) /\ \A d \in DOMAIN h : SameFrom(h, g, d)
  BY RetainKept
<1>3. h2 = chk_bytechunk_release(g, c)
  OBVIOUS
<1> HIDE DEF g
<1>4. Owned(g, Plus(Y, c))
  BY <1>1, <1>2, PlusSwapped
<1>5. Kept(h, g, Y)
  BY <1>1, <1>2, KeptIfSame
<1> HIDE DEF Y
<1>6. Owned(h2, Y) /\ Kept(g, h2, Y)
  BY <1>1, <1>3, <1>4, ReleaseOwned
<1>7. Kept(h, h2, Y)
  BY <1>5, <1>6, KeptTrans
<1>8. Kept(h, h2, X)
  BY <1>1, <1>7, KeptLess DEF Y
<1> QED BY <1>6, <1>7, <1>8 DEF Y, IsStepped

(* The list is cut behind the chunk and it is let go. *)
IsCutOff(h, X, c, h2, n) ==
  /\ Owned(h2, Plus(X, n)) /\ Kept(h, h2, Plus(X, n)) /\ Kept(h, h2, X)
  /\ \A d \in DOMAIN h2 : /\ d \in DOMAIN h /\ h2[d].cap = h[d].cap /\ h2[d].refcount <= h[d].refcount
                          /\ h2[d].next = h[d].next \/ h2[d].next = 0
LEMMA CutOff ==
  ASSUME NEW h, NEW X, IsCount(X), NEW c \in DOMAIN h, Owned(h, Plus(X, c)), NEW n, n = h[c].next,
         ~(h[c].refcount > 1) \/ n = 0,
         NEW h2, h2 = chk_bytechunk_release(LinkedTo(h, c, 0), c)
  PROVE  IsCutOff(h, X, c, h2, n)
<1> DEFINE g == LinkedTo(h, c, 0)
           Y == Plus(X, n)
<1>1. IsHeap(h) /\ c \in Nat \ {0} /\ n \in DOMAIN h \cup {0} /\ n \in Nat
  BY ChunkFields DEF Owned
<1>2. IsCount(Y) /\ Plus(Plus(X, c), n) = Plus(Y, c)
  BY <1>1, PlusCounts, PlusSwapped
<1>3. Owned(g, Plus(Plus(X, c), n))
  BY CutOwned
<1>4. h2 = chk_bytechunk_release(g, c) /\ g = LinkedTo(h, c, 0) /\ 0 \in DOMAIN h \cup {0}
  OBVIOUS
<1> HIDE DEF g, Y
<1>5. IsRelinked(h, g, c, 0)
  BY <1>1, <1>4, Relinked
<1>6. /\ IsHeap(g) /\ DOMAIN g = DOMAIN h
      /\ \A x \in DOMAIN h : /\ g[x].refcount = h[x].refcount /\ g[x].cap = h[x].cap
                             /\ g[x].next = IF x = c THEN 0 ELSE h[x].next
  BY <1>5 DEF IsRelinked
<1>7. Owned(g, Plus(Y, c))
  BY <1>2, <1>3
<1>8. Kept(h, g, Y)
  <2>1. CASE n = 0
    <3>1. \A d \in DOMAIN h : Like(h, g, d)
      BY <1>6, <2>1 DEF Like
    <3>2. \A d \in DOMAIN h : SameFrom(h, g, d)
      BY <1>1, <1>6, <3>1, LikeSame
    <3> QED BY <1>1, <3>2, KeptIfSame DEF Y
  <2>2. CASE n # 0
    <3>1. X[c] = 0 /\ Unlinked(h, c)
      BY <2>2, SoleOwner
    <3>2. n # c
      BY <3>1 DEF Unlinked
    <3>3. Y[c] = X[c] + One(n, c)
      BY <1>1, PlusCounts DEF Y
    <3>4. ~(Y[c] > 0)
      BY <3>1, <3>2, <3>3 DEF One
    <3>5. \A d \in Nat \ {0} : Y[d] > 0 => d \in DOMAIN h
      BY <1>1, PlusRefers DEF Y
    <3>6. \A d \in DOMAIN h \ {c} : Like(h, g, d)
      BY <1>6 DEF Like
    <3> QED BY <1>1, <1>6, <3>1, <3>4, <3>5, <3>6, AvoidKept
  <2> QED BY <2>1, <2>2
<1>9. Owned(h2, Y) /\ Kept(g, h2, Y) /\ Fewer(g, h2)
  BY <1>1, <1>2, <1>4, <1>7, ReleaseOwned
<1>10. Kept(h, h2, Y)
  BY <1>8, <1>9, KeptTrans
<1>11. Kept(h, h2, X)
  BY <1>1, <1>10, KeptLess DEF Y
<1>12. ASSUME NEW d \in DOMAIN h2
       PROVE /\ d \in DOMAIN h /\ h2[d].cap = h[d].cap /\ h2[d].refcount <= h[d].refcount
             /\ h2[d].next = h[d].next \/ h2[d].next = 0
  <2>1. /\ d \in DOMAIN g /\ h2[d].cap = g[d].cap /\ h2[d].next = g[d].next
        /\ h2[d].refcount <= g[d].refcount
    BY <1>9 DEF Fewer
  <2> QED BY <1>6, <2>1
<1> QED BY <1>9, <1>10, <1>11, <1>12 DEF Y, IsCutOff

IsAdvanced(h, c, pos, n, k, c2, p2) ==
  /\ Covered(h, c2, p2, n - k)
  /\ \A i \in 1..(n - k) : Places(h, c2, p2, n - k)[i] = Places(h, c, pos, n)[i + k]
LEMMA Advances ==
  ASSUME NEW h, IsHeap(h), NEW c \in DOMAIN h, NEW pos \in Nat, NEW n \in Nat, Covered(h, c, pos, n),
         NEW k \in 0..n, pos + k <= h[c].cap, NEW c2, NEW p2, Onward(h, c, pos + k, c2, p2)
  PROVE  IsAdvanced(h, c, pos, n, k, c2, p2)
BY Advance DEF IsAdvanced

(* A buffer that begins k bytes later: in the same chunk, or in the next.    *)
IsShorter(h, b, k, c2, p2) ==
  /\ k \in 1..b.datasize /\ IsAdvanced(h, b.head, b.spos, b.datasize, k, c2, p2) /\ Inside(h, c2, p2)
  /\ c2 \in DOMAIN h \cup {0}
LEMMA ShorterHere ==
  ASSUME NEW h, IsHeap(h), NEW b, BufferOk(h, b), NEW k \in 1..b.datasize, b.spos + k < h[b.head].cap
  PROVE  IsShorter(h, b, k, b.head, b.spos + k) /\ b.head # 0
<1> DEFINE c == b.head
           pos == b.spos
           n == b.datasize
<1>1. c # 0 /\ c \in DOMAIN h /\ pos \in Nat /\ n \in Nat /\ Covered(h, c, pos, n) /\ h[c].cap \in Nat
  BY BufferFacts
<1>2. k \in 0..n /\ k \in 1..n /\ pos + k < h[c].cap
  BY <1>1
<1> HIDE DEF c, pos, n
<1>3. pos + k <= h[c].cap
  BY <1>1, <1>2
<1>4. Onward(h, c, pos + k, c, pos + k)
  BY <1>2 DEF Onward
<1>5. IsAdvanced(h, c, pos, n, k, c, pos + k)
  BY <1>1, <1>2, <1>3, <1>4, Advances
<1>6. IsShorter(h, b, k, c, pos + k)
  BY <1>1, <1>2, <1>5 DEF IsShorter, Inside, c, pos, n
<1> QED BY <1>1, <1>6 DEF c, pos

LEMMA ShorterNext ==
  ASSUME NEW h, IsHeap(h), NEW b, BufferOk(h, b), NEW k \in 1..b.datasize, b.spos + k = h[b.head].cap
  PROVE  IsShorter(h, b, k, h[b.head].next, 0) /\ b.head # 0
<1> DEFINE c == b.head
           pos == b.spos
           n == b.datasize
           d == h[c].next
<1>1. c # 0 /\ c \in DOMAIN h /\ pos \in Nat /\ n \in Nat /\ Covered(h, c, pos, n) /\ h[c].cap \in Nat
  BY BufferFacts
<1>2. k \in 0..n /\ k \in 1..n /\ pos + k = h[c].cap
  BY <1>1
<1>a. d = h[c].next
  OBVIOUS
<1> HIDE DEF c, pos, n, d
<1>3. d \in DOMAIN h \cup {0} /\ (d # 0 => h[d].cap \in Nat \ {0})
  BY <1>1, <1>a, ChunkFields
<1>4. Onward(h, c, pos + k, d, 0) /\ pos + k <= h[c].cap
  BY <1>1, <1>2, <1>a DEF Onward
<1>5. IsAdvanced(h, c, pos, n, k, d, 0)
  BY <1>1, <1>2, <1>4, Advances
<1>6. Inside(h, d, 0)
  BY <1>3 DEF Inside
<1>7. IsShorter(h, b, k, d, 0)
  BY <1>2, <1>3, <1>5, <1>6 DEF IsShorter, c, pos, n
<1> QED BY <1>1, <1>7 DEF d, c

(* The rest of a buffer in a heap that keeps it. *)
IsRest(h2, b2, b, k, c2) == BufferOk(h2, b2) /\ b2.datasize = b.datasize - k /\ b2.head = c2
LEMMA ShorterKept ==
  ASSUME NEW h, NEW h2, IsHeap(h), IsHeap(h2), NEW b, BufferOk(h, b), NEW k, NEW c2, NEW p2 \in Nat,
         IsShorter(h, b, k, c2, p2), c2 # 0 => SameFrom(h, h2, c2),
         NEW t \in Nat, t = 0 <=> c2 = 0, NEW end \in Nat, NEW flags,
         NEW b2, b2 = Buffer(c2, t, p2, b.datasize - k, end, flags)
  PROVE  IsRest(h2, b2, b, k, c2)
<1> DEFINE m == b.datasize - k
<1>1. /\ k \in 1..b.datasize /\ Covered(h, c2, p2, m) /\ Inside(h, c2, p2) /\ c2 \in DOMAIN h \cup {0}
      /\ c2 \in Nat
  BY DEF IsShorter, IsAdvanced, IsHeap
<1>2. m \in Nat
  <2>1. b.datasize \in Nat
    BY BufferFacts
  <2> QED BY <1>1, <2>1
<1>3. b2.head = c2 /\ b2.tail = t /\ b2.spos = p2 /\ b2.datasize = m /\ b2.append_pos = end
  BY DEF Buffer
<1> HIDE DEF m
<1>4. Covered(h2, c2, p2, m) /\ Inside(h2, c2, p2)
  <2>1. CASE c2 = 0
    <3>1. m = 0
      BY <1>1, <1>2, <2>1, CoveredRun
    <3> QED BY <2>1, <3>1, NothingCovered DEF Inside
  <2>2. CASE c2 # 0
    BY <1>1, <1>2, <2>2 DEF SameFrom, Inside
  <2> QED BY <2>1, <2>2
<1> QED BY <1>1, <1>2, <1>3, <1>4 DEF BufferOk, BufNats, m, IsRest

LEMMA LastPlaceOfChunk ==
  ASSUME NEW h, IsHeap(h), NEW b, BufferOk(h, b), NEW k \in 1..b.datasize, b.spos + k = h[b.head].cap
  PROVE  Places(h, b.head, b.spos, b.datasize)[k] = <<b.head, h[b.head].cap>>
<1> DEFINE c == b.head
           pos == b.spos
           n == b.datasize
<1>1. c # 0 /\ c \in DOMAIN h /\ pos \in Nat /\ n \in Nat /\ Covered(h, c, pos, n) /\ h[c].cap \in Nat
  BY BufferFacts
<1>2. k \in Nat /\ k \in 1..k /\ k \in 0..n /\ pos + k = h[c].cap
  BY <1>1
<1> HIDE DEF c, pos, n
<1>3. pos + k <= h[c].cap
  BY <1>1, <1>2
<1>4. \A i \in 1..k : Places(h, c, pos, k)[i] = <<c, pos + i>>
  BY <1>1, <1>2, <1>3, InChunk
<1>5. \A i \in 1..k : Places(h, c, pos, k)[i] = Places(h, c, pos, n)[i]
  BY <1>1, <1>2, CoveredLess
<1>6. Places(h, c, pos, n)[k] = <<c, h[c].cap>>
  BY <1>2, <1>4, <1>5
<1> QED BY <1>6 DEF c, pos, n

(* Nobody else has a chunk that is to be cut off.                            *)
Alone(h, b, size) ==
  \A i \in 1..size : \A c \in DOMAIN h :
    DataPlaces(h, b)[i] = <<c, h[c].cap>> => ~(h[c].refcount > 1) \/ h[c].next = 0
Draining(h, X, d) ==
  /\ Owned(d.h, Plus(X, d.b.head)) /\ BufferOk(d.h, d.b) /\ Kept(h, d.h, X)
  /\ d.size \in Nat /\ d.size <= d.b.datasize /\ Alone(d.h, d.b, d.size)

LEMMA AloneStays ==
  ASSUME NEW h, NEW X, NEW b, BufferOk(h, b), IsHeap(h), NEW size \in Nat, size <= b.datasize, Alone(h, b, size),
         NEW k \in 1..size, NEW h2, NEW next, IsCutOff(h, X, b.head, h2, next),
         IsHeap(h2), IsShorter(h, b, k, next, 0), next # 0 => SameFrom(h, h2, next),
         NEW b2, b2.head = next, b2.spos = 0, b2.datasize = b.datasize - k
  PROVE  Alone(h2, b2, size - k)
<1> DEFINE m == b.datasize - k
           f == DataPlaces(h, b)
<1>1. /\ Covered(h, next, 0, m) /\ next \in DOMAIN h \cup {0} /\ b.datasize \in Nat /\ k \in 1..b.datasize
      /\ \A i \in 1..m : Places(h, next, 0, m)[i] = f[i + k]
  BY BufferFacts DEF IsShorter, IsAdvanced, DataPlaces
<1>2. m \in Nat /\ size - k <= m /\ size - k \in Nat
  BY <1>1
<1>3. \A i \in 1..size : \A c \in DOMAIN h : f[i] = <<c, h[c].cap>> => ~(h[c].refcount > 1) \/ h[c].next = 0
  BY DEF Alone
<1>4. DataPlaces(h2, b2) = Places(h2, next, 0, m)
  BY DEF DataPlaces
<1>5. \A d \in DOMAIN h2 : /\ d \in DOMAIN h /\ h2[d].cap = h[d].cap /\ h2[d].refcount <= h[d].refcount
                           /\ h2[d].next = h[d].next \/ h2[d].next = 0
  BY DEF IsCutOff
<1> HIDE DEF m, f
<1>6. ASSUME NEW i \in 1..(size - k), NEW c \in DOMAIN h2, Places(h2, next, 0, m)[i] = <<c, h2[c].cap>>
      PROVE  ~(h2[c].refcount > 1) \/ h2[c].next = 0
  <2>1. i \in 1..m /\ i + k \in 1..size
    BY <1>2
  <2>2. next # 0
    <3>1. ASSUME next = 0 PROVE FALSE
      <4>1. m = 0
        BY <1>1, <1>2, <3>1, CoveredRun
      <4> QED BY <2>1, <4>1
    <3> QED BY <3>1
  <2>3. Places(h2, next, 0, m) = Places(h, next, 0, m)
    BY <1>1, <1>2, <2>2 DEF SameFrom
  <2>4. Places(h, next, 0, m)[i] = f[i + k]
    BY <1>1, <2>1
  <2>5. c \in DOMAIN h /\ h2[c].cap = h[c].cap /\ h2[c].refcount <= h[c].refcount
        /\ (h2[c].next = h[c].next \/ h2[c].next = 0)
    BY <1>5
  <2>6. f[i + k] = <<c, h[c].cap>>
    BY <1>6, <2>3, <2>4, <2>5
  <2>7. ~(h[c].refcount > 1) \/ h[c].next = 0
    BY <1>3, <2>1, <2>5, <2>6
  <2>8. h[c].refcount \in Nat /\ h2[c].refcount \in Nat
    BY <2>5, ChunkFields
  <2> QED BY <2>5, <2>7, <2>8
<1> QED BY <1>4, <1>6 DEF Alone

(* One round of read_drain. *)
LEMMA DrainStep ==
  ASSUME NEW h, NEW X, IsCount(X), NEW d, Draining(h, X, d)
  PROVE  Draining(h, X, DrainSome(d))
<1> DEFINE g == d.h
           b == d.b
           size == d.size
           n == Least(g[b.head].cap - b.spos, size)
           next == g[b.head].next
           q == DrainSome(d)
           here == Buffer(b.head, b.tail, b.spos + n, b.datasize - n, b.append_pos, b.flags)
           t == IF next = NULL THEN NULL ELSE b.tail
           there == Buffer(next, t, 0, b.datasize - n, b.append_pos, b.flags)
           cut == chk_bytechunk_release(LinkedTo(g, b.head, 0), b.head)
<1>1. /\ Owned(g, Plus(X, b.head)) /\ BufferOk(g, b) /\ Kept(h, g, X)
      /\ size \in Nat /\ size <= b.datasize /\ Alone(g, b, size) /\ IsHeap(g)
  BY DEF Draining, Owned
<1>2. CASE size = 0
  BY <1>2 DEF DrainSome
<1>3. CASE size # 0
  <2>1. q = IF n = size /\ b.spos + n < g[b.head].cap THEN [h |-> g, b |-> here, size |-> 0]
            ELSE [h |-> cut, b |-> there, size |-> size - n]
    BY <1>3 DEF DrainSome, LinkedTo, NULL
  <2>2. /\ b.head # 0 /\ b.head \in DOMAIN g /\ b.head \in Nat /\ b.spos \in Nat /\ b.datasize \in Nat
        /\ b.spos < g[b.head].cap /\ g[b.head].cap \in Nat /\ b.tail \in Nat \ {0} /\ b.append_pos \in Nat
    <3>1. b.datasize # 0 /\ b.datasize \in Nat
      BY <1>1, <1>3, BufferFacts
    <3> QED BY <1>1, <3>1, BufferFacts
  <2>3. n \in 1..size /\ n \in 1..b.datasize /\ b.spos + n <= g[b.head].cap
        /\ (n # size => b.spos + n = g[b.head].cap)
    <3> DEFINE cap == g[b.head].cap
               sp == b.spos
               ds == b.datasize
    <3>1. cap \in Nat /\ sp \in Nat /\ ds \in Nat /\ sp < cap /\ size <= ds /\ n = Least(cap - sp, size)
      BY <1>1, <2>2
    <3> HIDE DEF cap, sp, ds, n, size
    <3>2. n \in 1..size /\ n \in 1..ds /\ sp + n <= cap /\ (n # size => sp + n = cap)
      BY <1>1, <1>3, <3>1 DEF Least
    <3> QED BY <3>2 DEF cap, sp, ds
  <2>a. /\ here = Buffer(b.head, b.tail, b.spos + n, b.datasize - n, b.append_pos, b.flags)
        /\ there = Buffer(next, t, 0, b.datasize - n, b.append_pos, b.flags)
        /\ cut = chk_bytechunk_release(LinkedTo(g, b.head, 0), b.head) /\ next = g[b.head].next
        /\ t = IF next = 0 THEN 0 ELSE b.tail
    BY DEF NULL
  <2> HIDE DEF here, there, cut, n, t
  <2>4. CASE n = size /\ b.spos + n < g[b.head].cap
    <3>1. q.h = g /\ q.b = here /\ q.size = 0
      BY <2>1, <2>4
    <3>2. IsShorter(g, b, n, b.head, b.spos + n)
      BY <1>1, <2>3, <2>4, ShorterHere
    <3>3. SameFrom(g, g, b.head)
      BY <2>2 DEF SameFrom
    <3>4. b.spos + n \in Nat /\ (b.tail = 0 <=> b.head = 0) /\ b.tail \in Nat
      BY <2>2, <2>3
    <3> HIDE DEF next, g, b, size
    <3>a. IsRest(g, here, b, n, b.head)
      BY ONLY <1>1, <2>2, <2>a, <3>2, <3>3, <3>4, ShorterKept
    <3>5. BufferOk(g, here) /\ here.datasize = b.datasize - n /\ here.head = b.head
      BY <3>a DEF IsRest
    <3>6. 0 <= b.datasize - n /\ Alone(g, here, 0)
      BY <2>2, <2>3 DEF Alone
    <3> QED BY <1>1, <3>1, <3>5, <3>6 DEF Draining
  <2>5. CASE ~(n = size /\ b.spos + n < g[b.head].cap)
    <3>1. q.h = cut /\ q.b = there /\ q.size = size - n
      BY <2>1, <2>5
    <3>2. b.spos + n = g[b.head].cap
      BY <2>2, <2>3, <2>5
    <3>3. IsShorter(g, b, n, next, 0)
      BY <1>1, <2>3, <3>2, ShorterNext
    <3>4. DataPlaces(g, b)[n] = <<b.head, g[b.head].cap>>
      BY <1>1, <2>3, <3>2, LastPlaceOfChunk DEF DataPlaces
    <3>5. ~(g[b.head].refcount > 1) \/ next = 0
      BY <1>1, <2>2, <2>3, <3>4 DEF Alone
    <3> HIDE DEF next, g, b, size
    <3>6. IsCutOff(g, X, b.head, cut, next)
      BY <1>1, <2>2, <2>a, <3>5, CutOff
    <3>7. Owned(cut, Plus(X, next)) /\ Kept(g, cut, Plus(X, next)) /\ Kept(g, cut, X) /\ IsHeap(cut)
      BY <3>6 DEF IsCutOff, Owned
    <3>8. next \in DOMAIN g \cup {0} /\ next \in Nat
      BY <1>1, <3>3 DEF IsShorter, IsHeap
    <3>9. next # 0 => SameFrom(g, cut, next)
      BY <3>7, <3>8, KeptFrom
    <3>10. t \in Nat /\ (t = 0 <=> next = 0) /\ 0 \in Nat
      BY <2>2, <2>a
    <3>a. IsRest(cut, there, b, n, next)
      BY ONLY <1>1, <2>2, <2>a, <3>3, <3>7, <3>9, <3>10, ShorterKept
    <3>11. BufferOk(cut, there) /\ there.datasize = b.datasize - n /\ there.head = next
      BY <3>a DEF IsRest
    <3>12. there.spos = 0
      BY <2>a DEF Buffer
    <3>13. Alone(cut, there, size - n)
      BY <1>1, <2>3, <3>3, <3>6, <3>7, <3>9, <3>11, <3>12, AloneStays
    <3>14. Kept(h, cut, X)
      BY <1>1, <3>7, KeptTrans
    <3>15. size - n \in Nat /\ size - n <= b.datasize - n
      BY <1>1, <2>2, <2>3
    <3> QED BY <3>1, <3>7, <3>11, <3>13, <3>14, <3>15 DEF Draining
  <2> QED BY <2>4, <2>5
<1> QED BY <1>2, <1>3

-----------------------------------------------------------------------------
(* What is read from a buffer is taken off it. *)

LEMMA KeptOwn ==
  ASSUME NEW h, NEW X, IsCount(X), NEW c \in Nat, Owned(h, Plus(X, c))
  PROVE  Kept(h, h, X)
BY KeptSame, KeptLess

LEMMA DrainedOwned ==
  ASSUME NEW h, NEW X, IsCount(X), NEW b, NEW size \in Nat, Owned(h, Plus(X, b.head)), BufferOk(h, b),
         size <= b.datasize, Alone(h, b, size)
  PROVE  Draining(h, X, Drained(h, b, size))
<1> DEFINE start == [h |-> h, b |-> b, size |-> size]
           n == size
<1>1. n \in Nat
  OBVIOUS
<1>2. start.h = h /\ start.b = b /\ start.size = size
  OBVIOUS
<1>3. Drained(h, b, size) = DrainSomeAll(n, start)
  BY DEF Drained, DrainSomeAll
<1>4. Kept(h, h, X)
  <2>1. IsHeap(h)
    BY DEF Owned
  <2>2. b.head \in Nat
    BY <2>1, BufferFacts
  <2> QED BY <2>2, KeptOwn
<1>5. Draining(h, X, start)
  BY <1>2, <1>4 DEF Draining
<1> HIDE DEF start, n
<1>6. PICK f : /\ f[0] = start /\ DrainSomeAll(n, start) = f[n]
               /\ \A k \in 0..(n - 1) : f[k + 1] = DrainSome(f[k])
  BY ONLY <1>1, DrainSomeRounds
<1> DEFINE N == {k \in Nat : Draining(h, X, f[k])}
<1>7. 0 \in N
  BY <1>5, <1>6
<1>8. ASSUME NEW k \in 0..(n - 1), k \in N PROVE k + 1 \in N
  <2>1. f[k + 1] = DrainSome(f[k]) /\ Draining(h, X, f[k]) /\ k + 1 \in Nat
    BY <1>6, <1>8
  <2> QED BY <2>1, DrainStep
<1>9. n \in N
  <2> HIDE DEF N
  <2> QED BY ONLY <1>1, <1>7, <1>8, CountUp
<1> QED BY <1>3, <1>6, <1>9

LEMMA NotCutIsAlone ==
  ASSUME NEW h, NEW b, NEW size, CutShared(h, b, size) = {}
  PROVE  Alone(h, b, size)
<1> SUFFICES ASSUME NEW i \in 1..size, NEW c \in DOMAIN h, DataPlaces(h, b)[i] = <<c, h[c].cap>>,
                    h[c].refcount > 1, h[c].next # 0
             PROVE FALSE
  BY DEF Alone
<1>1. c \in CutShared(h, b, size)
  BY DEF CutShared, NULL
<1> QED BY <1>1

(* chk_bytebuffer_read_drain, where nobody else has the chunks that it     *)
(* cuts off.                                                               *)
LEMMA ReadOwned ==
  ASSUME NEW h, NEW X, IsCount(X), NEW b, NEW size \in Nat, Owned(h, Plus(X, b.head)), BufferOk(h, b),
         CutShared(h, b, size) = {}, NEW q, q = chk_bytebuffer_read_drain(h, b, size),
         NEW r, r.h = q.h, r.b = q.b, r.lost = 0
  PROVE  Changed(h, X, r)
<1> DEFINE refused == b.head = NULL \/ size > b.datasize
           d == Drained(h, b, size)
<1>1. CASE refused
  <2>1. q.h = h /\ q.b = b
    BY <1>1 DEF chk_bytebuffer_read_drain, Refused
  <2> QED BY <2>1, Unchanged
<1>2. CASE ~refused
  <2>1. q.h = d.h /\ q.b = d.b
    BY <1>2 DEF chk_bytebuffer_read_drain, Done, Result
  <2>2. size <= b.datasize
    <3>1. IsHeap(h)
      BY DEF Owned
    <3>2. b.datasize \in Nat
      BY <3>1, BufferFacts
    <3> QED BY <1>2, <3>2
  <2>3. Alone(h, b, size)
    BY NotCutIsAlone
  <2> HIDE DEF refused
  <2>4. Draining(h, X, d)
    BY <2>2, <2>3, DrainedOwned
  <2> HIDE DEF d
  <2>5. Owned(d.h, Plus(X, d.b.head)) /\ BufferOk(d.h, d.b) /\ Kept(h, d.h, X)
    BY <2>4 DEF Draining
  <2>6. d.b.head \in Nat /\ IsHeap(d.h)
    BY <2>5, BufferFacts DEF Owned
  <2>7. Kept(d.h, d.h, X)
    BY <2>5, <2>6, KeptOwn
  <2>8. Changed(d.h, X, r)
    BY <2>1, <2>5, Unchanged
  <2> QED BY <2>1, <2>5, <2>8 DEF Changed
<1> QED BY <1>1, <1>2

(* chk_bytebuffer_finalize. *)
LEMMA FinalizeOwned ==
  ASSUME NEW h, NEW X, IsCount(X), NEW b, Owned(h, Plus(X, b.head)), b.head \in Nat
  PROVE  /\ Owned(chk_bytebuffer_finalize(h, b), X)
         /\ Kept(h, chk_bytebuffer_finalize(h, b), X)
<1>1. CASE b.head = 0
  <2>1. chk_bytebuffer_finalize(h, b) = h
    BY <1>1 DEF chk_bytebuffer_finalize, NULL
  <2>2. Owned(h, X)
    BY <1>1, NullOwned
  <2> QED BY <2>1, <2>2, KeptSame
<1>2. CASE b.head # 0
  <2>1. chk_bytebuffer_finalize(h, b) = chk_bytechunk_release(h, b.head)
    BY <1>2 DEF chk_bytebuffer_finalize, NULL
  <2> QED BY <2>1, ReleaseOwned
<1> QED BY <1>1, <1>2

-----------------------------------------------------------------------------
(* Sending takes bytes off a buffer. *)

SendingOne(h, X, w) ==
  /\ Owned(w.h, Plus(X, w.b.head)) /\ BufferOk(w.h, w.b) /\ Kept(h, w.h, X)
  /\ w.n \in Nat /\ w.n < w.b.datasize

(* One round of update_send_list in a buffer. *)
LEMMA SendStep ==
  ASSUME NEW h, NEW X, IsCount(X), NEW w, SendingOne(h, X, w)
  PROVE  SendingOne(h, X, SendSome(w))
<1> DEFINE g == w.h
           b == w.b
           n == w.n
           k == Least(g[b.head].cap - b.spos, n)
           next == g[b.head].next
           q == SendSome(w)
           here == Buffer(b.head, b.tail, b.spos + k, b.datasize - k, b.append_pos, b.flags)
           there == Buffer(next, b.tail, 0, b.datasize - k, b.append_pos, b.flags)
           h2 == chk_bytechunk_release(chk_bytechunk_retain(g, next), b.head)
<1>1. /\ Owned(g, Plus(X, b.head)) /\ BufferOk(g, b) /\ Kept(h, g, X)
      /\ n \in Nat /\ n < b.datasize /\ IsHeap(g)
  BY DEF SendingOne, Owned
<1>2. CASE n = 0
  BY <1>2 DEF SendSome
<1>3. CASE n # 0
  <2>1. q = IF b.spos + k < g[b.head].cap THEN [h |-> g, b |-> here, n |-> n - k]
            ELSE [h |-> h2, b |-> there, n |-> n - k]
    BY <1>3 DEF SendSome
  <2>2. /\ b.head # 0 /\ b.head \in DOMAIN g /\ b.head \in Nat /\ b.spos \in Nat /\ b.datasize \in Nat
        /\ b.spos < g[b.head].cap /\ g[b.head].cap \in Nat /\ b.tail \in Nat \ {0} /\ b.append_pos \in Nat
    <3>1. b.datasize # 0 /\ b.datasize \in Nat
      BY <1>1, <1>3, BufferFacts
    <3> QED BY <1>1, <3>1, BufferFacts
  <2>3. k \in 1..n /\ k \in 1..b.datasize /\ b.spos + k <= g[b.head].cap
    <3> DEFINE cap == g[b.head].cap
               sp == b.spos
               ds == b.datasize
    <3>1. cap \in Nat /\ sp \in Nat /\ ds \in Nat /\ sp < cap /\ n < ds /\ k = Least(cap - sp, n)
      BY <1>1, <2>2
    <3> HIDE DEF cap, sp, ds, n, k
    <3>2. k \in 1..n /\ k \in 1..ds /\ sp + k <= cap
      BY <1>1, <1>3, <3>1 DEF Least
    <3> QED BY <3>2 DEF cap, sp, ds
  <2>a. /\ here = Buffer(b.head, b.tail, b.spos + k, b.datasize - k, b.append_pos, b.flags)
        /\ there = Buffer(next, b.tail, 0, b.datasize - k, b.append_pos, b.flags)
        /\ h2 = chk_bytechunk_release(chk_bytechunk_retain(g, next), b.head) /\ next = g[b.head].next
    OBVIOUS
  <2>b. n - k \in Nat /\ n - k < b.datasize - k /\ b.datasize - k \in Nat
    BY <1>1, <2>2, <2>3
  <2> HIDE DEF here, there, h2, k
  <2>4. CASE b.spos + k < g[b.head].cap
    <3>1. q.h = g /\ q.b = here /\ q.n = n - k
      BY <2>1, <2>4
    <3>2. IsShorter(g, b, k, b.head, b.spos + k)
      BY <1>1, <2>3, <2>4, ShorterHere
    <3>3. SameFrom(g, g, b.head)
      BY <2>2 DEF SameFrom
    <3>4. b.spos + k \in Nat /\ (b.tail = 0 <=> b.head = 0) /\ b.tail \in Nat
      BY <2>2, <2>3
    <3> HIDE DEF next, g, b, n
    <3>a. IsRest(g, here, b, k, b.head)
      BY ONLY <1>1, <2>2, <2>a, <3>2, <3>3, <3>4, ShorterKept
    <3>5. BufferOk(g, here) /\ here.datasize = b.datasize - k /\ here.head = b.head
      BY <3>a DEF IsRest
    <3> QED BY <1>1, <2>b, <3>1, <3>5 DEF SendingOne
  <2>5. CASE ~(b.spos + k < g[b.head].cap)
    <3>1. q.h = h2 /\ q.b = there /\ q.n = n - k
      BY <2>1, <2>5
    <3>2. b.spos + k = g[b.head].cap
      BY <2>2, <2>3, <2>5
    <3>3. IsShorter(g, b, k, next, 0)
      BY <1>1, <2>3, <3>2, ShorterNext
    <3> HIDE DEF next, g, b, n
    <3>4. next \in DOMAIN g \cup {0} /\ next \in Nat /\ next # 0
      <4>1. next \in DOMAIN g \cup {0} /\ next \in Nat /\ Covered(g, next, 0, b.datasize - k)
        BY <1>1, <3>3 DEF IsShorter, IsAdvanced, IsHeap
      <4>2. next = 0 => b.datasize - k = 0
        BY <1>1, <2>b, <4>1, CoveredRun
      <4> QED BY <2>b, <4>1, <4>2
    <3>5. IsStepped(g, X, h2, next)
      BY <1>1, <2>2, <2>a, <3>4, Stepped
    <3>7. Owned(h2, Plus(X, next)) /\ Kept(g, h2, Plus(X, next)) /\ Kept(g, h2, X) /\ IsHeap(h2)
      BY <3>5 DEF IsStepped, Owned
    <3>9. next # 0 => SameFrom(g, h2, next)
      BY <3>7, <3>4, KeptFrom
    <3>10. b.tail \in Nat /\ (b.tail = 0 <=> next = 0) /\ 0 \in Nat
      BY <2>2, <3>4
    <3>a. IsRest(h2, there, b, k, next)
      BY ONLY <1>1, <2>2, <2>a, <3>3, <3>7, <3>9, <3>10, ShorterKept
    <3>11. BufferOk(h2, there) /\ there.datasize = b.datasize - k /\ there.head = next
      BY <3>a DEF IsRest
    <3>14. Kept(h, h2, X)
      BY <1>1, <3>7, KeptTrans
    <3> QED BY <2>b, <3>1, <3>7, <3>11, <3>14 DEF SendingOne
  <2> QED BY <2>4, <2>5
<1> QED BY <1>2, <1>3

(* A buffer that was sent in part. *)
LEMMA AdvancedOwned ==
  ASSUME NEW h, NEW X, IsCount(X), NEW b, NEW size \in Nat, Owned(h, Plus(X, b.head)), BufferOk(h, b),
         size < b.datasize
  PROVE  SendingOne(h, X, Advanced(h, b, size))
<1> DEFINE start == [h |-> h, b |-> b, n |-> size]
           n == size
<1>1. n \in Nat
  OBVIOUS
<1>2. start.h = h /\ start.b = b /\ start.n = size
  OBVIOUS
<1>3. Advanced(h, b, size) = SendSomeAll(n, start)
  BY DEF Advanced, SendSomeAll
<1>4. Kept(h, h, X)
  <2>1. IsHeap(h)
    BY DEF Owned
  <2>2. b.head \in Nat
    BY <2>1, BufferFacts
  <2> QED BY <2>2, KeptOwn
<1>5. SendingOne(h, X, start)
  BY <1>2, <1>4 DEF SendingOne
<1> HIDE DEF start, n
<1>6. PICK f : /\ f[0] = start /\ SendSomeAll(n, start) = f[n]
               /\ \A k \in 0..(n - 1) : f[k + 1] = SendSome(f[k])
  BY ONLY <1>1, SendSomeRounds
<1> DEFINE N == {k \in Nat : SendingOne(h, X, f[k])}
<1>7. 0 \in N
  BY <1>5, <1>6
<1>8. ASSUME NEW k \in 0..(n - 1), k \in N PROVE k + 1 \in N
  <2>1. f[k + 1] = SendSome(f[k]) /\ SendingOne(h, X, f[k]) /\ k + 1 \in Nat
    BY <1>6, <1>8
  <2> QED BY <2>1, SendStep
<1>9. n \in N
  <2> HIDE DEF N
  <2> QED BY ONLY <1>1, <1>7, <1>8, CountUp
<1> QED BY <1>3, <1>6, <1>9

-----------------------------------------------------------------------------
(* Taking a packet off what was read. *)

LEMMA MeetKept ==
  ASSUME NEW h, NEW h2, NEW c1, NEW p1 \in Nat, NEW n1 \in Nat, NEW c2, NEW p2 \in Nat, NEW n2 \in Nat,
         Meet(h, c1, p1, n1, c2, p2, n2), SameFrom(h, h2, c1), SameFrom(h, h2, c2)
  PROVE  Meet(h2, c1, p1, n1, c2, p2, n2)
<1>1. n1 + 1 \in Nat /\ n2 + 1 \in Nat
  OBVIOUS
<1>2. \A n \in Nat : Covered(h, c1, p1, n) => Covered(h2, c1, p1, n) /\ Places(h2, c1, p1, n) = Places(h, c1, p1, n)
  BY DEF SameFrom
<1>3. \A n \in Nat : Covered(h, c2, p2, n) => Covered(h2, c2, p2, n) /\ Places(h2, c2, p2, n) = Places(h, c2, p2, n)
  BY DEF SameFrom
<1> QED BY <1>1, <1>2, <1>3 DEF Meet

LEMMA MeetSelf ==
  ASSUME NEW h, NEW c, NEW p \in Nat, NEW n \in Nat \ {0}, Covered(h, c, p, n)
  PROVE  Meet(h, c, p, n, c, p, n)
BY DEF Meet

-----------------------------------------------------------------------------
(* The decoder's position as a buffer. *)
AsBuffer(d) == Buffer(d.c, d.c, d.spos, d.size, 0, {})
LEMMA AsBufferFields ==
  ASSUME NEW d
  PROVE  /\ AsBuffer(d).head = d.c /\ AsBuffer(d).tail = d.c /\ AsBuffer(d).spos = d.spos
         /\ AsBuffer(d).datasize = d.size /\ AsBuffer(d).append_pos = 0 /\ AsBuffer(d).flags = {}
BY DEF AsBuffer, Buffer

(* The decoder goes past a packet; where it ends stays what was read. *)
Passing(h, X, w, rc, rp, m) ==
  /\ Owned(w.h, Plus(X, w.d.c)) /\ Kept(h, w.h, X) /\ BufferOk(w.h, AsBuffer(w.d))
  /\ w.n \in Nat /\ w.n <= w.d.size
  /\ w.d.c # 0 => Meet(w.h, w.d.c, w.d.spos, w.d.size, rc, rp, m)

(* One round of packet_decoder_unpack. *)
LEMMA PassStep ==
  ASSUME NEW h, NEW X, IsCount(X), NEW w, NEW rc \in Nat \ {0}, NEW rp \in Nat, NEW m \in Nat, X[rc] > 0,
         Passing(h, X, w, rc, rp, m)
  PROVE  Passing(h, X, PassSome(w), rc, rp, m)
<1> DEFINE g == w.h
           d == w.d
           n == w.n
           k == Least(g[d.c].cap - d.spos, n)
           next == g[d.c].next
           q == PassSome(w)
           here == [c |-> d.c, spos |-> d.spos + k, size |-> d.size - k]
           there == [c |-> next, spos |-> 0, size |-> d.size - k]
           h2 == chk_bytechunk_release(chk_bytechunk_retain(g, next), d.c)
           b == AsBuffer(d)
<1>1. /\ Owned(g, Plus(X, d.c)) /\ BufferOk(g, b) /\ Kept(h, g, X)
      /\ n \in Nat /\ n <= d.size /\ IsHeap(g) /\ (d.c # 0 => Meet(g, d.c, d.spos, d.size, rc, rp, m))
  BY DEF Passing, Owned
<1>2. CASE n = 0
  BY <1>2 DEF PassSome
<1>3. CASE n # 0
  <2>1. q = IF d.spos + k < g[d.c].cap THEN [h |-> g, d |-> here, n |-> 0]
            ELSE [h |-> h2, d |-> there, n |-> IF next = NULL THEN 0 ELSE n - k]
    BY <1>3 DEF PassSome
  <2>f. /\ b.head = d.c /\ b.tail = d.c /\ b.spos = d.spos /\ b.datasize = d.size
    BY AsBufferFields
  <2> HIDE DEF b
  <2>2. /\ d.c # 0 /\ d.c \in DOMAIN g /\ d.c \in Nat /\ d.spos \in Nat /\ d.size \in Nat
        /\ d.spos < g[d.c].cap /\ g[d.c].cap \in Nat
    <3>1. b.datasize # 0 /\ b.datasize \in Nat
      <4>1. b.datasize \in Nat
        BY <1>1, BufferFacts
      <4> QED BY <1>1, <1>3, <2>f, <4>1
    <3>2. b.head # 0
      BY <1>1, <3>1, BufferFacts
    <3> QED BY <1>1, <2>f, <3>1, <3>2, BufferFacts
  <2>3. k \in 1..n /\ k \in 1..d.size /\ d.spos + k <= g[d.c].cap /\ (d.spos + k < g[d.c].cap => k = n)
    <3> DEFINE cap == g[d.c].cap
               sp == d.spos
               ds == d.size
    <3>1. cap \in Nat /\ sp \in Nat /\ ds \in Nat /\ sp < cap /\ n <= ds /\ k = Least(cap - sp, n)
      BY <1>1, <2>2
    <3> HIDE DEF cap, sp, ds, n, k
    <3>2. k \in 1..n /\ k \in 1..ds /\ sp + k <= cap /\ (sp + k < cap => k = n)
      BY <1>1, <1>3, <3>1 DEF Least
    <3> QED BY <3>2 DEF cap, sp, ds
  <2>a. /\ here.c = d.c /\ here.spos = d.spos + k /\ here.size = d.size - k
        /\ there.c = next /\ there.spos = 0 /\ there.size = d.size - k
        /\ h2 = chk_bytechunk_release(chk_bytechunk_retain(g, next), d.c) /\ next = g[d.c].next
    OBVIOUS
  <2>b. n - k \in Nat /\ n - k <= d.size - k /\ d.size - k \in Nat
    BY <1>1, <2>2, <2>3
  <2>c. /\ AsBuffer(here) = Buffer(d.c, d.c, d.spos + k, b.datasize - k, 0, {})
        /\ AsBuffer(there) = Buffer(next, next, 0, b.datasize - k, 0, {})
    BY <2>a, <2>f DEF AsBuffer
  <2>r. rc \in DOMAIN g
    <3>1. Plus(X, d.c)[rc] > 0
      BY <2>2, PlusCounts DEF One, IsCount
    <3> QED BY <1>1, <3>1 DEF Owned
  <2> HIDE DEF here, there, h2, k
  <2>4. CASE d.spos + k < g[d.c].cap
    <3>1. q.h = g /\ q.d = here /\ q.n = 0
      BY <2>1, <2>4
    <3>2. IsShorter(g, b, k, d.c, d.spos + k)
      BY <1>1, <2>3, <2>4, <2>f, ShorterHere
    <3>3. SameFrom(g, g, d.c)
      BY <2>2 DEF SameFrom
    <3>4. d.spos + k \in Nat /\ (d.c = 0 <=> d.c = 0) /\ 0 \in Nat
      BY <2>2, <2>3
    <3>m. Onward(g, d.c, d.spos + k, d.c, d.spos + k)
      BY <2>4 DEF Onward
    <3> HIDE DEF next, g, d, n
    <3>a. IsRest(g, AsBuffer(here), b, k, d.c)
      BY ONLY <1>1, <2>2, <2>c, <3>2, <3>3, <3>4, ShorterKept
    <3>5. BufferOk(g, AsBuffer(here))
      BY <3>a DEF IsRest
    <3>6. Meet(g, d.c, d.spos + k, d.size - k, rc, rp, m)
      BY <1>1, <2>2, <2>3, <2>r, <3>m, MeetAdvances
    <3> QED BY <1>1, <2>a, <2>b, <3>1, <3>5, <3>6 DEF Passing
  <2>5. CASE ~(d.spos + k < g[d.c].cap)
    <3>1. q.h = h2 /\ q.d = there /\ q.n = IF next = 0 THEN 0 ELSE n - k
      BY <2>1, <2>5 DEF NULL
    <3>2. d.spos + k = g[d.c].cap
      BY <2>2, <2>3, <2>5
    <3>3. IsShorter(g, b, k, next, 0)
      BY <1>1, <2>3, <2>f, <3>2, ShorterNext
    <3>m. Onward(g, d.c, d.spos + k, next, 0)
      BY <2>5 DEF Onward
    <3> HIDE DEF next, g, d, n
    <3>4. next \in DOMAIN g \cup {0} /\ next \in Nat
      BY <1>1, <3>3 DEF IsShorter, IsHeap
    <3>5. IsStepped(g, X, h2, next)
      BY <1>1, <2>2, <2>a, <3>4, Stepped
    <3>7. Owned(h2, Plus(X, next)) /\ Kept(g, h2, Plus(X, next)) /\ Kept(g, h2, X) /\ IsHeap(h2)
      BY <3>5 DEF IsStepped, Owned
    <3>9. next # 0 => SameFrom(g, h2, next)
      BY <3>7, <3>4, KeptFrom
    <3>10. next \in Nat /\ (next = 0 <=> next = 0) /\ 0 \in Nat
      BY <3>4
    <3>a. IsRest(h2, AsBuffer(there), b, k, next)
      BY ONLY <1>1, <2>2, <2>c, <3>3, <3>7, <3>9, <3>10, ShorterKept
    <3>11. BufferOk(h2, AsBuffer(there))
      BY <3>a DEF IsRest
    <3>12. next # 0 => Meet(h2, next, 0, d.size - k, rc, rp, m)
      <4> SUFFICES ASSUME next # 0 PROVE Meet(h2, next, 0, d.size - k, rc, rp, m)
        OBVIOUS
      <4>1. Meet(g, next, 0, d.size - k, rc, rp, m)
        BY <1>1, <2>2, <2>3, <2>r, <3>2, <3>m, MeetAdvances
      <4>2. SameFrom(g, h2, rc)
        BY <3>7 DEF Kept
      <4> QED BY <2>b, <3>9, <4>1, <4>2, MeetKept
    <3>14. Kept(h, h2, X)
      BY <1>1, <3>7, KeptTrans
    <3>15. q.n \in Nat /\ q.n <= d.size - k
      BY <2>b, <3>1
    <3> QED BY <2>a, <2>b, <3>1, <3>7, <3>11, <3>12, <3>14, <3>15 DEF Passing
  <2> QED BY <2>4, <2>5
<1> QED BY <1>2, <1>3

(* All of them: the decoder is behind the packet. *)
LEMMA BehindOwned ==
  ASSUME NEW h, NEW X, IsCount(X), NEW d, NEW size \in Nat, NEW rc \in Nat \ {0}, NEW rp \in Nat, NEW m \in Nat,
         X[rc] > 0, d.c \in Nat, Owned(h, Plus(X, d.c)), BufferOk(h, AsBuffer(d)), size <= d.size,
         d.c # 0 => Meet(h, d.c, d.spos, d.size, rc, rp, m)
  PROVE  Passing(h, X, Behind(h, d, size), rc, rp, m)
<1> DEFINE start == [h |-> h, d |-> d, n |-> size]
           n == size
<1>1. n \in Nat
  OBVIOUS
<1>2. start.h = h /\ start.d = d /\ start.n = size
  OBVIOUS
<1>3. Behind(h, d, size) = PassSomeAll(n, start)
  BY DEF Behind, PassSomeAll
<1>4. Kept(h, h, X)
  BY KeptOwn
<1>5. Passing(h, X, start, rc, rp, m)
  BY <1>2, <1>4 DEF Passing
<1> HIDE DEF start, n
<1>6. PICK f : /\ f[0] = start /\ PassSomeAll(n, start) = f[n]
               /\ \A k \in 0..(n - 1) : f[k + 1] = PassSome(f[k])
  BY ONLY <1>1, PassSomeRounds
<1> DEFINE N == {k \in Nat : Passing(h, X, f[k], rc, rp, m)}
<1>7. 0 \in N
  BY <1>5, <1>6
<1>8. ASSUME NEW k \in 0..(n - 1), k \in N PROVE k + 1 \in N
  <2>1. f[k + 1] = PassSome(f[k]) /\ Passing(h, X, f[k], rc, rp, m) /\ k + 1 \in Nat
    BY <1>6, <1>8
  <2> QED BY <2>1, PassStep
<1>9. n \in N
  <2> HIDE DEF N
  <2> QED BY ONLY <1>1, <1>7, <1>8, CountUp
<1> QED BY <1>3, <1>6, <1>9

(* A chunk that has another one behind it. *)
IsWithNext(h, X, c, h2) ==
  /\ Owned(h2, X) /\ Kept(h, h2, X) /\ \A x \in DOMAIN h : SameFrom(h, h2, x)
  /\ c \in DOMAIN h2 /\ h2[c].cap = h[c].cap /\ h2[c].next \in DOMAIN h2 \ {0}

LEMMA WithNextOwned ==
  ASSUME NEW h, NEW X, Owned(h, X), NEW c \in DOMAIN h, NEW h2, h2 = WithNext(h, c)
  PROVE  IsWithNext(h, X, c, h2)
<1>1. IsHeap(h) /\ h[c].next \in DOMAIN h \cup {0}
  BY ChunkFields DEF Owned
<1>2. CASE h[c].next # 0
  <2>1. h2 = h
    BY <1>2 DEF WithNext, NULL
  <2>2. Kept(h, h, X)
    BY KeptSame
  <2>3. \A x \in DOMAIN h : SameFrom(h, h, x)
    BY DEF SameFrom
  <2> QED BY <1>1, <1>2, <2>1, <2>2, <2>3 DEF IsWithNext
<1>3. CASE h[c].next = 0
  <2>1. h2 = LinkedTo(chk_bytechunk_new(h, RecvCap, <<>>), c, NextChunk(h))
    BY <1>3 DEF WithNext, NULL, Linked, NewRecvChunk, LinkedTo
  <2>2. RecvCap \in Nat
    BY PacketAssumption
  <2>3. IsLinkedNew(h, X, c, RecvCap, NextChunk(h), h2)
    BY ONLY Owned(h, X), c \in DOMAIN h, <1>3, <2>1, <2>2, LinkedOwned
  <2>4. SameFrom(h, h2, c)
    BY <2>3 DEF IsLinkedNew
  <2> QED BY <2>3, <2>4 DEF IsLinkedNew, IsWithNext, SameFrom
<1> QED BY <1>2, <1>3

(* The socket goes past what it read. *)
Reading(h, X, w, d, m) ==
  /\ Owned(w.h, Plus(X, w.r.c)) /\ Kept(h, w.h, X) /\ w.r.c \in DOMAIN w.h /\ w.r.pos \in Nat
  /\ w.r.pos < w.h[w.r.c].cap /\ w.n \in Nat /\ Covered(w.h, w.r.c, w.r.pos, w.n)
  /\ w.n <= m \/ w.n = 0
  /\ d.c # 0 => Meet(w.h, d.c, d.spos, d.size, w.r.c, w.r.pos, w.n)
DecoderHeld(X, d) ==
  /\ d.c \in Nat /\ d.spos \in Nat /\ d.size \in Nat /\ (d.c # 0 => X[d.c] > 0)

(* One round of update_next_recv_pos. *)
LEMMA ReadStep ==
  ASSUME NEW h, NEW X, IsCount(X), NEW w, NEW d, NEW m \in Int, DecoderHeld(X, d), Reading(h, X, w, d, m)
  PROVE  Reading(h, X, ReadSome(w), d, m - 1)
<1> DEFINE g == w.h
           c == w.r.c
           pos == w.r.pos
           n == w.n
           k == Least(g[c].cap - pos, n)
           gl == WithNext(g, c)
           next == gl[c].next
           q == ReadSome(w)
           h2 == chk_bytechunk_release(chk_bytechunk_retain(gl, next), c)
<1>1. /\ Owned(g, Plus(X, c)) /\ Kept(h, g, X) /\ c \in DOMAIN g /\ pos \in Nat /\ pos < g[c].cap /\ n \in Nat
      /\ Covered(g, c, pos, n) /\ (n <= m \/ n = 0) /\ (d.c # 0 => Meet(g, d.c, d.spos, d.size, c, pos, n))
      /\ IsHeap(g)
  BY DEF Reading, Owned
<1>2. CASE n = 0
  BY <1>2 DEF ReadSome, Reading
<1>3. CASE n # 0
  <2>1. q = IF pos + k < g[c].cap THEN [h |-> g, r |-> [c |-> c, pos |-> pos + k], n |-> 0]
            ELSE [h |-> h2, r |-> [c |-> next, pos |-> 0], n |-> n - k]
    BY <1>3 DEF ReadSome
  <2>2. c # 0 /\ c \in Nat /\ g[c].cap \in Nat \ {0}
    BY <1>1, ChunkFields
  <2>3. k \in 1..n /\ pos + k <= g[c].cap /\ (pos + k < g[c].cap => k = n) /\ k \in 0..n
    <3> DEFINE cap == g[c].cap
    <3>1. cap \in Nat /\ pos \in Nat /\ n \in Nat /\ pos < cap /\ k = Least(cap - pos, n)
      BY <1>1, <2>2
    <3> HIDE DEF cap, pos, n, k
    <3>2. k \in 1..n /\ pos + k <= cap /\ (pos + k < cap => k = n) /\ k \in 0..n
      BY <1>3, <3>1 DEF Least
    <3> QED BY <3>2 DEF cap
  <2>a. h2 = chk_bytechunk_release(chk_bytechunk_retain(gl, next), c) /\ next = gl[c].next /\ gl = WithNext(g, c)
    OBVIOUS
  <2>b. n - k \in Nat /\ (n - k <= m - 1 \/ n - k = 0)
    BY <1>1, <1>3, <2>3
  <2>d. d.c \in Nat /\ d.spos \in Nat /\ d.size \in Nat /\ (d.c # 0 => X[d.c] > 0)
    BY DEF DecoderHeld
  <2>e. d.c # 0 => d.c \in DOMAIN g
    <3>1. X[d.c] > 0 => Plus(X, c)[d.c] > 0
      BY <2>2, <2>d, PlusCounts DEF One, IsCount
    <3> QED BY <1>1, <2>d, <3>1 DEF Owned
  <2> HIDE DEF h2, k, gl, next, g, c, pos, n
  <2>4. CASE pos + k < g[c].cap
    <3>1. q.h = g /\ q.r.c = c /\ q.r.pos = pos + k /\ q.n = 0 /\ n - k = 0 /\ k = n
      BY <2>1, <2>3, <2>4, <2>b
    <3>2. pos + k \in Nat
      BY <1>1, <2>3
    <3>3. Covered(g, c, pos + k, 0)
      BY <1>1, <3>2, NothingCovered
    <3>4. d.c # 0 => Meet(g, d.c, d.spos, d.size, c, pos + k, 0)
      <4> SUFFICES ASSUME d.c # 0 PROVE Meet(g, d.c, d.spos, d.size, c, pos + k, 0)
        OBVIOUS
      <4>1. Meet(g, c, pos, n, d.c, d.spos, d.size)
        BY <1>1, MeetSwapped
      <4>2. Onward(g, c, pos + k, c, pos + k)
        BY <2>4 DEF Onward
      <4>3. Meet(g, c, pos + k, n - k, d.c, d.spos, d.size)
        BY <1>1, <2>2, <2>3, <2>d, <2>e, <4>1, <4>2, MeetAdvances
      <4> QED BY <3>1, <4>3, MeetSwapped
    <3> QED BY <1>1, <2>4, <3>1, <3>2, <3>3, <3>4 DEF Reading
  <2>5. CASE ~(pos + k < g[c].cap)
    <3>1. q.h = h2 /\ q.r.c = next /\ q.r.pos = 0 /\ q.n = n - k
      BY <2>1, <2>5
    <3>2. pos + k = g[c].cap
      BY <1>1, <2>2, <2>3, <2>5
    <3>3. IsWithNext(g, Plus(X, c), c, gl)
      BY <1>1, <2>a, WithNextOwned
    <3>4. /\ Owned(gl, Plus(X, c)) /\ Kept(g, gl, Plus(X, c)) /\ \A x \in DOMAIN g : SameFrom(g, gl, x)
          /\ c \in DOMAIN gl /\ gl[c].cap = g[c].cap /\ next \in DOMAIN gl /\ next # 0 /\ IsHeap(gl)
      BY <2>a, <3>3 DEF IsWithNext, Owned
    <3>5. next \in Nat /\ next \in DOMAIN gl \cup {0} /\ gl[next].cap \in Nat \ {0}
      BY <3>4, ChunkFields
    <3>6. IsStepped(gl, X, h2, next)
      BY <2>a, <3>4, <3>5, Stepped
    <3>7. Owned(h2, Plus(X, next)) /\ Kept(gl, h2, Plus(X, next)) /\ Kept(gl, h2, X) /\ IsHeap(h2)
      BY <3>6 DEF IsStepped, Owned
    <3>8. SameFrom(gl, h2, next)
      BY <3>4, <3>5, <3>7, KeptFrom
    <3>9. next \in DOMAIN h2 /\ 0 < h2[next].cap
      BY <3>5, <3>8 DEF SameFrom
    <3>10. Kept(h, h2, X)
      <4>1. Kept(g, gl, X)
        BY <2>2, <3>4, KeptLess
      <4>2. Kept(h, gl, X)
        BY <1>1, <4>1, KeptTrans
      <4> QED BY <3>7, <4>2, KeptTrans
    <3>11. Onward(gl, c, pos + k, next, 0)
      BY <2>2, <2>a, <3>2, <3>4 DEF Onward
    <3>12. Covered(gl, c, pos, n) /\ pos + k <= gl[c].cap
      BY <1>1, <2>3, <3>4 DEF SameFrom
    <3>13. Covered(h2, next, 0, n - k)
      <4>1. IsAdvanced(gl, c, pos, n, k, next, 0)
        BY ONLY <1>1, <2>3, <3>4, <3>11, <3>12, Advances
      <4>2. Covered(gl, next, 0, n - k)
        BY <4>1 DEF IsAdvanced
      <4> QED BY <2>b, <3>8, <4>2 DEF SameFrom
    <3>14. d.c # 0 => Meet(h2, d.c, d.spos, d.size, next, 0, n - k)
      <4> SUFFICES ASSUME d.c # 0 PROVE Meet(h2, d.c, d.spos, d.size, next, 0, n - k)
        OBVIOUS
      <4>1. Meet(gl, d.c, d.spos, d.size, c, pos, n)
        BY <1>1, <2>d, <2>e, <3>4, MeetKept
      <4>2. Meet(gl, c, pos, n, d.c, d.spos, d.size)
        BY <4>1, MeetSwapped
      <4>e. d.c \in DOMAIN gl
        BY <2>e, <3>4 DEF SameFrom
      <4>3. Meet(gl, next, 0, n - k, d.c, d.spos, d.size)
        BY <1>1, <2>3, <2>d, <3>4, <3>11, <3>12, <4>2, <4>e, MeetAdvances
      <4>4. SameFrom(gl, h2, d.c)
        BY <2>d, <3>7 DEF Kept
      <4>5. Meet(h2, next, 0, n - k, d.c, d.spos, d.size)
        BY <2>b, <2>d, <3>8, <4>3, <4>4, MeetKept
      <4> QED BY <4>5, MeetSwapped
    <3> QED BY <2>b, <3>1, <3>7, <3>9, <3>10, <3>13, <3>14 DEF Reading
  <2> QED BY <2>4, <2>5
<1> QED BY <1>2, <1>3

(* All of them: the socket is behind what it read. *)
LEMMA NextPosOwned ==
  ASSUME NEW h, NEW X, IsCount(X), NEW r, NEW d, NEW n \in Nat, DecoderHeld(X, d), Owned(h, Plus(X, r.c)),
         r.c \in DOMAIN h, r.pos \in Nat, r.pos < h[r.c].cap, Covered(h, r.c, r.pos, n),
         d.c # 0 => Meet(h, d.c, d.spos, d.size, r.c, r.pos, n)
  PROVE  /\ Reading(h, X, update_next_recv_pos(h, r, n), d, 0)
         /\ update_next_recv_pos(h, r, n).n = 0
<1> DEFINE start == [h |-> h, r |-> r, n |-> n]
<1>2. start.h = h /\ start.r = r /\ start.n = n
  OBVIOUS
<1>3. update_next_recv_pos(h, r, n) = ReadSomeAll(n, start)
  BY DEF update_next_recv_pos, ReadSomeAll
<1>4. Kept(h, h, X)
  <2>1. IsHeap(h)
    BY DEF Owned
  <2>2. r.c \in Nat
    BY <2>1, ChunkFields
  <2> QED BY <2>2, KeptOwn
<1>5. Reading(h, X, start, d, n)
  BY <1>2, <1>4 DEF Reading
<1> HIDE DEF start
<1>6. PICK f : /\ f[0] = start /\ ReadSomeAll(n, start) = f[n]
               /\ \A k \in 0..(n - 1) : f[k + 1] = ReadSome(f[k])
  BY ONLY n \in Nat, ReadSomeRounds
<1> DEFINE N == {k \in Nat : Reading(h, X, f[k], d, n - k)}
<1>7. 0 \in N
  <2>1. n - 0 = n
    OBVIOUS
  <2> QED BY <1>5, <1>6, <2>1
<1>8. ASSUME NEW k \in 0..(n - 1), k \in N PROVE k + 1 \in N
  <2>1. f[k + 1] = ReadSome(f[k]) /\ Reading(h, X, f[k], d, n - k) /\ k + 1 \in Nat /\ n - k \in Int
        /\ n - (k + 1) = (n - k) - 1
    BY <1>6, <1>8
  <2>2. Reading(h, X, ReadSome(f[k]), d, (n - k) - 1)
    BY <2>1, ReadStep
  <2> QED BY <2>1, <2>2
<1>9. n \in N
  <2> HIDE DEF N
  <2> QED BY ONLY n \in Nat, <1>7, <1>8, CountUp
<1>10. n - n = 0 /\ Reading(h, X, f[n], d, n - n)
  BY <1>9
<1>11. Reading(h, X, f[n], d, 0)
  BY <1>10
<1> QED BY <1>3, <1>6, <1>11 DEF Reading

-----------------------------------------------------------------------------
(* Lists of buffers and of chunks. *)
IsList(q) == \E S : q \in Seq(S)
LEMMA ListFacts ==
  ASSUME NEW q, IsList(q)
  PROVE  /\ Len(q) \in Nat /\ DOMAIN q = 1..Len(q)
         /\ q # <<>> => /\ Len(q) >= 1 /\ IsList(Tail(q)) /\ Len(Tail(q)) = Len(q) - 1 /\ Head(q) = q[1]
                        /\ \A i \in 1..(Len(q) - 1) : Tail(q)[i] = q[i + 1]
         /\ q = <<>> <=> Len(q) = 0
<1>1. PICK S : q \in Seq(S)
  BY DEF IsList
<1>2. q # <<>> => Tail(q) \in Seq(S) /\ Len(Tail(q)) = Len(q) - 1
  BY <1>1
<1>3. q # <<>> => IsList(Tail(q))
  <2> SUFFICES ASSUME q # <<>> PROVE IsList(Tail(q))
    OBVIOUS
  <2>1. Tail(q) \in Seq(S)
    BY <1>2
  <2> QED BY <2>1 DEF IsList
<1>4. q # <<>> => \A i \in 1..(Len(q) - 1) : Tail(q)[i] = q[i + 1]
  BY <1>1
<1> QED BY <1>1, <1>2, <1>3, <1>4

IsAppended(q, b, q2) ==
  /\ IsList(q2) /\ Len(q2) = Len(q) + 1 /\ q2[Len(q) + 1] = b /\ \A i \in 1..Len(q) : q2[i] = q[i]
LEMMA Appended ==
  ASSUME NEW q, IsList(q), NEW b, NEW q2, q2 = Append(q, b)
  PROVE  IsAppended(q, b, q2)
<1>1. PICK S : q \in Seq(S)
  BY DEF IsList
<1> DEFINE T == S \cup {b}
<1>2. q \in Seq(T) /\ b \in T
  <2>1. b \in T /\ S \subseteq T
    OBVIOUS
  <2> HIDE DEF T
  <2>2. \A i \in 1..Len(q) : q[i] \in T
    BY <1>1, <2>1
  <2>3. Len(q) \in Nat /\ q = [i \in 1..Len(q) |-> q[i]]
    BY <1>1
  <2>4. [i \in 1..Len(q) |-> q[i]] \in Seq(T)
    BY <2>2, <2>3
  <2> QED BY <2>1, <2>3, <2>4
<1> HIDE DEF T
<1>3. q2 \in Seq(T) /\ Len(q2) = Len(q) + 1 /\ q2[Len(q) + 1] = b /\ \A i \in 1..Len(q) : q2[i] = q[i]
  BY <1>2
<1> QED BY <1>3 DEF IsAppended, IsList

IsConsed(b, t, q) ==
  /\ IsList(q) /\ Len(q) = Len(t) + 1 /\ q # <<>> /\ Head(q) = b /\ Tail(q) = t
LEMMA Consed ==
  ASSUME NEW t, IsList(t), NEW b, NEW q, q = <<b>> \o t
  PROVE  IsConsed(b, t, q)
<1>1. PICK S : t \in Seq(S)
  BY DEF IsList
<1> DEFINE T == S \cup {b}
<1>2. t \in Seq(T) /\ b \in T
  <2>1. b \in T /\ S \subseteq T
    OBVIOUS
  <2> HIDE DEF T
  <2>2. \A i \in 1..Len(t) : t[i] \in T
    BY <1>1, <2>1
  <2>3. Len(t) \in Nat /\ t = [i \in 1..Len(t) |-> t[i]]
    BY <1>1
  <2>4. [i \in 1..Len(t) |-> t[i]] \in Seq(T)
    BY <2>2, <2>3
  <2> QED BY <2>1, <2>3, <2>4
<1> HIDE DEF T
<1>3. <<b>> \in Seq(T) /\ Len(<<b>>) = 1 /\ <<b>>[1] = b
  BY <1>2
<1>4. q \in Seq(T) /\ Len(q) = Len(t) + 1
  BY <1>2, <1>3
<1>5. q[1] = b /\ \A i \in 1..Len(t) : q[i + 1] = t[i]
  BY <1>2, <1>3
<1>6. q # <<>> /\ Head(q) = b
  BY <1>2, <1>4, <1>5
<1>7. Tail(q) = t
  <2>1. Tail(q) \in Seq(T) /\ Len(Tail(q)) = Len(t)
    BY <1>2, <1>4, <1>6
  <2>2. \A i \in 1..Len(t) : Tail(q)[i] = t[i]
    BY <1>2, <1>4, <1>5, <1>6
  <2> QED BY <1>2, <2>1, <2>2
<1> QED BY <1>4, <1>6, <1>7 DEF IsConsed, IsList

-----------------------------------------------------------------------------
(* The references that the scripts, the send list and the lost ones make. *)
SlotsWith(bf, c) == {s \in Slot : bf[s].head = c}
QueuedWith(q, c) == {i \in DOMAIN q : q[i].head = c}
LostAs(l, c) == {i \in DOMAIN l : l[i] = c}
Held(bf, q, l, Z) ==
  [c \in Nat |-> Cardinality(SlotsWith(bf, c)) + Cardinality(QueuedWith(q, c)) + Cardinality(LostAs(l, c)) + Z[c]]

LEMMA HeldCounts ==
  ASSUME NEW bf, NEW q, NEW l, IsList(q), IsList(l), NEW c
  PROVE  /\ IsFiniteSet(SlotsWith(bf, c)) /\ Cardinality(SlotsWith(bf, c)) \in Nat
         /\ IsFiniteSet(QueuedWith(q, c)) /\ Cardinality(QueuedWith(q, c)) \in Nat
         /\ IsFiniteSet(LostAs(l, c)) /\ Cardinality(LostAs(l, c)) \in Nat
<1>1. SlotsWith(bf, c) \subseteq Slot /\ IsFiniteSet(Slot)
  BY PacketAssumption DEF SlotsWith
<1>2. QueuedWith(q, c) \subseteq 1..Len(q) /\ LostAs(l, c) \subseteq 1..Len(l) /\ Len(q) \in Nat /\ Len(l) \in Nat
  BY ListFacts DEF QueuedWith, LostAs
<1>3. IsFiniteSet(1..Len(q)) /\ IsFiniteSet(1..Len(l))
  BY <1>2, FS_Interval
<1>4. IsFiniteSet(SlotsWith(bf, c)) /\ IsFiniteSet(QueuedWith(q, c)) /\ IsFiniteSet(LostAs(l, c))
  BY <1>1, <1>2, <1>3, FS_Subset
<1> QED BY <1>4, FS_CardinalityType

LEMMA HeldIsCount ==
  ASSUME NEW bf, NEW q, NEW l, IsList(q), IsList(l), NEW Z, IsCount(Z)
  PROVE  IsCount(Held(bf, q, l, Z))
<1>1. ASSUME NEW c \in Nat PROVE Held(bf, q, l, Z)[c] \in Nat
  <2>1. Z[c] \in Nat
    BY DEF IsCount
  <2> QED BY <2>1, HeldCounts DEF Held
<1> QED BY <1>1 DEF IsCount, Held

(* One reference more, at the end of a list. *)
LEMMA QueueGrows ==
  ASSUME NEW bf, NEW q, NEW l, IsList(q), IsList(l), NEW Z, IsCount(Z), NEW b, NEW q2, IsAppended(q, b, q2)
  PROVE  Held(bf, q2, l, Z) = Plus(Held(bf, q, l, Z), b.head)
<1>1. /\ Len(q) \in Nat /\ DOMAIN q = 1..Len(q) /\ DOMAIN q2 = 1..(Len(q) + 1) /\ q2[Len(q) + 1] = b
      /\ \A i \in 1..Len(q) : q2[i] = q[i]
  BY ListFacts DEF IsAppended
<1>2. ASSUME NEW c \in Nat
      PROVE Cardinality(QueuedWith(q2, c)) = Cardinality(QueuedWith(q, c)) + One(b.head, c)
  <2>1. Len(q) + 1 \notin QueuedWith(q, c)
    BY <1>1 DEF QueuedWith
  <2>2. IsFiniteSet(QueuedWith(q, c)) /\ Cardinality(QueuedWith(q, c)) \in Nat
    BY HeldCounts
  <2>3. CASE b.head = c
    <3>1. QueuedWith(q2, c) = QueuedWith(q, c) \cup {Len(q) + 1}
      BY <1>1, <2>3 DEF QueuedWith
    <3> QED BY <2>1, <2>2, <2>3, <3>1, FS_AddElement DEF One
  <2>4. CASE b.head # c
    <3>1. QueuedWith(q2, c) = QueuedWith(q, c)
      BY <1>1, <2>4 DEF QueuedWith
    <3> QED BY <2>2, <2>4, <3>1 DEF One
  <2> QED BY <2>3, <2>4
<1>3. ASSUME NEW c \in Nat PROVE Held(bf, q2, l, Z)[c] = Held(bf, q, l, Z)[c] + One(b.head, c)
  <2>1. One(b.head, c) \in Nat /\ Z[c] \in Nat
    BY DEF One, IsCount
  <2> QED BY <1>2, <2>1, HeldCounts DEF Held
<1> QED BY <1>3 DEF Plus, Held

LEMMA LostGrows ==
  ASSUME NEW bf, NEW q, NEW l, IsList(q), IsList(l), NEW Z, IsCount(Z), NEW x, NEW l2, IsAppended(l, x, l2)
  PROVE  Held(bf, q, l2, Z) = Plus(Held(bf, q, l, Z), x)
<1>1. /\ Len(l) \in Nat /\ DOMAIN l = 1..Len(l) /\ DOMAIN l2 = 1..(Len(l) + 1) /\ l2[Len(l) + 1] = x
      /\ \A i \in 1..Len(l) : l2[i] = l[i]
  BY ListFacts DEF IsAppended
<1>2. ASSUME NEW c \in Nat
      PROVE Cardinality(LostAs(l2, c)) = Cardinality(LostAs(l, c)) + One(x, c)
  <2>1. Len(l) + 1 \notin LostAs(l, c)
    BY <1>1 DEF LostAs
  <2>2. IsFiniteSet(LostAs(l, c)) /\ Cardinality(LostAs(l, c)) \in Nat
    BY HeldCounts
  <2>3. CASE x = c
    <3>1. LostAs(l2, c) = LostAs(l, c) \cup {Len(l) + 1}
      BY <1>1, <2>3 DEF LostAs
    <3> QED BY <2>1, <2>2, <2>3, <3>1, FS_AddElement DEF One
  <2>4. CASE x # c
    <3>1. LostAs(l2, c) = LostAs(l, c)
      BY <1>1, <2>4 DEF LostAs
    <3> QED BY <2>2, <2>4, <3>1 DEF One
  <2> QED BY <2>3, <2>4
<1>3. ASSUME NEW c \in Nat PROVE Held(bf, q, l2, Z)[c] = Held(bf, q, l, Z)[c] + One(x, c)
  <2>1. One(x, c) \in Nat /\ Z[c] \in Nat
    BY DEF One, IsCount
  <2> QED BY <1>2, <2>1, HeldCounts DEF Held
<1> QED BY <1>3 DEF Plus, Held

(* The first of the list and the others. *)
LEMMA ShiftedCounts ==
  ASSUME NEW A \in SUBSET Nat, IsFiniteSet(A)
  PROVE  LET B == {i + 1 : i \in A} IN IsFiniteSet(B) /\ Cardinality(B) = Cardinality(A)
<1> DEFINE B == {i + 1 : i \in A}
           f == [i \in A |-> i + 1]
<1>1. f \in [A -> B] /\ \A i, j \in A : f[i] = f[j] => i = j
  OBVIOUS
<1>3. \A x \in B : \E i \in A : f[i] = x
  OBVIOUS
<1>4. DOMAIN f = A
  OBVIOUS
<1> HIDE DEF f, B
<1>5. f \in Injection(A, B)
  BY <1>1, <1>4 DEF Injection, IsInjective
<1>6. f \in Surjection(A, B)
  BY <1>1, <1>3 DEF Surjection
<1>2. ExistsBijection(A, B)
  BY <1>5, <1>6 DEF ExistsBijection, Bijection
<1>7. IsFiniteSet(B) /\ Cardinality(B) = Cardinality(A)
  BY <1>2, FS_Bijection
<1> QED BY <1>7 DEF B

LEMMA QueueSplits ==
  ASSUME NEW bf, NEW q, NEW l, IsList(q), IsList(l), NEW Z, IsCount(Z), q # <<>>
  PROVE  Held(bf, q, l, Z) = Plus(Held(bf, Tail(q), l, Z), Head(q).head)
<1> DEFINE t == Tail(q)
           b == Head(q)
           n == Len(q)
<1>1. /\ n \in Nat /\ n >= 1 /\ DOMAIN q = 1..n /\ IsList(t) /\ Len(t) = n - 1 /\ DOMAIN t = 1..(n - 1)
      /\ b = q[1] /\ \A i \in 1..(n - 1) : t[i] = q[i + 1]
  <2>1. IsList(t) /\ Len(t) = n - 1 /\ n \in Nat /\ n >= 1 /\ DOMAIN q = 1..n /\ b = q[1]
        /\ \A i \in 1..(n - 1) : t[i] = q[i + 1]
    BY ListFacts
  <2> HIDE DEF t
  <2>2. DOMAIN t = 1..(n - 1)
    BY <2>1, ListFacts
  <2> QED BY <2>1, <2>2
<1> HIDE DEF t, b, n
<1>2. ASSUME NEW c \in Nat
      PROVE Cardinality(QueuedWith(q, c)) = Cardinality(QueuedWith(t, c)) + One(b.head, c)
  <2> DEFINE A == QueuedWith(t, c)
             B == {i + 1 : i \in A}
  <2>1. IsFiniteSet(A) /\ Cardinality(A) \in Nat /\ A \in SUBSET Nat /\ A \subseteq 1..(n - 1)
    <3>1. IsFiniteSet(A) /\ Cardinality(A) \in Nat
      BY <1>1, HeldCounts
    <3>2. A \subseteq 1..(n - 1)
      BY <1>1 DEF QueuedWith
    <3>3. \A i \in 1..(n - 1) : i \in Nat
      BY <1>1
    <3> HIDE DEF A
    <3> QED BY <3>1, <3>2, <3>3
  <2>2. IsFiniteSet(B) /\ Cardinality(B) = Cardinality(A)
    <3> HIDE DEF A
    <3> QED BY <2>1, ShiftedCounts
  <2>3. 1 \notin B
    BY <2>1
  <2>a. \A i \in 1..n : i # 1 => i - 1 \in 1..(n - 1) /\ t[i - 1] = q[i] /\ i = (i - 1) + 1
    BY <1>1
  <2>b. \A i \in 1..(n - 1) : i + 1 \in 1..n /\ i + 1 # 1
    BY <1>1
  <2>4. \A i \in 1..n : i # 1 => (i \in QueuedWith(q, c) <=> i \in B)
    <3> SUFFICES ASSUME NEW i \in 1..n, i # 1 PROVE i \in QueuedWith(q, c) <=> i \in B
      OBVIOUS
    <3>1. i \in QueuedWith(q, c) <=> q[i].head = c
      BY <1>1 DEF QueuedWith
    <3>2. i - 1 \in A <=> q[i].head = c
      BY <1>1, <2>a DEF QueuedWith
    <3>3. i \in B <=> i - 1 \in A
      <4> HIDE DEF A
      <4>1. i - 1 \in A => i \in B
        BY <2>a
      <4>2. i \in B => i - 1 \in A
        BY <2>1
      <4> QED BY <4>1, <4>2
    <3> QED BY <3>1, <3>2, <3>3
  <2>5. QueuedWith(q, c) \subseteq 1..n /\ B \subseteq 1..n /\ 1 \in 1..n
        /\ (1 \in QueuedWith(q, c) <=> b.head = c)
    BY <1>1, <2>1 DEF QueuedWith
  <2>c. A = QueuedWith(t, c)
    OBVIOUS
  <2> HIDE DEF A, B
  <2>6. CASE b.head = c
    <3>1. QueuedWith(q, c) = B \cup {1}
      BY <2>4, <2>5, <2>6
    <3>2. Cardinality(B \cup {1}) = Cardinality(B) + 1
      BY <2>2, <2>3, FS_AddElement
    <3>3. One(b.head, c) = 1
      BY <2>6 DEF One
    <3> QED BY <2>2, <2>c, <3>1, <3>2, <3>3
  <2>7. CASE b.head # c
    <3>1. QueuedWith(q, c) = B
      <4>1. \A i \in 1..n : i \in QueuedWith(q, c) <=> i \in B
        BY <2>3, <2>4, <2>5, <2>7
      <4> QED BY <2>5, <4>1
    <3>2. One(b.head, c) = 0 /\ Cardinality(A) + 0 = Cardinality(A)
      BY <2>1, <2>7 DEF One
    <3> QED BY <2>2, <2>c, <3>1, <3>2
  <2> QED BY <2>6, <2>7
<1>3. ASSUME NEW c \in Nat PROVE Held(bf, q, l, Z)[c] = Held(bf, t, l, Z)[c] + One(b.head, c)
  <2>1. One(b.head, c) \in Nat /\ Z[c] \in Nat
    BY DEF One, IsCount
  <2>2. /\ Cardinality(SlotsWith(bf, c)) \in Nat /\ Cardinality(LostAs(l, c)) \in Nat
        /\ Cardinality(QueuedWith(t, c)) \in Nat
    BY <1>1, HeldCounts
  <2>3. /\ Held(bf, q, l, Z)[c] = Cardinality(SlotsWith(bf, c)) + Cardinality(QueuedWith(q, c))
                                 + Cardinality(LostAs(l, c)) + Z[c]
        /\ Held(bf, t, l, Z)[c] = Cardinality(SlotsWith(bf, c)) + Cardinality(QueuedWith(t, c))
                                 + Cardinality(LostAs(l, c)) + Z[c]
    BY DEF Held
  <2> QED BY <1>2, <2>1, <2>2, <2>3
<1> QED BY <1>3 DEF Plus, Held, t, b

(* One buffer of the scripts and the others. *)
Others(bf, q, l, s, Z) ==
  [c \in Nat |-> Cardinality({o \in Slot \ {s} : bf[o].head = c}) + Cardinality(QueuedWith(q, c))
                 + Cardinality(LostAs(l, c)) + Z[c]]
LEMMA SlotSplits ==
  ASSUME NEW bf, NEW q, NEW l, IsList(q), IsList(l), NEW Z, IsCount(Z), NEW s \in Slot
  PROVE  /\ IsCount(Others(bf, q, l, s, Z)) /\ Held(bf, q, l, Z) = Plus(Others(bf, q, l, s, Z), bf[s].head)
         /\ \A o \in Slot \ {s} : bf[o].head \in Nat => Others(bf, q, l, s, Z)[bf[o].head] > 0
<1> DEFINE R(c) == {o \in Slot \ {s} : bf[o].head = c}
<1>1. ASSUME NEW c PROVE IsFiniteSet(R(c)) /\ Cardinality(R(c)) \in Nat
  <2>1. R(c) \subseteq Slot /\ IsFiniteSet(Slot)
    BY PacketAssumption
  <2> HIDE DEF R
  <2> QED BY <2>1, FS_Subset, FS_CardinalityType
<1>2. ASSUME NEW c \in Nat PROVE Cardinality(SlotsWith(bf, c)) = Cardinality(R(c)) + One(bf[s].head, c)
  <2>1. s \notin R(c)
    OBVIOUS
  <2>2. CASE bf[s].head = c
    <3>1. SlotsWith(bf, c) = R(c) \cup {s}
      BY <2>2 DEF SlotsWith
    <3> HIDE DEF R
    <3> QED BY <1>1, <2>1, <2>2, <3>1, FS_AddElement DEF One
  <2>3. CASE bf[s].head # c
    <3>1. SlotsWith(bf, c) = R(c)
      BY <2>3 DEF SlotsWith
    <3> HIDE DEF R
    <3> QED BY <1>1, <2>3, <3>1 DEF One
  <2> QED BY <2>2, <2>3
<1>3. \A c \in Nat : Others(bf, q, l, s, Z)[c] = Cardinality(R(c)) + Cardinality(QueuedWith(q, c)) + Cardinality(LostAs(l, c)) + Z[c]
  BY DEF Others
<1>4. IsCount(Others(bf, q, l, s, Z))
  <2> HIDE DEF R
  <2>1. ASSUME NEW c \in Nat PROVE Others(bf, q, l, s, Z)[c] \in Nat
    <3>1. Cardinality(QueuedWith(q, c)) \in Nat /\ Cardinality(LostAs(l, c)) \in Nat
      BY HeldCounts
    <3>2. Cardinality(R(c)) \in Nat /\ Z[c] \in Nat
      BY <1>1 DEF IsCount
    <3> QED BY <1>3, <3>1, <3>2
  <2> QED BY <2>1 DEF IsCount, Others
<1>5. ASSUME NEW c \in Nat PROVE Held(bf, q, l, Z)[c] = Others(bf, q, l, s, Z)[c] + One(bf[s].head, c)
  <2>1. One(bf[s].head, c) \in Nat /\ Z[c] \in Nat
    BY DEF One, IsCount
  <2> HIDE DEF R
  <2> QED BY <1>1, <1>2, <1>3, <2>1, HeldCounts DEF Held
<1>6. Held(bf, q, l, Z) = Plus(Others(bf, q, l, s, Z), bf[s].head)
  BY <1>5 DEF Plus, Held
<1>7. ASSUME NEW o \in Slot \ {s}, bf[o].head \in Nat PROVE Others(bf, q, l, s, Z)[bf[o].head] > 0
  <2> DEFINE c == bf[o].head
  <2>1. o \in R(c)
    OBVIOUS
  <2> HIDE DEF R
  <2>2. Cardinality(R(c)) > 0
    BY <1>1, <2>1, FS_EmptySet
  <2>3. Cardinality(QueuedWith(q, c)) \in Nat /\ Cardinality(LostAs(l, c)) \in Nat /\ c \in Nat
    BY <1>7, HeldCounts
  <2>4. Cardinality(R(c)) \in Nat /\ Z[c] \in Nat
    BY <1>1, <1>7 DEF IsCount
  <2> HIDE DEF c
  <2>5. Others(bf, q, l, s, Z)[c] > 0
    BY <1>3, <2>2, <2>3, <2>4
  <2> QED BY <2>5 DEF c
<1> QED BY <1>4, <1>6, <1>7

IsSlotChanged(bf, q, l, Z, s, b, bf2) == Others(bf2, q, l, s, Z) = Others(bf, q, l, s, Z) /\ bf2[s] = b
LEMMA SlotChanges ==
  ASSUME NEW bf, DOMAIN bf = Slot, NEW q, NEW l, NEW Z, NEW s \in Slot, NEW b, NEW bf2, bf2 = [bf EXCEPT ![s] = b]
  PROVE  IsSlotChanged(bf, q, l, Z, s, b, bf2)
<1>1. \A o \in Slot \ {s} : bf2[o] = bf[o]
  OBVIOUS
<1>2. \A c : {o \in Slot \ {s} : bf2[o].head = c} = {o \in Slot \ {s} : bf[o].head = c}
  BY <1>1
<1>3. bf2[s] = b
  OBVIOUS
<1> QED BY <1>2, <1>3 DEF Others, IsSlotChanged

LEMMA SocketGrows ==
  ASSUME NEW bf, NEW q, NEW l, IsList(q), IsList(l), NEW Z, IsCount(Z), NEW x
  PROVE  Held(bf, q, l, Plus(Z, x)) = Plus(Held(bf, q, l, Z), x)
<1>1. ASSUME NEW c \in Nat PROVE Held(bf, q, l, Plus(Z, x))[c] = Held(bf, q, l, Z)[c] + One(x, c)
  <2>1. One(x, c) \in Nat /\ Z[c] \in Nat /\ Plus(Z, x)[c] = Z[c] + One(x, c)
    BY DEF One, IsCount, Plus
  <2> QED BY <2>1, HeldCounts DEF Held
<1> QED BY <1>1 DEF Plus, Held

(* Who is counted refers to the chunk. *)
LEMMA HeldRefers ==
  ASSUME NEW bf, NEW q, NEW l, IsList(q), IsList(l), NEW Z, IsCount(Z)
  PROVE  /\ \A s \in Slot : bf[s].head \in Nat => Held(bf, q, l, Z)[bf[s].head] > 0
         /\ \A i \in DOMAIN q : q[i].head \in Nat => Held(bf, q, l, Z)[q[i].head] > 0
         /\ \A c \in Nat : Z[c] > 0 => Held(bf, q, l, Z)[c] > 0
<1>1. ASSUME NEW c \in Nat, SlotsWith(bf, c) # {} \/ QueuedWith(q, c) # {} \/ Z[c] > 0
      PROVE Held(bf, q, l, Z)[c] > 0
  <2>1. Z[c] \in Nat
    BY DEF IsCount
  <2>2. SlotsWith(bf, c) # {} => Cardinality(SlotsWith(bf, c)) # 0
    BY HeldCounts, FS_EmptySet
  <2>3. QueuedWith(q, c) # {} => Cardinality(QueuedWith(q, c)) # 0
    BY HeldCounts, FS_EmptySet
  <2>4. /\ Cardinality(SlotsWith(bf, c)) \in Nat /\ Cardinality(LostAs(l, c)) \in Nat
        /\ Cardinality(QueuedWith(q, c)) \in Nat
    BY HeldCounts
  <2>5. Held(bf, q, l, Z)[c] = Cardinality(SlotsWith(bf, c)) + Cardinality(QueuedWith(q, c))
                               + Cardinality(LostAs(l, c)) + Z[c]
    BY DEF Held
  <2> QED BY <1>1, <2>1, <2>2, <2>3, <2>4, <2>5
<1>2. \A s \in Slot : SlotsWith(bf, bf[s].head) # {}
  BY DEF SlotsWith
<1>3. \A i \in DOMAIN q : QueuedWith(q, q[i].head) # {}
  BY DEF QueuedWith
<1> QED BY <1>1, <1>2, <1>3

LEMMA LessIsHeld ==
  ASSUME NEW bf, NEW q, NEW l, IsList(q), IsList(l), NEW Z, IsCount(Z)
  PROVE  \A c \in Nat : Held(bf, <<>>, l, Z)[c] > 0 => Held(bf, q, l, Z)[c] > 0
<1>1. IsList(<<>>) /\ DOMAIN <<>> = {}
  BY DEF IsList
<1>2. ASSUME NEW c \in Nat, Held(bf, <<>>, l, Z)[c] > 0 PROVE Held(bf, q, l, Z)[c] > 0
  <2>1. QueuedWith(<<>>, c) = {}
    BY <1>1 DEF QueuedWith
  <2>2. Cardinality(QueuedWith(<<>>, c)) = 0
    BY <2>1, FS_EmptySet
  <2>3. Z[c] \in Nat
    BY DEF IsCount
  <2> HIDE DEF QueuedWith
  <2> QED BY <1>2, <2>2, <2>3, HeldCounts DEF Held
<1> QED BY <1>2

LEMMA KeptWeaker ==
  ASSUME NEW h, NEW h2, NEW X, NEW Y, \A c \in Nat : X[c] > 0 => Y[c] > 0, Kept(h, h2, Y)
  PROVE  Kept(h, h2, X)
BY DEF Kept

-----------------------------------------------------------------------------
(* The send list. *)
QueueOk(h, q) == IsList(q) /\ \A i \in DOMAIN q : BufferOk(h, q[i]) /\ q[i].datasize > 0

LEMMA QueueHeads ==
  ASSUME NEW h, IsHeap(h), NEW q, QueueOk(h, q)
  PROVE  \A i \in DOMAIN q : q[i].head \in Nat \ {0} /\ q[i].head \in DOMAIN h
<1> SUFFICES ASSUME NEW i \in DOMAIN q PROVE q[i].head \in Nat \ {0} /\ q[i].head \in DOMAIN h
  OBVIOUS
<1> DEFINE b == q[i]
<1>1. BufferOk(h, b) /\ b.datasize > 0
  BY DEF QueueOk
<1> HIDE DEF b
<1>2. b.datasize # 0
  BY <1>1, BufferFacts
<1>3. b.head # 0 /\ b.head \in Nat /\ b.head \in DOMAIN h
  BY <1>1, <1>2, BufferFacts
<1> QED BY <1>3 DEF b

LEMMA QueueKept ==
  ASSUME NEW h, NEW h2, IsHeap(h), IsHeap(h2), NEW q, QueueOk(h, q), NEW bf, NEW l, IsList(l), NEW Z, IsCount(Z),
         Kept(h, h2, Held(bf, q, l, Z))
  PROVE  QueueOk(h2, q)
<1>1. IsList(q)
  BY DEF QueueOk
<1>2. ASSUME NEW i \in DOMAIN q PROVE BufferOk(h2, q[i]) /\ q[i].datasize > 0
  <2>1. BufferOk(h, q[i]) /\ q[i].datasize > 0
    BY DEF QueueOk
  <2>2. q[i].head \in Nat
    BY QueueHeads
  <2>3. Held(bf, q, l, Z)[q[i].head] > 0
    BY <1>1, <2>2, HeldRefers
  <2>4. BufferOk(h2, q[i])
    BY <2>1, <2>3, BufferKept
  <2> QED BY <2>1, <2>4
<1> QED BY <1>1, <1>2 DEF QueueOk

LEMMA QueueTail ==
  ASSUME NEW h, NEW q, QueueOk(h, q), q # <<>>
  PROVE  QueueOk(h, Tail(q)) /\ BufferOk(h, Head(q)) /\ Head(q).datasize > 0
<1> DEFINE t == Tail(q)
           n == Len(q)
<1>1. /\ n \in Nat /\ n >= 1 /\ DOMAIN q = 1..n /\ IsList(t) /\ Len(t) = n - 1
      /\ Head(q) = q[1] /\ \A i \in 1..(n - 1) : t[i] = q[i + 1]
  BY ListFacts DEF QueueOk
<1> HIDE DEF t, n
<1>2. DOMAIN t = 1..(n - 1)
  BY <1>1, ListFacts
<1>3. \A i \in DOMAIN t : i + 1 \in DOMAIN q /\ t[i] = q[i + 1]
  BY <1>1, <1>2
<1>4. 1 \in DOMAIN q
  BY <1>1
<1> QED BY <1>1, <1>3, <1>4 DEF QueueOk, t

LEMMA QueueCons ==
  ASSUME NEW h, NEW t, QueueOk(h, t), NEW b, BufferOk(h, b), b.datasize > 0, NEW q, IsConsed(b, t, q)
  PROVE  QueueOk(h, q)
<1> DEFINE n == Len(q)
<1>1. /\ n \in Nat /\ n >= 1 /\ DOMAIN q = 1..n /\ IsList(q) /\ IsList(t) /\ Len(t) = n - 1
      /\ q[1] = b /\ \A i \in 1..(n - 1) : t[i] = q[i + 1]
  <2>1. IsList(q) /\ q # <<>> /\ Head(q) = b /\ Tail(q) = t
    BY DEF IsConsed
  <2> QED BY <2>1, ListFacts DEF QueueOk
<1> HIDE DEF n
<1>2. DOMAIN t = 1..(n - 1)
  BY <1>1, ListFacts
<1>3. ASSUME NEW i \in DOMAIN q PROVE BufferOk(h, q[i]) /\ q[i].datasize > 0
  <2>1. CASE i = 1
    BY <1>1, <2>1
  <2>2. CASE i # 1
    <3>1. i - 1 \in DOMAIN t /\ t[i - 1] = q[i]
      BY <1>1, <1>2, <2>2
    <3> QED BY <3>1 DEF QueueOk
  <2> QED BY <2>1, <2>2
<1> QED BY <1>1, <1>3 DEF QueueOk

LEMMA QueueAppended ==
  ASSUME NEW h, NEW q, QueueOk(h, q), NEW b, BufferOk(h, b), b.datasize > 0, NEW q2, IsAppended(q, b, q2)
  PROVE  QueueOk(h, q2)
<1> DEFINE n == Len(q)
<1>1. /\ n \in Nat /\ DOMAIN q = 1..n /\ IsList(q2) /\ Len(q2) = n + 1 /\ DOMAIN q2 = 1..(n + 1)
      /\ q2[n + 1] = b /\ \A i \in 1..n : q2[i] = q[i]
  BY ListFacts DEF QueueOk, IsAppended
<1> HIDE DEF n
<1>2. ASSUME NEW i \in DOMAIN q2 PROVE BufferOk(h, q2[i]) /\ q2[i].datasize > 0
  <2>1. CASE i = n + 1
    BY <1>1, <2>1
  <2>2. CASE i # n + 1
    <3>1. i \in DOMAIN q /\ q2[i] = q[i]
      BY <1>1, <2>2
    <3> QED BY <3>1 DEF QueueOk
  <2> QED BY <2>1, <2>2
<1> QED BY <1>1, <1>2 DEF QueueOk

-----------------------------------------------------------------------------
(* What was written is taken off the list. *)
Sending(h, bf, l, Z, w, m) ==
  /\ Owned(w.h, Held(bf, w.q, l, Z)) /\ QueueOk(w.h, w.q) /\ Kept(h, w.h, Held(bf, <<>>, l, Z))
  /\ w.n \in Nat /\ (w.n = 0 \/ Len(w.q) >= m)

(* One round of update_send_list. *)
LEMMA SendFirstStep ==
  ASSUME NEW h, NEW bf, NEW l, IsList(l), NEW Z, IsCount(Z), NEW w, NEW m \in Nat \ {0},
         Sending(h, bf, l, Z, w, m)
  PROVE  Sending(h, bf, l, Z, SendFirst(w), m - 1)
<1> DEFINE g == w.h
           q == w.q
           n == w.n
           b == Head(q)
           t == Tail(q)
           r == Advanced(g, b, n)
           q2 == <<r.b>> \o t
           v == SendFirst(w)
           X == Held(bf, t, l, Z)
<1>1. /\ Owned(g, Held(bf, q, l, Z)) /\ QueueOk(g, q) /\ Kept(h, g, Held(bf, <<>>, l, Z)) /\ n \in Nat
      /\ (n = 0 \/ Len(q) >= m) /\ IsHeap(g) /\ IsList(q)
  BY DEF Sending, Owned, QueueOk
<1>2. CASE n = 0
  BY <1>2 DEF SendFirst, Sending
<1>3. CASE n # 0
  <2>1. /\ q # <<>> /\ IsList(t) /\ Len(t) = Len(q) - 1 /\ Len(t) >= m - 1
    <3>1. Len(q) \in Nat /\ Len(q) >= m
      BY <1>1, <1>3, ListFacts
    <3>2. q # <<>>
      BY <1>1, <3>1, ListFacts
    <3>3. IsList(t) /\ Len(t) = Len(q) - 1
      BY <1>1, <3>2, ListFacts
    <3> QED BY <3>1, <3>2, <3>3
  <2>2. QueueOk(g, t) /\ BufferOk(g, b) /\ b.datasize > 0
    BY <1>1, <2>1, QueueTail
  <2>3. b.datasize \in Nat /\ b.head \in Nat
    BY <1>1, <2>2, BufferFacts
  <2>4. IsCount(X) /\ Owned(g, Plus(X, b.head))
    <3>1. IsCount(X)
      BY <2>1, HeldIsCount
    <3>2. Held(bf, q, l, Z) = Plus(X, b.head)
      BY <1>1, <2>1, QueueSplits
    <3> QED BY <1>1, <3>1, <3>2
  <2>5. \A c \in Nat : Held(bf, <<>>, l, Z)[c] > 0 => X[c] > 0
    BY <2>1, LessIsHeld
  <2>6. r = Advanced(g, b, n) /\ q2 = <<r.b>> \o t /\ X = Held(bf, t, l, Z)
    OBVIOUS
  <2>7. v = IF n >= b.datasize
            THEN [h |-> chk_bytebuffer_finalize(g, b), q |-> t, n |-> n - b.datasize]
            ELSE [h |-> r.h, q |-> q2, n |-> 0]
    BY <1>3 DEF SendFirst
  <2> HIDE DEF r, q2, X, g, q, n, b, t, v
  <2>8. CASE n >= b.datasize
    <3> DEFINE g2 == chk_bytebuffer_finalize(g, b)
    <3>1. v.h = g2 /\ v.q = t /\ v.n = n - b.datasize
      BY <2>7, <2>8
    <3>2. Owned(g2, X) /\ Kept(g, g2, X)
      BY <2>3, <2>4, FinalizeOwned
    <3> HIDE DEF g2
    <3>3. IsHeap(g2)
      BY <3>2 DEF Owned
    <3>4. QueueOk(g2, t)
      BY <1>1, <2>2, <2>6, <3>2, <3>3, QueueKept
    <3>5. Kept(h, g2, Held(bf, <<>>, l, Z))
      <4>1. Kept(g, g2, Held(bf, <<>>, l, Z))
        BY <2>5, <3>2, KeptWeaker
      <4> QED BY <1>1, <4>1, KeptTrans
    <3>6. v.n \in Nat
      BY <1>1, <2>3, <2>8, <3>1
    <3> QED BY <2>1, <2>6, <3>1, <3>2, <3>4, <3>5, <3>6 DEF Sending, v
  <2>9. CASE ~(n >= b.datasize)
    <3>1. v.h = r.h /\ v.q = q2 /\ v.n = 0
      BY <2>7, <2>9
    <3>2. SendingOne(g, X, r)
      <4>1. n < b.datasize
        BY <1>1, <2>3, <2>9
      <4> QED BY <1>1, <2>2, <2>4, <2>6, <4>1, AdvancedOwned
    <3>3. /\ Owned(r.h, Plus(X, r.b.head)) /\ BufferOk(r.h, r.b) /\ Kept(g, r.h, X) /\ IsHeap(r.h)
          /\ r.n \in Nat /\ r.n < r.b.datasize
      BY <3>2 DEF SendingOne, Owned
    <3>4. r.b.datasize > 0
      <4>1. r.b.datasize \in Nat
        BY <3>3, BufferFacts
      <4> QED BY <3>3, <4>1
    <3>5. QueueOk(r.h, t)
      BY <1>1, <2>2, <2>6, <3>3, QueueKept
    <3>6. IsConsed(r.b, t, q2)
      BY <2>1, <2>6, Consed
    <3>7. QueueOk(r.h, q2)
      BY <3>3, <3>4, <3>5, <3>6, QueueCons
    <3>8. Owned(r.h, Held(bf, q2, l, Z))
      <4>1. IsList(q2) /\ q2 # <<>> /\ Head(q2) = r.b /\ Tail(q2) = t
        BY <3>6 DEF IsConsed
      <4>3. Held(bf, q2, l, Z) = Plus(Held(bf, Tail(q2), l, Z), Head(q2).head)
        BY ONLY IsList(l), IsCount(Z), <4>1, QueueSplits
      <4>2. Held(bf, q2, l, Z) = Plus(X, r.b.head)
        BY <2>6, <4>1, <4>3
      <4> QED BY <3>3, <4>2
    <3>9. Kept(h, r.h, Held(bf, <<>>, l, Z))
      <4>1. Kept(g, r.h, Held(bf, <<>>, l, Z))
        BY <2>5, <3>3, KeptWeaker
      <4> QED BY <1>1, <4>1, KeptTrans
    <3> QED BY <3>1, <3>7, <3>8, <3>9 DEF Sending, v
  <2> QED BY <2>8, <2>9
<1> QED BY <1>2, <1>3

(* All of them. *)
LEMMA SendListOwned ==
  ASSUME NEW h, NEW bf, NEW l, IsList(l), NEW Z, IsCount(Z), NEW q, NEW n \in Nat,
         Owned(h, Held(bf, q, l, Z)), QueueOk(h, q)
  PROVE  Sending(h, bf, l, Z, update_send_list(h, q, n), 0)
<1> DEFINE start == [h |-> h, q |-> q, n |-> n]
           m == Len(q)
<1>1. m \in Nat /\ IsList(q)
  BY ListFacts DEF QueueOk
<1>2. start.h = h /\ start.q = q /\ start.n = n
  OBVIOUS
<1>3. update_send_list(h, q, n) = SendFirstAll(m, start)
  BY DEF update_send_list, SendFirstAll
<1>4. Kept(h, h, Held(bf, <<>>, l, Z))
  <2>1. Kept(h, h, Held(bf, q, l, Z))
    BY KeptSame
  <2>2. \A c \in Nat : Held(bf, <<>>, l, Z)[c] > 0 => Held(bf, q, l, Z)[c] > 0
    BY <1>1, LessIsHeld
  <2> QED BY <2>1, <2>2, KeptWeaker
<1>5. Sending(h, bf, l, Z, start, m)
  BY <1>1, <1>2, <1>4 DEF Sending
<1> HIDE DEF start, m
<1>6. PICK f : /\ f[0] = start /\ SendFirstAll(m, start) = f[m]
               /\ \A k \in 0..(m - 1) : f[k + 1] = SendFirst(f[k])
  BY ONLY <1>1, SendFirstRounds
<1> DEFINE N == {k \in Nat : Sending(h, bf, l, Z, f[k], m - k)}
<1>7. 0 \in N
  <2>1. m - 0 = m
    BY <1>1
  <2> QED BY <1>5, <1>6, <2>1
<1>8. ASSUME NEW k \in 0..(m - 1), k \in N PROVE k + 1 \in N
  <2>1. f[k + 1] = SendFirst(f[k]) /\ Sending(h, bf, l, Z, f[k], m - k) /\ k + 1 \in Nat /\ m - k \in Nat \ {0}
        /\ m - (k + 1) = (m - k) - 1
    BY <1>1, <1>6, <1>8
  <2>2. Sending(h, bf, l, Z, SendFirst(f[k]), (m - k) - 1)
    BY <2>1, SendFirstStep
  <2> QED BY <2>1, <2>2
<1>9. m \in N
  <2> HIDE DEF N
  <2> QED BY ONLY <1>1, <1>7, <1>8, CountUp
<1>10. m - m = 0 /\ Sending(h, bf, l, Z, f[m], m - m)
  BY <1>1, <1>9
<1> QED BY <1>3, <1>6, <1>10

(* What is there to send are bytes. *)
Gathering(h, g) == g.h = h /\ QueueOk(h, g.q) /\ g.all \in Seq(Nat)
LEMMA SendIsBytes ==
  ASSUME NEW h, IsHeap(h), NEW q, QueueOk(h, q)
  PROVE  Repeated(Gathered, Len(q), [h |-> h, q |-> q, all |-> <<>>]).all \in Seq(Nat)
<1> DEFINE start == [h |-> h, q |-> q, all |-> <<>>]
           n == Len(q)
<1>1. n \in Nat
  BY ListFacts DEF QueueOk
<1>2. Gathering(h, start)
  BY DEF Gathering
<1>3. ASSUME NEW g, Gathering(h, g) PROVE Gathering(h, Gathered(g))
  <2>1. CASE g.q = <<>>
    BY <1>3, <2>1 DEF Gathered
  <2>2. CASE g.q # <<>>
    <3>1. g.h = h /\ QueueOk(h, g.q) /\ g.all \in Seq(Nat)
      BY <1>3 DEF Gathering
    <3>2. QueueOk(h, Tail(g.q)) /\ BufferOk(h, Head(g.q))
      BY <2>2, <3>1, QueueTail
    <3>3. Content(g.h, Head(g.q)) \in Seq(Nat)
      BY <3>1, <3>2, ContentIsBytes
    <3> DEFINE a == g.all \o Content(g.h, Head(g.q))
    <3>4. a \in Seq(Nat)
      BY <3>1, <3>3
    <3>5. Gathered(g) = [h |-> g.h, q |-> Tail(g.q), all |-> a]
      BY <2>2 DEF Gathered
    <3> HIDE DEF a
    <3> QED BY <3>1, <3>2, <3>4, <3>5 DEF Gathering
  <2> QED BY <2>1, <2>2
<1>4. Repeated(Gathered, n, start) = GatheredAll(n, start)
  BY DEF GatheredAll
<1> HIDE DEF start, n
<1>5. PICK f : /\ f[0] = start /\ GatheredAll(n, start) = f[n]
               /\ \A k \in 0..(n - 1) : f[k + 1] = Gathered(f[k])
  BY ONLY <1>1, GatheredRounds
<1> DEFINE N == {k \in Nat : Gathering(h, f[k])}
<1>6. 0 \in N
  BY <1>2, <1>5
<1>7. ASSUME NEW k \in 0..(n - 1), k \in N PROVE k + 1 \in N
  BY <1>3, <1>5, <1>7
<1>8. n \in N
  <2> HIDE DEF N
  <2> QED BY ONLY <1>1, <1>6, <1>7, CountUp
<1>9. GatheredAll(n, start).all \in Seq(Nat)
  BY <1>5, <1>8 DEF Gathering
<1> QED BY <1>4, <1>9 DEF start, n

-----------------------------------------------------------------------------
(* The send list goes with its socket. *)
Releasing(h, bf, l, Z, w, m) ==
  /\ Owned(w.h, Held(bf, w.q, l, Z)) /\ QueueOk(w.h, w.q) /\ Kept(h, w.h, Held(bf, <<>>, l, Z))
  /\ Len(w.q) = m

(* One buffer of the list. *)
LEMMA FinalizedStep ==
  ASSUME NEW h, NEW bf, NEW l, IsList(l), NEW Z, IsCount(Z), NEW w, NEW m \in Nat \ {0},
         Releasing(h, bf, l, Z, w, m)
  PROVE  Releasing(h, bf, l, Z, Finalized(w), m - 1)
<1> DEFINE g == w.h
           q == w.q
           b == Head(q)
           t == Tail(q)
           X == Held(bf, t, l, Z)
           E == Held(bf, <<>>, l, Z)
           g2 == chk_bytebuffer_finalize(g, b)
           v == Finalized(w)
<1>1. Owned(g, Held(bf, q, l, Z)) /\ QueueOk(g, q) /\ Kept(h, g, E) /\ Len(q) = m /\ IsHeap(g) /\ IsList(q)
  BY DEF Releasing, Owned, QueueOk
<1>2. q # <<>> /\ IsList(t) /\ Len(t) = m - 1
  <2>1. q # <<>>
    BY <1>1, ListFacts
  <2> QED BY <1>1, <2>1, ListFacts
<1>3. QueueOk(g, t) /\ b.head \in Nat
  <2>1. QueueOk(g, t) /\ BufferOk(g, b)
    BY <1>1, <1>2, QueueTail
  <2> QED BY <1>1, <2>1, BufferFacts
<1>4. IsCount(X) /\ Owned(g, Plus(X, b.head))
  <2>1. IsCount(X)
    BY <1>2, HeldIsCount
  <2>2. Held(bf, q, l, Z) = Plus(X, b.head)
    BY <1>1, <1>2, QueueSplits
  <2> QED BY <1>1, <2>1, <2>2
<1>5. \A c \in Nat : E[c] > 0 => X[c] > 0
  BY <1>2, LessIsHeld
<1>6. v.h = g2 /\ v.q = t
  BY <1>2 DEF Finalized
<1>7. X = Held(bf, t, l, Z) /\ E = Held(bf, <<>>, l, Z)
  OBVIOUS
<1>8. Owned(g2, X) /\ Kept(g, g2, X)
  BY ONLY <1>3, <1>4, FinalizeOwned
<1> HIDE DEF g2, X, E, g, q, b, t, v
<1>9. IsHeap(g2)
  BY <1>8 DEF Owned
<1>10. QueueOk(g2, t)
  BY <1>1, <1>3, <1>7, <1>8, <1>9, QueueKept
<1>11. Kept(h, g2, E)
  <2>1. Kept(g, g2, E)
    BY <1>5, <1>8, KeptWeaker
  <2> QED BY <1>1, <2>1, KeptTrans
<1> QED BY <1>2, <1>6, <1>7, <1>8, <1>10, <1>11 DEF Releasing, v

(* Every buffer of the list is let go. *)
LEMMA QueueReleased ==
  ASSUME NEW h, NEW bf, NEW l, IsList(l), NEW Z, IsCount(Z), NEW q,
         Owned(h, Held(bf, q, l, Z)), QueueOk(h, q)
  PROVE  /\ Owned(Released(h, q), Held(bf, <<>>, l, Z))
         /\ Kept(h, Released(h, q), Held(bf, <<>>, l, Z))
<1> DEFINE start == [h |-> h, q |-> q]
           m == Len(q)
           E == Held(bf, <<>>, l, Z)
<1>1. m \in Nat /\ IsList(q)
  BY ListFacts DEF QueueOk
<1>2. start.h = h /\ start.q = q
  OBVIOUS
<1>3. Released(h, q) = FinalizedAll(m, start).h
  BY DEF Released, FinalizedAll
<1>4. Kept(h, h, E)
  <2>1. Kept(h, h, Held(bf, q, l, Z))
    BY KeptSame
  <2>2. \A c \in Nat : E[c] > 0 => Held(bf, q, l, Z)[c] > 0
    BY <1>1, LessIsHeld
  <2> QED BY <2>1, <2>2, KeptWeaker
<1>5. Releasing(h, bf, l, Z, start, m)
  BY <1>1, <1>2, <1>4 DEF Releasing
<1> HIDE DEF start, m
<1>6. PICK f : /\ f[0] = start /\ FinalizedAll(m, start) = f[m]
               /\ \A k \in 0..(m - 1) : f[k + 1] = Finalized(f[k])
  BY ONLY <1>1, FinalizedRounds
<1> DEFINE N == {k \in Nat : Releasing(h, bf, l, Z, f[k], m - k)}
<1>7. 0 \in N
  <2>1. m - 0 = m
    BY <1>1
  <2> QED BY <1>5, <1>6, <2>1
<1>8. ASSUME NEW k \in 0..(m - 1), k \in N PROVE k + 1 \in N
  <2>1. f[k + 1] = Finalized(f[k]) /\ Releasing(h, bf, l, Z, f[k], m - k) /\ k + 1 \in Nat /\ m - k \in Nat \ {0}
        /\ m - (k + 1) = (m - k) - 1
    BY <1>1, <1>6, <1>8
  <2>2. Releasing(h, bf, l, Z, Finalized(f[k]), (m - k) - 1)
    BY <2>1, FinalizedStep
  <2> QED BY <2>1, <2>2
<1>9. m \in N
  <2> HIDE DEF N
  <2> QED BY ONLY <1>1, <1>7, <1>8, CountUp
<1>10. m - m = 0 /\ Releasing(h, bf, l, Z, f[m], m - m)
  BY <1>1, <1>9
<1>11. Owned(f[m].h, Held(bf, f[m].q, l, Z)) /\ Kept(h, f[m].h, E) /\ f[m].q = <<>>
  <2>1. Owned(f[m].h, Held(bf, f[m].q, l, Z)) /\ QueueOk(f[m].h, f[m].q) /\ Kept(h, f[m].h, E) /\ Len(f[m].q) = 0
    BY <1>10 DEF Releasing
  <2>2. f[m].q = <<>>
    BY <2>1, ListFacts DEF QueueOk
  <2> QED BY <2>1, <2>2
<1> QED BY <1>3, <1>6, <1>11

-----------------------------------------------------------------------------
(* There is room for what is read. *)
IsPrepared(h, X, p) ==
  /\ Owned(p.h, Plus(X, p.r.c)) /\ Kept(h, p.h, X) /\ p.r.c \in DOMAIN p.h /\ p.r.pos \in Nat
  /\ p.r.pos < p.h[p.r.c].cap /\ p.room \in Nat
  /\ \A n \in Nat : n <= p.room => Covered(p.h, p.r.c, p.r.pos, n)

(* Bytes that go on in the next chunk. *)
LEMMA IntoNext ==
  ASSUME NEW h, IsHeap(h), NEW c \in DOMAIN h, NEW pos \in Nat, pos < h[c].cap, h[c].next \in DOMAIN h,
         NEW n \in Nat, n <= (h[c].cap - pos) + h[h[c].next].cap
  PROVE  Covered(h, c, pos, n)
<1> DEFINE cap == h[c].cap
           d == h[c].next
           rest == cap - pos
           m == n - rest
<1>1. cap \in Nat /\ d \in DOMAIN h /\ d # 0 /\ h[d].cap \in Nat \ {0} /\ rest \in Nat \ {0} /\ pos < cap
  BY ChunkFields
<1>a. rest = cap - pos /\ n <= rest + h[d].cap /\ pos + rest = cap /\ m = n - rest
  BY <1>1
<1>b. cap = h[c].cap /\ d = h[c].next
  OBVIOUS
<1> HIDE DEF cap, d, rest, m
<1>2. CASE n <= rest
  <2>1. pos + n <= h[c].cap
    BY <1>1, <1>2, <1>a, <1>b
  <2> QED BY <2>1, InChunk
<1>3. CASE ~(n <= rest)
  <2>1. m \in Nat \ {0} /\ 0 + m <= h[d].cap /\ rest + m = n /\ pos + rest <= h[c].cap
    BY <1>1, <1>3, <1>a, <1>b
  <2>2. Covered(h, c, pos, rest) /\ \A i \in 1..rest : Places(h, c, pos, rest)[i] = <<c, pos + i>>
    BY <1>1, <2>1, InChunk
  <2>3. Covered(h, d, 0, m)
    BY <1>1, <2>1, InChunk
  <2>4. Place(h, c, cap) = <<d, 1>> /\ Place(h, d, 0) = <<d, 1>>
    BY <1>1, <1>b DEF Place
  <2>5. PlaceBehind(h, c, pos, rest) = <<d, 1>>
    <3>1. rest \in 1..rest
      BY <1>1
    <3>2. Places(h, c, pos, rest)[rest] = <<c, cap>>
      BY <1>a, <2>2, <3>1
    <3> QED BY <1>1, <2>4, <3>2 DEF PlaceBehind
  <2>6. Within(h, PlaceBehind(h, c, pos, rest))
    BY <1>1, <2>5 DEF Within
  <2>7. Covered(h, c, pos, rest + 1) /\ Places(h, c, pos, rest + 1)[rest + 1] = Place(h, d, 0)
    BY <1>1, <2>2, <2>4, <2>5, <2>6, CoveredMore
  <2>8. IsSpliced(h, c, pos, rest, d, 0, m)
    BY <1>1, <2>1, <2>3, <2>7, Spliced
  <2> QED BY <2>1, <2>8 DEF IsSpliced
<1> QED BY <1>2, <1>3

(* prepare_recv leaves room from the position on, in one chunk or in two. *)
LEMMA RecvPrepared ==
  ASSUME NEW X, IsCount(X), Owned(heap, Plus(X, recv.c)), recv.c \in Nat, recv.pos \in Nat,
         Inside(heap, recv.c, recv.pos), NEW p, p = prepare_recv
  PROVE  IsPrepared(heap, X, p) /\ (recv.c # 0 => p.r = recv /\ SameFrom(heap, p.h, recv.c))
<1> DEFINE h == IF recv.c = NULL THEN NewRecvChunk(heap) ELSE heap
           r == IF recv.c = NULL THEN [c |-> NextChunk(heap), pos |-> 0] ELSE recv
           c == r.c
           pos == r.pos
           rest == h[c].cap - pos
           more == WithNext(h, c)
<1>0. RecvCap \in Nat \ {0}
  BY PacketAssumption
<1>1. /\ Owned(h, Plus(X, c)) /\ Kept(heap, h, X) /\ c \in DOMAIN h /\ pos \in Nat /\ pos < h[c].cap
      /\ (recv.c # 0 => r = recv /\ h = heap)
  <2>1. CASE recv.c = 0
    <3>1. h = chk_bytechunk_new(heap, RecvCap, <<>>) /\ c = NextChunk(heap) /\ pos = 0
      BY <2>1 DEF NULL, NewRecvChunk
    <3>2. Owned(heap, X)
      BY <2>1, NullOwned
    <3> HIDE DEF h, c, pos
    <3>3. <<>> \in Seq(Nat) /\ RecvCap \in Nat
      BY <1>0
    <3>4. IsNew(heap, h, c) /\ Owned(h, Plus(X, c))
      BY <3>1, <3>2, <3>3, NewOwned
    <3>5. IsHeap(h)
      BY <3>4 DEF Owned
    <3>6. Kept(heap, h, X)
      BY <3>2, <3>4, <3>5, NewKept
    <3> QED BY <2>1, <3>1, <3>4, <3>6 DEF IsNew
  <2>2. CASE recv.c # 0
    <3>1. h = heap /\ r = recv
      BY <2>2 DEF NULL
    <3> HIDE DEF h, r
    <3>2. Kept(heap, heap, X)
      BY KeptOwn
    <3> QED BY <2>2, <3>1, <3>2 DEF Inside
  <2> QED BY <2>1, <2>2
<1>2. p = IF rest >= RecvCap THEN [h |-> h, r |-> r, room |-> rest]
          ELSE [h |-> more, r |-> r, room |-> rest + more[more[c].next].cap]
  BY DEF prepare_recv
<1>3. more = WithNext(h, c) /\ rest = h[c].cap - pos /\ c = r.c /\ pos = r.pos
  OBVIOUS
<1> HIDE DEF h, r, c, pos, rest, more
<1>4. IsHeap(h) /\ c \in Nat \ {0} /\ h[c].cap \in Nat \ {0}
  <2>1. IsHeap(h)
    BY <1>1 DEF Owned
  <2> QED BY <1>1, <2>1, ChunkFields
<1>5. rest \in Nat
  BY <1>1, <1>3, <1>4
<1>a. recv.c # 0 => c = recv.c /\ SameFrom(heap, h, recv.c)
  BY <1>1, <1>3 DEF SameFrom
<1>6. CASE rest >= RecvCap
  <2>1. p.h = h /\ p.r = r /\ p.room = rest
    BY <1>2, <1>6
  <2>2. ASSUME NEW n \in Nat, n <= rest PROVE Covered(h, c, pos, n)
    <3>1. pos + n <= h[c].cap
      BY <1>1, <1>3, <1>4, <2>2
    <3> QED BY <1>1, <1>4, <3>1, InChunk
  <2> QED BY <1>1, <1>3, <1>5, <1>a, <2>1, <2>2 DEF IsPrepared
<1>7. CASE ~(rest >= RecvCap)
  <2>1. p.h = more /\ p.r = r /\ p.room = rest + more[more[c].next].cap
    BY <1>2, <1>7
  <2>2. IsWithNext(h, Plus(X, c), c, more)
    BY <1>1, <1>3, WithNextOwned
  <2>3. /\ Owned(more, Plus(X, c)) /\ Kept(h, more, Plus(X, c)) /\ c \in DOMAIN more /\ more[c].cap = h[c].cap
        /\ more[c].next \in DOMAIN more \ {0} /\ IsHeap(more)
    BY <2>2 DEF IsWithNext, Owned
  <2>b. recv.c # 0 => SameFrom(heap, more, recv.c)
    <3>1. SameFrom(h, more, c)
      BY <1>1, <2>2 DEF IsWithNext
    <3> QED BY <1>1, <1>a, <3>1
  <2>4. Kept(heap, more, X)
    <3>1. Kept(h, more, X)
      BY <1>4, <2>3, KeptLess
    <3> QED BY <1>1, <3>1, KeptTrans
  <2>5. more[more[c].next].cap \in Nat
    BY <2>3, ChunkFields
  <2>6. ASSUME NEW n \in Nat, n <= rest + more[more[c].next].cap PROVE Covered(more, c, pos, n)
    <3>1. n <= (more[c].cap - pos) + more[more[c].next].cap
      BY <1>3, <2>3, <2>6
    <3> QED BY <1>1, <2>3, <3>1, IntoNext
  <2>7. p.room \in Nat
    BY <1>5, <2>1, <2>5
  <2> QED BY <1>1, <1>3, <2>1, <2>3, <2>4, <2>6, <2>7, <2>b DEF IsPrepared
<1> QED BY <1>6, <1>7

-----------------------------------------------------------------------------
(* All that refers to chunks, and how it ought to stand.                     *)
DecoderRef(pl, d) == IF pl THEN 0 ELSE d.c
None == [c \in Nat |-> 0]
OfSocket(pk, r, pl, d) == Plus(Plus(Plus(None, pk.head), r.c), DecoderRef(pl, d))
All(bf, q, l, pk, r, pl, d) == Held(bf, q, l, OfSocket(pk, r, pl, d))

SlotsOk(h, bf, u) ==
  /\ DOMAIN bf = Slot /\ u \subseteq Slot
  /\ \A s \in Slot : BufferOk(h, bf[s])
  /\ \A s \in Slot \ u : bf[s] = Empty
PacketOk(h, ph, pk) == BufferOk(h, pk) /\ (ph # "callback" => pk = Empty)
SocketOk(h, pl, ph, r, d, n) ==
  /\ pl \in BOOLEAN /\ n \in Nat /\ r.c \in Nat /\ r.pos \in Nat
  /\ d.c \in Nat /\ d.spos \in Nat /\ d.size \in Nat
  /\ Inside(h, r.c, r.pos) /\ Covered(h, r.c, r.pos, n)
  /\ n = 0 <=> ph = "loop"
  /\ r.c = 0 => d.c = 0 /\ ph = "loop"
  /\ pl => d.c = 0 \/ (ph = "unpack" /\ d.c = r.c /\ d.spos = r.pos /\ d.size = n)
  /\ ~pl => /\ BufferOk(h, AsBuffer(d))
            /\ d.c # 0 => Meet(h, d.c, d.spos, d.size, r.c, r.pos, n)

LEMMA NoneCounts == IsCount(None) /\ \A c : c \in Nat => None[c] = 0
BY DEF IsCount, None

LEMMA OfSocketCounts ==
  ASSUME NEW pk, NEW r, NEW pl, NEW d, pk.head \in Nat, r.c \in Nat, DecoderRef(pl, d) \in Nat
  PROVE  LET Z == OfSocket(pk, r, pl, d)
         IN IsCount(Z) /\ Z[pk.head] > 0 /\ Z[r.c] > 0 /\ Z[DecoderRef(pl, d)] > 0
<1> DEFINE A == Plus(None, pk.head)
           B == Plus(A, r.c)
           x == DecoderRef(pl, d)
           C == Plus(B, x)
<1>1. IsCount(A) /\ \A c \in Nat : A[c] = None[c] + One(pk.head, c)
  BY NoneCounts, PlusCounts
<1> HIDE DEF A
<1>2. IsCount(B) /\ \A c \in Nat : B[c] = A[c] + One(r.c, c)
  BY <1>1, PlusCounts
<1> HIDE DEF B
<1> HIDE DEF x
<1>3. x \in Nat
  BY DEF x
<1>4. IsCount(C) /\ \A c \in Nat : C[c] = B[c] + One(x, c)
  BY <1>2, <1>3, PlusCounts
<1>5. OfSocket(pk, r, pl, d) = C
  BY DEF OfSocket, A, B, x
<1> HIDE DEF C
<1>6. \A c \in Nat : A[c] \in Nat /\ B[c] \in Nat /\ C[c] \in Nat /\ None[c] = 0
  BY <1>1, <1>2, <1>4, NoneCounts DEF IsCount
<1>7. A[pk.head] > 0 /\ B[r.c] > 0 /\ C[x] > 0
  BY <1>1, <1>2, <1>3, <1>4, <1>6 DEF One
<1>8. \A c \in Nat : (A[c] > 0 => B[c] > 0) /\ (B[c] > 0 => C[c] > 0)
  BY <1>2, <1>4, <1>6 DEF One
<1>9. C[pk.head] > 0 /\ C[r.c] > 0
  BY <1>7, <1>8
<1> QED BY <1>4, <1>5, <1>7, <1>9 DEF x

LEMMA SlotsKept ==
  ASSUME NEW h, NEW h2, IsHeap(h), IsHeap(h2), NEW bf, NEW u, SlotsOk(h, bf, u), NEW q, NEW l, IsList(q), IsList(l),
         NEW Z, IsCount(Z), Kept(h, h2, Held(bf, q, l, Z))
  PROVE  SlotsOk(h2, bf, u)
<1>1. ASSUME NEW s \in Slot PROVE BufferOk(h2, bf[s])
  <2> DEFINE b == bf[s]
  <2>1. BufferOk(h, b)
    BY DEF SlotsOk
  <2>2. b.head \in Nat
    <3> HIDE DEF b
    <3> QED BY <2>1, BufferFacts
  <2>3. Held(bf, q, l, Z)[b.head] > 0
    BY <2>2, HeldRefers
  <2> HIDE DEF b
  <2>4. BufferOk(h2, b)
    BY <2>1, <2>3, BufferKept
  <2> QED BY <2>4 DEF b
<1> QED BY <1>1 DEF SlotsOk

LEMMA PacketKept ==
  ASSUME NEW h, NEW h2, IsHeap(h), IsHeap(h2), NEW ph, NEW pk, PacketOk(h, ph, pk), NEW bf, NEW q, NEW l,
         IsList(q), IsList(l), NEW Z, IsCount(Z), Z[pk.head] > 0, Kept(h, h2, Held(bf, q, l, Z))
  PROVE  PacketOk(h2, ph, pk)
<1>1. BufferOk(h, pk) /\ pk.head \in Nat
  BY BufferFacts DEF PacketOk
<1>2. Held(bf, q, l, Z)[pk.head] > 0
  BY <1>1, HeldRefers
<1>3. BufferOk(h2, pk)
  BY <1>1, <1>2, BufferKept
<1> QED BY <1>3 DEF PacketOk

(* A position that one holds a reference for. *)
LEMMA PositionKept ==
  ASSUME NEW h, NEW h2, IsHeap(h), IsHeap(h2), NEW c \in Nat, NEW pos \in Nat, NEW n \in Nat,
         Inside(h, c, pos), Covered(h, c, pos, n), c # 0 => SameFrom(h, h2, c)
  PROVE  Inside(h2, c, pos) /\ Covered(h2, c, pos, n)
<1>1. CASE c = 0
  <2>1. n = 0
    BY <1>1, CoveredRun
  <2> QED BY <1>1, <2>1, NothingCovered DEF Inside
<1>2. CASE c # 0
  BY <1>2 DEF Inside, SameFrom
<1> QED BY <1>1, <1>2

LEMMA SocketKept ==
  ASSUME NEW h, NEW h2, IsHeap(h), IsHeap(h2), NEW pl, NEW ph, NEW r, NEW d, NEW n, SocketOk(h, pl, ph, r, d, n),
         r.c # 0 => SameFrom(h, h2, r.c), (~pl /\ d.c # 0) => SameFrom(h, h2, d.c)
  PROVE  SocketOk(h2, pl, ph, r, d, n)
<1>1. /\ pl \in BOOLEAN /\ n \in Nat /\ r.c \in Nat /\ r.pos \in Nat
      /\ d.c \in Nat /\ d.spos \in Nat /\ d.size \in Nat
      /\ Inside(h, r.c, r.pos) /\ Covered(h, r.c, r.pos, n)
      /\ (n = 0 <=> ph = "loop") /\ (r.c = 0 => d.c = 0 /\ ph = "loop")
      /\ (pl => d.c = 0 \/ (ph = "unpack" /\ d.c = r.c /\ d.spos = r.pos /\ d.size = n))
      /\ (~pl => BufferOk(h, AsBuffer(d)) /\ (d.c # 0 => Meet(h, d.c, d.spos, d.size, r.c, r.pos, n)))
  BY DEF SocketOk
<1>2. Inside(h2, r.c, r.pos) /\ Covered(h2, r.c, r.pos, n)
  BY <1>1, PositionKept
<1>3. ASSUME ~pl PROVE BufferOk(h2, AsBuffer(d))
  <2>1. BufferOk(h, AsBuffer(d))
    BY <1>1, <1>3
  <2>2. Inside(h, d.c, d.spos) /\ Covered(h, d.c, d.spos, d.size)
    BY <2>1, AsBufferFields DEF BufferOk
  <2>3. Inside(h2, d.c, d.spos) /\ Covered(h2, d.c, d.spos, d.size)
    BY <1>1, <1>3, <2>2, PositionKept
  <2> QED BY <1>1, <2>3, AsBufferFields DEF BufferOk, BufNats
<1>4. ASSUME ~pl, d.c # 0 PROVE Meet(h2, d.c, d.spos, d.size, r.c, r.pos, n)
  <2>1. r.c # 0
    BY <1>1, <1>4
  <2> QED BY <1>1, <1>4, <2>1, MeetKept
<1> QED BY <1>1, <1>2, <1>3, <1>4 DEF SocketOk

-----------------------------------------------------------------------------
Parts(h, bf, u, q, l, pk, ph, r, pl, d, n) ==
  /\ SlotsOk(h, bf, u) /\ QueueOk(h, q) /\ IsList(l) /\ PacketOk(h, ph, pk) /\ SocketOk(h, pl, ph, r, d, n)

LEMMA PartsCount ==
  ASSUME NEW h, IsHeap(h), NEW bf, NEW u, NEW q, NEW l, NEW pk, NEW ph, NEW r, NEW pl, NEW d, NEW n,
         Parts(h, bf, u, q, l, pk, ph, r, pl, d, n)
  PROVE  LET Z == OfSocket(pk, r, pl, d)
         IN /\ IsCount(Z) /\ Z[pk.head] > 0 /\ Z[r.c] > 0 /\ (~pl => Z[d.c] > 0)
            /\ IsList(q) /\ IsList(l) /\ pk.head \in Nat /\ r.c \in Nat /\ d.c \in Nat
            /\ DecoderRef(pl, d) \in Nat
<1>1. pk.head \in Nat /\ r.c \in Nat /\ d.c \in Nat /\ IsList(q) /\ IsList(l)
  <2>1. BufferOk(h, pk)
    BY DEF Parts, PacketOk
  <2>2. pk.head \in Nat
    BY <2>1, BufferFacts
  <2> QED BY <2>2 DEF Parts, QueueOk, SocketOk
<1>2. DecoderRef(pl, d) \in Nat /\ (~pl => DecoderRef(pl, d) = d.c)
  BY <1>1 DEF DecoderRef
<1> QED BY <1>1, <1>2, OfSocketCounts

LEMMA PartsKept ==
  ASSUME NEW h, NEW h2, IsHeap(h), IsHeap(h2), NEW bf, NEW u, NEW q, NEW l, NEW pk, NEW ph, NEW r, NEW pl, NEW d,
         NEW n, Parts(h, bf, u, q, l, pk, ph, r, pl, d, n), Kept(h, h2, All(bf, q, l, pk, r, pl, d))
  PROVE  Parts(h2, bf, u, q, l, pk, ph, r, pl, d, n)
<1> DEFINE Z == OfSocket(pk, r, pl, d)
<1>1. /\ IsCount(Z) /\ Z[pk.head] > 0 /\ Z[r.c] > 0 /\ (~pl => Z[d.c] > 0)
      /\ IsList(q) /\ IsList(l) /\ pk.head \in Nat /\ r.c \in Nat /\ d.c \in Nat
  BY PartsCount
<1>2. Kept(h, h2, Held(bf, q, l, Z))
  BY DEF All
<1>3. SlotsOk(h, bf, u) /\ QueueOk(h, q) /\ PacketOk(h, ph, pk) /\ SocketOk(h, pl, ph, r, d, n)
  BY DEF Parts
<1> HIDE DEF Z
<1>4. SlotsOk(h2, bf, u)
  BY <1>1, <1>2, <1>3, SlotsKept
<1>5. QueueOk(h2, q)
  BY <1>1, <1>2, <1>3, QueueKept
<1>6. PacketOk(h2, ph, pk)
  BY <1>1, <1>2, <1>3, PacketKept
<1>7. Held(bf, q, l, Z)[r.c] > 0 /\ (~pl => Held(bf, q, l, Z)[d.c] > 0)
  BY <1>1, HeldRefers
<1>8. (r.c # 0 => SameFrom(h, h2, r.c)) /\ (~pl /\ d.c # 0 => SameFrom(h, h2, d.c))
  BY <1>1, <1>2, <1>7 DEF Kept
<1>9. SocketOk(h2, pl, ph, r, d, n)
  BY <1>3, <1>8, SocketKept
<1> QED BY <1>1, <1>4, <1>5, <1>6, <1>9 DEF Parts

LEMMA NullKept ==
  ASSUME NEW h, NEW h2, NEW X, IsCount(X), Kept(h, h2, X)
  PROVE  Kept(h, h2, Plus(X, 0))
<1>1. \A c \in Nat \ {0} : Plus(X, 0)[c] = X[c]
  BY PlusCounts DEF One, IsCount
<1> QED BY <1>1 DEF Kept

(* Before and after something is done to a buffer of the scripts. *)
IsSlotOf(h, bf, q, l, Z, s) ==
  LET X == Others(bf, q, l, s, Z)
  IN IsCount(X) /\ Owned(h, Plus(X, bf[s].head)) /\ BufferOk(h, bf[s]) /\ bf[s].head \in Nat
LEMMA SlotBefore ==
  ASSUME NEW h, NEW bf, NEW u, NEW q, NEW l, NEW pk, NEW ph, NEW r, NEW pl, NEW d, NEW n, NEW s \in Slot,
         Owned(h, All(bf, q, l, pk, r, pl, d)), Parts(h, bf, u, q, l, pk, ph, r, pl, d, n)
  PROVE  IsSlotOf(h, bf, q, l, OfSocket(pk, r, pl, d), s)
<1> DEFINE Z == OfSocket(pk, r, pl, d)
           X == Others(bf, q, l, s, Z)
           b == bf[s]
<1>1. IsHeap(h)
  BY DEF Owned
<1>2. IsCount(Z) /\ IsList(q) /\ IsList(l)
  BY <1>1, PartsCount
<1>3. BufferOk(h, b)
  BY DEF Parts, SlotsOk
<1>4. Owned(h, Held(bf, q, l, Z))
  BY DEF All
<1> HIDE DEF Z
<1>5. IsCount(X) /\ Held(bf, q, l, Z) = Plus(X, bf[s].head)
  BY <1>2, SlotSplits
<1>6. b.head \in Nat
  <2> HIDE DEF b
  <2> QED BY <1>1, <1>3, BufferFacts
<1> QED BY <1>3, <1>4, <1>5, <1>6 DEF IsSlotOf, Z

IsSlotStep(h2, bf2, u2, q, l2, pk, ph, r, pl, d, n) ==
  Owned(h2, All(bf2, q, l2, pk, r, pl, d)) /\ Parts(h2, bf2, u2, q, l2, pk, ph, r, pl, d, n)
LEMMA SlotStep ==
  ASSUME NEW h, NEW bf, NEW u, NEW q, NEW l, NEW pk, NEW ph, NEW r, NEW pl, NEW d, NEW n, NEW s \in Slot,
         Owned(h, All(bf, q, l, pk, r, pl, d)), Parts(h, bf, u, q, l, pk, ph, r, pl, d, n),
         NEW res, Changed(h, Others(bf, q, l, s, OfSocket(pk, r, pl, d)), res),
         NEW bf2, bf2 = [bf EXCEPT ![s] = res.b], NEW u2, u2 \subseteq Slot,
         s \in u2 \/ res.b = Empty, u \ {s} \subseteq u2,
         NEW l2, l2 = IF res.lost = 0 THEN l ELSE Append(l, res.lost)
  PROVE  IsSlotStep(res.h, bf2, u2, q, l2, pk, ph, r, pl, d, n)
<1> DEFINE Z == OfSocket(pk, r, pl, d)
           X == Others(bf, q, l, s, Z)
           h2 == res.h
           b == res.b
           bf0 == [bf EXCEPT ![s] = Empty]
<1>1. IsHeap(h) /\ DOMAIN bf = Slot
  BY DEF Owned, Parts, SlotsOk
<1>2. IsCount(Z) /\ IsList(q) /\ IsList(l)
  BY <1>1, PartsCount
<1>3. /\ Owned(h2, Plus(Plus(X, res.lost), b.head)) /\ BufferOk(h2, b) /\ Kept(h, h2, X)
      /\ res.lost \in Nat /\ b.head \in Nat /\ IsHeap(h2)
  BY DEF Changed, Owned
<1>4. IsCount(X)
  <2> HIDE DEF Z
  <2> QED BY <1>2, SlotSplits
<1>5. Others(bf0, q, l, s, Z) = X /\ bf0[s] = Empty
  <2>1. bf0 = [bf EXCEPT ![s] = Empty]
    OBVIOUS
  <2> HIDE DEF bf0, Z
  <2>2. IsSlotChanged(bf, q, l, Z, s, Empty, bf0)
    BY ONLY <1>1, <2>1, s \in Slot, SlotChanges
  <2> QED BY <2>2 DEF IsSlotChanged
<1>6. Others(bf2, q, l, s, Z) = X /\ bf2[s] = b
  <2>1. bf2 = [bf EXCEPT ![s] = b]
    OBVIOUS
  <2> HIDE DEF b, Z
  <2>2. IsSlotChanged(bf, q, l, Z, s, b, bf2)
    BY ONLY <1>1, <2>1, s \in Slot, SlotChanges
  <2> QED BY <2>2 DEF IsSlotChanged
<1>7. Parts(h, bf0, u, q, l, pk, ph, r, pl, d, n)
  <2>1. BufferOk(h, Empty)
    BY <1>1, EmptyOk
  <2>2. SlotsOk(h, bf, u)
    BY DEF Parts
  <2>3. SlotsOk(h, bf0, u)
    BY <2>1, <2>2 DEF SlotsOk
  <2> QED BY <2>3 DEF Parts
<1>8. Kept(h, h2, All(bf0, q, l, pk, r, pl, d))
  <2>1. Held(bf0, q, l, Z) = Plus(X, 0)
    <3>1. Held(bf0, q, l, Z) = Plus(Others(bf0, q, l, s, Z), bf0[s].head)
      <4> HIDE DEF bf0, Z
      <4> QED BY <1>2, SlotSplits
    <3>2. bf0[s].head = 0
      BY <1>5 DEF Empty, Buffer, NULL
    <3> QED BY <1>5, <3>1, <3>2
  <2>2. Kept(h, h2, Plus(X, 0))
    BY <1>3, <1>4, NullKept
  <2> QED BY <2>1, <2>2 DEF All
<1>9. Parts(h2, bf0, u, q, l, pk, ph, r, pl, d, n)
  <2> HIDE DEF bf0, h2
  <2> QED BY <1>1, <1>3, <1>7, <1>8, PartsKept
<1>10. IsList(l2)
  <2>1. IsList(Append(l, res.lost))
    BY <1>2, Appended DEF IsAppended
  <2> QED BY <1>2, <2>1
<1>11. Parts(h2, bf2, u2, q, l2, pk, ph, r, pl, d, n)
  <2>1. SlotsOk(h2, bf0, u)
    BY <1>9 DEF Parts
  <2>2. SlotsOk(h2, bf2, u2)
    <3>1. DOMAIN bf2 = Slot /\ \A o \in Slot \ {s} : bf2[o] = bf0[o]
      BY <1>1
    <3>2. \A o \in Slot \ {s} : BufferOk(h2, bf2[o])
      BY <2>1, <3>1 DEF SlotsOk
    <3>3. \A o \in Slot : BufferOk(h2, bf2[o])
      BY <1>3, <1>6, <3>2
    <3>4. ASSUME NEW o \in Slot \ u2 PROVE bf2[o] = Empty
      <4>1. CASE o = s
        BY <1>6, <3>4, <4>1
      <4>2. CASE o # s
        BY <2>1, <3>1, <3>4, <4>2 DEF SlotsOk
      <4> QED BY <4>1, <4>2
    <3> QED BY <3>1, <3>3, <3>4 DEF SlotsOk
  <2> QED BY <1>9, <1>10, <2>2 DEF Parts
<1>12. Held(bf2, q, l, Z) = Plus(X, b.head)
  <2>1. Held(bf2, q, l, Z) = Plus(Others(bf2, q, l, s, Z), bf2[s].head)
    <3> HIDE DEF Z
    <3> QED BY ONLY <1>2, s \in Slot, SlotSplits
  <2> QED BY <1>6, <2>1
<1>13. Plus(Plus(X, res.lost), b.head) = Plus(Plus(X, b.head), res.lost)
  <2> HIDE DEF X
  <2> QED BY <1>3, <1>4, PlusSwapped
<1>14. Owned(h2, Held(bf2, q, l2, Z))
  <2>1. CASE res.lost = 0
    <3>1. Owned(h2, Plus(Plus(X, b.head), 0))
      BY <1>3, <1>13, <2>1
    <3>2. IsCount(Plus(X, b.head))
      <4> HIDE DEF X
      <4> QED BY <1>3, <1>4, PlusCounts
    <3>3. Owned(h2, Plus(X, b.head))
      BY <3>1, <3>2, NullOwned
    <3> QED BY <1>12, <2>1, <3>3
  <2>2. CASE res.lost # 0
    <3>1. IsAppended(l, res.lost, l2)
      BY <1>2, <2>2, Appended
    <3>2. Held(bf2, q, l2, Z) = Plus(Held(bf2, q, l, Z), res.lost)
      <4> HIDE DEF Z
      <4> QED BY <1>2, <3>1, LostGrows
    <3> QED BY <1>3, <1>12, <1>13, <3>2
  <2> QED BY <2>1, <2>2
<1> QED BY <1>11, <1>14 DEF IsSlotStep, All

-----------------------------------------------------------------------------
(* The invariant. *)
Good ==
  /\ wire \in Seq(Nat) /\ nRead \in Nat /\ ops \in Nat
  /\ Owned(heap, All(buffer, queue, lost, packet, recv, plain, decoder))
  /\ Parts(heap, buffer, used, queue, lost, packet, phase, recv, plain, decoder, bytes)
(* The faults at which the model has to stop. *)
Ends == {"append", "freed", "cut", "drain"}

(* What a function that makes a buffer leaves. *)
LEMMA MadeIsChanged ==
  ASSUME NEW h, NEW X, IsCount(X), NEW r, Owned(r.h, Plus(X, r.b.head)), BufferOk(r.h, r.b), Kept(h, r.h, X),
         r.lost = 0
  PROVE  Changed(h, X, r)
<1>1. r.b.head \in Nat
  <2> DEFINE g == r.h
             b == r.b
  <2>1. IsHeap(g) /\ BufferOk(g, b)
    BY DEF Owned
  <2> HIDE DEF g, b
  <2>2. b.head \in Nat
    BY <2>1, BufferFacts
  <2> QED BY <2>2 DEF b
<1>2. Plus(Plus(X, 0), r.b.head) = Plus(Plus(X, r.b.head), 0)
  BY <1>1, PlusSwapped
<1>3. IsCount(Plus(X, r.b.head))
  BY <1>1, PlusCounts
<1>4. Owned(r.h, Plus(Plus(X, r.b.head), 0))
  BY <1>3, NullOwned
<1> QED BY <1>1, <1>2, <1>4 DEF Changed

LEMMA NewBytesAreBytes == ASSUME ops \in Nat, NEW n \in Nat PROVE NewBytes(n) \in Seq(Nat) /\ Len(NewBytes(n)) = n
<1>1. \A i \in 1..n : (ops + 2 - i) % Base \in Nat
  BY BaseAssumption
<1> DEFINE v(i) == (ops + 2 - i) % Base
<1>2. NewBytes(n) = [i \in 1..n |-> v(i)]
  BY DEF NewBytes
<1>3. \A i \in 1..n : v(i) \in Nat
  BY <1>1
<1> HIDE DEF v
<1> DEFINE f == [i \in 1..n |-> v(i)]
<1>4. f \in Seq(Nat) /\ Len(f) = n
  BY <1>3
<1> QED BY <1>2, <1>4

LEMMA FreshIsChanged ==
  ASSUME NEW X, IsCount(X), Owned(heap, X), NEW r, r = chk_bytebuffer_new(heap, MinCap)
  PROVE  Changed(heap, X, r)
<1> DEFINE c == NextChunk(heap)
           h2 == chk_bytechunk_new(heap, MinCap, <<>>)
           b == Buffer(c, c, 0, 0, 0, {})
<1>1. r.h = h2 /\ r.b = b /\ r.lost = 0
  BY DEF chk_bytebuffer_new, chk_bytebuffer_init, Done, Result, NULL
<1>2. MinCap \in Nat /\ 0 \in Nat /\ 0 <= MinCap /\ <<>> \in Seq(Nat)
  BY HeapAssumption
<1>3. c = NextChunk(heap) /\ h2 = chk_bytechunk_new(heap, MinCap, <<>>) /\ b = Buffer(c, c, 0, 0, 0, {})
  OBVIOUS
<1> HIDE DEF c, h2, b
<1>4. IsFresh(heap, X, c, h2, b, 0)
  BY ONLY Owned(heap, X), <1>2, <1>3, FreshMakes
<1> QED BY <1>1, <1>4, MadeIsChanged DEF IsFresh

LEMMA StringIsChanged ==
  ASSUME NEW X, IsCount(X), Owned(heap, X), NEW str \in Seq(Nat), NEW r, r = FromString(str)
  PROVE  Changed(heap, X, r)
<1> DEFINE c == NextChunk(heap)
           n == Len(str)
           h1 == chk_bytechunk_new(heap, n, str)
           i == chk_bytebuffer_init(h1, c, 0, n, {})
           h2 == chk_bytechunk_release(i.h, c)
<1>1. r.h = h2 /\ r.b = i.b /\ r.lost = 0
  BY DEF FromString, Done, Result, NULL
<1>2. i = chk_bytebuffer_init(h1, c, 0, n, {}) /\ n \in Nat
  OBVIOUS
<1>3. IsNew(heap, h1, c) /\ Owned(h1, Plus(X, c)) /\ h1[c].cap >= n
  BY <1>2, NewOwned
<1>4. c \in Nat \ {0} /\ c \in DOMAIN h1 /\ IsHeap(h1) /\ h1[c].cap \in Nat \ {0} /\ IsHeap(heap)
  BY <1>3 DEF IsNew, Owned
<1> HIDE DEF c, n, h1, i, h2
<1>5. Kept(heap, h1, X)
  BY <1>3, <1>4, NewKept
<1>6. Inside(h1, c, 0) /\ Covered(h1, c, 0, n)
  <2>1. 0 + n <= h1[c].cap
    BY <1>2, <1>3, <1>4
  <2>2. Covered(h1, c, 0, n)
    BY <1>2, <1>4, <2>1, InChunk
  <2> QED BY <1>4, <2>2 DEF Inside
<1>7. Owned(i.h, Plus(Plus(X, c), c)) /\ Kept(h1, i.h, Plus(X, c)) /\ BufferOk(i.h, i.b) /\ i.b.head = c
  <2>1. c \in DOMAIN h1 \cup {0} /\ 0 \in Nat
    BY <1>4
  <2> QED BY <1>2, <1>3, <1>4, <1>6, <2>1, InitMakes
<1>8. IsCount(Plus(X, c)) /\ Plus(X, c)[c] > 0 /\ IsHeap(i.h)
  <2>1. c \in Nat
    BY <1>4
  <2>2. IsCount(Plus(X, c)) /\ Plus(X, c)[c] = X[c] + One(c, c)
    BY <2>1, PlusCounts
  <2>3. X[c] \in Nat /\ One(c, c) = 1
    BY <2>1 DEF IsCount, One
  <2> QED BY <1>7, <2>2, <2>3 DEF Owned
<1>9. Owned(h2, Plus(X, c)) /\ Kept(i.h, h2, Plus(X, c))
  BY <1>4, <1>7, <1>8, ReleaseOwned DEF h2
<1>10. BufferOk(h2, i.b)
  <2>1. IsHeap(h2)
    BY <1>9 DEF Owned
  <2> DEFINE b == i.b
             g == i.h
  <2>2. BufferOk(g, b) /\ b.head = c /\ Kept(g, h2, Plus(X, c)) /\ IsHeap(g)
    BY <1>7, <1>8, <1>9
  <2> HIDE DEF b, g
  <2>3. BufferOk(h2, b)
    BY <1>8, <2>1, <2>2, BufferKept
  <2> QED BY <2>3 DEF b
<1>11. Kept(heap, h2, X)
  <2>1. Kept(h1, i.h, X) /\ Kept(i.h, h2, X)
    BY <1>4, <1>7, <1>9, KeptLess
  <2>2. Kept(heap, i.h, X)
    BY <1>5, <2>1, KeptTrans
  <2> QED BY <2>1, <2>2, KeptTrans
<1> QED BY <1>1, <1>7, <1>9, <1>10, <1>11, MadeIsChanged

LEMMA CloneIsChanged ==
  ASSUME NEW X, IsCount(X), Owned(heap, X), NEW b, BufferOk(heap, b), NEW r, r = chk_bytebuffer_clone(heap, b)
  PROVE  Changed(heap, X, r)
<1>1. Owned(r.h, Plus(X, r.b.head)) /\ Kept(heap, r.h, X) /\ BufferOk(r.h, r.b) /\ r.lost = 0
  BY CloneMakes
<1> QED BY <1>1, MadeIsChanged

(* A header is written into what an append left. *)
LEMMA HeadedIsChanged ==
  ASSUME NEW h, NEW X, IsCount(X), NEW r, Changed(h, X, r)
  PROVE  Changed(h, X, Headed(r))
<1> DEFINE b == r.b
           g == r.h
           Y == Plus(Plus(X, r.lost), b.head)
           in == Header(b.datasize)
           h2 == chk_bytechunk_write(g, b.head, 0, in)
           v == Headed(r)
<1>1. Owned(g, Y) /\ BufferOk(g, b) /\ Kept(h, g, X) /\ r.lost \in Nat /\ b.head \in Nat /\ IsHeap(g)
  BY DEF Changed, Owned
<1>2. v.h = h2 /\ v.b = b /\ v.lost = r.lost
  BY DEF Headed, HeaderWritten, Result
<1> HIDE DEF g, b
<1>3. in \in Seq(Nat)
  <2>1. b.datasize - Word \in Int /\ Word \in Nat
    BY <1>1, BufferFacts, HeapAssumption
  <2> QED BY <2>1, CellsAreBytes DEF Header
<1>a. Y = Plus(Plus(X, r.lost), b.head)
  OBVIOUS
<1> HIDE DEF in, Y
<1>4. Owned(h2, Y) /\ Kept(g, h2, Y)
  BY <1>1, <1>3, WriteOwned
<1> HIDE DEF h2
<1>5. IsCount(Plus(X, r.lost)) /\ IsCount(Y) /\ Y[b.head] > 0
  <2>1. IsCount(Plus(X, r.lost))
    BY <1>1, PlusCounts
  <2>2. IsCount(Y) /\ Y[b.head] = Plus(X, r.lost)[b.head] + One(b.head, b.head)
    BY <1>1, <1>a, <2>1, PlusCounts
  <2>3. Plus(X, r.lost)[b.head] \in Nat /\ One(b.head, b.head) = 1
    BY <1>1, <2>1 DEF IsCount, One
  <2> QED BY <2>1, <2>2, <2>3
<1>6. BufferOk(h2, b)
  <2>1. IsHeap(h2)
    BY <1>4 DEF Owned
  <2> QED BY <1>1, <1>4, <1>5, <2>1, BufferKept
<1>7. Kept(h, h2, X)
  <2>1. Kept(g, h2, Plus(X, r.lost))
    BY <1>1, <1>4, <1>5, <1>a, KeptLess
  <2>2. Kept(g, h2, X)
    BY <1>1, <2>1, KeptLess
  <2> QED BY <1>1, <2>2, KeptTrans
<1> HIDE DEF v
<1>8. Changed(h, X, v)
  BY <1>1, <1>2, <1>4, <1>6, <1>7, <1>a DEF Changed
<1> QED BY <1>8 DEF v

-----------------------------------------------------------------------------
(* The operations of the scripts on a buffer. *)
LEMMA DidKeeps ==
  ASSUME Good, NEW s \in Slot, NEW r, NEW want, Did(s, r, want),
         Changed(heap, Others(buffer, queue, lost, s, OfSocket(packet, recv, plain, decoder)), r),
         used' \subseteq Slot, s \in used' \/ r.b = Empty, used \ {s} \subseteq used',
         UNCHANGED <<outgoing, incoming>>, ops' \in Nat
  PROVE  Good'
<1> DEFINE l2 == IF r.lost = 0 THEN lost ELSE Append(lost, r.lost)
           bf2 == [buffer EXCEPT ![s] = r.b]
<1>1. heap' = r.h /\ buffer' = bf2 /\ lost' = l2
  BY DEF Did, NULL
<1>2. /\ queue' = queue /\ wire' = wire /\ plain' = plain /\ nRead' = nRead /\ recv' = recv
      /\ decoder' = decoder /\ phase' = phase /\ bytes' = bytes /\ packet' = packet
  BY DEF outgoing, incoming
<1>3. IsSlotStep(r.h, bf2, used', queue, l2, packet, phase, recv, plain, decoder, bytes)
  <2>1. bf2 = [buffer EXCEPT ![s] = r.b] /\ l2 = IF r.lost = 0 THEN lost ELSE Append(lost, r.lost)
    OBVIOUS
  <2> HIDE DEF bf2, l2
  <2>2. /\ Owned(heap, All(buffer, queue, lost, packet, recv, plain, decoder))
        /\ Parts(heap, buffer, used, queue, lost, packet, phase, recv, plain, decoder, bytes)
    BY DEF Good
  <2> QED BY <2>1, <2>2, SlotStep
<1> HIDE DEF bf2, l2
<1> QED BY <1>1, <1>2, <1>3 DEF IsSlotStep, Good

LEMMA SlotIsOwned ==
  ASSUME Good, NEW s \in Slot
  PROVE  LET X == Others(buffer, queue, lost, s, OfSocket(packet, recv, plain, decoder))
         IN /\ IsCount(X) /\ Owned(heap, Plus(X, buffer[s].head)) /\ BufferOk(heap, buffer[s])
            /\ buffer[s].head \in Nat /\ IsHeap(heap)
<1>1. /\ Owned(heap, All(buffer, queue, lost, packet, recv, plain, decoder))
      /\ Parts(heap, buffer, used, queue, lost, packet, phase, recv, plain, decoder, bytes)
  BY DEF Good
<1>2. IsSlotOf(heap, buffer, queue, lost, OfSocket(packet, recv, plain, decoder), s)
  BY <1>1, SlotBefore
<1> QED BY <1>1, <1>2 DEF IsSlotOf, Owned

LEMMA FreeSlotIsOwned ==
  ASSUME Good, NEW s \in Slot, s \notin used
  PROVE  LET X == Others(buffer, queue, lost, s, OfSocket(packet, recv, plain, decoder))
         IN IsCount(X) /\ Owned(heap, X)
<1> DEFINE X == Others(buffer, queue, lost, s, OfSocket(packet, recv, plain, decoder))
<1>1. IsCount(X) /\ Owned(heap, Plus(X, buffer[s].head))
  BY SlotIsOwned
<1>2. buffer[s].head = 0
  BY DEF Good, Parts, SlotsOk, Empty, Buffer, NULL
<1> HIDE DEF X
<1>3. Owned(heap, X)
  BY <1>1, <1>2, NullOwned
<1> QED BY <1>1, <1>3 DEF X

LEMMA MakesKeeps ==
  ASSUME Good, NEW s \in Slot, NEW r, NEW want, Makes(s, r, want),
         \A X : IsCount(X) /\ Owned(heap, X) => Changed(heap, X, r)
  PROVE  Good'
<1>1. /\ s \notin used /\ used' = used \cup {s} /\ Did(s, r, want) /\ UNCHANGED <<outgoing, incoming>>
      /\ ops' = ops + 1
  BY DEF Makes, Counted
<1> DEFINE X == Others(buffer, queue, lost, s, OfSocket(packet, recv, plain, decoder))
<1>2. Changed(heap, X, r)
  <2>1. IsCount(X) /\ Owned(heap, X)
    BY <1>1, FreeSlotIsOwned
  <2> QED BY <2>1
<1>3. used \subseteq Slot /\ ops \in Nat
  BY DEF Good, Parts, SlotsOk
<1> QED BY <1>1, <1>2, <1>3, DidKeeps

LEMMA ChangesKeeps ==
  ASSUME Good, NEW s \in Slot, NEW r, NEW want, Changes(s, r, want),
         \A X : IsCount(X) /\ Owned(heap, Plus(X, buffer[s].head)) => Changed(heap, X, r)
  PROVE  Good'
<1>1. s \in used /\ used' = used /\ Did(s, r, want) /\ UNCHANGED <<outgoing, incoming>> /\ ops' = ops + 1
  BY DEF Changes, Counted
<1> DEFINE X == Others(buffer, queue, lost, s, OfSocket(packet, recv, plain, decoder))
<1>2. Changed(heap, X, r)
  <2>1. IsCount(X) /\ Owned(heap, Plus(X, buffer[s].head))
    BY SlotIsOwned
  <2> HIDE DEF X
  <2> QED BY <2>1
<1>3. used \subseteq Slot /\ ops \in Nat
  BY DEF Good, Parts, SlotsOk
<1> QED BY <1>1, <1>2, <1>3, DidKeeps

LEMMA NewBufferKeeps ==
  ASSUME Good, NEW s \in Slot, lua_new_bytebuffer(s)
  PROVE  Good'
<1>1. CASE Makes(s, chk_bytebuffer_new(heap, MinCap), <<>>)
  <2> DEFINE r == chk_bytebuffer_new(heap, MinCap)
  <2>1. \A X : IsCount(X) /\ Owned(heap, X) => Changed(heap, X, r)
    BY FreshIsChanged
  <2> HIDE DEF r
  <2>2. Makes(s, r, <<>>)
    BY <1>1 DEF r
  <2> QED BY <2>1, <2>2, MakesKeeps
<1>2. CASE \E n \in Sizes : Makes(s, FromString(NewBytes(n)), NewBytes(n))
  <2>1. PICK n \in Sizes : Makes(s, FromString(NewBytes(n)), NewBytes(n))
    BY <1>2
  <2> DEFINE str == NewBytes(n)
             r == FromString(str)
  <2>2. str \in Seq(Nat)
    <3>1. n \in Nat /\ ops \in Nat
      BY PacketAssumption DEF Good
    <3> QED BY <3>1, NewBytesAreBytes
  <2>3. Makes(s, r, str)
    BY <2>1
  <2> HIDE DEF str
  <2>4. \A X : IsCount(X) /\ Owned(heap, X) => Changed(heap, X, r)
    BY <2>2, StringIsChanged
  <2> HIDE DEF r
  <2> QED BY <2>3, <2>4, MakesKeeps
<1> QED BY <1>1, <1>2 DEF lua_new_bytebuffer

LEMMA CloneKeeps ==
  ASSUME Good, NEW s \in Slot, NEW o \in Slot, lua_bytebuffer_clone(s, o)
  PROVE  Good'
<1> DEFINE b == buffer[o]
           r == chk_bytebuffer_clone(heap, b)
<1>1. BufferOk(heap, b)
  BY SlotIsOwned
<1>2. Makes(s, r, ideal[o])
  BY DEF lua_bytebuffer_clone, chk_bytebuffer_share
<1> HIDE DEF b
<1>3. \A X : IsCount(X) /\ Owned(heap, X) => Changed(heap, X, r)
  BY <1>1, CloneIsChanged
<1> HIDE DEF r
<1> QED BY <1>2, <1>3, MakesKeeps

LEMMA AppendKeeps ==
  ASSUME Good, Ends \subseteq Stopping, fault' \notin Stopping, NEW s \in Slot, NEW str \in Seq(Nat), NEW want,
         NEW r, r = chk_bytebuffer_append(heap, buffer[s], str), Changes(s, r, want)
  PROVE  Good'
<1>1. r.fault # "append" /\ r.fault # "freed"
  BY DEF Changes, Did, Ends
<1>2. BufferOk(heap, buffer[s])
  BY SlotIsOwned
<1>3. \A X : IsCount(X) /\ Owned(heap, Plus(X, buffer[s].head)) => Changed(heap, X, r)
  BY <1>1, <1>2, AppendOwned
<1> QED BY <1>3, ChangesKeeps

LEMMA WriteKeeps ==
  ASSUME Good, Ends \subseteq Stopping, fault' \notin Stopping, NEW s \in Slot, NEW n \in Sizes,
         lua_wpacket_write(s, NewBytes(n))
  PROVE  Good'
<1> DEFINE str == NewBytes(n)
           b == buffer[s]
           a == chk_bytebuffer_append(heap, b, str)
           r == Headed(a)
           want == WithHeader(ideal[s] \o str)
<1>1. Changes(s, r, want)
  BY DEF lua_wpacket_write
<1>2. str \in Seq(Nat)
  <2>1. n \in Nat /\ ops \in Nat
    BY PacketAssumption DEF Good
  <2> QED BY <2>1, NewBytesAreBytes
<1>3. BufferOk(heap, b)
  BY SlotIsOwned
<1> HIDE DEF str, want, b
<1>4. a.fault # "append" /\ a.fault # "freed"
  <2>1. fault' = r.fault
    BY <1>1 DEF Changes, Did
  <2>2. r.fault = IF a.fault # "none" THEN a.fault
                  ELSE IF a.b.spos # 0 THEN "header"
                  ELSE IF a.h[a.b.head].refcount > 1 THEN "shared" ELSE "none"
    BY DEF Headed, Result
  <2> HIDE DEF r, a
  <2> QED BY <2>1, <2>2 DEF Ends
<1>5. ASSUME NEW X, IsCount(X), Owned(heap, Plus(X, b.head)) PROVE Changed(heap, X, r)
  <2>1. Changed(heap, X, a)
    <3>1. a = chk_bytebuffer_append(heap, b, str)
      OBVIOUS
    <3> HIDE DEF a
    <3> QED BY ONLY <1>2, <1>3, <1>4, <1>5, <3>1, AppendOwned
  <2> HIDE DEF a
  <2> QED BY <1>5, <2>1, HeadedIsChanged
<1>6. \A X : IsCount(X) /\ Owned(heap, Plus(X, buffer[s].head)) => Changed(heap, X, r)
  BY <1>5 DEF b
<1> HIDE DEF r
<1> QED BY <1>1, <1>6, ChangesKeeps

LEMMA RewriteKeeps ==
  ASSUME Good, NEW s \in Slot, NEW pos \in Nat, lua_wpacket_rewrite(s, pos, NewBytes(1))
  PROVE  Good'
<1> DEFINE in == NewBytes(1)
           b == buffer[s]
           r == chk_bytebuffer_rewrite(heap, b, pos, in)
           want == ReplacedAt(ideal[s], pos, in)
<1>1. Changes(s, r, want)
  BY DEF lua_wpacket_rewrite
<1>2. in \in Seq(Nat)
  <2>1. ops \in Nat /\ 1 \in Nat
    BY DEF Good
  <2> QED BY <2>1, NewBytesAreBytes
<1>3. BufferOk(heap, b) /\ r = chk_bytebuffer_rewrite(heap, b, pos, in)
  BY SlotIsOwned
<1> HIDE DEF in, want, b, r
<1>4. \A X : IsCount(X) /\ Owned(heap, Plus(X, b.head)) => Changed(heap, X, r)
  BY <1>2, <1>3, RewriteOwned
<1> QED BY <1>1, <1>4, ChangesKeeps DEF b

LEMMA ReadKeeps ==
  ASSUME Good, Ends \subseteq Stopping, fault' \notin Stopping, NEW s \in Slot, NEW n \in Nat, lua_bytebuffer_read(s, n)
  PROVE  Good'
<1> DEFINE b == buffer[s]
           q == chk_bytebuffer_read_drain(heap, b, n)
           r == Result(q.h, q.b, Cuts(s, n), NULL)
           want == SubSeq(ideal[s], n + 1, Len(ideal[s]))
<1>1. Changes(s, r, want)
  BY DEF lua_bytebuffer_read
<1>2. BufferOk(heap, b)
  BY SlotIsOwned
<1>3. r.h = q.h /\ r.b = q.b /\ r.lost = 0 /\ r.fault = Cuts(s, n)
  BY DEF Result, NULL
<1>4. CutShared(heap, b, n) = {}
  <2>1. fault' = Cuts(s, n)
    BY <1>1, <1>3 DEF Changes, Did
  <2>2. CutShared(heap, b, n) # {} => Cuts(s, n) \in {"cut", "drain"}
    BY DEF Cuts
  <2> QED BY <2>1, <2>2 DEF Ends
<1>5. q = chk_bytebuffer_read_drain(heap, b, n)
  OBVIOUS
<1> HIDE DEF b, q, r, want
<1>6. \A X : IsCount(X) /\ Owned(heap, Plus(X, b.head)) => Changed(heap, X, r)
  BY <1>2, <1>3, <1>4, <1>5, ReadOwned
<1> QED BY <1>1, <1>6, ChangesKeeps DEF b

LEMMA CollectKeeps ==
  ASSUME Good, NEW s \in Slot, lua_bytebuffer_gc(s)
  PROVE  Good'
<1> DEFINE b == buffer[s]
           h2 == chk_bytebuffer_finalize(heap, b)
           r == [h |-> h2, b |-> Empty, lost |-> 0]
           X == Others(buffer, queue, lost, s, OfSocket(packet, recv, plain, decoder))
<1>1. /\ heap' = h2 /\ buffer' = [buffer EXCEPT ![s] = Empty] /\ used' = used \ {s} /\ lost' = lost
      /\ UNCHANGED <<outgoing, incoming>> /\ ops' = ops + 1
  BY DEF lua_bytebuffer_gc, Counted
<1>2. IsCount(X) /\ Owned(heap, Plus(X, b.head)) /\ b.head \in Nat
  BY SlotIsOwned
<1>3. r.h = h2 /\ r.b = Empty /\ r.lost = 0 /\ Empty.head = 0
  BY DEF Empty, Buffer, NULL
<1>x. X = Others(buffer, queue, lost, s, OfSocket(packet, recv, plain, decoder))
  OBVIOUS
<1> HIDE DEF b, X, r
<1>4. Owned(h2, X) /\ Kept(heap, h2, X)
  BY <1>2, FinalizeOwned
<1> HIDE DEF h2
<1>5. Changed(heap, X, r)
  <2>1. IsHeap(h2)
    BY <1>4 DEF Owned
  <2>2. BufferOk(r.h, r.b)
    BY <1>3, <2>1, EmptyOk
  <2>3. Owned(r.h, Plus(X, r.b.head))
    BY <1>2, <1>3, <1>4, NullOwned
  <2> QED BY <1>2, <1>3, <1>4, <2>2, <2>3, MadeIsChanged
<1>6. IsSlotStep(r.h, buffer', used', queue, lost, packet, phase, recv, plain, decoder, bytes)
  <2>1. /\ Owned(heap, All(buffer, queue, lost, packet, recv, plain, decoder))
        /\ Parts(heap, buffer, used, queue, lost, packet, phase, recv, plain, decoder, bytes)
    BY DEF Good
  <2>2. used \subseteq Slot
    BY DEF Good, Parts, SlotsOk
  <2> DEFINE bf2 == buffer'
             u2 == used'
  <2>3. bf2 = [buffer EXCEPT ![s] = r.b] /\ u2 \subseteq Slot /\ (s \in u2 \/ r.b = Empty) /\ used \ {s} \subseteq u2
        /\ lost = IF r.lost = 0 THEN lost ELSE Append(lost, r.lost)
    BY <1>1, <1>3, <2>2
  <2>4. Changed(heap, Others(buffer, queue, lost, s, OfSocket(packet, recv, plain, decoder)), r)
    BY <1>5, <1>x
  <2> HIDE DEF bf2, u2
  <2>5. IsSlotStep(r.h, bf2, u2, queue, lost, packet, phase, recv, plain, decoder, bytes)
    BY <2>1, <2>3, <2>4, SlotStep
  <2> QED BY <2>5 DEF bf2, u2
<1>7. /\ queue' = queue /\ wire' = wire /\ plain' = plain /\ nRead' = nRead /\ recv' = recv
      /\ decoder' = decoder /\ phase' = phase /\ bytes' = bytes /\ packet' = packet
  BY <1>1 DEF outgoing, incoming
<1> QED BY <1>1, <1>3, <1>6, <1>7 DEF IsSlotStep, Good

-----------------------------------------------------------------------------
(* Sending. *)
LEMMA GoodFacts ==
  ASSUME Good
  PROVE  LET Z == OfSocket(packet, recv, plain, decoder)
         IN /\ IsHeap(heap) /\ IsCount(Z) /\ IsList(queue) /\ IsList(lost)
            /\ Owned(heap, Held(buffer, queue, lost, Z)) /\ IsCount(Held(buffer, queue, lost, Z))
            /\ QueueOk(heap, queue)
            /\ Parts(heap, buffer, used, queue, lost, packet, phase, recv, plain, decoder, bytes)
<1> DEFINE Z == OfSocket(packet, recv, plain, decoder)
<1>1. /\ Owned(heap, Held(buffer, queue, lost, Z))
      /\ Parts(heap, buffer, used, queue, lost, packet, phase, recv, plain, decoder, bytes)
  BY DEF Good, All
<1>2. IsHeap(heap)
  BY <1>1 DEF Owned
<1>3. IsCount(Z) /\ IsList(queue) /\ IsList(lost)
  BY <1>1, <1>2, PartsCount
<1> HIDE DEF Z
<1>4. IsCount(Held(buffer, queue, lost, Z))
  BY <1>3, HeldIsCount
<1> QED BY <1>1, <1>2, <1>3, <1>4 DEF Parts, Z

LEMMA SendtoKeeps ==
  ASSUME Good, NEW s \in Slot, chk_datagram_socket_sendto(s)
  PROVE  Good'
<1> DEFINE b == buffer[s]
           r == chk_bytebuffer_clone(heap, b)
           Z == OfSocket(packet, recv, plain, decoder)
           X == Held(buffer, queue, lost, Z)
           h2 == chk_bytebuffer_finalize(r.h, r.b)
<1>1. heap' = h2 /\ ops' = ops + 1 /\ UNCHANGED <<script, outgoing, incoming, lost>>
  BY DEF chk_datagram_socket_sendto, Counted
<1>2. /\ IsHeap(heap) /\ IsCount(Z) /\ Owned(heap, X) /\ IsCount(X)
      /\ Parts(heap, buffer, used, queue, lost, packet, phase, recv, plain, decoder, bytes)
  BY GoodFacts
<1>3. BufferOk(heap, b) /\ b.head \in Nat
  BY SlotIsOwned
<1>4. /\ Owned(r.h, Plus(X, r.b.head)) /\ Kept(heap, r.h, X) /\ r.b.head \in Nat
  <2>1. r = chk_bytebuffer_clone(heap, b)
    OBVIOUS
  <2> HIDE DEF r, X, b
  <2> DEFINE g == r.h
             v == r.b
  <2>2. Owned(g, Plus(X, v.head)) /\ Kept(heap, g, X) /\ BufferOk(g, v)
    BY <1>2, <1>3, <2>1, CloneMakes
  <2> HIDE DEF g, v
  <2>3. v.head \in Nat
    BY <2>2, BufferFacts DEF Owned
  <2> QED BY <2>2, <2>3 DEF g, v
<1>5. Owned(h2, X) /\ Kept(heap, h2, X)
  <2> DEFINE g == r.h
             c == r.b
  <2>1. h2 = chk_bytebuffer_finalize(g, c) /\ Owned(g, Plus(X, c.head)) /\ c.head \in Nat /\ Kept(heap, g, X)
    BY <1>4
  <2> HIDE DEF g, c, h2, X
  <2>2. Owned(h2, X) /\ Kept(g, h2, X)
    BY <1>2, <2>1, FinalizeOwned
  <2> QED BY <2>1, <2>2, KeptTrans
<1>6. /\ Owned(h2, All(buffer, queue, lost, packet, recv, plain, decoder))
      /\ Kept(heap, h2, All(buffer, queue, lost, packet, recv, plain, decoder)) /\ IsHeap(h2)
  BY <1>5 DEF All, Owned
<1> HIDE DEF h2, X, Z
<1>7. Parts(h2, buffer, used, queue, lost, packet, phase, recv, plain, decoder, bytes)
  BY <1>2, <1>6, PartsKept
<1>8. /\ buffer' = buffer /\ used' = used /\ wire' = wire /\ plain' = plain /\ nRead' = nRead /\ recv' = recv
      /\ decoder' = decoder /\ phase' = phase /\ bytes' = bytes /\ packet' = packet /\ lost' = lost /\ queue' = queue
  BY <1>1 DEF incoming, script, outgoing
<1>9. ops + 1 \in Nat
  BY DEF Good
<1> QED BY <1>1, <1>6, <1>7, <1>8, <1>9 DEF Good

(* The first bytes of a send list are written. *)
LEMMA WrittenKeeps ==
  ASSUME Good, NEW h, IsHeap(h), NEW q, NEW n \in Nat, Written(h, q, n),
         Owned(h, All(buffer, q, lost, packet, recv, plain, decoder)),
         Parts(h, buffer, used, q, lost, packet, phase, recv, plain, decoder, bytes),
         UNCHANGED <<script, incoming, lost>>, ops' \in Nat
  PROVE  Good'
<1> DEFINE Z == OfSocket(packet, recv, plain, decoder)
           w == update_send_list(h, q, n)
           h2 == w.h
           q2 == w.q
           out == prepare_send(h, q)
           E == Held(buffer, <<>>, lost, Z)
<1>1. /\ heap' = h2 /\ queue' = q2 /\ wire' = wire \o SubSeq(out, 1, n) /\ n <= Len(out)
  BY DEF Written
<1>2. IsCount(Z) /\ IsList(lost) /\ Owned(h, Held(buffer, q, lost, Z)) /\ QueueOk(h, q)
  BY GoodFacts DEF All, Parts
<1>3. out \in Seq(Nat)
  BY <1>2, SendIsBytes DEF prepare_send
<1> HIDE DEF out
<1>4. SubSeq(out, 1, n) \in Seq(Nat)
  <2>1. n <= Len(out) /\ n \in Nat
    BY <1>1 DEF out
  <2> QED BY <1>3, <2>1
<1>5. wire' \in Seq(Nat)
  <2>1. wire \in Seq(Nat)
    BY DEF Good
  <2> QED BY <1>1, <1>4, <2>1
<1>6. Owned(h2, Held(buffer, q2, lost, Z)) /\ QueueOk(h2, q2) /\ Kept(h, h2, E) /\ IsHeap(h2)
  <2> HIDE DEF Z
  <2>1. Sending(h, buffer, lost, Z, w, 0)
    BY <1>2, SendListOwned
  <2> HIDE DEF w
  <2> QED BY <2>1 DEF Sending, Owned
<1>7. Parts(h, buffer, used, <<>>, lost, packet, phase, recv, plain, decoder, bytes)
  <2>1. QueueOk(h, <<>>)
    BY DEF QueueOk, IsList
  <2> QED BY <1>2, <2>1 DEF Parts
<1>8. Kept(h, h2, All(buffer, <<>>, lost, packet, recv, plain, decoder))
  BY <1>6 DEF All
<1>9. Owned(h2, All(buffer, q2, lost, packet, recv, plain, decoder))
  BY <1>6 DEF All
<1> HIDE DEF h2, q2, E, Z
<1>10. Parts(h2, buffer, used, <<>>, lost, packet, phase, recv, plain, decoder, bytes)
  BY <1>6, <1>7, <1>8, PartsKept
<1>11. Parts(h2, buffer, used, q2, lost, packet, phase, recv, plain, decoder, bytes)
  BY <1>6, <1>10 DEF Parts
<1>12. /\ buffer' = buffer /\ used' = used /\ plain' = plain /\ nRead' = nRead /\ recv' = recv
       /\ decoder' = decoder /\ phase' = phase /\ bytes' = bytes /\ packet' = packet /\ lost' = lost
  BY DEF incoming, script
<1> QED BY <1>1, <1>5, <1>9, <1>11, <1>12 DEF Good

LEMMA WaitingIsBytes == ASSUME Good PROVE Waiting \in Seq(Nat)
<1>1. IsHeap(heap) /\ QueueOk(heap, queue)
  BY GoodFacts
<1> QED BY <1>1, SendIsBytes DEF Waiting, prepare_send

(* process_write. *)
LEMMA ProcessWriteKeeps ==
  ASSUME Good, NEW n \in Taken(Len(Waiting)), process_write(n)
  PROVE  Good'
<1>1. Written(heap, queue, n) /\ UNCHANGED <<script, incoming, lost>> /\ ops' = ops /\ ops \in Nat
  BY DEF process_write, Good
<1>2. n \in Nat
  BY WaitingIsBytes DEF Taken
<1>3. /\ IsHeap(heap) /\ Owned(heap, All(buffer, queue, lost, packet, recv, plain, decoder))
      /\ Parts(heap, buffer, used, queue, lost, packet, phase, recv, plain, decoder, bytes)
  BY GoodFacts DEF All
<1> QED BY <1>1, <1>2, <1>3, WrittenKeeps

LEMMA SendKeeps ==
  ASSUME Good, NEW s \in Slot, NEW n \in Nat, lua_stream_socket_send(s, n)
  PROVE  Good'
<1> DEFINE b == buffer[s]
           r == chk_bytebuffer_clone(heap, b)
           Z == OfSocket(packet, recv, plain, decoder)
           X == Held(buffer, queue, lost, Z)
           h2 == r.h
           q2 == Append(queue, r.b)
<1>1. Written(h2, q2, n) /\ b.datasize > 0 /\ ops' = ops + 1 /\ UNCHANGED <<script, incoming, lost>>
  BY DEF lua_stream_socket_send, Counted
<1>2. /\ IsHeap(heap) /\ IsCount(Z) /\ IsList(queue) /\ IsList(lost) /\ Owned(heap, X) /\ IsCount(X)
      /\ QueueOk(heap, queue)
      /\ Parts(heap, buffer, used, queue, lost, packet, phase, recv, plain, decoder, bytes)
  BY GoodFacts
<1>3. BufferOk(heap, b)
  BY SlotIsOwned
<1>4. /\ Owned(h2, Plus(X, r.b.head)) /\ Kept(heap, h2, X) /\ BufferOk(h2, r.b)
      /\ r.b.datasize = b.datasize /\ IsHeap(h2)
  <2>1. r = chk_bytebuffer_clone(heap, b)
    OBVIOUS
  <2> HIDE DEF r, X, b
  <2>2. Owned(r.h, Plus(X, r.b.head)) /\ Kept(heap, r.h, X) /\ BufferOk(r.h, r.b) /\ r.b.datasize = b.datasize
    BY <1>2, <1>3, <2>1, CloneMakes
  <2> QED BY <2>2 DEF Owned
<1>5. IsAppended(queue, r.b, q2)
  BY <1>2, Appended
<1>x. X = Held(buffer, queue, lost, Z) /\ Kept(heap, h2, All(buffer, queue, lost, packet, recv, plain, decoder))
  BY <1>4 DEF All
<1> HIDE DEF r, h2, q2, b, X
<1>6. Parts(h2, buffer, used, queue, lost, packet, phase, recv, plain, decoder, bytes)
  BY <1>2, <1>4, <1>x, PartsKept
<1>7. QueueOk(h2, q2)
  <2>1. QueueOk(h2, queue) /\ r.b.datasize > 0
    BY <1>1, <1>4, <1>6 DEF Parts
  <2> QED BY <1>4, <1>5, <2>1, QueueAppended
<1>8. Held(buffer, q2, lost, Z) = Plus(X, r.b.head)
  <2> HIDE DEF Z
  <2>1. Held(buffer, q2, lost, Z) = Plus(Held(buffer, queue, lost, Z), r.b.head)
    BY <1>2, <1>5, QueueGrows
  <2> QED BY <1>4, <1>x, <2>1
<1>9. Owned(h2, All(buffer, q2, lost, packet, recv, plain, decoder))
  BY <1>4, <1>8 DEF All
<1>10. Parts(h2, buffer, used, q2, lost, packet, phase, recv, plain, decoder, bytes)
  BY <1>6, <1>7 DEF Parts
<1>11. ops' \in Nat
  BY <1>1 DEF Good
<1> QED BY <1>1, <1>4, <1>9, <1>10, <1>11, WrittenKeeps

-----------------------------------------------------------------------------
(* Receiving. *)
Lists(bf, q, l) == Held(bf, q, l, None)
LEMMA AllIs ==
  ASSUME NEW bf, NEW q, NEW l, IsList(q), IsList(l), NEW pk, NEW r, NEW pl, NEW d,
         pk.head \in Nat, r.c \in Nat, DecoderRef(pl, d) \in Nat
  PROVE  /\ IsCount(Lists(bf, q, l))
         /\ All(bf, q, l, pk, r, pl, d) = Plus(Plus(Plus(Lists(bf, q, l), pk.head), r.c), DecoderRef(pl, d))
<1> DEFINE A == Plus(None, pk.head)
           B == Plus(A, r.c)
           C == Plus(B, DecoderRef(pl, d))
<1>1. IsCount(None) /\ IsCount(A) /\ IsCount(B)
  BY NoneCounts, PlusCounts
<1>2. All(bf, q, l, pk, r, pl, d) = Held(bf, q, l, C)
  BY DEF All, OfSocket
<1>3. Held(bf, q, l, C) = Plus(Held(bf, q, l, B), DecoderRef(pl, d))
  <2> HIDE DEF B
  <2> QED BY <1>1, SocketGrows
<1>4. Held(bf, q, l, B) = Plus(Held(bf, q, l, A), r.c)
  <2> HIDE DEF A
  <2> QED BY <1>1, SocketGrows
<1>5. Held(bf, q, l, A) = Plus(Held(bf, q, l, None), pk.head)
  BY <1>1, SocketGrows
<1> HIDE DEF A, B, C
<1>6. IsCount(Held(bf, q, l, None))
  BY <1>1, HeldIsCount
<1> QED BY <1>2, <1>3, <1>4, <1>5, <1>6 DEF Lists

LEMMA SocketStep ==
  ASSUME NEW h, IsHeap(h), NEW bf, NEW u, NEW q, NEW l, SlotsOk(h, bf, u), QueueOk(h, q), IsList(l),
         NEW h2, Kept(h, h2, Lists(bf, q, l)), NEW pk, NEW ph, NEW r, NEW pl, NEW d, NEW n,
         Owned(h2, Plus(Plus(Plus(Lists(bf, q, l), pk.head), r.c), DecoderRef(pl, d))),
         PacketOk(h2, ph, pk), SocketOk(h2, pl, ph, r, d, n)
  PROVE  IsSlotStep(h2, bf, u, q, l, pk, ph, r, pl, d, n)
<1>1. IsHeap(h2) /\ IsList(q) /\ IsCount(None) /\ Kept(h, h2, Held(bf, q, l, None))
  BY NoneCounts DEF Owned, QueueOk, Lists
<1>2. SlotsOk(h2, bf, u)
  BY <1>1, SlotsKept
<1>3. QueueOk(h2, q)
  BY <1>1, QueueKept
<1>4. pk.head \in Nat /\ r.c \in Nat /\ DecoderRef(pl, d) \in Nat
  <2>1. BufferOk(h2, pk)
    BY DEF PacketOk
  <2>2. pk.head \in Nat
    BY <1>1, <2>1, BufferFacts
  <2> QED BY <2>2 DEF SocketOk, DecoderRef
<1>5. All(bf, q, l, pk, r, pl, d) = Plus(Plus(Plus(Lists(bf, q, l), pk.head), r.c), DecoderRef(pl, d))
  BY <1>1, <1>4, AllIs
<1> QED BY <1>2, <1>3, <1>5 DEF IsSlotStep, Parts

LEMMA GoodSocket ==
  ASSUME Good
  PROVE  LET B == Lists(buffer, queue, lost)
         IN /\ IsHeap(heap) /\ IsCount(B) /\ SlotsOk(heap, buffer, used) /\ QueueOk(heap, queue)
            /\ IsList(lost) /\ PacketOk(heap, phase, packet) /\ SocketOk(heap, plain, phase, recv, decoder, bytes)
            /\ packet.head \in Nat /\ recv.c \in Nat /\ decoder.c \in Nat /\ DecoderRef(plain, decoder) \in Nat
            /\ Owned(heap, Plus(Plus(Plus(B, packet.head), recv.c), DecoderRef(plain, decoder)))
<1>1. /\ IsHeap(heap) /\ IsList(queue) /\ IsList(lost)
      /\ Parts(heap, buffer, used, queue, lost, packet, phase, recv, plain, decoder, bytes)
      /\ Owned(heap, All(buffer, queue, lost, packet, recv, plain, decoder))
  BY GoodFacts DEF Good
<1>2. packet.head \in Nat /\ recv.c \in Nat /\ decoder.c \in Nat /\ DecoderRef(plain, decoder) \in Nat
  BY <1>1, PartsCount
<1>3. /\ IsCount(Lists(buffer, queue, lost))
      /\ All(buffer, queue, lost, packet, recv, plain, decoder)
           = Plus(Plus(Plus(Lists(buffer, queue, lost), packet.head), recv.c), DecoderRef(plain, decoder))
  BY <1>1, <1>2, AllIs
<1> QED BY <1>1, <1>2, <1>3 DEF Parts

(* A bytes position in a heap that is as it was for its chunk. *)
LEMMA DecoderKept ==
  ASSUME NEW h, NEW h2, IsHeap(h), IsHeap(h2), NEW d, d.c \in Nat, BufferOk(h, AsBuffer(d)),
         d.c # 0 => SameFrom(h, h2, d.c)
  PROVE  BufferOk(h2, AsBuffer(d))
<1> DEFINE b == AsBuffer(d)
<1>1. BufferOk(h, b) /\ b.head = d.c /\ b.tail = d.c
  BY AsBufferFields
<1> HIDE DEF b
<1>2. /\ b.spos \in Nat /\ b.datasize \in Nat /\ Inside(h, b.head, b.spos)
      /\ Covered(h, b.head, b.spos, b.datasize) /\ b.head \in Nat
  BY <1>1, BufferFacts DEF BufferOk
<1>3. Inside(h2, b.head, b.spos) /\ Covered(h2, b.head, b.spos, b.datasize)
  BY <1>1, <1>2, PositionKept
<1>4. BufferOk(h2, b)
  BY <1>1, <1>3 DEF BufferOk
<1> QED BY <1>4 DEF b

-----------------------------------------------------------------------------
(* The bytes are in the chunks; the decoder does not know of them yet.       *)
IsRead(A, ref, h, r, n) ==
  /\ Owned(h, Plus(Plus(A, ref), r.c)) /\ Kept(heap, h, Lists(buffer, queue, lost))
  /\ r.c \in DOMAIN h /\ r.c \in Nat \ {0} /\ r.pos \in Nat /\ r.pos < h[r.c].cap /\ Covered(h, r.c, r.pos, n)
  /\ (~plain /\ decoder.c # 0) =>
       Meet(h, decoder.c, decoder.spos, decoder.size, r.c, r.pos, 0)
       /\ Inside(h, decoder.c, decoder.spos) /\ decoder.c \in DOMAIN h

(* The bytes are in the chunks; the decoder does not know of them yet. *)
LEMMA ReadMakes ==
  ASSUME Good, phase = "loop", NEW n \in Nat \ {0}, NEW p, p = prepare_recv, n <= p.room, NEW in \in Seq(Nat),
         NEW h, h = chk_bytechunk_write(p.h, p.r.c, p.r.pos, in)
  PROVE  IsRead(Plus(Lists(buffer, queue, lost), packet.head), DecoderRef(plain, decoder), h, p.r, n)
<1> DEFINE B == Lists(buffer, queue, lost)
           A == Plus(B, packet.head)
           ref == DecoderRef(plain, decoder)
           X == Plus(A, ref)
           rc == p.r.c
           rp == p.r.pos
           dc == decoder.c
           g == p.h
<1>1. /\ IsHeap(heap) /\ IsCount(B) /\ SocketOk(heap, plain, phase, recv, decoder, bytes)
      /\ packet.head \in Nat /\ recv.c \in Nat /\ dc \in Nat /\ ref \in Nat
      /\ Owned(heap, Plus(Plus(A, recv.c), ref))
  BY GoodSocket
<1> HIDE DEF B
<1>2. IsCount(A) /\ IsCount(X)
  <2>1. IsCount(A)
    BY <1>1, PlusCounts
  <2> HIDE DEF A, ref
  <2> QED BY <1>1, <2>1, PlusCounts
<1>3. Owned(heap, Plus(X, recv.c))
  <2> HIDE DEF A, ref
  <2> QED BY <1>1, <1>2, PlusSwapped
<1>4. recv.pos \in Nat /\ Inside(heap, recv.c, recv.pos) /\ bytes = 0
      /\ (recv.c = 0 => dc = 0)
  BY <1>1 DEF SocketOk
<1>e. /\ g = p.h /\ rc = p.r.c /\ rp = p.r.pos /\ B = Lists(buffer, queue, lost) /\ dc = decoder.c
      /\ A = Plus(B, packet.head) /\ X = Plus(A, ref) /\ (~plain => ref = dc) /\ ref = DecoderRef(plain, decoder)
  BY DEF B, DecoderRef
<1> HIDE DEF A, X, ref
<1>5. IsPrepared(heap, X, p) /\ (recv.c # 0 => p.r = recv /\ SameFrom(heap, p.h, recv.c))
  BY <1>1, <1>2, <1>3, <1>4, RecvPrepared
<1>6. /\ Owned(g, Plus(X, rc)) /\ Kept(heap, g, X) /\ rc \in DOMAIN g /\ rp \in Nat /\ rp < g[rc].cap
      /\ Covered(g, rc, rp, n) /\ IsHeap(g)
  BY <1>5 DEF IsPrepared, Owned
<1>7. rc \in Nat \ {0}
  BY <1>6, ChunkFields
<1>8. Owned(h, Plus(X, rc)) /\ Kept(g, h, Plus(X, rc)) /\ DOMAIN h = DOMAIN g /\ Fewer(g, h)
  <2> HIDE DEF g, rc, rp
  <2> QED BY <1>6, <1>e, WriteOwned
<1>9. Kept(heap, h, B)
  <2>1. Kept(g, h, X)
    BY <1>2, <1>7, <1>8, KeptLess
  <2>2. Kept(heap, h, X)
    BY <1>6, <2>1, KeptTrans
  <2>3. Kept(heap, h, A)
    BY <1>1, <1>2, <1>e, <2>2, KeptLess
  <2> QED BY <1>1, <1>e, <2>3, KeptLess
<1>10. SameFrom(g, h, rc)
  BY <1>2, <1>7, <1>8, KeptFrom
<1>11. rc \in DOMAIN h /\ rp < h[rc].cap /\ Covered(h, rc, rp, n)
  BY <1>6, <1>10 DEF SameFrom
<1>12. ASSUME ~plain, dc # 0
       PROVE  Meet(h, dc, decoder.spos, decoder.size, rc, rp, 0)
              /\ Inside(h, dc, decoder.spos) /\ dc \in DOMAIN h
  <2>1. Meet(heap, dc, decoder.spos, decoder.size, recv.c, recv.pos, 0) /\ decoder.spos \in Nat /\ decoder.size \in Nat
    BY <1>1, <1>4, <1>12 DEF SocketOk
  <2>a. Inside(heap, dc, decoder.spos)
    <3>1. BufferOk(heap, AsBuffer(decoder))
      BY <1>1, <1>12 DEF SocketOk
    <3>2. Inside(heap, AsBuffer(decoder).head, AsBuffer(decoder).spos)
      BY <3>1 DEF BufferOk
    <3> QED BY <3>2, AsBufferFields
  <2>2. recv.c # 0 /\ rc = recv.c /\ rp = recv.pos /\ SameFrom(heap, g, rc)
    BY <1>4, <1>5, <1>12
  <2>3. X[dc] > 0
    <3>1. X = Plus(A, dc)
      BY <1>12, <1>e
    <3>2. X[dc] = A[dc] + One(dc, dc)
      BY <1>1, <1>2, <3>1, PlusCounts
    <3>3. A[dc] \in Nat
      BY <1>1, <1>2 DEF IsCount
    <3> QED BY <3>2, <3>3 DEF One
  <2>4. SameFrom(heap, g, dc)
    BY <1>1, <1>6, <1>12, <2>3 DEF Kept
  <2>5. Plus(X, rc)[dc] > 0
    <3>1. Plus(X, rc)[dc] = X[dc] + One(rc, dc)
      BY <1>1, <1>2, <1>7, PlusCounts
    <3>2. X[dc] \in Nat
      BY <1>1, <1>2 DEF IsCount
    <3> QED BY <2>3, <3>1, <3>2 DEF One
  <2>6. SameFrom(g, h, dc)
    BY <1>1, <1>8, <1>12, <2>5 DEF Kept
  <2> HIDE DEF g, dc, rc, rp
  <2>7. Meet(g, dc, decoder.spos, decoder.size, rc, rp, 0)
    <3>1. Meet(heap, dc, decoder.spos, decoder.size, rc, rp, 0) /\ rp \in Nat /\ 0 \in Nat
      BY <1>6, <2>1, <2>2
    <3> QED BY ONLY <2>1, <2>2, <2>4, <3>1, MeetKept
  <2>8. Meet(h, dc, decoder.spos, decoder.size, rc, rp, 0)
    <3>1. rp \in Nat /\ 0 \in Nat
      BY <1>6
    <3> QED BY ONLY <1>10, <2>1, <2>6, <2>7, <3>1, MeetKept
  <2>9. Inside(h, dc, decoder.spos) /\ dc \in DOMAIN h
    <3>1. h[dc].cap = heap[dc].cap /\ dc \in DOMAIN h
      BY <2>4, <2>6 DEF SameFrom
    <3> QED BY <1>12, <2>a, <3>1 DEF Inside
  <2> QED BY <2>8, <2>9
<1> QED BY <1>7, <1>6, <1>8, <1>9, <1>11, <1>12, <1>e DEF IsRead

(* The decoder knows of the bytes that were read.                            *)
IsUpdated(A, h, d, r, n) ==
  /\ Owned(h, Plus(Plus(A, r.c), DecoderRef(plain, d))) /\ Kept(heap, h, Lists(buffer, queue, lost))
  /\ SocketOk(h, plain, "unpack", r, d, n)

At(c, spos, size) == [c |-> c, spos |-> spos, size |-> size]
LEMMA AtFields ==
  ASSUME NEW c, NEW spos, NEW size
  PROVE  At(c, spos, size).c = c /\ At(c, spos, size).spos = spos /\ At(c, spos, size).size = size
BY DEF At

LEMMA DefaultUpdates ==
  ASSUME plain = TRUE, NEW A, IsCount(A), NEW r, NEW n \in Nat \ {0}, NEW h, IsRead(A, 0, h, r, n),
         NEW d, d = At(r.c, r.pos, n)
  PROVE  IsUpdated(A, h, d, r, n)
<1>1. d.c = r.c /\ d.spos = r.pos /\ d.size = n
  BY AtFields
<1>2. /\ Owned(h, Plus(Plus(A, 0), r.c)) /\ r.c \in Nat \ {0} /\ r.pos \in Nat /\ r.c \in DOMAIN h
      /\ r.pos < h[r.c].cap /\ Covered(h, r.c, r.pos, n) /\ Kept(heap, h, Lists(buffer, queue, lost))
  BY DEF IsRead
<1>3. Plus(Plus(A, 0), r.c) = Plus(Plus(A, r.c), 0) /\ DecoderRef(plain, d) = 0
  BY <1>2, PlusSwapped DEF DecoderRef
<1>4. SocketOk(h, plain, "unpack", r, d, n)
  <2>1. n \in Nat /\ n # 0 /\ r.c # 0 /\ r.c \in Nat /\ "unpack" # "loop"
    BY <1>2
  <2>2. Inside(h, r.c, r.pos)
    BY <1>2 DEF Inside
  <2> QED BY <1>1, <1>2, <2>1, <2>2 DEF SocketOk
<1> QED BY <1>2, <1>3, <1>4 DEF IsUpdated

LEMMA FirstUpdates ==
  ASSUME plain = FALSE, NEW A, IsCount(A), NEW r, NEW n \in Nat \ {0}, NEW h, IsRead(A, 0, h, r, n),
         NEW d, d = At(r.c, r.pos, n), NEW h2, h2 = chk_bytechunk_retain(h, r.c)
  PROVE  IsUpdated(A, h2, d, r, n)
<1>1. d.c = r.c /\ d.spos = r.pos /\ d.size = n
  BY AtFields
<1>2. /\ Owned(h, Plus(Plus(A, 0), r.c)) /\ r.c \in Nat \ {0} /\ r.pos \in Nat /\ r.c \in DOMAIN h
      /\ r.pos < h[r.c].cap /\ Covered(h, r.c, r.pos, n) /\ Kept(heap, h, Lists(buffer, queue, lost))
  BY DEF IsRead
<1>3. IsCount(Plus(A, r.c)) /\ Plus(Plus(A, 0), r.c) = Plus(Plus(A, r.c), 0)
  BY <1>2, PlusCounts, PlusSwapped
<1>4. Owned(h, Plus(A, r.c)) /\ IsHeap(h)
  <2>1. Owned(h, Plus(Plus(A, r.c), 0))
    BY <1>2, <1>3
  <2>2. Owned(h, Plus(A, r.c))
    BY <1>3, <2>1, NullOwned
  <2> QED BY <2>2 DEF Owned
<1>5. /\ Owned(h2, Plus(Plus(A, r.c), r.c)) /\ Kept(h, h2, Plus(A, r.c))
      /\ \A x \in DOMAIN h : SameFrom(h, h2, x)
  BY <1>2, <1>4, RetainKept
<1>6. Kept(heap, h2, Lists(buffer, queue, lost))
  <2> DEFINE B == Lists(buffer, queue, lost)
  <2>1. Kept(heap, h, B)
    BY <1>2
  <2>2. ASSUME NEW c \in Nat \ {0}, B[c] > 0 PROVE SameFrom(heap, h2, c)
    <3>1. SameFrom(heap, h, c)
      BY <2>1, <2>2 DEF Kept
    <3>2. SameFrom(h, h2, c)
      BY <1>5, <3>1 DEF SameFrom
    <3> QED BY <3>1, <3>2 DEF SameFrom
  <2> QED BY <2>2 DEF Kept
<1>7. DecoderRef(plain, d) = r.c
  BY <1>1 DEF DecoderRef
<1>8. SocketOk(h2, plain, "unpack", r, d, n)
  <2>1. n \in Nat /\ n # 0 /\ r.c # 0 /\ r.c \in Nat /\ "unpack" # "loop"
    BY <1>2
  <2>2. SameFrom(h, h2, r.c)
    BY <1>2, <1>5
  <2>3. Inside(h2, r.c, r.pos) /\ Covered(h2, r.c, r.pos, n)
    BY <1>2, <2>2 DEF Inside, SameFrom
  <2>4. Meet(h2, r.c, r.pos, n, r.c, r.pos, n)
    BY <1>2, <2>3, MeetSelf
  <2>5. BufferOk(h2, AsBuffer(d))
    BY <1>1, <1>2, <2>3, AsBufferFields DEF BufferOk, BufNats
  <2> QED BY <1>1, <1>2, <2>1, <2>3, <2>4, <2>5 DEF SocketOk
<1> QED BY <1>5, <1>6, <1>7, <1>8 DEF IsUpdated

LEMMA MoreUpdates ==
  ASSUME plain = FALSE, decoder.c \in Nat \ {0}, decoder.spos \in Nat, decoder.size \in Nat,
         NEW A, IsCount(A), NEW r, NEW n \in Nat \ {0}, NEW h, IsRead(A, decoder.c, h, r, n),
         NEW d, d = At(decoder.c, decoder.spos, decoder.size + n)
  PROVE  IsUpdated(A, h, d, r, n)
<1>1. d.c = decoder.c /\ d.spos = decoder.spos /\ d.size = decoder.size + n
  BY AtFields
<1>2. /\ Owned(h, Plus(Plus(A, decoder.c), r.c)) /\ r.c \in Nat \ {0} /\ r.pos \in Nat /\ r.c \in DOMAIN h
      /\ r.pos < h[r.c].cap /\ Covered(h, r.c, r.pos, n) /\ Kept(heap, h, Lists(buffer, queue, lost))
      /\ Meet(h, decoder.c, decoder.spos, decoder.size, r.c, r.pos, 0) /\ decoder.c \in DOMAIN h
      /\ Inside(h, decoder.c, decoder.spos)
  BY DEF IsRead
<1>3. IsHeap(h)
  BY <1>2 DEF Owned
<1>4. Plus(Plus(A, decoder.c), r.c) = Plus(Plus(A, r.c), decoder.c) /\ DecoderRef(plain, d) = decoder.c
  BY <1>1, <1>2, PlusSwapped DEF DecoderRef
<1>5. SocketOk(h, plain, "unpack", r, d, n)
  <2>1. n \in Nat /\ n # 0 /\ r.c # 0 /\ r.c \in Nat /\ "unpack" # "loop" /\ decoder.size + n \in Nat
    BY <1>2
  <2>2. Inside(h, r.c, r.pos)
    BY <1>2 DEF Inside
  <2>3. Meet(h, decoder.c, decoder.spos, decoder.size + n, r.c, r.pos, n)
    BY <1>2, <1>3, MeetGrows
  <2>4. Covered(h, decoder.c, decoder.spos, decoder.size + n)
    BY <2>3 DEF Meet
  <2>5. BufferOk(h, AsBuffer(d))
    BY <1>1, <1>2, <2>1, <2>4, AsBufferFields DEF BufferOk, BufNats
  <2> QED BY <1>1, <1>2, <2>1, <2>2, <2>3, <2>5 DEF SocketOk
<1> QED BY <1>2, <1>4, <1>5 DEF IsUpdated

(* What the decoder, the socket and the heap are after a step of the receiving side. *)
LEMMA SocketStepKeeps ==
  ASSUME Good, Kept(heap, heap', Lists(buffer, queue, lost)),
         Owned(heap', Plus(Plus(Plus(Lists(buffer, queue, lost), packet'.head), recv'.c), DecoderRef(plain', decoder'))),
         PacketOk(heap', phase', packet'), SocketOk(heap', plain', phase', recv', decoder', bytes'),
         UNCHANGED <<buffer, used, queue, lost, wire, ops>>, nRead' \in Nat
  PROVE  Good'
<1>1. /\ IsHeap(heap) /\ SlotsOk(heap, buffer, used) /\ QueueOk(heap, queue) /\ IsList(lost)
  BY GoodSocket
<1>2. IsSlotStep(heap', buffer, used, queue, lost, packet', phase', recv', plain', decoder', bytes')
  BY <1>1, SocketStep
<1>3. buffer' = buffer /\ used' = used /\ queue' = queue /\ lost' = lost /\ wire' = wire /\ ops' = ops
  OBVIOUS
<1>4. /\ Owned(heap', All(buffer, queue, lost, packet', recv', plain', decoder'))
      /\ Parts(heap', buffer, used, queue, lost, packet', phase', recv', plain', decoder', bytes')
  BY <1>2 DEF IsSlotStep
<1>5. wire \in Seq(Nat) /\ ops \in Nat
  BY DEF Good
<1> QED BY <1>3, <1>4, <1>5 DEF Good

(* process_read. *)
LEMMA ProcessReadKeeps ==
  ASSUME Good, NEW n \in Taken(Least(prepare_recv.room, Len(wire) - nRead)), process_read(n)
  PROVE  Good'
<1> DEFINE B == Lists(buffer, queue, lost)
           A == Plus(B, packet.head)
           ref == DecoderRef(plain, decoder)
           p == prepare_recv
           r == p.r
           in == SubSeq(wire, nRead + 1, nRead + n)
           h == chk_bytechunk_write(p.h, r.c, r.pos, in)
           u == IF plain THEN default_update(h, r.c, r.pos, n) ELSE packet_decoder_update(h, r.c, r.pos, n)
<1>1. /\ phase = "loop" /\ recv' = r /\ heap' = u.h /\ decoder' = u.d /\ n <= p.room /\ nRead + n <= Len(wire)
      /\ nRead' = nRead + n /\ bytes' = n /\ phase' = "unpack" /\ plain' = plain /\ packet' = packet
      /\ UNCHANGED <<buffer, used, queue, lost, wire, ops>>
  BY DEF process_read, script, outgoing
<1>2. /\ IsCount(B) /\ SocketOk(heap, plain, phase, recv, decoder, bytes)
      /\ packet.head \in Nat /\ PacketOk(heap, phase, packet) /\ IsHeap(heap)
  BY GoodSocket
<1>3. wire \in Seq(Nat) /\ nRead \in Nat /\ Len(wire) \in Nat
  BY DEF Good
<1>4. n \in Nat \ {0}
  <2> DEFINE m == Least(prepare_recv.room, Len(wire) - nRead)
  <2>1. n \in 1..m
    BY DEF Taken
  <2> QED BY <2>1
<1>5. in \in Seq(Nat)
  <2>1. nRead + n <= Len(wire) /\ nRead + 1 \in Nat /\ nRead + 1 >= 1 /\ nRead + n \in Nat
    BY <1>1, <1>3, <1>4
  <2> QED BY <1>3, <2>1
<1>6. IsCount(A)
  BY <1>2, PlusCounts
<1>e. /\ p = prepare_recv /\ r = p.r /\ h = chk_bytechunk_write(p.h, p.r.c, p.r.pos, in)
      /\ A = Plus(Lists(buffer, queue, lost), packet.head) /\ ref = DecoderRef(plain, decoder)
      /\ u = IF plain THEN default_update(h, r.c, r.pos, n) ELSE packet_decoder_update(h, r.c, r.pos, n)
      /\ (~plain => ref = decoder.c) /\ (plain => ref = 0)
  BY DEF DecoderRef
<1> HIDE DEF B, A, ref, p, in, h, u, r
<1>7. IsRead(A, ref, h, r, n)
  BY <1>1, <1>4, <1>5, <1>e, ReadMakes
<1>8. plain \in BOOLEAN /\ decoder.c \in Nat /\ decoder.spos \in Nat /\ decoder.size \in Nat
  BY <1>2 DEF SocketOk
<1>9. IsUpdated(A, u.h, u.d, r, n)
  <2>1. CASE plain = TRUE
    <3>1. u.h = h /\ u.d = At(r.c, r.pos, n) /\ ref = 0
      BY <1>e, <2>1 DEF default_update, At
    <3> QED BY <1>4, <1>6, <1>7, <2>1, <3>1, DefaultUpdates
  <2>2. CASE plain = FALSE /\ decoder.c = 0
    <3>1. u.h = chk_bytechunk_retain(h, r.c) /\ u.d = At(r.c, r.pos, n) /\ ref = 0
      BY <1>e, <2>2 DEF packet_decoder_update, At, NULL
    <3> QED BY <1>4, <1>6, <1>7, <2>2, <3>1, FirstUpdates
  <2>3. CASE plain = FALSE /\ decoder.c # 0
    <3>1. u.h = h /\ u.d = At(decoder.c, decoder.spos, decoder.size + n) /\ ref = decoder.c
      BY <1>e, <2>3 DEF packet_decoder_update, At, NULL
    <3>2. decoder.c \in Nat \ {0}
      BY <1>8, <2>3
    <3> QED BY <1>4, <1>6, <1>7, <1>8, <2>3, <3>1, <3>2, MoreUpdates
  <2> QED BY <1>8, <2>1, <2>2, <2>3
<1>10. /\ Owned(heap', Plus(Plus(A, recv'.c), DecoderRef(plain', decoder')))
       /\ Kept(heap, heap', Lists(buffer, queue, lost))
       /\ SocketOk(heap', plain', phase', recv', decoder', bytes')
  BY <1>1, <1>9 DEF IsUpdated
<1>11. PacketOk(heap', phase', packet')
  <2>1. packet = Empty
    BY <1>1, <1>2 DEF PacketOk
  <2>2. IsHeap(heap')
    BY <1>10 DEF Owned
  <2>3. BufferOk(heap', Empty)
    BY <2>2, EmptyOk
  <2> QED BY <1>1, <2>1, <2>3 DEF PacketOk
<1>12. nRead' \in Nat
  BY <1>1, <1>3, <1>4
<1>13. A = Plus(Lists(buffer, queue, lost), packet'.head)
  BY <1>1, <1>e
<1> QED BY <1>1, <1>10, <1>11, <1>12, <1>13, SocketStepKeeps

-----------------------------------------------------------------------------
(* The end of a read, and of a callback. *)

LEMMA ReadReturnsKeeps ==
  ASSUME Good, ReadReturns
  PROVE  Good'
<1> DEFINE B == Lists(buffer, queue, lost)
           A == Plus(B, packet.head)
           ref == DecoderRef(plain, decoder)
           X == Plus(A, ref)
           w == update_next_recv_pos(heap, recv, bytes)
<1>1. /\ phase = "unpack" /\ ~HasPacket /\ heap' = w.h /\ recv' = w.r /\ phase' = "loop" /\ bytes' = 0
      /\ plain' = plain /\ packet' = packet /\ decoder' = decoder /\ nRead' = nRead
      /\ UNCHANGED <<buffer, used, queue, lost, wire, ops>>
  BY DEF ReadReturns, script, outgoing
<1>2. /\ IsHeap(heap) /\ IsCount(B) /\ SocketOk(heap, plain, phase, recv, decoder, bytes) /\ PacketOk(heap, phase, packet)
      /\ packet.head \in Nat /\ recv.c \in Nat /\ decoder.c \in Nat /\ ref \in Nat
      /\ Owned(heap, Plus(Plus(A, recv.c), ref))
  BY GoodSocket
<1>3. nRead \in Nat
  BY DEF Good
<1>4. /\ plain \in BOOLEAN /\ bytes \in Nat /\ recv.c # 0 /\ recv.pos \in Nat /\ decoder.spos \in Nat /\ decoder.size \in Nat
      /\ Covered(heap, recv.c, recv.pos, bytes) /\ recv.c \in DOMAIN heap /\ recv.pos < heap[recv.c].cap
  BY <1>1, <1>2 DEF SocketOk, Inside
<1>5. plain => decoder.c = 0
  BY <1>1 DEF HasPacket, NULL
<1>6. ~plain => /\ BufferOk(heap, AsBuffer(decoder))
                /\ decoder.c # 0 => Meet(heap, decoder.c, decoder.spos, decoder.size, recv.c, recv.pos, bytes)
  BY <1>2 DEF SocketOk
<1>e. (~plain => ref = decoder.c) /\ B = Lists(buffer, queue, lost) /\ w = update_next_recv_pos(heap, recv, bytes)
      /\ A = Plus(B, packet.head) /\ X = Plus(A, ref) /\ ref = DecoderRef(plain, decoder)
  BY DEF DecoderRef
<1> HIDE DEF B, ref, w
<1>7. IsCount(A)
  BY <1>2, PlusCounts
<1> HIDE DEF A
<1>8. IsCount(X) /\ Owned(heap, Plus(X, recv.c))
  BY <1>2, <1>7, PlusCounts, PlusSwapped
<1> HIDE DEF X
<1>9. DecoderHeld(X, decoder)
  <2>1. ASSUME decoder.c # 0 PROVE X[decoder.c] > 0
    <3>1. X = Plus(A, decoder.c)
      BY <1>5, <1>e, <2>1
    <3>2. X[decoder.c] = A[decoder.c] + One(decoder.c, decoder.c)
      BY <1>2, <1>7, <3>1, PlusCounts
    <3>3. A[decoder.c] \in Nat
      BY <1>2, <1>7 DEF IsCount
    <3> QED BY <3>2, <3>3 DEF One
  <2> QED BY <1>2, <1>4, <2>1 DEF DecoderHeld
<1>10. Reading(heap, X, w, decoder, 0) /\ w.n = 0
  <2>1. decoder.c # 0 => Meet(heap, decoder.c, decoder.spos, decoder.size, recv.c, recv.pos, bytes)
    BY <1>4, <1>5, <1>6
  <2> QED BY <1>4, <1>8, <1>9, <1>e, <2>1, NextPosOwned
<1>11. /\ Owned(w.h, Plus(X, w.r.c)) /\ Kept(heap, w.h, X) /\ w.r.c \in DOMAIN w.h /\ w.r.pos \in Nat
       /\ w.r.pos < w.h[w.r.c].cap /\ Covered(w.h, w.r.c, w.r.pos, 0)
       /\ (decoder.c # 0 => Meet(w.h, decoder.c, decoder.spos, decoder.size, w.r.c, w.r.pos, 0))
  BY <1>10 DEF Reading
<1>12. IsHeap(w.h) /\ w.r.c \in Nat \ {0}
  <2>1. IsHeap(w.h)
    BY <1>11 DEF Owned
  <2> DEFINE g == w.h
  <2>2. IsHeap(g) /\ w.r.c \in DOMAIN g
    BY <1>11, <2>1
  <2> HIDE DEF g
  <2>3. w.r.c \in Nat \ {0}
    BY <2>2, ChunkFields
  <2> QED BY <2>1, <2>3
<1>13. Kept(heap, w.h, B)
  <2>1. Kept(heap, w.h, A)
    BY <1>2, <1>7, <1>11, <1>e, KeptLess
  <2> QED BY <1>2, <2>1, <1>e, KeptLess
<1>14. ASSUME ~plain PROVE BufferOk(w.h, AsBuffer(decoder))
  <2>1. decoder.c # 0 => SameFrom(heap, w.h, decoder.c)
    BY <1>2, <1>9, <1>11 DEF Kept, DecoderHeld
  <2> QED BY <1>2, <1>6, <1>12, <1>14, <2>1, DecoderKept
<1>15. SocketOk(w.h, plain, "loop", w.r, decoder, 0)
  <2>1. Inside(w.h, w.r.c, w.r.pos)
    BY <1>11 DEF Inside
  <2> QED BY <1>2, <1>4, <1>5, <1>11, <1>12, <1>14, <2>1 DEF SocketOk
<1>16. PacketOk(w.h, "loop", packet)
  <2>1. packet = Empty
    BY <1>1, <1>2 DEF PacketOk
  <2>2. BufferOk(w.h, Empty)
    BY <1>12, EmptyOk
  <2> QED BY <2>1, <2>2 DEF PacketOk
<1>17. Owned(w.h, Plus(Plus(A, w.r.c), ref))
  BY <1>2, <1>7, <1>11, <1>12, <1>e, PlusSwapped
<1>18. Owned(heap', Plus(Plus(Plus(Lists(buffer, queue, lost), packet'.head), recv'.c), DecoderRef(plain', decoder')))
  BY <1>1, <1>17, <1>e
<1>19. /\ Kept(heap, heap', Lists(buffer, queue, lost)) /\ PacketOk(heap', phase', packet')
       /\ SocketOk(heap', plain', phase', recv', decoder', bytes') /\ nRead' \in Nat
  BY <1>1, <1>3, <1>13, <1>15, <1>16, <1>e
<1> QED BY <1>1, <1>18, <1>19, SocketStepKeeps

LEMMA CallbackReturnsKeeps ==
  ASSUME Good, CallbackReturns
  PROVE  Good'
<1> DEFINE B == Lists(buffer, queue, lost)
           ref == DecoderRef(plain, decoder)
           A == Plus(B, recv.c)
           X == Plus(A, ref)
           h == chk_bytebuffer_finalize(heap, packet)
<1>1. /\ phase = "callback" /\ heap' = h /\ recv' = recv /\ phase' = "unpack" /\ bytes' = bytes
      /\ plain' = plain /\ packet' = Empty /\ decoder' = decoder /\ nRead' = nRead
      /\ UNCHANGED <<buffer, used, queue, lost, wire, ops>>
  BY DEF CallbackReturns, script, outgoing
<1>2. /\ IsHeap(heap) /\ IsCount(B) /\ SocketOk(heap, plain, phase, recv, decoder, bytes)
      /\ packet.head \in Nat /\ recv.c \in Nat /\ decoder.c \in Nat /\ ref \in Nat
      /\ Owned(heap, Plus(Plus(Plus(B, packet.head), recv.c), ref))
  BY GoodSocket
<1>3. nRead \in Nat
  BY DEF Good
<1>e. (~plain => ref = decoder.c) /\ B = Lists(buffer, queue, lost) /\ h = chk_bytebuffer_finalize(heap, packet)
      /\ A = Plus(B, recv.c) /\ X = Plus(A, ref) /\ ref = DecoderRef(plain, decoder)
  BY DEF DecoderRef
<1> HIDE DEF B, ref, h
<1>4. IsCount(A)
  BY <1>2, PlusCounts
<1>5. Owned(heap, Plus(Plus(A, packet.head), ref))
  BY <1>2, PlusSwapped
<1> HIDE DEF A
<1>6. IsCount(X) /\ Owned(heap, Plus(X, packet.head))
  BY <1>2, <1>4, <1>5, PlusCounts, PlusSwapped
<1> HIDE DEF X
<1>7. Owned(h, X) /\ Kept(heap, h, X) /\ IsHeap(h)
  <2>1. Owned(h, X) /\ Kept(heap, h, X)
    BY <1>2, <1>6, <1>e, FinalizeOwned
  <2> QED BY <2>1 DEF Owned
<1>8. Kept(heap, h, A) /\ Kept(heap, h, B)
  <2>1. Kept(heap, h, A)
    BY <1>2, <1>4, <1>7, <1>e, KeptLess
  <2> QED BY <1>2, <1>4, <2>1, <1>e, KeptLess
<1>9. Owned(h, Plus(Plus(Plus(B, 0), recv.c), ref))
  <2>1. Owned(h, Plus(Plus(A, ref), 0))
    BY <1>6, <1>7, <1>e, NullOwned
  <2>2. Owned(h, Plus(Plus(A, 0), ref))
    BY <1>2, <1>4, <2>1, PlusSwapped
  <2>3. Plus(A, 0) = Plus(Plus(B, 0), recv.c)
    BY <1>2, <1>e, PlusSwapped
  <2> QED BY <2>2, <2>3
<1>10. SameFrom(heap, h, recv.c) \/ recv.c = 0
  BY <1>2, <1>8, <1>e, KeptFrom
<1>11. SameFrom(heap, h, decoder.c) \/ decoder.c = 0 \/ plain
  BY <1>2, <1>4, <1>7, <1>e, KeptFrom
<1>12. SocketOk(heap, plain, "unpack", recv, decoder, bytes)
  BY <1>1, <1>2 DEF SocketOk
<1>13. SocketOk(h, plain, "unpack", recv, decoder, bytes)
  BY <1>2, <1>7, <1>10, <1>11, <1>12, SocketKept
<1>14. PacketOk(h, "unpack", Empty) /\ Empty.head = 0
  <2>1. BufferOk(h, Empty)
    BY <1>7, EmptyOk
  <2> QED BY <2>1 DEF PacketOk, Empty, Buffer, NULL
<1>15. Owned(heap', Plus(Plus(Plus(Lists(buffer, queue, lost), packet'.head), recv'.c), DecoderRef(plain', decoder')))
  BY <1>1, <1>9, <1>14, <1>e
<1>16. /\ Kept(heap, heap', Lists(buffer, queue, lost)) /\ PacketOk(heap', phase', packet')
       /\ SocketOk(heap', plain', phase', recv', decoder', bytes') /\ nRead' \in Nat
  BY <1>1, <1>3, <1>8, <1>13, <1>14, <1>e
<1> QED BY <1>1, <1>15, <1>16, SocketStepKeeps

-----------------------------------------------------------------------------
(* The connection goes. *)

LEMMA GivenOwned ==
  ASSUME NEW h, NEW X, IsCount(X), NEW c \in Nat, Owned(h, Plus(X, c)), NEW h2, h2 = Given(h, c)
  PROVE  Owned(h2, X) /\ Kept(h, h2, X)
<1>1. CASE c = 0
  <2>1. h2 = h /\ Owned(h, X)
    BY <1>1, NullOwned DEF Given, NULL
  <2>2. Kept(h, h, X)
    BY <2>1, KeptSame
  <2> QED BY <2>1, <2>2
<1>2. CASE c # 0
  <2>1. h2 = chk_bytechunk_release(h, c)
    BY <1>2 DEF Given, NULL
  <2> QED BY <2>1, ReleaseOwned
<1> QED BY <1>1, <1>2

(* The socket's two positions and the packet refer to nothing.               *)
LEMMA ThreeNulls ==
  ASSUME NEW h, NEW X, IsCount(X), Owned(h, X)
  PROVE  Owned(h, Plus(Plus(Plus(X, 0), 0), 0))
<1>1. IsCount(Plus(X, 0)) /\ Owned(h, Plus(X, 0))
  BY PlusCounts, NullOwned
<1>2. IsCount(Plus(Plus(X, 0), 0)) /\ Owned(h, Plus(Plus(X, 0), 0))
  BY <1>1, PlusCounts, NullOwned
<1> QED BY <1>2, NullOwned

LEMMA NothingReceived ==
  ASSUME NEW h, IsHeap(h), NEW pl \in BOOLEAN, NEW r, r = [c |-> 0, pos |-> 0],
         NEW d, d = [c |-> 0, spos |-> 0, size |-> 0]
  PROVE  SocketOk(h, pl, "loop", r, d, 0) /\ PacketOk(h, "loop", Empty) /\ DecoderRef(pl, d) = 0 /\ r.c = 0
<1>1. r.c = 0 /\ r.pos = 0 /\ d.c = 0 /\ d.spos = 0 /\ d.size = 0
  OBVIOUS
<1>2. Inside(h, 0, 0) /\ Covered(h, 0, 0, 0)
  BY NothingCovered DEF Inside
<1>3. BufferOk(h, AsBuffer(d))
  BY <1>1, <1>2, AsBufferFields DEF BufferOk, BufNats
<1>4. SocketOk(h, pl, "loop", r, d, 0)
  BY <1>1, <1>2, <1>3 DEF SocketOk
<1>5. BufferOk(h, Empty)
  BY EmptyOk
<1> QED BY <1>1, <1>4, <1>5 DEF PacketOk, DecoderRef

LEMMA ReleaseSocketKeeps ==
  ASSUME Good, release_socket
  PROVE  Good'
<1> DEFINE B == Lists(buffer, queue, lost)
           E == Lists(buffer, <<>>, lost)
           ref == DecoderRef(plain, decoder)
           A == Plus(B, packet.head)
           X == Plus(A, ref)
           h1 == Given(heap, recv.c)
           h2 == Given(h1, decoder.c)
           h3 == Released(h2, queue)
           r0 == [c |-> 0, pos |-> 0]
           d0 == [c |-> 0, spos |-> 0, size |-> 0]
<1>1. /\ phase = "loop" /\ heap' = h3 /\ recv' = r0 /\ decoder' = d0 /\ phase' = phase /\ bytes' = bytes
      /\ plain' = plain /\ packet' = packet /\ nRead' = 0 /\ queue' = <<>> /\ wire' = <<>>
      /\ ops' = ops + 1 /\ UNCHANGED <<buffer, used, lost>>
  BY DEF release_socket, script, NULL, Counted
<1>2. /\ IsHeap(heap) /\ IsCount(B) /\ SocketOk(heap, plain, phase, recv, decoder, bytes)
      /\ packet.head \in Nat /\ recv.c \in Nat /\ decoder.c \in Nat /\ ref \in Nat
      /\ Owned(heap, Plus(Plus(A, recv.c), ref)) /\ PacketOk(heap, phase, packet)
      /\ SlotsOk(heap, buffer, used) /\ QueueOk(heap, queue) /\ IsList(lost)
  BY GoodSocket
<1>3. plain \in BOOLEAN /\ bytes = 0 /\ packet = Empty /\ packet.head = 0 /\ ref = decoder.c
  BY <1>1, <1>2 DEF SocketOk, PacketOk, DecoderRef, Empty, Buffer, NULL
<1>e. /\ B = Lists(buffer, queue, lost) /\ h1 = Given(heap, recv.c) /\ h2 = Given(h1, decoder.c) /\ h3 = Released(h2, queue)
      /\ A = Plus(B, packet.head) /\ X = Plus(A, ref) /\ E = Lists(buffer, <<>>, lost)
      /\ r0 = [c |-> 0, pos |-> 0] /\ d0 = [c |-> 0, spos |-> 0, size |-> 0]
  OBVIOUS
<1> HIDE DEF B, ref, h1, h2, h3, E, r0, d0
<1>4. IsCount(A)
  BY <1>2, PlusCounts
<1> HIDE DEF A
<1>5. IsCount(X) /\ Owned(heap, Plus(X, recv.c))
  BY <1>2, <1>4, PlusCounts, PlusSwapped
<1> HIDE DEF X
<1>6. Owned(h1, X) /\ Kept(heap, h1, X)
  BY <1>2, <1>5, <1>e, GivenOwned
<1>7. Owned(h2, A) /\ Kept(h1, h2, A)
  <2>1. Owned(h1, Plus(A, decoder.c))
    BY <1>3, <1>6, <1>e
  <2> QED BY <1>2, <1>4, <1>e, <2>1, GivenOwned
<1>8. Owned(h2, B) /\ Kept(heap, h2, B) /\ IsHeap(h2)
  <2>1. A = Plus(B, 0)
    BY <1>3, <1>e
  <2>2. Owned(h2, B)
    BY <1>2, <1>7, <2>1, NullOwned
  <2>3. Kept(heap, h1, A)
    BY <1>2, <1>4, <1>6, <1>e, KeptLess
  <2>4. Kept(heap, h2, A)
    BY <1>7, <2>3, KeptTrans
  <2>5. Kept(heap, h2, B)
    BY <1>2, <2>1, <2>4, KeptLess
  <2> QED BY <2>2, <2>5 DEF Owned
<1>9. IsCount(None) /\ IsList(queue) /\ B = Held(buffer, queue, lost, None) /\ E = Held(buffer, <<>>, lost, None)
  BY <1>2, <1>e, NoneCounts DEF Lists, QueueOk
<1>10. QueueOk(h2, queue)
  BY <1>2, <1>8, <1>9, QueueKept
<1>11. Owned(h3, E) /\ Kept(h2, h3, E) /\ IsHeap(h3)
  <2>1. Owned(h3, E) /\ Kept(h2, h3, E)
    BY <1>2, <1>8, <1>9, <1>10, <1>e, QueueReleased
  <2> QED BY <2>1 DEF Owned
<1>12. Kept(heap, h3, E) /\ IsCount(E)
  <2>1. \A c \in Nat : E[c] > 0 => B[c] > 0
    BY <1>2, <1>9, LessIsHeld
  <2>2. Kept(heap, h2, E)
    BY <1>8, <2>1, KeptWeaker
  <2> QED BY <1>11, <2>2, KeptTrans DEF Owned
<1>13. Owned(h3, Plus(Plus(Plus(E, 0), 0), 0))
  BY <1>11, <1>12, ThreeNulls
<1>14. /\ SocketOk(h3, plain, "loop", r0, d0, 0) /\ PacketOk(h3, "loop", Empty)
       /\ DecoderRef(plain, d0) = 0 /\ r0.c = 0
  BY <1>3, <1>11, <1>e, NothingReceived
<1>15. QueueOk(heap, <<>>)
  BY DEF QueueOk, IsList
<1>16. IsSlotStep(h3, buffer, used, <<>>, lost, Empty, "loop", r0, plain, d0, 0)
  <2>1. Owned(h3, Plus(Plus(Plus(Lists(buffer, <<>>, lost), Empty.head), r0.c), DecoderRef(plain, d0)))
    BY <1>3, <1>13, <1>14, <1>e
  <2>2. Kept(heap, h3, Lists(buffer, <<>>, lost))
    BY <1>12, <1>e
  <2> QED BY ONLY <1>2, <1>14, <1>15, <2>1, <2>2, SocketStep
<1>17. /\ Owned(h3, All(buffer, <<>>, lost, Empty, r0, plain, d0))
       /\ Parts(h3, buffer, used, <<>>, lost, Empty, "loop", r0, plain, d0, 0)
  BY <1>16 DEF IsSlotStep
<1>18. <<>> \in Seq(Nat) /\ ops + 1 \in Nat /\ 0 \in Nat
  BY DEF Good
<1>19. buffer' = buffer /\ used' = used /\ lost' = lost /\ packet' = Empty /\ bytes' = 0 /\ phase' = "loop"
  BY <1>1, <1>3
<1> QED BY <1>1, <1>17, <1>18, <1>19 DEF Good

(* The callback may keep a buffer of its own.                                *)
LEMMA PushKeeps ==
  ASSUME NEW h, NEW pk, NEW ph, NEW r, NEW pl, NEW d, NEW n,
         IsSlotStep(h, buffer, used, queue, lost, pk, ph, r, pl, d, n), PushBuffer(h, pk)
  PROVE  IsSlotStep(heap', buffer', used', queue, lost, pk, ph, r, pl, d, n)
<1>1. /\ Owned(h, All(buffer, queue, lost, pk, r, pl, d))
      /\ Parts(h, buffer, used, queue, lost, pk, ph, r, pl, d, n)
  BY DEF IsSlotStep
<1>2. CASE heap' = h /\ UNCHANGED <<buffer, used>>
  BY <1>1, <1>2 DEF IsSlotStep
<1>3. ASSUME NEW s \in Slot \ used, NEW p, p = chk_bytebuffer_init(h, pk.head, pk.spos, pk.datasize, pk.flags),
             heap' = p.h, buffer' = [buffer EXCEPT ![s] = p.b], used' = used \cup {s}
      PROVE  IsSlotStep(heap', buffer', used', queue, lost, pk, ph, r, pl, d, n)
  <2> DEFINE X == Others(buffer, queue, lost, s, OfSocket(pk, r, pl, d))
  <2>1. s \in Slot /\ s \notin used /\ used \subseteq Slot /\ buffer[s] = Empty
    BY <1>1, <1>3 DEF Parts, SlotsOk
  <2>2. IsCount(X) /\ Owned(h, Plus(X, buffer[s].head))
    BY <1>1, <2>1, SlotBefore DEF IsSlotOf
  <2> HIDE DEF X
  <2>3. Owned(h, X)
    <3>1. buffer[s].head = 0
      BY <2>1 DEF Empty, Buffer, NULL
    <3> QED BY <2>2, <3>1, NullOwned
  <2>4. IsHeap(h) /\ BufferOk(h, pk)
    BY <1>1, <2>3 DEF Parts, PacketOk, Owned
  <2>5. /\ pk.head \in DOMAIN h \cup {0} /\ pk.spos \in Nat /\ pk.datasize \in Nat /\ Inside(h, pk.head, pk.spos)
        /\ Covered(h, pk.head, pk.spos, pk.datasize)
    BY <2>4, BufferFacts DEF BufferOk
  <2>6. Owned(p.h, Plus(X, p.b.head)) /\ Kept(h, p.h, X) /\ BufferOk(p.h, p.b) /\ p.lost = 0
    BY <1>3, <2>3, <2>5, InitMakes
  <2>7. Changed(h, X, p)
    BY <2>2, <2>6, MadeIsChanged
  <2> DEFINE bf2 == [buffer EXCEPT ![s] = p.b]
             u2 == used \cup {s}
             l2 == IF p.lost = 0 THEN lost ELSE Append(lost, p.lost)
  <2>8. IsSlotStep(p.h, bf2, u2, queue, l2, pk, ph, r, pl, d, n)
    <3>1. Changed(h, Others(buffer, queue, lost, s, OfSocket(pk, r, pl, d)), p)
      BY <2>7 DEF X
    <3>2. u2 \subseteq Slot /\ s \in u2 /\ used \ {s} \subseteq u2
      BY <2>1
    <3>3. bf2 = [buffer EXCEPT ![s] = p.b] /\ l2 = IF p.lost = 0 THEN lost ELSE Append(lost, p.lost)
      OBVIOUS
    <3> HIDE DEF bf2, u2, l2
    <3> QED BY ONLY <1>1, <2>1, <3>1, <3>2, <3>3, SlotStep
  <2> QED BY <1>3, <2>6, <2>8
<1> QED BY <1>2, <1>3 DEF PushBuffer

(* What the decoder gave, before the callback is called.                     *)
IsUnpacked(h, b, d) == IsSlotStep(h, buffer, used, queue, lost, b, "callback", recv, plain, d, bytes)

LEMMA DefaultUnpacks ==
  ASSUME Good, phase = "unpack", plain = TRUE, decoder.c # 0, NEW flags,
         NEW r, r = chk_bytebuffer_init(heap, decoder.c, decoder.spos, decoder.size, flags),
         NEW d, d = At(0, decoder.spos, decoder.size)
  PROVE  IsUnpacked(r.h, r.b, d)
<1> DEFINE B == Lists(buffer, queue, lost)
           rc == recv.c
           h == r.h
           b == r.b
<1>1. /\ IsHeap(heap) /\ IsCount(B) /\ SocketOk(heap, plain, phase, recv, decoder, bytes)
      /\ packet.head \in Nat /\ recv.c \in Nat /\ PacketOk(heap, phase, packet)
      /\ Owned(heap, Plus(Plus(Plus(B, packet.head), rc), DecoderRef(plain, decoder)))
      /\ SlotsOk(heap, buffer, used) /\ QueueOk(heap, queue) /\ IsList(lost)
  BY GoodSocket
<1>2. packet.head = 0 /\ DecoderRef(plain, decoder) = 0 /\ DecoderRef(plain, d) = 0
  BY <1>1 DEF PacketOk, Empty, Buffer, NULL, DecoderRef
<1>3. /\ decoder.c = rc /\ decoder.spos = recv.pos /\ decoder.size = bytes /\ decoder.spos \in Nat
      /\ bytes \in Nat /\ bytes # 0 /\ rc # 0 /\ Inside(heap, rc, recv.pos) /\ Covered(heap, rc, recv.pos, bytes)
      /\ rc \in DOMAIN heap
  BY <1>1 DEF SocketOk, Inside
<1>4. d.c = 0 /\ d.spos = recv.pos /\ d.size = bytes
  BY <1>3, AtFields
<1> HIDE DEF B
<1>5. IsCount(Plus(B, 0)) /\ IsCount(Plus(B, rc)) /\ IsCount(Plus(Plus(B, 0), rc))
  <2>1. IsCount(Plus(B, 0)) /\ IsCount(Plus(B, rc))
    BY <1>1, PlusCounts
  <2> QED BY <1>1, <2>1, PlusCounts
<1>6. Owned(heap, Plus(B, rc))
  <2>1. Owned(heap, Plus(Plus(Plus(B, 0), rc), 0))
    BY <1>1, <1>2
  <2>2. Owned(heap, Plus(Plus(B, 0), rc))
    BY <1>5, <2>1, NullOwned
  <2>3. Owned(heap, Plus(Plus(B, rc), 0))
    BY <1>1, <2>2, PlusSwapped
  <2> QED BY <1>5, <2>3, NullOwned
<1>7. /\ Owned(h, Plus(Plus(B, rc), rc)) /\ Kept(heap, h, Plus(B, rc)) /\ BufferOk(h, b) /\ b.head = rc
      /\ \A x \in DOMAIN heap : SameFrom(heap, h, x)
  BY <1>3, <1>6, InitMakes
<1>8. IsHeap(h)
  BY <1>7 DEF Owned
<1>9. Owned(h, Plus(Plus(Plus(B, b.head), rc), DecoderRef(plain, d)))
  <2>1. IsCount(Plus(Plus(B, rc), rc))
    BY <1>1, <1>5, PlusCounts
  <2>2. Owned(h, Plus(Plus(Plus(B, rc), rc), 0))
    BY <1>7, <2>1, NullOwned
  <2> QED BY <1>2, <1>7, <2>2
<1>10. Kept(heap, h, B)
  BY <1>1, <1>7, KeptLess
<1>11. SocketOk(h, plain, "callback", recv, d, bytes)
  <2>1. SameFrom(heap, h, rc)
    BY <1>3, <1>7
  <2>2. Inside(h, rc, recv.pos) /\ Covered(h, rc, recv.pos, bytes)
    BY <1>3, <2>1 DEF Inside, SameFrom
  <2> QED BY <1>1, <1>3, <1>4, <2>2 DEF SocketOk
<1>12. PacketOk(h, "callback", b)
  BY <1>7 DEF PacketOk
<1>13. IsSlotStep(h, buffer, used, queue, lost, b, "callback", recv, plain, d, bytes)
  <2>1. Owned(h, Plus(Plus(Plus(Lists(buffer, queue, lost), b.head), recv.c), DecoderRef(plain, d)))
        /\ Kept(heap, h, Lists(buffer, queue, lost))
    BY <1>9, <1>10 DEF B
  <2> HIDE DEF h, b, rc
  <2> QED BY ONLY <1>1, <1>11, <1>12, <2>1, SocketStep
<1> QED BY <1>13 DEF IsUnpacked

-----------------------------------------------------------------------------
(* The packet decoder. *)

LEMMA PacketUnpacks ==
  ASSUME Good, phase = "unpack", plain = FALSE, decoder.c # 0, NEW size \in Nat, size <= decoder.size,
         NEW r, r = chk_bytebuffer_init(heap, decoder.c, decoder.spos, size, {}),
         NEW u, u = Behind(r.h, decoder, size)
  PROVE  IsUnpacked(u.h, r.b, u.d)
<1> DEFINE B == Lists(buffer, queue, lost)
           rc == recv.c
           dc == decoder.c
           C == Plus(B, rc)
           X == Plus(C, dc)
           Y == Plus(B, dc)
           h == r.h
           b == r.b
           g == u.h
           d == u.d
<1>1. /\ IsHeap(heap) /\ IsCount(B) /\ SocketOk(heap, plain, phase, recv, decoder, bytes)
      /\ packet.head \in Nat /\ rc \in Nat /\ dc \in Nat /\ PacketOk(heap, phase, packet)
      /\ Owned(heap, Plus(Plus(Plus(B, packet.head), rc), DecoderRef(plain, decoder)))
      /\ SlotsOk(heap, buffer, used) /\ QueueOk(heap, queue) /\ IsList(lost)
  BY GoodSocket
<1>2. packet.head = 0 /\ DecoderRef(plain, decoder) = dc /\ DecoderRef(plain, d) = d.c
  BY <1>1 DEF PacketOk, Empty, Buffer, NULL, DecoderRef
<1>3. /\ bytes \in Nat /\ bytes # 0 /\ rc # 0 /\ recv.pos \in Nat /\ Inside(heap, rc, recv.pos)
      /\ Covered(heap, rc, recv.pos, bytes) /\ rc \in DOMAIN heap /\ decoder.spos \in Nat /\ decoder.size \in Nat
      /\ BufferOk(heap, AsBuffer(decoder))
      /\ Meet(heap, dc, decoder.spos, decoder.size, rc, recv.pos, bytes)
  BY <1>1 DEF SocketOk, Inside
<1>4. Inside(heap, dc, decoder.spos) /\ Covered(heap, dc, decoder.spos, decoder.size) /\ dc \in DOMAIN heap
  BY <1>3, AsBufferFields DEF BufferOk, Inside
<1>5. Covered(heap, dc, decoder.spos, size)
  <2>1. size \in 0..decoder.size
    BY <1>3
  <2> QED BY <1>1, <1>3, <1>4, <2>1, CoveredLess
<1> HIDE DEF B, rc, dc
<1>6. IsCount(C) /\ IsCount(Y) /\ IsCount(Plus(B, 0)) /\ Plus(Plus(B, 0), rc) = Plus(C, 0)
      /\ X = Plus(Y, rc)
  BY <1>1, PlusCounts, PlusSwapped
<1>7. Owned(heap, X) /\ IsCount(X)
  <2>1. Owned(heap, Plus(Plus(C, 0), dc))
    BY <1>1, <1>2, <1>6
  <2> HIDE DEF C
  <2>2. IsCount(X)
    BY <1>1, <1>6, PlusCounts
  <2>3. Owned(heap, Plus(X, 0))
    BY <1>1, <1>6, <2>1, PlusSwapped
  <2> QED BY <2>2, <2>3, NullOwned
<1>8. /\ Owned(h, Plus(X, dc)) /\ Kept(heap, h, X) /\ BufferOk(h, b) /\ b.head = dc
      /\ \A x \in DOMAIN heap : SameFrom(heap, h, x)
  <2>1. r = chk_bytebuffer_init(heap, dc, decoder.spos, size, {})
    BY DEF dc
  <2>2. dc # 0
    BY DEF dc
  <2> HIDE DEF X
  <2> QED BY <1>3, <1>4, <1>5, <1>7, <2>1, <2>2, InitMakes
<1>9. IsHeap(h) /\ SameFrom(heap, h, rc) /\ SameFrom(heap, h, dc)
  BY <1>3, <1>4, <1>8 DEF Owned
<1>10. X[rc] > 0 /\ X[dc] > 0
  <2>1. X[rc] = Y[rc] + One(rc, rc) /\ X[dc] = C[dc] + One(dc, dc)
    <3> HIDE DEF Y, C
    <3> QED BY <1>1, <1>6, PlusCounts
  <2>2. Y[rc] \in Nat /\ C[dc] \in Nat
    BY <1>1, <1>6 DEF IsCount
  <2> QED BY <2>1, <2>2 DEF One
<1>e. dc = decoder.c /\ rc = recv.c /\ h = r.h /\ b = r.b /\ g = u.h /\ d = u.d /\ X = Plus(C, dc) /\ C = Plus(B, rc)
      /\ Y = Plus(B, dc) /\ B = Lists(buffer, queue, lost)
  BY DEF dc, rc, B
<1> HIDE DEF C, X, Y, h, b, g, d
<1>11. Passing(h, X, u, rc, recv.pos, bytes)
  <2>1. BufferOk(h, AsBuffer(decoder))
    BY <1>1, <1>3, <1>9, <1>e, DecoderKept
  <2>2. Meet(h, dc, decoder.spos, decoder.size, rc, recv.pos, bytes)
    BY <1>3, <1>9, MeetKept
  <2>3. rc \in Nat \ {0}
    BY <1>1, <1>3
  <2> QED BY <1>1, <1>3, <1>7, <1>8, <1>10, <1>e, <2>1, <2>2, <2>3, BehindOwned
<1>12. /\ Owned(g, Plus(X, d.c)) /\ Kept(h, g, X) /\ BufferOk(g, AsBuffer(d))
       /\ (d.c # 0 => Meet(g, d.c, d.spos, d.size, rc, recv.pos, bytes))
  BY <1>11, <1>e DEF Passing
<1>13. IsHeap(g) /\ d.c \in Nat /\ d.spos \in Nat /\ d.size \in Nat
  BY <1>12, AsBufferFields DEF Owned, BufferOk, BufNats
<1>14. Kept(heap, g, B)
  <2>1. Kept(heap, g, X)
    BY <1>8, <1>12, KeptTrans
  <2>2. Kept(heap, g, C)
    BY <1>1, <1>6, <1>e, <2>1, KeptLess
  <2> QED BY <1>1, <1>e, <2>2, KeptLess
<1>15. PacketOk(g, "callback", b)
  <2>1. BufferOk(g, b)
    BY <1>8, <1>9, <1>10, <1>12, <1>13, BufferKept
  <2> QED BY <2>1 DEF PacketOk
<1>16. SocketOk(g, plain, "callback", recv, d, bytes)
  <2>1. SameFrom(h, g, rc)
    BY <1>1, <1>3, <1>10, <1>12 DEF Kept
  <2>2. Inside(h, rc, recv.pos) /\ Covered(h, rc, recv.pos, bytes)
    BY <1>3, <1>9 DEF Inside, SameFrom
  <2>3. Inside(g, rc, recv.pos) /\ Covered(g, rc, recv.pos, bytes)
    BY <2>1, <2>2, <1>3 DEF Inside, SameFrom
  <2> QED BY <1>1, <1>3, <1>12, <1>13, <1>e, <2>3 DEF SocketOk
<1>17. IsSlotStep(g, buffer, used, queue, lost, b, "callback", recv, plain, d, bytes)
  <2>1. Owned(g, Plus(Plus(Plus(Lists(buffer, queue, lost), b.head), recv.c), DecoderRef(plain, d)))
    <3>1. Plus(Plus(B, b.head), rc) = X
      BY <1>6, <1>8, <1>e
    <3> QED BY <1>2, <1>12, <1>e, <3>1
  <2>2. Kept(heap, g, Lists(buffer, queue, lost))
    BY <1>14, <1>e
  <2> QED BY ONLY <1>1, <1>15, <1>16, <2>1, <2>2, SocketStep
<1> QED BY <1>17, <1>e DEF IsUnpacked

(* A packet, and a callback that gets it. *)
LEMMA UnpackKeeps ==
  ASSUME Good, Unpack
  PROVE  Good'
<1>1. /\ phase = "unpack" /\ HasPacket /\ phase' = "callback" /\ plain' = plain /\ bytes' = bytes /\ recv' = recv
      /\ nRead' = nRead /\ queue' = queue /\ wire' = wire /\ ops' = ops /\ lost' = lost
      /\ (IF plain THEN default_unpack ELSE packet_decoder_unpack)
  BY DEF Unpack, outgoing
<1>2. /\ IsHeap(heap) /\ SocketOk(heap, plain, phase, recv, decoder, bytes)
  BY GoodSocket
<1>3. plain \in BOOLEAN
  BY <1>2 DEF SocketOk
<1>4. \E h, b, d : IsUnpacked(h, b, d) /\ decoder' = d /\ packet' = b /\ PushBuffer(h, b)
  <2>1. CASE plain = TRUE
    <3> DEFINE r == chk_bytebuffer_init(heap, decoder.c, decoder.spos, decoder.size, {READ_ONLY})
               d == At(0, decoder.spos, decoder.size)
    <3>1. decoder' = d /\ packet' = r.b /\ PushBuffer(r.h, r.b)
      BY <1>1, <2>1 DEF default_unpack, Calls, chk_bytebuffer_new_bychunk_readonly, At, NULL
    <3>2. decoder.c # 0
      BY <1>1, <2>1 DEF HasPacket, NULL
    <3>3. IsUnpacked(r.h, r.b, d)
      BY <1>1, <2>1, <3>2, DefaultUnpacks
    <3> HIDE DEF r, d
    <3> QED BY <3>1, <3>3
  <2>2. CASE plain = FALSE
    <3> DEFINE size == Total
               r == chk_bytebuffer_init(heap, decoder.c, decoder.spos, size, {})
               u == Behind(r.h, decoder, size)
    <3>1. decoder' = u.d /\ packet' = r.b /\ PushBuffer(u.h, r.b)
      BY <1>1, <2>2 DEF packet_decoder_unpack, Calls, chk_bytebuffer_new_bychunk
    <3>2. decoder.size > Word /\ size <= decoder.size
      BY <1>1, <2>2 DEF HasPacket, HasLength
    <3>3. decoder.size \in Nat /\ decoder.spos \in Nat /\ decoder.c \in Nat /\ BufferOk(heap, AsBuffer(decoder))
      BY <1>2, <2>2 DEF SocketOk
    <3>4. Word \in Nat \ {0}
      BY HeapAssumption
    <3>5. decoder.c \in DOMAIN heap \cup {0} /\ Covered(heap, decoder.c, decoder.spos, decoder.size)
          /\ (decoder.c = 0 => decoder.size = 0)
      <4> DEFINE b == AsBuffer(decoder)
      <4>1. BufferOk(heap, b) /\ b.head = decoder.c /\ b.datasize = decoder.size /\ b.spos = decoder.spos
        BY <3>3, AsBufferFields
      <4> HIDE DEF b
      <4> QED BY <1>2, <4>1, BufferFacts
    <3>6. decoder.c # 0
      BY <3>2, <3>3, <3>4, <3>5
    <3>7. size \in Nat
      <4>1. Word \in 0..decoder.size
        BY <3>2, <3>3, <3>4
      <4>2. Covered(heap, decoder.c, decoder.spos, Word)
        BY <1>2, <3>3, <3>5, <4>1, CoveredLess
      <4>3. chk_bytechunk_read(heap, decoder.c, decoder.spos, Word) \in Seq(Nat)
        BY <1>2, <3>3, <3>4, <3>5, <4>2, ReadIsBytes
      <4>4. Length \in Nat
        BY <4>3, UnsignedIsNat DEF Length
      <4>5. Power(Word) \in Nat \ {0} /\ Word + Length \in Nat
        BY <3>4, <4>4, PowerIsPositive
      <4> HIDE DEF size
      <4> QED BY <4>5 DEF size, Total
    <3> HIDE DEF size
    <3>8. IsUnpacked(u.h, r.b, u.d)
      BY <1>1, <2>2, <3>2, <3>6, <3>7, PacketUnpacks
    <3> HIDE DEF r, u
    <3> QED BY <3>1, <3>8
  <2> QED BY <1>3, <2>1, <2>2
<1>5. PICK h, b, d : IsUnpacked(h, b, d) /\ decoder' = d /\ packet' = b /\ PushBuffer(h, b)
  BY <1>4
<1>6. IsSlotStep(heap', buffer', used', queue, lost, b, "callback", recv, plain, d, bytes)
  BY <1>5, PushKeeps DEF IsUnpacked
<1>7. /\ Owned(heap', All(buffer', queue', lost', packet', recv', plain', decoder'))
      /\ Parts(heap', buffer', used', queue', lost', packet', phase', recv', plain', decoder', bytes')
  BY <1>1, <1>5, <1>6 DEF IsSlotStep
<1>8. wire \in Seq(Nat) /\ nRead \in Nat /\ ops \in Nat
  BY DEF Good
<1> QED BY <1>1, <1>7, <1>8 DEF Good

-----------------------------------------------------------------------------
(* The whole. *)

(* The invariant holds at the start. *)
LEMMA InitIsGood == Init => Good
<1> SUFFICES ASSUME Init PROVE Good
  OBVIOUS
<1> DEFINE r0 == [c |-> 0, pos |-> 0]
           d0 == [c |-> 0, spos |-> 0, size |-> 0]
           h0 == <<>>
           bf0 == [s \in Slot |-> Empty]
           X == All(bf0, <<>>, <<>>, Empty, r0, plain, d0)
<1>1. /\ heap = h0 /\ buffer = bf0 /\ used = {} /\ queue = <<>> /\ lost = <<>> /\ packet = Empty /\ phase = "loop"
      /\ recv = r0 /\ decoder = d0 /\ bytes = 0 /\ plain \in BOOLEAN /\ wire = <<>> /\ nRead = 0 /\ ops = 0
  BY DEF Init, NULL
<1>2. DOMAIN h0 = {} /\ h0 \in [DOMAIN h0 -> Chunk]
  OBVIOUS
<1>3. IsHeap(h0)
  <2>1. IsFiniteSet({})
    BY FS_EmptySet
  <2> HIDE DEF h0
  <2> QED BY <1>2, <2>1 DEF IsHeap
<1> HIDE DEF h0, bf0, r0, d0
<1>4. /\ SocketOk(h0, plain, "loop", r0, d0, 0) /\ PacketOk(h0, "loop", Empty)
      /\ DecoderRef(plain, d0) = 0 /\ r0.c = 0 /\ Empty.head = 0
  <2>1. r0 = [c |-> 0, pos |-> 0] /\ d0 = [c |-> 0, spos |-> 0, size |-> 0] /\ plain \in BOOLEAN
    BY <1>1 DEF r0, d0
  <2>2. Empty.head = 0
    BY DEF Empty, Buffer, NULL
  <2> QED BY <1>3, <2>1, <2>2, NothingReceived
<1>5. IsList(<<>>) /\ QueueOk(h0, <<>>)
  BY DEF IsList, QueueOk
<1>6. SlotsOk(h0, bf0, {})
  <2>1. BufferOk(h0, Empty)
    BY <1>3, EmptyOk
  <2> QED BY <2>1 DEF SlotsOk, bf0
<1>7. Parts(h0, bf0, {}, <<>>, <<>>, Empty, "loop", r0, plain, d0, 0)
  BY <1>4, <1>5, <1>6 DEF Parts
<1> DEFINE Z == OfSocket(Empty, r0, plain, d0)
<1>8. IsCount(Z) /\ \A c \in Nat \ {0} : Z[c] = 0
  <2> DEFINE A == Plus(None, 0)
             C == Plus(A, 0)
             D == Plus(C, 0)
  <2>1. Z = D
    BY <1>4 DEF OfSocket
  <2>2. IsCount(A) /\ \A c \in Nat : A[c] = None[c] + One(0, c)
    BY NoneCounts, PlusCounts
  <2> HIDE DEF A
  <2>3. IsCount(C) /\ \A c \in Nat : C[c] = A[c] + One(0, c)
    BY <2>2, PlusCounts
  <2> HIDE DEF C
  <2>4. IsCount(D) /\ \A c \in Nat : D[c] = C[c] + One(0, c)
    BY <2>3, PlusCounts
  <2> HIDE DEF D
  <2>5. \A c \in Nat \ {0} : One(0, c) = 0 /\ None[c] = 0
    BY NoneCounts DEF One
  <2> QED BY <2>1, <2>2, <2>3, <2>4, <2>5
<1> HIDE DEF Z
<1>9. IsCount(X)
  BY <1>5, <1>8, HeldIsCount DEF All, Z
<1>10. ASSUME NEW c \in Nat \ {0} PROVE X[c] = 0
  <2>1. SlotsWith(bf0, c) = {} /\ QueuedWith(<<>>, c) = {} /\ LostAs(<<>>, c) = {}
    BY <1>4 DEF SlotsWith, QueuedWith, LostAs, bf0
  <2>2. Cardinality({}) = 0
    BY FS_EmptySet
  <2>3. X[c] = Cardinality(SlotsWith(bf0, c)) + Cardinality(QueuedWith(<<>>, c)) + Cardinality(LostAs(<<>>, c)) + Z[c]
    BY DEF All, Held, Z
  <2>4. Z[c] = 0
    BY <1>8
  <2>5. /\ Cardinality(SlotsWith(bf0, c)) = 0 /\ Cardinality(QueuedWith(<<>>, c)) = 0
        /\ Cardinality(LostAs(<<>>, c)) = 0
    BY <2>1, <2>2
  <2>6. X[c] = 0 + 0 + 0 + 0
    BY <2>3, <2>4, <2>5, Zenon
  <2> QED BY <2>6
<1> HIDE DEF X
<1>11. Owned(h0, X)
  BY <1>2, <1>3, <1>9, <1>10 DEF Owned
<1>12. Owned(heap, All(buffer, queue, lost, packet, recv, plain, decoder))
  BY <1>1, <1>11 DEF X
<1>13. wire \in Seq(Nat) /\ nRead \in Nat /\ ops \in Nat
  BY <1>1
<1> QED BY <1>1, <1>7, <1>12, <1>13 DEF Good

-----------------------------------------------------------------------------
(* What scripts do keeps it. *)
LEMMA ScriptKeeps ==
  ASSUME Good, Ends \subseteq Stopping, fault' \notin Stopping, ScriptNext
  PROVE  Good'
<1>1. PICK s \in Slot :
        \/ lua_new_bytebuffer(s) \/ lua_bytebuffer_gc(s) \/ lua_new_wpacket(s)
        \/ \E o \in Slot : lua_bytebuffer_clone(s, o)
        \/ \E n \in Sizes : lua_bytebuffer_append_string(s, NewBytes(n))
        \/ \E n \in Sizes : lua_wpacket_write(s, NewBytes(n))
        \/ \E pos \in {0, Word} : lua_wpacket_rewrite(s, pos, NewBytes(1))
        \/ \E n \in Bitten(buffer[s].datasize) : lua_bytebuffer_read(s, n)
        \/ \E n \in {0, Len(Waiting) + buffer[s].datasize} : lua_stream_socket_send(s, n)
        \/ chk_datagram_socket_sendto(s)
  BY DEF ScriptNext
<1>2. Sizes \subseteq Nat /\ Word \in Nat /\ ops \in Nat
  BY PacketAssumption, HeapAssumption DEF Good
<1>3. CASE lua_new_bytebuffer(s)
  BY <1>3, NewBufferKeeps
<1>4. CASE lua_bytebuffer_gc(s)
  BY <1>4, CollectKeeps
<1>5. CASE lua_new_wpacket(s)
  <2> DEFINE in == Cells(0, Word)
             want == ideal[s] \o in
             r == chk_bytebuffer_append(heap, buffer[s], in)
  <2>1. in \in Seq(Nat)
    BY <1>2, CellsAreBytes
  <2>2. Changes(s, r, want) /\ r = chk_bytebuffer_append(heap, buffer[s], in)
    BY <1>5 DEF lua_new_wpacket
  <2> HIDE DEF in, r, want
  <2> QED BY <2>1, <2>2, AppendKeeps
<1>6. CASE \E o \in Slot : lua_bytebuffer_clone(s, o)
  BY <1>6, CloneKeeps
<1>7. ASSUME NEW n \in Sizes, lua_bytebuffer_append_string(s, NewBytes(n)) PROVE Good'
  <2> DEFINE in == NewBytes(n)
             r == chk_bytebuffer_append(heap, buffer[s], in)
             want == ideal[s] \o in
  <2>1. in \in Seq(Nat)
    BY <1>2, NewBytesAreBytes
  <2>2. Changes(s, r, want) /\ r = chk_bytebuffer_append(heap, buffer[s], in)
    BY <1>7 DEF lua_bytebuffer_append_string
  <2> HIDE DEF in, r, want
  <2> QED BY <2>1, <2>2, AppendKeeps
<1>8. CASE \E n \in Sizes : lua_wpacket_write(s, NewBytes(n))
  BY <1>8, WriteKeeps
<1>9. CASE \E pos \in {0, Word} : lua_wpacket_rewrite(s, pos, NewBytes(1))
  BY <1>2, <1>9, RewriteKeeps
<1>10. ASSUME NEW n \in Bitten(buffer[s].datasize), lua_bytebuffer_read(s, n) PROVE Good'
  BY <1>10, ReadKeeps DEF Bitten
<1>11. ASSUME NEW n \in {0, Len(Waiting) + buffer[s].datasize}, lua_stream_socket_send(s, n)
       PROVE  Good'
  <2>1. BufferOk(heap, buffer[s]) /\ IsHeap(heap)
    BY SlotIsOwned
  <2>2. buffer[s].datasize \in Nat
    BY <2>1, BufferFacts
  <2>3. n \in Nat
    BY <1>11, <2>2, WaitingIsBytes
  <2> QED BY <1>11, <2>3, SendKeeps
<1>12. CASE chk_datagram_socket_sendto(s)
  BY <1>12, SendtoKeeps
<1> QED BY <1>1, <1>3, <1>4, <1>5, <1>6, <1>7, <1>8, <1>9, <1>10, <1>11, <1>12

(* So does a step that changes nothing. *)
LEMMA GoodStays ==
  ASSUME Good, UNCHANGED vars
  PROVE  Good'
<1>1. /\ heap' = heap /\ buffer' = buffer /\ used' = used /\ queue' = queue /\ wire' = wire /\ plain' = plain
      /\ nRead' = nRead /\ recv' = recv /\ decoder' = decoder /\ phase' = phase /\ bytes' = bytes
      /\ packet' = packet /\ ops' = ops /\ lost' = lost
  BY DEF vars, script, outgoing, incoming
<1> QED BY <1>1 DEF Good

(* Every step keeps the invariant, unless it meets a fault at which the    *)
(* model stops.                                                            *)
LEMMA NextKeeps ==
  ASSUME Good, Ends \subseteq Stopping, fault' \notin Stopping, Next
  PROVE  Good'
<1>1. CASE ScriptNext
  BY <1>1, ScriptKeeps
<1>2. CASE Unpack
  BY <1>2, UnpackKeeps
<1>3. CASE CallbackReturns
  BY <1>3, CallbackReturnsKeeps
<1>4. CASE ReadReturns
  BY <1>4, ReadReturnsKeeps
<1>5. CASE release_socket
  BY <1>5, ReleaseSocketKeeps
<1>6. CASE Sound /\ \E n \in Taken(Len(Waiting)) : process_write(n)
  BY <1>6, ProcessWriteKeeps
<1>7. CASE \E n \in Taken(Least(prepare_recv.room, Len(wire) - nRead)) : process_read(n)
  BY <1>7, ProcessReadKeeps
<1> QED BY <1>1, <1>2, <1>3, <1>4, <1>5, <1>6, <1>7 DEF Next

(* The model stops at such a fault. *)
LEMMA NextIsSound == Next => Sound
BY DEF Next, ScriptNext, Unpack, CallbackReturns, ReadReturns, release_socket, process_write, process_read, Scripts,
       lua_new_bytebuffer, lua_bytebuffer_gc, lua_new_wpacket, lua_bytebuffer_clone, lua_bytebuffer_append_string,
       lua_wpacket_write, lua_wpacket_rewrite, lua_bytebuffer_read, lua_stream_socket_send, chk_datagram_socket_sendto,
       Makes, Changes

-----------------------------------------------------------------------------
(* Who has one reference at most. *)
LEMMA SinglesCount ==
  ASSUME NEW c \in Nat \ {0}
  PROVE  /\ Ones({x \in {packet} : x.head = c}) = One(packet.head, c)
         /\ Ones({x \in {recv} : x.c = c}) = One(recv.c, c)
         /\ Ones({x \in {decoder} : x.c = c /\ ~plain}) = One(DecoderRef(plain, decoder), c)
<1>1. Cardinality({}) = 0 /\ \A x : Cardinality({x}) = 1
  BY FS_EmptySet, FS_Singleton
<1>2. {x \in {packet} : x.head = c} = IF packet.head = c THEN {packet} ELSE {}
  OBVIOUS
<1>3. {x \in {recv} : x.c = c} = IF recv.c = c THEN {recv} ELSE {}
  OBVIOUS
<1>4. {x \in {decoder} : x.c = c /\ ~plain} = IF decoder.c = c /\ ~plain THEN {decoder} ELSE {}
  OBVIOUS
<1>5. DecoderRef(plain, decoder) = c <=> decoder.c = c /\ ~plain
  BY DEF DecoderRef
<1> QED BY <1>1, <1>2, <1>3, <1>4, <1>5 DEF Ones, One

(* The invariant says that the references are counted. *)
LEMMA GoodIsCounted ==
  ASSUME Good
  PROVE  /\ \A c \in DOMAIN heap : heap[c].refcount = References(c)
         /\ \A s \in Slot : buffer[s].head \in DOMAIN heap \cup {NULL}
         /\ \A i \in DOMAIN queue : queue[i].head \in DOMAIN heap
<1> DEFINE Z == OfSocket(packet, recv, plain, decoder)
           X == Held(buffer, queue, lost, Z)
           A == Plus(None, packet.head)
           B == Plus(A, recv.c)
           ref == DecoderRef(plain, decoder)
<1>1. /\ IsHeap(heap) /\ IsCount(Z) /\ IsList(queue) /\ IsList(lost) /\ Owned(heap, X) /\ QueueOk(heap, queue)
  BY GoodFacts
<1>2. packet.head \in Nat /\ recv.c \in Nat /\ ref \in Nat /\ SlotsOk(heap, buffer, used)
  BY GoodSocket
<1>3. ASSUME NEW c \in DOMAIN heap PROVE heap[c].refcount = References(c)
  <2>1. c \in Nat \ {0}
    BY <1>1, <1>3, ChunkFields
  <2>2. heap[c].refcount = X[c] + In(heap, c)
    BY <1>1, <1>3 DEF Owned
  <2>3. X[c] = Cardinality(SlotsWith(buffer, c)) + Cardinality(QueuedWith(queue, c)) + Cardinality(LostAs(lost, c)) + Z[c]
    <3> HIDE DEF Z
    <3> QED BY <2>1 DEF Held
  <2>4. Z[c] = One(packet.head, c) + One(recv.c, c) + One(ref, c)
    <3> HIDE DEF ref
    <3>1. IsCount(A) /\ A[c] = None[c] + One(packet.head, c)
      BY <1>2, <2>1, NoneCounts, PlusCounts
    <3> HIDE DEF A
    <3>2. IsCount(B) /\ B[c] = A[c] + One(recv.c, c)
      BY <1>2, <2>1, <3>1, PlusCounts
    <3>3. Z = Plus(B, ref)
      BY DEF OfSocket, ref, A
    <3> HIDE DEF B, Z
    <3>4. Z[c] = B[c] + One(ref, c)
      BY <1>2, <2>1, <3>2, <3>3, PlusCounts
    <3>5. None[c] = 0 /\ One(packet.head, c) \in Nat /\ One(recv.c, c) \in Nat /\ One(ref, c) \in Nat
      BY <2>1, NoneCounts DEF One
    <3> QED BY <3>1, <3>2, <3>4, <3>5
  <2>5. References(c) = Cardinality(SlotsWith(buffer, c)) + Cardinality(QueuedWith(queue, c)) + In(heap, c)
                        + One(packet.head, c) + One(recv.c, c) + One(ref, c) + Cardinality(LostAs(lost, c))
    BY <2>1, SinglesCount DEF References, Ones, SlotsWith, QueuedWith, LostAs, In, Pointing
  <2>6. /\ Cardinality(SlotsWith(buffer, c)) \in Nat /\ Cardinality(QueuedWith(queue, c)) \in Nat
        /\ Cardinality(LostAs(lost, c)) \in Nat /\ In(heap, c) \in Nat
    BY <1>1, HeldCounts, InCounts
  <2>7. One(packet.head, c) \in Nat /\ One(recv.c, c) \in Nat /\ One(ref, c) \in Nat
    BY DEF One
  <2> HIDE DEF X, Z, ref
  <2> QED BY <2>2, <2>3, <2>4, <2>5, <2>6, <2>7
<1>4. ASSUME NEW s \in Slot PROVE buffer[s].head \in DOMAIN heap \cup {NULL}
  <2>1. BufferOk(heap, buffer[s])
    BY <1>2 DEF SlotsOk
  <2> QED BY <1>1, <2>1, BufferFacts DEF NULL
<1>5. \A i \in DOMAIN queue : queue[i].head \in DOMAIN heap
  BY <1>1, QueueHeads
<1> QED BY <1>3, <1>4, <1>5

(* The invariant of a model that has met no fault at which it stops. *)
IInv == Sound => Good

(* For any buffers, chunks and cuts every chunk has the references that its *)
(* counter says, and what the scripts and the send list refer to is there.  *)
(* The model is to stop at the faults (Ends) after which the code itself    *)
(* reads or writes chunks that are somebody else's or gone: an append that  *)
(* does not go where the bytes end or to a chunk that was freed, and a list *)
(* that is cut for others; at the other faults it may go on.                *)
THEOREM ReferencesCounted ==
  ASSUME Ends \subseteq Stopping
  PROVE  Spec => []RefsCounted
<1>1. Init => IInv
  BY InitIsGood DEF IInv
<1>2. IInv /\ [Next]_vars => IInv'
  <2> SUFFICES ASSUME IInv, [Next]_vars, Sound' PROVE Good'
    BY DEF IInv
  <2>1. CASE Next
    <3>1. Good /\ fault' \notin Stopping
      BY <2>1, NextIsSound DEF IInv, Sound
    <3> QED BY <2>1, <3>1, NextKeeps
  <2>2. CASE UNCHANGED vars
    <3>1. Good
      BY <2>2 DEF IInv, Sound, vars
    <3> QED BY <2>2, <3>1, GoodStays
  <2> QED BY <2>1, <2>2
<1>3. IInv => RefsCounted
  BY GoodIsCounted DEF IInv, RefsCounted
<1> QED BY <1>1, <1>2, <1>3, PTL DEF Spec
=============================================================================
