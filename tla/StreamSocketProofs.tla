------------------------- MODULE StreamSocketProofs -------------------------
(***************************************************************************)
(* Proofs about StreamSocket: the object is never used after it was freed, *)
(* pending buffers are listened for, the end of the stream is sent once    *)
(* and last, a delayed close drops nothing early, and the two lists keep   *)
(* the order of Outbox.                                                    *)
(***************************************************************************)
EXTENDS StreamSocket, SequenceTheorems, TLAPS

(* What the fields of the socket tell about each other. *)
Fields ==
  /\ closed => rclose
  /\ timer => closed /\ ~released
  /\ released => closed /\ send_list_empty
  /\ ~watched => ~readOn /\ ~writeOn
  /\ ~watched => (pc = "loop" => ready = {})

(* The write side is shut while data waits only after a reset, by a half    *)
(* close, or by a close that does not linger.                               *)
Lingering ==
  wclose /\ ~send_list_empty
    => peer = "reset" \/ halved \/ (closed /\ (graceful => ~watched))

(* A queue holds whole buffers, except that the first may have been started: *)
(* after each byte come the other bytes of its buffer, then the first byte   *)
(* of another one.                                                           *)
Left(e) == Size[e.buf] - e.at

Whole(q) ==
  \A i \in 1 .. Len(q) :
    /\ Left(q[i]) \in 0 .. Len(q) - i
    /\ \A j \in 0 .. Left(q[i]) :
         q[i + j] = [buf |-> q[i].buf, at |-> q[i].at + j, urgent |-> q[i].urgent]
    /\ i + Left(q[i]) < Len(q) => q[i + Left(q[i]) + 1].at = 1

(* The two lists: urgent buffers in one, the others in the other, and at     *)
(* most one buffer started in both together.                                 *)
Shape(s, u, flag) ==
  /\ Whole(s) /\ Whole(u)
  /\ \A i \in 1 .. Len(s) : ~s[i].urgent
  /\ \A i \in 1 .. Len(u) : u[i].urgent
  /\ Started(s) = 0 \/ (Started(u) = 0 /\ ~flag)

Lists == Shape(sendList, urgentList, sendingUrgent)

IInv ==
  /\ TypeOK /\ Fields /\ Lingering /\ Lists
  /\ NoUseAfterRelease /\ PendingIsArmed /\ NoIdleWriting /\ EndOfStream

-----------------------------------------------------------------------------
(* The bytes of a buffer. *)
LEMMA Bytes ==
  ASSUME NEW b \in Buffer, NEW urgent \in BOOLEAN
  PROVE  BytesOf(b, urgent) \in Seq(Byte) /\ BytesOf(b, urgent) # <<>>
<1>1. Size[b] \in Nat /\ Size[b] # 0
  BY BufferAssumption DEF BufferAssumption
<1>2. \A i \in 1 .. Size[b] : [buf |-> b, at |-> i, urgent |-> urgent] \in Byte
  BY <1>1 DEF Byte
<1>3. BytesOf(b, urgent) \in [1 .. Size[b] -> Byte]
  BY <1>2 DEF BytesOf
<1>4. BytesOf(b, urgent) \in Seq(Byte)
  BY <1>1, <1>3
<1>5. Len(BytesOf(b, urgent)) = Size[b]
  BY <1>1, <1>3, <1>4
<1>6. BytesOf(b, urgent) # <<>>
  BY <1>1, <1>5
<1> QED BY <1>4, <1>6

(* Adding a non-empty sequence gives a non-empty one. *)
LEMMA Longer ==
  ASSUME NEW s \in Seq(Byte), NEW t \in Seq(Byte), t # <<>>
  PROVE  s \o t \in Seq(Byte) /\ s \o t # <<>>
<1>1. Len(t) # 0  BY EmptySeq
<1>2. s \o t \in Seq(Byte) /\ Len(s \o t) = Len(s) + Len(t)
  BY ConcatProperties
<1>3. Len(s \o t) # 0  BY <1>1, <1>2, LenProperties
<1> QED BY <1>2, <1>3

LEMMA RestType ==
  ASSUME NEW s \in Seq(Byte), NEW n \in Nat
  PROVE  Rest(s, n) \in Seq(Byte)
BY DEF Rest

-----------------------------------------------------------------------------
(* Queues of whole buffers. *)

LEMMA LeftType ==
  ASSUME NEW e \in Byte
  PROVE  Left(e) \in Int /\ e.at \in Nat /\ e.at >= 1 /\ Size[e.buf] \in Nat
         /\ e.urgent \in BOOLEAN /\ e.buf \in Buffer
BY BufferAssumption DEF BufferAssumption, Left, Byte

LEMMA RestProperties ==
  ASSUME NEW q \in Seq(Byte), NEW n \in 0 .. Len(q)
  PROVE  /\ Rest(q, n) \in Seq(Byte)
         /\ Len(Rest(q, n)) = Len(q) - n
         /\ \A i \in 1 .. Len(q) - n : Rest(q, n)[i] = q[i + n]
<1>1. Len(q) \in Nat /\ n \in Nat /\ n + 1 \in Int
  BY LenProperties
<1>2. \A i \in n + 1 .. Len(q) : q[i] \in Byte
  BY <1>1, ElementOfSeq
<1>3. /\ SubSeq(q, n + 1, Len(q)) \in Seq(Byte)
      /\ Len(SubSeq(q, n + 1, Len(q))) =
           IF n + 1 <= Len(q) THEN Len(q) - (n + 1) + 1 ELSE 0
      /\ \A i \in 1 .. Len(q) - (n + 1) + 1 :
           SubSeq(q, n + 1, Len(q))[i] = q[n + 1 + i - 1]
  BY <1>1, <1>2, SubSeqProperties
<1>4. Len(Rest(q, n)) = Len(q) - n
  BY <1>1, <1>3 DEF Rest
<1>5. ASSUME NEW i \in 1 .. Len(q) - n
      PROVE  Rest(q, n)[i] = q[i + n]
  <2>1. i \in 1 .. Len(q) - (n + 1) + 1 /\ n + 1 + i - 1 = i + n
    BY <1>1
  <2> QED BY <1>3, <2>1 DEF Rest
<1> QED BY <1>3, <1>4, <1>5 DEF Rest

LEMMA RestElement ==
  ASSUME NEW q \in Seq(Byte), NEW n \in 0 .. Len(q), NEW i \in 1 .. Len(Rest(q, n))
  PROVE  Rest(q, n)[i] = q[i + n] /\ i + n \in 1 .. Len(q)
<1>1. Len(q) \in Nat /\ n \in Nat
  BY LenProperties
<1>2. Len(Rest(q, n)) = Len(q) - n /\ \A j \in 1 .. Len(q) - n : Rest(q, n)[j] = q[j + n]
  BY RestProperties
<1>3. i \in 1 .. Len(q) - n
  BY <1>2
<1> QED BY <1>1, <1>2, <1>3

LEMMA WholeRest ==
  ASSUME NEW q \in Seq(Byte), Whole(q), NEW n \in 0 .. Len(q)
  PROVE  Whole(Rest(q, n))
<1> DEFINE r == Rest(q, n)
<1>1. Len(q) \in Nat /\ n \in Nat
  BY LenProperties
<1>2. r \in Seq(Byte) /\ Len(r) = Len(q) - n /\ \A i \in 1 .. Len(q) - n : r[i] = q[i + n]
  BY RestProperties
<1> HIDE DEF r
<1> SUFFICES ASSUME NEW i \in 1 .. Len(r)
             PROVE  /\ Left(r[i]) \in 0 .. Len(r) - i
                    /\ \A j \in 0 .. Left(r[i]) :
                         r[i + j] = [buf |-> r[i].buf, at |-> r[i].at + j,
                                     urgent |-> r[i].urgent]
                    /\ i + Left(r[i]) < Len(r) => r[i + Left(r[i]) + 1].at = 1
  BY DEF Whole, r
<1>3. r[i] = q[i + n] /\ i + n \in 1 .. Len(q)
  BY <1>1, <1>2
<1>4. /\ Left(q[i + n]) \in 0 .. Len(q) - (i + n)
      /\ \A j \in 0 .. Left(q[i + n]) :
           q[i + n + j] = [buf |-> q[i + n].buf, at |-> q[i + n].at + j,
                           urgent |-> q[i + n].urgent]
      /\ i + n + Left(q[i + n]) < Len(q) => q[i + n + Left(q[i + n]) + 1].at = 1
  BY <1>3 DEF Whole
<1>5. Left(r[i]) \in 0 .. Len(r) - i
  BY <1>1, <1>2, <1>3, <1>4
<1>6. ASSUME NEW j \in 0 .. Left(r[i])
      PROVE  r[i + j] = [buf |-> r[i].buf, at |-> r[i].at + j, urgent |-> r[i].urgent]
  <2>1. i + j \in 1 .. Len(q) - n /\ i + j + n = i + n + j
    BY <1>1, <1>2, <1>5
  <2> QED BY <1>2, <1>3, <1>4, <2>1
<1>7. ASSUME i + Left(r[i]) < Len(r)
      PROVE  r[i + Left(r[i]) + 1].at = 1
  <2>1. /\ i + Left(r[i]) + 1 \in 1 .. Len(q) - n
        /\ i + Left(r[i]) + 1 + n = i + n + Left(q[i + n]) + 1
        /\ i + n + Left(q[i + n]) < Len(q)
    <3> DEFINE a == Len(q)
               d == Left(q[i + n])
    <3>1. d = Left(r[i]) /\ Len(r) = a - n
      BY <1>2, <1>3
    <3>2. a \in Nat /\ n \in 0 .. a /\ i \in 1 .. a - n /\ d \in Nat /\ i + d < a - n
      BY <1>1, <1>3, <1>4, <1>7, <3>1
    <3> HIDE DEF a, d
    <3>3. i + d + 1 \in 1 .. a - n /\ i + d + 1 + n = i + n + d + 1 /\ i + n + d < a
      BY <3>2
    <3> QED BY <3>1, <3>3 DEF a, d
  <2> QED BY <1>2, <1>4, <2>1
<1> QED BY <1>5, <1>6, <1>7

LEMMA WholeBytes ==
  ASSUME NEW b \in Buffer, NEW urgent \in BOOLEAN
  PROVE  /\ Whole(BytesOf(b, urgent))
         /\ Len(BytesOf(b, urgent)) = Size[b]
         /\ \A i \in 1 .. Size[b] : BytesOf(b, urgent)[i] =
                                      [buf |-> b, at |-> i, urgent |-> urgent]
<1> DEFINE r == BytesOf(b, urgent)
<1>1. Size[b] \in Nat
  BY BufferAssumption DEF BufferAssumption
<1>2. \A i \in 1 .. Size[b] : r[i] = [buf |-> b, at |-> i, urgent |-> urgent]
  BY DEF BytesOf
<1>3. r \in Seq(Byte) /\ DOMAIN r = 1 .. Size[b]
  BY Bytes DEF BytesOf
<1>4. Len(r) = Size[b]
  BY <1>1, <1>3, LenProperties
<1> HIDE DEF r
<1>5. ASSUME NEW i \in 1 .. Len(r)
      PROVE  /\ Left(r[i]) = Size[b] - i
             /\ r[i].buf = b /\ r[i].at = i /\ r[i].urgent = urgent
  <2>1. r[i] = [buf |-> b, at |-> i, urgent |-> urgent]
    BY <1>2, <1>4, <1>5
  <2>2. r[i].buf = b /\ r[i].at = i /\ r[i].urgent = urgent
    BY <2>1
  <2>3. Left(r[i]) = Size[b] - i
    BY <2>2, Zenon DEF Left
  <2> QED BY <2>2, <2>3, Zenon
<1>6. Whole(r)
  <2> SUFFICES ASSUME NEW i \in 1 .. Len(r)
               PROVE  /\ Left(r[i]) \in 0 .. Len(r) - i
                      /\ \A j \in 0 .. Left(r[i]) :
                           r[i + j] = [buf |-> r[i].buf, at |-> r[i].at + j,
                                       urgent |-> r[i].urgent]
                      /\ i + Left(r[i]) < Len(r) => r[i + Left(r[i]) + 1].at = 1
    BY DEF Whole
  <2>1. Left(r[i]) \in 0 .. Len(r) - i /\ ~(i + Left(r[i]) < Len(r))
    BY <1>1, <1>4, <1>5
  <2>2. ASSUME NEW j \in 0 .. Left(r[i])
        PROVE  r[i + j] = [buf |-> r[i].buf, at |-> r[i].at + j,
                           urgent |-> r[i].urgent]
    <3>1. i + j \in 1 .. Size[b]
      BY <1>1, <1>4, <1>5
    <3> QED BY <1>2, <1>5, <3>1
  <2> QED BY <2>1, <2>2
<1> QED BY <1>2, <1>4, <1>6 DEF r

LEMMA WholeConcat ==
  ASSUME NEW q \in Seq(Byte), NEW t \in Seq(Byte), Whole(q), Whole(t),
         t # <<>> => t[1].at = 1
  PROVE  Whole(q \o t)
<1> DEFINE r == q \o t
<1>1. Len(q) \in Nat /\ Len(t) \in Nat
  BY LenProperties
<1>2. /\ r \in Seq(Byte)
      /\ Len(r) = Len(q) + Len(t)
      /\ \A i \in 1 .. Len(q) + Len(t) :
           r[i] = IF i <= Len(q) THEN q[i] ELSE t[i - Len(q)]
  BY ConcatProperties
<1>0. Len(r) = Len(q) + Len(t)
  BY <1>2
<1>6. ASSUME NEW m \in Int, Len(q) < m, m <= Len(q) + Len(t)
      PROVE  r[m] = t[m - Len(q)]
  <2>1. m \in 1 .. Len(q) + Len(t) /\ ~(m <= Len(q))
    BY <1>1, <1>6
  <2> QED BY <1>2, <2>1
<1>3. Len(t) > 0 => t # <<>>
  BY EmptySeq
<1> HIDE DEF r
<1> SUFFICES ASSUME NEW i \in 1 .. Len(r)
             PROVE  /\ Left(r[i]) \in 0 .. Len(r) - i
                    /\ \A j \in 0 .. Left(r[i]) :
                         r[i + j] = [buf |-> r[i].buf, at |-> r[i].at + j,
                                     urgent |-> r[i].urgent]
                    /\ i + Left(r[i]) < Len(r) => r[i + Left(r[i]) + 1].at = 1
  BY DEF Whole, r
<1>4. CASE i <= Len(q)
  <2>1. r[i] = q[i] /\ i \in 1 .. Len(q)
    BY <1>1, <1>2, <1>4
  <2>2. /\ Left(q[i]) \in 0 .. Len(q) - i
        /\ \A j \in 0 .. Left(q[i]) :
             q[i + j] = [buf |-> q[i].buf, at |-> q[i].at + j,
                         urgent |-> q[i].urgent]
        /\ i + Left(q[i]) < Len(q) => q[i + Left(q[i]) + 1].at = 1
    BY <2>1 DEF Whole
  <2>0. Left(r[i]) = Left(q[i]) /\ Left(q[i]) \in 0 .. Len(q) - i
    BY <2>1, <2>2
  <2>3. Left(r[i]) \in 0 .. Len(r) - i
    BY <1>1, <1>2, <2>1, <2>2
  <2>4. ASSUME NEW j \in 0 .. Left(r[i])
        PROVE  r[i + j] = [buf |-> r[i].buf, at |-> r[i].at + j,
                           urgent |-> r[i].urgent]
    <3>1. i + j \in 1 .. Len(q) + Len(t) /\ i + j <= Len(q)
      BY <1>1, <2>0, <2>1
    <3>2. r[i + j] = q[i + j]
      BY <1>1, <1>2, <2>1, <2>2, <3>1
    <3> QED BY <2>1, <2>2, <3>2
  <2>5. ASSUME i + Left(r[i]) < Len(r)
        PROVE  r[i + Left(r[i]) + 1].at = 1
    <3>1. CASE i + Left(q[i]) < Len(q)
      <4>1. /\ i + Left(q[i]) + 1 \in 1 .. Len(q) + Len(t)
            /\ i + Left(q[i]) + 1 <= Len(q)
        <5> DEFINE a == Len(q)
                   b == Len(t)
                   d == Left(q[i])
        <5>1. a \in Nat /\ b \in Nat /\ d \in Nat /\ i \in 1 .. a /\ i + d < a
          BY <1>1, <2>0, <2>1, <3>1
        <5> HIDE DEF a, b, d
        <5>2. i + d + 1 \in 1 .. a + b /\ i + d + 1 <= a
          BY <5>1
        <5> QED BY <5>2 DEF a, b, d
      <4>2. r[i + Left(q[i]) + 1] = q[i + Left(q[i]) + 1]
        BY <1>1, <1>2, <2>1, <2>2, <4>1
      <4> QED BY <2>1, <2>2, <3>1, <4>2
    <3>2. CASE i + Left(q[i]) = Len(q)
      <4>1. Len(q) < Len(r)
        BY <2>0, <2>5, <3>2
      <4>2. Len(t) > 0
        BY <1>1, <1>0, <4>1
      <4>3. r[Len(q) + 1] = t[Len(q) + 1 - Len(q)]
        BY <1>1, <1>6, <4>2
      <4>4. r[Len(q) + 1].at = 1
        BY <1>1, <1>3, <4>2, <4>3
      <4> QED BY <2>0, <3>2, <4>4
    <3> QED BY <1>1, <2>2, <3>1, <3>2
  <2> QED BY <2>3, <2>4, <2>5
<1>5. CASE ~(i <= Len(q))
  <2> DEFINE k == i - Len(q)
  <2>1. r[i] = t[k] /\ k \in 1 .. Len(t) /\ i = k + Len(q)
    BY <1>1, <1>2, <1>5
  <2> HIDE DEF k
  <2>2. /\ Left(t[k]) \in 0 .. Len(t) - k
        /\ \A j \in 0 .. Left(t[k]) :
             t[k + j] = [buf |-> t[k].buf, at |-> t[k].at + j,
                         urgent |-> t[k].urgent]
        /\ k + Left(t[k]) < Len(t) => t[k + Left(t[k]) + 1].at = 1
    BY <2>1 DEF Whole
  <2>0. Left(r[i]) = Left(t[k]) /\ Left(t[k]) \in 0 .. Len(t) - k
    BY <2>1, <2>2
  <2>3. Left(r[i]) \in 0 .. Len(r) - i
    BY <1>1, <1>2, <2>1, <2>2
  <2>4. ASSUME NEW j \in 0 .. Left(r[i])
        PROVE  r[i + j] = [buf |-> r[i].buf, at |-> r[i].at + j,
                           urgent |-> r[i].urgent]
    <3>1. /\ i + j \in 1 .. Len(q) + Len(t) /\ ~(i + j <= Len(q))
          /\ i + j - Len(q) = k + j
      BY <1>1, <2>0, <2>1
    <3>2. r[i + j] = t[k + j]
      <4> DEFINE m == i + j
      <4>1. m \in Int /\ Len(q) < m /\ m <= Len(q) + Len(t) /\ m - Len(q) = k + j
        BY <1>1, <2>0, <2>1, <3>1
      <4> HIDE DEF m
      <4>2. r[m] = t[k + j]
        BY <1>6, <4>1
      <4> QED BY <4>2 DEF m
    <3> QED BY <2>1, <2>2, <3>2
  <2>5. ASSUME i + Left(r[i]) < Len(r)
        PROVE  r[i + Left(r[i]) + 1].at = 1
    <3>1. /\ i + Left(t[k]) + 1 \in 1 .. Len(q) + Len(t)
          /\ ~(i + Left(t[k]) + 1 <= Len(q))
          /\ (i + Left(t[k]) + 1) - Len(q) = k + Left(t[k]) + 1
          /\ k + Left(t[k]) < Len(t)
      <4> DEFINE a == Len(q)
                 b == Len(t)
                 d == Left(t[k])
      <4>1. i + d < a + b
        BY <1>0, <2>0, <2>5
      <4>2. /\ a \in Nat /\ b \in Nat /\ d \in Nat
            /\ k \in 1 .. b /\ i = k + a
        BY <1>1, <2>0, <2>1
      <4> HIDE DEF a, b, d
      <4>3. (i + d + 1) - a = k + d + 1 /\ k + d < b
        BY <4>1, <4>2
      <4>4. i + d + 1 \in 1 .. a + b /\ ~(i + d + 1 <= a)
        BY <4>1, <4>2
      <4> QED BY <4>3, <4>4 DEF a, b, d
    <3>2. r[i + Left(t[k]) + 1] = t[k + Left(t[k]) + 1]
      <4>1. \A m \in 1 .. Len(q) + Len(t) : ~(m <= Len(q)) => r[m] = t[m - Len(q)]
        BY <1>2
      <4> DEFINE m == i + Left(t[k]) + 1
      <4>2. m \in 1 .. Len(q) + Len(t) /\ ~(m <= Len(q))
            /\ m - Len(q) = k + Left(t[k]) + 1
        BY <3>1
      <4> HIDE DEF m
      <4>3. r[m] = t[m - Len(q)]
        BY <4>1, <4>2
      <4> QED BY <4>2, <4>3 DEF m
    <3> QED BY <2>1, <2>2, <3>1, <3>2
  <2> QED BY <2>3, <2>4, <2>5
<1> QED BY <1>4, <1>5

-----------------------------------------------------------------------------
(* Started buffers, and the line that the two lists form. *)

LEMMA FirstProperties ==
  ASSUME NEW q \in Seq(Byte), NEW n \in 0 .. Len(q)
  PROVE  /\ SubSeq(q, 1, n) \in Seq(Byte)
         /\ Len(SubSeq(q, 1, n)) = n
         /\ \A i \in 1 .. n : SubSeq(q, 1, n)[i] = q[i]
<1>1. Len(q) \in Nat /\ n \in Int
  BY LenProperties
<1>2. \A i \in 1 .. n : q[i] \in Byte
  BY <1>1, ElementOfSeq
<1>3. /\ SubSeq(q, 1, n) \in Seq(Byte)
      /\ Len(SubSeq(q, 1, n)) = IF 1 <= n THEN n - 1 + 1 ELSE 0
      /\ \A i \in 1 .. n - 1 + 1 : SubSeq(q, 1, n)[i] = q[1 + i - 1]
  BY <1>1, <1>2, SubSeqProperties
<1> QED BY <1>1, <1>3

LEMMA StartedBound ==
  ASSUME NEW q \in Seq(Byte), Whole(q)
  PROVE  /\ Started(q) \in 0 .. Len(q)
         /\ q # <<>> => Started(q) = IF q[1].at > 1 THEN Left(q[1]) + 1 ELSE 0
         /\ q = <<>> => Started(q) = 0
<1>1. CASE q = <<>>
  BY <1>1, EmptySeq DEF Started
<1>2. CASE q # <<>>
  <2>1. Len(q) \in Nat /\ 1 \in 1 .. Len(q)
    BY <1>2, EmptySeq
  <2>2. Left(q[1]) \in 0 .. Len(q) - 1
    BY <2>1 DEF Whole
  <2>3. Head(q) = q[1]
    BY <1>2
  <2>4. q[1].at \in Nat /\ Size[q[1].buf] \in Nat
    BY <2>1, ElementOfSeq, LeftType
  <2>5. Started(q) = IF q[1].at > 1 THEN Left(q[1]) + 1 ELSE 0
    BY <1>2, <2>3, <2>4 DEF Started, Left
  <2> QED BY <1>2, <2>1, <2>2, <2>5
<1> QED BY <1>1, <1>2

(* Sending part of a started buffer leaves the rest of it started. *)
LEMMA StartedRest ==
  ASSUME NEW q \in Seq(Byte), Whole(q), NEW n \in 0 .. Started(q)
  PROVE  Started(Rest(q, n)) = Started(q) - n
<1> DEFINE r == Rest(q, n)
<1>1. Started(q) \in 0 .. Len(q) /\ Len(q) \in Nat
  BY StartedBound, LenProperties
<1>2. n \in 0 .. Len(q)
  BY <1>1
<1>3. r \in Seq(Byte) /\ Len(r) = Len(q) - n /\ \A i \in 1 .. Len(q) - n : r[i] = q[i + n]
  BY <1>2, RestProperties
<1>4. Whole(r)
  BY <1>2, WholeRest
<1> HIDE DEF r
<1>5. CASE n = 0
  <2>1. r = q
    BY <1>5, SubSeqFull DEF r, Rest
  <2> QED BY <1>1, <1>5, <2>1 DEF r
<1>6. CASE n > 0
  <2>1. Started(q) > 0 /\ q # <<>>
    BY <1>1, <1>6, StartedBound
  <2>2. q[1].at > 1 /\ Started(q) = Left(q[1]) + 1
    BY <2>1, StartedBound
  <2>3. 1 \in 1 .. Len(q)
    BY <2>1, EmptySeq
  <2>4. q[1].at \in Nat /\ Left(q[1]) \in Int /\ q[1] \in Byte
    BY <2>3, ElementOfSeq, LeftType
  <2>5. /\ \A j \in 0 .. Left(q[1]) :
             q[1 + j] = [buf |-> q[1].buf, at |-> q[1].at + j, urgent |-> q[1].urgent]
        /\ 1 + Left(q[1]) < Len(q) => q[1 + Left(q[1]) + 1].at = 1
    BY <2>3 DEF Whole
  <2>6. CASE n <= Left(q[1])
    <3>1. r # <<>> /\ 1 \in 1 .. Len(q) - n
      BY <1>1, <1>3, <2>2, <2>4, <2>6, EmptySeq
    <3>2. r[1] = q[1 + n]
      BY <1>3, <3>1
    <3>3. q[1 + n] = [buf |-> q[1].buf, at |-> q[1].at + n, urgent |-> q[1].urgent]
      BY <1>6, <2>4, <2>5, <2>6
    <3>4. r[1].buf = q[1].buf /\ r[1].at = q[1].at + n
      BY <3>2, <3>3
    <3>5. r[1].at > 1 /\ Left(r[1]) = Left(q[1]) - n
      <4>1. Size[q[1].buf] \in Nat
        BY <2>4, LeftType
      <4>2. Left(r[1]) = Size[q[1].buf] - (q[1].at + n)
        BY <3>4 DEF Left
      <4>3. Left(q[1]) = Size[q[1].buf] - q[1].at
        BY DEF Left
      <4>4. r[1].at > 1
        BY <1>6, <2>2, <2>4, <3>4
      <4> HIDE DEF Left
      <4> QED BY <2>4, <4>1, <4>2, <4>3, <4>4
    <3>6. Started(r) = Left(q[1]) - n + 1
      BY <1>3, <1>4, <2>4, <3>1, <3>5, StartedBound
    <3> QED BY <1>6, <2>2, <2>4, <3>6 DEF r
  <2>7. CASE n = Left(q[1]) + 1
    <3>1. CASE r = <<>>
      BY <1>3, <1>4, <2>2, <2>4, <2>7, <3>1, StartedBound DEF r
    <3>2. CASE r # <<>>
      <4>1. Len(r) > 0
        BY <1>3, <3>2, EmptySeq
      <4>2. 1 \in 1 .. Len(q) - n /\ 1 + Left(q[1]) < Len(q)
        BY <1>1, <1>3, <2>4, <2>7, <4>1
      <4>3. r[1] = q[1 + n] /\ 1 + n = 1 + Left(q[1]) + 1
        BY <1>3, <2>4, <2>7, <4>2
      <4>4. r[1].at = 1
        BY <2>5, <4>2, <4>3
      <4>5. Started(r) = 0
        BY <1>3, <1>4, <3>2, <4>4, StartedBound
      <4> QED BY <2>2, <2>4, <2>7, <4>5 DEF r
    <3> QED BY <3>1, <3>2
  <2> QED BY <2>2, <2>4, <2>6, <2>7
<1> QED BY <1>2, <1>5, <1>6

LEMMA StartedConcat ==
  ASSUME NEW q \in Seq(Byte), NEW t \in Seq(Byte)
  PROVE  /\ q # <<>> => Started(q \o t) = Started(q)
         /\ q = <<>> => Started(q \o t) = Started(t)
<1>1. CASE q = <<>>
  BY <1>1, ConcatEmptySeq
<1>2. CASE q # <<>>
  <2>1. Len(q) \in Nat \ {0} /\ Len(t) \in Nat
    BY <1>2, EmptySeq, LenProperties
  <2>2. /\ q \o t \in Seq(Byte) /\ Len(q \o t) = Len(q) + Len(t)
        /\ (q \o t)[1] = q[1]
    BY <2>1, ConcatProperties
  <2>3. q \o t # <<>>
    BY <2>1, <2>2, EmptySeq
  <2>4. Head(q \o t) = (q \o t)[1] /\ Head(q) = q[1]
    BY <1>2, <2>2, <2>3
  <2> QED BY <1>2, <2>2, <2>3, <2>4 DEF Started
<1> QED BY <1>1, <1>2

(* Taking bytes off the front of a concatenation. *)
LEMMA FrontOfConcat ==
  ASSUME NEW q \in Seq(Byte), NEW t \in Seq(Byte), NEW n \in 0 .. Len(q)
  PROVE  /\ n \in 0 .. Len(q \o t)
         /\ SubSeq(q \o t, 1, n) = SubSeq(q, 1, n)
         /\ Rest(q \o t, n) = Rest(q, n) \o t
<1> DEFINE c == q \o t
           r == Rest(q, n) \o t
<1>1. Len(q) \in Nat /\ Len(t) \in Nat /\ n \in Nat
  BY LenProperties
<1>2. /\ c \in Seq(Byte) /\ Len(c) = Len(q) + Len(t)
      /\ \A i \in 1 .. Len(q) + Len(t) : c[i] = IF i <= Len(q) THEN q[i] ELSE t[i - Len(q)]
  BY ConcatProperties
<1>3. n \in 0 .. Len(c)
  BY <1>1, <1>2
<1>4. SubSeq(c, 1, n) = SubSeq(q, 1, n)
  <2>1. /\ SubSeq(c, 1, n) \in Seq(Byte) /\ SubSeq(q, 1, n) \in Seq(Byte)
        /\ Len(SubSeq(c, 1, n)) = n /\ Len(SubSeq(q, 1, n)) = n
        /\ \A i \in 1 .. n : SubSeq(c, 1, n)[i] = c[i] /\ SubSeq(q, 1, n)[i] = q[i]
    BY <1>2, <1>3, FirstProperties
  <2>2. \A i \in 1 .. n : c[i] = q[i]
    BY <1>1, <1>2
  <2> QED BY <2>1, <2>2, SeqEqual
<1>5. Rest(c, n) = r
  <2>1. /\ Rest(c, n) \in Seq(Byte) /\ Len(Rest(c, n)) = Len(c) - n
        /\ \A i \in 1 .. Len(c) - n : Rest(c, n)[i] = c[i + n]
    BY <1>2, <1>3, RestProperties
  <2>2. /\ Rest(q, n) \in Seq(Byte) /\ Len(Rest(q, n)) = Len(q) - n
        /\ \A i \in 1 .. Len(q) - n : Rest(q, n)[i] = q[i + n]
    BY RestProperties
  <2>3. /\ r \in Seq(Byte) /\ Len(r) = Len(q) - n + Len(t)
        /\ \A i \in 1 .. Len(q) - n + Len(t) :
             r[i] = IF i <= Len(q) - n THEN Rest(q, n)[i] ELSE t[i - (Len(q) - n)]
    <3>1. /\ r \in Seq(Byte) /\ Len(r) = Len(Rest(q, n)) + Len(t)
          /\ \A i \in 1 .. Len(Rest(q, n)) + Len(t) :
               r[i] = IF i <= Len(Rest(q, n)) THEN Rest(q, n)[i]
                      ELSE t[i - Len(Rest(q, n))]
      BY <2>2, ConcatProperties
    <3> QED BY <2>2, <3>1, Zenon
  <2> HIDE DEF c, r
  <2>4. Len(Rest(c, n)) = Len(r)
    BY <1>1, <1>2, <2>1, <2>3
  <2>5. ASSUME NEW i \in 1 .. Len(r)
        PROVE  Rest(c, n)[i] = r[i]
    <3>1. i \in 1 .. Len(q) - n + Len(t)
      BY <2>3
    <3>2. Rest(c, n)[i] = c[i + n] /\ i + n \in 1 .. Len(q) + Len(t)
      BY <1>1, <1>2, <2>1, <3>1
    <3>3. CASE i <= Len(q) - n
      <4>1. c[i + n] = q[i + n] /\ r[i] = Rest(q, n)[i] /\ i \in 1 .. Len(q) - n
        BY <1>1, <1>2, <2>3, <3>1, <3>2, <3>3
      <4> QED BY <2>2, <3>2, <4>1
    <3>4. CASE ~(i <= Len(q) - n)
      <4>1. r[i] = t[i - (Len(q) - n)]
        BY <2>3, <3>1, <3>4
      <4>2. ~(i + n <= Len(q)) /\ i + n - Len(q) = i - (Len(q) - n)
        BY <1>1, <3>1, <3>4
      <4>3. c[i + n] = t[i + n - Len(q)]
        BY <1>2, <3>2, <4>2
      <4> QED BY <3>2, <4>1, <4>2, <4>3
    <3> QED BY <3>3, <3>4
  <2> QED BY <2>1, <2>3, <2>4, <2>5, SeqEqual
<1> QED BY <1>3, <1>4, <1>5

(* Taking bytes off in two steps. *)
LEMMA RestOfRest ==
  ASSUME NEW q \in Seq(Byte), NEW k \in 0 .. Len(q), NEW n \in 0 .. k
  PROVE  /\ Rest(Rest(q, n), k - n) = Rest(q, k)
         /\ Rest(SubSeq(q, 1, k), n) = SubSeq(Rest(q, n), 1, k - n)
         /\ SubSeq(SubSeq(q, 1, k), 1, n) = SubSeq(q, 1, n)
<1> DEFINE r == Rest(q, n)
           f == SubSeq(q, 1, k)
<1>1. Len(q) \in Nat /\ k \in Nat /\ n \in Nat /\ n \in 0 .. Len(q) /\ k - n \in 0 .. Len(q) - n
  BY LenProperties
<1>2. r \in Seq(Byte) /\ Len(r) = Len(q) - n /\ \A i \in 1 .. Len(q) - n : r[i] = q[i + n]
  BY <1>1, RestProperties
<1>3. f \in Seq(Byte) /\ Len(f) = k /\ \A i \in 1 .. k : f[i] = q[i]
  BY FirstProperties
<1>4. /\ Rest(q, k) \in Seq(Byte) /\ Len(Rest(q, k)) = Len(q) - k
      /\ \A i \in 1 .. Len(q) - k : Rest(q, k)[i] = q[i + k]
  BY RestProperties
<1> HIDE DEF r, f
<1>5. /\ Rest(r, k - n) \in Seq(Byte) /\ Len(Rest(r, k - n)) = Len(r) - (k - n)
      /\ \A i \in 1 .. Len(r) - (k - n) : Rest(r, k - n)[i] = r[i + (k - n)]
  BY <1>1, <1>2, RestProperties
<1>6. Rest(r, k - n) = Rest(q, k)
  <2>1. Len(Rest(r, k - n)) = Len(Rest(q, k))
    BY <1>1, <1>2, <1>4, <1>5
  <2>2. ASSUME NEW i \in 1 .. Len(Rest(q, k))
        PROVE  Rest(r, k - n)[i] = Rest(q, k)[i]
    <3>1. /\ i \in 1 .. Len(r) - (k - n) /\ i \in 1 .. Len(q) - k
          /\ i + (k - n) \in 1 .. Len(q) - n /\ i + (k - n) + n = i + k
      BY <1>1, <1>2, <1>4
    <3> QED BY <1>2, <1>4, <1>5, <3>1
  <2> QED BY <1>4, <1>5, <2>1, <2>2, SeqEqual
<1>7. Rest(f, n) = SubSeq(r, 1, k - n)
  <2>1. /\ Rest(f, n) \in Seq(Byte) /\ Len(Rest(f, n)) = k - n
        /\ \A i \in 1 .. k - n : Rest(f, n)[i] = f[i + n]
    BY <1>3, RestProperties
  <2>2. /\ SubSeq(r, 1, k - n) \in Seq(Byte) /\ Len(SubSeq(r, 1, k - n)) = k - n
        /\ \A i \in 1 .. k - n : SubSeq(r, 1, k - n)[i] = r[i]
    BY <1>1, <1>2, FirstProperties
  <2>3. ASSUME NEW i \in 1 .. k - n
        PROVE  f[i + n] = r[i]
    <3>1. i + n \in 1 .. k /\ i \in 1 .. Len(q) - n
      BY <1>1
    <3> QED BY <1>2, <1>3, <3>1
  <2> QED BY <2>1, <2>2, <2>3, SeqEqual
<1>8. SubSeq(f, 1, n) = SubSeq(q, 1, n)
  <2>1. /\ SubSeq(f, 1, n) \in Seq(Byte) /\ Len(SubSeq(f, 1, n)) = n
        /\ \A i \in 1 .. n : SubSeq(f, 1, n)[i] = f[i]
    BY <1>3, FirstProperties
  <2>2. /\ SubSeq(q, 1, n) \in Seq(Byte) /\ Len(SubSeq(q, 1, n)) = n
        /\ \A i \in 1 .. n : SubSeq(q, 1, n)[i] = q[i]
    BY <1>1, FirstProperties
  <2>3. \A i \in 1 .. n : f[i] = q[i]
    BY <1>1, <1>3
  <2> QED BY <2>1, <2>2, <2>3, SeqEqual
<1> QED BY <1>6, <1>7, <1>8 DEF r, f

(* The line: the rest of a started buffer, the urgent list, the other list. *)
LEMMA LineProperties ==
  ASSUME NEW s \in Seq(Byte), NEW u \in Seq(Byte), Whole(s)
  PROVE  /\ LineOf(s, u) \in Seq(Byte)
         /\ Len(LineOf(s, u)) = Len(s) + Len(u)
         /\ Started(s) = 0 => LineOf(s, u) = u \o s
         /\ u = <<>> => LineOf(s, u) = s
<1> DEFINE k == Started(s)
           f == SubSeq(s, 1, k)
           r == Rest(s, k)
<1>1. k \in 0 .. Len(s) /\ Len(s) \in Nat /\ Len(u) \in Nat
  BY StartedBound, LenProperties
<1>2. f \in Seq(Byte) /\ Len(f) = k /\ r \in Seq(Byte) /\ Len(r) = Len(s) - k
  BY <1>1, FirstProperties, RestProperties
<1>3. f \o r = s
  <2>1. SubSeq(s, 1, k) \o SubSeq(s, k + 1, Len(s)) = SubSeq(s, 1, Len(s))
    <3>1. 1 \in 1 .. Len(s) + 1 /\ k \in 1 - 1 .. Len(s) /\ Len(s) \in k .. Len(s)
      BY <1>1
    <3> QED BY <3>1, ConcatAdjacentSubSeq
  <2> QED BY <2>1, SubSeqFull DEF Rest
<1>4. k = 0 => f = <<>> /\ r = s
  BY <1>1, SubSeqEmpty, SubSeqFull DEF Rest
<1> HIDE DEF k, f, r
<1>5. LineOf(s, u) = f \o (u \o r)
  BY DEF LineOf, k, f, r
<1>6. u \o r \in Seq(Byte) /\ Len(u \o r) = Len(u) + Len(r)
  BY <1>2, ConcatProperties
<1>7. LineOf(s, u) \in Seq(Byte) /\ Len(LineOf(s, u)) = Len(f) + Len(u \o r)
  BY <1>2, <1>5, <1>6, ConcatProperties
<1>8. Len(LineOf(s, u)) = Len(s) + Len(u)
  BY <1>1, <1>2, <1>6, <1>7
<1>9. k = 0 => LineOf(s, u) = u \o s
  BY <1>4, <1>5, <1>6, ConcatEmptySeq
<1>10. u = <<>> => LineOf(s, u) = s
  BY <1>2, <1>3, <1>5, ConcatEmptySeq
<1> QED BY <1>7, <1>8, <1>9, <1>10 DEF k

(* What prepare_send hands to writev, and which list it then counts off.   *)
LEMMA PreparedProperties ==
  ASSUME TypeOK,
         NEW s \in Seq(Byte), NEW u \in Seq(Byte), Shape(s, u, sendingUrgent),
         sendingUrgent' = SendingUrgent(s, u),
         NEW n \in 1 .. Len(Prepared(s, u)),
         sendList' = IF sendingUrgent' THEN s ELSE Rest(s, n),
         urgentList' = IF sendingUrgent' THEN Rest(u, n) ELSE u
  PROVE  /\ sendList' \in Seq(Byte) /\ urgentList' \in Seq(Byte)
         /\ SubSeq(Prepared(s, u), 1, n) \in Seq(Byte)
         /\ Shape(sendList', urgentList', sendingUrgent')
         /\ n \in 1 .. Len(LineOf(s, u))
         /\ SubSeq(Prepared(s, u), 1, n) = SubSeq(LineOf(s, u), 1, n)
         /\ LineOf(sendList', urgentList') = Rest(LineOf(s, u), n)
<1> DEFINE k == Started(s)
<1>1. /\ k \in 0 .. Len(s) /\ Len(s) \in Nat /\ Len(u) \in Nat
      /\ Whole(s) /\ Whole(u)
  BY StartedBound, LenProperties DEF Shape
<1>2. sendingUrgent \in BOOLEAN
  BY DEF TypeOK
<1>3. CASE u # <<>> /\ k > 0
  <2>1. FinishFirst(s, u) /\ ~sendingUrgent /\ Started(u) = 0
    BY <1>1, <1>3 DEF FinishFirst, Shape
  <2>2. Prepared(s, u) = SubSeq(s, 1, k) /\ sendingUrgent' = FALSE
    BY <1>2, <2>1 DEF Prepared, SendingUrgent
  <2>3. n \in 1 .. k /\ n \in 0 .. k /\ n \in 0 .. Len(s)
    BY <1>1, <2>2, FirstProperties
  <2>4. sendList' = Rest(s, n) /\ urgentList' = u
    BY <2>2
  <2>5. sendList' \in Seq(Byte) /\ Whole(sendList') /\ Started(sendList') = k - n
    BY <1>1, <2>3, <2>4, RestProperties, WholeRest, StartedRest
  <2>6. \A i \in 1 .. Len(sendList') : ~sendList'[i].urgent
    <3> SUFFICES ASSUME NEW i \in 1 .. Len(sendList') PROVE ~sendList'[i].urgent
      OBVIOUS
    <3>0. i \in 1 .. Len(Rest(s, n))
      BY <2>4
    <3>1. sendList'[i] = s[i + n] /\ i + n \in 1 .. Len(s)
      <4>1. Rest(s, n)[i] = s[i + n] /\ i + n \in 1 .. Len(s)
        BY <2>3, <3>0, RestElement
      <4> QED BY <2>4, <4>1
    <3> QED BY <3>1 DEF Shape
  <2>7. Shape(sendList', urgentList', sendingUrgent')
    BY <1>1, <2>1, <2>2, <2>4, <2>5, <2>6 DEF Shape
  <2>8. /\ SubSeq(s, 1, k) \in Seq(Byte) /\ Len(SubSeq(s, 1, k)) = k
        /\ Rest(s, k) \in Seq(Byte)
    BY <1>1, FirstProperties, RestProperties
  <2>9. u \o Rest(s, k) \in Seq(Byte)
    BY <2>8, ConcatProperties
  <2>10. /\ n \in 0 .. Len(LineOf(s, u))
         /\ SubSeq(LineOf(s, u), 1, n) = SubSeq(SubSeq(s, 1, k), 1, n)
         /\ Rest(LineOf(s, u), n) = Rest(SubSeq(s, 1, k), n) \o (u \o Rest(s, k))
    <3>1. n \in 0 .. Len(SubSeq(s, 1, k))
      BY <2>3, <2>8
    <3> QED BY <2>8, <2>9, <3>1, FrontOfConcat DEF LineOf
  <2>11. /\ Rest(sendList', k - n) = Rest(s, k)
         /\ Rest(SubSeq(s, 1, k), n) = SubSeq(sendList', 1, k - n)
    <3>1. \A j \in 0 .. Len(s) : \A m \in 0 .. j :
             /\ Rest(Rest(s, m), j - m) = Rest(s, j)
             /\ Rest(SubSeq(s, 1, j), m) = SubSeq(Rest(s, m), 1, j - m)
      BY RestOfRest
    <3> HIDE DEF k
    <3> QED BY <1>1, <2>3, <2>4, <3>1, Zenon
  <2>12. LineOf(sendList', urgentList') = Rest(LineOf(s, u), n)
    BY <2>4, <2>5, <2>10, <2>11 DEF LineOf
  <2>13. SubSeq(Prepared(s, u), 1, n) \in Seq(Byte)
    BY <2>2, <2>3, <2>8, FirstProperties
  <2>14. n \in 1 .. Len(LineOf(s, u))
    BY <2>3, <2>10
  <2> QED BY <2>2, <2>4, <2>5, <2>7, <2>10, <2>12, <2>13, <2>14
<1>4. CASE u # <<>> /\ k = 0
  <2>1. ~FinishFirst(s, u)
    BY <1>4 DEF FinishFirst
  <2>2. Prepared(s, u) = u /\ sendingUrgent' = TRUE
    BY <1>4, <2>1 DEF Prepared, SendingUrgent
  <2>3. n \in 1 .. Len(u) /\ n \in 0 .. Len(u)
    BY <1>1, <2>2
  <2>4. sendList' = s /\ urgentList' = Rest(u, n)
    BY <2>2
  <2>5. urgentList' \in Seq(Byte) /\ Whole(urgentList')
    BY <1>1, <2>3, <2>4, RestProperties, WholeRest
  <2>6. \A i \in 1 .. Len(urgentList') : urgentList'[i].urgent
    <3> SUFFICES ASSUME NEW i \in 1 .. Len(urgentList') PROVE urgentList'[i].urgent
      OBVIOUS
    <3>0. i \in 1 .. Len(Rest(u, n))
      BY <2>4
    <3>1. urgentList'[i] = u[i + n] /\ i + n \in 1 .. Len(u)
      <4>1. Rest(u, n)[i] = u[i + n] /\ i + n \in 1 .. Len(u)
        BY <2>3, <3>0, RestElement
      <4> QED BY <2>4, <4>1
    <3> QED BY <3>1 DEF Shape
  <2>7. Shape(sendList', urgentList', sendingUrgent')
    BY <1>1, <1>4, <2>4, <2>5, <2>6 DEF Shape
  <2>8. LineOf(s, u) = u \o s /\ LineOf(sendList', urgentList') = urgentList' \o s
    BY <1>1, <1>4, <2>4, <2>5, LineProperties
  <2>9. /\ n \in 0 .. Len(LineOf(s, u))
        /\ SubSeq(LineOf(s, u), 1, n) = SubSeq(u, 1, n)
        /\ Rest(LineOf(s, u), n) = Rest(u, n) \o s
    BY <2>3, <2>8, FrontOfConcat
  <2>10. SubSeq(Prepared(s, u), 1, n) \in Seq(Byte)
    BY <2>2, <2>3, FirstProperties
  <2>11. n \in 1 .. Len(LineOf(s, u))
    BY <2>3, <2>9
  <2> QED BY <2>2, <2>4, <2>5, <2>7, <2>8, <2>9, <2>10, <2>11
<1>5. CASE u = <<>>
  <2>1. ~FinishFirst(s, u)
    BY <1>5 DEF FinishFirst
  <2>2. Prepared(s, u) = s /\ sendingUrgent' = FALSE
    BY <1>5, <2>1 DEF Prepared, SendingUrgent
  <2>3. n \in 1 .. Len(s) /\ n \in 0 .. Len(s)
    BY <1>1, <2>2
  <2>4. sendList' = Rest(s, n) /\ urgentList' = u
    BY <2>2
  <2>5. sendList' \in Seq(Byte) /\ Whole(sendList')
    BY <1>1, <2>3, <2>4, RestProperties, WholeRest
  <2>6. \A i \in 1 .. Len(sendList') : ~sendList'[i].urgent
    <3> SUFFICES ASSUME NEW i \in 1 .. Len(sendList') PROVE ~sendList'[i].urgent
      OBVIOUS
    <3>0. i \in 1 .. Len(Rest(s, n))
      BY <2>4
    <3>1. sendList'[i] = s[i + n] /\ i + n \in 1 .. Len(s)
      <4>1. Rest(s, n)[i] = s[i + n] /\ i + n \in 1 .. Len(s)
        BY <2>3, <3>0, RestElement
      <4> QED BY <2>4, <4>1
    <3> QED BY <3>1 DEF Shape
  <2>7. Started(urgentList') = 0
    BY <1>5, <2>4 DEF Started
  <2>8. Shape(sendList', urgentList', sendingUrgent')
    BY <1>1, <2>2, <2>4, <2>5, <2>6, <2>7 DEF Shape
  <2>9. LineOf(s, u) = s /\ LineOf(sendList', urgentList') = sendList'
    BY <1>1, <1>5, <2>4, <2>5, LineProperties
  <2>10. SubSeq(Prepared(s, u), 1, n) \in Seq(Byte)
    BY <2>2, <2>3, FirstProperties
  <2> QED BY <2>2, <2>3, <2>4, <2>5, <2>8, <2>9, <2>10
<1> QED BY <1>1, <1>3, <1>4, <1>5

(* What process_write does to lists s and u that are not both empty: some   *)
(* bytes leave the front of the line; lists that become empty end the       *)
(* listening and bring the end of the stream; lists that do not are         *)
(* listened for if they were, or if the buffer just pushed was alone.       *)
LEMMA WriteStep ==
  ASSUME TypeOK,
         NEW s \in Seq(Byte), NEW u \in Seq(Byte), Shape(s, u, sendingUrgent),
         NEW pushed \in {"none", "send", "urgent"},
         process_write(s, u, pushed),
         ~(s = <<>> /\ u = <<>>)
  PROVE  /\ sendList' \in Seq(Byte) /\ urgentList' \in Seq(Byte)
         /\ sendingUrgent' \in BOOLEAN /\ wire' \in Seq(Byte)
         /\ wclose' \in BOOLEAN /\ writeOn' \in BOOLEAN
         /\ writeError' \in BOOLEAN /\ fin' \in BOOLEAN
         /\ Lists'
         /\ \E n \in 0 .. Len(LineOf(s, u)) :
              /\ wire' = wire \o SubSeq(LineOf(s, u), 1, n)
              /\ LineOf(sendList, urgentList)' = Rest(LineOf(s, u), n)
         /\ send_list_empty' => /\ writeOn' = (writeOn /\ rclose)
                                /\ wclose' = (wclose \/ rclose)
                                /\ fin' = (fin \/ (wclose /\ ~rclose))
                                /\ writeError' = writeError
         /\ ~send_list_empty' =>
              /\ fin' = fin
              /\ \/ wclose' = wclose /\ writeError' = writeError /\ (writeOn => writeOn')
                 \/ wclose' /\ peer = "reset" /\ writeError' /\ (writeOn' => writeOn)
         /\ ~send_list_empty' /\ (pushed = "send" => u = <<>>)
                              /\ (pushed = "urgent" => s = <<>>)
                              /\ pushed # "none" => writeOn' \/ writeError'
         /\ ~send_list_empty' /\ pushed = "none" => (writeOn' => writeOn)
<1> USE DEF TypeOK
<1>1. sendingUrgent' \in BOOLEAN /\ sendingUrgent' = SendingUrgent(s, u)
  BY DEF process_write, SendingUrgent
<1>2. Shape(s, u, sendingUrgent')
  <2>1. CASE Started(s) = 0
    BY <2>1 DEF Shape
  <2>2. CASE Started(s) # 0
    <3>1. Started(u) = 0 /\ sendingUrgent = FALSE /\ Whole(s)
      BY <2>2 DEF Shape
    <3>2. Started(s) > 0
      BY <2>2, <3>1, StartedBound
    <3>3. sendingUrgent' = FALSE
      BY <1>1, <3>1, <3>2 DEF SendingUrgent, FinishFirst
    <3> QED BY <3>1, <3>3 DEF Shape
  <2> QED BY <2>1, <2>2
<1>3. ASSUME sendList' = s, urgentList' = u, wire' = wire
      PROVE  /\ Lists'
             /\ \E n \in 0 .. Len(LineOf(s, u)) :
                  /\ wire' = wire \o SubSeq(LineOf(s, u), 1, n)
                  /\ LineOf(sendList, urgentList)' = Rest(LineOf(s, u), n)
  <2>1. Lists'
    BY <1>2, <1>3 DEF Lists
  <2>2. LineOf(sendList, urgentList)' = LineOf(s, u)
    BY <1>3 DEF LineOf, Started, Rest
  <2>3. LineOf(s, u) \in Seq(Byte) /\ Len(LineOf(s, u)) \in Nat
    BY LineProperties, LenProperties DEF Shape
  <2>4. SubSeq(LineOf(s, u), 1, 0) = <<>> /\ wire \o <<>> = wire
    BY SubSeqEmpty, ConcatEmptySeq
  <2>5. Rest(LineOf(s, u), 0) = LineOf(s, u)
    BY <2>3, SubSeqFull DEF Rest
  <2>6. 0 \in 0 .. Len(LineOf(s, u))
    BY <2>3
  <2>7. wire \o SubSeq(LineOf(s, u), 1, 0) = wire
    BY <2>4
  <2> QED BY <1>3, <2>1, <2>2, <2>5, <2>6, <2>7
<1>4. CASE Written(s, u, pushed)
  <2>1. PICK n \in 1 .. Len(Prepared(s, u)) :
               /\ wire' = wire \o SubSeq(Prepared(s, u), 1, n)
               /\ sendList' = IF sendingUrgent' THEN s ELSE Rest(s, n)
               /\ urgentList' = IF sendingUrgent' THEN Rest(u, n) ELSE u
    BY <1>4 DEF Written
  <2>2. /\ sendList' \in Seq(Byte) /\ urgentList' \in Seq(Byte)
        /\ SubSeq(Prepared(s, u), 1, n) \in Seq(Byte)
        /\ Shape(sendList', urgentList', sendingUrgent')
        /\ n \in 1 .. Len(LineOf(s, u))
        /\ SubSeq(Prepared(s, u), 1, n) = SubSeq(LineOf(s, u), 1, n)
        /\ LineOf(sendList', urgentList') = Rest(LineOf(s, u), n)
    BY <1>1, <2>1, PreparedProperties
  <2>3. Lists' /\ LineOf(sendList, urgentList)' = Rest(LineOf(s, u), n)
    BY <2>2 DEF Lists, LineOf, Started, Rest
  <2>4. wire' \in Seq(Byte)
    BY <2>1, <2>2, ConcatProperties
  <2>5. \E m \in 0 .. Len(LineOf(s, u)) :
          /\ wire' = wire \o SubSeq(LineOf(s, u), 1, m)
          /\ LineOf(sendList, urgentList)' = Rest(LineOf(s, u), m)
    <3>1. n \in 0 .. Len(LineOf(s, u))
      BY <2>2
    <3> QED BY <2>1, <2>2, <2>3, <3>1
  <2>6. writeError' = writeError
    BY <1>4 DEF Written
  <2>7. CASE send_list_empty'
    BY <1>1, <1>4, <2>2, <2>3, <2>4, <2>5, <2>6, <2>7
       DEF Written, Flushed, send_list_empty
  <2>8. CASE ~send_list_empty'
    <3>1. /\ writeOn' = (writeOn \/ Enabled(pushed, sendList', urgentList'))
          /\ wclose' = wclose /\ fin' = fin
      BY <1>4, <2>8 DEF Written, send_list_empty
    <3>2. writeOn' \in BOOLEAN /\ (writeOn => writeOn')
      BY <3>1
    <3>3. ASSUME pushed = "send" => u = <<>>, pushed = "urgent" => s = <<>>,
                 pushed # "none"
          PROVE  writeOn'
      <4>1. CASE pushed = "send"
        <5>1. u = <<>> /\ sendingUrgent' = FALSE
          BY <1>1, <3>3, <4>1 DEF SendingUrgent, FinishFirst
        <5>2. urgentList' = <<>> /\ sendList' # <<>>
          BY <2>1, <2>8, <5>1 DEF send_list_empty
        <5> QED BY <3>1, <4>1, <5>2 DEF Enabled
      <4>2. CASE pushed = "urgent"
        <5>1. s = <<>> /\ u # <<>>
          BY <3>3, <4>2
        <5>2. sendingUrgent' = TRUE
          <6>1. ~FinishFirst(s, u)
            BY <5>1 DEF FinishFirst, Started
          <6> QED BY <1>1, <5>1, <6>1 DEF SendingUrgent
        <5>3. urgentList' # <<>>
          BY <2>1, <2>8, <5>1, <5>2 DEF send_list_empty
        <5> QED BY <3>1, <4>2, <5>3 DEF Enabled
      <4> QED BY <3>3, <4>1, <4>2
    <3>4. pushed = "none" => (writeOn' => writeOn)
      BY <3>1 DEF Enabled
    <3> QED BY <1>1, <2>2, <2>3, <2>4, <2>5, <2>6, <2>8, <3>1, <3>2, <3>3, <3>4
  <2> QED BY <2>7, <2>8
<1>5. CASE WouldBlock(s, u, pushed)
  <2>1. sendList' = s /\ urgentList' = u /\ wire' = wire /\ fin' = fin
        /\ wclose' = wclose /\ writeError' = writeError
        /\ writeOn' = (writeOn \/ Enabled(pushed, s, u))
    BY <1>5 DEF WouldBlock, sent
  <2>2. writeOn' \in BOOLEAN /\ (writeOn => writeOn')
    BY <2>1
  <2>3. ~send_list_empty'
    BY <2>1 DEF send_list_empty
  <2>4. ASSUME pushed = "send" => u = <<>>, pushed = "urgent" => s = <<>>,
               pushed # "none"
        PROVE  writeOn'
    BY <2>1, <2>4 DEF Enabled
  <2>5. Lists' /\ \E n \in 0 .. Len(LineOf(s, u)) :
          /\ wire' = wire \o SubSeq(LineOf(s, u), 1, n)
          /\ LineOf(sendList, urgentList)' = Rest(LineOf(s, u), n)
    BY <1>3, <2>1
  <2>6. pushed = "none" => (writeOn' => writeOn)
    BY <2>1 DEF Enabled
  <2> QED BY <1>1, <2>1, <2>2, <2>3, <2>4, <2>5, <2>6
<1>6. CASE Broken(s, u)
  <2>1. /\ sendList' = s /\ urgentList' = u /\ wire' = wire /\ fin' = fin
        /\ wclose' = TRUE /\ writeError' = TRUE /\ peer = "reset"
        /\ writeOn' = (writeOn /\ rclose)
    BY <1>6 DEF Broken, sent
  <2>2. writeOn' \in BOOLEAN /\ (writeOn' => writeOn)
    BY <2>1
  <2>3. ~send_list_empty'
    BY <2>1 DEF send_list_empty
  <2>4. Lists' /\ \E n \in 0 .. Len(LineOf(s, u)) :
          /\ wire' = wire \o SubSeq(LineOf(s, u), 1, n)
          /\ LineOf(sendList, urgentList)' = Rest(LineOf(s, u), n)
    BY <1>3, <2>1
  <2> QED BY <1>1, <2>1, <2>2, <2>3, <2>4
<1> QED BY <1>4, <1>5, <1>6 DEF process_write

-----------------------------------------------------------------------------
(* The invariant holds at the start. *)
LEMMA InitInv == Init => IInv
<1> SUFFICES ASSUME Init PROVE IInv
  OBVIOUS
<1> USE DEF Init
<1>1. TypeOK
  BY EmptySeq DEF TypeOK
<1>2. Lists
  BY EmptySeq DEF Lists, Shape, Whole, Started
<1>3. /\ Fields /\ Lingering
      /\ NoUseAfterRelease /\ PendingIsArmed /\ NoIdleWriting /\ EndOfStream
  BY DEF Fields, Lingering, NoUseAfterRelease, PendingIsArmed, NoIdleWriting,
         EndOfStream, send_list_empty
<1> QED BY <1>1, <1>2, <1>3 DEF IInv

LEMMA ConcatElement ==
  ASSUME NEW q \in Seq(Byte), NEW t \in Seq(Byte), NEW i \in 1 .. Len(q \o t)
  PROVE  \/ i \in 1 .. Len(q) /\ (q \o t)[i] = q[i]
         \/ i - Len(q) \in 1 .. Len(t) /\ (q \o t)[i] = t[i - Len(q)]
<1>1. Len(q) \in Nat /\ Len(t) \in Nat
  BY LenProperties
<1>2. /\ Len(q \o t) = Len(q) + Len(t)
      /\ \A j \in 1 .. Len(q) + Len(t) :
           (q \o t)[j] = IF j <= Len(q) THEN q[j] ELSE t[j - Len(q)]
  BY ConcatProperties
<1>3. i \in 1 .. Len(q) + Len(t)
  BY <1>2
<1>4. CASE i <= Len(q)
  BY <1>1, <1>2, <1>3, <1>4
<1>5. CASE ~(i <= Len(q))
  <2>1. i - Len(q) \in 1 .. Len(t)
    BY <1>1, <1>3, <1>5
  <2> QED BY <1>2, <1>3, <1>5, <2>1
<1> QED BY <1>4, <1>5

(* The lists with one buffer more. *)
LEMMA PushedShape ==
  ASSUME TypeOK, Lists, NEW b \in Buffer, NEW urgent \in BOOLEAN,
         NEW s, NEW u,
         s = IF urgent THEN sendList ELSE sendList \o BytesOf(b, FALSE),
         u = IF urgent THEN urgentList \o BytesOf(b, TRUE) ELSE urgentList
  PROVE  s \in Seq(Byte) /\ u \in Seq(Byte) /\ ~(s = <<>> /\ u = <<>>)
         /\ Shape(s, u, sendingUrgent) /\ Started(s) = Started(sendList)
<1> DEFINE new == BytesOf(b, urgent)
<1>1. sendList \in Seq(Byte) /\ urgentList \in Seq(Byte) /\ sendingUrgent \in BOOLEAN
  BY DEF TypeOK
<1>2. new \in Seq(Byte) /\ new # <<>> /\ Whole(new)
  BY Bytes, WholeBytes
<1>3. /\ 1 \in 1 .. Size[b] /\ Len(new) = Size[b] /\ Len(new) \in Nat
      /\ \A i \in 1 .. Len(new) : new[i].at = i /\ new[i].urgent = urgent
  <2>1. Size[b] \in Nat \ {0}
    BY BufferAssumption DEF BufferAssumption
  <2>2. Len(new) = Size[b] /\ \A i \in 1 .. Size[b] :
                                new[i] = [buf |-> b, at |-> i, urgent |-> urgent]
    BY WholeBytes
  <2>3. ASSUME NEW i \in 1 .. Size[b]
        PROVE  new[i].at = i /\ new[i].urgent = urgent
    <3>1. new[i] = [buf |-> b, at |-> i, urgent |-> urgent]
      BY <2>2
    <3> HIDE DEF new
    <3> QED BY <3>1
  <2> QED BY <2>1, <2>2, <2>3
<1>4. new[1].at = 1
  BY <1>3
<1>5. Started(new) = 0
  BY <1>2, <1>4, StartedBound
<1>6. /\ Whole(sendList) /\ Whole(urgentList)
      /\ \A i \in 1 .. Len(sendList) : ~sendList[i].urgent
      /\ \A i \in 1 .. Len(urgentList) : urgentList[i].urgent
      /\ Started(sendList) = 0 \/ (Started(urgentList) = 0 /\ ~sendingUrgent)
  BY DEF Lists, Shape
<1>7. Started(<<>>) = 0
  BY DEF Started
<1> HIDE DEF new
<1>8. CASE urgent = FALSE
  <2>1. s = sendList \o new /\ u = urgentList
    BY <1>8 DEF new
  <2>2. s \in Seq(Byte) /\ s # <<>>
    BY <1>1, <1>2, <2>1, Longer
  <2>3. Whole(s)
    BY <1>1, <1>2, <1>4, <1>6, <2>1, WholeConcat
  <2>4. Started(s) = Started(sendList)
    <3>1. /\ sendList # <<>> => Started(sendList \o new) = Started(sendList)
          /\ sendList = <<>> => Started(sendList \o new) = Started(new)
      BY <1>1, <1>2, StartedConcat
    <3> QED BY <1>5, <1>7, <2>1, <3>1, Zenon
  <2>5. ASSUME NEW i \in 1 .. Len(s)
        PROVE  ~s[i].urgent
    <3>1. \/ i \in 1 .. Len(sendList) /\ s[i] = sendList[i]
          \/ i - Len(sendList) \in 1 .. Len(new) /\ s[i] = new[i - Len(sendList)]
      <4>1. i \in 1 .. Len(sendList \o new)
        BY <2>1
      <4>2. \/ i \in 1 .. Len(sendList) /\ (sendList \o new)[i] = sendList[i]
            \/ /\ i - Len(sendList) \in 1 .. Len(new)
               /\ (sendList \o new)[i] = new[i - Len(sendList)]
        BY <1>1, <1>2, <4>1, ConcatElement
      <4> QED BY <2>1, <4>2
    <3>2. \A j \in 1 .. Len(new) : new[j].urgent = FALSE
      BY <1>3, <1>8
    <3> QED BY <1>6, <3>1, <3>2
  <2>6. Shape(s, u, sendingUrgent)
    BY <1>6, <2>1, <2>3, <2>4, <2>5 DEF Shape
  <2> QED BY <1>1, <2>1, <2>2, <2>4, <2>6
<1>9. CASE urgent = TRUE
  <2>1. u = urgentList \o new /\ s = sendList
    BY <1>9 DEF new
  <2>2. u \in Seq(Byte) /\ u # <<>>
    BY <1>1, <1>2, <2>1, Longer
  <2>3. Whole(u)
    BY <1>1, <1>2, <1>4, <1>6, <2>1, WholeConcat
  <2>4. Started(u) = Started(urgentList)
    <3>1. /\ urgentList # <<>> => Started(urgentList \o new) = Started(urgentList)
          /\ urgentList = <<>> => Started(urgentList \o new) = Started(new)
      BY <1>1, <1>2, StartedConcat
    <3> QED BY <1>5, <1>7, <2>1, <3>1, Zenon
  <2>5. ASSUME NEW i \in 1 .. Len(u)
        PROVE  u[i].urgent
    <3>1. \/ i \in 1 .. Len(urgentList) /\ u[i] = urgentList[i]
          \/ i - Len(urgentList) \in 1 .. Len(new) /\ u[i] = new[i - Len(urgentList)]
      <4>1. i \in 1 .. Len(urgentList \o new)
        BY <2>1
      <4>2. \/ i \in 1 .. Len(urgentList) /\ (urgentList \o new)[i] = urgentList[i]
            \/ /\ i - Len(urgentList) \in 1 .. Len(new)
               /\ (urgentList \o new)[i] = new[i - Len(urgentList)]
        BY <1>1, <1>2, <4>1, ConcatElement
      <4> QED BY <2>1, <4>2
    <3>2. \A j \in 1 .. Len(new) : new[j].urgent = TRUE
      BY <1>3, <1>9
    <3> QED BY <1>6, <3>1, <3>2
  <2>6. Shape(s, u, sendingUrgent)
    BY <1>6, <2>1, <2>3, <2>4, <2>5 DEF Shape
  <2> QED BY <1>1, <2>1, <2>2, <2>6
<1> QED BY <1>8, <1>9

(* Every action but those that write or free leaves the lists alone, and    *)
(* what is left is about the flags.                                         *)
LEMMA ReleaseInv ==
  ASSUME IInv, release_socket, sendingUrgent' = sendingUrgent,
         pc' = "loop", closed' = TRUE, rclose' = TRUE,
         wclose' \in BOOLEAN, wclose => wclose',
         UNCHANGED <<halved, noDelay, writeError, accepted, sent, peer>>,
         graceful' \in BOOLEAN
  PROVE  IInv'
<1> USE DEF IInv, release_socket
<1>1. TypeOK'
  BY EmptySeq DEF TypeOK, sent
<1>2. Lists'
  BY EmptySeq DEF Lists, Shape, Whole, Started
<1>3. Fields' /\ Lingering' /\ NoUseAfterRelease' /\ PendingIsArmed' /\ NoIdleWriting'
  BY DEF Fields, Lingering, NoUseAfterRelease, PendingIsArmed, NoIdleWriting,
         send_list_empty
<1>4. EndOfStream'
  BY DEF EndOfStream, send_list_empty, sent
<1> QED BY <1>1, <1>2, <1>3, <1>4

(* Every step keeps the invariant. *)
LEMMA NextInv == IInv /\ [Next]_vars => IInv'
<1> SUFFICES ASSUME IInv, [Next]_vars PROVE IInv'
  OBVIOUS
<1> USE DEF IInv
<1> DEFINE Flags == /\ Fields' /\ Lingering' /\ NoUseAfterRelease'
                    /\ PendingIsArmed' /\ NoIdleWriting' /\ EndOfStream'
<1> HIDE DEF Flags
<1>0. ASSUME UNCHANGED queues PROVE Lists'
  BY <1>0 DEF Lists, queues
<1>1. CASE Start
  <2>1. TypeOK'
    BY <1>1 DEF Start, TypeOK, status, queues, sent
  <2>2. Flags
    BY <1>1 DEF Flags, Start, TypeOK, Fields, Lingering, NoUseAfterRelease,
       PendingIsArmed, NoIdleWriting, EndOfStream, send_list_empty, InUserCode,
       status, queues, sent
  <2> QED BY <1>0, <1>1, <2>1, <2>2 DEF Start, Flags
<1>2. CASE shutdown_write
  <2>1. TypeOK'
    BY <1>2 DEF shutdown_write, ShutdownNow, TypeOK, status, queues, sent,
       send_list_empty
  <2>2. Flags
    BY <1>2 DEF Flags, shutdown_write, TypeOK, Fields, Lingering, NoUseAfterRelease,
       PendingIsArmed, NoIdleWriting, EndOfStream, send_list_empty, InUserCode,
       ShutdownNow, queues
  <2> QED BY <1>0, <1>2, <2>1, <2>2 DEF shutdown_write, Flags
<1>3. CASE pause_read \/ resume_read
  <2>1. CASE pause_read
    <3>1. TypeOK'
      <4>1. /\ readOn' \in BOOLEAN
            /\ UNCHANGED <<pc, ready, watched, writeOn, status, noDelay, queues,
                           writeError, timer, released, accepted, sent, peer>>
        BY <2>1 DEF pause_read
      <4> QED BY <4>1 DEF TypeOK, status, queues, sent
    <3>2. Flags
      BY <2>1 DEF Flags, pause_read, TypeOK, Fields, Lingering, NoUseAfterRelease,
         PendingIsArmed, NoIdleWriting, EndOfStream, send_list_empty, InUserCode,
         status, queues, sent
    <3> QED BY <1>0, <2>1, <3>1, <3>2 DEF pause_read, Flags
  <2>2. CASE resume_read
    <3>1. TypeOK'
      BY <2>2 DEF resume_read, TypeOK, status, queues, sent
    <3>2. Flags
      BY <2>2 DEF Flags, resume_read, TypeOK, Fields, Lingering, NoUseAfterRelease,
         PendingIsArmed, NoIdleWriting, EndOfStream, send_list_empty, InUserCode,
         status, queues, sent
    <3> QED BY <1>0, <2>2, <3>1, <3>2 DEF resume_read, Flags
  <2> QED BY <1>3, <2>1, <2>2
<1>4. ASSUME NEW b \in Buffer, NEW urgent \in BOOLEAN, Send(b, urgent)
      PROVE  IInv'
  <2> DEFINE s == IF urgent THEN sendList ELSE sendList \o BytesOf(b, FALSE)
             u == IF urgent THEN urgentList \o BytesOf(b, TRUE) ELSE urgentList
             to == IF urgent THEN "urgent" ELSE "send"
  <2>1. /\ s \in Seq(Byte) /\ u \in Seq(Byte) /\ ~(s = <<>> /\ u = <<>>)
        /\ Shape(s, u, sendingUrgent)
    BY PushedShape
  <2>2. /\ ~closed /\ ~wclose /\ InUserCode /\ ~released /\ ~timer
        /\ UNCHANGED <<pc, ready, watched, readOn, rclose, closed, graceful, halved,
                       noDelay, timer, released, peer>>
        /\ accepted' = accepted \cup {b}
    BY <1>4 DEF Send, InUserCode, Fields, TypeOK
  <2>3. to \in {"none", "send", "urgent"} /\ to # "none"
    OBVIOUS
  <2>4. (to = "send" => u = urgentList) /\ (to = "urgent" => s = sendList)
    OBVIOUS
  <2> HIDE DEF s, u, to
  <2>5. CASE watched /\ AtOnce(b)
    <3>1. process_write(s, u, to)
      BY <1>4, <2>5 DEF Send, s, u, to
    <3>2. /\ sendList' \in Seq(Byte) /\ urgentList' \in Seq(Byte)
          /\ sendingUrgent' \in BOOLEAN /\ wire' \in Seq(Byte)
          /\ wclose' \in BOOLEAN /\ writeOn' \in BOOLEAN
          /\ writeError' \in BOOLEAN /\ fin' \in BOOLEAN
          /\ Lists'
          /\ send_list_empty' => /\ writeOn' = (writeOn /\ rclose)
                                 /\ wclose' = (wclose \/ rclose)
                                 /\ fin' = (fin \/ (wclose /\ ~rclose))
                                 /\ writeError' = writeError
          /\ ~send_list_empty' =>
               /\ fin' = fin
               /\ \/ wclose' = wclose /\ writeError' = writeError /\ (writeOn => writeOn')
                  \/ wclose' /\ peer = "reset" /\ writeError' /\ (writeOn' => writeOn)
          /\ ~send_list_empty' /\ (to = "send" => u = <<>>)
                               /\ (to = "urgent" => s = <<>>)
                               /\ to # "none" => writeOn' \/ writeError'
      BY <2>1, <2>3, <3>1, WriteStep
    <3>3. TypeOK'
      BY <2>2, <3>2 DEF TypeOK
    <3>4. PendingIsArmed'
      BY <2>2, <2>3, <2>4, <2>5, <3>2 DEF PendingIsArmed, send_list_empty
    <3>5. Fields' /\ Lingering' /\ NoUseAfterRelease'
      BY <2>2, <2>5, <3>2 DEF Fields, Lingering, NoUseAfterRelease
    <3>6. NoIdleWriting' /\ EndOfStream'
      BY <2>2, <2>5, <3>2 DEF NoIdleWriting, EndOfStream, TypeOK
    <3> QED BY <3>2, <3>3, <3>4, <3>5, <3>6
  <2>6. CASE ~(watched /\ AtOnce(b))
    <3>1. /\ sendList' = s /\ urgentList' = u
          /\ writeOn' = (watched /\ (writeOn \/ Arm(b)))
          /\ UNCHANGED <<sendingUrgent, wclose, writeError, sent>>
      BY <1>4, <2>6 DEF Send, s, u
    <3>2. TypeOK'
      BY <2>1, <2>2, <3>1 DEF TypeOK, sent
    <3>3. Lists'
      BY <2>1, <3>1 DEF Lists
    <3>4. ~send_list_empty'
      BY <2>1, <3>1 DEF send_list_empty
    <3>5. Fields' /\ Lingering' /\ NoUseAfterRelease'
      BY <2>2, <3>1 DEF Fields, Lingering, NoUseAfterRelease
    <3>6. PendingIsArmed' /\ NoIdleWriting' /\ EndOfStream'
      BY <2>2, <3>1, <3>4 DEF PendingIsArmed, NoIdleWriting, EndOfStream, Arm, sent
    <3> QED BY <3>2, <3>3, <3>5, <3>6
  <2> QED BY <2>5, <2>6
<1>5. ASSUME NEW delay \in BOOLEAN, Close(delay)
      PROVE  IInv'
  <2>1. /\ InUserCode /\ closed' = TRUE /\ rclose' = TRUE /\ graceful' = delay
        /\ UNCHANGED <<pc, halved, noDelay, sendingUrgent, writeError, accepted, sent,
                       peer>>
        /\ ~closed /\ ~released /\ ~timer
    BY <1>5 DEF Close, InUserCode, Fields, TypeOK
  <2>2. CASE Linger(delay)
    <3>1. /\ readOn' = FALSE /\ timer' = TRUE
          /\ UNCHANGED <<ready, watched, writeOn, wclose, sendList, urgentList, released>>
          /\ ~wclose /\ watched /\ ~send_list_empty
      BY <1>5, <2>2 DEF Close, Linger
    <3>2. TypeOK'
      <4>1. delay \in BOOLEAN /\ timer' \in BOOLEAN /\ closed' \in BOOLEAN
            /\ rclose' \in BOOLEAN /\ graceful' \in BOOLEAN /\ readOn' \in BOOLEAN
        BY <2>1, <3>1
      <4> QED BY <2>1, <3>1, <4>1, SMTT(30) DEF TypeOK, sent
    <3>3. Flags
      BY <2>1, <3>1 DEF Flags, TypeOK, Fields, Lingering, NoUseAfterRelease,
         PendingIsArmed, NoIdleWriting, EndOfStream, send_list_empty, sent
    <3> QED BY <1>0, <2>1, <3>1, <3>2, <3>3 DEF Flags, queues
  <2>3. CASE ~Linger(delay) /\ InLoop(pc)
    <3>1. /\ wclose' = TRUE
          /\ UNCHANGED <<ready, watched, readOn, writeOn, sendList, urgentList, timer,
                         released>>
          /\ pc # "loop"
          /\ graceful' => wclose \/ send_list_empty \/ ~watched
      BY <1>5, <2>1, <2>3 DEF Close, InLoop, Linger
    <3>2. TypeOK'
      BY <2>1, <3>1 DEF TypeOK, sent
    <3>3. Flags
      BY <2>1, <3>1 DEF Flags, TypeOK, Fields, Lingering, NoUseAfterRelease,
         PendingIsArmed, NoIdleWriting, EndOfStream, send_list_empty, sent
    <3> QED BY <1>0, <2>1, <3>1, <3>2, <3>3 DEF Flags, queues
  <2>4. CASE ~Linger(delay) /\ ~InLoop(pc)
    <3>1. wclose' = TRUE /\ release_socket /\ pc = "loop"
      BY <1>5, <2>4 DEF Close, InLoop
    <3> QED BY <2>1, <3>1, ReleaseInv
  <2> QED BY <2>2, <2>3, <2>4
<1>6. CASE PeerEnds \/ PeerResets
  <2>1. CASE PeerEnds
    <3>1. TypeOK'
      BY <2>1 DEF PeerEnds, TypeOK, status, queues, sent
    <3>2. Flags
      BY <2>1 DEF Flags, PeerEnds, TypeOK, Fields, Lingering, NoUseAfterRelease,
         PendingIsArmed, NoIdleWriting, EndOfStream, send_list_empty, status,
         queues, sent
    <3> QED BY <1>0, <2>1, <3>1, <3>2 DEF PeerEnds, Flags
  <2>2. CASE PeerResets
    <3>1. TypeOK'
      BY <2>2 DEF PeerResets, TypeOK, status, queues, sent
    <3>2. Flags
      BY <2>2 DEF Flags, PeerResets, TypeOK, Fields, Lingering, NoUseAfterRelease,
         PendingIsArmed, NoIdleWriting, EndOfStream, send_list_empty, status,
         queues, sent
    <3> QED BY <1>0, <2>2, <3>1, <3>2 DEF PeerResets, Flags
  <2> QED BY <1>6, <2>1, <2>2
<1>7. CASE Poll
  <2>1. /\ pc = "loop" /\ watched /\ ready' \subseteq {"read", "write"}
        /\ UNCHANGED <<pc, watched, readOn, writeOn, status, noDelay, queues, writeError,
                       timer, released, accepted, sent, peer>>
    BY <1>7 DEF Poll, Possible, Certain
  <2>2. TypeOK'
    BY <2>1 DEF TypeOK, status, queues, sent
  <2>3. Flags
    BY <2>1 DEF Flags, TypeOK, Fields, Lingering, NoUseAfterRelease,
       PendingIsArmed, NoIdleWriting, EndOfStream, send_list_empty, status, queues,
       sent
  <2> QED BY <1>0, <2>1, <2>2, <2>3 DEF Flags
<1>8. CASE ReadData \/ SkipRead \/ SkipWrite
  <2>1. CASE ReadData
    <3>1. TypeOK'
      BY <2>1 DEF ReadData, TypeOK, status, queues, sent
    <3>2. Flags
      BY <2>1 DEF Flags, ReadData, TypeOK, Fields, Lingering, NoUseAfterRelease,
         PendingIsArmed, NoIdleWriting, EndOfStream, send_list_empty, status,
         queues, sent, Reading
    <3> QED BY <1>0, <2>1, <3>1, <3>2 DEF ReadData, Flags
  <2>2. CASE SkipRead
    <3>1. TypeOK'
      BY <2>2 DEF SkipRead, TypeOK, status, queues, sent
    <3>2. Flags
      BY <2>2 DEF Flags, SkipRead, TypeOK, Fields, Lingering, NoUseAfterRelease,
         PendingIsArmed, NoIdleWriting, EndOfStream, send_list_empty, status,
         queues, sent, Reading
    <3> QED BY <1>0, <2>2, <3>1, <3>2 DEF SkipRead, Flags
  <2>3. CASE SkipWrite
    <3>1. TypeOK'
      BY <2>3 DEF SkipWrite, TypeOK, status, queues, sent
    <3>2. Flags
      BY <2>3 DEF Flags, SkipWrite, TypeOK, Fields, Lingering, NoUseAfterRelease,
         PendingIsArmed, NoIdleWriting, EndOfStream, send_list_empty, status,
         queues, sent, Reading
    <3> QED BY <1>0, <2>3, <3>1, <3>2 DEF SkipWrite, Flags
  <2> QED BY <1>8, <2>1, <2>2, <2>3
<1>9. CASE ReadZero \/ ReadError
  <2>1. CASE ReadZero
    <3>1. TypeOK'
      <4>1. /\ readOn' \in BOOLEAN /\ rclose' \in BOOLEAN
            /\ pc' \in {"loop", "data", "eof", "failed", "write", "end"}
            /\ UNCHANGED <<ready, watched, writeOn, wclose, closed, graceful, halved,
                           noDelay, queues, writeError, timer, released, accepted, sent, peer>>
        BY <2>1 DEF ReadZero, TypeOK
      <4> QED BY <4>1 DEF TypeOK, queues, sent
    <3>2. Flags
      BY <2>1 DEF Flags, ReadZero, TypeOK, Fields, Lingering, NoUseAfterRelease,
         PendingIsArmed, NoIdleWriting, EndOfStream, send_list_empty, queues,
         sent, Reading, ByWriteError
    <3> QED BY <1>0, <2>1, <3>1, <3>2 DEF ReadZero, Flags
  <2>2. CASE ReadError
    <3>1. TypeOK'
      BY <2>2 DEF ReadError, TypeOK, ByWriteError, queues, sent
    <3>2. Flags
      BY <2>2 DEF Flags, ReadError, TypeOK, Fields, Lingering, NoUseAfterRelease,
         PendingIsArmed, NoIdleWriting, EndOfStream, send_list_empty, queues,
         sent, Reading, ByWriteError
    <3> QED BY <1>0, <2>2, <3>1, <3>2 DEF ReadError, Flags
  <2> QED BY <1>9, <2>1, <2>2
<1>10. CASE CallbackReturns
  <2>1. TypeOK'
    BY <1>10 DEF CallbackReturns, TypeOK, status, queues, sent
  <2>2. Flags
    BY <1>10 DEF Flags, CallbackReturns, TypeOK, Fields, Lingering,
       NoUseAfterRelease, PendingIsArmed, NoIdleWriting, EndOfStream,
       send_list_empty, status, queues, sent
  <2> QED BY <1>0, <1>10, <2>1, <2>2 DEF CallbackReturns, Flags
<1>11. CASE OnWrite
  <2>1. /\ pc = "write" /\ pc' = "end" /\ ~released
        /\ process_write(sendList, urgentList, "none")
        /\ UNCHANGED <<ready, watched, readOn, rclose, closed, graceful, halved, noDelay,
                       timer, released, accepted, peer>>
    BY <1>11 DEF OnWrite, NoUseAfterRelease, TypeOK
  <2>2. CASE send_list_empty
    <3>1. UNCHANGED <<sendList, urgentList, wclose, writeOn, writeError, sent>>
          /\ sendingUrgent' = SendingUrgent(sendList, urgentList)
      BY <2>1, <2>2 DEF process_write, send_list_empty
    <3>2. sendingUrgent' = FALSE
      BY <2>2, <3>1 DEF SendingUrgent, FinishFirst, send_list_empty
    <3>3. TypeOK'
      <4>1. wire' = wire /\ fin' = fin
        BY <3>1 DEF sent
      <4>2. sendingUrgent' \in BOOLEAN
        BY <3>2
      <4>3. pc' \in {"loop", "data", "eof", "failed", "write", "end"}
        BY <2>1
      <4> QED BY <2>1, <3>1, <4>1, <4>2, <4>3 DEF TypeOK
    <3>4. Lists'
      BY <3>1, <3>2 DEF Lists, Shape, Started
    <3>5. Flags
      BY <2>1, <3>1 DEF Flags, TypeOK, Fields, Lingering, NoUseAfterRelease,
         PendingIsArmed, NoIdleWriting, EndOfStream, send_list_empty, sent
    <3> QED BY <3>3, <3>4, <3>5 DEF Flags
  <2>3. CASE ~send_list_empty
    <3>1. sendList \in Seq(Byte) /\ urgentList \in Seq(Byte)
          /\ Shape(sendList, urgentList, sendingUrgent)
          /\ ~(sendList = <<>> /\ urgentList = <<>>)
      BY <2>3 DEF TypeOK, Lists, send_list_empty
    <3>2. /\ sendList' \in Seq(Byte) /\ urgentList' \in Seq(Byte)
          /\ sendingUrgent' \in BOOLEAN /\ wire' \in Seq(Byte)
          /\ wclose' \in BOOLEAN /\ writeOn' \in BOOLEAN
          /\ writeError' \in BOOLEAN /\ fin' \in BOOLEAN
          /\ Lists'
          /\ send_list_empty' => /\ writeOn' = (writeOn /\ rclose)
                                 /\ wclose' = (wclose \/ rclose)
                                 /\ fin' = (fin \/ (wclose /\ ~rclose))
                                 /\ writeError' = writeError
          /\ ~send_list_empty' =>
               /\ fin' = fin
               /\ \/ wclose' = wclose /\ writeError' = writeError /\ (writeOn => writeOn')
                  \/ wclose' /\ peer = "reset" /\ writeError' /\ (writeOn' => writeOn)
          /\ ~send_list_empty' => (writeOn' => writeOn)
      BY <2>1, <3>1, WriteStep
    <3>3. TypeOK'
      BY <2>1, <3>2 DEF TypeOK
    <3>4. PendingIsArmed' /\ NoIdleWriting'
      BY <2>1, <2>3, <3>2 DEF PendingIsArmed, NoIdleWriting, TypeOK
    <3>5. Fields' /\ NoUseAfterRelease'
      <4>1. ~released' /\ (timer' => closed') /\ (closed' => rclose')
        BY <2>1 DEF Fields
      <4>2. ~watched' => ~readOn' /\ ~writeOn'
        <5>1. writeOn' => writeOn
          BY <3>2
        <5> QED BY <2>1, <5>1 DEF Fields
      <4> QED BY <2>1, <4>1, <4>2 DEF Fields, NoUseAfterRelease
    <3>6. Lingering' /\ EndOfStream'
      BY <2>1, <2>3, <3>2 DEF Lingering, EndOfStream, TypeOK
    <3> QED BY <3>2, <3>3, <3>4, <3>5, <3>6
  <2> QED BY <2>2, <2>3
<1>12. CASE EndEvents
  <2>1. /\ pc = "end" /\ pc' = "loop"
        /\ UNCHANGED <<status, noDelay, sendingUrgent, writeError, accepted, sent, peer>>
    BY <1>12 DEF EndEvents
  <2>2. CASE Finished(wclose)
    <3>1. release_socket /\ closed' = TRUE /\ rclose' = TRUE
      BY <1>12, <2>1, <2>2 DEF EndEvents, Finished, status, TypeOK
    <3>2. /\ wclose' \in BOOLEAN /\ (wclose => wclose')
          /\ graceful' \in BOOLEAN /\ halved' = halved
      BY <2>1 DEF TypeOK, status
    <3> QED BY <2>1, <3>1, <3>2, ReleaseInv
  <2>3. CASE ~Finished(wclose)
    <3>1. /\ ready' = {}
          /\ UNCHANGED <<watched, readOn, writeOn, sendList, urgentList, timer, released>>
      BY <1>12, <2>3 DEF EndEvents
    <3>2. TypeOK'
      BY <2>1, <3>1 DEF TypeOK, status, sent
    <3>3. Flags
      BY <2>1, <3>1 DEF Flags, TypeOK, Fields, Lingering, NoUseAfterRelease,
         PendingIsArmed, NoIdleWriting, EndOfStream, send_list_empty, status, sent
    <3> QED BY <1>0, <2>1, <3>1, <3>2, <3>3 DEF Flags, queues
  <2> QED BY <2>2, <2>3
<1>13. CASE delay_close_timer_cb
  <2>1. /\ release_socket /\ pc' = "loop"
        /\ UNCHANGED <<status, noDelay, sendingUrgent, writeError, accepted, sent, peer>>
        /\ timer
    BY <1>13 DEF delay_close_timer_cb
  <2>2. closed' = TRUE /\ rclose' = TRUE
    BY <2>1 DEF Fields, status, TypeOK
  <2>3. /\ wclose' \in BOOLEAN /\ (wclose => wclose')
          /\ graceful' \in BOOLEAN /\ halved' = halved
    BY <2>1 DEF TypeOK, status
  <2> QED BY <2>1, <2>2, <2>3, ReleaseInv
<1>14. CASE UNCHANGED vars
  <2>1. TypeOK'
    BY <1>14 DEF vars, TypeOK, status, queues, sent
  <2>2. Flags
    BY <1>14 DEF Flags, vars, Fields, Lingering, NoUseAfterRelease, PendingIsArmed,
       NoIdleWriting, EndOfStream, send_list_empty, status, queues, sent
  <2> QED BY <1>0, <1>14, <2>1, <2>2 DEF vars, Flags
<1> QED
  BY <1>1, <1>2, <1>3, <1>4, <1>5, <1>6, <1>7, <1>8, <1>9, <1>10, <1>11, <1>12,
     <1>13, <1>14 DEF Next, Call, OnEvents

(* For any buffers and any calls the socket keeps the invariant. *)
THEOREM SocketInvariant == Spec => []IInv
<1> QED BY InitInv, NextInv, PTL DEF Spec

(* The types, for any buffers.                                             *)
THEOREM SocketTypes == Spec => []TypeOK
<1>1. IInv => TypeOK
  BY DEF IInv
<1> QED BY <1>1, SocketInvariant, PTL

(* A socket is freed outside its handlers, and nothing is left that points  *)
(* to it: not the ready list, not the loop, not the delayed close.          *)
THEOREM NeverUsedAfterRelease == Spec => []NoUseAfterRelease
<1>1. IInv => NoUseAfterRelease
  BY DEF IInv
<1> QED BY <1>1, SocketInvariant, PTL

(* What waits in a watched socket is listened for, whatever mixture of      *)
(* urgent, ordinary and half sent buffers is waiting.                       *)
THEOREM PendingIsListenedFor == Spec => []PendingIsArmed
<1>1. IInv => PendingIsArmed
  BY DEF IInv
<1> QED BY <1>1, SocketInvariant, PTL

(* A socket with nothing to send does not ask to be told it can write.      *)
THEOREM NothingPendingNotListened == Spec => []NoIdleWriting
<1>1. IInv => NoIdleWriting
  BY DEF IInv
<1> QED BY <1>1, SocketInvariant, PTL

(* Together: what the loop keeps of a socket is right. *)
THEOREM SocketsSafe == Spec => []SocketSafe
<1>1. IInv => SocketSafe
  BY DEF IInv, SocketSafe
<1> QED BY <1>1, SocketInvariant, PTL

(* After shutdown_write the end of the stream is sent, after everything     *)
(* that was accepted and never before.                                      *)
THEOREM EndIsSentLast == Spec => []EndOfStream
<1>1. IInv => EndOfStream
  BY DEF IInv
<1> QED BY <1>1, SocketInvariant, PTL

(* A close with a delay drops nothing before the delay is over, unless the  *)
(* connection is broken, the socket was in no loop or the write side had    *)
(* been shut over waiting data: in every other state the close lingers, and *)
(* nothing that happens before the timer frees the socket with data left.   *)
THEOREM DelayedCloseLingers == Spec => LingersUntilSent
<1>1. IInv /\ [Next]_vars
        => [graceful' /\ released' /\ ~released /\ ~send_list_empty
              => delay_close_timer_cb \/ peer = "reset" \/ ~watched \/ halved]_vars
  <2> SUFFICES ASSUME IInv, [Next]_vars, graceful', released', ~released,
                      ~send_list_empty, peer # "reset", watched, ~halved
               PROVE  delay_close_timer_cb
    OBVIOUS
  <2>1. wclose => closed /\ ~graceful
    BY DEF IInv, Lingering, TypeOK
  <2>2. ~(Start \/ shutdown_write \/ pause_read \/ resume_read)
    BY DEF Start, shutdown_write, pause_read, resume_read
  <2>3. ASSUME NEW b \in Buffer, NEW urgent \in BOOLEAN, Send(b, urgent)
        PROVE  FALSE
    BY <2>3 DEF Send
  <2>4. ASSUME NEW delay \in BOOLEAN, Close(delay)
        PROVE  FALSE
    <3>1. ~closed /\ delay
      BY <2>4 DEF Close, InUserCode
    <3>2. Linger(delay)
      BY <2>1, <3>1 DEF Linger
    <3> QED BY <2>4, <3>2 DEF Close
  <2>5. ~(PeerEnds \/ PeerResets \/ Poll \/ UNCHANGED vars)
    BY DEF PeerEnds, PeerResets, Poll, vars
  <2>6. ~(ReadData \/ ReadZero \/ ReadError \/ SkipRead \/ CallbackReturns)
    BY DEF ReadData, ReadZero, ReadError, SkipRead, CallbackReturns
  <2>7. ~(OnWrite \/ SkipWrite)
    BY DEF OnWrite, SkipWrite
  <2>8. ~EndEvents
    BY <2>1 DEF EndEvents, Finished, status
  <2> QED BY <2>2, <2>3, <2>4, <2>5, <2>6, <2>7, <2>8 DEF Next, Call, OnEvents
<1> QED BY <1>1, SocketInvariant, PTL DEF Spec, LingersUntilSent

-----------------------------------------------------------------------------
(* The order: the socket, with its two lists and its half sent buffers,    *)
(* keeps that of the one line of Outbox, for any buffers of any size.      *)

LEMMA Associative ==
  ASSUME NEW q \in Seq(Byte), NEW t \in Seq(Byte), NEW v \in Seq(Byte)
  PROVE  q \o (t \o v) = (q \o t) \o v
BY ConcatAssociative, Z3

(* A line in two parts, cut where they meet. *)
LEMMA Cut ==
  ASSUME NEW q \in Seq(Byte), NEW t \in Seq(Byte)
  PROVE  SubSeq(q \o t, 1, Len(q)) = q /\ Rest(q \o t, Len(q)) = t
<1>1. Len(q) \in Nat /\ Len(q) \in 0 .. Len(q)
  BY LenProperties
<1>2. /\ SubSeq(q \o t, 1, Len(q)) = SubSeq(q, 1, Len(q))
      /\ Rest(q \o t, Len(q)) = Rest(q, Len(q)) \o t
  BY <1>1, FrontOfConcat
<1>3. Rest(q, Len(q)) = <<>>
  BY <1>1, SubSeqEmpty DEF Rest
<1>4. SubSeq(q, 1, Len(q)) = q /\ <<>> \o t = t
  BY SubSeqFull, ConcatEmptySeq
<1> QED BY <1>2, <1>3, <1>4

(* The started part of a list, what follows it, and the two together. *)
LEMMA Parts ==
  ASSUME NEW s \in Seq(Byte), Whole(s)
  PROVE  /\ SubSeq(s, 1, Started(s)) \in Seq(Byte)
         /\ Len(SubSeq(s, 1, Started(s))) = Started(s)
         /\ Rest(s, Started(s)) \in Seq(Byte)
         /\ s = SubSeq(s, 1, Started(s)) \o Rest(s, Started(s))
         /\ Started(s) \in Nat
<1>1. Started(s) \in 0 .. Len(s) /\ Len(s) \in Nat
  BY StartedBound, LenProperties
<1>2. /\ SubSeq(s, 1, Started(s)) \in Seq(Byte)
      /\ Len(SubSeq(s, 1, Started(s))) = Started(s)
      /\ Rest(s, Started(s)) \in Seq(Byte)
  BY <1>1, FirstProperties, RestProperties
<1>3. SubSeq(s, 1, Started(s)) \o SubSeq(s, Started(s) + 1, Len(s)) = SubSeq(s, 1, Len(s))
  <2>1. 1 \in 1 .. Len(s) + 1 /\ Started(s) \in 1 - 1 .. Len(s)
        /\ Len(s) \in Started(s) .. Len(s)
    BY <1>1
  <2> QED BY <2>1, ConcatAdjacentSubSeq
<1>4. s = SubSeq(s, 1, Started(s)) \o Rest(s, Started(s))
  BY <1>3, SubSeqFull DEF Rest
<1> QED BY <1>1, <1>2, <1>4

(* An ordinary buffer added to its list joins the end of the line. *)
LEMMA OrdinaryJoins ==
  ASSUME TypeOK, Lists, NEW b \in Buffer
  PROVE  LineOf(sendList \o BytesOf(b, FALSE), urgentList)
           = LineOf(sendList, urgentList) \o BytesOf(b, FALSE)
<1> DEFINE new == BytesOf(b, FALSE)
           k == Started(sendList)
           f == SubSeq(sendList, 1, k)
           r == Rest(sendList, k)
<1>1. /\ sendList \in Seq(Byte) /\ urgentList \in Seq(Byte)
      /\ Whole(sendList) /\ Whole(urgentList)
  BY DEF TypeOK, Lists, Shape
<1>2. new \in Seq(Byte)
  BY Bytes
<1>3. f \in Seq(Byte) /\ Len(f) = k /\ r \in Seq(Byte) /\ sendList = f \o r
  BY <1>1, Parts
<1>4. Started(sendList \o new) = k
  <2>1. sendList \o new = IF FALSE THEN sendList ELSE sendList \o BytesOf(b, FALSE)
    OBVIOUS
  <2>2. urgentList = IF FALSE THEN urgentList \o BytesOf(b, TRUE) ELSE urgentList
    OBVIOUS
  <2> HIDE DEF new
  <2>3. FALSE \in BOOLEAN
    OBVIOUS
  <2> QED BY <2>1, <2>2, <2>3, PushedShape DEF k, new
<1> HIDE DEF new, k
<1>5. k \in 0 .. Len(sendList)
  BY <1>1, StartedBound DEF k
<1>6. SubSeq(sendList \o new, 1, k) = f /\ Rest(sendList \o new, k) = r \o new
  BY <1>1, <1>2, <1>5, FrontOfConcat
<1>7. LineOf(sendList \o new, urgentList) = f \o (urgentList \o (r \o new))
  BY <1>4, <1>6 DEF LineOf
<1>8. LineOf(sendList, urgentList) = f \o (urgentList \o r)
  BY DEF LineOf, k
<1> HIDE DEF f, r
<1>9. urgentList \o (r \o new) = (urgentList \o r) \o new /\ urgentList \o r \in Seq(Byte)
  <2>1. urgentList \o r \in Seq(Byte)
    BY <1>1, <1>3, ConcatProperties
  <2>2. urgentList \in Seq(Byte) /\ r \in Seq(Byte) /\ new \in Seq(Byte)
    BY <1>1, <1>2, <1>3
  <2>3. urgentList \o (r \o new) = (urgentList \o r) \o new
    BY <2>2, Associative
  <2> QED BY <2>1, <2>3
<1>10. f \o ((urgentList \o r) \o new) = (f \o (urgentList \o r)) \o new
  <2> DEFINE v == urgentList \o r
  <2>1. f \in Seq(Byte) /\ v \in Seq(Byte) /\ new \in Seq(Byte)
    BY <1>2, <1>3, <1>9
  <2> HIDE DEF v
  <2>2. f \o (v \o new) = (f \o v) \o new
    BY <2>1, Associative
  <2> QED BY <2>2 DEF v
<1> QED BY <1>7, <1>8, <1>9, <1>10 DEF new

(* Of a line cut in three only the head of its first nonempty part shows    *)
(* how much of it was started.                                              *)
LEMMA StartedLine ==
  ASSUME TypeOK, Lists
  PROVE  LET k == Started(sendList)
             l == LineOf(sendList, urgentList)
         IN  /\ k > 0 => Started(l) = k
             /\ k = 0 /\ urgentList # <<>> => Started(l) = Started(urgentList)
             /\ k = 0 /\ urgentList = <<>> => Started(l) = 0
<1> DEFINE k == Started(sendList)
           f == SubSeq(sendList, 1, k)
           r == Rest(sendList, k)
           l == LineOf(sendList, urgentList)
<1>1. /\ sendList \in Seq(Byte) /\ urgentList \in Seq(Byte)
      /\ Whole(sendList) /\ Whole(urgentList)
  BY DEF TypeOK, Lists, Shape
<1>2. /\ f \in Seq(Byte) /\ Len(f) = k /\ r \in Seq(Byte) /\ sendList = f \o r
      /\ k \in Nat
  BY <1>1, Parts
<1>3. l = f \o (urgentList \o r)
  BY DEF LineOf
<1>4. k = 0 => l = urgentList \o sendList
  BY <1>1, LineProperties
<1> HIDE DEF l
<1>5. CASE k > 0
  <2>1. f # <<>>
    BY <1>2, <1>5, EmptySeq
  <2>2. urgentList \o r \in Seq(Byte)
    BY <1>1, <1>2, ConcatProperties
  <2> DEFINE v == urgentList \o r
  <2> HIDE DEF k, f, r, v
  <2>3. Started(f \o r) = Started(f)
    BY <1>2, <2>1, StartedConcat
  <2>4. Started(f \o v) = Started(f)
    BY <1>2, <2>1, <2>2, StartedConcat DEF v
  <2>5. Started(l) = k
    BY <1>2, <1>3, <2>3, <2>4 DEF v, k
  <2> QED BY <1>5, <2>5 DEF k, l
<1>6. CASE k = 0
  <2>1. /\ urgentList # <<>> => Started(urgentList \o sendList) = Started(urgentList)
        /\ urgentList = <<>> => Started(urgentList \o sendList) = Started(sendList)
    BY <1>1, StartedConcat
  <2>2. l = urgentList \o sendList
    BY <1>4, <1>6
  <2>3. k = Started(sendList)
    OBVIOUS
  <2> HIDE DEF k
  <2>4. /\ urgentList # <<>> => Started(l) = Started(urgentList)
        /\ urgentList = <<>> => Started(l) = 0
    BY <1>6, <2>1, <2>2, <2>3
  <2> QED BY <1>6, <2>4 DEF k, l
<1>7. k > 0 \/ k = 0
  BY <1>2
<1> QED BY <1>5, <1>6, <1>7

(* Where an urgent buffer goes: behind the started part and the urgent ones. *)
Ahead == Started(sendList) + Len(urgentList)

(* Behind the started part of the line, exactly the bytes up to that place  *)
(* are urgent.                                                              *)
LEMMA UrgentFirst ==
  ASSUME TypeOK, Lists
  PROVE  LET l == LineOf(sendList, urgentList)
         IN  /\ l \in Seq(Byte) /\ Started(l) \in 0 .. Ahead /\ Ahead \in 0 .. Len(l)
             /\ \A i \in Started(l) + 1 .. Len(l) : l[i].urgent <=> i <= Ahead
             /\ SubSeq(l, 1, Ahead)
                  = SubSeq(sendList, 1, Started(sendList)) \o urgentList
             /\ Rest(l, Ahead) = Rest(sendList, Started(sendList))
<1> DEFINE k == Started(sendList)
           f == SubSeq(sendList, 1, k)
           r == Rest(sendList, k)
           l == LineOf(sendList, urgentList)
           q == f \o urgentList
<1>1. /\ sendList \in Seq(Byte) /\ urgentList \in Seq(Byte)
      /\ Whole(sendList) /\ Whole(urgentList)
      /\ \A i \in 1 .. Len(sendList) : ~sendList[i].urgent
      /\ \A i \in 1 .. Len(urgentList) : urgentList[i].urgent
  BY DEF TypeOK, Lists, Shape
<1>2. /\ f \in Seq(Byte) /\ Len(f) = k /\ r \in Seq(Byte) /\ k \in Nat
      /\ k \in 0 .. Len(sendList) /\ Len(urgentList) \in Nat /\ Len(sendList) \in Nat
  BY <1>1, Parts, StartedBound, LenProperties
<1>3. l = f \o (urgentList \o r)
  BY DEF LineOf
<1>4. /\ Len(r) = Len(sendList) - k
      /\ \A i \in 1 .. Len(sendList) - k : r[i] = sendList[i + k]
  BY <1>1, <1>2, RestProperties
<1>5. /\ k > 0 => Started(l) = k
      /\ k = 0 /\ urgentList # <<>> => Started(l) = Started(urgentList)
      /\ k = 0 /\ urgentList = <<>> => Started(l) = 0
  BY StartedLine
<1>6. Started(urgentList) \in 0 .. Len(urgentList)
  BY <1>1, StartedBound
<1>7. Ahead = k + Len(urgentList)
  BY DEF Ahead
<1> HIDE DEF l, f, r, k
<1>8. Started(l) \in 0 .. Ahead /\ (k > 0 => Started(l) = k)
  <2>1. CASE k > 0
    BY <1>2, <1>5, <1>7, <2>1
  <2>2. CASE ~(k > 0) /\ urgentList # <<>>
    BY <1>2, <1>5, <1>6, <1>7, <2>2
  <2>3. CASE ~(k > 0) /\ urgentList = <<>>
    BY <1>2, <1>5, <1>7, <2>3
  <2> QED BY <2>1, <2>2, <2>3
<1>9. /\ q \in Seq(Byte) /\ Len(q) = Ahead
      /\ \A i \in 1 .. Len(f) + Len(urgentList) :
           q[i] = IF i <= Len(f) THEN f[i] ELSE urgentList[i - Len(f)]
  BY <1>1, <1>2, <1>7, ConcatProperties
<1>10. l = q \o r
  <2>1. f \in Seq(Byte) /\ urgentList \in Seq(Byte) /\ r \in Seq(Byte)
    BY <1>1, <1>2
  <2>2. f \o (urgentList \o r) = (f \o urgentList) \o r
    BY <2>1, Associative
  <2> QED BY <1>3, <2>2
<1> HIDE DEF q
<1>11. /\ l \in Seq(Byte) /\ Len(l) = Len(q) + Len(r)
       /\ \A i \in 1 .. Len(q) + Len(r) :
            l[i] = IF i <= Len(q) THEN q[i] ELSE r[i - Len(q)]
  BY <1>2, <1>9, <1>10, ConcatProperties
<1>12. Ahead \in 0 .. Len(l)
  BY <1>2, <1>4, <1>7, <1>9, <1>11
<1>13. SubSeq(l, 1, Ahead) = q /\ Rest(l, Ahead) = r
  BY <1>2, <1>9, <1>10, Cut
<1>14. ASSUME NEW i \in Started(l) + 1 .. Len(l)
       PROVE  l[i].urgent <=> i <= Ahead
  <2>1. i \in 1 .. Len(q) + Len(r) /\ i \in Int /\ i > Started(l)
    BY <1>8, <1>11
  <2>2. CASE i <= Ahead
    <3>1. i > k
      BY <1>2, <1>8, <2>1
    <3>2. l[i] = q[i] /\ i \in 1 .. Len(f) + Len(urgentList) /\ ~(i <= Len(f))
      BY <1>2, <1>7, <1>9, <1>11, <2>1, <2>2, <3>1
    <3>3. q[i] = urgentList[i - Len(f)]
      BY <1>9, <3>2
    <3>4. i - Len(f) \in 1 .. Len(urgentList)
      BY <1>2, <3>2
    <3> QED BY <1>1, <2>2, <3>2, <3>3, <3>4
  <2>3. CASE ~(i <= Ahead)
    <3>1. l[i] = r[i - Len(q)]
      BY <1>9, <1>11, <2>1, <2>3
    <3>2. i - Len(q) \in 1 .. Len(sendList) - k
      BY <1>2, <1>4, <1>7, <1>9, <2>1, <2>3
    <3>3. r[i - Len(q)] = sendList[i - Len(q) + k] /\ i - Len(q) + k \in 1 .. Len(sendList)
      <4> DEFINE a == Len(sendList)
                 j == i - Len(q)
      <4>1. a \in Nat /\ k \in 0 .. a /\ j \in 1 .. a - k
        BY <1>2, <1>4, <3>2
      <4> HIDE DEF a, j
      <4>2. j + k \in 1 .. a /\ j \in 1 .. a - k
        BY <4>1
      <4>3. r[j] = sendList[j + k]
        BY <1>4, <4>2 DEF a
      <4> QED BY <4>2, <4>3 DEF a, j
    <3> QED BY <1>1, <2>3, <3>1, <3>3
  <2> QED BY <2>2, <2>3
<1> QED BY <1>8, <1>11, <1>12, <1>13, <1>14 DEF l, q, f, k, r

(* An urgent buffer added to its list joins the line where Outbox puts it. *)
LEMMA UrgentJoins ==
  ASSUME TypeOK, Lists, NEW b \in Buffer
  PROVE  LineOf(sendList, urgentList \o BytesOf(b, TRUE)) = Out!JoinedUrgent(b)
<1> DEFINE new == BytesOf(b, TRUE)
           k == Started(sendList)
           f == SubSeq(sendList, 1, k)
           r == Rest(sendList, k)
           l == LineOf(sendList, urgentList)
           Place(n) == /\ \A i \in Started(l) + 1 .. n : l[i].urgent
                       /\ \A i \in n + 1 .. Len(l) : ~l[i].urgent
<1>1. sendList \in Seq(Byte) /\ urgentList \in Seq(Byte) /\ Whole(sendList)
  BY DEF TypeOK, Lists, Shape
<1>2. f \in Seq(Byte) /\ r \in Seq(Byte) /\ new \in Seq(Byte)
  BY <1>1, Parts, Bytes
<1>3. /\ l \in Seq(Byte) /\ Started(l) \in 0 .. Ahead /\ Ahead \in 0 .. Len(l)
      /\ \A i \in Started(l) + 1 .. Len(l) : l[i].urgent <=> i <= Ahead
      /\ SubSeq(l, 1, Ahead) = f \o urgentList
      /\ Rest(l, Ahead) = r
  BY UrgentFirst
<1>4. Len(l) \in Nat
  BY <1>3, LenProperties
<1>5. Out!JoinedUrgent(b)
        = LET n == CHOOSE n \in Started(l) .. Len(l) : Place(n)
          IN  SubSeq(l, 1, n) \o new \o Rest(l, n)
  BY DEF Out!JoinedUrgent, Out!Started, Out!First, Out!Rest, Out!BytesOf, Started, Rest,
     BytesOf
<1>6. LineOf(sendList, urgentList \o new) = f \o ((urgentList \o new) \o r)
  BY DEF LineOf
<1> HIDE DEF new, f, r, l
<1>7. Ahead \in Started(l) .. Len(l) /\ Place(Ahead)
  BY <1>3, <1>4
<1>8. ASSUME NEW n \in Started(l) .. Len(l), Place(n)
      PROVE  n = Ahead
  <2>1. ~(n < Ahead)
    <3> SUFFICES ASSUME n < Ahead PROVE FALSE
      OBVIOUS
    <3>1. n + 1 \in n + 1 .. Len(l) /\ n + 1 \in Started(l) + 1 .. Len(l)
          /\ n + 1 <= Ahead
      BY <1>3, <1>4
    <3> QED BY <1>3, <1>8, <3>1
  <2>2. ~(n > Ahead)
    <3> SUFFICES ASSUME n > Ahead PROVE FALSE
      OBVIOUS
    <3>1. Ahead + 1 \in Started(l) + 1 .. n /\ Ahead + 1 \in Started(l) + 1 .. Len(l)
          /\ ~(Ahead + 1 <= Ahead)
      BY <1>3, <1>4
    <3> QED BY <1>3, <1>8, <3>1
  <2> QED BY <1>3, <1>4, <2>1, <2>2
<1> HIDE DEF Place
<1>9. (CHOOSE n \in Started(l) .. Len(l) : Place(n)) = Ahead
  BY <1>7, <1>8
<1>10. Out!JoinedUrgent(b) = ((f \o urgentList) \o new) \o r
  BY <1>3, <1>5, <1>9
<1>11. urgentList \o new \in Seq(Byte)
  BY <1>1, <1>2, ConcatProperties
<1>12. (f \o urgentList) \o new = f \o (urgentList \o new)
  <2>1. f \in Seq(Byte) /\ urgentList \in Seq(Byte) /\ new \in Seq(Byte)
    BY <1>1, <1>2
  <2> QED BY <2>1, Associative
<1>13. (f \o (urgentList \o new)) \o r = f \o ((urgentList \o new) \o r)
  <2> DEFINE v == urgentList \o new
  <2>1. f \in Seq(Byte) /\ v \in Seq(Byte) /\ r \in Seq(Byte)
    BY <1>2, <1>11
  <2> HIDE DEF v
  <2>2. (f \o v) \o r = f \o (v \o r)
    BY <2>1, Associative
  <2> QED BY <2>2 DEF v
<1> QED BY <1>6, <1>10, <1>12, <1>13 DEF new

(* The line when nothing waits. *)
LEMMA EmptyLine == LineOf(<<>>, <<>>) = <<>>
<1>1. <<>> \in Seq(Byte) /\ Started(<<>>) = 0 /\ Whole(<<>>)
  BY EmptySeq DEF Started, Whole
<1> QED BY <1>1, LineProperties

(* Bytes left the front of l and the rest of it is the line: Outbox's Sent. *)
LEMMA SentStep ==
  ASSUME NEW l, NEW n, wire' = wire \o SubSeq(l, 1, n),
         LineOf(sendList, urgentList)' = Rest(l, n)
  PROVE  Out!Sent(l, n)
BY DEF Out!Sent, Out!First, Out!Rest, Rest

(* Sending a buffer is Outbox's Accept, whether it is written at once,      *)
(* partly or not at all.                                                    *)
LEMMA SendAccepts ==
  ASSUME IInv, NEW b \in Buffer, NEW urgent \in BOOLEAN, Send(b, urgent)
  PROVE  Out!Accept
<1> USE DEF IInv
<1> DEFINE s == IF urgent THEN sendList ELSE sendList \o BytesOf(b, FALSE)
           u == IF urgent THEN urgentList \o BytesOf(b, TRUE) ELSE urgentList
           to == IF urgent THEN "urgent" ELSE "send"
<1>1. /\ s \in Seq(Byte) /\ u \in Seq(Byte) /\ ~(s = <<>> /\ u = <<>>)
      /\ Shape(s, u, sendingUrgent)
  BY PushedShape
<1>2. LineOf(s, u) \in {Out!Joined(b), Out!JoinedUrgent(b)}
  <2>1. CASE urgent
    <3>1. LineOf(s, u) = Out!JoinedUrgent(b)
      BY <2>1, UrgentJoins
    <3> QED BY <3>1
  <2>2. CASE ~urgent
    <3>1. LineOf(s, u) = LineOf(sendList, urgentList) \o BytesOf(b, FALSE)
      BY <2>2, OrdinaryJoins
    <3>2. Out!Joined(b) = LineOf(sendList, urgentList) \o BytesOf(b, FALSE)
      BY DEF Out!Joined, Out!BytesOf, BytesOf
    <3> QED BY <3>1, <3>2
  <2> QED BY <2>1, <2>2
<1>3. to \in {"none", "send", "urgent"}
  OBVIOUS
<1>4. ~wclose /\ ~fin
  BY DEF Send, EndOfStream, TypeOK
<1>5. LineOf(s, u) \in Seq(Byte) /\ Len(LineOf(s, u)) \in Nat
  BY <1>1, LineProperties, LenProperties DEF Shape
<1>6. /\ fin' = fin
      /\ \E n \in 0 .. Len(LineOf(s, u)) :
           /\ wire' = wire \o SubSeq(LineOf(s, u), 1, n)
           /\ LineOf(sendList, urgentList)' = Rest(LineOf(s, u), n)
  <2>1. CASE watched /\ AtOnce(b)
    <3>1. process_write(s, u, to)
      BY <2>1 DEF Send
    <3> HIDE DEF s, u, to
    <3>2. /\ \E n \in 0 .. Len(LineOf(s, u)) :
               /\ wire' = wire \o SubSeq(LineOf(s, u), 1, n)
               /\ LineOf(sendList, urgentList)' = Rest(LineOf(s, u), n)
          /\ send_list_empty' => fin' = (fin \/ (wclose /\ ~rclose))
          /\ ~send_list_empty' => fin' = fin
      BY <1>1, <1>3, <3>1, WriteStep
    <3>3. fin' = fin
      BY <1>4, <3>2 DEF TypeOK
    <3> QED BY <3>2, <3>3
  <2>2. CASE ~(watched /\ AtOnce(b))
    <3>1. sendList' = s /\ urgentList' = u /\ wire' = wire /\ fin' = fin
      BY <2>2 DEF Send, sent
    <3> HIDE DEF s, u
    <3>2. LineOf(sendList, urgentList)' = LineOf(s, u)
      BY <3>1 DEF LineOf, Started, Rest
    <3>3. SubSeq(LineOf(s, u), 1, 0) = <<>> /\ wire \o <<>> = wire
      BY SubSeqEmpty, ConcatEmptySeq DEF TypeOK
    <3>4. Rest(LineOf(s, u), 0) = LineOf(s, u)
      BY <1>5, SubSeqFull DEF Rest
    <3>5. 0 \in 0 .. Len(LineOf(s, u))
      BY <1>5
    <3>6. wire' = wire \o SubSeq(LineOf(s, u), 1, 0)
      BY <3>1, <3>3
    <3> QED BY <3>1, <3>2, <3>4, <3>5, <3>6
  <2> QED BY <2>1, <2>2
<1> DEFINE l == LineOf(s, u)
<1> HIDE DEF s, u
<1>7. \E n \in 0 .. Len(l) : Out!Sent(l, n)
  <2>1. PICK n \in 0 .. Len(l) : /\ wire' = wire \o SubSeq(l, 1, n)
                                 /\ LineOf(sendList, urgentList)' = Rest(l, n)
    BY <1>6
  <2>2. Out!Sent(l, n)
    BY <2>1, SentStep
  <2> QED BY <2>2
<1> HIDE DEF l
<1>8. l \in {Out!Joined(b), Out!JoinedUrgent(b)}
  BY <1>2 DEF l
<1> QED BY <1>4, <1>6, <1>7, <1>8 DEF Out!Accept

(* Writing is Outbox's Transmit, or nothing. *)
LEMMA WriteTransmits ==
  ASSUME IInv, OnWrite
  PROVE  Out!Transmit \/ UNCHANGED Out!vars
<1> USE DEF IInv
<1> DEFINE l == LineOf(sendList, urgentList)
<1>1. process_write(sendList, urgentList, "none")
  BY DEF OnWrite
<1>2. CASE send_list_empty
  <2>1. sendList' = sendList /\ urgentList' = urgentList /\ wire' = wire /\ fin' = fin
    BY <1>1, <1>2 DEF process_write, send_list_empty, sent
  <2> QED BY <2>1 DEF Out!vars, LineOf, Started, Rest
<1>3. CASE ~send_list_empty
  <2>1. sendList \in Seq(Byte) /\ urgentList \in Seq(Byte)
        /\ Shape(sendList, urgentList, sendingUrgent)
        /\ ~(sendList = <<>> /\ urgentList = <<>>)
    BY <1>3 DEF TypeOK, Lists, send_list_empty
  <2>2. l \in Seq(Byte) /\ Len(l) = Len(sendList) + Len(urgentList)
    BY <2>1, LineProperties DEF Shape
  <2>3. l # <<>>
    <3>1. Len(sendList) \in Nat /\ Len(urgentList) \in Nat
          /\ (Len(sendList) > 0 \/ Len(urgentList) > 0)
      BY <2>1, EmptySeq, LenProperties
    <3>2. Len(l) > 0
      BY <2>2, <3>1
    <3> QED BY <3>2, EmptySeq
  <2>4. /\ \E n \in 0 .. Len(l) : /\ wire' = wire \o SubSeq(l, 1, n)
                                  /\ LineOf(sendList, urgentList)' = Rest(l, n)
        /\ send_list_empty' => fin' = (fin \/ (wclose /\ ~rclose))
        /\ ~send_list_empty' => fin' = fin
        /\ fin' \in BOOLEAN
    BY <1>1, <2>1, WriteStep
  <2>5. send_list_empty' => l' = <<>>
    BY EmptyLine DEF send_list_empty, LineOf, Started, Rest
  <2> HIDE DEF l
  <2>6. PICK n \in 0 .. Len(l) : wire' = wire \o SubSeq(l, 1, n) /\ l' = Rest(l, n)
    BY <2>4 DEF l
  <2>7. Len(l) \in Nat
    BY <2>2, LenProperties
  <2>8. CASE n = 0
    <3>1. SubSeq(l, 1, 0) = <<>> /\ wire \o <<>> = wire /\ Rest(l, 0) = l
      BY <2>2, SubSeqEmpty, SubSeqFull, ConcatEmptySeq DEF TypeOK, Rest
    <3>2. wire' = wire /\ l' = l
      BY <2>6, <2>8, <3>1
    <3>3. fin' = fin
      BY <2>3, <2>4, <2>5, <3>2
    <3> QED BY <3>2, <3>3 DEF Out!vars, l
  <2>9. CASE n # 0
    <3>1. n \in 1 .. Len(l) /\ Out!Sent(l, n)
      <4>1. n \in 1 .. Len(l)
        BY <2>6, <2>7, <2>9
      <4>2. wire' = wire \o SubSeq(l, 1, n) /\ LineOf(sendList, urgentList)' = Rest(l, n)
        BY <2>6 DEF l
      <4>3. Out!Sent(l, n)
        BY <4>2, SentStep
      <4> QED BY <4>1, <4>3
    <3>2. fin' \in {fin, l' = <<>>}
      BY <2>4, <2>5 DEF TypeOK
    <3> QED BY <3>1, <3>2 DEF Out!Transmit, l
  <2> QED BY <2>8, <2>9
<1> QED BY <1>2, <1>3

(* Freeing the socket drops the line. *)
LEMMA ReleaseDrops ==
  ASSUME release_socket, UNCHANGED sent
  PROVE  Out!Drop
<1>1. LineOf(sendList, urgentList)' = <<>>
  <2>1. sendList' = <<>> /\ urgentList' = <<>>
    BY DEF release_socket
  <2> QED BY <2>1, EmptyLine DEF LineOf, Started, Rest
<1> QED BY <1>1 DEF Out!Drop, sent

(* Every step of the socket is one of Outbox or leaves the line alone. *)
LEMMA NextKeepsOrder == IInv /\ [Next]_vars => [Out!Next]_(Out!vars)
<1> SUFFICES ASSUME IInv, [Next]_vars PROVE Out!Next \/ UNCHANGED Out!vars
  OBVIOUS
<1>1. ASSUME UNCHANGED <<queues, sent>> PROVE UNCHANGED Out!vars
  BY <1>1 DEF queues, sent, Out!vars, LineOf, Started, Rest
<1>2. ASSUME release_socket, UNCHANGED sent PROVE Out!Next
  BY <1>2, ReleaseDrops DEF Out!Next
<1>3. CASE Start \/ pause_read \/ resume_read \/ PeerEnds \/ PeerResets \/ Poll
  BY <1>1, <1>3 DEF Start, pause_read, resume_read, PeerEnds, PeerResets, Poll
<1>4. CASE \/ ReadData \/ ReadZero \/ ReadError \/ SkipRead \/ CallbackReturns
           \/ SkipWrite \/ UNCHANGED vars
  BY <1>1, <1>4 DEF ReadData, ReadZero, ReadError, SkipRead, CallbackReturns, SkipWrite,
     vars
<1>5. ASSUME NEW b \in Buffer, NEW urgent \in BOOLEAN, Send(b, urgent)
      PROVE  Out!Next
  BY <1>5, SendAccepts DEF Out!Next
<1>6. CASE shutdown_write
  <2>1. /\ UNCHANGED <<queues, wire>> /\ ~wclose /\ fin' = send_list_empty
        /\ ~fin
    BY <1>6 DEF shutdown_write, ShutdownNow, IInv, EndOfStream, TypeOK
  <2>2. LineOf(sendList, urgentList)' = LineOf(sendList, urgentList)
    BY <2>1 DEF queues, LineOf, Started, Rest
  <2>3. CASE send_list_empty
    <3>1. LineOf(sendList, urgentList) = <<>>
      BY <2>3, EmptyLine DEF send_list_empty
    <3> QED BY <2>1, <2>2, <2>3, <3>1 DEF Out!Next, Out!End
  <2>4. CASE ~send_list_empty
    <3>1. fin = FALSE
      BY <2>1 DEF IInv, TypeOK
    <3>2. fin' = FALSE
      BY <2>1, <2>4
    <3>3. fin' = fin
      BY <3>1, <3>2
    <3> QED BY <2>1, <2>2, <3>3 DEF Out!vars
  <2> QED BY <2>3, <2>4
<1>7. ASSUME NEW delay \in BOOLEAN, Close(delay)
      PROVE  Out!Next \/ UNCHANGED Out!vars
  <2>1. release_socket \/ UNCHANGED <<sendList, urgentList>>
    BY <1>7 DEF Close
  <2>2. UNCHANGED <<sendingUrgent, sent>>
    BY <1>7 DEF Close
  <2> QED BY <1>1, <1>2, <2>1, <2>2 DEF queues
<1>8. CASE OnWrite
  BY <1>8, WriteTransmits DEF Out!Next
<1>9. CASE EndEvents
  <2>1. release_socket \/ UNCHANGED <<sendList, urgentList>>
    BY <1>9 DEF EndEvents
  <2>2. UNCHANGED <<sendingUrgent, sent>>
    BY <1>9 DEF EndEvents
  <2> QED BY <1>1, <1>2, <2>1, <2>2 DEF queues
<1>10. CASE delay_close_timer_cb
  BY <1>2, <1>10 DEF delay_close_timer_cb
<1> QED
  BY <1>3, <1>4, <1>5, <1>6, <1>7, <1>8, <1>9, <1>10 DEF Next, Call, OnEvents

(* The socket implements Outbox: for any buffers, whatever is urgent, half  *)
(* sent, refused by the kernel or closed, the bytes reach the wire in the   *)
(* order of one line and no buffer is torn apart.                           *)
THEOREM SocketKeepsOrder == Spec => KeepsOrder
<1>1. Init => Out!Init
  BY EmptyLine DEF Init, Out!Init
<1> QED BY <1>1, NextKeepsOrder, SocketInvariant, PTL DEF Spec, KeepsOrder, Out!Spec
=============================================================================
