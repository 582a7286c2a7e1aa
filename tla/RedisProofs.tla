---------------------------- MODULE RedisProofs ----------------------------
(***************************************************************************)
(* Proofs about RedisReply and RedisClient, for any number of requests and *)
(* any messages, however long or nested, and any cuts of their bytes.      *)
(*                                                                         *)
(* First the parser: it never fails on what follows the protocol, and has  *)
(* the reply of a message with its last byte.  It is a fold over bytes, as *)
(* are the value of a number over its digits and the body of an array over *)
(* its elements; FoldFacts says what one element more does to each.  Read  *)
(* says what the node of a message is after some of its bytes, Path the    *)
(* same of the nodes from the root down to an element that is being read.  *)
(* A byte takes a path to the next one (ByteStep), so a chunk does         *)
(* (ChunkRead); Carried then says what a client has left to read of        *)
(* several messages, one behind the other.                                 *)
(*                                                                         *)
(* Then the client: whatever the parser makes of the bytes, requests are   *)
(* answered in order and once, and a client is freed with nothing left     *)
(* behind.  And with what was said of the parser: a request gets its own   *)
(* reply.                                                                  *)
(***************************************************************************)
EXTENDS RedisClient, SequenceTheorems, TLAPS

V == INSTANCE FoldFacts WITH op <- Shifted
B == INSTANCE FoldFacts WITH op <- Joined
A == INSTANCE FoldFacts WITH op <- Ascend
P == INSTANCE FoldFacts WITH op <- ParseByte

Digits == {c \in Byte : IS_NUM(c)}
Plain == Byte \ {CR, LF}

(* The kinds of messages. *)
IsLine(m, op) ==
  /\ m.reply.str \in Seq(Plain)
  /\ \/ op = Plus /\ m = Status(m.reply.str)
     \/ op = Minus /\ m = Error(m.reply.str)
IsInteger(m) == m.digits \in Seq(Digits) /\ m = Integer(m.digits)
IsNegative(m) == m.digits \in Seq(Digits) /\ m = Negative(m.digits)
IsString(m) ==
  m.reply.str \in Seq(Byte) /\ Numeral(m.digits, Len(m.reply.str)) /\ m = String(m.digits, m.reply.str)
IsArray(m) ==
  m.parts \in Seq(Messages) /\ Numeral(m.digits, Len(m.parts)) /\ m = Array(m.digits, m.parts)
IsGarbage(m) == m = Garbage(m.bytes) /\ m.bytes # <<>> /\ ~IS_OP_CODE(Head(m.bytes))

(* A server may fail, and send something else than replies. *)
Malformed == \E m \in Messages : IsGarbage(m)

(* A status or an error may be longer than the parser has room for. *)
LongLine(m) == (IsLine(m, Plus) \/ IsLine(m, Minus)) /\ Len(m.reply.str) >= SIZE_TMP_BUFF
Overlong == \E m \in Messages : LongLine(m)

(* Why the parser stops without a reply. *)
Stops(ret) == (ret = "err" /\ Malformed) \/ (ret = "overrun" /\ Overlong)

LEMMA KindOfMessage ==
  ASSUME NEW m \in Messages
  PROVE  \/ IsLine(m, Plus) \/ IsLine(m, Minus) \/ IsInteger(m) \/ IsNegative(m) \/ IsString(m)
         \/ IsArray(m) \/ IsGarbage(m) \/ m = Nil \/ m = NilArray
BY MessagesAssumption DEF MessagesAssumption, Protocol, IsLine, IsInteger, IsNegative, IsString,
   IsArray, IsGarbage, Numeral, Digits, Plain

-----------------------------------------------------------------------------
(* What the node of a message is after some of its bytes. *)
(* FALSE and TRUE, as names. *)
No == FALSE
Yes == TRUE
Node(type, num, want, str, kids, lf, neg, nil) ==
  [type |-> type, want |-> want, lf |-> lf, neg |-> neg, nil |-> nil, num |-> num,
   str |-> str, kids |-> kids]

LineRead(op, text, at, n) ==
  \/ at \in 1..(Len(text) + 1)
     /\ n = Node(op, 0, 0, SubSeq(text, 1, at - 1), <<>>, No, No, No)
  \/ at = Len(text) + 2 /\ n = Node(op, 0, 0, text, <<>>, Yes, No, No)
NumberRead(op, digits, neg, at, n) ==
  \/ at \in 1..(Len(digits) + 1)
     /\ n = Node(op, Value(SubSeq(digits, 1, at - 1)), 0, <<>>, <<>>, No, neg, No)
  \/ at = Len(digits) + 2 /\ n = Node(op, Value(digits), 0, <<>>, <<>>, Yes, neg, No)
NilRead(op, at, n) ==
  \/ at = 1 /\ n = Node(op, 0, 0, <<>>, <<>>, No, No, No)
  \/ at = 2 /\ n = Node(op, 0, 0, <<>>, <<>>, No, No, Yes)
  \/ at = 3 /\ n = Node(op, 1, 0, <<>>, <<>>, No, No, Yes)
  \/ at = 4 /\ n = Node(op, 1, 0, <<>>, <<>>, Yes, No, Yes)
TextRead(text, at, n) ==
  /\ at \in 0..(Len(text) + 1)
  /\ n = Node(Dollar, Len(text), Len(text) + 2 - at,
              SubSeq(text, 1, IF at > Len(text) THEN Len(text) ELSE at), <<>>, No, No, No)

Kids(parts, k) == [i \in 1..k |-> parts[i].reply]
KidsNode(parts, k) == Node(Star, Len(parts), Len(parts), <<>>, Kids(parts, k), No, No, No)
Start(m, k) == Len(m.digits) + 3 + Len(Body(SubSeq(m.parts, 1, k)))
KidsRead(m, k, at, n) == k \in 0..(Len(m.parts) - 1) /\ at = Start(m, k) /\ n = KidsNode(m.parts, k)

Read(m, at, n) ==
  \/ at = 0 /\ n = parse_tree_new
  \/ \E op \in {Plus, Minus} : IsLine(m, op) /\ LineRead(op, m.reply.str, at, n)
  \/ IsInteger(m) /\ NumberRead(Colon, m.digits, No, at, n)
  \/ IsNegative(m) /\ \/ NumberRead(Colon, m.digits, Yes, at - 1, n)
                      \/ at = 1 /\ n = Node(Colon, 0, 0, <<>>, <<>>, No, No, No)
  \/ IsString(m) /\ \/ NumberRead(Dollar, m.digits, No, at, n)
                    \/ TextRead(m.reply.str, at - (Len(m.digits) + 3), n)
  \/ m = Nil /\ NilRead(Dollar, at, n)
  \/ m = NilArray /\ NilRead(Star, at, n)
  \/ IsArray(m) /\ \/ NumberRead(Star, m.digits, No, at, n)
                   \/ \E k \in 0..(Len(m.parts) - 1) : KidsRead(m, k, at, n)

(* What the line of a nil array leaves: it is never complete. *)
NilArrayNode == Node(Star, 1, 1, <<>>, <<>>, No, No, Yes)

(* What the next byte of a message may come to. *)
Complete(m, at, n) == at = Len(m.bytes) /\ redisReply(n) = m.reply
Stepped(m, at, r) ==
  \/ r.ret = "err" /\ IsGarbage(m)
  \/ r.ret = "overrun" /\ LongLine(m)
  \/ r.ret = "retry" /\ at < Len(m.bytes) /\ Read(m, at, r.node)
  \/ r.ret = "retry" /\ r.node = NilArrayNode
  \/ r.ret = "ok" /\ Complete(m, at, r.node)


LEMMA NodeFields ==
  ASSUME NEW type, NEW num, NEW want, NEW str, NEW kids, NEW lf, NEW neg, NEW nil
  PROVE  LET n == Node(type, num, want, str, kids, lf, neg, nil)
         IN /\ n.type = type /\ n.num = num /\ n.want = want /\ n.str = str /\ n.kids = kids
            /\ n.lf = lf /\ n.neg = neg /\ n.nil = nil
BY DEF Node

LEMMA ParseByType ==
  ASSUME NEW n, NEW c
  PROVE  /\ n.type = 0 /\ IS_OP_CODE(c) => parse(n, c) = Retry([n EXCEPT !.type = c])
         /\ n.type = 0 /\ ~IS_OP_CODE(c) => parse(n, c) = Failed(n)
         /\ n.type \in {Plus, Minus} => parse(n, c) = parse_line(n, c)
         /\ n.type = Colon => parse(n, c) = parse_integer(n, c)
         /\ n.type = Dollar => parse(n, c) = parse_breply(n, c)
         /\ n.type = Star => parse(n, c) = parse_mbreply(n, c)
<1>1. ASSUME n.type = 0 PROVE parse(n, c) = IF IS_OP_CODE(c) THEN Retry([n EXCEPT !.type = c]) ELSE Failed(n)
  BY <1>1 DEF parse, Plus, Minus, Colon, Dollar, Star
<1>2. ASSUME n.type \in {Plus, Minus} PROVE parse(n, c) = parse_line(n, c)
  BY <1>2 DEF parse, Plus, Minus, Colon, Dollar, Star
<1>3. ASSUME n.type = Colon PROVE parse(n, c) = parse_integer(n, c)
  BY <1>3 DEF parse, Plus, Minus, Colon, Dollar, Star
<1>4. ASSUME n.type = Dollar PROVE parse(n, c) = parse_breply(n, c)
  BY <1>4 DEF parse, Plus, Minus, Colon, Dollar, Star
<1>5. ASSUME n.type = Star PROVE parse(n, c) = parse_mbreply(n, c)
  BY <1>5 DEF parse, Plus, Minus, Colon, Dollar, Star
<1> QED BY <1>1, <1>2, <1>3, <1>4, <1>5

(* What a byte does to a node, by the state of the node. *)
LEMMA ParseFresh ==
  ASSUME NEW c, IS_OP_CODE(c)
  PROVE  parse(parse_tree_new, c) = Retry(Node(c, 0, 0, <<>>, <<>>, No, No, No))
<1> DEFINE n == parse_tree_new
<1>1. n = Node(0, 0, 0, <<>>, <<>>, No, No, No)
  BY DEF parse_tree_new, Node, No
<1> HIDE DEF n
<1>2. [Node(0, 0, 0, <<>>, <<>>, No, No, No) EXCEPT !.type = c] = Node(c, 0, 0, <<>>, <<>>, No, No, No)
  BY DEF Node
<1>3. n.type = 0
  BY <1>1 DEF Node
<1>4. parse(n, c) = Retry([n EXCEPT !.type = c])
  BY <1>3, ParseByType
<1> QED BY <1>1, <1>2, <1>4 DEF n

LEMMA ParseLine ==
  ASSUME NEW op \in {Plus, Minus}, NEW str, NEW c
  PROVE  /\ parse(Node(op, 0, 0, str, <<>>, No, No, No), c) =
              IF c = CR THEN Retry(Node(op, 0, 0, str, <<>>, Yes, No, No))
              ELSE IF Len(str) >= SIZE_TMP_BUFF
              THEN [node |-> Node(op, 0, 0, str, <<>>, No, No, No), ret |-> "overrun"]
              ELSE Retry(Node(op, 0, 0, Append(str, c), <<>>, No, No, No))
         /\ parse(Node(op, 0, 0, str, <<>>, Yes, No, No), LF) =
              IF Len(str) >= SIZE_TMP_BUFF
              THEN [node |-> Node(op, 0, 0, str, <<>>, Yes, No, No), ret |-> "overrun"]
              ELSE Done(Node(op, 0, 0, str, <<>>, Yes, No, No))
<1> DEFINE n == Node(op, 0, 0, str, <<>>, No, No, No)
<1> DEFINE q == Node(op, 0, 0, str, <<>>, Yes, No, No)
<1> DEFINE m == Node(op, 0, 0, Append(str, c), <<>>, No, No, No)
<1>1. n.type = op /\ n.lf = No /\ n.str = str /\ q.type = op /\ q.lf = Yes
      /\ q.str = str
  BY DEF Node
<1>2. [n EXCEPT !.lf = Yes] = q
  BY DEF Node
<1>3. [n EXCEPT !.str = Append(str, c)] = m
  BY DEF Node
<1> HIDE DEF n, q, m
<1>4. parse(n, c) = parse_line(n, c) /\ parse(q, LF) = parse_line(q, LF)
  BY <1>1, ParseByType
<1>5. parse_line(n, c) = IF c = CR THEN Retry(q)
                         ELSE IF Len(str) >= SIZE_TMP_BUFF THEN [node |-> n, ret |-> "overrun"]
                         ELSE Retry(m)
  BY <1>1, <1>2, <1>3 DEF parse_line, Overruns, Ends, Yes, No
<1>6. parse_line(q, LF) = IF Len(str) >= SIZE_TMP_BUFF THEN [node |-> q, ret |-> "overrun"]
                          ELSE Done(q)
  BY <1>1 DEF parse_line, Overruns, Ends, Yes, No
<1> QED BY <1>4, <1>5, <1>6 DEF n, q, m

LEMMA ParseInteger ==
  ASSUME NEW num, NEW neg, NEW c
  PROVE  LET n == Node(Colon, num, 0, <<>>, <<>>, No, neg, No)
             q == Node(Colon, num, 0, <<>>, <<>>, Yes, neg, No)
         IN /\ c \in Digits =>
                 parse(n, c) = Retry(Node(Colon, Shifted(num, c), 0, <<>>, <<>>, No, neg, No))
            /\ parse(n, Minus) = Retry(Node(Colon, num, 0, <<>>, <<>>, No, Yes, No))
            /\ parse(n, CR) = Retry(q)
            /\ parse(q, LF) = Done(q)
<1> DEFINE n == Node(Colon, num, 0, <<>>, <<>>, No, neg, No)
<1> DEFINE q == Node(Colon, num, 0, <<>>, <<>>, Yes, neg, No)
<1> DEFINE x == Shifted(num, c)
<1>1. n.type = Colon /\ n.lf = No /\ n.num = num /\ q.type = Colon /\ q.lf = Yes
  BY DEF Node
<1>2. [n EXCEPT !.lf = Yes] = q
  BY DEF Node
<1>3. [n EXCEPT !.neg = Yes] = Node(Colon, num, 0, <<>>, <<>>, No, Yes, No)
  BY DEF Node
<1> HIDE DEF x
<1>4. [n EXCEPT !.num = x] = Node(Colon, x, 0, <<>>, <<>>, No, neg, No)
  BY DEF Node
<1> HIDE DEF n, q
<1>5. /\ parse(n, c) = parse_integer(n, c) /\ parse(n, Minus) = parse_integer(n, Minus)
      /\ parse(n, CR) = parse_integer(n, CR) /\ parse(q, LF) = parse_integer(q, LF)
  BY <1>1, ParseByType
<1>6. parse_integer(n, CR) = Retry(q) /\ parse_integer(q, LF) = Done(q)
  BY <1>1, <1>2 DEF parse_integer, Ends, Yes, No
<1>7. parse_integer(n, Minus) = Retry([n EXCEPT !.neg = Yes])
  BY <1>1 DEF parse_integer, Ends, PARSE_NUM, Yes, No, Minus, CR
<1>8. ASSUME c \in Digits PROVE parse_integer(n, c) = Retry([n EXCEPT !.num = x])
  <2>1. c # Minus /\ c # CR /\ IS_NUM(c)
    BY <1>8 DEF Digits, Minus, CR, IS_NUM
  <2> QED BY <1>1, <2>1 DEF parse_integer, Ends, PARSE_NUM, No, x
<1> QED BY <1>3, <1>4, <1>5, <1>6, <1>7, <1>8 DEF n, q, x

(* The length of a string or of an array. *)
LEMMA ParseLength ==
  ASSUME NEW op \in {Dollar, Star}, NEW num, NEW nil, NEW c
  PROVE  LET n == Node(op, num, 0, <<>>, <<>>, No, No, nil)
         IN /\ c \in Digits =>
                 parse(n, c) = Retry(Node(op, Shifted(num, c), 0, <<>>, <<>>, No, No, nil))
            /\ parse(n, Minus) = Retry(Node(op, num, 0, <<>>, <<>>, No, No, Yes))
            /\ parse(n, CR) = Retry(Node(op, num, 0, <<>>, <<>>, Yes, No, nil))
<1> DEFINE n == Node(op, num, 0, <<>>, <<>>, No, No, nil)
<1> DEFINE x == Shifted(num, c)
<1>1. n.type = op /\ n.lf = No /\ n.num = num /\ n.want = 0
  BY DEF Node
<1>2. [n EXCEPT !.lf = Yes] = Node(op, num, 0, <<>>, <<>>, Yes, No, nil)
  BY DEF Node
<1>3. [n EXCEPT !.nil = Yes] = Node(op, num, 0, <<>>, <<>>, No, No, Yes)
  BY DEF Node
<1> HIDE DEF x
<1>4. [n EXCEPT !.num = x] = Node(op, x, 0, <<>>, <<>>, No, No, nil)
  BY DEF Node
<1> HIDE DEF n
<1>5. ASSUME NEW d
      PROVE
        /\ d = CR => parse(n, d) = Retry([n EXCEPT !.lf = Yes])
        /\ d # CR => parse(n, d) = PARSE_NUM(n, d, [n EXCEPT !.nil = Yes])
  <2>1. parse(n, d) = IF op = Dollar THEN parse_breply(n, d) ELSE parse_mbreply(n, d)
    BY <1>1, ParseByType
  <2>2. /\ d = CR => parse_breply(n, d) = Retry([n EXCEPT !.lf = Yes])
        /\ d # CR => parse_breply(n, d) = PARSE_NUM(n, d, [n EXCEPT !.nil = Yes])
    BY <1>1 DEF parse_breply, Ends, Yes, No
  <2>3. /\ d = CR => parse_mbreply(n, d) = Retry([n EXCEPT !.lf = Yes])
        /\ d # CR => parse_mbreply(n, d) = PARSE_NUM(n, d, [n EXCEPT !.nil = Yes])
    BY <1>1 DEF parse_mbreply, Ends, Yes, No
  <2> QED BY <2>1, <2>2, <2>3
<1>6. parse(n, CR) = Retry([n EXCEPT !.lf = Yes])
  BY <1>5
<1>7. parse(n, Minus) = Retry([n EXCEPT !.nil = Yes])
  <2>1. parse(n, Minus) = PARSE_NUM(n, Minus, [n EXCEPT !.nil = Yes])
    BY <1>5 DEF Minus, CR
  <2> QED BY <2>1 DEF PARSE_NUM
<1>8. ASSUME c \in Digits PROVE parse(n, c) = Retry([n EXCEPT !.num = x])
  <2>1. c # Minus /\ c # CR /\ IS_NUM(c)
    BY <1>8 DEF Digits, Minus, CR, IS_NUM
  <2>2. parse(n, c) = PARSE_NUM(n, c, [n EXCEPT !.nil = Yes])
    BY <1>5, <2>1
  <2> QED BY <1>1, <2>1, <2>2 DEF PARSE_NUM, x
<1> QED BY <1>2, <1>3, <1>4, <1>6, <1>7, <1>8 DEF n, x

(* The end of the line of a length. *)
LEMMA ParseLengthEnd ==
  ASSUME NEW num \in Nat, NEW nil
  PROVE  /\ LET n == Node(Dollar, num, 0, <<>>, <<>>, Yes, No, No)
            IN parse(n, LF) = Retry(Node(Dollar, num, num + 2, <<>>, <<>>, No, No, No))
         /\ LET n == Node(Dollar, num, 0, <<>>, <<>>, Yes, No, Yes) IN parse(n, LF) = Done(n)
         /\ LET n == Node(Star, num, 0, <<>>, <<>>, Yes, No, nil)
                m == Node(Star, num, num, <<>>, <<>>, No, No, nil)
            IN parse(n, LF) = IF num = 0 THEN Done(m) ELSE Retry(m)
<1>1. LET n == Node(Dollar, num, 0, <<>>, <<>>, Yes, No, No)
      IN parse(n, LF) = Retry(Node(Dollar, num, num + 2, <<>>, <<>>, No, No, No))
  <2> DEFINE n == Node(Dollar, num, 0, <<>>, <<>>, Yes, No, No)
  <2> DEFINE l == Node(Dollar, num, 0, <<>>, <<>>, No, No, No)
  <2> DEFINE w == num + 2
  <2>1. n.type = Dollar /\ n.lf = Yes /\ n.num = num /\ n.want = 0 /\ n.nil = No
    BY DEF Node
  <2>2. [n EXCEPT !.lf = No] = l
    BY DEF Node
  <2> HIDE DEF w
  <2>3. [l EXCEPT !.want = w] = Node(Dollar, num, w, <<>>, <<>>, No, No, No)
    BY DEF Node
  <2> HIDE DEF n, l
  <2>4. [n EXCEPT !.lf = No, !.want = w] = [[n EXCEPT !.lf = No] EXCEPT !.want = w]
    OBVIOUS
  <2>5. parse(n, LF) = Retry([n EXCEPT !.lf = No, !.want = w])
    <3>1. parse(n, LF) = parse_breply(n, LF)
      BY <2>1, ParseByType
    <3>2. Ends(n, LF) /\ ~(n.want > 0)
      BY <2>1 DEF Ends, Yes
    <3>3. parse_breply(n, LF) = Retry([n EXCEPT !.lf = FALSE, !.want = n.num + 2])
      BY <2>1, <3>2 DEF parse_breply, Yes, No
    <3> QED BY <2>1, <3>1, <3>3 DEF w, No
  <2> QED BY <2>2, <2>3, <2>4, <2>5 DEF n, w
<1>2. LET n == Node(Dollar, num, 0, <<>>, <<>>, Yes, No, Yes) IN parse(n, LF) = Done(n)
  <2> DEFINE n == Node(Dollar, num, 0, <<>>, <<>>, Yes, No, Yes)
  <2>1. n.type = Dollar /\ n.lf = Yes /\ n.want = 0 /\ n.nil = Yes
    BY DEF Node
  <2> HIDE DEF n
  <2>2. parse(n, LF) = parse_breply(n, LF)
    BY <2>1, ParseByType
  <2>3. parse_breply(n, LF) = Done(n)
    BY <2>1 DEF parse_breply, Ends, Yes
  <2> QED BY <2>2, <2>3 DEF n
<1>3. LET n == Node(Star, num, 0, <<>>, <<>>, Yes, No, nil)
          m == Node(Star, num, num, <<>>, <<>>, No, No, nil)
      IN parse(n, LF) = IF num = 0 THEN Done(m) ELSE Retry(m)
  <2> DEFINE n == Node(Star, num, 0, <<>>, <<>>, Yes, No, nil)
  <2> DEFINE l == Node(Star, num, 0, <<>>, <<>>, No, No, nil)
  <2> DEFINE m == Node(Star, num, num, <<>>, <<>>, No, No, nil)
  <2>1. n.type = Star /\ n.lf = Yes /\ n.num = num /\ m.want = num
    BY DEF Node
  <2>2. [n EXCEPT !.lf = No] = l
    BY DEF Node
  <2>3. [l EXCEPT !.want = num] = m
    BY DEF Node
  <2> HIDE DEF n, l, m
  <2>4. [n EXCEPT !.lf = No, !.want = num] = [[n EXCEPT !.lf = No] EXCEPT !.want = num]
    OBVIOUS
  <2>5. m = [n EXCEPT !.lf = FALSE, !.want = n.num]
    BY <2>1, <2>2, <2>3, <2>4 DEF No
  <2>6. parse(n, LF) = parse_mbreply(n, LF)
    BY <2>1, ParseByType
  <2>7. parse_mbreply(n, LF) = IF num = 0 THEN Done(m) ELSE Retry(m)
    BY <2>1, <2>5 DEF parse_mbreply, Ends, Yes
  <2> QED BY <2>6, <2>7 DEF n, m
<1> QED BY <1>1, <1>2, <1>3

LEMMA ParseText ==
  ASSUME NEW num, NEW want \in Nat \ {0}, NEW str, NEW c
  PROVE  LET n == Node(Dollar, num, want, str, <<>>, No, No, No)
             m == Node(Dollar, num, want - 1, IF want > 2 THEN Append(str, c) ELSE str, <<>>, No, No, No)
         IN parse(n, c) = IF want = 1 THEN Done(m) ELSE Retry(m)
<1> DEFINE n == Node(Dollar, num, want, str, <<>>, No, No, No)
<1> DEFINE w == want - 1
<1> DEFINE s == IF want > 2 THEN Append(str, c) ELSE str
<1> DEFINE l == Node(Dollar, num, w, str, <<>>, No, No, No)
<1> DEFINE m == Node(Dollar, num, w, s, <<>>, No, No, No)
<1>1. n.type = Dollar /\ n.want = want /\ n.str = str
  BY DEF Node
<1>2. m.want = want - 1
  BY DEF Node
<1> HIDE DEF w, s
<1>3. [n EXCEPT !.want = w] = l
  BY DEF Node
<1>4. [l EXCEPT !.str = s] = m
  BY DEF Node
<1> HIDE DEF n, l, m
<1>5. [n EXCEPT !.want = w, !.str = s] = [[n EXCEPT !.want = w] EXCEPT !.str = s]
  OBVIOUS
<1>6. m = [n EXCEPT !.want = n.want - 1, !.str = IF n.want > 2 THEN Append(n.str, c) ELSE n.str]
  BY <1>1, <1>3, <1>4, <1>5 DEF w, s
<1>7. parse(n, c) = parse_string(n, c)
  <2>1. parse(n, c) = parse_breply(n, c)
    BY <1>1, ParseByType
  <2>2. n.want > 0
    BY <1>1
  <2> QED BY <2>1, <2>2 DEF parse_breply
<1>8. parse_string(n, c) = IF m.want = 0 THEN Done(m) ELSE Retry(m)
  BY <1>6, Zenon DEF parse_string
<1>9. m.want = 0 <=> want = 1
  BY <1>2
<1> QED BY <1>7, <1>8, <1>9 DEF n, m, w, s

-----------------------------------------------------------------------------
(* The bytes of a message, and the value of its first digits. *)
LEMMA BytesOfTwo ==
  ASSUME NEW S, NEW s \in Seq(S), NEW t \in Seq(S)
  PROVE  /\ s \o t \in Seq(S) /\ Len(s \o t) = Len(s) + Len(t)
         /\ Len(s) \in Nat /\ Len(t) \in Nat
         /\ \A i \in 1..Len(s) : (s \o t)[i] = s[i]
         /\ \A i \in 1..Len(t) : (s \o t)[Len(s) + i] = t[i]
OBVIOUS

LEMMA LineBytes ==
  ASSUME NEW op \in Byte, NEW text \in Seq(Byte)
  PROVE  /\ Len(Line(op, text)) = Len(text) + 3 /\ Line(op, text)[1] = op
         /\ \A i \in 1..Len(text) : Line(op, text)[i + 1] = text[i]
         /\ Line(op, text)[Len(text) + 2] = CR /\ Line(op, text)[Len(text) + 3] = LF
         /\ Line(op, text) \in Seq(Byte) /\ Len(text) \in Nat
<1> DEFINE s == <<op>> \o text
<1> DEFINE t == CRLF
<1>1. /\ s \in Seq(Byte) /\ Len(s) = Len(text) + 1 /\ s[1] = op
      /\ \A i \in 1..Len(text) : s[i + 1] = text[i]
  OBVIOUS
<1>2. t \in Seq(Byte) /\ Len(t) = 2 /\ t[1] = CR /\ t[2] = LF
  BY DEF CRLF, CR, LF, Byte
<1> HIDE DEF s, t
<1>3. /\ s \o t \in Seq(Byte) /\ Len(s \o t) = Len(s) + Len(t) /\ Len(s) \in Nat
      /\ \A i \in 1..Len(s) : (s \o t)[i] = s[i]
      /\ \A i \in 1..Len(t) : (s \o t)[Len(s) + i] = t[i]
  <2>1. s \in Seq(Byte) /\ t \in Seq(Byte)
    BY <1>1, <1>2
  <2> QED BY ONLY <2>1, BytesOfTwo
<1>4. Len(s \o t) = Len(text) + 3 /\ (s \o t)[1] = op /\ Len(text) \in Nat
  BY <1>1, <1>2, <1>3
<1>5. ASSUME NEW i \in 1..Len(text) PROVE (s \o t)[i + 1] = text[i]
  <2>1. i + 1 \in 1..Len(s)
    BY <1>1, <1>3
  <2> QED BY <1>1, <1>3, <2>1
<1>6. (s \o t)[Len(text) + 2] = CR /\ (s \o t)[Len(text) + 3] = LF
  BY <1>1, <1>2, <1>3
<1>7. Line(op, text) = s \o t
  BY DEF Line, s, t
<1> QED BY <1>3, <1>4, <1>5, <1>6, <1>7

LEMMA ValueOfPrefix ==
  ASSUME NEW digits \in Seq(Digits)
  PROVE  /\ Value(SubSeq(digits, 1, 0)) = 0 /\ Value(SubSeq(digits, 1, Len(digits))) = Value(digits)
         /\ \A k \in 1..Len(digits) :
              Value(SubSeq(digits, 1, k)) = Shifted(Value(SubSeq(digits, 1, k - 1)), digits[k])
<1>1. SubSeq(digits, 1, 0) = <<>> /\ SubSeq(digits, 1, Len(digits)) = digits /\ Len(digits) \in Nat
  OBVIOUS
<1>2. \A s : V!Fold(0, s) = Value(s)
  BY DEF Value, V!Fold, V!FoldLeft, V!MapThenFoldSet, FoldLeft, MapThenFoldSet, V!Max, Max
<1>4. Value(<<>>) = 0
  BY <1>2, V!FoldOfEmpty
<1>3. ASSUME NEW k \in 1..Len(digits)
      PROVE  Value(SubSeq(digits, 1, k)) = Shifted(Value(SubSeq(digits, 1, k - 1)), digits[k])
  <2> DEFINE j == k - 1
  <2>1. j \in 0..(Len(digits) - 1) /\ k = j + 1
    BY <1>1
  <2> HIDE DEF j
  <2>2. V!Fold(0, SubSeq(digits, 1, j + 1)) =
          Shifted(V!Fold(0, SubSeq(digits, 1, j)), digits[j + 1])
    BY <2>1, V!FoldOfPrefix
  <2> QED BY <1>2, <2>1, <2>2 DEF j
<1> QED BY <1>1, <1>3, <1>4

-----------------------------------------------------------------------------
(* One byte more of a number, before the end of its line. *)
LEMMA StepOfNumber ==
  ASSUME NEW op \in {Colon, Dollar, Star}, NEW digits \in Seq(Digits), NEW neg,
         op = Colon \/ neg = No, NEW at \in 1..(Len(digits) + 1), NEW n,
         NumberRead(op, digits, neg, at, n), NEW c, c = IF at <= Len(digits) THEN digits[at] ELSE CR
  PROVE  parse(n, c).ret = "retry" /\ NumberRead(op, digits, neg, at + 1, parse(n, c).node)
<1> DEFINE num == Value(SubSeq(digits, 1, at - 1))
<1>1. Len(digits) \in Nat /\ at \in Nat
  OBVIOUS
<1>2. n = Node(op, num, 0, <<>>, <<>>, No, neg, No)
  BY <1>1 DEF NumberRead
<1> HIDE DEF num
<1>3. CASE at <= Len(digits)
  <2>1. c \in Digits /\ at \in 1..Len(digits)
    BY <1>1, <1>3
  <2>2. parse(n, c) = Retry(Node(op, Shifted(num, c), 0, <<>>, <<>>, No, neg, No))
    BY <1>2, <2>1, ParseInteger, ParseLength
  <2>3. Value(SubSeq(digits, 1, at)) = Shifted(num, c)
    BY <1>3, <2>1, ValueOfPrefix DEF num
  <2> QED BY <1>1, <1>3, <2>2, <2>3 DEF NumberRead, Retry
<1>4. CASE at = Len(digits) + 1
  <2>1. c = CR
    BY <1>1, <1>4
  <2>2. parse(n, c) = Retry(Node(op, num, 0, <<>>, <<>>, Yes, neg, No))
    BY <1>2, <2>1, ParseInteger, ParseLength
  <2>3. num = Value(digits)
    BY <1>1, <1>4, ValueOfPrefix DEF num
  <2> QED BY <1>1, <1>4, <2>2, <2>3 DEF NumberRead, Retry
<1> QED BY <1>1, <1>3, <1>4

(* The first byte of a message is the code of its kind. *)
LEMMA StepOfCode ==
  ASSUME NEW op \in {Plus, Minus, Colon, Dollar, Star}
  PROVE  parse(parse_tree_new, op) = Retry(Node(op, 0, 0, <<>>, <<>>, No, No, No))
BY ParseFresh DEF IS_OP_CODE

LEMMA FirstOfNumber ==
  ASSUME NEW op, NEW digits \in Seq(Digits)
  PROVE  NumberRead(op, digits, No, 1, Node(op, 0, 0, <<>>, <<>>, No, No, No))
<1>1. Value(SubSeq(digits, 1, 1 - 1)) = 0 /\ Len(digits) \in Nat
  BY ValueOfPrefix
<1> QED BY <1>1 DEF NumberRead

LEMMA CodesAreBytes ==
  /\ {Plus, Minus, Colon, Dollar, Star, CR, LF} \subseteq Byte
  /\ \A s \in Seq(Digits) : s \in Seq(Byte)
  /\ \A s \in Seq(Plain) : s \in Seq(Byte)
<1>1. {Plus, Minus, Colon, Dollar, Star, CR, LF} \subseteq Byte
  BY DEF Plus, Minus, Colon, Dollar, Star, CR, LF, Byte
<1>2. Digits \subseteq Byte /\ Plain \subseteq Byte
  BY DEF Digits, Plain
<1>3. \A s \in Seq(Digits) : s \in Seq(Byte)
  BY <1>2
<1>4. \A s \in Seq(Plain) : s \in Seq(Byte)
  BY <1>2
<1> QED BY <1>1, <1>3, <1>4

LEMMA StepOfLine ==
  ASSUME NEW m, NEW op \in {Plus, Minus}, IsLine(m, op), NEW at \in Nat, NEW n,
         (at = 0 /\ n = parse_tree_new) \/ LineRead(op, m.reply.str, at, n)
  PROVE  Stepped(m, at + 1, parse(n, m.bytes[at + 1])) /\ at < Len(m.bytes)
<1> DEFINE text == m.reply.str
<1> DEFINE c == m.bytes[at + 1]
<1>1. text \in Seq(Plain) /\ m.bytes = Line(op, text)
  BY DEF IsLine, Status, Error, Message, Plus, Minus
<1>2. m.reply = Reply(IF op = Plus THEN "status" ELSE "error", 0, text, <<>>)
  BY DEF IsLine, Status, Error, Message, Plus, Minus
<1>3. (\A i \in 1..Len(text) : text[i] \in Plain) /\ Len(text) \in Nat
  BY <1>1
<1>4. /\ Len(m.bytes) = Len(text) + 3 /\ m.bytes[1] = op
      /\ \A i \in 1..Len(text) : m.bytes[i + 1] = text[i]
      /\ m.bytes[Len(text) + 2] = CR /\ m.bytes[Len(text) + 3] = LF
  <2>1. text \in Seq(Byte) /\ op \in Byte
    BY <1>1, CodesAreBytes
  <2> HIDE DEF text
  <2> QED BY <1>1, <2>1, LineBytes
<1>5. SubSeq(text, 1, 1 - 1) = <<>> /\ SubSeq(text, 1, Len(text)) = text
  BY <1>1
<1>6. \A r : r.ret = "retry" /\ LineRead(op, text, at + 1, r.node) => Stepped(m, at + 1, r)
  <2> SUFFICES ASSUME NEW r, r.ret = "retry", LineRead(op, text, at + 1, r.node)
               PROVE  Stepped(m, at + 1, r)
    OBVIOUS
  <2>1. Read(m, at + 1, r.node)
    BY DEF Read
  <2>2. at + 1 < Len(m.bytes)
    <3> HIDE DEF text
    <3> QED BY <1>3, <1>4 DEF LineRead
  <2> QED BY <2>1, <2>2 DEF Stepped
<1> HIDE DEF text, c
<1>7. CASE at = 0 /\ n = parse_tree_new
  <2>1. parse(n, c) = Retry(Node(op, 0, 0, <<>>, <<>>, No, No, No))
    BY <1>4, <1>7, StepOfCode DEF c
  <2>2. LineRead(op, text, 1, Node(op, 0, 0, <<>>, <<>>, No, No, No))
    <3>1. 1 \in 1..(Len(text) + 1)
      BY <1>3
    <3> QED BY <3>1, <1>5 DEF LineRead
  <2> QED BY <1>3, <1>4, <1>6, <1>7, <2>1, <2>2 DEF Retry, c
<1>8. CASE at \in 1..Len(text) /\ n = Node(op, 0, 0, SubSeq(text, 1, at - 1), <<>>, No, No, No)
  <2>1. c = text[at] /\ c # CR
    BY <1>3, <1>4, <1>8 DEF c, Plain
  <2> DEFINE s == SubSeq(text, 1, at - 1)
  <2>2. parse(n, c) = IF Len(s) >= SIZE_TMP_BUFF THEN [node |-> n, ret |-> "overrun"]
                      ELSE Retry(Node(op, 0, 0, Append(s, c), <<>>, No, No, No))
    BY <1>8, <2>1, ParseLine
  <2>3. Len(s) = at - 1
    BY <1>1, <1>3, <1>8
  <2> HIDE DEF s
  <2>4. CASE Len(s) >= SIZE_TMP_BUFF
    <3>1. Len(text) >= SIZE_TMP_BUFF
      BY <1>3, <1>8, <2>4, <2>3, SizeAssumption DEF SizeAssumption
    <3>2. parse(n, c).ret = "overrun"
      BY <2>2, <2>4
    <3>3. at < Len(m.bytes)
      BY <1>3, <1>4, <1>8
    <3> QED BY <3>1, <3>2, <3>3, SMT DEF Stepped, LongLine, text, c
  <2>5. CASE ~(Len(s) >= SIZE_TMP_BUFF)
    <3>1. parse(n, c) = Retry(Node(op, 0, 0, Append(SubSeq(text, 1, at - 1), c), <<>>, No, No, No))
      BY <2>2, <2>5 DEF s
    <3>2. Append(SubSeq(text, 1, at - 1), c) = SubSeq(text, 1, (at + 1) - 1)
      BY <1>1, <1>8, <2>1
    <3>3. LineRead(op, text, at + 1, parse(n, c).node)
      <4>1. at + 1 \in 1..(Len(text) + 1)
        BY <1>3, <1>8
      <4>2. parse(n, c).node = Node(op, 0, 0, SubSeq(text, 1, (at + 1) - 1), <<>>, No, No, No)
        <5>1. parse(n, c).node = Node(op, 0, 0, Append(SubSeq(text, 1, at - 1), c), <<>>, No, No, No)
          BY <3>1 DEF Retry
        <5> QED BY <3>2, <5>1, Zenon
      <4> QED BY <4>1, <4>2 DEF LineRead
    <3> QED BY <1>3, <1>4, <1>6, <1>8, <3>1, <3>3 DEF Retry, c
  <2> QED BY <2>4, <2>5
<1>9. CASE at = Len(text) + 1 /\ n = Node(op, 0, 0, SubSeq(text, 1, at - 1), <<>>, No, No, No)
  <2>1. c = CR /\ SubSeq(text, 1, at - 1) = text
    BY <1>3, <1>4, <1>5, <1>9 DEF c
  <2>2. parse(n, c) = Retry(Node(op, 0, 0, text, <<>>, Yes, No, No))
    BY <1>9, <2>1, ParseLine
  <2>3. LineRead(op, text, at + 1, parse(n, c).node)
    BY <1>3, <1>9, <2>2 DEF LineRead, Retry
  <2> QED BY <1>3, <1>4, <1>6, <1>9, <2>2, <2>3 DEF Retry, c
<1>10. CASE at = Len(text) + 2 /\ n = Node(op, 0, 0, text, <<>>, Yes, No, No)
  <2>1. c = LF
    BY <1>3, <1>4, <1>10 DEF c
  <2>2. parse(n, c) = IF Len(text) >= SIZE_TMP_BUFF THEN [node |-> n, ret |-> "overrun"]
                      ELSE Done(n)
    BY <1>10, <2>1, ParseLine
  <2>3. n.nil = No /\ n.type = op /\ n.str = text /\ n.kids = <<>>
    BY <1>10 DEF Node
  <2>4. redisReply(n) = m.reply
    BY <1>2, <2>3 DEF redisReply, Type, Reply, No, Plus, Minus, Colon, Dollar, Star
  <2>5. CASE Len(text) >= SIZE_TMP_BUFF
    <3>1. parse(n, c).ret = "overrun"
      BY <2>2, <2>5
    <3>2. at < Len(m.bytes)
      BY <1>3, <1>4, <1>10
    <3> QED BY <2>5, <3>1, <3>2 DEF Stepped, LongLine, text, c
  <2>6. CASE ~(Len(text) >= SIZE_TMP_BUFF)
    BY <1>3, <1>4, <1>10, <2>2, <2>4, <2>6 DEF Stepped, Complete, Done, c
  <2> QED BY <2>5, <2>6
<1> QED BY <1>3, <1>7, <1>8, <1>9, <1>10 DEF LineRead, text, c

LEMMA StepOfInteger ==
  ASSUME NEW m, IsInteger(m), NEW at \in Nat, NEW n,
         (at = 0 /\ n = parse_tree_new) \/ NumberRead(Colon, m.digits, No, at, n)
  PROVE  Stepped(m, at + 1, parse(n, m.bytes[at + 1])) /\ at < Len(m.bytes)
<1> DEFINE digits == m.digits
<1> DEFINE c == m.bytes[at + 1]
<1>1. /\ digits \in Seq(Digits) /\ m.bytes = Line(Colon, digits)
      /\ m.reply = Reply("integer", Value(digits), <<>>, <<>>)
  BY DEF IsInteger, Integer, Message
<1>2. Len(digits) \in Nat
  BY <1>1
<1>3. /\ Len(m.bytes) = Len(digits) + 3 /\ m.bytes[1] = Colon
      /\ \A i \in 1..Len(digits) : m.bytes[i + 1] = digits[i]
      /\ m.bytes[Len(digits) + 2] = CR /\ m.bytes[Len(digits) + 3] = LF
  <2>1. digits \in Seq(Byte)
    BY <1>1, CodesAreBytes
  <2>2. Colon \in Byte
    BY CodesAreBytes
  <2> HIDE DEF digits
  <2> QED BY <1>1, <2>1, <2>2, LineBytes
<1>4. \A r : r.ret = "retry" /\ NumberRead(Colon, digits, No, at + 1, r.node) => Stepped(m, at + 1, r)
  <2> SUFFICES ASSUME NEW r, r.ret = "retry", NumberRead(Colon, digits, No, at + 1, r.node)
               PROVE  Stepped(m, at + 1, r)
    OBVIOUS
  <2>1. Read(m, at + 1, r.node)
    BY DEF Read
  <2>2. at + 1 < Len(m.bytes)
    <3> HIDE DEF digits
    <3> QED BY <1>2, <1>3 DEF NumberRead
  <2> QED BY <2>1, <2>2 DEF Stepped
<1> HIDE DEF digits, c
<1>5. CASE at = 0 /\ n = parse_tree_new
  <2>1. parse(n, c) = Retry(Node(Colon, 0, 0, <<>>, <<>>, No, No, No))
    BY <1>3, <1>5, StepOfCode DEF c
  <2>2. NumberRead(Colon, digits, No, 1, Node(Colon, 0, 0, <<>>, <<>>, No, No, No))
    BY <1>1, FirstOfNumber
  <2> QED BY <1>2, <1>3, <1>4, <1>5, <2>1, <2>2 DEF Retry, c
<1>6. CASE at \in 1..(Len(digits) + 1) /\ NumberRead(Colon, digits, No, at, n)
  <2>1. c = IF at <= Len(digits) THEN digits[at] ELSE CR
    BY <1>2, <1>3, <1>6 DEF c
  <2>2. parse(n, c).ret = "retry" /\ NumberRead(Colon, digits, No, at + 1, parse(n, c).node)
    BY <1>1, <1>6, <2>1, StepOfNumber
  <2> QED BY <1>2, <1>3, <1>4, <1>6, <2>2 DEF c
<1>7. CASE at = Len(digits) + 2 /\ n = Node(Colon, Value(digits), 0, <<>>, <<>>, Yes, No, No)
  <2>1. c = LF
    BY <1>2, <1>3, <1>7 DEF c
  <2>2. parse(n, c) = Done(n)
    BY <1>7, <2>1, ParseInteger
  <2>3. n.nil = No /\ n.type = Colon /\ n.str = <<>> /\ n.kids = <<>> /\ n.num = Value(digits) /\ n.neg = No
    BY <1>7 DEF Node
  <2>4. redisReply(n) = m.reply
    BY <1>1, <2>3 DEF redisReply, Type, Reply, No, Plus, Minus, Colon, Dollar, Star
  <2> QED BY <1>2, <1>3, <1>7, <2>2, <2>4 DEF Stepped, Complete, Done, c
<1> QED BY <1>2, <1>5, <1>6, <1>7 DEF NumberRead, digits, c

LEMMA StepOfNegative ==
  ASSUME NEW m, IsNegative(m), NEW at \in Nat, NEW n,
         \/ at = 0 /\ n = parse_tree_new
         \/ at = 1 /\ n = Node(Colon, 0, 0, <<>>, <<>>, No, No, No)
         \/ NumberRead(Colon, m.digits, Yes, at - 1, n)
  PROVE  Stepped(m, at + 1, parse(n, m.bytes[at + 1])) /\ at < Len(m.bytes)
<1> DEFINE digits == m.digits
<1> DEFINE text == <<Minus>> \o digits
<1> DEFINE c == m.bytes[at + 1]
<1>1. /\ digits \in Seq(Digits) /\ m.bytes = Line(Colon, text)
      /\ m.reply = Reply("integer", -Value(digits), <<>>, <<>>)
  BY DEF IsNegative, Negative, Message
<1>2. Len(digits) \in Nat
  BY <1>1
<1>3. /\ Len(m.bytes) = Len(digits) + 4 /\ m.bytes[1] = Colon /\ m.bytes[2] = Minus
      /\ \A i \in 1..Len(digits) : m.bytes[i + 2] = digits[i]
      /\ m.bytes[Len(digits) + 3] = CR /\ m.bytes[Len(digits) + 4] = LF
  <2>1. digits \in Seq(Byte)
    BY <1>1, CodesAreBytes
  <2>2. Colon \in Byte /\ Minus \in Byte
    BY CodesAreBytes
  <2> HIDE DEF digits
  <2>3. text \in Seq(Byte)
    BY <2>1, <2>2
  <2>4. Len(text) = Len(digits) + 1 /\ text[1] = Minus /\ \A i \in 1..Len(digits) : text[i + 1] = digits[i]
    BY <2>1, <2>2
  <2> HIDE DEF text
  <2>5. /\ Len(m.bytes) = Len(text) + 3 /\ m.bytes[1] = Colon
        /\ \A i \in 1..Len(text) : m.bytes[i + 1] = text[i]
        /\ m.bytes[Len(text) + 2] = CR /\ m.bytes[Len(text) + 3] = LF
    BY <1>1, <2>2, <2>3, LineBytes
  <2>6. m.bytes[1 + 1] = Minus
    BY <1>2, <2>4, <2>5
  <2>7. ASSUME NEW i \in 1..Len(digits) PROVE m.bytes[i + 2] = digits[i]
    <3>1. i + 1 \in 1..Len(text) /\ (i + 1) + 1 = i + 2
      BY <1>2, <2>4
    <3> QED BY <2>4, <2>5, <3>1
  <2> QED BY <1>2, <2>4, <2>5, <2>6, <2>7
<1>4. \A r : r.ret = "retry" /\ NumberRead(Colon, digits, Yes, at, r.node) => Stepped(m, at + 1, r)
  <2> SUFFICES ASSUME NEW r, r.ret = "retry", NumberRead(Colon, digits, Yes, at, r.node)
               PROVE  Stepped(m, at + 1, r)
    OBVIOUS
  <2>1. Read(m, at + 1, r.node)
    <3>1. (at + 1) - 1 = at
      OBVIOUS
    <3> QED BY <3>1 DEF Read
  <2>2. at + 1 < Len(m.bytes)
    <3> HIDE DEF digits
    <3> QED BY <1>2, <1>3 DEF NumberRead
  <2> QED BY <2>1, <2>2 DEF Stepped
<1>5. CASE at = 0 /\ n = parse_tree_new
  <2>1. parse(n, c) = Retry(Node(Colon, 0, 0, <<>>, <<>>, No, No, No))
    BY <1>3, <1>5, StepOfCode
  <2>2. Read(m, 1, Node(Colon, 0, 0, <<>>, <<>>, No, No, No))
    BY DEF Read
  <2>3. 1 < Len(m.bytes)
    BY <1>2, <1>3
  <2> QED BY <1>5, <2>1, <2>2, <2>3 DEF Retry, Stepped
<1>6. CASE at = 1 /\ n = Node(Colon, 0, 0, <<>>, <<>>, No, No, No)
  <2>1. c = Minus
    BY <1>3, <1>6
  <2>2. parse(n, c) = Retry(Node(Colon, 0, 0, <<>>, <<>>, No, Yes, No))
    BY <1>6, <2>1, ParseInteger
  <2>3. NumberRead(Colon, digits, Yes, 1, Node(Colon, 0, 0, <<>>, <<>>, No, Yes, No))
    <3>1. Value(SubSeq(digits, 1, 1 - 1)) = 0
      BY <1>1, ValueOfPrefix
    <3> QED BY <1>2, <3>1 DEF NumberRead
  <2>4. 1 < Len(m.bytes)
    BY <1>2, <1>3
  <2> QED BY <1>4, <1>6, <2>2, <2>3, <2>4 DEF Retry
<1> HIDE DEF digits, c
<1>7. CASE at - 1 \in 1..(Len(digits) + 1) /\ NumberRead(Colon, digits, Yes, at - 1, n)
  <2> DEFINE b == at - 1
  <2>1. b + 1 = at /\ b \in 1..(Len(digits) + 1) /\ NumberRead(Colon, digits, Yes, b, n)
    BY <1>7
  <2>2. c = IF b <= Len(digits) THEN digits[b] ELSE CR
    BY <1>2, <1>3, <1>7 DEF c
  <2> HIDE DEF b
  <2>3. parse(n, c).ret = "retry" /\ NumberRead(Colon, digits, Yes, b + 1, parse(n, c).node)
    BY <1>1, <2>1, <2>2, StepOfNumber
  <2> QED BY <1>2, <1>3, <1>4, <1>7, <2>1, <2>3 DEF c
<1>8. CASE at - 1 = Len(digits) + 2 /\ n = Node(Colon, Value(digits), 0, <<>>, <<>>, Yes, Yes, No)
  <2>1. c = LF
    BY <1>2, <1>3, <1>8 DEF c
  <2>2. parse(n, c) = Done(n)
    BY <1>8, <2>1, ParseInteger
  <2>3. n.nil = No /\ n.type = Colon /\ n.str = <<>> /\ n.kids = <<>> /\ n.num = Value(digits) /\ n.neg = Yes
    BY <1>8 DEF Node
  <2>4. redisReply(n) = m.reply
    BY <1>1, <2>3 DEF redisReply, Type, Reply, No, Yes, Plus, Minus, Colon, Dollar, Star
  <2> QED BY <1>2, <1>3, <1>8, <2>2, <2>4 DEF Stepped, Complete, Done, c
<1> QED BY <1>2, <1>5, <1>6, <1>7, <1>8 DEF NumberRead, digits, c

(* The end of the line of a length, of which all digits are read. *)
LEMMA StepOfString ==
  ASSUME NEW m, IsString(m), NEW at \in Nat, NEW n,
         \/ at = 0 /\ n = parse_tree_new
         \/ NumberRead(Dollar, m.digits, No, at, n)
         \/ TextRead(m.reply.str, at - (Len(m.digits) + 3), n)
  PROVE  Stepped(m, at + 1, parse(n, m.bytes[at + 1])) /\ at < Len(m.bytes)
<1> DEFINE digits == m.digits
<1> DEFINE text == m.reply.str
<1> DEFINE h == Len(digits) + 3
<1> DEFINE c == m.bytes[at + 1]
<1>1. /\ digits \in Seq(Digits) /\ text \in Seq(Byte) /\ Value(digits) = Len(text)
      /\ m.bytes = Line(Dollar, digits) \o text \o CRLF
      /\ m.reply = Reply("string", 0, text, <<>>)
  <2>1. digits \in Seq(Digits) /\ Value(digits) = Len(text) /\ text \in Seq(Byte)
    BY DEF IsString, Numeral, Digits
  <2>2. m = String(digits, text)
    BY DEF IsString
  <2> HIDE DEF digits, text
  <2>3. m.bytes = Line(Dollar, digits) \o text \o CRLF /\ m.reply = Reply("string", 0, text, <<>>)
    BY <2>2 DEF String, Message
  <2> QED BY <2>1, <2>3
<1>2. Len(digits) \in Nat /\ Len(text) \in Nat
  BY <1>1
<1>3. /\ Len(m.bytes) = Len(digits) + Len(text) + 5 /\ m.bytes[1] = Dollar
      /\ \A i \in 1..Len(digits) : m.bytes[i + 1] = digits[i]
      /\ m.bytes[Len(digits) + 2] = CR /\ m.bytes[Len(digits) + 3] = LF
      /\ \A i \in 1..Len(text) : m.bytes[h + i] = text[i]
  <2>1. digits \in Seq(Byte)
    BY <1>1, CodesAreBytes
  <2>2. Dollar \in Byte
    BY CodesAreBytes
  <2> DEFINE l == Line(Dollar, digits)
  <2> HIDE DEF digits, text, h
  <2>3. /\ Len(l) = Len(digits) + 3 /\ l[1] = Dollar
        /\ \A i \in 1..Len(digits) : l[i + 1] = digits[i]
        /\ l[Len(digits) + 2] = CR /\ l[Len(digits) + 3] = LF /\ l \in Seq(Byte)
    BY <2>1, <2>2, LineBytes
  <2>4. CRLF \in Seq(Byte) /\ Len(CRLF) = 2
    BY CodesAreBytes DEF CRLF
  <2>5. m.bytes = (l \o text) \o CRLF
    BY <1>1
  <2> HIDE DEF l
  <2>6. l \in Seq(Byte)
    BY <2>3
  <2>7. text \in Seq(Byte)
    BY <1>1
  <2> DEFINE u == l \o text
  <2>8. /\ u \in Seq(Byte) /\ Len(u) = Len(l) + Len(text) /\ Len(l) \in Nat
        /\ \A i \in 1..Len(l) : u[i] = l[i]
        /\ \A i \in 1..Len(text) : u[Len(l) + i] = text[i]
    BY ONLY <2>6, <2>7, BytesOfTwo
  <2> HIDE DEF u
  <2>9. u \in Seq(Byte)
    BY <2>8
  <2>10. CRLF \in Seq(Byte)
    BY <2>4
  <2>11. Len(u \o CRLF) = Len(u) + Len(CRLF) /\ \A i \in 1..Len(u) : (u \o CRLF)[i] = u[i]
    BY ONLY <2>9, <2>10, BytesOfTwo
  <2>12. m.bytes = u \o CRLF
    BY <2>5 DEF u
  <2>13. Len(u) = Len(digits) + 3 + Len(text) /\ Len(m.bytes) = Len(digits) + Len(text) + 5
    BY <1>2, <2>3, <2>4, <2>8, <2>11, <2>12
  <2>14. ASSUME NEW i \in 1..(Len(digits) + 3) PROVE m.bytes[i] = l[i]
    <3>1. i \in 1..Len(u) /\ i \in 1..Len(l)
      BY <1>2, <2>3, <2>13
    <3> QED BY <2>8, <2>11, <2>12, <3>1
  <2>15. ASSUME NEW i \in 1..Len(text) PROVE m.bytes[h + i] = text[i]
    <3>1. h + i \in 1..Len(u) /\ h = Len(l)
      BY <1>2, <2>3, <2>13 DEF h
    <3> QED BY <2>8, <2>11, <2>12, <3>1
  <2>16. ASSUME NEW i \in 1..Len(digits) PROVE m.bytes[i + 1] = digits[i]
    <3>1. i + 1 \in 1..(Len(digits) + 3)
      BY <1>2
    <3> QED BY <2>3, <2>14, <3>1
  <2>17. m.bytes[1] = Dollar /\ m.bytes[Len(digits) + 2] = CR /\ m.bytes[Len(digits) + 3] = LF
    BY <1>2, <2>3, <2>14
  <2> QED BY <2>13, <2>15, <2>16, <2>17
<1>4. \A r : r.ret = "retry" /\ NumberRead(Dollar, digits, No, at + 1, r.node) => Stepped(m, at + 1, r)
  <2> SUFFICES ASSUME NEW r, r.ret = "retry", NumberRead(Dollar, digits, No, at + 1, r.node)
               PROVE  Stepped(m, at + 1, r)
    OBVIOUS
  <2>1. Read(m, at + 1, r.node)
    BY DEF Read
  <2>2. at + 1 < Len(m.bytes)
    <3> HIDE DEF digits, text
    <3> QED BY <1>2, <1>3 DEF NumberRead
  <2> QED BY <2>1, <2>2 DEF Stepped
<1>5. \A r : r.ret = "retry" /\ TextRead(text, (at + 1) - h, r.node) => Stepped(m, at + 1, r)
  <2> SUFFICES ASSUME NEW r, r.ret = "retry", TextRead(text, (at + 1) - h, r.node)
               PROVE  Stepped(m, at + 1, r)
    OBVIOUS
  <2>1. Read(m, at + 1, r.node)
    <3>1. TextRead(m.reply.str, (at + 1) - (Len(m.digits) + 3), r.node)
      OBVIOUS
    <3> QED BY <3>1, Zenon DEF Read
  <2>2. at + 1 < Len(m.bytes)
    <3> HIDE DEF digits, text
    <3> QED BY <1>2, <1>3 DEF TextRead
  <2> QED BY <2>1, <2>2 DEF Stepped
<1> HIDE DEF digits, text
<1>6. CASE at = 0 /\ n = parse_tree_new
  <2>1. parse(n, c) = Retry(Node(Dollar, 0, 0, <<>>, <<>>, No, No, No))
    BY <1>3, <1>6, StepOfCode
  <2>2. NumberRead(Dollar, digits, No, 1, Node(Dollar, 0, 0, <<>>, <<>>, No, No, No))
    BY <1>1, FirstOfNumber
  <2> QED BY <1>2, <1>3, <1>4, <1>6, <2>1, <2>2 DEF Retry
<1> HIDE DEF c
<1>7. CASE at \in 1..(Len(digits) + 1) /\ NumberRead(Dollar, digits, No, at, n)
  <2>1. c = IF at <= Len(digits) THEN digits[at] ELSE CR
    BY <1>2, <1>3, <1>7 DEF c
  <2>2. parse(n, c).ret = "retry" /\ NumberRead(Dollar, digits, No, at + 1, parse(n, c).node)
    BY <1>1, <1>7, <2>1, StepOfNumber
  <2>3. at < Len(m.bytes)
    BY <1>2, <1>3, <1>7
  <2> QED BY <1>4, <2>2, <2>3 DEF c
<1>8. CASE at = Len(digits) + 2 /\ n = Node(Dollar, Value(digits), 0, <<>>, <<>>, Yes, No, No)
  <2>1. c = LF
    BY <1>2, <1>3, <1>8 DEF c
  <2> DEFINE q == Node(Dollar, Len(text), Len(text) + 2, <<>>, <<>>, No, No, No)
  <2>2. parse(n, c) = Retry(q)
    BY <1>1, <1>2, <1>8, <2>1, ParseLengthEnd
  <2>3. TextRead(text, 0, q)
    <3>1. SubSeq(text, 1, 0) = <<>>
      BY <1>1
    <3>2. (IF 0 > Len(text) THEN Len(text) ELSE 0) = 0 /\ 0 \in 0..(Len(text) + 1)
          /\ Len(text) + 2 - 0 = Len(text) + 2
      BY <1>2
    <3> QED BY <3>1, <3>2 DEF TextRead
  <2>4. (at + 1) - h = 0 /\ at < Len(m.bytes)
    BY <1>2, <1>3, <1>8
  <2> QED BY <1>5, <2>2, <2>3, <2>4 DEF Retry, c
<1>9. CASE TextRead(text, at - h, n)
  <2> DEFINE s == at - h
  <2> DEFINE str == SubSeq(text, 1, IF s > Len(text) THEN Len(text) ELSE s)
  <2> DEFINE want == Len(text) + 2 - s
  <2>1. s \in 0..(Len(text) + 1) /\ at = h + s /\ s \in Nat
    BY <1>2, <1>9 DEF TextRead
  <2>2. n = Node(Dollar, Len(text), want, str, <<>>, No, No, No)
    BY <1>9 DEF TextRead
  <2>3. want \in Nat \ {0} /\ (want > 2 <=> s < Len(text)) /\ (want = 1 <=> s = Len(text) + 1)
        /\ want - 1 = Len(text) + 2 - (s + 1)
    BY <1>2, <2>1
  <2> DEFINE str2 == SubSeq(text, 1, IF s + 1 > Len(text) THEN Len(text) ELSE s + 1)
  <2>4. (IF want > 2 THEN Append(str, c) ELSE str) = str2
    <3>1. CASE s < Len(text)
      <4>1. c = text[s + 1] /\ s + 1 \in 1..Len(text)
        <5>1. s + 1 \in 1..Len(text) /\ h + (s + 1) = at + 1
          BY <1>2, <2>1, <3>1
        <5> QED BY <1>3, <5>1 DEF c
      <4>2. Append(SubSeq(text, 1, s), text[s + 1]) = SubSeq(text, 1, s + 1)
        <5> HIDE DEF s
        <5> QED BY <1>1, <2>1, <4>1
      <4>3. str = SubSeq(text, 1, s) /\ str2 = SubSeq(text, 1, s + 1)
        BY <1>2, <2>1, <3>1
      <4> QED BY <2>3, <3>1, <4>1, <4>2, <4>3
    <3>2. CASE s >= Len(text)
      <4>1. str = SubSeq(text, 1, Len(text)) /\ str2 = SubSeq(text, 1, Len(text))
        BY <1>2, <2>1, <3>2
      <4> QED BY <1>2, <2>1, <2>3, <3>2, <4>1
    <3> HIDE DEF s, str, str2, want
    <3> QED BY <1>2, <2>1, <3>1, <3>2
  <2> DEFINE q == Node(Dollar, Len(text), want - 1, str2, <<>>, No, No, No)
  <2>5. parse(n, c) = IF want = 1 THEN Done(q) ELSE Retry(q)
    <3> HIDE DEF str, str2, want
    <3>1. want \in Nat \ {0}
      BY <2>3
    <3>2. LET l == Node(Dollar, Len(text), want - 1, IF want > 2 THEN Append(str, c) ELSE str, <<>>, No, No, No)
          IN parse(n, c) = IF want = 1 THEN Done(l) ELSE Retry(l)
      BY <2>2, <3>1, ParseText
    <3> QED BY <2>4, <3>2
  <2>6. CASE s = Len(text) + 1
    <3>1. parse(n, c) = Done(q)
      <4> HIDE DEF q, want, s
      <4> QED BY <2>3, <2>5, <2>6
    <3>2. str2 = text
      BY <1>1, <1>2, <2>6
    <3>3. q.nil = No /\ q.type = Dollar /\ q.str = text /\ q.kids = <<>>
      <4> HIDE DEF str2
      <4> QED BY <3>2 DEF Node
    <3> HIDE DEF q
    <3>4. redisReply(q) = m.reply
      BY <1>1, <3>3 DEF redisReply, Type, Reply, No, Plus, Minus, Colon, Dollar, Star
    <3>5. at + 1 = Len(m.bytes) /\ at < Len(m.bytes)
      BY <1>2, <1>3, <2>6
    <3> QED BY <3>1, <3>4, <3>5 DEF Stepped, Complete, Done, c
  <2>7. CASE s < Len(text) + 1
    <3>1. parse(n, c) = Retry(q)
      <4> HIDE DEF q, want, s
      <4> QED BY <1>2, <2>1, <2>3, <2>5, <2>7
    <3>2. TextRead(text, s + 1, q)
      <4>1. s + 1 \in 0..(Len(text) + 1)
        BY <1>2, <2>1, <2>7
      <4> HIDE DEF s
      <4> QED BY <2>3, <4>1 DEF TextRead
    <3>3. (at + 1) - h = s + 1 /\ at < Len(m.bytes)
      BY <1>2, <1>3, <2>7
    <3> HIDE DEF q, h, s
    <3> QED BY <1>5, <3>1, <3>2, <3>3 DEF Retry, c
  <2> QED BY <1>2, <2>1, <2>6, <2>7
<1> QED BY <1>2, <1>6, <1>7, <1>8, <1>9 DEF NumberRead, digits, text, c

(* The end of the line of a length, for nil. *)
LEMMA StepOfNil ==
  ASSUME NEW m, NEW op \in {Dollar, Star}, m = IF op = Dollar THEN Nil ELSE NilArray,
         NEW at \in Nat, NEW n, (at = 0 /\ n = parse_tree_new) \/ NilRead(op, at, n)
  PROVE  Stepped(m, at + 1, parse(n, m.bytes[at + 1])) /\ at < Len(m.bytes)
<1>1. m.bytes = Line(op, MinusOne) /\ m.reply = Reply("nil", 0, <<>>, <<>>)
  BY DEF Nil, NilArray, Message
<1>2. /\ Len(m.bytes) = 5 /\ m.bytes[1] = op /\ m.bytes[2] = Minus /\ m.bytes[3] = 49
      /\ m.bytes[4] = CR /\ m.bytes[5] = LF
  <2> DEFINE text == MinusOne
  <2>1. text \in Seq(Byte) /\ Len(text) = 2 /\ text[1] = Minus /\ text[2] = 49
    BY DEF MinusOne, Minus, Byte
  <2>2. op \in Byte
    BY CodesAreBytes
  <2> HIDE DEF text
  <2>3. text \in Seq(Byte)
    BY <2>1
  <2>4. /\ Len(Line(op, text)) = Len(text) + 3 /\ Line(op, text)[1] = op
        /\ \A i \in 1..Len(text) : Line(op, text)[i + 1] = text[i]
        /\ Line(op, text)[Len(text) + 2] = CR /\ Line(op, text)[Len(text) + 3] = LF
    BY ONLY <2>2, <2>3, LineBytes
  <2> DEFINE l == Line(op, text)
  <2> HIDE DEF l
  <2>5. Len(l) = 5 /\ l[1] = op /\ l[1 + 1] = Minus /\ l[2 + 1] = 49 /\ l[4] = CR /\ l[5] = LF
    BY <2>1, <2>4 DEF l
  <2>6. m.bytes = l
    BY <1>1 DEF l, text
  <2> QED BY <2>5, <2>6
<1>3. \A r : r.ret = "retry" /\ at + 1 < 5 /\ NilRead(op, at + 1, r.node) => Stepped(m, at + 1, r)
  <2> SUFFICES ASSUME NEW r, r.ret = "retry", at + 1 < 5, NilRead(op, at + 1, r.node)
               PROVE  Stepped(m, at + 1, r)
    OBVIOUS
  <2>1. Read(m, at + 1, r.node)
    BY DEF Read
  <2> QED BY <1>2, <2>1 DEF Stepped
<1>4. CASE at = 0 /\ n = parse_tree_new
  <2>1. parse(n, op) = Retry(Node(op, 0, 0, <<>>, <<>>, No, No, No))
    BY <1>4, StepOfCode
  <2> QED BY <1>2, <1>3, <1>4, <2>1 DEF Retry, NilRead
<1>5. CASE at = 1 /\ n = Node(op, 0, 0, <<>>, <<>>, No, No, No)
  <2>1. parse(n, Minus) = Retry(Node(op, 0, 0, <<>>, <<>>, No, No, Yes))
    BY <1>5, ParseLength
  <2> QED BY <1>2, <1>3, <1>5, <2>1 DEF Retry, NilRead
<1>6. CASE at = 2 /\ n = Node(op, 0, 0, <<>>, <<>>, No, No, Yes)
  <2>1. 49 \in Digits /\ Shifted(0, 49) = 1
    BY DEF Digits, IS_NUM, Byte, Shifted
  <2>2. parse(n, 49) = Retry(Node(op, 1, 0, <<>>, <<>>, No, No, Yes))
    BY <1>6, <2>1, ParseLength
  <2> QED BY <1>2, <1>3, <1>6, <2>2 DEF Retry, NilRead
<1>7. CASE at = 3 /\ n = Node(op, 1, 0, <<>>, <<>>, No, No, Yes)
  <2>1. parse(n, CR) = Retry(Node(op, 1, 0, <<>>, <<>>, Yes, No, Yes))
    BY <1>7, ParseLength
  <2> QED BY <1>2, <1>3, <1>7, <2>1 DEF Retry, NilRead
<1>8. CASE at = 4 /\ n = Node(op, 1, 0, <<>>, <<>>, Yes, No, Yes)
  <2>1. CASE op = Dollar
    <3>1. parse(n, LF) = Done(n)
      BY <1>8, <2>1, ParseLengthEnd
    <3>2. n.nil = Yes /\ n.type = Dollar /\ n.str = <<>> /\ n.kids = <<>>
      BY <1>8, <2>1 DEF Node
    <3>3. Type(n) = "nil" /\ n.type # Colon
      BY <3>2 DEF Type, Yes, Dollar, Colon
    <3>4. redisReply(n) = Reply("nil", 0, <<>>, <<>>)
      BY <3>2, <3>3 DEF redisReply, Reply
    <3> QED BY <1>1, <1>2, <1>8, <3>1, <3>4 DEF Stepped, Complete, Done
  <2>2. CASE op = Star
    <3>1. parse(n, LF) = Retry(NilArrayNode)
      BY <1>8, <2>2, ParseLengthEnd DEF NilArrayNode
    <3> QED BY <1>2, <1>8, <3>1 DEF Stepped, Retry
  <2> QED BY <2>1, <2>2
<1> QED BY <1>4, <1>5, <1>6, <1>7, <1>8 DEF NilRead

LEMMA StepOfGarbage ==
  ASSUME NEW m, IsGarbage(m), m.bytes \in Seq(Byte)
  PROVE  Stepped(m, 1, parse(parse_tree_new, m.bytes[1])) /\ 0 < Len(m.bytes)
<1>1. Head(m.bytes) = m.bytes[1] /\ ~IS_OP_CODE(m.bytes[1]) /\ 0 < Len(m.bytes)
  BY DEF IsGarbage
<1>2. parse_tree_new.type = 0
  BY DEF parse_tree_new
<1>3. parse(parse_tree_new, m.bytes[1]) = Failed(parse_tree_new)
  BY <1>1, <1>2, ParseByType
<1> QED BY <1>1, <1>3 DEF Stepped, Failed

-----------------------------------------------------------------------------
(* The elements of an array follow each other in its bytes. *)
LEMMA MessageBytes ==
  ASSUME NEW m \in Messages
  PROVE  m.bytes \in Seq(Byte) /\ Len(m.bytes) \in Nat
BY MessagesAssumption DEF MessagesAssumption

LEMMA BodyOfPrefix ==
  ASSUME NEW parts \in Seq(Messages)
  PROVE  /\ Body(SubSeq(parts, 1, 0)) = <<>> /\ Body(SubSeq(parts, 1, Len(parts))) = Body(parts)
         /\ \A k \in 1..Len(parts) :
              Body(SubSeq(parts, 1, k)) = Body(SubSeq(parts, 1, k - 1)) \o parts[k].bytes
<1>1. SubSeq(parts, 1, 0) = <<>> /\ SubSeq(parts, 1, Len(parts)) = parts /\ Len(parts) \in Nat
  OBVIOUS
<1>2. \A s : B!Fold(<<>>, s) = Body(s)
  BY DEF Body, B!Fold, B!FoldLeft, B!MapThenFoldSet, FoldLeft, MapThenFoldSet, B!Max, Max
<1>3. Body(<<>>) = <<>>
  BY <1>2, B!FoldOfEmpty
<1>4. ASSUME NEW k \in 1..Len(parts)
      PROVE  Body(SubSeq(parts, 1, k)) = Body(SubSeq(parts, 1, k - 1)) \o parts[k].bytes
  <2> DEFINE j == k - 1
  <2>1. j \in 0..(Len(parts) - 1) /\ k = j + 1
    BY <1>1
  <2> HIDE DEF j
  <2>2. B!Fold(<<>>, SubSeq(parts, 1, j + 1)) =
          Joined(B!Fold(<<>>, SubSeq(parts, 1, j)), parts[j + 1])
    BY <2>1, B!FoldOfPrefix
  <2> QED BY <1>2, <2>1, <2>2 DEF j, Joined
<1> QED BY <1>1, <1>3, <1>4

LEMMA BodyTypes ==
  ASSUME NEW parts \in Seq(Messages)
  PROVE  \A k \in 0..Len(parts) : Body(SubSeq(parts, 1, k)) \in Seq(Byte)
<1> DEFINE N == {k \in Nat : k <= Len(parts) => Body(SubSeq(parts, 1, k)) \in Seq(Byte)}
<1>1. N \in SUBSET Nat /\ Len(parts) \in Nat
  OBVIOUS
<1>2. 0 \in N
  <2>1. Body(SubSeq(parts, 1, 0)) = <<>>
    BY BodyOfPrefix
  <2>2. <<>> \in Seq(Byte)
    OBVIOUS
  <2> QED BY <2>1, <2>2
<1>3. ASSUME NEW k \in N PROVE k + 1 \in N
  <2>1. CASE k + 1 <= Len(parts)
    <3>1. k + 1 \in 1..Len(parts) /\ (k + 1) - 1 = k /\ parts[k + 1] \in Messages
      BY <1>1, <2>1
    <3>2. Body(SubSeq(parts, 1, k + 1)) = Body(SubSeq(parts, 1, k)) \o parts[k + 1].bytes
      BY <3>1, BodyOfPrefix
    <3>3. Body(SubSeq(parts, 1, k)) \in Seq(Byte)
      BY <1>1, <2>1
    <3>4. parts[k + 1].bytes \in Seq(Byte)
      BY <3>1, MessageBytes
    <3>5. Body(SubSeq(parts, 1, k)) \o parts[k + 1].bytes \in Seq(Byte)
      BY ONLY <3>3, <3>4, BytesOfTwo
    <3>6. Body(SubSeq(parts, 1, k + 1)) \in Seq(Byte)
      BY <3>2, <3>5
    <3> QED BY <3>6
  <2>2. CASE ~(k + 1 <= Len(parts))
    BY <2>2
  <2> QED BY <2>1, <2>2
<1>4. N = Nat
  <2> HIDE DEF N
  <2> QED BY <1>1, <1>2, <1>3, V!NatSetInduction
<1> QED BY <1>4

(* Lengths and bytes of the first elements, within the whole. *)
LEMMA BodyGrows ==
  ASSUME NEW parts \in Seq(Messages)
  PROVE  \A k \in 0..Len(parts) :
           LET s == Body(SubSeq(parts, 1, k))
           IN Len(s) <= Len(Body(parts)) /\ \A j \in 1..Len(s) : Body(parts)[j] = s[j]
<1> DEFINE s(k) == Body(SubSeq(parts, 1, k))
<1> DEFINE n == Len(parts)
<1> DEFINE Within(k) == Len(s(k)) <= Len(s(n)) /\ \A j \in 1..Len(s(k)) : s(n)[j] = s(k)[j]
<1>1. n \in Nat /\ s(n) = Body(parts)
  <2>1. n \in Nat
    OBVIOUS
  <2>2. s(n) = Body(parts)
    BY BodyOfPrefix
  <2> QED BY <2>1, <2>2
<1>2. \A k \in 0..n : s(k) \in Seq(Byte)
  BY BodyTypes
<1>3. ASSUME NEW k \in 0..(n - 1), Within(k + 1) PROVE Within(k)
  <2>1. k + 1 \in 1..n /\ (k + 1) - 1 = k /\ k \in 0..n /\ k + 1 \in 0..n /\ parts[k + 1] \in Messages
    BY <1>1
  <2>2. s(k + 1) = s(k) \o parts[k + 1].bytes
    BY <2>1, BodyOfPrefix
  <2> DEFINE t == parts[k + 1].bytes
  <2>3. s(k) \in Seq(Byte) /\ s(k + 1) \in Seq(Byte) /\ s(n) \in Seq(Byte) /\ t \in Seq(Byte)
    BY <1>1, <1>2, <2>1, MessageBytes
  <2> HIDE DEF s, t
  <2>4. s(k) \in Seq(Byte)
    BY <2>3
  <2>5. t \in Seq(Byte)
    BY <2>3
  <2>6. /\ Len(s(k) \o t) = Len(s(k)) + Len(t) /\ Len(s(k)) \in Nat /\ Len(t) \in Nat
        /\ \A i \in 1..Len(s(k)) : (s(k) \o t)[i] = s(k)[i]
    BY ONLY <2>4, <2>5, BytesOfTwo
  <2>7. s(k + 1) = s(k) \o t
    BY <2>2 DEF t
  <2>8. Len(s(k)) <= Len(s(k + 1)) /\ \A i \in 1..Len(s(k)) : s(k + 1)[i] = s(k)[i]
    BY <2>6, <2>7
  <2>9. Len(s(n)) \in Nat /\ Len(s(k + 1)) \in Nat
    BY <2>3
  <2> QED BY <1>3, <2>6, <2>8, <2>9
<1> DEFINE N == {i \in Nat : i <= n => Within(n - i)}
<1> HIDE DEF n, s
<1>4. N \in SUBSET Nat
  OBVIOUS
<1>5. 0 \in N
  <2>1. n - 0 = n /\ n \in 0..n /\ s(n) \in Seq(Byte)
    BY <1>1, <1>2
  <2>2. Within(n)
    BY <2>1
  <2> QED BY <2>1, <2>2
<1>6. ASSUME NEW i \in N PROVE i + 1 \in N
  <2>1. CASE i + 1 <= n
    <3>1. n - (i + 1) \in 0..(n - 1) /\ (n - (i + 1)) + 1 = n - i /\ i <= n
      BY <1>1, <2>1
    <3>2. Within(n - i)
      BY <3>1
    <3> HIDE DEF Within
    <3>3. Within(n - (i + 1))
      BY <1>3, <3>1, <3>2
    <3> QED BY <3>3
  <2>2. CASE ~(i + 1 <= n)
    BY <2>2
  <2> QED BY <2>1, <2>2
<1>7. N = Nat
  <2> HIDE DEF N
  <2> QED BY <1>4, <1>5, <1>6, V!NatSetInduction
<1>8. ASSUME NEW k \in 0..n PROVE Within(k)
  <2>1. n - k \in Nat /\ n - k <= n /\ n - (n - k) = k
    BY <1>1
  <2>2. n - k \in N
    BY <1>7, <2>1
  <2>3. Within(n - (n - k))
    BY <2>1, <2>2
  <2> QED BY <2>1, <2>3
<1> QED BY <1>1, <1>8 DEF n, s

LEMMA ArrayBytes ==
  ASSUME NEW m, IsArray(m), m.bytes \in Seq(Byte)
  PROVE  /\ m.parts \in Seq(Messages) /\ Len(m.parts) \in Nat
         /\ m.digits \in Seq(Digits) /\ Len(m.digits) \in Nat /\ Value(m.digits) = Len(m.parts)
         /\ m.reply = Reply("array", 0, <<>>, Kids(m.parts, Len(m.parts)))
         /\ m.bytes[1] = Star /\ \A i \in 1..Len(m.digits) : m.bytes[i + 1] = m.digits[i]
         /\ m.bytes[Len(m.digits) + 2] = CR /\ m.bytes[Len(m.digits) + 3] = LF
         /\ Start(m, 0) = Len(m.digits) + 3 /\ Start(m, Len(m.parts)) = Len(m.bytes)
         /\ \A k \in 0..Len(m.parts) : Start(m, k) \in Nat /\ Start(m, k) <= Len(m.bytes)
         /\ \A k \in 0..(Len(m.parts) - 1) :
              /\ Start(m, k + 1) = Start(m, k) + Len(m.parts[k + 1].bytes)
              /\ \A j \in 1..Len(m.parts[k + 1].bytes) :
                   m.bytes[Start(m, k) + j] = m.parts[k + 1].bytes[j]
<1> DEFINE digits == m.digits
<1> DEFINE parts == m.parts
<1> DEFINE n == Len(parts)
<1> DEFINE l == Line(Star, digits)
<1> DEFINE h == Len(digits) + 3
<1> DEFINE s(k) == Body(SubSeq(parts, 1, k))
<1>1. /\ parts \in Seq(Messages) /\ digits \in Seq(Digits) /\ Value(digits) = n
      /\ m.bytes = l \o Body(parts) /\ m.reply = Reply("array", 0, <<>>, Kids(parts, n))
  <2>1. parts \in Seq(Messages) /\ digits \in Seq(Digits) /\ Value(digits) = n
    BY DEF IsArray, Numeral, Digits
  <2>2. m = Array(digits, parts)
    BY DEF IsArray
  <2> HIDE DEF digits, parts
  <2>3. m.bytes = l \o Body(parts) /\ m.reply = Reply("array", 0, <<>>, Kids(parts, n))
    BY <2>2 DEF Array, Message, Kids
  <2> QED BY <2>1, <2>3
<1>2. n \in Nat /\ Len(digits) \in Nat
  BY <1>1
<1>3. /\ Len(l) = h /\ l[1] = Star
      /\ \A i \in 1..Len(digits) : l[i + 1] = digits[i]
      /\ l[Len(digits) + 2] = CR /\ l[Len(digits) + 3] = LF /\ l \in Seq(Byte)
  <2>1. digits \in Seq(Byte)
    BY <1>1, CodesAreBytes
  <2>2. Star \in Byte
    BY CodesAreBytes
  <2> HIDE DEF digits
  <2> QED BY <2>1, <2>2, LineBytes
<1>4. \A k \in 0..n : s(k) \in Seq(Byte) /\ Len(s(k)) \in Nat
  <2>1. \A k \in 0..n : s(k) \in Seq(Byte)
    <3> HIDE DEF n, parts
    <3> QED BY <1>1, BodyTypes DEF n
  <2> QED BY <2>1
<1>5. s(0) = <<>> /\ s(n) = Body(parts) /\ \A k \in 1..n : s(k) = s(k - 1) \o parts[k].bytes
  <2> HIDE DEF n, parts
  <2> QED BY <1>1, BodyOfPrefix DEF n
<1>6. \A k \in 0..n : Len(s(k)) <= Len(s(n)) /\ \A j \in 1..Len(s(k)) : s(n)[j] = s(k)[j]
  <2> HIDE DEF n, parts
  <2> QED BY <1>1, <1>5, BodyGrows DEF n
<1>7. \A k \in 0..n : Start(m, k) = h + Len(s(k))
  BY DEF Start
<1> DEFINE body == s(n)
<1> HIDE DEF s, l, h, n, digits, parts
<1>8. h = Len(digits) + 3 /\ h \in Nat
  BY <1>2 DEF h
<1>9. l \in Seq(Byte)
  BY <1>3
<1>10. body \in Seq(Byte)
  BY <1>2, <1>4
<1>11. m.bytes = l \o body
  BY <1>1, <1>5
<1>12. /\ Len(m.bytes) = h + Len(body) /\ \A i \in 1..h : m.bytes[i] = l[i]
       /\ \A i \in 1..Len(body) : m.bytes[h + i] = body[i]
  <2> HIDE DEF body
  <2>1. /\ Len(l \o body) = Len(l) + Len(body)
        /\ \A i \in 1..Len(l) : (l \o body)[i] = l[i]
        /\ \A i \in 1..Len(body) : (l \o body)[Len(l) + i] = body[i]
    BY ONLY <1>9, <1>10, BytesOfTwo
  <2> QED BY <1>3, <1>11, <2>1
<1>13. /\ m.bytes[1] = Star /\ \A i \in 1..Len(digits) : m.bytes[i + 1] = digits[i]
       /\ m.bytes[Len(digits) + 2] = CR /\ m.bytes[Len(digits) + 3] = LF
  <2>1. 1 \in 1..h /\ Len(digits) + 2 \in 1..h /\ Len(digits) + 3 \in 1..h
    BY <1>2, <1>8
  <2>2. ASSUME NEW i \in 1..Len(digits) PROVE i + 1 \in 1..h
    BY <1>2, <1>8
  <2> QED BY <1>3, <1>12, <2>1, <2>2
<1>14. Start(m, 0) = h /\ Start(m, n) = Len(m.bytes)
  <2>1. 0 \in 0..n /\ n \in 0..n /\ Len(<<>>) = 0
    BY <1>2
  <2>2. Start(m, 0) = h + 0
    BY <1>5, <1>7, <2>1
  <2> QED BY <1>7, <1>8, <1>12, <2>1, <2>2
<1>15. ASSUME NEW k \in 0..n PROVE Start(m, k) \in Nat /\ Start(m, k) <= Len(m.bytes)
  BY <1>2, <1>4, <1>6, <1>7, <1>8, <1>12
<1>16. ASSUME NEW k \in 0..(n - 1)
       PROVE  /\ Start(m, k + 1) = Start(m, k) + Len(parts[k + 1].bytes)
              /\ \A j \in 1..Len(parts[k + 1].bytes) :
                   m.bytes[Start(m, k) + j] = parts[k + 1].bytes[j]
  <2> DEFINE t == parts[k + 1].bytes
  <2> DEFINE u == s(k)
  <2>1. k + 1 \in 1..n /\ k \in 0..n /\ k + 1 \in 0..n /\ (k + 1) - 1 = k
    BY <1>2
  <2>2. parts[k + 1] \in Messages
    BY <1>1, <2>1 DEF n
  <2>3. t \in Seq(Byte)
    BY <2>2, MessageBytes
  <2>4. u \in Seq(Byte)
    BY <1>4, <2>1
  <2>5. s(k + 1) = u \o t
    BY <1>5, <2>1
  <2> HIDE DEF t, u
  <2>6. /\ Len(u \o t) = Len(u) + Len(t) /\ Len(u) \in Nat /\ Len(t) \in Nat
        /\ \A j \in 1..Len(t) : (u \o t)[Len(u) + j] = t[j]
    BY ONLY <2>3, <2>4, BytesOfTwo
  <2>7. Start(m, k) = h + Len(u) /\ Start(m, k + 1) = h + Len(u \o t)
    BY <1>7, <2>1, <2>5 DEF u
  <2>8. Len(u \o t) <= Len(body) /\ \A j \in 1..Len(u \o t) : body[j] = (u \o t)[j]
    BY <1>6, <2>1, <2>5
  <2>9. Len(body) \in Nat
    BY <1>10
  <2> HIDE DEF body
  <2>10. ASSUME NEW j \in 1..Len(t) PROVE m.bytes[Start(m, k) + j] = t[j]
    <3>1. Len(u) + j \in 1..Len(u \o t) /\ Len(u) + j \in 1..Len(body)
      BY <2>6, <2>8, <2>9
    <3>2. m.bytes[h + (Len(u) + j)] = t[j]
      BY <1>12, <2>6, <2>8, <3>1
    <3>3. Start(m, k) + j = h + (Len(u) + j)
      BY <1>8, <2>6, <2>7
    <3> QED BY <3>2, <3>3
  <2>11. Start(m, k + 1) = Start(m, k) + Len(t)
    BY <1>8, <2>6, <2>7
  <2> QED BY <2>10, <2>11 DEF t
<1> QED BY <1>1, <1>2, <1>8, <1>13, <1>14, <1>15, <1>16 DEF n, digits, parts

(* No message is empty, so no two begin at the same byte. *)
LEMMA MessageNotEmpty ==
  ASSUME NEW m \in Messages
  PROVE  0 < Len(m.bytes)
<1>1. m.bytes \in Seq(Byte) /\ Len(m.bytes) \in Nat /\ 0 \in Nat
  BY MessageBytes
<1>2. CASE IsLine(m, Plus)
  BY <1>1, <1>2, StepOfLine
<1>3. CASE IsLine(m, Minus)
  BY <1>1, <1>3, StepOfLine
<1>4. CASE IsInteger(m)
  BY <1>1, <1>4, StepOfInteger
<1>5. CASE IsNegative(m)
  BY <1>1, <1>5, StepOfNegative
<1>6. CASE IsString(m)
  BY <1>1, <1>6, StepOfString
<1>7. CASE IsArray(m)
  BY <1>1, <1>7, ArrayBytes
<1>8. CASE IsGarbage(m)
  BY <1>1, <1>8, StepOfGarbage
<1>9. CASE m = Nil
  <2>1. m = IF Dollar = Dollar THEN Nil ELSE NilArray
    BY <1>9
  <2> QED BY <1>1, <2>1, StepOfNil
<1>10. CASE m = NilArray
  <2>1. m = IF Star = Dollar THEN Nil ELSE NilArray
    BY <1>10 DEF Star, Dollar
  <2> QED BY <1>1, <2>1, StepOfNil
<1> QED BY <1>2, <1>3, <1>4, <1>5, <1>6, <1>7, <1>8, <1>9, <1>10, KindOfMessage

(* The line of an array, and an array whose element is still to come. *)
LEMMA StepOfArray ==
  ASSUME NEW m, IsArray(m), m.bytes \in Seq(Byte), NEW at \in Nat, NEW n,
         (at = 0 /\ n = parse_tree_new) \/ NumberRead(Star, m.digits, No, at, n)
  PROVE  Stepped(m, at + 1, parse(n, m.bytes[at + 1])) /\ at < Len(m.bytes)
<1> DEFINE digits == m.digits
<1> DEFINE parts == m.parts
<1> DEFINE c == m.bytes[at + 1]
<1>1. /\ parts \in Seq(Messages) /\ Len(parts) \in Nat
      /\ digits \in Seq(Digits) /\ Len(digits) \in Nat /\ Value(digits) = Len(parts)
      /\ m.reply = Reply("array", 0, <<>>, Kids(parts, Len(parts)))
      /\ m.bytes[1] = Star /\ \A i \in 1..Len(digits) : m.bytes[i + 1] = digits[i]
      /\ m.bytes[Len(digits) + 2] = CR /\ m.bytes[Len(digits) + 3] = LF
      /\ Start(m, 0) = Len(digits) + 3 /\ Start(m, Len(parts)) = Len(m.bytes)
  BY ArrayBytes
<1>2. Len(m.bytes) \in Nat /\ Len(digits) + 3 <= Len(m.bytes)
  <2>1. Start(m, 0) <= Len(m.bytes)
    BY <1>1, ArrayBytes
  <2> QED BY <1>1, <2>1
<1>3. Len(parts) > 0 => Start(m, 0) < Len(m.bytes)
  <2> SUFFICES ASSUME Len(parts) > 0 PROVE Start(m, 0) < Len(m.bytes)
    OBVIOUS
  <2>1. 0 \in 0..(Len(parts) - 1) /\ 0 + 1 \in 0..Len(parts) /\ 0 + 1 \in 1..Len(parts)
    BY <1>1
  <2>2. parts[0 + 1] \in Messages
    BY <1>1, <2>1
  <2>3. Start(m, 0 + 1) = Start(m, 0) + Len(parts[0 + 1].bytes) /\ Start(m, 0 + 1) <= Len(m.bytes)
    BY <2>1, ArrayBytes
  <2> HIDE DEF parts
  <2>4. Len(parts[0 + 1].bytes) \in Nat /\ 0 < Len(parts[0 + 1].bytes)
    BY <2>2, MessageNotEmpty, MessageBytes
  <2> QED BY <1>1, <1>2, <2>3, <2>4
<1>4. \A r : r.ret = "retry" /\ NumberRead(Star, digits, No, at + 1, r.node) => Stepped(m, at + 1, r)
  <2> SUFFICES ASSUME NEW r, r.ret = "retry", NumberRead(Star, digits, No, at + 1, r.node)
               PROVE  Stepped(m, at + 1, r)
    OBVIOUS
  <2>1. Read(m, at + 1, r.node)
    BY DEF Read
  <2>2. at + 1 < Len(m.bytes)
    <3> HIDE DEF digits
    <3> QED BY <1>1, <1>2 DEF NumberRead
  <2> QED BY <2>1, <2>2 DEF Stepped
<1> HIDE DEF digits, c
<1>5. CASE at = 0 /\ n = parse_tree_new
  <2>1. parse(n, c) = Retry(Node(Star, 0, 0, <<>>, <<>>, No, No, No))
    BY <1>1, <1>5, StepOfCode DEF c
  <2>2. NumberRead(Star, digits, No, 1, Node(Star, 0, 0, <<>>, <<>>, No, No, No))
    BY <1>1, FirstOfNumber
  <2> QED BY <1>1, <1>2, <1>4, <1>5, <2>1, <2>2 DEF Retry, c
<1>6. CASE at \in 1..(Len(digits) + 1) /\ NumberRead(Star, digits, No, at, n)
  <2>1. c = IF at <= Len(digits) THEN digits[at] ELSE CR
    BY <1>1, <1>6 DEF c
  <2>2. parse(n, c).ret = "retry" /\ NumberRead(Star, digits, No, at + 1, parse(n, c).node)
    BY <1>1, <1>6, <2>1, StepOfNumber
  <2> QED BY <1>1, <1>2, <1>4, <1>6, <2>2 DEF c
<1>7. CASE at = Len(digits) + 2 /\ n = Node(Star, Value(digits), 0, <<>>, <<>>, Yes, No, No)
  <2> DEFINE k == Len(parts)
  <2> DEFINE q == Node(Star, k, k, <<>>, <<>>, No, No, No)
  <2>1. c = LF
    BY <1>1, <1>7 DEF c
  <2>2. parse(n, c) = IF k = 0 THEN Done(q) ELSE Retry(q)
    BY <1>1, <1>7, <2>1, ParseLengthEnd
  <2>3. CASE k = 0
    <3>1. q.nil = No /\ q.type = Star /\ q.str = <<>> /\ q.kids = <<>>
      BY DEF Node
    <3>2. Kids(parts, Len(parts)) = <<>>
      BY <2>3 DEF Kids
    <3> HIDE DEF q
    <3>3. Type(q) = "array" /\ q.type # Colon
      BY <3>1 DEF Type, No, Plus, Minus, Colon, Dollar, Star
    <3>4. redisReply(q) = m.reply
      BY <1>1, <3>1, <3>2, <3>3 DEF redisReply, Reply
    <3>5. at + 1 = Len(m.bytes)
      BY <1>1, <1>7, <2>3
    <3> QED BY <1>2, <2>2, <2>3, <3>4, <3>5 DEF Stepped, Complete, Done, c
  <2>4. CASE k # 0
    <3>1. 0 \in 0..(Len(parts) - 1) /\ Len(parts) > 0
      BY <1>1, <2>4
    <3>2. Kids(parts, 0) = <<>>
      BY DEF Kids
    <3>3. q = KidsNode(parts, 0)
      BY <3>2 DEF KidsNode
    <3>4. at + 1 = Start(m, 0)
      BY <1>1, <1>7
    <3>5. KidsRead(m, 0, at + 1, q)
      BY <3>1, <3>3, <3>4 DEF KidsRead
    <3> HIDE DEF q
    <3>6. Read(m, at + 1, q)
      BY <3>1, <3>5 DEF Read
    <3> QED BY <1>2, <1>3, <2>2, <2>4, <3>1, <3>4, <3>6 DEF Stepped, Retry, c
  <2> QED BY <2>3, <2>4
<1> QED BY <1>1, <1>5, <1>6, <1>7 DEF NumberRead, digits, c

(* A node waits for an element exactly when it is an array between two of  *)
(* its elements.                                                           *)
LEMMA ReadWants ==
  ASSUME NEW m \in Messages, NEW at \in Nat, NEW n, Read(m, at, n)
  PROVE  /\ ~Swallows(n)
         /\ WantsElement(n) <=> IsArray(m) /\ \E k \in 0..(Len(m.parts) - 1) : KidsRead(m, k, at, n)
<1>1. CASE n.want = 0
  <2>1. ~WantsElement(n)
    BY <1>1 DEF WantsElement
  <2>2. ASSUME IsArray(m), NEW k \in 0..(Len(m.parts) - 1), KidsRead(m, k, at, n) PROVE FALSE
    <3>1. n.want = Len(m.parts)
      BY <2>2 DEF KidsRead, KidsNode, Node
    <3>2. m.parts \in Seq(Messages) /\ m.bytes \in Seq(Byte)
      BY <2>2, MessageBytes DEF IsArray
    <3> QED BY <1>1, <2>2, <3>1, <3>2
  <2> QED BY <2>1, <2>2 DEF Swallows
<1>2. CASE n.type = Dollar
  <2>1. ~WantsElement(n)
    BY <1>2 DEF WantsElement, Dollar, Star
  <2>2. ASSUME NEW k \in 0..(Len(m.parts) - 1), KidsRead(m, k, at, n) PROVE FALSE
    <3>1. n.type = Star
      BY <2>2 DEF KidsRead, KidsNode, Node
    <3> QED BY <1>2, <3>1 DEF Dollar, Star
  <2> QED BY <2>1, <2>2 DEF Swallows
<1>3. CASE IsArray(m) /\ \E k \in 0..(Len(m.parts) - 1) : KidsRead(m, k, at, n)
  <2>1. PICK k \in 0..(Len(m.parts) - 1) : KidsRead(m, k, at, n)
    BY <1>3
  <2>2. n.type = Star /\ n.want = Len(m.parts) /\ n.nil = No
    BY <2>1 DEF KidsRead, KidsNode, Node
  <2>3. Len(m.parts) > 0
    <3>1. m.parts \in Seq(Messages)
      BY <1>3 DEF IsArray
    <3> QED BY <2>1, <3>1
  <2> QED BY <1>3, <2>2, <2>3 DEF Swallows, WantsElement, No
<1>4. ASSUME NEW op, NEW text, LineRead(op, text, at, n) PROVE n.want = 0
  BY <1>4 DEF LineRead, Node
<1>5. ASSUME NEW op, NEW digits, NEW neg, NEW i, NumberRead(op, digits, neg, i, n) PROVE n.want = 0
  BY <1>5 DEF NumberRead, Node
<1>6. ASSUME NEW op, NilRead(op, at, n) PROVE n.want = 0
  BY <1>6 DEF NilRead, Node
<1>7. ASSUME NEW text, NEW i, TextRead(text, i, n) PROVE n.type = Dollar
  BY <1>7 DEF TextRead, Node
<1>8. ASSUME n = parse_tree_new PROVE n.want = 0
  BY <1>8 DEF parse_tree_new
<1>9. ASSUME n = Node(Colon, 0, 0, <<>>, <<>>, No, No, No) PROVE n.want = 0
  BY <1>9 DEF Node
<1> QED BY <1>1, <1>2, <1>3, <1>4, <1>5, <1>6, <1>7, <1>8, <1>9 DEF Read

(* The next byte of a message, for a node that does not wait for an element. *)
LEMMA LeafStep ==
  ASSUME NEW m \in Messages, NEW at \in Nat, NEW n, Read(m, at, n), ~WantsElement(n)
  PROVE  Stepped(m, at + 1, parse(n, m.bytes[at + 1])) /\ at < Len(m.bytes)
<1>1. m.bytes \in Seq(Byte)
  BY MessageBytes
<1>2. CASE at = 0 /\ n = parse_tree_new
  <2>1. CASE IsLine(m, Plus) \/ IsLine(m, Minus)
    BY <1>2, <2>1, StepOfLine
  <2>2. CASE IsInteger(m)
    BY <1>2, <2>2, StepOfInteger
  <2>3. CASE IsNegative(m)
    BY <1>2, <2>3, StepOfNegative
  <2>4. CASE IsString(m)
    BY <1>2, <2>4, StepOfString
  <2>5. CASE IsArray(m)
    BY <1>1, <1>2, <2>5, StepOfArray
  <2>6. CASE IsGarbage(m)
    <3>1. Stepped(m, 1, parse(parse_tree_new, m.bytes[1])) /\ 0 < Len(m.bytes)
      BY <1>1, <2>6, StepOfGarbage
    <3>2. 0 + 1 = 1
      OBVIOUS
    <3> QED BY <1>2, <3>1, <3>2
  <2>7. CASE m = Nil
    <3>1. m = IF Dollar = Dollar THEN Nil ELSE NilArray
      BY <2>7
    <3> QED BY <1>2, <3>1, StepOfNil
  <2>8. CASE m = NilArray
    <3>1. m = IF Star = Dollar THEN Nil ELSE NilArray
      BY <2>8 DEF Star, Dollar
    <3> QED BY <1>2, <3>1, StepOfNil
  <2> QED BY <2>1, <2>2, <2>3, <2>4, <2>5, <2>6, <2>7, <2>8, KindOfMessage
<1>3. CASE \E op \in {Plus, Minus} : IsLine(m, op) /\ LineRead(op, m.reply.str, at, n)
  BY <1>3, StepOfLine
<1>4. CASE IsInteger(m) /\ NumberRead(Colon, m.digits, No, at, n)
  BY <1>4, StepOfInteger
<1>5. CASE IsNegative(m) /\ \/ NumberRead(Colon, m.digits, Yes, at - 1, n)
                            \/ at = 1 /\ n = Node(Colon, 0, 0, <<>>, <<>>, No, No, No)
  BY <1>5, StepOfNegative
<1>6. CASE IsString(m) /\ \/ NumberRead(Dollar, m.digits, No, at, n)
                          \/ TextRead(m.reply.str, at - (Len(m.digits) + 3), n)
  BY <1>6, StepOfString
<1>7. CASE m = Nil /\ NilRead(Dollar, at, n)
  <2>1. m = IF Dollar = Dollar THEN Nil ELSE NilArray
    BY <1>7
  <2> QED BY <1>7, <2>1, StepOfNil
<1>8. CASE m = NilArray /\ NilRead(Star, at, n)
  <2>1. m = IF Star = Dollar THEN Nil ELSE NilArray
    BY <1>8 DEF Star, Dollar
  <2> QED BY <1>8, <2>1, StepOfNil
<1>9. CASE IsArray(m) /\ NumberRead(Star, m.digits, No, at, n)
  BY <1>1, <1>9, StepOfArray
<1>10. CASE IsArray(m) /\ \E k \in 0..(Len(m.parts) - 1) : KidsRead(m, k, at, n)
  BY <1>10, ReadWants
<1> QED BY <1>2, <1>3, <1>4, <1>5, <1>6, <1>7, <1>8, <1>9, <1>10 DEF Read

-----------------------------------------------------------------------------
(* The path of nodes that are being parsed.  Each node but the last is an  *)
(* array that waits for the element whose node comes next.                 *)
Inner(m, n, e, at, b) ==
  /\ IsArray(m)
  /\ \E k \in 0..(Len(m.parts) - 1) :
       n = KidsNode(m.parts, k) /\ e = m.parts[k + 1] /\ at = Start(m, k) + b
Trunk(t, m, at, ms, ats) ==
  /\ (\E S : t \in Seq(S)) /\ Len(t) > 0
  /\ ms[1] = m /\ ats[1] = at
  /\ \A i \in 1..Len(t) : ms[i] \in Messages /\ ats[i] \in Nat
  /\ \A i \in 1..(Len(t) - 1) : Inner(ms[i], t[i], ms[i + 1], ats[i], ats[i + 1])
Path(t, m, at) ==
  \E ms, ats : Trunk(t, m, at, ms, ats) /\ Read(ms[Len(t)], ats[Len(t)], t[Len(t)])
Climb(t, m, at) ==
  \E ms, ats : Trunk(t, m, at, ms, ats) /\ Complete(ms[Len(t)], ats[Len(t)], t[Len(t)])

LEMMA FrontOf ==
  ASSUME NEW S, NEW t \in Seq(S), Len(t) > 0
  PROVE  /\ Last(t) = t[Len(t)] /\ Len(t) \in Nat
         /\ Front(t) \in Seq(S) /\ Len(Front(t)) = Len(t) - 1
         /\ \A i \in 1..(Len(t) - 1) : Front(t)[i] = t[i]
<1> DEFINE n == Len(t) - 1
<1>1. n \in Nat /\ n <= Len(t) /\ Len(t) \in Nat
  OBVIOUS
<1> HIDE DEF n
<1>2. SubSeq(t, 1, n) \in Seq(S)
  BY <1>1
<1>3. Len(SubSeq(t, 1, n)) = n
  BY <1>1
<1>4. \A i \in 1..n : SubSeq(t, 1, n)[i] = t[i]
  BY <1>1
<1> QED BY <1>1, <1>2, <1>3, <1>4 DEF n, Front, Last

LEMMA AppendTo ==
  ASSUME NEW S, NEW t \in Seq(S), NEW x
  PROVE  /\ Append(t, x) \in Seq(S \cup {x}) /\ Len(Append(t, x)) = Len(t) + 1 /\ Len(t) \in Nat
         /\ \A i \in 1..Len(t) : Append(t, x)[i] = t[i]
         /\ Append(t, x)[Len(t) + 1] = x
<1>1. t \in Seq(S \cup {x}) /\ Len(t) \in Nat
  OBVIOUS
<1> QED BY <1>1

LEMMA ReplaceLast ==
  ASSUME NEW S, NEW t \in Seq(S), Len(t) > 0, NEW x
  PROVE  /\ Append(Front(t), x) \in Seq(S \cup {x}) /\ Len(Append(Front(t), x)) = Len(t)
         /\ \A i \in 1..(Len(t) - 1) : Append(Front(t), x)[i] = t[i]
         /\ Append(Front(t), x)[Len(t)] = x
<1> DEFINE f == Front(t)
<1>1. f \in Seq(S) /\ Len(f) = Len(t) - 1 /\ Len(t) \in Nat /\ \A i \in 1..(Len(t) - 1) : f[i] = t[i]
  BY FrontOf
<1> HIDE DEF f
<1>2. f \in Seq(S)
  BY <1>1
<1>3. /\ Append(f, x) \in Seq(S \cup {x}) /\ Len(Append(f, x)) = Len(f) + 1
      /\ \A i \in 1..Len(f) : Append(f, x)[i] = f[i]
      /\ Append(f, x)[Len(f) + 1] = x
  BY ONLY <1>2, AppendTo
<1> QED BY <1>1, <1>3 DEF f

LEMMA KidsGrow ==
  ASSUME NEW parts \in Seq(Messages), NEW k \in 0..(Len(parts) - 1)
  PROVE  LET n == KidsNode(parts, k)
             q == [n EXCEPT !.kids = Append(@, parts[k + 1].reply)]
         IN q = KidsNode(parts, k + 1) /\ Len(q.kids) = k + 1 /\ q.want = Len(parts)
<1> DEFINE n == KidsNode(parts, k)
<1> DEFINE R == {parts[i].reply : i \in 1..Len(parts)}
<1> DEFINE x == parts[k + 1].reply
<1> DEFINE a == Kids(parts, k)
<1> DEFINE b == Kids(parts, k + 1)
<1>1. k \in Nat /\ k + 1 \in 1..Len(parts) /\ Len(parts) \in Nat
  OBVIOUS
<1>2. a \in Seq(R) /\ b \in Seq(R) /\ Len(a) = k /\ Len(b) = k + 1 /\ x \in R
  <2>1. \A i \in 1..(k + 1) : parts[i].reply \in R
    BY <1>1
  <2> HIDE DEF R
  <2>2. a \in [1..k -> R] /\ b \in [1..(k + 1) -> R]
    BY <1>1, <2>1 DEF Kids
  <2> HIDE DEF a, b
  <2>3. a \in Seq(R) /\ b \in Seq(R) /\ Len(a) = k /\ Len(b) = k + 1
    BY <1>1, <2>2
  <2> QED BY <1>1, <2>1, <2>3
<1>3. (\A i \in 1..k : a[i] = b[i]) /\ b[k + 1] = x
  BY <1>1 DEF Kids
<1> HIDE DEF a, b, x, R
<1>4. Append(a, x) = b
  BY <1>1, <1>2, <1>3
<1>5. n.kids = a
  BY DEF KidsNode, Node, a
<1>6. [n EXCEPT !.kids = b] = KidsNode(parts, k + 1)
  BY DEF KidsNode, Node, b
<1>7. KidsNode(parts, k + 1).kids = b /\ KidsNode(parts, k + 1).want = Len(parts)
  BY DEF KidsNode, Node, b
<1> HIDE DEF n
<1>8. [n EXCEPT !.kids = Append(@, x)] = KidsNode(parts, k + 1)
  BY <1>4, <1>5, <1>6
<1> QED BY <1>2, <1>7, <1>8 DEF n, x

LEMMA StartInside ==
  ASSUME NEW m, IsArray(m), m.bytes \in Seq(Byte), NEW k \in 0..(Len(m.parts) - 1)
  PROVE  /\ Start(m, k) \in Nat /\ Start(m, k) < Start(m, k + 1) /\ Start(m, k + 1) \in Nat
         /\ Start(m, k + 1) <= Len(m.bytes)
         /\ k + 1 = Len(m.parts) \/ k + 1 \in 0..(Len(m.parts) - 1)
<1>1. m.parts \in Seq(Messages) /\ Len(m.parts) \in Nat
  BY ArrayBytes
<1>2. k \in 0..Len(m.parts) /\ k + 1 \in 0..Len(m.parts)
  BY <1>1
<1>3. m.parts[k + 1] \in Messages
  BY <1>1
<1>4. /\ Start(m, k) \in Nat /\ Start(m, k + 1) \in Nat /\ Start(m, k + 1) <= Len(m.bytes)
      /\ Start(m, k + 1) = Start(m, k) + Len(m.parts[k + 1].bytes)
  BY <1>2, ArrayBytes
<1>5. Len(m.parts[k + 1].bytes) \in Nat /\ 0 < Len(m.parts[k + 1].bytes)
  BY <1>3, MessageNotEmpty, MessageBytes
<1> QED BY <1>1, <1>4, <1>5

LEMMA ReadInside ==
  ASSUME NEW m \in Messages, NEW at \in Nat, NEW n, Read(m, at, n)
  PROVE  at < Len(m.bytes)
<1>1. CASE ~WantsElement(n)
  BY <1>1, LeafStep
<1>2. CASE WantsElement(n)
  <2>1. IsArray(m) /\ \E k \in 0..(Len(m.parts) - 1) : KidsRead(m, k, at, n)
    BY <1>2, ReadWants
  <2>2. PICK k \in 0..(Len(m.parts) - 1) : KidsRead(m, k, at, n)
    BY <2>1
  <2>3. m.bytes \in Seq(Byte) /\ Len(m.bytes) \in Nat
    BY MessageBytes
  <2>4. at = Start(m, k) /\ Start(m, k) < Start(m, k + 1) /\ Start(m, k + 1) \in Nat
        /\ Start(m, k + 1) <= Len(m.bytes)
    BY <2>1, <2>2, <2>3, StartInside DEF KidsRead
  <2> QED BY <2>3, <2>4
<1> QED BY <1>1, <1>2

(* A complete element goes to its array, which is complete with it or      *)
(* waits for the next one.                                                 *)
LEMMA ElementAdded ==
  ASSUME NEW m \in Messages, NEW e, NEW at \in Nat, NEW b \in Nat, NEW n, Inner(m, n, e, at, b),
         NEW x, Complete(e, b, x)
  PROVE  LET q == [n EXCEPT !.kids = Append(@, redisReply(x))]
         IN IF Len(q.kids) = q.want THEN Complete(m, at, q) ELSE Read(m, at, q)
<1> DEFINE q == [n EXCEPT !.kids = Append(@, redisReply(x))]
<1> DEFINE parts == m.parts
<1>1. IsArray(m) /\ m.bytes \in Seq(Byte) /\ parts \in Seq(Messages) /\ Len(parts) \in Nat
  BY MessageBytes, ArrayBytes DEF Inner
<1>2. PICK k \in 0..(Len(parts) - 1) : n = KidsNode(parts, k) /\ e = parts[k + 1] /\ at = Start(m, k) + b
  BY DEF Inner
<1>3. redisReply(x) = parts[k + 1].reply /\ b = Len(parts[k + 1].bytes)
  BY <1>2 DEF Complete
<1>4. at = Start(m, k + 1)
  BY <1>1, <1>2, <1>3, ArrayBytes
<1> HIDE DEF parts
<1>5. q = KidsNode(parts, k + 1) /\ Len(q.kids) = k + 1 /\ q.want = Len(parts)
  <2> DEFINE r == [KidsNode(parts, k) EXCEPT !.kids = Append(@, parts[k + 1].reply)]
  <2>1. parts \in Seq(Messages)
    BY <1>1
  <2>2. r = KidsNode(parts, k + 1) /\ Len(r.kids) = k + 1 /\ r.want = Len(parts)
    BY ONLY <2>1, k \in 0..(Len(parts) - 1), KidsGrow
  <2>3. q = r
    BY <1>2, <1>3, Zenon
  <2> QED BY <2>2, <2>3
<1>6. k + 1 = Len(parts) \/ k + 1 \in 0..(Len(parts) - 1)
  BY <1>1
<1> HIDE DEF q
<1>7. ASSUME k + 1 = Len(parts) PROVE Complete(m, at, q)
  <2>1. at = Len(m.bytes) /\ m.reply = Reply("array", 0, <<>>, Kids(parts, Len(parts)))
    BY <1>1, <1>4, <1>7, ArrayBytes DEF parts
  <2>2. q.nil = No /\ q.type = Star /\ q.str = <<>> /\ q.kids = Kids(parts, Len(parts))
    BY <1>5, <1>7 DEF KidsNode, Node
  <2>3. Type(q) = "array" /\ q.type # Colon
    BY <2>2 DEF Type, No, Plus, Minus, Colon, Dollar, Star
  <2>4. redisReply(q) = m.reply
    BY <2>1, <2>2, <2>3 DEF redisReply, Reply
  <2> QED BY <2>1, <2>4 DEF Complete
<1>8. ASSUME k + 1 \in 0..(Len(parts) - 1) PROVE Read(m, at, q)
  <2>1. KidsRead(m, k + 1, at, q)
    BY <1>4, <1>5, <1>8 DEF KidsRead, parts
  <2> QED BY <1>1, <1>8, <2>1 DEF Read, parts
<1> QED BY <1>1, <1>5, <1>6, <1>7, <1>8 DEF q

(* What a byte leaves, from the node that it completes up to the root. *)
Outcome(m, at, p) ==
  \/ p.ret = "retry" /\ Path(p.tree, m, at)
  \/ p.ret = "ok" /\ Climb(p.tree, m, at)

Fields(p) == p = [tree |-> p.tree, ret |-> p.ret, used |-> p.used, swallowed |-> p.swallowed]
Same(p, q) == Fields(q) /\ q.used = p.used /\ q.swallowed = p.swallowed

LEMMA AscendStep ==
  ASSUME NEW m, NEW at, NEW p, Fields(p), p.ret = "ok", Climb(p.tree, m, at), Len(p.tree) # 1, NEW i
  PROVE  LET q == Ascend(p, i)
         IN /\ Outcome(m, at, q) /\ Len(q.tree) = Len(p.tree) - 1 /\ Len(q.tree) \in Nat
            /\ Same(p, q)
<1> DEFINE t == p.tree
<1> DEFINE d == Len(t)
<1>1. PICK ms, ats : Trunk(t, m, at, ms, ats) /\ Complete(ms[d], ats[d], t[d])
  BY DEF Climb
<1>2. PICK S : t \in Seq(S)
  BY <1>1 DEF Trunk
<1>3. d \in Nat /\ d > 1 /\ Len(t) > 0
  <2> DEFINE l == Len(t)
  <2>1. l > 0
    BY <1>1 DEF Trunk
  <2>2. l # 1
    OBVIOUS
  <2>3. l \in Nat
    <3> HIDE DEF t
    <3> QED BY <1>2
  <2> HIDE DEF l
  <2>4. l > 1
    BY ONLY <2>1, <2>2, <2>3
  <2> QED BY <2>1, <2>3, <2>4 DEF l
<1> DEFINE f == Front(t)
<1> DEFINE x == redisReply(t[d])
<1> DEFINE n == [t[d - 1] EXCEPT !.kids = Append(@, x)]
<1> DEFINE u == Append(Front(f), n)
<1> HIDE DEF t, d
<1>4. Last(t) = t[d] /\ f \in Seq(S) /\ Len(f) = d - 1 /\ \A j \in 1..(d - 1) : f[j] = t[j]
  <2>1. t \in Seq(S)
    BY <1>2
  <2>2. Len(t) > 0
    BY <1>3
  <2> QED BY ONLY <2>1, <2>2, FrontOf DEF d, f
<1> HIDE DEF f, n
<1>5. f \in Seq(S) /\ Len(f) > 0
  BY <1>3, <1>4
<1>6. /\ Last(f) = f[d - 1] /\ u \in Seq(S \cup {n}) /\ Len(u) = d - 1
      /\ (\A j \in 1..(d - 2) : u[j] = f[j]) /\ u[d - 1] = n
  <2>1. Len(f) = d - 1 /\ (d - 1) - 1 = d - 2
    BY <1>3, <1>4
  <2>2. f \in Seq(S)
    BY <1>5
  <2>3. Len(f) > 0
    BY <1>5
  <2>4. Last(f) = f[Len(f)]
    BY ONLY <2>2, <2>3, FrontOf
  <2>5. /\ u \in Seq(S \cup {n}) /\ Len(u) = Len(f) /\ u[Len(f)] = n
        /\ \A j \in 1..(Len(f) - 1) : u[j] = f[j]
    <3>1. /\ Append(Front(f), n) \in Seq(S \cup {n}) /\ Len(Append(Front(f), n)) = Len(f)
          /\ \A j \in 1..(Len(f) - 1) : Append(Front(f), n)[j] = f[j]
          /\ Append(Front(f), n)[Len(f)] = n
      BY ONLY <2>2, <2>3, ReplaceLast, Zenon
    <3> QED BY <3>1 DEF u
  <2> QED BY <2>1, <2>4, <2>5
<1>7. Last(f) = t[d - 1] /\ \A j \in 1..(d - 2) : u[j] = t[j]
  BY <1>3, <1>4, <1>6
<1> HIDE DEF u
<1>8. /\ ms[1] = m /\ ats[1] = at
      /\ \A j \in 1..d : ms[j] \in Messages /\ ats[j] \in Nat
      /\ \A j \in 1..(d - 1) : Inner(ms[j], t[j], ms[j + 1], ats[j], ats[j + 1])
  BY <1>1 DEF Trunk, d
<1>9. Trunk(u, m, at, ms, ats)
  <2>1. \A j \in 1..(d - 1) : ms[j] \in Messages /\ ats[j] \in Nat
    BY <1>3, <1>8
  <2>2. \A j \in 1..(d - 2) : Inner(ms[j], u[j], ms[j + 1], ats[j], ats[j + 1])
    BY <1>3, <1>7, <1>8
  <2>3. Len(u) - 1 = d - 2 /\ Len(u) > 0
    BY <1>3, <1>6
  <2> QED BY <1>6, <1>8, <2>1, <2>2, <2>3 DEF Trunk
<1>10. IF Len(n.kids) = n.want THEN Complete(ms[d - 1], ats[d - 1], n) ELSE Read(ms[d - 1], ats[d - 1], n)
  <2>1. d - 1 \in 1..(d - 1) /\ d - 1 \in 1..d /\ d \in 1..d /\ (d - 1) + 1 = d
    BY <1>3
  <2>2. Inner(ms[d - 1], t[d - 1], ms[d], ats[d - 1], ats[d])
    BY <1>8, <2>1
  <2>3. ms[d - 1] \in Messages /\ ats[d - 1] \in Nat /\ ats[d] \in Nat
    BY <1>8, <2>1
  <2>4. Complete(ms[d], ats[d], t[d])
    BY <1>1
  <2> QED BY ONLY <2>2, <2>3, <2>4, ElementAdded DEF n, x
<1> DEFINE ret == IF Len(n.kids) = n.want THEN "ok" ELSE "retry"
<1> DEFINE q == [tree |-> u, ret |-> ret, used |-> p.used, swallowed |-> p.swallowed]
<1>11. Outcome(m, at, q)
  <2>1. Len(u) = d - 1 /\ u[d - 1] = n
    BY <1>6
  <2>2. CASE Len(n.kids) = n.want
    <3>1. Climb(u, m, at)
      BY <1>9, <1>10, <2>1, <2>2 DEF Climb
    <3> QED BY <2>2, <3>1 DEF Outcome
  <2>3. CASE Len(n.kids) # n.want
    <3>1. Path(u, m, at)
      BY <1>9, <1>10, <2>1, <2>3 DEF Path
    <3> QED BY <2>3, <3>1 DEF Outcome
  <2> QED BY <2>2, <2>3
<1>12. Ascend(p, i) = q
  <2>1. Ascend(p, i) = [p EXCEPT !.tree = u, !.ret = ret]
    <3>1. n = [Last(f) EXCEPT !.kids = Append(@, redisReply(Last(t)))]
      BY <1>4, <1>7 DEF n
    <3> HIDE DEF ret
    <3> QED BY <1>4, <3>1, Zenon DEF Ascend, t, f, u, ret
  <2> DEFINE r == p.ret
  <2> DEFINE used == p.used
  <2> DEFINE swallowed == p.swallowed
  <2> DEFINE a == [tree |-> u, ret |-> r, used |-> used, swallowed |-> swallowed]
  <2>2. p = [tree |-> t, ret |-> r, used |-> used, swallowed |-> swallowed]
    BY DEF t, Fields
  <2> HIDE DEF ret, r, used, swallowed, t
  <2>3. [p EXCEPT !.tree = u] = a
    BY ONLY <2>2
  <2>4. [a EXCEPT !.ret = ret] = [tree |-> u, ret |-> ret, used |-> used, swallowed |-> swallowed]
    BY ONLY TRUE
  <2> HIDE DEF a
  <2>5. [p EXCEPT !.tree = u, !.ret = ret] = [[p EXCEPT !.tree = u] EXCEPT !.ret = ret]
    BY ONLY TRUE
  <2> QED BY <2>1, <2>3, <2>4, <2>5 DEF used, swallowed
<1>13. Same(p, q)
  <2> HIDE DEF ret, t
  <2>1. q.tree = u /\ q.ret = ret /\ q.used = p.used /\ q.swallowed = p.swallowed
    OBVIOUS
  <2> QED BY <2>1 DEF Same, Fields
<1>14. q.tree = u
  OBVIOUS
<1> HIDE DEF q
<1>15. Len(q.tree) = d - 1 /\ d - 1 \in Nat
  BY <1>3, <1>6, <1>14
<1> QED BY <1>11, <1>12, <1>13, <1>15 DEF d, t

LEMMA AscendIdle ==
  ASSUME NEW p, p.ret # "ok" \/ Len(p.tree) = 1, NEW i
  PROVE  Ascend(p, i) = p
BY DEF Ascend

(* As many steps as the path is long reach the root. *)
LEMMA AscendAll ==
  ASSUME NEW m, NEW at, NEW p, NEW S, NEW t \in Seq(S), Outcome(m, at, p), Fields(p),
         Len(p.tree) = Len(t)
  PROVE  LET q == FoldLeft(Ascend, p, t)
         IN /\ Outcome(m, at, q) /\ Same(p, q)
            /\ q.ret = "ok" => Len(q.tree) = 1
<1> DEFINE d == Len(t)
<1> DEFINE F(k) == A!Fold(p, SubSeq(t, 1, k))
<1> DEFINE Good(k, q) ==
      /\ Outcome(m, at, q)
      /\ Same(p, q)
      /\ q.ret = "ok" => Len(q.tree) \in Nat /\ (Len(q.tree) = 1 \/ Len(q.tree) + k <= d)
<1> DEFINE N == {k \in Nat : k <= d => Good(k, F(k))}
<1>1. d \in Nat
  OBVIOUS
<1>2. \A s : A!Fold(p, s) = FoldLeft(Ascend, p, s)
  BY DEF A!Fold, A!FoldLeft, A!MapThenFoldSet, FoldLeft, MapThenFoldSet, A!Max, Max
<1>3. F(0) = p /\ F(d) = FoldLeft(Ascend, p, t)
  <2>1. SubSeq(t, 1, 0) = <<>> /\ SubSeq(t, 1, d) = t
    OBVIOUS
  <2> QED BY <1>2, <2>1, A!FoldOfEmpty
<1>4. \A k \in 0..(d - 1) : F(k + 1) = Ascend(F(k), t[k + 1])
  BY A!FoldOfPrefix
<1>5. N \in SUBSET Nat
  OBVIOUS
<1> HIDE DEF F, d
<1>6. 0 \in N
  <2>1. Len(p.tree) = d
    BY DEF d
  <2>2. Same(p, p)
    BY DEF Same
  <2>3. Good(0, p)
    BY <1>1, <2>1, <2>2
  <2> QED BY <1>3, <2>3
<1>7. ASSUME NEW k \in N PROVE k + 1 \in N
  <2>1. CASE k + 1 <= d
    <3> DEFINE q == F(k)
    <3>1. k \in Nat /\ k \in 0..(d - 1)
      BY <1>1, <2>1
    <3>2. Good(k, q)
      BY <1>1, <2>1
    <3>3. F(k + 1) = Ascend(q, t[k + 1])
      BY <1>4, <3>1
    <3> HIDE DEF q
    <3>4. CASE q.ret # "ok" \/ Len(q.tree) = 1
      <4>1. Ascend(q, t[k + 1]) = q
        BY <3>4, AscendIdle
      <4>2. Good(k + 1, q)
        BY <3>2, <3>4
      <4> HIDE DEF Good
      <4>3. Good(k + 1, F(k + 1))
        BY <3>3, <4>1, <4>2
      <4> QED BY <3>1, <4>3
    <3>5. CASE q.ret = "ok" /\ Len(q.tree) # 1
      <4> DEFINE u == Ascend(q, t[k + 1])
      <4>1. q.ret = "ok"
        BY <3>5
      <4>2. Climb(q.tree, m, at) /\ Fields(q) /\ Len(q.tree) \in Nat /\ Len(q.tree) + k <= d
        BY <3>2, <3>5 DEF Outcome, Same
      <4>3. Climb(q.tree, m, at)
        BY <4>2
      <4>4. Fields(q)
        BY <4>2
      <4>5. Len(q.tree) # 1
        BY <3>5
      <4>6. /\ Outcome(m, at, u) /\ Len(u.tree) = Len(q.tree) - 1 /\ Len(u.tree) \in Nat
            /\ Same(q, u)
        BY ONLY <4>1, <4>3, <4>4, <4>5, AscendStep
      <4>7. Same(p, u)
        BY <3>2, <4>6 DEF Same
      <4> HIDE DEF u
      <4> DEFINE l == Len(u.tree)
      <4>8. l \in Nat /\ l + (k + 1) <= d
        <5> DEFINE h == Len(q.tree)
        <5>1. h \in Nat /\ h + k <= d /\ l = h - 1 /\ l \in Nat
          BY <4>2, <4>6
        <5> HIDE DEF h, l
        <5> QED BY <1>1, <3>1, <5>1
      <4>9. Good(k + 1, u)
        BY <4>6, <4>7, <4>8
      <4> HIDE DEF Good
      <4>10. Good(k + 1, F(k + 1))
        BY <3>3, <4>9 DEF u
      <4> QED BY <3>1, <4>10
    <3> QED BY <3>4, <3>5
  <2>2. CASE ~(k + 1 <= d)
    BY <2>2
  <2> QED BY <2>1, <2>2
<1>8. N = Nat
  <2> HIDE DEF N
  <2> QED BY <1>5, <1>6, <1>7, V!NatSetInduction
<1>9. Good(d, F(d))
  BY <1>1, <1>8
<1>10. Len(F(d).tree) \in Nat /\ Len(F(d).tree) + d <= d => Len(F(d).tree) = 0
  BY <1>1
<1>11. F(d).ret = "ok" => Len(F(d).tree) > 0
  <2>1. \A x : Climb(x, m, at) => Len(x) > 0
    BY DEF Climb, Trunk
  <2> QED BY <1>9, <2>1 DEF Outcome
<1> DEFINE q == F(d)
<1>12. Same(p, q) /\ Outcome(m, at, q)
  <2> HIDE DEF q
  <2> QED BY <1>9 DEF q
<1>13. q.ret = "ok" => Len(q.tree) = 1
  BY <1>1, <1>9, <1>10, <1>11
<1> QED BY <1>3, <1>12, <1>13

LEMMA AscendNot ==
  ASSUME NEW p, p.ret # "ok", NEW S, NEW t \in Seq(S)
  PROVE  FoldLeft(Ascend, p, t) = p
<1> DEFINE d == Len(t)
<1> DEFINE F(k) == A!Fold(p, SubSeq(t, 1, k))
<1> DEFINE N == {k \in Nat : k <= d => F(k) = p}
<1>1. d \in Nat
  OBVIOUS
<1>2. \A s : A!Fold(p, s) = FoldLeft(Ascend, p, s)
  BY DEF A!Fold, A!FoldLeft, A!MapThenFoldSet, FoldLeft, MapThenFoldSet, A!Max, Max
<1>3. F(0) = p /\ F(d) = FoldLeft(Ascend, p, t)
  <2>1. SubSeq(t, 1, 0) = <<>> /\ SubSeq(t, 1, d) = t
    OBVIOUS
  <2> QED BY <1>2, <2>1, A!FoldOfEmpty
<1>4. \A k \in 0..(d - 1) : F(k + 1) = Ascend(F(k), t[k + 1])
  BY A!FoldOfPrefix
<1>5. N \in SUBSET Nat
  OBVIOUS
<1> HIDE DEF F, d
<1>6. 0 \in N
  BY <1>3
<1>7. ASSUME NEW k \in N PROVE k + 1 \in N
  <2>1. CASE k + 1 <= d
    <3>1. k \in Nat /\ k \in 0..(d - 1) /\ F(k) = p
      BY <1>1, <2>1
    <3>2. F(k + 1) = Ascend(p, t[k + 1])
      BY <1>4, <3>1
    <3>3. Ascend(p, t[k + 1]) = p
      BY AscendIdle
    <3> QED BY <3>1, <3>2, <3>3
  <2>2. CASE ~(k + 1 <= d)
    BY <2>2
  <2> QED BY <2>1, <2>2
<1>8. N = Nat
  <2> HIDE DEF N
  <2> QED BY <1>5, <1>6, <1>7, V!NatSetInduction
<1> QED BY <1>1, <1>3, <1>8

(* Whatever the bytes are, the tree keeps a node, and what was swallowed   *)
(* stays known.                                                            *)
Rooted(t) == (\E S : t \in Seq(S)) /\ Len(t) > 0
Sane(p) == Fields(p) /\ Rooted(p.tree)

LEMMA RootedFacts ==
  ASSUME NEW t, Rooted(t)
  PROVE  /\ \A x : Rooted(Append(t, x)) /\ Rooted(Append(Front(t), x))
         /\ Len(t) \in Nat /\ (Len(t) # 1 => Rooted(Front(t)))
<1>1. PICK S : t \in Seq(S)
  BY DEF Rooted
<1> DEFINE l == Len(t)
<1>2. l > 0 /\ l \in Nat
  BY <1>1 DEF Rooted
<1>3. ASSUME NEW x PROVE Rooted(Append(t, x))
  <2>1. Append(t, x) \in Seq(S \cup {x}) /\ Len(Append(t, x)) = Len(t) + 1
    BY <1>1, AppendTo
  <2>2. Len(Append(t, x)) > 0
    BY <1>2, <2>1
  <2> QED BY <2>1, <2>2 DEF Rooted
<1>4. ASSUME NEW x PROVE Rooted(Append(Front(t), x))
  <2>1. Len(t) > 0
    BY <1>2
  <2>2. Append(Front(t), x) \in Seq(S \cup {x}) /\ Len(Append(Front(t), x)) = Len(t)
    BY <1>1, <2>1, ReplaceLast
  <2>3. Len(Append(Front(t), x)) > 0
    BY <2>1, <2>2
  <2> QED BY <2>2, <2>3 DEF Rooted
<1>5. ASSUME l # 1 PROVE Rooted(Front(t))
  <2>1. Len(t) > 0
    BY <1>2
  <2>2. Front(t) \in Seq(S) /\ Len(Front(t)) = l - 1
    BY <1>1, <2>1, FrontOf
  <2>3. l - 1 > 0
    <3> HIDE DEF l
    <3> QED BY <1>2, <1>5
  <2> QED BY <2>2, <2>3 DEF Rooted
<1> QED BY <1>2, <1>3, <1>4, <1>5

LEMMA AscendSane ==
  ASSUME NEW p, Sane(p), NEW i
  PROVE  Sane(Ascend(p, i)) /\ Same(p, Ascend(p, i))
<1>1. Fields(p) /\ Rooted(p.tree)
  BY DEF Sane
<1>2. CASE p.ret # "ok" \/ Len(p.tree) = 1
  <2>1. Ascend(p, i) = p
    BY <1>2, AscendIdle
  <2> QED BY <1>1, <2>1 DEF Sane, Same
<1>3. CASE ~(p.ret # "ok" \/ Len(p.tree) = 1)
  <2> DEFINE t == p.tree
  <2> DEFINE f == Front(t)
  <2> DEFINE n == [Last(f) EXCEPT !.kids = Append(@, redisReply(Last(t)))]
  <2> DEFINE u == Append(Front(f), n)
  <2> DEFINE ret == IF Len(n.kids) = n.want THEN "ok" ELSE "retry"
  <2>1. Rooted(t) /\ Len(t) # 1
    BY <1>1, <1>3
  <2>2. Ascend(p, i) = [p EXCEPT !.tree = u, !.ret = ret]
    BY <1>3, Zenon DEF Ascend
  <2> HIDE DEF t, n, ret
  <2>3. Rooted(f)
    BY <2>1, RootedFacts
  <2> HIDE DEF f
  <2>4. Rooted(u)
    BY <2>3, RootedFacts
  <2> HIDE DEF u
  <2> DEFINE r == p.ret
  <2> DEFINE used == p.used
  <2> DEFINE swallowed == p.swallowed
  <2> DEFINE a == [tree |-> u, ret |-> r, used |-> used, swallowed |-> swallowed]
  <2> DEFINE b == [tree |-> u, ret |-> ret, used |-> used, swallowed |-> swallowed]
  <2>5. p = [tree |-> t, ret |-> r, used |-> used, swallowed |-> swallowed]
    BY <1>1 DEF t, Fields
  <2> HIDE DEF r, used, swallowed
  <2>6. [p EXCEPT !.tree = u] = a
    BY ONLY <2>5
  <2>7. [a EXCEPT !.ret = ret] = b
    BY ONLY TRUE
  <2>8. b.tree = u /\ b.ret = ret /\ b.used = used /\ b.swallowed = swallowed
    OBVIOUS
  <2>9. Fields(b)
    BY <2>8 DEF Fields
  <2> HIDE DEF a, b
  <2>10. [p EXCEPT !.tree = u, !.ret = ret] = [[p EXCEPT !.tree = u] EXCEPT !.ret = ret]
    BY ONLY TRUE
  <2>11. Ascend(p, i) = b
    BY <2>2, <2>6, <2>7, <2>10
  <2> QED BY <2>4, <2>8, <2>9, <2>11 DEF Sane, Same, used, swallowed
<1> QED BY <1>2, <1>3

LEMMA AscendKeeps ==
  ASSUME NEW p, Sane(p), NEW t, Rooted(t)
  PROVE  Sane(FoldLeft(Ascend, p, t)) /\ Same(p, FoldLeft(Ascend, p, t))
<1>1. PICK S : t \in Seq(S)
  BY DEF Rooted
<1> DEFINE d == Len(t)
<1> DEFINE F(k) == A!Fold(p, SubSeq(t, 1, k))
<1> DEFINE Good(q) == Sane(q) /\ Same(p, q)
<1> DEFINE N == {k \in Nat : k <= d => Good(F(k))}
<1>2. d \in Nat
  BY <1>1
<1>3. \A s : A!Fold(p, s) = FoldLeft(Ascend, p, s)
  BY DEF A!Fold, A!FoldLeft, A!MapThenFoldSet, FoldLeft, MapThenFoldSet, A!Max, Max
<1>4. F(0) = p /\ F(d) = FoldLeft(Ascend, p, t)
  <2>1. SubSeq(t, 1, 0) = <<>> /\ SubSeq(t, 1, d) = t
    BY <1>1
  <2> QED BY <1>3, <2>1, A!FoldOfEmpty
<1>5. \A k \in 0..(d - 1) : F(k + 1) = Ascend(F(k), t[k + 1])
  BY <1>1, A!FoldOfPrefix
<1>6. N \in SUBSET Nat
  OBVIOUS
<1>7. \A q, i : Good(q) => Good(Ascend(q, i))
  BY AscendSane DEF Same
<1>8. Good(p)
  BY DEF Sane, Same
<1> HIDE DEF F, d, Good
<1>9. 0 \in N
  BY <1>4, <1>8
<1>10. ASSUME NEW k \in N PROVE k + 1 \in N
  <2>1. CASE k + 1 <= d
    <3>1. k \in Nat /\ k \in 0..(d - 1) /\ Good(F(k))
      BY <1>2, <2>1
    <3>2. Good(F(k + 1))
      BY <1>5, <1>7, <3>1
    <3> QED BY <3>1, <3>2
  <2>2. CASE ~(k + 1 <= d)
    BY <2>2
  <2> QED BY <2>1, <2>2
<1>11. N = Nat
  <2> HIDE DEF N
  <2> QED BY <1>6, <1>9, <1>10, V!NatSetInduction
<1> QED BY <1>2, <1>4, <1>11 DEF Good

(* The next byte of a message is the next byte of the element that is      *)
(* being read.                                                             *)
LEMMA NextByte ==
  ASSUME NEW t, NEW m, NEW at, NEW ms, NEW ats, Trunk(t, m, at, ms, ats),
         Read(ms[Len(t)], ats[Len(t)], t[Len(t)])
  PROVE  /\ m \in Messages /\ at \in Nat /\ at < Len(m.bytes)
         /\ m.bytes[at + 1] = ms[Len(t)].bytes[ats[Len(t)] + 1]
<1> DEFINE d == Len(t)
<1> DEFINE c == ms[d].bytes[ats[d] + 1]
<1>1. d \in Nat /\ d > 0
  <2>1. PICK S : t \in Seq(S)
    BY DEF Trunk
  <2> QED BY <2>1 DEF Trunk
<1>2. /\ \A i \in 1..d : ms[i] \in Messages /\ ats[i] \in Nat
      /\ \A i \in 1..(d - 1) : Inner(ms[i], t[i], ms[i + 1], ats[i], ats[i + 1])
      /\ ms[1] = m /\ ats[1] = at /\ Read(ms[d], ats[d], t[d])
  BY DEF Trunk
<1> DEFINE Good(i) == ats[i] < Len(ms[i].bytes) /\ ms[i].bytes[ats[i] + 1] = c
<1> HIDE DEF d
<1>3. Good(d)
  <2>1. ms[d] \in Messages /\ ats[d] \in Nat
    BY <1>1, <1>2
  <2>2. ats[d] < Len(ms[d].bytes)
    BY <1>2, <2>1, ReadInside
  <2> QED BY <2>2
<1>4. ASSUME NEW i \in 1..(d - 1), Good(i + 1) PROVE Good(i)
  <2> DEFINE e == ms[i]
  <2> DEFINE x == ms[i + 1]
  <2> DEFINE b == ats[i + 1]
  <2>1. i \in 1..d /\ i + 1 \in 1..d
    BY <1>1
  <2>2. Inner(e, t[i], x, ats[i], b)
    BY <1>2
  <2>3. e \in Messages /\ x \in Messages /\ b \in Nat
    BY <1>2, <2>1
  <2>4. b < Len(x.bytes) /\ x.bytes[b + 1] = c
    BY <1>4
  <2> HIDE DEF x, b, c
  <2>5. IsArray(e) /\ e.bytes \in Seq(Byte) /\ Len(e.bytes) \in Nat /\ Len(x.bytes) \in Nat
    BY <2>2, <2>3, MessageBytes DEF Inner
  <2>6. PICK k \in 0..(Len(e.parts) - 1) : x = e.parts[k + 1] /\ ats[i] = Start(e, k) + b
    BY <2>2 DEF Inner
  <2> HIDE DEF e
  <2>7. /\ Start(e, k + 1) = Start(e, k) + Len(e.parts[k + 1].bytes)
        /\ \A j \in 1..Len(e.parts[k + 1].bytes) :
             e.bytes[Start(e, k) + j] = e.parts[k + 1].bytes[j]
    BY <2>5, ArrayBytes
  <2>8. Start(e, k) \in Nat /\ Start(e, k + 1) <= Len(e.bytes)
    BY <2>5, StartInside
  <2>9. b + 1 \in 1..Len(x.bytes)
    BY <2>3, <2>4, <2>5
  <2>10. e.bytes[Start(e, k) + (b + 1)] = c
    BY <2>4, <2>6, <2>7, <2>9
  <2>11. ats[i] + 1 = Start(e, k) + (b + 1) /\ ats[i] < Len(e.bytes)
    <3> DEFINE from == Start(e, k)
    <3> DEFINE to == Start(e, k + 1)
    <3> DEFINE lx == Len(x.bytes)
    <3> DEFINE le == Len(e.bytes)
    <3> DEFINE a == ats[i]
    <3>1. to = from + lx
      BY <2>6, <2>7
    <3>2. from \in Nat /\ to <= le /\ le \in Nat /\ lx \in Nat /\ b \in Nat /\ b < lx
      BY <2>3, <2>4, <2>5, <2>8
    <3>3. a = from + b
      BY <2>6
    <3> HIDE DEF from, to, lx, le, a
    <3>4. a + 1 = from + (b + 1) /\ a < le
      BY ONLY <3>1, <3>2, <3>3
    <3> QED BY <3>4 DEF from, to, le, a
  <2> QED BY <2>10, <2>11 DEF e
<1> HIDE DEF Good
<1> DEFINE N == {k \in Nat : k < d => Good(d - k)}
<1>5. N \in SUBSET Nat
  OBVIOUS
<1>6. 0 \in N
  <2>1. d - 0 = d
    BY <1>1
  <2> QED BY <1>3, <2>1
<1>7. ASSUME NEW k \in N PROVE k + 1 \in N
  <2>1. CASE k + 1 < d
    <3>1. d - (k + 1) \in 1..(d - 1) /\ (d - (k + 1)) + 1 = d - k /\ k < d
      BY <1>1, <2>1
    <3>2. Good(d - k)
      BY <3>1
    <3>3. Good(d - (k + 1))
      BY <1>4, <3>1, <3>2
    <3> QED BY <3>3
  <2>2. CASE ~(k + 1 < d)
    BY <2>2
  <2> QED BY <2>1, <2>2
<1>8. N = Nat
  <2> HIDE DEF N
  <2> QED BY <1>5, <1>6, <1>7, V!NatSetInduction
<1>9. Good(1)
  <2>1. d - 1 \in Nat /\ d - 1 < d /\ d - (d - 1) = 1
    BY <1>1
  <2>2. Good(d - (d - 1))
    BY <1>8, <2>1
  <2> QED BY <2>1, <2>2
<1>10. m \in Messages /\ at \in Nat
  BY <1>1, <1>2
<1> QED BY <1>2, <1>9, <1>10 DEF Good, d

(* Going down to the element that the next byte begins. *)
LEMMA Descended ==
  ASSUME NEW t, NEW m, NEW at, Path(t, m, at)
  PROVE  /\ Rooted(t) /\ Path(Descend(t), m, at)
         /\ ~WantsElement(Last(Descend(t))) /\ ~Swallows(Last(t))
<1> DEFINE d == Len(t)
<1>1. PICK ms, ats : Trunk(t, m, at, ms, ats) /\ Read(ms[d], ats[d], t[d])
  BY DEF Path
<1>2. PICK S : t \in Seq(S)
  BY <1>1 DEF Trunk
<1>3. Rooted(t)
  BY <1>1 DEF Trunk, Rooted
<1>4. d \in Nat /\ d > 0
  <2>1. d > 0
    BY <1>1 DEF Trunk
  <2> QED BY <1>2, <2>1
<1>5. Last(t) = t[d]
  BY <1>2, <1>4, FrontOf
<1>6. /\ \A i \in 1..d : ms[i] \in Messages /\ ats[i] \in Nat
      /\ \A i \in 1..(d - 1) : Inner(ms[i], t[i], ms[i + 1], ats[i], ats[i + 1])
      /\ ms[1] = m /\ ats[1] = at
  BY <1>1 DEF Trunk
<1>7. ms[d] \in Messages /\ ats[d] \in Nat
  BY <1>4, <1>6
<1>8. /\ ~Swallows(t[d])
      /\ WantsElement(t[d]) <=> /\ IsArray(ms[d])
                                /\ \E k \in 0..(Len(ms[d].parts) - 1) : KidsRead(ms[d], k, ats[d], t[d])
  BY <1>1, <1>7, ReadWants
<1>9. CASE ~WantsElement(t[d])
  <2>1. Descend(t) = t
    BY <1>5, <1>9 DEF Descend
  <2> QED BY <1>3, <1>5, <1>8, <1>9, <2>1
<1>10. CASE WantsElement(t[d])
  <2> DEFINE n == parse_tree_new
  <2> DEFINE u == Append(t, n)
  <2>1. PICK k \in 0..(Len(ms[d].parts) - 1) : KidsRead(ms[d], k, ats[d], t[d])
    BY <1>8, <1>10
  <2> DEFINE e == ms[d].parts[k + 1]
  <2>2. IsArray(ms[d]) /\ t[d] = KidsNode(ms[d].parts, k) /\ ats[d] = Start(ms[d], k)
    BY <1>8, <1>10, <2>1 DEF KidsRead
  <2>3. ms[d].parts \in Seq(Messages)
    BY <2>2 DEF IsArray
  <2>4. e \in Messages
    BY <2>3
  <2>5. Inner(ms[d], t[d], e, ats[d], 0)
    <3>1. ats[d] = Start(ms[d], k) + 0
      BY <1>7, <2>2
    <3> QED BY <2>1, <2>2, <3>1 DEF Inner
  <2>6. Descend(t) = u
    BY <1>5, <1>10 DEF Descend
  <2> HIDE DEF n, d
  <2>7. u \in Seq(S \cup {n}) /\ Len(u) = d + 1 /\ (\A i \in 1..d : u[i] = t[i]) /\ u[d + 1] = n
    BY ONLY <1>2, AppendTo DEF d
  <2> HIDE DEF u, e
  <2> DEFINE xs == [i \in 1..(d + 1) |-> IF i = d + 1 THEN e ELSE ms[i]]
  <2> DEFINE bs == [i \in 1..(d + 1) |-> IF i = d + 1 THEN 0 ELSE ats[i]]
  <2>8. /\ \A i \in 1..d : xs[i] = ms[i] /\ bs[i] = ats[i]
        /\ xs[d + 1] = e /\ bs[d + 1] = 0
    BY <1>4 DEF d
  <2> HIDE DEF xs, bs
  <2>9. d \in Nat /\ d > 0
    BY <1>4 DEF d
  <2>10. Trunk(u, m, at, xs, bs)
    <3>1. \A i \in 1..(d + 1) : xs[i] \in Messages /\ bs[i] \in Nat
      <4> TAKE i \in 1..(d + 1)
      <4>1. CASE i = d + 1
        BY <2>4, <2>8, <4>1
      <4>2. CASE i \in 1..d
        BY <1>6, <2>8, <4>2 DEF d
      <4> QED BY <2>9, <4>1, <4>2
    <3>2. ASSUME NEW i \in 1..d PROVE Inner(xs[i], u[i], xs[i + 1], bs[i], bs[i + 1])
      <4>1. CASE i = d
        BY <2>5, <2>7, <2>8, <2>9, <4>1
      <4>2. CASE i \in 1..(d - 1)
        <5>1. i + 1 \in 1..d
          BY <2>9, <4>2
        <5>2. Inner(ms[i], t[i], ms[i + 1], ats[i], ats[i + 1])
          BY <1>6, <4>2 DEF d
        <5> QED BY <2>7, <2>8, <5>1, <5>2
      <4> QED BY <2>9, <4>1, <4>2
    <3>3. xs[1] = m /\ bs[1] = at
      BY <1>6, <2>8, <2>9
    <3>4. Len(u) > 0 /\ Len(u) - 1 = d
      BY <2>7, <2>9
    <3> QED BY <2>7, <3>1, <3>2, <3>3, <3>4 DEF Trunk
  <2>11. Read(xs[Len(u)], bs[Len(u)], u[Len(u)])
    <3>1. Read(e, 0, n)
      BY DEF Read, n
    <3> QED BY <2>7, <2>8, <3>1
  <2>12. Path(u, m, at)
    BY <2>10, <2>11 DEF Path
  <2>13. Last(u) = n
    <3>1. Len(u) > 0
      BY <2>7, <2>9
    <3>2. u \in Seq(S \cup {n})
      BY <2>7
    <3>3. Last(u) = u[Len(u)]
      BY ONLY <3>1, <3>2, FrontOf
    <3> QED BY <2>7, <3>3
  <2>14. ~WantsElement(n)
    BY DEF n, parse_tree_new, WantsElement, Star
  <2> QED BY <1>3, <1>5, <1>8, <2>6, <2>12, <2>13, <2>14 DEF d, u
<1> QED BY <1>9, <1>10

-----------------------------------------------------------------------------
(* One byte. *)
Whole(t, m) == Rooted(t) /\ Len(t) = 1 /\ redisReply(Last(t)) = m.reply
Stuck(t) == Rooted(t) /\ Last(t) = NilArrayNode

(* The state in which the loop over the levels begins. *)
Parsed(p, c) ==
  LET t == Descend(p.tree)
      r == parse(Last(t), c)
  IN [tree |-> Append(Front(t), r.node), ret |-> r.ret, used |-> p.used + 1,
      swallowed |-> p.swallowed \/ Swallows(Last(p.tree))]

LEMMA ParsedFields ==
  ASSUME NEW p, NEW c
  PROVE  LET r == parse(Last(Descend(p.tree)), c)
         IN /\ Fields(Parsed(p, c)) /\ Parsed(p, c).tree = Append(Front(Descend(p.tree)), r.node)
            /\ Parsed(p, c).ret = r.ret /\ Parsed(p, c).used = p.used + 1
            /\ Parsed(p, c).swallowed <=> p.swallowed \/ Swallows(Last(p.tree))
<1> DEFINE r == parse(Last(Descend(p.tree)), c)
<1> DEFINE u == Append(Front(Descend(p.tree)), r.node)
<1> DEFINE ret == r.ret
<1> DEFINE s == p.swallowed \/ Swallows(Last(p.tree))
<1> DEFINE used == p.used + 1
<1> DEFINE a == [tree |-> u, ret |-> ret, used |-> used, swallowed |-> s]
<1>1. Parsed(p, c) = a
  BY Zenon DEF Parsed
<1> HIDE DEF r, u, ret, s, used
<1>2. a.tree = u /\ a.ret = ret /\ a.used = used /\ a.swallowed = s
  OBVIOUS
<1>3. Fields(a)
  BY <1>2 DEF Fields
<1> HIDE DEF a
<1> QED BY <1>1, <1>2, <1>3 DEF u, ret, s, used, r

LEMMA ParseByteIs ==
  ASSUME NEW p, NEW c
  PROVE  /\ p.ret # "retry" => ParseByte(p, c) = p
         /\ p.ret = "retry" => ParseByte(p, c) = FoldLeft(Ascend, Parsed(p, c), Descend(p.tree))
<1>1. ASSUME p.ret # "retry" PROVE ParseByte(p, c) = p
  BY <1>1 DEF ParseByte
<1>2. ASSUME p.ret = "retry"
      PROVE  ParseByte(p, c) = FoldLeft(Ascend, Parsed(p, c), Descend(p.tree))
  BY <1>2, Zenon DEF ParseByte, Parsed
<1> QED BY <1>1, <1>2

LEMMA DescendRooted ==
  ASSUME NEW t, Rooted(t)
  PROVE  Rooted(Descend(t))
BY RootedFacts DEF Descend

LEMMA ParseByteSane ==
  ASSUME NEW p, Sane(p), NEW c
  PROVE  LET q == ParseByte(p, c)
         IN /\ Sane(q)
            /\ p.swallowed => q.swallowed
            /\ p.ret = "retry" => /\ q.used = p.used + 1
                                  /\ q.swallowed <=> p.swallowed \/ Swallows(Last(p.tree))
<1>1. CASE p.ret # "retry"
  BY <1>1, ParseByteIs
<1>2. CASE p.ret = "retry"
  <2> DEFINE a == Parsed(p, c)
  <2> DEFINE t == Descend(p.tree)
  <2> DEFINE q == FoldLeft(Ascend, a, t)
  <2>1. Rooted(t)
    BY DescendRooted DEF Sane
  <2>2. /\ Fields(a) /\ a.tree = Append(Front(t), parse(Last(t), c).node) /\ a.used = p.used + 1
        /\ a.swallowed <=> p.swallowed \/ Swallows(Last(p.tree))
    BY ParsedFields
  <2>3. ParseByte(p, c) = q
    BY <1>2, ParseByteIs
  <2> HIDE DEF t
  <2>4. Rooted(a.tree)
    BY <2>1, <2>2, RootedFacts
  <2> HIDE DEF a
  <2>5. Sane(a)
    BY <2>2, <2>4 DEF Sane
  <2>6. Sane(q) /\ Same(a, q)
    BY <2>1, <2>5, AscendKeeps
  <2> QED BY <1>2, <2>2, <2>3, <2>6 DEF Same
<1> QED BY <1>1, <1>2

(* The next byte of a message that is being read. *)
LEMMA ByteStep ==
  ASSUME NEW p, Sane(p), p.ret = "retry", NEW m, NEW at, Path(p.tree, m, at)
  PROVE  LET q == ParseByte(p, m.bytes[at + 1])
         IN /\ m \in Messages /\ at \in Nat /\ at < Len(m.bytes)
            /\ \/ Stops(q.ret)
               \/ q.ret = "retry" /\ (Path(q.tree, m, at + 1) \/ Stuck(q.tree))
               \/ q.ret = "ok" /\ at + 1 = Len(m.bytes) /\ Whole(q.tree, m)
<1> DEFINE c == m.bytes[at + 1]
<1> DEFINE a == Parsed(p, c)
<1> DEFINE t == Descend(p.tree)
<1> DEFINE q == ParseByte(p, c)
<1> DEFINE d == Len(t)
<1>1. Path(t, m, at) /\ ~WantsElement(Last(t)) /\ Rooted(t)
  BY Descended, DescendRooted DEF Sane
<1> HIDE DEF t
<1>2. PICK ms, ats : Trunk(t, m, at, ms, ats) /\ Read(ms[d], ats[d], t[d])
  BY <1>1 DEF Path
<1>3. PICK S : t \in Seq(S)
  BY <1>1 DEF Rooted
<1>4. d \in Nat /\ d > 0 /\ Len(t) > 0
  <2>1. Len(t) > 0
    BY <1>1 DEF Rooted
  <2> QED BY <1>3, <2>1
<1>5. Last(t) = t[d]
  BY <1>3, <1>4, FrontOf
<1>6. m \in Messages /\ at \in Nat /\ at < Len(m.bytes) /\ c = ms[d].bytes[ats[d] + 1]
  BY <1>2, NextByte
<1>7. /\ \A i \in 1..d : ms[i] \in Messages /\ ats[i] \in Nat
      /\ \A i \in 1..(d - 1) : Inner(ms[i], t[i], ms[i + 1], ats[i], ats[i + 1])
      /\ ms[1] = m /\ ats[1] = at
  BY <1>2 DEF Trunk
<1> DEFINE r == parse(t[d], c)
<1> DEFINE w == Append(Front(t), r.node)
<1> DEFINE bs == [i \in 1..d |-> ats[i] + 1]
<1>8. Stepped(ms[d], ats[d] + 1, r)
  <2>1. ms[d] \in Messages /\ ats[d] \in Nat
    BY <1>4, <1>7
  <2>2. Read(ms[d], ats[d], t[d])
    BY <1>2
  <2>3. ~WantsElement(t[d])
    BY <1>1, <1>5
  <2>4. ms[d] \in Messages
    BY <2>1
  <2>5. ats[d] \in Nat
    BY <2>1
  <2> HIDE DEF d
  <2>6. Stepped(ms[d], ats[d] + 1, parse(t[d], ms[d].bytes[ats[d] + 1]))
    BY ONLY <2>2, <2>3, <2>4, <2>5, LeafStep
  <2> QED BY <1>6, <2>6
<1>9. Fields(a) /\ a.tree = w /\ a.ret = r.ret
  BY <1>5, ParsedFields DEF t
<1> HIDE DEF r, d
<1>10. /\ w \in Seq(S \cup {r.node}) /\ Len(w) = d /\ (\A i \in 1..(d - 1) : w[i] = t[i])
       /\ w[d] = r.node
  <2>1. Len(t) > 0
    BY <1>4
  <2> DEFINE x == r.node
  <2> HIDE DEF x
  <2>2. /\ Append(Front(t), x) \in Seq(S \cup {x}) /\ Len(Append(Front(t), x)) = Len(t)
        /\ \A i \in 1..(Len(t) - 1) : Append(Front(t), x)[i] = t[i]
        /\ Append(Front(t), x)[Len(t)] = x
    BY ONLY <1>3, <2>1, ReplaceLast
  <2> QED BY <2>2 DEF d, w, x
<1> HIDE DEF w
<1>11. Last(w) = w[d] /\ Rooted(w)
  <2>1. w \in Seq(S \cup {r.node})
    BY <1>10
  <2>2. Len(w) > 0
    BY <1>4, <1>10
  <2>3. Last(w) = w[Len(w)]
    BY ONLY <2>1, <2>2, FrontOf
  <2> QED BY <1>10, <2>1, <2>2, <2>3 DEF Rooted
<1>12. Trunk(w, m, at + 1, ms, bs) /\ bs[d] = ats[d] + 1
  <2>1. \A i \in 1..d : bs[i] = ats[i] + 1
    OBVIOUS
  <2> HIDE DEF bs
  <2>2. \A i \in 1..d : ms[i] \in Messages /\ bs[i] \in Nat
    BY <1>7, <2>1
  <2>3. ASSUME NEW i \in 1..(d - 1) PROVE Inner(ms[i], w[i], ms[i + 1], bs[i], bs[i + 1])
    <3>1. i \in 1..d /\ i + 1 \in 1..d
      BY <1>4
    <3>2. bs[i] = ats[i] + 1 /\ bs[i + 1] = ats[i + 1] + 1 /\ w[i] = t[i] /\ ats[i + 1] \in Nat
      BY <1>7, <1>10, <2>1, <3>1
    <3>3. Inner(ms[i], t[i], ms[i + 1], ats[i], ats[i + 1])
      BY <1>7
    <3>4. ms[i].bytes \in Seq(Byte)
      BY <1>7, <3>1, MessageBytes
    <3>5. PICK k \in 0..(Len(ms[i].parts) - 1) :
            /\ t[i] = KidsNode(ms[i].parts, k) /\ ms[i + 1] = ms[i].parts[k + 1]
            /\ ats[i] = Start(ms[i], k) + ats[i + 1]
      BY <3>3 DEF Inner
    <3>6. IsArray(ms[i])
      BY <3>3 DEF Inner
    <3>7. Start(ms[i], k) \in Nat
      BY <3>4, <3>6, StartInside
    <3>8. bs[i] = Start(ms[i], k) + bs[i + 1]
      BY <3>2, <3>5, <3>7
    <3> QED BY <3>2, <3>5, <3>6, <3>8 DEF Inner
  <2>4. bs[1] = at + 1 /\ bs[d] = ats[d] + 1
    BY <1>4, <1>7, <2>1
  <2> QED BY <1>4, <1>7, <1>10, <2>2, <2>3, <2>4 DEF Trunk
<1> HIDE DEF bs
<1>13. q = FoldLeft(Ascend, a, t)
  BY ParseByteIs DEF t
<1> HIDE DEF a, q
<1>14. CASE r.ret = "ok" /\ Complete(ms[d], ats[d] + 1, r.node)
  <2>1. Climb(w, m, at + 1)
    BY <1>10, <1>12, <1>14 DEF Climb
  <2>2. Outcome(m, at + 1, a)
    BY <1>9, <1>14, <2>1 DEF Outcome
  <2>3. Len(a.tree) = Len(t)
    BY <1>9, <1>10 DEF d
  <2>4. Fields(a)
    BY <1>9
  <2>5. Outcome(m, at + 1, q) /\ (q.ret = "ok" => Len(q.tree) = 1)
    BY ONLY <1>3, <1>13, <2>2, <2>3, <2>4, AscendAll
  <2>6. CASE q.ret = "retry" /\ Path(q.tree, m, at + 1)
    BY <1>6, <2>6 DEF q, c
  <2>7. CASE q.ret = "ok" /\ Climb(q.tree, m, at + 1)
    <3> DEFINE x == q.tree
    <3>1. PICK ns, cs : Trunk(x, m, at + 1, ns, cs) /\ Complete(ns[Len(x)], cs[Len(x)], x[Len(x)])
      BY <2>7 DEF Climb
    <3>2. Len(x) = 1
      BY <2>5, <2>7
    <3>3. PICK R : x \in Seq(R)
      BY <3>1 DEF Trunk
    <3> HIDE DEF x
    <3>4. Last(x) = x[1] /\ Rooted(x)
      <4>1. Len(x) > 0
        BY <3>2
      <4>2. Last(x) = x[Len(x)]
        BY ONLY <3>3, <4>1, FrontOf
      <4> QED BY <3>2, <3>3, <4>1, <4>2 DEF Rooted
    <3>5. ns[1] = m /\ cs[1] = at + 1
      BY <3>1 DEF Trunk
    <3>6. at + 1 = Len(m.bytes) /\ redisReply(x[1]) = m.reply
      BY <3>1, <3>2, <3>5 DEF Complete
    <3>7. Whole(x, m)
      BY <3>2, <3>4, <3>6 DEF Whole
    <3> QED BY <1>6, <2>7, <3>6, <3>7 DEF q, c, x
  <2> QED BY <2>5, <2>6, <2>7 DEF Outcome
<1>15. CASE r.ret # "ok"
  <2>1. q = a
    BY <1>3, <1>9, <1>13, <1>15, AscendNot
  <2>2. CASE r.ret = "err" /\ IsGarbage(ms[d])
    <3>1. ms[d] \in Messages
      BY <1>4, <1>7
    <3>2. Malformed
      BY <2>2, <3>1 DEF Malformed
    <3> QED BY <1>6, <1>9, <2>1, <2>2, <3>2 DEF q, c, Stops
  <2>5. CASE r.ret = "overrun" /\ LongLine(ms[d])
    <3>1. ms[d] \in Messages
      BY <1>4, <1>7
    <3>2. Overlong
      BY <2>5, <3>1 DEF Overlong
    <3> QED BY <1>6, <1>9, <2>1, <2>5, <3>2 DEF q, c, Stops
  <2>3. CASE r.ret = "retry" /\ Read(ms[d], ats[d] + 1, r.node)
    <3>1. Path(w, m, at + 1)
      BY <1>10, <1>12, <2>3 DEF Path
    <3> QED BY <1>6, <1>9, <2>1, <2>3, <3>1 DEF q, c
  <2>4. CASE r.ret = "retry" /\ r.node = NilArrayNode
    <3>1. Stuck(w)
      BY <1>10, <1>11, <2>4 DEF Stuck
    <3> QED BY <1>6, <1>9, <2>1, <2>4, <3>1 DEF q, c
  <2> QED BY <1>8, <1>15, <2>2, <2>3, <2>4, <2>5 DEF Stepped
<1> QED BY <1>8, <1>14, <1>15 DEF Stepped

-----------------------------------------------------------------------------
(* The data of a read. *)
Sign == {Yes, No}

LEMMA ReadNode ==
  ASSUME NEW m, NEW at, NEW n, Read(m, at, n) \/ n = NilArrayNode
  PROVE  \E type, num, want, str, kids, lf, nil : \E neg \in Sign :
           n = Node(type, num, want, str, kids, lf, neg, nil)
<1> DEFINE Goal == \E type, num, want, str, kids, lf, nil : \E neg \in Sign :
                     n = Node(type, num, want, str, kids, lf, neg, nil)
<1>1. ASSUME NEW type, NEW num, NEW want, NEW str, NEW kids, NEW lf, NEW neg \in Sign, NEW nil,
             n = Node(type, num, want, str, kids, lf, neg, nil)
      PROVE  Goal
  BY <1>1
<1>2. No \in Sign /\ Yes \in Sign
  BY DEF Sign
<1> HIDE DEF Goal
<1>3. ASSUME n = parse_tree_new PROVE Goal
  <2>1. n = Node(0, 0, 0, <<>>, <<>>, No, No, No)
    BY <1>3 DEF parse_tree_new, Node, No
  <2> QED BY <1>1, <1>2, <2>1
<1>4. ASSUME NEW op, NEW text, LineRead(op, text, at, n) PROVE Goal
  BY <1>1, <1>2, <1>4 DEF LineRead
<1>5. ASSUME NEW op, NEW digits, NEW neg \in Sign, NEW i, NumberRead(op, digits, neg, i, n) PROVE Goal
  BY <1>1, <1>5 DEF NumberRead
<1>6. ASSUME NEW op, NilRead(op, at, n) PROVE Goal
  BY <1>1, <1>2, <1>6 DEF NilRead
<1>7. ASSUME NEW text, NEW i, TextRead(text, i, n) PROVE Goal
  BY <1>1, <1>2, <1>7 DEF TextRead
<1>8. ASSUME n = Node(Colon, 0, 0, <<>>, <<>>, No, No, No) PROVE Goal
  BY <1>1, <1>2, <1>8
<1>9. ASSUME NEW k, KidsRead(m, k, at, n) PROVE Goal
  BY <1>1, <1>2, <1>9 DEF KidsRead, KidsNode
<1>10. ASSUME n = NilArrayNode PROVE Goal
  BY <1>1, <1>2, <1>10 DEF NilArrayNode
<1>11. Goal
  BY <1>2, <1>3, <1>4, <1>5, <1>6, <1>7, <1>8, <1>9, <1>10 DEF Read
<1> QED BY <1>11 DEF Goal

(* Unless the sign of an integer is lost, the parser goes on where it was. *)
LEMMA EnteredSame ==
  ASSUME NEW t, Rooted(t), ~SignLost(t), NEW m, NEW at,
         Read(m, at, t[Len(t)]) \/ t[Len(t)] = NilArrayNode
  PROVE  Entered(t) = t
<1> DEFINE d == Len(t)
<1> DEFINE n == t[d]
<1>1. PICK S : t \in Seq(S)
  BY DEF Rooted
<1>2. Len(t) > 0 /\ d \in Nat /\ t # <<>>
  <2>1. Len(t) > 0
    BY DEF Rooted
  <2> QED BY <1>1, <2>1
<1>3. Last(t) = n
  BY <1>1, <1>2, FrontOf
<1>4. ~n.neg
  BY <1>2, <1>3 DEF SignLost
<1>5. PICK type, num, want, str, kids, lf, nil : \E neg \in Sign :
        n = Node(type, num, want, str, kids, lf, neg, nil)
  BY ReadNode
<1> DEFINE o == Node(type, num, want, str, kids, lf, No, nil)
<1>6. n = o
  <2>1. PICK neg \in Sign : n = Node(type, num, want, str, kids, lf, neg, nil)
    BY <1>5
  <2>2. n.neg = neg
    BY <2>1 DEF Node
  <2>3. neg = No
    BY <1>4, <2>2 DEF Sign, Yes, No
  <2> QED BY <2>1, <2>3
<1>7. [o EXCEPT !.neg = No] = o
  BY DEF Node
<1> HIDE DEF o, n, d
<1>8. [n EXCEPT !.neg = FALSE] = n
  BY <1>6, <1>7 DEF No
<1>9. Entered(t) = Append(Front(t), n)
  BY <1>2, <1>3, <1>8 DEF Entered
<1>10. n = t[d]
  BY DEF n
<1> DEFINE u == Append(Front(t), n)
<1>11. u \in Seq(S \cup {n}) /\ Len(u) = d /\ (\A i \in 1..(d - 1) : u[i] = t[i]) /\ u[d] = n
  <2>1. Len(t) > 0
    BY <1>2
  <2>2. /\ Append(Front(t), n) \in Seq(S \cup {n}) /\ Len(Append(Front(t), n)) = Len(t)
        /\ \A i \in 1..(Len(t) - 1) : Append(Front(t), n)[i] = t[i]
        /\ Append(Front(t), n)[Len(t)] = n
    BY ONLY <1>1, <2>1, ReplaceLast
  <2> QED BY <2>2 DEF d
<1> HIDE DEF u
<1>12. u = t
  <2>1. t \in Seq(S \cup {n}) /\ Len(t) = d /\ d \in Nat
    BY <1>1, <1>2 DEF d
  <2>2. \A i \in 1..d : u[i] = t[i]
    BY <1>10, <1>11, <2>1
  <2> QED BY <1>11, <2>1, <2>2
<1> QED BY <1>9, <1>12 DEF u

(* Between two reads: nothing of a message has come, or the path to a byte. *)
Begun(t, m, at) == (t = <<>> /\ m \in Messages /\ at = 0) \/ Path(t, m, at)

LEMMA StartPath ==
  ASSUME NEW t, NEW m, NEW at, Begun(t, m, at), ~SignLost(t)
  PROVE  Path(Entered(t), m, at) /\ Rooted(Entered(t)) /\ at \in Nat /\ m \in Messages
         /\ at < Len(m.bytes)
<1>1. CASE t = <<>> /\ m \in Messages /\ at = 0
  <2> DEFINE n == parse_tree_new
  <2> DEFINE u == <<n>>
  <2>1. Entered(t) = u
    BY <1>1 DEF Entered
  <2>2. Read(m, 0, n)
    BY DEF Read
  <2> HIDE DEF n
  <2>3. u \in Seq({n}) /\ Len(u) = 1 /\ u[1] = n
    OBVIOUS
  <2> HIDE DEF u
  <2> DEFINE ms == [i \in 1..1 |-> m]
  <2> DEFINE ats == [i \in 1..1 |-> 0]
  <2>4. ms[1] = m /\ ats[1] = 0
    OBVIOUS
  <2> HIDE DEF ms, ats
  <2>5. \A i \in 1..Len(u) : ms[i] \in Messages /\ ats[i] \in Nat
    BY <1>1, <2>3, <2>4
  <2>6. \A i \in 1..(Len(u) - 1) : Inner(ms[i], u[i], ms[i + 1], ats[i], ats[i + 1])
    BY <2>3
  <2>7. Len(u) > 0
    BY <2>3
  <2>8. Trunk(u, m, 0, ms, ats)
    BY <2>3, <2>4, <2>5, <2>6, <2>7 DEF Trunk
  <2>9. Path(u, m, 0)
    BY <2>2, <2>3, <2>4, <2>8 DEF Path
  <2>10. Rooted(u)
    BY <2>3, <2>7 DEF Rooted
  <2>11. 0 < Len(m.bytes)
    BY <1>1, MessageNotEmpty
  <2> QED BY <1>1, <2>1, <2>9, <2>10, <2>11
<1>2. CASE Path(t, m, at)
  <2>1. PICK ms, ats : Trunk(t, m, at, ms, ats) /\ Read(ms[Len(t)], ats[Len(t)], t[Len(t)])
    BY <1>2 DEF Path
  <2>2. Rooted(t)
    BY <2>1 DEF Trunk, Rooted
  <2>3. Entered(t) = t
    BY <2>1, <2>2, EnteredSame
  <2>4. m \in Messages /\ at \in Nat /\ at < Len(m.bytes)
    BY <2>1, NextByte
  <2> QED BY <1>2, <2>2, <2>3, <2>4
<1> QED BY <1>1, <1>2 DEF Begun

LEMMA StartSane ==
  ASSUME NEW t, Rooted(Entered(t))
  PROVE  LET p == ParseStart(t)
         IN /\ Sane(p) /\ p.tree = Entered(t) /\ p.ret = "retry" /\ p.used = 0 /\ ~p.swallowed
<1> DEFINE u == Entered(t)
<1> DEFINE p == [tree |-> u, ret |-> "retry", used |-> 0, swallowed |-> FALSE]
<1>1. ParseStart(t) = p
  BY DEF ParseStart
<1> HIDE DEF u
<1>2. p.tree = u /\ p.ret = "retry" /\ p.used = 0 /\ p.swallowed = FALSE
  OBVIOUS
<1>3. Fields(p)
  BY DEF Fields
<1> HIDE DEF p
<1> QED BY <1>1, <1>2, <1>3 DEF Sane, u

LEMMA ChunkSteps ==
  ASSUME NEW t, NEW chunk \in Seq(Byte)
  PROVE  LET F(k) == P!Fold(ParseStart(t), SubSeq(chunk, 1, k))
         IN /\ F(0) = ParseStart(t) /\ F(Len(chunk)) = ParseChunk(t, chunk)
            /\ \A k \in 0..(Len(chunk) - 1) : F(k + 1) = ParseByte(F(k), chunk[k + 1])
<1> DEFINE b == ParseStart(t)
<1> DEFINE F(k) == P!Fold(b, SubSeq(chunk, 1, k))
<1> HIDE DEF b
<1>1. \A s : P!Fold(b, s) = FoldLeft(ParseByte, b, s)
  BY DEF P!Fold, P!FoldLeft, P!MapThenFoldSet, FoldLeft, MapThenFoldSet, P!Max, Max
<1>2. SubSeq(chunk, 1, 0) = <<>> /\ SubSeq(chunk, 1, Len(chunk)) = chunk
  OBVIOUS
<1>3. F(0) = b /\ F(Len(chunk)) = FoldLeft(ParseByte, b, chunk)
  BY <1>1, <1>2, P!FoldOfEmpty
<1>4. ParseChunk(t, chunk) = FoldLeft(ParseByte, b, chunk)
  BY DEF ParseChunk, b
<1>5. \A k \in 0..(Len(chunk) - 1) : F(k + 1) = ParseByte(F(k), chunk[k + 1])
  BY P!FoldOfPrefix
<1> QED BY <1>3, <1>4, <1>5 DEF b

(* A read goes on with message m after its byte at; parsed, it             *)
(* leaves p.                                                                *)
GoesOn(m, at, chunk) == \A j \in 1..Len(chunk) : at + j <= Len(m.bytes) => chunk[j] = m.bytes[at + j]
ReadOn(p, m, at, len) ==
  \/ p.swallowed
  \/ Stops(p.ret)
  \/ p.ret = "retry" /\ (Path(p.tree, m, at + len) \/ Stuck(p.tree))
  \/ p.ret = "ok" /\ Whole(p.tree, m) /\ p.used = Len(m.bytes) - at /\ p.used \in 1..len

(* A read of more of a message, or of its end and what follows it: the      *)
(* parser goes on to the place in the message that the bytes reach, or has  *)
(* exactly its bytes and its reply (parse_string ... parse, data_cb); it    *)
(* fails only if not all messages follow the protocol, it runs over the end *)
(* of its buffer only if one of them has a line of SIZE_TMP_BUFF bytes, and *)
(* only a nil array (which chk_client.c does not end) is left for another   *)
(* message.                                                                 *)
THEOREM ChunkRead ==
  ASSUME NEW t, NEW m, NEW at, Begun(t, m, at), ~SignLost(t), NEW chunk \in Seq(Byte),
         GoesOn(m, at, chunk)
  PROVE  ReadOn(ParseChunk(t, chunk), m, at, Len(chunk))
<1> DEFINE F(k) == P!Fold(ParseStart(t), SubSeq(chunk, 1, k))
<1> DEFINE n == Len(chunk)
<1> DEFINE Good(k, q) ==
      /\ Sane(q)
      /\ \/ q.swallowed
         \/ Stops(q.ret)
         \/ q.ret = "retry" /\ q.used = k /\ (Path(q.tree, m, at + k) \/ Stuck(q.tree))
         \/ q.ret = "ok" /\ Whole(q.tree, m) /\ q.used = Len(m.bytes) - at /\ q.used \in 1..k
<1>1. /\ F(0) = ParseStart(t) /\ F(n) = ParseChunk(t, chunk)
      /\ \A k \in 0..(n - 1) : F(k + 1) = ParseByte(F(k), chunk[k + 1])
  BY ChunkSteps
<1>2. /\ Path(Entered(t), m, at) /\ Rooted(Entered(t)) /\ at \in Nat /\ m \in Messages
      /\ at < Len(m.bytes) /\ Len(m.bytes) \in Nat /\ n \in Nat
  BY StartPath, MessageBytes
<1> HIDE DEF F
<1>3. Good(0, F(0))
  <2>1. /\ Sane(F(0)) /\ F(0).tree = Entered(t) /\ F(0).ret = "retry" /\ F(0).used = 0
    BY <1>1, <1>2, StartSane
  <2>2. at + 0 = at
    BY <1>2
  <2> QED BY <1>2, <2>1, <2>2
<1>4. ASSUME NEW k \in 0..(n - 1), Good(k, F(k)) PROVE Good(k + 1, F(k + 1))
  <2> DEFINE q == F(k)
  <2> DEFINE c == chunk[k + 1]
  <2> DEFINE u == ParseByte(q, c)
  <2>1. F(k + 1) = u
    BY <1>1
  <2>2. Sane(q)
    BY <1>4
  <2>3. k \in Nat /\ k + 1 \in 1..n
    BY <1>2
  <2> HIDE DEF q, c
  <2>4. /\ Sane(u)
        /\ q.swallowed => u.swallowed
        /\ q.ret = "retry" => /\ u.used = q.used + 1
                              /\ u.swallowed <=> q.swallowed \/ Swallows(Last(q.tree))
    BY <2>2, ParseByteSane
  <2>5. q.ret # "retry" => u = q
    BY ParseByteIs
  <2> HIDE DEF u
  <2>6. CASE q.swallowed
    BY <2>1, <2>4, <2>6
  <2>7. CASE Stops(q.ret)
    <3>1. q.ret # "retry"
      BY <2>7 DEF Stops
    <3> QED BY <2>1, <2>4, <2>5, <2>7, <3>1
  <2>8. CASE q.ret = "ok" /\ Whole(q.tree, m) /\ q.used = Len(m.bytes) - at /\ q.used \in 1..k
    <3>1. q.used \in 1..(k + 1)
      BY <2>3, <2>8
    <3>2. u = q
      BY <2>5, <2>8
    <3> QED BY <2>1, <2>2, <2>8, <3>1, <3>2
  <2>9. CASE q.ret = "retry" /\ Stuck(q.tree)
    <3>1. Swallows(Last(q.tree))
      <4>1. Last(q.tree) = NilArrayNode
        BY <2>9 DEF Stuck
      <4>2. NilArrayNode.type = Star /\ NilArrayNode.want = 1 /\ NilArrayNode.nil = Yes
        BY DEF NilArrayNode, Node
      <4> QED BY <4>1, <4>2 DEF Swallows, WantsElement, Yes
    <3>2. u.swallowed
      BY <2>4, <2>9, <3>1
    <3> QED BY <2>1, <2>4, <3>2
  <2>10. CASE q.ret = "retry" /\ q.used = k /\ Path(q.tree, m, at + k)
    <3> DEFINE a == at + k
    <3>1. a \in Nat /\ a + 1 = at + (k + 1)
      BY <1>2, <2>3
    <3>2. Path(q.tree, m, a) /\ q.ret = "retry"
      BY <2>10
    <3> HIDE DEF a
    <3> DEFINE v == ParseByte(q, m.bytes[a + 1])
    <3>3. /\ a < Len(m.bytes)
          /\ \/ Stops(v.ret)
             \/ v.ret = "retry" /\ (Path(v.tree, m, a + 1) \/ Stuck(v.tree))
             \/ v.ret = "ok" /\ a + 1 = Len(m.bytes) /\ Whole(v.tree, m)
      BY <2>2, <3>2, ByteStep
    <3>4. c = m.bytes[a + 1]
      <4>1. at + (k + 1) <= Len(m.bytes)
        BY <1>2, <3>1, <3>3
      <4>2. chunk[k + 1] = m.bytes[at + (k + 1)]
        BY <2>3, <4>1 DEF GoesOn
      <4> QED BY <3>1, <4>2 DEF c
    <3>5. v = u
      BY <3>4 DEF u
    <3> HIDE DEF v
    <3>6. u.used = k + 1
      BY <2>4, <2>10
    <3>7. a + 1 = Len(m.bytes) => u.used = Len(m.bytes) - at /\ u.used \in 1..(k + 1)
      BY <1>2, <2>3, <3>1, <3>6
    <3> QED BY <2>1, <2>4, <3>1, <3>3, <3>5, <3>6, <3>7
  <2> QED BY <1>4, <2>6, <2>7, <2>8, <2>9, <2>10 DEF q
<1> DEFINE N == {k \in Nat : k <= n => Good(k, F(k))}
<1> HIDE DEF Good, n
<1>5. N \in SUBSET Nat
  OBVIOUS
<1>6. 0 \in N
  BY <1>3
<1>7. ASSUME NEW k \in N PROVE k + 1 \in N
  <2>1. CASE k + 1 <= n
    <3>1. k \in 0..(n - 1) /\ Good(k, F(k))
      BY <1>2, <2>1
    <3> QED BY <1>4, <3>1
  <2>2. CASE ~(k + 1 <= n)
    BY <2>2
  <2> QED BY <2>1, <2>2
<1>8. N = Nat
  <2> HIDE DEF N
  <2> QED BY <1>5, <1>6, <1>7, V!NatSetInduction
<1>9. Good(n, F(n))
  BY <1>2, <1>8
<1> QED BY <1>1, <1>9 DEF Good, n, ReadOn

(* A read after the line of a nil array: the next byte belongs to another   *)
(* reply, and the array takes it for its element (parse_mbreply).           *)
THEOREM StuckRead ==
  ASSUME NEW t, Stuck(t), ~SignLost(t), NEW chunk \in Seq(Byte), chunk # <<>>
  PROVE  ParseChunk(t, chunk).swallowed
<1> DEFINE F(k) == P!Fold(ParseStart(t), SubSeq(chunk, 1, k))
<1> DEFINE n == Len(chunk)
<1> DEFINE Good(q) == Sane(q) /\ q.swallowed
<1>1. /\ F(0) = ParseStart(t) /\ F(n) = ParseChunk(t, chunk)
      /\ \A k \in 0..(n - 1) : F(k + 1) = ParseByte(F(k), chunk[k + 1])
  BY ChunkSteps
<1>2. n \in Nat /\ n > 0
  OBVIOUS
<1> HIDE DEF F, n
<1>3. Entered(t) = t
  <2>1. Rooted(t) /\ Last(t) = NilArrayNode
    BY DEF Stuck
  <2>2. PICK S : t \in Seq(S)
    BY <2>1 DEF Rooted
  <2>3. Len(t) > 0
    BY <2>1 DEF Rooted
  <2>4. t[Len(t)] = NilArrayNode
    BY <2>1, <2>2, <2>3, FrontOf
  <2> QED BY <2>1, <2>4, EnteredSame
<1>4. Sane(F(0)) /\ F(0).tree = t /\ F(0).ret = "retry"
  <2>1. Rooted(Entered(t))
    BY <1>3 DEF Stuck
  <2> QED BY <1>1, <1>3, <2>1, StartSane
<1>5. Swallows(Last(t))
  <2>1. NilArrayNode.type = Star /\ NilArrayNode.want = 1 /\ NilArrayNode.nil = Yes
    BY DEF NilArrayNode, Node
  <2> QED BY <2>1 DEF Stuck, Swallows, WantsElement, Yes
<1>6. Good(F(1))
  <2>1. F(0 + 1) = ParseByte(F(0), chunk[0 + 1])
    BY <1>1, <1>2
  <2>2. Sane(ParseByte(F(0), chunk[0 + 1])) /\ ParseByte(F(0), chunk[0 + 1]).swallowed
    BY <1>4, <1>5, ParseByteSane
  <2> QED BY <2>1, <2>2
<1>7. \A q, c : Good(q) => Good(ParseByte(q, c))
  BY ParseByteSane
<1> HIDE DEF Good
<1> DEFINE N == {k \in Nat : k + 1 <= n => Good(F(k + 1))}
<1>8. N \in SUBSET Nat
  OBVIOUS
<1>9. 0 \in N
  BY <1>6
<1>10. ASSUME NEW k \in N PROVE k + 1 \in N
  <2>1. CASE (k + 1) + 1 <= n
    <3>1. k + 1 \in 0..(n - 1) /\ Good(F(k + 1))
      BY <1>2, <2>1
    <3>2. F((k + 1) + 1) = ParseByte(F(k + 1), chunk[(k + 1) + 1])
      BY <1>1, <3>1
    <3> QED BY <1>7, <3>1, <3>2
  <2>2. CASE ~((k + 1) + 1 <= n)
    BY <2>2
  <2> QED BY <2>1, <2>2
<1>11. N = Nat
  <2> HIDE DEF N
  <2> QED BY <1>8, <1>9, <1>10, V!NatSetInduction
<1>12. Good(F(n))
  <2>1. n - 1 \in Nat /\ (n - 1) + 1 = n /\ (n - 1) + 1 <= n
    BY <1>2
  <2>2. Good(F((n - 1) + 1))
    BY <1>11, <2>1
  <2> QED BY <2>1, <2>2
<1> QED BY <1>1, <1>12 DEF Good
-----------------------------------------------------------------------------
(* Several messages, one behind the other, as a client reads them. *)

LEMMA BytesAssociate ==
  ASSUME NEW s \in Seq(Byte), NEW t \in Seq(Byte), NEW u \in Seq(Byte)
  PROVE  (s \o t) \o u = s \o (t \o u)
BY ConcatAssociative

LEMMA BodyOfTail ==
  ASSUME NEW parts \in Seq(Messages), parts # <<>>
  PROVE  Body(parts) = parts[1].bytes \o Body(Tail(parts))
<1> DEFINE n == Len(parts)
<1> DEFINE rest == Tail(parts)
<1> DEFINE b == parts[1].bytes
<1> DEFINE P1(k) == Body(SubSeq(parts, 1, k))
<1> DEFINE R1(k) == Body(SubSeq(rest, 1, k))
<1>1. /\ n \in Nat /\ n > 0 /\ rest \in Seq(Messages) /\ Len(rest) = n - 1
      /\ \A k \in 1..(n - 1) : rest[k] = parts[k + 1]
      /\ \A k \in 1..n : parts[k] \in Messages
  OBVIOUS
<1>2. /\ P1(0) = <<>> /\ P1(n) = Body(parts)
      /\ \A k \in 1..n : P1(k) = P1(k - 1) \o parts[k].bytes
  BY BodyOfPrefix
<1>3. /\ R1(0) = <<>> /\ R1(n - 1) = Body(rest)
      /\ \A k \in 1..(n - 1) : R1(k) = R1(k - 1) \o rest[k].bytes
  BY <1>1, BodyOfPrefix
<1>4. \A k \in 0..(n - 1) : R1(k) \in Seq(Byte)
  BY <1>1, BodyTypes
<1>5. \A k \in 1..n : parts[k].bytes \in Seq(Byte)
  BY <1>1, MessageBytes
<1>6. b \in Seq(Byte)
  BY <1>1, <1>5
<1> HIDE DEF P1, R1, b, n, rest
<1> DEFINE N == {k \in Nat : k <= n - 1 => P1(k + 1) = b \o R1(k)}
<1>7. N \in SUBSET Nat
  OBVIOUS
<1>8. 0 \in N
  <2>1. P1(1) = P1(0) \o parts[1].bytes
    <3>1. 1 \in 1..n /\ 1 - 1 = 0
      BY <1>1
    <3> QED BY <1>2, <3>1
  <2>2. P1(1) = b
    BY <1>2, <1>6, <2>1, ConcatEmptySeq DEF b
  <2>3. b \o R1(0) = b
    BY <1>3, <1>6, ConcatEmptySeq
  <2> QED BY <2>2, <2>3
<1>9. ASSUME NEW k \in N PROVE k + 1 \in N
  <2> SUFFICES ASSUME k + 1 <= n - 1 PROVE P1(k + 2) = b \o R1(k + 1)
    BY <1>9
  <2>1. k \in Nat /\ k <= n - 1 /\ k + 1 \in 1..(n - 1) /\ k + 2 \in 1..n /\ k \in 0..(n - 1)
    BY <1>1
  <2>2. P1(k + 1) = b \o R1(k)
    BY <1>9, <2>1
  <2>3. P1(k + 2) = P1(k + 1) \o parts[k + 2].bytes
    <3>1. (k + 2) - 1 = k + 1
      BY <2>1
    <3> QED BY <1>2, <2>1, <3>1
  <2>4. R1(k + 1) = R1(k) \o rest[k + 1].bytes
    <3>1. (k + 1) - 1 = k
      BY <2>1
    <3> QED BY <1>3, <2>1, <3>1
  <2>5. rest[k + 1] = parts[k + 2]
    <3>1. (k + 1) + 1 = k + 2
      BY <2>1
    <3> QED BY <1>1, <2>1, <3>1
  <2>6. R1(k) \in Seq(Byte) /\ parts[k + 2].bytes \in Seq(Byte)
    BY <1>4, <1>5, <2>1
  <2>7. (b \o R1(k)) \o parts[k + 2].bytes = b \o (R1(k) \o parts[k + 2].bytes)
    BY ONLY <1>6, <2>6, BytesAssociate
  <2> QED BY <2>2, <2>3, <2>4, <2>5, <2>7
<1>10. N = Nat
  <2> HIDE DEF N
  <2> QED BY <1>7, <1>8, <1>9, V!NatSetInduction
<1>11. n - 1 \in Nat
  BY <1>1
<1>12. P1((n - 1) + 1) = b \o R1(n - 1)
  BY <1>10, <1>11
<1>13. (n - 1) + 1 = n
  BY <1>1
<1> QED BY <1>2, <1>3, <1>12, <1>13 DEF b, rest

LEMMA BodyOfAll ==
  ASSUME NEW parts \in Seq(Messages)
  PROVE  Body(parts) \in Seq(Byte)
<1>1. Len(parts) \in 0..Len(parts)
  OBVIOUS
<1> QED BY <1>1, BodyTypes, BodyOfPrefix

LEMMA BodyOfAppend ==
  ASSUME NEW parts \in Seq(Messages), NEW m \in Messages
  PROVE  Body(Append(parts, m)) = Body(parts) \o m.bytes
<1>1. \A s : B!Fold(<<>>, s) = Body(s)
  BY DEF Body, B!Fold, B!FoldLeft, B!MapThenFoldSet, FoldLeft, MapThenFoldSet, B!Max, Max
<1>2. B!Fold(<<>>, Append(parts, m)) = Joined(B!Fold(<<>>, parts), m)
  BY B!FoldOfAppend
<1> QED BY <1>1, <1>2 DEF Joined

LEMMA BodyOfNone == Body(<<>>) = <<>>
<1>1. <<>> \in Seq(Messages) /\ Len(<<>>) = 0 /\ SubSeq(<<>>, 1, 0) = <<>>
  OBVIOUS
<1> QED BY <1>1, BodyOfPrefix

(* The bytes a client has still to read are the rest of the messages it was *)
(* sent, behind what its tree has of the first.                             *)
Behind(parts, at, bytes) ==
  Len(bytes) = Len(Body(parts)) - at /\ \A j \in 1..Len(bytes) : bytes[j] = Body(parts)[at + j]
At1(parts, t, at) == IF parts = <<>> THEN t = <<>> /\ at = 0 ELSE Begun(t, parts[1], at)
Carried(parts, t, bytes) ==
  /\ parts \in Seq(Messages)
  /\ Stuck(t) \/ \E at \in Nat : Behind(parts, at, bytes) /\ At1(parts, t, at)

LEMMA NothingCarried == Carried(<<>>, <<>>, <<>>)
<1>1. Behind(<<>>, 0, <<>>)
  BY BodyOfNone DEF Behind
<1> QED BY <1>1 DEF Carried, At1

LEMMA CarriedMore ==
  ASSUME NEW parts, NEW t, NEW bytes \in Seq(Byte), Carried(parts, t, bytes), NEW m \in Messages
  PROVE  Carried(Append(parts, m), t, bytes \o m.bytes)
<1>1. parts \in Seq(Messages) /\ Append(parts, m) \in Seq(Messages)
  BY DEF Carried
<1>2. CASE Stuck(t)
  BY <1>1, <1>2 DEF Carried
<1>3. CASE ~Stuck(t)
  <2>1. PICK at \in Nat : Behind(parts, at, bytes) /\ At1(parts, t, at)
    BY <1>3 DEF Carried
  <2>2. At1(Append(parts, m), t, at)
    <3>1. CASE parts = <<>>
      <4>1. Append(parts, m) # <<>> /\ Append(parts, m)[1] = m
        BY <3>1
      <4> QED BY <2>1, <3>1, <4>1 DEF At1, Begun
    <3>2. CASE parts # <<>>
      <4>1. Append(parts, m) # <<>> /\ Append(parts, m)[1] = parts[1]
        BY <1>1, <3>2
      <4> QED BY <2>1, <3>2, <4>1 DEF At1
    <3> QED BY <3>1, <3>2
  <2>3. Behind(Append(parts, m), at, bytes \o m.bytes)
    <3> DEFINE a == Body(parts)
    <3> DEFINE c == m.bytes
    <3> DEFINE la == Len(a)
    <3> DEFINE lb == Len(bytes)
    <3> DEFINE lc == Len(c)
    <3>1. a \in Seq(Byte) /\ c \in Seq(Byte)
      BY <1>1, BodyOfAll, MessageBytes
    <3>2. /\ Len(a \o c) = la + lc /\ la \in Nat /\ lc \in Nat
          /\ \A i \in 1..la : (a \o c)[i] = a[i]
          /\ \A i \in 1..lc : (a \o c)[la + i] = c[i]
      BY <3>1, BytesOfTwo
    <3>3. /\ Len(bytes \o c) = lb + lc /\ lb \in Nat
          /\ \A i \in 1..lb : (bytes \o c)[i] = bytes[i]
          /\ \A i \in 1..lc : (bytes \o c)[lb + i] = c[i]
      BY <3>1, BytesOfTwo
    <3>4. lb = la - at /\ \A j \in 1..lb : bytes[j] = a[at + j]
      BY <2>1 DEF Behind
    <3>5. Body(Append(parts, m)) = a \o c
      BY <1>1, BodyOfAppend
    <3> HIDE DEF a, c, la, lb, lc
    <3>6. lb + lc = (la + lc) - at
      BY <2>1, <3>2, <3>3, <3>4
    <3>7. ASSUME NEW j \in 1..(lb + lc) PROVE (bytes \o c)[j] = (a \o c)[at + j]
      <4>1. CASE j <= lb
        <5>1. j \in 1..lb /\ at + j \in 1..la
          BY <2>1, <3>2, <3>3, <3>4, <4>1
        <5> QED BY <3>2, <3>3, <3>4, <5>1
      <4>2. CASE ~(j <= lb)
        <5> DEFINE i == j - lb
        <5>1. i \in 1..lc /\ j = lb + i /\ at + j = la + i
          BY <2>1, <3>2, <3>3, <3>4, <4>2
        <5> HIDE DEF i
        <5> QED BY <3>2, <3>3, <5>1
      <4> QED BY <4>1, <4>2
    <3>8. Len(bytes \o c) = Len(a \o c) - at
      BY <3>2, <3>3, <3>6
    <3>9. \A j \in 1..Len(bytes \o c) : (bytes \o c)[j] = (a \o c)[at + j]
      BY <3>3, <3>7
    <3> QED BY <3>5, <3>8, <3>9 DEF Behind, c
  <2> QED BY <1>1, <2>2, <2>3 DEF Carried
<1> QED BY <1>2, <1>3
-----------------------------------------------------------------------------
(* The bytes of a read and of what is left, as one sequence. *)
LEMMA RestOfRead ==
  ASSUME NEW chunk \in Seq(Byte), NEW following \in Seq(Byte), NEW used \in 0..Len(chunk)
  PROVE  LET rest == SubSeq(chunk, used + 1, Len(chunk))
         IN /\ rest \in Seq(Byte) /\ Len(rest \o following) = Len(chunk \o following) - used
            /\ \A j \in 1..Len(rest \o following) : (rest \o following)[j] = (chunk \o following)[used + j]
<1> DEFINE rest == SubSeq(chunk, used + 1, Len(chunk))
<1> DEFINE ld == Len(chunk)
<1> DEFINE ls == Len(following)
<1> DEFINE lr == Len(rest)
<1>1. ld \in Nat
  OBVIOUS
<1>2. rest \in Seq(Byte) /\ lr = ld - used /\ \A j \in 1..(ld - used) : rest[j] = chunk[used + j]
  <2>1. \A j \in (used + 1)..Len(chunk) : chunk[j] \in Byte
    BY <1>1
  <2> QED BY <1>1, <2>1
<1>3. /\ Len(chunk \o following) = ld + ls /\ ls \in Nat
      /\ \A i \in 1..ld : (chunk \o following)[i] = chunk[i]
      /\ \A i \in 1..ls : (chunk \o following)[ld + i] = following[i]
  BY BytesOfTwo
<1> HIDE DEF rest
<1>4. /\ Len(rest \o following) = lr + ls
      /\ \A i \in 1..lr : (rest \o following)[i] = rest[i]
      /\ \A i \in 1..ls : (rest \o following)[lr + i] = following[i]
  <2>1. rest \in Seq(Byte) /\ following \in Seq(Byte)
    BY <1>2
  <2> QED BY ONLY <2>1, BytesOfTwo DEF lr, ls
<1>5. used \in 0..ld
  OBVIOUS
<1> HIDE DEF ld, ls, lr
<1>6. Len(rest \o following) = Len(chunk \o following) - used
  BY <1>1, <1>2, <1>3, <1>4, <1>5
<1>7. ASSUME NEW j \in 1..(lr + ls) PROVE (rest \o following)[j] = (chunk \o following)[used + j]
  <2>1. CASE j <= lr
    <3>1. j \in 1..lr /\ j \in 1..(ld - used) /\ used + j \in 1..ld
      BY <1>1, <1>2, <1>5, <2>1
    <3> QED BY <1>2, <1>3, <1>4, <3>1
  <2>2. CASE ~(j <= lr)
    <3> DEFINE i == j - lr
    <3>1. i \in 1..ls /\ j = lr + i /\ used + j = ld + i
      BY <1>1, <1>2, <1>3, <1>5, <2>2
    <3> HIDE DEF i
    <3> QED BY <1>3, <1>4, <3>1
  <2> QED BY <2>1, <2>2
<1>8. \A j \in 1..Len(rest \o following) : (rest \o following)[j] = (chunk \o following)[used + j]
  BY <1>4, <1>7
<1> QED BY <1>2, <1>6, <1>8 DEF rest

(* What a client has to read, after a chunk of it was parsed. *)
CarriedOn(parts, p, chunk, following) ==
  \/ p.ret \in {"err", "overrun"}
  \/ p.ret = "retry" /\ Carried(parts, p.tree, following)
  \/ /\ p.ret = "ok" /\ parts # <<>> /\ redisReply(Last(p.tree)) = parts[1].reply
     /\ p.used \in 1..Len(chunk)
     /\ Carried(Tail(parts), <<>>, SubSeq(chunk, p.used + 1, Len(chunk)) \o following)

LEMMA CarriedParsed ==
  ASSUME NEW parts, NEW t, NEW chunk \in Seq(Byte), NEW following \in Seq(Byte),
         Carried(parts, t, chunk \o following), chunk # <<>>, ~SignLost(t),
         NEW p, p = ParseChunk(t, chunk), ~p.swallowed
  PROVE  CarriedOn(parts, p, chunk, following)
<1> DEFINE m == parts[1]
<1> DEFINE a == m.bytes
<1> DEFINE b == Body(Tail(parts))
<1> DEFINE w == chunk \o following
<1> DEFINE ld == Len(chunk)
<1>1. ~Stuck(t)
  BY StuckRead
<1>2. PICK at \in Nat : Behind(parts, at, w) /\ At1(parts, t, at)
  BY <1>1 DEF Carried
<1>3. /\ Len(w) = ld + Len(following) /\ ld \in Nat /\ Len(following) \in Nat
      /\ \A i \in 1..ld : w[i] = chunk[i]
      /\ \A i \in 1..Len(following) : w[ld + i] = following[i]
  BY BytesOfTwo
<1>4. ld > 0
  OBVIOUS
<1>5. parts # <<>>
  <2> SUFFICES ASSUME parts = <<>> PROVE FALSE
    OBVIOUS
  <2>1. at = 0 /\ Len(Body(parts)) = 0
    BY <1>2, BodyOfNone DEF At1
  <2>2. Len(w) = Len(Body(parts)) - at
    BY <1>2 DEF Behind
  <2>3. Len(w) = 0 - 0
    BY <2>1, <2>2
  <2> HIDE DEF w, ld
  <2> QED BY <1>3, <1>4, <2>3
<1>6. Begun(t, m, at)
  BY <1>2, <1>5 DEF At1
<1>7. parts \in Seq(Messages)
  BY DEF Carried
<1>8. m \in Messages /\ Tail(parts) \in Seq(Messages)
  BY <1>5, <1>7
<1>9. a \in Seq(Byte) /\ b \in Seq(Byte)
  BY <1>8, MessageBytes, BodyOfAll
<1>10. Body(parts) = a \o b
  BY <1>5, <1>7, BodyOfTail
<1>11. /\ Len(a \o b) = Len(a) + Len(b) /\ Len(a) \in Nat /\ Len(b) \in Nat
       /\ \A i \in 1..Len(a) : (a \o b)[i] = a[i]
       /\ \A i \in 1..Len(b) : (a \o b)[Len(a) + i] = b[i]
  BY <1>9, BytesOfTwo
<1>12. Len(w) = Len(a \o b) - at /\ \A j \in 1..Len(w) : w[j] = (a \o b)[at + j]
  BY <1>2, <1>10 DEF Behind
<1> DEFINE la == Len(a)
<1> DEFINE lb == Len(b)
<1> DEFINE ls == Len(following)
<1>13. \A j \in 1..Len(chunk) : at + j <= Len(m.bytes) => chunk[j] = m.bytes[at + j]
  <2> SUFFICES ASSUME NEW j \in 1..ld, at + j <= la PROVE chunk[j] = a[at + j]
    OBVIOUS
  <2> HIDE DEF w, ld, la, lb, ls, a, b
  <2>1. j \in 1..Len(w) /\ at + j \in 1..la
    <3>1. j \in 1..(ld + ls)
      BY <1>3 DEF ls
    <3>2. at + j \in 1..la
      BY <1>2, <1>11 DEF la
    <3> QED BY <1>3, <3>1, <3>2 DEF ls
  <2> QED BY <1>3, <1>11, <1>12, <2>1 DEF la
<1>14. \/ p.swallowed
       \/ p.ret \in {"err", "overrun"}
       \/ p.ret = "retry" /\ (Path(p.tree, m, at + Len(chunk)) \/ Stuck(p.tree))
       \/ /\ p.ret = "ok" /\ Whole(p.tree, m)
          /\ p.used = Len(m.bytes) - at /\ p.used \in 1..Len(chunk)
  <2>1. chunk \in Seq(Byte) /\ ~SignLost(t) /\ p = ParseChunk(t, chunk)
    OBVIOUS
  <2>2. ReadOn(ParseChunk(t, chunk), m, at, Len(chunk))
    <3> HIDE DEF m
    <3>1. GoesOn(m, at, chunk)
      BY <1>13 DEF m, GoesOn
    <3> QED BY ONLY <1>6, <2>1, <3>1, ChunkRead
  <2> QED BY <2>1, <2>2 DEF ReadOn, Stops
<1>15. ~p.swallowed
  OBVIOUS
<1>16. CASE p.ret = "retry" /\ Stuck(p.tree)
  BY <1>7, <1>16 DEF CarriedOn, Carried
<1>17. CASE p.ret = "retry" /\ Path(p.tree, m, at + ld)
  <2>1. At1(parts, p.tree, at + ld)
    BY <1>5, <1>17 DEF At1, Begun
  <2>2. Behind(parts, at + ld, following)
    <3>1. Len(following) = Len(a \o b) - (at + ld)
      <4> DEFINE lw == Len(w)
      <4> DEFINE lab == Len(a \o b)
      <4>1. lab = la + lb /\ la \in Nat /\ lb \in Nat
        BY <1>11
      <4>2. lw = ld + ls /\ ld \in Nat /\ ls \in Nat /\ lw = lab - at
        BY <1>3, <1>12
      <4> HIDE DEF w, ld, la, lb, a, b, lw, lab, ls
      <4>3. ls = lab - (at + ld)
        BY <1>2, <4>1, <4>2
      <4> QED BY <4>3 DEF ls, lab
    <3>2. ASSUME NEW j \in 1..Len(following) PROVE following[j] = (a \o b)[(at + ld) + j]
      <4> HIDE DEF w, ld, la, lb, a, b
      <4>1. ld + j \in 1..Len(w)
        BY <1>3
      <4>2. w[ld + j] = (a \o b)[at + (ld + j)]
        BY <1>12, <4>1
      <4>3. at + (ld + j) = (at + ld) + j
        BY <1>2, <1>3
      <4> QED BY <1>3, <4>2, <4>3
    <3> HIDE DEF a, b, ld
    <3> QED BY <1>10, <3>1, <3>2 DEF Behind
  <2>3. at + ld \in Nat
    <3> HIDE DEF ld
    <3> QED BY <1>2, <1>3
  <2> HIDE DEF ld
  <2> QED BY <1>7, <1>17, <2>1, <2>2, <2>3 DEF CarriedOn, Carried
<1>18. CASE p.ret = "ok" /\ Whole(p.tree, m) /\ p.used = la - at /\ p.used \in 1..ld
  <2> DEFINE rest == SubSeq(chunk, p.used + 1, Len(chunk))
  <2> DEFINE v == rest \o following
  <2>1. p.used \in 0..Len(chunk)
    <3> HIDE DEF la
    <3>1. p.used \in 1..ld /\ ld \in Nat
      BY <1>3, <1>18
    <3> HIDE DEF ld
    <3>2. p.used \in 0..ld
      BY <3>1
    <3> QED BY <3>2 DEF ld
  <2>2. /\ Len(v) = Len(w) - p.used
        /\ \A j \in 1..Len(v) : v[j] = w[p.used + j]
    BY <2>1, RestOfRead
  <2>3. At1(Tail(parts), <<>>, 0)
    <3>1. CASE Tail(parts) = <<>>
      BY <3>1 DEF At1
    <3>2. CASE Tail(parts) # <<>>
      <4>1. Tail(parts)[1] \in Messages
        BY <1>8, <3>2
      <4> QED BY <3>2, <4>1 DEF At1, Begun
    <3> QED BY <3>1, <3>2
  <2>4. Behind(Tail(parts), 0, v)
    <3> DEFINE lw == Len(w)
    <3> DEFINE u == p.used
    <3>1. /\ lw = (la + lb) - at /\ la \in Nat /\ lb \in Nat
      BY <1>11, <1>12
    <3>2. u = la - at /\ u \in 1..ld /\ lw = ld + ls /\ ls \in Nat /\ ld \in Nat
      BY <1>3, <1>18
    <3>3. Len(v) = lw - u /\ \A j \in 1..Len(v) : v[j] = w[u + j]
      BY <2>2
    <3>4. \A j \in 1..lw : w[j] = (a \o b)[at + j]
      BY <1>12
    <3>5. \A i \in 1..lb : (a \o b)[la + i] = b[i]
      BY <1>11
    <3> HIDE DEF w, ld, la, lb, ls, lw, a, b, v, u
    <3>6. lw - u = lb
      BY <1>2, <3>1, <3>2
    <3>7. Len(v) = lb - 0
      BY <3>1, <3>3, <3>6
    <3>8. ASSUME NEW j \in 1..Len(v) PROVE v[j] = b[0 + j]
      <4>1. j \in 1..lb
        BY <3>1, <3>7
      <4>2. u + j \in 1..lw /\ at + (u + j) = la + j
        BY <1>2, <3>1, <3>2, <4>1
      <4>3. 0 + j = j
        OBVIOUS
      <4> QED BY <3>3, <3>4, <3>5, <4>1, <4>2, <4>3
    <3> QED BY <3>7, <3>8 DEF Behind, b, lb
  <2>5. Carried(Tail(parts), <<>>, v)
    <3> HIDE DEF v
    <3> QED BY <1>8, <2>3, <2>4 DEF Carried
  <2>6. redisReply(Last(p.tree)) = parts[1].reply
    BY <1>18 DEF Whole
  <2>7. p.used \in 1..Len(chunk)
    BY <1>18
  <2> QED BY <1>5, <1>18, <2>5, <2>6, <2>7 DEF CarriedOn
<1>19. CASE p.ret \in {"err", "overrun"}
  BY <1>19 DEF CarriedOn
<1> QED BY <1>14, <1>15, <1>16, <1>17, <1>18, <1>19

-----------------------------------------------------------------------------
(* The client. *)

Destroying == {"destroy", "lose", "loss", "free"}

(* Requests are made in the order of their numbers. *)
Numbered == \A r, s \in Request : s < r /\ outcome[s] = "none" => outcome[r] = "none"

(* Where the code is tells what it has of the client. *)
Stages ==
  /\ client.life # "open" => waitreplys = <<>> /\ ~client.timer /\ tree = <<>>
  /\ pc \notin {"loop", "connect_cb"} => client.life = "open"
  /\ pc \in Destroying => client.close /\ tree = <<>>
  /\ pc \in {"loss", "free"} => waitreplys = <<>> /\ ~client.timer /\ ~lua.client

Core == ListMatches /\ FreedCleanly /\ Numbered /\ Stages
IInv == TypeOK /\ Core

(* TypeOK in parts. *)
ClientTypes ==
  /\ client \in [life : {"new", "connecting", "open", "freed"}, close : BOOLEAN,
                 incb : BOOLEAN, timer : BOOLEAN, timeout_count : Nat, served : BOOLEAN]
  /\ pc \in Places /\ back \in {"loop", "connect_cb", "gc"}
  /\ lua \in [life : {"none", "held", "gone"}, client : BOOLEAN, onloss : BOOLEAN]
  /\ fault \in {"none", "sent", "sign", "nilarray", "overrun", "unsolicited",
               "userdata"}
ListTypes ==
  /\ waitreplys \in Seq(Request) /\ overdue \in 0..Len(waitreplys)
  /\ outcome \in [Request -> {"none", "waiting", "reply", "timeout", "loss"}]
  /\ wrong \subseteq Request
ServerTypes == asked \in Seq(Request) /\ sent \in [Request -> Messages \cup {NoMessage}]

LEMMA TypeParts ==
  /\ TypeOK <=> ClientTypes /\ ListTypes /\ ServerTypes
  /\ TypeOK' <=> ClientTypes' /\ ListTypes' /\ ServerTypes'
<1>1. TypeOK <=> ClientTypes /\ ListTypes /\ ServerTypes
  BY DEF TypeOK, ClientTypes, ListTypes, ServerTypes
<1>2. TypeOK' <=> ClientTypes' /\ ListTypes' /\ ServerTypes'
  BY DEF TypeOK, ClientTypes, ListTypes, ServerTypes
<1> QED BY <1>1, <1>2

-----------------------------------------------------------------------------
(* The list of requests. *)

Ordered(s) == \A i, j \in 1..Len(s) : i < j => s[i] < s[j]

LEMMA TailKeeps ==
  ASSUME NEW s \in Seq(Request), s # <<>>, Ordered(s)
  PROVE  /\ Head(s) \in Request /\ Tail(s) \in Seq(Request) /\ Ordered(Tail(s))
         /\ Len(Tail(s)) = Len(s) - 1 /\ Len(s) > 0
         /\ ToSet(Tail(s)) = ToSet(s) \ {Head(s)} /\ Head(s) \in ToSet(s)
<1>1. /\ Head(s) = s[1] /\ Len(s) \in Nat /\ Len(s) > 0 /\ Tail(s) \in Seq(Request)
      /\ Len(Tail(s)) = Len(s) - 1 /\ \A i \in 1..Len(Tail(s)) : Tail(s)[i] = s[i + 1]
      /\ DOMAIN s = 1..Len(s) /\ DOMAIN Tail(s) = 1..Len(Tail(s))
  OBVIOUS
<1>2. \A i \in 1..Len(s) : s[i] \in Request /\ s[i] \in Int
  BY RequestsAssumption DEF Request, RequestsAssumption
<1>3. Ordered(Tail(s))
  BY <1>1 DEF Ordered
<1>4. ToSet(Tail(s)) = ToSet(s) \ {Head(s)}
  <2>1. ASSUME NEW x \in ToSet(Tail(s)) PROVE x \in ToSet(s) \ {Head(s)}
    <3>1. PICK i \in 1..Len(Tail(s)) : x = s[i + 1]
      BY <1>1, <2>1 DEF ToSet
    <3>2. s[1] < s[i + 1] /\ i + 1 \in 1..Len(s) /\ 1 \in 1..Len(s)
      BY <1>1 DEF Ordered
    <3> QED BY <1>1, <1>2, <3>1, <3>2 DEF ToSet
  <2>2. ASSUME NEW x \in ToSet(s) \ {Head(s)} PROVE x \in ToSet(Tail(s))
    <3>1. PICK i \in 1..Len(s) : x = s[i]
      BY <1>1, <2>2 DEF ToSet
    <3>2. i # 1 /\ i - 1 \in 1..Len(Tail(s)) /\ Tail(s)[i - 1] = s[i]
      BY <1>1, <2>2, <3>1
    <3> QED BY <1>1, <3>1, <3>2 DEF ToSet
  <2> QED BY <2>1, <2>2
<1>5. Head(s) \in ToSet(s) /\ Head(s) \in Request
  BY <1>1, <1>2 DEF ToSet
<1> QED BY <1>1, <1>3, <1>4, <1>5

LEMMA AppendKeeps ==
  ASSUME NEW s \in Seq(Request), NEW r \in Request, Ordered(s), \A x \in ToSet(s) : x < r
  PROVE  /\ Append(s, r) \in Seq(Request) /\ Ordered(Append(s, r))
         /\ ToSet(Append(s, r)) = ToSet(s) \cup {r} /\ Len(Append(s, r)) = Len(s) + 1
<1>1. /\ Len(s) \in Nat /\ Append(s, r) \in Seq(Request) /\ Len(Append(s, r)) = Len(s) + 1
      /\ \A i \in 1..Len(s) : Append(s, r)[i] = s[i]
      /\ Append(s, r)[Len(s) + 1] = r
      /\ DOMAIN s = 1..Len(s) /\ DOMAIN Append(s, r) = 1..(Len(s) + 1)
  OBVIOUS
<1>2. Ordered(Append(s, r))
  <2> SUFFICES ASSUME NEW i \in 1..(Len(s) + 1), NEW j \in 1..(Len(s) + 1), i < j
               PROVE  Append(s, r)[i] < Append(s, r)[j]
    BY <1>1 DEF Ordered
  <2>1. CASE j = Len(s) + 1
    <3>1. i \in 1..Len(s)
      BY <1>1, <2>1
    <3> QED BY <1>1, <2>1, <3>1 DEF ToSet
  <2>2. CASE j # Len(s) + 1
    BY <1>1, <2>2 DEF Ordered
  <2> QED BY <2>1, <2>2
<1>3. ToSet(Append(s, r)) = ToSet(s) \cup {r}
  BY <1>1 DEF ToSet
<1> QED BY <1>1, <1>2, <1>3

(* What a step does to the requests: nothing, one is made, one is answered. *)
Made(r) ==
  /\ r \in Request /\ New(r) /\ waitreplys' = Append(waitreplys, r) /\ Answered(r, "waiting")
  /\ overdue' = overdue /\ wrong' = wrong
Gone(how) ==
  /\ how \in {"reply", "timeout", "loss"} /\ waitreplys # <<>> /\ Popped(how)
  /\ wrong' \subseteq wrong \cup {Head(waitreplys)}
Requests == ListTypes /\ ListMatches /\ Numbered

LEMMA RequestsUnchanged ==
  ASSUME Requests, UNCHANGED <<waitreplys, overdue, outcome, wrong>>
  PROVE  Requests'
BY DEF Requests, ListTypes, ListMatches, Numbered

LEMMA RequestMade ==
  ASSUME Requests, NEW r, Made(r)
  PROVE  Requests'
<1>1. /\ waitreplys \in Seq(Request) /\ Ordered(waitreplys) /\ overdue \in 0..Len(waitreplys)
      /\ outcome \in [Request -> {"none", "waiting", "reply", "timeout", "loss"}]
      /\ wrong \subseteq Request
      /\ \A s \in Request : outcome[s] = "waiting" <=> s \in ToSet(waitreplys)
      /\ \A s, t \in Request : s < t /\ outcome[s] = "none" => outcome[t] = "none"
  BY DEF Requests, ListTypes, ListMatches, Numbered, Ordered
<1>2. /\ r \in Request /\ outcome[r] = "none" /\ \A s \in Request : s < r => outcome[s] # "none"
      /\ waitreplys' = Append(waitreplys, r) /\ outcome' = [outcome EXCEPT ![r] = "waiting"]
      /\ overdue' = overdue /\ wrong' = wrong
  BY DEF Made, New, Answered
<1>3. \A s \in Request : s \in Int
  BY RequestsAssumption DEF Request, RequestsAssumption
<1>4. ToSet(waitreplys) \subseteq Request
  BY <1>1 DEF ToSet
<1>5. \A x \in ToSet(waitreplys) : x < r
  BY <1>1, <1>2, <1>3, <1>4
<1>6. /\ waitreplys' \in Seq(Request) /\ Ordered(waitreplys')
      /\ ToSet(waitreplys') = ToSet(waitreplys) \cup {r} /\ Len(waitreplys') = Len(waitreplys) + 1
  BY <1>1, <1>2, <1>5, AppendKeeps
<1>7. ListTypes'
  BY <1>1, <1>2, <1>6 DEF ListTypes
<1>8. ListMatches'
  BY <1>1, <1>2, <1>6 DEF ListMatches, Ordered
<1>9. Numbered'
  BY <1>1, <1>2, <1>3 DEF Numbered
<1> QED BY <1>7, <1>8, <1>9 DEF Requests

LEMMA RequestGone ==
  ASSUME Requests, NEW how, Gone(how)
  PROVE  Requests'
<1>1. /\ waitreplys \in Seq(Request) /\ Ordered(waitreplys) /\ overdue \in 0..Len(waitreplys)
      /\ outcome \in [Request -> {"none", "waiting", "reply", "timeout", "loss"}]
      /\ wrong \subseteq Request
      /\ \A s \in Request : outcome[s] = "waiting" <=> s \in ToSet(waitreplys)
      /\ \A s, t \in Request : s < t /\ outcome[s] = "none" => outcome[t] = "none"
  BY DEF Requests, ListTypes, ListMatches, Numbered, Ordered
<1> DEFINE h == Head(waitreplys)
<1>2. /\ how \in {"reply", "timeout", "loss"} /\ waitreplys # <<>>
      /\ waitreplys' = Tail(waitreplys) /\ outcome' = [outcome EXCEPT ![h] = how]
      /\ overdue' = IF overdue > 0 THEN overdue - 1 ELSE 0
      /\ wrong' \subseteq wrong \cup {h}
  BY DEF Gone, Popped, Answered
<1> HIDE DEF h
<1>3. /\ h \in Request /\ waitreplys' \in Seq(Request) /\ Ordered(waitreplys')
      /\ Len(waitreplys') = Len(waitreplys) - 1 /\ Len(waitreplys) > 0
      /\ ToSet(waitreplys') = ToSet(waitreplys) \ {h} /\ h \in ToSet(waitreplys)
  BY <1>1, <1>2, TailKeeps DEF h
<1>4. ListTypes'
  BY <1>1, <1>2, <1>3 DEF ListTypes
<1>5. ListMatches'
  BY <1>1, <1>2, <1>3 DEF ListMatches, Ordered
<1>6. Numbered'
  BY <1>1, <1>2, <1>3 DEF Numbered
<1> QED BY <1>4, <1>5, <1>6 DEF Requests

-----------------------------------------------------------------------------
(* The life of the client. *)
Life == ClientTypes /\ ServerTypes /\ FreedCleanly /\ Stages
Parts == Requests /\ Life

LEMMA Split == (IInv <=> Parts) /\ (IInv' <=> Parts')
BY TypeParts DEF IInv, Core, Parts, Requests, Life

LEMMA InitParts == Init => Parts
<1> SUFFICES ASSUME Init PROVE Parts
  OBVIOUS
<1>1. Requests
  <2>1. Len(waitreplys) = 0 /\ ToSet(waitreplys) = {}
    BY DEF Init, ToSet
  <2> QED BY <2>1 DEF Init, Requests, ListTypes, ListMatches, Numbered
<1>2. ClientTypes /\ ServerTypes
  BY DEF Init, ClientTypes, ServerTypes, Places, Callback
<1>3. FreedCleanly /\ Stages
  BY DEF Init, FreedCleanly, Stages, Destroying
<1> QED BY <1>1, <1>2, <1>3 DEF Parts, Life

(* Each action, what it does to the requests and to the client. *)
LEMMA ConnectKeeps ==
  ASSUME Parts, lua_redis_connect_ip4 \/ connect_callback \/ lua_redis_connect_cb
  PROVE  Parts' /\ UNCHANGED <<waitreplys, outcome>>
<1>1. UNCHANGED <<waitreplys, overdue, outcome, wrong>>
  BY DEF lua_redis_connect_ip4, connect_callback, lua_redis_connect_cb, history
<1>2. Life'
  <2>1. CASE lua_redis_connect_ip4
    BY <2>1 DEF lua_redis_connect_ip4, Parts, Life, ClientTypes, ServerTypes, FreedCleanly, Stages,
       At, memory, server, Destroying
  <2>2. CASE connect_callback
    <3>1. CASE \E served \in BOOLEAN :
                 /\ client' = [client EXCEPT !.life = "open", !.served = served]
                 /\ pc' = "connect_cb" /\ lua' = [lua EXCEPT !.life = "held", !.client = TRUE]
      BY <2>2, <3>1 DEF connect_callback, Parts, Life, ClientTypes, ServerTypes, FreedCleanly,
         Stages, At, server, Destroying, Places, Callback
    <3>2. CASE client' = [client EXCEPT !.life = "freed"] /\ UNCHANGED <<pc, lua>>
      BY <2>2, <3>2 DEF connect_callback, Parts, Life, ClientTypes, ServerTypes, FreedCleanly,
         Stages, At, server, Destroying
    <3> QED BY <2>2, <3>1, <3>2 DEF connect_callback
  <2>3. CASE lua_redis_connect_cb
    BY <2>3 DEF lua_redis_connect_cb, Parts, Life, ClientTypes, ServerTypes, FreedCleanly, Stages,
       At, memory, server, Destroying, Places
  <2> QED BY <2>1, <2>2, <2>3
<1> QED BY <1>1, <1>2, RequestsUnchanged DEF Parts

LEMMA DestroyKeeps ==
  ASSUME Parts, \/ LoseReturns \/ lua_redis_disconnect_cb \/ on_connection_loss \/ DestroyReturns
                \/ ConnectionLost
  PROVE  Parts' /\ UNCHANGED <<waitreplys, outcome>>
<1>1. UNCHANGED <<waitreplys, overdue, outcome, wrong>>
  BY DEF LoseReturns, lua_redis_disconnect_cb, on_connection_loss, DestroyReturns, ConnectionLost,
     destroy_redisclient, history
<1>2. Life'
  <2>1. CASE LoseReturns
    BY <2>1 DEF LoseReturns, Parts, Life, ClientTypes, ServerTypes, FreedCleanly, Stages,
       At, memory, server, Destroying, Places
  <2>2. CASE lua_redis_disconnect_cb
    BY <2>2 DEF lua_redis_disconnect_cb, Parts, Life, ClientTypes, ServerTypes, FreedCleanly,
       Stages, At, server, Destroying, Places, Callback
  <2>3. CASE on_connection_loss
    BY <2>3 DEF on_connection_loss, Parts, Life, ClientTypes, ServerTypes, FreedCleanly, Stages,
       At, memory, server, Destroying, Places
  <2>4. CASE DestroyReturns
    <3>1. ClientTypes' /\ ServerTypes'
      <4>1. /\ client' = [client EXCEPT !.life = "freed"]
            /\ pc' \in Places /\ back' = back /\ fault' = fault
        BY <2>4 DEF DestroyReturns, Parts, Life, ClientTypes, Collecting, Places, Callback
      <4>2. lua' \in [life : {"none", "held", "gone"}, client : BOOLEAN, onloss : BOOLEAN]
        BY <2>4 DEF DestroyReturns, Parts, Life, ClientTypes, Collected
      <4>3. ClientTypes'
        BY <4>1, <4>2 DEF Parts, Life, ClientTypes
      <4>4. asked' = <<>> /\ sent' = sent
        BY <2>4 DEF DestroyReturns
      <4>5. ServerTypes'
        BY <4>4 DEF Parts, Life, ServerTypes
      <4> QED BY <4>3, <4>5
    <3>2. /\ pc = "free" /\ client' = [client EXCEPT !.life = "freed"]
          /\ pc' \in {"loop", "connect_cb"} /\ lua'.client = FALSE /\ UNCHANGED <<tree, waitreplys>>
      BY <2>4 DEF DestroyReturns, Parts, Life, ClientTypes, Stages, Collecting, Collected, At
    <3>3. FreedCleanly' /\ Stages'
      BY <3>2 DEF Parts, Life, ClientTypes, FreedCleanly, Stages, Destroying
    <3> QED BY <3>1, <3>3 DEF Life
  <2>5. CASE ConnectionLost
    BY <2>5 DEF ConnectionLost, destroy_redisclient, Parts, Life, ClientTypes, ServerTypes,
       FreedCleanly, Stages, At, memory, server, Destroying, Places
  <2> QED BY <2>1, <2>2, <2>3, <2>4, <2>5
<1> QED BY <1>1, <1>2, RequestsUnchanged DEF Parts

LEMMA LoseNextKeeps ==
  ASSUME Parts, LoseNext
  PROVE  Parts' /\ Gone("loss")
<1>1. Gone("loss")
  BY DEF LoseNext, Gone
<1>2. Life'
  BY DEF LoseNext, Parts, Life, ClientTypes, ServerTypes, FreedCleanly, Stages, At, memory, server,
     Destroying, Places, Callback
<1> QED BY <1>1, <1>2, RequestGone DEF Parts

(* Lua closes the client, or its object is collected. *)
LEMMA LuaKeeps ==
  ASSUME Parts, lua_redis_close \/ lua_redisclient_gc \/ lua_redis_on_connection_loss
  PROVE  Parts' /\ UNCHANGED <<waitreplys, outcome>>
<1>1. UNCHANGED <<waitreplys, overdue, outcome, wrong>>
  BY DEF lua_redis_close, lua_redisclient_gc, lua_redis_on_connection_loss, history
<1>2. ClientTypes /\ ServerTypes /\ FreedCleanly /\ Stages
  BY DEF Parts, Life
<1>3. ServerTypes'
  BY <1>2 DEF lua_redis_close, lua_redisclient_gc, lua_redis_on_connection_loss, ServerTypes, server
<1>4. ASSUME NEW from \in {"loop", "connect_cb", "gc"} \cup Callback, chk_redis_close(from),
             InLua, lua.client, from = pc \/ from = "gc"
      PROVE  /\ client' = [client EXCEPT !.close = TRUE] /\ client.life = "open"
             /\ \/ UNCHANGED <<pc, back, tree>>
                \/ /\ pc' = "destroy" /\ back' \in {"loop", "connect_cb", "gc"} /\ tree' = <<>>
                   /\ ~client.incb /\ pc \in {"loop", "connect_cb"}
  <2>1. client.life = "open" /\ pc \in {"loop"} \cup Callback
    BY <1>2, <1>4 DEF FreedCleanly, InLua
  <2>2. CASE client.close
    BY <1>2, <1>4, <2>1, <2>2 DEF chk_redis_close, ClientTypes
  <2>3. CASE ~client.close /\ client.incb
    BY <1>4, <2>1, <2>3 DEF chk_redis_close
  <2>4. CASE ~client.close /\ ~client.incb
    <3>1. pc \in {"loop", "connect_cb"}
      BY <1>2, <2>1, <2>4 DEF FreedCleanly, Stages, Destroying, Callback
    <3> QED BY <1>4, <2>1, <2>4, <3>1 DEF chk_redis_close, destroy_redisclient
  <2> QED BY <1>2, <2>2, <2>3, <2>4 DEF ClientTypes
<1>5. CASE lua_redis_close
  <2>1. /\ pc \in {"loop", "connect_cb", "gc"} \cup Callback
        /\ chk_redis_close(pc) /\ InLua /\ lua.client
    BY <1>5 DEF lua_redis_close, InLua
  <2>2. /\ client' = [client EXCEPT !.close = TRUE] /\ client.life = "open"
        /\ \/ UNCHANGED <<pc, back, tree>>
           \/ /\ pc' = "destroy" /\ back' \in {"loop", "connect_cb", "gc"} /\ tree' = <<>>
              /\ ~client.incb /\ pc \in {"loop", "connect_cb"}
    BY <1>4, <2>1
  <2>3. lua' \in {lua, [lua EXCEPT !.client = FALSE]} /\ UNCHANGED <<waitreplys, fault>>
    BY <1>5 DEF lua_redis_close
  <2>4. ClientTypes'
    BY <1>2, <2>2, <2>3 DEF ClientTypes, Places
  <2>5. lua'.client => lua.client
    BY <1>2, <2>3 DEF ClientTypes
  <2>6. FreedCleanly' /\ Stages'
    BY <1>2, <2>2, <2>3, <2>5 DEF ClientTypes, FreedCleanly, Stages, Destroying
  <2> QED BY <1>1, <1>3, <2>4, <2>6, RequestsUnchanged DEF Parts, Life
<1>6. CASE lua_redisclient_gc
  <2>1. CASE lua.client
    <3>1. chk_redis_close("gc") /\ InLua /\ UNCHANGED <<waitreplys, fault>>
      BY <1>6, <2>1 DEF lua_redisclient_gc
    <3>2. /\ client' = [client EXCEPT !.close = TRUE] /\ client.life = "open"
          /\ \/ UNCHANGED <<pc, back, tree>>
             \/ /\ pc' = "destroy" /\ back' \in {"loop", "connect_cb", "gc"} /\ tree' = <<>>
                /\ ~client.incb /\ pc \in {"loop", "connect_cb"}
      BY <1>4, <2>1, <3>1
    <3>3. lua' \in {lua, Collected}
      BY <1>6 DEF lua_redisclient_gc
    <3>4. ClientTypes' /\ (lua'.client => lua.client)
      BY <1>2, <3>1, <3>2, <3>3 DEF ClientTypes, Places, Collected
    <3>5. FreedCleanly' /\ Stages'
      BY <1>2, <3>1, <3>2, <3>4 DEF ClientTypes, FreedCleanly, Stages, Destroying
    <3> QED BY <1>1, <1>3, <3>4, <3>5, RequestsUnchanged DEF Parts, Life
  <2>2. CASE ~lua.client
    <3>1. UNCHANGED <<client, pc, back, tree, waitreplys, fault>> /\ lua' \in {lua, Collected}
      BY <1>6, <2>2 DEF lua_redisclient_gc
    <3>2. ClientTypes' /\ (lua'.client => lua.client)
      <4>1. /\ lua' \in [life : {"none", "held", "gone"}, client : BOOLEAN, onloss : BOOLEAN]
            /\ lua'.client => lua.client
        BY <1>2, <3>1 DEF ClientTypes, Collected
      <4> QED BY <1>2, <3>1, <4>1 DEF ClientTypes
    <3>3. FreedCleanly' /\ Stages'
      BY <1>2, <3>1, <3>2 DEF ClientTypes, FreedCleanly, Stages, Destroying
    <3> QED BY <1>1, <1>3, <3>2, <3>3, RequestsUnchanged DEF Parts, Life
  <2> QED BY <2>1, <2>2
<1>7. CASE lua_redis_on_connection_loss
  <2>1. /\ UNCHANGED <<client, tree, pc, back, waitreplys, fault>>
        /\ lua' = [lua EXCEPT !.onloss = TRUE]
    BY <1>7 DEF lua_redis_on_connection_loss
  <2>2. ClientTypes' /\ lua'.client = lua.client
    BY <1>2, <2>1 DEF ClientTypes
  <2>3. FreedCleanly' /\ Stages'
    BY <1>2, <2>1, <2>2 DEF FreedCleanly, Stages, Destroying
  <2> QED BY <1>1, <1>3, <2>2, <2>3, RequestsUnchanged DEF Parts, Life
<1> QED BY <1>1, <1>5, <1>6, <1>7

LEMMA ExecuteKeeps ==
  ASSUME Parts, NEW r \in Request, lua_redis_execute(r)
  PROVE  Parts' /\ (Made(r) \/ UNCHANGED <<waitreplys, outcome>>)
<1>1. ClientTypes /\ ServerTypes /\ FreedCleanly /\ Stages
  BY DEF Parts, Life
<1>2. /\ lua.client /\ New(r) /\ client.life = "open" /\ pc \notin {"loss", "free"}
      /\ UNCHANGED <<tree, overdue, pc, back, lua, sent, wrong>>
  BY <1>1 DEF lua_redis_execute, FreedCleanly, Stages
<1>3. CASE /\ waitreplys' = Append(waitreplys, r) /\ Answered(r, "waiting")
           /\ asked' = IF client.served THEN Append(asked, r) ELSE asked
           /\ client' = [client EXCEPT !.timer = TRUE] /\ UNCHANGED fault
  <2>1. Made(r)
    BY <1>2, <1>3 DEF Made
  <2>2. ClientTypes' /\ ServerTypes'
    <3>1. ClientTypes'
      BY <1>1, <1>2, <1>3 DEF ClientTypes
    <3>2. Append(asked, r) \in Seq(Request)
      BY <1>1 DEF ServerTypes
    <3>3. ServerTypes'
      BY <1>1, <1>2, <1>3, <3>2 DEF ServerTypes
    <3> QED BY <3>1, <3>3
  <2>3. FreedCleanly' /\ Stages'
    BY <1>1, <1>2, <1>3 DEF ClientTypes, FreedCleanly, Stages, Destroying
  <2> QED BY <2>1, <2>2, <2>3, RequestMade DEF Parts, Life
<1>4. CASE fault' = "sent" /\ UNCHANGED <<waitreplys, outcome, asked, client>>
  <2>1. Life'
    BY <1>1, <1>2, <1>4 DEF Life, ClientTypes, ServerTypes, FreedCleanly, Stages, Destroying
  <2> QED BY <1>2, <1>4, <2>1, RequestsUnchanged DEF Parts
<1> QED BY <1>3, <1>4 DEF lua_redis_execute, _chk_redis_execute

-----------------------------------------------------------------------------
LEMMA TimeoutNextKeeps ==
  ASSUME Parts, pc \in {"loop", "due"}, client.life = "open", TimeoutNext
  PROVE  Parts' /\ Gone("timeout")
<1>1. ClientTypes /\ ServerTypes /\ FreedCleanly /\ Stages
  BY DEF Parts, Life
<1>2. waitreplys # <<>>
  <2>1. overdue > 0 /\ overdue \in 0..Len(waitreplys) /\ waitreplys \in Seq(Request)
    BY DEF TimeoutNext, Parts, Requests, ListTypes
  <2> QED BY <2>1
<1>3. Gone("timeout")
  BY <1>2 DEF TimeoutNext, Gone
<1>4. /\ pc' \in {"timeout", "due"} /\ UNCHANGED <<tree, back, lua, fault, asked, sent>>
      /\ client' = [client EXCEPT !.timeout_count = client.timeout_count + 1,
                                  !.incb = pc' = "timeout"]
  BY DEF TimeoutNext, Counted, memory, server
<1>5. /\ client' \in [life : {"new", "connecting", "open", "freed"}, close : BOOLEAN,
                       incb : BOOLEAN, timer : BOOLEAN, timeout_count : Nat, served : BOOLEAN]
      /\ client'.life = "open"
      /\ client'.incb <=> pc' = "timeout"
  <2>1. CASE pc' = "timeout"
    <3>1. client' = [client EXCEPT !.timeout_count = client.timeout_count + 1, !.incb = TRUE]
      BY <1>4, <2>1
    <3>2. client.timeout_count + 1 \in Nat
      BY <1>1 DEF ClientTypes
    <3>3. /\ client' \in [life : {"new", "connecting", "open", "freed"}, close : BOOLEAN,
                           incb : BOOLEAN, timer : BOOLEAN, timeout_count : Nat, served : BOOLEAN]
          /\ client'.life = client.life /\ client'.incb = TRUE
      BY <1>1, <3>1, <3>2 DEF ClientTypes
    <3> QED BY <2>1, <3>3
  <2>2. CASE pc' # "timeout"
    <3>1. client' = [client EXCEPT !.timeout_count = client.timeout_count + 1, !.incb = FALSE]
      BY <1>4, <2>2
    <3>2. client.timeout_count + 1 \in Nat
      BY <1>1 DEF ClientTypes
    <3>3. /\ client' \in [life : {"new", "connecting", "open", "freed"}, close : BOOLEAN,
                           incb : BOOLEAN, timer : BOOLEAN, timeout_count : Nat, served : BOOLEAN]
          /\ client'.life = client.life /\ client'.incb = FALSE
      BY <1>1, <3>1, <3>2 DEF ClientTypes
    <3> QED BY <2>2, <3>3
  <2> QED BY <2>1, <2>2
<1>6. ClientTypes' /\ ServerTypes'
  BY <1>1, <1>4, <1>5 DEF ClientTypes, ServerTypes, Places, Callback
<1>7. FreedCleanly' /\ Stages'
  BY <1>1, <1>4, <1>5 DEF FreedCleanly, Stages, Destroying
<1> QED BY <1>3, <1>6, <1>7, RequestGone DEF Parts, Life

LEMMA TimeoutKeeps ==
  ASSUME Parts, timeout_cb \/ TimeoutReturns \/ TimeoutContinues
  PROVE  Parts' /\ (Gone("timeout") \/ UNCHANGED <<waitreplys, outcome>>)
<1>1. ClientTypes /\ ServerTypes /\ FreedCleanly /\ Stages
  BY DEF Parts, Life
<1>2. CASE timeout_cb
  BY <1>1, <1>2, TimeoutNextKeeps DEF timeout_cb, Stages, ClientTypes, At
<1>3. CASE TimeoutReturns
  <2>1. Life'
    BY <1>1, <1>3 DEF TimeoutReturns, destroy_redisclient, Life, ClientTypes, ServerTypes,
       FreedCleanly, Stages, At, memory, server, Destroying, Places, Callback
  <2> QED BY <1>3, <2>1, RequestsUnchanged DEF TimeoutReturns, Parts, history
<1>4. CASE TimeoutContinues
  <2>1. CASE TimeoutNext
    BY <1>1, <1>4, <2>1, TimeoutNextKeeps DEF TimeoutContinues, Stages, At
  <2>2. CASE /\ overdue = 0 /\ pc' = "loop"
             /\ UNCHANGED <<client, tree, waitreplys, overdue, data, back, memory, server, history>>
    <3>1. Life'
      BY <1>1, <1>4, <2>2 DEF TimeoutContinues, Life, ClientTypes, ServerTypes, FreedCleanly,
         Stages, At, memory, server, Destroying, Places
    <3> QED BY <2>2, <3>1, RequestsUnchanged DEF Parts, history
  <2> QED BY <1>4, <2>1, <2>2 DEF TimeoutContinues
<1> QED BY <1>2, <1>3, <1>4

(* Whatever the parser finds in the bytes. *)
LEMMA ParseKeeps ==
  ASSUME Parts, ParseNext
  PROVE  Parts' /\ (Gone("reply") \/ UNCHANGED <<waitreplys, outcome>>)
<1> DEFINE p == ParseChunk(tree, data)
<1>1. ClientTypes /\ ServerTypes /\ FreedCleanly /\ Stages /\ pc = "parse" /\ client.life = "open"
  BY DEF Parts, Life, ParseNext, At, Stages
<1>2. ReplyParsed(p) \/ MoreNeeded(p) \/ ParseFailed(p) \/ LineOverran(p)
  BY DEF ParseNext
<1>3. fault' \in {"none", "sent", "sign", "nilarray", "overrun", "unsolicited", "userdata"}
  BY <1>1 DEF ParseNext, ClientTypes
<1> HIDE DEF p
<1>4. CASE MoreNeeded(p) \/ ParseFailed(p) \/ LineOverran(p)
  <2>1. Life'
    BY <1>1, <1>3, <1>4 DEF MoreNeeded, ParseFailed, LineOverran, destroy_redisclient, Life, ClientTypes,
       ServerTypes, FreedCleanly, Stages, server, Destroying, Places
  <2> QED BY <1>4, <2>1, RequestsUnchanged DEF MoreNeeded, ParseFailed, LineOverran, Parts, history
<1>5. CASE ReplyParsed(p)
  <2>1. UNCHANGED <<back, lua, asked, sent>>
    BY <1>5 DEF ReplyParsed, server
  <2>2. AfterReply(p) \in {"loop", "parse"}
    BY DEF AfterReply
  <2>3. CASE Skipped(p)
    <3>1. /\ client' = [client EXCEPT !.timeout_count = @ - 1] /\ tree' = <<>>
          /\ pc' = AfterReply(p) /\ UNCHANGED <<waitreplys, overdue, outcome, wrong>>
      BY <1>5, <2>3 DEF ReplyParsed, history
    <3>2. client.timeout_count - 1 \in Nat
      BY <1>1, <2>3 DEF Skipped, ClientTypes
    <3>3. Life'
      BY <1>1, <1>3, <2>1, <2>2, <3>1, <3>2 DEF Life, ClientTypes, ServerTypes, FreedCleanly,
         Stages, Destroying, Places
    <3> QED BY <3>1, <3>3, RequestsUnchanged DEF Parts
  <2>4. CASE ~Skipped(p) /\ waitreplys = <<>>
    <3>1. UNCHANGED <<client, tree, pc, waitreplys, overdue, outcome, wrong>>
      BY <1>5, <2>4 DEF ReplyParsed, history
    <3>2. Life'
      BY <1>1, <1>3, <2>1, <3>1 DEF Life, ClientTypes, ServerTypes, FreedCleanly, Stages,
         Destroying
    <3> QED BY <3>1, <3>2, RequestsUnchanged DEF Parts
  <2>5. CASE ~Skipped(p) /\ waitreplys # <<>>
    <3>1. /\ Popped("reply") /\ wrong' \in {wrong, wrong \cup {Head(waitreplys)}}
          /\ pc' \in {"reply", AfterReply(p)}
          /\ client' = [client EXCEPT !.incb = pc' = "reply"]
      BY <1>5, <2>5 DEF ReplyParsed
    <3>2. Gone("reply")
      BY <2>5, <3>1 DEF Gone
    <3>3. Life'
      BY <1>1, <1>3, <2>1, <2>2, <3>1 DEF Life, ClientTypes, ServerTypes, FreedCleanly, Stages,
         Destroying, Places, Callback
    <3> QED BY <3>2, <3>3, RequestGone DEF Parts
  <2> QED BY <2>3, <2>4, <2>5
<1> QED BY <1>2, <1>4, <1>5

LEMMA QuietKeeps ==
  ASSUME Parts, ReplyReturns \/ (\E n \in 1..Len(stream) : data_cb(n)) \/ Server \/ DeadlinePasses
  PROVE  Parts' /\ UNCHANGED <<waitreplys, outcome>>
<1>1. ClientTypes /\ ServerTypes /\ FreedCleanly /\ Stages /\ Requests
  BY DEF Parts, Life
<1>2. CASE ReplyReturns
  <2>1. Life'
    BY <1>1, <1>2 DEF ReplyReturns, Life, ClientTypes, ServerTypes, FreedCleanly, Stages, At,
       memory, server, Destroying, Places, Callback
  <2> QED BY <1>1, <1>2, <2>1, RequestsUnchanged DEF ReplyReturns, Parts, history
<1>3. ASSUME NEW n \in 1..Len(stream), data_cb(n) PROVE Parts' /\ UNCHANGED <<waitreplys, outcome>>
  <2>1. Life'
    BY <1>1, <1>3 DEF data_cb, Life, ClientTypes, ServerTypes, FreedCleanly, Stages, At, memory,
       Destroying, Places
  <2> QED BY <1>1, <1>3, <2>1, RequestsUnchanged DEF data_cb, Parts, history
<1>4. ASSUME NEW m \in Messages, Answer(m) PROVE Parts' /\ UNCHANGED <<waitreplys, outcome>>
  <2>1. Head(asked) \in Request /\ Tail(asked) \in Seq(Request)
    BY <1>1, <1>4 DEF Answer, ServerTypes
  <2>2. ServerTypes'
    BY <1>1, <1>4, <2>1 DEF Answer, ServerTypes
  <2>3. Life'
    BY <1>1, <1>4, <2>2 DEF Answer, Life, ClientTypes, FreedCleanly, Stages, memory, Destroying
  <2> QED BY <1>1, <1>4, <2>3, RequestsUnchanged DEF Answer, Parts, history
<1>5. CASE DeadlinePasses
  <2>1. Requests'
    BY <1>1, <1>5 DEF DeadlinePasses, Requests, ListTypes, ListMatches, Numbered, history
  <2>2. Life'
    BY <1>1, <1>5 DEF DeadlinePasses, Life, ClientTypes, ServerTypes, FreedCleanly, Stages, memory,
       server, Destroying
  <2> QED BY <1>5, <2>1, <2>2 DEF DeadlinePasses, Parts, history
<1> QED BY <1>2, <1>3, <1>4, <1>5 DEF Server

-----------------------------------------------------------------------------
(* One request at most is made or answered in a step. *)
OneRequest ==
  \/ UNCHANGED <<waitreplys, outcome>>
  \/ \E r \in Request : Made(r)
  \/ \E how \in {"reply", "timeout", "loss"} : Gone(how)

LEMMA NextKeeps == Parts /\ [Next]_vars => Parts' /\ OneRequest
<1> SUFFICES ASSUME Parts, [Next]_vars PROVE Parts' /\ OneRequest
  OBVIOUS
<1>1. CASE UNCHANGED vars
  BY <1>1 DEF vars, memory, server, history, Parts, Requests, ListTypes, ListMatches, Numbered,
     Life, ClientTypes, ServerTypes, FreedCleanly, Stages, Destroying, OneRequest
<1>2. CASE lua_redis_connect_ip4 \/ connect_callback \/ lua_redis_connect_cb
  BY <1>2, ConnectKeeps DEF OneRequest
<1>3. CASE LuaStep
  BY <1>3, ExecuteKeeps, LuaKeeps DEF LuaStep, OneRequest
<1>4. CASE Returns
  BY <1>2, <1>4, LoseNextKeeps, DestroyKeeps, TimeoutKeeps, QuietKeeps DEF Returns, OneRequest
<1>5. CASE ParseNext \/ timeout_cb
  BY <1>5, ParseKeeps, TimeoutKeeps DEF OneRequest
<1>6. CASE Reads \/ Server \/ DeadlinePasses
  BY <1>6, DestroyKeeps, QuietKeeps DEF Reads, OneRequest
<1> QED BY <1>1, <1>2, <1>3, <1>4, <1>5, <1>6 DEF Next

(* What is true of every state of the client. *)
THEOREM RedisInvariant == Spec => []IInv
<1>1. Init => IInv
  BY InitParts, Split
<1>2. IInv /\ [Next]_vars => IInv'
  BY NextKeeps, Split
<1> QED BY <1>1, <1>2, PTL DEF Spec

(* Every variable keeps its type, whatever the server sends. *)
THEOREM RedisTypes == Spec => []TypeOK
<1>1. IInv => TypeOK
  BY DEF IInv
<1> QED BY <1>1, RedisInvariant, PTL

(* The list of chk_client.c holds exactly the requests that wait, in order. *)
THEOREM RequestsListed == Spec => []ListMatches
<1>1. IInv => ListMatches
  BY DEF IInv, Core
<1> QED BY <1>1, RedisInvariant, PTL

(* A client is never freed under one of its callbacks, nor with requests, a *)
(* timer or a Lua object that point to it (destroy_redisclient).            *)
THEOREM ClientFreedCleanly == Spec => []FreedCleanly
<1>1. IInv => FreedCleanly
  BY DEF IInv, Core
<1> QED BY <1>1, RedisInvariant, PTL

(* The client implements RequestQueue: by replies, timeouts and the loss of *)
(* the connection requests are answered in order and once.                  *)
THEOREM RequestsAnsweredInOrder == Spec => AnsweredInOrder
<1>1. Init => Q!Init
  BY DEF Init, Q!Init
<1>2. IInv /\ [Next]_vars => [Q!Next]_(Q!qvars)
  <2> SUFFICES ASSUME IInv, [Next]_vars PROVE [Q!Next]_(Q!qvars)
    OBVIOUS
  <2>1. OneRequest
    BY NextKeeps, Split
  <2>2. CASE UNCHANGED <<waitreplys, outcome>>
    BY <2>2 DEF Q!qvars
  <2>3. ASSUME NEW r \in Request, Made(r) PROVE Q!Next
    BY <2>3 DEF Made, New, Answered, Q!Next, Q!Submit
  <2>4. ASSUME NEW how \in {"reply", "timeout", "loss"}, Gone(how) PROVE Q!Next
    BY <2>4 DEF Gone, Popped, Answered, Q!Next, Q!Answer, Q!Answers
  <2> QED BY <2>1, <2>2, <2>3, <2>4 DEF OneRequest
<1> QED BY <1>1, <1>2, RedisInvariant, PTL DEF Spec, AnsweredInOrder, Q!Spec
-----------------------------------------------------------------------------
(* What is due, of l requests: the replies of the first are read, those of *)
(* the next timed out, the others wait; the last are still to be answered. *)
Due(l, first, skipped, wait, ask) ==
  /\ first + skipped + Len(wait) = l /\ first + Len(ask) <= l
  /\ \A i \in 1..Len(wait) : wait[i] = first + skipped + i
  /\ \A i \in 1..Len(ask) : ask[i] = l - Len(ask) + i
Unread(l, first, ask, what) == [i \in 1..(l - Len(ask) - first) |-> what[first + i]]

LEMMA RequestsAreNumbers == Request \subseteq Int
BY RequestsAssumption DEF Request, RequestsAssumption

LEMMA SeqByIndex ==
  ASSUME NEW S, NEW s \in Seq(S), NEW n \in Nat, Len(s) = n
  PROVE  s = [i \in 1..n |-> s[i]]
<1>1. s \in [1..Len(s) -> S]
  OBVIOUS
<1>2. s \in [1..n -> S]
  BY <1>1
<1> QED BY <1>2

LEMMA DueMade ==
  ASSUME NEW l \in Nat, NEW first \in Nat, NEW k \in Nat, NEW w \in Seq(Request),
         NEW a \in Seq(Request), Due(l, first, k, w, a), l + 1 \in Request
  PROVE  /\ Due(l + 1, first, k, Append(w, l + 1), Append(a, l + 1))
         /\ \A what : Unread(l + 1, first, Append(a, l + 1), what) = Unread(l, first, a, what)
<1>1. /\ first + k + Len(w) = l /\ first + Len(a) <= l /\ Len(w) \in Nat /\ Len(a) \in Nat
      /\ \A i \in 1..Len(w) : w[i] = first + k + i
      /\ \A i \in 1..Len(a) : a[i] = l - Len(a) + i
  BY DEF Due
<1>2. /\ Len(Append(w, l + 1)) = Len(w) + 1 /\ Append(w, l + 1)[Len(w) + 1] = l + 1
      /\ \A i \in 1..Len(w) : Append(w, l + 1)[i] = w[i]
  OBVIOUS
<1>3. /\ Len(Append(a, l + 1)) = Len(a) + 1 /\ Append(a, l + 1)[Len(a) + 1] = l + 1
      /\ \A i \in 1..Len(a) : Append(a, l + 1)[i] = a[i]
  OBVIOUS
<1> DEFINE v == Append(w, l + 1)
<1> DEFINE b == Append(a, l + 1)
<1> DEFINE lw == Len(w)
<1> DEFINE la == Len(a)
<1> HIDE DEF v, b, lw, la
<1>4. first + k + Len(v) = l + 1 /\ first + Len(b) <= l + 1
  BY <1>1, <1>2, <1>3 DEF v, b
<1>5. ASSUME NEW i \in 1..(lw + 1) PROVE v[i] = first + k + i
  <2>1. CASE i = lw + 1
    <3>1. v[i] = l + 1
      BY <1>2, <2>1 DEF v, lw
    <3>2. first + k + lw = l /\ lw \in Nat
      BY <1>1 DEF lw
    <3> QED BY <2>1, <3>1, <3>2
  <2>2. CASE i # lw + 1
    <3>1. i \in 1..lw
      BY <1>1, <2>2 DEF lw
    <3> QED BY <1>1, <1>2, <3>1 DEF v, lw
  <2> QED BY <2>1, <2>2
<1>6. ASSUME NEW i \in 1..(la + 1) PROVE b[i] = (l + 1) - (la + 1) + i
  <2>1. CASE i = la + 1
    <3>1. b[i] = l + 1
      BY <1>3, <2>1 DEF b, la
    <3>2. la \in Nat
      BY <1>1 DEF la
    <3> QED BY <2>1, <3>1, <3>2
  <2>2. CASE i # la + 1
    <3>1. i \in 1..la /\ la \in Nat
      BY <1>1, <2>2 DEF la
    <3>2. b[i] = l - la + i
      BY <1>1, <1>3, <3>1 DEF b, la
    <3> QED BY <3>1, <3>2
  <2> QED BY <2>1, <2>2
<1>7. Len(v) = lw + 1 /\ Len(b) = la + 1
  BY <1>2, <1>3 DEF v, b, lw, la
<1>8. Due(l + 1, first, k, v, b)
  BY <1>4, <1>5, <1>6, <1>7 DEF Due
<1>9. ASSUME NEW what PROVE Unread(l + 1, first, b, what) = Unread(l, first, a, what)
  <2>1. (l + 1) - Len(b) - first = l - Len(a) - first
    BY <1>1, <1>7 DEF la
  <2> QED BY <2>1 DEF Unread
<1> QED BY <1>8, <1>9 DEF v, b

LEMMA DueTimedOut ==
  ASSUME NEW l \in Nat, NEW first \in Nat, NEW k \in Nat, NEW w \in Seq(Request),
         NEW a \in Seq(Request), Due(l, first, k, w, a), w # <<>>
  PROVE  Due(l, first, k + 1, Tail(w), a)
<1>1. /\ first + k + Len(w) = l /\ first + Len(a) <= l /\ Len(w) \in Nat
      /\ \A i \in 1..Len(w) : w[i] = first + k + i
      /\ \A i \in 1..Len(a) : a[i] = l - Len(a) + i
  BY DEF Due
<1>2. /\ Len(Tail(w)) = Len(w) - 1 /\ Len(w) > 0
      /\ \A i \in 1..(Len(w) - 1) : Tail(w)[i] = w[i + 1]
  OBVIOUS
<1> DEFINE v == Tail(w)
<1> HIDE DEF v
<1>3. first + (k + 1) + Len(v) = l
  <2> DEFINE lw == Len(w)
  <2> DEFINE lv == Len(v)
  <2>1. first + k + lw = l /\ lw \in Nat /\ lv = lw - 1
    BY <1>1, <1>2 DEF v
  <2> HIDE DEF lw, lv
  <2>2. first + (k + 1) + lv = l
    BY <2>1
  <2> QED BY <2>2 DEF lv
<1>4. ASSUME NEW i \in 1..Len(v) PROVE v[i] = first + (k + 1) + i
  <2>1. i \in 1..(Len(w) - 1) /\ i + 1 \in 1..Len(w)
    BY <1>1, <1>2 DEF v
  <2>2. v[i] = first + k + (i + 1)
    BY <1>1, <1>2, <2>1 DEF v
  <2> QED BY <2>1, <2>2
<1> QED BY <1>1, <1>3, <1>4 DEF Due, v

LEMMA DueAnswered ==
  ASSUME NEW l \in Nat, NEW first \in Nat, NEW k \in Nat, NEW w \in Seq(Request),
         NEW a \in Seq(Request), Due(l, first, k, w, a), a # <<>>
  PROVE  Head(a) = l - Len(a) + 1 /\ Due(l, first, k, w, Tail(a))
<1>1. /\ first + k + Len(w) = l /\ first + Len(a) <= l /\ Len(a) \in Nat
      /\ \A i \in 1..Len(w) : w[i] = first + k + i
      /\ \A i \in 1..Len(a) : a[i] = l - Len(a) + i
  BY DEF Due
<1>2. /\ Len(Tail(a)) = Len(a) - 1 /\ Len(a) > 0 /\ Head(a) = a[1]
      /\ \A i \in 1..(Len(a) - 1) : Tail(a)[i] = a[i + 1]
  OBVIOUS
<1> DEFINE b == Tail(a)
<1> HIDE DEF b
<1>3. first + Len(b) <= l
  BY <1>1, <1>2 DEF b
<1>4. ASSUME NEW i \in 1..Len(b) PROVE b[i] = l - Len(b) + i
  <2>1. i \in 1..(Len(a) - 1) /\ i + 1 \in 1..Len(a) /\ Len(b) = Len(a) - 1
    BY <1>1, <1>2 DEF b
  <2>2. b[i] = l - Len(a) + (i + 1)
    BY <1>1, <1>2, <2>1 DEF b
  <2> QED BY <1>1, <2>1, <2>2
<1>5. Head(a) = l - Len(a) + 1
  <2>1. 1 \in 1..Len(a)
    BY <1>1, <1>2
  <2> QED BY <1>1, <1>2, <2>1
<1> QED BY <1>1, <1>3, <1>4, <1>5 DEF Due, b

(* The next reply is for a request that timed out, or for the first. *)
LEMMA DueRead ==
  ASSUME NEW l \in Nat, NEW first \in Nat, NEW k \in Nat, NEW w \in Seq(Request),
         NEW a \in Seq(Request), Due(l, first, k, w, a), first + Len(a) < l
  PROVE  /\ k > 0 => Due(l, first + 1, k - 1, w, a)
         /\ k = 0 => w # <<>> /\ Head(w) = first + 1 /\ Due(l, first + 1, 0, Tail(w), a)
<1>1. /\ first + k + Len(w) = l /\ first + Len(a) <= l /\ Len(w) \in Nat /\ Len(a) \in Nat
      /\ \A i \in 1..Len(w) : w[i] = first + k + i
      /\ \A i \in 1..Len(a) : a[i] = l - Len(a) + i
  BY DEF Due
<1>2. (first + 1) + Len(a) <= l
  BY <1>1
<1>3. ASSUME k > 0 PROVE Due(l, first + 1, k - 1, w, a)
  <2>1. (first + 1) + (k - 1) + Len(w) = l
    <3> DEFINE lw == Len(w)
    <3>1. first + k + lw = l /\ lw \in Nat
      BY <1>1
    <3> HIDE DEF lw
    <3>2. (first + 1) + (k - 1) + lw = l
      BY <3>1
    <3> QED BY <3>2 DEF lw
  <2>2. \A i \in 1..Len(w) : w[i] = (first + 1) + (k - 1) + i
    BY <1>1
  <2> QED BY <1>1, <1>2, <2>1, <2>2 DEF Due
<1>4. ASSUME k = 0 PROVE w # <<>> /\ Head(w) = first + 1 /\ Due(l, first + 1, 0, Tail(w), a)
  <2>1. Len(w) > 0
    BY <1>1, <1>4
  <2>2. w # <<>> /\ Head(w) = w[1] /\ 1 \in 1..Len(w)
    BY <1>1, <2>1
  <2>3. /\ Len(Tail(w)) = Len(w) - 1
        /\ \A i \in 1..(Len(w) - 1) : Tail(w)[i] = w[i + 1]
    BY <2>2
  <2>4. Head(w) = first + 1
    BY <1>1, <1>4, <2>2
  <2> DEFINE v == Tail(w)
  <2> HIDE DEF v
  <2>5. (first + 1) + 0 + Len(v) = l
    <3> DEFINE lw == Len(w)
    <3> DEFINE lv == Len(v)
    <3>1. first + 0 + lw = l /\ lw \in Nat /\ lv = lw - 1
      BY <1>1, <1>4, <2>3 DEF v
    <3> HIDE DEF lw, lv
    <3>2. (first + 1) + 0 + lv = l
      BY <3>1
    <3> QED BY <3>2 DEF lv
  <2>6. ASSUME NEW i \in 1..Len(v) PROVE v[i] = (first + 1) + 0 + i
    <3>1. i \in 1..(Len(w) - 1) /\ i + 1 \in 1..Len(w)
      BY <1>1, <2>3 DEF v
    <3>2. v[i] = first + k + (i + 1)
      BY <1>1, <2>3, <3>1 DEF v
    <3> QED BY <1>4, <3>1, <3>2
  <2>7. Due(l, first + 1, 0, v, a)
    BY <1>1, <1>2, <2>5, <2>6 DEF Due
  <2> QED BY <2>2, <2>4, <2>7 DEF v
<1> QED BY <1>3, <1>4

LEMMA UnreadNext ==
  ASSUME NEW l \in Nat, NEW first \in Nat, NEW a \in Seq(Request), NEW what,
         Unread(l, first, a, what) \in Seq(Messages), Unread(l, first, a, what) # <<>>
  PROVE  /\ first + Len(a) < l /\ Unread(l, first, a, what)[1] = what[first + 1]
         /\ Tail(Unread(l, first, a, what)) = Unread(l, first + 1, a, what)
<1> DEFINE n == l - Len(a) - first
<1> DEFINE u == [i \in 1..n |-> what[first + i]]
<1>1. Len(a) \in Nat /\ n \in Int
  OBVIOUS
<1>2. u \in Seq(Messages) /\ u # <<>>
  BY DEF Unread
<1>3. n > 0
  <2> HIDE DEF n
  <2> SUFFICES ASSUME ~(n > 0) PROVE FALSE
    OBVIOUS
  <2>1. 1..n = {}
    BY <1>1
  <2>2. u = <<>>
    BY <2>1
  <2> QED BY <1>2, <2>2
<1>4. first + Len(a) < l
  BY <1>1, <1>3
<1>5. l - Len(a) - (first + 1) = n - 1
  BY <1>1
<1> HIDE DEF n
<1>6. Len(u) = n /\ u[1] = what[first + 1]
  BY <1>1, <1>3
<1>7. \A i \in 1..(n - 1) : u[i + 1] = what[(first + 1) + i]
  <2> TAKE i \in 1..(n - 1)
  <2>1. i + 1 \in 1..n /\ first + (i + 1) = (first + 1) + i
    BY <1>1
  <2> QED BY <2>1
<1> HIDE DEF u
<1>8. Tail(u) = [i \in 1..(n - 1) |-> what[(first + 1) + i]]
  <2>1. /\ Tail(u) \in Seq(Messages) /\ Len(Tail(u)) = n - 1
        /\ \A i \in 1..(n - 1) : Tail(u)[i] = u[i + 1]
    BY <1>2, <1>6
  <2>2. \A i \in 1..(n - 1) : Tail(u)[i] = what[(first + 1) + i]
    BY <1>7, <2>1
  <2>3. n - 1 \in Nat
    BY <1>1, <1>3
  <2>4. Tail(u) = [i \in 1..(n - 1) |-> Tail(u)[i]]
    BY ONLY <2>1, <2>3, SeqByIndex
  <2> QED BY <2>2, <2>4
<1>9. u = Unread(l, first, a, what)
  BY DEF Unread, u, n
<1>10. Unread(l, first + 1, a, what) = [i \in 1..(n - 1) |-> what[(first + 1) + i]]
  BY <1>5 DEF Unread
<1> QED BY <1>4, <1>6, <1>8, <1>9, <1>10

OfRequests(what) == what \in [Request -> Messages \cup {NoMessage}]
Updated(what, r, m) == [what EXCEPT ![r] = m]
LEMMA UnreadMore ==
  ASSUME NEW l \in Nat, NEW first \in Nat, NEW k \in Nat, NEW w \in Seq(Request),
         NEW a \in Seq(Request), Due(l, first, k, w, a), a # <<>>, l <= MaxRequests,
         NEW what, OfRequests(what), NEW m \in Messages,
         Unread(l, first, a, what) \in Seq(Messages),
         NEW that, that = Updated(what, Head(a), m)
  PROVE  Unread(l, first, Tail(a), that) = Append(Unread(l, first, a, what), m)
<1> DEFINE n == l - Len(a) - first
<1> DEFINE u == [i \in 1..n |-> what[first + i]]
<1>1. first + Len(a) <= l /\ Len(a) \in Nat /\ Len(a) > 0 /\ Len(Tail(a)) = Len(a) - 1
  BY DEF Due
<1>2. Head(a) = l - Len(a) + 1
  BY DueAnswered
<1>3. u = Unread(l, first, a, what) /\ u \in Seq(Messages)
  BY DEF Unread
<1>4. n \in Nat /\ Head(a) = first + (n + 1) /\ l - Len(Tail(a)) - first = n + 1
  BY <1>1, <1>2
<1>5. \A i \in 1..(n + 1) : first + i \in Request
  BY <1>1, RequestsAssumption DEF Request, RequestsAssumption
<1> HIDE DEF n
<1>6. that[first + (n + 1)] = m
  BY <1>4, <1>5 DEF Updated, OfRequests
<1>7. \A i \in 1..n : that[first + i] = what[first + i]
  <2> TAKE i \in 1..n
  <2>1. i \in 1..(n + 1) /\ i # n + 1
    BY <1>4
  <2>2. first + i \in Request
    BY <1>5, <2>1
  <2>3. first + i # first + (n + 1)
    BY <1>4, <2>1
  <2> QED BY <1>4, <2>2, <2>3 DEF Updated, OfRequests
<1>8. Len(u) = n
  BY <1>4
<1>9. \A i \in 1..n : u[i] = what[first + i]
  OBVIOUS
<1> HIDE DEF u
<1>10. Append(u, m) = [i \in 1..(n + 1) |-> that[first + i]]
  <2>1. /\ Append(u, m) \in Seq(Messages) /\ Len(Append(u, m)) = n + 1
        /\ Append(u, m)[n + 1] = m /\ \A i \in 1..n : Append(u, m)[i] = u[i]
    BY <1>3, <1>8
  <2>2. \A i \in 1..(n + 1) : Append(u, m)[i] = that[first + i]
    <3> TAKE i \in 1..(n + 1)
    <3>1. CASE i = n + 1
      BY <1>6, <2>1, <3>1
    <3>2. CASE i # n + 1
      <4>1. i \in 1..n
        BY <1>4, <3>2
      <4> QED BY <1>7, <1>9, <2>1, <4>1
    <3> QED BY <3>1, <3>2
  <2>3. n + 1 \in Nat
    BY <1>4
  <2>4. Append(u, m) = [i \in 1..(n + 1) |-> Append(u, m)[i]]
    BY ONLY <2>1, <2>3, SeqByIndex
  <2> QED BY <2>2, <2>4
<1>11. Unread(l, first, Tail(a), that) = [i \in 1..(n + 1) |-> that[first + i]]
  BY <1>4 DEF Unread
<1> QED BY <1>3, <1>10, <1>11
-----------------------------------------------------------------------------
Serving == client.life = "open" /\ client.served
Numbering(l) == l \in Nat /\ l <= MaxRequests /\ \A r \in Request : outcome[r] = "none" <=> r > l
Reading == IF pc = "reply" THEN <<>> ELSE tree
Flow(l, first) ==
  /\ Numbering(l) /\ first \in Nat
  /\ Due(l, first, client.timeout_count, waitreplys, asked)
  /\ Carried(Unread(l, first, asked, sent), Reading, data \o stream)
Flows == Sound /\ Serving /\ pc \notin Destroying => \E l, first : Flow(l, first)

(* Where bytes are. *)
Bytes ==
  /\ data \in Seq(Byte) /\ stream \in Seq(Byte)
  /\ ~Serving => asked = <<>> /\ stream = <<>> /\ data = <<>>
  /\ client.life \in {"new", "connecting"} =>
       client.timeout_count = 0 /\ \A r \in Request : outcome[r] = "none"
  /\ pc \notin {"parse", "reply"} \cup Destroying => data = <<>>
  /\ pc = "parse" => data # <<>> /\ Serving
  /\ pc = "reply" => Serving
Right == (Sound => wrong = {}) /\ fault # "unsolicited"
Wire == Right /\ (Sound => Bytes /\ Flows)

(* A step that neither sends nor reads, nor changes what is due. *)
LEMMA FlowKept ==
  ASSUME Flows, Sound, UNCHANGED <<asked, stream, sent, outcome, waitreplys, data>>,
         client'.timeout_count = client.timeout_count,
         pc' \notin Destroying /\ Serving' => pc \notin Destroying /\ Serving /\ Reading' = Reading
  PROVE  Flows'
<1> SUFFICES ASSUME Serving', pc' \notin Destroying PROVE \E l, first : Flow(l, first)'
  BY DEF Flows
<1>1. pc \notin Destroying /\ Serving /\ Reading' = Reading
  OBVIOUS
<1>2. PICK l, first : Flow(l, first)
  BY <1>1 DEF Flows
<1>3. Flow(l, first)'
  BY <1>1, <1>2 DEF Flow, Numbering
<1> QED BY <1>3

LEMMA FlowEnds ==
  ASSUME pc' \in Destroying \/ ~Serving'
  PROVE  Flows'
BY DEF Flows

LEMMA ConnectWires ==
  ASSUME Parts, Wire, Sound, lua_redis_connect_ip4 \/ connect_callback \/ lua_redis_connect_cb
  PROVE  Wire'
<1>1. ClientTypes /\ Stages /\ Bytes /\ Right /\ Flows
  BY DEF Parts, Life, Wire
<1>2. CASE lua_redis_connect_ip4
  <2>1. client' = [client EXCEPT !.life = "connecting"] /\ client.life = "new" /\ pc = "loop"
        /\ UNCHANGED <<pc, data, stream, asked, outcome, wrong, fault>>
    BY <1>2 DEF lua_redis_connect_ip4, At, memory, server, history
  <2>2. ~Serving /\ ~Serving' /\ client'.timeout_count = client.timeout_count /\ client'.life = "connecting"
    BY <1>1, <2>1 DEF Serving, ClientTypes
  <2>3. Bytes' /\ Right'
    BY <1>1, <2>1, <2>2 DEF Bytes, Right, Destroying, Sound
  <2> QED BY <2>2, <2>3, FlowEnds DEF Wire
<1>3. CASE connect_callback
  <2>1. /\ client.life = "connecting" /\ pc = "loop" /\ pc' \in {"loop", "connect_cb"}
        /\ UNCHANGED <<tree, waitreplys, data, stream, asked, sent, outcome, wrong, fault>>
    BY <1>3 DEF connect_callback, At, server, history
  <2>2. /\ waitreplys = <<>> /\ tree = <<>> /\ asked = <<>> /\ stream = <<>> /\ data = <<>>
        /\ client.timeout_count = 0 /\ \A r \in Request : outcome[r] = "none"
    BY <1>1, <2>1 DEF Bytes, Stages, Serving
  <2>3. client'.timeout_count = 0 /\ client'.life \in {"open", "freed"}
    BY <1>1, <1>3, <2>2 DEF connect_callback, ClientTypes
  <2>4. Bytes' /\ Right'
    BY <1>1, <2>1, <2>2, <2>3 DEF Bytes, Right, Destroying, Sound
  <2>5. Numbering(0)'
    BY <2>1, <2>2, RequestsAssumption DEF Numbering, Request, RequestsAssumption
  <2>6. Due(0, 0, client.timeout_count, waitreplys, asked)'
    <3>1. Due(0, 0, 0, <<>>, <<>>)
      BY DEF Due
    <3> QED BY <2>1, <2>2, <2>3, <3>1
  <2>7. Carried(Unread(0, 0, asked, sent), Reading, data \o stream)'
    <3>1. Unread(0, 0, <<>>, sent) = <<>>
      BY DEF Unread
    <3>2. <<>> \o <<>> = <<>>
      OBVIOUS
    <3>3. Reading' = <<>> /\ asked' = <<>> /\ sent' = sent /\ data' = <<>> /\ stream' = <<>>
      BY <2>1, <2>2 DEF Reading
    <3> QED BY <3>1, <3>2, <3>3, NothingCarried
  <2>8. Flow(0, 0)'
    BY <2>5, <2>6, <2>7 DEF Flow
  <2> QED BY <2>4, <2>8 DEF Wire, Flows
<1>4. CASE lua_redis_connect_cb
  <2>1. /\ pc = "connect_cb" /\ pc' = "loop"
        /\ UNCHANGED <<client, tree, waitreplys, data, stream, asked, sent, outcome, wrong, fault>>
    BY <1>4 DEF lua_redis_connect_cb, At, memory, server, history
  <2>2. Bytes' /\ Right' /\ Serving' = Serving /\ Reading' = Reading
    BY <1>1, <2>1 DEF Bytes, Right, Destroying, Sound, Serving, Reading
  <2>3. Flows'
    BY <1>1, <2>1, <2>2, FlowKept DEF Destroying
  <2> QED BY <2>2, <2>3 DEF Wire
<1> QED BY <1>2, <1>3, <1>4

LEMMA DestroyWires ==
  ASSUME Parts, Wire, Sound,
         \/ LoseNext \/ LoseReturns \/ lua_redis_disconnect_cb \/ on_connection_loss
         \/ DestroyReturns \/ ConnectionLost
  PROVE  Wire'
<1>1. ClientTypes /\ Stages /\ Bytes /\ Right /\ Flows
  BY DEF Parts, Life, Wire
<1>2. CASE LoseNext \/ LoseReturns \/ lua_redis_disconnect_cb \/ on_connection_loss
  <2>1. /\ pc \in Destroying /\ pc' \in Destroying /\ UNCHANGED <<data, stream, asked, wrong>>
        /\ client' \in {client, [client EXCEPT !.timer = FALSE]} /\ fault' \in {fault, "userdata"}
    BY <1>2 DEF LoseNext, LoseReturns, lua_redis_disconnect_cb, on_connection_loss, At, memory,
       server, history, Destroying
  <2>2. client.life = "open"
    BY <1>1, <2>1 DEF Stages, Destroying
  <2>3. client'.life = "open" /\ Serving' = Serving
    BY <1>1, <2>1, <2>2 DEF Serving, ClientTypes
  <2>4. Bytes'
    BY <1>1, <2>1, <2>3 DEF Bytes, Destroying
  <2>5. Right'
    BY <1>1, <2>1 DEF Right, Sound
  <2> QED BY <2>1, <2>4, <2>5, FlowEnds DEF Wire
<1>3. CASE DestroyReturns
  <2>1. /\ client' = [client EXCEPT !.life = "freed"] /\ pc' \in {"loop", "connect_cb"}
        /\ data' = <<>> /\ asked' = <<>> /\ stream' = <<>> /\ UNCHANGED <<wrong, fault>>
    BY <1>1, <1>3 DEF DestroyReturns, ClientTypes, Collecting, history
  <2>2. client'.life = "freed" /\ ~Serving'
    BY <1>1, <2>1 DEF Serving, ClientTypes
  <2>3. Bytes' /\ Right'
    BY <1>1, <2>1, <2>2 DEF Bytes, Right, Destroying, Sound
  <2> QED BY <2>2, <2>3, FlowEnds DEF Wire
<1>4. CASE ConnectionLost
  <2>1. /\ client.life = "open" /\ client.served
        /\ client' = [client EXCEPT !.close = TRUE] /\ pc' = "destroy"
        /\ UNCHANGED <<data, stream, asked, wrong, fault>>
    BY <1>4 DEF ConnectionLost, destroy_redisclient, memory, server, history
  <2>2. client'.life = "open" /\ client'.served
    BY <1>1, <2>1 DEF ClientTypes
  <2>3. Bytes' /\ Right'
    BY <1>1, <2>1, <2>2 DEF Bytes, Right, Destroying, Sound, Serving
  <2> QED BY <2>1, <2>3, FlowEnds DEF Wire, Destroying
<1> QED BY <1>2, <1>3, <1>4

LEMMA LuaWires ==
  ASSUME Parts, Wire, Sound, lua_redis_close \/ lua_redisclient_gc \/ lua_redis_on_connection_loss
  PROVE  Wire'
<1>1. ClientTypes /\ FreedCleanly /\ Stages /\ Bytes /\ Right /\ Flows
  BY DEF Parts, Life, Wire
<1>2. /\ UNCHANGED <<waitreplys, data, stream, asked, sent, outcome, wrong, fault>>
      /\ InLua
  BY DEF lua_redis_close, lua_redisclient_gc, lua_redis_on_connection_loss, server, history
<1>3. ASSUME NEW from, chk_redis_close(from), lua.client
      PROVE  /\ client' = [client EXCEPT !.close = TRUE] \/ client' = client
             /\ \/ UNCHANGED <<pc, tree>>
                \/ pc' = "destroy" /\ pc \in {"loop", "connect_cb"}
  <2>1. CASE client.close
    BY <1>3, <2>1 DEF chk_redis_close
  <2>2. CASE ~client.close /\ client.incb
    BY <1>3, <2>2 DEF chk_redis_close
  <2>3. CASE ~client.close /\ ~client.incb
    <3>1. pc \in {"loop", "connect_cb"}
      BY <1>1, <1>2, <2>3 DEF FreedCleanly, Stages, Destroying, Callback, InLua
    <3> QED BY <1>3, <2>3, <3>1 DEF chk_redis_close, destroy_redisclient
  <2> QED BY <2>1, <2>2, <2>3
<1>4. /\ client' = [client EXCEPT !.close = TRUE] \/ client' = client
      /\ \/ UNCHANGED <<pc, tree>>
         \/ pc' = "destroy" /\ pc \in {"loop", "connect_cb"}
  <2>1. CASE lua_redis_close
    BY <1>3, <2>1 DEF lua_redis_close
  <2>2. CASE lua_redisclient_gc
    <3>1. CASE lua.client
      BY <1>3, <2>2, <3>1 DEF lua_redisclient_gc
    <3>2. CASE ~lua.client
      BY <2>2, <3>2 DEF lua_redisclient_gc
    <3> QED BY <3>1, <3>2
  <2>3. CASE lua_redis_on_connection_loss
    BY <2>3 DEF lua_redis_on_connection_loss
  <2> QED BY <2>1, <2>2, <2>3
<1>5. Serving' = Serving /\ client'.life = client.life /\ client'.timeout_count = client.timeout_count
  BY <1>1, <1>4 DEF Serving, ClientTypes
<1>6. Bytes'
  BY <1>1, <1>2, <1>4, <1>5 DEF Bytes, Destroying
<1>7. Right'
  BY <1>1, <1>2 DEF Right, Sound
<1>8. Flows'
  <2>1. CASE UNCHANGED <<pc, tree>>
    <3>1. Reading' = Reading
      BY <2>1 DEF Reading
    <3> QED BY <1>1, <1>2, <1>5, <2>1, <3>1, FlowKept
  <2>2. CASE pc' = "destroy"
    BY <2>2, FlowEnds DEF Destroying
  <2> QED BY <1>4, <2>1, <2>2
<1> QED BY <1>6, <1>7, <1>8 DEF Wire
-----------------------------------------------------------------------------
(* The list of the server and the list of the client, as the lemmas need them. *)
LEMMA FlowTypes ==
  ASSUME Parts, NEW l, NEW first, Flow(l, first)
  PROVE  /\ l \in Nat /\ first \in Nat /\ client.timeout_count \in Nat /\ l <= MaxRequests
         /\ waitreplys \in Seq(Request) /\ asked \in Seq(Request)
         /\ Due(l, first, client.timeout_count, waitreplys, asked)
         /\ Carried(Unread(l, first, asked, sent), Reading, data \o stream)
         /\ sent \in [Request -> Messages \cup {NoMessage}]
         /\ \A r \in Request : outcome[r] = "none" <=> r > l
BY DEF Parts, Life, Requests, ListTypes, ServerTypes, ClientTypes, Flow, Numbering

LEMMA ExecuteWires ==
  ASSUME Parts, Wire, Sound, NEW r \in Request, lua_redis_execute(r)
  PROVE  Wire'
<1>1. ClientTypes /\ FreedCleanly /\ Stages /\ Requests /\ Bytes /\ Right /\ Flows
  BY DEF Parts, Life, Wire
<1>2. /\ client.life = "open" /\ InLua /\ New(r) /\ _chk_redis_execute(r)
      /\ UNCHANGED <<tree, data, pc, stream, sent, wrong>>
  BY <1>1 DEF lua_redis_execute, FreedCleanly
<1>3. CASE /\ waitreplys' = Append(waitreplys, r) /\ Answered(r, "waiting")
           /\ asked' = IF client.served THEN Append(asked, r) ELSE asked
           /\ client' = [client EXCEPT !.timer = TRUE] /\ UNCHANGED fault
  <2>1. /\ client'.life = "open" /\ client'.timeout_count = client.timeout_count
        /\ Serving' = Serving
    BY <1>1, <1>2, <1>3 DEF Serving, ClientTypes
  <2>2. Bytes'
    BY <1>1, <1>2, <1>3, <2>1 DEF Bytes, Serving
  <2>3. Right'
    BY <1>1, <1>2, <1>3 DEF Right, Sound
  <2>4. Flows'
    <3> SUFFICES ASSUME Serving', pc' \notin Destroying PROVE \E l, first : Flow(l, first)'
      BY DEF Flows
    <3>1. PICK l, first : Flow(l, first)
      BY <1>1, <1>2, <2>1 DEF Flows
    <3>2. /\ l \in Nat /\ first \in Nat /\ client.timeout_count \in Nat /\ l <= MaxRequests
          /\ waitreplys \in Seq(Request) /\ asked \in Seq(Request)
          /\ Due(l, first, client.timeout_count, waitreplys, asked)
          /\ Carried(Unread(l, first, asked, sent), Reading, data \o stream)
          /\ \A s \in Request : outcome[s] = "none" <=> s > l
      BY <3>1, FlowTypes
    <3>3. r = l + 1 /\ l + 1 <= MaxRequests
      <4>1. /\ \A s \in Request : s \in Int /\ s >= 1 /\ s <= MaxRequests
            /\ \A s \in Int : s >= 1 /\ s <= MaxRequests => s \in Request
            /\ MaxRequests \in Nat
        BY RequestsAssumption DEF Request, RequestsAssumption
      <4>2. outcome[r] = "none" /\ \A s \in Request : s < r => outcome[s] # "none"
        BY <1>2 DEF New
      <4>3. r > l
        BY <3>2, <4>2
      <4>4. l + 1 \in Request
        BY <3>2, <4>1, <4>3
      <4>5. ~(l + 1 < r)
        BY <3>2, <4>2, <4>4
      <4> QED BY <3>2, <4>1, <4>3, <4>5
    <3>4. asked' = Append(asked, l + 1) /\ waitreplys' = Append(waitreplys, l + 1) /\ l + 1 \in Request
      BY <1>3, <2>1, <3>3 DEF Serving
    <3>5. /\ Due(l + 1, first, client.timeout_count, Append(waitreplys, l + 1), Append(asked, l + 1))
          /\ Unread(l + 1, first, Append(asked, l + 1), sent) = Unread(l, first, asked, sent)
      BY <3>2, <3>4, DueMade
    <3>6. Numbering(l + 1)'
      <4>1. outcome' = [outcome EXCEPT ![r] = "waiting"]
        BY <1>3 DEF Answered
      <4>2. \A s \in Request : s \in Int
        BY RequestsAssumption DEF Request, RequestsAssumption
      <4>3. outcome \in [Request -> {"none", "waiting", "reply", "timeout", "loss"}]
        BY <1>1 DEF Requests, ListTypes
      <4>4. ASSUME NEW s \in Request PROVE outcome'[s] = "none" <=> s > l + 1
        <5>1. CASE s = r
          BY <3>2, <3>3, <4>1, <4>2, <4>3, <5>1
        <5>2. CASE s # r
          <6>1. outcome'[s] = outcome[s]
            BY <4>1, <4>3, <5>2
          <6> QED BY <3>2, <3>3, <4>2, <5>2, <6>1
        <5> QED BY <5>1, <5>2
      <4> QED BY <3>2, <3>3, <4>4 DEF Numbering
    <3>7. Reading' = Reading
      BY <1>2 DEF Reading
    <3>8. Flow(l + 1, first)'
      BY <1>2, <2>1, <3>2, <3>4, <3>5, <3>6, <3>7 DEF Flow
    <3> QED BY <3>8
  <2> QED BY <2>2, <2>3, <2>4 DEF Wire
<1>4. CASE client.served /\ fault' = "sent" /\ UNCHANGED <<waitreplys, outcome, asked, client>>
  <2>1. Bytes' /\ Right' /\ ~Sound'
    BY <1>1, <1>2, <1>4 DEF Bytes, Right, Sound, Serving
  <2> QED BY <2>1 DEF Wire, Flows
<1> QED BY <1>2, <1>3, <1>4 DEF _chk_redis_execute

(* To answer the first that waits makes no request. *)
LEMMA NumberingKept ==
  ASSUME Parts, NEW l, Numbering(l), waitreplys # <<>>, NEW how, how # "none",
         outcome' = [outcome EXCEPT ![Head(waitreplys)] = how]
  PROVE  Numbering(l)'
<1>1. ListTypes /\ ListMatches
  BY DEF Parts, Requests
<1>2. Head(waitreplys) \in ToSet(waitreplys) /\ Head(waitreplys) \in Request
  <2>1. /\ waitreplys \in Seq(Request) /\ Len(waitreplys) \in Nat /\ Len(waitreplys) > 0
        /\ Head(waitreplys) = waitreplys[1] /\ DOMAIN waitreplys = 1..Len(waitreplys)
    BY <1>1 DEF ListTypes
  <2>2. 1 \in DOMAIN waitreplys
    BY <2>1
  <2> QED BY <2>1, <2>2 DEF ToSet
<1>3. outcome[Head(waitreplys)] = "waiting"
  BY <1>1, <1>2 DEF ListMatches
<1>4. outcome \in [Request -> {"none", "waiting", "reply", "timeout", "loss"}]
  BY <1>1 DEF ListTypes
<1>5. \A s \in Request : outcome'[s] = "none" <=> outcome[s] = "none"
  BY <1>2, <1>3, <1>4
<1> QED BY <1>5 DEF Numbering

LEMMA TimeoutNextWires ==
  ASSUME Parts, Wire, Sound, pc \in {"loop", "due"}, client.life = "open", TimeoutNext
  PROVE  Wire'
<1>1. ClientTypes /\ FreedCleanly /\ Stages /\ Requests /\ Bytes /\ Right /\ Flows
  BY DEF Parts, Life, Wire
<1>2. waitreplys # <<>> /\ waitreplys \in Seq(Request)
  <2>1. overdue > 0 /\ overdue \in 0..Len(waitreplys) /\ waitreplys \in Seq(Request)
    BY <1>1 DEF TimeoutNext, Requests, ListTypes
  <2> QED BY <2>1
<1>3. /\ pc' \in {"timeout", "due"} /\ UNCHANGED <<tree, data, stream, fault, asked, sent, wrong>>
      /\ waitreplys' = Tail(waitreplys)
      /\ outcome' = [outcome EXCEPT ![Head(waitreplys)] = "timeout"]
      /\ client' = [client EXCEPT !.timeout_count = client.timeout_count + 1,
                                  !.incb = pc' = "timeout"]
  BY DEF TimeoutNext, Counted, memory, server, Popped, Answered
<1>4. client'.life = client.life /\ client'.served = client.served
      /\ client'.timeout_count = client.timeout_count + 1
  BY <1>1, <1>3 DEF ClientTypes
<1>5. Bytes'
  BY <1>1, <1>3, <1>4 DEF Bytes, Serving, Destroying
<1>6. Right'
  BY <1>1, <1>3 DEF Right, Sound
<1>7. Flows'
  <2> SUFFICES ASSUME Serving' PROVE \E l, first : Flow(l, first)'
    BY DEF Flows
  <2>1. PICK l, first : Flow(l, first)
    BY <1>1, <1>4 DEF Flows, Destroying, Serving
  <2>2. /\ l \in Nat /\ first \in Nat /\ client.timeout_count \in Nat /\ l <= MaxRequests
        /\ waitreplys \in Seq(Request) /\ asked \in Seq(Request)
        /\ Due(l, first, client.timeout_count, waitreplys, asked)
        /\ Carried(Unread(l, first, asked, sent), Reading, data \o stream)
        /\ \A s \in Request : outcome[s] = "none" <=> s > l
    BY <2>1, FlowTypes
  <2>3. Due(l, first, client.timeout_count + 1, Tail(waitreplys), asked)
    BY <1>2, <2>2, DueTimedOut
  <2>4. Numbering(l)'
    BY <1>2, <1>3, <2>1, NumberingKept DEF Flow
  <2>5. Reading' = Reading
    BY <1>3 DEF Reading
  <2>6. Flow(l, first)'
    BY <1>3, <1>4, <2>2, <2>3, <2>4, <2>5 DEF Flow
  <2> QED BY <2>6
<1> QED BY <1>5, <1>6, <1>7 DEF Wire

LEMMA TimeoutWires ==
  ASSUME Parts, Wire, Sound, timeout_cb \/ TimeoutReturns \/ TimeoutContinues
  PROVE  Wire'
<1>1. ClientTypes /\ FreedCleanly /\ Stages /\ Bytes /\ Right /\ Flows
  BY DEF Parts, Life, Wire
<1>2. CASE timeout_cb
  BY <1>1, <1>2, TimeoutNextWires DEF timeout_cb, Stages, ClientTypes, At
<1>3. CASE TimeoutReturns
  <2>1. /\ pc = "timeout" /\ client' = [client EXCEPT !.incb = FALSE]
        /\ UNCHANGED <<waitreplys, data, stream, asked, sent, outcome, wrong, fault>>
        /\ pc' = "destroy" \/ (pc' = "due" /\ tree' = tree)
    <3>1. CASE client.close
      BY <1>3, <3>1 DEF TimeoutReturns, At, destroy_redisclient, memory, server, history
    <3>2. CASE ~client.close
      BY <1>3, <3>2 DEF TimeoutReturns, At, memory, server, history
    <3> QED BY <3>1, <3>2
  <2>2. Serving' = Serving /\ client'.life = client.life /\ client'.timeout_count = client.timeout_count
    BY <1>1, <2>1 DEF Serving, ClientTypes
  <2>3. Bytes' /\ Right'
    BY <1>1, <2>1, <2>2 DEF Bytes, Right, Sound, Destroying
  <2>4. Flows'
    BY <1>1, <2>1, <2>2, FlowKept, FlowEnds DEF Destroying, Reading
  <2> QED BY <2>3, <2>4 DEF Wire
<1>4. CASE TimeoutContinues
  <2>1. CASE TimeoutNext
    BY <1>1, <1>4, <2>1, TimeoutNextWires DEF TimeoutContinues, Stages, At
  <2>2. CASE /\ overdue = 0 /\ pc' = "loop"
             /\ UNCHANGED <<client, tree, waitreplys, overdue, data, back, memory, server, history>>
    <3>1. /\ pc = "due"
          /\ UNCHANGED <<client, tree, waitreplys, data, stream, asked, sent, outcome, wrong, fault>>
      BY <1>4, <2>2 DEF TimeoutContinues, At, memory, server, history
    <3>2. Bytes' /\ Right' /\ Serving' = Serving /\ Reading' = Reading
      BY <1>1, <2>2, <3>1 DEF Bytes, Right, Sound, Destroying, Serving, Reading
    <3>3. Flows'
      BY <1>1, <2>2, <3>1, <3>2, FlowKept DEF Destroying
    <3> QED BY <3>2, <3>3 DEF Wire
  <2> QED BY <1>4, <2>1, <2>2 DEF TimeoutContinues
<1> QED BY <1>2, <1>3, <1>4
-----------------------------------------------------------------------------
LEMMA QuietWires ==
  ASSUME Parts, Wire, Sound,
         ReplyReturns \/ (\E n \in 1..Len(stream) : data_cb(n)) \/ Server \/ DeadlinePasses
  PROVE  Wire'
<1>1. ClientTypes /\ ServerTypes /\ FreedCleanly /\ Stages /\ Requests /\ Bytes /\ Right /\ Flows
  BY DEF Parts, Life, Wire
<1>2. CASE ReplyReturns
  <2>1. /\ pc = "reply" /\ client' = [client EXCEPT !.incb = FALSE] /\ tree' = <<>>
        /\ UNCHANGED <<waitreplys, data, stream, asked, sent, outcome, wrong, fault>>
    BY <1>2 DEF ReplyReturns, At, memory, server, history
  <2>2. \/ pc' = "destroy"
        \/ pc' = "loop" /\ data = <<>>
        \/ pc' = "parse" /\ data # <<>>
    <3>1. CASE client.close
      BY <1>2, <3>1 DEF ReplyReturns
    <3>2. CASE ~client.close
      BY <1>2, <3>2 DEF ReplyReturns
    <3> QED BY <3>1, <3>2
  <2>3. Serving' = Serving /\ client'.life = client.life /\ client'.timeout_count = client.timeout_count
    BY <1>1, <2>1 DEF Serving, ClientTypes
  <2>4. Bytes' /\ Right'
    BY <1>1, <2>1, <2>2, <2>3 DEF Bytes, Right, Sound, Destroying
  <2>5. pc' # "reply" /\ pc \notin Destroying
    BY <2>1, <2>2 DEF Destroying
  <2>6. Reading' = Reading
    BY <2>1, <2>5 DEF Reading
  <2>7. Flows'
    BY <1>1, <2>1, <2>3, <2>5, <2>6, FlowKept
  <2> QED BY <2>4, <2>7 DEF Wire
<1>3. ASSUME NEW n \in 1..Len(stream), data_cb(n) PROVE Wire'
  <2>1. /\ pc = "loop" /\ client.life = "open" /\ client.served /\ pc' = "parse"
        /\ data' = SubSeq(stream, 1, n) /\ stream' = SubSeq(stream, n + 1, Len(stream))
        /\ UNCHANGED <<client, tree, waitreplys, asked, sent, outcome, wrong, fault>>
    BY <1>3 DEF data_cb, At, memory, history
  <2>2. data = <<>> /\ stream \in Seq(Byte) /\ Serving /\ Serving'
    BY <1>1, <2>1 DEF Bytes, Destroying, Serving
  <2>3. data' \in Seq(Byte) /\ stream' \in Seq(Byte) /\ data' # <<>> /\ data' \o stream' = stream
    <3>1. Len(stream) \in Nat /\ n \in 1..Len(stream)
      BY <2>2
    <3>2. \A j \in 1..Len(stream) : stream[j] \in Byte
      BY <2>2
    <3>3. data' \in Seq(Byte) /\ Len(data') = n
      BY <2>1, <2>2, <3>1, <3>2
    <3>4. stream' \in Seq(Byte)
      BY <2>1, <2>2, <3>1, <3>2
    <3>5. /\ 1 \in 1..(Len(stream) + 1) /\ n \in (1 - 1)..Len(stream) /\ Len(stream) \in n..Len(stream)
      BY <3>1
    <3>6. SubSeq(stream, 1, n) \o SubSeq(stream, n + 1, Len(stream)) = SubSeq(stream, 1, Len(stream))
      BY ONLY <2>2, <3>5, ConcatAdjacentSubSeq
    <3>7. SubSeq(stream, 1, Len(stream)) = stream
      BY <2>2
    <3>8. Len(<<>>) = 0
      OBVIOUS
    <3>9. data' # <<>>
      BY <3>1, <3>3, <3>8
    <3>10. data' \o stream' = stream
      BY ONLY <2>1, <3>6, <3>7
    <3> QED BY <3>3, <3>4, <3>9, <3>10
  <2>4. data' \o stream' = data \o stream
    BY <2>2, <2>3
  <2>5. Bytes' /\ Right'
    BY <1>1, <2>1, <2>2, <2>3 DEF Bytes, Right, Sound, Destroying, Serving
  <2>6. Flows'
    <3>1. PICK l, first : Flow(l, first)
      BY <1>1, <2>1, <2>2 DEF Flows, Destroying
    <3>2. Reading' = Reading
      BY <2>1 DEF Reading
    <3>3. Flow(l, first)'
      BY <2>1, <2>4, <3>1, <3>2 DEF Flow, Numbering
    <3> QED BY <3>3 DEF Flows
  <2> QED BY <2>5, <2>6 DEF Wire
<1>4. ASSUME NEW m \in Messages, Answer(m) PROVE Wire'
  <2>1. /\ asked # <<>> /\ stream' = stream \o m.bytes /\ asked' = Tail(asked)
        /\ sent' = [sent EXCEPT ![Head(asked)] = m]
        /\ UNCHANGED <<client, tree, waitreplys, data, pc, outcome, wrong, fault>>
    BY <1>4 DEF Answer, memory, history
  <2>2. m.bytes \in Seq(Byte) /\ data \in Seq(Byte) /\ stream \in Seq(Byte)
    BY <1>1, MessageBytes DEF Bytes
  <2>3. stream' \in Seq(Byte) /\ Serving' = Serving /\ Reading' = Reading /\ Serving
    BY <1>1, <2>1, <2>2 DEF Serving, Reading, Bytes
  <2>4. Bytes' /\ Right'
    BY <1>1, <2>1, <2>3 DEF Bytes, Right, Sound, Destroying
  <2>5. Flows'
    <3> SUFFICES ASSUME pc \notin Destroying PROVE \E l, first : Flow(l, first)'
      BY <2>1 DEF Flows
    <3>1. PICK l, first : Flow(l, first)
      BY <1>1, <2>3 DEF Flows
    <3>2. /\ l \in Nat /\ first \in Nat /\ client.timeout_count \in Nat /\ l <= MaxRequests
          /\ waitreplys \in Seq(Request) /\ asked \in Seq(Request)
          /\ Due(l, first, client.timeout_count, waitreplys, asked)
          /\ Carried(Unread(l, first, asked, sent), Reading, data \o stream)
          /\ sent \in [Request -> Messages \cup {NoMessage}]
          /\ \A s \in Request : outcome[s] = "none" <=> s > l
      BY <3>1, FlowTypes
    <3>3. Due(l, first, client.timeout_count, waitreplys, asked')
      BY <2>1, <3>2, DueAnswered
    <3> DEFINE u == Unread(l, first, asked, sent)
    <3>4. u \in Seq(Messages)
      BY <3>2 DEF Carried
    <3>5. Unread(l, first, asked', sent') = Append(u, m)
      <4> DEFINE k == client.timeout_count
      <4>1. asked # <<>> /\ m \in Messages /\ sent' = Updated(sent, Head(asked), m)
        BY <2>1 DEF Updated
      <4>2. Unread(l, first, asked, sent) \in Seq(Messages)
        BY <3>4
      <4>3. /\ l \in Nat /\ first \in Nat /\ k \in Nat /\ l <= MaxRequests
            /\ waitreplys \in Seq(Request) /\ asked \in Seq(Request)
            /\ Due(l, first, k, waitreplys, asked)
            /\ OfRequests(sent)
        BY <3>2 DEF OfRequests
      <4> HIDE DEF k
      <4>4. Unread(l, first, Tail(asked), sent') = Append(Unread(l, first, asked, sent), m)
        BY ONLY <4>1, <4>2, <4>3, UnreadMore
      <4> QED BY <2>1, <4>4
    <3>6. Carried(Append(u, m), Reading, (data \o stream) \o m.bytes)
      <4>1. data \o stream \in Seq(Byte)
        BY <2>2
      <4> QED BY <3>2, <4>1, CarriedMore
    <3>7. (data \o stream) \o m.bytes = data \o (stream \o m.bytes)
      BY ONLY <2>2, BytesAssociate
    <3>8. Carried(Unread(l, first, asked, sent), Reading, data \o stream)'
      BY <2>1, <2>3, <3>5, <3>6, <3>7
    <3>9. Flow(l, first)'
      BY <2>1, <3>2, <3>3, <3>8 DEF Flow, Numbering
    <3> QED BY <3>9
  <2> QED BY <2>4, <2>5 DEF Wire
<1>5. CASE DeadlinePasses
  <2>1. UNCHANGED <<client, tree, waitreplys, data, pc, stream, asked, sent, outcome, wrong, fault>>
    BY <1>5 DEF DeadlinePasses, memory, server, history
  <2>2. Bytes' /\ Right' /\ Serving' = Serving /\ Reading' = Reading
    BY <1>1, <2>1 DEF Bytes, Right, Sound, Destroying, Serving, Reading
  <2>3. Flows'
    BY <1>1, <2>1, <2>2, FlowKept
  <2> QED BY <2>2, <2>3 DEF Wire
<1> QED BY <1>2, <1>3, <1>4, <1>5 DEF Server
-----------------------------------------------------------------------------
(* A read is parsed: it gets no further, or into the message it belongs to, *)
(* or to the end of the next message, which is the reply of the next request.*)
LEMMA ParseWires ==
  ASSUME Parts, Wire, Sound, ParseNext
  PROVE  Wire'
<1> DEFINE p == ParseChunk(tree, data)
<1>1. ClientTypes /\ FreedCleanly /\ Stages /\ Requests /\ Bytes /\ Right /\ Flows
  BY DEF Parts, Life, Wire
<1>2. /\ pc = "parse" /\ Serving /\ data # <<>> /\ data \in Seq(Byte) /\ stream \in Seq(Byte)
      /\ wrong = {}
  BY <1>1 DEF ParseNext, At, Bytes, Right
<1>3. CASE SignLost(tree)
  <2>1. fault' = "sign"
    BY <1>3 DEF ParseNext
  <2> QED BY <2>1 DEF Wire, Right, Sound
<1>4. CASE ~SignLost(tree) /\ p.swallowed
  <2>1. fault' = "nilarray"
    BY <1>4 DEF ParseNext
  <2> QED BY <2>1 DEF Wire, Right, Sound
<1>5. CASE ~SignLost(tree) /\ ~p.swallowed
  <2>1. PICK l, first : Flow(l, first)
    BY <1>1, <1>2 DEF Flows, Destroying
  <2>2. /\ l \in Nat /\ first \in Nat /\ client.timeout_count \in Nat /\ l <= MaxRequests
        /\ waitreplys \in Seq(Request) /\ asked \in Seq(Request)
        /\ Due(l, first, client.timeout_count, waitreplys, asked)
        /\ Carried(Unread(l, first, asked, sent), Reading, data \o stream)
    BY <2>1, FlowTypes
  <2>3. Reading = tree /\ Numbering(l)
    BY <1>2, <2>1 DEF Reading, Flow
  <2> DEFINE u == Unread(l, first, asked, sent)
  <2> DEFINE k == client.timeout_count
  <2>4. CarriedOn(u, p, data, stream)
    <3> HIDE DEF u
    <3>1. Carried(u, tree, data \o stream)
      BY <2>2, <2>3 DEF u
    <3>2. p = ParseChunk(tree, data) /\ ~p.swallowed /\ ~SignLost(tree)
      BY <1>5
    <3> HIDE DEF p
    <3> QED BY ONLY <1>2, <3>1, <3>2, CarriedParsed
  <2>5. ReplyParsed(p) \/ MoreNeeded(p) \/ ParseFailed(p) \/ LineOverran(p)
    BY DEF ParseNext
  <2>6. fault' = IF p.ret = "overrun" THEN "overrun"
                 ELSE IF p.ret = "ok" /\ ~Skipped(p) /\ waitreplys = <<>> THEN "unsolicited"
                 ELSE fault
    BY <1>5 DEF ParseNext
  <2> HIDE DEF p, u, k
  <2>7. CASE p.ret = "err"
    <3>1. /\ client' = [client EXCEPT !.close = TRUE] /\ pc' = "destroy"
          /\ UNCHANGED <<data, asked, stream, wrong>>
      BY <2>5, <2>7 DEF ReplyParsed, MoreNeeded, ParseFailed, LineOverran, destroy_redisclient, server, history
    <3>2. fault' = fault
      BY <2>6, <2>7
    <3>3. Serving' /\ client'.life = client.life
      BY <1>1, <1>2, <3>1 DEF Serving, ClientTypes
    <3>4. Bytes' /\ Right'
      BY <1>1, <1>2, <3>1, <3>2, <3>3 DEF Bytes, Right, Destroying, Sound, Serving
    <3> QED BY <3>1, <3>4, FlowEnds DEF Wire, Destroying
  <2>8. CASE p.ret = "retry"
    <3>1. /\ tree' = p.tree /\ data' = <<>> /\ pc' = "loop"
          /\ UNCHANGED <<client, waitreplys, asked, stream, sent, outcome, wrong>>
      BY <2>5, <2>8 DEF ReplyParsed, MoreNeeded, ParseFailed, LineOverran, server, history
    <3>2. fault' = fault
      BY <2>6, <2>8
    <3>3. Serving'
      BY <1>2, <3>1 DEF Serving
    <3>4. Bytes' /\ Right'
      BY <1>1, <1>2, <3>1, <3>2, <3>3 DEF Bytes, Right, Destroying, Sound, Serving
    <3>5. Carried(u, p.tree, stream)
      BY <2>4, <2>8 DEF CarriedOn
    <3>6. data' \o stream' = stream
      BY <1>2, <3>1, ConcatEmptySeq
    <3>7. Reading' = p.tree
      BY <3>1 DEF Reading
    <3>8. Carried(Unread(l, first, asked, sent), Reading, data \o stream)'
      BY <3>1, <3>5, <3>6, <3>7 DEF u
    <3>9. Flow(l, first)'
      BY <2>2, <2>3, <3>1, <3>8 DEF Flow, Numbering
    <3> QED BY <3>4, <3>9 DEF Wire, Flows
  <2>9. CASE p.ret = "ok"
    <3> DEFINE rest == Rest(p)
    <3>1. /\ u # <<>> /\ redisReply(Last(p.tree)) = u[1].reply /\ p.used \in 1..Len(data)
          /\ Carried(Tail(u), <<>>, rest \o stream)
      BY <2>4, <2>9 DEF CarriedOn, Rest
    <3>2. u \in Seq(Messages)
      BY <2>2 DEF Carried, u
    <3>3. first + Len(asked) < l /\ u[1] = sent[first + 1] /\ Tail(u) = Unread(l, first + 1, asked, sent)
      BY <2>2, <3>1, <3>2, UnreadNext DEF u
    <3>4. ReplyParsed(p)
      BY <2>5, <2>9 DEF MoreNeeded, ParseFailed, LineOverran
    <3>5. rest \in Seq(Byte)
      <4>1. p.used \in 0..Len(data)
        <5>1. Len(data) \in Nat
          BY <1>2
        <5> QED BY <3>1, <5>1
      <4> QED BY <1>2, <4>1, RestOfRead DEF Rest
    <3>6. /\ k > 0 => Due(l, first + 1, k - 1, waitreplys, asked)
          /\ k = 0 => /\ waitreplys # <<>> /\ Head(waitreplys) = first + 1
                      /\ Due(l, first + 1, 0, Tail(waitreplys), asked)
      BY <2>2, <3>3, DueRead DEF k
    <3> HIDE DEF rest
    <3>7. first + 1 \in Nat /\ k \in Nat
      BY <2>2 DEF k
    <3>8. AfterReply(p) = IF rest = <<>> THEN "loop" ELSE "parse"
      BY DEF AfterReply, rest
    <3>9. CASE Skipped(p)
      <4>1. k > 0
        BY <3>9 DEF Skipped, k
      <4>2. /\ client' = [client EXCEPT !.timeout_count = @ - 1] /\ tree' = <<>> /\ data' = rest
            /\ pc' = AfterReply(p)
            /\ UNCHANGED <<waitreplys, asked, stream, sent, outcome, wrong>>
        BY <3>4, <3>9 DEF ReplyParsed, rest, server, history
      <4>3. fault' = fault
        BY <2>6, <2>9, <3>9
      <4>4. Serving' /\ client'.life = client.life /\ client'.timeout_count = k - 1
        BY <1>1, <1>2, <4>2 DEF Serving, ClientTypes, k
      <4>5. Bytes'
        BY <1>1, <1>2, <3>5, <3>8, <4>2, <4>4 DEF Bytes, Destroying, Serving
      <4>6. Right'
        BY <1>1, <4>2, <4>3 DEF Right, Sound
      <4>7. Reading' = <<>>
        BY <4>2 DEF Reading
      <4>8. Carried(Unread(l, first + 1, asked, sent), Reading, data \o stream)'
        BY <3>1, <3>3, <4>2, <4>7
      <4>9. Flow(l, first + 1)'
        BY <2>3, <3>6, <3>7, <4>1, <4>2, <4>4, <4>8 DEF Flow, Numbering
      <4> QED BY <4>5, <4>6, <4>9 DEF Wire, Flows
    <3>10. CASE ~Skipped(p)
      <4>1. k = 0
        BY <3>7, <3>10 DEF Skipped, k
      <4>2. /\ waitreplys # <<>> /\ Head(waitreplys) = first + 1
            /\ Due(l, first + 1, 0, Tail(waitreplys), asked)
        BY <3>6, <4>1
      <4>3. redisReply(Last(p.tree)) = sent[Head(waitreplys)].reply
        BY <3>1, <3>3, <4>2
      <4>4. /\ Popped("reply") /\ wrong' = wrong /\ data' = rest
            /\ pc' \in {"reply", AfterReply(p)}
            /\ client' = [client EXCEPT !.incb = pc' = "reply"]
            /\ tree' = IF pc' = "reply" THEN p.tree ELSE <<>>
            /\ UNCHANGED <<asked, stream, sent>>
        BY <3>4, <3>10, <4>2, <4>3 DEF ReplyParsed, rest, server
      <4>5. fault' = fault
        BY <2>6, <2>9, <4>2
      <4>6. Serving' /\ client'.life = client.life /\ client'.timeout_count = k
        BY <1>1, <1>2, <4>4 DEF Serving, ClientTypes, k
      <4>7. Bytes'
        BY <1>1, <1>2, <3>5, <3>8, <4>4, <4>6 DEF Bytes, Destroying, Serving
      <4>8. Right'
        BY <1>1, <4>4, <4>5 DEF Right, Sound
      <4>9. Reading' = <<>>
        BY <4>4 DEF Reading
      <4>10. Carried(Unread(l, first + 1, asked, sent), Reading, data \o stream)'
        BY <3>1, <3>3, <4>4, <4>9
      <4>11. /\ waitreplys' = Tail(waitreplys)
             /\ outcome' = [outcome EXCEPT ![Head(waitreplys)] = "reply"]
        BY <4>4 DEF Popped, Answered
      <4>12. Numbering(l)'
        BY <2>3, <4>2, <4>11, NumberingKept
      <4>13. Flow(l, first + 1)'
        BY <3>7, <4>1, <4>2, <4>4, <4>6, <4>10, <4>11, <4>12 DEF Flow
      <4> QED BY <4>7, <4>8, <4>13 DEF Wire, Flows
    <3> QED BY <3>9, <3>10
  <2>10. CASE p.ret = "overrun"
    <3>1. fault' = "overrun"
      BY <2>6, <2>10
    <3> QED BY <3>1 DEF Wire, Right, Sound
  <2> QED BY <2>4, <2>7, <2>8, <2>9, <2>10 DEF CarriedOn
<1> QED BY <1>3, <1>4, <1>5

LEMMA InitWires == Init => Wire
<1> SUFFICES ASSUME Init PROVE Wire
  OBVIOUS
<1>1. Bytes /\ Right
  BY DEF Init, Bytes, Right, Sound, Serving, Destroying
<1>2. ~Serving
  BY DEF Init, Serving
<1> QED BY <1>1, <1>2 DEF Wire, Flows

LEMMA NextWires == Parts /\ Wire /\ [Next]_vars => Wire'
<1> SUFFICES ASSUME Parts, Wire, [Next]_vars PROVE Wire'
  OBVIOUS
<1>1. CASE UNCHANGED vars
  BY <1>1 DEF vars, memory, server, history, Wire, Bytes, Right, Flows, Flow, Sound, Serving,
     Numbering, Reading
<1>2. CASE Next
  <2>1. Sound
    BY <1>2 DEF Next
  <2>2. CASE lua_redis_connect_ip4 \/ connect_callback \/ lua_redis_connect_cb
    BY <2>1, <2>2, ConnectWires
  <2>3. CASE LuaStep
    BY <2>1, <2>3, ExecuteWires, LuaWires DEF LuaStep
  <2>4. CASE Returns
    BY <2>1, <2>4, ConnectWires, DestroyWires, TimeoutWires, QuietWires DEF Returns
  <2>5. CASE ParseNext \/ timeout_cb
    BY <2>1, <2>5, ParseWires, TimeoutWires
  <2>6. CASE Reads \/ Server \/ DeadlinePasses
    BY <2>1, <2>6, DestroyWires, QuietWires DEF Reads
  <2> QED BY <1>2, <2>2, <2>3, <2>4, <2>5, <2>6 DEF Next
<1> QED BY <1>1, <1>2

(* What is true of the bytes, besides. *)
THEOREM RedisBytesInvariant == Spec => [](IInv /\ Wire)
<1>1. Init => IInv /\ Wire
  BY InitParts, InitWires, Split
<1>2. IInv /\ Wire /\ [Next]_vars => IInv' /\ Wire'
  BY NextKeeps, NextWires, Split
<1> QED BY <1>1, <1>2, PTL DEF Spec

(* A reply never comes unexpected: chk_client.c finds a request that waits, *)
(* or one that timed out is counted, for every reply that it parses.        *)
THEOREM RedisClientSafe == Spec => []RedisSafe
<1>1. IInv /\ Wire => RedisSafe
  BY DEF IInv, Core, Wire, Right, RedisSafe, RepliesExpected
<1> QED BY <1>1, RedisBytesInvariant, PTL

(* A request is answered by its own reply, for any requests, any messages   *)
(* and any cuts of the bytes (chk_client.c, data_cb), until the parser      *)
(* loses a sign, meets a nil array or gets a line that tmp_buff cannot hold.*)
THEOREM RequestGetsItsReply == Spec => []OwnReply
<1>1. IInv /\ Wire => OwnReply
  BY DEF Wire, Right, OwnReply
<1> QED BY <1>1, RedisBytesInvariant, PTL
=============================================================================
