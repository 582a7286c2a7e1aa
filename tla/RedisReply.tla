---------------------------- MODULE RedisReply ----------------------------
(***************************************************************************)
(* The reply parser of chk_client.c, resumed at whatever byte the data of  *)
(* a read ended.  A tree of replies under construction is the path from    *)
(* its root to the node that is being parsed: the earlier siblings are the *)
(* kids of its parent, and a child gets its node with its first byte.      *)
(***************************************************************************)
EXTENDS Integers, Sequences, SequencesExt

CONSTANT SIZE_TMP_BUFF   \* the bytes of tmp_buff, where a line is collected
ASSUME SizeAssumption == SIZE_TMP_BUFF \in Nat \ {0}

CR == 13
LF == 10
Minus == 45
Plus == 43
Colon == 58
Dollar == 36
Star == 42
IS_OP_CODE(c) == c \in {Plus, Minus, Colon, Dollar, Star}
IS_NUM(c) == c \in 48..57

parse_tree_new ==
  [type |-> 0, want |-> 0, lf |-> FALSE, neg |-> FALSE, nil |-> FALSE, num |-> 0,
   str |-> <<>>, kids |-> <<>>]

(* The byte that ends the part of a line that is being read. *)
Ends(n, c) == c = IF n.lf THEN LF ELSE CR
Retry(n) == [node |-> n, ret |-> "retry"]
Done(n) == [node |-> n, ret |-> "ok"]
Failed(n) == [node |-> n, ret |-> "err"]

(* A byte of a number; minus is the node with the mark of a '-'. *)
Shifted(num, c) == num * 10 + c - 48
PARSE_NUM(n, c, minus) ==
  IF c = Minus THEN Retry(minus)
  ELSE IF IS_NUM(c) THEN Retry([n EXCEPT !.num = Shifted(@, c)])
  ELSE Failed(n)

(* tmp_buff takes the bytes of a line and a 0 behind them; nothing looks    *)
(* whether they fit, and what is behind it in memory is overwritten.        *)
Overruns(n, c) == Len(n.str) >= SIZE_TMP_BUFF /\ (~Ends(n, c) \/ n.lf)
parse_line(n, c) ==
  IF Overruns(n, c) THEN [node |-> n, ret |-> "overrun"]
  ELSE IF ~Ends(n, c) THEN Retry([n EXCEPT !.str = Append(@, c)])
  ELSE IF n.lf THEN Done(n) ELSE Retry([n EXCEPT !.lf = TRUE])

(* The two last bytes of a string with a length are dropped unread. *)
parse_string(n, c) ==
  LET m == [n EXCEPT !.want = @ - 1, !.str = IF n.want > 2 THEN Append(@, c) ELSE @]
  IN IF m.want = 0 THEN Done(m) ELSE Retry(m)

parse_integer(n, c) ==
  IF ~Ends(n, c) THEN PARSE_NUM(n, c, [n EXCEPT !.neg = TRUE])
  ELSE IF n.lf THEN Done(n) ELSE Retry([n EXCEPT !.lf = TRUE])

parse_breply(n, c) ==
  IF n.want > 0 THEN parse_string(n, c)
  ELSE IF ~Ends(n, c) THEN PARSE_NUM(n, c, [n EXCEPT !.nil = TRUE])
  ELSE IF ~n.lf THEN Retry([n EXCEPT !.lf = TRUE])
  ELSE IF n.nil THEN Done(n)
  ELSE Retry([n EXCEPT !.lf = FALSE, !.want = n.num + 2])

(* Unlike parse_breply it does not return for the length -1. *)
parse_mbreply(n, c) ==
  IF ~Ends(n, c) THEN PARSE_NUM(n, c, [n EXCEPT !.nil = TRUE])
  ELSE IF ~n.lf THEN Retry([n EXCEPT !.lf = TRUE])
  ELSE LET m == [n EXCEPT !.lf = FALSE, !.want = n.num]
       IN IF m.want = 0 THEN Done(m) ELSE Retry(m)

parse(n, c) ==
  CASE n.type = 0 -> IF IS_OP_CODE(c) THEN Retry([n EXCEPT !.type = c]) ELSE Failed(n)
    [] n.type \in {Plus, Minus} -> parse_line(n, c)
    [] n.type = Colon -> parse_integer(n, c)
    [] n.type = Dollar -> parse_breply(n, c)
    [] n.type = Star -> parse_mbreply(n, c)

(* The redisReply of a node. *)
Type(n) ==
  IF n.nil THEN "nil"
  ELSE CASE n.type = Plus -> "status" [] n.type = Minus -> "error" [] n.type = Colon -> "integer"
         [] n.type = Dollar -> "string" [] n.type = Star -> "array"
redisReply(n) ==
  [type |-> Type(n), str |-> n.str, element |-> n.kids,
   integer |-> IF n.type # Colon THEN 0 ELSE IF n.neg THEN -n.num ELSE n.num]

(* An array that is nil wants an element as well, and swallows what follows.*)
WantsElement(n) == n.type = Star /\ n.want > 0
Swallows(n) == WantsElement(n) /\ n.nil
Descend(tree) == IF WantsElement(Last(tree)) THEN Append(tree, parse_tree_new) ELSE tree

(* A complete node is the next element of its parent. *)
Ascend(p, i) ==
  IF p.ret # "ok" \/ Len(p.tree) = 1 THEN p
  ELSE LET rest == Front(p.tree)
           m == [Last(rest) EXCEPT !.kids = Append(@, redisReply(Last(p.tree)))]
       IN [p EXCEPT !.tree = Append(Front(rest), m),
                    !.ret = IF Len(m.kids) = m.want THEN "ok" ELSE "retry"]

ParseByte(p, c) ==
  IF p.ret # "retry" THEN p
  ELSE LET tree == Descend(p.tree)
           r == parse(Last(tree), c)
       IN FoldLeft(Ascend, [tree |-> Append(Front(tree), r.node), ret |-> r.ret,
                            used |-> p.used + 1,
                            swallowed |-> p.swallowed \/ Swallows(Last(p.tree))], tree)

(* parse is entered again for every chunk: it sets the sign of an integer  *)
(* to 1, so a '-' at the end of the chunk before is forgotten.             *)
Entered(tree) ==
  IF tree = <<>> THEN <<parse_tree_new>>
  ELSE Append(Front(tree), [Last(tree) EXCEPT !.neg = FALSE])
SignLost(tree) == tree # <<>> /\ Last(tree).neg

ParseStart(tree) == [tree |-> Entered(tree), ret |-> "retry", used |-> 0, swallowed |-> FALSE]
ParseChunk(tree, data) == FoldLeft(ParseByte, ParseStart(tree), data)

-----------------------------------------------------------------------------
(* What a server sends, and the reply it means: the protocol's definition, *)
(* which the parser is checked against.  A message is its bytes and what   *)
(* they mean, with the digits of its number and the elements of an array.  *)
CONSTANT Messages
Message(bytes, reply, digits, parts) ==
  [bytes |-> bytes, reply |-> reply, digits |-> digits, parts |-> parts]
Reply(type, integer, str, element) ==
  [type |-> type, integer |-> integer, str |-> str, element |-> element]

CRLF == <<CR, LF>>
Line(op, text) == <<op>> \o text \o CRLF
Value(digits) == FoldLeft(Shifted, 0, digits)
Joined(bytes, m) == bytes \o m.bytes
Body(parts) == FoldLeft(Joined, <<>>, parts)

Status(text) == Message(Line(Plus, text), Reply("status", 0, text, <<>>), <<>>, <<>>)
Error(text) == Message(Line(Minus, text), Reply("error", 0, text, <<>>), <<>>, <<>>)
Integer(digits) ==
  Message(Line(Colon, digits), Reply("integer", Value(digits), <<>>, <<>>), digits, <<>>)
Negative(digits) ==
  Message(Line(Colon, <<Minus>> \o digits), Reply("integer", -Value(digits), <<>>, <<>>),
          digits, <<>>)
String(digits, text) ==
  Message(Line(Dollar, digits) \o text \o CRLF, Reply("string", 0, text, <<>>), digits, <<>>)
MinusOne == <<Minus, 49>>
Nil == Message(Line(Dollar, MinusOne), Reply("nil", 0, <<>>, <<>>), <<>>, <<>>)
Array(digits, parts) ==
  Message(Line(Star, digits) \o Body(parts),
          Reply("array", 0, <<>>, [i \in 1..Len(parts) |-> parts[i].reply]), digits, parts)
NilArray == Message(Line(Star, MinusOne), Reply("nil", 0, <<>>, <<>>), <<>>, <<>>)

(* No reply: what a server that fails sends instead of one. *)
NoReply == Reply("none", 0, <<>>, <<>>)
Garbage(bytes) == Message(bytes, NoReply, <<>>, <<>>)
NoMessage == Garbage(<<>>)

Byte == 0..255
Numeral(digits, n) == digits \in Seq({c \in Byte : IS_NUM(c)}) /\ Value(digits) = n
Protocol(m) ==
  \/ m.reply.str \in Seq(Byte \ {CR, LF}) /\ m \in {Status(m.reply.str), Error(m.reply.str)}
  \/ Numeral(m.digits, Value(m.digits)) /\ m \in {Integer(m.digits), Negative(m.digits)}
  \/ m.reply.str \in Seq(Byte) /\ Numeral(m.digits, Len(m.reply.str))
     /\ m = String(m.digits, m.reply.str)
  \/ m.parts \in Seq(Messages) /\ Numeral(m.digits, Len(m.parts)) /\ m = Array(m.digits, m.parts)
  \/ m \in {Nil, NilArray}
  \/ m = Garbage(m.bytes) /\ m.bytes # <<>> /\ ~IS_OP_CODE(Head(m.bytes))
ASSUME MessagesAssumption == \A m \in Messages : m.bytes \in Seq(Byte) /\ Protocol(m)
=============================================================================
