--------------------------- MODULE RedisCommand ---------------------------
(***************************************************************************)
(* What chk_client.c sends for a command: an array of strings.  Lua gives  *)
(* the arguments one by one; C gives a printf-like format, for which the   *)
(* length of the whole is computed before it is written.                   *)
(***************************************************************************)
EXTENDS RedisReply

Decimal[n \in Nat] == IF n < 10 THEN <<48 + n>> ELSE Append(Decimal[n \div 10], 48 + (n % 10))
Number(n) == IF n < 0 THEN <<Minus>> \o Decimal[-n] ELSE Decimal[n]

(* The bytes of a number in decimal; a bound: seven digits instead of 19.  *)
Powers == <<10, 100, 1000, 10000, 100000, 1000000>>
BugIntlen(num) ==
  LET digits(n) == 1 + Len(SelectSeq(Powers, LAMBDA p : p < n))
  IN IF num < 0 THEN 1 + digits(-num) ELSE digits(num)
intlen(num) ==
  LET digits(n) == 1 + Len(SelectSeq(Powers, LAMBDA p : p <= n))
  IN IF num < 0 THEN 1 + digits(-num) ELSE digits(num)
bulklen(len) == 1 + intlen(len) + 2 + len + 2

append_head(num) == <<Star>> \o Decimal[num] \o CRLF
append_str(str) == <<Dollar>> \o Decimal[Len(str)] \o CRLF \o str \o CRLF
append_int(num) == <<Dollar>> \o Decimal[intlen(num)] \o CRLF \o Number(num) \o CRLF

(* Arguments from Lua: strings, numbers, and values that are refused.      *)
append_number(arg) == IF arg.kind = "int" THEN append_int(arg.num) ELSE append_str(arg.str)
AppendArgument(cmd, arg) ==
  IF cmd = <<>> \/ arg.kind = "other" THEN <<>>
  ELSE cmd \o IF arg.kind = "string" THEN append_str(arg.str) ELSE append_number(arg)
_chk_redis_execute_lua(cmd, args) ==
  FoldLeft(AppendArgument, append_head(Len(args) + 1) \o append_str(cmd), args)

-----------------------------------------------------------------------------
(* A format is a sequence of pieces: a blank, which ends an argument, a    *)
(* literal text, a directive with the text it stands for, or a directive   *)
(* that is refused.  A directive that stands for nothing makes an empty    *)
(* argument.                                                               *)
Pending == [argv |-> <<>>, cur |-> <<>>, touched |-> FALSE, err |-> FALSE]
EndArgument(f) ==
  IF f.touched THEN [f EXCEPT !.argv = Append(@, f.cur), !.cur = <<>>, !.touched = FALSE] ELSE f
Piece(f, p) ==
  IF f.err THEN f
  ELSE IF p.kind = "invalid" THEN [f EXCEPT !.err = TRUE]
  ELSE IF p.kind = "blank" THEN EndArgument(f)
  ELSE [f EXCEPT !.cur = @ \o p.str, !.touched = TRUE]
Arguments(format) == EndArgument(FoldLeft(Piece, Pending, format))

Sum(op(_), s) == FoldLeft(LAMBDA sum, x : sum + op(x), 0, s)
totlen(argv) ==
  Sum(LAMBDA arg : bulklen(Len(arg)), argv) + 1 + intlen(Len(argv)) + 2
redisvFormatCommand(format) ==
  LET f == Arguments(format)
  IN IF f.err THEN <<>>
     ELSE append_head(Len(f.argv)) \o FoldLeft(LAMBDA cmd, arg : cmd \o append_str(arg), <<>>, f.argv)

-----------------------------------------------------------------------------
(* The command as its receiver understands it, by the parser of replies.   *)
Received(cmd) ==
  LET p == ParseChunk(<<>>, cmd)
      elements == redisReply(Last(p.tree)).element
  IN [whole |-> p.ret = "ok" /\ p.used = Len(cmd),
      argv |-> [i \in 1..Len(elements) |-> elements[i].str]]

(* The arguments a format means: what stands between blanks.               *)
Meant(format) ==
  LET blank(i) == i \in {0, Len(format) + 1} \/ format[i].kind = "blank"
      firsts == {i \in 1..Len(format) : blank(i - 1) /\ ~blank(i)}
      end(i) == CHOOSE j \in i..Len(format) + 1 : blank(j) /\ \A k \in i..(j - 1) : ~blank(k)
      text(i) == FlattenSeq([k \in 1..(end(i) - i) |-> format[i + k - 1].str])
      order == SetToSortSeq(firsts, <)
  IN [n \in 1..Len(order) |-> text(order[n])]
=============================================================================
