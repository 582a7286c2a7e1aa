--------------------------- MODULE MCRedisClient ---------------------------
EXTENDS RedisClient, RedisCommand

(* Replies that tell the request they were sent for. *)
Told(r) == <<48 + r>>
One == Status(<<>>)
TooLong(r) == Error([i \in 1..(r + 1) |-> 48 + r])
Sent(r) ==
  {Status(Told(r)), Negative(Told(r)), String(<<50>>, Told(r) \o <<CR>>), Nil,
   Array(<<50>>, <<Integer(Told(r)), Array(<<49>>, <<One>>)>>), Array(<<48>>, <<>>),
   NilArray, Array(<<50>>, <<NilArray, One>>), Garbage(Told(r)), TooLong(r)}
MCReplies == [r \in 1..MaxRequests |-> Sent(r)]
MCMessages ==
  UNION {Sent(r) \cup {Integer(Told(r))} : r \in 1..MaxRequests}
  \cup {One, Array(<<49>>, <<One>>)}

Ten == [i \in 1..10 |-> 97]
Texts == {<<>>, <<CR>>, Ten}
Args == [kind : {"string", "fraction"}, str : Texts, num : {0}]
        \cup [kind : {"int"}, str : {<<>>}, num : {-100, -9, 0, 10, 99, 100}]
        \cup {[kind |-> "other", str |-> <<>>, num |-> 0]}
Format == [kind : {"text"}, str : Texts \ {<<>>}] \cup [kind : {"directive"}, str : Texts]
          \cup [kind : {"blank", "invalid"}, str : {<<>>}]
Formats == UNION {[1..n -> Format] : n \in 0..4}

Text(arg) == IF arg.kind = "int" THEN Number(arg.num) ELSE arg.str
Refused(pieces, kind) == \E i \in DOMAIN pieces : pieces[i].kind = kind

(* A command that is built from Lua or from a format is understood as the  *)
(* arguments that were given, and is as long as was computed for it (the   *)
(* assertion of redisvFormatCommand); a refused argument sends nothing.    *)
(* No state is involved: it is evaluated in the initial state only.        *)
CommandReceived ==
  client.life = "new" =>
    /\ \A args \in UNION {[1..n -> Args] : n \in 0..2} :
         LET cmd == _chk_redis_execute_lua(Ten, args)
         IN IF Refused(args, "other") THEN cmd = <<>>
            ELSE Received(cmd) =
                   [whole |-> TRUE, argv |-> <<Ten>> \o [i \in DOMAIN args |-> Text(args[i])]]
    /\ \A format \in Formats :
         LET cmd == redisvFormatCommand(format)
         IN IF Refused(format, "invalid") THEN cmd = <<>>
            ELSE /\ Received(cmd) = [whole |-> TRUE, argv |-> Meant(format)]
                 /\ totlen(Arguments(format).argv) = Len(cmd)
=============================================================================
