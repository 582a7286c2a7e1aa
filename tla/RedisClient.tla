---------------------------- MODULE RedisClient ----------------------------
(***************************************************************************)
(* chk_client.c with its Lua object (luabind/redis.h): requests are sent   *)
(* at once and wait in a list for the replies, which come in order.  The   *)
(* callback of a reply, of a timeout or of a lost connection is Lua code:  *)
(* it may send, close, or let the client's object be collected, while the  *)
(* code that called it goes on with the same client.                       *)
(***************************************************************************)
EXTENDS RedisReply, FiniteSets

CONSTANTS
  MaxRequests, \* a bound: requests of the client
  Replies      \* what the server may send for each request

Request == 1..MaxRequests
ASSUME RequestsAssumption ==
  MaxRequests \in Nat /\ Replies \in [Request -> SUBSET Messages]

VARIABLES
  client,        \* life: of the chk_redisclient; its CLIENT_CLOSE, CLIENT_INCB,
                 \* timer, timeout_count; served: the loop took the socket
  tree,          \* c->tree, <<>> for NULL
  waitreplys,
  overdue,       \* how many of the first requests are past their deadline
  data,          \* what data_cb has still to parse
  pc,            \* the code that runs
  back,          \* the code that called destroy_redisclient
  lua,           \* the userdata: its life, whether client points to the client,
                 \* whether on_connection_loss is set
  asked, stream, \* the server: requests to answer, bytes that are not read yet
  sent,          \* what was sent for each request
  outcome, wrong,\* how requests were answered; those answered by another's reply
  fault

memory == <<lua, fault>>
server == <<asked, stream, sent>>
history == <<outcome, wrong>>
vars == <<client, tree, waitreplys, overdue, data, pc, back, memory, server, history>>

At(p) == pc = p
Sound == fault = "none"
Callback == {"connect_cb", "reply", "timeout", "lose", "loss"}
InLua == pc \in {"loop"} \cup Callback

-----------------------------------------------------------------------------
(* Connection. *)

lua_redis_connect_ip4 ==
  /\ At("loop") /\ client.life = "new"
  /\ client' = [client EXCEPT !.life = "connecting"]
  /\ UNCHANGED <<tree, waitreplys, overdue, data, pc, back, memory, server, history>>

(* Nobody looks whether the loop took the socket.                          *)
connect_callback ==
  /\ At("loop") /\ client.life = "connecting"
  /\ \/ \E served \in BOOLEAN :
          /\ client' = [client EXCEPT !.life = "open", !.served = served]
          /\ pc' = "connect_cb" /\ lua' = [lua EXCEPT !.life = "held", !.client = TRUE]
     \/ client' = [client EXCEPT !.life = "freed"] /\ UNCHANGED <<pc, lua>>
  /\ UNCHANGED <<tree, waitreplys, overdue, data, back, fault, server, history>>

lua_redis_connect_cb ==
  /\ At("connect_cb") /\ pc' = "loop"
  /\ UNCHANGED <<client, tree, waitreplys, overdue, data, back, memory, server, history>>

-----------------------------------------------------------------------------
(* The end of the client.  Each request that waits loses its connection,   *)
(* also one that such a callback makes.                                    *)

destroy_redisclient(from) == pc' = "destroy" /\ back' = from /\ tree' = <<>>

Answered(r, how) == outcome' = [outcome EXCEPT ![r] = how]
BugNotPopped(how) ==
  /\ Answered(Head(waitreplys), how) /\ UNCHANGED <<waitreplys, overdue>>
Popped(how) ==
  /\ waitreplys' = Tail(waitreplys) /\ Answered(Head(waitreplys), how)
  /\ overdue' = IF overdue > 0 THEN overdue - 1 ELSE 0

(* A request may have no callback; this shows only when it is answered.    *)
LoseNext ==
  /\ At("destroy") /\ waitreplys # <<>>
  /\ Popped("loss")
  /\ pc' \in {"lose", pc}
  /\ UNCHANGED <<client, tree, data, back, memory, server, wrong>>
LoseReturns ==
  /\ At("lose") /\ pc' = "destroy"
  /\ UNCHANGED <<client, tree, waitreplys, overdue, data, back, memory, server, history>>

(* The disconnect callback uses the userdata, which may have been          *)
(* collected since the client was closed.                                  *)
Collecting == back = "gc"
lua_redis_disconnect_cb ==
  /\ At("destroy") /\ waitreplys = <<>>
  /\ client' = [client EXCEPT !.timer = FALSE]
  /\ lua' = [lua EXCEPT !.client = FALSE]
  /\ fault' = IF lua.life = "gone" THEN "userdata" ELSE fault
  /\ pc' = IF lua.onloss THEN "loss" ELSE "free"
  /\ UNCHANGED <<tree, waitreplys, overdue, data, back, server, history>>
on_connection_loss ==
  /\ At("loss") /\ pc' = "free"
  /\ UNCHANGED <<client, tree, waitreplys, overdue, data, back, memory, server, history>>

Collected == [lua EXCEPT !.life = "gone", !.client = FALSE, !.onloss = FALSE]
DestroyReturns ==
  /\ At("free")
  /\ client' = [client EXCEPT !.life = "freed"]
  /\ pc' = IF Collecting THEN "loop" ELSE back
  /\ lua' = IF Collecting THEN Collected ELSE lua
  /\ data' = <<>> /\ asked' = <<>> /\ stream' = <<>>
  /\ UNCHANGED <<tree, waitreplys, overdue, back, fault, sent, history>>

(* In a callback of the client the client is only marked. *)
BugCloseAtOnce(from) ==
  /\ client' = [client EXCEPT !.close = TRUE] /\ destroy_redisclient(from)
chk_redis_close(from) ==
  IF client.close THEN UNCHANGED <<client, pc, back, tree>>
  ELSE /\ client' = [client EXCEPT !.close = TRUE]
       /\ IF client.incb THEN UNCHANGED <<pc, back, tree>> ELSE destroy_redisclient(from)

Held == lua.life = "held" /\ ~Collecting
lua_redis_close ==
  /\ InLua /\ Held /\ lua.client
  /\ chk_redis_close(pc)
  /\ lua' = IF At("loop") \/ At("connect_cb") THEN lua ELSE [lua EXCEPT !.client = FALSE]
  /\ UNCHANGED <<waitreplys, overdue, data, fault, server, history>>

(* Lua has dropped the object: it is collected at any point of Lua code.   *)
lua_redisclient_gc ==
  /\ InLua /\ Held
  /\ IF lua.client THEN chk_redis_close("gc") ELSE UNCHANGED <<client, pc, back, tree>>
  /\ lua' = IF pc' = "destroy" THEN lua ELSE Collected
  /\ UNCHANGED <<waitreplys, overdue, data, fault, server, history>>

lua_redis_on_connection_loss ==
  /\ InLua /\ Held
  /\ lua' = [lua EXCEPT !.onloss = TRUE]
  /\ UNCHANGED <<client, tree, waitreplys, overdue, data, pc, back, fault, server,
                 history>>

-----------------------------------------------------------------------------
(* Requests. *)

New(r) == outcome[r] = "none" /\ \A s \in Request : s < r => outcome[s] # "none"

BugTimerOnce(r) ==
  /\ waitreplys' = Append(waitreplys, r) /\ Answered(r, "waiting")
  /\ asked' = asked /\ UNCHANGED <<client, fault>>

(* A send that writes everything at once is reported as an error.          *)
_chk_redis_execute(r) ==
  \/ /\ waitreplys' = Append(waitreplys, r) /\ Answered(r, "waiting")
     /\ asked' = IF client.served THEN Append(asked, r) ELSE asked
     /\ client' = [client EXCEPT !.timer = TRUE] /\ UNCHANGED fault
  \/ client.served /\ fault' = "sent" /\ UNCHANGED <<waitreplys, outcome, asked, client>>

lua_redis_execute(r) ==
  /\ InLua /\ Held /\ lua.client /\ New(r)
  /\ _chk_redis_execute(r)
  /\ UNCHANGED <<tree, overdue, data, pc, back, lua, stream, sent, wrong>>

(* Every second.  A reply that was waited for in vain is counted, to be    *)
(* skipped when it comes.                                                  *)
BugNotCounted == client.timeout_count
Counted == client.timeout_count + 1
TimeoutNext ==
  /\ overdue > 0
  /\ Popped("timeout")
  /\ pc' \in {"timeout", "due"}
  /\ client' = [client EXCEPT !.timeout_count = Counted, !.incb = pc' = "timeout"]
  /\ UNCHANGED <<tree, data, back, memory, server, wrong>>
timeout_cb == At("loop") /\ client.timer /\ TimeoutNext
TimeoutReturns ==
  /\ At("timeout")
  /\ client' = [client EXCEPT !.incb = FALSE]
  /\ IF client.close THEN destroy_redisclient("loop") ELSE pc' = "due" /\ UNCHANGED <<back, tree>>
  /\ UNCHANGED <<waitreplys, overdue, data, memory, server, history>>
TimeoutContinues ==
  /\ At("due")
  /\ \/ TimeoutNext
     \/ /\ overdue = 0 /\ pc' = "loop"
        /\ UNCHANGED <<client, tree, waitreplys, overdue, data, back, memory, server, history>>

-----------------------------------------------------------------------------
(* Replies. *)

(* A read brings any part of what the server has sent, or an error. *)
data_cb(n) ==
  /\ At("loop") /\ client.life = "open" /\ client.served
  /\ pc' = "parse" /\ data' = SubSeq(stream, 1, n)
  /\ stream' = SubSeq(stream, n + 1, Len(stream))
  /\ UNCHANGED <<client, tree, waitreplys, overdue, back, memory, asked, sent, history>>
ConnectionLost ==
  /\ At("loop") /\ client.life = "open" /\ client.served
  /\ client' = [client EXCEPT !.close = TRUE] /\ destroy_redisclient("loop")
  /\ UNCHANGED <<waitreplys, overdue, data, memory, server, history>>

Rest(p) == SubSeq(data, p.used + 1, Len(data))
AfterReply(p) == IF Rest(p) = <<>> THEN "loop" ELSE "parse"

(* The reply goes to the first request that waits, unless it answers one   *)
(* that has timed out.  The parser is wrong about a sign at the end of a   *)
(* chunk, and about an array that is nil.                                  *)
Skipped(p) == client.timeout_count > 0

ReplyParsed(p) ==
  /\ p.ret = "ok"
  /\ IF Skipped(p)
     THEN /\ client' = [client EXCEPT !.timeout_count = @ - 1]
          /\ tree' = <<>> /\ data' = Rest(p) /\ pc' = AfterReply(p)
          /\ UNCHANGED <<waitreplys, overdue, history>>
     ELSE IF waitreplys = <<>>
     THEN UNCHANGED <<client, tree, data, pc, waitreplys, overdue, history>>
     ELSE LET r == Head(waitreplys)
              own == redisReply(Last(p.tree)) = sent[r].reply
          IN /\ Popped("reply")
             /\ wrong' = IF own THEN wrong ELSE wrong \cup {r}
             /\ data' = Rest(p)
             /\ pc' \in {"reply", AfterReply(p)}
             /\ client' = [client EXCEPT !.incb = pc' = "reply"]
             /\ tree' = IF pc' = "reply" THEN p.tree ELSE <<>>
  /\ UNCHANGED <<back, lua, server>>

ReplyReturns ==
  /\ At("reply")
  /\ client' = [client EXCEPT !.incb = FALSE]
  /\ tree' = <<>>
  /\ IF client.close THEN pc' = "destroy" /\ back' = "loop"
     ELSE pc' = (IF data = <<>> THEN "loop" ELSE "parse") /\ UNCHANGED back
  /\ UNCHANGED <<waitreplys, overdue, data, memory, server, history>>

MoreNeeded(p) ==
  /\ p.ret = "retry" /\ tree' = p.tree /\ data' = <<>> /\ pc' = "loop"
  /\ UNCHANGED <<client, waitreplys, overdue, back, lua, server, history>>
ParseFailed(p) ==
  /\ p.ret = "err" /\ client' = [client EXCEPT !.close = TRUE] /\ destroy_redisclient("loop")
  /\ UNCHANGED <<waitreplys, overdue, data, lua, server, history>>

(* The line of a status or an error did not fit: memory is overwritten.    *)
LineOverran(p) ==
  /\ p.ret = "overrun"
  /\ UNCHANGED <<client, tree, waitreplys, overdue, data, pc, back, lua, server, history>>

ParseNext ==
  LET p == ParseChunk(tree, data)
  IN /\ At("parse")
     /\ ReplyParsed(p) \/ MoreNeeded(p) \/ ParseFailed(p) \/ LineOverran(p)
     /\ fault' = IF SignLost(tree) THEN "sign"
                 ELSE IF p.swallowed THEN "nilarray"
                 ELSE IF p.ret = "overrun" THEN "overrun"
                 ELSE IF p.ret = "ok" /\ ~Skipped(p) /\ waitreplys = <<>> THEN "unsolicited"
                 ELSE fault

-----------------------------------------------------------------------------
(* The server answers in order; time passes. *)

Answer(m) ==
  /\ asked # <<>> /\ m \in Replies[Head(asked)]
  /\ stream' = stream \o m.bytes /\ asked' = Tail(asked)
  /\ sent' = [sent EXCEPT ![Head(asked)] = m]
  /\ UNCHANGED <<client, tree, waitreplys, overdue, data, pc, back, memory, history>>

DeadlinePasses ==
  /\ At("loop") /\ overdue < Len(waitreplys) /\ overdue' = overdue + 1
  /\ UNCHANGED <<client, tree, waitreplys, data, pc, back, memory, server, history>>

Init ==
  /\ client = [life |-> "new", close |-> FALSE, incb |-> FALSE, timer |-> FALSE,
               timeout_count |-> 0, served |-> FALSE]
  /\ tree = <<>> /\ waitreplys = <<>> /\ overdue = 0 /\ data = <<>>
  /\ pc = "loop" /\ back = "loop"
  /\ lua = [life |-> "none", client |-> FALSE, onloss |-> FALSE]
  /\ asked = <<>> /\ stream = <<>> /\ sent = [r \in Request |-> NoMessage]
  /\ outcome = [r \in Request |-> "none"] /\ wrong = {} /\ fault = "none"

LuaStep ==
  \/ \E r \in Request : lua_redis_execute(r)
  \/ lua_redis_close \/ lua_redisclient_gc \/ lua_redis_on_connection_loss
Returns ==
  \/ lua_redis_connect_cb \/ LoseNext \/ LoseReturns \/ lua_redis_disconnect_cb
  \/ on_connection_loss \/ DestroyReturns \/ TimeoutReturns \/ TimeoutContinues
  \/ ReplyReturns
Reads == ConnectionLost \/ \E n \in 1..Len(stream) : data_cb(n)
Server == \E m \in Messages : Answer(m)

Next ==
  Sound /\ (\/ lua_redis_connect_ip4 \/ connect_callback \/ LuaStep \/ Returns \/ ParseNext
            \/ timeout_cb \/ Reads \/ Server \/ DeadlinePasses)
Spec == Init /\ [][Next]_vars

(* Callbacks return, what was read is parsed, the deadlines come and the   *)
(* timer of the client ticks.                                              *)
Parses == At("parse") /\ \E n \in 1..Len(data) : data' = SubSeq(data, n + 1, Len(data))
Fairness ==
  /\ WF_vars(Sound /\ Returns) /\ WF_data(Sound /\ Parses)
  /\ WF_vars(Sound /\ DeadlinePasses) /\ SF_vars(Sound /\ timeout_cb)
FairSpec == Spec /\ Fairness

-----------------------------------------------------------------------------
(* Every variable keeps its type. *)
Places == Callback \cup {"loop", "destroy", "free", "due", "parse"}
TypeOK ==
  /\ client \in [life : {"new", "connecting", "open", "freed"}, close : BOOLEAN,
                 incb : BOOLEAN, timer : BOOLEAN, timeout_count : Nat, served : BOOLEAN]
  /\ waitreplys \in Seq(Request) /\ overdue \in 0..Len(waitreplys)
  /\ pc \in Places /\ back \in {"loop", "connect_cb", "gc"}
  /\ lua \in [life : {"none", "held", "gone"}, client : BOOLEAN, onloss : BOOLEAN]
  /\ asked \in Seq(Request) /\ sent \in [Request -> Messages \cup {NoMessage}]
  /\ outcome \in [Request -> {"none", "waiting", "reply", "timeout", "loss"}]
  /\ wrong \subseteq Request
  /\ fault \in {"none", "sent", "sign", "nilarray", "overrun", "unsolicited",
               "userdata"}

(* The list holds exactly the requests that were not answered, in the      *)
(* order in which they were made.                                          *)
ListMatches ==
  /\ \A r \in Request : outcome[r] = "waiting" <=> r \in ToSet(waitreplys)
  /\ \A i, j \in 1..Len(waitreplys) : i < j => waitreplys[i] < waitreplys[j]

(* A client is freed with nothing left behind: no request whose callback   *)
(* was not called, no timer that would call it, no Lua object that points  *)
(* to it; and it is not freed under a callback of its own.                 *)
FreedCleanly ==
  /\ client.life = "freed" => waitreplys = <<>> /\ ~client.timer /\ tree = <<>>
  /\ lua.client => client.life = "open"
  /\ client.incb => pc \in {"reply", "timeout"}
  /\ pc \in {"reply", "timeout"} => client.life = "open" /\ client.incb

(* A reply that comes finds a request that waits for it, or a count of     *)
(* requests that have timed out: never an empty list.                      *)
RepliesExpected == fault # "unsolicited"

RedisSafe == TypeOK /\ ListMatches /\ FreedCleanly /\ RepliesExpected

(* A request that is answered by a reply is answered by its own, as the    *)
(* server meant it, however the bytes are cut and whatever timed out; up   *)
(* to the faults of the parser, at which the model stops.                  *)
OwnReply == Sound => wrong = {}

(* Requests are answered in order and once. *)
Q == INSTANCE RequestQueue WITH queue <- waitreplys
AnsweredInOrder == Q!Spec

(* Every request is answered in the end, by a reply or otherwise.          *)
RequestEnds == \A r \in Request : outcome[r] = "waiting" ~> outcome[r] # "waiting" \/ ~Sound
=============================================================================
