--------------------------- MODULE RequestQueue ---------------------------
(***************************************************************************)
(* What a client of a server promises: requests are answered in the order  *)
(* in which they were made, each once, by a reply, by a timeout or because *)
(* the connection is lost.  RedisClient implements it.                     *)
(***************************************************************************)
EXTENDS Sequences

CONSTANT Request
VARIABLES queue, outcome
qvars == <<queue, outcome>>

Answers == {"reply", "timeout", "loss"}

Init == queue = <<>> /\ outcome = [r \in Request |-> "none"]

Submit(r) ==
  /\ outcome[r] = "none"
  /\ queue' = Append(queue, r) /\ outcome' = [outcome EXCEPT ![r] = "waiting"]

Answer(how) ==
  /\ queue # <<>>
  /\ queue' = Tail(queue) /\ outcome' = [outcome EXCEPT ![Head(queue)] = how]

Next == (\E r \in Request : Submit(r)) \/ (\E how \in Answers : Answer(how))
Spec == Init /\ [][Next]_qvars
=============================================================================
