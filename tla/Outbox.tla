------------------------------- MODULE Outbox -------------------------------
(***************************************************************************)
(* What a stream socket promises the sender: one line of bytes waiting for *)
(* the wire.  A buffer is never torn apart; an ordinary buffer goes to the *)
(* end of the line, an urgent one before every ordinary buffer that has    *)
(* not been started; nothing follows the end of the stream.                *)
(***************************************************************************)
EXTENDS Naturals, Sequences

CONSTANTS Buffer, Size   \* Size[b] is the number of bytes of b, at least one

VARIABLES
  line,     \* the bytes waiting, each [buf, at, urgent]
  wire,     \* the bytes handed to the kernel
  ended     \* the end of the stream was sent

vars == <<line, wire, ended>>

BytesOf(b, urgent) ==
  [i \in 1 .. Size[b] |-> [buf |-> b, at |-> i, urgent |-> urgent]]

First(q, n) == SubSeq(q, 1, n)
Rest(q, n) == SubSeq(q, n + 1, Len(q))

(* How many bytes are left of the first buffer of q if it was started. *)
Started(q) ==
  IF q # <<>> /\ Head(q).at > 1 THEN Size[Head(q).buf] - Head(q).at + 1 ELSE 0

(* The line once b has joined it. *)
Joined(b) == line \o BytesOf(b, FALSE)

(* An urgent buffer waits for a started buffer and for the urgent ones. *)
JoinedUrgent(b) ==
  LET n == CHOOSE n \in Started(line) .. Len(line) :
             /\ \A i \in Started(line) + 1 .. n : line[i].urgent
             /\ \A i \in n + 1 .. Len(line) : ~line[i].urgent
  IN  First(line, n) \o BytesOf(b, TRUE) \o Rest(line, n)

(* The first n bytes of l go to the wire, the others wait. *)
Sent(l, n) == wire' = wire \o First(l, n) /\ line' = Rest(l, n)

Init == line = <<>> /\ wire = <<>> /\ ended = FALSE

(* A buffer is taken, and some bytes may be sent at once. *)
Accept ==
  /\ ~ended
  /\ \E b \in Buffer : \E l \in {Joined(b), JoinedUrgent(b)} :
       \E n \in 0 .. Len(l) : Sent(l, n)
  /\ UNCHANGED ended

Transmit ==
  /\ \E n \in 1 .. Len(line) : Sent(line, n)
  /\ ended' \in {ended, line' = <<>>}

End == line = <<>> /\ ended' = TRUE /\ UNCHANGED <<line, wire>>

(* The connection is given up with what is still in line. *)
Drop == line' = <<>> /\ UNCHANGED <<wire, ended>>

Next == Accept \/ Transmit \/ End \/ Drop

Spec == Init /\ [][Next]_vars
=============================================================================
