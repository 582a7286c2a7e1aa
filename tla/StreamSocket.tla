---------------------------- MODULE StreamSocket ----------------------------
(***************************************************************************)
(* One stream socket of chuck, chk_stream_socket.c: two lists of buffers   *)
(* waiting to be written, the event mask in epoll, the half closed states, *)
(* the delayed close and the moment the object is freed.  User code calls  *)
(* the interface from the socket's own callback and from callbacks of      *)
(* other handles, also between epoll_wait and this socket's turn.          *)
(* A buffer in a list is the sequence of its bytes not yet written.        *)
(***************************************************************************)
EXTENDS Naturals, Sequences

CONSTANTS
  Buffer,     \* the buffers the user sends, each once
  Size,       \* their datasize
  LowWater    \* send_bytes_low_water

ASSUME BufferAssumption ==
  /\ Size \in [Buffer -> Nat \ {0}]
  /\ LowWater \in Nat

VARIABLES
  pc,             \* "loop": not in on_events; else where on_events is
  ready,          \* events epoll_wait returned that are still to be handled
  watched,        \* s->loop # NULL
  readOn, writeOn,        \* s->events
  rclose, wclose, closed, \* SOCKET_RCLOSE, SOCKET_WCLOSE, s->closed
  noDelay,
  sendList, urgentList, sendingUrgent,
  writeError,     \* s->write_error # 0
  timer,          \* s->delay_close_timer # NULL
  released,       \* release_socket ran
  graceful,       \* chk_stream_socket_close was given a delay
  halved,         \* chk_stream_socket_shutdown_write came before the last byte
  accepted,       \* the buffers chk_stream_socket_send took
  wire,           \* the bytes writev took
  fin,            \* shutdown(SHUT_WR) was called
  peer            \* "open", "ended" (it sent its FIN) or "reset"

status == <<rclose, wclose, closed, graceful, halved>>
queues == <<sendList, urgentList, sendingUrgent>>
sent   == <<wire, fin>>
vars == <<pc, ready, watched, readOn, writeOn, status, noDelay, queues,
          writeError, timer, released, accepted, sent, peer>>

BytesOf(b, urgent) ==
  [i \in 1 .. Size[b] |-> [buf |-> b, at |-> i, urgent |-> urgent]]

Rest(q, n) == SubSeq(q, n + 1, Len(q))

send_list_empty == sendList = <<>> /\ urgentList = <<>>

-----------------------------------------------------------------------------
(* prepare_send, for the lists s and u. *)

(* The bytes left of the buffer at the head of s, if it is half sent. *)
Started(s) ==
  IF s # <<>> /\ Head(s).at > 1 THEN Size[Head(s).buf] - Head(s).at + 1 ELSE 0

BugPreempt(s, u) == FALSE
FinishFirst(s, u) == u # <<>> /\ Started(s) > 0

Prepared(s, u) ==
  IF FinishFirst(s, u) THEN SubSeq(s, 1, Started(s))
  ELSE IF u # <<>> THEN u ELSE s

SendingUrgent(s, u) == IF FinishFirst(s, u) THEN sendingUrgent ELSE u # <<>>

(* process_write.  pushed is the list _chk_stream_socket_send has pushed    *)
(* to, on which it decides to listen for writing again, or "none".          *)

Enabled(pushed, s, u) ==
  (pushed = "send" /\ s # <<>>) \/ (pushed = "urgent" /\ u # <<>>)

(* The last byte is out: WCLOSE after RCLOSE, else the end of the stream if *)
(* it was asked for, and no more listening.                                 *)
Flushed ==
  /\ wclose' = (wclose \/ rclose)
  /\ fin' = (fin \/ (wclose /\ ~rclose))
  /\ writeOn' = (writeOn /\ rclose)

Written(s, u, pushed) ==
  /\ peer # "reset"
  /\ \E n \in 1 .. Len(Prepared(s, u)) :
       /\ wire' = wire \o SubSeq(Prepared(s, u), 1, n)
       /\ sendList' = IF sendingUrgent' THEN s ELSE Rest(s, n)
       /\ urgentList' = IF sendingUrgent' THEN Rest(u, n) ELSE u
  /\ IF sendList' = <<>> /\ urgentList' = <<>>
     THEN Flushed
     ELSE /\ writeOn' = (writeOn \/ Enabled(pushed, sendList', urgentList'))
          /\ UNCHANGED <<wclose, fin>>
  /\ UNCHANGED writeError

WouldBlock(s, u, pushed) ==
  /\ peer # "reset"
  /\ sendList' = s /\ urgentList' = u
  /\ writeOn' = (writeOn \/ Enabled(pushed, s, u))
  /\ UNCHANGED <<wclose, writeError, sent>>

(* The connection is broken; shutdown(SHUT_RD) makes the loop report it. *)
Broken(s, u) ==
  /\ peer = "reset"
  /\ sendList' = s /\ urgentList' = u
  /\ wclose' = TRUE
  /\ writeError' = TRUE
  /\ writeOn' = (writeOn /\ rclose)
  /\ UNCHANGED sent

process_write(s, u, pushed) ==
  /\ sendingUrgent' = SendingUrgent(s, u)
  /\ IF s = <<>> /\ u = <<>>
     THEN UNCHANGED <<sendList, urgentList, wclose, writeOn, writeError, sent>>
     ELSE Written(s, u, pushed) \/ WouldBlock(s, u, pushed) \/ Broken(s, u)

-----------------------------------------------------------------------------
Init ==
  /\ pc = "loop" /\ ready = {}
  /\ watched = FALSE /\ readOn = FALSE /\ writeOn = FALSE
  /\ rclose = FALSE /\ wclose = FALSE /\ closed = FALSE
  /\ graceful = FALSE /\ halved = FALSE
  /\ noDelay \in BOOLEAN
  /\ sendList = <<>> /\ urgentList = <<>> /\ sendingUrgent = FALSE
  /\ writeError = FALSE /\ timer = FALSE /\ released = FALSE
  /\ accepted = {}
  /\ wire = <<>> /\ fin = FALSE
  /\ peer = "open"

(* Where the user's code may run; it leaves a closed socket alone. *)
InUserCode == pc \in {"loop", "data", "eof", "failed"} /\ ~closed

(* loop_add *)
Start ==
  /\ InUserCode
  /\ ~watched
  /\ watched' = TRUE
  /\ readOn' = TRUE
  /\ writeOn' = ~send_list_empty
  /\ UNCHANGED <<pc, ready, status, noDelay, queues, writeError, timer, released,
                 accepted, sent, peer>>

AtOnce(b) ==
  LET bytes == Len(sendList) + Len(urgentList)
  IN  bytes + Size[b] >= LowWater \/ (noDelay /\ bytes = 0)

(* _chk_stream_socket_send; a socket that is shut for writing refuses. *)
BugNotArmed(b) == FALSE
Arm(b) == TRUE

Send(b, urgent) ==
  LET s == IF urgent THEN sendList ELSE sendList \o BytesOf(b, FALSE)
      u == IF urgent THEN urgentList \o BytesOf(b, TRUE) ELSE urgentList
  IN /\ InUserCode
     /\ ~wclose
     /\ b \notin accepted
     /\ accepted' = accepted \cup {b}
     /\ IF watched /\ AtOnce(b)
        THEN process_write(s, u, IF urgent THEN "urgent" ELSE "send")
        ELSE /\ sendList' = s /\ urgentList' = u
             /\ writeOn' = (watched /\ (writeOn \/ Arm(b)))
             /\ UNCHANGED <<sendingUrgent, wclose, writeError, sent>>
     /\ UNCHANGED <<pc, ready, watched, readOn, rclose, closed, graceful, halved,
                    noDelay, timer, released, peer>>

BugShutdownNow(b) == TRUE
ShutdownNow(empty) == empty

shutdown_write ==
  /\ InUserCode
  /\ ~wclose
  /\ wclose' = TRUE
  /\ fin' = ShutdownNow(send_list_empty)
  /\ halved' = ~send_list_empty
  /\ UNCHANGED <<pc, ready, watched, readOn, writeOn, rclose, closed, graceful,
                 noDelay, queues, writeError, timer, released, accepted, wire, peer>>

pause_read ==
  /\ InUserCode
  /\ watched /\ readOn
  /\ readOn' = FALSE
  /\ UNCHANGED <<pc, ready, watched, writeOn, status, noDelay, queues, writeError,
                 timer, released, accepted, sent, peer>>

resume_read ==
  /\ InUserCode
  /\ watched /\ ~readOn
  /\ readOn' = TRUE
  /\ UNCHANGED <<pc, ready, watched, writeOn, status, noDelay, queues, writeError,
                 timer, released, accepted, sent, peer>>

(* release_socket: out of epoll and of the ready list, timer and buffers    *)
(* dropped, memory freed.                                                   *)
release_socket ==
  /\ released' = TRUE
  /\ watched' = FALSE /\ readOn' = FALSE /\ writeOn' = FALSE
  /\ ready' = {}
  /\ timer' = FALSE
  /\ sendList' = <<>> /\ urgentList' = <<>>

Linger(delay) == ~wclose /\ delay /\ ~send_list_empty /\ watched

BugInLoop(at) == FALSE
InLoop(at) == at # "loop"

(* chk_stream_socket_close: at once, or when the rest has been sent. *)
Close(delay) ==
  /\ InUserCode
  /\ closed' = TRUE /\ rclose' = TRUE
  /\ graceful' = delay
  /\ IF Linger(delay)
     THEN /\ readOn' = FALSE
          /\ timer' = TRUE
          /\ UNCHANGED <<ready, watched, writeOn, wclose, sendList, urgentList,
                         released>>
     ELSE /\ wclose' = TRUE
          /\ IF InLoop(pc)
             THEN UNCHANGED <<ready, watched, readOn, writeOn, sendList,
                              urgentList, timer, released>>
             ELSE release_socket
  /\ UNCHANGED <<pc, halved, noDelay, sendingUrgent, writeError, accepted, sent,
                 peer>>

-----------------------------------------------------------------------------
(* The kernel and the peer.                                                *)

PeerEnds ==
  /\ peer = "open"
  /\ peer' = "ended"
  /\ UNCHANGED <<pc, ready, watched, readOn, writeOn, status, noDelay, queues,
                 writeError, timer, released, accepted, sent>>

PeerResets ==
  /\ peer # "reset"
  /\ peer' = "reset"
  /\ UNCHANGED <<pc, ready, watched, readOn, writeOn, status, noDelay, queues,
                 writeError, timer, released, accepted, sent>>

(* epoll reports EPOLLERR, and EPOLLHUP when both sides have ended, whatever *)
(* the mask is, and they count as reading; a socket that can be read or      *)
(* written forever is reported.                                              *)
Certain ==
  {e \in {"read", "write"} :
     CASE e = "read"  -> peer = "reset" \/ (peer = "ended" /\ (readOn \/ fin))
       [] e = "write" -> peer = "reset" /\ writeOn}
Possible ==
  Certain \cup {e \in {"read", "write"} :
     CASE e = "read" -> readOn [] e = "write" -> writeOn}

(* epoll_wait returns the socket; it waits on the ready list for its turn. *)
Poll ==
  /\ pc = "loop" /\ ready = {} /\ watched
  /\ ready' \in SUBSET Possible \ {{}}
  /\ Certain \subseteq ready'
  /\ UNCHANGED <<pc, watched, readOn, writeOn, status, noDelay, queues, writeError,
                 timer, released, accepted, sent, peer>>

-----------------------------------------------------------------------------
(* on_events, first process_read up to the user's callback.                *)

Reading == pc = "loop" /\ "read" \in ready

ReadData ==
  /\ Reading
  /\ pc' = "data"
  /\ UNCHANGED <<ready, watched, readOn, writeOn, status, noDelay, queues,
                 writeError, timer, released, accepted, sent, peer>>

BugAsEnd(failed) == FALSE
ByWriteError(failed) == failed

(* read returns 0: the peer's end of stream, or the SHUT_RD of a failed     *)
(* write, for which the handle is taken out of the loop.                    *)
ReadZero ==
  /\ Reading
  /\ peer # "open"
  /\ readOn' = FALSE
  /\ IF ByWriteError(writeError)
     THEN pc' = "failed" /\ UNCHANGED rclose
     ELSE pc' = "eof" /\ rclose' = TRUE
  /\ UNCHANGED <<ready, watched, writeOn, wclose, closed, graceful, halved,
                 noDelay, queues, writeError, timer, released, accepted, sent, peer>>

ReadError ==
  /\ Reading
  /\ peer = "reset"
  /\ rclose' = TRUE /\ wclose' = TRUE
  /\ pc' = "failed"
  /\ UNCHANGED <<ready, watched, readOn, writeOn, closed, graceful, halved,
                 noDelay, queues, writeError, timer, released, accepted, sent, peer>>

(* No read event: straight to the write part. *)
SkipRead ==
  /\ pc = "loop" /\ ready = {"write"}
  /\ pc' = "write"
  /\ UNCHANGED <<ready, watched, readOn, writeOn, status, noDelay, queues,
                 writeError, timer, released, accepted, sent, peer>>

(* The callback returns; process_read finishes. *)
CallbackReturns ==
  /\ pc \in {"data", "eof", "failed"}
  /\ pc' = "write"
  /\ watched' = (watched /\ pc # "failed")
  /\ readOn' = (readOn /\ pc = "data")
  /\ writeOn' = (writeOn /\ pc # "failed")
  /\ UNCHANGED <<ready, status, noDelay, queues, writeError, timer, released,
                 accepted, sent, peer>>

(* The write part of on_events, and its end: a socket that is closed on     *)
(* both sides is freed here.                                                *)
BugFinished(w) == closed /\ rclose
BugWaits(w) == closed /\ w /\ rclose /\ send_list_empty
Finished(w) == closed /\ w /\ rclose

OnWrite ==
  /\ pc = "write" /\ "write" \in ready
  /\ process_write(sendList, urgentList, "none")
  /\ pc' = "end"
  /\ UNCHANGED <<ready, watched, readOn, rclose, closed, graceful, halved,
                 noDelay, timer, released, accepted, peer>>

SkipWrite ==
  /\ pc = "write" /\ "write" \notin ready
  /\ pc' = "end"
  /\ UNCHANGED <<ready, watched, readOn, writeOn, status, noDelay, queues,
                 writeError, timer, released, accepted, sent, peer>>

EndEvents ==
  /\ pc = "end"
  /\ pc' = "loop"
  /\ IF Finished(wclose)
     THEN release_socket
     ELSE /\ ready' = {}
          /\ UNCHANGED <<watched, readOn, writeOn, sendList, urgentList, timer,
                         released>>
  /\ UNCHANGED <<status, noDelay, sendingUrgent, writeError, accepted, sent, peer>>

(* The loop calls timers after the sockets of the same round. *)
delay_close_timer_cb ==
  /\ pc = "loop" /\ ready = {}
  /\ timer
  /\ release_socket
  /\ UNCHANGED <<pc, status, noDelay, sendingUrgent, writeError, accepted, sent,
                 peer>>

-----------------------------------------------------------------------------
Call ==
  \/ Start \/ shutdown_write \/ pause_read \/ resume_read
  \/ \E b \in Buffer, urgent \in BOOLEAN : Send(b, urgent)
  \/ \E delay \in BOOLEAN : Close(delay)

OnEvents ==
  \/ ReadData \/ ReadZero \/ ReadError \/ SkipRead \/ CallbackReturns
  \/ OnWrite \/ SkipWrite \/ EndEvents

Next == Call \/ PeerEnds \/ PeerResets \/ Poll \/ OnEvents \/ delay_close_timer_cb

Spec == Init /\ [][Next]_vars

(* The loop runs and callbacks return; a due timer is called in the round   *)
(* of the loop it is due in; what is left to read after a reset is finite.  *)
(* PeerReads: the peer reads too, so that in the end there is room.         *)
Fairness ==
  /\ WF_vars(Poll) /\ WF_vars(OnEvents)
  /\ SF_vars(delay_close_timer_cb)
  /\ SF_vars(ReadZero \/ ReadError)
PeerReads ==
  /\ SF_vars(Poll /\ "write" \in ready')
  /\ SF_vars(OnWrite /\ wire' # wire)

FairSpec == Spec /\ Fairness

-----------------------------------------------------------------------------
Byte == [buf : Buffer, at : Nat \ {0}, urgent : BOOLEAN]

TypeOK ==
  /\ pc \in {"loop", "data", "eof", "failed", "write", "end"}
  /\ ready \subseteq {"read", "write"}
  /\ watched \in BOOLEAN /\ readOn \in BOOLEAN /\ writeOn \in BOOLEAN
  /\ rclose \in BOOLEAN /\ wclose \in BOOLEAN /\ closed \in BOOLEAN
  /\ graceful \in BOOLEAN /\ halved \in BOOLEAN /\ noDelay \in BOOLEAN
  /\ sendList \in Seq(Byte) /\ urgentList \in Seq(Byte)
  /\ sendingUrgent \in BOOLEAN
  /\ writeError \in BOOLEAN /\ timer \in BOOLEAN /\ released \in BOOLEAN
  /\ accepted \subseteq Buffer
  /\ wire \in Seq(Byte) /\ fin \in BOOLEAN
  /\ peer \in {"open", "ended", "reset"}

(* A socket is not freed while one of its own handlers runs, and no timer,  *)
(* event mask or ready list keeps a pointer to one that was: close() may be *)
(* called in the callback, between epoll_wait and the socket's turn, and    *)
(* with a delayed close already counting.                                   *)
NoUseAfterRelease ==
  released => pc = "loop" /\ ready = {} /\ ~watched /\ ~timer

(* Whatever waits in a watched socket is listened for, so that it is not    *)
(* forgotten: urgent buffers, half sent ones, what a callback added.        *)
PendingIsArmed == watched /\ ~send_list_empty => writeOn \/ writeError

(* chk_stream_socket.c:372: with nothing to send there is no listening for  *)
(* writing (the loop would spin).  Only while the peer has not ended: after *)
(* that process_write sets WCLOSE and leaves the mask as it is.             *)
NoIdleWriting == watched /\ send_list_empty /\ ~rclose => ~writeOn

(* The socket and what the loop keeps of it agree. *)
SocketSafe == TypeOK /\ NoUseAfterRelease /\ PendingIsArmed /\ NoIdleWriting

(* shutdown_write: the end of the stream comes after everything that was    *)
(* accepted, and it is not forgotten when the last byte has been written.   *)
EndOfStream ==
  /\ fin => send_list_empty /\ wclose
  /\ wclose /\ send_list_empty /\ ~rclose /\ ~writeError => fin

(* chk_stream_socket.h:36: a close with a delay waits for the rest to be    *)
(* sent.  So it drops nothing of it before the delay is over, whichever     *)
(* callback calls it and whatever the loop still has to do in the round,    *)
(* but in three cases: the connection is broken; the socket is not in a     *)
(* loop; and, which the header does not say, the write side was shut while  *)
(* data waited (chk_stream_socket.c:293).                                   *)
LingersUntilSent ==
  [][graceful' /\ released' /\ ~released /\ ~send_list_empty
       => delay_close_timer_cb \/ peer = "reset" \/ ~watched \/ halved]_vars

(* On the wire buffers are whole and in their order, urgent ones first.     *)
LineOf(s, u) == SubSeq(s, 1, Started(s)) \o (u \o Rest(s, Started(s)))
Out == INSTANCE Outbox WITH line <- LineOf(sendList, urgentList), ended <- fin
KeepsOrder == Out!Spec

(* A closed socket is freed in the end, whatever the peer and the events    *)
(* that were under way do.                                                  *)
ClosedIsReleased == closed ~> released

(* A failed write is reported to the callback, also when the user has       *)
(* paused reading or the peer had ended, unless the socket is closed first. *)
WriteErrorReported == (writeError /\ watched) ~> (pc = "failed" \/ closed)

(* With a peer that reads, what was accepted is sent.                       *)
PendingIsSent ==
  PeerReads =>
    ((watched /\ ~send_list_empty) ~> (send_list_empty \/ ~watched \/ writeError))
=============================================================================
