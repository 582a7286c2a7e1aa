------------------------------ MODULE Handles ------------------------------
(***************************************************************************)
(* What the loop serves: connectors, acceptors, datagram sockets, stream   *)
(* sockets (their data is StreamSocket's) and signal handlers, with the    *)
(* Lua functions that make, close and call back (luabind/socket.h).  A     *)
(* callback may use any of them, and may free the handle that calls it.    *)
(***************************************************************************)
EXTENDS EventLoop

CONSTANTS Connector, Acceptor, Datagram, Stream, Signal,
          EpollFails,  \* epoll_ctl may refuse to add a descriptor
          MaxMade      \* a bound: handles that are made

Kinds == <<Connector, Acceptor, Datagram, Stream, Signal>>
ASSUME KindAssumption ==
  /\ Handle = UNION {Kinds[i] : i \in 1..5}
  /\ \A i, j \in 1..5 : i # j => Kinds[i] \cap Kinds[j] = {}
  /\ EpollFails \in BOOLEAN /\ MaxMade \in Nat

VARIABLES
  used,      \* the handles that were made; each stands for one allocation
  object,    \* sockets and acceptors with a Lua object that points to them
  ref,       \* the Lua callback is kept in the registry
  closeRef,  \* stream sockets with a close callback in the registry
  lost,      \* sockets with one more reference there, to which nothing points
  timer,     \* connectors with a timer in the loop's timer manager
  reading,   \* acceptors that listen for connections
  closed,    \* sockets to be released when their callback returns
  lingering, \* stream sockets that are closed and have data to send
  answered,  \* connectors whose callback was called
  cb         \* the callback that runs: whose, and why

handles == <<used, object, ref, closeRef, lost, timer, reading, closed, lingering, answered>>
vars == <<loopVars, handles, cb>>

NoCall == [h |-> None, why |-> "none"]
Why == {"none", "connected", "failed", "timeout", "accepted", "broken", "event", "sent", "close"}
Call(h, why) == cb' = [h |-> h, why |-> why]
Calling(h, why) == cb = [h |-> h, why |-> why]

(* Lua code runs: in a callback, a closure, a timer, or around the loop.   *)
InLua == \/ cb # NoCall \/ At("out") \/ At("closure") \/ At("idle")
         \/ At("tick") /\ round.ticking

LoopFunction(A) == InLua /\ A /\ UNCHANGED <<handles, cb>>
lua_post_closure == LoopFunction(chk_loop_post_closure)
lua_event_loop_end == LoopFunction(chk_loop_end)
lua_event_loop_set_idle == LoopFunction(chk_loop_set_idle_func_lua)
_register_timer == LoopFunction(chk_loop_addtimer(FALSE) /\ UNCHANGED <<lists, round>>)

Fresh(h) == h \notin used /\ Cardinality(used) < MaxMade
Created(h) == used' = used \cup {h} /\ live' = live \cup {h}
Unwatched == UNCHANGED <<watched, ready, stuck, fault>>

Freed(h) == chk_unwatch_handle(h) /\ live' = live \ {h}

-----------------------------------------------------------------------------
(* Connectors. *)

loop_add(c, timed) ==
  IF timed THEN timer' = timer \cup {c} /\ chk_loop_addtimer(FALSE)
  ELSE timer' = timer /\ UNCHANGED <<e, fault>>

(* Once connect() has not failed at once.  Nobody looks whether the loop   *)
(* took the connector.                                                     *)
chk_async_connect(c, timed) ==
  /\ Created(c)
  /\ \/ /\ watched' = watched \cup {c} /\ UNCHANGED <<ready, stuck>>
        /\ loop_add(c, timed)
     \/ /\ EpollFails /\ Unwatched /\ UNCHANGED <<timer, e>>

lua_dail(c, timed) ==
  /\ InLua /\ c \in Connector /\ Fresh(c)
  /\ chk_async_connect(c, timed) /\ ref' = ref \cup {c}
  /\ UNCHANGED <<round, object, closeRef, reading, closed, lingering, answered,
                 cb, lost>>

BugKeepTimer(c) == timer
WithoutTimer(c) == timer \ {c}

(* An error is reported while the connector is still watched; a connection *)
(* after it was taken out.                                                 *)
_process_connect(c) ==
  /\ timer' = WithoutTimer(c) /\ answered' = answered \cup {c}
  /\ \/ Call(c, "connected") /\ chk_unwatch_handle(c)
     \/ Call(c, "failed") /\ ready' = ready \ {c} /\ UNCHANGED <<watched, stuck, fault>>
  /\ UNCHANGED <<live, e, used, object, ref, closeRef, reading, closed, lingering, lost>>

(* dail_cb returns, its reference is dropped and the connector freed. *)
dail_cb(c) ==
  /\ Calling(c, "connected") \/ Calling(c, "failed")
  /\ Freed(c)
process_connect(c) ==
  /\ dail_cb(c) /\ ref' = ref \ {c} /\ cb' = NoCall
  /\ UNCHANGED <<e, round, used, object, closeRef, timer, reading, closed, lingering, answered, lost>>

(* The timeout frees the connector and leaves it watched. *)
connect_timeout(c) ==
  /\ At("tick") /\ round.ticking /\ c \in timer /\ cb = NoCall
  /\ timer' = timer \ {c} /\ answered' = answered \cup {c} /\ Call(c, "timeout")
  /\ UNCHANGED <<loopVars, used, object, ref, closeRef, reading, closed, lingering, lost>>

TimeoutReturns(c) ==
  /\ Calling(c, "timeout")
  /\ ref' = ref \ {c} /\ live' = live \ {c} /\ cb' = NoCall
  /\ Unwatched
  /\ UNCHANGED <<e, round, used, object, closeRef, timer, reading, closed, lingering, answered, lost>>

-----------------------------------------------------------------------------
(* Acceptors. *)

chk_acceptor_start(a) ==
  \/ Created(a) /\ chk_watch_handle(a) /\ reading' = reading \cup {a}
  \/ EpollFails /\ used' = used \cup {a} /\ UNCHANGED <<lists, fault, reading>>

(* An acceptor that the loop refuses is deleted again, and its reference   *)
(* released.                                                               *)
lua_listen(a) ==
  /\ InLua /\ a \in Acceptor /\ Fresh(a)
  /\ chk_acceptor_start(a)
  /\ object' = object \cup ({a} \cap watched') /\ ref' = ref \cup ({a} \cap watched')
  /\ UNCHANGED <<e, round, closeRef, timer, closed, lingering, answered, cb, lost>>

chk_acceptor_del(a) == Freed(a) /\ reading' = reading \ {a}

(* Close, or the collector; also in the callback of this acceptor. *)
lua_acceptor_gc(a) ==
  /\ InLua /\ a \in Acceptor \cap object
  /\ chk_acceptor_del(a) /\ object' = object \ {a} /\ ref' = ref \ {a}
  /\ UNCHANGED <<e, round, used, closeRef, timer, closed, lingering, answered, cb, lost>>

events_mod(a) == a \in watched
lua_acceptor_pause(a) ==
  /\ InLua /\ a \in Acceptor \cap object /\ events_mod(a)
  /\ reading' = reading \ {a}
  /\ UNCHANGED <<loopVars, used, object, ref, closeRef, timer, closed, lingering, answered, cb, lost>>
lua_acceptor_resume(a) ==
  /\ InLua /\ a \in Acceptor \cap object /\ events_mod(a)
  /\ reading' = reading \cup {a}
  /\ UNCHANGED <<loopVars, used, object, ref, closeRef, timer, closed, lingering, answered, cb, lost>>

(* lua_acceptor_cb is called for every connection while reading is         *)
(* enabled, and for an error.                                              *)
Accepts(a) == Call(a, "accepted") \/ Call(a, "broken") \/ cb' = NoCall
process_accept(a) ==
  /\ Accepts(a) /\ ready' = ready \ {a}
  /\ UNCHANGED <<live, watched, stuck, fault, e, handles>>

(* Whether reading is enabled is read in an acceptor that the callback may *)
(* have deleted.                                                           *)
lua_acceptor_cb(a) ==
  /\ a \in Acceptor /\ cb.h = a /\ cb.why # "close"
  /\ MayFault(a \notin live /\ cb.why = "accepted", "acceptor")
  /\ \/ cb' = NoCall
     \/ cb.why = "accepted" /\ a \in reading /\ Accepts(a)
  /\ UNCHANGED <<lists, e, round, handles>>

-----------------------------------------------------------------------------
(* Datagram sockets and stream sockets. *)

SocketMade(s) ==
  /\ InLua /\ Fresh(s)
  /\ Created(s) /\ object' = object \cup {s}
  /\ UNCHANGED <<watched, ready, stuck, e, round, fault, ref, closeRef, timer, reading,
                 closed, lingering, answered, cb, lost>>
lua_datagram_socket_new(s) == s \in Datagram /\ SocketMade(s)
lua_stream_socket_new(s) == s \in Stream /\ SocketMade(s)

(* A socket that has left the loop may be started again: the reference of  *)
(* its first callback is overwritten.                                      *)
SocketStarted(s) ==
  /\ InLua /\ s \in object \ watched
  /\ \/ chk_watch_handle(s) /\ ref' = ref \cup {s} /\ lost' = lost \cup ({s} \cap ref)
     \/ EpollFails /\ Unwatched /\ UNCHANGED <<ref, lost>>
  /\ UNCHANGED <<live, e, round, used, object, closeRef, timer, reading, closed, lingering,
                 answered, cb>>
lua_datagram_socket_start(s) == s \in Datagram /\ SocketStarted(s)
lua_stream_socket_start(s) == s \in Stream /\ SocketStarted(s)

(* A socket whose events are served is released when they have been.       *)
inloop(s) == cb.h = s

lua_socket_close_callback(s) == closeRef \ {s}
release_socket(s) == Freed(s) /\ closeRef' = lua_socket_close_callback(s)

chk_datagram_socket_close(s) ==
  IF inloop(s) THEN closed' = closed \cup {s} /\ UNCHANGED <<lists, fault, closeRef>>
  ELSE release_socket(s) /\ closed' = closed

(* Close without a delay, or the collector. *)
SocketClosed(s) ==
  /\ InLua /\ s \in object
  /\ chk_datagram_socket_close(s)
  /\ object' = object \ {s} /\ ref' = ref \ {s}
  /\ UNCHANGED <<e, round, used, timer, reading, lingering, answered, cb, lost>>
lua_datagram_socket_close(s) == s \in Datagram /\ SocketClosed(s)
lua_stream_socket_gc(s) == s \in Stream /\ SocketClosed(s)

(* Close with a delay, with data that was not sent: the socket stays,      *)
(* until the data is sent, cannot be, or the timer fires.                  *)
lua_stream_socket_close(s) ==
  /\ InLua /\ s \in Stream \cap object \cap watched
  /\ chk_loop_addtimer(FALSE) /\ lingering' = lingering \cup {s}
  /\ object' = object \ {s} /\ ref' = ref \ {s}
  /\ UNCHANGED <<lists, round, used, closeRef, timer, reading, closed, answered, cb, lost>>

delay_close_timer_cb(s) ==
  /\ At("tick") /\ round.ticking /\ s \in lingering /\ cb = NoCall
  /\ release_socket(s) /\ lingering' = lingering \ {s}
  /\ UNCHANGED <<e, round, used, object, ref, timer, reading, closed, answered, cb, lost>>

(* Only the first callback is kept; the reference to another one is in the *)
(* registry all the same.                                                  *)
lua_stream_socket_set_close_cb(s) ==
  /\ InLua /\ s \in Stream \cap object
  /\ closeRef' = closeRef \cup {s} /\ lost' = lost \cup ({s} \cap closeRef)
  /\ UNCHANGED <<loopVars, used, object, ref, timer, reading, closed, lingering, answered, cb>>

SocketServed(s, why) ==
  /\ Call(s, why) /\ ready' = ready \ {s}
  /\ UNCHANGED <<live, watched, stuck, fault, closeRef, lingering>>

datagram_event_cb(s) ==
  /\ s \in Datagram /\ SocketServed(s, "event")
  /\ UNCHANGED <<e, used, object, ref, timer, reading, closed, answered, lost>>

(* A lingering socket has no object to call.  Once its data is sent, or it *)
(* cannot be, Lua runs in its close callback.                              *)
data_cb(s) ==
  /\ s \in Stream
  /\ \/ s \in object /\ SocketServed(s, "event")
     \/ s \in lingering /\ SocketServed(s, "sent")
     \/ /\ s \in lingering /\ cb' = NoCall /\ ready' = ready \ {s}
        /\ UNCHANGED <<live, watched, stuck, fault, closeRef, lingering>>
  /\ UNCHANGED <<e, used, object, ref, timer, reading, closed, answered, lost>>

(* on_events after the callback.  A socket that was closed in it with a    *)
(* delay may have sent its data in the same event; a stream socket whose   *)
(* connection is broken is taken out of the loop.                          *)
Finished(s) ==
  IF s \in closed \/ cb.why = "sent" THEN {TRUE}
  ELSE IF s \in lingering THEN BOOLEAN ELSE {FALSE}
on_events(s) ==
  /\ (Calling(s, "event") \/ Calling(s, "sent")) /\ s \in Datagram \cup Stream
  /\ cb' = NoCall /\ closed' = closed \ {s}
  /\ \E finished \in Finished(s) :
       IF finished THEN release_socket(s) /\ lingering' = lingering \ {s}
       ELSE /\ UNCHANGED <<live, closeRef, lingering>>
            /\ Unwatched \/ (s \in Stream \ lingering /\ chk_unwatch_handle(s))
  /\ UNCHANGED <<e, round, used, object, ref, timer, reading, answered, lost>>

-----------------------------------------------------------------------------
(* Signals. *)

release_signal_handler(s) == Freed(s) /\ ref' = ref \ {s}

(* A handler that the loop refuses is released with its Lua reference,     *)
(* which lua_watch_signal releases again.                                  *)
chk_watch_signal(s) ==
  \/ Created(s) /\ chk_watch_handle(s) /\ ref' = ref \cup {s}
  \/ /\ EpollFails /\ used' = used \cup {s} /\ fault' = "reference"
     /\ UNCHANGED <<lists, ref>>

lua_watch_signal(s) ==
  /\ InLua /\ s \in Signal /\ Fresh(s) /\ chk_watch_signal(s)
  /\ UNCHANGED <<e, round, object, closeRef, timer, reading, closed, lingering, answered,
                 cb, lost>>

(* The signal may come while the thread that it interrupts has the lock:   *)
(* its handler then spins for ever.                                        *)
on_signal == fault' = "spin" /\ UNCHANGED <<lists, ref>>

chk_unwatch_signal(s) ==
  /\ InLua /\ s \in Signal \cap live
  /\ release_signal_handler(s) \/ on_signal
  /\ UNCHANGED <<e, round, used, object, closeRef, timer, reading, closed, lingering,
                 answered, cb, lost>>

signal_callback(s) ==
  /\ Call(s, "event") /\ ready' = ready \ {s}
  /\ UNCHANGED <<live, watched, stuck, fault, e, handles>>

SignalReturns(s) ==
  /\ Calling(s, "event") /\ s \in Signal /\ cb' = NoCall
  /\ UNCHANGED <<loopVars, handles>>

-----------------------------------------------------------------------------
(* The loop. *)

Serve(h) ==
  /\ At("ready") /\ cb = NoCall /\ h \in ready
  /\ \/ h \in Connector /\ _process_connect(h)
     \/ h \in Acceptor /\ process_accept(h)
     \/ datagram_event_cb(h) \/ data_cb(h)
     \/ h \in Signal /\ signal_callback(h)
  /\ UNCHANGED round

(* chk_loop_finalize takes the handles from the list and tells each;       *)
(* a signal handler and a lingering socket call nobody.                    *)
chk_loop_finalize(h) ==
  /\ Finalizing /\ cb = NoCall /\ h \in watched
  /\ IF h \notin live THEN fault' = "dangling" /\ UNCHANGED <<lists, ref, answered, cb, timer>>
     ELSE IF h \in Signal
     THEN /\ live' = live \ {h} /\ watched' = watched \ {h} /\ ref' = ref \ {h}
          /\ MayFault(TRUE, "loopclose") /\ UNCHANGED <<ready, stuck, answered, cb, timer>>
     ELSE IF h \in lingering
     THEN chk_unwatch_handle(h) /\ UNCHANGED <<live, ref, answered, cb, timer>>
     ELSE /\ Call(h, "close") /\ timer' = timer \ {h}
          /\ answered' = IF h \in Connector THEN answered \cup {h} ELSE answered
          /\ UNCHANGED <<lists, fault, ref>>
  /\ UNCHANGED <<e, round, used, object, closeRef, reading, closed, lingering, lost>>

(* After on_events it calls chk_unwatch_handle: a connector, and whatever  *)
(* its callback has closed, is gone by then.                               *)
FreedByClose(h) == h \in Connector \cup closed
CloseReturns(h) ==
  /\ Calling(h, "close") /\ cb' = NoCall /\ closed' = closed \ {h}
  /\ IF h \in live /\ ~FreedByClose(h)
     THEN chk_unwatch_handle(h) /\ UNCHANGED <<live, ref, closeRef>>
     ELSE /\ live' = live \ {h} /\ watched' = watched \ {h}
          /\ ref' = ref \ {h} /\ closeRef' = closeRef \ {h}
          /\ MayFault(TRUE, "loopclose") /\ UNCHANGED <<ready, stuck>>
  /\ UNCHANGED <<e, round, used, object, timer, reading, lingering, answered, lost>>

-----------------------------------------------------------------------------
Init ==
  /\ chk_loop_init /\ live = {} /\ fault = "none"
  /\ used = {} /\ object = {} /\ ref = {} /\ closeRef = {} /\ lost = {} /\ timer = {} /\ reading = {}
  /\ closed = {} /\ lingering = {} /\ answered = {} /\ cb = NoCall

LuaStep ==
  \/ \E h \in Handle :
       \/ lua_dail(h, TRUE) \/ lua_dail(h, FALSE)
       \/ lua_listen(h) \/ lua_acceptor_gc(h) \/ lua_acceptor_pause(h)
       \/ lua_acceptor_resume(h) \/ lua_datagram_socket_new(h) \/ lua_stream_socket_new(h)
       \/ lua_datagram_socket_start(h) \/ lua_stream_socket_start(h)
       \/ lua_datagram_socket_close(h) \/ lua_stream_socket_gc(h)
       \/ lua_stream_socket_close(h) \/ lua_stream_socket_set_close_cb(h)
       \/ lua_watch_signal(h) \/ chk_unwatch_signal(h)
  \/ lua_post_closure \/ lua_event_loop_end \/ lua_event_loop_set_idle \/ _register_timer
  \/ LoopFunction(chk_loop_del)

(* The handles epoll may report: an acceptor only while it is reading.     *)
Reported == {h \in watched \cap live : h \in Acceptor => h \in reading}
Polls == \E H \in SUBSET Reported, ticks \in BOOLEAN : Poll(H, ticks)

Returns(h) ==
  \/ process_connect(h) \/ TimeoutReturns(h) \/ lua_acceptor_cb(h) \/ on_events(h)
  \/ SignalReturns(h) \/ CloseReturns(h)

LoopProgress ==
  \/ (LoopStep \/ Polls) /\ cb = NoCall /\ UNCHANGED <<handles, cb>>
  \/ \E h \in Handle : Serve(h) \/ Returns(h) \/ chk_loop_finalize(h)
Timeouts == \E h \in Handle : connect_timeout(h) \/ delay_close_timer_cb(h)
Started ==
  cb = NoCall /\ UNCHANGED <<handles, cb>> /\ (lua_event_loop_run \/ lua_event_loop_gc)

Next == Sound /\ (LuaStep \/ LoopProgress \/ Timeouts \/ Started)
Spec == Init /\ [][Next]_vars

(* The loop is run on and callbacks return; an acceptor has finitely many  *)
(* connections to accept; the timer's descriptor is reported again and     *)
(* again, and a timer that stays due is called (TimerWheel).               *)
Fairness ==
  /\ WF_vars(Sound /\ LoopProgress)
  /\ WF_vars(Sound /\ cb # NoCall /\ cb' = NoCall /\ \E h \in Handle : Returns(h))
  /\ SF_vars(Sound /\ cb = NoCall /\ (\E H \in SUBSET Reported : Poll(H, TRUE))
                   /\ UNCHANGED <<handles, cb>>)
  /\ \A c \in Connector : SF_vars(Sound /\ connect_timeout(c))
FairSpec == Spec /\ Fairness

-----------------------------------------------------------------------------
(* Every variable keeps its type. *)
TypeOK ==
  /\ LoopTypeOK
  /\ used \subseteq Handle /\ object \subseteq Acceptor \cup Datagram \cup Stream
  /\ ref \subseteq Handle /\ closeRef \subseteq Stream /\ lost \subseteq Datagram \cup Stream
  /\ timer \subseteq Connector
  /\ reading \subseteq Acceptor /\ closed \subseteq Datagram \cup Stream
  /\ lingering \subseteq Stream /\ answered \subseteq Connector
  /\ cb \in [h : Handle \cup {None}, why : Why]

(* Whatever a callback frees, the ready list of the round keeps only       *)
(* handles that exist: chk_unwatch_handle takes the entry out of it.       *)
ReadyLive == ready \subseteq live \cap watched

(* A connector or a socket is not freed while its own callback runs: the   *)
(* code that called it goes on using it.                                   *)
CallerLives == cb # NoCall /\ cb.h \notin Acceptor \cup Signal => cb.h \in live

(* Only a connector that has timed out stays in e.handles when it is freed. *)
DanglingTimedOut == Dangling \subseteq Connector \cap answered

(* No Lua object points to a freed socket, and no reference to a callback  *)
(* outlives the handle that is to release it.  The references in lost are  *)
(* those to which nothing points, as a second callback has taken their     *)
(* place (socket.h:222, 440 and 587): nobody ever releases them.           *)
NothingOutlives == object \cup ref \cup closeRef \subseteq live

(* Together: until freed memory is used in one of the ways that fault      *)
(* names, what the loop or Lua is going to touch next has not been freed.  *)
HandlesSafe ==
  TypeOK /\ (Sound => ReadyLive /\ CallerLives /\ DanglingTimedOut /\ NothingOutlives)

(* The callback of a dial is called once: not by its timeout after its     *)
(* event, by its event after its timeout, or by the end of the loop again. *)
AnsweredOnce == [][\A c \in answered : cb'.h = c => cb' = cb]_vars

(* A round ends, although each closure that it runs may post another and   *)
(* each callback may keep other handles busy.                              *)
LoopLeft == ~Sound \/ At("out") \/ Finalizing \/ At("gone")
RoundEnds == At("ready") ~> At("poll") \/ LoopLeft

(* A dial with a timeout is answered if the loop runs on, whatever the     *)
(* other handles do.                                                       *)
DialAnswered ==
  \A c \in Connector : c \in timer ~> c \in answered \/ LoopLeft
=============================================================================
