---------------------------- MODULE HandlesProofs ----------------------------
(* Proofs about Handles, for any number of handles of every kind and any    *)
(* number of closures.                                                      *)
EXTENDS Handles, TLAPS

(* Whatever the loop or a callback still knows was made once. *)
Made == live \cup watched \cup answered \cup lingering \cup closed \subseteq used

(* What is closed has no Lua object and no callback any more. *)
Discarded == (lingering \cup closed) \cap (object \cup ref) = {}

(* A connector with a timer is allocated, and its callback does not run. *)
Timed == timer \subseteq live /\ cb.h \notin timer

(* A connector that was answered is freed as soon as its callback returns. *)
Once == answered \cap live \subseteq {cb.h}

(* Where the loop is when its ready list holds something, or a callback runs. *)
Places ==
  /\ ready # {} => At("ready")
  /\ cb # NoCall => At("ready") \/ At("tick") \/ Finalizing
  /\ cb.why = "timeout" => At("tick")
  /\ cb.why = "close" => Finalizing

(* Connectors get the callbacks of connectors, and are answered by them; a  *)
(* socket whose close callback runs after its last byte still lingers.      *)
Answers ==
  /\ cb.why \in {"connected", "failed", "timeout"} => cb.h \in Connector \cap answered
  /\ cb.why = "sent" => cb.h \in lingering

Core ==
  /\ ReadyLive /\ CallerLives /\ DanglingTimedOut /\ NothingOutlives
  /\ Made /\ Discarded /\ Timed /\ Once /\ Places /\ Answers
IInv == TypeOK /\ Core

-----------------------------------------------------------------------------
(* The kinds of handles are sets of handles and have nothing in common. *)
LEMMA KindsApart ==
  /\ None \notin Handle
  /\ Handle = Connector \cup Acceptor \cup Datagram \cup Stream \cup Signal
  /\ Connector \cap Acceptor = {} /\ Connector \cap Datagram = {}
  /\ Connector \cap Stream = {} /\ Connector \cap Signal = {}
  /\ Acceptor \cap Datagram = {} /\ Acceptor \cap Stream = {} /\ Acceptor \cap Signal = {}
  /\ Datagram \cap Stream = {} /\ Datagram \cap Signal = {} /\ Stream \cap Signal = {}
<1>1. /\ Kinds[1] = Connector /\ Kinds[2] = Acceptor /\ Kinds[3] = Datagram
      /\ Kinds[4] = Stream /\ Kinds[5] = Signal
  BY DEF Kinds
<1>2. Handle = UNION {Kinds[i] : i \in 1..5}
  BY KindAssumption DEF KindAssumption
<1>3. \A i, j \in 1..5 : i # j => Kinds[i] \cap Kinds[j] = {}
  BY KindAssumption DEF KindAssumption
<1>4. Handle = Connector \cup Acceptor \cup Datagram \cup Stream \cup Signal
  <2>1. 1..5 = {1, 2, 3, 4, 5}
    OBVIOUS
  <2> QED BY <1>1, <1>2, <2>1
<1>5. /\ Connector \cap Acceptor = {} /\ Connector \cap Datagram = {}
      /\ Connector \cap Stream = {} /\ Connector \cap Signal = {}
  BY <1>1, <1>3
<1>6. /\ Acceptor \cap Datagram = {} /\ Acceptor \cap Stream = {}
      /\ Acceptor \cap Signal = {} /\ Datagram \cap Stream = {}
  BY <1>1, <1>3
<1>7. Datagram \cap Signal = {} /\ Stream \cap Signal = {}
  BY <1>1, <1>3
<1> QED BY <1>4, <1>5, <1>6, <1>7, HandleAssumption DEF HandleAssumption

LEMMA InitIInv == Init => IInv
<1> SUFFICES ASSUME Init PROVE IInv
  OBVIOUS
<1>1. TypeOK
  <2>1. LoopTypeOK
    <3>1. 0 \in 0..MaxPosted /\ 0 \in 0..(MaxRun + 1)
      BY ClosureAssumption DEF ClosureAssumption
    <3>2. fault \in Faults
      BY DEF Init, Faults
    <3>3. e \in [inloop : BOOLEAN, closing : BOOLEAN, notified : BOOLEAN, timers : BOOLEAN,
                 idle : BOOLEAN, fired : BOOLEAN, closures : 0..MaxPosted]
      BY <3>1 DEF Init, chk_loop_init
    <3>4. round \in [pc : Place, once : BOOLEAN, ticking : BOOLEAN, ran : 0..(MaxRun + 1)]
      BY <3>1 DEF Init, chk_loop_init, Place
    <3> QED BY <3>2, <3>3, <3>4 DEF Init, chk_loop_init, LoopTypeOK
  <2>2. cb \in [h : Handle \cup {None}, why : Why]
    BY DEF Init, NoCall, Why
  <2> QED BY <2>1, <2>2 DEF Init, TypeOK
<1>2. Core
  BY DEF Init, chk_loop_init, NoCall, Core, ReadyLive, CallerLives, DanglingTimedOut, NothingOutlives, Made,
     Discarded, Timed, Once, Places, Answers, Dangling
<1> QED BY <1>1, <1>2 DEF IInv

-----------------------------------------------------------------------------
(* The steps of the loop itself, and what Lua asks of it: they serve nobody   *)
(* and free nothing.                                                          *)
LEMMA QuietStep ==
  ASSUME IInv, LoopTypeOK', Places', UNCHANGED <<live, watched, handles, cb>>,
         ready' \subseteq live \cap watched
  PROVE  IInv'
<1>1. TypeOK'
  BY DEF IInv, TypeOK, handles
<1>2. ReadyLive' /\ CallerLives' /\ DanglingTimedOut' /\ NothingOutlives'
  BY DEF IInv, Core, ReadyLive, CallerLives, DanglingTimedOut, Dangling, NothingOutlives, handles
<1>3. Made' /\ Discarded' /\ Timed' /\ Once' /\ Answers'
  BY DEF IInv, Core, Made, Discarded, Timed, Once, Answers, handles
<1> QED BY <1>1, <1>2, <1>3 DEF IInv, Core

LEMMA LoopStepInv ==
  ASSUME IInv, LoopStep, cb = NoCall, UNCHANGED <<handles, cb>>
  PROVE  IInv'
<1>1. LoopTypeOK /\ Places /\ ReadyLive /\ cb.why = "none"
  BY DEF IInv, TypeOK, Core, NoCall
<1>2. UNCHANGED lists /\ LoopTypeOK' /\ (ready # {} => At("ready"))'
  <2>1. CASE NothingReady
    BY <1>1, <2>1 DEF NothingReady, LoopTypeOK, lists, At, Goto, Place
  <2>2. CASE on_idle_timer_timeout
    BY <1>1, <2>2 DEF on_idle_timer_timeout, LoopTypeOK, lists, At, Places
  <2>3. CASE EndServing
    BY <1>1, <2>3 DEF EndServing, LoopTypeOK, lists, At, Place, Places
  <2>4. CASE RunClosure
    <3>1. e.closures - 1 \in 0..MaxPosted
      BY <1>1, <2>4, ClosureAssumption DEF RunClosure, LoopTypeOK, ClosureAssumption
    <3>2. (IF round.ran > MaxRun THEN round.ran ELSE round.ran + 1) \in 0..(MaxRun + 1)
      BY <1>1, ClosureAssumption DEF LoopTypeOK, ClosureAssumption
    <3> QED BY <1>1, <2>4, <3>1, <3>2 DEF RunClosure, chk_destroy_closure, LoopTypeOK, lists,
         At, Place, Places
  <2>5. CASE call_closure
    BY <1>1, <2>5 DEF call_closure, LoopTypeOK, lists, At, Goto, Place, Places
  <2>6. CASE chk_check_idle
    <3>1. 0 \in 0..(MaxRun + 1)
      BY ClosureAssumption DEF ClosureAssumption
    <3>2. /\ e' = [e EXCEPT !.fired = FALSE]
          /\ UNCHANGED <<lists, fault>> /\ ready = {}
      BY <1>1, <2>6 DEF chk_check_idle, lists, At, Places
    <3>3. \E place \in Place : round' = [round EXCEPT !.pc = place, !.ran = 0]
      BY <2>6 DEF chk_check_idle, AfterRound, Place
    <3>4. round' \in [pc : Place, once : BOOLEAN, ticking : BOOLEAN, ran : 0..(MaxRun + 1)]
      BY <1>1, <3>1, <3>3 DEF LoopTypeOK
    <3>5. e' \in [inloop : BOOLEAN, closing : BOOLEAN, notified : BOOLEAN, timers : BOOLEAN,
                  idle : BOOLEAN, fired : BOOLEAN, closures : 0..MaxPosted]
      BY <1>1, <3>2 DEF LoopTypeOK
    <3> QED BY <1>1, <3>2, <3>4, <3>5 DEF LoopTypeOK, lists
  <2>7. CASE IdleReturns
    BY <1>1, <2>7 DEF IdleReturns, LoopTypeOK, lists, At, Goto, Place, Places, AfterRound
  <2>8. CASE LoopEnd
    BY <1>1, <2>8 DEF LoopEnd, LoopTypeOK, lists, At, Goto, Place, Places
  <2>9. CASE chk_idle_finalize
    BY <1>1, <2>9 DEF chk_idle_finalize, MayFault, Faults, LoopTypeOK, lists, At, Goto, Place,
       Places, Finalizing
  <2>10. CASE DrainClosures
    <3>1. e.closures # 0 => e.closures - 1 \in 0..MaxPosted
      BY <1>1, ClosureAssumption DEF LoopTypeOK, ClosureAssumption
    <3> QED BY <1>1, <2>10, <3>1 DEF DrainClosures, LoopTypeOK, lists, At, Goto, Place, Places
  <2> QED BY <2>1, <2>2, <2>3, <2>4, <2>5, <2>6, <2>7, <2>8, <2>9, <2>10 DEF LoopStep
<1>3. Places'
  BY <1>1, <1>2 DEF Places, NoCall
<1> QED BY <1>1, <1>2, <1>3, QuietStep DEF lists, ReadyLive

LEMMA PollInv ==
  ASSUME IInv, NEW H \in SUBSET Reported, NEW ticks \in BOOLEAN, Poll(H, ticks),
         cb = NoCall, UNCHANGED <<handles, cb>>
  PROVE  IInv'
<1>1. LoopTypeOK /\ Places /\ ReadyLive /\ cb.why = "none"
  BY DEF IInv, TypeOK, Core, NoCall
<1>2. H \subseteq live \cap watched /\ H \subseteq Handle
  BY <1>1 DEF Reported, LoopTypeOK
<1>3. ready' \subseteq live \cap watched /\ LoopTypeOK' /\ Places'
  <2>1. CASE Stopped(H, ticks)
    BY <1>1, <1>2, <2>1 DEF Poll, Stopped, LoopTypeOK, Goto, At, Place, Places, NoCall
  <2>2. CASE Polled(H, ticks)
    <3>1. ready' = H \ stuck /\ stuck' = stuck
      BY <2>2 DEF Polled, Linked
    <3>2. e' \in [inloop : BOOLEAN, closing : BOOLEAN, notified : BOOLEAN, timers : BOOLEAN,
                  idle : BOOLEAN, fired : BOOLEAN, closures : 0..MaxPosted]
      BY <1>1, <2>2 DEF Polled, LoopTypeOK
    <3>3. /\ round' \in [pc : Place, once : BOOLEAN, ticking : BOOLEAN, ran : 0..(MaxRun + 1)]
          /\ H # {} => round'.pc = "ready"
      BY <1>1, <2>2 DEF Polled, LoopTypeOK, Ticking, Place
    <3> QED BY <1>1, <1>2, <3>1, <3>2, <3>3 DEF Poll, LoopTypeOK, At, Places, NoCall
  <2> QED BY <2>1, <2>2 DEF Poll
<1> QED BY <1>3, QuietStep DEF Poll

LEMMA LoopFunctionInv ==
  ASSUME IInv,
         \/ lua_post_closure \/ lua_event_loop_end \/ lua_event_loop_set_idle
         \/ _register_timer \/ LoopFunction(chk_loop_del)
  PROVE  IInv'
<1>1. LoopTypeOK /\ Places /\ ReadyLive
  BY DEF IInv, TypeOK, Core
<1>2. UNCHANGED <<lists, handles, cb>> /\ LoopTypeOK' /\ Places'
  <2>1. CASE lua_post_closure
    <3>1. e.closures < MaxPosted => e.closures + 1 \in 0..MaxPosted
      BY <1>1, ClosureAssumption DEF LoopTypeOK, ClosureAssumption
    <3> QED BY <1>1, <2>1, <3>1 DEF lua_post_closure, LoopFunction, chk_loop_post_closure,
         LoopTypeOK, lists, Places, At, Finalizing
  <2>2. CASE lua_event_loop_end
    BY <1>1, <2>2 DEF lua_event_loop_end, LoopFunction, chk_loop_end, LoopTypeOK, lists, Places,
       At, Finalizing
  <2>3. CASE lua_event_loop_set_idle
    <3>1. /\ \/ e' = e /\ fault' = fault
             \/ e' = [e EXCEPT !.timers = TRUE, !.idle = @ \/ TRUE]
          /\ UNCHANGED <<lists, round, handles, cb>>
      BY <2>3 DEF lua_event_loop_set_idle, LoopFunction, chk_loop_set_idle_func_lua, chk_loop_addtimer
    <3>2. fault' \in Faults
      BY <1>1, <2>3 DEF lua_event_loop_set_idle, LoopFunction, chk_loop_set_idle_func_lua,
         chk_loop_addtimer, MayFault, Faults, LoopTypeOK
    <3>3. e' \in [inloop : BOOLEAN, closing : BOOLEAN, notified : BOOLEAN, timers : BOOLEAN,
                  idle : BOOLEAN, fired : BOOLEAN, closures : 0..MaxPosted]
      BY <1>1, <3>1 DEF LoopTypeOK
    <3> QED BY <1>1, <3>1, <3>2, <3>3 DEF LoopTypeOK, lists, Places, At, Finalizing
  <2>4. CASE _register_timer
    <3>1. /\ e' = [e EXCEPT !.timers = TRUE, !.idle = @ \/ FALSE]
          /\ UNCHANGED <<lists, round, handles, cb>> /\ fault' \in Faults
      BY <1>1, <2>4 DEF _register_timer, LoopFunction, chk_loop_addtimer, MayFault, Faults, LoopTypeOK
    <3>2. e' \in [inloop : BOOLEAN, closing : BOOLEAN, notified : BOOLEAN, timers : BOOLEAN,
                  idle : BOOLEAN, fired : BOOLEAN, closures : 0..MaxPosted]
      BY <1>1, <3>1 DEF LoopTypeOK
    <3> QED BY <1>1, <3>1, <3>2 DEF LoopTypeOK, lists, Places, At, Finalizing
  <2>5. CASE LoopFunction(chk_loop_del)
    BY <1>1, <2>5 DEF LoopFunction, chk_loop_del, Faults, LoopTypeOK, lists, Places, At, Goto,
       Place, Finalizing
  <2> QED BY <2>1, <2>2, <2>3, <2>4, <2>5
<1> QED BY <1>1, <1>2, QuietStep DEF lists, ReadyLive

LEMMA StartedInv == ASSUME IInv, Started PROVE IInv'
<1>1. LoopTypeOK /\ Places /\ ReadyLive /\ cb.why = "none"
  BY DEF IInv, TypeOK, Core, Started, NoCall
<1>2. UNCHANGED <<lists, handles, cb>> /\ LoopTypeOK' /\ Places'
  BY <1>1 DEF Started, lua_event_loop_run, lua_event_loop_gc, LoopTypeOK, lists, Places, At, Goto,
     Place, Finalizing, NoCall
<1> QED BY <1>1, <1>2, QuietStep DEF lists, ReadyLive

-----------------------------------------------------------------------------
(* What watching, unwatching and a new timer do to the lists, and to the      *)
(* types of the loop.                                                         *)
LEMMA UnwatchFacts ==
  ASSUME IInv, NEW h \in Handle, chk_unwatch_handle(h)
  PROVE  /\ watched' = watched \ {h} /\ ready' = ready \ {h} /\ stuck' \subseteq stuck
         /\ fault' \in Faults
<1>1. ready \subseteq watched /\ fault \in Faults
  BY DEF IInv, Core, ReadyLive, TypeOK, LoopTypeOK
<1>2. fault' \in Faults
  BY <1>1 DEF chk_unwatch_handle, MayFault, Faults
<1> QED BY <1>1, <1>2 DEF chk_unwatch_handle, Unlinked

LEMMA WatchFacts ==
  ASSUME IInv, NEW h \in Handle, chk_watch_handle(h)
  PROVE  /\ watched' = watched \cup {h} /\ ready' = ready /\ stuck' = stuck
         /\ fault' \in Faults
BY DEF IInv, TypeOK, LoopTypeOK, chk_watch_handle, MayFault, Faults

LEMMA LoopTypes ==
  ASSUME IInv, live' \subseteq Handle, watched' \subseteq Handle, ready' \subseteq Handle,
         stuck' \subseteq Handle, fault' \in Faults, UNCHANGED <<e, round>>
  PROVE  LoopTypeOK'
BY DEF IInv, TypeOK, LoopTypeOK

LEMMA AddTimerFacts ==
  ASSUME IInv, chk_loop_addtimer(FALSE), live' \subseteq Handle, watched' \subseteq Handle,
         ready' \subseteq Handle, stuck' \subseteq Handle, UNCHANGED round
  PROVE  LoopTypeOK'
BY DEF IInv, TypeOK, LoopTypeOK, chk_loop_addtimer, MayFault, Faults

LEMMA RoundPlaces ==
  ASSUME IInv, UNCHANGED round, cb' = cb \/ cb' = NoCall, ready' \subseteq ready
  PROVE  Places'
BY DEF IInv, Core, Places, At, Finalizing, NoCall

-----------------------------------------------------------------------------
(* Connectors. *)

LEMMA DialInv == ASSUME IInv, NEW c \in Handle, NEW timed \in BOOLEAN, lua_dail(c, timed) PROVE IInv'
<1>1. /\ c \in Connector /\ c \notin used /\ used' = used \cup {c} /\ live' = live \cup {c}
      /\ ref' = ref \cup {c} /\ ready' = ready /\ stuck' = stuck
      /\ timer' \in {timer, timer \cup {c}} /\ watched' \in {watched, watched \cup {c}}
      /\ UNCHANGED <<round, object, closeRef, reading, closed, lingering, answered, cb, lost>>
  BY DEF lua_dail, Fresh, chk_async_connect, Created, loop_add, Unwatched
<1>2. TypeOK
  BY DEF IInv
<1>3. LoopTypeOK'
  <2>1. /\ live' \subseteq Handle /\ watched' \subseteq Handle /\ ready' \subseteq Handle
        /\ stuck' \subseteq Handle
    BY <1>1, <1>2 DEF TypeOK, LoopTypeOK
  <2>2. CASE chk_loop_addtimer(FALSE)
    BY <1>1, <2>1, <2>2, AddTimerFacts
  <2>3. CASE UNCHANGED <<e, fault>>
    BY <1>1, <1>2, <2>1, <2>3, LoopTypes DEF TypeOK, LoopTypeOK
  <2> QED BY <1>1, <2>2, <2>3 DEF lua_dail, chk_async_connect, loop_add, Unwatched
<1>4. TypeOK'
  BY <1>1, <1>2, <1>3 DEF TypeOK
<1>5. Places'
  BY <1>1, RoundPlaces
<1>6. ReadyLive' /\ CallerLives' /\ DanglingTimedOut' /\ NothingOutlives' /\ Made' /\ Discarded'
  BY <1>1, <1>2, KindsApart DEF IInv, Core, ReadyLive, CallerLives, DanglingTimedOut, Dangling, NothingOutlives,
     Made, Discarded, TypeOK
<1>7. cb.h # c
  BY <1>1, <1>2, KindsApart DEF IInv, Core, CallerLives, Made, TypeOK, NoCall
<1>8. Timed' /\ Once' /\ Answers'
  BY <1>1, <1>7 DEF IInv, Core, Made, Timed, Once, Answers
<1> QED BY <1>4, <1>5, <1>6, <1>8 DEF IInv, Core

(* The event of a connector, its callback and the end of it.                *)
LEMMA ConnectInv ==
  ASSUME IInv, NEW c \in Connector, c \in ready, cb = NoCall, At("ready"), UNCHANGED round,
         _process_connect(c)
  PROVE  IInv'
<1>1. TypeOK /\ c \in Handle /\ c \in live
  BY KindsApart DEF IInv, Core, ReadyLive
<1>2. /\ timer' = timer \ {c} /\ answered' = answered \cup {c}
      /\ cb'.h = c /\ cb'.why \in {"connected", "failed"} /\ cb' \in [h : Handle \cup {None}, why : Why]
      /\ watched' \in {watched, watched \ {c}} /\ ready' = ready \ {c} /\ stuck' \subseteq stuck
      /\ fault' \in Faults
      /\ UNCHANGED <<live, e, round, used, object, ref, closeRef, reading, closed, lingering, lost>>
  <2>1. CASE Call(c, "connected") /\ chk_unwatch_handle(c)
    BY <1>1, <2>1, UnwatchFacts DEF _process_connect, WithoutTimer, Call, Why
  <2>2. CASE Call(c, "failed") /\ ready' = ready \ {c} /\ UNCHANGED <<watched, stuck, fault>>
    BY <1>1, <2>2 DEF _process_connect, WithoutTimer, Call, Why, TypeOK, LoopTypeOK
  <2> QED BY <2>1, <2>2 DEF _process_connect
<1>3. LoopTypeOK'
  BY <1>1, <1>2, LoopTypes DEF TypeOK, LoopTypeOK
<1>4. TypeOK'
  BY <1>1, <1>2, <1>3 DEF TypeOK
<1>5. Places'
  BY <1>2 DEF At, Places
<1>6. ReadyLive' /\ CallerLives' /\ DanglingTimedOut' /\ NothingOutlives' /\ Made' /\ Discarded'
  BY <1>1, <1>2, KindsApart DEF IInv, Core, ReadyLive, CallerLives, DanglingTimedOut, Dangling, NothingOutlives,
     Made, Discarded
<1>7. Timed' /\ Once' /\ Answers'
  BY <1>1, <1>2, KindsApart DEF IInv, Core, Timed, Once, Answers, NoCall, TypeOK
<1> QED BY <1>4, <1>5, <1>6, <1>7 DEF IInv, Core

LEMMA ConnectorFreedInv ==
  ASSUME IInv, NEW c \in Handle, process_connect(c) \/ TimeoutReturns(c)
  PROVE  IInv'
<1>1. TypeOK /\ c \in Connector /\ cb.h = c /\ c \in answered /\ c \notin timer
  BY DEF IInv, Core, Answers, Timed, process_connect, dail_cb, TimeoutReturns, Calling
<1>2. /\ live' = live \ {c} /\ ref' = ref \ {c} /\ cb' = NoCall
      /\ watched' \in {watched, watched \ {c}} /\ ready' = ready \ {c} /\ stuck' \subseteq stuck
      /\ fault' \in Faults
      /\ UNCHANGED <<e, round, used, object, closeRef, timer, reading, closed, lingering, answered, lost>>
  <2>1. CASE process_connect(c)
    BY <2>1, UnwatchFacts DEF process_connect, dail_cb, Freed
  <2>2. CASE TimeoutReturns(c)
    <3>1. ready = {}
      BY <2>2 DEF TimeoutReturns, Calling, IInv, Core, Places, At
    <3> QED BY <1>1, <2>2, <3>1 DEF TimeoutReturns, Unwatched, TypeOK, LoopTypeOK
  <2> QED BY <2>1, <2>2
<1>3. LoopTypeOK'
  BY <1>1, <1>2, LoopTypes DEF TypeOK, LoopTypeOK
<1>4. TypeOK'
  <2>1. cb' \in [h : Handle \cup {None}, why : Why]
    BY <1>2 DEF NoCall, Why
  <2> QED BY <1>1, <1>2, <1>3, <2>1 DEF TypeOK
<1>5. Places'
  BY <1>2, RoundPlaces
<1>6. ReadyLive' /\ CallerLives' /\ DanglingTimedOut' /\ Made' /\ Discarded'
  BY <1>1, <1>2, KindsApart DEF IInv, Core, ReadyLive, CallerLives, DanglingTimedOut, Dangling,
     Made, Discarded
<1>7. NothingOutlives'
  BY <1>1, <1>2, KindsApart DEF IInv, Core, NothingOutlives, TypeOK
<1>8. Timed' /\ Once' /\ Answers'
  BY <1>1, <1>2, KindsApart DEF IInv, Core, Timed, Once, Answers, NoCall, TypeOK
<1> QED BY <1>4, <1>5, <1>6, <1>7, <1>8 DEF IInv, Core

LEMMA ConnectTimeoutInv == ASSUME IInv, NEW c \in Handle, connect_timeout(c) PROVE IInv'
<1>1. TypeOK /\ c \in Connector /\ c \in live /\ At("tick") /\ cb = NoCall
  BY DEF connect_timeout, IInv, Core, Timed, TypeOK
<1>2. /\ timer' = timer \ {c} /\ answered' = answered \cup {c}
      /\ cb'.h = c /\ cb'.why = "timeout" /\ cb' \in [h : Handle \cup {None}, why : Why]
      /\ UNCHANGED <<lists, e, round, fault, used, object, ref, closeRef, reading, closed, lingering, lost>>
  BY DEF connect_timeout, Call, Why, loopVars
<1>3. TypeOK'
  BY <1>1, <1>2 DEF TypeOK, LoopTypeOK, lists
<1>4. Places'
  BY <1>1, <1>2 DEF IInv, Core, At, Places, lists
<1>5. ReadyLive' /\ CallerLives' /\ DanglingTimedOut' /\ NothingOutlives' /\ Made' /\ Discarded'
  BY <1>1, <1>2, KindsApart DEF IInv, Core, ReadyLive, CallerLives, DanglingTimedOut, Dangling, NothingOutlives,
     Made, Discarded, lists
<1>6. Timed' /\ Once' /\ Answers'
  BY <1>1, <1>2, KindsApart DEF IInv, Core, Timed, Once, Answers, NoCall, TypeOK, lists
<1> QED BY <1>3, <1>4, <1>5, <1>6 DEF IInv, Core

-----------------------------------------------------------------------------
(* Acceptors: none of them is a connector or a socket, and freeing one takes  *)
(* its object and its reference along.                                        *)

LEMMA ListenInv == ASSUME IInv, NEW a \in Handle, lua_listen(a) PROVE IInv'
<1>1. TypeOK /\ a \in Acceptor /\ a \notin used /\ a \notin watched /\ a \notin live
  BY DEF lua_listen, Fresh, IInv, Core, Made
<1>2. /\ used' = used \cup {a} /\ ready' = ready /\ stuck' = stuck /\ fault' \in Faults
      /\ reading' \subseteq reading \cup {a}
      /\ UNCHANGED <<e, round, closeRef, timer, closed, lingering, answered, cb, lost>>
      /\ \/ /\ live' = live \cup {a} /\ watched' = watched \cup {a}
            /\ object' = object \cup {a} /\ ref' = ref \cup {a}
         \/ UNCHANGED <<live, watched, object, ref, lost>>
  <2>1. CASE Created(a) /\ chk_watch_handle(a) /\ reading' = reading \cup {a}
    BY <1>1, <2>1, WatchFacts DEF lua_listen, Created
  <2>2. CASE used' = used \cup {a} /\ UNCHANGED <<lists, fault, reading>>
    BY <1>1, <2>2 DEF lua_listen, lists, TypeOK, LoopTypeOK
  <2> QED BY <2>1, <2>2 DEF lua_listen, chk_acceptor_start
<1>3. TypeOK'
  <2>1. LoopTypeOK'
    BY <1>1, <1>2, LoopTypes DEF TypeOK, LoopTypeOK
  <2> QED BY <1>1, <1>2, <2>1 DEF TypeOK
<1>4. Places'
  BY <1>2, RoundPlaces
<1>5. ReadyLive' /\ CallerLives' /\ DanglingTimedOut' /\ NothingOutlives' /\ Made'
  BY <1>1, <1>2, KindsApart DEF IInv, Core, ReadyLive, CallerLives, DanglingTimedOut, Dangling, NothingOutlives,
     Made
<1>6. Discarded' /\ Timed' /\ Once' /\ Answers'
  BY <1>1, <1>2, KindsApart DEF IInv, Core, Made, Discarded, Timed, Once, Answers, TypeOK
<1> QED BY <1>3, <1>4, <1>5, <1>6 DEF IInv, Core

LEMMA AcceptorInv ==
  ASSUME IInv, NEW a \in Handle,
         lua_acceptor_gc(a) \/ lua_acceptor_pause(a) \/ lua_acceptor_resume(a)
  PROVE  IInv'
<1>1. TypeOK /\ a \in Acceptor
  BY DEF IInv, lua_acceptor_gc, lua_acceptor_pause, lua_acceptor_resume
<1>2. CASE lua_acceptor_gc(a)
  <2>1. /\ live' = live \ {a} /\ watched' = watched \ {a} /\ ready' = ready \ {a}
        /\ stuck' \subseteq stuck /\ fault' \in Faults /\ reading' = reading \ {a}
        /\ object' = object \ {a} /\ ref' = ref \ {a}
        /\ UNCHANGED <<e, round, used, closeRef, timer, closed, lingering, answered, cb, lost>>
    BY <1>2, UnwatchFacts DEF lua_acceptor_gc, chk_acceptor_del, Freed
  <2>2. TypeOK'
    <3>1. LoopTypeOK'
      BY <1>1, <2>1, LoopTypes DEF TypeOK, LoopTypeOK
    <3> QED BY <1>1, <2>1, <3>1 DEF TypeOK
  <2>3. Places'
    BY <2>1, RoundPlaces
  <2>4. ReadyLive' /\ CallerLives' /\ DanglingTimedOut' /\ NothingOutlives' /\ Made'
    BY <1>1, <2>1, KindsApart DEF IInv, Core, ReadyLive, CallerLives, DanglingTimedOut, Dangling,
       NothingOutlives, Made, TypeOK
  <2>5. Discarded' /\ Timed' /\ Once' /\ Answers'
    BY <1>1, <2>1, KindsApart DEF IInv, Core, Discarded, Timed, Once, Answers, TypeOK
  <2> QED BY <2>2, <2>3, <2>4, <2>5 DEF IInv, Core
<1>3. CASE lua_acceptor_pause(a) \/ lua_acceptor_resume(a)
  <2>1. reading' \subseteq Acceptor
        /\ UNCHANGED <<loopVars, used, object, ref, closeRef, timer, closed, lingering, answered, cb, lost>>
    BY <1>1, <1>3 DEF lua_acceptor_pause, lua_acceptor_resume, TypeOK
  <2>2. TypeOK'
    BY <1>1, <2>1 DEF TypeOK, LoopTypeOK, loopVars, lists
  <2>3. Core'
    BY <2>1 DEF IInv, Core, ReadyLive, CallerLives, DanglingTimedOut, Dangling, NothingOutlives, Made,
       Discarded, Timed, Once, Places, Answers, At, Finalizing, loopVars, lists
  <2> QED BY <2>2, <2>3 DEF IInv
<1> QED BY <1>2, <1>3

(* A callback of an acceptor, or of a signal handler, starts or ends. *)
LEMMA ServedQuietly ==
  ASSUME IInv, NEW h \in Acceptor \cup Signal, UNCHANGED <<live, watched, e, round, handles>>,
         cb = NoCall \/ cb.h = h,
         \/ cb' = NoCall \/ cb' = cb
         \/ At("ready") /\ cb'.h = h /\ cb'.why \in {"accepted", "broken", "event"}
            /\ cb' \in [h : Handle \cup {None}, why : Why],
         ready' \subseteq ready, stuck' = stuck, fault' \in Faults
  PROVE  IInv'
<1>1. TypeOK /\ h \in Handle
  BY KindsApart DEF IInv
<1>2. TypeOK'
  <2>1. LoopTypeOK'
    BY <1>1, LoopTypes DEF TypeOK, LoopTypeOK
  <2>2. cb' \in [h : Handle \cup {None}, why : Why]
    BY <1>1 DEF TypeOK, NoCall, Why
  <2> QED BY <1>1, <2>1, <2>2 DEF TypeOK, handles
<1>3. Places'
  BY DEF IInv, Core, Places, At, Finalizing, NoCall
<1>4. ReadyLive' /\ CallerLives' /\ DanglingTimedOut' /\ NothingOutlives' /\ Made' /\ Discarded'
  BY <1>1 DEF IInv, Core, ReadyLive, CallerLives, DanglingTimedOut, Dangling, NothingOutlives, Made, Discarded,
     handles
<1>5. Timed' /\ Once' /\ Answers'
  <2>1. answered \cap live = {} \/ cb' = cb
    BY <1>1, KindsApart DEF IInv, Core, Once, TypeOK, NoCall
  <2> QED BY <1>1, <2>1, KindsApart DEF IInv, Core, Timed, Once, Answers, TypeOK, NoCall, handles
<1> QED BY <1>2, <1>3, <1>4, <1>5 DEF IInv, Core

LEMMA AcceptInv ==
  ASSUME IInv, NEW a \in Acceptor, cb = NoCall, At("ready"), UNCHANGED round, process_accept(a)
  PROVE  IInv'
BY ServedQuietly, KindsApart DEF process_accept, Accepts, Call, Why, IInv, TypeOK, LoopTypeOK

LEMMA AcceptorCallbackInv == ASSUME IInv, NEW a \in Handle, lua_acceptor_cb(a) PROVE IInv'
<1>1. /\ a \in Acceptor /\ UNCHANGED <<lists, e, round, handles>> /\ cb.h = a
      /\ cb' \in [h : Handle \cup {None}, why : Why]
      /\ cb' = NoCall \/ (cb.why = "accepted" /\ cb'.h = a /\ cb'.why \in {"accepted", "broken"})
  BY DEF lua_acceptor_cb, Accepts, Call, NoCall, Why
<1>2. fault' \in Faults
  BY DEF lua_acceptor_cb, MayFault, Faults, IInv, TypeOK, LoopTypeOK
<1>3. TypeOK /\ Core
  BY DEF IInv
<1>4. TypeOK'
  <2>1. LoopTypeOK'
    BY <1>1, <1>2, <1>3, LoopTypes DEF TypeOK, LoopTypeOK, lists
  <2> QED BY <1>1, <1>3, <2>1 DEF TypeOK, handles
<1>5. Places'
  <2>1. a # None
    BY <1>1, KindsApart
  <2> QED BY <1>1, <1>3, <2>1 DEF Core, Places, At, Finalizing, NoCall, lists
<1>6. ReadyLive' /\ CallerLives' /\ DanglingTimedOut' /\ NothingOutlives' /\ Made' /\ Discarded'
  BY <1>1, <1>3, KindsApart DEF Core, ReadyLive, CallerLives, DanglingTimedOut, Dangling, NothingOutlives, Made,
     Discarded, handles, lists
<1>7. Timed' /\ Once' /\ Answers'
  BY <1>1, <1>3, KindsApart DEF Core, Timed, Once, Answers, TypeOK, NoCall, handles, lists
<1> QED BY <1>4, <1>5, <1>6, <1>7 DEF IInv, Core

-----------------------------------------------------------------------------
(* Sockets. *)

LEMMA SocketMadeInv == ASSUME IInv, NEW s \in Datagram \cup Stream, SocketMade(s) PROVE IInv'
<1>1. TypeOK /\ s \in Handle /\ s \notin used /\ s \notin live
  BY KindsApart DEF SocketMade, Fresh, IInv, Core, Made
<1>2. /\ used' = used \cup {s} /\ live' = live \cup {s} /\ object' = object \cup {s}
      /\ UNCHANGED <<watched, ready, stuck, e, round, fault, ref, closeRef, timer, reading,
                 closed, lingering, answered, cb, lost>>
  BY DEF SocketMade, Created
<1>3. TypeOK'
  <2>1. LoopTypeOK'
    BY <1>1, <1>2 DEF TypeOK, LoopTypeOK
  <2> QED BY <1>1, <1>2, <2>1 DEF TypeOK
<1>4. Places'
  BY <1>2, RoundPlaces
<1>5. ReadyLive' /\ CallerLives' /\ DanglingTimedOut' /\ NothingOutlives' /\ Made' /\ Discarded'
  BY <1>1, <1>2 DEF IInv, Core, ReadyLive, CallerLives, DanglingTimedOut, Dangling, NothingOutlives, Made,
     Discarded
<1>6. Timed' /\ Once' /\ Answers'
  BY <1>1, <1>2 DEF IInv, Core, Timed, Once, Answers, Made
<1> QED BY <1>3, <1>4, <1>5, <1>6 DEF IInv, Core

LEMMA SocketStartedInv ==
  ASSUME IInv, NEW s \in Datagram \cup Stream, SocketStarted(s)
  PROVE  IInv'
<1>1. TypeOK /\ s \in object /\ s \in live /\ s \in Handle
  BY KindsApart DEF SocketStarted, IInv, Core, NothingOutlives
<1>2. /\ watched' \in {watched, watched \cup {s}} /\ ready' = ready /\ stuck' = stuck
      /\ fault' \in Faults /\ ref' \in {ref, ref \cup {s}}
      /\ lost' \in {lost, lost \cup {s}}
      /\ UNCHANGED <<live, e, round, used, object, closeRef, timer, reading, closed, lingering,
                 answered, cb>>
  <2>1. CASE chk_watch_handle(s) /\ ref' = ref \cup {s} /\ lost' = lost \cup ({s} \cap ref)
    <3>1. {s} \cap ref = {} \/ {s} \cap ref = {s}
      OBVIOUS
    <3>2. lost' = lost \/ lost' = lost \cup {s}
      BY <2>1, <3>1
    <3>3. /\ watched' \in {watched, watched \cup {s}} /\ ready' = ready /\ stuck' = stuck
          /\ fault' \in Faults
      BY <1>1, <2>1, WatchFacts
    <3> QED BY <2>1, <3>2, <3>3 DEF SocketStarted
  <2>2. CASE Unwatched /\ UNCHANGED <<ref, lost>>
    BY <1>1, <2>2 DEF SocketStarted, Unwatched, TypeOK, LoopTypeOK
  <2> QED BY <2>1, <2>2 DEF SocketStarted
<1>3. TypeOK'
  <2>1. LoopTypeOK'
    BY <1>1, <1>2, LoopTypes DEF TypeOK, LoopTypeOK
  <2> QED BY <1>1, <1>2, <2>1 DEF TypeOK
<1>4. Places'
  BY <1>2, RoundPlaces
<1>5. ReadyLive' /\ CallerLives' /\ DanglingTimedOut' /\ NothingOutlives' /\ Made' /\ Discarded'
  BY <1>1, <1>2 DEF IInv, Core, ReadyLive, CallerLives, DanglingTimedOut, Dangling, NothingOutlives, Made,
     Discarded
<1>6. Timed' /\ Once' /\ Answers'
  BY <1>2 DEF IInv, Core, Timed, Once, Answers
<1> QED BY <1>3, <1>4, <1>5, <1>6 DEF IInv, Core

LEMMA SocketClosedInv ==
  ASSUME IInv, NEW s \in Datagram \cup Stream, SocketClosed(s)
  PROVE  IInv'
<1>1. TypeOK /\ s \in Handle /\ s \in object
  BY KindsApart DEF IInv, SocketClosed
<1>2. CASE inloop(s)
  <2>1. /\ closed' = closed \cup {s} /\ object' = object \ {s} /\ ref' = ref \ {s}
        /\ UNCHANGED <<lists, fault, closeRef, e, round, used, timer, reading, lingering,
                       answered, cb, lost>>
    BY <1>2 DEF SocketClosed, chk_datagram_socket_close
  <2>2. TypeOK'
    BY <1>1, <2>1 DEF TypeOK, LoopTypeOK, lists
  <2>3. Places' /\ ReadyLive' /\ CallerLives' /\ DanglingTimedOut' /\ NothingOutlives'
    BY <2>1 DEF IInv, Core, Places, At, Finalizing, ReadyLive, CallerLives, DanglingTimedOut,
       Dangling, NothingOutlives, lists
  <2>4. Made' /\ Discarded' /\ Timed' /\ Once' /\ Answers'
    BY <1>1, <2>1 DEF IInv, Core, Made, NothingOutlives, Discarded, Timed, Once, Answers, lists
  <2> QED BY <2>2, <2>3, <2>4 DEF IInv, Core
<1>3. CASE ~inloop(s)
  <2>1. /\ live' = live \ {s} /\ watched' = watched \ {s} /\ ready' = ready \ {s}
        /\ stuck' \subseteq stuck /\ fault' \in Faults /\ closeRef' = closeRef \ {s}
        /\ object' = object \ {s} /\ ref' = ref \ {s} /\ cb.h # s
        /\ UNCHANGED <<e, round, used, timer, reading, closed, lingering, answered, cb, lost>>
    BY <1>1, <1>3, UnwatchFacts DEF SocketClosed, chk_datagram_socket_close, release_socket, Freed,
       lua_socket_close_callback, inloop
  <2>2. TypeOK'
    <3>1. LoopTypeOK'
      BY <1>1, <2>1, LoopTypes DEF TypeOK, LoopTypeOK
    <3> QED BY <1>1, <2>1, <3>1 DEF TypeOK
  <2>3. Places'
    BY <2>1, RoundPlaces
  <2>4. ReadyLive' /\ CallerLives' /\ DanglingTimedOut' /\ NothingOutlives' /\ Made'
    BY <1>1, <2>1, KindsApart DEF IInv, Core, ReadyLive, CallerLives, DanglingTimedOut, Dangling,
       NothingOutlives, Made
  <2>5. Discarded' /\ Timed' /\ Once' /\ Answers'
    BY <1>1, <2>1, KindsApart DEF IInv, Core, Discarded, Timed, Once, Answers, TypeOK
  <2> QED BY <2>2, <2>3, <2>4, <2>5 DEF IInv, Core
<1> QED BY <1>2, <1>3

LEMMA StreamInv ==
  ASSUME IInv, NEW s \in Handle, lua_stream_socket_close(s) \/ lua_stream_socket_set_close_cb(s)
  PROVE  IInv'
<1>1. TypeOK /\ s \in Stream /\ s \in object /\ s \in live
  BY DEF lua_stream_socket_close, lua_stream_socket_set_close_cb, IInv, Core, NothingOutlives
<1>2. CASE lua_stream_socket_close(s)
  <2>1. /\ lingering' = lingering \cup {s} /\ object' = object \ {s} /\ ref' = ref \ {s}
        /\ UNCHANGED <<lists, round, used, closeRef, timer, reading, closed, answered, cb, lost>>
    BY <1>2 DEF lua_stream_socket_close
  <2>2. LoopTypeOK'
    BY <1>1, <1>2, <2>1, AddTimerFacts DEF lua_stream_socket_close, TypeOK, LoopTypeOK, lists
  <2>3. TypeOK'
    BY <1>1, <2>1, <2>2 DEF TypeOK
  <2>4. Places' /\ ReadyLive' /\ CallerLives' /\ DanglingTimedOut' /\ NothingOutlives'
    BY <2>1 DEF IInv, Core, Places, At, Finalizing, ReadyLive, CallerLives, DanglingTimedOut,
       Dangling, NothingOutlives, lists
  <2>5. Made' /\ Discarded' /\ Timed' /\ Once' /\ Answers'
    BY <1>1, <2>1 DEF IInv, Core, Made, Discarded, Timed, Once, Answers, lists
  <2> QED BY <2>3, <2>4, <2>5 DEF IInv, Core
<1>3. CASE lua_stream_socket_set_close_cb(s)
  <2>1. /\ closeRef' = closeRef \cup {s} /\ lost' \subseteq lost \cup {s}
        /\ UNCHANGED <<loopVars, used, object, ref, timer, reading, closed, lingering, answered, cb>>
    BY <1>3 DEF lua_stream_socket_set_close_cb
  <2>2. TypeOK'
    BY <1>1, <2>1 DEF TypeOK, LoopTypeOK, loopVars, lists
  <2>3. Core'
    BY <1>1, <2>1 DEF IInv, Core, ReadyLive, CallerLives, DanglingTimedOut, Dangling, NothingOutlives, Made,
       Discarded, Timed, Once, Places, Answers, At, Finalizing, loopVars, lists
  <2> QED BY <2>2, <2>3 DEF IInv
<1> QED BY <1>2, <1>3

-----------------------------------------------------------------------------
(* A socket is released outside of its callback, or when it ends; nothing in  *)
(* Lua refers to it any more.                                                 *)
LEMMA ReleaseInv ==
  ASSUME IInv, NEW s \in Datagram \cup Stream, release_socket(s), s \notin object \cup ref,
         cb' = NoCall, cb = NoCall \/ cb.h = s,
         closed' \subseteq closed, lingering' \subseteq lingering,
         UNCHANGED <<e, round, used, object, ref, timer, reading, answered, lost>>
  PROVE  IInv'
<1>1. TypeOK /\ s \in Handle
  BY KindsApart DEF IInv
<1>2. /\ live' = live \ {s} /\ watched' = watched \ {s} /\ ready' = ready \ {s}
      /\ stuck' \subseteq stuck /\ fault' \in Faults /\ closeRef' = closeRef \ {s}
  BY <1>1, UnwatchFacts DEF release_socket, Freed, lua_socket_close_callback
<1>3. TypeOK'
  <2>1. LoopTypeOK'
    BY <1>1, <1>2, LoopTypes DEF TypeOK, LoopTypeOK
  <2>2. cb' \in [h : Handle \cup {None}, why : Why]
    BY DEF NoCall, Why
  <2> QED BY <1>1, <1>2, <2>1, <2>2 DEF TypeOK
<1>4. Places'
  BY <1>2, RoundPlaces
<1>5. ReadyLive' /\ CallerLives' /\ DanglingTimedOut' /\ NothingOutlives' /\ Made'
  BY <1>1, <1>2, KindsApart DEF IInv, Core, ReadyLive, CallerLives, DanglingTimedOut, Dangling,
     NothingOutlives, Made
<1>6. Discarded' /\ Timed' /\ Answers'
  BY <1>1, <1>2, KindsApart DEF IInv, Core, Discarded, Timed, Answers, TypeOK, NoCall
<1>7. Once'
  <2>1. cb.h \notin Connector
    BY KindsApart DEF NoCall
  <2> QED BY <1>1, <1>2, <2>1 DEF IInv, Core, Once, TypeOK
<1> QED BY <1>3, <1>4, <1>5, <1>6, <1>7 DEF IInv, Core

LEMMA DelayedCloseInv == ASSUME IInv, NEW s \in Handle, delay_close_timer_cb(s) PROVE IInv'
<1>1. s \in lingering /\ s \in Stream /\ s \notin object \cup ref
  BY DEF delay_close_timer_cb, IInv, Core, Discarded, TypeOK
<1> QED BY <1>1, ReleaseInv DEF delay_close_timer_cb

(* The callback of a socket starts. *)
LEMMA SocketServedInv ==
  ASSUME IInv, NEW s \in Datagram \cup Stream, NEW why \in {"event", "sent"},
         SocketServed(s, why), why = "sent" => s \in lingering, s \in ready, cb = NoCall,
         At("ready"),
         UNCHANGED <<e, round, used, object, ref, timer, reading, closed, answered, lost>>
  PROVE  IInv'
<1>1. TypeOK /\ s \in Handle /\ s \in live
  BY KindsApart DEF IInv, Core, ReadyLive
<1>2. /\ cb'.h = s /\ cb'.why = why /\ cb' \in [h : Handle \cup {None}, why : Why]
      /\ ready' = ready \ {s} /\ UNCHANGED <<live, watched, stuck, fault, closeRef, lingering>>
  BY <1>1 DEF SocketServed, Call, Why
<1>3. TypeOK'
  BY <1>1, <1>2 DEF TypeOK, LoopTypeOK
<1>4. Places'
  BY <1>2 DEF Places, At
<1>5. ReadyLive' /\ CallerLives' /\ DanglingTimedOut' /\ NothingOutlives' /\ Made' /\ Discarded'
  BY <1>1, <1>2 DEF IInv, Core, ReadyLive, CallerLives, DanglingTimedOut, Dangling, NothingOutlives, Made,
     Discarded
<1>6. Timed' /\ Once' /\ Answers'
  <2>1. answered \cap live = {}
    BY KindsApart DEF IInv, Core, Once, TypeOK, NoCall
  <2> QED BY <1>1, <1>2, <2>1, KindsApart DEF IInv, Core, Timed, Once, Answers, TypeOK
<1> QED BY <1>3, <1>4, <1>5, <1>6 DEF IInv, Core

(* A callback ends, and nothing is freed. *)
LEMMA Returned ==
  ASSUME IInv, cb' = NoCall, cb = NoCall \/ cb.h \in Datagram \cup Stream,
         closed' \subseteq closed, watched' \subseteq watched, ready' \subseteq ready \cap watched',
         stuck' \subseteq stuck, fault' \in Faults,
         UNCHANGED <<live, e, round, used, object, ref, closeRef, timer, reading, lingering, answered, lost>>
  PROVE  IInv'
<1>1. TypeOK
  BY DEF IInv
<1>2. TypeOK'
  <2>1. LoopTypeOK'
    BY <1>1, LoopTypes DEF TypeOK, LoopTypeOK
  <2>2. cb' \in [h : Handle \cup {None}, why : Why]
    BY DEF NoCall, Why
  <2> QED BY <1>1, <2>1, <2>2 DEF TypeOK
<1>3. Places'
  BY RoundPlaces
<1>4. ReadyLive' /\ CallerLives' /\ DanglingTimedOut' /\ NothingOutlives' /\ Made' /\ Discarded'
  BY DEF IInv, Core, ReadyLive, CallerLives, DanglingTimedOut, Dangling, NothingOutlives, Made, Discarded
<1>5. Timed' /\ Once' /\ Answers'
  <2>1. answered \cap live = {}
    BY KindsApart DEF IInv, Core, Once, TypeOK, NoCall
  <2> QED BY <1>1, <2>1, KindsApart DEF IInv, Core, Timed, Once, Answers, TypeOK, NoCall
<1> QED BY <1>2, <1>3, <1>4, <1>5 DEF IInv, Core

LEMMA StreamServedInv ==
  ASSUME IInv, NEW s \in Handle, s \in ready, cb = NoCall, At("ready"), UNCHANGED round, data_cb(s)
  PROVE  IInv'
<1>1. TypeOK /\ s \in Stream
  BY DEF data_cb, IInv
<1>2. CASE s \in object /\ SocketServed(s, "event")
  BY <1>1, <1>2, SocketServedInv DEF data_cb
<1>3. CASE s \in lingering /\ SocketServed(s, "sent")
  BY <1>1, <1>3, SocketServedInv DEF data_cb
<1>4. CASE /\ s \in lingering /\ cb' = NoCall /\ ready' = ready \ {s}
           /\ UNCHANGED <<live, watched, stuck, fault, closeRef, lingering>>
  <2>1. fault' \in Faults /\ ready' \subseteq watched'
    BY <1>4 DEF IInv, TypeOK, LoopTypeOK, Core, ReadyLive
  <2> QED BY <1>4, <2>1, Returned DEF data_cb
<1> QED BY <1>2, <1>3, <1>4 DEF data_cb

LEMMA SocketReturnsInv == ASSUME IInv, NEW s \in Handle, on_events(s) PROVE IInv'
<1>1. s \in Datagram \cup Stream /\ cb.h = s /\ cb' = NoCall /\ closed' \subseteq closed
  BY DEF on_events, Calling
<1>2. CASE release_socket(s) /\ lingering' = lingering \ {s} /\ TRUE \in Finished(s)
  <2>1. s \in closed \/ s \in lingering
    BY <1>1, <1>2 DEF Finished, IInv, Core, Answers
  <2>2. s \notin object \cup ref
    BY <2>1 DEF IInv, Core, Discarded
  <2> QED BY <1>1, <1>2, <2>2, ReleaseInv DEF on_events
<1>3. CASE /\ UNCHANGED <<live, closeRef, lingering>>
           /\ Unwatched \/ chk_unwatch_handle(s)
  <2>1. /\ watched' \subseteq watched /\ ready' \subseteq ready \cap watched'
        /\ stuck' \subseteq stuck /\ fault' \in Faults
    <3>1. CASE Unwatched
      BY <3>1 DEF Unwatched, IInv, TypeOK, LoopTypeOK, Core, ReadyLive
    <3>2. CASE chk_unwatch_handle(s)
      <4>1. ready \subseteq watched
        BY DEF IInv, Core, ReadyLive
      <4> QED BY <3>2, <4>1, UnwatchFacts
    <3> QED BY <1>3, <3>1, <3>2 DEF on_events
  <2> QED BY <1>1, <1>3, <2>1, Returned DEF on_events
<1> QED BY <1>2, <1>3 DEF on_events

-----------------------------------------------------------------------------
(* Signals. *)

LEMMA SignalInv == ASSUME IInv, NEW s \in Handle, lua_watch_signal(s) PROVE IInv'
<1>1. TypeOK /\ s \in Signal /\ s \notin used
  BY DEF IInv, lua_watch_signal, Fresh
<1>2. /\ used' = used \cup {s} /\ ready' = ready /\ stuck' = stuck /\ fault' \in Faults
      /\ UNCHANGED <<e, round, object, closeRef, timer, reading, closed, lingering, answered, cb, lost>>
      /\ \/ /\ live' = live \cup {s} /\ watched' = watched \cup {s} /\ ref' = ref \cup {s}
         \/ UNCHANGED <<live, watched, ref>>
  <2>1. CASE Created(s) /\ chk_watch_handle(s) /\ ref' = ref \cup {s}
    BY <2>1, WatchFacts DEF lua_watch_signal, Created
  <2>2. CASE used' = used \cup {s} /\ fault' = "reference" /\ UNCHANGED <<lists, ref>>
    BY <2>2 DEF lua_watch_signal, lists, Faults
  <2> QED BY <2>1, <2>2 DEF lua_watch_signal, chk_watch_signal
<1>3. TypeOK'
  <2>1. LoopTypeOK'
    BY <1>1, <1>2, LoopTypes DEF TypeOK, LoopTypeOK
  <2> QED BY <1>1, <1>2, <2>1 DEF TypeOK
<1>4. Places'
  BY <1>2, RoundPlaces
<1>5. ReadyLive' /\ CallerLives' /\ DanglingTimedOut' /\ NothingOutlives' /\ Made'
  BY <1>1, <1>2 DEF IInv, Core, ReadyLive, CallerLives, DanglingTimedOut, Dangling, NothingOutlives, Made
<1>6. Discarded' /\ Timed' /\ Once' /\ Answers'
  BY <1>1, <1>2, KindsApart DEF IInv, Core, Made, Discarded, Timed, Once, Answers, TypeOK
<1> QED BY <1>3, <1>4, <1>5, <1>6 DEF IInv, Core

LEMMA UnwatchSignalInv == ASSUME IInv, NEW s \in Handle, chk_unwatch_signal(s) PROVE IInv'
<1>1. TypeOK /\ s \in Signal
  BY DEF IInv, chk_unwatch_signal
<1>2. /\ ready' \subseteq ready \cap watched' /\ stuck' \subseteq stuck /\ fault' \in Faults
      /\ UNCHANGED <<e, round, used, object, closeRef, timer, reading, closed, lingering, answered, cb, lost>>
      /\ \/ live' = live \ {s} /\ watched' = watched \ {s} /\ ref' = ref \ {s}
         \/ UNCHANGED <<live, watched, ref>>
  <2>1. ready \subseteq watched
    BY DEF IInv, Core, ReadyLive
  <2>2. CASE release_signal_handler(s)
    BY <2>1, <2>2, UnwatchFacts DEF chk_unwatch_signal, release_signal_handler, Freed
  <2>3. CASE on_signal
    BY <2>1, <2>3 DEF chk_unwatch_signal, on_signal, lists, Faults
  <2> QED BY <2>2, <2>3 DEF chk_unwatch_signal
<1>3. TypeOK'
  <2>1. LoopTypeOK'
    BY <1>1, <1>2, LoopTypes DEF TypeOK, LoopTypeOK
  <2> QED BY <1>1, <1>2, <2>1 DEF TypeOK
<1>4. Places'
  BY <1>2, RoundPlaces
<1>5. ReadyLive' /\ CallerLives' /\ DanglingTimedOut' /\ NothingOutlives' /\ Made'
  BY <1>1, <1>2, KindsApart DEF IInv, Core, ReadyLive, CallerLives, DanglingTimedOut, Dangling, NothingOutlives,
     Made, TypeOK
<1>6. Discarded' /\ Timed' /\ Once' /\ Answers'
  BY <1>1, <1>2, KindsApart DEF IInv, Core, Discarded, Timed, Once, Answers, TypeOK
<1> QED BY <1>3, <1>4, <1>5, <1>6 DEF IInv, Core

LEMMA SignalServedInv ==
  ASSUME IInv, NEW s \in Signal,
         \/ cb = NoCall /\ At("ready") /\ UNCHANGED round /\ signal_callback(s)
         \/ SignalReturns(s)
  PROVE  IInv'
<1>1. TypeOK /\ s \in Handle
  BY KindsApart DEF IInv
<1>2. CASE cb = NoCall /\ At("ready") /\ UNCHANGED round /\ signal_callback(s)
  BY <1>1, <1>2, ServedQuietly DEF signal_callback, Call, Why, TypeOK, LoopTypeOK
<1>3. CASE SignalReturns(s)
  BY <1>1, <1>3, ServedQuietly DEF SignalReturns, Calling, loopVars, lists, TypeOK, LoopTypeOK
<1> QED BY <1>2, <1>3

-----------------------------------------------------------------------------
(* The end of the loop. *)

LEMMA FinalizeInv == ASSUME IInv, NEW h \in Handle, chk_loop_finalize(h) PROVE IInv'
<1>1. TypeOK /\ Finalizing /\ cb = NoCall /\ ready = {} /\ h \in watched
  BY DEF chk_loop_finalize, IInv, Core, Places, At, Finalizing
<1>2. answered \cap live = {}
  BY <1>1, KindsApart DEF IInv, Core, Once, TypeOK, NoCall
<1>3. CASE h \notin live
  <2>1. fault' \in Faults
        /\ UNCHANGED <<lists, ref, answered, cb, timer, e, round, used, object, closeRef, reading,
                       closed, lingering, lost>>
    BY <1>3 DEF chk_loop_finalize, Faults
  <2>2. LoopTypeOK'
    BY <1>1, <2>1, LoopTypes DEF TypeOK, LoopTypeOK, lists
  <2>3. Places' /\ ready' \subseteq live \cap watched
    BY <1>1, <2>1, RoundPlaces DEF lists
  <2> QED BY <2>1, <2>2, <2>3, QuietStep DEF lists, handles
<1>4. CASE h \in live /\ h \in Signal
  <2>1. /\ live' = live \ {h} /\ watched' = watched \ {h} /\ ref' = ref \ {h}
        /\ UNCHANGED <<ready, stuck, answered, cb, timer, e, round, used, object, closeRef, reading,
                       closed, lingering, lost>>
    BY <1>4 DEF chk_loop_finalize
  <2>2. fault' \in Faults
    BY <1>1, <1>4 DEF chk_loop_finalize, MayFault, TypeOK, LoopTypeOK, Faults
  <2>3. TypeOK'
    <3>1. LoopTypeOK'
      BY <1>1, <2>1, <2>2, LoopTypes DEF TypeOK, LoopTypeOK
    <3> QED BY <1>1, <2>1, <3>1 DEF TypeOK
  <2>4. Places'
    BY <2>1, RoundPlaces
  <2>5. ReadyLive' /\ CallerLives' /\ DanglingTimedOut' /\ NothingOutlives' /\ Made'
    BY <1>1, <1>4, <2>1, KindsApart DEF IInv, Core, ReadyLive, CallerLives, DanglingTimedOut,
       Dangling, NothingOutlives, Made, TypeOK
  <2>6. Discarded' /\ Timed' /\ Once' /\ Answers'
    BY <1>1, <1>4, <2>1, KindsApart DEF IInv, Core, Discarded, Timed, Once, Answers, TypeOK
  <2> QED BY <2>3, <2>4, <2>5, <2>6 DEF IInv, Core
<1>5. CASE h \in live /\ h \notin Signal /\ h \in lingering
  <2>1. /\ watched' = watched \ {h} /\ ready' = {} /\ stuck' \subseteq stuck /\ fault' \in Faults
        /\ UNCHANGED <<live, ref, answered, cb, timer, e, round, used, object, closeRef, reading,
                       closed, lingering, lost>>
    BY <1>1, <1>5, UnwatchFacts DEF chk_loop_finalize
  <2>2. ready' \subseteq ready \cap watched' /\ closed' \subseteq closed
    BY <2>1
  <2> QED BY <1>1, <2>1, <2>2, Returned
<1>6. CASE h \in live /\ h \notin Signal /\ h \notin lingering
  <2>1. /\ cb'.h = h /\ cb'.why = "close" /\ cb' \in [h : Handle \cup {None}, why : Why]
        /\ timer' = timer \ {h}
        /\ answered' = (IF h \in Connector THEN answered \cup {h} ELSE answered)
        /\ UNCHANGED <<lists, fault, ref, e, round, used, object, closeRef, reading, closed, lingering, lost>>
    BY <1>6 DEF chk_loop_finalize, Call, Why
  <2>2. TypeOK'
    BY <1>1, <2>1 DEF TypeOK, LoopTypeOK, lists
  <2>3. Places'
    BY <1>1, <2>1 DEF Places, At, Finalizing, lists
  <2>4. ReadyLive' /\ CallerLives' /\ DanglingTimedOut' /\ NothingOutlives' /\ Made' /\ Discarded'
    BY <1>1, <1>6, <2>1 DEF IInv, Core, ReadyLive, CallerLives, DanglingTimedOut, Dangling, NothingOutlives,
       Made, Discarded, lists
  <2>5. Timed' /\ Once' /\ Answers'
    BY <1>2, <2>1 DEF IInv, Core, Timed, Once, Answers, lists
  <2> QED BY <2>2, <2>3, <2>4, <2>5 DEF IInv, Core
<1> QED BY <1>3, <1>4, <1>5, <1>6

LEMMA CloseReturnsInv == ASSUME IInv, NEW h \in Handle, CloseReturns(h) PROVE IInv'
<1>1. /\ TypeOK /\ cb.h = h /\ cb' = NoCall /\ closed' = closed \ {h} /\ ready = {} /\ h \notin timer
      /\ UNCHANGED <<e, round, used, object, timer, reading, lingering, answered, lost>>
  <2>1. TypeOK /\ cb.h = h /\ cb.why = "close"
    BY DEF CloseReturns, Calling, IInv
  <2> QED BY <2>1 DEF CloseReturns, IInv, Core, Places, Timed, At, Finalizing
<1>2. /\ watched' = watched \ {h} /\ ready' = {} /\ stuck' \subseteq stuck /\ fault' \in Faults
      /\ \/ h \notin Connector \cup closed /\ UNCHANGED <<live, ref, closeRef>>
         \/ /\ live' = live \ {h} /\ ref' = ref \ {h} /\ closeRef' = closeRef \ {h}
            /\ h \notin live \/ h \in Connector \cup closed
  <2>1. CASE h \in live /\ ~FreedByClose(h)
    BY <1>1, <2>1, UnwatchFacts DEF CloseReturns, FreedByClose
  <2>2. CASE ~(h \in live /\ ~FreedByClose(h))
    BY <1>1, <2>2 DEF CloseReturns, FreedByClose, MayFault, Faults, TypeOK, LoopTypeOK
  <2> QED BY <2>1, <2>2
<1>3. TypeOK'
  <2>1. LoopTypeOK'
    BY <1>1, <1>2, LoopTypes DEF TypeOK, LoopTypeOK
  <2>2. cb' \in [h : Handle \cup {None}, why : Why]
    BY <1>1 DEF NoCall, Why
  <2> QED BY <1>1, <1>2, <2>1, <2>2 DEF TypeOK
<1>4. Places'
  BY <1>1, <1>2, RoundPlaces
<1>5. ReadyLive' /\ CallerLives' /\ DanglingTimedOut' /\ Made' /\ Discarded'
  BY <1>1, <1>2 DEF IInv, Core, ReadyLive, CallerLives, DanglingTimedOut, Dangling, Made, Discarded
<1>6. NothingOutlives'
  <2>1. h \notin live \/ h \in Connector \cup closed => h \notin object
    BY <1>1, KindsApart DEF IInv, Core, NothingOutlives, Discarded, TypeOK
  <2> QED BY <1>1, <1>2, <2>1 DEF IInv, Core, NothingOutlives
<1>7. Timed' /\ Once' /\ Answers'
  BY <1>1, <1>2, KindsApart DEF IInv, Core, Timed, Once, Answers, TypeOK, NoCall
<1> QED BY <1>3, <1>4, <1>5, <1>6, <1>7 DEF IInv, Core

-----------------------------------------------------------------------------
LEMMA LuaStepInv == ASSUME IInv, LuaStep PROVE IInv'
<1>1. ASSUME NEW h \in Handle,
             \/ lua_dail(h, TRUE) \/ lua_dail(h, FALSE)
             \/ lua_listen(h) \/ lua_acceptor_gc(h) \/ lua_acceptor_pause(h)
             \/ lua_acceptor_resume(h)
      PROVE  IInv'
  BY <1>1, DialInv, ListenInv, AcceptorInv
<1>2. ASSUME NEW h \in Handle,
             \/ lua_datagram_socket_new(h) \/ lua_stream_socket_new(h)
             \/ lua_datagram_socket_start(h) \/ lua_stream_socket_start(h)
      PROVE  IInv'
  BY <1>2, SocketMadeInv, SocketStartedInv
     DEF lua_datagram_socket_new, lua_stream_socket_new, lua_datagram_socket_start,
         lua_stream_socket_start
<1>3. ASSUME NEW h \in Handle,
             \/ lua_datagram_socket_close(h) \/ lua_stream_socket_gc(h)
             \/ lua_stream_socket_close(h) \/ lua_stream_socket_set_close_cb(h)
             \/ lua_watch_signal(h) \/ chk_unwatch_signal(h)
      PROVE  IInv'
  BY <1>3, SocketClosedInv, StreamInv, SignalInv, UnwatchSignalInv
     DEF lua_datagram_socket_close, lua_stream_socket_gc
<1> QED BY <1>1, <1>2, <1>3, LoopFunctionInv DEF LuaStep

LEMMA ServeInv == ASSUME IInv, NEW h \in Handle, Serve(h) PROVE IInv'
<1>1. cb = NoCall /\ At("ready") /\ UNCHANGED round /\ h \in ready
  BY DEF Serve
<1>2. CASE h \in Connector /\ _process_connect(h)
  BY <1>1, <1>2, ConnectInv
<1>3. CASE h \in Acceptor /\ process_accept(h)
  BY <1>1, <1>3, AcceptInv
<1>4. CASE datagram_event_cb(h)
  BY <1>1, <1>4, SocketServedInv DEF datagram_event_cb
<1>5. CASE data_cb(h)
  BY <1>1, <1>5, StreamServedInv
<1>6. CASE h \in Signal /\ signal_callback(h)
  BY <1>1, <1>6, SignalServedInv
<1> QED BY <1>2, <1>3, <1>4, <1>5, <1>6 DEF Serve

LEMMA ReturnsInv == ASSUME IInv, NEW h \in Handle, Returns(h) PROVE IInv'
BY ConnectorFreedInv, AcceptorCallbackInv, SocketReturnsInv, SignalServedInv, CloseReturnsInv
   DEF Returns, SignalReturns

LEMMA NextIInv == ASSUME IInv, [Next]_vars PROVE IInv'
<1>1. CASE LuaStep
  BY <1>1, LuaStepInv
<1>2. CASE (LoopStep \/ Polls) /\ cb = NoCall /\ UNCHANGED <<handles, cb>>
  BY <1>2, LoopStepInv, PollInv DEF Polls
<1>3. CASE \E h \in Handle : Serve(h) \/ Returns(h) \/ chk_loop_finalize(h)
  BY <1>3, ServeInv, ReturnsInv, FinalizeInv
<1>4. CASE Timeouts
  BY <1>4, ConnectTimeoutInv, DelayedCloseInv DEF Timeouts
<1>5. CASE Started
  BY <1>5, StartedInv
<1>6. CASE UNCHANGED vars
  <2>1. LoopTypeOK' /\ Places' /\ ready' \subseteq live \cap watched
    BY <1>6, RoundPlaces DEF vars, loopVars, lists, IInv, TypeOK, LoopTypeOK, Core, ReadyLive
  <2> QED BY <1>6, <2>1, QuietStep DEF vars, loopVars, lists
<1> QED BY <1>1, <1>2, <1>3, <1>4, <1>5, <1>6 DEF Next, LoopProgress

-----------------------------------------------------------------------------
(* The strengthened invariant: it holds whatever epoll refuses, in every      *)
(* state up to the use of freed memory at which the model stops.              *)
THEOREM HandlesInvariant == Spec => []IInv
BY InitIInv, NextIInv, PTL DEF Spec

(* The ready list holds only allocated, watched handles; nobody is freed in   *)
(* its own callback; only a connector that has timed out stays in the list    *)
(* of handles; no Lua object and no reference of a callback outlives its      *)
(* handle (chk_connector.c:22, chk_event_loop_epoll.h:178,                    *)
(* chk_stream_socket.c:240).                                                  *)
THEOREM AllHandlesSafe == Spec => []HandlesSafe
<1>1. IInv => HandlesSafe
  BY DEF IInv, Core, HandlesSafe
<1> QED BY <1>1, HandlesInvariant, PTL

(* The callback of a dial is called once, by its event, its timeout or the    *)
(* end of the loop (chk_connector.c:22, 44).                                  *)
THEOREM DialAnsweredOnce == Spec => AnsweredOnce
<1> DEFINE OnlyOnce == \A c \in answered : cb'.h = c => cb' = cb
<1>1. ASSUME IInv, [Next]_vars PROVE [OnlyOnce]_vars
  <2> SUFFICES ASSUME Next, NEW c \in answered, cb'.h = c PROVE cb' = cb
    BY <1>1
  <2>1. TypeOK /\ c \in Connector /\ c \in Handle /\ c # None
    BY <1>1, KindsApart DEF IInv, TypeOK
  <2>2. cb = NoCall => c \notin live
    BY <1>1, <2>1 DEF IInv, Core, Once, NoCall
  <2>3. cb' # NoCall
    BY <2>1 DEF NoCall
  <2>4. CASE LuaStep
    BY <2>4 DEF LuaStep, lua_dail, lua_listen, lua_acceptor_gc, lua_acceptor_pause,
       lua_acceptor_resume, lua_datagram_socket_new, lua_stream_socket_new, SocketMade,
       lua_datagram_socket_start, lua_stream_socket_start, SocketStarted,
       lua_datagram_socket_close, lua_stream_socket_gc, SocketClosed, lua_stream_socket_close,
       lua_stream_socket_set_close_cb, lua_watch_signal, chk_unwatch_signal, lua_post_closure,
       lua_event_loop_end, lua_event_loop_set_idle, _register_timer, LoopFunction
  <2>5. ASSUME NEW h \in Handle, Serve(h) PROVE cb' = cb
    <3>1. h \in live /\ cb = NoCall
      BY <1>1, <2>5 DEF Serve, IInv, Core, ReadyLive
    <3>2. cb'.h = h
      BY <2>3, <2>5 DEF Serve, _process_connect, process_accept, Accepts, datagram_event_cb, data_cb,
         SocketServed, signal_callback, Call
    <3> QED BY <2>2, <3>1, <3>2
  <2>6. ASSUME NEW h \in Handle, Returns(h) PROVE cb' = cb
    <3>1. CASE lua_acceptor_cb(h)
      <4>1. h \in Acceptor /\ cb'.h = h
        BY <2>3, <3>1 DEF lua_acceptor_cb, Accepts, Call
      <4> QED BY <2>1, <4>1, KindsApart
    <3> QED BY <2>3, <2>6, <3>1 DEF Returns, process_connect, TimeoutReturns, on_events,
         SignalReturns, CloseReturns
  <2>7. ASSUME NEW h \in Handle, chk_loop_finalize(h) PROVE cb' = cb
    <3>1. cb = NoCall
      BY <2>7 DEF chk_loop_finalize
    <3>2. cb' = cb \/ (h \in live /\ cb'.h = h)
      <4>1. h \notin live \/ h \in Signal \/ h \in lingering => cb' = cb
        BY <2>7 DEF chk_loop_finalize
      <4>2. h \in live /\ h \notin Signal /\ h \notin lingering => Call(h, "close")
        BY <2>7 DEF chk_loop_finalize
      <4> QED BY <4>1, <4>2 DEF Call
    <3> QED BY <2>2, <3>1, <3>2
  <2>8. ASSUME NEW h \in Handle, connect_timeout(h) PROVE cb' = cb
    <3>1. h \in live /\ cb = NoCall /\ cb'.h = h
      BY <1>1, <2>8 DEF connect_timeout, Call, IInv, Core, Timed
    <3> QED BY <2>2, <3>1
  <2>9. ASSUME NEW h \in Handle, delay_close_timer_cb(h) PROVE cb' = cb
    BY <2>9 DEF delay_close_timer_cb
  <2> QED BY <2>4, <2>5, <2>6, <2>7, <2>8, <2>9 DEF Next, LoopProgress, Timeouts, Started
<1> QED BY <1>1, HandlesInvariant, PTL DEF Spec, AnsweredOnce
=============================================================================
