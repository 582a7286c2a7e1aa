----------------------------- MODULE EventLoop -----------------------------
(***************************************************************************)
(* The loop of the runtime: chk_event_loop.c over epoll.  It keeps a list  *)
(* of handles and a list of closures; a round puts the handles that have   *)
(* events on a ready list, serves them one by one, ticks the timers, runs  *)
(* closures and then the idle callback.  What it serves may unwatch and    *)
(* free other handles, post closures, stop the loop or delete it.          *)
(***************************************************************************)
EXTENDS Integers, FiniteSets

CONSTANTS
  Handle, None,
  MaxPosted,   \* a bound: closures that wait
  MaxRun       \* the most closures of a round but one, 1024 in _loop_run

ASSUME HandleAssumption == None \notin Handle
ASSUME ClosureAssumption == MaxPosted \in Nat /\ MaxRun \in Nat

VARIABLES
  live,      \* the handles whose memory is allocated
  watched,   \* h.loop is set and h is in e.handles
  ready,     \* linked into the ready list of this round
  stuck,     \* linked into the ready list of a round that has returned
  e,         \* the loop: the bits of e.status, the notification pipe, whether
             \* it has timers and an idle callback, how many closures wait
  round,     \* the locals of _loop_run: where it is, whether it runs once,
             \* whether the timers tick, how many closures it has run
  fault      \* memory that was freed has been used, and by whom

lists == <<live, watched, ready, stuck>>
loopVars == <<lists, e, round, fault>>

Place == {"out", "poll", "ready", "tick", "closures", "closure", "idle", "end", "final",
          "delete", "drain", "gone"}
Faults == {"none", "dangling", "stack", "timers", "loop", "idle", "acceptor", "reference",
           "spin", "loopclose"}
LoopTypeOK ==
  /\ live \subseteq Handle /\ watched \subseteq Handle
  /\ ready \subseteq Handle /\ stuck \subseteq Handle
  /\ e \in [inloop : BOOLEAN, closing : BOOLEAN, notified : BOOLEAN, timers : BOOLEAN,
            idle : BOOLEAN, fired : BOOLEAN, closures : 0..MaxPosted]
  /\ round \in [pc : Place, once : BOOLEAN, ticking : BOOLEAN, ran : 0..(MaxRun + 1)]
  /\ fault \in Faults

At(place) == round.pc = place
Goto(place) == round' = [round EXCEPT !.pc = place]
Sound == fault = "none"

(* Using freed memory, or links into it, may also go unnoticed. *)
MayFault(danger, name) == fault' \in {fault} \cup IF danger THEN {name} ELSE {}
Dangling == watched \ live

-----------------------------------------------------------------------------
(* Handles. *)

(* Its only failure is that of epoll_ctl, which callers choose. *)
chk_watch_handle(h) ==
  /\ watched' = watched \cup {h}
  /\ MayFault(Dangling # {}, "dangling") /\ UNCHANGED <<ready, stuck>>

BugUnlinked(h, list) == list
Unlinked(h, list) == IF h \in watched THEN list \ {h} ELSE list

chk_unwatch_handle(h) ==
  /\ watched' = watched \ {h}
  /\ ready' = Unlinked(h, ready) /\ stuck' = Unlinked(h, stuck)
  /\ IF h \in stuck THEN MayFault(TRUE, "stack")
     ELSE MayFault(h \in watched /\ Dangling # {}, "dangling")

(* chk_dlist_pushback refuses an entry that is linked elsewhere. *)
Linked(H) == H \ stuck

-----------------------------------------------------------------------------
(* A round of _loop_run. *)

chk_loop_init ==
  /\ watched = {} /\ ready = {} /\ stuck = {}
  /\ e = [inloop |-> FALSE, closing |-> FALSE, notified |-> FALSE, timers |-> FALSE,
          idle |-> FALSE, fired |-> FALSE, closures |-> 0]
  /\ round = [pc |-> "out", once |-> FALSE, ticking |-> FALSE, ran |-> 0]

lua_event_loop_run ==
  /\ At("out")
  /\ \E once \in BOOLEAN : round' = [round EXCEPT !.pc = "poll", !.once = once]
  /\ UNCHANGED <<lists, e, fault>>

(* epoll_wait and the loop over its events: the handles H, the timers' and *)
(* the notification.  At the notification it leaves the round; the handles *)
(* it has linked before stay linked, and INLOOP stays set.                 *)
Stopped(H, ticks) ==
  /\ e.notified
  /\ e' = [e EXCEPT !.notified = FALSE, !.inloop = TRUE]
  /\ Goto("end") /\ stuck' = stuck \cup H /\ ready' = ready

BugTickIfIdle(H, ticks) == ticks /\ H = {}
Ticking(H, ticks) == ticks

Polled(H, ticks) ==
  /\ ~e.notified
  /\ H # {} \/ ticks \/ round.once
  /\ e' = [e EXCEPT !.inloop = @ \/ H # {} \/ ticks]
  /\ round' = [round EXCEPT !.pc = IF H # {} \/ ticks THEN "ready" ELSE "closures",
                            !.ticking = Ticking(H, ticks)]
  /\ ready' = Linked(H) /\ stuck' = stuck

Poll(H, ticks) ==
  /\ At("poll") /\ (ticks => e.timers)
  /\ Stopped(H, ticks) \/ Polled(H, ticks)
  /\ UNCHANGED <<live, watched, fault>>

NothingReady ==
  /\ At("ready") /\ ready = {} /\ Goto("tick")
  /\ UNCHANGED <<lists, e, fault>>

(* The repeated timer of the idle callback only notes that it was due. *)
on_idle_timer_timeout ==
  /\ At("tick") /\ round.ticking /\ e.idle /\ ~e.fired
  /\ e' = [e EXCEPT !.fired = TRUE]
  /\ UNCHANGED <<lists, round, fault>>

EndServing ==
  /\ At("tick")
  /\ round' = [round EXCEPT !.pc = IF e.closing THEN "end" ELSE "closures",
                            !.ticking = FALSE]
  /\ e' = [e EXCEPT !.inloop = FALSE]
  /\ UNCHANGED <<lists, fault>>

chk_destroy_closure == e' = [e EXCEPT !.closures = @ - 1]

BugNeverFull == FALSE
BatchFull == round.ran > MaxRun

RunClosure ==
  /\ At("closures") /\ e.closures > 0 /\ ~BatchFull
  /\ chk_destroy_closure
  /\ round' = [round EXCEPT !.pc = "closure", !.ran = IF @ > MaxRun THEN @ ELSE @ + 1]
  /\ UNCHANGED <<lists, fault>>

call_closure ==
  /\ At("closure") /\ Goto("closures")
  /\ UNCHANGED <<lists, e, fault>>

(* The idle callback is called when its timer was due and the round took   *)
(* less than a millisecond.                                                *)
AfterRound == IF round.once THEN "end" ELSE "poll"

chk_check_idle ==
  /\ At("closures") /\ (e.closures = 0 \/ BatchFull)
  /\ e' = [e EXCEPT !.fired = FALSE]
  /\ \E place \in {AfterRound} \cup (IF e.idle /\ e.fired THEN {"idle"} ELSE {}) :
       round' = [round EXCEPT !.pc = place, !.ran = 0]
  /\ UNCHANGED <<lists, fault>>

IdleReturns ==
  /\ At("idle") /\ Goto(AfterRound)
  /\ UNCHANGED <<lists, e, fault>>

(* loopend *)
LoopEnd ==
  /\ At("end") /\ Goto(IF e.closing THEN "final" ELSE "out")
  /\ UNCHANGED <<lists, e, fault>>

-----------------------------------------------------------------------------
(* What callbacks, closures and the code around _loop_run call. *)

chk_loop_post_closure ==
  /\ e.closures < MaxPosted /\ e' = [e EXCEPT !.closures = @ + 1]
  /\ UNCHANGED <<lists, round, fault>>

chk_loop_end ==
  /\ e' = [e EXCEPT !.notified = TRUE]
  /\ UNCHANGED <<lists, round, fault>>

(* While the loop is finalized its timer manager, if it had one, is freed  *)
(* and still used.                                                         *)
Finalizing == At("final") \/ At("delete")
chk_loop_addtimer(idle) ==
  /\ e' = [e EXCEPT !.timers = TRUE, !.idle = @ \/ idle]
  /\ MayFault(Finalizing /\ e.timers, "timers")

(* Setting it again replaces the callback, and the timer stays. *)
chk_loop_set_idle_func_lua ==
  /\ IF e.idle THEN UNCHANGED <<e, fault>> ELSE chk_loop_addtimer(TRUE)
  /\ UNCHANGED <<lists, round>>

(* Inside a round the loop is only marked.  Outside of one it is destroyed *)
(* at once, although a closure or the idle callback may be what calls.     *)
chk_loop_del ==
  /\ \/ /\ e.inloop /\ e' = [e EXCEPT !.closing = TRUE] /\ UNCHANGED <<round, fault>>
     \/ /\ ~e.inloop /\ At("out") /\ Goto("delete") /\ UNCHANGED <<e, fault>>
     \/ /\ ~e.inloop /\ ~At("out") /\ fault' = "loop" /\ UNCHANGED <<e, round>>
  /\ UNCHANGED lists

(* The collector finalizes a loop that does not run. *)
lua_event_loop_gc ==
  /\ At("out") /\ Goto("final")
  /\ UNCHANGED <<lists, e, fault>>

(* The end of chk_loop_finalize, when the list of handles is empty: the    *)
(* idle timer is unregistered, but it went with the timer manager before.  *)
chk_idle_finalize ==
  /\ Finalizing /\ watched = {}
  /\ Goto(IF At("delete") THEN "drain" ELSE "gone")
  /\ e' = [e EXCEPT !.timers = FALSE, !.idle = FALSE]
  /\ MayFault(e.idle, "idle")
  /\ UNCHANGED lists

(* chk_loop_del runs what is left; without epoll it can only post more.    *)
DrainClosures ==
  /\ At("drain")
  /\ IF e.closures = 0 THEN Goto("gone") /\ e' = e
     ELSE /\ e' \in {[e EXCEPT !.closures = @ - 1], e} /\ UNCHANGED round
  /\ UNCHANGED <<lists, fault>>

LoopStep ==
  \/ NothingReady \/ on_idle_timer_timeout \/ EndServing \/ RunClosure \/ call_closure
  \/ chk_check_idle \/ IdleReturns \/ LoopEnd \/ chk_idle_finalize \/ DrainClosures
=============================================================================
