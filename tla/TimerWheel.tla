----------------------------- MODULE TimerWheel -----------------------------
(***************************************************************************)
(* The timer manager of chuck, chk_timer.c: three wheels of lists of       *)
(* timers.  A hand moves one slot of the lowest wheel per tick and calls   *)
(* the timers it finds; each time a wheel comes to its last slot the hand  *)
(* of the next wheel moves and its timers are spread again over the wheels *)
(* below.  A callback may register and unregister timers, its own too.     *)
(* The order of the timers in one list is left open.                       *)
(***************************************************************************)
EXTENDS Integers

CONSTANTS
  Timer,                        \* the chk_timer objects of the free pool
  SecSize, HourSize, DaySize,   \* wheel_size
  MaxTimeout,                   \* MAX_TIMEOUT
  Asked,                        \* timeouts passed to chk_timer_register
  Returned,                     \* what a callback may return
  MaxLag,     \* bound: how far the loop's ticks fall behind the system clock
  MaxNow,     \* bound: where the system clock stops
  NoTime

ASSUME WheelAssumption ==
  /\ SecSize \in Nat \ {0} /\ HourSize \in Nat \ {0} /\ DaySize \in Nat \ {0}
  /\ MaxTimeout \in Nat \ {0}
  /\ MaxTimeout < SecSize * (HourSize * DaySize)
  /\ MaxLag \in Nat /\ MaxLag < SecSize * HourSize
  /\ Asked \subseteq Nat /\ Returned \subseteq Int /\ MaxNow \in Nat
  /\ NoTime \notin Timer \cup Nat

VARIABLES
  now,                          \* chk_accurate_tick64(), monotonic
  until,                        \* argument of the chk_timer_tick under way
  started,                      \* ptrtick # NULL
  lasttick,
  curSec, curHour, curDay,      \* cur of the three wheels
  firing,                       \* fire() of the lowest wheel is under way
  place,     \* "free", in the list of a wheel, on fire()'s own list, or INCB
  wheel, slot,                  \* the list a queued timer is in
  expire, timeout, releasing,   \* fields of a timer
  handle,    \* timers that a lua_timer object still points to
  closed                        \* chk_timermgr_finalize ran

vars == <<now, until, started, lasttick, curSec, curHour, curDay, firing, place,
          wheel, slot, expire, timeout, releasing, handle, closed>>
hands == <<curSec, curHour, curDay>>
calls == <<until, firing, closed>>

Queued  == {t \in Timer : place[t] = "queued"}
Due     == {t \in Timer : place[t] = "due"}
Running == {t \in Timer : place[t] = "running"}

Clamp(ms) == IF ms > MaxTimeout THEN MaxTimeout ELSE IF ms > 0 THEN ms ELSE 1

-----------------------------------------------------------------------------
BugCalRemain(tick, exp) == exp - now
cal_remain(tick, exp) == exp - tick

(* _reg: the wheel and the list for a timer that expires in remain ticks.  *)

Carry(remain, size) == (remain - 1) \div size

Fits(remain, size) == size >= remain

HourRemain(remain) == Carry(remain, SecSize)
DayRemain(remain) == Carry(HourRemain(remain), HourSize)

WheelFor(remain) ==
  IF Fits(remain, SecSize) THEN "sec"
  ELSE IF Fits(HourRemain(remain), HourSize) THEN "hour" ELSE "day"

Wrap(s, size) == IF s >= size THEN s - size ELSE s

SlotFor(remain, cs, ch, cd) ==
  CASE WheelFor(remain) = "sec"  -> Wrap(cs + remain, SecSize)
    [] WheelFor(remain) = "hour" -> Wrap(ch + HourRemain(remain), HourSize)
    [] WheelFor(remain) = "day"  -> Wrap(cd + DayRemain(remain), DaySize)

Step(cur, size) == Wrap(cur + 1, size)

-----------------------------------------------------------------------------
Init ==
  /\ now = 0
  /\ until = 0 /\ lasttick = 0 /\ started = FALSE
  /\ curSec = -1 /\ curHour = 0 /\ curDay = 0
  /\ firing = FALSE
  /\ place = [t \in Timer |-> "free"]
  /\ wheel = [t \in Timer |-> "sec"]
  /\ slot = [t \in Timer |-> 0]
  /\ expire = [t \in Timer |-> 0]
  /\ timeout = [t \in Timer |-> 0]
  /\ releasing = [t \in Timer |-> FALSE]
  /\ handle = {}
  /\ closed = FALSE

Clock ==
  /\ now < MaxNow
  /\ started => now - lasttick < MaxLag
  /\ now' = now + 1
  /\ UNCHANGED <<calls, started, lasttick, hands, place, wheel, slot, expire,
                 timeout, releasing, handle>>

(* Code other than the manager's runs: a callback, or the rest of the loop. *)
InUserCode == ~closed /\ (Running # {} \/ (~firing /\ lasttick = until))

(* chk_timer_register, through chk_loop_addtimer and _register_timer. *)
Register(t) ==
  /\ InUserCode
  /\ place[t] = "free"
  /\ started' = TRUE
  /\ lasttick' = IF started THEN lasttick ELSE now
  /\ until' = IF started THEN until ELSE now
  /\ \E ms \in Asked :
       /\ timeout' = [timeout EXCEPT ![t] = Clamp(ms)]
       /\ expire' = [expire EXCEPT ![t] = now + Clamp(ms)]
  /\ place' = [place EXCEPT ![t] = "queued"]
  /\ LET remain == cal_remain(lasttick', expire'[t])
     IN /\ wheel' = [wheel EXCEPT ![t] = WheelFor(remain)]
        /\ slot' = [slot EXCEPT ![t] = SlotFor(remain, curSec, curHour, curDay)]
  /\ releasing' = [releasing EXCEPT ![t] = FALSE]
  /\ handle' = handle \cup {t}
  /\ UNCHANGED <<now, hands, firing, closed>>

(* _destroy_timer runs timer_ud_cleaner, which clears the Lua object. *)
BugCleaner(ts) == handle
Cleaner(ts) == handle \ ts

(* get_free_timer zeroes the object it takes from the pool; nothing reads  *)
(* it before, so the zeroing is done as it goes back.                      *)
Zero(ts) ==
  /\ wheel' = [t \in Timer |-> IF t \in ts THEN "sec" ELSE wheel[t]]
  /\ slot' = [t \in Timer |-> IF t \in ts THEN 0 ELSE slot[t]]
  /\ expire' = [t \in Timer |-> IF t \in ts THEN 0 ELSE expire[t]]
  /\ timeout' = [t \in Timer |-> IF t \in ts THEN 0 ELSE timeout[t]]

(* lua_unregister_timer and chk_timer_unregister. *)
Unregister(t) ==
  /\ InUserCode
  /\ t \in handle
  /\ handle' = handle \ {t}
  /\ IF t \in Running
     THEN /\ releasing' = [releasing EXCEPT ![t] = TRUE]
          /\ UNCHANGED place
     ELSE /\ place' = [place EXCEPT ![t] = "free"]
          /\ UNCHANGED releasing
  /\ Zero({t} \ Running)
  /\ UNCHANGED <<now, calls, started, lasttick, hands>>

(* _loop_run calls chk_timer_tick. *)
BeginTick ==
  /\ ~closed /\ started /\ ~firing
  /\ lasttick = until
  /\ lasttick # now
  /\ until' = now
  /\ UNCHANGED <<now, started, lasttick, hands, firing, place, wheel, slot,
                 expire, timeout, releasing, handle, closed>>

(* One tick: the hand moves, fire() takes the list it comes to. *)
Tick ==
  /\ ~closed /\ ~firing
  /\ lasttick # until
  /\ lasttick' = lasttick + 1
  /\ curSec' = Step(curSec, SecSize)
  /\ place' = [t \in Timer |->
                 IF t \in Queued /\ wheel[t] = "sec" /\ slot[t] = curSec'
                 THEN "due" ELSE place[t]]
  /\ firing' = TRUE
  /\ UNCHANGED <<now, until, started, curHour, curDay, wheel, slot, expire,
                 timeout, releasing, handle, closed>>

Call(t) ==
  /\ firing /\ Running = {}
  /\ t \in Due
  /\ place' = [place EXCEPT ![t] = "running"]
  /\ UNCHANGED <<now, calls, started, lasttick, hands, wheel, slot, expire,
                 timeout, releasing, handle>>

BugIgnoreRelease(t) == FALSE
Released(t) == releasing[t]

(* The callback returns ret: the timer runs again, or it is destroyed. *)
Return(t) ==
  /\ firing
  /\ t \in Running
  /\ \E ret \in Returned :
       IF ~Released(t) /\ ret >= 0
       THEN LET again == IF ret > 0 THEN ret ELSE timeout[t]
            IN /\ timeout' = [timeout EXCEPT ![t] = again]
               /\ expire' = [expire EXCEPT ![t] = lasttick + again]
               /\ place' = [place EXCEPT ![t] = "queued"]
               /\ wheel' = [wheel EXCEPT ![t] = WheelFor(again)]
               /\ slot' = [slot EXCEPT ![t] = SlotFor(again, curSec, curHour, curDay)]
               /\ UNCHANGED <<releasing, handle>>
       ELSE /\ place' = [place EXCEPT ![t] = "free"]
            /\ releasing' = [releasing EXCEPT ![t] = FALSE]
            /\ handle' = Cleaner({t})
            /\ Zero({t})
  /\ UNCHANGED <<now, calls, started, lasttick, hands>>

-----------------------------------------------------------------------------
(* The rest of fire(): the upper wheels move when the one below is at its  *)
(* last slot, and the lists they come to are spread again.  A timer pulled *)
(* from the hour wheel has at most 2 * SecSize ticks left, so it does not  *)
(* go to the day wheel that moves after it.                                *)

BugTurnDone(cur, size) == cur = size
TurnDone(cur, size) == cur + 1 = size

Pulled(t) ==
  \/ wheel[t] = "hour" /\ slot[t] = curHour'
  \/ wheel[t] = "day" /\ TurnDone(curHour', HourSize) /\ slot[t] = curDay'

Rest(t) == cal_remain(lasttick, expire[t])

Cascade ==
  /\ firing
  /\ Due = {} /\ Running = {}
  /\ firing' = FALSE
  /\ IF TurnDone(curSec, SecSize)
     THEN /\ curHour' = Step(curHour, HourSize)
          /\ curDay' = IF TurnDone(curHour', HourSize) THEN Step(curDay, DaySize)
                       ELSE curDay
          /\ LET again == {t \in Queued : Pulled(t)}
             IN /\ wheel' = [t \in Timer |->
                      IF t \in again THEN WheelFor(Rest(t)) ELSE wheel[t]]
                /\ slot' = [t \in Timer |->
                      IF t \in again THEN SlotFor(Rest(t), curSec, curHour', curDay')
                      ELSE slot[t]]
     ELSE UNCHANGED <<curHour, curDay, wheel, slot>>
  /\ UNCHANGED <<now, until, started, lasttick, curSec, place, expire, timeout,
                 releasing, handle, closed>>

(* chk_timermgr_finalize, when the loop is closed between two ticks. *)
Finalize ==
  /\ ~closed /\ ~firing
  /\ lasttick = until
  /\ closed' = TRUE
  /\ place' = [t \in Timer |-> "free"]
  /\ handle' = Cleaner(Queued)
  /\ Zero(Timer)
  /\ UNCHANGED <<now, until, started, lasttick, hands, firing, releasing>>

Next ==
  \/ Clock \/ BeginTick \/ Tick \/ Cascade \/ Finalize
  \/ \E t \in Timer : Register(t) \/ Unregister(t) \/ Call(t) \/ Return(t)

Spec == Init /\ [][Next]_vars

(* The loop's timerfd wakes it every millisecond, and callbacks return. *)
Fairness ==
  /\ WF_vars(Clock) /\ WF_vars(BeginTick) /\ WF_vars(Tick) /\ WF_vars(Cascade)
  /\ WF_vars(\E t \in Timer : Call(t)) /\ WF_vars(\E t \in Timer : Return(t))

FairSpec == Spec /\ Fairness

-----------------------------------------------------------------------------
TypeOK ==
  /\ now \in Nat /\ until \in Nat /\ lasttick \in Nat
  /\ started \in BOOLEAN /\ firing \in BOOLEAN /\ closed \in BOOLEAN
  /\ curSec \in -1 .. SecSize - 1
  /\ curHour \in 0 .. HourSize - 1
  /\ curDay \in 0 .. DaySize - 1
  /\ place \in [Timer -> {"free", "queued", "due", "running"}]
  /\ wheel \in [Timer -> {"sec", "hour", "day"}]
  /\ slot \in [Timer -> Nat]
  /\ expire \in [Timer -> Nat]
  /\ timeout \in [Timer -> Nat]
  /\ releasing \in [Timer -> BOOLEAN]
  /\ handle \subseteq Timer

(* The assertion of fire(): a timer is called in the very tick it expires  *)
(* in, wherever in the wheels it waited and however often it was moved.    *)
CalledOnTime == \A t \in Due \cup Running : expire[t] = lasttick

(* No timer is left behind in a list that the hand has passed. *)
NothingOverdue == \A t \in Queued : expire[t] > lasttick

SizeOf(w) == IF w = "sec" THEN SecSize ELSE IF w = "hour" THEN HourSize ELSE DaySize

(* _reg wraps a slot once (chk_timer.c:122): that has to be enough for the *)
(* list to exist, also when the loop is late and when callbacks return     *)
(* timeouts of their own.                                                  *)
SlotExists == \A t \in Queued : slot[t] < SizeOf(wheel[t])

(* A lua_timer object points to a chk_timer that is still its own: never   *)
(* to one that went back to the pool or that is being released, so that    *)
(* UnRegister and the garbage collector may follow the pointer.            *)
HandleLive == \A t \in handle : place[t] # "free" /\ ~releasing[t]

(* config.h:20: no timer waits longer than MAX_TIMEOUT from now on. *)
WithinMaxTimeout == \A t \in Queued : expire[t] <= now + MaxTimeout

(* What the wheels and the Lua objects rely on: lists that exist and that   *)
(* the hand will reach, good pointers, timeouts that the wheels can hold.   *)
TimerSafe == TypeOK /\ SlotExists /\ HandleLive /\ WithinMaxTimeout /\ NothingOverdue

(* What callers rely on: exact, at most one call, none after cancelling. *)
Promise == INSTANCE Timers WITH
  None <- NoTime, clock <- lasttick,
  deadline <- [t \in Timer |-> IF t \in Queued \cup Due THEN expire[t] ELSE NoTime],
  running <- IF Running = {} THEN NoTime ELSE CHOOSE t \in Timer : t \in Running,
  revoked <- \E t \in Running : releasing[t]

KeepsPromise == Promise!Spec

(* With the loop scheduled, every timer leaves the wheels: it is called or *)
(* it is cancelled.                                                        *)
EveryTimerEnds ==
  \A t \in Timer :
    (t \in Queued /\ expire[t] <= MaxNow) ~> (t \notin Queued)
=============================================================================
