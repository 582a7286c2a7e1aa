----------------------------- MODULE TickProofs -----------------------------
(***************************************************************************)
(* Proofs about what runs at every tick: the timer wheel of the C runtime, *)
(* and the arena of a room, which a timer moves on.                        *)
(*                                                                         *)
(* The timer wheel calls every timer exactly when it expires, for any      *)
(* number of timers and any wheel sizes.  The invariant says of every list *)
(* when a hand will reach it: a list of the lowest wheel at the very tick  *)
(* its timers expire in, a list of the wheels above at an earlier one.     *)
(*                                                                         *)
(* In the arena, users count the blocks they share with balls right,       *)
(* clients show what is in sight, and nobody has too many balls.           *)
(***************************************************************************)
EXTENDS TimerWheel, Arena, FiniteSetTheorems, TLAPS

(* How often the hand at cur has to move until it is at list s. *)
Ahead(s, cur, size) == IF s > cur THEN s - cur ELSE s - cur + size

(* How often it has to move until the hand of the next wheel moves. *)
ToTurn(cur, size) == IF cur + 1 = size THEN size ELSE size - 1 - cur

SecToTurn == IF firing THEN SecSize - 1 - curSec ELSE ToTurn(curSec, SecSize)
HourToTurn == ToTurn(curHour, HourSize)

(* The ticks until the list is taken: x, y to the turn of the wheels below. *)
Until(w, s, cs, ch, cd, x, y) ==
  IF w = "sec" THEN Ahead(s, cs, SecSize)
  ELSE IF w = "hour" THEN x + (Ahead(s, ch, HourSize) - 1) * SecSize
  ELSE (x + (y - 1) * SecSize)
         + (Ahead(s, cd, DaySize) - 1) * (SecSize * HourSize)

InTime(w, s, cs, ch, cd, x, y, rest) ==
  LET u == Until(w, s, cs, ch, cd, x, y)
  IN IF w = "sec" THEN u = rest ELSE u < rest

Clocks ==
  /\ lasttick <= until /\ until <= now
  /\ started => now - lasttick <= MaxLag
  /\ ~started => lasttick = until /\ \A t \in Timer : place[t] = "free"

Calls ==
  /\ ~firing => Due = {} /\ Running = {}
  /\ \A t, u \in Running : t = u
  /\ \A t \in Timer : releasing[t] => t \in Running
  /\ closed => ~firing

Timeouts == \A t \in Timer : place[t] # "free" => timeout[t] \in 1 .. MaxTimeout

Placed ==
  \A t \in Queued :
    InTime(wheel[t], slot[t], curSec, curHour, curDay, SecToTurn, HourToTurn, Rest(t))

IInv ==
  /\ TypeOK /\ Clocks /\ Calls /\ Timeouts
  /\ CalledOnTime /\ SlotExists /\ HandleLive /\ WithinMaxTimeout
  /\ Placed

-----------------------------------------------------------------------------
LEMMA Sizes ==
  /\ SecSize \in Nat \ {0} /\ HourSize \in Nat \ {0} /\ DaySize \in Nat \ {0}
  /\ MaxTimeout \in Nat \ {0} /\ MaxLag \in Nat
  /\ Asked \subseteq Nat /\ Returned \subseteq Int /\ MaxNow \in Nat
  /\ NoTime \notin Timer /\ NoTime \notin Nat
  BY WheelAssumption DEF WheelAssumption

(* Division rounds down. *)
LEMMA DivBound ==
  ASSUME NEW a \in Nat, NEW b \in Nat \ {0}
  PROVE  /\ a \div b \in Nat
         /\ (a \div b) * b <= a
         /\ a < (a \div b + 1) * b
  BY Z3

(* A hand at cur comes to the list n moves ahead after n moves. *)
LEMMA AheadOfWrap ==
  ASSUME NEW size \in Nat \ {0}, NEW cur \in -1 .. size - 1, NEW n \in 1 .. size,
         cur + n >= 0
  PROVE  /\ Wrap(cur + n, size) \in 0 .. size - 1
         /\ Ahead(Wrap(cur + n, size), cur, size) = n
  BY DEF Wrap, Ahead

(* A move brings every list but the one under the hand one move closer. *)
LEMMA AheadOfStep ==
  ASSUME NEW size \in Nat \ {0}, NEW cur \in -1 .. size - 1, NEW s \in 0 .. size - 1
  PROVE  /\ Step(cur, size) \in 0 .. size - 1
         /\ Ahead(s, cur, size) \in 1 .. size
         /\ s = Step(cur, size) <=> Ahead(s, cur, size) = 1
         /\ s # Step(cur, size) =>
              Ahead(s, Step(cur, size), size) = Ahead(s, cur, size) - 1
  BY DEF Step, Wrap, Ahead

(* A timer that the lowest wheel cannot hold has a later hour list. *)
LEMMA HourBound ==
  ASSUME NEW r \in Nat \ {0}
  PROVE  /\ HourRemain(r) \in Nat
         /\ HourRemain(r) * SecSize < r
         /\ r <= (HourRemain(r) + 1) * SecSize
         /\ ~Fits(r, SecSize) => HourRemain(r) >= 1
<1> DEFINE q == (r - 1) \div SecSize
<1>1. SecSize \in Nat \ {0} /\ r - 1 \in Nat
  BY Sizes
<1>2. q \in Nat /\ q * SecSize <= r - 1 /\ r - 1 < (q + 1) * SecSize
  BY <1>1, DivBound
<1>3. q = 0 => r - 1 < SecSize
  BY <1>1, <1>2
<1>. HIDE DEF q
<1>4. q * SecSize \in Int /\ (q + 1) * SecSize \in Int
  BY <1>1, <1>2
<1>5. r > SecSize => q >= 1
  BY <1>1, <1>2, <1>3
<1> USE DEF q
<1>. QED  BY <1>1, <1>2, <1>4, <1>5 DEF HourRemain, Carry, Fits

(* The same for the day wheel, which is large enough for what can be asked. *)
LEMMA DayBound ==
  ASSUME NEW r \in Nat \ {0}, ~Fits(HourRemain(r), HourSize)
  PROVE  /\ DayRemain(r) \in Nat \ {0}
         /\ DayRemain(r) * (SecSize * HourSize) < r
         /\ r <= MaxTimeout + MaxLag => DayRemain(r) <= DaySize
<1> DEFINE h == HourRemain(r)
           d == (h - 1) \div HourSize
<1>1. SecSize \in Nat \ {0} /\ HourSize \in Nat \ {0} /\ DaySize \in Nat \ {0}
  BY Sizes
<1>2. h \in Nat /\ h * SecSize < r
  BY HourBound
<1>. HIDE DEF h
<1>3. h > HourSize
  BY <1>1, <1>2 DEF Fits, h
<1>4. h - 1 \in Nat
  BY <1>1, <1>2, <1>3
<1>5. d \in Nat /\ d * HourSize <= h - 1 /\ h - 1 < (d + 1) * HourSize
  BY <1>1, <1>4, DivBound
<1>. HIDE DEF d
<1>6. d >= 1
  <2>1. d = 0 => h - 1 < HourSize
    BY <1>1, <1>5
  <2>. QED  BY <1>1, <1>2, <1>3, <1>5, <2>1
<1>7. d * (SecSize * HourSize) = (d * HourSize) * SecSize
  BY <1>1, <1>5, Z3
<1>8. (d * HourSize) * SecSize <= (h - 1) * SecSize
  BY <1>1, <1>4, <1>5, Z3
<1>9. (h - 1) * SecSize < r
  BY <1>1, <1>2, Z3
<1>10. d * (SecSize * HourSize) < r
  BY <1>1, <1>2, <1>5, <1>7, <1>8, <1>9
<1>11. ASSUME r <= MaxTimeout + MaxLag PROVE d <= DaySize
  <2>1. SUFFICES ASSUME d >= DaySize + 1 PROVE FALSE
    BY <1>1, <1>5
  <2> DEFINE turn == SecSize * HourSize
  <2>2. turn \in Nat
    BY <1>1, Z3
  <2>3. MaxTimeout < turn * DaySize
    <3>1. MaxTimeout < SecSize * (HourSize * DaySize)
      BY WheelAssumption DEF WheelAssumption
    <3>2. SecSize * (HourSize * DaySize) = turn * DaySize
      BY <1>1, Z3
    <3>. QED  BY <3>1, <3>2
  <2>4. MaxLag < turn /\ MaxLag \in Nat /\ MaxTimeout \in Nat
    BY WheelAssumption DEF WheelAssumption
  <2>. HIDE DEF turn
  <2>5. (DaySize + 1) * turn <= d * turn
    BY <1>1, <1>5, <2>1, <2>2, Z3
  <2>6. (DaySize + 1) * turn = turn * DaySize + turn
    BY <1>1, <2>2, Z3
  <2>7. d * turn < r
    BY <1>10 DEF turn
  <2>8. turn * DaySize \in Nat /\ d * turn \in Nat
    BY <1>1, <1>5, <2>2, Z3
  <2>. QED  BY <1>11, <2>2, <2>3, <2>4, <2>5, <2>6, <2>7, <2>8
<1>. QED  BY <1>5, <1>6, <1>10, <1>11 DEF DayRemain, Carry, d, h

(* _reg puts a timer into an existing list that is taken in time, wherever *)
(* the hands are: x and y say when the wheels below come round.            *)
LEMMA RegInTime ==
  ASSUME NEW r \in Nat \ {0}, r <= MaxTimeout + MaxLag,
         NEW cs \in -1 .. SecSize - 1, NEW ch \in 0 .. HourSize - 1,
         NEW cd \in 0 .. DaySize - 1,
         NEW x \in 0 .. SecSize, NEW y \in 1 .. HourSize
  PROVE  LET w == WheelFor(r)
             s == SlotFor(r, cs, ch, cd)
         IN /\ w \in {"sec", "hour", "day"}
            /\ s \in Nat
            /\ s < SizeOf(w)
            /\ InTime(w, s, cs, ch, cd, x, y, r)
<1>1. SecSize \in Nat \ {0} /\ HourSize \in Nat \ {0} /\ DaySize \in Nat \ {0}
  BY Sizes
<1>2. CASE Fits(r, SecSize)
  <2>1. r \in 1 .. SecSize /\ cs + r >= 0
    BY <1>1, <1>2 DEF Fits
  <2>2. WheelFor(r) = "sec" /\ SlotFor(r, cs, ch, cd) = Wrap(cs + r, SecSize)
    BY <1>2 DEF WheelFor, SlotFor
  <2>3. Wrap(cs + r, SecSize) \in 0 .. SecSize - 1
        /\ Ahead(Wrap(cs + r, SecSize), cs, SecSize) = r
    BY <1>1, <2>1, AheadOfWrap
  <2>. QED  BY <1>1, <2>2, <2>3 DEF InTime, Until, SizeOf
<1>3. CASE ~Fits(r, SecSize) /\ Fits(HourRemain(r), HourSize)
  <2> DEFINE h == HourRemain(r)
  <2>1. h \in Nat /\ h >= 1 /\ h * SecSize < r
    BY <1>3, HourBound
  <2>2. h \in 1 .. HourSize
    BY <1>1, <1>3, <2>1 DEF Fits
  <2>3. WheelFor(r) = "hour" /\ SlotFor(r, cs, ch, cd) = Wrap(ch + h, HourSize)
    BY <1>3 DEF WheelFor, SlotFor
  <2>. HIDE DEF h
  <2>4. Wrap(ch + h, HourSize) \in 0 .. HourSize - 1
        /\ Ahead(Wrap(ch + h, HourSize), ch, HourSize) = h
    <3>1. ch \in -1 .. HourSize - 1 /\ ch + h >= 0
      BY <1>1, <2>2
    <3>. QED  BY <1>1, <2>2, <3>1, AheadOfWrap
  <2>5. x + (h - 1) * SecSize < r
    BY <1>1, <2>1, Z3
  <2>. QED  BY <1>1, <2>3, <2>4, <2>5 DEF InTime, Until, SizeOf
<1>4. CASE ~Fits(r, SecSize) /\ ~Fits(HourRemain(r), HourSize)
  <2> DEFINE d == DayRemain(r)
             turn == SecSize * HourSize
  <2>1. d \in Nat \ {0} /\ d * turn < r /\ d <= DaySize
    BY <1>4, DayBound
  <2>2. WheelFor(r) = "day" /\ SlotFor(r, cs, ch, cd) = Wrap(cd + d, DaySize)
    BY <1>4 DEF WheelFor, SlotFor
  <2>. HIDE DEF d
  <2>3. d \in 1 .. DaySize
    BY <1>1, <2>1
  <2>4. Wrap(cd + d, DaySize) \in 0 .. DaySize - 1
        /\ Ahead(Wrap(cd + d, DaySize), cd, DaySize) = d
    <3>1. cd \in -1 .. DaySize - 1 /\ cd + d >= 0
      BY <1>1, <2>3
    <3>. QED  BY <1>1, <2>3, <3>1, AheadOfWrap
  <2>5. x + (y - 1) * SecSize <= turn
    <3>1. (y - 1) * SecSize <= (HourSize - 1) * SecSize
      BY <1>1, Z3
    <3>2. SecSize + (HourSize - 1) * SecSize = turn
      BY <1>1, Z3
    <3>3. (y - 1) * SecSize \in Nat /\ (HourSize - 1) * SecSize \in Nat
      BY <1>1, Z3
    <3>. HIDE DEF turn
    <3>. QED  BY <1>1, <3>1, <3>2, <3>3
  <2>6. turn \in Nat /\ (y - 1) * SecSize \in Nat
    BY <1>1, Z3
  <2>7. (x + (y - 1) * SecSize) + (d - 1) * turn < r
    <3>1. (d - 1) * turn = d * turn - turn
      BY <2>3, <2>6, Z3
    <3>2. d * turn \in Nat
      BY <2>3, <2>6, Z3
    <3>. HIDE DEF turn
    <3>. QED  BY <2>1, <2>5, <2>6, <3>1, <3>2
  <2>. QED  BY <1>1, <2>2, <2>4, <2>7 DEF InTime, Until, SizeOf
<1>. QED  BY <1>2, <1>3, <1>4

-----------------------------------------------------------------------------
ReturnsInRange == \A ret \in Returned : ret <= MaxTimeout

LEMMA ClampRange ==
  ASSUME NEW ms \in Asked
  PROVE  Clamp(ms) \in 1 .. MaxTimeout
  BY Sizes DEF Clamp

LEMMA InitIInv == Init => IInv
<1> SUFFICES ASSUME Init PROVE IInv
  OBVIOUS
<1>1. TypeOK
  <2>1. now \in Nat /\ until \in Nat /\ lasttick \in Nat
    BY DEF Init
  <2>2. started \in BOOLEAN /\ firing \in BOOLEAN /\ closed \in BOOLEAN
    BY DEF Init
  <2>3. /\ curSec \in -1 .. SecSize - 1 /\ curHour \in 0 .. HourSize - 1
        /\ curDay \in 0 .. DaySize - 1
    BY Sizes DEF Init
  <2>4. /\ place \in [Timer -> {"free", "queued", "due", "running"}]
        /\ wheel \in [Timer -> {"sec", "hour", "day"}]
        /\ slot \in [Timer -> Nat] /\ expire \in [Timer -> Nat]
        /\ timeout \in [Timer -> Nat] /\ releasing \in [Timer -> BOOLEAN]
        /\ handle \subseteq Timer
    BY DEF Init
  <2>. QED  BY <2>1, <2>2, <2>3, <2>4 DEF TypeOK
<1>2. Queued = {} /\ Due = {} /\ Running = {} /\ handle = {}
  BY DEF Init, Queued, Due, Running
<1>3. Clocks
  BY DEF Init, Clocks
<1>4. Calls
  BY <1>2 DEF Init, Calls
<1>5. Timeouts
  BY DEF Init, Timeouts
<1>6. CalledOnTime /\ SlotExists /\ HandleLive /\ WithinMaxTimeout /\ Placed
  BY <1>2, Zenon DEF CalledOnTime, SlotExists, HandleLive, WithinMaxTimeout, Placed
<1>. QED  BY <1>1, <1>3, <1>4, <1>5, <1>6 DEF IInv

(* Where the turns of the two lower wheels can be. *)
LEMMA TurnBounds ==
  ASSUME TypeOK
  PROVE  SecToTurn \in 0 .. SecSize /\ HourToTurn \in 1 .. HourSize
  BY Sizes DEF TypeOK, SecToTurn, HourToTurn, ToTurn

(* A timer not yet called has some time left, but not too much. *)
LEMMA RestBounds ==
  ASSUME IInv, NEW t \in Queued
  PROVE  Rest(t) \in Nat \ {0} /\ Rest(t) <= MaxTimeout + MaxLag
<1> USE DEF IInv
<1>1. t \in Timer /\ place[t] = "queued"
  BY DEF Queued
<1>2. started /\ now - lasttick <= MaxLag /\ expire[t] <= now + MaxTimeout
  BY <1>1 DEF Clocks, WithinMaxTimeout, TypeOK
<1>3. expire[t] \in Nat /\ lasttick \in Nat /\ now \in Nat
  BY <1>1 DEF TypeOK
<1>4. Rest(t) \in Int /\ Rest(t) <= MaxTimeout + MaxLag
  BY <1>2, <1>3, Sizes DEF Rest, cal_remain
<1>5. Rest(t) > 0
  <2> DEFINE S == SecSize
             x == SecToTurn
             y == HourToTurn
  <2>1. InTime(wheel[t], slot[t], curSec, curHour, curDay, x, y, Rest(t))
    BY DEF Placed
  <2>2. x \in 0 .. SecSize /\ y \in 1 .. HourSize
    BY TurnBounds
  <2>3. slot[t] \in Nat /\ slot[t] < SizeOf(wheel[t]) /\ wheel[t] \in {"sec", "hour", "day"}
    BY <1>1 DEF SlotExists, TypeOK
  <2>4. /\ SecSize \in Nat \ {0} /\ HourSize \in Nat \ {0} /\ DaySize \in Nat \ {0}
        /\ curSec \in -1 .. SecSize - 1 /\ curHour \in 0 .. HourSize - 1
        /\ curDay \in 0 .. DaySize - 1
    BY Sizes DEF TypeOK
  <2>. HIDE DEF x, y
  <2>5. CASE wheel[t] = "sec"
    <3>1. Ahead(slot[t], curSec, SecSize) >= 1
      BY <2>3, <2>4, <2>5 DEF Ahead, SizeOf
    <3>. QED  BY <2>1, <2>5, <3>1, <1>4 DEF InTime, Until
  <2>6. CASE wheel[t] = "hour"
    <3> DEFINE a == Ahead(slot[t], curHour, HourSize)
    <3>1. a \in Nat \ {0}
      BY <2>3, <2>4, <2>6 DEF Ahead, SizeOf
    <3>. HIDE DEF a
    <3>2. (a - 1) * SecSize \in Nat
      BY <2>4, <3>1, Z3
    <3>3. x + (a - 1) * SecSize < Rest(t)
      BY <2>1, <2>6 DEF InTime, Until, a
    <3>. QED  BY <2>2, <3>2, <3>3, <1>4
  <2>7. CASE wheel[t] = "day"
    <3> DEFINE a == Ahead(slot[t], curDay, DaySize)
    <3>1. a \in Nat \ {0}
      BY <2>3, <2>4, <2>7 DEF Ahead, SizeOf
    <3>. HIDE DEF a
    <3>2. (a - 1) * (SecSize * HourSize) \in Nat /\ (y - 1) * SecSize \in Nat
      BY <2>2, <2>4, <3>1, Z3
    <3>3. (x + (y - 1) * SecSize) + (a - 1) * (SecSize * HourSize) < Rest(t)
      BY <2>1, <2>7 DEF InTime, Until, a
    <3>. QED  BY <2>2, <3>2, <3>3, <1>4
  <2>. QED  BY <2>3, <2>5, <2>6, <2>7
<1>. QED  BY <1>4, <1>5

-----------------------------------------------------------------------------
(* Placed survives a step that moves no hand, if each timer in a list was   *)
(* there before or is put there in time.                                   *)
LEMMA PlacedKept ==
  ASSUME Placed, UNCHANGED <<hands, firing>>,
         \A t \in Queued' :
           \/ /\ t \in Queued
              /\ lasttick' = lasttick /\ expire'[t] = expire[t]
              /\ wheel'[t] = wheel[t] /\ slot'[t] = slot[t]
           \/ InTime(wheel'[t], slot'[t], curSec, curHour, curDay,
                     SecToTurn, HourToTurn, expire'[t] - lasttick')
  PROVE  Placed'
<1>1. curSec' = curSec /\ curHour' = curHour /\ curDay' = curDay /\ firing' = firing
  BY DEF hands
<1>2. SecToTurn' = SecToTurn /\ HourToTurn' = HourToTurn
  BY <1>1 DEF SecToTurn, HourToTurn
<1>3. ASSUME NEW t \in Queued'
      PROVE  InTime(wheel'[t], slot'[t], curSec', curHour', curDay', SecToTurn',
                    HourToTurn', expire'[t] - lasttick')
  BY <1>1, <1>2, <1>3, Zenon DEF Placed, Rest, cal_remain
<1>. QED  BY <1>3 DEF Placed, Rest, cal_remain

LEMMA StutterStep == ASSUME IInv, UNCHANGED vars PROVE IInv'
<1> USE DEF IInv, vars
<1>1. TypeOK' /\ Clocks'
  BY DEF TypeOK, Clocks
<1>2. Queued' = Queued /\ Due' = Due /\ Running' = Running
  BY DEF Queued, Due, Running
<1>3. Calls' /\ Timeouts'
  BY <1>2 DEF Calls, Timeouts
<1>4. CalledOnTime' /\ SlotExists' /\ HandleLive' /\ WithinMaxTimeout'
  BY <1>2 DEF CalledOnTime, SlotExists, HandleLive, WithinMaxTimeout
<1>5. Placed'
  BY <1>2, PlacedKept DEF hands
<1>. QED  BY <1>1, <1>3, <1>4, <1>5

LEMMA ClockStep == ASSUME IInv, Clock PROVE IInv'
<1> USE DEF IInv, Clock, calls, hands
<1>1. TypeOK'
  BY DEF TypeOK
<1>2. Clocks'
  BY Sizes DEF Clocks, TypeOK
<1>3. Queued' = Queued /\ Due' = Due /\ Running' = Running
  BY DEF Queued, Due, Running
<1>4. Calls' /\ Timeouts'
  BY <1>3 DEF Calls, Timeouts
<1>5. CalledOnTime' /\ SlotExists' /\ HandleLive'
  BY <1>3 DEF CalledOnTime, SlotExists, HandleLive
<1>6. WithinMaxTimeout'
  <2>1. now \in Nat /\ MaxTimeout \in Nat /\ \A t \in Queued : expire[t] \in Nat
    BY Sizes DEF TypeOK, Queued
  <2>. QED  BY <1>3, <2>1 DEF WithinMaxTimeout
<1>7. Placed'
  BY <1>3, PlacedKept
<1>. QED  BY <1>1, <1>2, <1>4, <1>5, <1>6, <1>7

LEMMA BeginTickStep == ASSUME IInv, BeginTick PROVE IInv'
<1> USE DEF IInv, BeginTick, hands
<1>1. TypeOK'
  BY DEF TypeOK
<1>2. Clocks'
  BY DEF Clocks, TypeOK
<1>3. Queued' = Queued /\ Due' = Due /\ Running' = Running
  BY DEF Queued, Due, Running
<1>4. Calls' /\ Timeouts'
  BY <1>3 DEF Calls, Timeouts
<1>5. CalledOnTime' /\ SlotExists' /\ HandleLive' /\ WithinMaxTimeout'
  BY <1>3 DEF CalledOnTime, SlotExists, HandleLive, WithinMaxTimeout
<1>6. Placed'
  BY <1>3, PlacedKept
<1>. QED  BY <1>1, <1>2, <1>4, <1>5, <1>6

LEMMA CallStep == ASSUME IInv, NEW t \in Timer, Call(t) PROVE IInv'
<1> USE DEF IInv, Call, calls, hands
<1>1. TypeOK'
  BY DEF TypeOK
<1>2. Clocks'
  BY DEF Clocks, TypeOK, Due
<1>3. Queued' = Queued /\ Due' = Due \ {t} /\ Running' = {t}
  BY DEF Queued, Due, Running, TypeOK
<1>4. Calls'
  BY <1>3 DEF Calls
<1>5. Timeouts' /\ HandleLive'
  BY DEF Timeouts, HandleLive, TypeOK, Due
<1>6. CalledOnTime' /\ SlotExists' /\ WithinMaxTimeout'
  BY <1>3 DEF CalledOnTime, SlotExists, WithinMaxTimeout
<1>7. Placed'
  BY <1>3, PlacedKept
<1>. QED  BY <1>1, <1>2, <1>4, <1>5, <1>6, <1>7

LEMMA FinalizeStep == ASSUME IInv, Finalize PROVE IInv'
<1> USE DEF IInv, Finalize, hands
<1>1. TypeOK'
  BY DEF TypeOK, Zero, Cleaner
<1>2. Clocks'
  BY DEF Clocks
<1>3. Queued' = {} /\ Due' = {} /\ Running' = {}
  BY DEF Queued, Due, Running
<1>4. Running = {} /\ Due = {}
  BY DEF Calls
<1>5. Calls'
  BY <1>3, <1>4 DEF Calls
<1>6. Timeouts'
  BY DEF Timeouts
<1>7. handle' = {}
  BY <1>4 DEF Cleaner, HandleLive, TypeOK, Queued, Due, Running
<1>8. CalledOnTime' /\ SlotExists' /\ HandleLive' /\ WithinMaxTimeout'
  BY <1>3, <1>7 DEF CalledOnTime, SlotExists, HandleLive, WithinMaxTimeout
<1>9. Placed'
  BY <1>3, PlacedKept
<1>. QED  BY <1>1, <1>2, <1>5, <1>6, <1>8, <1>9

LEMMA ZeroOne ==
  ASSUME TypeOK, NEW t \in Timer, Zero({t})
  PROVE  /\ wheel' = [wheel EXCEPT ![t] = "sec"]
         /\ slot' = [slot EXCEPT ![t] = 0]
         /\ expire' = [expire EXCEPT ![t] = 0]
         /\ timeout' = [timeout EXCEPT ![t] = 0]
<1>1. wheel' = [wheel EXCEPT ![t] = "sec"]
  BY DEF Zero, TypeOK
<1>2. slot' = [slot EXCEPT ![t] = 0]
  BY DEF Zero, TypeOK
<1>3. expire' = [expire EXCEPT ![t] = 0]
  BY DEF Zero, TypeOK
<1>4. timeout' = [timeout EXCEPT ![t] = 0]
  BY DEF Zero, TypeOK
<1>. QED  BY <1>1, <1>2, <1>3, <1>4

LEMMA UnregisterStep == ASSUME IInv, NEW t \in Timer, Unregister(t) PROVE IInv'
<1> USE DEF IInv, calls, hands
<1>1. /\ UNCHANGED <<now, until, firing, closed, started, lasttick, curSec, curHour, curDay>>
      /\ t \in handle /\ handle' = handle \ {t}
  BY DEF Unregister
<1>2. CASE t \in Running
  <2>1. /\ releasing' = [releasing EXCEPT ![t] = TRUE] /\ UNCHANGED place
        /\ UNCHANGED <<wheel, slot, expire, timeout>>
    BY <1>2 DEF Unregister, Zero, TypeOK
  <2>2. TypeOK'
    BY <1>1, <2>1 DEF TypeOK
  <2>3. Queued' = Queued /\ Due' = Due /\ Running' = Running
    BY <2>1 DEF Queued, Due, Running
  <2>4. Clocks' /\ Calls' /\ Timeouts'
    BY <1>1, <1>2, <2>1, <2>3 DEF Clocks, Calls, Timeouts, TypeOK
  <2>5. CalledOnTime' /\ SlotExists' /\ WithinMaxTimeout'
    BY <1>1, <2>1, <2>3 DEF CalledOnTime, SlotExists, WithinMaxTimeout
  <2>6. HandleLive'
    BY <1>1, <2>1 DEF HandleLive, TypeOK
  <2>7. Placed'
    BY <1>1, <2>1, <2>3, PlacedKept
  <2>. QED  BY <2>2, <2>4, <2>5, <2>6, <2>7
<1>3. CASE t \notin Running
  <2>1. place' = [place EXCEPT ![t] = "free"] /\ UNCHANGED releasing
    BY <1>3 DEF Unregister
  <2>2. /\ wheel' = [wheel EXCEPT ![t] = "sec"] /\ slot' = [slot EXCEPT ![t] = 0]
        /\ expire' = [expire EXCEPT ![t] = 0] /\ timeout' = [timeout EXCEPT ![t] = 0]
    <3>1. {t} \ Running = {t}
      BY <1>3
    <3>. QED  BY <3>1, ZeroOne DEF Unregister
  <2>3. TypeOK'
    <3>1. wheel' \in [Timer -> {"sec", "hour", "day"}]
      BY <2>2 DEF TypeOK
    <3>2. slot' \in [Timer -> Nat] /\ expire' \in [Timer -> Nat] /\ timeout' \in [Timer -> Nat]
      BY <2>2 DEF TypeOK
    <3>3. place' \in [Timer -> {"free", "queued", "due", "running"}]
      BY <2>1 DEF TypeOK
    <3>. QED  BY <1>1, <2>1, <3>1, <3>2, <3>3 DEF TypeOK
  <2>4. Queued' = Queued \ {t} /\ Due' = Due \ {t} /\ Running' = Running
    BY <1>3, <2>1 DEF Queued, Due, Running, TypeOK
  <2>5. Clocks'
    BY <1>1, <2>1 DEF Clocks, TypeOK
  <2>6. Calls'
    BY <1>1, <2>1, <2>4 DEF Calls
  <2>7. Timeouts'
    BY <2>1, <2>2 DEF Timeouts, TypeOK
  <2>8. \A u \in Timer \ {t} : /\ expire'[u] = expire[u] /\ slot'[u] = slot[u]
                               /\ wheel'[u] = wheel[u] /\ place'[u] = place[u]
    BY <2>1, <2>2 DEF TypeOK
  <2>9. t \notin Queued' \cup Due' \cup Running'
    BY <1>3, <2>4
  <2>10. CalledOnTime' /\ SlotExists' /\ WithinMaxTimeout'
    <3>1. Queued \subseteq Timer /\ Due \subseteq Timer /\ Running \subseteq Timer
      BY DEF Queued, Due, Running
    <3>. QED  BY <1>1, <2>4, <2>8, <2>9, <3>1
              DEF CalledOnTime, SlotExists, WithinMaxTimeout
  <2>11. HandleLive'
    BY <1>1, <2>1, <2>8 DEF HandleLive, TypeOK
  <2>12. Placed'
    BY <1>1, <2>4, <2>8, PlacedKept DEF Queued
  <2>. QED  BY <2>3, <2>5, <2>6, <2>7, <2>10, <2>11, <2>12
<1>. QED  BY <1>2, <1>3

LEMMA RegisterStep == ASSUME IInv, NEW t \in Timer, Register(t) PROVE IInv'
<1> USE DEF IInv
<1>1. /\ UNCHANGED <<now, firing, closed, curSec, curHour, curDay>>
      /\ place[t] = "free" /\ place' = [place EXCEPT ![t] = "queued"]
      /\ releasing' = [releasing EXCEPT ![t] = FALSE]
      /\ handle' = handle \cup {t}
      /\ started' = TRUE
      /\ lasttick' = (IF started THEN lasttick ELSE now)
      /\ until' = (IF started THEN until ELSE now)
  BY DEF Register, hands
<1>2. PICK c \in 1 .. MaxTimeout :
        /\ timeout' = [timeout EXCEPT ![t] = c]
        /\ expire' = [expire EXCEPT ![t] = now + c]
  <2>1. PICK ms \in Asked :
          /\ timeout' = [timeout EXCEPT ![t] = Clamp(ms)]
          /\ expire' = [expire EXCEPT ![t] = now + Clamp(ms)]
    BY DEF Register
  <2>2. Clamp(ms) \in 1 .. MaxTimeout
    BY ClampRange
  <2>. QED  BY <2>1, <2>2
<1> DEFINE r == expire'[t] - lasttick'
<1>3. /\ now \in Nat /\ until \in Nat /\ lasttick \in Nat /\ c \in Nat
      /\ started \in BOOLEAN
  BY Sizes DEF TypeOK
<1>4. expire'[t] = now + c
  BY <1>2 DEF TypeOK
<1>5. r \in Nat \ {0} /\ r <= MaxTimeout + MaxLag /\ lasttick' \in Nat
  BY <1>1, <1>2, <1>3, <1>4, Sizes DEF Clocks
<1>6. /\ wheel' = [wheel EXCEPT ![t] = WheelFor(r)]
      /\ slot' = [slot EXCEPT ![t] = SlotFor(r, curSec, curHour, curDay)]
  BY DEF Register, cal_remain
<1>7. /\ curSec \in -1 .. SecSize - 1 /\ curHour \in 0 .. HourSize - 1
      /\ curDay \in 0 .. DaySize - 1
      /\ SecToTurn \in 0 .. SecSize /\ HourToTurn \in 1 .. HourSize
  BY TurnBounds DEF TypeOK
<1> DEFINE w == WheelFor(r)
           s == SlotFor(r, curSec, curHour, curDay)
<1>. HIDE DEF r
<1>8. /\ w \in {"sec", "hour", "day"} /\ s \in Nat /\ s < SizeOf(w)
      /\ InTime(w, s, curSec, curHour, curDay, SecToTurn, HourToTurn, r)
  BY <1>5, <1>7, RegInTime
<1>9. wheel'[t] = w /\ slot'[t] = s /\ r = expire'[t] - lasttick'
  BY <1>6 DEF TypeOK, r
<1>. HIDE DEF w, s
<1>10. TypeOK'
  <2>1. wheel' \in [Timer -> {"sec", "hour", "day"}]
    BY <1>6, <1>8 DEF TypeOK, w
  <2>2. slot' \in [Timer -> Nat]
    BY <1>6, <1>8 DEF TypeOK, s
  <2>3. expire' \in [Timer -> Nat] /\ timeout' \in [Timer -> Nat]
    BY <1>2, <1>3 DEF TypeOK
  <2>4. place' \in [Timer -> {"free", "queued", "due", "running"}]
        /\ releasing' \in [Timer -> BOOLEAN] /\ handle' \subseteq Timer
    BY <1>1 DEF TypeOK
  <2>5. until' \in Nat
    BY <1>1, <1>3
  <2>. QED  BY <1>1, <1>5, <2>1, <2>2, <2>3, <2>4, <2>5 DEF TypeOK
<1>11. Queued' = Queued \cup {t} /\ Due' = Due /\ Running' = Running
       /\ t \notin Queued /\ t \notin Due /\ t \notin Running
  BY <1>1 DEF Queued, Due, Running, TypeOK
<1>12. \A u \in Timer \ {t} :
         /\ wheel'[u] = wheel[u] /\ slot'[u] = slot[u] /\ place'[u] = place[u]
         /\ expire'[u] = expire[u] /\ timeout'[u] = timeout[u]
         /\ releasing'[u] = releasing[u]
  BY <1>1, <1>2, <1>6 DEF TypeOK
<1>13. ~started => Queued = {} /\ Due = {} /\ Running = {}
  BY DEF Clocks, Queued, Due, Running
<1>14. Queued \subseteq Timer /\ Due \subseteq Timer /\ Running \subseteq Timer
  BY DEF Queued, Due, Running
<1>15. Clocks'
  BY <1>1, <1>3, Sizes DEF Clocks
<1>16. Calls'
  <2>1. \A u \in Timer : releasing'[u] => u \in Running'
    BY <1>1, <1>11, <1>12 DEF Calls, TypeOK
  <2>. QED  BY <1>1, <1>11, <2>1 DEF Calls
<1>17. Timeouts'
  BY <1>2, <1>12 DEF Timeouts, TypeOK
<1>18. CalledOnTime'
  BY <1>1, <1>11, <1>12, <1>13, <1>14 DEF CalledOnTime
<1>19. SlotExists'
  BY <1>8, <1>9, <1>11, <1>12, <1>14 DEF SlotExists
<1>20. HandleLive'
  BY <1>1, <1>12 DEF HandleLive, TypeOK
<1>21. WithinMaxTimeout'
  BY <1>1, <1>2, <1>3, <1>4, <1>11, <1>12, <1>14, Sizes DEF WithinMaxTimeout
<1>22. Placed'
  BY <1>1, <1>8, <1>9, <1>11, <1>12, <1>13, <1>14, PlacedKept DEF hands
<1>. QED  BY <1>10, <1>15, <1>16, <1>17, <1>18, <1>19, <1>20, <1>21, <1>22

(* Here a callback must not return more than MAX_TIMEOUT (chk_timer.c:153). *)
LEMMA ReturnStep ==
  ASSUME IInv, ReturnsInRange, NEW t \in Timer, Return(t)
  PROVE  IInv'
<1> USE DEF IInv
<1>1. /\ UNCHANGED <<now, until, firing, closed, started, lasttick, curSec, curHour, curDay>>
      /\ firing /\ t \in Running /\ place[t] = "running"
  BY DEF Return, calls, hands, Running
<1>2. Queued \subseteq Timer /\ Due \subseteq Timer /\ Running \subseteq Timer
      /\ Running = {t}
  BY <1>1 DEF Queued, Due, Running, Calls
<1>3. now \in Nat /\ lasttick \in Nat /\ lasttick <= now /\ timeout[t] \in 1 .. MaxTimeout
  BY <1>1, Sizes DEF TypeOK, Clocks, Timeouts
<1>4. PICK ret \in Returned :
       IF ~Released(t) /\ ret >= 0
       THEN LET again == IF ret > 0 THEN ret ELSE timeout[t]
            IN /\ timeout' = [timeout EXCEPT ![t] = again]
               /\ expire' = [expire EXCEPT ![t] = lasttick + again]
               /\ place' = [place EXCEPT ![t] = "queued"]
               /\ wheel' = [wheel EXCEPT ![t] = WheelFor(again)]
               /\ slot' = [slot EXCEPT ![t] = SlotFor(again, curSec, curHour, curDay)]
               /\ UNCHANGED <<releasing, handle>>
       ELSE /\ place' = [place EXCEPT ![t] = "free"]
            /\ releasing' = [releasing EXCEPT ![t] = FALSE]
            /\ handle' = Cleaner({t})
            /\ Zero({t})
  BY DEF Return
<1>5. CASE ~(~Released(t) /\ ret >= 0)
  <2>1. /\ place' = [place EXCEPT ![t] = "free"]
        /\ releasing' = [releasing EXCEPT ![t] = FALSE]
        /\ handle' = handle \ {t}
        /\ Zero({t})
    BY <1>4, <1>5 DEF Cleaner
  <2>2. /\ wheel' = [wheel EXCEPT ![t] = "sec"] /\ slot' = [slot EXCEPT ![t] = 0]
        /\ expire' = [expire EXCEPT ![t] = 0] /\ timeout' = [timeout EXCEPT ![t] = 0]
    BY <2>1, ZeroOne
  <2>3. TypeOK'
    <3>1. wheel' \in [Timer -> {"sec", "hour", "day"}]
      BY <2>2 DEF TypeOK
    <3>2. slot' \in [Timer -> Nat] /\ expire' \in [Timer -> Nat] /\ timeout' \in [Timer -> Nat]
      BY <2>2 DEF TypeOK
    <3>3. place' \in [Timer -> {"free", "queued", "due", "running"}]
          /\ releasing' \in [Timer -> BOOLEAN] /\ handle' \subseteq Timer
      BY <2>1 DEF TypeOK
    <3>. QED  BY <1>1, <3>1, <3>2, <3>3 DEF TypeOK
  <2>4. Queued' = Queued /\ Due' = Due /\ Running' = {} /\ t \notin Queued /\ t \notin Due
    BY <1>1, <1>2, <2>1 DEF Queued, Due, Running, TypeOK
  <2>5. \A u \in Timer \ {t} : /\ expire'[u] = expire[u] /\ slot'[u] = slot[u]
                               /\ wheel'[u] = wheel[u] /\ place'[u] = place[u]
                               /\ releasing'[u] = releasing[u] /\ timeout'[u] = timeout[u]
    BY <2>1, <2>2 DEF TypeOK
  <2>6. Clocks'
    BY <1>1, <2>1 DEF Clocks, TypeOK
  <2>7. Calls'
    <3>1. \A u \in Timer : ~releasing'[u]
      BY <1>2, <2>1, <2>5 DEF Calls, TypeOK
    <3>. QED  BY <1>1, <2>4, <3>1 DEF Calls
  <2>8. Timeouts'
    BY <2>1, <2>5 DEF Timeouts, TypeOK
  <2>9. CalledOnTime' /\ SlotExists' /\ WithinMaxTimeout'
    BY <1>1, <1>2, <2>4, <2>5 DEF CalledOnTime, SlotExists, WithinMaxTimeout
  <2>10. HandleLive'
    BY <2>1, <2>5 DEF HandleLive, TypeOK
  <2>11. Placed'
    BY <1>1, <1>2, <2>4, <2>5, PlacedKept DEF hands
  <2>. QED  BY <2>3, <2>6, <2>7, <2>8, <2>9, <2>10, <2>11
<1>6. CASE ~Released(t) /\ ret >= 0
  <2> DEFINE r == IF ret > 0 THEN ret ELSE timeout[t]
             w == WheelFor(r)
             s == SlotFor(r, curSec, curHour, curDay)
  <2>1. r \in 1 .. MaxTimeout
    BY <1>3, <1>6, Sizes DEF ReturnsInRange
  <2>2. /\ timeout' = [timeout EXCEPT ![t] = r]
        /\ expire' = [expire EXCEPT ![t] = lasttick + r]
        /\ place' = [place EXCEPT ![t] = "queued"]
        /\ wheel' = [wheel EXCEPT ![t] = w]
        /\ slot' = [slot EXCEPT ![t] = s]
        /\ UNCHANGED <<releasing, handle>>
    BY <1>4, <1>6
  <2>. HIDE DEF r
  <2>3. r \in Nat \ {0} /\ r <= MaxTimeout + MaxLag
    BY <2>1, Sizes
  <2>4. /\ curSec \in -1 .. SecSize - 1 /\ curHour \in 0 .. HourSize - 1
        /\ curDay \in 0 .. DaySize - 1
        /\ SecToTurn \in 0 .. SecSize /\ HourToTurn \in 1 .. HourSize
    BY TurnBounds DEF TypeOK
  <2>5. /\ w \in {"sec", "hour", "day"} /\ s \in Nat /\ s < SizeOf(w)
        /\ InTime(w, s, curSec, curHour, curDay, SecToTurn, HourToTurn, r)
    BY <2>3, <2>4, RegInTime
  <2>. HIDE DEF w, s
  <2>6. /\ wheel'[t] = w /\ slot'[t] = s /\ expire'[t] = lasttick + r
        /\ expire'[t] - lasttick = r /\ place'[t] = "queued" /\ timeout'[t] = r
    BY <1>3, <2>2, <2>3 DEF TypeOK
  <2>7. TypeOK'
    <3>1. wheel' \in [Timer -> {"sec", "hour", "day"}]
      BY <2>2, <2>5 DEF TypeOK
    <3>2. slot' \in [Timer -> Nat]
      BY <2>2, <2>5 DEF TypeOK
    <3>3. expire' \in [Timer -> Nat] /\ timeout' \in [Timer -> Nat]
      BY <1>3, <2>2, <2>3 DEF TypeOK
    <3>4. place' \in [Timer -> {"free", "queued", "due", "running"}]
      BY <2>2 DEF TypeOK
    <3>. QED  BY <1>1, <2>2, <3>1, <3>2, <3>3, <3>4 DEF TypeOK
  <2>8. Queued' = Queued \cup {t} /\ Due' = Due /\ Running' = {}
        /\ t \notin Queued /\ t \notin Due
    BY <1>1, <1>2, <2>2 DEF Queued, Due, Running, TypeOK
  <2>9. \A u \in Timer \ {t} : /\ expire'[u] = expire[u] /\ slot'[u] = slot[u]
                               /\ wheel'[u] = wheel[u] /\ place'[u] = place[u]
                               /\ timeout'[u] = timeout[u]
    BY <2>2 DEF TypeOK
  <2>10. Clocks'
    BY <1>1, <2>2 DEF Clocks, TypeOK
  <2>11. Calls'
    <3>1. \A u \in Timer : ~releasing[u]
      BY <1>2, <1>6 DEF Calls, Released
    <3>. QED  BY <1>1, <2>2, <2>8, <3>1 DEF Calls
  <2>12. Timeouts'
    BY <2>1, <2>6, <2>9 DEF Timeouts
  <2>13. CalledOnTime'
    BY <1>1, <1>2, <2>8, <2>9 DEF CalledOnTime
  <2>14. SlotExists'
    BY <1>2, <2>5, <2>6, <2>8, <2>9 DEF SlotExists
  <2>15. WithinMaxTimeout'
    BY <1>1, <1>2, <1>3, <2>1, <2>6, <2>8, <2>9, Sizes DEF WithinMaxTimeout
  <2>16. HandleLive'
    BY <2>2, <2>6, <2>9 DEF HandleLive, TypeOK
  <2>17. Placed'
    BY <1>1, <1>2, <2>5, <2>6, <2>8, <2>9, PlacedKept DEF hands
  <2>. QED  BY <2>7, <2>10, <2>11, <2>12, <2>13, <2>14, <2>15, <2>16, <2>17
<1>. QED  BY <1>5, <1>6

-----------------------------------------------------------------------------
(* The tick takes the list the lowest hand comes to; what is left in lists  *)
(* is one tick closer in every wheel.                                      *)
LEMMA TickStep == ASSUME IInv, Tick PROVE IInv'
<1> USE DEF IInv
<1>1. /\ UNCHANGED <<now, until, started, closed, curHour, curDay, wheel, slot, expire,
                     timeout, releasing, handle>>
      /\ ~firing /\ firing' = TRUE /\ ~closed /\ lasttick # until
      /\ lasttick' = lasttick + 1
      /\ curSec' = Step(curSec, SecSize)
      /\ place' = [t \in Timer |->
                    IF t \in Queued /\ wheel[t] = "sec" /\ slot[t] = curSec'
                    THEN "due" ELSE place[t]]
  BY DEF Tick
<1>2. /\ now \in Nat /\ until \in Nat /\ lasttick \in Nat
      /\ curSec \in -1 .. SecSize - 1 /\ SecSize \in Nat \ {0}
  BY Sizes DEF TypeOK
<1> DEFINE now0 == {t \in Queued : wheel[t] = "sec" /\ slot[t] = curSec'}
<1>3. Queued' = Queued \ now0 /\ Due' = now0 /\ Running' = {}
      /\ Due = {} /\ Running = {} /\ Queued \subseteq Timer
  BY <1>1 DEF Queued, Due, Running, Calls
<1>4. TypeOK'
  <2>1. curSec' \in -1 .. SecSize - 1
    BY <1>1, <1>2 DEF Step, Wrap
  <2>2. place' \in [Timer -> {"free", "queued", "due", "running"}]
    BY <1>1 DEF TypeOK
  <2>. QED  BY <1>1, <1>2, <2>1, <2>2 DEF TypeOK
<1>5. Clocks'
  <2>1. started
    BY <1>1 DEF Clocks, TypeOK
  <2>. QED  BY <1>1, <1>2, <2>1, Sizes DEF Clocks
<1>6. Calls'
  BY <1>1, <1>3 DEF Calls
<1>7. Timeouts'
  BY <1>1 DEF Timeouts, Queued
<1>8. SlotExists' /\ WithinMaxTimeout'
  BY <1>1, <1>3 DEF SlotExists, WithinMaxTimeout
<1>9. HandleLive'
  BY <1>1 DEF HandleLive, Queued, TypeOK
<1>10. ASSUME NEW t \in Queued, wheel[t] = "sec"
       PROVE  /\ slot[t] = curSec' <=> Rest(t) = 1
              /\ slot[t] # curSec' => Ahead(slot[t], curSec', SecSize) = Rest(t) - 1
  <2>1. slot[t] \in 0 .. SecSize - 1
    BY <1>2, <1>3, <1>10 DEF SlotExists, SizeOf, TypeOK
  <2>2. Ahead(slot[t], curSec, SecSize) = Rest(t)
    BY <1>10 DEF Placed, InTime, Until
  <2>. QED  BY <1>1, <1>2, <2>1, <2>2, AheadOfStep
<1>11. CalledOnTime'
  <2>1. ASSUME NEW t \in now0 PROVE expire[t] = lasttick + 1
    BY <1>2, <1>3, <1>10 DEF Rest, cal_remain, TypeOK
  <2>. QED  BY <1>1, <1>3, <2>1 DEF CalledOnTime
<1>12. SecToTurn' = SecToTurn - 1 /\ HourToTurn' = HourToTurn
  BY <1>1, <1>2 DEF SecToTurn, HourToTurn, ToTurn, Step, Wrap
<1>13. Placed'
  <2>1. SUFFICES ASSUME NEW t \in Queued'
        PROVE  InTime(wheel[t], slot[t], curSec', curHour, curDay, SecToTurn - 1,
                      HourToTurn, expire[t] - (lasttick + 1))
    BY <1>1, <1>12 DEF Placed, Rest, cal_remain
  <2>2. /\ t \in Queued /\ t \in Timer /\ t \notin now0
        /\ expire[t] \in Nat /\ wheel[t] \in {"sec", "hour", "day"}
        /\ slot[t] \in Nat /\ slot[t] < SizeOf(wheel[t])
    BY <1>3 DEF TypeOK, SlotExists
  <2> DEFINE r == Rest(t)
             x == SecToTurn
             y == HourToTurn
  <2>3. expire[t] - (lasttick + 1) = r - 1 /\ r \in Int
    BY <1>2, <2>2 DEF Rest, cal_remain
  <2>4. InTime(wheel[t], slot[t], curSec, curHour, curDay, x, y, r)
    BY <2>2 DEF Placed
  <2>5. x \in 0 .. SecSize /\ y \in 1 .. HourSize
    BY TurnBounds
  <2>6. /\ HourSize \in Nat \ {0} /\ DaySize \in Nat \ {0}
        /\ curHour \in 0 .. HourSize - 1 /\ curDay \in 0 .. DaySize - 1
    BY Sizes DEF TypeOK
  <2>7. CASE wheel[t] = "sec"
    <3>1. slot[t] # curSec'
      BY <2>2, <2>7
    <3>. QED  BY <1>10, <2>2, <2>3, <2>7, <3>1 DEF InTime, Until
  <2>. HIDE DEF r, x, y
  <2>8. CASE wheel[t] = "hour"
    <3> DEFINE k == (Ahead(slot[t], curHour, HourSize) - 1) * SecSize
    <3>1. Ahead(slot[t], curHour, HourSize) \in Int
      BY <2>2, <2>6 DEF Ahead
    <3>2. k \in Int
      BY <1>2, <3>1, Z3
    <3>3. x + k < r
      BY <2>4, <2>8 DEF InTime, Until
    <3>. HIDE DEF k
    <3>4. (x - 1) + k < r - 1
      BY <2>3, <2>5, <3>2, <3>3
    <3>. QED  BY <2>3, <2>8, <3>4 DEF InTime, Until, k, x
  <2>9. CASE wheel[t] = "day"
    <3> DEFINE j == (y - 1) * SecSize
               k == (Ahead(slot[t], curDay, DaySize) - 1) * (SecSize * HourSize)
    <3>1. Ahead(slot[t], curDay, DaySize) \in Int
      BY <2>2, <2>6 DEF Ahead
    <3>2. j \in Int /\ k \in Int
      BY <1>2, <2>5, <2>6, <3>1, Z3
    <3>3. (x + j) + k < r
      BY <2>4, <2>9 DEF InTime, Until
    <3>. HIDE DEF j, k
    <3>4. ((x - 1) + j) + k < r - 1
      BY <2>3, <2>5, <3>2, <3>3
    <3>. QED  BY <2>3, <2>9, <3>4 DEF InTime, Until, j, k, x, y
  <2>. QED  BY <2>2, <2>7, <2>8, <2>9
<1>. QED  BY <1>4, <1>5, <1>6, <1>7, <1>8, <1>9, <1>11, <1>13

(* A move of the hour hand: x ticks to it, then SecSize to the next.        *)
LEMMA HourMove ==
  ASSUME NEW a \in Nat \ {0}, NEW size \in Nat \ {0}
  PROVE  size + ((a - 1) - 1) * size = 0 + (a - 1) * size
  BY Z3

(* A move of the day hand takes a whole turn of the hour wheel. *)
LEMMA DayMove ==
  ASSUME NEW a \in Nat \ {0}, NEW s \in Nat \ {0}, NEW h \in Nat \ {0}
  PROVE  (s + (h - 1) * s) + ((a - 1) - 1) * (s * h) = (0 + (1 - 1) * s) + (a - 1) * (s * h)
<1> DEFINE turn == s * h
<1>1. s + (h - 1) * s = turn /\ turn \in Nat
  BY Z3
<1>. HIDE DEF turn
<1>2. turn + ((a - 1) - 1) * turn = (a - 1) * turn
  BY <1>1, Z3
<1>3. (1 - 1) * s = 0 /\ (a - 1) * turn \in Int
  BY <1>1, Z3
<1>. QED  BY <1>1, <1>2, <1>3 DEF turn

(* The hands of the upper wheels move; what they come to is placed again.   *)
LEMMA CascadeStep == ASSUME IInv, Cascade PROVE IInv'
<1> USE DEF IInv
<1>1. /\ UNCHANGED <<now, until, started, lasttick, curSec, place, expire, timeout,
                     releasing, handle, closed>>
      /\ firing /\ firing' = FALSE /\ Due = {} /\ Running = {}
  BY DEF Cascade
<1>2. Queued' = Queued /\ Due' = {} /\ Running' = {} /\ Queued \subseteq Timer
  BY <1>1 DEF Queued, Due, Running
<1>3. Clocks' /\ Calls' /\ Timeouts' /\ HandleLive' /\ CalledOnTime' /\ WithinMaxTimeout'
  <2>1. Clocks' /\ Timeouts' /\ HandleLive'
    BY <1>1 DEF Clocks, Timeouts, HandleLive
  <2>2. Calls'
    BY <1>1, <1>2 DEF Calls
  <2>3. CalledOnTime' /\ WithinMaxTimeout'
    BY <1>1, <1>2 DEF CalledOnTime, WithinMaxTimeout
  <2>. QED  BY <2>1, <2>2, <2>3
<1>4. /\ SecSize \in Nat \ {0} /\ HourSize \in Nat \ {0} /\ DaySize \in Nat \ {0}
      /\ curSec \in -1 .. SecSize - 1 /\ curHour \in 0 .. HourSize - 1
      /\ curDay \in 0 .. DaySize - 1
  BY Sizes DEF TypeOK
<1>5. CASE ~TurnDone(curSec, SecSize)
  <2>1. UNCHANGED <<curHour, curDay, wheel, slot>>
    BY <1>5 DEF Cascade
  <2>2. TypeOK'
    BY <1>1, <2>1 DEF TypeOK
  <2>3. SlotExists'
    BY <1>2, <2>1 DEF SlotExists
  <2>4. SecToTurn' = SecToTurn /\ HourToTurn' = HourToTurn
    BY <1>1, <1>5, <2>1 DEF SecToTurn, HourToTurn, ToTurn, TurnDone
  <2>5. Placed'
    BY <1>1, <1>2, <2>1, <2>4 DEF Placed, Rest, cal_remain
  <2>. QED  BY <1>3, <2>2, <2>3, <2>5
<1>6. CASE TurnDone(curSec, SecSize)
  <2> DEFINE dayMoves == TurnDone(curHour', HourSize)
             again == {t \in Queued : Pulled(t)}
  <2>1. /\ curHour' = Step(curHour, HourSize)
        /\ curDay' = (IF dayMoves THEN Step(curDay, DaySize) ELSE curDay)
        /\ wheel' = [t \in Timer |-> IF t \in again THEN WheelFor(Rest(t)) ELSE wheel[t]]
        /\ slot' = [t \in Timer |-> IF t \in again
                      THEN SlotFor(Rest(t), curSec, curHour', curDay') ELSE slot[t]]
    BY <1>6 DEF Cascade
  <2>2. curHour' \in 0 .. HourSize - 1 /\ curDay' \in 0 .. DaySize - 1
    BY <1>4, <2>1 DEF Step, Wrap
  <2>3. SecToTurn = 0 /\ SecToTurn' = SecSize
    BY <1>1, <1>4, <1>6 DEF SecToTurn, ToTurn, TurnDone
  <2>4. HourToTurn' \in 1 .. HourSize
    <3>1. \A h \in 0 .. HourSize - 1 : ToTurn(h, HourSize) \in 1 .. HourSize
      BY <1>4 DEF ToTurn
    <3>. QED  BY <2>2, <3>1 DEF HourToTurn
  <2>5. IF dayMoves THEN HourToTurn = 1 /\ HourToTurn' = HourSize
        ELSE HourToTurn' = HourToTurn - 1 /\ HourToTurn \in 2 .. HourSize
    BY <1>4, <2>1 DEF HourToTurn, ToTurn, TurnDone, Step, Wrap
  <2>6. ASSUME NEW t \in Queued
        PROVE  /\ wheel'[t] \in {"sec", "hour", "day"}
               /\ slot'[t] \in Nat /\ slot'[t] < SizeOf(wheel'[t])
               /\ InTime(wheel'[t], slot'[t], curSec, curHour', curDay', SecSize,
                         HourToTurn', Rest(t))
    <3> DEFINE r == Rest(t)
    <3>1. r \in Nat \ {0} /\ r <= MaxTimeout + MaxLag
      BY RestBounds
    <3>2. t \in Timer
      BY <1>2
    <3>3. CASE Pulled(t)
      <4> DEFINE w == WheelFor(r)
                 s == SlotFor(r, curSec, curHour', curDay')
      <4>1. wheel'[t] = w /\ slot'[t] = s
        BY <2>1, <3>2, <3>3
      <4>2. SecSize \in 0 .. SecSize
        BY <1>4
      <4>. HIDE DEF r
      <4>3. /\ w \in {"sec", "hour", "day"} /\ s \in Nat /\ s < SizeOf(w)
            /\ InTime(w, s, curSec, curHour', curDay', SecSize, HourToTurn', r)
        BY <1>4, <2>2, <2>4, <3>1, <4>2, RegInTime
      <4>. QED  BY <4>1, <4>3 DEF r
    <3>4. CASE ~Pulled(t)
      <4>1. wheel'[t] = wheel[t] /\ slot'[t] = slot[t]
        BY <2>1, <3>2, <3>4
      <4>2. /\ wheel[t] \in {"sec", "hour", "day"}
            /\ slot[t] \in Nat /\ slot[t] < SizeOf(wheel[t])
        BY <3>2 DEF TypeOK, SlotExists
      <4>3. InTime(wheel[t], slot[t], curSec, curHour, curDay, 0, HourToTurn, r)
        BY <2>3 DEF Placed
      <4>4. InTime(wheel[t], slot[t], curSec, curHour', curDay', SecSize, HourToTurn', r)
        <5>. HIDE DEF r
        <5>1. CASE wheel[t] = "sec"
          BY <4>3, <5>1 DEF InTime, Until
        <5>2. CASE wheel[t] = "hour"
          <6> DEFINE a == Ahead(slot[t], curHour, HourSize)
          <6>1. slot[t] # curHour'
            BY <3>4, <5>2 DEF Pulled
          <6>2. a \in Nat \ {0} /\ Ahead(slot[t], curHour', HourSize) = a - 1
            <7>1. slot[t] \in 0 .. HourSize - 1 /\ curHour \in -1 .. HourSize - 1
              BY <1>4, <4>2, <5>2 DEF SizeOf
            <7>2. curHour' = Step(curHour, HourSize)
              BY <2>1
            <7>3. HourSize \in Nat \ {0}
              BY <1>4
            <7>. HIDE DEF a
            <7>4. /\ a \in 1 .. HourSize
                  /\ slot[t] # Step(curHour, HourSize) =>
                       Ahead(slot[t], Step(curHour, HourSize), HourSize) = a - 1
              BY <7>1, <7>3, AheadOfStep DEF a
            <7>. QED  BY <6>1, <7>2, <7>3, <7>4
          <6>3. 0 + (a - 1) * SecSize < r
            BY <4>3, <5>2 DEF InTime, Until
          <6>. HIDE DEF a
          <6>4. SecSize + ((a - 1) - 1) * SecSize = 0 + (a - 1) * SecSize
            BY <1>4, <6>2, HourMove
          <6>5. SecSize + ((a - 1) - 1) * SecSize < r
            BY <6>3, <6>4
          <6>. QED  BY <5>2, <6>2, <6>5 DEF InTime, Until
        <5>3. CASE wheel[t] = "day"
          <6> DEFINE a == Ahead(slot[t], curDay, DaySize)
                     b == Ahead(slot[t], curDay', DaySize)
                     y == HourToTurn
                     z == HourToTurn'
                     turn == SecSize * HourSize
          <6>1. slot[t] \in 0 .. DaySize - 1 /\ curDay \in -1 .. DaySize - 1
            BY <1>4, <4>2, <5>3 DEF SizeOf
          <6>2. a \in Nat \ {0}
            BY <1>4, <6>1, AheadOfStep
          <6>3. (0 + (y - 1) * SecSize) + (a - 1) * turn < r
            BY <4>3, <5>3 DEF InTime, Until
          <6>4. (SecSize + (z - 1) * SecSize) + (b - 1) * turn < r
            <7>1. CASE dayMoves
              <8>1. slot[t] # Step(curDay, DaySize) /\ curDay' = Step(curDay, DaySize)
                BY <2>1, <3>4, <5>3, <7>1 DEF Pulled
              <8>2. b = a - 1
                BY <1>4, <6>1, <8>1, AheadOfStep
              <8>3. y = 1 /\ z = HourSize
                BY <2>5, <7>1
              <8>. HIDE DEF a, b, y, z
              <8>4. (SecSize + (HourSize - 1) * SecSize) + ((a - 1) - 1) * turn
                      = (0 + (1 - 1) * SecSize) + (a - 1) * turn
                BY <1>4, <6>2, DayMove
              <8>. QED  BY <6>3, <8>2, <8>3, <8>4
            <7>2. CASE ~dayMoves
              <8>1. curDay' = curDay
                BY <2>1, <7>2
              <8>2. b = a
                BY <8>1
              <8>3. z = y - 1 /\ y \in Nat \ {0}
                BY <1>4, <2>5, <7>2
              <8>. HIDE DEF a, b, y, z
              <8>4. SecSize + ((y - 1) - 1) * SecSize = 0 + (y - 1) * SecSize
                BY <1>4, <8>3, HourMove
              <8>. QED  BY <6>3, <8>2, <8>3, <8>4
            <7>. QED  BY <7>1, <7>2
          <6>. QED  BY <5>3, <6>4 DEF InTime, Until
        <5>. QED  BY <4>2, <5>1, <5>2, <5>3
      <4>. QED  BY <4>1, <4>2, <4>4
    <3>. QED  BY <3>3, <3>4
  <2>. HIDE DEF again, dayMoves
  <2>7. TypeOK'
    <3>1. \A t \in Timer : wheel'[t] \in {"sec", "hour", "day"} /\ slot'[t] \in Nat
      <4>1. \A t \in Timer \ Queued : wheel'[t] = wheel[t] /\ slot'[t] = slot[t]
        BY <2>1 DEF again
      <4>2. \A t \in Timer : wheel[t] \in {"sec", "hour", "day"} /\ slot[t] \in Nat
        BY DEF TypeOK
      <4>. QED  BY <2>6, <4>1, <4>2
    <3>2. wheel' \in [Timer -> {"sec", "hour", "day"}]
      BY <2>1, <3>1
    <3>3. slot' \in [Timer -> Nat]
      BY <2>1, <3>1
    <3>. QED  BY <1>1, <2>2, <3>2, <3>3 DEF TypeOK
  <2>8. SlotExists'
    BY <1>2, <2>6 DEF SlotExists
  <2>9. Placed'
    <3>1. \A t \in Queued : InTime(wheel'[t], slot'[t], curSec', curHour', curDay',
                                   SecToTurn', HourToTurn', expire'[t] - lasttick')
      BY <1>1, <2>3, <2>6 DEF Rest, cal_remain
    <3>. QED  BY <1>2, <3>1 DEF Placed, Rest, cal_remain
  <2>. QED  BY <1>3, <2>7, <2>8, <2>9
<1>. QED  BY <1>5, <1>6

-----------------------------------------------------------------------------
(* The invariant, for every number of timers and every size of the wheels,  *)
(* as long as callbacks do not return more than MAX_TIMEOUT.               *)
THEOREM WheelInvariant ==
  ASSUME ReturnsInRange
  PROVE  Spec => []IInv
<1>1. Init => IInv
  BY InitIInv
<1>2. IInv /\ [Next]_vars => IInv'
  <2> SUFFICES ASSUME IInv, [Next]_vars PROVE IInv'
    OBVIOUS
  <2>1. CASE UNCHANGED vars
    BY <2>1, StutterStep
  <2>2. CASE Clock
    BY <2>2, ClockStep
  <2>3. CASE BeginTick
    BY <2>3, BeginTickStep
  <2>4. CASE Tick
    BY <2>4, TickStep
  <2>5. CASE Cascade
    BY <2>5, CascadeStep
  <2>6. CASE Finalize
    BY <2>6, FinalizeStep
  <2>7. ASSUME NEW t \in Timer, Register(t) PROVE IInv'
    BY <2>7, RegisterStep
  <2>8. ASSUME NEW t \in Timer, Unregister(t) PROVE IInv'
    BY <2>8, UnregisterStep
  <2>9. ASSUME NEW t \in Timer, Call(t) PROVE IInv'
    BY <2>9, CallStep
  <2>10. ASSUME NEW t \in Timer, Return(t) PROVE IInv'
    BY <2>10, ReturnStep
  <2>. QED  BY <2>1, <2>2, <2>3, <2>4, <2>5, <2>6, <2>7, <2>8, <2>9, <2>10 DEF Next
<1>. QED  BY <1>1, <1>2, PTL DEF Spec

LEMMA InvOnTime == IInv => CalledOnTime /\ NothingOverdue
<1> SUFFICES ASSUME IInv PROVE CalledOnTime /\ NothingOverdue
  OBVIOUS
<1>1. ASSUME NEW t \in Queued PROVE expire[t] > lasttick
  <2>1. Rest(t) \in Nat \ {0}
    BY RestBounds
  <2>2. expire[t] \in Nat /\ lasttick \in Nat
    BY DEF IInv, TypeOK, Queued
  <2>. QED  BY <2>1, <2>2 DEF Rest, cal_remain
<1>. QED  BY <1>1 DEF IInv, NothingOverdue

(* The assertion in fire() never fails: a timer is called in its own tick. *)
THEOREM TimersOnTime ==
  ASSUME ReturnsInRange
  PROVE  Spec => [](CalledOnTime /\ NothingOverdue)
<1>. QED  BY InvOnTime, WheelInvariant, PTL

(* _reg never computes a slot outside a wheel. *)
THEOREM SlotsExist ==
  ASSUME ReturnsInRange
  PROVE  Spec => [](TypeOK /\ SlotExists)
<1>1. IInv => TypeOK /\ SlotExists
  BY DEF IInv
<1>. QED  BY <1>1, WheelInvariant, PTL

(* A Lua timer object never points into the free pool. *)
THEOREM HandlesLive ==
  ASSUME ReturnsInRange
  PROVE  Spec => []HandleLive
<1>1. IInv => HandleLive
  BY DEF IInv
<1>. QED  BY <1>1, WheelInvariant, PTL

(* No timer waits longer than MAX_TIMEOUT. *)
THEOREM TimeoutsLimited ==
  ASSUME ReturnsInRange
  PROVE  Spec => []WithinMaxTimeout
<1>1. IInv => WithinMaxTimeout
  BY DEF IInv
<1>. QED  BY <1>1, WheelInvariant, PTL

-----------------------------------------------------------------------------
(* The refinement: what Timers sees of a state.                            *)
DL == [t \in Timer |-> IF t \in Queued \cup Due THEN expire[t] ELSE NoTime]
RN == IF Running = {} THEN NoTime ELSE CHOOSE t \in Timer : t \in Running
RV == \E t \in Running : releasing[t]

LEMMA OneRuns ==
  ASSUME IInv
  PROVE  /\ Running = {} => RN = NoTime
         /\ \A t \in Running : RN = t /\ (RV <=> releasing[t]) /\ Running = {t}
         /\ \A t \in Timer : t \notin Running => RN # t
<1>1. \A t, u \in Running : t = u
  BY DEF IInv, Calls
<1>2. Running \subseteq Timer /\ NoTime \notin Timer
  BY Sizes DEF Running
<1>3. ASSUME NEW t \in Running PROVE RN = t
  BY <1>1, <1>2 DEF RN
<1>. QED  BY <1>1, <1>2, <1>3 DEF RN, RV

LEMMA NextRefines ==
  ASSUME IInv, IInv', NothingOverdue, NothingOverdue', [Next]_vars
  PROVE  [Promise!Next]_(Promise!vars)
<1>1. Queued \subseteq Timer /\ Due \subseteq Timer /\ Running \subseteq Timer
      /\ NoTime \notin Timer /\ NoTime \notin Nat
  BY Sizes DEF Queued, Due, Running
<1>2. TypeOK /\ TypeOK' /\ NothingOverdue /\ NothingOverdue' /\ CalledOnTime
  BY DEF IInv
<1>3. ASSUME UNCHANGED <<lasttick, place, expire, releasing>>
      PROVE  UNCHANGED Promise!vars
  <2>1. Queued' = Queued /\ Due' = Due /\ Running' = Running
    BY <1>3 DEF Queued, Due, Running
  <2>. QED  BY <1>3, <2>1 DEF Promise!vars
<1>4. CASE Clock \/ BeginTick \/ Cascade \/ UNCHANGED vars
  <2>1. UNCHANGED <<lasttick, place, expire, releasing>>
    BY <1>4 DEF Clock, BeginTick, Cascade, vars
  <2>. QED  BY <1>3, <2>1
<1>5. CASE Tick
  <2>1. /\ Queued' \cup Due' = Queued \cup Due /\ Running' = {} /\ Running = {} /\ Due = {}
        /\ lasttick' = lasttick + 1 /\ expire' = expire /\ releasing' = releasing
    BY <1>5, <1>2 DEF Tick, Queued, Due, Running, IInv, Calls, TypeOK
  <2>2. RN = NoTime /\ RN' = NoTime /\ RV = FALSE /\ RV' = FALSE /\ DL' = DL
    BY <2>1 DEF RN, RV, DL
  <2>3. \A t \in Timer : DL[t] # NoTime => DL[t] > lasttick
    BY <1>2, <2>1 DEF DL, NothingOverdue
  <2>4. Promise!Advance
    BY <2>1, <2>2, <2>3 DEF Promise!Advance, Promise!Pending, DL, RN, RV
  <2>. QED  BY <2>4 DEF Promise!Next
<1>6. CASE Finalize
  <2>1. /\ Queued' = {} /\ Due' = {} /\ Running' = {} /\ Running = {}
        /\ UNCHANGED <<lasttick, releasing>>
    BY <1>6 DEF Finalize, Queued, Due, Running, IInv, Calls
  <2>2. RN = NoTime /\ RN' = NoTime /\ RV = FALSE /\ RV' = FALSE /\ DL' = [t \in Timer |-> NoTime]
    BY <2>1 DEF RN, RV, DL
  <2>3. Promise!CancelAll
    BY <2>1, <2>2 DEF Promise!CancelAll, DL, RN, RV
  <2>. QED  BY <2>3 DEF Promise!Next
<1>7. ASSUME NEW t \in Timer, Register(t) PROVE Promise!Set(t)
  <2>1. /\ t \notin Queued \cup Due \cup Running
        /\ Queued' = Queued \cup {t} /\ Due' = Due /\ Running' = Running
    BY <1>2, <1>7 DEF Register, Queued, Due, Running, TypeOK
  <2>2. /\ \A u \in Timer \ {t} : expire'[u] = expire[u] /\ releasing'[u] = releasing[u]
        /\ ~started => Queued = {} /\ Due = {} /\ Running = {}
        /\ started => lasttick' = lasttick
    BY <1>2, <1>7 DEF Register, TypeOK, IInv, Clocks, Queued, Due, Running
  <2>3. expire'[t] \in Nat /\ expire'[t] > lasttick' /\ lasttick' \in Nat
    BY <1>2, <2>1 DEF NothingOverdue, TypeOK
  <2>4. RN' = RN /\ RN # t
    BY <2>1, OneRuns DEF RN
  <2>5. RV' = RV
    BY <1>1, <2>1, <2>2 DEF RV
  <2>6. /\ DL[t] = NoTime /\ DL' = [DL EXCEPT ![t] = expire'[t]] /\ DL'[t] = expire'[t]
    BY <1>1, <2>1, <2>2 DEF DL
  <2>7. \/ lasttick' = lasttick
        \/ (\A u \in Timer : DL[u] = NoTime) /\ RN = NoTime /\ lasttick' \in Nat
    BY <1>2, <2>2, <2>3 DEF DL, RN, TypeOK
  <2>8. Promise!SetAfter(t, lasttick')
    BY <2>3, <2>6 DEF Promise!SetAfter, DL
  <2>9. \/ lasttick' = lasttick
        \/ Promise!Pending = {} /\ RN = NoTime /\ lasttick' \in Nat
    BY <2>7 DEF Promise!Pending, DL
  <2>. QED  BY <2>4, <2>5, <2>6, <2>8, <2>9 DEF Promise!Set, DL, RN, RV
<1>8. ASSUME NEW t \in Timer, Unregister(t) PROVE Promise!Cancel(t)
  <2>1. UNCHANGED lasttick
    BY <1>8 DEF Unregister
  <2>2. CASE t \in Running
    <3>1. UNCHANGED <<place, expire>> /\ releasing' = [releasing EXCEPT ![t] = TRUE]
      BY <1>2, <1>8, <2>2 DEF Unregister, Zero, TypeOK
    <3>2. Queued' = Queued /\ Due' = Due /\ Running' = Running
      BY <3>1 DEF Queued, Due, Running
    <3>3. RN = t /\ RN' = RN /\ DL' = DL
      BY <2>2, <3>1, <3>2, OneRuns DEF DL, RN
    <3>4. RV' = TRUE
      BY <1>2, <2>2, <3>1, <3>2 DEF RV, TypeOK
    <3>. QED  BY <2>1, <3>3, <3>4 DEF Promise!Cancel, DL, RN, RV
  <2>3. CASE t \notin Running
    <3>1. /\ place' = [place EXCEPT ![t] = "free"] /\ UNCHANGED releasing /\ t \in handle
          /\ {t} \ Running = {t}
      BY <1>8, <2>3 DEF Unregister
    <3>2. expire' = [expire EXCEPT ![t] = 0]
      BY <1>2, <1>8, <3>1, ZeroOne DEF Unregister
    <3>3. /\ Queued' = Queued \ {t} /\ Due' = Due \ {t} /\ Running' = Running
      BY <1>2, <2>3, <3>1 DEF Queued, Due, Running, TypeOK
    <3>4. t \in Queued \cup Due
      BY <1>2, <2>3, <3>1 DEF IInv, HandleLive, Queued, Due, Running, TypeOK
    <3>5. RN' = RN /\ RV' = RV
      BY <3>1, <3>3 DEF RN, RV
    <3>6. expire[t] # NoTime
      BY <1>1, <1>2 DEF TypeOK
    <3>7. DL[t] # NoTime /\ DL' = [DL EXCEPT ![t] = NoTime]
      BY <1>1, <1>2, <3>2, <3>3, <3>4, <3>6 DEF DL, TypeOK
    <3>. QED  BY <2>1, <3>5, <3>7 DEF Promise!Cancel, DL, RN, RV
  <2>. QED  BY <2>2, <2>3
<1>9. ASSUME NEW t \in Timer, Call(t) PROVE Promise!Call(t)
  <2>1. /\ UNCHANGED <<lasttick, expire, releasing>> /\ t \in Due /\ Running = {}
        /\ Queued' = Queued /\ Due' = Due \ {t} /\ Running' = {t} /\ t \notin Queued
    BY <1>2, <1>9 DEF Call, Queued, Due, Running, TypeOK
  <2>2. RN = NoTime /\ RN' = t
    BY <2>1, OneRuns, <1>1 DEF RN
  <2>3. RV' = FALSE
    BY <2>1 DEF RV, IInv, Calls
  <2>4. DL[t] = lasttick /\ DL' = [DL EXCEPT ![t] = NoTime]
    BY <1>2, <2>1 DEF DL, CalledOnTime
  <2>. QED  BY <2>1, <2>2, <2>3, <2>4 DEF Promise!Call, DL, RN, RV
<1>10. ASSUME NEW t \in Timer, Return(t) PROVE Promise!Return(t)
  <2>1. UNCHANGED lasttick /\ t \in Running /\ t \notin Queued \cup Due /\ Running = {t}
    BY <1>10, OneRuns DEF Return, Queued, Due, Running
  <2>2. RN = t /\ (RV <=> releasing[t])
    BY <2>1, OneRuns
  <2>3. /\ Running' = {} /\ Due' = Due
        /\ \A u \in Timer \ {t} : expire'[u] = expire[u]
        /\ Queued' = Queued \/ (Queued' = Queued \cup {t} /\ ~releasing[t])
    BY <1>2, <1>10, <2>1 DEF Return, Queued, Due, Running, TypeOK, Released, Zero
  <2>4. RN' = NoTime /\ RV' = FALSE
    BY <2>3 DEF RN, RV
  <2>5. CASE Queued' = Queued
    <3>1. DL' = DL
      BY <2>1, <2>3, <2>5 DEF DL
    <3>. QED  BY <2>1, <2>2, <2>4, <3>1 DEF Promise!Return, DL, RN, RV
  <2>6. CASE Queued' = Queued \cup {t} /\ ~releasing[t]
    <3>1. expire'[t] \in Nat /\ expire'[t] > lasttick
      BY <1>2, <2>1, <2>6 DEF NothingOverdue, TypeOK
    <3>2. DL' = [DL EXCEPT ![t] = expire'[t]] /\ DL'[t] = expire'[t]
      BY <2>1, <2>3, <2>6 DEF DL
    <3>. QED  BY <2>1, <2>2, <2>4, <2>6, <3>1, <3>2
              DEF Promise!Return, Promise!SetAfter, DL, RN, RV
  <2>. QED  BY <2>3, <2>5, <2>6
<1>. QED  BY <1>4, <1>5, <1>6, <1>7, <1>8, <1>9, <1>10 DEF Next, Promise!Next

(* Slots, Lua objects, timeouts and what the hand has passed together. *)
THEOREM TimersSafe ==
  ASSUME ReturnsInRange
  PROVE  Spec => []TimerSafe
<1>1. IInv => TimerSafe
  BY InvOnTime DEF IInv, TimerSafe
<1>. QED  BY <1>1, WheelInvariant, PTL

(* The wheels implement Timers: whatever is registered, cancelled and       *)
(* repeated, a caller sees exact, single calls and none after cancelling.   *)
THEOREM WheelKeepsPromise ==
  ASSUME ReturnsInRange
  PROVE  Spec => KeepsPromise
<1>1. Init => Promise!Init
  BY DEF Init, Promise!Init, Queued, Due, Running
<1>2. IInv /\ IInv' /\ NothingOverdue /\ NothingOverdue' /\ [Next]_vars
        => [Promise!Next]_(Promise!vars)
  BY NextRefines
<1>. QED  BY <1>1, <1>2, InvOnTime, WheelInvariant, PTL DEF Spec, KeepsPromise, Promise!Spec

-----------------------------------------------------------------------------
(* The arena. *)

(* What the vision promises whoever calls it. *)
VisionSafe == VisionTypeOK /\ BlocksAgree /\ RefsCounted /\ ClientKnows

-----------------------------------------------------------------------------
(* Sizes of sets of blocks, and entries. *)

LEMMA Finite ==
  /\ \A S \in SUBSET Block : IsFiniteSet(S) /\ Cardinality(S) \in Nat
  /\ \A S \in SUBSET Block : Cardinality(S) = 0 <=> S = {}
BY VisionAssumption, FS_Subset, FS_CardinalityType, FS_EmptySet

(* Part of a set goes and others come. *)
LEMMA SizeAfter ==
  ASSUME NEW A \in SUBSET Block, NEW G \in SUBSET A, NEW K \in SUBSET Block,
         K \cap (A \ G) = {}
  PROVE  Cardinality((A \ G) \cup K) = Cardinality(A) - Cardinality(G) + Cardinality(K)
<1>1. IsFiniteSet(A) /\ IsFiniteSet(G) /\ IsFiniteSet(K) /\ IsFiniteSet(A \ G)
  <2>1. A \in SUBSET Block /\ G \in SUBSET Block /\ K \in SUBSET Block /\ A \ G \in SUBSET Block
    OBVIOUS
  <2> QED BY <2>1, Finite
<1>2. Cardinality(A \ G) = Cardinality(A) - Cardinality(A \cap G)
  BY <1>1, FS_Difference
<1>3. A \cap G = G /\ (A \ G) \cap K = {}
  OBVIOUS
<1>4. Cardinality((A \ G) \cup K) = Cardinality(A \ G) + Cardinality(K) - Cardinality({})
  BY <1>1, <1>3, FS_Union
<1>5. /\ Cardinality(A) \in Nat /\ Cardinality(G) \in Nat /\ Cardinality(K) \in Nat
      /\ Cardinality({}) = 0
  BY <1>1, FS_CardinalityType, FS_EmptySet
<1>6. Cardinality(A \cap G) = Cardinality(G)
  BY <1>3
<1> DEFINE a == Cardinality(A)
           g == Cardinality(G)
           k == Cardinality(K)
           e == Cardinality({})
<1>7. Cardinality((A \ G) \cup K) = (a - g) + k - e /\ a \in Nat /\ g \in Nat /\ k \in Nat /\ e = 0
  BY <1>2, <1>4, <1>5, <1>6
<1>8. (a - g) + k - e = a - g + k
  <2> HIDE DEF a, g, k, e
  <2> QED BY ONLY <1>7
<1> QED BY <1>7, <1>8

(* Removing and adding blocks changes the count and makes no other entry. *)
LEMMA EntryAfter ==
  ASSUME NEW e \in Entry \cup {None}, NEW m \in Nat, NEW n \in Nat,
         NEW d, d = Add(Remove(e, m), n)
  PROVE  /\ d \in Entry \cup {None}
         /\ d = None <=> (e = None /\ n = 0)
         /\ e # None => (d # None /\ d.ref = e.ref - m + n /\ (d.enterSee <=> e.enterSee))
         /\ (e = None /\ n > 0) => (d # None /\ d.ref = n /\ d.enterSee)
<1>1. CASE e = None
  <2> Remove(e, m) = None
    BY <1>1 DEF Remove
  <2>1. CASE n = 0
    BY <1>1, <2>1 DEF Add
  <2>2. CASE n > 0
    <3>1. Add(Remove(e, m), n) = [ref |-> n, enterSee |-> TRUE]
      BY <2>2 DEF Add
    <3>2. Add(Remove(e, m), n) \in Entry
      BY <3>1 DEF Entry
    <3> QED BY <1>1, <2>2, <3>1, <3>2, VisionAssumption
  <2>3. n = 0 \/ n > 0
    OBVIOUS
  <2> QED BY ONLY <2>1, <2>2, <2>3
<1>2. CASE e # None
  <2>1. e \in Entry /\ e.ref \in Int /\ e.enterSee \in BOOLEAN
    BY <1>2 DEF Entry
  <2>2. /\ Remove(e, m) = [ref |-> e.ref - m, enterSee |-> e.enterSee]
        /\ Remove(e, m) \in Entry
    BY <1>2, <2>1 DEF Remove, Entry
  <2>3. Remove(e, m) # None
    BY <2>2, VisionAssumption
  <2>4. CASE n = 0
    BY <1>2, <2>1, <2>2, <2>3, <2>4 DEF Add
  <2>5. CASE n > 0
    <3>1. Add(Remove(e, m), n) = [ref |-> e.ref - m + n, enterSee |-> e.enterSee]
      BY <2>1, <2>2, <2>3, <2>5 DEF Add, Entry
    <3>2. Add(Remove(e, m), n) \in Entry
      BY <2>1, <3>1 DEF Entry
    <3> QED BY <1>2, <2>1, <3>1, <3>2, VisionAssumption
  <2>6. n = 0 \/ n > 0
    OBVIOUS
  <2> QED BY ONLY <2>4, <2>5, <2>6
<1> QED BY ONLY <1>1, <1>2

LEMMA EntryStays ==
  ASSUME NEW e \in Entry \cup {None}, NEW m \in Nat, NEW n \in Nat
  PROVE  Add(Remove(e, m), n) \in Entry \cup {None}
BY EntryAfter

-----------------------------------------------------------------------------
(* Balls that leave blocks and come into others. *)

(* What a user counts of the blocks that a ball leaves or comes into. *)
LEMMA ObservedIs ==
  ASSUME VisionSafe, NEW u \in User, NEW blocks \in SUBSET Block
  PROVE  Observed(u, blocks) = Cardinality(blocks \cap viewPort[u])
<1>1. {b \in blocks : u \in observers[b]} = blocks \cap viewPort[u]
  BY DEF VisionSafe, BlocksAgree, VisionTypeOK
<1> QED BY <1>1 DEF Observed

LEMMA CountsKeeps ==
  ASSUME VisionSafe,
         NEW gone \in [Ball -> SUBSET Block], NEW come \in [Ball -> SUBSET Block],
         \A o \in Ball : gone[o] \subseteq visionblocks[o] /\ come[o] \cap visionblocks[o] = {},
         visionblocks' = [o \in Ball |-> (visionblocks[o] \ gone[o]) \cup come[o]],
         Counts(gone, come)
  PROVE  VisionSafe'
<1>1. BlocksAgree'
  BY DEF VisionSafe, VisionTypeOK, BlocksAgree, Counts
<1> DEFINE Old(u, o) == viewObjs[u][o]
           New1(u, o) == viewObjs'[u][o]
<1>2. ASSUME NEW u \in User, NEW o \in Ball, u \in player
      PROVE  /\ Observed(u, gone[o]) \in Nat /\ Observed(u, come[o]) \in Nat
             /\ Cardinality(Common(u, o)') =
                  Cardinality(Common(u, o)) - Observed(u, gone[o]) + Observed(u, come[o])
             /\ Common(u, o) = {} => Observed(u, gone[o]) = 0
             /\ Common(u, o)' \in SUBSET Block /\ Common(u, o) \in SUBSET Block
  <2> DEFINE G == gone[o] \cap viewPort[u]
             K == come[o] \cap viewPort[u]
  <2>1. /\ gone[o] \in SUBSET Block /\ come[o] \in SUBSET Block
        /\ visionblocks[o] \in SUBSET Block /\ viewPort[u] \in SUBSET Block
    BY DEF VisionSafe, VisionTypeOK
  <2>2. Observed(u, gone[o]) = Cardinality(G) /\ Observed(u, come[o]) = Cardinality(K)
    BY <2>1, ObservedIs
  <2>3. Common(u, o)' = (Common(u, o) \ G) \cup K
    BY DEF Common, Counts
  <2>4. /\ G \in SUBSET Common(u, o) /\ K \cap (Common(u, o) \ G) = {}
        /\ Common(u, o) \in SUBSET Block /\ G \in SUBSET Block /\ K \in SUBSET Block
        /\ Common(u, o)' \in SUBSET Block
    BY <2>1, <2>3 DEF Common
  <2>5. Cardinality(Common(u, o)') = Cardinality(Common(u, o)) - Cardinality(G) + Cardinality(K)
    BY <2>3, <2>4, SizeAfter
  <2>6. Common(u, o) = {} => Cardinality(G) = 0
    BY <2>4, Finite
  <2> QED BY <2>2, <2>4, <2>5, <2>6, Finite
<1>3. ASSUME NEW u \in User, NEW o \in Ball, u \in player
      PROVE  /\ New1(u, o) \in Entry \cup {None}
             /\ New1(u, o) = None <=> (Old(u, o) = None /\ Observed(u, come[o]) = 0)
             /\ Old(u, o) # None =>
                  /\ New1(u, o).ref = Old(u, o).ref - Observed(u, gone[o]) + Observed(u, come[o])
                  /\ (New1(u, o).enterSee <=> Old(u, o).enterSee)
             /\ (Old(u, o) = None /\ Observed(u, come[o]) > 0) =>
                  (New1(u, o).ref = Observed(u, come[o]) /\ New1(u, o).enterSee)
  <2>1. Old(u, o) \in Entry \cup {None}
    BY DEF VisionSafe, VisionTypeOK
  <2>2. New1(u, o) = Add(Remove(Old(u, o), Observed(u, gone[o])), Observed(u, come[o]))
    BY <1>3 DEF Counts
  <2>3. Observed(u, gone[o]) \in Nat /\ Observed(u, come[o]) \in Nat
    BY <1>2, <1>3
  <2> QED
    <3> HIDE DEF Old, New1
    <3>1. New1(u, o) \in Entry \cup {None}
      BY ONLY <2>1, <2>2, <2>3, EntryStays
    <3>2. Old(u, o) = None /\ Observed(u, come[o]) = 0 => New1(u, o) = None
      BY ONLY <2>2 DEF Add, Remove
    <3>3. Old(u, o) # None =>
            /\ New1(u, o) # None
            /\ New1(u, o).ref = Old(u, o).ref - Observed(u, gone[o]) + Observed(u, come[o])
            /\ (New1(u, o).enterSee <=> Old(u, o).enterSee)
      BY ONLY <2>1, <2>2, <2>3, EntryAfter
    <3>4. (Old(u, o) = None /\ Observed(u, come[o]) > 0) =>
            (New1(u, o) # None /\ New1(u, o).ref = Observed(u, come[o]) /\ New1(u, o).enterSee)
      BY ONLY <2>1, <2>2, <2>3, EntryAfter
    <3>5. Observed(u, come[o]) = 0 \/ Observed(u, come[o]) > 0
      BY ONLY <2>3
    <3> QED BY ONLY <3>1, <3>2, <3>3, <3>4, <3>5
<1>4. VisionTypeOK'
  <2>1. viewObjs' \in [User -> [Ball -> Entry \cup {None}]]
    <3>1. ASSUME NEW u \in User, NEW o \in Ball, u \notin player
          PROVE  New1(u, o) = viewObjs[u][o]
      BY <3>1 DEF Counts
    <3>2. ASSUME NEW u \in User, NEW o \in Ball
          PROVE  New1(u, o) \in Entry \cup {None}
      <4>1. viewObjs[u][o] \in Entry \cup {None}
        BY DEF VisionSafe, VisionTypeOK
      <4> QED BY <1>3, <3>1, <4>1
    <3>3. viewObjs' = [u \in User |-> [o \in Ball |-> viewObjs'[u][o]]]
      BY DEF Counts
    <3> QED BY <3>2, <3>3
  <2>2. visionblocks' \in [Ball -> SUBSET Block]
    BY DEF VisionSafe, VisionTypeOK
  <2> QED BY <2>1, <2>2 DEF VisionSafe, VisionTypeOK, Counts
<1>5. RefsCounted'
  <2> SUFFICES ASSUME NEW u \in player', NEW o \in Ball
               PROVE  IF New1(u, o) = None THEN Common(u, o)' = {}
                      ELSE New1(u, o).ref = Cardinality(Common(u, o)')
    BY DEF RefsCounted
  <2>1. u \in player /\ u \in User
    BY DEF Counts, VisionSafe, VisionTypeOK
  <2>2. /\ Old(u, o) = None => Common(u, o) = {}
        /\ Old(u, o) # None => Old(u, o).ref = Cardinality(Common(u, o))
    BY <2>1 DEF VisionSafe, RefsCounted
  <2>3. /\ Cardinality(Common(u, o)) \in Nat /\ Cardinality(Common(u, o)') \in Nat
        /\ Cardinality(Common(u, o)') = 0 <=> Common(u, o)' = {}
        /\ Cardinality(Common(u, o)) = 0 <=> Common(u, o) = {}
    BY <1>2, <2>1, Finite
  <2>4. /\ Observed(u, gone[o]) \in Nat /\ Observed(u, come[o]) \in Nat
        /\ Cardinality(Common(u, o)') =
             Cardinality(Common(u, o)) - Observed(u, gone[o]) + Observed(u, come[o])
        /\ Common(u, o) = {} => Observed(u, gone[o]) = 0
    BY <1>2, <2>1
  <2>5. /\ New1(u, o) = None <=> (Old(u, o) = None /\ Observed(u, come[o]) = 0)
        /\ Old(u, o) # None =>
             New1(u, o).ref = Old(u, o).ref - Observed(u, gone[o]) + Observed(u, come[o])
        /\ (Old(u, o) = None /\ Observed(u, come[o]) > 0) =>
             New1(u, o).ref = Observed(u, come[o])
    BY <1>3, <2>1
  <2> HIDE DEF Old, New1
  <2> QED BY ONLY <2>2, <2>3, <2>4, <2>5
<1>6. ClientKnows'
  <2> SUFFICES ASSUME NEW u \in player'
               PROVE  /\ client'[u] = {o \in Ball : New1(u, o) # None /\ ~New1(u, o).enterSee}
                      /\ beginsee'[u] = {o \in Ball : New1(u, o) # None /\ New1(u, o).enterSee}
    BY DEF ClientKnows
  <2>1. u \in player /\ u \in User
    BY DEF Counts, VisionSafe, VisionTypeOK
  <2>2. /\ client'[u] = {o \in Ball : Old(u, o) # None /\ ~Old(u, o).enterSee}
        /\ beginsee'[u] = {o \in Ball : Old(u, o) # None /\ Old(u, o).enterSee}
                           \cup {o \in Ball : Old(u, o) = None /\ Observed(u, come[o]) > 0}
    BY <2>1 DEF VisionSafe, ClientKnows, Counts
  <2>3. ASSUME NEW o \in Ball PROVE Observed(u, come[o]) > 0 <=> ~(Observed(u, come[o]) = 0)
    BY <1>2, <2>1
  <2> QED BY <1>3, <2>1, <2>2, <2>3
<1> QED BY <1>1, <1>4, <1>5, <1>6 DEF VisionSafe

LEMMA EnterKeeps ==
  ASSUME VisionSafe, NEW o \in Ball, NEW area \in SUBSET Block,
         visionblocks[o] = {}, Enter(o, area)
  PROVE  VisionSafe'
<1>1. Nowhere \in [Ball -> SUBSET Block] /\ At(o, area) \in [Ball -> SUBSET Block]
  BY DEF Nowhere, At
<1>2. visionblocks' = [p \in Ball |-> (visionblocks[p] \ Nowhere[p]) \cup At(o, area)[p]]
  BY DEF Enter, Nowhere, At, VisionSafe, VisionTypeOK
<1>3. \A p \in Ball : /\ Nowhere[p] \subseteq visionblocks[p]
                      /\ At(o, area)[p] \cap visionblocks[p] = {}
  BY DEF Nowhere, At
<1>4. Counts(Nowhere, At(o, area))
  BY DEF Enter
<1> QED BY <1>1, <1>2, <1>3, <1>4, CountsKeeps

LEMMA LeaveKeeps ==
  ASSUME VisionSafe, NEW o \in Ball, Leave(o)
  PROVE  VisionSafe'
<1> DEFINE gone == At(o, visionblocks[o])
<1>1. Nowhere \in [Ball -> SUBSET Block] /\ gone \in [Ball -> SUBSET Block]
  BY DEF Nowhere, At, VisionSafe, VisionTypeOK
<1>2. visionblocks' = [p \in Ball |-> (visionblocks[p] \ gone[p]) \cup Nowhere[p]]
  BY DEF Leave, Nowhere, At, VisionSafe, VisionTypeOK
<1>3. \A p \in Ball : gone[p] \subseteq visionblocks[p] /\ Nowhere[p] \cap visionblocks[p] = {}
  BY DEF Nowhere, At
<1>4. Counts(gone, Nowhere)
  BY DEF Leave
<1> HIDE DEF gone
<1> QED BY <1>1, <1>2, <1>3, <1>4, CountsKeeps

LEMMA UpdateKeeps ==
  ASSUME VisionSafe, NEW areas \in [Ball -> SUBSET Block], UpdateVisionObj(areas)
  PROVE  VisionSafe'
<1> DEFINE gone == [o \in Ball |-> visionblocks[o] \ areas[o]]
           come == [o \in Ball |-> areas[o] \ visionblocks[o]]
<1>1. gone \in [Ball -> SUBSET Block] /\ come \in [Ball -> SUBSET Block]
  BY DEF VisionSafe, VisionTypeOK
<1>2. visionblocks' = [p \in Ball |-> (visionblocks[p] \ gone[p]) \cup come[p]]
  <2>1. \A p \in Ball : areas[p] = (visionblocks[p] \ gone[p]) \cup come[p]
    OBVIOUS
  <2>2. visionblocks' = [p \in Ball |-> areas[p]]
    BY DEF UpdateVisionObj
  <2> QED BY <2>1, <2>2
<1>3. \A p \in Ball : gone[p] \subseteq visionblocks[p] /\ come[p] \cap visionblocks[p] = {}
  OBVIOUS
<1>4. Counts(gone, come)
  BY DEF UpdateVisionObj
<1> HIDE DEF gone, come
<1> QED BY <1>1, <1>2, <1>3, <1>4, CountsKeeps

-----------------------------------------------------------------------------
(* Users whose view port moves, that are told, that come and go. *)

(* What a user counts of a ball when it stops observing some blocks or     *)
(* starts to observe them.                                                 *)
LEMMA HoldingIs ==
  ASSUME VisionSafe, NEW o \in Ball, NEW blocks \in SUBSET Block
  PROVE  Holding(o, blocks) = Cardinality(blocks \cap visionblocks[o])
<1>1. {b \in blocks : o \in objs[b]} = blocks \cap visionblocks[o]
  BY DEF VisionSafe, BlocksAgree, VisionTypeOK
<1> QED BY <1>1 DEF Holding

LEMMA UserVisionKeeps ==
  ASSUME VisionSafe, NEW u \in User, u \in player, NEW port \in SUBSET Block,
         UpdateUserVision(u, port)
  PROVE  VisionSafe'
<1> DEFINE gone == Unwatched(u, port)
           come == Watched(u, port)
           Old(o) == viewObjs[u][o]
           New1(o) == viewObjs'[u][o]
<1>1. /\ viewPort[u] \in SUBSET Block /\ gone \in SUBSET viewPort[u] /\ come \in SUBSET Block
      /\ gone \in SUBSET Block /\ come \cap (viewPort[u] \ gone) = {}
      /\ \A v \in User : viewPort'[v] = IF v = u THEN (viewPort[u] \ gone) \cup come ELSE viewPort[v]
      /\ \A v \in User \ {u} : /\ viewObjs'[v] = viewObjs[v] /\ beginsee'[v] = beginsee[v]
                              /\ client'[v] = client[v]
      /\ visionblocks' = visionblocks /\ player' = player /\ objs' = objs /\ client' = client
  BY DEF UpdateUserVision, Unwatched, Watched, VisionSafe, VisionTypeOK
<1>2. {b \in gone : u \in observers[b]} = gone
  BY <1>1 DEF VisionSafe, BlocksAgree
<1>3. BlocksAgree'
  <2>1. ASSUME NEW b \in Block
        PROVE  observers'[b] = {v \in User : b \in viewPort'[v]}
    <3>1. observers[b] = {v \in User : b \in viewPort[v]}
      BY DEF VisionSafe, BlocksAgree
    <3>2. observers'[b] = IF b \in come THEN observers[b] \cup {u}
                          ELSE IF b \in gone THEN observers[b] \ {u} ELSE observers[b]
      BY DEF UpdateUserVision
    <3> QED BY <1>1, <3>1, <3>2
  <2> QED BY <1>1, <2>1 DEF BlocksAgree, VisionSafe
<1>4. ASSUME NEW o \in Ball
      PROVE  /\ Holding(o, gone) \in Nat /\ Holding(o, come) \in Nat
             /\ Cardinality(Common(u, o)') =
                  Cardinality(Common(u, o)) - Holding(o, gone) + Holding(o, come)
             /\ Common(u, o) = {} => Holding(o, gone) = 0
             /\ Common(u, o)' \in SUBSET Block /\ Common(u, o) \in SUBSET Block
  <2> DEFINE G == gone \cap visionblocks[o]
             K == come \cap visionblocks[o]
  <2>1. Holding(o, gone) = Cardinality(G) /\ Holding(o, come) = Cardinality(K)
    BY <1>1, HoldingIs
  <2>2. Common(u, o)' = (Common(u, o) \ G) \cup K
    BY <1>1 DEF Common
  <2>3. /\ G \in SUBSET Common(u, o) /\ K \cap (Common(u, o) \ G) = {}
        /\ Common(u, o) \in SUBSET Block /\ G \in SUBSET Block /\ K \in SUBSET Block
        /\ Common(u, o)' \in SUBSET Block
    BY <1>1, <2>2 DEF Common
  <2>4. Cardinality(Common(u, o)') = Cardinality(Common(u, o)) - Cardinality(G) + Cardinality(K)
    BY <2>2, <2>3, SizeAfter
  <2>5. Common(u, o) = {} => Cardinality(G) = 0
    BY <2>3, Finite
  <2> QED BY <2>1, <2>3, <2>4, <2>5, Finite
<1>5. ASSUME NEW o \in Ball
      PROVE  /\ New1(o) \in Entry \cup {None}
             /\ New1(o) = None <=> (Old(o) = None /\ Holding(o, come) = 0)
             /\ Old(o) # None =>
                  /\ New1(o).ref = Old(o).ref - Holding(o, gone) + Holding(o, come)
                  /\ (New1(o).enterSee <=> Old(o).enterSee)
             /\ (Old(o) = None /\ Holding(o, come) > 0) =>
                  (New1(o).ref = Holding(o, come) /\ New1(o).enterSee)
  <2>1. Old(o) \in Entry \cup {None}
    BY DEF VisionSafe, VisionTypeOK
  <2>2. New1(o) = Add(Remove(Old(o), Holding(o, gone)), Holding(o, come))
    BY <1>2 DEF UpdateUserVision, VisionSafe, VisionTypeOK
  <2>3. Holding(o, gone) \in Nat /\ Holding(o, come) \in Nat
    BY <1>4
  <2> QED
    <3> HIDE DEF Old, New1, gone, come
    <3>1. New1(o) \in Entry \cup {None}
      BY ONLY <2>1, <2>2, <2>3, EntryStays
    <3>2. Old(o) = None /\ Holding(o, come) = 0 => New1(o) = None
      BY ONLY <2>2 DEF Add, Remove
    <3>3. Old(o) # None =>
            /\ New1(o) # None
            /\ New1(o).ref = Old(o).ref - Holding(o, gone) + Holding(o, come)
            /\ (New1(o).enterSee <=> Old(o).enterSee)
      BY ONLY <2>1, <2>2, <2>3, EntryAfter
    <3>4. (Old(o) = None /\ Holding(o, come) > 0) =>
            (New1(o) # None /\ New1(o).ref = Holding(o, come) /\ New1(o).enterSee)
      BY ONLY <2>1, <2>2, <2>3, EntryAfter
    <3>5. Holding(o, come) = 0 \/ Holding(o, come) > 0
      BY ONLY <2>3
    <3> QED BY ONLY <3>1, <3>2, <3>3, <3>4, <3>5
<1>6. VisionTypeOK'
  <2>1. viewObjs' \in [User -> [Ball -> Entry \cup {None}]]
    <3>1. viewObjs' = [v \in User |-> IF v = u THEN [o \in Ball |-> New1(o)] ELSE viewObjs[v]]
      BY DEF UpdateUserVision, VisionSafe, VisionTypeOK
    <3>2. [o \in Ball |-> New1(o)] \in [Ball -> Entry \cup {None}]
      BY <1>5
    <3> HIDE DEF New1
    <3> QED BY <3>1, <3>2 DEF VisionSafe, VisionTypeOK
  <2> QED BY <2>1 DEF VisionSafe, VisionTypeOK, UpdateUserVision
<1>7. RefsCounted'
  <2> SUFFICES ASSUME NEW v \in player', NEW o \in Ball
               PROVE  IF viewObjs'[v][o] = None THEN Common(v, o)' = {}
                      ELSE viewObjs'[v][o].ref = Cardinality(Common(v, o)')
    BY DEF RefsCounted
  <2>1. v \in player /\ v \in User
    BY <1>1 DEF VisionSafe, VisionTypeOK
  <2>2. CASE v # u
    <3>1. viewPort'[v] = viewPort[v] /\ viewObjs'[v][o] = viewObjs[v][o]
      BY <1>1, <2>1, <2>2
    <3>2. Common(v, o)' = Common(v, o)
      BY <1>1, <3>1 DEF Common
    <3>3. IF viewObjs[v][o] = None THEN Common(v, o) = {}
          ELSE viewObjs[v][o].ref = Cardinality(Common(v, o))
      BY <2>1 DEF VisionSafe, RefsCounted
    <3> QED BY ONLY <3>1, <3>2, <3>3
  <2>3. CASE v = u
    <3>1. /\ Old(o) = None => Common(u, o) = {}
          /\ Old(o) # None => Old(o).ref = Cardinality(Common(u, o))
      BY <2>1, <2>3 DEF VisionSafe, RefsCounted
    <3>2. /\ Cardinality(Common(u, o)) \in Nat /\ Cardinality(Common(u, o)') \in Nat
          /\ Cardinality(Common(u, o)') = 0 <=> Common(u, o)' = {}
          /\ Cardinality(Common(u, o)) = 0 <=> Common(u, o) = {}
      BY <1>4, Finite
    <3>3. /\ Holding(o, gone) \in Nat /\ Holding(o, come) \in Nat
          /\ Cardinality(Common(u, o)') =
               Cardinality(Common(u, o)) - Holding(o, gone) + Holding(o, come)
          /\ Common(u, o) = {} => Holding(o, gone) = 0
      BY <1>4
    <3>4. /\ New1(o) = None <=> (Old(o) = None /\ Holding(o, come) = 0)
          /\ Old(o) # None => New1(o).ref = Old(o).ref - Holding(o, gone) + Holding(o, come)
          /\ (Old(o) = None /\ Holding(o, come) > 0) => New1(o).ref = Holding(o, come)
      BY <1>5
    <3>5. IF New1(o) = None THEN Common(u, o)' = {} ELSE New1(o).ref = Cardinality(Common(u, o)')
      <4> HIDE DEF Old, New1
      <4> QED BY ONLY <3>1, <3>2, <3>3, <3>4
    <3> QED BY <2>3, <3>5
  <2> QED BY <2>2, <2>3
<1>8. ClientKnows'
  <2> SUFFICES ASSUME NEW v \in player'
               PROVE  /\ client'[v] = {o \in Ball : viewObjs'[v][o] # None /\ ~viewObjs'[v][o].enterSee}
                      /\ beginsee'[v] = {o \in Ball : viewObjs'[v][o] # None /\ viewObjs'[v][o].enterSee}
    BY DEF ClientKnows
  <2>1. v \in player /\ v \in User
    BY <1>1 DEF VisionSafe, VisionTypeOK
  <2>2. CASE v # u
    BY <1>1, <2>1, <2>2 DEF VisionSafe, ClientKnows
  <2>3. CASE v = u
    <3>1. /\ client'[u] = {o \in Ball : Old(o) # None /\ ~Old(o).enterSee}
          /\ beginsee'[u] = {o \in Ball : Old(o) # None /\ Old(o).enterSee}
                             \cup {o \in Ball : Old(o) = None /\ Holding(o, come) > 0}
      BY <2>1, <2>3 DEF VisionSafe, VisionTypeOK, ClientKnows, UpdateUserVision
    <3>2. ASSUME NEW o \in Ball PROVE Holding(o, come) > 0 <=> ~(Holding(o, come) = 0)
      <4>1. Holding(o, come) \in Nat
        BY <1>4
      <4> QED BY ONLY <4>1
    <3> QED
      <4>1. /\ client'[u] = {o \in Ball : New1(o) # None /\ ~New1(o).enterSee}
            /\ beginsee'[u] = {o \in Ball : New1(o) # None /\ New1(o).enterSee}
        <5> HIDE DEF Old, New1, gone, come
        <5> QED BY <1>5, <3>1, <3>2
      <4> QED BY <2>3, <4>1
  <2> QED BY <2>2, <2>3
<1> QED BY <1>3, <1>6, <1>7, <1>8 DEF VisionSafe

(* Who has just been told shows what is in sight, and nothing else. *)
LEMMA NotifyKeeps ==
  ASSUME VisionSafe, NEW u \in User, u \in player, NotifyBalls2Client(u)
  PROVE  VisionSafe' /\ client'[u] = Visible(u)'
<1> DEFINE Old(o) == viewObjs[u][o]
           New1(o) == viewObjs'[u][o]
<1>1. /\ viewObjs' = [v \in User |-> IF v = u THEN [o \in Ball |-> New1(o)] ELSE viewObjs[v]]
      /\ \A v \in User \ {u} : /\ viewObjs'[v] = viewObjs[v] /\ beginsee'[v] = beginsee[v]
                              /\ client'[v] = client[v]
      /\ beginsee'[u] = {} /\ client'[u] = (client[u] \cup beginsee[u]) \ OutOfSight(u)
      /\ UNCHANGED <<objs, observers, visionblocks, viewPort, player>>
  BY DEF NotifyBalls2Client, VisionSafe, VisionTypeOK
<1>2. ASSUME NEW o \in Ball
      PROVE  /\ Old(o) \in Entry \cup {None}
             /\ Cardinality(Common(u, o)) \in Nat
             /\ Cardinality(Common(u, o)) = 0 <=> Common(u, o) = {}
             /\ Old(o) = None => Common(u, o) = {}
             /\ Old(o) # None => Old(o).ref = Cardinality(Common(u, o))
             /\ o \in OutOfSight(u) <=> (Old(o) # None /\ Old(o).ref <= 0)
  <2>1. Common(u, o) \in SUBSET Block
    BY DEF Common, VisionSafe, VisionTypeOK
  <2>2. Cardinality(Common(u, o)) \in Nat /\ (Cardinality(Common(u, o)) = 0 <=> Common(u, o) = {})
    BY <2>1, Finite
  <2>3. Old(o) \in Entry \cup {None}
    BY DEF VisionSafe, VisionTypeOK
  <2>4. IF Old(o) = None THEN Common(u, o) = {} ELSE Old(o).ref = Cardinality(Common(u, o))
    BY DEF VisionSafe, RefsCounted
  <2>5. o \in OutOfSight(u) <=> (Old(o) # None /\ Old(o).ref <= 0)
    BY DEF OutOfSight
  <2> QED BY ONLY <2>2, <2>3, <2>4, <2>5
<1>3. ASSUME NEW o \in Ball
      PROVE  /\ New1(o) \in Entry \cup {None}
             /\ New1(o) = None <=> Common(u, o) = {}
             /\ New1(o) # None => New1(o).ref = Cardinality(Common(u, o)) /\ ~New1(o).enterSee
             /\ New1(o) = None <=> (Old(o) = None \/ o \in OutOfSight(u))
  <2>1. New1(o) = IF Old(o) = None \/ o \in OutOfSight(u) THEN None
                  ELSE [Old(o) EXCEPT !.enterSee = FALSE]
    BY DEF NotifyBalls2Client, VisionSafe, VisionTypeOK
  <2>2. CASE Old(o) = None \/ o \in OutOfSight(u)
    BY <1>2, <2>1, <2>2
  <2>3. CASE ~(Old(o) = None \/ o \in OutOfSight(u))
    <3>1. Old(o) \in Entry /\ Old(o).ref = Cardinality(Common(u, o)) /\ Old(o).ref \in Int
      BY <1>2, <2>3 DEF Entry
    <3>2. New1(o) = [ref |-> Old(o).ref, enterSee |-> FALSE] /\ New1(o) \in Entry
      BY <2>1, <2>3, <3>1 DEF Entry
    <3>3. New1(o) # None
      BY <3>2, VisionAssumption
    <3>4. Common(u, o) # {}
      BY <1>2, <2>3, <3>1
    <3> QED BY <2>3, <3>1, <3>2, <3>3, <3>4
  <2> QED BY ONLY <2>2, <2>3
<1>4. VisionTypeOK'
  <2>1. [o \in Ball |-> New1(o)] \in [Ball -> Entry \cup {None}]
    BY <1>3
  <2>2. viewObjs' \in [User -> [Ball -> Entry \cup {None}]]
    <3> HIDE DEF New1
    <3> QED BY <1>1, <2>1 DEF VisionSafe, VisionTypeOK
  <2>3. OutOfSight(u) \subseteq Ball
    BY DEF OutOfSight
  <2> QED BY <2>2, <2>3 DEF VisionSafe, VisionTypeOK, NotifyBalls2Client
<1>5. BlocksAgree'
  BY <1>1 DEF VisionSafe, BlocksAgree
<1>6. \A v \in User, o \in Ball : Common(v, o)' = Common(v, o)
  BY <1>1 DEF Common
<1>7. RefsCounted'
  <2> SUFFICES ASSUME NEW v \in player', NEW o \in Ball
               PROVE  IF viewObjs'[v][o] = None THEN Common(v, o) = {}
                      ELSE viewObjs'[v][o].ref = Cardinality(Common(v, o))
    <3>1. player' \subseteq User
      BY <1>4 DEF VisionTypeOK
    <3> QED BY <1>6, <3>1 DEF RefsCounted
  <2>1. v \in player /\ v \in User
    BY <1>1 DEF VisionSafe, VisionTypeOK
  <2>2. CASE v # u
    BY <1>1, <2>1, <2>2 DEF VisionSafe, RefsCounted
  <2>3. CASE v = u
    BY <1>3, <2>3
  <2> QED BY <2>2, <2>3
<1>8. client'[u] = {o \in Ball : New1(o) # None}
  <2>1. client[u] \cup beginsee[u] = {o \in Ball : Old(o) # None}
    BY DEF VisionSafe, ClientKnows
  <2> HIDE DEF Old, New1
  <2> QED BY <1>1, <1>3, <2>1
<1>9. ClientKnows'
  <2> SUFFICES ASSUME NEW v \in player'
               PROVE  /\ client'[v] = {o \in Ball : viewObjs'[v][o] # None /\ ~viewObjs'[v][o].enterSee}
                      /\ beginsee'[v] = {o \in Ball : viewObjs'[v][o] # None /\ viewObjs'[v][o].enterSee}
    BY DEF ClientKnows
  <2>1. v \in player /\ v \in User
    BY <1>1 DEF VisionSafe, VisionTypeOK
  <2>2. CASE v # u
    BY <1>1, <2>1, <2>2 DEF VisionSafe, ClientKnows
  <2>3. CASE v = u
    BY <1>1, <1>3, <1>8, <2>3
  <2> QED BY <2>2, <2>3
<1>10. client'[u] = Visible(u)'
  <2>1. Visible(u)' = {o \in Ball : Common(u, o) # {}}
    BY <1>6 DEF Visible
  <2> QED BY <1>3, <1>8, <2>1
<1> QED BY <1>4, <1>5, <1>7, <1>9, <1>10 DEF VisionSafe

(* A user comes that observes no block yet. *)
LEMMA EnterVisionKeeps ==
  ASSUME VisionSafe, NEW u \in User, viewPort[u] = {}, EnterVision(u)
  PROVE  VisionSafe'
<1>1. /\ viewPort' = viewPort
      /\ \A v \in User \ {u} : /\ viewObjs'[v] = viewObjs[v] /\ beginsee'[v] = beginsee[v]
                              /\ client'[v] = client[v] /\ (v \in player' <=> v \in player)
      /\ viewObjs'[u] = NothingSeen /\ beginsee'[u] = {} /\ client'[u] = {}
      /\ UNCHANGED <<objs, observers, visionblocks>>
  BY DEF EnterVision, VisionSafe, VisionTypeOK
<1>2. VisionTypeOK'
  BY DEF EnterVision, VisionSafe, VisionTypeOK, NothingSeen
<1>3. BlocksAgree'
  BY <1>1 DEF VisionSafe, BlocksAgree
<1>4. \A v \in User, o \in Ball : Common(v, o)' = Common(v, o)
  BY <1>1 DEF Common
<1>5. RefsCounted'
  <2> SUFFICES ASSUME NEW v \in player', NEW o \in Ball
               PROVE  IF viewObjs'[v][o] = None THEN Common(v, o) = {}
                      ELSE viewObjs'[v][o].ref = Cardinality(Common(v, o))
    BY <1>2, <1>4 DEF RefsCounted, VisionTypeOK
  <2>1. CASE v = u
    BY <1>1, <2>1 DEF Common, NothingSeen
  <2>2. CASE v # u
    BY <1>1, <1>2, <2>2 DEF VisionSafe, RefsCounted, VisionTypeOK
  <2> QED BY <2>1, <2>2
<1>6. ClientKnows'
  <2> SUFFICES ASSUME NEW v \in player'
               PROVE  /\ client'[v] = {o \in Ball : viewObjs'[v][o] # None /\ ~viewObjs'[v][o].enterSee}
                      /\ beginsee'[v] = {o \in Ball : viewObjs'[v][o] # None /\ viewObjs'[v][o].enterSee}
    BY DEF ClientKnows
  <2>1. CASE v = u
    BY <1>1, <2>1 DEF NothingSeen
  <2>2. CASE v # u
    <3>1. v \in User /\ v \in player
      BY <1>1, <1>2, <2>2 DEF VisionTypeOK
    <3>2. viewObjs'[v] = viewObjs[v] /\ beginsee'[v] = beginsee[v] /\ client'[v] = client[v]
      BY <1>1, <2>2, <3>1
    <3> QED BY <3>1, <3>2 DEF VisionSafe, ClientKnows
  <2> QED BY <2>1, <2>2
<1> QED BY <1>2, <1>3, <1>5, <1>6 DEF VisionSafe

LEMMA PlayerLostKeeps ==
  ASSUME VisionSafe, NEW u \in User, PlayerLost(u)
  PROVE  VisionSafe'
<1>1. \A v \in player' : /\ v \in player /\ v \in User /\ viewObjs'[v] = viewObjs[v]
                        /\ beginsee'[v] = beginsee[v] /\ client'[v] = client[v]
  BY DEF PlayerLost, VisionSafe, VisionTypeOK
<1>2. VisionTypeOK'
  BY DEF PlayerLost, VisionSafe, VisionTypeOK, NothingSeen
<1>3. BlocksAgree'
  BY DEF PlayerLost, VisionSafe, BlocksAgree
<1>4. RefsCounted'
  BY <1>1 DEF PlayerLost, VisionSafe, RefsCounted, Common
<1>5. ClientKnows'
  BY <1>1 DEF VisionSafe, ClientKnows
<1> QED BY <1>2, <1>3, <1>4, <1>5 DEF VisionSafe

-----------------------------------------------------------------------------
(* The inductive invariant: besides what the runs check, where in a        *)
(* handler or a tick the room is and what the handler still holds then.    *)

OwnersOK ==
  /\ owner \in [Ball -> Player \cup {Dummy, None}]
  /\ thorns \subseteq Balls(Dummy) /\ needThorn \cup moving \subseteq {o \in Ball : owner[o] \in Player}
  /\ SeenIsOwned /\ BallsBounded

RoomOK ==
  /\ stop \in [Player -> BOOLEAN] /\ player \subseteq entered /\ entered \subseteq User
  /\ ticking \in BOOLEAN /\ sync \in BOOLEAN
  /\ \A u \in User \ entered : viewPort[u] = {}
  /\ ClientSees

AtThorn == {"thorn", "collide", "eat thorn"}
OnBalls == AtThorn \cup {"balls"}
RunOK ==
  /\ pc \in OnBalls \cup {"messages", "entering", "spit", "split", "follow", "robots", "users", "notify"}
  /\ who \in Player \cup {Dummy, None} /\ ball \in Ball \cup {None}
  /\ todo \subseteq Balls(who) /\ waiting \subseteq Player
  /\ left \in 0 .. MaxThornBalls /\ prey \in thorns \cup {None}
  /\ pc = "entering" => (who \in User /\ ballCount(who) = 0)
  /\ pc \in {"spit", "split"} => who \in User
  /\ pc \in OnBalls => who \in Player
  /\ pc \in AtThorn => ball \in Balls(who)
  /\ pc = "thorn" => (left >= 1 /\ ballCount(who) + left <= MaxBalls)
  /\ pc = "eat thorn" => prey \in thorns
  /\ pc \notin OnBalls \cup {"spit", "split"} => todo = {}

ArenaInv == ~ReEnter /\ VisionSafe /\ OwnersOK /\ RoomOK /\ RunOK

Somebody == Player \cup {Dummy}

LEMMA CountIs ==
  /\ \A w : IsFiniteSet(Balls(w)) /\ ballCount(w) \in Nat
  /\ \A w : ballCount(w) = 0 <=> Balls(w) = {}
<1>1. \A w : Balls(w) \subseteq Ball
  BY DEF Balls
<1> QED BY <1>1, VisionAssumption, FS_Subset, FS_CardinalityType, FS_EmptySet DEF ballCount

(* A ball is made of an object that nothing reaches. *)
LEMMA Born ==
  ASSUME OwnersOK, NEW o \in Ball, NEW w \in Somebody, NEW kind, New(o, w, kind),
         kind = "thorn" => w = Dummy
  PROVE  /\ owner[o] = None /\ visionblocks[o] = {}
         /\ owner' \in [Ball -> Player \cup {Dummy, None}]
         /\ owner'[o] = w /\ \A p \in Ball \ {o} : owner'[p] = owner[p]
         /\ \A v \in Somebody : /\ Balls(v)' = IF v = w THEN Balls(v) \cup {o} ELSE Balls(v)
                                /\ ballCount(v)' = IF v = w THEN ballCount(v) + 1 ELSE ballCount(v)
         /\ thorns' \subseteq Balls(Dummy)' /\ thorns \subseteq thorns'
<1>1. /\ owner[o] = None /\ owner' = [owner EXCEPT ![o] = w]
      /\ owner' \in [Ball -> Player \cup {Dummy, None}]
      /\ owner'[o] = w /\ \A p \in Ball \ {o} : owner'[p] = owner[p]
  BY DEF New, Fresh, OwnersOK, Somebody
<1>2. visionblocks[o] = {}
  BY <1>1 DEF OwnersOK, SeenIsOwned
<1>3. \A v \in Somebody : v # None
  BY ArenaAssumption DEF Somebody
<1>4. \A v \in Somebody : Balls(v)' = IF v = w THEN Balls(v) \cup {o} ELSE Balls(v)
  BY <1>1, <1>3 DEF Balls
<1>5. o \notin Balls(w)
  BY <1>1, <1>3 DEF Balls
<1>6. ASSUME NEW v \in Somebody
      PROVE  ballCount(v)' = IF v = w THEN ballCount(v) + 1 ELSE ballCount(v)
  <2>1. CASE v = w
    <3>1. Cardinality(Balls(w) \cup {o}) = Cardinality(Balls(w)) + 1
      BY <1>5, CountIs, FS_AddElement
    <3>2. Balls(v)' = Balls(w) \cup {o}
      BY <1>4, <2>1
    <3> QED BY <2>1, <3>1, <3>2 DEF ballCount
  <2>2. CASE v # w
    BY <1>4, <2>2 DEF ballCount
  <2> QED BY <2>1, <2>2
<1>7. thorns' \subseteq Balls(Dummy)' /\ thorns \subseteq thorns'
  BY <1>4 DEF New, OwnersOK, Somebody
<1> QED BY <1>1, <1>2, <1>4, <1>6, <1>7

(* A ball that dies leaves its owner and the blocks. *)
LEMMA Died ==
  ASSUME VisionSafe, OwnersOK, NEW o \in Ball, OnDead(o)
  PROVE  /\ VisionSafe'
         /\ owner' \in [Ball -> Player \cup {Dummy, None}] /\ SeenIsOwned' /\ BallsBounded'
         /\ \A p \in Ball \ {o} : owner'[p] = owner[p]
         /\ \A v \in Somebody : Balls(v)' = Balls(v) \ {o} /\ ballCount(v)' <= ballCount(v)
         /\ thorns' \subseteq Balls(Dummy)' /\ thorns' = thorns \ {o} /\ moving' = moving \ {o}
         /\ UNCHANGED <<viewPort, player>>
<1>1. VisionSafe'
  BY LeaveKeeps DEF OnDead
<1>2. /\ owner' \in [Ball -> Player \cup {Dummy, None}]
      /\ owner'[o] = None /\ \A p \in Ball \ {o} : owner'[p] = owner[p]
      /\ thorns' = thorns \ {o} /\ moving' = moving \ {o}
  BY DEF OnDead, OwnersOK
<1>3. SeenIsOwned'
  BY <1>2 DEF OwnersOK, SeenIsOwned, OnDead, Leave, VisionSafe, VisionTypeOK
<1>4. \A v \in Somebody : Balls(v)' = Balls(v) \ {o}
  BY <1>2, ArenaAssumption DEF Balls, Somebody
<1>5. ASSUME NEW v \in Somebody PROVE ballCount(v)' <= ballCount(v) /\ ballCount(v)' \in Nat
  <2>1. Balls(v)' \subseteq Balls(v)
    BY <1>4
  <2>2. Cardinality(Balls(v)') <= Cardinality(Balls(v)) /\ Cardinality(Balls(v)') \in Nat
    BY <2>1, CountIs, FS_Subset, FS_CardinalityType
  <2> QED BY <2>2 DEF ballCount
<1>6. BallsBounded'
  <2> SUFFICES ASSUME NEW v \in Player PROVE ballCount(v)' <= MaxBalls
    BY DEF BallsBounded
  <2>1. ballCount(v) <= MaxBalls /\ ballCount(v)' <= ballCount(v)
    BY <1>5 DEF OwnersOK, BallsBounded, Somebody
  <2>2. ballCount(v) \in Nat /\ ballCount(v)' \in Nat /\ MaxBalls \in Nat
    BY <1>5, CountIs, ArenaAssumption DEF Somebody
  <2> QED BY <2>1, <2>2
<1>7. thorns' \subseteq Balls(Dummy)'
  BY <1>2, <1>4 DEF OwnersOK, Somebody
<1>8. UNCHANGED <<viewPort, player>>
  BY DEF OnDead, Leave, Counts
<1> QED BY <1>1, <1>2, <1>3, <1>4, <1>5, <1>6, <1>7, <1>8

(* What a ball leaves of the owners' state when it comes into the arena.   *)
LEMMA Relived ==
  ASSUME VisionSafe, OwnersOK, NEW o \in Ball, NEW w \in Player, ballCount(w) = 0, Relive(w, o)
  PROVE  /\ VisionSafe' /\ SeenIsOwned' /\ BallsBounded'
         /\ owner' \in [Ball -> Player \cup {Dummy, None}]
         /\ owner'[o] = w /\ \A p \in Ball \ {o} : owner'[p] = owner[p]
         /\ owner[o] = None /\ Balls(w)' = {o}
         /\ thorns' \subseteq Balls(Dummy)' /\ thorns' = thorns
         /\ UNCHANGED <<viewPort, player>>
<1>1. New(o, w, "ball") /\ w \in Somebody /\ ~("ball" = "thorn")
  BY DEF Relive, Somebody
<1>2. PICK area \in Areas : Enter(o, area)
  BY DEF Relive
<1>3. /\ owner[o] = None /\ visionblocks[o] = {}
      /\ owner' \in [Ball -> Player \cup {Dummy, None}]
      /\ owner'[o] = w /\ \A p \in Ball \ {o} : owner'[p] = owner[p]
      /\ \A v \in Somebody : /\ Balls(v)' = IF v = w THEN Balls(v) \cup {o} ELSE Balls(v)
                             /\ ballCount(v)' = IF v = w THEN ballCount(v) + 1 ELSE ballCount(v)
      /\ thorns' \subseteq Balls(Dummy)'
  BY <1>1, Born
<1>4. VisionSafe'
  BY <1>2, <1>3, EnterKeeps, ArenaAssumption
<1>5. SeenIsOwned'
  BY <1>2, <1>3, ArenaAssumption
     DEF OwnersOK, SeenIsOwned, Enter, VisionSafe, VisionTypeOK
<1>6. BallsBounded'
  <2> SUFFICES ASSUME NEW v \in Player PROVE ballCount(v)' <= MaxBalls
    BY DEF BallsBounded
  <2>1. ballCount(v) <= MaxBalls /\ ballCount(v)' = IF v = w THEN ballCount(v) + 1 ELSE ballCount(v)
    BY <1>3 DEF OwnersOK, BallsBounded, Somebody
  <2>2. MaxBalls \in Nat \ {0}
    BY ArenaAssumption
  <2> QED BY <2>1, <2>2
<1>7. Balls(w) = {}
  BY CountIs
<1>8. Balls(w)' = {o}
  BY <1>1, <1>3, <1>7
<1>9. thorns' = thorns
  BY <1>1 DEF New
<1>10. UNCHANGED <<viewPort, player>>
  BY <1>2 DEF Enter, Counts
<1> QED BY <1>3, <1>4, <1>5, <1>6, <1>8, <1>9, <1>10

(* A ball spits a spore, a part of itself or a piece of a thorn.           *)
LEMMA Spat ==
  ASSUME VisionSafe, OwnersOK, NEW b \in Ball, NEW o \in Ball, NEW w \in Somebody,
         w # Dummy => ballCount(w) < MaxBalls, spit(b, o, w)
  PROVE  /\ VisionSafe' /\ OwnersOK'
         /\ \A v \in Somebody : /\ Balls(v)' = IF v = w THEN Balls(v) \cup {o} ELSE Balls(v)
                                /\ ballCount(v)' = IF v = w THEN ballCount(v) + 1 ELSE ballCount(v)
         /\ thorns' = thorns
         /\ UNCHANGED <<viewPort, player, needThorn, stop>>
<1> DEFINE kind == IF w = Dummy THEN "spore" ELSE "ball"
<1>1. New(o, w, kind) /\ kind # "thorn"
  BY DEF spit
<1>2. /\ owner[o] = None /\ visionblocks[o] = {}
      /\ owner' \in [Ball -> Player \cup {Dummy, None}]
      /\ owner'[o] = w /\ \A p \in Ball \ {o} : owner'[p] = owner[p]
      /\ \A v \in Somebody : /\ Balls(v)' = IF v = w THEN Balls(v) \cup {o} ELSE Balls(v)
                             /\ ballCount(v)' = IF v = w THEN ballCount(v) + 1 ELSE ballCount(v)
      /\ thorns' \subseteq Balls(Dummy)'
  <2> HIDE DEF kind
  <2> QED BY <1>1, Born
<1>3. VisionSafe' /\ UNCHANGED <<viewPort, player>> /\ \A p \in Ball \ {o} : visionblocks'[p] = visionblocks[p]
  <2>1. CASE Spits(b)
    <3>1. PICK area \in Areas : Enter(o, area)
      BY <2>1 DEF spit
    <3>2. UNCHANGED <<viewPort, player>> /\ \A p \in Ball \ {o} : visionblocks'[p] = visionblocks[p]
      BY <3>1 DEF Enter, Counts, VisionSafe, VisionTypeOK
    <3> QED BY <1>2, <3>1, <3>2, EnterKeeps, ArenaAssumption
  <2>2. CASE ~Spits(b)
    <3>1. UNCHANGED visionVars
      BY <2>2 DEF spit
    <3> QED BY <3>1 DEF visionVars, seen, VisionSafe, VisionTypeOK, BlocksAgree, RefsCounted,
                        Common, ClientKnows
  <2> QED BY <2>1, <2>2
<1>4. SeenIsOwned'
  BY <1>2, <1>3, ArenaAssumption DEF OwnersOK, SeenIsOwned, Somebody
<1>5. BallsBounded'
  <2> SUFFICES ASSUME NEW v \in Player PROVE ballCount(v)' <= MaxBalls
    BY DEF BallsBounded
  <2>1. /\ ballCount(v) <= MaxBalls /\ ballCount(v) \in Nat
        /\ ballCount(v)' = IF v = w THEN ballCount(v) + 1 ELSE ballCount(v)
    BY <1>2, CountIs DEF OwnersOK, BallsBounded, Somebody
  <2>2. MaxBalls \in Nat /\ v # Dummy
    BY ArenaAssumption
  <2> QED BY <2>1, <2>2
<1>6. thorns' = thorns /\ UNCHANGED <<needThorn, stop>>
  BY <1>1 DEF New, spit
<1>7. needThorn' \cup moving' \subseteq {p \in Ball : owner'[p] \in Player}
  <2>1. needThorn' \cup moving' \subseteq needThorn \cup moving \cup {o}
    BY DEF spit
  <2>2. o \in moving' => w # Dummy \/ o \in moving
    BY DEF spit
  <2>3. o \notin needThorn \cup moving
    BY <1>2, ArenaAssumption DEF OwnersOK
  <2> QED BY <1>2, <1>6, <2>1, <2>2, <2>3 DEF OwnersOK, Somebody
<1> QED BY <1>2, <1>3, <1>4, <1>5, <1>6, <1>7 DEF OwnersOK

LEMMA VisionStays ==
  ASSUME UNCHANGED visionVars PROVE VisionSafe <=> VisionSafe'
BY DEF visionVars, seen, VisionSafe, VisionTypeOK, BlocksAgree, RefsCounted, Common, ClientKnows

(* No ball comes, goes or enters another block. *)
LEMMA Still ==
  ASSUME VisionSafe, OwnersOK, UNCHANGED <<visionVars, owner, thorns>>,
         needThorn' \cup moving' \subseteq {o \in Ball : owner[o] \in Player}
  PROVE  /\ VisionSafe' /\ OwnersOK'
         /\ \A w : Balls(w)' = Balls(w) /\ ballCount(w)' = ballCount(w)
         /\ UNCHANGED <<viewPort, player, client, visionblocks>>
         /\ \A u : Visible(u)' = Visible(u)
<1>1. VisionSafe'
  BY VisionStays
<1>2. \A w : Balls(w)' = Balls(w) /\ ballCount(w)' = ballCount(w)
  BY DEF Balls, ballCount
<1>3. UNCHANGED <<viewPort, player, client, visionblocks>>
  BY DEF visionVars, seen
<1>4. OwnersOK'
  BY <1>2, <1>3 DEF OwnersOK, SeenIsOwned, BallsBounded
<1>5. \A u : Visible(u)' = Visible(u)
  BY <1>3 DEF Visible, Common
<1> QED BY <1>1, <1>2, <1>3, <1>4, <1>5

LEMMA IdleIs ==
  ASSUME Idle
  PROVE  RunOK' /\ ClientSees'
BY ArenaAssumption DEF Idle, RunOK, ClientSees, Goto, OnBalls, AtThorn

-----------------------------------------------------------------------------
(* Every action keeps the invariant: first the messages. *)

LEMMA EnterRoomKeeps ==
  ASSUME ArenaInv, NEW u \in User, EnterRoom(u)
  PROVE  ArenaInv'
<1>1. u \notin player /\ u \notin entered /\ EnterVision(u) /\ viewPort[u] = {}
  BY DEF EnterRoom, ArenaInv, RoomOK
<1>2. VisionSafe'
  BY <1>1, EnterVisionKeeps DEF ArenaInv
<1>3. /\ player' = player \cup {u} /\ entered' = entered \cup {u} /\ visionblocks' = visionblocks
      /\ \A v \in User \ {u} : viewPort'[v] = viewPort[v]
      /\ UNCHANGED <<game, ticking, sync, ball, todo, waiting, left, prey>>
      /\ IF ballCount(u) = 0 THEN pc' = "entering" /\ who' = u ELSE UNCHANGED <<pc, who>>
      /\ pc = "messages"
  BY <1>1 DEF EnterRoom, EnterVision, Goto, ArenaInv, VisionSafe, VisionTypeOK
<1>4. \A w : Balls(w)' = Balls(w) /\ ballCount(w)' = ballCount(w)
  BY <1>3 DEF Balls, ballCount, game
<1>5. OwnersOK'
  BY <1>3, <1>4 DEF ArenaInv, OwnersOK, SeenIsOwned, BallsBounded, game, flags
<1>6. RoomOK'
  BY <1>3 DEF ArenaInv, RoomOK, ClientSees, game, flags
<1>7. RunOK'
  <2>1. todo = {}
    BY <1>3 DEF ArenaInv, RunOK, OnBalls, AtThorn
  <2>2. thorns' = thorns
    BY <1>3 DEF game, flags
  <2> QED BY <1>3, <1>4, <2>1, <2>2 DEF ArenaInv, RunOK, OnBalls, AtThorn, Player
<1> QED BY <1>2, <1>5, <1>6, <1>7 DEF ArenaInv

LEMMA EnterRelivesKeeps ==
  ASSUME ArenaInv, NEW o \in Ball, EnterRelives(o)
  PROVE  ArenaInv'
<1>1. who \in Player /\ ballCount(who) = 0 /\ Relive(who, o)
  BY DEF EnterRelives, ArenaInv, RunOK, Player
<1>2. /\ VisionSafe' /\ SeenIsOwned' /\ BallsBounded'
      /\ owner' \in [Ball -> Player \cup {Dummy, None}]
      /\ \A p \in Ball \ {o} : owner'[p] = owner[p]
      /\ owner[o] = None
      /\ thorns' \subseteq Balls(Dummy)' /\ thorns' = thorns
      /\ UNCHANGED <<viewPort, player>>
  BY <1>1, Relived DEF ArenaInv
<1>3. RunOK' /\ ClientSees'
  BY IdleIs DEF EnterRelives
<1>4. OwnersOK'
  BY <1>2, ArenaAssumption DEF EnterRelives, ArenaInv, OwnersOK
<1>5. RoomOK'
  BY <1>2, <1>3 DEF EnterRelives, ArenaInv, RoomOK, room
<1> QED BY <1>2, <1>3, <1>4, <1>5 DEF ArenaInv

LEMMA DisconnectKeeps ==
  ASSUME ArenaInv, NEW u \in User, Disconnect(u)
  PROVE  ArenaInv'
<1>1. VisionSafe'
  BY PlayerLostKeeps DEF Disconnect, ArenaInv
<1>2. /\ player' \subseteq player /\ UNCHANGED <<visionblocks, viewPort, game, room, run>>
      /\ pc = "messages"
  BY DEF Disconnect, PlayerLost
<1>3. \A w : Balls(w)' = Balls(w) /\ ballCount(w)' = ballCount(w)
  BY <1>2 DEF Balls, ballCount, game
<1>4. OwnersOK'
  BY <1>2, <1>3 DEF ArenaInv, OwnersOK, SeenIsOwned, BallsBounded, game, flags
<1>5. RoomOK'
  BY <1>2 DEF ArenaInv, RoomOK, ClientSees, game, flags, room, run
<1>6. RunOK'
  BY <1>2, <1>3 DEF ArenaInv, RunOK, game, flags, room, run
<1> QED BY <1>1, <1>4, <1>5, <1>6 DEF ArenaInv

LEMMA MoveKeeps ==
  ASSUME ArenaInv, NEW u \in User, Move(u) \/ Stop(u)
  PROVE  ArenaInv'
<1>1. /\ UNCHANGED <<visionVars, owner, thorns, needThorn, room, run>> /\ pc = "messages"
      /\ stop' \in [Player -> BOOLEAN]
      /\ moving' \subseteq moving \cup Balls(u)
  BY DEF Move, Stop, Direct, ArenaInv, RoomOK, Player
<1>2. needThorn' \cup moving' \subseteq {o \in Ball : owner[o] \in Player}
  BY <1>1 DEF ArenaInv, OwnersOK, Balls, Player
<1>3. /\ VisionSafe' /\ OwnersOK'
      /\ \A w : Balls(w)' = Balls(w) /\ ballCount(w)' = ballCount(w)
      /\ UNCHANGED <<viewPort, player>>
  BY <1>1, <1>2, Still DEF ArenaInv
<1>4. RoomOK'
  BY <1>1, <1>3 DEF ArenaInv, RoomOK, ClientSees, room, run
<1>5. RunOK'
  BY <1>1, <1>3 DEF ArenaInv, RunOK, room, run
<1> QED BY <1>1, <1>3, <1>4, <1>5 DEF ArenaInv

LEMMA RequestKeeps ==
  ASSUME ArenaInv, NEW u \in User, Request(u)
  PROVE  ArenaInv'
<1>1. /\ UNCHANGED <<visionVars, game, room, ball, waiting, left, prey>>
      /\ pc = "messages" /\ pc' \in {"spit", "split"} /\ who' = u /\ todo' = Balls(u)
  BY DEF Request
<1>2. needThorn' \cup moving' \subseteq {o \in Ball : owner[o] \in Player}
  BY <1>1 DEF ArenaInv, OwnersOK, game, flags
<1>3. /\ VisionSafe' /\ OwnersOK'
      /\ \A w : Balls(w)' = Balls(w) /\ ballCount(w)' = ballCount(w)
      /\ UNCHANGED <<viewPort, player, thorns, stop>>
  BY <1>1, <1>2, Still DEF ArenaInv, game, flags
<1>4. RoomOK'
  BY <1>1, <1>3 DEF ArenaInv, RoomOK, ClientSees, room
<1>5. RunOK'
  BY <1>1, <1>3 DEF ArenaInv, RunOK, OnBalls, AtThorn, Player
<1> QED BY <1>1, <1>3, <1>4, <1>5 DEF ArenaInv

LEMMA SpitOrSplitKeeps ==
  ASSUME ArenaInv, NEW b \in Ball, NEW o \in Ball, SpitOrSplit(b, o)
  PROVE  ArenaInv'
<1> DEFINE w == IF pc = "split" THEN who ELSE Dummy
<1>1. /\ who \in User /\ w \in Somebody /\ pc \in {"spit", "split"}
      /\ w # Dummy => ballCount(w) < MaxBalls
      /\ spit(b, o, w) /\ UNCHANGED room
  BY DEF SpitOrSplit, ArenaInv, RunOK, Somebody, Player
<1>2. /\ VisionSafe' /\ OwnersOK'
      /\ \A v \in Somebody : Balls(v) \subseteq Balls(v)'
      /\ thorns' = thorns
      /\ UNCHANGED <<viewPort, player, needThorn, stop>>
  <2> HIDE DEF w
  <2> QED BY <1>1, Spat DEF ArenaInv
<1>3. RunOK' /\ (pc' # "notify" \/ ClientSees')
  <2>1. CASE Spits(b)
    <3>1. todo' = todo \ {b} /\ UNCHANGED <<pc, who, ball, waiting, left, prey>>
      BY <2>1 DEF SpitOrSplit
    <3>2. Balls(who) \subseteq Balls(who)'
      BY <1>1, <1>2, <3>1 DEF Somebody, Player
    <3> QED BY <1>1, <1>2, <3>1, <3>2 DEF ArenaInv, RunOK, OnBalls, AtThorn
  <2>2. CASE ~Spits(b)
    BY <2>2, IdleIs DEF SpitOrSplit
  <2> QED BY <2>1, <2>2
<1>4. RoomOK'
  BY <1>1, <1>2, <1>3 DEF ArenaInv, RoomOK, ClientSees, room
<1> QED BY <1>2, <1>3, <1>4 DEF ArenaInv

LEMMA RequestedKeeps ==
  ASSUME ArenaInv, Requested
  PROVE  ArenaInv'
<1>1. who \in User
  BY DEF Requested, ArenaInv, RunOK
<1>2. needThorn' \cup moving' \subseteq {p \in Ball : owner[p] \in Player}
  BY <1>1 DEF Requested, UpdateBallMovement, ArenaInv, OwnersOK, Balls, Player
<1>3. VisionSafe' /\ OwnersOK' /\ UNCHANGED <<viewPort, player>>
  BY <1>2, Still DEF Requested, ArenaInv
<1>4. RunOK' /\ ClientSees'
  BY IdleIs DEF Requested
<1>5. RoomOK'
  BY <1>3, <1>4 DEF Requested, ArenaInv, RoomOK, room
<1> QED BY <1>3, <1>4, <1>5 DEF ArenaInv

-----------------------------------------------------------------------------
(* The tick. *)

LEMMA TickFailsKeeps ==
  ASSUME ArenaInv, TickFails, UNCHANGED <<stop, player, viewPort>>
  PROVE  RoomOK' /\ RunOK'
<1>1. RunOK' /\ ClientSees'
  BY IdleIs DEF TickFails
<1>2. RoomOK'
  BY <1>1 DEF TickFails, ArenaInv, RoomOK
<1> QED BY <1>1, <1>2

LEMMA BeginTickKeeps ==
  ASSUME ArenaInv, GameTick
  PROVE  ArenaInv'
<1>1. needThorn' \cup moving' \subseteq {p \in Ball : owner[p] \in Player}
  BY DEF GameTick, ArenaInv, OwnersOK, game, flags
<1>2. VisionSafe' /\ OwnersOK' /\ UNCHANGED <<viewPort, player, thorns, stop>>
  BY <1>1, Still DEF GameTick, ArenaInv, game, flags
<1>3. RoomOK'
  BY <1>2 DEF GameTick, Goto, ArenaInv, RoomOK, ClientSees
<1>4. RunOK'
  BY <1>2 DEF GameTick, Goto, ArenaInv, RunOK, OnBalls, AtThorn
<1> QED BY <1>2, <1>3, <1>4 DEF ArenaInv, GameTick

LEMMA FollowKeeps ==
  ASSUME ArenaInv, Follow
  PROVE  ArenaInv'
<1>0. PICK done \in SUBSET {o \in Balls(who) : visionblocks[o] # {}} :
        \E new \in [done -> Areas] :
          UpdateVisionObj([o \in Ball |-> IF o \in done THEN new[o] ELSE visionblocks[o]])
  BY DEF Follow
<1>1. PICK new \in [done -> Areas] :
        UpdateVisionObj([o \in Ball |-> IF o \in done THEN new[o] ELSE visionblocks[o]])
  BY <1>0
<1> DEFINE areas == [o \in Ball |-> IF o \in done THEN new[o] ELSE visionblocks[o]]
<1>2. areas \in [Ball -> SUBSET Block]
  BY ArenaAssumption DEF ArenaInv, VisionSafe, VisionTypeOK
<1>3. VisionSafe' /\ visionblocks' = areas /\ UNCHANGED <<viewPort, player, client>>
  <2>1. UpdateVisionObj(areas)
    BY <1>1
  <2> HIDE DEF areas
  <2>2. VisionSafe'
    BY <1>2, <2>1, UpdateKeeps DEF ArenaInv
  <2> QED BY <2>1, <2>2 DEF UpdateVisionObj, Counts
<1>4. UNCHANGED game /\ pc = "follow"
  BY DEF Follow
<1>5. \A w : Balls(w)' = Balls(w) /\ ballCount(w)' = ballCount(w)
  BY <1>4 DEF Balls, ballCount, game
<1>6. SeenIsOwned'
  BY <1>3, <1>4 DEF ArenaInv, OwnersOK, SeenIsOwned, game, Balls
<1>7. OwnersOK'
  BY <1>4, <1>5, <1>6 DEF ArenaInv, OwnersOK, BallsBounded, game, flags
<1>8. RoomOK' /\ RunOK'
  <2>1. CASE TickFails
    BY <1>3, <1>4, <2>1, TickFailsKeeps DEF game, flags
  <2>2. CASE /\ Goto(IF who = Dummy THEN "robots" ELSE "users") /\ who' = None
             /\ UNCHANGED <<room, ball, todo, waiting, left, prey>>
    <3>1. RoomOK'
      BY <1>3, <1>4, <2>2 DEF Goto, ArenaInv, RoomOK, ClientSees, room, game, flags
    <3>2. todo = {} /\ UNCHANGED thorns
      BY <1>4 DEF ArenaInv, RunOK, OnBalls, AtThorn, game, flags
    <3>3. RunOK'
      BY <2>2, <3>2 DEF Goto, ArenaInv, RunOK, OnBalls, AtThorn
    <3> QED BY <3>1, <3>3
  <2> QED BY <2>1, <2>2 DEF Follow
<1> QED BY <1>3, <1>7, <1>8 DEF ArenaInv

LEMMA RobotsMoveKeeps ==
  ASSUME ArenaInv, RobotsMove
  PROVE  ArenaInv'
<1>1. needThorn' \cup moving' \subseteq {p \in Ball : owner[p] \in Player}
  BY DEF RobotsMove, ArenaInv, OwnersOK, Balls, Player
<1>2. /\ VisionSafe' /\ OwnersOK' /\ UNCHANGED <<viewPort, player, thorns>>
      /\ \A w : Balls(w)' = Balls(w)
  BY <1>1, Still DEF RobotsMove, ArenaInv
<1>3. stop' \in [Player -> BOOLEAN]
  BY DEF RobotsMove, ArenaInv, RoomOK
<1>4. RoomOK'
  BY <1>2, <1>3 DEF RobotsMove, Goto, ArenaInv, RoomOK, ClientSees, room
<1>5. RunOK'
  BY <1>2 DEF RobotsMove, Goto, ArenaInv, RunOK, RoomOK, OnBalls, AtThorn, Player
<1> QED BY <1>2, <1>4, <1>5 DEF ArenaInv, RobotsMove

LEMMA UpdatePlayerKeeps ==
  ASSUME ArenaInv, NEW w \in Player, UpdatePlayer(w)
  PROVE  ArenaInv'
<1>1. /\ waiting' \subseteq Player /\ who' = w /\ pc' = "balls" /\ pc = "users" /\ todo = {}
      /\ UNCHANGED <<needThorn, stop, room, ball, left, prey>>
  BY DEF UpdatePlayer, Goto, ArenaInv, RunOK, OnBalls, AtThorn
<1>2. /\ VisionSafe' /\ OwnersOK' /\ thorns' = thorns /\ UNCHANGED <<viewPort, player>>
      /\ todo' = Balls(w)'
  <2>1. CASE ballCount(w) = 0
    <3>1. PICK o \in Ball : /\ Relive(w, o) /\ todo' = {o}
                            /\ moving' = IF stop[w] THEN moving ELSE moving \cup {o}
      BY <2>1 DEF UpdatePlayer
    <3>2. /\ VisionSafe' /\ SeenIsOwned' /\ BallsBounded'
          /\ owner' \in [Ball -> Player \cup {Dummy, None}]
          /\ owner'[o] = w /\ \A p \in Ball \ {o} : owner'[p] = owner[p]
          /\ owner[o] = None /\ Balls(w)' = {o}
          /\ thorns' \subseteq Balls(Dummy)' /\ thorns' = thorns
          /\ UNCHANGED <<viewPort, player>>
      BY <2>1, <3>1, Relived DEF ArenaInv
    <3>3. OwnersOK'
      BY <1>1, <3>1, <3>2, ArenaAssumption DEF ArenaInv, OwnersOK
    <3> QED BY <3>1, <3>2, <3>3
  <2>2. CASE ballCount(w) # 0
    <3>1. /\ UNCHANGED <<visionVars, owner, thorns>> /\ todo' = Balls(w)
          /\ moving' \subseteq moving \cup Balls(w)
      BY <2>2 DEF UpdatePlayer
    <3>2. needThorn' \cup moving' \subseteq {p \in Ball : owner[p] \in Player}
      BY <1>1, <3>1 DEF ArenaInv, OwnersOK, Balls
    <3>3. /\ VisionSafe' /\ OwnersOK' /\ UNCHANGED <<viewPort, player>>
          /\ \A v : Balls(v)' = Balls(v)
      BY <3>1, <3>2, Still DEF ArenaInv
    <3> QED BY <3>1, <3>3
  <2> QED BY <2>1, <2>2
<1>3. RoomOK'
  BY <1>1, <1>2 DEF ArenaInv, RoomOK, ClientSees, room
<1>4. RunOK'
  BY <1>1, <1>2 DEF ArenaInv, RunOK, OnBalls, AtThorn
<1> QED BY <1>2, <1>3, <1>4 DEF ArenaInv

LEMMA RestsKeeps ==
  ASSUME ArenaInv, NEW b \in Ball, Rests(b)
  PROVE  ArenaInv'
<1>1. needThorn' \cup moving' \subseteq {p \in Ball : owner[p] \in Player}
  BY DEF Rests, ArenaInv, OwnersOK
<1>2. /\ VisionSafe' /\ OwnersOK' /\ UNCHANGED <<viewPort, player, thorns>>
      /\ \A w : Balls(w)' = Balls(w)
  BY <1>1, Still DEF Rests, ArenaInv
<1>3. RoomOK'
  BY <1>2 DEF Rests, Goto, ArenaInv, RoomOK, ClientSees, room
<1>4. RunOK'
  BY <1>2 DEF Rests, Goto, ArenaInv, RunOK, OnBalls, AtThorn
<1> QED BY <1>2, <1>3, <1>4 DEF ArenaInv

LEMMA TravelsKeeps ==
  ASSUME ArenaInv, NEW b \in Ball, Travels(b)
  PROVE  ArenaInv'
<1>1. needThorn' \cup moving' \subseteq {p \in Ball : owner[p] \in Player}
  BY DEF Travels, ArenaInv, OwnersOK
<1>2. /\ VisionSafe' /\ OwnersOK' /\ UNCHANGED <<viewPort, player, thorns, stop>>
      /\ \A w : Balls(w)' = Balls(w) /\ ballCount(w)' = ballCount(w)
  BY <1>1, Still DEF Travels, ArenaInv
<1>3. RoomOK'
  BY <1>2 DEF Travels, Goto, ArenaInv, RoomOK, ClientSees, room
<1>4. who \in Player /\ b \in Balls(who) /\ ballCount(who) \in Nat /\ ballCount(who) <= MaxBalls
  BY CountIs DEF Travels, ArenaInv, RunOK, OnBalls, AtThorn, OwnersOK, BallsBounded
<1>5. /\ left' \in 0 .. MaxThornBalls
      /\ pc' = IF left' > 0 THEN "thorn" ELSE "collide"
      /\ left' > 0 => ballCount(who) + left' <= MaxBalls
  <2>1. left' = 0 \/ left' \in 1 .. Pieces(who)
    BY DEF Travels
  <2>2. pc' = IF left' > 0 THEN "thorn" ELSE "collide"
    BY DEF Travels, Goto
  <2>3. Pieces(who) \in Int /\ Pieces(who) < MaxThornBalls /\ ballCount(who) + Pieces(who) < MaxBalls
    BY <1>4, ArenaAssumption DEF Pieces
  <2>4. MaxThornBalls \in Nat /\ MaxBalls \in Nat
    BY ArenaAssumption
  <2> QED BY <1>4, <2>1, <2>2, <2>3, <2>4
<1>6. /\ ball' = b /\ todo' = todo \ {b} /\ UNCHANGED <<who, waiting, prey>>
      /\ pc = "balls" /\ pc' \in {"thorn", "collide"}
  BY <1>5 DEF Travels
<1>7. RunOK'
  <2>1. pc' = "thorn" => (left' >= 1 /\ ballCount(who') + left' <= MaxBalls)
    BY <1>5, <1>6, ArenaAssumption
  <2>2. ballCount(who)' = ballCount(who')
    BY <1>2, <1>6
  <2>3. who' \in Player /\ ball' \in Balls(who)' /\ todo' \subseteq Balls(who)'
    BY <1>2, <1>4, <1>6 DEF ArenaInv, RunOK, OnBalls, AtThorn
  <2>4. waiting' \subseteq Player /\ prey' \in thorns' \cup {None}
    BY <1>2, <1>6 DEF ArenaInv, RunOK
  <2>5. pc' = "thorn" => (left' >= 1 /\ ballCount(who)' + left' <= MaxBalls)
    BY ONLY <2>1, <2>2
  <2> QED BY <1>5, <1>6, <2>3, <2>4, <2>5 DEF RunOK, OnBalls, AtThorn
<1> QED BY <1>2, <1>3, <1>7 DEF ArenaInv

LEMMA ProcessThornKeeps ==
  ASSUME ArenaInv, NEW o \in Ball, ProcessThorn(o)
  PROVE  ArenaInv'
<1>1. /\ pc = "thorn" /\ who \in Player /\ who \in Somebody /\ ball \in Balls(who) /\ ball \in Ball
      /\ left \in 0 .. MaxThornBalls /\ left >= 1 /\ ballCount(who) + left <= MaxBalls
      /\ ballCount(who) \in Nat /\ MaxBalls \in Nat /\ MaxThornBalls \in Nat
  BY CountIs, ArenaAssumption
     DEF ProcessThorn, ArenaInv, RunOK, OnBalls, AtThorn, Somebody, Balls
<1>2. spit(ball, o, who) /\ ballCount(who) < MaxBalls
  BY <1>1 DEF ProcessThorn
<1>3. /\ VisionSafe' /\ OwnersOK'
      /\ \A v \in Somebody : /\ Balls(v)' = IF v = who THEN Balls(v) \cup {o} ELSE Balls(v)
                             /\ ballCount(v)' = IF v = who THEN ballCount(v) + 1 ELSE ballCount(v)
      /\ thorns' = thorns
      /\ UNCHANGED <<viewPort, player, needThorn, stop>>
  BY <1>1, <1>2, Spat DEF ArenaInv
<1>4. CASE ~Spits(ball)
  <2>1. RoomOK' /\ RunOK'
    BY <1>3, <1>4, TickFailsKeeps DEF ProcessThorn
  <2> QED BY <1>3, <2>1 DEF ArenaInv
<1>5. CASE Spits(ball)
  <2>1. /\ todo' \subseteq Balls(who) \cup {o} /\ left' = left - 1
        /\ pc' = IF left = 1 THEN "collide" ELSE "thorn"
        /\ UNCHANGED <<who, ball, waiting, prey, room>>
    BY <1>5 DEF ProcessThorn, Goto
  <2>2. RoomOK'
    BY <1>3, <2>1 DEF ArenaInv, RoomOK, ClientSees, room
  <2>3. Balls(who)' = Balls(who) \cup {o} /\ ballCount(who)' = ballCount(who) + 1
    BY <1>1, <1>3, <2>1
  <2>4. pc' = "thorn" => (left' >= 1 /\ ballCount(who)' + left' <= MaxBalls)
    BY <1>1, <2>1, <2>3
  <2>5. who' \in Player /\ ball' \in Balls(who)' /\ todo' \subseteq Balls(who)'
    BY <1>1, <2>1, <2>3
  <2>6. left' \in 0 .. MaxThornBalls /\ waiting' \subseteq Player /\ prey' \in thorns' \cup {None}
    BY <1>1, <1>3, <2>1 DEF ArenaInv, RunOK
  <2>7. ball' \in Ball /\ pc' \in {"thorn", "collide"}
    BY <1>1, <2>1
  <2>8. RunOK'
    BY <2>4, <2>5, <2>6, <2>7 DEF RunOK, OnBalls, AtThorn
  <2> QED BY <1>3, <2>2, <2>8 DEF ArenaInv
<1> QED BY <1>4, <1>5

LEMMA ReplaceThornKeeps ==
  ASSUME ArenaInv, NEW o \in Ball, NEW t \in Ball, ReplaceThorn(o, t)
  PROVE  ArenaInv'
<1>1. /\ New(t, Dummy, "thorn") /\ Dummy \in Somebody /\ pc = "collide" /\ o \in thorns
      /\ UNCHANGED <<needThorn, moving, stop, room, who, ball, todo, waiting, left>>
      /\ pc' = "eat thorn" /\ prey' = o
  BY DEF ReplaceThorn, Goto, Somebody
<1>2. PICK area \in Areas : Enter(t, area)
  BY DEF ReplaceThorn
<1>3. /\ owner[t] = None /\ visionblocks[t] = {}
      /\ owner' \in [Ball -> Player \cup {Dummy, None}]
      /\ owner'[t] = Dummy /\ \A p \in Ball \ {t} : owner'[p] = owner[p]
      /\ \A v \in Somebody :
           /\ Balls(v)' = IF v = Dummy THEN Balls(v) \cup {t} ELSE Balls(v)
           /\ ballCount(v)' = IF v = Dummy THEN ballCount(v) + 1 ELSE ballCount(v)
      /\ thorns' \subseteq Balls(Dummy)' /\ thorns \subseteq thorns'
  BY <1>1, Born DEF ArenaInv
<1>4. VisionSafe'
  BY <1>2, <1>3, EnterKeeps, ArenaAssumption DEF ArenaInv
<1>5. /\ UNCHANGED <<viewPort, player>>
      /\ \A p \in Ball \ {t} : visionblocks'[p] = visionblocks[p]
  BY <1>2 DEF Enter, Counts, ArenaInv, VisionSafe, VisionTypeOK
<1>6. OwnersOK'
  <2>1. SeenIsOwned'
    BY <1>3, <1>5, ArenaAssumption DEF ArenaInv, OwnersOK, SeenIsOwned
  <2>2. BallsBounded'
    BY <1>3, ArenaAssumption DEF ArenaInv, OwnersOK, BallsBounded, Somebody
  <2>3. needThorn' \cup moving' \subseteq {p \in Ball : owner'[p] \in Player}
    BY <1>1, <1>3, ArenaAssumption DEF ArenaInv, OwnersOK
  <2> QED BY <1>3, <2>1, <2>2, <2>3 DEF OwnersOK
<1>7. RoomOK'
  BY <1>1, <1>5 DEF ArenaInv, RoomOK, ClientSees, room
<1>8. who \in Player /\ Balls(who)' = Balls(who)
  BY <1>1, <1>3, ArenaAssumption DEF ArenaInv, RunOK, OnBalls, AtThorn, Somebody
<1>9. RunOK'
  BY <1>1, <1>3, <1>8 DEF ArenaInv, RunOK, OnBalls, AtThorn
<1> QED BY <1>4, <1>6, <1>7, <1>9 DEF ArenaInv

LEMMA EatThornKeeps ==
  ASSUME ArenaInv, EatThorn
  PROVE  ArenaInv'
<1>1. /\ pc = "eat thorn" /\ prey \in thorns /\ prey \in Ball /\ owner[prey] = Dummy
      /\ who \in Player /\ who \in Somebody /\ ball \in Balls(who) /\ OnDead(prey)
      /\ who # Dummy
  BY ArenaAssumption
     DEF EatThorn, ArenaInv, RunOK, OnBalls, AtThorn, OwnersOK, Balls, Somebody
<1>2. /\ VisionSafe'
      /\ owner' \in [Ball -> Player \cup {Dummy, None}] /\ SeenIsOwned' /\ BallsBounded'
      /\ \A p \in Ball \ {prey} : owner'[p] = owner[p]
      /\ \A v \in Somebody : Balls(v)' = Balls(v) \ {prey} /\ ballCount(v)' <= ballCount(v)
      /\ thorns' \subseteq Balls(Dummy)' /\ thorns' = thorns \ {prey} /\ moving' = moving \ {prey}
      /\ UNCHANGED <<viewPort, player>>
  BY <1>1, Died DEF ArenaInv
<1>3. /\ needThorn' \subseteq needThorn \cup {ball} /\ pc' = "collide" /\ prey' = None
      /\ UNCHANGED <<stop, room, who, ball, todo, waiting, left>>
  BY DEF EatThorn, Goto
<1>4. needThorn' \cup moving' \subseteq {p \in Ball : owner'[p] \in Player}
  <2> SUFFICES ASSUME NEW p \in needThorn' \cup moving'
               PROVE  p \in Ball /\ owner'[p] \in Player
    OBVIOUS
  <2>1. \A q \in needThorn \cup moving : q \in Ball /\ owner[q] \in Player
    BY DEF ArenaInv, OwnersOK
  <2>2. ball \in Ball /\ owner[ball] \in Player
    BY <1>1 DEF Balls
  <2>3. p \in needThorn \cup moving \cup {ball}
    BY <1>2, <1>3
  <2>4. p \in Ball /\ owner[p] \in Player
    BY ONLY <2>1, <2>2, <2>3
  <2>5. p # prey
    BY <2>4, <1>1, ArenaAssumption
  <2> QED BY <2>4, <2>5, <1>2
<1>5. OwnersOK'
  BY <1>2, <1>4 DEF OwnersOK
<1>6. RoomOK'
  BY <1>2, <1>3 DEF ArenaInv, RoomOK, ClientSees, room
<1>7. Balls(who)' = Balls(who)
  <2>1. prey \notin Balls(who)
    BY <1>1 DEF Balls
  <2> QED BY <1>1, <1>2, <1>3, <2>1
<1>8. RunOK'
  BY <1>1, <1>3, <1>7 DEF ArenaInv, RunOK, OnBalls, AtThorn
<1> QED BY <1>2, <1>5, <1>6, <1>8 DEF ArenaInv

LEMMA EatKeeps ==
  ASSUME ArenaInv, NEW o \in Ball, Eat(o)
  PROVE  ArenaInv'
<1>1. /\ pc = "collide" /\ o # ball /\ o \notin thorns /\ OnDead(o)
      /\ who \in Player /\ who \in Somebody /\ ball \in Balls(who)
      /\ needThorn' = needThorn \ {o} /\ todo' = todo \ {o}
      /\ UNCHANGED <<stop, room, pc, who, ball, waiting, left, prey>>
  BY DEF Eat, ArenaInv, RunOK, OnBalls, AtThorn, Somebody
<1>2. /\ VisionSafe'
      /\ owner' \in [Ball -> Player \cup {Dummy, None}] /\ SeenIsOwned' /\ BallsBounded'
      /\ \A p \in Ball \ {o} : owner'[p] = owner[p]
      /\ \A v \in Somebody : Balls(v)' = Balls(v) \ {o} /\ ballCount(v)' <= ballCount(v)
      /\ thorns' \subseteq Balls(Dummy)' /\ thorns' = thorns \ {o} /\ moving' = moving \ {o}
      /\ UNCHANGED <<viewPort, player>>
  BY <1>1, Died DEF ArenaInv
<1>3. needThorn' \cup moving' \subseteq {p \in Ball : owner'[p] \in Player}
  BY <1>1, <1>2 DEF ArenaInv, OwnersOK
<1>4. OwnersOK'
  BY <1>2, <1>3 DEF OwnersOK
<1>5. RoomOK'
  BY <1>1, <1>2 DEF ArenaInv, RoomOK, ClientSees, room
<1>6. Balls(who)' = Balls(who) \ {o} /\ thorns' = thorns
  BY <1>1, <1>2
<1>7. RunOK'
  BY <1>1, <1>6 DEF ArenaInv, RunOK, OnBalls, AtThorn
<1> QED BY <1>2, <1>4, <1>5, <1>7 DEF ArenaInv

LEMMA CollidedKeeps ==
  ASSUME ArenaInv, Collided
  PROVE  ArenaInv'
<1>1. needThorn' \cup moving' \subseteq {p \in Ball : owner[p] \in Player}
  BY DEF Collided, ArenaInv, OwnersOK, game, flags
<1>2. /\ VisionSafe' /\ OwnersOK' /\ UNCHANGED <<viewPort, player, thorns, stop>>
      /\ \A w : Balls(w)' = Balls(w)
  BY <1>1, Still DEF Collided, ArenaInv, game, flags
<1>3. RoomOK'
  BY <1>2 DEF Collided, Goto, ArenaInv, RoomOK, ClientSees, room
<1>4. RunOK'
  BY <1>2 DEF Collided, Goto, ArenaInv, RunOK, OnBalls, AtThorn
<1> QED BY <1>2, <1>3, <1>4 DEF ArenaInv

LEMMA LookKeeps ==
  ASSUME ArenaInv, Look
  PROVE  ArenaInv'
<1>1. /\ UNCHANGED <<game, room, who, ball, todo, waiting, left, prey>>
      /\ pc = "balls" /\ pc' = "follow" /\ todo = {}
  BY DEF Look, Goto
<1>2. VisionSafe' /\ UNCHANGED <<visionblocks, player>> /\ \A u \in User \ player : viewPort'[u] = viewPort[u]
  <2>1. CASE who \in player
    <3>1. PICK port \in Ports : UpdateUserVision(who, port)
      BY <2>1 DEF Look
    <3>2. who \in User /\ port \in SUBSET Block
      BY <2>1, ArenaAssumption DEF ArenaInv, VisionSafe, VisionTypeOK
    <3>3. VisionSafe'
      BY <2>1, <3>1, <3>2, UserVisionKeeps DEF ArenaInv
    <3> QED BY <2>1, <3>1, <3>2, <3>3 DEF UpdateUserVision, ArenaInv, VisionSafe, VisionTypeOK
  <2>2. CASE who \notin player
    <3>1. UNCHANGED visionVars
      BY <2>2 DEF Look
    <3> QED BY <3>1, VisionStays DEF ArenaInv, visionVars, seen
  <2> QED BY <2>1, <2>2
<1>3. \A w : Balls(w)' = Balls(w) /\ ballCount(w)' = ballCount(w)
  BY <1>1 DEF Balls, ballCount, game
<1>4. OwnersOK'
  BY <1>1, <1>2, <1>3 DEF ArenaInv, OwnersOK, SeenIsOwned, BallsBounded, game, flags
<1>5. RoomOK'
  BY <1>1, <1>2 DEF ArenaInv, RoomOK, ClientSees, game, flags, room
<1>6. RunOK'
  BY <1>1, <1>3 DEF ArenaInv, RunOK, OnBalls, AtThorn, game, flags
<1> QED BY <1>2, <1>4, <1>5, <1>6 DEF ArenaInv

-----------------------------------------------------------------------------
(* The end of a tick. *)

LEMMA UpdatedKeeps ==
  ASSUME ArenaInv, Updated \/ Notified
  PROVE  ArenaInv'
<1>1. UNCHANGED <<visionVars, game, room>>
  BY DEF Updated, Notified
<1>2. needThorn' \cup moving' \subseteq {p \in Ball : owner[p] \in Player}
  BY <1>1 DEF ArenaInv, OwnersOK, game, flags
<1>3. /\ VisionSafe' /\ OwnersOK' /\ UNCHANGED <<viewPort, player, thorns, stop>>
      /\ \A w : Balls(w)' = Balls(w)
  BY <1>1, <1>2, Still DEF ArenaInv, game, flags
<1>4. CASE Idle
  <2>1. RunOK' /\ ClientSees'
    BY <1>4, IdleIs
  <2>2. RoomOK'
    BY <1>1, <1>3, <2>1 DEF ArenaInv, RoomOK, room
  <2> QED BY <1>3, <2>1, <2>2 DEF ArenaInv
<1>5. CASE /\ pc = "users" /\ pc' = "notify" /\ waiting' = entered
           /\ UNCHANGED <<who, ball, todo, left, prey>>
  <2>1. player' \ waiting' = {} /\ waiting' \subseteq Player
    BY <1>3, <1>5 DEF ArenaInv, RoomOK, Player
  <2>2. RoomOK'
    BY <1>1, <1>3, <2>1 DEF ArenaInv, RoomOK, ClientSees, room
  <2>3. RunOK'
    BY <1>3, <1>5, <2>1 DEF ArenaInv, RunOK, OnBalls, AtThorn
  <2> QED BY <1>3, <2>2, <2>3 DEF ArenaInv
<1> QED BY <1>4, <1>5 DEF Updated, Notified, Goto

LEMMA NotifyUserKeeps ==
  ASSUME ArenaInv, NEW u \in User, Notify(u)
  PROVE  ArenaInv'
<1>1. /\ UNCHANGED <<game, room, pc, who, ball, todo, left, prey>>
      /\ pc = "notify" /\ waiting' = waiting \ {u}
  BY DEF Notify
<1>2. /\ VisionSafe' /\ UNCHANGED <<visionblocks, viewPort, player>>
      /\ u \in player => client'[u] = Visible(u)'
      /\ \A v \in player \ {u} : client'[v] = client[v]
  <2>1. CASE u \in player
    <3>1. NotifyBalls2Client(u)
      BY <2>1 DEF Notify
    <3>2. VisionSafe' /\ client'[u] = Visible(u)'
      BY <2>1, <3>1, NotifyKeeps DEF ArenaInv
    <3> QED BY <3>1, <3>2 DEF NotifyBalls2Client, ArenaInv, VisionSafe, VisionTypeOK
  <2>2. CASE u \notin player
    <3>1. UNCHANGED visionVars
      BY <2>2 DEF Notify
    <3> QED BY <2>2, <3>1, VisionStays DEF ArenaInv, visionVars, seen
  <2> QED BY <2>1, <2>2
<1>3. \A w : Balls(w)' = Balls(w) /\ ballCount(w)' = ballCount(w)
  BY <1>1 DEF Balls, ballCount, game
<1>4. OwnersOK'
  BY <1>1, <1>2, <1>3 DEF ArenaInv, OwnersOK, SeenIsOwned, BallsBounded, game, flags
<1>5. ClientSees'
  <2> SUFFICES ASSUME NEW v \in player \ (waiting \ {u}) PROVE client'[v] = Visible(v)'
    BY <1>1, <1>2 DEF ClientSees
  <2>1. CASE v = u
    BY <1>2, <2>1
  <2>2. CASE v # u
    <3>1. client[v] = Visible(v)
      BY <1>1, <2>2 DEF ArenaInv, RoomOK, ClientSees
    <3>2. Visible(v)' = Visible(v)
      BY <1>2 DEF Visible, Common
    <3> QED BY <1>2, <2>2, <3>1, <3>2
  <2> QED BY <2>1, <2>2
<1>6. RoomOK'
  BY <1>1, <1>2, <1>5 DEF ArenaInv, RoomOK, game, flags, room
<1>7. RunOK'
  BY <1>1, <1>3 DEF ArenaInv, RunOK, OnBalls, AtThorn, game, flags
<1> QED BY <1>2, <1>4, <1>6, <1>7 DEF ArenaInv

-----------------------------------------------------------------------------
(* The theorems. *)

LEMMA InitHolds == ~ReEnter /\ ArenaInit => ArenaInv
<1> SUFFICES ASSUME ~ReEnter, ArenaInit PROVE ArenaInv
  OBVIOUS
<1>1. /\ owner \in [Ball -> Robot \cup {Dummy, None}] /\ visionblocks \in [Ball -> SUBSET Block]
      /\ \A o \in Ball : owner[o] = None <=> visionblocks[o] = {}
  BY ArenaAssumption DEF ArenaInit
<1>2. VisionSafe
  <2>1. VisionTypeOK
    BY <1>1, VisionAssumption DEF ArenaInit, VisionTypeOK, NothingSeen
  <2>2. BlocksAgree
    BY DEF ArenaInit, BlocksAgree
  <2>3. RefsCounted /\ ClientKnows
    BY DEF ArenaInit, RefsCounted, ClientKnows
  <2> QED BY <2>1, <2>2, <2>3 DEF VisionSafe
<1>3. OwnersOK
  <2>1. SeenIsOwned
    BY <1>1 DEF SeenIsOwned
  <2>2. ASSUME NEW w \in Player PROVE ballCount(w) <= MaxBalls
    <3>1. CASE w \in Robot
      BY <3>1, ArenaAssumption DEF ArenaInit
    <3>2. CASE w \in User
      <4>1. Balls(w) = {}
        BY <1>1, <3>2, ArenaAssumption DEF Balls, Player
      <4> QED BY <4>1, CountIs, ArenaAssumption
    <3> QED BY <3>1, <3>2 DEF Player
  <2>3. thorns \subseteq Balls(Dummy) /\ needThorn \cup moving = {}
    BY DEF ArenaInit
  <2> QED BY <1>1, <2>1, <2>2, <2>3 DEF OwnersOK, BallsBounded, Player
<1>4. RoomOK
  BY DEF ArenaInit, RoomOK, ClientSees
<1>5. RunOK
  BY ArenaAssumption DEF ArenaInit, RunOK, OnBalls, AtThorn
<1> QED BY <1>2, <1>3, <1>4, <1>5 DEF ArenaInv

LEMMA NextKeeps == ArenaInv /\ [ArenaNext]_arenaVars => ArenaInv'
<1> SUFFICES ASSUME ArenaInv, [ArenaNext]_arenaVars PROVE ArenaInv'
  OBVIOUS
<1>1. ASSUME NEW u \in User, EnterRoom(u) \/ Disconnect(u) \/ Move(u) \/ Stop(u) \/ Request(u)
      PROVE  ArenaInv'
  BY <1>1, EnterRoomKeeps, DisconnectKeeps, MoveKeeps, RequestKeeps
<1>2. ASSUME NEW o \in Ball, EnterRelives(o) \/ ProcessThorn(o) \/ Eat(o)
      PROVE  ArenaInv'
  BY <1>2, EnterRelivesKeeps, ProcessThornKeeps, EatKeeps
<1>3. ASSUME NEW o \in Ball, NEW p \in Ball, SpitOrSplit(o, p) \/ ReplaceThorn(o, p)
      PROVE  ArenaInv'
  BY <1>3, SpitOrSplitKeeps, ReplaceThornKeeps
<1>4. CASE Requested \/ GameTick \/ Follow \/ RobotsMove \/ EatThorn \/ Collided \/ Look
  BY <1>4, RequestedKeeps, BeginTickKeeps, FollowKeeps, RobotsMoveKeeps, EatThornKeeps,
     CollidedKeeps, LookKeeps
<1>5. ASSUME NEW w \in Player, UpdatePlayer(w)
      PROVE  ArenaInv'
  BY <1>5, UpdatePlayerKeeps
<1>6. ASSUME NEW b \in Ball, Rests(b) \/ Travels(b)
      PROVE  ArenaInv'
  BY <1>6, RestsKeeps, TravelsKeeps
<1>7. CASE Updated \/ Notified
  BY <1>7, UpdatedKeeps
<1>8. ASSUME NEW u \in User, Notify(u)
      PROVE  ArenaInv'
  BY <1>8, NotifyUserKeeps
<1>9. CASE UNCHANGED arenaVars
  <2>1. /\ UNCHANGED <<visionVars, owner, thorns, needThorn, moving, stop>>
        /\ UNCHANGED <<room, run>>
    BY <1>9 DEF arenaVars, game, flags
  <2>2. needThorn' \cup moving' \subseteq {o \in Ball : owner[o] \in Player}
    BY <2>1 DEF ArenaInv, OwnersOK
  <2>3. /\ VisionSafe' /\ OwnersOK' /\ UNCHANGED <<viewPort, player, client>>
        /\ \A w : Balls(w)' = Balls(w) /\ ballCount(w)' = ballCount(w)
        /\ \A u : Visible(u)' = Visible(u)
    BY <2>1, <2>2, Still DEF ArenaInv
  <2>4. RoomOK'
    BY <2>1, <2>3 DEF ArenaInv, RoomOK, ClientSees, room, run
  <2>5. RunOK'
    BY <2>1, <2>3 DEF ArenaInv, RunOK, run
  <2> QED BY <2>3, <2>4, <2>5 DEF ArenaInv
<1> QED BY <1>1, <1>2, <1>3, <1>4, <1>5, <1>6, <1>7, <1>8, <1>9 DEF ArenaNext

(* In a room that nobody comes back to, for any number of users, robots,   *)
(* balls and blocks: users count the blocks that they share with balls     *)
(* right, clients are told of every ball once when it comes into sight and *)
(* once when it goes (vision.lua), what is in a block is the ball of       *)
(* somebody, and splits and thorns (ball.lua) make no player more balls    *)
(* than it may have.                                                       *)
THEOREM ArenaIsSafe == ~ReEnter /\ ArenaSpec => []ArenaSafe
<1>1. ArenaInv => ArenaSafe
  BY DEF ArenaInv, VisionSafe, OwnersOK, RoomOK, RunOK, ArenaSafe, ArenaTypeOK
<1> QED BY InitHolds, NextKeeps, <1>1, PTL DEF ArenaSpec

(* Under the same condition, whenever the clients are told, each client    *)
(* that has been told shows exactly the balls within its view port         *)
(* (NotifyBalls2Client).                                                   *)
THEOREM ClientsSeeWhatIsThere == ~ReEnter /\ ArenaSpec => []ClientSees
<1>1. ArenaInv => ClientSees
  BY DEF ArenaInv, RoomOK
<1> QED BY InitHolds, NextKeeps, <1>1, PTL DEF ArenaSpec
=============================================================================
